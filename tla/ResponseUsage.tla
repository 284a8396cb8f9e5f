----------------------------- MODULE ResponseUsage -----------------------------
(***************************************************************************)
(* ResponseUsageCollector (modules/transport/response_usage.rs): the token *)
(* counts a provider reports, picked out of a response as its chunks pass  *)
(* by, in bounded memory.                                                  *)
(*                                                                         *)
(* Bytes are the members of a small set; which lines of an event stream    *)
(* and which whole bodies report usage, and how much, is given by the      *)
(* functions LineReports and BodyReports (usage_from_payload).             *)
(***************************************************************************)
EXTENDS Naturals, SequencesExt, FiniteSetsExt

CONSTANTS
  Chunks,       \* the pieces a response may arrive in
  Newline, Return,
  LineReports,  \* the data lines that report usage, without line ending
  BodyReports,  \* the JSON bodies that report usage
  Nothing,      \* no usage reported
  MaxLine,      \* MAX_SSE_LINE_BYTES
  MaxBody,      \* MAX_JSON_CAPTURE_BYTES
  MaxBytes      \* bound: how long a response gets

Byte == UNION {ToSet(chunk) : chunk \in Chunks}

ASSUME ResponseUsageAssumption ==
  /\ Chunks \subseteq Seq(Byte)
  /\ MaxLine \in Nat \ {0} /\ MaxBody \in Nat \ {0} /\ MaxBytes \in Nat
  /\ Newline # Return
  /\ <<>> \notin DOMAIN LineReports \cup DOMAIN BodyReports

VARIABLES
  mode,        \* "none" before the headers, "events" or "json", "finished"
  received,    \* every byte relayed so far
  held,        \* sse_line or json_capture
  overflowed,  \* sse_line_overflowed or json_overflowed
  usage        \* the usage seen last

usageVars == <<mode, received, held, overflowed, usage>>

UsageInit ==
  /\ mode = "none"
  /\ received = <<>>
  /\ held = <<>>
  /\ overflowed = FALSE
  /\ usage = Nothing

\* is_event_stream_response
Headers ==
  /\ mode = "none"
  /\ mode' \in {"events", "json"}
  /\ UNCHANGED <<received, held, overflowed, usage>>

-----------------------------------------------------------------------------
(* An event stream, byte by byte *)

Text(line) == IF line # <<>> /\ Last(line) = Return THEN Front(line) ELSE line

\* A line that reports nothing leaves what was seen before.
Seen(line, before) ==
  IF Text(line) \in DOMAIN LineReports THEN LineReports[Text(line)] ELSE before

\* Mutant: after a line that is too long no other is looked at.
ObserveByteSticky(state, byte) ==
  IF byte = Newline /\ ~state.overflowed
  THEN [held |-> <<>>, overflowed |-> FALSE, usage |-> Seen(state.held, state.usage)]
  ELSE IF state.overflowed THEN state
  ELSE IF Len(state.held) >= MaxLine THEN [state EXCEPT !.held = <<>>, !.overflowed = TRUE]
  ELSE [state EXCEPT !.held = Append(@, byte)]

\* Mutant: the limit is one byte too late.
ObserveByteLate(state, byte) ==
  IF byte = Newline
  THEN [held |-> <<>>, overflowed |-> FALSE,
        usage |-> IF state.overflowed THEN state.usage ELSE Seen(state.held, state.usage)]
  ELSE IF state.overflowed THEN state
  ELSE IF Len(state.held) > MaxLine THEN [state EXCEPT !.held = <<>>, !.overflowed = TRUE]
  ELSE [state EXCEPT !.held = Append(@, byte)]

ObserveByte(state, byte) ==
  IF byte = Newline
  THEN [held |-> <<>>, overflowed |-> FALSE,
        usage |-> IF state.overflowed THEN state.usage ELSE Seen(state.held, state.usage)]
  ELSE IF state.overflowed THEN state
  ELSE IF Len(state.held) >= MaxLine THEN [state EXCEPT !.held = <<>>, !.overflowed = TRUE]
  ELSE [state EXCEPT !.held = Append(@, byte)]

MayReceive(chunk) == Len(received) + Len(chunk) <= MaxBytes

ObserveEvents ==
  /\ mode = "events"
  /\ \E chunk \in Chunks :
       /\ MayReceive(chunk)
       /\ received' = received \o chunk
       /\ LET after == FoldLeft(ObserveByte,
                         [held |-> held, overflowed |-> overflowed, usage |-> usage], chunk)
          IN  held' = after.held /\ overflowed' = after.overflowed /\ usage' = after.usage
  /\ UNCHANGED mode

-----------------------------------------------------------------------------
(* A JSON body, captured whole *)

ObserveJson ==
  /\ mode = "json"
  /\ \E chunk \in Chunks :
       /\ MayReceive(chunk)
       /\ received' = received \o chunk
       /\ overflowed' = (overflowed \/ Len(held) + Len(chunk) > MaxBody)
       /\ held' = IF overflowed' THEN <<>> ELSE held \o chunk
  /\ UNCHANGED <<mode, usage>>

\* The stream ended or broke; an unfinished line counts.
Finish ==
  /\ mode \in {"events", "json"}
  /\ mode' = "finished"
  /\ usage' = IF overflowed THEN usage
              ELSE IF mode = "events" THEN Seen(held, usage)
              ELSE IF held \in DOMAIN BodyReports THEN BodyReports[held] ELSE Nothing
  /\ UNCHANGED <<received, held, overflowed>>

UsageNext == Headers \/ ObserveEvents \/ ObserveJson \/ Finish

UsageSpec == UsageInit /\ [][UsageNext]_usageVars

-----------------------------------------------------------------------------
(* Properties *)

\* The lines of a response: what stands between two newlines, or the ends.
Newlines(bytes) == {i \in DOMAIN bytes : bytes[i] = Newline}
Ends(bytes) == Newlines(bytes) \cup {Len(bytes) + 1}
LineTo(bytes, j) == SubSeq(bytes, Max({i \in Newlines(bytes) : i < j} \cup {0}) + 1, j - 1)

Reports(line) == Len(line) <= MaxLine /\ Text(line) \in DOMAIN LineReports
Reporting(bytes, ends) == {j \in ends : Reports(LineTo(bytes, j))}

LastReported(bytes, ends) ==
  LET reporting == Reporting(bytes, ends)
  IN  IF reporting = {} THEN Nothing
      ELSE LineReports[Text(LineTo(bytes, Max(reporting)))]

WholeReported ==
  IF Len(received) <= MaxBody /\ received \in DOMAIN BodyReports
  THEN BodyReports[received] ELSE Nothing

\* However a response is cut into chunks, and however long the lines before,
\* what is reported is what the last line of at most MaxLine bytes, or the
\* whole body of at most MaxBody, says (finish and observe).
UsageOfWhole ==
  [][mode' = "finished" =>
       usage' = IF mode = "events" THEN LastReported(received, Ends(received))
                ELSE WholeReported]_usageVars

\* Of a response no more than the limits is ever held.
HeldBounded ==
  Len(held) <= IF mode = "events" THEN MaxLine
               ELSE IF mode = "json" THEN MaxBody ELSE Len(received)
=============================================================================
