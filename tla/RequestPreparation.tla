--------------------------- MODULE RequestPreparation ---------------------------
(***************************************************************************)
(* prepare_responses_body (modules/transport/request.rs) as the client's   *)
(* history grows from request to request: what leaves for the provider,    *)
(* and what the diagnostics say of it.                                     *)
(*                                                                         *)
(* A body is what its JSON and its content encoding decode to.  "codec"    *)
(* says whether it can be decoded ("broken" if not) and encoded again      *)
(* ("oneway" if not).  The client's history lives in Codex and grows; one  *)
(* cut back to an earlier turn is the history of another behaviour here,   *)
(* since a request depends on nothing an earlier request left behind.      *)
(***************************************************************************)
EXTENDS AgingEngine

CONSTANTS
  Items,      \* the items a client may add: [type, callId, name, output]
  Envelopes,  \* how it may send them: [path, codec, hasInput]
  Policies,   \* aging policies: [enabled, minBytes, frontier, preview]
  MaxItems    \* bound: how long the history gets

VARIABLES
  input,    \* the client's history
  policy,   \* TransportState.aging_policy
  sent      \* the last request: [body, policy, prepared], or NotYet

requestVars == <<input, policy, sent>>

Media == -1   \* a part of an output that is not text

Calls == {"function_call", "custom_tool_call"}
Results == {"function_call_output", "custom_tool_call_output"}

Paths == {"responses", "compact", "other"}
Codecs == {"good", "oneway", "broken"}

ASSUME RequestPreparationAssumption ==
  /\ Items \subseteq [type : STRING, callId : STRING, name : DOMAIN NameBytes,
                      output : [parts : Seq(Nat \cup {Media})]]
  /\ Envelopes \subseteq [path : Paths, codec : Codecs, hasInput : BOOLEAN]
  /\ Policies \subseteq [enabled : BOOLEAN, minBytes : Nat, frontier : Nat, preview : Nat]
  /\ MaxItems \in Nat

-----------------------------------------------------------------------------
(* From JSON to the engine *)

\* normalize_output and textual_byte_len: an output, which a client sends as
\* [parts], is text when all its parts are.
TextBytes(output) ==
  IF \E k \in DOMAIN output.parts : output.parts[k] = Media THEN Unsupported
  ELSE FoldLeft(LAMBDA sum, part : sum + part, 0, output.parts)

FamilyOf(type) == IF type = "custom_tool_call_output" THEN "Custom" ELSE "Function"

\* normalize_history_item
Normalize(item) ==
  [kind |-> CASE item.type = "function_call" -> "FunctionCall"
              [] item.type = "custom_tool_call" -> "CustomToolCall"
              [] item.type \in Results -> "ToolResult"
              [] item.type = "reasoning" -> "Reasoning"
              [] item.type = "assistant" -> "AssistantMessage"
              [] OTHER -> "Other",
   family |-> FamilyOf(item.type),
   callId |-> item.callId,
   name |-> item.name,
   bytes |-> IF item.type \in Results THEN TextBytes(item.output) ELSE Unsupported]

Normalized(items) == [i \in DOMAIN items |-> Normalize(items[i])]

SkipReasons ==
  {"ProtectedFrontier", "UnsupportedOutput", "AtOrBelowThreshold", "Unconsumed",
   "ReceiptNotSmaller"}

\* inspect_request: a pass of its own over the JSON.
CountOf(items, types) == Cardinality({i \in DOMAIN items : items[i].type \in types})

\* Mutant: results of custom tools are not counted.
InspectedFunctions(body) ==
  LET items == IF body.hasInput THEN body.items ELSE <<>>
  IN  [items |-> Len(items),
       calls |-> CountOf(items, Calls),
       results |-> CountOf(items, {"function_call_output"}),
       ran |-> FALSE,
       skipped |-> [reason \in SkipReasons |-> 0]]

Inspected(body) ==
  LET items == IF body.hasInput THEN body.items ELSE <<>>
  IN  [items |-> Len(items),
       calls |-> CountOf(items, Calls),
       results |-> CountOf(items, Results),
       ran |-> FALSE,
       skipped |-> [reason \in SkipReasons |-> 0]]

\* apply_aging_diagnostics
WithAging(diagnostics, aging) ==
  [diagnostics EXCEPT !.ran = TRUE,
     !.skipped = [reason \in SkipReasons |->
       Cardinality({k \in DOMAIN aging.evaluations : aging.evaluations[k].decision = reason})]]

\* Mutant: only results of function tools are recognised.
StillMatchesFunctions(item, replacement) ==
  /\ item.type = "function_call_output"
  /\ item.callId = replacement.callId

\* replacement_still_matches
StillMatches(item, replacement) ==
  /\ item.type \in Results
  /\ FamilyOf(item.type) = replacement.family
  /\ item.callId = replacement.callId

\* The loop that writes receipts into "input", until one does not match.
Rewritten(items, replacements) ==
  FoldLeft(LAMBDA out, r :
             IF out.ok /\ StillMatches(out.items[r.index], r)
             THEN [out EXCEPT !.items = [@ EXCEPT ![r.index].output = r.receipt]]
             ELSE [out EXCEPT !.ok = FALSE],
           [ok |-> TRUE, items |-> items], replacements)

-----------------------------------------------------------------------------
(* prepare_responses_body *)

NoDiagnostics == [items |-> 0, calls |-> 0, results |-> 0, ran |-> FALSE,
                  skipped |-> [reason \in SkipReasons |-> 0]]

Original(body, outcome, aging, diagnostics) ==
  [outcome |-> outcome, body |-> body, changed |-> FALSE,
   aging |-> aging, diagnostics |-> diagnostics]

Undecodable(body, p) ==
  Original(body,
    IF body.path = "compact" THEN "CompactionBypass"
    ELSE IF ~p.enabled THEN "Disabled" ELSE "FailOriginal",
    NothingAged, NoDiagnostics)

AgedBody(body, p) ==
  LET aging == AgeToolResults(Normalized(body.items), p)
      diagnostics == WithAging(Inspected(body), aging)
      rewritten == Rewritten(body.items, aging.replacements)
  IN  IF aging.replacements = <<>>
      THEN Original(body, IF aging.eligible > 0 THEN "EvaluatedNoSavings"
                          ELSE "EvaluatedNoEligibleResult", aging, diagnostics)
      ELSE IF ~rewritten.ok \/ body.codec = "oneway"
      THEN Original(body, "FailOriginal", NothingAged, diagnostics)
      ELSE [outcome |-> "Aged", body |-> [body EXCEPT !.items = rewritten.items],
            changed |-> TRUE, aging |-> aging, diagnostics |-> diagnostics]

\* Mutant: a compaction is prepared like any other request.
PrepareCompactions(body, p) ==
  IF body.path = "other"
  THEN Original(body, "NativePassthrough", NothingAged, NoDiagnostics)
  ELSE IF body.codec = "broken" THEN Undecodable(body, p)
  ELSE IF ~p.enabled \/ ~body.hasInput
  THEN Original(body, "Disabled", NothingAged, Inspected(body))
  ELSE AgedBody(body, p)

Prepare(body, p) ==
  IF body.path = "other"
  THEN Original(body, "NativePassthrough", NothingAged, NoDiagnostics)
  ELSE IF body.codec = "broken" THEN Undecodable(body, p)
  ELSE IF body.path = "compact"
  THEN Original(body, "CompactionBypass", NothingAged, Inspected(body))
  ELSE IF ~p.enabled THEN Original(body, "Disabled", NothingAged, Inspected(body))
  ELSE IF ~body.hasInput
  THEN Original(body, "EvaluatedNoEligibleResult", NothingAged,
                [Inspected(body) EXCEPT !.ran = TRUE])
  ELSE AgedBody(body, p)

-----------------------------------------------------------------------------
(* A conversation *)

NotYet == [outcome |-> "none"]

RequestInit == input = <<>> /\ policy \in Policies /\ sent = NotYet

\* Codex gives every call an id no earlier item has.
Fresh(item) ==
  item.type \in Calls /\ item.callId # None =>
    \A i \in DOMAIN input : input[i].callId # item.callId

Extend ==
  /\ Len(input) < MaxItems
  /\ \E item \in Items : Fresh(item) /\ input' = Append(input, item)
  /\ UNCHANGED <<policy, sent>>

SetPolicy ==
  /\ policy' \in Policies \ {policy}
  /\ UNCHANGED <<input, sent>>

\* A request prepared under the policy in force once its body is read.
Send ==
  /\ \E e \in Envelopes :
       LET body == [path |-> e.path, codec |-> e.codec, hasInput |-> e.hasInput,
                    items |-> input]
       IN  sent' = [body |-> body, policy |-> policy, prepared |-> Prepare(body, policy)]
  /\ UNCHANGED <<input, policy>>

RequestNext == Extend \/ SetPolicy \/ Send

RequestSpec == RequestInit /\ [][RequestNext]_requestVars

-----------------------------------------------------------------------------
(* Properties *)

\* age_tool_results replaces exactly the results README.md's invariants 1 to 4
\* and 6 allow: consumed by a later model action, outside the newest results,
\* pure text, over the threshold, and longer than their receipt.  Its passes
\* (a flag carried from the end, the last indexes, a map of names) agree with
\* those conditions on every history.
EngineMeetsReference ==
  LET items == Normalized(input)
      aging == AgeToolResults(items, policy)
  IN  {aging.replacements[k].index : k \in DOMAIN aging.replacements}
        = {i \in DOMAIN items : MayAge(items, policy, i) /\ Shrinks(items, policy, i)}

Was == sent.body
Left == sent.prepared.body

\* What leaves differs from what the client sent only in outputs of tool results
\* that may age, each replaced by a shorter receipt of its own text that names
\* the tool of its own call; and only on the Responses path with saving on.
OnlyAgedOutputsDiffer ==
  sent # NotYet =>
    LET items == Normalized(Was.items)
        changed == {i \in DOMAIN items : Left.items[i] # Was.items[i]}
    IN  /\ Left = [Was EXCEPT !.items = Left.items]
        /\ DOMAIN Left.items = DOMAIN Was.items
        /\ sent.prepared.changed <=> changed # {}
        /\ changed # {} => Was.path = "responses" /\ Was.codec = "good" /\ sent.policy.enabled
        /\ \A i \in changed :
             /\ MayAge(items, sent.policy, i)
             /\ LET receipt == Left.items[i].output
                IN  /\ Left.items[i] = [Was.items[i] EXCEPT !.output = receipt]
                    /\ receipt.original = items[i].bytes
                    /\ receipt.name = ToolOf(items, i)
                    /\ receipt.length < items[i].bytes

\* The outcome says what happened: nothing a policy, a path or a codec does not
\* explain is reported as a failure, so every replacement still matches the item
\* it was computed for, and "aged", "no savings" and "no eligible result" follow
\* the results that may age.
OutcomeExplained ==
  sent # NotYet =>
    LET items == IF Was.hasInput THEN Normalized(Was.items) ELSE <<>>
        may == {i \in DOMAIN items : MayAge(items, sent.policy, i)}
        shrinks == {i \in may : Shrinks(items, sent.policy, i)}
    IN  CASE sent.prepared.outcome = "FailOriginal" ->
               Was.codec = "broken" \/ (Was.codec = "oneway" /\ shrinks # {})
          [] sent.prepared.outcome = "Aged" -> shrinks # {}
          [] sent.prepared.outcome = "EvaluatedNoSavings" -> may # {} /\ shrinks = {}
          [] sent.prepared.outcome = "EvaluatedNoEligibleResult" -> may = {}
          [] sent.prepared.outcome = "Disabled" -> ~sent.policy.enabled
          [] sent.prepared.outcome \in {"CompactionBypass", "NativePassthrough"} ->
               Was.path # "responses"

\* The bytes that did not leave, item by item.
CutOf(was, left, i) ==
  IF left.items[i] = was.items[i] THEN 0
  ELSE Normalize(was.items[i]).bytes - left.items[i].output.length

BytesCut(was, left) ==
  LET sum[n \in 0 .. Len(was.items)] == IF n = 0 THEN 0 ELSE sum[n - 1] + CutOf(was, left, n)
  IN  sum[Len(was.items)]

\* Two passes count the same results: those inspect_request saw are those the
\* engine aged or skipped for one of its reasons, whenever the pass ran on an
\* input; and the bytes it claims to save are the bytes that did not leave.
DiagnosticsAddUp ==
  sent # NotYet =>
    LET d == sent.prepared.diagnostics
        skipped == d.skipped["ProtectedFrontier"] + d.skipped["UnsupportedOutput"]
                     + d.skipped["AtOrBelowThreshold"] + d.skipped["Unconsumed"]
                     + d.skipped["ReceiptNotSmaller"]
    IN  /\ sent.prepared.outcome \in {"Aged", "EvaluatedNoSavings", "EvaluatedNoEligibleResult"}
             => d.results = skipped + sent.prepared.aging.aged
        /\ sent.prepared.aging.saved = BytesCut(Was, Left)

Extends(longer, shorter) ==
  Len(longer) >= Len(shorter) /\ SubSeq(longer, 1, Len(shorter)) = shorter

\* Once a result is aged it stays aged, under the same receipt, in every later
\* request of the same conversation under the same policy: the prefix the
\* provider has seen does not change again as the history grows.
AgedStaysAged ==
  [][ /\ sent # NotYet /\ sent' # NotYet /\ sent' # sent
      /\ sent.policy = sent'.policy
      /\ Was.path = "responses" /\ Was' = [Was EXCEPT !.items = Was'.items]
      /\ Extends(Was'.items, Was.items)
      => \A i \in DOMAIN Was.items :
           Left.items[i] # Was.items[i] => Left'.items[i] = Left.items[i]
    ]_sent
=============================================================================
