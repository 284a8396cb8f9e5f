------------------------------ MODULE MCExchange ------------------------------
(* How a request is admitted, what is done to its body and to the encodings it *)
(* came in, what is read off the response and what is read off a receipt.      *)
(* None depends on another, so each moves with the rest standing still: the    *)
(* gate and the encodings from the start, the others once the gate is closed.  *)
EXTENDS MCDrainGate, RequestPreparation, ContentEncodings, ResponseUsage,
        ReceiptRecovery

(* Histories: a function tool with a short name, a custom tool with a long     *)
(* one, and outputs around every boundary.                                     *)

Item(type, callId, name, parts) ==
  [type |-> type, callId |-> callId, name |-> name, output |-> [parts |-> parts]]

MCNameBytes == [name \in {"sh", "patch", None} |->
                  IF name = "sh" THEN 1 ELSE IF name = "patch" THEN 3 ELSE 2]

MCItems ==
  { Item("function_call", "c1", "sh", <<>>),
    Item("custom_tool_call", "c2", "patch", <<>>),
    Item("function_call_output", "c1", None, <<6>>),
    Item("custom_tool_call_output", "c2", None, <<3, 4>>),
    Item("custom_tool_call_output", "c2", None, <<9, Media>>),
    Item("reasoning", None, None, <<>>),
    Item("user", None, None, <<>>) }

\* A frontier of one; and no frontier, with a threshold the output of six bytes
\* meets exactly.
MCPolicies ==
  { [enabled |-> TRUE, minBytes |-> 4, frontier |-> 1, preview |-> 1],
    [enabled |-> TRUE, minBytes |-> 6, frontier |-> 0, preview |-> 1],
    [enabled |-> FALSE, minBytes |-> 4, frontier |-> 1, preview |-> 1] }

MCEnvelopes ==
  {[path |-> "responses", codec |-> codec, hasInput |-> TRUE] : codec \in Codecs}
    \cup {[path |-> "responses", codec |-> "good", hasInput |-> FALSE]}
    \cup {[path |-> "compact", codec |-> codec, hasInput |-> TRUE] : codec \in {"good", "broken"}}
    \cup {[path |-> "other", codec |-> "good", hasInput |-> TRUE]}
-----------------------------------------------------------------------------
(* Encodings: gzip under two names, another format, one nobody knows *)

MCFormat == ("gzip" :> "gzip") @@ ("x-gzip" :> "gzip") @@ ("zstd" :> "zstd")

MCCodings == {"gzip", "x-gzip", "zstd", "identity", "other"}

MCFields ==
  {<<>>} \cup {<<codings>> : codings \in UNION {[1 .. n -> MCCodings] : n \in 1 .. 3}}
    \cup {<<<<a>>, <<b>>>> : a, b \in MCCodings}

MCStacks ==
  UNION {[1 .. n -> [format : {"gzip", "zstd", "other"}, length : {7, 8}]] : n \in 0 .. 2}
-----------------------------------------------------------------------------
(* Responses *)

MCSequences(S, n) == UNION {[1 .. k -> S] : k \in 1 .. n}

MCChunks == MCSequences({"newline", "return", "u", "v"}, 2)

\* The last line is too long for a limit of three bytes.
MCLineReports ==
  (<<"u">> :> 1) @@ (<<"u", "v">> :> 2) @@ (<<"v", "v", "v", "v">> :> 3)

\* The last body is too long for a limit of four bytes.
MCBodyReports ==
  (<<"u">> :> 1) @@ (<<"u", "v", "return", "newline">> :> 2)
    @@ (<<"u", "v", "v", "return", "newline">> :> 3)

-----------------------------------------------------------------------------
(* Texts of up to five symbols; a wide character is outside the basic plane    *)

MCBytes == ("a" :> 1) @@ ("wide" :> 4) @@ ("begin" :> 2) @@ ("omitted" :> 2) @@ ("end" :> 2)

MCUnits == [MCBytes EXCEPT !["wide"] = 2]

MCTexts == MCSequences({"a", "wide", "begin", "omitted"}, 5)

MCCandidates ==
  { <<"wide", "wide", "wide", "wide">>, <<"wide", "wide", "begin", "omitted", "wide">>,
    <<"a", "a">> }
-----------------------------------------------------------------------------

MCInit == Init /\ RequestInit /\ EncodingInit /\ UsageInit /\ RecoveryInit

\* A body at rest is one of those that are forwarded, and no more is made of it.
EncodingAtRest == fields = <<>> /\ body.layers = <<>> /\ onward = NoValue

\* Closed for good, after every request has found another inside.
Drained ==
  /\ control = "closed" /\ buffer = <<>>
  /\ In({"out"}) = Requests
  /\ \A r \in Requests : counted[r] = 1

MCNext ==
  \/ /\ RequestInit /\ EncodingAtRest /\ UsageInit /\ RecoveryInit
     /\ Next /\ UNCHANGED <<requestVars, encodingVars, usageVars, recoveryVars>>
  \/ /\ Drained /\ EncodingAtRest /\ UsageInit /\ RecoveryInit
     /\ RequestNext /\ UNCHANGED <<vars, encodingVars, usageVars, recoveryVars>>
  \/ /\ Init /\ RequestInit /\ UsageInit /\ RecoveryInit
     /\ EncodingNext /\ UNCHANGED <<vars, requestVars, usageVars, recoveryVars>>
  \/ /\ Drained /\ RequestInit /\ EncodingAtRest /\ RecoveryInit
     /\ UsageNext /\ UNCHANGED <<vars, requestVars, encodingVars, recoveryVars>>
  \/ /\ Drained /\ RequestInit /\ EncodingAtRest /\ UsageInit
     /\ RecoveryNext /\ UNCHANGED <<vars, requestVars, encodingVars, usageVars>>

MCSpec ==
  MCInit /\ [][MCNext]_<<vars, requestVars, encodingVars, usageVars, recoveryVars>>
=============================================================================
