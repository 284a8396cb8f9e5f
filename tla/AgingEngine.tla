------------------------------ MODULE AgingEngine ------------------------------
(***************************************************************************)
(* age_tool_results (modules/aging/engine.rs) and the history it reads     *)
(* (modules/aging/model.rs).  A text is its length in bytes: the engine    *)
(* compares nothing else, and the digest and the previews of a receipt are *)
(* functions of the text.  A receipt is kept as what it is built from; its *)
(* length is that of build_receipt (modules/aging/receipt.rs), the fixed   *)
(* wording counted as Overhead.                                            *)
(***************************************************************************)
EXTENDS Integers, Sequences, SequencesExt, FiniteSets

CONSTANTS
  Overhead,    \* the bytes of a receipt that no result changes
  NameBytes    \* how long each tool's name is; None is "the preceding tool"

None == "none"

ASSUME AgingEngineAssumption ==
  /\ Overhead \in Nat
  /\ \A name \in DOMAIN NameBytes : NameBytes[name] \in Nat
  /\ None \in DOMAIN NameBytes

Unsupported == -1   \* the length of an output that is not pure text

-----------------------------------------------------------------------------
(* A normalized history item: [kind, family, callId, name, bytes] *)

ModelActions == {"FunctionCall", "CustomToolCall", "AssistantMessage", "Reasoning"}

IsModelAction(item) == item.kind \in ModelActions

IsToolResult(item) == item.kind = "ToolResult"

\* tool_call_identity
NamesItsCall(item) ==
  /\ item.kind \in {"FunctionCall", "CustomToolCall"}
  /\ item.callId # None
  /\ item.name # None

-----------------------------------------------------------------------------
(* What age_tool_results computes before it looks at any result *)

\* Mutant: only the last item of the history decides.
ActedAfterLast(input) ==
  [i \in DOMAIN input |-> i < Len(input) /\ IsModelAction(input[Len(input)])]

\* acted_after_map: one pass from the end, carrying "a model action was seen".
ActedAfter(input) ==
  LET seen[i \in 0 .. Len(input)] ==
        IF i = Len(input) THEN FALSE
        ELSE IF IsModelAction(input[i + 1]) THEN TRUE ELSE seen[i + 1]
  IN  [i \in DOMAIN input |-> seen[i]]

ResultIndexes(input) ==
  LET upTo[k \in 0 .. Len(input)] ==
        IF k = 0 THEN <<>>
        ELSE IF IsToolResult(input[k]) THEN Append(upTo[k - 1], k) ELSE upTo[k - 1]
  IN  upTo[Len(input)]

\* Mutant: one result too many is protected.
ProtectedOneMore(input, frontier) ==
  LET indexes == ResultIndexes(input)
  IN  {indexes[k] : k \in {k \in DOMAIN indexes : k >= Len(indexes) - frontier}}

\* protected_tool_result_indexes
Protected(input, frontier) ==
  LET indexes == ResultIndexes(input)
  IN  {indexes[k] : k \in {k \in DOMAIN indexes : k > Len(indexes) - frontier}}

\* call_name_map: a later insert replaces an earlier one.
CallNames(input) ==
  FoldLeft(LAMBDA names, item :
             IF NamesItsCall(item)
             THEN [id \in DOMAIN names \cup {item.callId} |->
                     IF id = item.callId THEN item.name ELSE names[id]]
             ELSE names,
           [id \in {} |-> None], input)

\* build_receipt: each edge shows at most "preview" of the text, and the two
\* edges of a short text overlap.
Receipt(bytes, name, preview) ==
  LET edge == IF bytes < preview THEN bytes ELSE preview
  IN  [original |-> bytes, name |-> name, edge |-> edge,
       length |-> Overhead + NameBytes[name] + 2 * edge]

-----------------------------------------------------------------------------
(* The loop of age_tool_results *)

\* What the first passes found, computed once per history.
Passes(input, policy) ==
  [acted |-> ActedAfter(input),
   protected |-> Protected(input, policy.frontier),
   names |-> CallNames(input)]

Evaluation(item, i, passes, policy) ==
  LET name == IF item.callId \in DOMAIN passes.names THEN passes.names[item.callId]
              ELSE None
      receipt == Receipt(item.bytes, name, policy.preview)
      decision ==
        IF i \in passes.protected THEN "ProtectedFrontier"
        ELSE IF item.bytes = Unsupported THEN "UnsupportedOutput"
        ELSE IF item.bytes <= policy.minBytes THEN "AtOrBelowThreshold"
        ELSE IF ~passes.acted[i] THEN "Unconsumed"
        ELSE IF receipt.length >= item.bytes THEN "ReceiptNotSmaller"
        ELSE "Aged"
  IN  [index |-> i, family |-> item.family, callId |-> item.callId,
       decision |-> decision, receipt |-> receipt]

NothingAged ==
  [evaluations |-> <<>>, replacements |-> <<>>, evaluated |-> 0, eligible |-> 0,
   aged |-> 0, before |-> 0, after |-> 0, saved |-> 0]

\* One turn of the loop.
Turn(result, item, i, passes, policy) ==
  LET e == Evaluation(item, i, passes, policy)
      eligible == e.decision \in {"Aged", "ReceiptNotSmaller"}
      aged == e.decision = "Aged"
  IN  IF ~IsToolResult(item) THEN result
      ELSE [evaluations |-> Append(result.evaluations, e),
            replacements |-> IF aged THEN Append(result.replacements, e)
                             ELSE result.replacements,
            evaluated |-> result.evaluated + 1,
            eligible |-> result.eligible + IF eligible THEN 1 ELSE 0,
            aged |-> result.aged + IF aged THEN 1 ELSE 0,
            before |-> result.before + IF aged THEN e.receipt.original ELSE 0,
            after |-> result.after + IF aged THEN e.receipt.length ELSE 0,
            saved |-> 0]

AgeToolResults(input, policy) ==
  LET passes == Passes(input, policy)
      upTo[k \in 0 .. Len(input)] ==
        IF k = 0 THEN NothingAged ELSE Turn(upTo[k - 1], input[k], k, passes, policy)
      result == upTo[Len(input)]
  IN  IF ~policy.enabled \/ input = <<>> THEN NothingAged
      ELSE [result EXCEPT !.saved = IF result.before > result.after
                                    THEN result.before - result.after ELSE 0]

-----------------------------------------------------------------------------
(* The reference: README.md's invariants 1 to 4 and 6 by quantifiers over  *)
(* the history, with none of the engine's passes                           *)

LaterResults(input, i) == {j \in DOMAIN input : j > i /\ IsToolResult(input[j])}

ToolOf(input, i) ==
  LET calls == {j \in DOMAIN input :
                  NamesItsCall(input[j]) /\ input[j].callId = input[i].callId}
  IN  IF calls = {} THEN None
      ELSE input[CHOOSE j \in calls : \A k \in calls : k <= j].name

MayAge(input, policy, i) ==
  /\ policy.enabled
  /\ IsToolResult(input[i])
  /\ input[i].bytes # Unsupported
  /\ input[i].bytes > policy.minBytes
  /\ \E j \in DOMAIN input : j > i /\ IsModelAction(input[j])
  /\ Cardinality(LaterResults(input, i)) >= policy.frontier

Shrinks(input, policy, i) ==
  Receipt(input[i].bytes, ToolOf(input, i), policy.preview).length < input[i].bytes
=============================================================================
