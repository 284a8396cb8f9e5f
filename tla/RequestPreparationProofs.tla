------------------------ MODULE RequestPreparationProofs ------------------------
(***************************************************************************)
(* Proofs about AgingEngine and RequestPreparation, for every history, of  *)
(* any length, every policy and every envelope.                            *)
(*                                                                         *)
(* A loop of the code is a fold or a recursive function of the index.  The *)
(* lemma named for its trace turns it into the sequence of values the loop *)
(* goes through; the lemmas that follow say by induction along the trace   *)
(* what each value is.  From there on the passes are known only by the     *)
(* quantified conditions they amount to: EvaluationIs (one result),        *)
(* ReplacementsAre, CountsAddUp and SavedIs (the engine), RewrittenIs (the *)
(* items that leave), AgedBodyIs and PrepareIs (the request).              *)
(***************************************************************************)
EXTENDS RequestPreparation, FoldLemmas

\* A normalized item, and what a policy says.
Kinds == {"FunctionCall", "CustomToolCall", "ToolResult", "Reasoning", "AssistantMessage", "Other"}
Families == {"Function", "Custom"}
HistoryItems ==
  [kind : Kinds, family : Families, callId : STRING, name : DOMAIN NameBytes, bytes : Int]
PolicyType == [enabled : BOOLEAN, minBytes : Nat, frontier : Nat, preview : Nat]

-----------------------------------------------------------------------------
(* acted_after_map *)

LEMMA ActedAfterIs ==
  ASSUME NEW history \in Seq(HistoryItems), NEW i \in 1 .. Len(history)
  PROVE  ActedAfter(history)[i] <=>
           \E j \in i + 1 .. Len(history) : IsModelAction(history[j])
<1> DEFINE n == Len(history)
           F(f) == [k \in 0 .. n |-> IF k = n THEN FALSE
                                    ELSE IF IsModelAction(history[k + 1]) THEN TRUE
                                         ELSE f[k + 1]]
           seen == CHOOSE seen : seen = F(seen)
           Acts(k) == \E j \in k + 1 .. n : IsModelAction(history[j])
<1>1. n \in Nat /\ DOMAIN history = 1 .. n
  BY LenProperties
<1>2. ActedAfter(history)[i] = seen[i]
  BY <1>1 DEF ActedAfter
<1> HIDE DEF n
<1>3. \E f : f = F(f)
  <2> DEFINE f == [k \in 0 .. n |-> IF Acts(k) THEN TRUE ELSE FALSE]
  <2>1. ASSUME NEW k \in 0 .. n
        PROVE  f[k] = IF k = n THEN FALSE
                      ELSE IF IsModelAction(history[k + 1]) THEN TRUE ELSE f[k + 1]
    <3>1. CASE k = n
      <4>1. ~Acts(k)
        BY <1>1, <3>1
      <4> HIDE DEF Acts
      <4> QED
        BY <3>1, <4>1
    <3>2. CASE k # n /\ IsModelAction(history[k + 1])
      <4>1. k + 1 \in k + 1 .. n
        BY <1>1, <3>2
      <4>2. Acts(k)
        BY <3>2, <4>1
      <4> HIDE DEF Acts
      <4> QED
        BY <3>2, <4>2
    <3>3. CASE k # n /\ ~IsModelAction(history[k + 1])
      <4>1. k + 1 \in 0 .. n /\ \A j \in k + 1 .. n : j = k + 1 \/ j \in k + 1 + 1 .. n
        BY <1>1, <3>3
      <4>2. \A j \in k + 1 + 1 .. n : j \in k + 1 .. n
        BY <1>1
      <4>3. Acts(k) <=> Acts(k + 1)
        BY <3>3, <4>1, <4>2
      <4> HIDE DEF Acts
      <4> QED
        BY <3>3, <4>1, <4>3
    <3> QED
      BY <3>1, <3>2, <3>3
  <2>2. f = F(f)
    <3> HIDE DEF Acts
    <3>1. f = [k \in 0 .. n |-> f[k]]
      OBVIOUS
    <3> HIDE DEF f
    <3> QED
      BY <2>1, <3>1
  <2> QED
    BY <2>2
<1>4. seen = F(seen)
  BY <1>3
<1> HIDE DEF seen
<1>5. ASSUME NEW k \in 0 .. n
      PROVE  seen[k] = IF k = n THEN FALSE
                       ELSE IF IsModelAction(history[k + 1]) THEN TRUE ELSE seen[k + 1]
  BY <1>4
<1> HIDE DEF F
<1> DEFINE Right == {k \in 0 .. n : seen[n - k] <=> Acts(n - k)}
<1>6. 0 \in Right
  <2>1. n - 0 = n /\ n \in 0 .. n /\ n + 1 .. n = {}
    BY <1>1
  <2>2. ~Acts(n) /\ ~seen[n]
    BY <1>5, <2>1
  <2> QED
    BY <1>1, <2>1, <2>2
<1>7. ASSUME NEW k \in 0 .. n, k \in Right, k < n PROVE k + 1 \in Right
  <2> DEFINE m == n - (k + 1)
  <2>1. m \in 0 .. n /\ m # n /\ m + 1 = n - k /\ k + 1 \in 0 .. n
    BY <1>1, <1>7
  <2>2. seen[m + 1] <=> Acts(m + 1)
    BY <1>7, <2>1
  <2> HIDE DEF m
  <2>3. seen[m] = IF IsModelAction(history[m + 1]) THEN TRUE ELSE seen[m + 1]
    BY <1>5, <2>1
  <2>4. Acts(m) <=> IsModelAction(history[m + 1]) \/ Acts(m + 1)
    <3>1. \A j \in m + 1 .. n : j = m + 1 \/ j \in m + 1 + 1 .. n
      BY <1>1, <2>1
    <3>2. m + 1 \in m + 1 .. n /\ \A j \in m + 1 + 1 .. n : j \in m + 1 .. n
      BY <1>1, <2>1
    <3> QED
      BY <3>1, <3>2
  <2>5. seen[m] <=> Acts(m)
    BY <2>2, <2>3, <2>4
  <2> HIDE DEF Acts
  <2> QED
    BY <2>1, <2>5 DEF m
<1>8. n - i \in Right /\ n - (n - i) = i
  <2> HIDE DEF Right
  <2>1. 0 .. n \subseteq Right
    BY <1>1, <1>6, <1>7, InductionUpTo
  <2>2. n - i \in 0 .. n /\ n - (n - i) = i
    BY <1>1 DEF n
  <2> QED
    BY <2>1, <2>2
<1>9. seen[i] <=> Acts(i)
  <2> HIDE DEF Acts
  <2> QED
    BY <1>8
<1> QED
  BY <1>2, <1>9 DEF n

-----------------------------------------------------------------------------
(* The indexes of the results *)

ResultsTo(history, k) == {j \in 1 .. k : IsToolResult(history[j])}

LEMMA ResultsToNext ==
  ASSUME NEW history, NEW k \in Nat
  PROVE  /\ ResultsTo(history, 0) = {}
         /\ IsFiniteSet(ResultsTo(history, k)) /\ Cardinality(ResultsTo(history, k)) \in Nat
         /\ IsToolResult(history[k + 1]) =>
              /\ ResultsTo(history, k + 1) = ResultsTo(history, k) \cup {k + 1}
              /\ Cardinality(ResultsTo(history, k + 1)) = Cardinality(ResultsTo(history, k)) + 1
         /\ ~IsToolResult(history[k + 1]) => ResultsTo(history, k + 1) = ResultsTo(history, k)
<1>1. IsFiniteSet(1 .. k)
  BY FS_Interval
<1>2. IsFiniteSet(ResultsTo(history, k)) /\ Cardinality(ResultsTo(history, k)) \in Nat
  <2>1. ResultsTo(history, k) \subseteq 1 .. k
    BY DEF ResultsTo
  <2>2. IsFiniteSet(ResultsTo(history, k))
    BY <1>1, <2>1, FS_Subset
  <2> QED
    BY <2>2, FS_CardinalityType
<1>3. ResultsTo(history, 0) = {}
  BY DEF ResultsTo
<1>4. 1 .. k + 1 = (1 .. k) \cup {k + 1}
  OBVIOUS
<1>5. ASSUME IsToolResult(history[k + 1])
      PROVE  /\ ResultsTo(history, k + 1) = ResultsTo(history, k) \cup {k + 1}
             /\ Cardinality(ResultsTo(history, k + 1)) = Cardinality(ResultsTo(history, k)) + 1
  <2>1. ResultsTo(history, k + 1) = ResultsTo(history, k) \cup {k + 1}
    BY <1>4, <1>5 DEF ResultsTo
  <2>2. k + 1 \notin ResultsTo(history, k)
    BY DEF ResultsTo
  <2> QED
    BY <1>2, <2>1, <2>2, FS_AddElement
<1>6. ASSUME ~IsToolResult(history[k + 1])
      PROVE  ResultsTo(history, k + 1) = ResultsTo(history, k)
  BY <1>4, <1>6 DEF ResultsTo
<1> QED
  BY <1>2, <1>3, <1>5, <1>6

\* The step of ResultIndexes.
WithIndex(indexes, k, history) ==
  IF IsToolResult(history[k]) THEN Append(indexes, k) ELSE indexes

\* The indexes of the results up to each item.
LEMMA IndexesTrace ==
  ASSUME NEW history \in Seq(HistoryItems)
  PROVE  \E trace \in [0 .. Len(history) -> Seq(Nat)] :
           /\ trace[0] = <<>>
           /\ \A k \in 1 .. Len(history) : trace[k] = WithIndex(trace[k - 1], k, history)
           /\ ResultIndexes(history) = trace[Len(history)]
<1> DEFINE n == Len(history)
           base == <<>>
           step == [pair \in Seq(Nat) \X (1 .. n) |-> WithIndex(pair[1], pair[2], history)]
           F(f) == [k \in 0 .. n |-> IF k = 0 THEN base ELSE WithIndex(f[k - 1], k, history)]
           upTo == CHOOSE upTo : upTo = F(upTo)
<1>1. n \in Nat /\ base \in Seq(Nat)
  BY LenProperties, EmptySeq
<1>2. ResultIndexes(history) = upTo[n]
  BY DEF ResultIndexes, WithIndex
<1> HIDE DEF base, n
<1>3. ASSUME NEW a \in Seq(Nat), NEW k \in 1 .. n PROVE WithIndex(a, k, history) \in Seq(Nat)
  BY <1>1, AppendProperties DEF WithIndex
<1>4. step \in [Seq(Nat) \X (1 .. n) -> Seq(Nat)]
  BY <1>3
<1>5. \E f : f = F(f)
  <2>1. PICK f \in [0 .. n -> Seq(Nat)] : IsTrace(f, n, base, step)
    <3> HIDE DEF step
    <3> QED
      BY <1>1, <1>4, TraceExists
  <2>2. ASSUME NEW k \in 1 .. n PROVE f[k] = WithIndex(f[k - 1], k, history)
    <3>1. k - 1 \in 0 .. n
      BY <1>1
    <3>2. <<f[k - 1], k>> \in Seq(Nat) \X (1 .. n)
      BY <2>1, <3>1
    <3>3. step[<<f[k - 1], k>>] = WithIndex(f[k - 1], k, history)
      BY <3>2
    <3> HIDE DEF step
    <3> QED
      BY <2>1, <3>3 DEF IsTrace
  <2>3. f[0] = base /\ f \in [0 .. n -> Seq(Nat)]
    BY <2>1 DEF IsTrace
  <2>4. \A k \in 0 .. n : k = 0 \/ k \in 1 .. n
    BY <1>1
  <2>5. f = F(f)
    BY <2>2, <2>3, <2>4
  <2> QED
    BY <2>5
<1>6. upTo = F(upTo)
  BY <1>5
<1> HIDE DEF upTo
<1>7. upTo[0] = base /\ DOMAIN upTo = 0 .. n /\ upTo = [k \in 0 .. n |-> upTo[k]]
  BY <1>1, <1>6
<1>8. ASSUME NEW k \in 1 .. n PROVE upTo[k] = WithIndex(upTo[k - 1], k, history)
  <2>1. k \in 0 .. n /\ k # 0
    BY <1>1
  <2> QED
    BY <1>6, <2>1
<1> HIDE DEF F, step
<1>9. ASSUME NEW k \in 0 .. n PROVE upTo[k] \in Seq(Nat)
  <2> DEFINE Within == {i \in 0 .. n : upTo[i] \in Seq(Nat)}
  <2>1. 0 \in Within
    BY <1>1, <1>7
  <2>2. ASSUME NEW i \in 0 .. n, i \in Within, i < n PROVE i + 1 \in Within
    <3>1. i + 1 \in 1 .. n /\ i + 1 \in 0 .. n /\ (i + 1) - 1 = i /\ upTo[i] \in Seq(Nat)
      BY <1>1, <2>2
    <3>2. upTo[i + 1] = WithIndex(upTo[i], (i + 1), history)
      BY <1>8, <3>1
    <3>3. upTo[i + 1] \in Seq(Nat)
      BY <1>3, <3>1, <3>2
    <3> QED
      BY <3>1, <3>3
  <2> HIDE DEF Within
  <2>3. 0 .. n \subseteq Within
    BY <1>1, <2>1, <2>2, InductionUpTo
  <2> QED
    BY <2>3 DEF Within
<1>10. upTo \in [0 .. n -> Seq(Nat)]
  BY <1>7, <1>9
<1> QED
  BY <1>2, <1>7, <1>8, <1>10 DEF base, n

\* The indexes are those of the results, each at its place among them.
LEMMA IndexesAre ==
  ASSUME NEW history \in Seq(HistoryItems)
  PROVE  /\ ResultIndexes(history) \in Seq(Nat)
         /\ Len(ResultIndexes(history)) = Cardinality(ResultsTo(history, Len(history)))
         /\ \A m \in 1 .. Len(ResultIndexes(history)) :
              /\ ResultIndexes(history)[m] \in ResultsTo(history, Len(history))
              /\ Cardinality(ResultsTo(history, ResultIndexes(history)[m])) = m
         /\ \A i \in ResultsTo(history, Len(history)) :
              \E m \in 1 .. Len(ResultIndexes(history)) : ResultIndexes(history)[m] = i
<1> DEFINE n == Len(history)
           C(k) == Cardinality(ResultsTo(history, k))
<1>1. PICK a \in [0 .. n -> Seq(Nat)] :
        /\ a[0] = <<>>
        /\ \A k \in 1 .. n : a[k] = WithIndex(a[k - 1], k, history)
        /\ ResultIndexes(history) = a[n]
  BY IndexesTrace
<1>2. n \in Nat
  BY LenProperties
<1> HIDE DEF n
<1> DEFINE Right(s, k) ==
             /\ Len(s) = C(k)
             /\ \A m \in 1 .. Len(s) : s[m] \in ResultsTo(history, k) /\ C(s[m]) = m
             /\ \A i \in ResultsTo(history, k) : \E m \in 1 .. Len(s) : s[m] = i
           Kept == {k \in 0 .. n : Right(a[k], k)}
<1>3. 0 \in Kept
  <2>1. ResultsTo(history, 0) = {} /\ C(0) = 0
    BY ResultsToNext, FS_EmptySet
  <2>2. Len(a[0]) = 0 /\ 0 \in 0 .. n
    BY <1>1, <1>2, EmptySeq
  <2>3. Right(a[0], 0)
    BY <2>1, <2>2
  <2> HIDE DEF Right
  <2> QED
    BY <2>2, <2>3
<1>4. ASSUME NEW k \in 0 .. n, k \in Kept, k < n PROVE k + 1 \in Kept
  <2> DEFINE was == a[k]
             is == a[k + 1]
  <2>1. k + 1 \in 1 .. n /\ k + 1 \in 0 .. n /\ (k + 1) - 1 = k /\ k \in Nat
    BY <1>2, <1>4
  <2>2. is = WithIndex(was, k + 1, history) /\ was \in Seq(Nat)
    BY <1>1, <1>4, <2>1
  <2>3. Right(was, k)
    BY <1>4
  <2> HIDE DEF was, is
  <2>4. CASE ~IsToolResult(history[k + 1])
    <3>1. ResultsTo(history, k + 1) = ResultsTo(history, k) /\ is = was
      BY <2>1, <2>2, <2>4, ResultsToNext DEF WithIndex
    <3>2. Right(is, k + 1)
      BY <2>3, <3>1
    <3> HIDE DEF Right
    <3> QED
      BY <2>1, <3>2 DEF is
  <2>5. CASE IsToolResult(history[k + 1])
    <3>1. /\ ResultsTo(history, k + 1) = ResultsTo(history, k) \cup {k + 1}
          /\ C(k + 1) = C(k) + 1 /\ C(k) \in Nat
      BY <2>1, <2>5, ResultsToNext
    <3>2. is = Append(was, k + 1)
      BY <2>2, <2>5 DEF WithIndex
    <3>3. /\ Len(is) = Len(was) + 1 /\ is[Len(was) + 1] = k + 1 /\ Len(was) \in Nat
          /\ \A m \in 1 .. Len(was) : is[m] = was[m]
      <4> DEFINE x == k + 1
                 S == Nat
      <4>1. is = Append(was, x) /\ x \in S /\ was \in Seq(S)
        BY <2>1, <2>2, <3>2
      <4> HIDE DEF x, S
      <4>2. Len(is) = Len(was) + 1 /\ is[Len(was) + 1] = x
            /\ \A m \in 1 .. Len(was) : is[m] = was[m]
        BY <4>1, AppendProperties
      <4>3. Len(was) \in Nat
        BY <2>2, LenProperties
      <4> QED
        BY <4>2, <4>3 DEF x
    <3>4. Len(is) = C(k + 1)
      BY <2>3, <3>1, <3>3
    <3> DEFINE w == Len(was)
    <3>5. ASSUME NEW m \in 1 .. Len(is)
          PROVE  is[m] \in ResultsTo(history, k + 1) /\ C(is[m]) = m
      <4>1. m \in 1 .. Len(was) \/ m = Len(was) + 1
        BY <3>3
      <4>2. CASE m \in 1 .. Len(was)
        BY <2>3, <3>1, <3>3, <4>2
      <4>3. CASE m = Len(was) + 1
        <5>1. is[m] = k + 1 /\ C(k + 1) = m
          BY <3>3, <3>4, <4>3
        <5> QED
          BY <3>1, <5>1
      <4> QED
        BY <4>1, <4>2, <4>3
    <3>6. ASSUME NEW i \in ResultsTo(history, k + 1)
          PROVE  \E m \in 1 .. Len(is) : is[m] = i
      <4>1. CASE i \in ResultsTo(history, k)
        <5>1. PICK m \in 1 .. Len(was) : was[m] = i
          BY <2>3, <4>1
        <5>2. m \in 1 .. Len(is)
          BY <3>3
        <5> QED
          BY <3>3, <5>1, <5>2
      <4>2. CASE i = k + 1
        <5>1. Len(was) + 1 \in 1 .. Len(is)
          BY <3>3
        <5> QED
          BY <3>3, <4>2, <5>1
      <4> QED
        BY <3>1, <4>1, <4>2
    <3>7. Right(is, k + 1)
      BY <3>4, <3>5, <3>6
    <3> HIDE DEF Right
    <3> QED
      BY <2>1, <3>7 DEF is
  <2> QED
    BY <2>4, <2>5
<1>5. n \in Kept
  <2> HIDE DEF Kept
  <2>1. 0 .. n \subseteq Kept
    BY <1>2, <1>3, <1>4, InductionUpTo
  <2> QED
    BY <1>2, <2>1
<1>6. Right(a[n], n) /\ a[n] \in Seq(Nat)
  BY <1>1, <1>2, <1>5
<1> QED
  BY <1>1, <1>6 DEF n

\* protected_tool_result_indexes: the newest results, "frontier" of them.
LEMMA ProtectedIs ==
  ASSUME NEW history \in Seq(HistoryItems), NEW frontier \in Nat,
         NEW i \in 1 .. Len(history), IsToolResult(history[i])
  PROVE  i \in Protected(history, frontier) <=> Cardinality(LaterResults(history, i)) < frontier
<1> DEFINE n == Len(history)
           indexes == ResultIndexes(history)
           total == Len(indexes)
           C(k) == Cardinality(ResultsTo(history, k))
           later == LaterResults(history, i)
<1>1. n \in Nat /\ DOMAIN history = 1 .. n
  BY LenProperties
<1>2. /\ indexes \in Seq(Nat) /\ total = C(n)
      /\ \A m \in 1 .. total : indexes[m] \in ResultsTo(history, n) /\ C(indexes[m]) = m
      /\ \A k \in ResultsTo(history, n) : \E m \in 1 .. total : indexes[m] = k
  BY IndexesAre
<1>3. i \in ResultsTo(history, n)
  BY DEF ResultsTo
<1>4. DOMAIN indexes = 1 .. total /\ total \in Nat
  BY <1>2, LenProperties
<1>5. Protected(history, frontier)
        = {indexes[m] : m \in {m \in 1 .. total : m > total - frontier}}
  BY <1>4 DEF Protected
<1> HIDE DEF indexes
<1>6. PICK p \in 1 .. total : indexes[p] = i
  BY <1>2, <1>3
<1>7. C(i) = p
  BY <1>2, <1>6
<1>8. i \in Protected(history, frontier) <=> p > total - frontier
  <2>1. ASSUME NEW m \in 1 .. total, indexes[m] = i PROVE m = p
    <3>1. C(indexes[m]) = m
      BY <1>2
    <3> QED
      BY <1>7, <2>1, <3>1
  <2> QED
    BY <1>5, <1>6, <2>1
<1>9. C(n) = C(i) + Cardinality(later) /\ Cardinality(later) \in Nat
  <2>1. /\ IsFiniteSet(ResultsTo(history, i)) /\ IsFiniteSet(ResultsTo(history, n))
        /\ C(i) \in Nat /\ C(n) \in Nat
    BY <1>1, ResultsToNext
  <2>2. later \subseteq ResultsTo(history, n)
    BY <1>1 DEF LaterResults, ResultsTo
  <2>3. IsFiniteSet(later)
    BY <2>1, <2>2, FS_Subset
  <2>4. ResultsTo(history, n) = ResultsTo(history, i) \cup later
        /\ ResultsTo(history, i) \cap later = {}
    BY <1>1 DEF LaterResults, ResultsTo
  <2>5. Cardinality(later) \in Nat
    BY <2>3, FS_CardinalityType
  <2>6. C(n) = C(i) + Cardinality(later) - Cardinality({})
    <3>1. Cardinality(ResultsTo(history, i) \cup later)
            = Cardinality(ResultsTo(history, i)) + Cardinality(later)
                - Cardinality(ResultsTo(history, i) \cap later)
      BY <2>1, <2>3, FS_Union
    <3> QED
      BY <2>4, <3>1
  <2>7. Cardinality({}) = 0
    BY FS_EmptySet
  <2> HIDE DEF C, later
  <2> QED
    BY <2>1, <2>5, <2>6, <2>7
<1> HIDE DEF C, later, total
<1>10. p > total - frontier <=> Cardinality(later) < frontier
  BY <1>2, <1>4, <1>6, <1>7, <1>9
<1> QED
  BY <1>8, <1>10 DEF later

-----------------------------------------------------------------------------
(* call_name_map *)

\* The names of some calls.
NamesType == UNION {[ids -> DOMAIN NameBytes] : ids \in SUBSET STRING}

\* The step of CallNames.
WithName(names, item) ==
  IF NamesItsCall(item)
  THEN [id \in DOMAIN names \cup {item.callId} |->
          IF id = item.callId THEN item.name ELSE names[id]]
  ELSE names

LEMMA WithNameKeeps ==
  ASSUME NEW names \in NamesType, NEW item \in HistoryItems
  PROVE  WithName(names, item) \in NamesType
<1>1. PICK ids \in SUBSET STRING : names \in [ids -> DOMAIN NameBytes]
  BY DEF NamesType
<1>2. CASE NamesItsCall(item)
  <2> DEFINE more == ids \cup {item.callId}
  <2>1. item.callId \in STRING /\ item.name \in DOMAIN NameBytes
    BY DEF HistoryItems
  <2>2. WithName(names, item) \in [more -> DOMAIN NameBytes]
    BY <1>1, <1>2, <2>1 DEF WithName
  <2>3. more \in SUBSET STRING
    BY <2>1
  <2> HIDE DEF more
  <2> QED
    BY <2>2, <2>3 DEF NamesType
<1>3. CASE ~NamesItsCall(item)
  BY <1>3 DEF WithName
<1> QED
  BY <1>2, <1>3

LEMMA NoNames == [id \in {} |-> None] \in NamesType
<1>1. [id \in {} |-> None] \in [{} -> DOMAIN NameBytes] /\ {} \in SUBSET STRING
  OBVIOUS
<1> QED
  BY <1>1 DEF NamesType

\* The names known after each item.
LEMMA NamesTrace ==
  ASSUME NEW history \in Seq(HistoryItems)
  PROVE  \E trace \in [0 .. Len(history) -> NamesType] :
           /\ trace[0] = [i \in {} |-> None]
           /\ \A k \in 1 .. Len(history) : trace[k] = WithName(trace[k - 1], history[k])
           /\ CallNames(history) = trace[Len(history)]
<1> DEFINE n == Len(history)
           base == [i \in {} |-> None]
           step == [p \in NamesType \X (1 .. n) |-> WithName(p[1], history[p[2]])]
           jt == CHOOSE jt : jt = [u \in SUBSET (1 .. n) |->
                   IF u = {} THEN base ELSE WithName(jt[u \ {Max(u)}], history[Max(u)])]
<1>1. /\ n \in Nat /\ DOMAIN history = 1 .. n /\ \A k \in 1 .. n : history[k] \in HistoryItems
      /\ base \in NamesType
  BY LenProperties, ElementOfSeq, NoNames
<1> HIDE DEF base
<1>2. ASSUME NEW a \in NamesType, NEW k \in 1 .. n PROVE WithName(a, history[k]) \in NamesType
  BY <1>1, WithNameKeeps
<1>3. step \in [NamesType \X (1 .. n) -> NamesType]
  BY <1>2
<1>4. \E it : it = [u \in SUBSET (1 .. n) |->
                     IF u = {} THEN base ELSE WithName(it[u \ {Max(u)}], history[Max(u)])]
  <2>1. PICK it \in [SUBSET (1 .. n) -> NamesType] : Iterates(it, n, base, step)
    <3> HIDE DEF step, n
    <3> QED
      BY <1>1, <1>3, IterationExists
  <2>2. ASSUME NEW u \in SUBSET (1 .. n), u # {}
        PROVE  step[<<it[u \ {Max(u)}], Max(u)>>] = WithName(it[u \ {Max(u)}], history[Max(u)])
    <3>1. Max(u) \in 1 .. n /\ u \ {Max(u)} \in SUBSET (1 .. n)
      BY <1>1, <2>2, LargestIndex
    <3>2. <<it[u \ {Max(u)}], Max(u)>> \in NamesType \X (1 .. n)
      BY <2>1, <3>1
    <3> QED
      BY <3>2
  <2> HIDE DEF step
  <2>3. \A u \in SUBSET (1 .. n) : it[u] = IF u = {} THEN base
                                           ELSE WithName(it[u \ {Max(u)}], history[Max(u)])
    BY <2>1, <2>2 DEF Iterates
  <2> QED
    BY <2>1, <2>3
<1>5. jt = [u \in SUBSET (1 .. n) |->
              IF u = {} THEN base ELSE WithName(jt[u \ {Max(u)}], history[Max(u)])]
  BY <1>4
<1>6. CallNames(history) = jt[1 .. n]
  BY <1>1 DEF base, CallNames, WithName, FoldLeft, MapThenFoldSet
<1> HIDE DEF jt
<1>7. jt[{}] = base
  BY <1>5
<1>8. ASSUME NEW k \in 1 .. n PROVE jt[1 .. k] = WithName(jt[1 .. (k - 1)], history[k])
  <2>1. k \in Nat /\ k # 0 /\ 1 .. k \in SUBSET (1 .. n)
    BY <1>1
  <2>2. Max(1 .. k) = k /\ (1 .. k) \ {k} = 1 .. (k - 1) /\ 1 .. k # {}
    BY <2>1, MaxOfInterval
  <2> QED
    BY <1>5, <2>1, <2>2
<1>9. ASSUME NEW a \in NamesType, NEW k \in 1 .. n
       PROVE  step[<<a, k>>] \in NamesType /\ step[<<a, k>>] = WithName(a, history[k])
  BY <1>2
<1> HIDE DEF step
<1>10. PICK trace \in [0 .. n -> NamesType] :
         IsTrace(trace, n, base, step) /\ trace[n] = jt[1 .. n]
  <2> DEFINE Values == NamesType
  <2>1. StepsWithin(jt, n, Values, step)
    BY <1>8, <1>9 DEF StepsWithin
  <2>2. n \in Nat /\ base \in Values
    BY <1>1
  <2> HIDE DEF n, Values
  <2>3. \E trace \in [0 .. n -> Values] : IsTrace(trace, n, base, step) /\ trace[n] = jt[1 .. n]
    BY <1>7, <2>1, <2>2, TraceOfIteration
  <2> QED
    BY <2>3 DEF Values
<1>11. ASSUME NEW k \in 1 .. n PROVE trace[k] = WithName(trace[k - 1], history[k])
  <2>1. k - 1 \in 0 .. n
    BY <1>1
  <2> QED
    BY <1>9, <1>10, <2>1 DEF IsTrace
<1> QED
  BY <1>6, <1>10, <1>11 DEF IsTrace, base

CallsNamed(history, k, id) ==
  {j \in 1 .. k : NamesItsCall(history[j]) /\ history[j].callId = id}

\* The map knows the calls that named themselves, each by its last name.
LEMMA NamesAreTheLast ==
  ASSUME NEW history \in Seq(HistoryItems), NEW id \in STRING
  PROVE  LET calls == CallsNamed(history, Len(history), id)
         IN  /\ id \in DOMAIN CallNames(history) <=> calls # {}
             /\ calls # {} => \E j \in calls : /\ \A k \in calls : k <= j
                                               /\ CallNames(history)[id] = history[j].name
<1> DEFINE n == Len(history)
           calls(k) == CallsNamed(history, k, id)
           Right(names, k) ==
             /\ id \in DOMAIN names <=> calls(k) # {}
             /\ calls(k) # {} => \E j \in calls(k) : /\ \A m \in calls(k) : m <= j
                                                     /\ names[id] = history[j].name
<1>1. PICK a \in [0 .. n -> NamesType] :
        /\ a[0] = [i \in {} |-> None]
        /\ \A k \in 1 .. n : a[k] = WithName(a[k - 1], history[k])
        /\ CallNames(history) = a[n]
  BY NamesTrace
<1>2. n \in Nat
  BY LenProperties
<1> HIDE DEF n
<1> DEFINE Kept == {k \in 0 .. n : Right(a[k], k)}
<1>3. 0 \in Kept
  <2>1. calls(0) = {} /\ 0 \in 0 .. n
    BY <1>2 DEF CallsNamed
  <2>2. id \notin DOMAIN a[0]
    BY <1>1
  <2> QED
    BY <2>1, <2>2
<1>4. ASSUME NEW k \in 0 .. n, k \in Kept, k < n PROVE k + 1 \in Kept
  <2> DEFINE was == a[k]
             is == a[k + 1]
             item == history[k + 1]
  <2>1. k + 1 \in 1 .. n /\ k + 1 \in 0 .. n /\ (k + 1) - 1 = k /\ k \in Nat
    BY <1>2, <1>4
  <2>2. is = WithName(was, item)
    BY <1>1, <2>1
  <2>3. Right(was, k)
    BY <1>4
  <2>4. 1 .. k + 1 = (1 .. k) \cup {k + 1}
    BY <2>1
  <2> HIDE DEF was, is
  <2>5. CASE ~(NamesItsCall(item) /\ item.callId = id)
    <3>1. calls(k + 1) = calls(k)
      BY <2>4, <2>5 DEF CallsNamed
    <3>2. (id \in DOMAIN is <=> id \in DOMAIN was) /\ (id \in DOMAIN was => is[id] = was[id])
      <4>1. CASE NamesItsCall(item)
        <5> HIDE DEF item
        <5> QED
          BY <2>2, <2>5, <4>1 DEF WithName
      <4>2. CASE ~NamesItsCall(item)
        BY <2>2, <4>2 DEF WithName
      <4> QED
        BY <4>1, <4>2
    <3>3. Right(is, k + 1)
      BY <2>3, <3>1, <3>2
    <3> HIDE DEF Right
    <3> QED
      BY <2>1, <3>3 DEF is
  <2>6. CASE NamesItsCall(item) /\ item.callId = id
    <3>1. calls(k + 1) = calls(k) \cup {k + 1}
      BY <2>4, <2>6 DEF CallsNamed
    <3>2. id \in DOMAIN is /\ is[id] = item.name
      <4> HIDE DEF item
      <4> QED
        BY <2>2, <2>6 DEF WithName
    <3>3. \A m \in calls(k + 1) : m <= k + 1
      BY <2>1, <3>1 DEF CallsNamed
    <3>4. Right(is, k + 1)
      BY <3>1, <3>2, <3>3
    <3> HIDE DEF Right
    <3> QED
      BY <2>1, <3>4 DEF is
  <2> QED
    BY <2>5, <2>6
<1>5. n \in Kept
  <2> HIDE DEF Kept
  <2>1. 0 .. n \subseteq Kept
    BY <1>2, <1>3, <1>4, InductionUpTo
  <2> QED
    BY <1>2, <2>1
<1>6. Right(CallNames(history), n)
  BY <1>1, <1>5
<1> QED
  BY <1>6 DEF n

LEMMA NameIs ==
  ASSUME NEW history \in Seq(HistoryItems), NEW i \in 1 .. Len(history)
  PROVE  LET id == history[i].callId
             names == CallNames(history)
         IN  /\ (IF id \in DOMAIN names THEN names[id] ELSE None) = ToolOf(history, i)
             /\ ToolOf(history, i) \in DOMAIN NameBytes
<1> DEFINE id == history[i].callId
           names == CallNames(history)
           calls == CallsNamed(history, Len(history), id)
<1>1. id \in STRING /\ Len(history) \in Nat /\ DOMAIN history = 1 .. Len(history)
  <2>1. history[i] \in HistoryItems
    BY ElementOfSeq
  <2> QED
    BY <2>1, LenProperties DEF HistoryItems
<1>2. ToolOf(history, i) = IF calls = {} THEN None
                           ELSE history[CHOOSE j \in calls : \A k \in calls : k <= j].name
  BY <1>1 DEF ToolOf, CallsNamed
<1>3. /\ id \in DOMAIN names <=> calls # {}
      /\ calls # {} => \E j \in calls : (\A k \in calls : k <= j) /\ names[id] = history[j].name
  <2> HIDE DEF id
  <2> QED
    BY <1>1, NamesAreTheLast
<1>4. CASE calls = {}
  BY <1>2, <1>3, <1>4, AgingEngineAssumption
<1>5. CASE calls # {}
  <2>1. PICK j \in calls : (\A k \in calls : k <= j) /\ names[id] = history[j].name
    BY <1>3, <1>5
  <2> DEFINE last == CHOOSE m \in calls : \A k \in calls : k <= m
  <2>2. last \in calls /\ \A k \in calls : k <= last
    BY <2>1
  <2> HIDE DEF last
  <2>3. last = j
    <3>1. last <= j /\ j <= last
      BY <2>1, <2>2
    <3>2. last \in Int /\ j \in Int
      BY <2>2 DEF CallsNamed
    <3> QED
      BY <3>1, <3>2
  <2>4. ToolOf(history, i) = history[last].name
    BY <1>2, <1>5 DEF last
  <2>5. history[j].name \in DOMAIN NameBytes
    <3>1. j \in 1 .. Len(history)
      BY <2>1 DEF CallsNamed
    <3>2. history[j] \in HistoryItems
      BY <3>1, ElementOfSeq
    <3> QED
      BY <3>2 DEF HistoryItems
  <2> HIDE DEF calls
  <2> QED
    BY <1>3, <1>5, <2>1, <2>3, <2>4, <2>5
<1> QED
  BY <1>4, <1>5

-----------------------------------------------------------------------------
(* What is decided about one result *)

Receipts == [original : Int, name : DOMAIN NameBytes, edge : Int, length : Int]
Decisions == SkipReasons \cup {"Aged"}
Evaluations ==
  [index : Nat, family : Families, callId : STRING, decision : Decisions, receipt : Receipts]

EvaluationOf(history, policyNow, i) ==
  Evaluation(history[i], i, Passes(history, policyNow), policyNow)

\* A result that is replaced.
Replaced(history, policyNow, i) ==
  IsToolResult(history[i]) /\ EvaluationOf(history, policyNow, i).decision = "Aged"

LEMMA ReceiptType ==
  ASSUME NEW bytes \in Int, NEW name \in DOMAIN NameBytes, NEW edge \in Nat
  PROVE  Receipt(bytes, name, edge) \in Receipts /\ Receipt(bytes, name, edge).original = bytes
<1> DEFINE shown == IF bytes < edge THEN bytes ELSE edge
           long == Overhead + NameBytes[name] + 2 * shown
<1>1. shown \in Int
  OBVIOUS
<1>2. NameBytes[name] \in Nat /\ Overhead \in Nat
  BY AgingEngineAssumption
<1> HIDE DEF shown
<1>3. long \in Int
  BY <1>1, <1>2
<1>4. Receipt(bytes, name, edge)
        = [original |-> bytes, name |-> name, edge |-> shown, length |-> long]
  BY DEF Receipt, shown
<1> HIDE DEF long
<1> QED
  BY <1>1, <1>3, <1>4 DEF Receipts

\* The engine's decision is the one the rules ask for: the passes it looks into
\* say what the rules say about the whole history.
LEMMA EvaluationIs ==
  ASSUME NEW history \in Seq(HistoryItems), NEW p \in PolicyType, p.enabled,
         NEW i \in 1 .. Len(history), IsToolResult(history[i])
  PROVE  LET e == EvaluationOf(history, p, i)
         IN  /\ e \in Evaluations
             /\ e.index = i /\ e.family = history[i].family /\ e.callId = history[i].callId
             /\ e.receipt = Receipt(history[i].bytes, ToolOf(history, i), p.preview)
             /\ e.receipt.original = history[i].bytes
             /\ e.decision = "Aged" <=> MayAge(history, p, i) /\ Shrinks(history, p, i)
             /\ e.decision \in {"Aged", "ReceiptNotSmaller"} <=> MayAge(history, p, i)
             /\ e.decision = "Aged" => e.receipt.length < history[i].bytes
<1> DEFINE item == history[i]
           passes == Passes(history, p)
           name == IF item.callId \in DOMAIN passes.names THEN passes.names[item.callId]
                   ELSE None
           receipt == Receipt(item.bytes, name, p.preview)
           decision ==
             IF i \in passes.protected THEN "ProtectedFrontier"
             ELSE IF item.bytes = Unsupported THEN "UnsupportedOutput"
             ELSE IF item.bytes <= p.minBytes THEN "AtOrBelowThreshold"
             ELSE IF ~passes.acted[i] THEN "Unconsumed"
             ELSE IF receipt.length >= item.bytes THEN "ReceiptNotSmaller"
             ELSE "Aged"
           e == [index |-> i, family |-> item.family, callId |-> item.callId,
                 decision |-> decision, receipt |-> receipt]
<1>1. EvaluationOf(history, p, i) = e
  BY DEF EvaluationOf, Evaluation
<1>2. /\ item \in HistoryItems /\ Len(history) \in Nat /\ DOMAIN history = 1 .. Len(history)
      /\ p.minBytes \in Nat /\ p.frontier \in Nat /\ p.preview \in Nat
  BY ElementOfSeq, LenProperties DEF PolicyType
<1>3. item.bytes \in Int /\ item.family \in Families /\ item.callId \in STRING
  BY <1>2 DEF HistoryItems
<1>4. name = ToolOf(history, i) /\ name \in DOMAIN NameBytes
  <2>1. passes.names = CallNames(history)
    BY DEF Passes
  <2> QED
    BY <2>1, NameIs
<1>5. i \in passes.protected <=> Cardinality(LaterResults(history, i)) < p.frontier
  <2>1. passes.protected = Protected(history, p.frontier)
    BY DEF Passes
  <2> QED
    BY <1>2, <2>1, ProtectedIs
<1>6. passes.acted[i] <=> \E j \in DOMAIN history : j > i /\ IsModelAction(history[j])
  <2>1. passes.acted = ActedAfter(history)
    BY DEF Passes
  <2>2. passes.acted[i] <=> \E j \in i + 1 .. Len(history) : IsModelAction(history[j])
    BY <2>1, ActedAfterIs
  <2>3. \A j : j \in i + 1 .. Len(history) <=> j \in DOMAIN history /\ j > i
    BY <1>2
  <2> QED
    BY <2>2, <2>3
<1> DEFINE may == MayAge(history, p, i)
           later == Cardinality(LaterResults(history, i))
<1>7. later \in Nat
  <2>1. IsFiniteSet(LaterResults(history, i))
    <3>1. IsFiniteSet(1 .. Len(history))
      BY <1>2, FS_Interval
    <3>2. LaterResults(history, i) \subseteq 1 .. Len(history)
      BY <1>2 DEF LaterResults
    <3> QED
      BY <3>1, <3>2, FS_Subset
  <2> QED
    BY <2>1, FS_CardinalityType
<1>8. may <=> /\ item.bytes # Unsupported /\ item.bytes > p.minBytes
              /\ passes.acted[i] /\ later >= p.frontier
  BY <1>6 DEF MayAge
<1>9. receipt \in Receipts /\ receipt.original = item.bytes /\ receipt.length \in Int
  <2>1. receipt \in Receipts /\ receipt.original = item.bytes
    <3> HIDE DEF name, item
    <3> QED
      BY <1>2, <1>3, <1>4, ReceiptType
  <2> QED
    BY <2>1 DEF Receipts
<1>10. Shrinks(history, p, i) <=> receipt.length < item.bytes
  BY <1>4 DEF Shrinks
<1> HIDE DEF name, receipt, passes, item, may, later
<1>11. decision \in Decisions
  BY DEF Decisions, SkipReasons
<1>12. decision = "Aged" <=> may /\ receipt.length < item.bytes
  BY <1>2, <1>3, <1>5, <1>7, <1>8, <1>9 DEF later
<1>13. decision \in {"Aged", "ReceiptNotSmaller"} <=> may
  BY <1>2, <1>3, <1>5, <1>7, <1>8, <1>9 DEF later
<1> HIDE DEF decision
<1>14. e \in Evaluations
  BY <1>2, <1>3, <1>9, <1>11 DEF Evaluations
<1> QED
  BY <1>1, <1>4, <1>9, <1>10, <1>12, <1>13, <1>14 DEF item, receipt, may

-----------------------------------------------------------------------------
(* The loop of age_tool_results *)

AgingResults ==
  [evaluations : Seq(Evaluations), replacements : Seq(Evaluations), evaluated : Nat,
   eligible : Nat, aged : Nat, before : Int, after : Int, saved : Int]

\* The turn of the loop for one item of a history.
TurnAt(result, history, p, i) == Turn(result, history[i], i, Passes(history, p), p)

\* What a turn adds when the item is a result.
LEMMA TurnIs ==
  ASSUME NEW history \in Seq(HistoryItems), NEW p \in PolicyType, p.enabled,
         NEW i \in 1 .. Len(history), NEW r \in AgingResults
  PROVE  LET e == EvaluationOf(history, p, i)
             t == TurnAt(r, history, p, i)
         IN  /\ t \in AgingResults
             /\ ~IsToolResult(history[i]) => t = r
             /\ IsToolResult(history[i]) =>
                  /\ e \in Evaluations
                  /\ t.evaluations = Append(r.evaluations, e)
                  /\ t.replacements = IF e.decision = "Aged" THEN Append(r.replacements, e)
                                      ELSE r.replacements
                  /\ t.eligible = r.eligible
                       + IF e.decision \in {"Aged", "ReceiptNotSmaller"} THEN 1 ELSE 0
                  /\ t.aged = r.aged + IF e.decision = "Aged" THEN 1 ELSE 0
                  /\ t.before = r.before
                       + IF e.decision = "Aged" THEN e.receipt.original ELSE 0
                  /\ t.after = r.after + IF e.decision = "Aged" THEN e.receipt.length ELSE 0
<1> DEFINE e == EvaluationOf(history, p, i)
           t == TurnAt(r, history, p, i)
<1>1. CASE ~IsToolResult(history[i])
  BY <1>1 DEF TurnAt, Turn
<1>2. CASE IsToolResult(history[i])
  <2> DEFINE eligible == e.decision \in {"Aged", "ReceiptNotSmaller"}
             aged == e.decision = "Aged"
             evaluations == Append(r.evaluations, e)
             replacements == IF aged THEN Append(r.replacements, e) ELSE r.replacements
             evaluatedNow == r.evaluated + 1
             eligibleNow == r.eligible + IF eligible THEN 1 ELSE 0
             agedNow == r.aged + IF aged THEN 1 ELSE 0
             before == r.before + IF aged THEN e.receipt.original ELSE 0
             after == r.after + IF aged THEN e.receipt.length ELSE 0
             new == [evaluations |-> evaluations, replacements |-> replacements,
                     evaluated |-> evaluatedNow, eligible |-> eligibleNow, aged |-> agedNow,
                     before |-> before, after |-> after, saved |-> 0]
  <2>1. t = new
    BY <1>2 DEF TurnAt, Turn, EvaluationOf
  <2>2. e \in Evaluations
    BY <1>2, EvaluationIs
  <2> HIDE DEF e
  <2>3. /\ r.evaluations \in Seq(Evaluations) /\ r.replacements \in Seq(Evaluations)
        /\ r.evaluated \in Nat /\ r.eligible \in Nat /\ r.aged \in Nat
        /\ r.before \in Int /\ r.after \in Int
        /\ e.receipt.original \in Int /\ e.receipt.length \in Int
    BY <2>2 DEF AgingResults, Evaluations, Receipts
  <2>4. evaluations \in Seq(Evaluations) /\ Append(r.replacements, e) \in Seq(Evaluations)
    BY <2>2, <2>3, AppendProperties
  <2>5. replacements \in Seq(Evaluations)
    BY <2>3, <2>4
  <2>6. evaluatedNow \in Nat /\ eligibleNow \in Nat /\ agedNow \in Nat
    BY <2>3
  <2>7. before \in Int /\ after \in Int
    BY <2>3
  <2> HIDE DEF evaluations, replacements, evaluatedNow, eligibleNow, agedNow, before, after
  <2>8. new \in AgingResults
    BY <2>4, <2>5, <2>6, <2>7 DEF AgingResults
  <2>9. /\ new.evaluations = evaluations /\ new.replacements = replacements
        /\ new.eligible = eligibleNow /\ new.aged = agedNow
        /\ new.before = before /\ new.after = after
    OBVIOUS
  <2> HIDE DEF new
  <2> QED
    BY <1>2, <2>1, <2>2, <2>8, <2>9 DEF evaluations, replacements, eligibleNow, agedNow,
                                        before, after, e
<1> QED
  BY <1>1, <1>2

LEMMA NothingAgedType == NothingAged \in AgingResults
<1>1. <<>> \in Seq(Evaluations)
  BY EmptySeq
<1> QED
  BY <1>1 DEF NothingAged, AgingResults


\* What the loop's sums come to.
WithSaved(r) ==
  [r EXCEPT !.saved = IF r.before > r.after THEN r.before - r.after ELSE 0]

\* What the loop has gathered after each item.
LEMMA LoopTrace ==
  ASSUME NEW history \in Seq(HistoryItems), NEW p \in PolicyType, p.enabled
  PROVE  \E trace \in [0 .. Len(history) -> AgingResults] :
           /\ trace[0] = NothingAged
           /\ \A k \in 1 .. Len(history) : trace[k] = TurnAt(trace[k - 1], history, p, k)
           /\ AgeToolResults(history, p) = IF history = <<>> THEN NothingAged
                                           ELSE WithSaved(trace[Len(history)])
<1> DEFINE n == Len(history)
           base == NothingAged
           step == [pair \in AgingResults \X (1 .. n) |-> TurnAt(pair[1], history, p, pair[2])]
           F(f) == [k \in 0 .. n |-> IF k = 0 THEN base ELSE TurnAt(f[k - 1], history, p, k)]
           upTo == CHOOSE upTo : upTo = F(upTo)
<1>1. n \in Nat /\ base \in AgingResults
  BY LenProperties, NothingAgedType
<1>2. AgeToolResults(history, p) = IF history = <<>> THEN NothingAged ELSE WithSaved(upTo[n])
  BY DEF AgeToolResults, TurnAt, WithSaved
<1> HIDE DEF base, n
<1>3. ASSUME NEW a \in AgingResults, NEW k \in 1 .. n
      PROVE TurnAt(a, history, p, k) \in AgingResults
  BY <1>1, TurnIs DEF n
<1>4. step \in [AgingResults \X (1 .. n) -> AgingResults]
  BY <1>3
<1>5. \E f : f = F(f)
  <2>1. PICK f \in [0 .. n -> AgingResults] : IsTrace(f, n, base, step)
    <3> HIDE DEF step
    <3> QED
      BY <1>1, <1>4, TraceExists
  <2>2. ASSUME NEW k \in 1 .. n PROVE f[k] = TurnAt(f[k - 1], history, p, k)
    <3>1. k - 1 \in 0 .. n
      BY <1>1
    <3>2. <<f[k - 1], k>> \in AgingResults \X (1 .. n)
      BY <2>1, <3>1
    <3>3. step[<<f[k - 1], k>>] = TurnAt(f[k - 1], history, p, k)
      BY <3>2
    <3> HIDE DEF step
    <3> QED
      BY <2>1, <3>3 DEF IsTrace
  <2>3. f[0] = base /\ f \in [0 .. n -> AgingResults]
    BY <2>1 DEF IsTrace
  <2>4. \A k \in 0 .. n : k = 0 \/ k \in 1 .. n
    BY <1>1
  <2>5. f = F(f)
    BY <2>2, <2>3, <2>4
  <2> QED
    BY <2>5
<1>6. upTo = F(upTo)
  BY <1>5
<1> HIDE DEF upTo
<1>7. upTo[0] = base /\ DOMAIN upTo = 0 .. n /\ upTo = [k \in 0 .. n |-> upTo[k]]
  BY <1>1, <1>6
<1>8. ASSUME NEW k \in 1 .. n PROVE upTo[k] = TurnAt(upTo[k - 1], history, p, k)
  <2>1. k \in 0 .. n /\ k # 0
    BY <1>1
  <2> QED
    BY <1>6, <2>1
<1> HIDE DEF F, step
<1>9. ASSUME NEW k \in 0 .. n PROVE upTo[k] \in AgingResults
  <2> DEFINE Within == {i \in 0 .. n : upTo[i] \in AgingResults}
  <2>1. 0 \in Within
    BY <1>1, <1>7
  <2>2. ASSUME NEW i \in 0 .. n, i \in Within, i < n PROVE i + 1 \in Within
    <3>1. i + 1 \in 1 .. n /\ i + 1 \in 0 .. n /\ (i + 1) - 1 = i /\ upTo[i] \in AgingResults
      BY <1>1, <2>2
    <3>2. upTo[i + 1] = TurnAt(upTo[i], history, p, (i + 1))
      BY <1>8, <3>1
    <3>3. upTo[i + 1] \in AgingResults
      BY <1>3, <3>1, <3>2
    <3> QED
      BY <3>1, <3>3
  <2> HIDE DEF Within
  <2>3. 0 .. n \subseteq Within
    BY <1>1, <2>1, <2>2, InductionUpTo
  <2> QED
    BY <2>3 DEF Within
<1>10. upTo \in [0 .. n -> AgingResults]
  BY <1>7, <1>9
<1> QED
  BY <1>2, <1>7, <1>8, <1>10 DEF base, n

\* The result of the loop, and of the whole function, by its parts.
LEMMA AgingTrace ==
  ASSUME NEW history \in Seq(HistoryItems), NEW p \in PolicyType, p.enabled
  PROVE  LET n == Len(history)
             result == AgeToolResults(history, p)
         IN  \E a \in [0 .. n -> AgingResults] :
               /\ a[0] = NothingAged
               /\ \A k \in 1 .. n : a[k] = TurnAt(a[k - 1], history, p, k)
               /\ result \in AgingResults
               /\ result.evaluations = a[n].evaluations
               /\ result.replacements = a[n].replacements
               /\ result.eligible = a[n].eligible
               /\ result.aged = a[n].aged
               /\ result.saved = IF a[n].before > a[n].after THEN a[n].before - a[n].after
                                 ELSE 0
<1> DEFINE n == Len(history)
           result == AgeToolResults(history, p)
           saved(r) == IF r.before > r.after THEN r.before - r.after ELSE 0
<1>1. PICK a \in [0 .. n -> AgingResults] :
        /\ a[0] = NothingAged
        /\ \A k \in 1 .. n : a[k] = TurnAt(a[k - 1], history, p, k)
        /\ result = IF history = <<>> THEN NothingAged
                    ELSE [a[n] EXCEPT !.saved = IF a[n].before > a[n].after
                                                THEN a[n].before - a[n].after ELSE 0]
  BY LoopTrace DEF WithSaved
<1>2. n \in Nat /\ (history = <<>> => n = 0)
  BY LenProperties, EmptySeq
<1>3. a[n] \in AgingResults
  BY <1>1, <1>2
<1>4. a[n].before \in Int /\ a[n].after \in Int /\ saved(a[n]) \in Int
  BY <1>3 DEF AgingResults
<1>5. CASE history = <<>>
  <2>1. a[n] = NothingAged /\ result = NothingAged
    BY <1>1, <1>2, <1>5
  <2>2. /\ NothingAged.before = 0 /\ NothingAged.after = 0 /\ NothingAged.saved = 0
        /\ ~(0 > 0)
    BY DEF NothingAged
  <2>3. result.saved = saved(a[n])
    BY <2>1, <2>2
  <2> HIDE DEF result, saved
  <2>4. /\ result \in AgingResults
        /\ result.evaluations = a[n].evaluations
        /\ result.replacements = a[n].replacements
        /\ result.eligible = a[n].eligible
        /\ result.aged = a[n].aged
    BY <1>3, <2>1
  <2> QED
    BY <1>1, <2>3, <2>4 DEF saved, result
<1>6. CASE history # <<>>
  <2>1. result = [a[n] EXCEPT !.saved = saved(a[n])]
    BY <1>1, <1>6
  <2> DEFINE last == a[n]
             s == saved(a[n])
  <2>2. last \in AgingResults /\ s \in Int /\ result = [last EXCEPT !.saved = s]
    BY <1>3, <1>4, <2>1
  <2> HIDE DEF result, saved, last, s
  <2>3. /\ result \in AgingResults /\ result.saved = s
        /\ result.evaluations = last.evaluations
        /\ result.replacements = last.replacements
        /\ result.eligible = last.eligible
        /\ result.aged = last.aged
    BY <2>2 DEF AgingResults
  <2> QED
    BY <1>1, <2>3 DEF last, s, saved, result
<1> QED
  BY <1>5, <1>6

\* What is replaced is what the decision says, each result by its own evaluation.
LEMMA ReplacementsAre ==
  ASSUME NEW history \in Seq(HistoryItems), NEW p \in PolicyType, p.enabled
  PROVE  LET replacements == AgeToolResults(history, p).replacements
         IN  /\ replacements \in Seq(Evaluations)
             /\ \A k \in 1 .. Len(replacements) :
                  /\ replacements[k].index \in 1 .. Len(history)
                  /\ Replaced(history, p, replacements[k].index)
                  /\ replacements[k] = EvaluationOf(history, p, replacements[k].index)
             /\ \A i \in 1 .. Len(history) :
                  Replaced(history, p, i) =>
                    \E k \in 1 .. Len(replacements) : replacements[k].index = i
<1> DEFINE n == Len(history)
           result == AgeToolResults(history, p)
           Right(s, m) ==
             /\ \A k \in 1 .. Len(s) : /\ s[k].index \in 1 .. m
                                       /\ Replaced(history, p, s[k].index)
                                       /\ s[k] = EvaluationOf(history, p, s[k].index)
             /\ \A i \in 1 .. m :
                  Replaced(history, p, i) => \E k \in 1 .. Len(s) : s[k].index = i
<1>1. PICK a \in [0 .. n -> AgingResults] :
        /\ a[0] = NothingAged
        /\ \A k \in 1 .. n : a[k] = TurnAt(a[k - 1], history, p, k)
        /\ result.replacements = a[n].replacements
  BY AgingTrace
<1>2. n \in Nat /\ \A k \in 0 .. n : a[k].replacements \in Seq(Evaluations)
  BY <1>1, LenProperties DEF AgingResults
<1> DEFINE Kept == {k \in 0 .. n : Right(a[k].replacements, k)}
<1>3. 0 \in Kept
  <2>1. a[0].replacements = <<>> /\ Len(a[0].replacements) = 0 /\ 0 \in 0 .. n
    BY <1>1, <1>2, EmptySeq DEF NothingAged
  <2>2. Right(a[0].replacements, 0)
    BY <2>1
  <2> HIDE DEF Right, n
  <2> QED
    BY <2>1, <2>2
<1>4. ASSUME NEW k \in 0 .. n, k \in Kept, k < n PROVE k + 1 \in Kept
  <2> DEFINE was == a[k].replacements
             is == a[k + 1].replacements
             e == EvaluationOf(history, p, k + 1)
  <2>1. k + 1 \in 1 .. n /\ k + 1 \in 0 .. n /\ (k + 1) - 1 = k /\ k \in Nat /\ k \in 0 .. n
    BY <1>2, <1>4
  <2>2. a[k] \in AgingResults /\ a[k + 1] = TurnAt(a[k], history, p, k + 1)
    BY <1>1, <2>1
  <2>3. /\ ~IsToolResult(history[k + 1]) => a[k + 1] = a[k]
        /\ IsToolResult(history[k + 1]) =>
             is = IF e.decision = "Aged" THEN Append(was, e) ELSE was
        /\ IsToolResult(history[k + 1]) => e \in Evaluations /\ e.index = k + 1
    <3> DEFINE i == k + 1
    <3>1. i \in 1 .. Len(history) /\ a[k + 1] = TurnAt(a[k], history, p, i)
      BY <2>1, <2>2
    <3> HIDE DEF i
    <3>2. LET t == TurnAt(a[k], history, p, i)
              x == EvaluationOf(history, p, i)
          IN  /\ ~IsToolResult(history[i]) => t = a[k]
              /\ IsToolResult(history[i]) =>
                   t.replacements = IF x.decision = "Aged" THEN Append(a[k].replacements, x)
                                    ELSE a[k].replacements
      BY <2>2, <3>1, TurnIs
    <3>3. IsToolResult(history[i]) =>
            EvaluationOf(history, p, i) \in Evaluations /\ EvaluationOf(history, p, i).index = i
      BY <3>1, EvaluationIs
    <3> QED
      BY <3>1, <3>2, <3>3 DEF i
  <2>4. Right(was, k) /\ was \in Seq(Evaluations)
    BY <1>2, <1>4
  <2>5. \A i \in 1 .. k + 1 : i \in 1 .. k \/ i = k + 1
    BY <2>1
  <2>6. \A i \in 1 .. k : i \in 1 .. k + 1
    BY <2>1
  <2> HIDE DEF was, is, n, e
  <2>7. CASE ~Replaced(history, p, k + 1)
    <3>1. is = was
      BY <2>3, <2>7 DEF Replaced, was, is, e
    <3>2. Right(is, k + 1)
      BY <2>4, <2>5, <2>6, <2>7, <3>1
    <3> HIDE DEF Right
    <3> QED
      BY <2>1, <3>2 DEF is
  <2>8. CASE Replaced(history, p, k + 1)
    <3>1. is = Append(was, e) /\ e \in Evaluations /\ e.index = k + 1
      BY <2>3, <2>8 DEF Replaced, e
    <3>2. /\ Len(is) = Len(was) + 1 /\ is[Len(was) + 1] = e
          /\ \A m \in 1 .. Len(was) : is[m] = was[m]
      BY <2>4, <3>1, AppendProperties
    <3>3. Len(was) \in Nat
      BY <2>4, LenProperties
    <3>4. ASSUME NEW m \in 1 .. Len(is)
          PROVE  /\ is[m].index \in 1 .. k + 1 /\ Replaced(history, p, is[m].index)
                 /\ is[m] = EvaluationOf(history, p, is[m].index)
      <4>1. m \in 1 .. Len(was) \/ m = Len(was) + 1
        BY <3>2, <3>3
      <4>2. CASE m \in 1 .. Len(was)
        BY <2>4, <2>6, <3>2, <4>2
      <4>3. CASE m = Len(was) + 1
        BY <2>1, <2>8, <3>1, <3>2, <4>3 DEF e
      <4> QED
        BY <4>1, <4>2, <4>3
    <3>5. ASSUME NEW i \in 1 .. k + 1, Replaced(history, p, i)
          PROVE  \E m \in 1 .. Len(is) : is[m].index = i
      <4>1. CASE i \in 1 .. k
        <5>1. PICK m \in 1 .. Len(was) : was[m].index = i
          BY <2>4, <3>5, <4>1
        <5>2. m \in 1 .. Len(is)
          BY <3>2, <3>3
        <5> QED
          BY <3>2, <5>1, <5>2
      <4>2. CASE i = k + 1
        <5>1. Len(was) + 1 \in 1 .. Len(is)
          BY <3>2, <3>3
        <5> QED
          BY <3>1, <3>2, <4>2, <5>1
      <4> QED
        BY <2>5, <4>1, <4>2
    <3>6. Right(is, k + 1)
      BY <3>4, <3>5
    <3> HIDE DEF Right
    <3> QED
      BY <2>1, <3>6 DEF is
  <2> QED
    BY <2>7, <2>8
<1>5. n \in Kept
  <2> HIDE DEF Kept, n
  <2>1. 0 .. n \subseteq Kept
    BY <1>2, <1>3, <1>4, InductionUpTo
  <2> QED
    BY <1>2, <2>1
<1>6. Right(result.replacements, n) /\ result.replacements \in Seq(Evaluations)
  BY <1>1, <1>2, <1>5
<1> QED
  BY <1>6

\* The turn for item k + 1, by its parts.
LEMMA NextTurn ==
  ASSUME NEW history \in Seq(HistoryItems), NEW p \in PolicyType, p.enabled,
         NEW k \in 0 .. Len(history), k < Len(history), NEW r \in AgingResults,
         NEW t, t = TurnAt(r, history, p, k + 1),
         NEW e, e = EvaluationOf(history, p, k + 1),
         NEW item, item = history[k + 1]
  PROVE  /\ ~IsToolResult(item) => t = r
         /\ IsToolResult(item) =>
              /\ e \in Evaluations
              /\ e.receipt.original = item.bytes
              /\ e.decision = "Aged" <=> Replaced(history, p, k + 1)
              /\ e.decision = "Aged" => e.receipt.length < item.bytes
              /\ e.decision \in {"Aged", "ReceiptNotSmaller"} <=> MayAge(history, p, k + 1)
              /\ t.evaluations = Append(r.evaluations, e)
              /\ t.eligible = r.eligible
                   + IF e.decision \in {"Aged", "ReceiptNotSmaller"} THEN 1 ELSE 0
              /\ t.aged = r.aged + IF e.decision = "Aged" THEN 1 ELSE 0
              /\ t.before = r.before + IF e.decision = "Aged" THEN e.receipt.original ELSE 0
              /\ t.after = r.after + IF e.decision = "Aged" THEN e.receipt.length ELSE 0
<1> DEFINE i == k + 1
           n == Len(history)
<1>1. n \in Nat
  BY LenProperties
<1>2. i \in 1 .. n
  <2> HIDE DEF n
  <2> QED
    BY <1>1 DEF n
<1>3. t = TurnAt(r, history, p, i) /\ e = EvaluationOf(history, p, i) /\ item = history[i]
  OBVIOUS
<1> HIDE DEF i
<1>4. CASE ~IsToolResult(item)
  BY <1>2, <1>3, <1>4, TurnIs
<1>5. CASE IsToolResult(item)
  <2>1. /\ e \in Evaluations
        /\ e.receipt.original = item.bytes
        /\ e.decision \in {"Aged", "ReceiptNotSmaller"} <=> MayAge(history, p, i)
        /\ e.decision = "Aged" => e.receipt.length < item.bytes
    BY <1>2, <1>3, <1>5, EvaluationIs
  <2>2. e.decision = "Aged" <=> Replaced(history, p, i)
    BY <1>3, <1>5 DEF Replaced
  <2>3. /\ t.evaluations = Append(r.evaluations, e)
        /\ t.eligible = r.eligible
             + IF e.decision \in {"Aged", "ReceiptNotSmaller"} THEN 1 ELSE 0
        /\ t.aged = r.aged + IF e.decision = "Aged" THEN 1 ELSE 0
        /\ t.before = r.before + IF e.decision = "Aged" THEN e.receipt.original ELSE 0
        /\ t.after = r.after + IF e.decision = "Aged" THEN e.receipt.length ELSE 0
    BY <1>2, <1>3, <1>5, TurnIs
  <2> QED
    BY <1>5, <2>1, <2>2, <2>3 DEF i
<1> QED
  BY <1>4, <1>5

\* The counter of eligible results says whether there is one.
LEMMA EligibleIs ==
  ASSUME NEW history \in Seq(HistoryItems), NEW p \in PolicyType, p.enabled
  PROVE  AgeToolResults(history, p).eligible > 0 <=>
           \E i \in 1 .. Len(history) : MayAge(history, p, i)
<1> DEFINE n == Len(history)
           result == AgeToolResults(history, p)
           May(k) == \E i \in 1 .. k : MayAge(history, p, i)
<1>1. PICK a \in [0 .. n -> AgingResults] :
        /\ a[0] = NothingAged
        /\ \A k \in 1 .. n : a[k] = TurnAt(a[k - 1], history, p, k)
        /\ result.eligible = a[n].eligible
  BY AgingTrace
<1>2. n \in Nat /\ \A k \in 0 .. n : a[k] \in AgingResults /\ a[k].eligible \in Nat
  BY <1>1, LenProperties DEF AgingResults
<1> DEFINE Kept == {k \in 0 .. n : a[k].eligible > 0 <=> May(k)}
<1>3. 0 \in Kept
  <2>1. a[0].eligible = 0 /\ 0 \in 0 .. n /\ ~May(0)
    BY <1>1, <1>2 DEF NothingAged
  <2> HIDE DEF May, n
  <2> QED
    BY <2>1
<1>4. ASSUME NEW k \in 0 .. n, k \in Kept, k < n PROVE k + 1 \in Kept
  <2> DEFINE e == EvaluationOf(history, p, k + 1)
             t == a[k + 1]
             item == history[k + 1]
  <2>1. k + 1 \in 1 .. n /\ k + 1 \in 0 .. n /\ (k + 1) - 1 = k /\ k \in 0 .. n
    BY <1>2, <1>4
  <2>2. a[k] \in AgingResults /\ t = TurnAt(a[k], history, p, k + 1) /\ t.eligible \in Nat
        /\ a[k].eligible \in Nat
    BY <1>1, <1>2, <2>1
  <2>3. e = EvaluationOf(history, p, k + 1) /\ item = history[k + 1]
    OBVIOUS
  <2>4. May(k + 1) <=> May(k) \/ MayAge(history, p, k + 1)
    <3>1. \A i \in 1 .. k + 1 : i \in 1 .. k \/ i = k + 1
      BY <2>1
    <3>2. k + 1 \in 1 .. k + 1 /\ \A i \in 1 .. k : i \in 1 .. k + 1
      BY <2>1
    <3> QED
      BY <3>1, <3>2
  <2>5. a[k].eligible > 0 <=> May(k)
    BY <1>4
  <2> HIDE DEF e, t, item, May
  <2>6. CASE ~IsToolResult(item)
    <3>1. t = a[k]
      BY <1>4, <2>1, <2>2, <2>3, <2>6, NextTurn
    <3>2. ~MayAge(history, p, k + 1)
      BY <2>1, <2>6 DEF MayAge, item
    <3> QED
      BY <2>1, <2>4, <2>5, <3>1, <3>2 DEF t
  <2>7. CASE IsToolResult(item)
    <3>1. /\ e.decision \in {"Aged", "ReceiptNotSmaller"} <=> MayAge(history, p, k + 1)
          /\ t.eligible = a[k].eligible
               + IF e.decision \in {"Aged", "ReceiptNotSmaller"} THEN 1 ELSE 0
      BY <1>4, <2>1, <2>2, <2>3, <2>7, NextTurn
    <3>2. t.eligible > 0 <=> May(k + 1)
      BY <2>2, <2>4, <2>5, <3>1
    <3> QED
      BY <2>1, <3>2 DEF t
  <2> QED
    BY <2>6, <2>7
<1>5. n \in Kept
  <2> HIDE DEF Kept, n
  <2>1. 0 .. n \subseteq Kept
    BY <1>2, <1>3, <1>4, InductionUpTo
  <2> QED
    BY <1>2, <2>1
<1> QED
  BY <1>1, <1>5

\* The evaluations that came to one decision.
Decided(evaluations, decision) ==
  {k \in 1 .. Len(evaluations) : evaluations[k].decision = decision}

LEMMA DecidedNext ==
  ASSUME NEW s \in Seq(Evaluations), NEW e \in Evaluations, NEW d
  PROVE  /\ Cardinality(Decided(s, d)) \in Nat
         /\ e.decision = d => Cardinality(Decided(Append(s, e), d))
              = Cardinality(Decided(s, d)) + 1
         /\ e.decision # d => Cardinality(Decided(Append(s, e), d)) = Cardinality(Decided(s, d))
<1> DEFINE n == Len(s)
           t == Append(s, e)
<1>1. n \in Nat /\ Len(t) = n + 1 /\ t[n + 1] = e /\ \A k \in 1 .. n : t[k] = s[k]
  BY AppendProperties, LenProperties
<1> HIDE DEF n, t
<1>2. IsFiniteSet(1 .. n) /\ Decided(s, d) \subseteq 1 .. n
  BY <1>1, FS_Interval DEF Decided, n
<1>3. IsFiniteSet(Decided(s, d))
  BY <1>2, FS_Subset
<1>4. Cardinality(Decided(s, d)) \in Nat
  BY <1>3, FS_CardinalityType
<1>5. \A k \in 1 .. n + 1 : k \in 1 .. n \/ k = n + 1
  BY <1>1
<1>6. n + 1 \in 1 .. n + 1 /\ (\A k \in 1 .. n : k \in 1 .. n + 1) /\ n + 1 \notin 1 .. n
  BY <1>1
<1>7. e.decision = d => Decided(t, d) = Decided(s, d) \cup {n + 1}
  BY <1>1, <1>5, <1>6 DEF Decided, n
<1>8. e.decision # d => Decided(t, d) = Decided(s, d)
  BY <1>1, <1>5, <1>6 DEF Decided, n
<1>9. n + 1 \notin Decided(s, d)
  BY <1>2, <1>6
<1>10. Cardinality(Decided(s, d) \cup {n + 1}) = Cardinality(Decided(s, d)) + 1
  BY <1>3, <1>9, FS_AddElement
<1> QED
  BY <1>4, <1>7, <1>8, <1>10 DEF t

\* The results that were skipped, reason by reason.
Skipped(evaluations) ==
  Cardinality(Decided(evaluations, "ProtectedFrontier"))
  + Cardinality(Decided(evaluations, "UnsupportedOutput"))
  + Cardinality(Decided(evaluations, "AtOrBelowThreshold"))
  + Cardinality(Decided(evaluations, "Unconsumed"))
  + Cardinality(Decided(evaluations, "ReceiptNotSmaller"))

LEMMA SkippedNext ==
  ASSUME NEW s \in Seq(Evaluations), NEW e \in Evaluations
  PROVE  /\ Skipped(s) \in Nat
         /\ e.decision = "Aged" => Skipped(Append(s, e)) = Skipped(s)
         /\ e.decision # "Aged" => Skipped(Append(s, e)) = Skipped(s) + 1
<1> DEFINE t == Append(s, e)
           d == e.decision
           protected == Cardinality(Decided(s, "ProtectedFrontier"))
           unsupported == Cardinality(Decided(s, "UnsupportedOutput"))
           small == Cardinality(Decided(s, "AtOrBelowThreshold"))
           unconsumed == Cardinality(Decided(s, "Unconsumed"))
           long == Cardinality(Decided(s, "ReceiptNotSmaller"))
           protectedNow == Cardinality(Decided(t, "ProtectedFrontier"))
           unsupportedNow == Cardinality(Decided(t, "UnsupportedOutput"))
           smallNow == Cardinality(Decided(t, "AtOrBelowThreshold"))
           unconsumedNow == Cardinality(Decided(t, "Unconsumed"))
           longNow == Cardinality(Decided(t, "ReceiptNotSmaller"))
<1>1. /\ protected \in Nat
      /\ d = "ProtectedFrontier" => protectedNow = protected + 1
      /\ d # "ProtectedFrontier" => protectedNow = protected
  BY DecidedNext
<1>2. /\ unsupported \in Nat
      /\ d = "UnsupportedOutput" => unsupportedNow = unsupported + 1
      /\ d # "UnsupportedOutput" => unsupportedNow = unsupported
  BY DecidedNext
<1>3. /\ small \in Nat
      /\ d = "AtOrBelowThreshold" => smallNow = small + 1
      /\ d # "AtOrBelowThreshold" => smallNow = small
  BY DecidedNext
<1>4. /\ unconsumed \in Nat
      /\ d = "Unconsumed" => unconsumedNow = unconsumed + 1
      /\ d # "Unconsumed" => unconsumedNow = unconsumed
  BY DecidedNext
<1>5. /\ long \in Nat
      /\ d = "ReceiptNotSmaller" => longNow = long + 1
      /\ d # "ReceiptNotSmaller" => longNow = long
  BY DecidedNext
<1>6. d \in Decisions
  BY DEF Evaluations
<1>7. /\ Skipped(s) = protected + unsupported + small + unconsumed + long
      /\ Skipped(t) = protectedNow + unsupportedNow + smallNow + unconsumedNow + longNow
  BY DEF Skipped
<1> HIDE DEF t, d, protected, unsupported, small, unconsumed, long,
             protectedNow, unsupportedNow, smallNow, unconsumedNow, longNow
<1>8. /\ protected \in Nat /\ unsupported \in Nat /\ small \in Nat
      /\ unconsumed \in Nat /\ long \in Nat /\ Skipped(s) \in Nat
  BY <1>1, <1>2, <1>3, <1>4, <1>5, <1>7
<1>9. d = "Aged" => Skipped(t) = Skipped(s)
  BY <1>1, <1>2, <1>3, <1>4, <1>5, <1>7
<1>10. ASSUME d # "Aged" PROVE Skipped(t) = Skipped(s) + 1
  <2>1. CASE d = "ProtectedFrontier"
    <3>1. /\ protectedNow = protected + 1 /\ unsupportedNow = unsupported /\ smallNow = small
          /\ unconsumedNow = unconsumed /\ longNow = long
      BY <1>1, <1>2, <1>3, <1>4, <1>5, <2>1
    <3> QED
      BY <1>7, <1>8, <3>1
  <2>2. CASE d = "UnsupportedOutput"
    <3>1. /\ protectedNow = protected /\ unsupportedNow = unsupported + 1 /\ smallNow = small
          /\ unconsumedNow = unconsumed /\ longNow = long
      BY <1>1, <1>2, <1>3, <1>4, <1>5, <2>2
    <3> QED
      BY <1>7, <1>8, <3>1
  <2>3. CASE d = "AtOrBelowThreshold"
    <3>1. /\ protectedNow = protected /\ unsupportedNow = unsupported /\ smallNow = small + 1
          /\ unconsumedNow = unconsumed /\ longNow = long
      BY <1>1, <1>2, <1>3, <1>4, <1>5, <2>3
    <3> QED
      BY <1>7, <1>8, <3>1
  <2>4. CASE d = "Unconsumed"
    <3>1. /\ protectedNow = protected /\ unsupportedNow = unsupported /\ smallNow = small
          /\ unconsumedNow = unconsumed + 1 /\ longNow = long
      BY <1>1, <1>2, <1>3, <1>4, <1>5, <2>4
    <3> QED
      BY <1>7, <1>8, <3>1
  <2>5. CASE d = "ReceiptNotSmaller"
    <3>1. /\ protectedNow = protected /\ unsupportedNow = unsupported /\ smallNow = small
          /\ unconsumedNow = unconsumed /\ longNow = long + 1
      BY <1>1, <1>2, <1>3, <1>4, <1>5, <2>5
    <3> QED
      BY <1>7, <1>8, <3>1
  <2> QED
    BY <1>6, <1>10, <2>1, <2>2, <2>3, <2>4, <2>5 DEF Decisions, SkipReasons
<1> QED
  BY <1>8, <1>9, <1>10 DEF t, d

LEMMA NothingSkipped == Skipped(<<>>) = 0
<1>1. ASSUME NEW d PROVE Cardinality(Decided(<<>>, d)) = 0
  <2>1. Decided(<<>>, d) = {}
    BY EmptySeq DEF Decided
  <2> QED
    BY <2>1, FS_EmptySet
<1> QED
  BY <1>1 DEF Skipped

\* Every result is counted once: for the reason it was skipped for, or as aged.
LEMMA CountsAddUp ==
  ASSUME NEW history \in Seq(HistoryItems), NEW p \in PolicyType, p.enabled
  PROVE  LET result == AgeToolResults(history, p)
         IN  Cardinality(ResultsTo(history, Len(history)))
               = Skipped(result.evaluations) + result.aged
<1> DEFINE n == Len(history)
           result == AgeToolResults(history, p)
           All(k) == Cardinality(ResultsTo(history, k))
<1>1. PICK a \in [0 .. n -> AgingResults] :
        /\ a[0] = NothingAged
        /\ \A k \in 1 .. n : a[k] = TurnAt(a[k - 1], history, p, k)
        /\ result.evaluations = a[n].evaluations
        /\ result.aged = a[n].aged
  BY AgingTrace
<1>2. n \in Nat /\ \A k \in 0 .. n : /\ a[k] \in AgingResults /\ a[k].aged \in Nat
                                     /\ a[k].evaluations \in Seq(Evaluations)
  BY <1>1, LenProperties DEF AgingResults
<1> DEFINE Kept == {k \in 0 .. n : All(k) = Skipped(a[k].evaluations) + a[k].aged}
<1>3. 0 \in Kept
  <2>1. a[0].aged = 0 /\ a[0].evaluations = <<>> /\ 0 \in 0 .. n
    BY <1>1, <1>2 DEF NothingAged
  <2>2. All(0) = 0 /\ Skipped(<<>>) = 0
    BY ResultsToNext, FS_EmptySet, NothingSkipped
  <2> HIDE DEF All, n
  <2> QED
    BY <2>1, <2>2
<1>4. ASSUME NEW k \in 0 .. n, k \in Kept, k < n PROVE k + 1 \in Kept
  <2> DEFINE e == EvaluationOf(history, p, k + 1)
             t == a[k + 1]
             item == history[k + 1]
             r == a[k]
             s == r.evaluations
  <2>1. k + 1 \in 1 .. n /\ k + 1 \in 0 .. n /\ (k + 1) - 1 = k /\ k \in 0 .. n /\ k \in Nat
    BY <1>2, <1>4
  <2>2. r \in AgingResults /\ t = TurnAt(r, history, p, k + 1)
        /\ r.aged \in Nat /\ s \in Seq(Evaluations)
    BY <1>1, <1>2, <2>1
  <2>3. e = EvaluationOf(history, p, k + 1) /\ item = history[k + 1]
    OBVIOUS
  <2>4. All(k) = Skipped(s) + r.aged /\ All(k) \in Nat
    BY <1>4, <2>1, ResultsToNext
  <2>5. /\ IsToolResult(item) => All(k + 1) = All(k) + 1
        /\ ~IsToolResult(item) => All(k + 1) = All(k)
    BY <2>1, ResultsToNext
  <2> HIDE DEF e, t, item, r, n
  <2>6. CASE ~IsToolResult(item)
    <3>1. t = r
      BY <1>4, <2>1, <2>2, <2>3, <2>6, NextTurn DEF n
    <3>2. All(k + 1) = Skipped(t.evaluations) + t.aged
      BY <2>4, <2>5, <2>6, <3>1
    <3> HIDE DEF All
    <3> QED
      BY <2>1, <3>2 DEF t
  <2>7. CASE IsToolResult(item)
    <3>1. /\ e \in Evaluations /\ t.evaluations = Append(s, e)
          /\ t.aged = r.aged + IF e.decision = "Aged" THEN 1 ELSE 0
      BY <1>4, <2>1, <2>2, <2>3, <2>7, NextTurn DEF n
    <3>2. /\ Skipped(s) \in Nat
          /\ e.decision = "Aged" => Skipped(t.evaluations) = Skipped(s)
          /\ e.decision # "Aged" => Skipped(t.evaluations) = Skipped(s) + 1
      BY <2>2, <3>1, SkippedNext
    <3> HIDE DEF s, All
    <3>3. All(k + 1) = Skipped(t.evaluations) + t.aged
      BY <2>2, <2>4, <2>5, <2>7, <3>1, <3>2
    <3> QED
      BY <2>1, <3>3 DEF t
  <2> QED
    BY <2>6, <2>7
<1>5. n \in Kept
  <2> HIDE DEF Kept, n
  <2>1. 0 .. n \subseteq Kept
    BY <1>2, <1>3, <1>4, InductionUpTo
  <2> QED
    BY <1>2, <2>1
<1>6. All(n) = Skipped(result.evaluations) + result.aged
  <2> HIDE DEF All, n, result
  <2> QED
    BY <1>1, <1>5
<1> QED
  BY <1>6

\* What the receipt in the place of a result saves.
CutAt(history, p, k) ==
  IF Replaced(history, p, k)
  THEN history[k].bytes - EvaluationOf(history, p, k).receipt.length ELSE 0

\* The bytes the engine says it saves are the sum of what each receipt saves.
LEMMA SavedIs ==
  ASSUME NEW history \in Seq(HistoryItems), NEW p \in PolicyType, p.enabled,
         NEW sum \in [0 .. Len(history) -> Int], sum[0] = 0,
         \A k \in 1 .. Len(history) : sum[k] = sum[k - 1] + CutAt(history, p, k)
  PROVE  AgeToolResults(history, p).saved = sum[Len(history)]
<1> DEFINE n == Len(history)
           result == AgeToolResults(history, p)
<1>1. PICK a \in [0 .. n -> AgingResults] :
        /\ a[0] = NothingAged
        /\ \A k \in 1 .. n : a[k] = TurnAt(a[k - 1], history, p, k)
        /\ result.saved = IF a[n].before > a[n].after THEN a[n].before - a[n].after ELSE 0
  BY AgingTrace
<1>2. n \in Nat /\ \A k \in 0 .. n : /\ a[k] \in AgingResults /\ a[k].before \in Int
                                     /\ a[k].after \in Int /\ sum[k] \in Int
  BY <1>1, LenProperties DEF AgingResults
<1> DEFINE Kept == {k \in 0 .. n : a[k].before - a[k].after = sum[k] /\ sum[k] >= 0}
<1>3. 0 \in Kept
  <2>1. a[0].before = 0 /\ a[0].after = 0 /\ 0 \in 0 .. n
    BY <1>1, <1>2 DEF NothingAged
  <2> QED
    BY <2>1
<1>4. ASSUME NEW k \in 0 .. n, k \in Kept, k < n PROVE k + 1 \in Kept
  <2> DEFINE e == EvaluationOf(history, p, k + 1)
             t == a[k + 1]
             item == history[k + 1]
             r == a[k]
             cut == CutAt(history, p, k + 1)
  <2>1. k + 1 \in 1 .. n /\ k + 1 \in 0 .. n /\ (k + 1) - 1 = k /\ k \in 0 .. n
    BY <1>2, <1>4
  <2>2. /\ r \in AgingResults /\ t = TurnAt(r, history, p, k + 1)
        /\ r.before \in Int /\ r.after \in Int /\ t.before \in Int /\ t.after \in Int
        /\ sum[k] \in Int /\ sum[k + 1] \in Int
        /\ r.before - r.after = sum[k] /\ sum[k] >= 0
    BY <1>1, <1>2, <1>4, <2>1
  <2>3. r \in AgingResults /\ t = TurnAt(r, history, p, k + 1)
    BY <2>2
  <2>4. sum[k + 1] = sum[k] + cut
    <3> HIDE DEF cut
    <3>1. \A i \in 1 .. n : sum[i] = sum[i - 1] + CutAt(history, p, i)
      OBVIOUS
    <3> QED
      BY <2>1, <3>1 DEF cut
  <2>5. e = EvaluationOf(history, p, k + 1) /\ item = history[k + 1]
    OBVIOUS
  <2>6. item \in HistoryItems
    BY <2>1, ElementOfSeq
  <2>7. cut = IF Replaced(history, p, k + 1) THEN item.bytes - e.receipt.length ELSE 0
    BY DEF CutAt
  <2> HIDE DEF e, t, item, r, n, cut
  <2>8. CASE ~IsToolResult(item)
    <3>1. t = r
      BY <1>4, <2>1, <2>3, <2>5, <2>8, NextTurn DEF n
    <3>2. cut = 0
      BY <2>5, <2>7, <2>8 DEF Replaced
    <3>3. t.before - t.after = sum[k + 1] /\ sum[k + 1] >= 0
      BY <2>2, <2>4, <3>1, <3>2
    <3> QED
      BY <2>1, <3>3 DEF t
  <2>9. CASE IsToolResult(item)
    <3>1. /\ e \in Evaluations /\ e.receipt.original = item.bytes
          /\ e.decision = "Aged" <=> Replaced(history, p, k + 1)
          /\ e.decision = "Aged" => e.receipt.length < item.bytes
          /\ t.before = r.before + IF e.decision = "Aged" THEN e.receipt.original ELSE 0
          /\ t.after = r.after + IF e.decision = "Aged" THEN e.receipt.length ELSE 0
      BY <1>4, <2>1, <2>3, <2>5, <2>9, NextTurn DEF n
    <3>2. e.receipt.length \in Int /\ item.bytes \in Int
      BY <2>6, <3>1 DEF Evaluations, Receipts, HistoryItems
    <3>3. CASE e.decision = "Aged"
      <4>1. cut = item.bytes - e.receipt.length /\ cut > 0
        BY <2>7, <3>1, <3>2, <3>3
      <4>2. t.before = r.before + item.bytes /\ t.after = r.after + e.receipt.length
        BY <3>1, <3>3
      <4>3. t.before - t.after = (r.before - r.after) + cut
        <5> DEFINE b == r.before
                   f == r.after
                   x == item.bytes
                   y == e.receipt.length
        <5>1. /\ b \in Int /\ f \in Int /\ x \in Int /\ y \in Int
              /\ t.before = b + x /\ t.after = f + y /\ cut = x - y
          BY <2>2, <3>2, <4>1, <4>2
        <5> HIDE DEF b, f, x, y
        <5>2. t.before - t.after = (b - f) + cut
          BY <5>1
        <5> QED
          BY <5>2 DEF b, f
      <4>4. t.before - t.after = sum[k + 1] /\ sum[k + 1] >= 0
        BY <2>2, <2>4, <3>2, <4>1, <4>3
      <4> QED
        BY <2>1, <4>4 DEF t
    <3>4. CASE e.decision # "Aged"
      <4>1. cut = 0
        BY <2>7, <3>1, <3>4
      <4>2. t.before - t.after = sum[k + 1] /\ sum[k + 1] >= 0
        BY <2>2, <2>4, <3>1, <3>4, <4>1
      <4> QED
        BY <2>1, <4>2 DEF t
    <3> QED
      BY <3>3, <3>4
  <2> QED
    BY <2>8, <2>9
<1>5. n \in Kept
  <2> HIDE DEF Kept, n
  <2>1. 0 .. n \subseteq Kept
    BY <1>2, <1>3, <1>4, InductionUpTo
  <2> QED
    BY <1>2, <2>1
<1>6. result.saved = sum[n]
  <2>1. /\ a[n].before - a[n].after = sum[n] /\ sum[n] >= 0
        /\ a[n].before \in Int /\ a[n].after \in Int /\ sum[n] \in Int
    BY <1>2, <1>5
  <2> HIDE DEF result, n
  <2> QED
    BY <1>1, <2>1
<1> QED
  BY <1>6

-----------------------------------------------------------------------------
(* From the client's items to the engine's *)

Outputs == [parts : Seq(Nat \cup {Media})]
ClientItems ==
  [type : STRING, callId : STRING, name : DOMAIN NameBytes, output : Outputs]

\* The bytes of the parts, up to each part.
LEMMA TextTrace ==
  ASSUME NEW output, output.parts \in Seq(Nat \cup {Media})
  PROVE  \E trace \in [0 .. Len(output.parts) -> Int] :
           /\ trace[0] = 0
           /\ \A k \in 1 .. Len(output.parts) : trace[k] = trace[k - 1] + output.parts[k]
           /\ TextBytes(output) = IF \E k \in DOMAIN output.parts : output.parts[k] = Media
                                  THEN Unsupported ELSE trace[Len(output.parts)]
<1> DEFINE n == Len(output.parts)
           base == 0
           step == [p \in Int \X (1 .. n) |-> p[1] + output.parts[p[2]]]
           jt == CHOOSE jt : jt = [u \in SUBSET (1 .. n) |->
                   IF u = {} THEN base ELSE jt[u \ {Max(u)}] + output.parts[Max(u)]]
<1>1. /\ n \in Nat /\ DOMAIN output.parts = 1 .. n
         /\ \A k \in 1 .. n : output.parts[k] \in (Nat \cup {Media})
      /\ base \in Int
  BY LenProperties, ElementOfSeq
<1> HIDE DEF base
<1>2. ASSUME NEW a \in Int, NEW k \in 1 .. n PROVE a + output.parts[k] \in Int
  BY <1>1 DEF Media
<1>3. step \in [Int \X (1 .. n) -> Int]
  BY <1>2
<1>4. \E it : it = [u \in SUBSET (1 .. n) |->
                     IF u = {} THEN base ELSE it[u \ {Max(u)}] + output.parts[Max(u)]]
  <2>1. PICK it \in [SUBSET (1 .. n) -> Int] : Iterates(it, n, base, step)
    <3> HIDE DEF step, n
    <3> QED
      BY <1>1, <1>3, IterationExists
  <2>2. ASSUME NEW u \in SUBSET (1 .. n), u # {}
        PROVE  step[<<it[u \ {Max(u)}], Max(u)>>] = it[u \ {Max(u)}] + output.parts[Max(u)]
    <3>1. Max(u) \in 1 .. n /\ u \ {Max(u)} \in SUBSET (1 .. n)
      BY <1>1, <2>2, LargestIndex
    <3>2. <<it[u \ {Max(u)}], Max(u)>> \in Int \X (1 .. n)
      BY <2>1, <3>1
    <3> QED
      BY <3>2
  <2> HIDE DEF step
  <2>3. \A u \in SUBSET (1 .. n) : it[u] = IF u = {} THEN base
                                           ELSE it[u \ {Max(u)}] + output.parts[Max(u)]
    BY <2>1, <2>2 DEF Iterates
  <2> QED
    BY <2>1, <2>3
<1>5. jt = [u \in SUBSET (1 .. n) |->
              IF u = {} THEN base ELSE jt[u \ {Max(u)}] + output.parts[Max(u)]]
  BY <1>4
<1>6. TextBytes(output) = IF \E k \in DOMAIN output.parts : output.parts[k] = Media
                          THEN Unsupported ELSE jt[1 .. n]
  BY <1>1 DEF base, TextBytes, FoldLeft, MapThenFoldSet
<1> HIDE DEF jt
<1>7. jt[{}] = base
  BY <1>5
<1>8. ASSUME NEW k \in 1 .. n PROVE jt[1 .. k] = jt[1 .. (k - 1)] + output.parts[k]
  <2>1. k \in Nat /\ k # 0 /\ 1 .. k \in SUBSET (1 .. n)
    BY <1>1
  <2>2. Max(1 .. k) = k /\ (1 .. k) \ {k} = 1 .. (k - 1) /\ 1 .. k # {}
    BY <2>1, MaxOfInterval
  <2> QED
    BY <1>5, <2>1, <2>2
<1>9. ASSUME NEW a \in Int, NEW k \in 1 .. n
       PROVE  step[<<a, k>>] \in Int /\ step[<<a, k>>] = a + output.parts[k]
  BY <1>2
<1> HIDE DEF step
<1>10. PICK trace \in [0 .. n -> Int] :
         IsTrace(trace, n, base, step) /\ trace[n] = jt[1 .. n]
  <2> DEFINE Values == Int
  <2>1. StepsWithin(jt, n, Values, step)
    BY <1>8, <1>9 DEF StepsWithin
  <2>2. n \in Nat /\ base \in Values
    BY <1>1
  <2> HIDE DEF n, Values
  <2>3. \E trace \in [0 .. n -> Values] : IsTrace(trace, n, base, step) /\ trace[n] = jt[1 .. n]
    BY <1>7, <2>1, <2>2, TraceOfIteration
  <2> QED
    BY <2>3 DEF Values
<1>11. ASSUME NEW k \in 1 .. n PROVE trace[k] = trace[k - 1] + output.parts[k]
  <2>1. k - 1 \in 0 .. n
    BY <1>1
  <2> QED
    BY <1>9, <1>10, <2>1 DEF IsTrace
<1> QED
  BY <1>6, <1>10, <1>11 DEF IsTrace, base

LEMMA TextBytesType ==
  ASSUME NEW output \in Outputs
  PROVE  TextBytes(output) \in Int
<1>1. output.parts \in Seq(Nat \cup {Media})
  BY DEF Outputs
<1>2. PICK trace \in [0 .. Len(output.parts) -> Int] :
        TextBytes(output) = IF \E k \in DOMAIN output.parts : output.parts[k] = Media
                            THEN Unsupported ELSE trace[Len(output.parts)]
  BY <1>1, TextTrace
<1>3. Len(output.parts) \in Nat
  BY <1>1, LenProperties
<1>4. trace[Len(output.parts)] \in Int /\ Unsupported \in Int
  BY <1>2, <1>3 DEF Unsupported
<1> QED
  BY <1>2, <1>4

LEMMA NormalizeType ==
  ASSUME NEW item \in ClientItems
  PROVE  /\ Normalize(item) \in HistoryItems
         /\ IsToolResult(Normalize(item)) <=> item.type \in Results
         /\ Normalize(item).family = FamilyOf(item.type)
         /\ Normalize(item).callId = item.callId
         /\ Normalize(item).name = item.name
         /\ NamesItsCall(Normalize(item)) => item.type \in Calls /\ item.callId # None
<1> DEFINE kind == CASE item.type = "function_call" -> "FunctionCall"
                     [] item.type = "custom_tool_call" -> "CustomToolCall"
                     [] item.type \in Results -> "ToolResult"
                     [] item.type = "reasoning" -> "Reasoning"
                     [] item.type = "assistant" -> "AssistantMessage"
                     [] OTHER -> "Other"
           bytes == IF item.type \in Results THEN TextBytes(item.output) ELSE Unsupported
           family == FamilyOf(item.type)
<1>1. item.type \in STRING /\ item.callId \in STRING /\ item.name \in DOMAIN NameBytes
      /\ item.output \in Outputs
  BY DEF ClientItems
<1>2. kind \in Kinds
  BY DEF Kinds
<1>3. kind = "ToolResult" <=> item.type \in Results
  BY DEF Results
<1>4. kind \in {"FunctionCall", "CustomToolCall"} => item.type \in Calls
  BY DEF Results, Calls
<1>5. bytes \in Int
  BY <1>1, TextBytesType DEF Unsupported
<1>6. family \in Families
  BY DEF FamilyOf, Families
<1>7. Normalize(item) = [kind |-> kind, family |-> family, callId |-> item.callId,
                         name |-> item.name, bytes |-> bytes]
  BY DEF Normalize
<1> HIDE DEF kind, bytes, family
<1>8. Normalize(item) \in HistoryItems
  BY <1>1, <1>2, <1>5, <1>6, <1>7 DEF HistoryItems
<1>9. /\ Normalize(item).kind = kind /\ Normalize(item).family = family
      /\ Normalize(item).callId = item.callId /\ Normalize(item).name = item.name
  BY <1>7
<1>10. IsToolResult(Normalize(item)) <=> item.type \in Results
  BY <1>3, <1>9 DEF IsToolResult
<1>11. NamesItsCall(Normalize(item)) => item.type \in Calls /\ item.callId # None
  BY <1>4, <1>9 DEF NamesItsCall
<1> QED
  BY <1>8, <1>9, <1>10, <1>11 DEF family

LEMMA NormalizedType ==
  ASSUME NEW items \in Seq(ClientItems)
  PROVE  /\ Normalized(items) \in Seq(HistoryItems)
         /\ Len(Normalized(items)) = Len(items)
         /\ DOMAIN Normalized(items) = 1 .. Len(items) /\ DOMAIN items = 1 .. Len(items)
         /\ \A i \in 1 .. Len(items) : /\ items[i] \in ClientItems
                                       /\ Normalized(items)[i] = Normalize(items[i])
<1> DEFINE n == Len(items)
<1>1. n \in Nat /\ DOMAIN items = 1 .. n /\ \A i \in 1 .. n : items[i] \in ClientItems
  BY LenProperties, ElementOfSeq
<1>2. \A i \in 1 .. n : Normalize(items[i]) \in HistoryItems
  BY <1>1, NormalizeType
<1> HIDE DEF n
<1>3. Normalized(items) = [i \in 1 .. n |-> Normalize(items[i])]
  BY <1>1 DEF Normalized
<1>4. Normalized(items) \in [1 .. n -> HistoryItems]
  BY <1>2, <1>3
<1>5. Normalized(items) \in Seq(HistoryItems)
  BY <1>1, <1>4, SeqDef
<1>6. Len(Normalized(items)) = n
  BY <1>1, <1>4, <1>5, LenProperties
<1> QED
  BY <1>1, <1>3, <1>5, <1>6 DEF n

-----------------------------------------------------------------------------
(* Writing the receipts *)

\* A client's item, or one whose output became a receipt.
Messages ==
  [type : STRING, callId : STRING, name : DOMAIN NameBytes, output : Outputs \cup Receipts]

\* A history of n items on its way to the provider.
Written(n) == [ok : BOOLEAN, items : [1 .. n -> Messages]]

\* The step of Rewritten.
WriteReceipt(out, r) ==
  IF out.ok /\ StillMatches(out.items[r.index], r)
  THEN [out EXCEPT !.items = [@ EXCEPT ![r.index].output = r.receipt]]
  ELSE [out EXCEPT !.ok = FALSE]

\* A receipt in the place of an output.
WithReceipt(item, receipt) == [item EXCEPT !.output = receipt]

LEMMA WithReceiptIs ==
  ASSUME NEW item \in Messages, NEW receipt \in Receipts
  PROVE  /\ WithReceipt(item, receipt) \in Messages
         /\ WithReceipt(item, receipt).type = item.type
         /\ WithReceipt(item, receipt).callId = item.callId
         /\ WithReceipt(item, receipt).output = receipt
BY DEF WithReceipt, Messages

\* The last receipt is the one that stays.
LEMMA WithReceiptTwice ==
  ASSUME NEW item \in Messages, NEW receipt \in Receipts, NEW next \in Receipts
  PROVE  WithReceipt(WithReceipt(item, receipt), next) = WithReceipt(item, next)
BY DEF WithReceipt, Messages

LEMMA WriteReceiptIs ==
  ASSUME NEW n \in Nat, NEW out \in Written(n),
         NEW r \in Evaluations
  PROVE  /\ WriteReceipt(out, r) \in Written(n)
         /\ r.index \in 1 .. n /\ out.ok /\ StillMatches(out.items[r.index], r) =>
              /\ WriteReceipt(out, r).ok
              /\ \A i \in 1 .. n :
                   WriteReceipt(out, r).items[i] =
                     IF i = r.index THEN WithReceipt(out.items[i], r.receipt) ELSE out.items[i]
<1> DEFINE items == out.items
           j == r.index
           new == [items EXCEPT ![j].output = r.receipt]
<1>1. items \in [1 .. n -> Messages] /\ r.receipt \in Receipts /\ out.ok \in BOOLEAN
  BY DEF Evaluations, Written
<1>2. new \in [1 .. n -> Messages] /\ \A i \in 1 .. n :
        new[i] = IF i = j THEN WithReceipt(items[i], r.receipt) ELSE items[i]
  <2> HIDE DEF items, j
  <2>1. new = [i \in 1 .. n |-> IF i = j THEN WithReceipt(items[i], r.receipt) ELSE items[i]]
    BY <1>1 DEF WithReceipt
  <2>2. \A i \in 1 .. n : items[i] \in Messages /\ WithReceipt(items[i], r.receipt) \in Messages
    BY <1>1, WithReceiptIs
  <2> HIDE DEF new
  <2> QED
    BY <2>1, <2>2
<1>3. CASE out.ok /\ StillMatches(items[j], r)
  <2>1. WriteReceipt(out, r) = [out EXCEPT !.items = new]
    BY <1>3 DEF WriteReceipt
  <2> HIDE DEF new
  <2>2. /\ WriteReceipt(out, r) \in Written(n)
        /\ WriteReceipt(out, r).items = new
        /\ WriteReceipt(out, r).ok = out.ok
    BY <1>2, <2>1 DEF Written
  <2> QED
    BY <1>2, <1>3, <2>2
<1>4. CASE ~(out.ok /\ StillMatches(items[j], r))
  BY <1>4 DEF WriteReceipt, Written
<1> QED
  BY <1>3, <1>4

LEMMA StartType ==
  ASSUME NEW items \in Seq(ClientItems)
  PROVE  /\ [ok |-> TRUE, items |-> items] \in Written(Len(items))
         /\ \A i \in 1 .. Len(items) : items[i] \in Messages
<1> DEFINE n == Len(items)
<1>1. items \in [1 .. n -> ClientItems]
  BY LenProperties
<1> HIDE DEF n
<1>2. ClientItems \subseteq Messages
  BY DEF ClientItems, Messages
<1>3. items \in [1 .. n -> Messages]
  BY <1>1, <1>2
<1>4. [ok |-> TRUE, items |-> items] \in Written(n)
  BY <1>3 DEF Written
<1> QED
  BY <1>3, <1>4 DEF n

\* The items after each replacement.
LEMMA WriteTrace ==
  ASSUME NEW items \in Seq(ClientItems), NEW replacements \in Seq(Evaluations)
  PROVE  \E trace \in [0 .. Len(replacements) -> Written(Len(items))] :
           /\ trace[0] = [ok |-> TRUE, items |-> items]
           /\ \A k \in 1 .. Len(replacements) : trace[k]
                = WriteReceipt(trace[k - 1], replacements[k])
           /\ Rewritten(items, replacements) = trace[Len(replacements)]
<1> DEFINE n == Len(replacements)
           base == [ok |-> TRUE, items |-> items]
           step == [p
             \in Written(Len(items)) \X (1 .. n) |-> WriteReceipt(p[1], replacements[p[2]])]
           jt == CHOOSE jt : jt = [u \in SUBSET (1 .. n) |->
                   IF u = {} THEN base
                   ELSE WriteReceipt(jt[u \ {Max(u)}], replacements[Max(u)])]
<1>1. /\ n \in Nat /\ DOMAIN replacements = 1 .. n
         /\ \A k \in 1 .. n : replacements[k] \in Evaluations
      /\ base \in Written(Len(items))
  BY LenProperties, ElementOfSeq, StartType
<1> HIDE DEF base
<1>2. ASSUME NEW a \in Written(Len(items)), NEW k \in 1 .. n
      PROVE WriteReceipt(a, replacements[k]) \in Written(Len(items))
  BY <1>1, LenProperties, WriteReceiptIs
<1>3. step \in [Written(Len(items)) \X (1 .. n) -> Written(Len(items))]
  BY <1>2
<1>4. \E it : it = [u \in SUBSET (1 .. n) |->
                     IF u = {} THEN base
                     ELSE WriteReceipt(it[u \ {Max(u)}], replacements[Max(u)])]
  <2>1. PICK it \in [SUBSET (1 .. n) -> Written(Len(items))] : Iterates(it, n, base, step)
    <3> HIDE DEF step, n
    <3> QED
      BY <1>1, <1>3, IterationExists
  <2>2. ASSUME NEW u \in SUBSET (1 .. n), u # {}
        PROVE  step[<<it[u \ {Max(u)}], Max(u)>>]
                 = WriteReceipt(it[u \ {Max(u)}], replacements[Max(u)])
    <3>1. Max(u) \in 1 .. n /\ u \ {Max(u)} \in SUBSET (1 .. n)
      BY <1>1, <2>2, LargestIndex
    <3>2. <<it[u \ {Max(u)}], Max(u)>> \in Written(Len(items)) \X (1 .. n)
      BY <2>1, <3>1
    <3> QED
      BY <3>2
  <2> HIDE DEF step
  <2>3. \A u \in SUBSET (1 .. n) : it[u] = IF u = {} THEN base
                                           ELSE WriteReceipt(it[u \ {Max(u)}], replacements[Max(u)])
    BY <2>1, <2>2 DEF Iterates
  <2> QED
    BY <2>1, <2>3
<1>5. jt = [u \in SUBSET (1 .. n) |->
              IF u = {} THEN base ELSE WriteReceipt(jt[u \ {Max(u)}], replacements[Max(u)])]
  BY <1>4
<1>6. Rewritten(items, replacements) = jt[1 .. n]
  BY <1>1 DEF base, Rewritten, WriteReceipt, FoldLeft, MapThenFoldSet
<1> HIDE DEF jt
<1>7. jt[{}] = base
  BY <1>5
<1>8. ASSUME NEW k \in 1 .. n PROVE jt[1 .. k] = WriteReceipt(jt[1 .. (k - 1)], replacements[k])
  <2>1. k \in Nat /\ k # 0 /\ 1 .. k \in SUBSET (1 .. n)
    BY <1>1
  <2>2. Max(1 .. k) = k /\ (1 .. k) \ {k} = 1 .. (k - 1) /\ 1 .. k # {}
    BY <2>1, MaxOfInterval
  <2> QED
    BY <1>5, <2>1, <2>2
<1>9. ASSUME NEW a \in Written(Len(items)), NEW k \in 1 .. n
       PROVE  step[<<a, k>>] \in Written(Len(items))
              /\ step[<<a, k>>] = WriteReceipt(a, replacements[k])
  BY <1>2
<1> HIDE DEF step
<1>10. PICK trace \in [0 .. n -> Written(Len(items))] :
         IsTrace(trace, n, base, step) /\ trace[n] = jt[1 .. n]
  <2> DEFINE Values == Written(Len(items))
  <2>1. StepsWithin(jt, n, Values, step)
    BY <1>8, <1>9 DEF StepsWithin
  <2>2. n \in Nat /\ base \in Values
    BY <1>1
  <2> HIDE DEF n, Values
  <2>3. \E trace \in [0 .. n -> Values] : IsTrace(trace, n, base, step) /\ trace[n] = jt[1 .. n]
    BY <1>7, <2>1, <2>2, TraceOfIteration
  <2> QED
    BY <2>3 DEF Values
<1>11. ASSUME NEW k \in 1 .. n PROVE trace[k] = WriteReceipt(trace[k - 1], replacements[k])
  <2>1. k - 1 \in 0 .. n
    BY <1>1
  <2> QED
    BY <1>9, <1>10, <2>1 DEF IsTrace
<1> QED
  BY <1>6, <1>10, <1>11 DEF IsTrace, base

\* Every result that ages leaves as its receipt, and nothing else changes: no
\* replacement misses the item it was computed for.
LEMMA RewrittenIs ==
  ASSUME NEW items \in Seq(ClientItems), NEW p \in PolicyType, p.enabled
  PROVE  LET history == Normalized(items)
             out == Rewritten(items, AgeToolResults(history, p).replacements)
         IN  /\ out \in Written(Len(items))
             /\ out.ok
             /\ \A i \in 1 .. Len(items) :
                  out.items[i] =
                    IF Replaced(history, p, i)
                    THEN WithReceipt(items[i], EvaluationOf(history, p, i).receipt)
                    ELSE items[i]
<1> DEFINE n == Len(items)
           history == Normalized(items)
           replacements == AgeToolResults(history, p).replacements
           m == Len(replacements)
           E(i) == EvaluationOf(history, p, i)
           Touched(i, k) == \E x \in 1 .. k : replacements[x].index = i
           Is(out, k) ==
             /\ out.ok
             /\ \A i \in 1 .. n :
                  out.items[i] = IF Touched(i, k) THEN WithReceipt(items[i], E(i).receipt)
                                 ELSE items[i]
<1>1. /\ n \in Nat /\ history \in Seq(HistoryItems) /\ Len(history) = n
      /\ \A i \in 1 .. n : items[i] \in ClientItems /\ history[i] = Normalize(items[i])
  BY NormalizedType, LenProperties
<1>2. \A i \in 1 .. n : items[i] \in Messages
  BY StartType
<1> HIDE DEF history
<1>3. /\ replacements \in Seq(Evaluations)
      /\ \A k \in 1 .. m : /\ replacements[k].index \in 1 .. n
                           /\ Replaced(history, p, replacements[k].index)
                           /\ replacements[k] = E(replacements[k].index)
      /\ \A i \in 1 .. n : Replaced(history, p, i) => Touched(i, m)
  BY <1>1, ReplacementsAre
<1> HIDE DEF replacements
<1>4. m \in Nat
  BY <1>3, LenProperties
<1>5. PICK a \in [0 .. m -> Written(n)] :
        /\ a[0] = [ok |-> TRUE, items |-> items]
        /\ \A k \in 1 .. m : a[k] = WriteReceipt(a[k - 1], replacements[k])
        /\ Rewritten(items, replacements) = a[m]
  BY <1>3, WriteTrace
<1>6. ASSUME NEW i \in 1 .. n, Replaced(history, p, i)
      PROVE  /\ items[i].type \in Results
             /\ E(i) \in Evaluations /\ E(i).receipt \in Receipts
             /\ E(i).family = FamilyOf(items[i].type)
             /\ E(i).callId = items[i].callId
  <2>1. IsToolResult(history[i]) /\ history[i] = Normalize(items[i]) /\ items[i] \in ClientItems
    BY <1>1, <1>6 DEF Replaced
  <2>2. /\ items[i].type \in Results
        /\ history[i].family = FamilyOf(items[i].type)
        /\ history[i].callId = items[i].callId
    BY <2>1, NormalizeType
  <2>3. E(i) \in Evaluations /\ E(i).family = history[i].family
        /\ E(i).callId = history[i].callId
    BY <1>1, <2>1, EvaluationIs
  <2> QED
    BY <2>2, <2>3 DEF Evaluations
<1> HIDE DEF E, n, m
<1> DEFINE Kept == {k \in 0 .. m : Is(a[k], k)}
<1>7. 0 \in Kept
  <2>1. a[0].ok /\ a[0].items = items /\ 0 \in 0 .. m /\ \A i : ~Touched(i, 0)
    BY <1>4, <1>5
  <2>2. Is(a[0], 0)
    BY <2>1
  <2> HIDE DEF Is
  <2> QED
    BY <2>1, <2>2
<1>8. ASSUME NEW k \in 0 .. m, k \in Kept, k < m PROVE k + 1 \in Kept
  <2> DEFINE r == replacements[k + 1]
             j == r.index
             was == a[k]
             out == a[k + 1]
  <2>1. k + 1 \in 1 .. m /\ k + 1 \in 0 .. m /\ (k + 1) - 1 = k /\ k \in 0 .. m
    BY <1>4, <1>8
  <2>2. /\ out = WriteReceipt(was, r) /\ was \in Written(n) /\ r \in Evaluations
        /\ j \in 1 .. n /\ Replaced(history, p, j) /\ r = E(j)
    BY <1>3, <1>5, <2>1, ElementOfSeq DEF m
  <2>3. Is(was, k)
    BY <1>8
  <2>4. ASSUME NEW i \in 1 .. n PROVE Touched(i, k + 1) <=> Touched(i, k) \/ i = j
    <3>1. \A x \in 1 .. k + 1 : x \in 1 .. k \/ x = k + 1
      BY <2>1
    <3>2. k + 1 \in 1 .. k + 1 /\ \A x \in 1 .. k : x \in 1 .. k + 1
      BY <2>1
    <3> QED
      BY <3>1, <3>2
  <2>5. ASSUME NEW i \in 1 .. n, Touched(i, k) PROVE Replaced(history, p, i)
    <3>1. \A x \in 1 .. k : x \in 1 .. m
      BY <1>4, <2>1
    <3> QED
      BY <1>3, <2>5, <3>1
  <2> HIDE DEF r, j, was, out, Touched
  <2>6. /\ items[j] \in Messages /\ items[j].type \in Results /\ E(j).receipt \in Receipts
        /\ r.family = FamilyOf(items[j].type) /\ r.callId = items[j].callId
        /\ r.receipt = E(j).receipt
    BY <1>2, <1>6, <2>2
  <2>7. was.items[j].type = items[j].type /\ was.items[j].callId = items[j].callId
    BY <2>2, <2>3, <2>6, WithReceiptIs
  <2>8. StillMatches(was.items[j], r)
    BY <2>6, <2>7 DEF StillMatches
  <2>9. /\ out.ok
        /\ \A i \in 1 .. n : out.items[i] = IF i = j THEN WithReceipt(was.items[i], r.receipt)
                                            ELSE was.items[i]
    BY <1>1, <2>2, <2>3, <2>8, WriteReceiptIs DEF j
  <2>10. ASSUME NEW i \in 1 .. n
         PROVE  out.items[i] = IF Touched(i, k + 1) THEN WithReceipt(items[i], E(i).receipt)
                               ELSE items[i]
    <3>1. CASE i # j
      BY <2>3, <2>4, <2>9, <3>1
    <3>2. CASE i = j
      <4>1. out.items[i] = WithReceipt(was.items[i], E(i).receipt)
        BY <2>6, <2>9, <3>2
      <4>2. WithReceipt(was.items[i], E(i).receipt) = WithReceipt(items[i], E(i).receipt)
        BY <2>3, <2>6, <3>2, WithReceiptTwice
      <4> QED
        BY <2>4, <3>2, <4>1, <4>2
    <3> QED
      BY <3>1, <3>2
  <2>11. Is(out, k + 1)
    BY <2>9, <2>10
  <2> HIDE DEF Is
  <2> QED
    BY <2>1, <2>11 DEF out
<1>9. m \in Kept
  <2> HIDE DEF Kept
  <2>1. 0 .. m \subseteq Kept
    BY <1>4, <1>7, <1>8, InductionUpTo
  <2> QED
    BY <1>4, <2>1
<1>10. a[m] \in Written(n) /\ Is(a[m], m)
  BY <1>4, <1>5, <1>9
<1>11. \A i \in 1 .. n : Touched(i, m) <=> Replaced(history, p, i)
  BY <1>3
<1> HIDE DEF Touched
<1> QED
  BY <1>5, <1>10, <1>11 DEF E, n, history, replacements

-----------------------------------------------------------------------------
(* What becomes of a body *)

Bodies == [path : Paths, codec : Codecs, hasInput : BOOLEAN, items : Seq(ClientItems)]

\* The engine runs on the history of the body.
Evaluates(body, p) ==
  body.path = "responses" /\ body.codec # "broken" /\ p.enabled /\ body.hasInput

HistoryOf(body) == Normalized(body.items)

\* The i-th item leaves as its receipt, if its receipt is written at all.
Ages(body, p, i) == Replaced(HistoryOf(body), p, i)

SomeAges(body, p) == \E i \in 1 .. Len(body.items) : Ages(body, p, i)

AgingOf(body, p) == AgeToolResults(HistoryOf(body), p)

\* The body leaves as it came.
Untouched(body, r) == r.body = body /\ ~r.changed

\* Every result that ages leaves as its receipt.
ReceiptsIn(body, p, r) ==
  /\ r.changed
  /\ r.body = [body EXCEPT !.items = r.body.items]
  /\ r.body.items \in [1 .. Len(body.items) -> Messages]
  /\ \A i \in 1 .. Len(body.items) :
       r.body.items[i] =
         IF Ages(body, p, i)
         THEN WithReceipt(body.items[i], EvaluationOf(HistoryOf(body), p, i).receipt)
         ELSE body.items[i]

LEMMA AgesIs ==
  ASSUME NEW body \in Bodies, NEW p \in PolicyType, p.enabled,
         NEW i \in 1 .. Len(body.items)
  PROVE  LET history == HistoryOf(body)
             receipt == EvaluationOf(history, p, i).receipt
         IN  /\ Ages(body, p, i) <=> MayAge(history, p, i) /\ Shrinks(history, p, i)
             /\ Ages(body, p, i) =>
                  /\ receipt \in Receipts
                  /\ receipt = Receipt(history[i].bytes, ToolOf(history, i), p.preview)
                  /\ receipt.original = history[i].bytes
                  /\ receipt.name = ToolOf(history, i)
                  /\ receipt.length < history[i].bytes
<1> DEFINE history == HistoryOf(body)
<1>1. history \in Seq(HistoryItems) /\ Len(history) = Len(body.items)
  BY NormalizedType DEF HistoryOf, Bodies
<1> HIDE DEF history
<1>2. CASE ~IsToolResult(history[i])
  BY <1>2 DEF Ages, Replaced, MayAge, history
<1>3. CASE IsToolResult(history[i])
  <2> DEFINE e == EvaluationOf(history, p, i)
  <2>1. /\ e \in Evaluations
        /\ e.receipt = Receipt(history[i].bytes, ToolOf(history, i), p.preview)
        /\ e.receipt.original = history[i].bytes
        /\ e.decision = "Aged" <=> MayAge(history, p, i) /\ Shrinks(history, p, i)
        /\ e.decision = "Aged" => e.receipt.length < history[i].bytes
    BY <1>1, <1>3, EvaluationIs
  <2>2. Receipt(history[i].bytes, ToolOf(history, i), p.preview).name = ToolOf(history, i)
    BY DEF Receipt
  <2>3. e.receipt \in Receipts
    BY <2>1 DEF Evaluations
  <2>4. Ages(body, p, i) <=> e.decision = "Aged"
    BY <1>3 DEF Ages, Replaced, history
  <2> HIDE DEF e
  <2> QED
    BY <2>1, <2>2, <2>3, <2>4 DEF e, history
<1> QED
  BY <1>2, <1>3

LEMMA AgedBodyIs ==
  ASSUME NEW body \in Bodies, NEW p \in PolicyType, p.enabled
  PROVE  LET r == AgedBody(body, p)
             aging == AgingOf(body, p)
         IN  /\ r.diagnostics = WithAging(Inspected(body), aging)
             /\ ~SomeAges(body, p) =>
                  /\ Untouched(body, r) /\ r.aging = aging
                  /\ r.outcome = IF aging.eligible > 0 THEN "EvaluatedNoSavings"
                                 ELSE "EvaluatedNoEligibleResult"
             /\ SomeAges(body, p) /\ body.codec = "oneway" =>
                  Untouched(body, r) /\ r.aging = NothingAged /\ r.outcome = "FailOriginal"
             /\ SomeAges(body, p) /\ body.codec # "oneway" =>
                  ReceiptsIn(body, p, r) /\ r.aging = aging /\ r.outcome = "Aged"
<1> DEFINE r == AgedBody(body, p)
           history == HistoryOf(body)
           aging == AgingOf(body, p)
           diagnostics == WithAging(Inspected(body), aging)
           rewritten == Rewritten(body.items, aging.replacements)
           n == Len(body.items)
<1>1. body.items \in Seq(ClientItems)
  BY DEF Bodies
<1>2. history \in Seq(HistoryItems) /\ Len(history) = n /\ n \in Nat
  BY <1>1, NormalizedType, LenProperties DEF HistoryOf
<1>3. aging.replacements = <<>> <=> ~SomeAges(body, p)
  <2> DEFINE replacements == aging.replacements
  <2>1. /\ replacements \in Seq(Evaluations)
        /\ \A k \in 1 .. Len(replacements) :
             replacements[k].index \in 1 .. n /\ Replaced(history, p, replacements[k].index)
        /\ \A i \in 1 .. n : Replaced(history, p, i) =>
             \E k \in 1 .. Len(replacements) : replacements[k].index = i
    BY <1>2, ReplacementsAre DEF AgingOf
  <2> HIDE DEF replacements
  <2>2. Len(replacements) \in Nat /\ (replacements = <<>> <=> Len(replacements) = 0)
    BY <2>1, LenProperties, EmptySeq
  <2>3. CASE replacements = <<>>
    BY <2>1, <2>2, <2>3 DEF SomeAges, Ages, replacements
  <2>4. CASE replacements # <<>>
    <3>1. 1 \in 1 .. Len(replacements)
      BY <2>2, <2>4
    <3>2. SomeAges(body, p)
      BY <2>1, <3>1 DEF SomeAges, Ages
    <3> QED
      BY <2>4, <3>2 DEF replacements
  <2> QED
    BY <2>3, <2>4
<1>4. /\ rewritten \in Written(n) /\ rewritten.ok
      /\ \A i \in 1 .. n :
           rewritten.items[i] = IF Replaced(history, p, i)
                                THEN WithReceipt(body.items[i], EvaluationOf(history, p, i).receipt)
                                ELSE body.items[i]
  BY <1>1, RewrittenIs DEF HistoryOf, AgingOf
<1>5. r = IF aging.replacements = <<>>
          THEN Original(body, IF aging.eligible > 0 THEN "EvaluatedNoSavings"
                              ELSE "EvaluatedNoEligibleResult", aging, diagnostics)
          ELSE IF ~rewritten.ok \/ body.codec = "oneway"
          THEN Original(body, "FailOriginal", NothingAged, diagnostics)
          ELSE [outcome |-> "Aged", body |-> [body EXCEPT !.items = rewritten.items],
                changed |-> TRUE, aging |-> aging, diagnostics |-> diagnostics]
  BY DEF AgedBody, AgingOf, HistoryOf
<1> HIDE DEF r, history, aging, diagnostics, rewritten, n
<1>6. CASE ~SomeAges(body, p)
  <2>1. r = Original(body, IF aging.eligible > 0 THEN "EvaluatedNoSavings"
                           ELSE "EvaluatedNoEligibleResult", aging, diagnostics)
    BY <1>3, <1>5, <1>6
  <2>2. /\ r.diagnostics = diagnostics /\ r.body = body /\ ~r.changed /\ r.aging = aging
        /\ r.outcome = IF aging.eligible > 0 THEN "EvaluatedNoSavings"
                       ELSE "EvaluatedNoEligibleResult"
    BY <2>1 DEF Original
  <2> QED
    BY <1>6, <2>2 DEF Untouched, r, aging, diagnostics
<1>7. CASE SomeAges(body, p) /\ body.codec = "oneway"
  <2>1. r = Original(body, "FailOriginal", NothingAged, diagnostics)
    BY <1>3, <1>5, <1>7
  <2>2. /\ r.diagnostics = diagnostics /\ r.body = body /\ ~r.changed /\ r.aging = NothingAged
        /\ r.outcome = "FailOriginal"
    BY <2>1 DEF Original
  <2> QED
    BY <1>7, <2>2 DEF Untouched, r, aging, diagnostics
<1>8. CASE SomeAges(body, p) /\ body.codec # "oneway"
  <2> DEFINE items == rewritten.items
             left == [body EXCEPT !.items = items]
  <2>1. r = [outcome |-> "Aged", body |-> left, changed |-> TRUE, aging |-> aging,
             diagnostics |-> diagnostics]
    BY <1>3, <1>4, <1>5, <1>8
  <2>2. items \in [1 .. n -> Messages]
    BY <1>4 DEF Written
  <2>3. left.items = items
    BY DEF Bodies
  <2> HIDE DEF left
  <2>4. /\ r.diagnostics = diagnostics /\ r.body = left /\ r.changed /\ r.aging = aging
        /\ r.outcome = "Aged"
    BY <2>1
  <2>5. ReceiptsIn(body, p, r)
    <3>1. r.body = [body EXCEPT !.items = r.body.items] /\ r.body.items = items
      BY <2>3, <2>4 DEF left
    <3>2. \A i \in 1 .. n :
            items[i] = IF Ages(body, p, i)
                       THEN WithReceipt(body.items[i], EvaluationOf(HistoryOf(body), p, i).receipt)
                       ELSE body.items[i]
      BY <1>4 DEF Ages, history
    <3> HIDE DEF items
    <3> QED
      BY <2>2, <2>4, <3>1, <3>2 DEF ReceiptsIn, n
  <2> QED
    BY <1>8, <2>4, <2>5 DEF r, aging, diagnostics
<1> QED
  BY <1>6, <1>7, <1>8

\* No result of a request that the engine did not look at is counted.
Uncounted(r) == r.diagnostics.results = 0
/\ \A reason \in SkipReasons : r.diagnostics.skipped[reason] = 0

LEMMA PrepareIs ==
  ASSUME NEW body \in Bodies, NEW p \in PolicyType
  PROVE  LET r == Prepare(body, p)
         IN  /\ Evaluates(body, p) => r = AgedBody(body, p)
             /\ ~Evaluates(body, p) =>
                  /\ Untouched(body, r) /\ r.aging = NothingAged
                  /\ \/ r.outcome = "FailOriginal" /\ body.codec = "broken"
                     \/ r.outcome = "EvaluatedNoEligibleResult" /\ ~body.hasInput
                        /\ Uncounted(r)
                     \/ r.outcome = "Disabled" /\ ~p.enabled
                     \/ r.outcome = "CompactionBypass" /\ body.path # "responses"
                     \/ r.outcome = "NativePassthrough" /\ body.path # "responses"
<1> DEFINE r == Prepare(body, p)
<1>1. body.path \in Paths
  BY DEF Bodies
<1>2. ASSUME NEW outcome, NEW diagnostics, r = Original(body, outcome, NothingAged, diagnostics)
      PROVE  /\ Untouched(body, r) /\ r.aging = NothingAged /\ r.outcome = outcome
             /\ r.diagnostics = diagnostics
  BY <1>2 DEF Original, Untouched
<1>3. CASE body.path = "other"
  <2>1. r = Original(body, "NativePassthrough", NothingAged, NoDiagnostics)
    BY <1>3 DEF Prepare
  <2> HIDE DEF r
  <2> QED
    BY <1>2, <1>3, <2>1 DEF Evaluates, r
<1>4. CASE body.path # "other" /\ body.codec = "broken"
  <2>1. r = Undecodable(body, p)
    BY <1>4 DEF Prepare
  <2> HIDE DEF r
  <2>2. CASE body.path = "compact"
    <3>1. r = Original(body, "CompactionBypass", NothingAged, NoDiagnostics)
      BY <2>1, <2>2 DEF Undecodable
    <3> QED
      BY <1>2, <2>2, <3>1 DEF Evaluates, r
  <2>3. CASE body.path # "compact" /\ ~p.enabled
    <3>1. r = Original(body, "Disabled", NothingAged, NoDiagnostics)
      BY <2>1, <2>3 DEF Undecodable
    <3> QED
      BY <1>2, <2>3, <3>1 DEF Evaluates, r
  <2>4. CASE body.path # "compact" /\ p.enabled
    <3>1. r = Original(body, "FailOriginal", NothingAged, NoDiagnostics)
      BY <2>1, <2>4 DEF Undecodable
    <3> QED
      BY <1>2, <1>4, <3>1 DEF Evaluates, r
  <2> QED
    BY <2>2, <2>3, <2>4
<1>5. CASE body.codec # "broken" /\ body.path = "compact"
  <2>1. r = Original(body, "CompactionBypass", NothingAged, Inspected(body))
    BY <1>5 DEF Prepare
  <2> HIDE DEF r
  <2> QED
    BY <1>2, <1>5, <2>1 DEF Evaluates, r
<1>6. CASE body.codec # "broken" /\ body.path = "responses" /\ ~p.enabled
  <2>1. r = Original(body, "Disabled", NothingAged, Inspected(body))
    BY <1>6 DEF Prepare
  <2> HIDE DEF r
  <2> QED
    BY <1>2, <1>6, <2>1 DEF Evaluates, r
<1>7. CASE body.codec # "broken" /\ body.path = "responses" /\ p.enabled /\ ~body.hasInput
  <2> DEFINE inspected == Inspected(body)
             diagnostics == [inspected EXCEPT !.ran = TRUE]
  <2>1. r = Original(body, "EvaluatedNoEligibleResult", NothingAged, diagnostics)
    BY <1>7 DEF Prepare
  <2>2. inspected = [items |-> Len(<<>>), calls |-> CountOf(<<>>, Calls),
                     results |-> CountOf(<<>>, Results), ran |-> FALSE,
                     skipped |-> [reason \in SkipReasons |-> 0]]
    BY <1>7 DEF Inspected
  <2>3. CountOf(<<>>, Results) = 0
    <3>1. {i \in DOMAIN <<>> : <<>>[i].type \in Results} = {}
      OBVIOUS
    <3> QED
      BY <3>1, FS_EmptySet DEF CountOf
  <2> HIDE DEF inspected
  <2>4. diagnostics.results = 0 /\ diagnostics.skipped = [reason \in SkipReasons |-> 0]
    BY <2>2, <2>3
  <2> HIDE DEF r, diagnostics
  <2>5. r.diagnostics = diagnostics
    BY <1>2, <2>1
  <2>6. Uncounted(r)
    BY <2>4, <2>5 DEF Uncounted
  <2> QED
    BY <1>2, <1>7, <2>1, <2>6 DEF Evaluates, r
<1>8. CASE Evaluates(body, p)
  BY <1>8 DEF Evaluates, Prepare
<1> QED
  BY <1>1, <1>3, <1>4, <1>5, <1>6, <1>7, <1>8 DEF Paths, Evaluates

LEMMA OutputIsNoReceipt ==
  ASSUME NEW output \in Outputs, NEW receipt \in Receipts
  PROVE  output # receipt
<1>1. DOMAIN output = {"parts"}
  BY DEF Outputs
<1>2. "original" \in DOMAIN receipt
  BY DEF Receipts
<1> QED
  BY <1>1, <1>2

\* What ages is what changed, and its new output is its receipt.
LEMMA ReceiptsInIs ==
  ASSUME NEW body \in Bodies, NEW p \in PolicyType, p.enabled, NEW r, ReceiptsIn(body, p, r),
         NEW i \in 1 .. Len(body.items)
  PROVE  LET receipt == EvaluationOf(HistoryOf(body), p, i).receipt
         IN  /\ ~Ages(body, p, i) => r.body.items[i] = body.items[i]
             /\ Ages(body, p, i) =>
                  /\ r.body.items[i] # body.items[i]
                  /\ r.body.items[i] = WithReceipt(body.items[i], receipt)
                  /\ r.body.items[i].output = receipt
<1> DEFINE receipt == EvaluationOf(HistoryOf(body), p, i).receipt
           item == body.items[i]
<1>1. CASE ~Ages(body, p, i)
  BY <1>1 DEF ReceiptsIn
<1>2. CASE Ages(body, p, i)
  <2>1. r.body.items[i] = WithReceipt(item, receipt)
    BY <1>2 DEF ReceiptsIn
  <2>2. receipt \in Receipts /\ item \in ClientItems
    BY <1>2, AgesIs, NormalizedType DEF Bodies
  <2> HIDE DEF receipt, item
  <2>3. WithReceipt(item, receipt).output = receipt
    BY <2>2 DEF WithReceipt, ClientItems
  <2>4. item.output # receipt
    BY <2>2, OutputIsNoReceipt DEF ClientItems
  <2> QED
    BY <1>2, <2>1, <2>3, <2>4 DEF receipt, item
<1> QED
  BY <1>1, <1>2

-----------------------------------------------------------------------------
(* The conversation *)

\* No call has the id of an item before it.
FreshCalls(items) ==
  \A i, j \in 1 .. Len(items) :
    i < j /\ items[j].type \in Calls /\ items[j].callId # None =>
      items[i].callId # items[j].callId

\* The last request is what Prepare made of a body the client may send.
SentIsPrepared ==
  sent # NotYet =>
    /\ sent.body \in Bodies /\ FreshCalls(sent.body.items)
    /\ sent.policy \in PolicyType
    /\ sent.prepared = Prepare(sent.body, sent.policy)

RequestIInv ==
  /\ input \in Seq(ClientItems)
  /\ FreshCalls(input)
  /\ policy \in PolicyType
  /\ SentIsPrepared

LEMMA ConstantsFit == Items \subseteq ClientItems /\ Policies \subseteq PolicyType
BY RequestPreparationAssumption DEF ClientItems, Outputs, PolicyType

LEMMA FreshCallsStay ==
  ASSUME NEW items \in Seq(ClientItems), FreshCalls(items), NEW item \in ClientItems,
         item.type \in Calls /\ item.callId # None =>
           \A i \in DOMAIN items : items[i].callId # item.callId
  PROVE  FreshCalls(Append(items, item))
<1> DEFINE n == Len(items)
           more == Append(items, item)
<1>1. /\ n \in Nat /\ DOMAIN items = 1 .. n /\ Len(more) = n + 1 /\ more[n + 1] = item
      /\ \A i \in 1 .. n : more[i] = items[i]
  BY AppendProperties, LenProperties
<1>2. \A i, j \in 1 .. n : i < j /\ items[j].type \in Calls /\ items[j].callId # None =>
                             items[i].callId # items[j].callId
  BY DEF FreshCalls
<1> HIDE DEF n, more
<1>3. SUFFICES ASSUME NEW i \in 1 .. n + 1, NEW j \in 1 .. n + 1, i < j,
                      more[j].type \in Calls, more[j].callId # None
               PROVE  more[i].callId # more[j].callId
  BY <1>1 DEF FreshCalls, more
<1>4. i \in 1 .. n
  BY <1>1, <1>3
<1>5. CASE j \in 1 .. n
  BY <1>1, <1>2, <1>3, <1>4, <1>5
<1>6. CASE j = n + 1
  BY <1>1, <1>3, <1>4, <1>6
<1> QED
  BY <1>1, <1>5, <1>6

LEMMA RequestIInvHolds == RequestSpec => []RequestIInv
<1>1. ASSUME RequestInit PROVE RequestIInv
  <2>1. input \in Seq(ClientItems) /\ Len(input) = 0
    BY <1>1, EmptySeq DEF RequestInit
  <2>2. FreshCalls(input)
    BY <2>1 DEF FreshCalls
  <2>3. policy \in PolicyType /\ SentIsPrepared
    BY <1>1, ConstantsFit DEF RequestInit, SentIsPrepared
  <2> QED
    BY <2>1, <2>2, <2>3 DEF RequestIInv
<1>2. ASSUME RequestIInv, [RequestNext]_requestVars PROVE RequestIInv'
  <2>1. CASE Extend
    <3>1. PICK item \in Items : Fresh(item) /\ input' = Append(input, item)
      BY <2>1 DEF Extend
    <3>2. item \in ClientItems
      BY ConstantsFit
    <3>3. input' \in Seq(ClientItems)
      BY <1>2, <3>1, <3>2, AppendProperties DEF RequestIInv
    <3>4. FreshCalls(input')
      BY <1>2, <3>1, <3>2, FreshCallsStay DEF RequestIInv, Fresh
    <3>5. policy' = policy /\ sent' = sent
      BY <2>1 DEF Extend
    <3>6. FreshCalls(input)'
      BY <3>4 DEF FreshCalls
    <3>7. SentIsPrepared'
      BY <1>2, <3>5 DEF RequestIInv, SentIsPrepared
    <3> QED
      BY <1>2, <3>3, <3>5, <3>6, <3>7 DEF RequestIInv
  <2>2. CASE SetPolicy
    <3>1. input' = input /\ sent' = sent /\ policy' \in PolicyType
      BY <2>2, ConstantsFit DEF SetPolicy
    <3> QED
      BY <1>2, <3>1 DEF RequestIInv, SentIsPrepared, FreshCalls
  <2>3. CASE Send
    <3>1. PICK e \in Envelopes :
            sent' = [body |-> [path |-> e.path, codec |-> e.codec, hasInput |-> e.hasInput,
                               items |-> input],
                     policy |-> policy,
                     prepared |-> Prepare([path |-> e.path, codec |-> e.codec,
                                           hasInput |-> e.hasInput, items |-> input], policy)]
      BY <2>3 DEF Send
    <3> DEFINE body == [path |-> e.path, codec |-> e.codec, hasInput |-> e.hasInput,
                        items |-> input]
    <3>2. e.path \in Paths /\ e.codec \in Codecs /\ e.hasInput \in BOOLEAN
      BY RequestPreparationAssumption
    <3>3. body \in Bodies /\ body.items = input
      BY <1>2, <3>2 DEF Bodies, RequestIInv
    <3> HIDE DEF body
    <3>4. sent' = [body |-> body, policy |-> policy, prepared |-> Prepare(body, policy)]
      BY <3>1 DEF body
    <3>5. sent'.body = body /\ sent'.policy = policy /\ sent'.prepared = Prepare(body, policy)
      BY <3>4
    <3>6. FreshCalls(body.items) /\ policy \in PolicyType
      BY <1>2, <3>3 DEF RequestIInv
    <3>7. SentIsPrepared'
      BY <3>3, <3>5, <3>6 DEF SentIsPrepared
    <3>8. input' = input /\ policy' = policy
      BY <2>3 DEF Send
    <3> QED
      BY <1>2, <3>7, <3>8 DEF RequestIInv, FreshCalls
  <2>4. CASE UNCHANGED requestVars
    BY <1>2, <2>4 DEF requestVars, RequestIInv, SentIsPrepared, FreshCalls
  <2> QED
    BY <1>2, <2>1, <2>2, <2>3, <2>4 DEF RequestNext
<1> QED
  BY <1>1, <1>2, PTL DEF RequestSpec

-----------------------------------------------------------------------------
(* The theorems *)

LEMMA ReferenceIs ==
  ASSUME NEW history \in Seq(HistoryItems), NEW p \in PolicyType
  PROVE  LET replacements == AgeToolResults(history, p).replacements
         IN  {replacements[k].index : k \in DOMAIN replacements}
               = {i \in DOMAIN history : MayAge(history, p, i) /\ Shrinks(history, p, i)}
<1> DEFINE replacements == AgeToolResults(history, p).replacements
           n == Len(history)
<1>1. DOMAIN history = 1 .. n
  BY LenProperties
<1>2. CASE ~p.enabled
  <2>1. replacements = <<>>
    BY <1>2 DEF AgeToolResults, NothingAged
  <2>2. DOMAIN replacements = {}
    BY <2>1
  <2> HIDE DEF replacements
  <2>3. \A i : ~MayAge(history, p, i)
    BY <1>2 DEF MayAge
  <2>4. {replacements[k].index : k \in DOMAIN replacements} = {}
    BY <2>2
  <2> QED
    BY <2>3, <2>4 DEF replacements
<1>3. CASE p.enabled
  <2>1. ASSUME NEW i \in 1 .. n
        PROVE  Replaced(history, p, i) <=> MayAge(history, p, i) /\ Shrinks(history, p, i)
    <3>1. CASE IsToolResult(history[i])
      BY <1>3, <3>1, EvaluationIs DEF Replaced
    <3>2. CASE ~IsToolResult(history[i])
      BY <3>2 DEF Replaced, MayAge
    <3> QED
      BY <3>1, <3>2
  <2>2. /\ replacements \in Seq(Evaluations)
        /\ \A k \in 1 .. Len(replacements) :
             replacements[k].index \in 1 .. n /\ Replaced(history, p, replacements[k].index)
        /\ \A i \in 1 .. n : Replaced(history, p, i) =>
             \E k \in 1 .. Len(replacements) : replacements[k].index = i
    BY <1>3, ReplacementsAre
  <2> HIDE DEF replacements, n
  <2>3. DOMAIN replacements = 1 .. Len(replacements)
    BY <2>2, LenProperties
  <2>4. {replacements[k].index : k \in DOMAIN replacements}
          = {i \in 1 .. n : Replaced(history, p, i)}
    BY <2>2, <2>3
  <2>5. {i \in 1 .. n : Replaced(history, p, i)}
          = {i \in 1 .. n : MayAge(history, p, i) /\ Shrinks(history, p, i)}
    BY <2>1
  <2> QED
    BY <1>1, <2>4, <2>5 DEF replacements
<1> QED
  BY <1>2, <1>3

\* The passes of age_tool_results choose the results README.md's invariants
\* allow, on every history, of any length, and under every policy.
THEOREM EngineMeetsReferenceHolds == RequestSpec => []EngineMeetsReference
<1>1. ASSUME RequestIInv PROVE EngineMeetsReference
  <2>1. Normalized(input) \in Seq(HistoryItems) /\ policy \in PolicyType
    BY <1>1, NormalizedType DEF RequestIInv
  <2> QED
    BY <2>1, ReferenceIs DEF EngineMeetsReference
<1> QED
  BY <1>1, RequestIInvHolds, PTL

\* Nothing but the output of a result that may age changes on its way out, and
\* its receipt is the one of its own text, for every history and body.
THEOREM OnlyAgedOutputsDifferHolds == RequestSpec => []OnlyAgedOutputsDiffer
<1>1. ASSUME RequestIInv PROVE OnlyAgedOutputsDiffer
  <2> DEFINE body == sent.body
             p == sent.policy
             r == sent.prepared
             n == Len(body.items)
             history == HistoryOf(body)
             changed == {i \in 1 .. n : r.body.items[i] # body.items[i]}
  <2> SUFFICES ASSUME sent # NotYet
               PROVE  /\ r.body = [body EXCEPT !.items = r.body.items]
                      /\ DOMAIN r.body.items = DOMAIN body.items
                      /\ r.changed <=> changed # {}
                      /\ changed # {} => body.path = "responses" /\ body.codec = "good"
                         /\ p.enabled
                      /\ \A i \in changed :
                           /\ MayAge(history, p, i)
                           /\ r.body.items[i]
                                = [body.items[i] EXCEPT !.output = r.body.items[i].output]
                           /\ r.body.items[i].output.original = history[i].bytes
                           /\ r.body.items[i].output.name = ToolOf(history, i)
                           /\ r.body.items[i].output.length < history[i].bytes
    <3>1. sent # NotYet => DOMAIN Normalized(body.items) = 1 .. n
      BY <1>1, NormalizedType DEF RequestIInv, SentIsPrepared, Bodies
    <3> QED
      BY <3>1 DEF OnlyAgedOutputsDiffer, Was, Left, HistoryOf
  <2>1. body \in Bodies /\ p \in PolicyType /\ r = Prepare(body, p)
    BY <1>1 DEF RequestIInv, SentIsPrepared
  <2>2. DOMAIN body.items = 1 .. n /\ \A i \in 1 .. n : body.items[i] \in ClientItems
    BY <2>1, NormalizedType DEF Bodies
  <2> HIDE DEF body, p, r, n
  <2>3. CASE Untouched(body, r)
    <3>1. r.body = body /\ ~r.changed /\ changed = {}
      BY <2>3 DEF Untouched
    <3>2. body = [body EXCEPT !.items = body.items]
      BY <2>1 DEF Bodies
    <3> QED
      BY <3>1, <3>2
  <2>4. CASE /\ ReceiptsIn(body, p, r) /\ SomeAges(body, p)
             /\ body.codec # "oneway" /\ Evaluates(body, p)
    <3>1. ASSUME NEW i \in 1 .. n, Ages(body, p, i)
          PROVE  /\ i \in changed
                 /\ r.body.items[i]
                      = WithReceipt(body.items[i], EvaluationOf(history, p, i).receipt)
                 /\ r.body.items[i].output = EvaluationOf(history, p, i).receipt
      BY <2>1, <2>4, <3>1, ReceiptsInIs DEF Evaluates, n
    <3>2. ASSUME NEW i \in 1 .. n, ~Ages(body, p, i) PROVE i \notin changed
      BY <2>1, <2>4, <3>2, ReceiptsInIs DEF Evaluates, n
    <3>3. r.changed /\ changed # {} /\ \A i \in changed : i \in 1 .. n /\ Ages(body, p, i)
      BY <2>4, <3>1, <3>2 DEF ReceiptsIn, SomeAges, n
    <3>4. body.path = "responses" /\ body.codec = "good" /\ p.enabled
      BY <2>1, <2>4 DEF Evaluates, Bodies, Codecs
    <3>5. r.body = [body EXCEPT !.items = r.body.items] /\ DOMAIN r.body.items = 1 .. n
      BY <2>4 DEF ReceiptsIn, n
    <3>6. ASSUME NEW i \in changed
          PROVE  /\ MayAge(history, p, i)
                 /\ r.body.items[i] = [body.items[i] EXCEPT !.output = r.body.items[i].output]
                 /\ r.body.items[i].output.original = history[i].bytes
                 /\ r.body.items[i].output.name = ToolOf(history, i)
                 /\ r.body.items[i].output.length < history[i].bytes
      <4>1. i \in 1 .. n /\ Ages(body, p, i)
        BY <3>3
      <4>2. /\ r.body.items[i] = WithReceipt(body.items[i], EvaluationOf(history, p, i).receipt)
            /\ r.body.items[i].output = EvaluationOf(history, p, i).receipt
        BY <3>1, <4>1
      <4>3. /\ MayAge(history, p, i)
            /\ EvaluationOf(history, p, i).receipt.original = history[i].bytes
            /\ EvaluationOf(history, p, i).receipt.name = ToolOf(history, i)
            /\ EvaluationOf(history, p, i).receipt.length < history[i].bytes
        BY <2>1, <3>4, <4>1, AgesIs DEF n
      <4> HIDE DEF history, changed
      <4> QED
        BY <4>2, <4>3 DEF WithReceipt
    <3> HIDE DEF changed, history
    <3> QED
      BY <2>2, <3>3, <3>4, <3>5, <3>6
  <2>5. Untouched(body, r) \/ /\ ReceiptsIn(body, p, r) /\ SomeAges(body, p)
                              /\ body.codec # "oneway" /\ Evaluates(body, p)
    BY <2>1, PrepareIs, AgedBodyIs DEF Evaluates
  <2> QED
    BY <2>3, <2>4, <2>5
<1> QED
  BY <1>1, RequestIInvHolds, PTL

\* The outcome reported for a request is explained by its path, its codec, the
\* policy and the results that may age, for every history and body.
THEOREM OutcomeExplainedHolds == RequestSpec => []OutcomeExplained
<1>1. ASSUME RequestIInv PROVE OutcomeExplained
  <2> DEFINE body == sent.body
             p == sent.policy
             r == sent.prepared
             items == IF body.hasInput THEN Normalized(body.items) ELSE <<>>
             may == {i \in DOMAIN items : MayAge(items, p, i)}
             shrinks == {i \in may : Shrinks(items, p, i)}
             Explained ==
               CASE r.outcome = "FailOriginal" ->
                      body.codec = "broken" \/ (body.codec = "oneway" /\ shrinks # {})
                 [] r.outcome = "Aged" -> shrinks # {}
                 [] r.outcome = "EvaluatedNoSavings" -> may # {} /\ shrinks = {}
                 [] r.outcome = "EvaluatedNoEligibleResult" -> may = {}
                 [] r.outcome = "Disabled" -> ~p.enabled
                 [] r.outcome \in {"CompactionBypass", "NativePassthrough"} ->
                      body.path # "responses"
  <2> SUFFICES ASSUME sent # NotYet PROVE Explained
    BY DEF OutcomeExplained, Was
  <2>1. body \in Bodies /\ p \in PolicyType /\ r = Prepare(body, p)
    BY <1>1 DEF RequestIInv, SentIsPrepared
  <2> HIDE DEF body, p, r
  <2>2. CASE ~Evaluates(body, p)
    <3>1. \/ r.outcome = "FailOriginal" /\ body.codec = "broken"
          \/ r.outcome = "EvaluatedNoEligibleResult" /\ ~body.hasInput
          \/ r.outcome = "Disabled" /\ ~p.enabled
          \/ r.outcome = "CompactionBypass" /\ body.path # "responses"
          \/ r.outcome = "NativePassthrough" /\ body.path # "responses"
      BY <2>1, <2>2, PrepareIs
    <3>2. ~body.hasInput => may = {}
      <4>1. ~body.hasInput => DOMAIN items = {}
        OBVIOUS
      <4> HIDE DEF items
      <4> QED
        BY <4>1
    <3> HIDE DEF may, shrinks, items
    <3> QED
      BY <3>1, <3>2
  <2>3. CASE Evaluates(body, p)
    <3> DEFINE history == HistoryOf(body)
               n == Len(body.items)
               aging == AgingOf(body, p)
    <3>1. items = history /\ p.enabled
      BY <2>3 DEF Evaluates, HistoryOf
    <3>2. history \in Seq(HistoryItems) /\ Len(history) = n /\ DOMAIN history = 1 .. n
      BY <2>1, NormalizedType DEF HistoryOf, Bodies
    <3>3. may = {i \in 1 .. n : MayAge(history, p, i)}
      BY <3>1, <3>2
    <3>4. shrinks = {} <=> ~SomeAges(body, p)
      <4>1. \A i \in 1 .. n : Ages(body, p, i) <=> MayAge(history, p, i)
            /\ Shrinks(history, p, i)
        BY <2>1, <3>1, AgesIs
      <4>2. shrinks = {i \in 1 .. n : MayAge(history, p, i) /\ Shrinks(history, p, i)}
        BY <3>1, <3>3
      <4> HIDE DEF shrinks, history
      <4> QED
        BY <4>1, <4>2 DEF SomeAges
    <3>5. aging.eligible > 0 <=> may # {}
      <4>1. aging.eligible > 0 <=> \E i \in 1 .. n : MayAge(history, p, i)
        BY <2>1, <3>1, <3>2, EligibleIs DEF AgingOf
      <4> HIDE DEF may, history, aging
      <4> QED
        BY <3>3, <4>1
    <3>6. shrinks # {} => may # {}
      OBVIOUS
    <3>7. /\ ~SomeAges(body, p) => r.outcome = IF aging.eligible > 0 THEN "EvaluatedNoSavings"
                                               ELSE "EvaluatedNoEligibleResult"
          /\ SomeAges(body, p) /\ body.codec = "oneway" => r.outcome = "FailOriginal"
          /\ SomeAges(body, p) /\ body.codec # "oneway" => r.outcome = "Aged"
      BY <2>1, <2>3, <3>1, PrepareIs, AgedBodyIs
    <3> HIDE DEF may, shrinks, items, aging, history
    <3> QED
      BY <3>4, <3>5, <3>6, <3>7
  <2> QED
    BY <2>2, <2>3
<1> QED
  BY <1>1, RequestIInvHolds, PTL

\* The bytes that did not leave, up to each item.
LEMMA CutTrace ==
  ASSUME NEW was, NEW left, Len(was.items) \in Nat,
         \A k \in 1 .. Len(was.items) : CutOf(was, left, k) \in Int
  PROVE  \E trace \in [0 .. Len(was.items) -> Int] :
           /\ trace[0] = 0
           /\ \A k \in 1 .. Len(was.items) : trace[k] = trace[k - 1] + CutOf(was, left, k)
           /\ BytesCut(was, left) = trace[Len(was.items)]
<1> DEFINE n == Len(was.items)
           base == 0
           step == [pair \in Int \X (1 .. n) |-> pair[1] + CutOf(was, left, pair[2])]
           F(f) == [k \in 0 .. n |-> IF k = 0 THEN base ELSE f[k - 1] + CutOf(was, left, k)]
           upTo == CHOOSE upTo : upTo = F(upTo)
<1>1. n \in Nat /\ base \in Int
  OBVIOUS
<1>2. BytesCut(was, left) = upTo[n]
  BY DEF BytesCut
<1> HIDE DEF base, n
<1>3. ASSUME NEW a \in Int, NEW k \in 1 .. n PROVE a + CutOf(was, left, k) \in Int
  BY <1>1 DEF n
<1>4. step \in [Int \X (1 .. n) -> Int]
  BY <1>3
<1>5. \E f : f = F(f)
  <2>1. PICK f \in [0 .. n -> Int] : IsTrace(f, n, base, step)
    <3> HIDE DEF step
    <3> QED
      BY <1>1, <1>4, TraceExists
  <2>2. ASSUME NEW k \in 1 .. n PROVE f[k] = f[k - 1] + CutOf(was, left, k)
    <3>1. k - 1 \in 0 .. n
      BY <1>1
    <3>2. <<f[k - 1], k>> \in Int \X (1 .. n)
      BY <2>1, <3>1
    <3>3. step[<<f[k - 1], k>>] = f[k - 1] + CutOf(was, left, k)
      BY <3>2
    <3> HIDE DEF step
    <3> QED
      BY <2>1, <3>3 DEF IsTrace
  <2>3. f[0] = base /\ f \in [0 .. n -> Int]
    BY <2>1 DEF IsTrace
  <2>4. \A k \in 0 .. n : k = 0 \/ k \in 1 .. n
    BY <1>1
  <2>5. f = F(f)
    BY <2>2, <2>3, <2>4
  <2> QED
    BY <2>5
<1>6. upTo = F(upTo)
  BY <1>5
<1> HIDE DEF upTo
<1>7. upTo[0] = base /\ DOMAIN upTo = 0 .. n /\ upTo = [k \in 0 .. n |-> upTo[k]]
  BY <1>1, <1>6
<1>8. ASSUME NEW k \in 1 .. n PROVE upTo[k] = upTo[k - 1] + CutOf(was, left, k)
  <2>1. k \in 0 .. n /\ k # 0
    BY <1>1
  <2> QED
    BY <1>6, <2>1
<1> HIDE DEF F, step
<1>9. ASSUME NEW k \in 0 .. n PROVE upTo[k] \in Int
  <2> DEFINE Within == {i \in 0 .. n : upTo[i] \in Int}
  <2>1. 0 \in Within
    BY <1>1, <1>7
  <2>2. ASSUME NEW i \in 0 .. n, i \in Within, i < n PROVE i + 1 \in Within
    <3>1. i + 1 \in 1 .. n /\ i + 1 \in 0 .. n /\ (i + 1) - 1 = i /\ upTo[i] \in Int
      BY <1>1, <2>2
    <3>2. upTo[i + 1] = upTo[i] + CutOf(was, left, (i + 1))
      BY <1>8, <3>1
    <3>3. upTo[i + 1] \in Int
      BY <1>3, <3>1, <3>2
    <3> QED
      BY <3>1, <3>3
  <2> HIDE DEF Within
  <2>3. 0 .. n \subseteq Within
    BY <1>1, <2>1, <2>2, InductionUpTo
  <2> QED
    BY <2>3 DEF Within
<1>10. upTo \in [0 .. n -> Int]
  BY <1>7, <1>9
<1> QED
  BY <1>2, <1>7, <1>8, <1>10 DEF base, n

LEMMA NothingCut ==
  ASSUME NEW body \in Bodies
  PROVE  BytesCut(body, body) = 0
<1> DEFINE n == Len(body.items)
<1>1. n \in Nat /\ \A k \in 1 .. n : CutOf(body, body, k) = 0
  BY LenProperties DEF CutOf, Bodies
<1>2. PICK sum \in [0 .. n -> Int] :
        /\ sum[0] = 0
        /\ \A k \in 1 .. n : sum[k] = sum[k - 1] + CutOf(body, body, k)
        /\ BytesCut(body, body) = sum[n]
  <2>1. n = Len(body.items) /\ \A k \in 1 .. n : CutOf(body, body, k) \in Int
    BY <1>1
  <2> HIDE DEF n
  <2> QED
    BY <1>1, <2>1, CutTrace
<1> DEFINE Zero == {k \in 0 .. n : sum[k] = 0}
<1> HIDE DEF n
<1>3. 0 \in Zero
  BY <1>1, <1>2
<1>4. ASSUME NEW k \in 0 .. n, k \in Zero, k < n PROVE k + 1 \in Zero
  <2>1. k + 1 \in 1 .. n /\ k + 1 \in 0 .. n /\ (k + 1) - 1 = k /\ sum[k] = 0
    BY <1>1, <1>4
  <2>2. sum[k + 1] = sum[k] + CutOf(body, body, k + 1) /\ CutOf(body, body, k + 1) = 0
    BY <1>1, <1>2, <2>1
  <2> QED
    BY <2>1, <2>2
<1>5. 0 .. n \subseteq Zero
  <2> HIDE DEF Zero
  <2> QED
    BY <1>1, <1>3, <1>4, InductionUpTo
<1> QED
  BY <1>1, <1>2, <1>5

LEMMA InspectedResults ==
  ASSUME NEW body \in Bodies, body.hasInput
  PROVE  Inspected(body).results
           = Cardinality(ResultsTo(HistoryOf(body), Len(HistoryOf(body))))
<1> DEFINE items == body.items
           history == HistoryOf(body)
           n == Len(items)
<1>1. /\ DOMAIN items = 1 .. n /\ Len(history) = n
      /\ \A i \in 1 .. n : items[i] \in ClientItems /\ history[i] = Normalize(items[i])
  BY NormalizedType DEF HistoryOf, Bodies
<1>2. \A i \in 1 .. n : items[i].type \in Results <=> IsToolResult(history[i])
  BY <1>1, NormalizeType
<1>3. Inspected(body).results = CountOf(items, Results)
  BY DEF Inspected
<1> HIDE DEF items, history, n
<1>4. {i \in DOMAIN items : items[i].type \in Results} = ResultsTo(history, n)
  BY <1>1, <1>2 DEF ResultsTo
<1> QED
  BY <1>1, <1>3, <1>4 DEF CountOf, history

\* The skipped results of a request, as DiagnosticsAddUp adds them.
SkippedIn(d) ==
  d.skipped["ProtectedFrontier"] + d.skipped["UnsupportedOutput"]
  + d.skipped["AtOrBelowThreshold"] + d.skipped["Unconsumed"] + d.skipped["ReceiptNotSmaller"]

LEMMA WithAgingIs ==
  ASSUME NEW body, NEW aging, aging.evaluations \in Seq(Evaluations)
  PROVE  LET d == WithAging(Inspected(body), aging)
         IN  d.results = Inspected(body).results /\ SkippedIn(d) = Skipped(aging.evaluations)
<1> DEFINE evaluations == aging.evaluations
           inspected == Inspected(body)
           skipped == [reason \in SkipReasons |->
                         Cardinality({k \in DOMAIN evaluations : evaluations[k].decision
                           = reason})]
           d == WithAging(inspected, aging)
<1>1. DOMAIN evaluations = 1 .. Len(evaluations)
  BY LenProperties
<1>2. \A reason \in SkipReasons : skipped[reason] = Cardinality(Decided(evaluations, reason))
  BY <1>1 DEF Decided
<1>3. d = [inspected EXCEPT !.ran = TRUE, !.skipped = skipped]
  BY DEF WithAging
<1>4. DOMAIN inspected = {"items", "calls", "results", "ran", "skipped"}
  BY DEF Inspected
<1> HIDE DEF inspected, skipped
<1>5. d.results = inspected.results /\ d.skipped = skipped
  BY <1>3, <1>4
<1> HIDE DEF d, evaluations
<1>6. SkippedIn(d) = Skipped(evaluations)
  BY <1>2, <1>5 DEF SkippedIn, Skipped, SkipReasons
<1> QED
  BY <1>5, <1>6 DEF d, inspected, evaluations

LEMMA SavedIsCut ==
  ASSUME NEW body \in Bodies, NEW p \in PolicyType, p.enabled, NEW left,
         \A k \in 1 .. Len(body.items) : CutOf(body, left, k) = CutAt(HistoryOf(body), p, k)
  PROVE  AgingOf(body, p).saved = BytesCut(body, left)
<1> DEFINE n == Len(body.items)
           history == HistoryOf(body)
<1>1. n \in Nat /\ history \in Seq(HistoryItems) /\ Len(history) = n
  BY NormalizedType, LenProperties DEF HistoryOf, Bodies
<1>2. ASSUME NEW k \in 1 .. n PROVE CutAt(history, p, k) \in Int
  <2>1. CASE ~Replaced(history, p, k)
    BY <2>1 DEF CutAt
  <2>2. CASE Replaced(history, p, k)
    <3>1. EvaluationOf(history, p, k).receipt \in Receipts
      BY <2>2, AgesIs DEF Ages
    <3>2. EvaluationOf(history, p, k).receipt.length \in Int
      BY <3>1 DEF Receipts
    <3>3. history[k].bytes \in Int
      <4> HIDE DEF history
      <4>1. history[k] \in HistoryItems
        BY <1>1, ElementOfSeq
      <4> QED
        BY <4>1 DEF HistoryItems
    <3> QED
      BY <2>2, <3>2, <3>3 DEF CutAt
  <2> QED
    BY <2>1, <2>2
<1>3. PICK sum \in [0 .. n -> Int] :
        /\ sum[0] = 0
        /\ \A k \in 1 .. n : sum[k] = sum[k - 1] + CutOf(body, left, k)
        /\ BytesCut(body, left) = sum[n]
  <2>1. n = Len(body.items) /\ \A k \in 1 .. n : CutOf(body, left, k) \in Int
    BY <1>2
  <2> HIDE DEF n, history
  <2> QED
    BY <1>1, <2>1, CutTrace
<1>4. \A k \in 1 .. n : sum[k] = sum[k - 1] + CutAt(history, p, k)
  BY <1>3
<1> HIDE DEF history, n
<1>5. AgeToolResults(history, p).saved = sum[Len(history)]
  BY <1>1, <1>3, <1>4, SavedIs
<1> QED
  BY <1>1, <1>3, <1>5 DEF AgingOf, history

\* The results the request pass counts are those the engine aged or skipped, each
\* once, and the bytes it claims are the bytes that did not leave: for every body.
THEOREM DiagnosticsAddUpHolds == RequestSpec => []DiagnosticsAddUp
<1>1. ASSUME RequestIInv PROVE DiagnosticsAddUp
  <2> DEFINE body == sent.body
             p == sent.policy
             r == sent.prepared
             Counted ==
               /\ r.outcome \in {"Aged", "EvaluatedNoSavings", "EvaluatedNoEligibleResult"}
                    => r.diagnostics.results = SkippedIn(r.diagnostics) + r.aging.aged
               /\ r.aging.saved = BytesCut(body, r.body)
  <2> SUFFICES ASSUME sent # NotYet PROVE Counted
    BY DEF DiagnosticsAddUp, SkippedIn, Was, Left
  <2>1. body \in Bodies /\ p \in PolicyType /\ r = Prepare(body, p)
    BY <1>1 DEF RequestIInv, SentIsPrepared
  <2> HIDE DEF body, p, r
  <2>2. Untouched(body, r) /\ r.aging = NothingAged => r.aging.saved = BytesCut(body, r.body)
    <3>1. NothingAged.saved = 0
      BY DEF NothingAged
    <3> QED
      BY <2>1, <3>1, NothingCut DEF Untouched
  <2>3. CASE ~Evaluates(body, p)
    <3>1. /\ Untouched(body, r) /\ r.aging = NothingAged
          /\ \/ r.outcome = "FailOriginal"
             \/ r.outcome = "EvaluatedNoEligibleResult" /\ Uncounted(r)
             \/ r.outcome = "Disabled"
             \/ r.outcome = "CompactionBypass"
             \/ r.outcome = "NativePassthrough"
      BY <2>1, <2>3, PrepareIs
    <3>2. Uncounted(r) => r.diagnostics.results = SkippedIn(r.diagnostics) + 0
      BY DEF Uncounted, SkippedIn, SkipReasons
    <3>3. NothingAged.aged = 0
      BY DEF NothingAged
    <3> QED
      BY <2>2, <3>1, <3>2, <3>3
  <2>4. CASE Evaluates(body, p)
    <3> DEFINE aging == AgingOf(body, p)
               history == HistoryOf(body)
               d == r.diagnostics
    <3>1. p.enabled /\ body.hasInput /\ r = AgedBody(body, p)
      BY <2>1, <2>4, PrepareIs DEF Evaluates
    <3>2. history \in Seq(HistoryItems)
      BY <2>1, NormalizedType DEF HistoryOf, Bodies
    <3>3. aging.evaluations \in Seq(Evaluations)
      <4>1. aging \in AgingResults
        BY <2>1, <3>1, <3>2, AgingTrace DEF AgingOf
      <4> QED
        BY <4>1 DEF AgingResults
    <3>4. d.results = Skipped(aging.evaluations) + aging.aged
      <4>1. d = WithAging(Inspected(body), aging)
        BY <2>1, <3>1, AgedBodyIs
      <4>2. d.results = Inspected(body).results
        BY <3>3, <4>1, WithAgingIs
      <4>3. Inspected(body).results = Cardinality(ResultsTo(history, Len(history)))
        BY <2>1, <3>1, InspectedResults
      <4>4. Cardinality(ResultsTo(history, Len(history)))
              = Skipped(aging.evaluations) + aging.aged
        BY <2>1, <3>1, <3>2, CountsAddUp DEF AgingOf
      <4> QED
        BY <4>2, <4>3, <4>4
    <3>5. SkippedIn(d) = Skipped(aging.evaluations)
      BY <2>1, <3>1, <3>3, AgedBodyIs, WithAgingIs
    <3>6. CASE ~SomeAges(body, p)
      <4>1. Untouched(body, r) /\ r.aging = aging
        BY <2>1, <3>1, <3>6, AgedBodyIs
      <4>2. \A k \in 1 .. Len(body.items) : CutOf(body, body, k) = CutAt(history, p, k)
        BY <3>6 DEF CutOf, CutAt, SomeAges, Ages
      <4>3. aging.saved = BytesCut(body, body)
        BY <2>1, <3>1, <4>2, SavedIsCut
      <4> HIDE DEF d, aging
      <4> QED
        BY <3>4, <3>5, <4>1, <4>3 DEF Untouched, d
    <3>7. CASE SomeAges(body, p) /\ body.codec = "oneway"
      <4>1. Untouched(body, r) /\ r.aging = NothingAged /\ r.outcome = "FailOriginal"
        BY <2>1, <3>1, <3>7, AgedBodyIs
      <4> QED
        BY <2>2, <4>1
    <3>8. CASE SomeAges(body, p) /\ body.codec # "oneway"
      <4>1. ReceiptsIn(body, p, r) /\ r.aging = aging
        BY <2>1, <3>1, <3>8, AgedBodyIs
      <4>2. ASSUME NEW k \in 1 .. Len(body.items)
            PROVE  CutOf(body, r.body, k) = CutAt(history, p, k)
        <5>1. history[k] = Normalize(body.items[k])
          BY <2>1, NormalizedType DEF HistoryOf, Bodies
        <5>2. CASE ~Ages(body, p, k)
          <6>1. r.body.items[k] = body.items[k]
            BY <2>1, <3>1, <4>1, <5>2, ReceiptsInIs
          <6> QED
            BY <5>2, <6>1 DEF CutOf, CutAt, Ages
        <5>3. CASE Ages(body, p, k)
          <6>1. /\ r.body.items[k] # body.items[k]
                /\ r.body.items[k].output = EvaluationOf(history, p, k).receipt
            BY <2>1, <3>1, <4>1, <5>3, ReceiptsInIs
          <6> QED
            BY <5>1, <5>3, <6>1 DEF CutOf, CutAt, Ages
        <5> QED
          BY <5>2, <5>3
      <4>3. aging.saved = BytesCut(body, r.body)
        BY <2>1, <3>1, <4>2, SavedIsCut
      <4> HIDE DEF d, aging
      <4> QED
        BY <3>4, <3>5, <4>1, <4>3 DEF d
    <3> QED
      BY <3>6, <3>7, <3>8
  <2> QED
    BY <2>3, <2>4
<1> QED
  BY <1>1, RequestIInvHolds, PTL

-----------------------------------------------------------------------------
(* The prefix the provider has seen *)

LEMMA ExtendsIs ==
  ASSUME NEW longer \in Seq(ClientItems), NEW shorter \in Seq(ClientItems),
         Extends(longer, shorter)
  PROVE  \A i \in 1 .. Len(shorter) : i \in 1 .. Len(longer) /\ longer[i] = shorter[i]
<1> DEFINE n == Len(shorter)
           m == Len(longer)
<1>1. n \in Nat /\ m \in Nat /\ m >= n /\ SubSeq(longer, 1, n) = shorter
  BY LenProperties DEF Extends
<1>2. 1 \in 1 .. Len(longer) + 1 /\ n \in 1 - 1 .. Len(longer)
  <2>1. 1 \in 1 .. m + 1 /\ n \in 1 - 1 .. m
    <3> HIDE DEF n, m
    <3> QED
      BY <1>1
  <2> QED
    BY <2>1
<1>3. ASSUME NEW i \in 1 .. n PROVE shorter[i] = longer[i] /\ i \in 1 .. m
  <2> HIDE DEF n
  <2>1. i \in 1 .. n - 1 + 1 /\ 1 + i - 1 = i
    BY <1>1
  <2>2. \A k \in 1 .. n - 1 + 1 : SubSeq(longer, 1, n)[k] = longer[1 + k - 1]
    BY <1>2, Piece
  <2>3. SubSeq(longer, 1, n)[i] = longer[1 + i - 1]
    BY <2>1, <2>2
  <2>4. i \in 1 .. m
    <3> HIDE DEF m
    <3> QED
      BY <1>1
  <2> QED
    BY <1>1, <2>1, <2>3, <2>4
<1> QED
  BY <1>3

\* A call that names itself later in the history takes no earlier result's tool.
LEMMA ToolStays ==
  ASSUME NEW items \in Seq(ClientItems), NEW more \in Seq(ClientItems),
         Extends(more, items), FreshCalls(more), NEW i \in 1 .. Len(items)
  PROVE  ToolOf(Normalized(more), i) = ToolOf(Normalized(items), i)
<1> DEFINE n == Len(items)
           m == Len(more)
           history == Normalized(items)
           longer == Normalized(more)
           calls == {j \in DOMAIN history :
                       NamesItsCall(history[j]) /\ history[j].callId = history[i].callId}
           callsNow == {j \in DOMAIN longer :
                          NamesItsCall(longer[j]) /\ longer[j].callId = longer[i].callId}
<1>1. /\ n \in Nat /\ m \in Nat /\ DOMAIN history = 1 .. n /\ DOMAIN longer = 1 .. m
      /\ \A k \in 1 .. n : items[k] \in ClientItems /\ history[k] = Normalize(items[k])
      /\ \A k \in 1 .. m : more[k] \in ClientItems /\ longer[k] = Normalize(more[k])
  BY NormalizedType, LenProperties
<1>2. \A k \in 1 .. n : k \in 1 .. m /\ more[k] = items[k]
  BY ExtendsIs
<1>3. \A j, k \in 1 .. m : j < k /\ more[k].type \in Calls /\ more[k].callId # None =>
                             more[j].callId # more[k].callId
  BY DEF FreshCalls
<1>4. i \in 1 .. n
  OBVIOUS
<1> HIDE DEF n, m, history, longer
<1>5. \A k \in 1 .. n : longer[k] = history[k]
  BY <1>1, <1>2
<1>6. ASSUME NEW j \in 1 .. m, j \notin 1 .. n
      PROVE  ~(NamesItsCall(longer[j]) /\ longer[j].callId = longer[i].callId)
  <2>1. SUFFICES ASSUME NamesItsCall(longer[j]), longer[j].callId = longer[i].callId PROVE FALSE
    OBVIOUS
  <2>2. i < j /\ i \in 1 .. m
    BY <1>1, <1>2, <1>4, <1>6
  <2>3. more[j].type \in Calls /\ more[j].callId # None /\ more[j].callId = longer[j].callId
    BY <1>1, <2>1, NormalizeType
  <2>4. more[i].callId = longer[i].callId
    BY <1>1, <2>2, NormalizeType
  <2> QED
    BY <1>3, <2>1, <2>2, <2>3, <2>4
<1>7. callsNow = calls
  BY <1>1, <1>2, <1>4, <1>5, <1>6
<1>8. calls \in SUBSET (0 .. n)
  BY <1>1
<1>9. /\ ToolOf(history, i) = IF calls = {} THEN None
                              ELSE history[CHOOSE j \in calls : \A k \in calls : k <= j].name
      /\ ToolOf(longer, i) = IF callsNow = {} THEN None
                             ELSE longer[CHOOSE j \in callsNow : \A k
                               \in callsNow : k <= j].name
  BY DEF ToolOf
<1>10. calls \subseteq 1 .. n
  BY <1>1
<1> HIDE DEF calls, callsNow
<1>11. CASE calls = {}
  BY <1>7, <1>9, <1>11 DEF history, longer
<1>12. CASE calls # {}
  <2>1. \E j \in calls : \A k \in calls : k <= j
    BY <1>1, <1>8, <1>12, MaxIsLargest
  <2> DEFINE last == CHOOSE j \in calls : \A k \in calls : k <= j
  <2>2. last \in calls
    BY <2>1
  <2>3. ToolOf(history, i) = history[last].name /\ ToolOf(longer, i) = longer[last].name
    BY <1>7, <1>9, <1>12
  <2> HIDE DEF last
  <2>4. longer[last] = history[last]
    BY <1>5, <1>10, <2>2
  <2> QED
    BY <2>3, <2>4 DEF history, longer
<1> QED
  BY <1>11, <1>12

\* A result that may age may age in every longer history.
LEMMA MayAgeStays ==
  ASSUME NEW items \in Seq(ClientItems), NEW more \in Seq(ClientItems),
         Extends(more, items), NEW p \in PolicyType, NEW i \in 1 .. Len(items),
         MayAge(Normalized(items), p, i)
  PROVE  MayAge(Normalized(more), p, i)
<1> DEFINE n == Len(items)
           m == Len(more)
           history == Normalized(items)
           longer == Normalized(more)
<1>1. /\ n \in Nat /\ m \in Nat /\ DOMAIN history = 1 .. n /\ DOMAIN longer = 1 .. m
      /\ \A k \in 1 .. n : history[k] = Normalize(items[k])
      /\ \A k \in 1 .. m : longer[k] = Normalize(more[k])
  BY NormalizedType, LenProperties
<1>2. \A k \in 1 .. n : k \in 1 .. m /\ more[k] = items[k]
  BY ExtendsIs
<1>3. i \in 1 .. n /\ MayAge(history, p, i)
  OBVIOUS
<1> HIDE DEF n, m, history, longer
<1>4. \A k \in 1 .. n : longer[k] = history[k]
  BY <1>1, <1>2
<1>5. LaterResults(history, i) \subseteq LaterResults(longer, i)
  BY <1>1, <1>2, <1>4 DEF LaterResults
<1>6. IsFiniteSet(LaterResults(longer, i))
  <2>1. LaterResults(longer, i) \subseteq 1 .. m /\ IsFiniteSet(1 .. m)
    BY <1>1, FS_Interval DEF LaterResults
  <2> QED
    BY <2>1, FS_Subset
<1>7. /\ Cardinality(LaterResults(history, i)) <= Cardinality(LaterResults(longer, i))
      /\ Cardinality(LaterResults(history, i)) \in Nat
      /\ Cardinality(LaterResults(longer, i)) \in Nat
  BY <1>5, <1>6, FS_Subset, FS_CardinalityType
<1>8. Cardinality(LaterResults(longer, i)) >= p.frontier
  BY <1>3, <1>7 DEF MayAge, PolicyType
<1>9. \E j \in DOMAIN longer : j > i /\ IsModelAction(longer[j])
  BY <1>1, <1>2, <1>3, <1>4 DEF MayAge
<1> QED
  BY <1>3, <1>4, <1>8, <1>9 DEF MayAge, longer

LEMMA AgesStays ==
  ASSUME NEW body \in Bodies, NEW more \in Bodies, Extends(more.items, body.items),
         FreshCalls(more.items), NEW p \in PolicyType, p.enabled,
         NEW i \in 1 .. Len(body.items), Ages(body, p, i)
  PROVE  /\ i \in 1 .. Len(more.items) /\ more.items[i] = body.items[i]
         /\ Ages(more, p, i)
         /\ EvaluationOf(HistoryOf(more), p, i).receipt
              = EvaluationOf(HistoryOf(body), p, i).receipt
<1> DEFINE history == HistoryOf(body)
           longer == HistoryOf(more)
<1>1. body.items \in Seq(ClientItems) /\ more.items \in Seq(ClientItems)
  BY DEF Bodies
<1>2. i \in 1 .. Len(more.items) /\ more.items[i] = body.items[i]
  BY <1>1, ExtendsIs
<1>3. history[i] = Normalize(body.items[i]) /\ longer[i] = Normalize(more.items[i])
  BY <1>1, <1>2, NormalizedType DEF HistoryOf
<1>4. ToolOf(longer, i) = ToolOf(history, i)
  BY <1>1, ToolStays DEF HistoryOf
<1>5. /\ MayAge(history, p, i) /\ Shrinks(history, p, i)
      /\ EvaluationOf(history, p, i).receipt
           = Receipt(history[i].bytes, ToolOf(history, i), p.preview)
  BY AgesIs
<1>6. MayAge(longer, p, i)
  BY <1>1, <1>5, MayAgeStays DEF HistoryOf
<1> HIDE DEF history, longer
<1>7. longer[i] = history[i]
  BY <1>2, <1>3
<1>8. Shrinks(longer, p, i)
  BY <1>4, <1>5, <1>7 DEF Shrinks
<1>9. /\ Ages(more, p, i)
      /\ EvaluationOf(longer, p, i).receipt
           = Receipt(longer[i].bytes, ToolOf(longer, i), p.preview)
  BY <1>2, <1>6, <1>8, AgesIs DEF longer
<1> QED
  BY <1>2, <1>4, <1>5, <1>7, <1>9 DEF history, longer

\* What Prepare changes in a body, it changes the same way in every longer one.
LEMMA PreparedStays ==
  ASSUME NEW body \in Bodies, NEW more \in Bodies, Extends(more.items, body.items),
         FreshCalls(more.items), NEW p \in PolicyType,
         more = [body EXCEPT !.items = more.items],
         NEW i \in 1 .. Len(body.items),
         Prepare(body, p).body.items[i] # body.items[i]
  PROVE  Prepare(more, p).body.items[i] = Prepare(body, p).body.items[i]
<1> DEFINE r == Prepare(body, p)
           now == Prepare(more, p)
<1>1. /\ more.path = body.path /\ more.codec = body.codec /\ more.hasInput = body.hasInput
  BY DEF Bodies
<1>2. ~Untouched(body, r)
  BY DEF Untouched
<1>3. /\ Evaluates(body, p) /\ p.enabled /\ SomeAges(body, p) /\ body.codec # "oneway"
      /\ ReceiptsIn(body, p, r)
  BY <1>2, PrepareIs, AgedBodyIs DEF Evaluates
<1>4. Ages(body, p, i)
      /\ r.body.items[i]
           = WithReceipt(body.items[i], EvaluationOf(HistoryOf(body), p, i).receipt)
  <2> HIDE DEF r
  <2>1. r.body.items[i] # body.items[i]
    BY DEF r
  <2> QED
    BY <1>3, <2>1, ReceiptsInIs
<1>5. /\ i \in 1 .. Len(more.items) /\ more.items[i] = body.items[i] /\ Ages(more, p, i)
      /\ EvaluationOf(HistoryOf(more), p, i).receipt
           = EvaluationOf(HistoryOf(body), p, i).receipt
  BY <1>3, <1>4, AgesStays
<1>6. Evaluates(more, p) /\ SomeAges(more, p) /\ more.codec # "oneway"
  BY <1>1, <1>3, <1>5 DEF Evaluates, SomeAges
<1>7. ReceiptsIn(more, p, now)
  BY <1>3, <1>6, PrepareIs, AgedBodyIs
<1>8. now.body.items[i]
        = WithReceipt(more.items[i], EvaluationOf(HistoryOf(more), p, i).receipt)
  <2> HIDE DEF now
  <2> QED
    BY <1>3, <1>5, <1>7, ReceiptsInIs
<1> QED
  BY <1>4, <1>5, <1>8

\* A result once sent as a receipt goes out as the same receipt in every later
\* request of the conversation: for histories of any length.
THEOREM AgedStaysAgedHolds == RequestSpec => AgedStaysAged
<1> DEFINE Stays ==
             /\ sent # NotYet /\ sent' # NotYet /\ sent' # sent
             /\ sent.policy = sent'.policy
             /\ Was.path = "responses" /\ Was' = [Was EXCEPT !.items = Was'.items]
             /\ Extends(Was'.items, Was.items)
             => \A i \in DOMAIN Was.items :
                  Left.items[i] # Was.items[i] => Left'.items[i] = Left.items[i]
<1>1. ASSUME RequestIInv, RequestIInv' PROVE [Stays]_sent
  <2> SUFFICES ASSUME sent # NotYet, sent' # NotYet, sent.policy = sent'.policy,
                      Was' = [Was EXCEPT !.items = Was'.items], Extends(Was'.items, Was.items),
                      NEW i \in DOMAIN Was.items, Left.items[i] # Was.items[i]
               PROVE  Left'.items[i] = Left.items[i]
    OBVIOUS
  <2>1. /\ Was \in Bodies /\ sent.policy \in PolicyType
        /\ sent.prepared = Prepare(Was, sent.policy)
    BY <1>1 DEF RequestIInv, SentIsPrepared, Was
  <2>2. /\ Was' \in Bodies /\ FreshCalls(Was'.items)
        /\ sent'.prepared = Prepare(Was', sent.policy)
    BY <1>1 DEF RequestIInv, SentIsPrepared, Was, Bodies, ClientItems, FreshCalls, PolicyType
  <2>3. Left = Prepare(Was, sent.policy).body /\ Left' = Prepare(Was', sent.policy).body
    BY <2>1, <2>2 DEF Left
  <2>4. i \in 1 .. Len(Was.items)
    BY <2>1, LenProperties DEF Bodies
  <2> DEFINE body == Was
             more == Was'
             p == sent.policy
  <2>5. /\ body \in Bodies /\ more \in Bodies /\ Extends(more.items, body.items)
        /\ FreshCalls(more.items) /\ p \in PolicyType
        /\ more = [body EXCEPT !.items = more.items] /\ i \in 1 .. Len(body.items)
        /\ Prepare(body, p).body.items[i] # body.items[i]
    BY <2>1, <2>2, <2>3, <2>4
  <2> HIDE DEF body, more, p
  <2>6. Prepare(more, p).body.items[i] = Prepare(body, p).body.items[i]
    BY <2>5, PreparedStays
  <2> QED
    BY <2>3, <2>6 DEF body, more, p
<1> QED
  BY <1>1, RequestIInvHolds, PTL DEF AgedStaysAged
=============================================================================
