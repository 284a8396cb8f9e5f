----------------------------- MODULE ExchangeProofs -----------------------------
(***************************************************************************)
(* Proofs about what is done to one exchange besides aging: the encodings  *)
(* of its body (ContentEncodings), the usage read off its response         *)
(* (ResponseUsage) and the evidence in a receipt (ReceiptRecovery), for    *)
(* every body, chunk and text, whatever their lengths.                     *)
(*                                                                         *)
(* Each pass of the code is a fold.  Its lemma says what the fold has      *)
(* gathered after every step, in words that do not mention the fold; the   *)
(* invariants say of the state what the last of those lemmas says of a     *)
(* value.                                                                  *)
(***************************************************************************)
EXTENDS ContentEncodings, ResponseUsage, ReceiptRecovery, FoldLemmas

-----------------------------------------------------------------------------
(* The encodings of a body *)

\* The step of Only.
Keep(kept, coding, set) == IF coding \in set THEN Append(kept, coding) ELSE kept

\* What is kept after each coding.
LEMMA OnlyTrace ==
  ASSUME NEW C, NEW codings \in Seq(C), NEW set
  PROVE  \E trace \in [0 .. Len(codings) -> Seq(C)] :
           /\ trace[0] = <<>>
           /\ \A k \in 1 .. Len(codings) : trace[k] = Keep(trace[k - 1], codings[k], set)
           /\ Only(codings, set) = trace[Len(codings)]
<1> DEFINE n == Len(codings)
           base == <<>>
           step == [p \in Seq(C) \X (1 .. n) |-> Keep(p[1], codings[p[2]], set)]
           jt == CHOOSE jt : jt = [u \in SUBSET (1 .. n) |->
                   IF u = {} THEN base ELSE Keep(jt[u \ {Max(u)}], codings[Max(u)], set)]
<1>1. /\ n \in Nat /\ DOMAIN codings = 1 .. n /\ \A k \in 1 .. n : codings[k] \in C
      /\ base \in Seq(C)
  BY LenProperties, ElementOfSeq, EmptySeq
<1> HIDE DEF base
<1>2. ASSUME NEW a \in Seq(C), NEW k \in 1 .. n PROVE Keep(a, codings[k], set) \in Seq(C)
  BY <1>1 DEF Keep
<1>3. step \in [Seq(C) \X (1 .. n) -> Seq(C)]
  BY <1>2
<1>4. \E it : it = [u \in SUBSET (1 .. n) |->
                     IF u = {} THEN base ELSE Keep(it[u \ {Max(u)}], codings[Max(u)], set)]
  <2>1. PICK it \in [SUBSET (1 .. n) -> Seq(C)] : Iterates(it, n, base, step)
    <3> HIDE DEF step, n
    <3> QED
      BY <1>1, <1>3, IterationExists
  <2>2. ASSUME NEW u \in SUBSET (1 .. n), u # {}
        PROVE  step[<<it[u \ {Max(u)}], Max(u)>>] = Keep(it[u \ {Max(u)}], codings[Max(u)], set)
    <3>1. Max(u) \in 1 .. n /\ u \ {Max(u)} \in SUBSET (1 .. n)
      BY <1>1, <2>2, LargestIndex
    <3>2. <<it[u \ {Max(u)}], Max(u)>> \in Seq(C) \X (1 .. n)
      BY <2>1, <3>1
    <3> QED
      BY <3>2
  <2> HIDE DEF step
  <2>3. \A u \in SUBSET (1 .. n) : it[u] = IF u = {} THEN base
                                           ELSE Keep(it[u \ {Max(u)}], codings[Max(u)], set)
    BY <2>1, <2>2 DEF Iterates
  <2> QED
    BY <2>1, <2>3
<1>5. jt = [u \in SUBSET (1 .. n) |->
              IF u = {} THEN base ELSE Keep(jt[u \ {Max(u)}], codings[Max(u)], set)]
  BY <1>4
<1>6. Only(codings, set) = jt[1 .. n]
  BY <1>1 DEF base, Only, Keep, FoldLeft, MapThenFoldSet
<1> HIDE DEF jt
<1>7. jt[{}] = base
  BY <1>5
<1>8. ASSUME NEW k \in 1 .. n PROVE jt[1 .. k] = Keep(jt[1 .. (k - 1)], codings[k], set)
  <2>1. k \in Nat /\ k # 0 /\ 1 .. k \in SUBSET (1 .. n)
    BY <1>1
  <2>2. Max(1 .. k) = k /\ (1 .. k) \ {k} = 1 .. (k - 1) /\ 1 .. k # {}
    BY <2>1, MaxOfInterval
  <2> QED
    BY <1>5, <2>1, <2>2
<1>9. ASSUME NEW a \in Seq(C), NEW k \in 1 .. n
       PROVE  step[<<a, k>>] \in Seq(C) /\ step[<<a, k>>] = Keep(a, codings[k], set)
  BY <1>2
<1> HIDE DEF step
<1>10. PICK trace \in [0 .. n -> Seq(C)] :
         IsTrace(trace, n, base, step) /\ trace[n] = jt[1 .. n]
  <2> DEFINE Values == Seq(C)
  <2>1. StepsWithin(jt, n, Values, step)
    BY <1>8, <1>9 DEF StepsWithin
  <2>2. n \in Nat /\ base \in Values
    BY <1>1
  <2> HIDE DEF n, Values
  <2>3. \E trace \in [0 .. n -> Values] : IsTrace(trace, n, base, step) /\ trace[n] = jt[1 .. n]
    BY <1>7, <2>1, <2>2, TraceOfIteration
  <2> QED
    BY <2>3 DEF Values
<1>11. ASSUME NEW k \in 1 .. n PROVE trace[k] = Keep(trace[k - 1], codings[k], set)
  <2>1. k - 1 \in 0 .. n
    BY <1>1
  <2> QED
    BY <1>9, <1>10, <2>1 DEF IsTrace
<1> QED
  BY <1>6, <1>10, <1>11 DEF IsTrace, base

\* A body some of whose layers are off, or none that could be read.
Bodies == [text : {"client's"}, layers : Seq(Layer)]
Peeled == Bodies \cup {NoValue}

LEMMA PeelKeeps ==
  ASSUME NEW b \in Peeled, NEW coding \in DOMAIN Format
  PROVE  Peel(b, coding) \in Peeled
<1>1. CASE b = NoValue \/ b.layers = <<>>
  BY <1>1 DEF Peel, Peeled
<1>2. CASE ~(b = NoValue \/ b.layers = <<>>)
  <2>1. b \in Bodies /\ b.layers \in Seq(Layer) /\ b.layers # <<>>
    BY <1>2 DEF Peeled, Bodies
  <2>2. Front(b.layers) \in Seq(Layer)
    BY <2>1, FrontAndLast
  <2>3. [b EXCEPT !.layers = Front(@)] \in Bodies
    BY <2>1, <2>2 DEF Bodies
  <2> QED
    BY <1>2, <2>3 DEF Peel, Peeled
<1> QED
  BY <1>1, <1>2

\* What is left after each coding is taken off.
LEMMA PeelTrace ==
  ASSUME NEW b \in Peeled, NEW codings \in Seq(DOMAIN Format)
  PROVE  \E trace \in [0 .. Len(codings) -> Peeled] :
           /\ trace[0] = b
           /\ \A k \in 1 .. Len(codings) : trace[k] = Peel(trace[k - 1], codings[k])
           /\ FoldLeft(Peel, b, codings) = trace[Len(codings)]
<1> DEFINE n == Len(codings)
           base == b
           step == [p \in Peeled \X (1 .. n) |-> Peel(p[1], codings[p[2]])]
           jt == CHOOSE jt : jt = [u \in SUBSET (1 .. n) |->
                   IF u = {} THEN base ELSE Peel(jt[u \ {Max(u)}], codings[Max(u)])]
<1>1. /\ n \in Nat /\ DOMAIN codings = 1 .. n /\ \A k \in 1 .. n : codings[k] \in DOMAIN Format
      /\ base \in Peeled
  BY LenProperties, ElementOfSeq
<1> HIDE DEF base
<1>2. ASSUME NEW a \in Peeled, NEW k \in 1 .. n PROVE Peel(a, codings[k]) \in Peeled
  BY <1>1, PeelKeeps
<1>3. step \in [Peeled \X (1 .. n) -> Peeled]
  BY <1>2
<1>4. \E it : it = [u \in SUBSET (1 .. n) |->
                     IF u = {} THEN base ELSE Peel(it[u \ {Max(u)}], codings[Max(u)])]
  <2>1. PICK it \in [SUBSET (1 .. n) -> Peeled] : Iterates(it, n, base, step)
    <3> HIDE DEF step, n
    <3> QED
      BY <1>1, <1>3, IterationExists
  <2>2. ASSUME NEW u \in SUBSET (1 .. n), u # {}
        PROVE  step[<<it[u \ {Max(u)}], Max(u)>>] = Peel(it[u \ {Max(u)}], codings[Max(u)])
    <3>1. Max(u) \in 1 .. n /\ u \ {Max(u)} \in SUBSET (1 .. n)
      BY <1>1, <2>2, LargestIndex
    <3>2. <<it[u \ {Max(u)}], Max(u)>> \in Peeled \X (1 .. n)
      BY <2>1, <3>1
    <3> QED
      BY <3>2
  <2> HIDE DEF step
  <2>3. \A u \in SUBSET (1 .. n) : it[u] = IF u = {} THEN base
                                           ELSE Peel(it[u \ {Max(u)}], codings[Max(u)])
    BY <2>1, <2>2 DEF Iterates
  <2> QED
    BY <2>1, <2>3
<1>5. jt = [u \in SUBSET (1 .. n) |->
              IF u = {} THEN base ELSE Peel(jt[u \ {Max(u)}], codings[Max(u)])]
  BY <1>4
<1>6. FoldLeft(Peel, b, codings) = jt[1 .. n]
  BY <1>1 DEF base, FoldLeft, MapThenFoldSet
<1> HIDE DEF jt
<1>7. jt[{}] = base
  BY <1>5
<1>8. ASSUME NEW k \in 1 .. n PROVE jt[1 .. k] = Peel(jt[1 .. (k - 1)], codings[k])
  <2>1. k \in Nat /\ k # 0 /\ 1 .. k \in SUBSET (1 .. n)
    BY <1>1
  <2>2. Max(1 .. k) = k /\ (1 .. k) \ {k} = 1 .. (k - 1) /\ 1 .. k # {}
    BY <2>1, MaxOfInterval
  <2> QED
    BY <1>5, <2>1, <2>2
<1>9. ASSUME NEW a \in Peeled, NEW k \in 1 .. n
       PROVE  step[<<a, k>>] \in Peeled /\ step[<<a, k>>] = Peel(a, codings[k])
  BY <1>2
<1> HIDE DEF step
<1>10. PICK trace \in [0 .. n -> Peeled] :
         IsTrace(trace, n, base, step) /\ trace[n] = jt[1 .. n]
  <2> DEFINE Values == Peeled
  <2>1. StepsWithin(jt, n, Values, step)
    BY <1>8, <1>9 DEF StepsWithin
  <2>2. n \in Nat /\ base \in Values
    BY <1>1
  <2> HIDE DEF n, Values
  <2>3. \E trace \in [0 .. n -> Values] : IsTrace(trace, n, base, step) /\ trace[n] = jt[1 .. n]
    BY <1>7, <2>1, <2>2, TraceOfIteration
  <2> QED
    BY <2>3 DEF Values
<1>11. ASSUME NEW k \in 1 .. n PROVE trace[k] = Peel(trace[k - 1], codings[k])
  <2>1. k - 1 \in 0 .. n
    BY <1>1
  <2> QED
    BY <1>9, <1>10, <2>1 DEF IsTrace
<1> QED
  BY <1>6, <1>10, <1>11 DEF IsTrace, base

\* A chain that takes every layer off took them off from the outermost in, each of
\* its own format and within the limit.
LEMMA TakenOff ==
  ASSUME NEW b \in Bodies, NEW codings \in Seq(DOMAIN Format),
         FoldLeft(Peel, b, codings) # NoValue, FoldLeft(Peel, b, codings).layers = <<>>
  PROVE  /\ Len(b.layers) = Len(codings)
         /\ \A k \in 1 .. Len(codings) :
              LET layer == b.layers[Len(codings) - k + 1]
              IN  layer.format = Format[codings[k]] /\ layer.length <= MaxDecoded
<1> DEFINE n == Len(codings)
           m == Len(b.layers)
           layer(k) == b.layers[m - k + 1]
           Fine(k) == layer(k).format = Format[codings[k]] /\ layer(k).length <= MaxDecoded
<1>1. n \in Nat /\ m \in Nat /\ b \in Peeled /\ b # NoValue /\ b.layers \in Seq(Layer)
  BY LenProperties, ContentEncodingsAssumption DEF Bodies, Peeled
<1>2. PICK left \in [0 .. n -> Peeled] :
        /\ left[0] = b
        /\ \A k \in 1 .. n : left[k] = Peel(left[k - 1], codings[k])
        /\ FoldLeft(Peel, b, codings) = left[n]
  BY <1>1, PeelTrace
<1> HIDE DEF n, m
<1> DEFINE Follows == {k \in 0 .. n :
             left[k] # NoValue =>
               /\ k <= m /\ left[k].layers \in Seq(Layer)
               /\ Len(left[k].layers) = m - k
               /\ \A i \in 1 .. m - k : left[k].layers[i] = b.layers[i]
               /\ \A i \in 1 .. k : Fine(i)}
<1>3. 0 \in Follows
  BY <1>1, <1>2 DEF m
<1>4. ASSUME NEW k \in 0 .. n, k \in Follows, k < n
      PROVE  k + 1 \in Follows
  <2> DEFINE was == left[k]
             is == left[k + 1]
             coding == codings[k + 1]
  <2>1. k + 1 \in 1 .. n /\ k + 1 \in 0 .. n /\ (k + 1) - 1 = k /\ k \in Nat
    BY <1>1, <1>4
  <2>2. is = Peel(was, coding)
    BY <1>2, <2>1
  <2> HIDE DEF Follows
  <2> SUFFICES ASSUME is # NoValue
               PROVE  /\ k + 1 <= m /\ is.layers \in Seq(Layer)
                      /\ Len(is.layers) = m - (k + 1)
                      /\ \A i \in 1 .. m - (k + 1) : is.layers[i] = b.layers[i]
                      /\ \A i \in 1 .. k + 1 : Fine(i)
    <3> HIDE DEF Fine
    <3> QED
      BY <2>1 DEF Follows
  <2>3. /\ was # NoValue /\ was.layers # <<>>
        /\ Last(was.layers).format = Format[coding] /\ Last(was.layers).length <= MaxDecoded
        /\ is = [was EXCEPT !.layers = Front(@)]
    BY <2>2 DEF Peel
  <2>4. /\ k <= m /\ was.layers \in Seq(Layer) /\ Len(was.layers) = m - k
        /\ \A i \in 1 .. m - k : was.layers[i] = b.layers[i]
        /\ \A i \in 1 .. k : Fine(i)
    BY <1>4, <2>3 DEF Follows
  <2>5. is.layers = Front(was.layers)
    <3>1. was \in Bodies
      BY <1>2, <1>4, <2>3 DEF Peeled
    <3> HIDE DEF is, was
    <3> QED
      BY <2>3, <3>1 DEF Bodies
  <2> HIDE DEF is, was, Fine
  <2>6. /\ is.layers \in Seq(Layer) /\ Len(was.layers) \in Nat \ {0}
        /\ Len(is.layers) = Len(was.layers) - 1
        /\ \A i \in 1 .. Len(was.layers) - 1 : is.layers[i] = was.layers[i]
        /\ Last(was.layers) = was.layers[Len(was.layers)]
    BY <2>3, <2>4, <2>5, FrontAndLast
  <2>7. /\ k + 1 <= m /\ Len(is.layers) = m - (k + 1) /\ m - k \in 1 .. m - k
        /\ \A i \in 1 .. m - (k + 1) : i \in 1 .. m - k /\ i \in 1 .. Len(was.layers) - 1
    BY <1>1, <2>1, <2>4, <2>6
  <2>8. Fine(k + 1)
    <3>1. m - (k + 1) + 1 = m - k
      BY <1>1, <2>1
    <3>2. layer(k + 1) = Last(was.layers)
      BY <2>4, <2>6, <2>7, <3>1
    <3> QED
      BY <2>3, <3>2 DEF Fine
  <2>9. \A i \in 1 .. k + 1 : Fine(i)
    <3>1. \A i \in 1 .. k + 1 : i \in 1 .. k \/ i = k + 1
      BY <2>1
    <3> QED
      BY <2>4, <2>8, <3>1
  <2> QED
    BY <2>4, <2>6, <2>7, <2>9
<1>5. n \in Follows
  <2> HIDE DEF Follows
  <2>1. 0 .. n \subseteq Follows
    BY <1>1, <1>3, <1>4, InductionUpTo
  <2> QED
    BY <1>1, <2>1
<1>6. /\ m - n = Len(left[n].layers) /\ \A i \in 1 .. n : Fine(i)
  BY <1>2, <1>5
<1>7. m = n
  <2>1. Len(left[n].layers) = 0
    BY <1>2, EmptySeq
  <2> QED
    BY <1>1, <1>6, <2>1
<1> QED
  BY <1>6, <1>7 DEF n, m

\* Two sets that tell the codings of a list apart in the same way keep the same.
LEMMA OnlyAgrees ==
  ASSUME NEW C, NEW codings \in Seq(C), NEW S, NEW T,
         \A i \in 1 .. Len(codings) : codings[i] \in S <=> codings[i] \in T
  PROVE  Only(codings, S) = Only(codings, T)
<1> DEFINE n == Len(codings)
<1>1. PICK a \in [0 .. n -> Seq(C)] :
        /\ a[0] = <<>>
        /\ \A k \in 1 .. n : a[k] = Keep(a[k - 1], codings[k], S)
        /\ Only(codings, S) = a[n]
  BY OnlyTrace
<1>2. PICK b \in [0 .. n -> Seq(C)] :
        /\ b[0] = <<>>
        /\ \A k \in 1 .. n : b[k] = Keep(b[k - 1], codings[k], T)
        /\ Only(codings, T) = b[n]
  BY OnlyTrace
<1>3. n \in Nat
  BY LenProperties
<1> DEFINE Same == {k \in 0 .. n : a[k] = b[k]}
<1>4. 0 \in Same
  BY <1>1, <1>2, <1>3
<1>5. ASSUME NEW k \in 0 .. n, k \in Same, k < n PROVE k + 1 \in Same
  <2>1. k + 1 \in 1 .. n /\ k + 1 \in 0 .. n /\ (k + 1) - 1 = k
    BY <1>3, <1>5
  <2>2. codings[k + 1] \in S <=> codings[k + 1] \in T
    BY <2>1
  <2>3. Keep(a[k], codings[k + 1], S) = Keep(b[k], codings[k + 1], T)
    BY <1>5, <2>2 DEF Keep
  <2>4. a[k + 1] = b[k + 1]
    BY <1>1, <1>2, <2>1, <2>3
  <2> QED
    BY <2>1, <2>4
<1>6. n \in Same
  <2> HIDE DEF Same, n
  <2>1. 0 .. n \subseteq Same
    BY <1>3, <1>4, <1>5, InductionUpTo
  <2> QED
    BY <1>3, <2>1
<1> QED
  BY <1>1, <1>2, <1>6

LEMMA OnlyThose ==
  ASSUME NEW C, NEW codings \in Seq(C), NEW set
  PROVE  Only(codings, set) \in Seq(C \cap set)
<1> DEFINE n == Len(codings)
<1>1. PICK a \in [0 .. n -> Seq(C)] :
        /\ a[0] = <<>>
        /\ \A k \in 1 .. n : a[k] = Keep(a[k - 1], codings[k], set)
        /\ Only(codings, set) = a[n]
  BY OnlyTrace
<1>2. n \in Nat /\ \A k \in 1 .. n : codings[k] \in C
  BY LenProperties, ElementOfSeq
<1> HIDE DEF n
<1> DEFINE Within == {k \in 0 .. n : a[k] \in Seq(C \cap set)}
<1>3. 0 \in Within
  BY <1>1, <1>2, EmptySeq
<1>4. ASSUME NEW k \in 0 .. n, k \in Within, k < n PROVE k + 1 \in Within
  <2>1. k + 1 \in 1 .. n /\ k + 1 \in 0 .. n /\ (k + 1) - 1 = k /\ a[k] \in Seq(C \cap set)
    BY <1>2, <1>4
  <2>2. a[k + 1] = Keep(a[k], codings[k + 1], set)
    BY <1>1, <2>1
  <2>3. CASE codings[k + 1] \in set
    <3>1. codings[k + 1] \in C \cap set
      BY <1>2, <2>1, <2>3
    <3>2. Append(a[k], codings[k + 1]) \in Seq(C \cap set)
      BY <2>1, <3>1, AppendProperties
    <3> QED
      BY <2>1, <2>2, <2>3, <3>2 DEF Keep
  <2>4. CASE codings[k + 1] \notin set
    BY <2>1, <2>2, <2>4 DEF Keep
  <2> QED
    BY <2>3, <2>4
<1>5. n \in Within
  <2> HIDE DEF Within
  <2>1. 0 .. n \subseteq Within
    BY <1>2, <1>3, <1>4, InductionUpTo
  <2> QED
    BY <1>2, <2>1
<1> QED
  BY <1>1, <1>5 DEF n

\* A body that was decoded has as many layers as the chain has codings, each of
\* the format of its own coding.
LEMMA DecodedMatches ==
  ASSUME NEW b \in Bodies, NEW chain \in Seq(DOMAIN Format), Readable(b, chain)
  PROVE  /\ Len(b.layers) = Len(chain)
         /\ \A i \in 1 .. Len(chain) :
              b.layers[i].format = Format[chain[i]] /\ b.layers[i].length <= MaxDecoded
<1> DEFINE back == Reverse(chain)
           n == Len(chain)
<1>1. back \in Seq(DOMAIN Format) /\ Len(back) = n /\ n \in Nat
      /\ \A k \in 1 .. n : back[k] = chain[n - k + 1]
  BY ReverseProperties, LenProperties
<1>2. FoldLeft(Peel, b, back) # NoValue /\ FoldLeft(Peel, b, back).layers = <<>>
  BY DEF Readable, Decode
<1> HIDE DEF back
<1>3. /\ Len(b.layers) = n
      /\ \A k \in 1 .. n :
           b.layers[n - k + 1].format = Format[back[k]]
           /\ b.layers[n - k + 1].length <= MaxDecoded
  BY <1>1, <1>2, TakenOff
<1>4. ASSUME NEW i \in 1 .. n
      PROVE  b.layers[i].format = Format[chain[i]] /\ b.layers[i].length <= MaxDecoded
  <2>1. n - i + 1 \in 1 .. n /\ n - (n - i + 1) + 1 = i
    BY <1>1
  <2>2. b.layers[n - (n - i + 1) + 1].format = Format[back[n - i + 1]]
        /\ b.layers[n - (n - i + 1) + 1].length <= MaxDecoded
    BY <1>3, <2>1
  <2>3. back[n - i + 1] = chain[n - (n - i + 1) + 1]
    BY <1>1, <2>1
  <2> QED
    BY <2>1, <2>2, <2>3
<1> QED
  BY <1>3, <1>4

-----------------------------------------------------------------------------

\* What the client sent, and what became of it.
Forwarded ==
  /\ fields \in Fields /\ body \in Bodies
  /\ onward # NoValue =>
       /\ onward.fields = IF fields = <<>> THEN <<>> ELSE <<Declared>>
       /\ \/ onward.body = body
          \/ /\ Readable(body, Parse(Declared))
             /\ \E length : onward.body = Encode("rewritten", Parse(Declared), length)

LEMMA EncodingInitForwarded == EncodingInit => Forwarded
<1> SUFFICES ASSUME EncodingInit PROVE Forwarded
  OBVIOUS
<1>1. body \in Bodies
  BY ContentEncodingsAssumption DEF EncodingInit, Bodies
<1> QED
  BY <1>1 DEF EncodingInit, Forwarded

LEMMA EncodingStep ==
  ASSUME Forwarded, [EncodingNext]_encodingVars
  PROVE  Forwarded'
<1>1. CASE ForwardOriginal
  BY <1>1 DEF Forwarded, ForwardOriginal, Forward, Declared
<1>2. CASE ForwardRewritten
  <2>1. PICK length : Forward(Encode("rewritten", Parse(Declared), length))
    BY <1>2 DEF ForwardRewritten
  <2>2. Readable(body, Parse(Declared))
    BY <1>2 DEF ForwardRewritten
  <2>3. fields' = fields /\ body' = body /\ Declared' = Declared
    BY <2>1 DEF Forward, Declared
  <2>4. /\ onward'.body = Encode("rewritten", Parse(Declared), length)
        /\ onward'.fields = IF fields = <<>> THEN <<>> ELSE <<Declared>>
    BY <2>1 DEF Forward
  <2> QED
    BY <2>2, <2>3, <2>4 DEF Forwarded
<1>3. CASE UNCHANGED encodingVars
  BY <1>3 DEF encodingVars, Forwarded, Declared
<1> QED
  BY <1>1, <1>2, <1>3 DEF EncodingNext

LEMMA ForwardedHolds == EncodingSpec => []Forwarded
BY EncodingInitForwarded, EncodingStep, PTL DEF EncodingSpec

\* What parse keeps, and what it is kept from.
LEMMA DeclaredCodings ==
  ASSUME Forwarded
  PROVE  /\ Declared \in Seq(Coding)
         /\ Parse(Declared) # NoValue =>
              /\ \A i \in 1 .. Len(Declared) : Declared[i] \in DOMAIN Format \cup Identity
              /\ Parse(Declared) = Only(Declared, DOMAIN Format)
              /\ Parse(Declared) \in Seq(DOMAIN Format)
<1>1. Declared \in Seq(Coding)
  <2>1. fields \in Seq(Seq(Coding))
    BY ContentEncodingsAssumption DEF Forwarded
  <2>2. CASE fields = <<>>
    BY <2>2, EmptySeq DEF Declared
  <2>3. CASE fields # <<>>
    <3>1. 1 \in 1 .. Len(fields)
      BY <2>1, <2>3, LenProperties, EmptySeq
    <3> QED
      BY <2>1, <2>3, <3>1, ElementOfSeq DEF Declared
  <2> QED
    BY <2>2, <2>3
<1>2. ASSUME Parse(Declared) # NoValue
      PROVE  /\ \A i \in 1 .. Len(Declared) : Declared[i] \in DOMAIN Format \cup Identity
             /\ Parse(Declared) = Only(Declared, DOMAIN Format)
             /\ Parse(Declared) \in Seq(DOMAIN Format)
  <2>1. DOMAIN Declared = 1 .. Len(Declared)
    BY <1>1, LenProperties
  <2>2. /\ \A i \in 1 .. Len(Declared) : Declared[i] \in DOMAIN Format \cup Identity
        /\ Parse(Declared) = Only(Declared, DOMAIN Format)
    BY <1>2, <2>1 DEF Parse
  <2>3. Only(Declared, DOMAIN Format) \in Seq(Coding \cap DOMAIN Format)
    BY <1>1, OnlyThose
  <2>4. Seq(Coding \cap DOMAIN Format) \subseteq Seq(DOMAIN Format)
    OBVIOUS
  <2> QED
    BY <2>2, <2>3, <2>4
<1> QED
  BY <1>1, <1>2

\* No layer of a body that is rewritten decoded to more than the limit: for every
\* chain of codings and every number of fields (decode and read_limited).
THEOREM NothingHugeIsRewrittenHolds == EncodingSpec => []NothingHugeIsRewritten
<1>1. ASSUME Forwarded PROVE NothingHugeIsRewritten
  <2> SUFFICES ASSUME onward # NoValue, onward.body # body, NEW i \in DOMAIN body.layers
               PROVE  body.layers[i].length <= MaxDecoded
    BY DEF NothingHugeIsRewritten
  <2>1. Readable(body, Parse(Declared)) /\ body \in Bodies
    BY <1>1 DEF Forwarded
  <2>2. Parse(Declared) # NoValue
    BY <2>1 DEF Readable
  <2>3. Parse(Declared) \in Seq(DOMAIN Format)
    BY <1>1, <2>2, DeclaredCodings
  <2>4. DOMAIN body.layers = 1 .. Len(body.layers)
    BY <2>1, LenProperties DEF Bodies
  <2> DEFINE chain == Parse(Declared)
  <2> HIDE DEF chain
  <2>5. /\ Len(body.layers) = Len(chain)
        /\ \A k \in 1 .. Len(chain) : body.layers[k].length <= MaxDecoded
    <3>1. chain \in Seq(DOMAIN Format) /\ Readable(body, chain)
      BY <2>1, <2>3 DEF chain
    <3> QED
      BY <2>1, <3>1, DecodedMatches
  <2> QED
    BY <2>4, <2>5
<1> QED
  BY <1>1, ForwardedHolds, PTL

\* What stands in one field is read as it stands.
LEMMA OneField ==
  ASSUME NEW C, NEW codings \in Seq(C)
  PROVE  FlattenSeq(<<codings>>) = codings
<1> DEFINE seqs == <<codings>>
           F(f) == [i \in 1 .. Len(seqs) |-> IF i = 1 THEN seqs[i] ELSE f[i - 1] \o seqs[i]]
           flatten == CHOOSE f : f = F(f)
<1>1. Len(seqs) = 1 /\ seqs[1] = codings
  OBVIOUS
<1>2. FlattenSeq(<<codings>>) = flatten[Len(seqs)]
  BY <1>1 DEF FlattenSeq
<1> HIDE DEF seqs
<1>3. \E f : f = F(f)
  <2> DEFINE f == [i \in 1 .. 1 |-> codings]
  <2>1. f = F(f)
    BY <1>1
  <2> QED
    BY <2>1
<1>4. flatten = F(flatten)
  BY <1>3
<1> HIDE DEF flatten
<1>5. flatten[1] = codings
  BY <1>1, <1>4
<1> QED
  BY <1>1, <1>2, <1>5

LEMMA NoField == FlattenSeq(<<>>) = <<>>
BY EmptySeq DEF FlattenSeq

\* A reader who follows a field that was understood looks for the chain's formats.
LEMMA ReadsTheChain ==
  ASSUME Forwarded, Parse(Declared) # NoValue, NEW b, NEW fs, FlattenSeq(fs) = Declared
  PROVE  Reads(b, fs)
           = IF [i \in DOMAIN b.layers |-> b.layers[i].format]
                  = [i \in DOMAIN Parse(Declared) |-> Format[Parse(Declared)[i]]]
             THEN b.text ELSE "nothing"
<1> DEFINE chain == Parse(Declared)
           codings == Only(FlattenSeq(fs), ToSet(FlattenSeq(fs)) \ Identity)
           Formats(coding) == IF coding \in DOMAIN Format THEN Format[coding] ELSE coding
<1>1. /\ Declared \in Seq(Coding)
      /\ \A i \in 1 .. Len(Declared) : Declared[i] \in DOMAIN Format \cup Identity
      /\ chain = Only(Declared, DOMAIN Format) /\ chain \in Seq(DOMAIN Format)
  BY DeclaredCodings
<1> HIDE DEF chain
<1>2. codings = chain
  <2>1. \A i \in 1 .. Len(Declared) :
          Declared[i] \in DOMAIN Format <=> Declared[i] \in ToSet(Declared) \ Identity
    <3>1. DOMAIN Declared = 1 .. Len(Declared)
      BY <1>1, LenProperties
    <3> QED
      BY <1>1, <3>1, ContentEncodingsAssumption DEF ToSet
  <2>2. Only(Declared, DOMAIN Format) = Only(Declared, ToSet(Declared) \ Identity)
    BY <1>1, <2>1, OnlyAgrees
  <2> QED
    BY <1>1, <2>2
<1>3. [i \in DOMAIN chain |-> Formats(chain[i])] = [i \in DOMAIN chain |-> Format[chain[i]]]
  <2>1. \A i \in DOMAIN chain : chain[i] \in DOMAIN Format
    BY <1>1, LenProperties, ElementOfSeq
  <2> QED
    BY <2>1
<1>4. Reads(b, fs) = IF [i \in DOMAIN b.layers |-> b.layers[i].format]
                          = [i \in DOMAIN codings |-> Formats(codings[i])]
                     THEN b.text ELSE "nothing"
  BY DEF Reads
<1> HIDE DEF codings, Formats
<1> QED
  BY <1>2, <1>3, <1>4 DEF chain

\* With one Content-Encoding field at most, the provider reads the rewritten text
\* wherever it could read the client's, and an original exactly as far as it could
\* have read it from the client, for every chain of codings (parse, decode and
\* encode; prepare_responses_body).
THEOREM ProviderReadsItHolds == EncodingSpec => []ProviderReadsIt
<1>1. ASSUME Forwarded PROVE ProviderReadsIt
  <2> SUFFICES ASSUME onward # NoValue, Len(fields) <= 1
               PROVE  Reads(onward.body, onward.fields)
                        = IF onward.body = body THEN Reads(body, fields)
                          ELSE IF Reads(body, fields) = "client's" THEN "rewritten"
                               ELSE "nothing"
    BY DEF ProviderReadsIt
  <2>1. fields \in Seq(Seq(Coding)) /\ Len(fields) \in Nat /\ body \in Bodies
    BY <1>1, ContentEncodingsAssumption, LenProperties DEF Forwarded
  <2>2. Declared \in Seq(Coding)
    BY <1>1, DeclaredCodings
  <2>3. onward.fields = fields /\ FlattenSeq(fields) = Declared
    <3>1. CASE fields = <<>>
      BY <1>1, <3>1, NoField DEF Forwarded, Declared
    <3>2. CASE fields # <<>>
      <4>1. fields = <<Declared>>
        <5>1. Len(fields) = 1 /\ Declared = fields[1]
          <6> DEFINE n == Len(fields)
          <6>1. n \in Nat /\ n <= 1
            BY <2>1
          <6>2. n # 0
            BY <2>1, <3>2, EmptySeq
          <6> HIDE DEF n
          <6>3. n = 1
            BY <6>1, <6>2
          <6> QED
            BY <3>2, <6>3 DEF Declared, n
        <5>2. <<Declared>> \in Seq(Seq(Coding)) /\ Len(<<Declared>>) = 1
              /\ <<Declared>>[1] = Declared
          BY <2>2
        <5> HIDE DEF Declared
        <5> QED
          BY <2>1, <5>1, <5>2, SeqEqual
      <4>2. FlattenSeq(<<Declared>>) = Declared
        BY <2>2, OneField
      <4> QED
        BY <1>1, <3>2, <4>1, <4>2 DEF Forwarded
    <3> QED
      BY <3>1, <3>2
  <2>4. CASE onward.body = body
    BY <2>3, <2>4
  <2>5. CASE onward.body # body
    <3>1. Readable(body, Parse(Declared))
      BY <1>1, <2>5 DEF Forwarded
    <3>2. PICK length : onward.body = Encode("rewritten", Parse(Declared), length)
      BY <1>1, <2>5 DEF Forwarded
    <3> DEFINE chain == Parse(Declared)
               Formats == [i \in DOMAIN chain |-> Format[chain[i]]]
    <3>3. Parse(Declared) # NoValue /\ chain \in Seq(DOMAIN Format)
      BY <1>1, <3>1, DeclaredCodings DEF Readable
    <3>4. /\ Reads(onward.body, onward.fields)
               = IF [i \in DOMAIN onward.body.layers |-> onward.body.layers[i].format] = Formats
                 THEN onward.body.text ELSE "nothing"
          /\ Reads(body, fields)
               = IF [i \in DOMAIN body.layers |-> body.layers[i].format] = Formats
                 THEN body.text ELSE "nothing"
      BY <1>1, <2>3, <3>3, ReadsTheChain
    <3> HIDE DEF chain
    <3>5. /\ onward.body.text = "rewritten"
          /\ onward.body.layers
               = [i \in DOMAIN chain |-> [format |-> Format[chain[i]], length |-> length]]
      BY <3>2 DEF Encode, chain
    <3>6. [i \in DOMAIN onward.body.layers |-> onward.body.layers[i].format] = Formats
      BY <3>5
    <3>7. [i \in DOMAIN body.layers |-> body.layers[i].format] = Formats
      <4>1. /\ Len(body.layers) = Len(chain)
            /\ \A i \in 1 .. Len(chain) : body.layers[i].format = Format[chain[i]]
        BY <2>1, <3>1, <3>3, DecodedMatches DEF chain
      <4>2. DOMAIN body.layers = 1 .. Len(body.layers) /\ DOMAIN chain = 1 .. Len(chain)
        BY <2>1, <3>3, LenProperties DEF Bodies
      <4> QED
        BY <4>1, <4>2
    <3>8. body.text = "client's"
      BY <2>1 DEF Bodies
    <3> HIDE DEF Formats
    <3> QED
      BY <2>5, <3>4, <3>5, <3>6, <3>7, <3>8
  <2> QED
    BY <2>4, <2>5
<1> QED
  BY <1>1, ForwardedHolds, PTL

-----------------------------------------------------------------------------
(* The lines of a response *)

LEMMA LineStart ==
  ASSUME NEW bytes \in Seq(Byte), NEW j \in 1 .. Len(bytes) + 1
  PROVE  LET start == Max({i \in Newlines(bytes) : i < j} \cup {0})
         IN  /\ start \in 0 .. j - 1
             /\ \A i \in Newlines(bytes) : i < j => i <= start
<1> DEFINE S == {i \in Newlines(bytes) : i < j} \cup {0}
<1>1. S \in SUBSET (0 .. Len(bytes)) /\ S # {} /\ Len(bytes) \in Nat
  BY LenProperties DEF Newlines
<1>2. Max(S) \in S /\ \A x \in S : x <= Max(S)
  <2> HIDE DEF S
  <2> QED
    BY <1>1, MaxIsLargest
<1>3. Max(S) \in 0 .. j - 1
  BY <1>1, <1>2 DEF Newlines
<1> QED
  BY <1>2, <1>3

\* A line is a piece of the response that no newline is in.
LEMMA LineProperties ==
  ASSUME NEW bytes \in Seq(Byte), NEW j \in 1 .. Len(bytes) + 1
  PROVE  \E start \in 0 .. j - 1 :
           /\ start = Max({i \in Newlines(bytes) : i < j} \cup {0})
           /\ LineTo(bytes, j) = SubSeq(bytes, start + 1, j - 1)
           /\ LineTo(bytes, j) \in Seq(Byte)
           /\ Len(LineTo(bytes, j)) = j - 1 - start
           /\ start + 1 \in 1 .. Len(bytes) + 1
           /\ j - 1 \in start .. Len(bytes)
<1> DEFINE start == Max({i \in Newlines(bytes) : i < j} \cup {0})
<1>1. start \in 0 .. j - 1
  BY LineStart
<1>2. LineTo(bytes, j) = SubSeq(bytes, start + 1, j - 1)
  BY DEF LineTo
<1>3. start = Max({i \in Newlines(bytes) : i < j} \cup {0})
  OBVIOUS
<1> HIDE DEF start
<1>4. start + 1 \in 1 .. Len(bytes) + 1 /\ j - 1 \in start .. Len(bytes)
  BY <1>1, LenProperties
<1>5. j - 1 \in (start + 1) - 1 .. Len(bytes)
  BY <1>1, <1>4
<1>6. /\ SubSeq(bytes, start + 1, j - 1) \in Seq(Byte)
      /\ Len(SubSeq(bytes, start + 1, j - 1)) = (j - 1) - (start + 1) + 1
  BY <1>4, <1>5, Piece
<1>7. Len(LineTo(bytes, j)) = j - 1 - start
  BY <1>1, <1>2, <1>6
<1> QED
  BY <1>1, <1>2, <1>3, <1>4, <1>6, <1>7

LEMMA NewlinesOfAppend ==
  ASSUME NEW bytes \in Seq(Byte), NEW byte \in Byte
  PROVE  Newlines(Append(bytes, byte)) =
           Newlines(bytes) \cup {i \in {Len(bytes) + 1} : byte = Newline}
<1> DEFINE longer == Append(bytes, byte)
<1>1. /\ longer \in Seq(Byte) /\ Len(longer) = Len(bytes) + 1 /\ Len(bytes) \in Nat
      /\ \A i \in 1 .. Len(bytes) : longer[i] = bytes[i]
      /\ longer[Len(bytes) + 1] = byte
      /\ DOMAIN longer = 1 .. Len(bytes) + 1 /\ DOMAIN bytes = 1 .. Len(bytes)
  BY AppendProperties, LenProperties
<1> HIDE DEF longer
<1>2. \A i : i \in Newlines(longer) <=>
               \/ i \in Newlines(bytes)
               \/ i = Len(bytes) + 1 /\ byte = Newline
  BY <1>1 DEF Newlines
<1>3. Newlines(longer) = Newlines(bytes) \cup {i \in {Len(bytes) + 1} : byte = Newline}
  BY <1>2
<1> QED
  BY <1>3 DEF longer

\* A further byte changes no line that ended before it.
LEMMA AppendKeepsLines ==
  ASSUME NEW bytes \in Seq(Byte), NEW byte \in Byte, NEW j \in 1 .. Len(bytes) + 1
  PROVE  LineTo(Append(bytes, byte), j) = LineTo(bytes, j)
<1>1. {i \in Newlines(Append(bytes, byte)) : i < j} = {i \in Newlines(bytes) : i < j}
  <2>1. Len(bytes) \in Nat /\ ~(Len(bytes) + 1 < j)
    BY LenProperties
  <2> QED
    BY <2>1, NewlinesOfAppend
<1>2. PICK start \in 0 .. j - 1 :
        /\ start = Max({i \in Newlines(bytes) : i < j} \cup {0})
        /\ LineTo(bytes, j) = SubSeq(bytes, start + 1, j - 1)
        /\ start + 1 \in 1 .. Len(bytes) + 1
        /\ j - 1 \in start .. Len(bytes)
  BY LineProperties
<1>3. LineTo(Append(bytes, byte), j) = SubSeq(Append(bytes, byte), start + 1, j - 1)
  BY <1>1, <1>2 DEF LineTo
<1>4. j - 1 \in (start + 1) - 1 .. Len(bytes)
  BY <1>2
<1>5. SubSeq(Append(bytes, byte), start + 1, j - 1) = SubSeq(bytes, start + 1, j - 1)
  BY <1>2, <1>4, PieceOfAppend
<1> QED
  BY <1>2, <1>3, <1>5

\* The unfinished line grows by a byte, or starts over after a newline.
LEMMA LastLineOfAppend ==
  ASSUME NEW bytes \in Seq(Byte), NEW byte \in Byte
  PROVE  LineTo(Append(bytes, byte), Len(bytes) + 2) =
           IF byte = Newline THEN <<>> ELSE Append(LineTo(bytes, Len(bytes) + 1), byte)
<1> DEFINE longer == Append(bytes, byte)
           n == Len(bytes)
<1>1. longer \in Seq(Byte) /\ Len(longer) = n + 1 /\ n \in Nat /\ longer[n + 1] = byte
  BY AppendProperties, LenProperties
<1>2. Newlines(bytes) \in SUBSET (1 .. n)
  BY LenProperties DEF Newlines
<1>3. Newlines(longer) = Newlines(bytes) \cup {i \in {n + 1} : byte = Newline}
  BY NewlinesOfAppend
<1>4. LineTo(longer, n + 2) = SubSeq(longer, Max(Newlines(longer) \cup {0}) + 1, n + 1)
  <2>1. {i \in Newlines(longer) : i < n + 2} = Newlines(longer)
    BY <1>1, <1>2, <1>3
  <2>2. (n + 2) - 1 = n + 1
    BY <1>1
  <2> QED
    BY <2>1, <2>2 DEF LineTo
<1>5. CASE byte = Newline
  <2>1. Max(Newlines(longer) \cup {0}) = n + 1
    <3>1. /\ Newlines(longer) \cup {0} \in SUBSET Int /\ n + 1 \in Newlines(longer) \cup {0}
          /\ \A x \in Newlines(longer) \cup {0} : x <= n + 1
      BY <1>1, <1>2, <1>3, <1>5
    <3> QED
      BY <3>1, MaxIs
  <2>2. SubSeq(longer, (n + 1) + 1, n + 1) = <<>>
    BY <1>1, SubSeqEmpty
  <2> QED
    BY <1>4, <1>5, <2>1, <2>2
<1>6. CASE byte # Newline
  <2>1. Newlines(longer) = Newlines(bytes)
    BY <1>3, <1>6
  <2>2. PICK start \in 0 .. (n + 1) - 1 :
          /\ start = Max({i \in Newlines(bytes) : i < n + 1} \cup {0})
          /\ LineTo(bytes, n + 1) = SubSeq(bytes, start + 1, (n + 1) - 1)
    <3>1. n + 1 \in 1 .. Len(bytes) + 1
      BY <1>1
    <3> QED
      BY <3>1, LineProperties
  <2>3. {i \in Newlines(bytes) : i < n + 1} = Newlines(bytes)
    BY <1>1, <1>2
  <2>4. LineTo(longer, n + 2) = SubSeq(longer, start + 1, n + 1)
    BY <1>4, <2>1, <2>2, <2>3
  <2> HIDE DEF longer
  <2>5. start \in 0 .. n /\ (n + 1) - 1 = n
    BY <1>1, <2>2
  <2>6. start + 1 \in 1 .. Len(longer) /\ n + 1 \in start + 1 .. Len(longer)
    BY <1>1, <2>5
  <2>7. SubSeq(longer, start + 1, n + 1) =
          Append(SubSeq(longer, start + 1, (n + 1) - 1), longer[n + 1])
    BY <1>1, <2>6, AppendToPiece
  <2>8. start + 1 \in 1 .. n + 1 /\ n \in (start + 1) - 1 .. n
    BY <1>1, <2>5
  <2>9. SubSeq(longer, start + 1, n) = SubSeq(bytes, start + 1, n)
    BY <2>8, PieceOfAppend DEF longer
  <2>10. LineTo(longer, n + 2) = Append(LineTo(bytes, n + 1), byte)
    BY <1>1, <2>2, <2>4, <2>5, <2>7, <2>9
  <2> QED
    BY <1>6, <2>10 DEF longer
<1> QED
  BY <1>5, <1>6

-----------------------------------------------------------------------------
(* What the lines report *)

\* With one line more at the end of those looked at, it decides if it reports.
LEMMA OneMoreLine ==
  ASSUME NEW bytes \in Seq(Byte), NEW ends \in SUBSET Nat, NEW j \in Nat,
         \A i \in ends : i < j
  PROVE  LastReported(bytes, ends \cup {j}) =
           IF Reports(LineTo(bytes, j)) THEN LineReports[Text(LineTo(bytes, j))]
           ELSE LastReported(bytes, ends)
<1> DEFINE all == Reporting(bytes, ends \cup {j})
<1>1. CASE Reports(LineTo(bytes, j))
  <2>1. all \subseteq ends \cup {j} /\ j \in all
    BY <1>1 DEF Reporting
  <2>2. all \in SUBSET Int /\ \A x \in all : x <= j
    <3> HIDE DEF all
    <3> QED
      BY <2>1
  <2>3. Max(all) = j
    <3> HIDE DEF all
    <3> QED
      BY <2>1, <2>2, MaxIs
  <2> QED
    BY <1>1, <2>1, <2>3 DEF LastReported
<1>2. CASE ~Reports(LineTo(bytes, j))
  <2>1. all = Reporting(bytes, ends)
    BY <1>2 DEF Reporting
  <2> QED
    BY <1>2, <2>1 DEF LastReported
<1> QED
  BY <1>1, <1>2

\* What the lines so far reported does not change with a further byte.
LEMMA AppendKeepsReported ==
  ASSUME NEW bytes \in Seq(Byte), NEW byte \in Byte,
         NEW ends \in SUBSET (1 .. Len(bytes) + 1)
  PROVE  LastReported(Append(bytes, byte), ends) = LastReported(bytes, ends)
<1>1. \A j \in ends : LineTo(Append(bytes, byte), j) = LineTo(bytes, j)
  BY AppendKeepsLines
<1>2. Reporting(Append(bytes, byte), ends) = Reporting(bytes, ends)
  BY <1>1 DEF Reporting
<1>3. Reporting(bytes, ends) # {} => Max(Reporting(bytes, ends)) \in ends
  <2>1. Len(bytes) + 1 \in Nat
    BY LenProperties
  <2>2. Reporting(bytes, ends) \in SUBSET (0 .. Len(bytes) + 1)
    <3>1. Reporting(bytes, ends) \subseteq ends
      BY DEF Reporting
    <3>2. ends \subseteq 0 .. Len(bytes) + 1
      BY <2>1
    <3> QED
      BY <3>1, <3>2
  <2>3. Reporting(bytes, ends) # {} => Max(Reporting(bytes, ends)) \in Reporting(bytes, ends)
    BY <2>1, <2>2, MaxIsLargest
  <2> QED
    BY <2>3 DEF Reporting
<1> QED
  BY <1>1, <1>2, <1>3 DEF LastReported

-----------------------------------------------------------------------------
(* The collector, byte by byte *)

\* All a usage can be.
Usages ==
  {Nothing} \cup {LineReports[line] : line \in DOMAIN LineReports}
            \cup {BodyReports[whole] : whole \in DOMAIN BodyReports}

Keeping == [held : Seq(Byte), overflowed : BOOLEAN, usage : Usages]

\* What is kept of an event stream when these bytes have passed: the unfinished
\* line unless it is too long, and what the finished lines report.
Follows(state, bytes) ==
  LET line == LineTo(bytes, Len(bytes) + 1)
  IN  /\ state.overflowed <=> Len(line) > MaxLine
      /\ state.held = IF state.overflowed THEN <<>> ELSE line
      /\ state.usage = LastReported(bytes, Newlines(bytes))

LEMMA ObserveByteKeeps ==
  ASSUME NEW state \in Keeping, NEW byte \in Byte
  PROVE  ObserveByte(state, byte) \in Keeping
<1>1. <<>> \in Seq(Byte) /\ Append(state.held, byte) \in Seq(Byte)
  BY AppendProperties, EmptySeq DEF Keeping
<1>2. Seen(state.held, state.usage) \in Usages
  BY DEF Seen, Usages, Keeping
<1> QED
  BY <1>1, <1>2 DEF ObserveByte, Keeping

LEMMA ObserveByteFollows ==
  ASSUME NEW state \in Keeping, NEW bytes \in Seq(Byte), NEW byte \in Byte,
         Follows(state, bytes)
  PROVE  Follows(ObserveByte(state, byte), Append(bytes, byte))
<1> DEFINE longer == Append(bytes, byte)
           after == ObserveByte(state, byte)
           line == LineTo(bytes, Len(bytes) + 1)
<1>1. longer \in Seq(Byte) /\ Len(longer) = Len(bytes) + 1 /\ Len(bytes) \in Nat
  BY AppendProperties, LenProperties
<1>2. line \in Seq(Byte) /\ Len(line) \in Nat
  <2>1. Len(bytes) + 1 \in 1 .. Len(bytes) + 1
    BY <1>1
  <2>2. line \in Seq(Byte)
    BY <2>1, LineProperties
  <2> QED
    BY <2>2, LenProperties
<1>3. LineTo(longer, Len(longer) + 1) = IF byte = Newline THEN <<>> ELSE Append(line, byte)
  <2>1. Len(longer) + 1 = Len(bytes) + 2
    BY <1>1
  <2> QED
    BY <2>1, LastLineOfAppend
<1>4. Newlines(bytes) \in SUBSET (1 .. Len(bytes))
  BY LenProperties DEF Newlines
<1>5. LastReported(longer, Newlines(bytes)) = LastReported(bytes, Newlines(bytes))
  BY <1>1, <1>4, AppendKeepsReported
<1>6. LineTo(longer, Len(bytes) + 1) = line
  <2>1. Len(bytes) + 1 \in 1 .. Len(bytes) + 1
    BY <1>1
  <2> QED
    BY <2>1, AppendKeepsLines
<1>7. /\ state.overflowed <=> Len(line) > MaxLine
      /\ state.held = IF state.overflowed THEN <<>> ELSE line
      /\ state.usage = LastReported(bytes, Newlines(bytes))
      /\ state.overflowed \in BOOLEAN
  BY DEF Follows, Keeping
<1>8. MaxLine \in Nat /\ MaxLine > 0
  BY ResponseUsageAssumption
<1>9. CASE byte = Newline
  <2>1. Newlines(longer) = Newlines(bytes) \cup {Len(bytes) + 1}
    BY <1>9, NewlinesOfAppend
  <2>2. LastReported(longer, Newlines(longer)) =
          IF Reports(line) THEN LineReports[Text(line)]
          ELSE LastReported(bytes, Newlines(bytes))
    <3>1. /\ Newlines(bytes) \in SUBSET Nat /\ Len(bytes) + 1 \in Nat
          /\ \A i \in Newlines(bytes) : i < Len(bytes) + 1
      BY <1>1, <1>4
    <3> HIDE DEF longer, line
    <3> QED
      BY <1>1, <1>5, <1>6, <2>1, <3>1, OneMoreLine
  <2>3. after = [held |-> <<>>, overflowed |-> FALSE,
                 usage |-> IF state.overflowed THEN state.usage
                           ELSE Seen(state.held, state.usage)]
    BY <1>9 DEF ObserveByte
  <2>4. after.usage = LastReported(longer, Newlines(longer))
    <3> HIDE DEF after, longer, line
    <3>1. CASE state.overflowed
      <4>1. ~Reports(line)
        BY <1>2, <1>7, <1>8, <3>1 DEF Reports
      <4> QED
        BY <1>7, <2>2, <2>3, <3>1, <4>1
    <3>2. CASE ~state.overflowed
      <4>1. Reports(line) <=> Text(line) \in DOMAIN LineReports
        BY <1>2, <1>7, <1>8, <3>2 DEF Reports
      <4>2. after.usage = Seen(line, state.usage)
        BY <1>7, <2>3, <3>2
      <4> QED
        BY <1>7, <2>2, <4>1, <4>2 DEF Seen
    <3> QED
      BY <1>7, <3>1, <3>2
  <2>5. Len(<<>>) = 0 /\ ~(0 > MaxLine)
    BY <1>8
  <2> HIDE DEF after, longer, line
  <2>6. after.held = <<>> /\ after.overflowed = FALSE
    BY <2>3
  <2>7. LineTo(longer, Len(longer) + 1) = <<>>
    BY <1>3, <1>9
  <2>8. Follows(after, longer)
    BY <2>4, <2>5, <2>6, <2>7 DEF Follows
  <2> QED
    BY <2>8 DEF after, longer
<1>10. CASE byte # Newline
  <2>1. Newlines(longer) = Newlines(bytes)
    BY <1>10, NewlinesOfAppend
  <2>2. LastReported(longer, Newlines(longer)) = state.usage
    BY <1>5, <1>7, <2>1
  <2>3. Len(Append(line, byte)) = Len(line) + 1
    BY <1>2, AppendProperties
  <2>4. after.usage = state.usage
    BY <1>10 DEF ObserveByte, Keeping
  <2>5. /\ after.overflowed <=> Len(line) + 1 > MaxLine
        /\ after.held = IF after.overflowed THEN <<>> ELSE Append(line, byte)
    <3>1. after = IF state.overflowed THEN state
                  ELSE IF Len(state.held) >= MaxLine
                  THEN [state EXCEPT !.held = <<>>, !.overflowed = TRUE]
                  ELSE [state EXCEPT !.held = Append(@, byte)]
      BY <1>10 DEF ObserveByte
    <3> HIDE DEF after, line
    <3>2. CASE state.overflowed
      BY <1>2, <1>7, <1>8, <3>1, <3>2
    <3>3. CASE ~state.overflowed /\ Len(line) >= MaxLine
      <4>1. after = [state EXCEPT !.held = <<>>, !.overflowed = TRUE]
        BY <1>7, <3>1, <3>3
      <4>2. after.held = <<>> /\ after.overflowed = TRUE
        BY <4>1 DEF Keeping
      <4> QED
        BY <1>2, <1>8, <3>3, <4>2
    <3>4. CASE ~state.overflowed /\ ~(Len(line) >= MaxLine)
      <4>1. after = [state EXCEPT !.held = Append(line, byte)]
        BY <1>7, <3>1, <3>4
      <4>2. after.held = Append(line, byte) /\ after.overflowed = state.overflowed
        BY <4>1 DEF Keeping
      <4> QED
        BY <1>2, <1>8, <3>4, <4>2
    <3> QED
      BY <3>2, <3>3, <3>4
  <2> HIDE DEF after, longer, line
  <2>7. Follows(after, longer)
    BY <1>3, <1>10, <2>2, <2>3, <2>4, <2>5 DEF Follows
  <2> QED
    BY <2>7 DEF after, longer
<1> QED
  BY <1>9, <1>10

\* The fold over a chunk is the last of the states its bytes lead through.
LEMMA ObserveTrace ==
  ASSUME NEW state \in Keeping, NEW chunk \in Seq(Byte)
  PROVE  \E trace \in [0 .. Len(chunk) -> Keeping] :
           /\ trace[0] = state
           /\ \A k \in 1 .. Len(chunk) : trace[k] = ObserveByte(trace[k - 1], chunk[k])
           /\ FoldLeft(ObserveByte, state, chunk) = trace[Len(chunk)]
<1> DEFINE n == Len(chunk)
           step == [p \in Keeping \X (1 .. n) |-> ObserveByte(p[1], chunk[p[2]])]
           jt == CHOOSE jt : jt = [u \in SUBSET (1 .. n) |->
                   IF u = {} THEN state ELSE ObserveByte(jt[u \ {Max(u)}], chunk[Max(u)])]
<1>1. n \in Nat /\ DOMAIN chunk = 1 .. n /\ \A k \in 1 .. n : chunk[k] \in Byte
  BY LenProperties, ElementOfSeq
<1>2. step \in [Keeping \X (1 .. n) -> Keeping]
  BY <1>1, ObserveByteKeeps
<1>3. PICK it \in [SUBSET (1 .. n) -> Keeping] : Iterates(it, n, state, step)
  <2> HIDE DEF step, n
  <2> QED
    BY <1>1, <1>2, IterationExists
<1>4. it = [u \in SUBSET (1 .. n) |->
              IF u = {} THEN state ELSE ObserveByte(it[u \ {Max(u)}], chunk[Max(u)])]
  <2>1. ASSUME NEW u \in SUBSET (1 .. n), u # {}
        PROVE  step[<<it[u \ {Max(u)}], Max(u)>>] = ObserveByte(it[u \ {Max(u)}], chunk[Max(u)])
    <3>1. Max(u) \in 1 .. n
      <4>1. u \in SUBSET (0 .. n)
        OBVIOUS
      <4> QED
        BY <1>1, <2>1, <4>1, MaxIsLargest
    <3>2. <<it[u \ {Max(u)}], Max(u)>> \in Keeping \X (1 .. n)
      BY <1>3, <3>1
    <3> QED
      BY <3>2
  <2> HIDE DEF step
  <2> QED
    BY <1>3, <2>1 DEF Iterates
<1>5. jt = [u \in SUBSET (1 .. n) |->
              IF u = {} THEN state ELSE ObserveByte(jt[u \ {Max(u)}], chunk[Max(u)])]
  BY <1>4
<1>6. FoldLeft(ObserveByte, state, chunk) = jt[1 .. n]
  BY <1>1 DEF FoldLeft, MapThenFoldSet
<1> HIDE DEF jt
<1> DEFINE trace == [k \in 0 .. n |-> jt[1 .. k]]
<1>7. trace[0] = state
  <2>1. 1 .. 0 = {} /\ {} \in SUBSET (1 .. n) /\ 0 \in 0 .. n
    BY <1>1
  <2> QED
    BY <1>5, <2>1
<1>8. ASSUME NEW k \in 1 .. n PROVE trace[k] = ObserveByte(trace[k - 1], chunk[k])
  <2>1. k \in Nat /\ k # 0 /\ 1 .. k \in SUBSET (1 .. n) /\ k \in 0 .. n /\ k - 1 \in 0 .. n
    BY <1>1
  <2>2. Max(1 .. k) = k /\ (1 .. k) \ {k} = 1 .. (k - 1) /\ 1 .. k # {}
    BY <2>1, MaxOfInterval
  <2>3. jt[1 .. k] = ObserveByte(jt[1 .. (k - 1)], chunk[k])
    BY <1>5, <2>1, <2>2
  <2> QED
    BY <2>1, <2>3
<1>9. \A k \in 0 .. n : trace[k] \in Keeping
  <2> DEFINE Kept == {k \in 0 .. n : trace[k] \in Keeping}
  <2>1. 0 \in Kept
    BY <1>1, <1>7
  <2>2. ASSUME NEW k \in 0 .. n, k < n, k \in Kept PROVE k + 1 \in Kept
    <3>1. k + 1 \in 1 .. n /\ (k + 1) - 1 = k /\ k + 1 \in 0 .. n
      BY <1>1, <2>2
    <3>2. trace[k + 1] = ObserveByte(trace[k], chunk[k + 1])
      BY <1>8, <3>1
    <3> HIDE DEF trace
    <3>3. trace[k + 1] \in Keeping
      BY <1>1, <2>2, <3>1, <3>2, ObserveByteKeeps
    <3> QED
      BY <3>1, <3>3
  <2>3. 0 .. n \subseteq Kept
    <3> HIDE DEF Kept
    <3> QED
      BY <1>1, <2>1, <2>2, InductionUpTo
  <2> QED
    BY <2>3
<1>10. trace \in [0 .. n -> Keeping] /\ trace[n] = jt[1 .. n]
  BY <1>1, <1>9
<1> HIDE DEF trace
<1> QED
  BY <1>6, <1>7, <1>8, <1>10

LEMMA ObserveChunkFollows ==
  ASSUME NEW state \in Keeping, NEW bytes \in Seq(Byte), NEW chunk \in Seq(Byte),
         Follows(state, bytes)
  PROVE  LET after == FoldLeft(ObserveByte, state, chunk)
         IN  after \in Keeping /\ Follows(after, bytes \o chunk)
<1> DEFINE n == Len(chunk)
<1>1. PICK trace \in [0 .. n -> Keeping] :
        /\ trace[0] = state
        /\ \A k \in 1 .. n : trace[k] = ObserveByte(trace[k - 1], chunk[k])
        /\ FoldLeft(ObserveByte, state, chunk) = trace[n]
  BY ObserveTrace
<1>2. n \in Nat
  BY LenProperties
<1> DEFINE Passed(k) == bytes \o SubSeq(chunk, 1, k)
           Followed == {k \in 0 .. n : Follows(trace[k], Passed(k))}
<1>3. 0 \in Followed
  <2>1. SubSeq(chunk, 1, 0) = <<>> /\ bytes \o <<>> = bytes
    BY SubSeqEmpty, ConcatEmptySeq
  <2> QED
    BY <1>1, <1>2, <2>1
<1>4. ASSUME NEW k \in 0 .. n, k < n, k \in Followed PROVE k + 1 \in Followed
  <2>1. k + 1 \in 1 .. n /\ (k + 1) - 1 = k /\ k + 1 \in 0 .. n
    BY <1>2, <1>4
  <2>2. SubSeq(chunk, 1, k + 1) = Append(SubSeq(chunk, 1, k), chunk[k + 1])
    <3>1. 1 \in 1 .. n /\ k + 1 \in 1 .. n
      BY <1>2, <2>1
    <3>2. SubSeq(chunk, 1, k + 1) = Append(SubSeq(chunk, 1, (k + 1) - 1), chunk[k + 1])
      BY <3>1, AppendToPiece
    <3> QED
      BY <2>1, <3>2
  <2>3. SubSeq(chunk, 1, k) \in Seq(Byte) /\ chunk[k + 1] \in Byte
    <3>1. 1 \in 1 .. n + 1 /\ k \in 1 - 1 .. n
      BY <1>2
    <3> QED
      BY <2>1, <3>1, Piece, ElementOfSeq
  <2>4. Passed(k + 1) = Append(Passed(k), chunk[k + 1]) /\ Passed(k) \in Seq(Byte)
    BY <2>2, <2>3, ConcatAppend, ConcatProperties
  <2>5. trace[k + 1] = ObserveByte(trace[k], chunk[k + 1]) /\ trace[k] \in Keeping
    BY <1>1, <2>1
  <2>6. Follows(trace[k], Passed(k))
    BY <1>4
  <2> HIDE DEF Passed
  <2>7. Follows(trace[k + 1], Passed(k + 1))
    BY <2>3, <2>4, <2>5, <2>6, ObserveByteFollows
  <2> QED
    BY <2>1, <2>7
<1>5. n \in Followed
  <2> HIDE DEF Followed
  <2>1. 0 .. n \subseteq Followed
    BY <1>2, <1>3, <1>4, InductionUpTo
  <2> QED
    BY <1>2, <2>1
<1>6. SubSeq(chunk, 1, n) = chunk
  BY SubSeqFull
<1>7. n \in 0 .. n
  BY <1>2
<1> QED
  BY <1>1, <1>5, <1>6, <1>7

-----------------------------------------------------------------------------
(* The collector's invariant *)

UsageIInv ==
  /\ mode \in {"none", "events", "json", "finished"}
  /\ received \in Seq(Byte) /\ held \in Seq(Byte)
  /\ overflowed \in BOOLEAN /\ usage \in Usages
  /\ mode = "none" => received = <<>> /\ held = <<>> /\ ~overflowed /\ usage = Nothing
  /\ mode = "events" =>
       Follows([held |-> held, overflowed |-> overflowed, usage |-> usage], received)
  /\ mode = "json" =>
       /\ usage = Nothing
       /\ overflowed <=> Len(received) > MaxBody
       /\ held = IF overflowed THEN <<>> ELSE received
  /\ mode = "finished" => Len(held) <= Len(received)

\* The unfinished line is part of what was received.
LEMMA FollowsBounds ==
  ASSUME NEW state \in Keeping, NEW bytes \in Seq(Byte), Follows(state, bytes)
  PROVE  Len(state.held) <= MaxLine /\ Len(state.held) <= Len(bytes)
<1> DEFINE line == LineTo(bytes, Len(bytes) + 1)
<1>1. Len(bytes) \in Nat /\ MaxLine \in Nat /\ Len(<<>>) = 0
  BY LenProperties, ResponseUsageAssumption
<1>2. Len(line) \in Nat /\ Len(line) <= Len(bytes)
  <2>1. Len(bytes) + 1 \in 1 .. Len(bytes) + 1
    BY <1>1
  <2>2. PICK start \in 0 .. (Len(bytes) + 1) - 1 : Len(line) = (Len(bytes) + 1) - 1 - start
    BY <2>1, LineProperties
  <2> HIDE DEF line
  <2> QED
    BY <1>1, <2>2
<1>3. (state.overflowed <=> Len(line) > MaxLine) /\
      state.held = IF state.overflowed THEN <<>> ELSE line
  BY DEF Follows
<1> HIDE DEF line
<1> QED
  BY <1>1, <1>2, <1>3

LEMMA UsageIInvInit == UsageInit => UsageIInv
BY EmptySeq DEF UsageInit, UsageIInv, Usages

LEMMA UsageIInvNext == UsageIInv /\ [UsageNext]_usageVars => UsageIInv'
<1> SUFFICES ASSUME UsageIInv, [UsageNext]_usageVars PROVE UsageIInv'
  OBVIOUS
<1> DEFINE state == [held |-> held, overflowed |-> overflowed, usage |-> usage]
<1>1. state \in Keeping
  BY DEF UsageIInv, Keeping
<1>2. MaxLine \in Nat /\ MaxBody \in Nat /\ Len(<<>>) = 0
  BY ResponseUsageAssumption
<1>3. CASE Headers
  <2>1. /\ mode = "none" /\ mode' \in {"events", "json"}
        /\ UNCHANGED <<received, held, overflowed, usage>>
    BY <1>3 DEF Headers
  <2>2. received = <<>> /\ held = <<>> /\ overflowed = FALSE /\ usage = Nothing
    BY <2>1 DEF UsageIInv
  <2>3. Follows([held |-> <<>>, overflowed |-> FALSE, usage |-> Nothing], <<>>)
    <3>1. <<>> \in Seq(Byte) /\ Len(<<>>) + 1 \in 1 .. Len(<<>>) + 1
      BY <1>2, EmptySeq
    <3>2. Newlines(<<>>) = {}
      BY <1>2, <3>1, LenProperties DEF Newlines
    <3>3. LineTo(<<>>, Len(<<>>) + 1) = <<>>
      <4>1. {i \in Newlines(<<>>) : i < Len(<<>>) + 1} \cup {0} = {0}
        BY <3>2
      <4>2. Max({0}) = 0
        BY MaxIs
      <4>3. LineTo(<<>>, Len(<<>>) + 1) = SubSeq(<<>>, 0 + 1, (Len(<<>>) + 1) - 1)
        BY <4>1, <4>2 DEF LineTo
      <4>4. SubSeq(<<>>, 0 + 1, (Len(<<>>) + 1) - 1) = <<>>
        BY <1>2, SubSeqEmpty
      <4> QED
        BY <4>3, <4>4
    <3>4. LastReported(<<>>, Newlines(<<>>)) = Nothing
      BY <3>2 DEF LastReported, Reporting
    <3> QED
      BY <1>2, <3>3, <3>4 DEF Follows
  <2>4. overflowed' <=> Len(received') > MaxBody
    BY <1>2, <2>1, <2>2
  <2> QED
    BY <2>1, <2>2, <2>3, <2>4 DEF UsageIInv
<1>4. CASE ObserveEvents
  <2>1. mode = "events" /\ mode' = mode
    BY <1>4 DEF ObserveEvents
  <2>2. PICK chunk \in Chunks :
          /\ received' = received \o chunk
          /\ LET after == FoldLeft(ObserveByte, state, chunk)
             IN  held' = after.held /\ overflowed' = after.overflowed /\ usage' = after.usage
    BY <1>4 DEF ObserveEvents
  <2> DEFINE after == FoldLeft(ObserveByte, state, chunk)
  <2>3. chunk \in Seq(Byte)
    BY ResponseUsageAssumption
  <2>4. Follows(state, received) /\ received \in Seq(Byte)
    BY <2>1 DEF UsageIInv
  <2>5. after \in Keeping /\ Follows(after, received')
    <3> HIDE DEF state
    <3> QED
      BY <1>1, <2>2, <2>3, <2>4, ObserveChunkFollows
  <2>6. held' = after.held /\ overflowed' = after.overflowed /\ usage' = after.usage
    BY <2>2
  <2>7. received' \in Seq(Byte)
    BY <2>2, <2>3, <2>4, ConcatProperties
  <2> HIDE DEF after
  <2>8. after = [held |-> held', overflowed |-> overflowed', usage |-> usage']
    BY <2>5, <2>6 DEF Keeping
  <2>9. held' \in Seq(Byte) /\ overflowed' \in BOOLEAN /\ usage' \in Usages
    BY <2>5, <2>6 DEF Keeping
  <2> QED
    BY <2>1, <2>5, <2>7, <2>8, <2>9 DEF UsageIInv
<1>5. CASE ObserveJson
  <2>1. mode = "json" /\ mode' = mode /\ usage' = usage
    BY <1>5 DEF ObserveJson
  <2>2. PICK chunk \in Chunks :
          /\ received' = received \o chunk
          /\ overflowed' = (overflowed \/ Len(held) + Len(chunk) > MaxBody)
          /\ held' = IF overflowed' THEN <<>> ELSE held \o chunk
    BY <1>5 DEF ObserveJson
  <2>3. chunk \in Seq(Byte) /\ Len(chunk) \in Nat
    BY ResponseUsageAssumption, LenProperties
  <2>4. /\ received \in Seq(Byte) /\ Len(received) \in Nat
        /\ received' \in Seq(Byte) /\ Len(received') = Len(received) + Len(chunk)
    BY <2>2, <2>3, ConcatProperties, LenProperties DEF UsageIInv
  <2>5. /\ overflowed <=> Len(received) > MaxBody
        /\ held = IF overflowed THEN <<>> ELSE received
        /\ overflowed \in BOOLEAN /\ usage = Nothing
    BY <2>1 DEF UsageIInv
  <2>6. overflowed' \in BOOLEAN
    BY <2>2
  <2>7. overflowed' <=> Len(received') > MaxBody
    <3>1. CASE overflowed
      <4>1. Len(received) > MaxBody /\ overflowed' = TRUE
        BY <2>2, <2>5, <3>1
      <4> QED
        BY <1>2, <2>3, <2>4, <4>1
    <3>2. CASE ~overflowed
      <4>1. held = received /\ overflowed' = (Len(held) + Len(chunk) > MaxBody)
        BY <2>2, <2>5, <3>2
      <4> QED
        BY <2>4, <4>1
    <3> QED
      BY <3>1, <3>2
  <2>8. held' = IF overflowed' THEN <<>> ELSE received'
    BY <2>2, <2>5
  <2>9. held' \in Seq(Byte)
    BY <2>4, <2>8, EmptySeq
  <2> QED
    BY <2>1, <2>4, <2>5, <2>6, <2>7, <2>8, <2>9 DEF UsageIInv
<1>6. CASE Finish
  <2>1. /\ mode \in {"events", "json"} /\ mode' = "finished"
        /\ UNCHANGED <<received, held, overflowed>>
        /\ usage' = IF overflowed THEN usage
                    ELSE IF mode = "events" THEN Seen(held, usage)
                    ELSE IF held \in DOMAIN BodyReports THEN BodyReports[held] ELSE Nothing
    BY <1>6 DEF Finish
  <2>2. usage' \in Usages
    BY <2>1 DEF UsageIInv, Usages, Seen
  <2>3. Len(held) <= Len(received)
    <3>1. CASE mode = "events"
      <4>1. Follows(state, received) /\ received \in Seq(Byte)
        BY <3>1 DEF UsageIInv
      <4>2. Len(state.held) <= Len(received)
        <5> HIDE DEF state
        <5> QED
          BY <1>1, <4>1, FollowsBounds
      <4> QED
        BY <4>2
    <3>2. CASE mode = "json"
      <4>1. held = (IF overflowed THEN <<>> ELSE received) /\ Len(received) \in Nat
        BY <3>2, LenProperties DEF UsageIInv
      <4> QED
        BY <1>2, <4>1
    <3> QED
      BY <2>1, <3>1, <3>2
  <2> QED
    BY <2>1, <2>2, <2>3 DEF UsageIInv
<1>7. CASE UNCHANGED usageVars
  BY <1>7 DEF UsageIInv, usageVars
<1> QED
  BY <1>3, <1>4, <1>5, <1>6, <1>7 DEF UsageNext

LEMMA UsageIInvHolds == UsageSpec => []UsageIInv
<1> QED
  BY UsageIInvInit, UsageIInvNext, PTL DEF UsageSpec

\* HeldBounded: the collector holds no more than an unfinished line of MaxLine
\* bytes or a body of MaxBody, for every way to cut a response into chunks.
THEOREM HeldBoundedHolds == UsageSpec => []HeldBounded
<1>1. UsageIInv => HeldBounded
  <2> SUFFICES ASSUME UsageIInv PROVE HeldBounded
    OBVIOUS
  <2> DEFINE state == [held |-> held, overflowed |-> overflowed, usage |-> usage]
  <2>1. /\ MaxBody \in Nat /\ Len(<<>>) = 0 /\ received \in Seq(Byte)
        /\ Len(received) \in Nat /\ overflowed \in BOOLEAN
    BY ResponseUsageAssumption, LenProperties DEF UsageIInv
  <2>2. CASE mode = "none"
    BY <2>1, <2>2 DEF UsageIInv, HeldBounded
  <2>3. CASE mode = "events"
    <3>1. state \in Keeping /\ Follows(state, received)
      BY <2>3 DEF UsageIInv, Keeping
    <3>2. Len(state.held) <= MaxLine
      <4> HIDE DEF state
      <4> QED
        BY <2>1, <3>1, FollowsBounds
    <3> QED
      BY <2>3, <3>2 DEF HeldBounded
  <2>4. CASE mode = "json"
    <3>1. (overflowed <=> Len(received) > MaxBody) /\
          held = IF overflowed THEN <<>> ELSE received
      BY <2>4 DEF UsageIInv
    <3>2. Len(held) <= MaxBody
      BY <2>1, <3>1
    <3> QED
      BY <2>4, <3>2 DEF HeldBounded
  <2>5. CASE mode = "finished"
    BY <2>5 DEF UsageIInv, HeldBounded
  <2> QED
    BY <2>2, <2>3, <2>4, <2>5 DEF UsageIInv
<1> QED
  BY <1>1, UsageIInvHolds, PTL

\* UsageOfWhole: what finish reports depends on the bytes of the response alone,
\* not on its chunks: the last line short enough, or the body if short enough.
THEOREM UsageOfWholeHolds == UsageSpec => UsageOfWhole
<1>1. ASSUME UsageIInv, [UsageNext]_usageVars
      PROVE  [mode' = "finished" =>
                usage' = IF mode = "events" THEN LastReported(received, Ends(received))
                         ELSE WholeReported]_usageVars
  <2> SUFFICES ASSUME mode' = "finished", usageVars' # usageVars
               PROVE  usage' = IF mode = "events" THEN LastReported(received, Ends(received))
                               ELSE WholeReported
    OBVIOUS
  <2>1. Finish
    <3>1. Headers => mode' # "finished"
      BY DEF Headers
    <3>2. ObserveEvents => mode' # "finished"
      BY DEF ObserveEvents
    <3>3. ObserveJson => mode' # "finished"
      BY DEF ObserveJson
    <3> QED
      BY <1>1, <3>1, <3>2, <3>3 DEF UsageNext
  <2>2. /\ mode \in {"events", "json"}
        /\ usage' = IF overflowed THEN usage
                    ELSE IF mode = "events" THEN Seen(held, usage)
                    ELSE IF held \in DOMAIN BodyReports THEN BodyReports[held] ELSE Nothing
    BY <2>1 DEF Finish
  <2>3. received \in Seq(Byte) /\ Len(received) \in Nat /\ overflowed \in BOOLEAN
        /\ MaxLine \in Nat /\ MaxBody \in Nat
    BY <1>1, LenProperties, ResponseUsageAssumption DEF UsageIInv
  <2>4. CASE mode = "events"
    <3> DEFINE line == LineTo(received, Len(received) + 1)
    <3>1. /\ overflowed <=> Len(line) > MaxLine
          /\ held = IF overflowed THEN <<>> ELSE line
          /\ usage = LastReported(received, Newlines(received))
      BY <1>1, <2>4 DEF UsageIInv, Follows
    <3>2. Len(line) \in Nat
      <4>1. Len(received) + 1 \in 1 .. Len(received) + 1
        BY <2>3
      <4>2. line \in Seq(Byte)
        BY <2>3, <4>1, LineProperties
      <4> QED
        BY <4>2, LenProperties
    <3>3. LastReported(received, Ends(received)) =
            IF Reports(line) THEN LineReports[Text(line)] ELSE usage
      <4>1. /\ Newlines(received) \in SUBSET Nat /\ Len(received) + 1 \in Nat
            /\ \A i \in Newlines(received) : i < Len(received) + 1
        BY <2>3, LenProperties DEF Newlines
      <4>2. LastReported(received, Newlines(received) \cup {Len(received) + 1}) =
              IF Reports(line) THEN LineReports[Text(line)]
              ELSE LastReported(received, Newlines(received))
        BY <2>3, <4>1, OneMoreLine
      <4> QED
        BY <3>1, <4>2 DEF Ends
    <3> HIDE DEF line
    <3>4. CASE overflowed
      <4>1. ~Reports(line)
        BY <2>3, <3>1, <3>2, <3>4 DEF Reports
      <4> QED
        BY <2>2, <2>4, <3>3, <3>4, <4>1
    <3>5. CASE ~overflowed
      <4>1. Reports(line) <=> Text(line) \in DOMAIN LineReports
        BY <2>3, <3>1, <3>2, <3>5 DEF Reports
      <4>2. usage' = Seen(line, usage)
        BY <2>2, <2>4, <3>1, <3>5
      <4> QED
        BY <2>4, <3>3, <4>1, <4>2 DEF Seen
    <3> QED
      BY <3>4, <3>5
  <2>5. CASE mode = "json"
    <3>1. /\ overflowed <=> Len(received) > MaxBody
          /\ held = IF overflowed THEN <<>> ELSE received
          /\ usage = Nothing
      BY <1>1, <2>5 DEF UsageIInv
    <3>2. overflowed <=> ~(Len(received) <= MaxBody)
      BY <2>3, <3>1
    <3> QED
      BY <2>2, <2>5, <3>1, <3>2 DEF WholeReported
  <2> QED
    BY <2>2, <2>4, <2>5
<1> QED
  BY <1>1, UsageIInvHolds, PTL DEF UsageSpec, UsageOfWhole

-----------------------------------------------------------------------------
(* The texts of a receipt *)

\* How long symbols are, in bytes or in code units.
Measures == [Symbol -> Nat \ {0}]

\* The length of a text is the last of the sums up to each symbol.
LEMMA LengthTrace ==
  ASSUME NEW text \in Seq(Symbol), NEW size \in Measures
  PROVE  \E trace \in [0 .. Len(text) -> Nat] :
           /\ trace[0] = 0
           /\ \A k \in 1 .. Len(text) : trace[k] = trace[k - 1] + size[text[k]]
           /\ Length(text, size) = trace[Len(text)]
<1> DEFINE n == Len(text)
           base == 0
           step == [p \in Nat \X (1 .. n) |-> p[1] + size[text[p[2]]]]
           jt == CHOOSE jt : jt = [u \in SUBSET (1 .. n) |->
                   IF u = {} THEN base ELSE jt[u \ {Max(u)}] + size[text[Max(u)]]]
<1>1. /\ n \in Nat /\ DOMAIN text = 1 .. n /\ \A k \in 1 .. n : text[k] \in Symbol
      /\ base \in Nat
  BY LenProperties, ElementOfSeq
<1> HIDE DEF base
<1>2. ASSUME NEW a \in Nat, NEW k \in 1 .. n PROVE a + size[text[k]] \in Nat
  BY <1>1 DEF Measures
<1>3. step \in [Nat \X (1 .. n) -> Nat]
  BY <1>2
<1>4. \E it : it = [u \in SUBSET (1 .. n) |->
                     IF u = {} THEN base ELSE it[u \ {Max(u)}] + size[text[Max(u)]]]
  <2>1. PICK it \in [SUBSET (1 .. n) -> Nat] : Iterates(it, n, base, step)
    <3> HIDE DEF step, n
    <3> QED
      BY <1>1, <1>3, IterationExists
  <2>2. ASSUME NEW u \in SUBSET (1 .. n), u # {}
        PROVE  step[<<it[u \ {Max(u)}], Max(u)>>] = it[u \ {Max(u)}] + size[text[Max(u)]]
    <3>1. Max(u) \in 1 .. n /\ u \ {Max(u)} \in SUBSET (1 .. n)
      BY <1>1, <2>2, LargestIndex
    <3>2. <<it[u \ {Max(u)}], Max(u)>> \in Nat \X (1 .. n)
      BY <2>1, <3>1
    <3> QED
      BY <3>2
  <2> HIDE DEF step
  <2>3. \A u \in SUBSET (1 .. n) : it[u] = IF u = {} THEN base
                                           ELSE it[u \ {Max(u)}] + size[text[Max(u)]]
    BY <2>1, <2>2 DEF Iterates
  <2> QED
    BY <2>1, <2>3
<1>5. jt = [u \in SUBSET (1 .. n) |->
              IF u = {} THEN base ELSE jt[u \ {Max(u)}] + size[text[Max(u)]]]
  BY <1>4
<1>6. Length(text, size) = jt[1 .. n]
  BY <1>1 DEF base, Length, FoldLeft, MapThenFoldSet
<1> HIDE DEF jt
<1>7. jt[{}] = base
  BY <1>5
<1>8. ASSUME NEW k \in 1 .. n PROVE jt[1 .. k] = jt[1 .. (k - 1)] + size[text[k]]
  <2>1. k \in Nat /\ k # 0 /\ 1 .. k \in SUBSET (1 .. n)
    BY <1>1
  <2>2. Max(1 .. k) = k /\ (1 .. k) \ {k} = 1 .. (k - 1) /\ 1 .. k # {}
    BY <2>1, MaxOfInterval
  <2> QED
    BY <1>5, <2>1, <2>2
<1>9. ASSUME NEW a \in Nat, NEW k \in 1 .. n
       PROVE  step[<<a, k>>] \in Nat /\ step[<<a, k>>] = a + size[text[k]]
  BY <1>2
<1> HIDE DEF step
<1>10. PICK trace \in [0 .. n -> Nat] :
         IsTrace(trace, n, base, step) /\ trace[n] = jt[1 .. n]
  <2> DEFINE Values == Nat
  <2>1. StepsWithin(jt, n, Values, step)
    BY <1>8, <1>9 DEF StepsWithin
  <2>2. n \in Nat /\ base \in Values
    BY <1>1
  <2> HIDE DEF n, Values
  <2>3. \E trace \in [0 .. n -> Values] : IsTrace(trace, n, base, step) /\ trace[n] = jt[1 .. n]
    BY <1>7, <2>1, <2>2, TraceOfIteration
  <2> QED
    BY <2>3 DEF Values
<1>11. ASSUME NEW k \in 1 .. n PROVE trace[k] = trace[k - 1] + size[text[k]]
  <2>1. k - 1 \in 0 .. n
    BY <1>1
  <2> QED
    BY <1>9, <1>10, <2>1 DEF IsTrace
<1> QED
  BY <1>6, <1>10, <1>11 DEF IsTrace, base

Walks == [units : Nat, end : Nat, full : BOOLEAN]

\* The step of safe_head.
WalkOn(w, c, max) ==
  IF ~w.full /\ w.units + Units[c] <= max
  THEN [units |-> w.units + Units[c], end |-> w.end + 1, full |-> FALSE]
  ELSE [w EXCEPT !.full = TRUE]

LEMMA WalkOnKeeps ==
  ASSUME NEW w \in Walks, NEW c \in Symbol, NEW max \in Nat
  PROVE  WalkOn(w, c, max) \in Walks
<1>1. Units[c] \in Nat
  BY ReceiptRecoveryAssumption
<1>2. CASE ~w.full /\ w.units + Units[c] <= max
  BY <1>1, <1>2 DEF WalkOn, Walks
<1>3. CASE ~(~w.full /\ w.units + Units[c] <= max)
  <2>1. WalkOn(w, c, max) = [w EXCEPT !.full = TRUE]
    BY <1>3 DEF WalkOn
  <2> QED
    BY <2>1 DEF Walks
<1> QED
  BY <1>2, <1>3

\* safe_head as the positions its walk comes to.
LEMMA WalkTrace ==
  ASSUME NEW value \in Seq(Symbol), NEW max \in Nat
  PROVE  \E trace \in [0 .. Len(value) -> Walks] :
           /\ trace[0] = [units |-> 0, end |-> 0, full |-> FALSE]
           /\ \A k \in 1 .. Len(value) : trace[k] = WalkOn(trace[k - 1], value[k], max)
           /\ SafeHead(value, max) = SubSeq(value, 1, trace[Len(value)].end)
<1> DEFINE n == Len(value)
           base == [units |-> 0, end |-> 0, full |-> FALSE]
           step == [p \in Walks \X (1 .. n) |-> WalkOn(p[1], value[p[2]], max)]
           jt == CHOOSE jt : jt = [u \in SUBSET (1 .. n) |->
                   IF u = {} THEN base ELSE WalkOn(jt[u \ {Max(u)}], value[Max(u)], max)]
<1>1. /\ n \in Nat /\ DOMAIN value = 1 .. n /\ \A k \in 1 .. n : value[k] \in Symbol
      /\ base \in Walks
  BY LenProperties, ElementOfSeq DEF Walks
<1> HIDE DEF base
<1>2. ASSUME NEW a \in Walks, NEW k \in 1 .. n PROVE WalkOn(a, value[k], max) \in Walks
  BY <1>1, WalkOnKeeps
<1>3. step \in [Walks \X (1 .. n) -> Walks]
  BY <1>2
<1>4. \E it : it = [u \in SUBSET (1 .. n) |->
                     IF u = {} THEN base ELSE WalkOn(it[u \ {Max(u)}], value[Max(u)], max)]
  <2>1. PICK it \in [SUBSET (1 .. n) -> Walks] : Iterates(it, n, base, step)
    <3> HIDE DEF step, n
    <3> QED
      BY <1>1, <1>3, IterationExists
  <2>2. ASSUME NEW u \in SUBSET (1 .. n), u # {}
        PROVE  step[<<it[u \ {Max(u)}], Max(u)>>] = WalkOn(it[u \ {Max(u)}], value[Max(u)], max)
    <3>1. Max(u) \in 1 .. n /\ u \ {Max(u)} \in SUBSET (1 .. n)
      BY <1>1, <2>2, LargestIndex
    <3>2. <<it[u \ {Max(u)}], Max(u)>> \in Walks \X (1 .. n)
      BY <2>1, <3>1
    <3> QED
      BY <3>2
  <2> HIDE DEF step
  <2>3. \A u \in SUBSET (1 .. n) : it[u] = IF u = {} THEN base
                                           ELSE WalkOn(it[u \ {Max(u)}], value[Max(u)], max)
    BY <2>1, <2>2 DEF Iterates
  <2> QED
    BY <2>1, <2>3
<1>5. jt = [u \in SUBSET (1 .. n) |->
              IF u = {} THEN base ELSE WalkOn(jt[u \ {Max(u)}], value[Max(u)], max)]
  BY <1>4
<1>6. SafeHead(value, max) = SubSeq(value, 1, jt[1 .. n].end)
  BY <1>1 DEF base, SafeHead, WalkOn, FoldLeft, MapThenFoldSet
<1> HIDE DEF jt
<1>7. jt[{}] = base
  BY <1>5
<1>8. ASSUME NEW k \in 1 .. n PROVE jt[1 .. k] = WalkOn(jt[1 .. (k - 1)], value[k], max)
  <2>1. k \in Nat /\ k # 0 /\ 1 .. k \in SUBSET (1 .. n)
    BY <1>1
  <2>2. Max(1 .. k) = k /\ (1 .. k) \ {k} = 1 .. (k - 1) /\ 1 .. k # {}
    BY <2>1, MaxOfInterval
  <2> QED
    BY <1>5, <2>1, <2>2
<1>9. ASSUME NEW a \in Walks, NEW k \in 1 .. n
       PROVE  step[<<a, k>>] \in Walks /\ step[<<a, k>>] = WalkOn(a, value[k], max)
  BY <1>2
<1> HIDE DEF step
<1>10. PICK trace \in [0 .. n -> Walks] :
         IsTrace(trace, n, base, step) /\ trace[n] = jt[1 .. n]
  <2> DEFINE Values == Walks
  <2>1. StepsWithin(jt, n, Values, step)
    BY <1>8, <1>9 DEF StepsWithin
  <2>2. n \in Nat /\ base \in Values
    BY <1>1
  <2> HIDE DEF n, Values
  <2>3. \E trace \in [0 .. n -> Values] : IsTrace(trace, n, base, step) /\ trace[n] = jt[1 .. n]
    BY <1>7, <2>1, <2>2, TraceOfIteration
  <2> QED
    BY <2>3 DEF Values
<1>11. ASSUME NEW k \in 1 .. n PROVE trace[k] = WalkOn(trace[k - 1], value[k], max)
  <2>1. k - 1 \in 0 .. n
    BY <1>1
  <2> QED
    BY <1>9, <1>10, <2>1 DEF IsTrace
<1> QED
  BY <1>6, <1>10, <1>11 DEF IsTrace, base

LEMMA LengthEmpty ==
  ASSUME NEW size \in Measures
  PROVE  Length(<<>>, size) = 0
<1>1. <<>> \in Seq(Symbol) /\ Len(<<>>) = 0
  BY EmptySeq
<1> QED
  BY <1>1, LengthTrace

LEMMA LengthAppend ==
  ASSUME NEW text \in Seq(Symbol), NEW c \in Symbol, NEW size \in Measures
  PROVE  Length(Append(text, c), size) = Length(text, size) + size[c]
<1> DEFINE longer == Append(text, c)
           n == Len(text)
<1>1. /\ longer \in Seq(Symbol) /\ Len(longer) = n + 1 /\ n \in Nat
      /\ \A i \in 1 .. n : longer[i] = text[i]
      /\ longer[n + 1] = c
  BY AppendProperties, LenProperties
<1>2. PICK a \in [0 .. n -> Nat] :
        /\ a[0] = 0
        /\ \A k \in 1 .. n : a[k] = a[k - 1] + size[text[k]]
        /\ Length(text, size) = a[n]
  BY LengthTrace
<1>3. PICK b \in [0 .. n + 1 -> Nat] :
        /\ b[0] = 0
        /\ \A k \in 1 .. n + 1 : b[k] = b[k - 1] + size[longer[k]]
        /\ Length(longer, size) = b[n + 1]
  <2> HIDE DEF longer, n
  <2>1. \E b \in [0 .. Len(longer) -> Nat] :
          /\ b[0] = 0
          /\ \A k \in 1 .. Len(longer) : b[k] = b[k - 1] + size[longer[k]]
          /\ Length(longer, size) = b[Len(longer)]
    <3>1. longer \in Seq(Symbol)
      BY <1>1
    <3> QED
      BY <3>1, LengthTrace
  <2> QED
    BY <1>1, <2>1
<1> HIDE DEF longer, n
<1> DEFINE Same == {k \in 0 .. n : a[k] = b[k]}
<1>4. 0 \in Same
  BY <1>1, <1>2, <1>3
<1>5. ASSUME NEW k \in 0 .. n, k < n, k \in Same PROVE k + 1 \in Same
  <2>1. k + 1 \in 1 .. n /\ k + 1 \in 1 .. n + 1 /\ (k + 1) - 1 = k /\ k + 1 \in 0 .. n
    BY <1>1, <1>5
  <2>2. a[k + 1] = a[k] + size[text[k + 1]] /\ b[k + 1] = b[k] + size[longer[k + 1]]
    BY <1>2, <1>3, <2>1
  <2>3. longer[k + 1] = text[k + 1] /\ a[k] = b[k]
    BY <1>1, <1>5, <2>1
  <2> QED
    BY <2>1, <2>2, <2>3
<1>6. a[n] = b[n]
  <2> HIDE DEF Same
  <2>1. 0 .. n \subseteq Same
    BY <1>1, <1>4, <1>5, InductionUpTo
  <2>2. n \in Same
    BY <1>1, <2>1
  <2> QED
    BY <2>2 DEF Same
<1>7. b[n + 1] = b[n] + size[c]
  <2>1. n + 1 \in 1 .. n + 1 /\ (n + 1) - 1 = n
    BY <1>1
  <2> QED
    BY <1>1, <1>3, <2>1
<1> QED
  BY <1>2, <1>3, <1>6, <1>7 DEF longer

\* Every symbol is at least one long.
LEMMA LengthAtLeast ==
  ASSUME NEW text \in Seq(Symbol), NEW size \in Measures
  PROVE  Length(text, size) \in Nat /\ Length(text, size) >= Len(text)
<1> DEFINE n == Len(text)
<1>1. PICK a \in [0 .. n -> Nat] :
        /\ a[0] = 0
        /\ \A k \in 1 .. n : a[k] = a[k - 1] + size[text[k]]
        /\ Length(text, size) = a[n]
  BY LengthTrace
<1>2. n \in Nat /\ \A k \in 1 .. n : size[text[k]] \in Nat \ {0}
  BY LenProperties, ElementOfSeq DEF Measures
<1> HIDE DEF n
<1> DEFINE Enough == {k \in 0 .. n : a[k] >= k}
<1>3. 0 \in Enough
  BY <1>1, <1>2
<1>4. ASSUME NEW k \in 0 .. n, k < n, k \in Enough PROVE k + 1 \in Enough
  <2>1. k + 1 \in 1 .. n /\ (k + 1) - 1 = k /\ k + 1 \in 0 .. n
    BY <1>2, <1>4
  <2>2. a[k + 1] = a[k] + size[text[k + 1]] /\ size[text[k + 1]] \in Nat \ {0}
    BY <1>1, <1>2, <2>1
  <2>3. a[k] >= k /\ a[k] \in Nat
    BY <1>4
  <2> QED
    BY <2>1, <2>2, <2>3
<1>5. n \in Enough
  <2> HIDE DEF Enough
  <2>1. 0 .. n \subseteq Enough
    BY <1>2, <1>3, <1>4, InductionUpTo
  <2> QED
    BY <1>2, <2>1
<1>6. a[n] >= n /\ a[n] \in Nat
  BY <1>2, <1>5
<1> QED
  BY <1>1, <1>6 DEF n

LEMMA LengthConcat ==
  ASSUME NEW s \in Seq(Symbol), NEW t \in Seq(Symbol), NEW size \in Measures
  PROVE  Length(s \o t, size) = Length(s, size) + Length(t, size)
<1> DEFINE n == Len(t)
           P(k) == SubSeq(t, 1, k)
           Additive == {k \in 0 .. n : Length(s \o P(k), size)
             = Length(s, size) + Length(P(k), size)}
<1>1. n \in Nat
  BY LenProperties
<1>2. 0 \in Additive
  <2>1. P(0) = <<>> /\ s \o <<>> = s
    BY SubSeqEmpty, ConcatEmptySeq
  <2>2. Length(s, size) \in Nat /\ Length(<<>>, size) = 0 /\ 0 \in 0 .. n
    BY <1>1, LengthAtLeast, LengthEmpty
  <2> HIDE DEF P, n
  <2>3. Length(s \o P(0), size) = Length(s, size) + Length(P(0), size)
    <3>1. Length(s, size) = Length(s, size) + 0
      BY <2>2
    <3> QED
      BY <2>1, <2>2, <3>1
  <2> QED
    BY <2>2, <2>3
<1>3. ASSUME NEW k \in 0 .. n, k < n, k \in Additive PROVE k + 1 \in Additive
  <2>1. k + 1 \in 1 .. n /\ (k + 1) - 1 = k /\ k + 1 \in 0 .. n
    BY <1>1, <1>3
  <2>2. P(k) \in Seq(Symbol) /\ t[k + 1] \in Symbol
    <3>1. 1 \in 1 .. n + 1 /\ k \in 1 - 1 .. n
      BY <1>1
    <3> QED
      BY <2>1, <3>1, Piece, ElementOfSeq
  <2>3. P(k + 1) = Append(P(k), t[k + 1])
    <3>1. 1 \in 1 .. n /\ k + 1 \in 1 .. n
      BY <1>1, <2>1
    <3>2. SubSeq(t, 1, k + 1) = Append(SubSeq(t, 1, (k + 1) - 1), t[k + 1])
      BY <3>1, AppendToPiece
    <3> QED
      BY <2>1, <3>2
  <2>4. Length(s \o P(k), size) = Length(s, size) + Length(P(k), size)
    BY <1>3
  <2> HIDE DEF P, n
  <2>5. s \o P(k + 1) = Append(s \o P(k), t[k + 1]) /\ s \o P(k) \in Seq(Symbol)
    <3>1. s \o Append(P(k), t[k + 1]) = Append(s \o P(k), t[k + 1])
      BY <2>2, ConcatAppend
    <3>2. s \o P(k) \in Seq(Symbol)
      BY <2>2, ConcatProperties
    <3> QED
      BY <2>3, <3>1, <3>2
  <2>6. /\ Length(s \o P(k + 1), size) = Length(s \o P(k), size) + size[t[k + 1]]
        /\ Length(P(k + 1), size) = Length(P(k), size) + size[t[k + 1]]
    BY <2>2, <2>3, <2>5, LengthAppend
  <2>7. /\ Length(s, size) \in Nat /\ Length(P(k), size) \in Nat /\ size[t[k + 1]] \in Nat
    BY <2>2, LengthAtLeast DEF Measures
  <2>8. Length(s \o P(k + 1), size) = Length(s, size) + Length(P(k + 1), size)
    BY <2>4, <2>6, <2>7
  <2> QED
    BY <2>1, <2>8
<1>4. n \in Additive
  <2> HIDE DEF Additive
  <2>1. 0 .. n \subseteq Additive
    BY <1>1, <1>2, <1>3, InductionUpTo
  <2> QED
    BY <1>1, <2>1
<1>5. P(n) = t
  BY SubSeqFull
<1> QED
  BY <1>4, <1>5

\* The length up to b is that up to a and that of the piece between.
LEMMA LengthPieces ==
  ASSUME NEW text \in Seq(Symbol), NEW size \in Measures,
         NEW a \in 0 .. Len(text), NEW b \in a .. Len(text), NEW m \in 1 .. a + 1
  PROVE  /\ Length(SubSeq(text, m, a), size) \in Nat
         /\ Length(SubSeq(text, m, b), size) \in Nat
         /\ Length(SubSeq(text, a + 1, b), size) \in Nat
         /\ Length(SubSeq(text, m, b), size)
              = Length(SubSeq(text, m, a), size) + Length(SubSeq(text, a + 1, b), size)
         /\ Length(SubSeq(text, a + 1, b), size) >= b - a
<1>1. Len(text) \in Nat
  BY LenProperties
<1>2. /\ m \in 1 .. Len(text) + 1 /\ a \in m - 1 .. Len(text) /\ b \in m - 1 .. Len(text)
      /\ a + 1 \in 1 .. Len(text) + 1 /\ b \in (a + 1) - 1 .. Len(text) /\ b \in a .. Len(text)
  BY <1>1
<1>3. /\ SubSeq(text, m, a) \in Seq(Symbol) /\ SubSeq(text, m, b) \in Seq(Symbol)
      /\ SubSeq(text, a + 1, b) \in Seq(Symbol)
      /\ Len(SubSeq(text, a + 1, b)) = b - (a + 1) + 1
  BY <1>2, Piece
<1>4. SubSeq(text, m, a) \o SubSeq(text, a + 1, b) = SubSeq(text, m, b)
  BY <1>2, ConcatAdjacentSubSeq
<1>5. Length(SubSeq(text, a + 1, b), size) >= Len(SubSeq(text, a + 1, b))
  BY <1>3, LengthAtLeast
<1>6. b - (a + 1) + 1 = b - a
  BY <1>1
<1>7. /\ Length(SubSeq(text, m, a), size) \in Nat
      /\ Length(SubSeq(text, m, b), size) \in Nat
      /\ Length(SubSeq(text, a + 1, b), size) \in Nat
  BY <1>3, LengthAtLeast
<1>8. Length(SubSeq(text, m, b), size)
        = Length(SubSeq(text, m, a), size) + Length(SubSeq(text, a + 1, b), size)
  <2> DEFINE x == SubSeq(text, m, a)
             y == SubSeq(text, a + 1, b)
  <2>1. x \in Seq(Symbol) /\ y \in Seq(Symbol)
    BY <1>3
  <2>2. x \o y = SubSeq(text, m, b)
    BY <1>4
  <2> HIDE DEF x, y
  <2>3. Length(x \o y, size) = Length(x, size) + Length(y, size)
    BY <2>1, LengthConcat
  <2> QED
    BY <2>2, <2>3 DEF x, y
<1>9. Len(SubSeq(text, a + 1, b)) = b - a
  BY <1>3, <1>6
<1>10. Length(SubSeq(text, a + 1, b), size) >= b - a
  BY <1>5, <1>9
<1> QED
  BY <1>7, <1>8, <1>10

-----------------------------------------------------------------------------
(* safe_head and safe_tail *)

MeasuresAssumed == Bytes \in Measures /\ Units \in Measures

LEMMA SizesMeasure == MeasuresAssumed
BY ReceiptRecoveryAssumption DEF MeasuresAssumed, Measures

\* The walk is at the end of the longest beginning that fits, among those up to k.
Fits(value, max, n) == Length(SubSeq(value, 1, n), Units) <= max

WalkIsAt(w, value, max, k) ==
  /\ w.end \in 0 .. k
  /\ w.units = Length(SubSeq(value, 1, w.end), Units)
  /\ Fits(value, max, w.end)
  /\ IF w.full THEN w.end < k /\ ~Fits(value, max, w.end + 1) ELSE w.end = k

\* A longer beginning fits only where the shorter ones do.
LEMMA FitsDownward ==
  ASSUME NEW value \in Seq(Symbol), NEW max \in Nat,
         NEW a \in 0 .. Len(value), NEW b \in a .. Len(value), Fits(value, max, b)
  PROVE  Fits(value, max, a)
<1>1. Len(value) \in Nat /\ 1 \in 1 .. a + 1
  BY LenProperties
<1>2. Units \in Measures
  BY SizesMeasure DEF MeasuresAssumed
<1>3. /\ Length(SubSeq(value, 1, a), Units) \in Nat
      /\ Length(SubSeq(value, a + 1, b), Units) \in Nat
      /\ Length(SubSeq(value, 1, b), Units)
           = Length(SubSeq(value, 1, a), Units) + Length(SubSeq(value, a + 1, b), Units)
  BY <1>1, <1>2, LengthPieces
<1>4. Length(SubSeq(value, 1, b), Units) <= max
  BY DEF Fits
<1>5. Length(SubSeq(value, 1, a), Units) <= max
  BY <1>3, <1>4
<1> QED
  BY <1>5 DEF Fits

LEMMA WalkOnIsAt ==
  ASSUME NEW value \in Seq(Symbol), NEW max \in Nat, NEW w \in Walks,
         NEW k \in 0 .. Len(value), k < Len(value), WalkIsAt(w, value, max, k)
  PROVE  WalkIsAt(WalkOn(w, value[k + 1], max), value, max, k + 1)
<1> DEFINE next == WalkOn(w, value[k + 1], max)
<1>1. Len(value) \in Nat /\ k \in Nat /\ k + 1 \in 1 .. Len(value)
  BY LenProperties
<1>2. /\ w.units \in Nat /\ w.end \in 0 .. k /\ w.full \in BOOLEAN
      /\ w.units = Length(SubSeq(value, 1, w.end), Units)
      /\ Fits(value, max, w.end)
      /\ IF w.full THEN w.end < k /\ ~Fits(value, max, w.end + 1) ELSE w.end = k
  BY DEF WalkIsAt, Walks
<1>3. CASE w.full
  <2>1. next.end = w.end /\ next.units = w.units /\ next.full = TRUE
    BY <1>3 DEF WalkOn, Walks
  <2> HIDE DEF next
  <2> QED
    BY <1>1, <1>2, <1>3, <2>1 DEF next, WalkIsAt
<1>4. CASE ~w.full
  <2>1. w.end = k
    BY <1>2, <1>4
  <2>2. Length(SubSeq(value, 1, k + 1), Units) = w.units + Units[value[k + 1]]
    <3>1. SubSeq(value, 1, k + 1) = Append(SubSeq(value, 1, k), value[k + 1])
      <4>1. 1 \in 1 .. Len(value) /\ k + 1 \in 1 .. Len(value) /\ (k + 1) - 1 = k
        BY <1>1
      <4>2. SubSeq(value, 1, k + 1) = Append(SubSeq(value, 1, (k + 1) - 1), value[k + 1])
        BY <4>1, AppendToPiece
      <4> QED
        BY <4>1, <4>2
    <3>2. SubSeq(value, 1, k) \in Seq(Symbol) /\ value[k + 1] \in Symbol
      <4>1. 1 \in 1 .. Len(value) + 1 /\ k \in 1 - 1 .. Len(value)
        BY <1>1
      <4> QED
        BY <1>1, <4>1, Piece, ElementOfSeq
    <3>3. Units \in Measures
      BY SizesMeasure DEF MeasuresAssumed
    <3>4. Length(Append(SubSeq(value, 1, k), value[k + 1]), Units)
            = Length(SubSeq(value, 1, k), Units) + Units[value[k + 1]]
      BY <3>2, <3>3, LengthAppend
    <3> QED
      BY <1>2, <2>1, <3>1, <3>4
  <2>3. CASE w.units + Units[value[k + 1]] <= max
    <3>1. next = [units |-> w.units + Units[value[k + 1]], end |-> w.end + 1, full |-> FALSE]
      BY <1>4, <2>3 DEF WalkOn
    <3>2. next.end = k + 1 /\ next.full = FALSE
          /\ next.units = Length(SubSeq(value, 1, k + 1), Units)
      BY <2>1, <2>2, <3>1
    <3>3. Fits(value, max, k + 1)
      BY <2>2, <2>3 DEF Fits
    <3> HIDE DEF next
    <3>4. WalkIsAt(next, value, max, k + 1)
      BY <1>1, <3>2, <3>3 DEF WalkIsAt
    <3> QED
      BY <3>4 DEF next
  <2>4. CASE ~(w.units + Units[value[k + 1]] <= max)
    <3>1. next = [w EXCEPT !.full = TRUE]
      BY <1>4, <2>4 DEF WalkOn
    <3>2. next.end = k /\ next.full = TRUE /\ next.units = w.units
      BY <2>1, <3>1 DEF Walks
    <3>3. ~Fits(value, max, k + 1)
      BY <2>2, <2>4 DEF Fits
    <3> HIDE DEF next
    <3>4. WalkIsAt(next, value, max, k + 1)
      BY <1>1, <1>2, <2>1, <3>2, <3>3 DEF WalkIsAt
    <3> QED
      BY <3>4 DEF next
  <2> QED
    BY <2>3, <2>4
<1> QED
  BY <1>2, <1>3, <1>4

\* safe_head returns the longest beginning that fits.
LEMMA SafeHeadProperties ==
  ASSUME NEW value \in Seq(Symbol), NEW max \in Nat
  PROVE  \E e \in 0 .. Len(value) :
           /\ SafeHead(value, max) = SubSeq(value, 1, e)
           /\ \A n \in 0 .. Len(value) : n <= e <=> Fits(value, max, n)
<1> DEFINE n == Len(value)
<1>1. PICK walk \in [0 .. n -> Walks] :
        /\ walk[0] = [units |-> 0, end |-> 0, full |-> FALSE]
        /\ \A k \in 1 .. n : walk[k] = WalkOn(walk[k - 1], value[k], max)
        /\ SafeHead(value, max) = SubSeq(value, 1, walk[n].end)
  BY WalkTrace
<1>2. n \in Nat /\ Units \in Measures
  BY LenProperties, SizesMeasure DEF MeasuresAssumed
<1> DEFINE Right == {k \in 0 .. n : WalkIsAt(walk[k], value, max, k)}
<1>3. 0 \in Right
  <2>1. SubSeq(value, 1, 0) = <<>> /\ Length(<<>>, Units) = 0
    BY <1>2, SubSeqEmpty, LengthEmpty
  <2>2. Fits(value, max, 0)
    BY <2>1 DEF Fits
  <2>3. walk[0].end = 0 /\ walk[0].units = 0 /\ walk[0].full = FALSE
    BY <1>1
  <2>4. WalkIsAt(walk[0], value, max, 0)
    BY <2>1, <2>2, <2>3 DEF WalkIsAt
  <2> QED
    BY <1>2, <2>4
<1>4. ASSUME NEW k \in 0 .. n, k < n, k \in Right PROVE k + 1 \in Right
  <2>1. k + 1 \in 1 .. n /\ (k + 1) - 1 = k /\ k + 1 \in 0 .. n
    BY <1>2, <1>4
  <2>2. walk[k + 1] = WalkOn(walk[k], value[k + 1], max) /\ walk[k] \in Walks
    BY <1>1, <2>1
  <2>3. WalkIsAt(walk[k], value, max, k)
    BY <1>4
  <2>4. WalkIsAt(walk[k + 1], value, max, k + 1)
    BY <1>4, <2>2, <2>3, WalkOnIsAt
  <2> QED
    BY <2>1, <2>4
<1>5. WalkIsAt(walk[n], value, max, n)
  <2> HIDE DEF Right
  <2>1. 0 .. n \subseteq Right
    BY <1>2, <1>3, <1>4, InductionUpTo
  <2>2. n \in Right
    BY <1>2, <2>1
  <2> QED
    BY <2>2 DEF Right
<1> DEFINE e == walk[n].end
<1>6. /\ e \in 0 .. n /\ Fits(value, max, e)
      /\ e < n => ~Fits(value, max, e + 1)
  BY <1>2, <1>5 DEF WalkIsAt
<1> HIDE DEF e
<1>7. ASSUME NEW k \in 0 .. n PROVE k <= e <=> Fits(value, max, k)
  <2>1. CASE k <= e
    <3>1. e \in k .. Len(value)
      BY <1>6, <2>1
    <3> QED
      BY <1>6, <2>1, <3>1, FitsDownward
  <2>2. CASE ~(k <= e)
    <3>1. e < n /\ e + 1 \in 0 .. Len(value) /\ k \in e + 1 .. Len(value)
      BY <1>2, <1>6, <2>2
    <3> QED
      BY <1>6, <2>2, <3>1, FitsDownward
  <2> QED
    BY <2>1, <2>2
<1> QED
  BY <1>1, <1>6, <1>7 DEF e

\* The first n of a sequence read backwards are its last n.
LEMMA ReverseOfPiece ==
  ASSUME NEW S, NEW s \in Seq(S), NEW n \in 0 .. Len(s)
  PROVE  Reverse(SubSeq(Reverse(s), 1, n)) = SubSeq(s, Len(s) - n + 1, Len(s))
<1> DEFINE back == Reverse(s)
           left == SubSeq(back, 1, n)
           right == SubSeq(s, Len(s) - n + 1, Len(s))
<1>1. Len(s) \in Nat
  BY LenProperties
<1>2. /\ back \in Seq(S) /\ Len(back) = Len(s)
      /\ \A i \in 1 .. Len(s) : back[i] = s[Len(s) - i + 1]
  BY ReverseProperties
<1> HIDE DEF back
<1>3. left \in Seq(S) /\ Len(left) = n /\ \A i \in 1 .. n : left[i] = back[i]
  <2>1. 1 \in 1 .. Len(back) + 1 /\ n \in 1 - 1 .. Len(back)
    BY <1>1, <1>2
  <2>2. /\ left \in Seq(S) /\ Len(left) = n - 1 + 1
        /\ \A i \in 1 .. n - 1 + 1 : left[i] = back[1 + i - 1]
    BY <1>2, <2>1, Piece
  <2>3. n - 1 + 1 = n /\ \A i \in 1 .. n : 1 + i - 1 = i
    BY <1>1
  <2> HIDE DEF left
  <2> QED
    BY <2>2, <2>3
<1>4. right \in Seq(S) /\ Len(right) = n /\ \A i \in 1 .. n : right[i] = s[Len(s) - n + i]
  <2>1. Len(s) - n + 1 \in 1 .. Len(s) + 1 /\ Len(s) \in (Len(s) - n + 1) - 1 .. Len(s)
    BY <1>1
  <2>2. /\ right \in Seq(S) /\ Len(right) = Len(s) - (Len(s) - n + 1) + 1
        /\ \A i \in 1 .. Len(s) - (Len(s) - n + 1) + 1 :
             right[i] = s[(Len(s) - n + 1) + i - 1]
    BY <2>1, Piece
  <2>3. /\ Len(s) - (Len(s) - n + 1) + 1 = n
        /\ \A i \in 1 .. n : (Len(s) - n + 1) + i - 1 = Len(s) - n + i
    BY <1>1
  <2> HIDE DEF right
  <2> QED
    BY <2>2, <2>3
<1> HIDE DEF left, right
<1>5. /\ Reverse(left) \in Seq(S) /\ Len(Reverse(left)) = n
      /\ \A i \in 1 .. n : Reverse(left)[i] = left[n - i + 1]
  BY <1>3, ReverseProperties
<1>6. ASSUME NEW i \in 1 .. n PROVE Reverse(left)[i] = right[i]
  <2>1. n - i + 1 \in 1 .. n /\ n - i + 1 \in 1 .. Len(s)
        /\ Len(s) - (n - i + 1) + 1 = Len(s) - n + i
    BY <1>1
  <2>2. Reverse(left)[i] = left[n - i + 1]
    BY <1>5
  <2>3. left[n - i + 1] = back[n - i + 1]
    BY <1>3, <2>1
  <2>4. back[n - i + 1] = s[Len(s) - (n - i + 1) + 1]
    BY <1>2, <2>1
  <2>5. right[i] = s[Len(s) - n + i]
    BY <1>4
  <2> QED
    BY <2>1, <2>2, <2>3, <2>4, <2>5
<1>7. Reverse(left) = right
  BY <1>4, <1>5, <1>6, SeqEqual
<1> QED
  BY <1>7 DEF left, right, back

\* As long as the last n symbols of a text are the first n of it backwards.
LEMMA LengthOfReverse ==
  ASSUME NEW text \in Seq(Symbol), NEW size \in Measures, NEW n \in 0 .. Len(text)
  PROVE  Length(SubSeq(Reverse(text), 1, n), size)
           = Length(SubSeq(text, Len(text) - n + 1, Len(text)), size)
<1> DEFINE len == Len(text)
           back == Reverse(text)
           Same == {k \in 0 .. len : Length(SubSeq(back, 1, k), size)
                                       = Length(SubSeq(text, len - k + 1, len), size)}
<1>1. len \in Nat
  BY LenProperties
<1>2. /\ back \in Seq(Symbol) /\ Len(back) = len
      /\ \A i \in 1 .. len : back[i] = text[len - i + 1]
  BY ReverseProperties
<1>3. 0 \in Same
  <2>1. SubSeq(back, 1, 0) = <<>> /\ SubSeq(text, len - 0 + 1, len) = <<>>
    BY <1>1, SubSeqEmpty
  <2>2. 0 \in 0 .. len
    BY <1>1
  <2> HIDE DEF back, len
  <2> QED
    BY <2>1, <2>2
<1>4. ASSUME NEW k \in 0 .. len, k < len, k \in Same PROVE k + 1 \in Same
  <2> DEFINE j == len - k
  <2>1. /\ j \in 1 .. len /\ k + 1 \in 1 .. len /\ k + 1 \in 0 .. len
        /\ len - (k + 1) + 1 = j /\ len - k + 1 = j + 1 /\ (k + 1) - 1 = k
    BY <1>1, <1>4
  <2>2. Length(SubSeq(back, 1, k + 1), size) = Length(SubSeq(back, 1, k), size) + size[text[j]]
    <3>1. SubSeq(back, 1, k + 1) = Append(SubSeq(back, 1, k), back[k + 1])
      <4>1. 1 \in 1 .. Len(back) /\ k + 1 \in 1 .. Len(back)
        BY <1>1, <1>2, <2>1
      <4> HIDE DEF back
      <4>2. SubSeq(back, 1, k + 1) = Append(SubSeq(back, 1, (k + 1) - 1), back[k + 1])
        BY <1>2, <4>1, AppendToPiece
      <4> QED
        BY <2>1, <4>2
    <3>2. back[k + 1] = text[j]
      BY <1>2, <2>1
    <3>3. SubSeq(back, 1, k) \in Seq(Symbol) /\ text[j] \in Symbol
      <4>1. 1 \in 1 .. Len(back) + 1 /\ k \in 1 - 1 .. Len(back)
        BY <1>1, <1>2, <2>1
      <4> HIDE DEF back
      <4> QED
        BY <1>2, <2>1, <4>1, Piece, ElementOfSeq
    <3> HIDE DEF back, j
    <3> QED
      BY <3>1, <3>2, <3>3, LengthAppend
  <2> HIDE DEF back, j
  <2>3. Length(SubSeq(text, j, len), size)
          = size[text[j]] + Length(SubSeq(text, j + 1, len), size)
    <3>1. j \in 0 .. Len(text) /\ len \in j .. Len(text) /\ j \in 1 .. j + 1
      BY <1>1, <2>1
    <3>2. Length(SubSeq(text, j, len), size)
            = Length(SubSeq(text, j, j), size) + Length(SubSeq(text, j + 1, len), size)
      <4> HIDE DEF len
      <4> QED
        BY <3>1, LengthPieces
    <3>3. SubSeq(text, j, j) = Append(SubSeq(text, j, j - 1), text[j])
      BY <1>1, <2>1, AppendToPiece
    <3>4. SubSeq(text, j, j - 1) = <<>>
      BY <1>1, <2>1, SubSeqEmpty
    <3>5. <<>> \in Seq(Symbol) /\ text[j] \in Symbol /\ size[text[j]] \in Nat
      BY <2>1, EmptySeq, ElementOfSeq DEF Measures
    <3>6. Length(SubSeq(text, j, j), size) = 0 + size[text[j]]
      <4> DEFINE c == text[j]
      <4>1. c \in Symbol /\ SubSeq(text, j, j) = Append(<<>>, c)
        BY <3>3, <3>4, <3>5
      <4> HIDE DEF c
      <4>2. Length(Append(<<>>, c), size) = Length(<<>>, size) + size[c]
        BY <3>5, <4>1, LengthAppend
      <4>3. Length(<<>>, size) = 0
        BY LengthEmpty
      <4>4. Length(SubSeq(text, j, j), size) = 0 + size[c]
        BY <4>1, <4>2, <4>3
      <4> QED
        BY <4>4 DEF c
    <3> QED
      BY <3>2, <3>5, <3>6
  <2>4. Length(SubSeq(back, 1, k), size) = Length(SubSeq(text, j + 1, len), size)
    BY <1>4, <2>1
  <2>5. size[text[j]] \in Nat /\ Length(SubSeq(back, 1, k), size) \in Nat
    <3>1. 1 \in 1 .. Len(back) + 1 /\ k \in 1 - 1 .. Len(back)
      BY <1>1, <1>2, <2>1
    <3>2. SubSeq(back, 1, k) \in Seq(Symbol) /\ text[j] \in Symbol
      BY <1>2, <2>1, <3>1, Piece, ElementOfSeq
    <3> QED
      BY <3>2, LengthAtLeast DEF Measures
  <2>6. Length(SubSeq(back, 1, k + 1), size) = Length(SubSeq(text, j, len), size)
    BY <2>2, <2>3, <2>4, <2>5
  <2> QED
    BY <2>1, <2>6
<1>5. n \in Same
  <2> HIDE DEF Same
  <2>1. 0 .. len \subseteq Same
    BY <1>1, <1>3, <1>4, InductionUpTo
  <2> QED
    BY <2>1
<1> QED
  BY <1>5

\* safe_tail returns the longest end that fits.
LEMMA SafeTailProperties ==
  ASSUME NEW value \in Seq(Symbol), NEW max \in Nat
  PROVE  \E e \in 0 .. Len(value) :
           /\ SafeTail(value, max) = SubSeq(value, Len(value) - e + 1, Len(value))
           /\ \A n \in 0 .. Len(value) :
                n <= e <=> Length(SubSeq(value, Len(value) - n + 1, Len(value)), Units) <= max
<1> DEFINE back == Reverse(value)
<1>1. back \in Seq(Symbol) /\ Len(back) = Len(value) /\ Len(value) \in Nat /\ Units \in Measures
  BY ReverseProperties, LenProperties, SizesMeasure DEF MeasuresAssumed
<1>2. PICK e \in 0 .. Len(back) :
        /\ SafeHead(back, max) = SubSeq(back, 1, e)
        /\ \A n \in 0 .. Len(back) : n <= e <=> Fits(back, max, n)
  <2> HIDE DEF back
  <2> QED
    BY <1>1, SafeHeadProperties
<1>3. e \in 0 .. Len(value)
  BY <1>1, <1>2
<1>4. SafeTail(value, max) = SubSeq(value, Len(value) - e + 1, Len(value))
  BY <1>2, <1>3, ReverseOfPiece DEF SafeTail
<1>5. ASSUME NEW n \in 0 .. Len(value)
      PROVE  n <= e <=> Length(SubSeq(value, Len(value) - n + 1, Len(value)), Units) <= max
  <2>1. n <= e <=> Length(SubSeq(back, 1, n), Units) <= max
    BY <1>1, <1>2 DEF Fits
  <2>2. Length(SubSeq(back, 1, n), Units)
          = Length(SubSeq(value, Len(value) - n + 1, Len(value)), Units)
    BY <1>1, LengthOfReverse
  <2> QED
    BY <2>1, <2>2
<1> QED
  BY <1>3, <1>4, <1>5

-----------------------------------------------------------------------------
(* A receipt read again *)

\* One text behind another, symbol by symbol.
Join(z, x, y, n, m) ==
  /\ z \in Seq(Symbol) /\ Len(z) = n + m
  /\ \A i \in 1 .. n + m : z[i] = IF i <= n THEN x[i] ELSE y[i - n]
  /\ Length(z, Bytes) = Length(x, Bytes) + Length(y, Bytes)

LEMMA Joined ==
  ASSUME NEW x \in Seq(Symbol), NEW y \in Seq(Symbol)
  PROVE  Join(x \o y, x, y, Len(x), Len(y))
<1>1. Bytes \in Measures
  BY SizesMeasure DEF MeasuresAssumed
<1>2. Length(x \o y, Bytes) = Length(x, Bytes) + Length(y, Bytes)
  BY <1>1, LengthConcat
<1>3. /\ x \o y \in Seq(Symbol) /\ Len(x \o y) = Len(x) + Len(y)
      /\ \A i \in 1 .. Len(x) + Len(y) :
           (x \o y)[i] = IF i <= Len(x) THEN x[i] ELSE y[i - Len(x)]
  BY ConcatProperties
<1> QED
  BY <1>2, <1>3 DEF Join

LEMMA BodyProperties ==
  ASSUME NEW head \in Seq(Symbol), NEW tail \in Seq(Symbol)
  PROVE  LET text == <<Begin>> \o head \o <<Omitted>> \o tail \o <<End>>
             h == Len(head)
             t == Len(tail)
         IN  /\ text \in Seq(Symbol) /\ Len(text) = h + t + 3
             /\ text[1] = Begin /\ text[h + 2] = Omitted /\ text[h + t + 3] = End
             /\ \A i \in 1 .. h : text[1 + i] = head[i]
             /\ \A i \in 1 .. t : text[h + 2 + i] = tail[i]
             /\ Length(text, Bytes) > Length(head, Bytes) + Length(tail, Bytes)
<1> DEFINE h == Len(head)
           t == Len(tail)
           B == <<Begin>>
           O == <<Omitted>>
           E == <<End>>
           x1 == B \o head
           x2 == x1 \o O
           x3 == x2 \o tail
           x4 == x3 \o E
<1>1. /\ h \in Nat /\ t \in Nat
      /\ \A c \in {Begin, Omitted, End} : c \in Symbol
      /\ Bytes \in Measures
  BY LenProperties, ReceiptRecoveryAssumption, SizesMeasure DEF MeasuresAssumed
<1>2. ASSUME NEW c \in Symbol
      PROVE  /\ <<c>> \in Seq(Symbol) /\ Len(<<c>>) = 1 /\ <<c>>[1] = c
             /\ Length(<<c>>, Bytes) \in Nat /\ Length(<<c>>, Bytes) >= 1
  <2>1. <<c>> \in Seq(Symbol) /\ Len(<<c>>) = 1 /\ <<c>>[1] = c
    OBVIOUS
  <2>2. Length(<<c>>, Bytes) \in Nat /\ Length(<<c>>, Bytes) >= Len(<<c>>)
    BY <1>1, <2>1, LengthAtLeast
  <2> QED
    BY <2>1, <2>2
<1>3. /\ B \in Seq(Symbol) /\ Len(B) = 1 /\ B[1] = Begin
      /\ O \in Seq(Symbol) /\ Len(O) = 1 /\ O[1] = Omitted
      /\ E \in Seq(Symbol) /\ Len(E) = 1 /\ E[1] = End
      /\ Length(B, Bytes) \in Nat /\ Length(B, Bytes) >= 1
      /\ Length(O, Bytes) \in Nat /\ Length(E, Bytes) \in Nat
  BY <1>1, <1>2
<1> HIDE DEF B, O, E, h, t
<1>4. /\ x1 \in Seq(Symbol) /\ Len(x1) = 1 + h
      /\ \A i \in 1 .. 1 + h : x1[i] = IF i <= 1 THEN B[i] ELSE head[i - 1]
      /\ Length(x1, Bytes) = Length(B, Bytes) + Length(head, Bytes)
  <2>1. Join(x1, B, head, Len(B), Len(head))
    BY <1>3, Joined DEF x1
  <2>2. Len(B) = 1 /\ Len(head) = h
    BY <1>3 DEF h
  <2> QED
    BY <2>1, <2>2 DEF Join
<1> HIDE DEF x1
<1>5. /\ x2 \in Seq(Symbol) /\ Len(x2) = 1 + h + 1
      /\ \A i \in 1 .. 1 + h + 1 : x2[i] = IF i <= 1 + h THEN x1[i] ELSE O[i - (1 + h)]
      /\ Length(x2, Bytes) = Length(x1, Bytes) + Length(O, Bytes)
  <2>1. Join(x2, x1, O, Len(x1), Len(O))
    BY <1>3, <1>4, Joined DEF x2
  <2>2. Len(x1) = 1 + h /\ Len(O) = 1
    BY <1>3, <1>4
  <2> QED
    BY <2>1, <2>2 DEF Join
<1> HIDE DEF x2
<1>6. /\ x3 \in Seq(Symbol) /\ Len(x3) = 1 + h + 1 + t
      /\ \A i \in 1 .. 1 + h + 1 + t : x3[i] = IF i <= 1 + h + 1 THEN x2[i]
                                               ELSE tail[i - (1 + h + 1)]
      /\ Length(x3, Bytes) = Length(x2, Bytes) + Length(tail, Bytes)
  <2>1. Join(x3, x2, tail, Len(x2), Len(tail))
    BY <1>5, Joined DEF x3
  <2>2. Len(x2) = 1 + h + 1 /\ Len(tail) = t
    BY <1>5 DEF t
  <2> QED
    BY <2>1, <2>2 DEF Join
<1> HIDE DEF x3
<1>7. /\ x4 \in Seq(Symbol) /\ Len(x4) = 1 + h + 1 + t + 1
      /\ \A i \in 1 .. 1 + h + 1 + t + 1 : x4[i] = IF i <= 1 + h + 1 + t THEN x3[i]
                                                   ELSE E[i - (1 + h + 1 + t)]
      /\ Length(x4, Bytes) = Length(x3, Bytes) + Length(E, Bytes)
  <2>1. Join(x4, x3, E, Len(x3), Len(E))
    BY <1>3, <1>6, Joined DEF x4
  <2>2. Len(x3) = 1 + h + 1 + t /\ Len(E) = 1
    BY <1>3, <1>6
  <2> QED
    BY <2>1, <2>2 DEF Join
<1> HIDE DEF x4
<1>8. Length(head, Bytes) \in Nat /\ Length(tail, Bytes) \in Nat
  BY <1>1, LengthAtLeast
<1>9. Length(x4, Bytes) > Length(head, Bytes) + Length(tail, Bytes)
  <2> DEFINE hb == Length(head, Bytes)
             tb == Length(tail, Bytes)
             bb == Length(B, Bytes)
             ob == Length(O, Bytes)
             eb == Length(E, Bytes)
  <2>1. /\ hb \in Nat /\ tb \in Nat /\ bb \in Nat /\ ob \in Nat /\ eb \in Nat
        /\ bb >= 1
    BY <1>3, <1>8
  <2>2. Length(x4, Bytes) = bb + hb + ob + tb + eb
    BY <1>4, <1>5, <1>6, <1>7
  <2> HIDE DEF hb, tb, bb, ob, eb
  <2>3. bb + hb + ob + tb + eb > hb + tb
    BY <2>1
  <2> QED
    BY <2>2, <2>3 DEF hb, tb
<1>10. x4[1] = Begin
  <2>1. /\ 1 \in 1 .. 1 + h + 1 + t + 1 /\ 1 <= 1 + h + 1 + t
        /\ 1 \in 1 .. 1 + h + 1 + t /\ 1 <= 1 + h + 1
        /\ 1 \in 1 .. 1 + h + 1 /\ 1 <= 1 + h
        /\ 1 \in 1 .. 1 + h
    BY <1>1
  <2> QED
    BY <1>3, <1>4, <1>5, <1>6, <1>7, <2>1
<1>11. x4[h + 2] = Omitted
  <2>1. /\ h + 2 \in 1 .. 1 + h + 1 + t + 1 /\ h + 2 <= 1 + h + 1 + t
        /\ h + 2 \in 1 .. 1 + h + 1 + t /\ h + 2 <= 1 + h + 1
        /\ h + 2 \in 1 .. 1 + h + 1 /\ ~(h + 2 <= 1 + h) /\ (h + 2) - (1 + h) = 1
    BY <1>1
  <2> QED
    BY <1>3, <1>5, <1>6, <1>7, <2>1
<1>12. x4[h + t + 3] = End
  <2>1. /\ h + t + 3 \in 1 .. 1 + h + 1 + t + 1 /\ ~(h + t + 3 <= 1 + h + 1 + t)
        /\ (h + t + 3) - (1 + h + 1 + t) = 1
    BY <1>1
  <2> QED
    BY <1>3, <1>7, <2>1
<1>13. ASSUME NEW i \in 1 .. h PROVE x4[1 + i] = head[i]
  <2>1. /\ 1 + i \in 1 .. 1 + h + 1 + t + 1 /\ 1 + i <= 1 + h + 1 + t
        /\ 1 + i \in 1 .. 1 + h + 1 + t /\ 1 + i <= 1 + h + 1
        /\ 1 + i \in 1 .. 1 + h + 1 /\ 1 + i <= 1 + h
        /\ 1 + i \in 1 .. 1 + h /\ ~(1 + i <= 1) /\ (1 + i) - 1 = i
    BY <1>1
  <2> QED
    BY <1>4, <1>5, <1>6, <1>7, <2>1
<1>14. ASSUME NEW i \in 1 .. t PROVE x4[h + 2 + i] = tail[i]
  <2>1. /\ h + 2 + i \in 1 .. 1 + h + 1 + t + 1 /\ h + 2 + i <= 1 + h + 1 + t
        /\ h + 2 + i \in 1 .. 1 + h + 1 + t /\ ~(h + 2 + i <= 1 + h + 1)
        /\ (h + 2 + i) - (1 + h + 1) = i
    BY <1>1
  <2> QED
    BY <1>6, <1>7, <2>1
<1>15. Len(x4) = h + t + 3
  BY <1>1, <1>7
<1> QED
  BY <1>7, <1>9, <1>10, <1>11, <1>12, <1>13, <1>14, <1>15 DEF x1, x2, x3, x4, h, t, B, O, E

\* The section of a receipt that has as many bytes as its metadata says and is
\* followed by its marker is the one that was written: no other has that many.
IsTheSection(text, start, n) ==
  Section(text, start, Length(SubSeq(text, start, start + n - 1), Bytes), text[start + n]) = {n}

LEMMA SectionIsUnique ==
  ASSUME NEW text \in Seq(Symbol), NEW start \in 1 .. Len(text), NEW n \in Nat,
         start + n <= Len(text)
  PROVE  IsTheSection(text, start, n)
<1> DEFINE bytes == Length(SubSeq(text, start, start + n - 1), Bytes)
           marker == text[start + n]
<1>1. Len(text) \in Nat /\ Bytes \in Measures
  BY LenProperties, SizesMeasure DEF MeasuresAssumed
<1>2. n \in Section(text, start, bytes, marker)
  <2>1. n \in 0 .. Len(text) - start + 1
    BY <1>1
  <2> QED
    BY <2>1 DEF Section, SymbolsIn
<1>3. ASSUME NEW m \in Section(text, start, bytes, marker) PROVE m = n
  <2>1. /\ m \in 0 .. Len(text) - start + 1
        /\ Length(SubSeq(text, start, start + m - 1), Bytes)
             = Length(SubSeq(text, start, start + n - 1), Bytes)
    BY <1>3 DEF Section, SymbolsIn
  <2>2. ASSUME NEW i \in 0 .. Len(text) - start + 1, NEW j \in 0 .. Len(text) - start + 1, i < j
        PROVE  Length(SubSeq(text, start, start + i - 1), Bytes)
                 # Length(SubSeq(text, start, start + j - 1), Bytes)
    <3> DEFINE a == start + i - 1
               b == start + j - 1
    <3>1. a \in 0 .. Len(text) /\ b \in a .. Len(text) /\ start \in 1 .. a + 1 /\ b - a >= 1
          /\ b - a \in Nat
      BY <1>1, <2>2
    <3> HIDE DEF a, b
    <3>2. /\ Length(SubSeq(text, start, a), Bytes) \in Nat
          /\ Length(SubSeq(text, a + 1, b), Bytes) \in Nat
          /\ Length(SubSeq(text, start, b), Bytes)
               = Length(SubSeq(text, start, a), Bytes) + Length(SubSeq(text, a + 1, b), Bytes)
          /\ Length(SubSeq(text, a + 1, b), Bytes) >= b - a
      BY <1>1, <3>1, LengthPieces
    <3>3. Length(SubSeq(text, start, a), Bytes) # Length(SubSeq(text, start, b), Bytes)
      BY <3>1, <3>2
    <3> QED
      BY <3>3 DEF a, b
  <2>3. n \in 0 .. Len(text) - start + 1
    BY <1>1
  <2>4. ~(m < n) /\ ~(n < m)
    BY <2>1, <2>2, <2>3
  <2> QED
    BY <2>1, <2>3, <2>4
<1> QED
  BY <1>2, <1>3 DEF IsTheSection

-----------------------------------------------------------------------------
(* The receipts the engine writes *)

\* A receipt shorter than the text.
Shorter(value, max) == ReceiptBytes(BuildReceipt(value, max)) < Length(value, Bytes)

LEMMA PreviewsAreTexts ==
  ASSUME NEW value \in Seq(Symbol), NEW max \in Nat
  PROVE  SafeHead(value, max) \in Seq(Symbol) /\ SafeTail(value, max) \in Seq(Symbol)
<1>1. Len(value) \in Nat
  BY LenProperties
<1>2. PICK e \in 0 .. Len(value) : SafeHead(value, max) = SubSeq(value, 1, e)
  BY SafeHeadProperties
<1>3. PICK f \in 0 .. Len(value) :
        SafeTail(value, max) = SubSeq(value, Len(value) - f + 1, Len(value))
  BY SafeTailProperties
<1>4. SubSeq(value, 1, e) \in Seq(Symbol)
  BY <1>1, Piece
<1>5. SubSeq(value, Len(value) - f + 1, Len(value)) \in Seq(Symbol)
  <2>1. Len(value) - f + 1 \in 1 .. Len(value) + 1
        /\ Len(value) \in (Len(value) - f + 1) - 1 .. Len(value)
    BY <1>1
  <2> QED
    BY <2>1, Piece
<1> QED
  BY <1>2, <1>3, <1>4, <1>5

\* What a receipt is longer than: the previews it repeats.
LEMMA ReceiptIsLonger ==
  ASSUME NEW value \in Seq(Symbol), NEW max \in Nat
  PROVE  ReceiptBytes(BuildReceipt(value, max))
           > Length(SafeHead(value, max), Bytes) + Length(SafeTail(value, max), Bytes)
<1> DEFINE head == SafeHead(value, max)
           tail == SafeTail(value, max)
           text == <<Begin>> \o head \o <<Omitted>> \o tail \o <<End>>
<1>1. head \in Seq(Symbol) /\ tail \in Seq(Symbol) /\ Bytes \in Measures
  BY PreviewsAreTexts, SizesMeasure DEF MeasuresAssumed
<1>2. ReceiptBytes(BuildReceipt(value, max)) = Wording + Length(text, Bytes)
  BY DEF ReceiptBytes, BuildReceipt
<1> HIDE DEF head, tail
<1>3. text \in Seq(Symbol) /\ Length(text, Bytes) > Length(head, Bytes) + Length(tail, Bytes)
  BY <1>1, BodyProperties
<1> HIDE DEF text
<1>4. Length(head, Bytes) \in Nat /\ Length(tail, Bytes) \in Nat /\ Length(text, Bytes) \in Nat
  BY <1>1, <1>3, LengthAtLeast
<1>5. Wording \in Nat
  BY ReceiptRecoveryAssumption
<1>6. Wording + Length(text, Bytes) > Length(head, Bytes) + Length(tail, Bytes)
  BY <1>3, <1>4, <1>5
<1> QED
  BY <1>2, <1>6 DEF head, tail

\* The previews of a receipt that is shorter than the text do not meet.
LEMMA PreviewsApart ==
  ASSUME NEW value \in Seq(Symbol), NEW max \in Nat, Shorter(value, max)
  PROVE  \E i, j \in 0 .. Len(value) :
           /\ i <= j
           /\ SafeHead(value, max) = SubSeq(value, 1, i)
           /\ SafeTail(value, max) = SubSeq(value, j + 1, Len(value))
           /\ Length(SafeHead(value, max), Bytes) \in Nat
           /\ Length(SubSeq(value, i + 1, j), Bytes) \in Nat
           /\ Length(SafeTail(value, max), Bytes) \in Nat
           /\ Length(value, Bytes)
                = Length(SafeHead(value, max), Bytes)
                    + Length(SubSeq(value, i + 1, j), Bytes)
                    + Length(SafeTail(value, max), Bytes)
<1> DEFINE len == Len(value)
           whole == Length(value, Bytes)
           head == Length(SafeHead(value, max), Bytes)
           tail == Length(SafeTail(value, max), Bytes)
<1>1. len \in Nat /\ Bytes \in Measures /\ SubSeq(value, 1, len) = value
  BY LenProperties, SubSeqFull, SizesMeasure DEF MeasuresAssumed
<1>2. PICK i \in 0 .. len : SafeHead(value, max) = SubSeq(value, 1, i)
  BY SafeHeadProperties
<1>3. PICK f \in 0 .. len :
        SafeTail(value, max) = SubSeq(value, len - f + 1, len)
  BY SafeTailProperties
<1> DEFINE j == len - f
<1>4. j \in 0 .. len /\ j + 1 = len - f + 1
  BY <1>1
<1>5. SafeTail(value, max) = SubSeq(value, j + 1, len)
  BY <1>3, <1>4
<1> HIDE DEF j
<1>6. head \in Nat /\ tail \in Nat /\ whole \in Nat /\ head + tail < whole
  <2>1. head \in Nat /\ tail \in Nat /\ whole \in Nat
    BY <1>1, PreviewsAreTexts, LengthAtLeast
  <2>2. ReceiptBytes(BuildReceipt(value, max)) > head + tail
    BY ReceiptIsLonger
  <2>3. Wording + Length(BuildReceipt(value, max).body, Bytes) < whole
    BY DEF Shorter, ReceiptBytes
  <2>4. ReceiptBytes(BuildReceipt(value, max)) \in Int
    <3>1. BuildReceipt(value, max).body
            = <<Begin>> \o SafeHead(value, max) \o <<Omitted>> \o SafeTail(value, max) \o <<End>>
      BY DEF BuildReceipt
    <3>2. BuildReceipt(value, max).body \in Seq(Symbol)
      BY <3>1, PreviewsAreTexts, BodyProperties
    <3>3. Length(BuildReceipt(value, max).body, Bytes) \in Nat
      BY <1>1, <3>2, LengthAtLeast
    <3> QED
      BY <3>3, ReceiptRecoveryAssumption DEF ReceiptBytes
  <2>5. ReceiptBytes(BuildReceipt(value, max)) < whole
    BY DEF Shorter
  <2> HIDE DEF head, tail, whole
  <2> QED
    BY <2>1, <2>2, <2>4, <2>5
<1> HIDE DEF len
<1>7. i <= j
  <2> SUFFICES ASSUME j < i PROVE FALSE
    BY <1>1, <1>2, <1>4
  <2>1. j \in 0 .. Len(value) /\ i \in j .. Len(value) /\ len \in j .. Len(value)
        /\ 1 \in 1 .. j + 1
    BY <1>1, <1>2, <1>4 DEF len
  <2> DEFINE one == 1
             toJ == Length(SubSeq(value, one, j), Bytes)
             toI == Length(SubSeq(value, one, i), Bytes)
             toEnd == Length(SubSeq(value, one, len), Bytes)
             iRest == Length(SubSeq(value, j + 1, i), Bytes)
             rest == Length(SubSeq(value, j + 1, len), Bytes)
  <2>2. one \in 1 .. j + 1
    BY <2>1
  <2>3. head = toI /\ tail = rest /\ whole = toEnd
    BY <1>1, <1>2, <1>5
  <2> HIDE DEF one, head, tail, whole
  <2>4. toJ \in Nat /\ toI \in Nat /\ iRest \in Nat /\ toI = toJ + iRest
    BY <1>1, <2>1, <2>2, LengthPieces
  <2>5. toJ \in Nat /\ toEnd \in Nat /\ rest \in Nat /\ toEnd = toJ + rest
    BY <1>1, <2>1, <2>2, LengthPieces
  <2> HIDE DEF toJ, toI, toEnd, iRest, rest
  <2> QED
    BY <1>6, <2>3, <2>4, <2>5
<1>8. /\ Length(SubSeq(value, i + 1, j), Bytes) \in Nat
      /\ whole = head + Length(SubSeq(value, i + 1, j), Bytes) + tail
  <2> DEFINE one == 1
             toI == Length(SubSeq(value, one, i), Bytes)
             toJ == Length(SubSeq(value, one, j), Bytes)
             toEnd == Length(SubSeq(value, one, len), Bytes)
             middle == Length(SubSeq(value, i + 1, j), Bytes)
             rest == Length(SubSeq(value, j + 1, len), Bytes)
  <2>1. /\ i \in 0 .. Len(value) /\ j \in i .. Len(value) /\ j \in 0 .. Len(value)
        /\ len \in j .. Len(value) /\ one \in 1 .. i + 1 /\ one \in 1 .. j + 1
    BY <1>1, <1>2, <1>4, <1>7 DEF len
  <2>2. head = toI /\ tail = rest /\ whole = toEnd
    BY <1>1, <1>2, <1>5
  <2> HIDE DEF one, head, tail, whole
  <2>3. middle \in Nat /\ toI \in Nat /\ toJ \in Nat /\ toJ = toI + middle
    BY <1>1, <2>1, LengthPieces
  <2>4. toEnd \in Nat /\ rest \in Nat /\ toEnd = toJ + rest
    BY <1>1, <2>1, LengthPieces
  <2>5. whole = head + middle + tail
    <3> HIDE DEF toI, toJ, toEnd, middle, rest
    <3> QED
      BY <2>2, <2>3, <2>4
  <2> QED
    BY <2>3, <2>5
<1> QED
  BY <1>2, <1>4, <1>5, <1>6, <1>7, <1>8 DEF len

\* Symbols that agree one by one are the same piece.
LEMMA SamePiece ==
  ASSUME NEW text \in Seq(Symbol), NEW piece \in Seq(Symbol), NEW n, n = Len(piece),
         NEW from \in 1 .. Len(text), NEW to \in Nat, to = from + n - 1, to <= Len(text),
         \A i \in 1 .. n : text[from - 1 + i] = piece[i]
  PROVE  SubSeq(text, from, to) = piece
<1>1. Len(text) \in Nat /\ n \in Nat /\ from \in Nat
  BY LenProperties
<1>2. from \in 1 .. Len(text) + 1 /\ to \in from - 1 .. Len(text)
  BY <1>1
<1>3. /\ SubSeq(text, from, to) \in Seq(Symbol) /\ Len(SubSeq(text, from, to)) = to - from + 1
      /\ \A i \in 1 .. to - from + 1 : SubSeq(text, from, to)[i] = text[from + i - 1]
  BY <1>2, Piece
<1>4. to - from + 1 = n /\ \A i \in 1 .. n : from + i - 1 = from - 1 + i
  BY <1>1
<1>5. Len(SubSeq(text, from, to)) = n /\ \A i \in 1 .. n : SubSeq(text, from, to)[i] = piece[i]
  BY <1>3, <1>4
<1> QED
  BY <1>3, <1>5, SeqEqual

LEMMA FirstMarker ==
  ASSUME NEW text \in Seq(Symbol), Len(text) > 0, text[1] = Begin
  PROVE  SectionStart(text) = 2
<1> DEFINE At == {i \in 1 .. Len(text) : text[i] = Begin}
<1>1. 1 \in At /\ \A i \in At : i \in Int /\ 1 <= i
  BY LenProperties
<1>2. Min(At) = 1
  <2> HIDE DEF At
  <2>1. Min(At) \in At /\ \A i \in At : Min(At) <= i
    BY <1>1 DEF Min
  <2> QED
    BY <1>1, <2>1
<1>3. SectionStart(text) = Min(At) + 1
  BY <1>1 DEF SectionStart, SelectInSeq
<1> QED
  BY <1>2, <1>3

\* A receipt read again is the receipt that was written, whatever markers the
\* previews repeat.
LEMMA ReadAgain ==
  ASSUME NEW value \in Seq(Symbol), NEW max \in Nat, Shorter(value, max)
  PROVE  /\ ParseReceipt(BuildReceipt(value, max))
              = [bytes |-> Length(value, Bytes), digest |-> value,
                 head |-> SafeHead(value, max), tail |-> SafeTail(value, max)]
         /\ ParseReceipt(BuildReceipt(value, max)) # Unread
<1> DEFINE head == SafeHead(value, max)
           tail == SafeTail(value, max)
           h == Len(head)
           t == Len(tail)
           text == <<Begin>> \o head \o <<Omitted>> \o tail \o <<End>>
           bytes == Length(value, Bytes)
           headBytes == Length(head, Bytes)
           tailBytes == Length(tail, Bytes)
           r == BuildReceipt(value, max)
<1>1. /\ r.originalBytes = bytes /\ r.digest = value
      /\ r.headBytes = headBytes /\ r.tailBytes = tailBytes /\ r.body = text
  BY DEF BuildReceipt
<1>2. /\ head \in Seq(Symbol) /\ tail \in Seq(Symbol) /\ h \in Nat /\ t \in Nat
      /\ Bytes \in Measures
  BY PreviewsAreTexts, LenProperties, SizesMeasure DEF MeasuresAssumed
<1>3. ~(headBytes + tailBytes > bytes) /\ bytes \in Nat
  <2>1. PICK middle \in Nat : /\ headBytes \in Nat /\ tailBytes \in Nat
                              /\ bytes = headBytes + middle + tailBytes
    BY PreviewsApart
  <2> HIDE DEF headBytes, tailBytes, bytes
  <2> QED
    BY <2>1
<1> HIDE DEF head, tail, r
<1>4. /\ text \in Seq(Symbol) /\ Len(text) = h + t + 3
      /\ text[1] = Begin /\ text[h + 2] = Omitted /\ text[h + t + 3] = End
      /\ \A i \in 1 .. h : text[1 + i] = head[i]
      /\ \A i \in 1 .. t : text[h + 2 + i] = tail[i]
  BY <1>2, BodyProperties
<1> HIDE DEF h, t, text, bytes
<1>5. SubSeq(text, 2, h + 1) = head
  BY <1>2, <1>4, SamePiece DEF h
<1>6. SubSeq(text, h + 3, h + 2 + t) = tail
  BY <1>2, <1>4, SamePiece DEF t
<1>7. SectionStart(text) = 2
  <2>1. Len(text) > 0
    BY <1>2, <1>4
  <2> QED
    BY <1>4, <2>1, FirstMarker
<1>8. Section(text, 2, headBytes, Omitted) = {h}
  <2> DEFINE two == 2
  <2>1. two \in 1 .. Len(text) /\ two + h <= Len(text) /\ two + h = h + 2 /\ two + h - 1 = h + 1
    BY <1>2, <1>4
  <2>2. text[two + h] = Omitted /\ headBytes = Length(SubSeq(text, two, two + h - 1), Bytes)
    BY <1>4, <1>5, <2>1
  <2> HIDE DEF two, headBytes
  <2>3. IsTheSection(text, two, h)
    BY <1>2, <1>4, <2>1, SectionIsUnique
  <2>4. Section(text, two, headBytes, Omitted) = {h}
    BY <2>2, <2>3 DEF IsTheSection
  <2> QED
    BY <2>4 DEF two
<1>9. Section(text, h + 3, tailBytes, End) = {t}
  <2> DEFINE at == h + 3
  <2>1. at \in 1 .. Len(text) /\ at + t <= Len(text) /\ at + t = h + t + 3
        /\ at + t - 1 = h + 2 + t
    <3> DEFINE long == Len(text)
    <3>1. h \in Nat /\ t \in Nat /\ long = h + t + 3
      BY <1>2, <1>4
    <3> HIDE DEF long
    <3>2. at \in 1 .. long /\ at + t <= long /\ at + t = h + t + 3
          /\ at + t - 1 = h + 2 + t
      BY <3>1
    <3> QED
      BY <3>2 DEF long
  <2>2. text[at + t] = End /\ tailBytes = Length(SubSeq(text, at, at + t - 1), Bytes)
    BY <1>4, <1>6, <2>1
  <2> HIDE DEF at, tailBytes
  <2>3. IsTheSection(text, at, t)
    BY <1>2, <1>4, <2>1, SectionIsUnique
  <2>4. Section(text, at, tailBytes, End) = {t}
    BY <2>2, <2>3 DEF IsTheSection
  <2> QED
    BY <2>4 DEF at
<1> DEFINE answered == [bytes |-> bytes, digest |-> value, head |-> head, tail |-> tail]
<1>10. ParseReceipt(r) = answered
  <2> DEFINE headStart == SectionStart(r.body)
             heads == Section(r.body, headStart, r.headBytes, Omitted)
             tailStart == headStart + CHOOSE n \in heads : TRUE
             tails == Section(r.body, tailStart + 1, r.tailBytes, End)
             read == [bytes |-> r.originalBytes, digest |-> r.digest,
                      head |-> SubSeq(r.body, headStart, tailStart - 1),
                      tail |-> SubSeq(r.body, tailStart + 1,
                                      tailStart + CHOOSE n \in tails : TRUE)]
  <2>1. ParseReceipt(r) = IF r.headBytes + r.tailBytes > r.originalBytes \/ heads = {}
                          THEN Unread
                          ELSE IF tails = {} THEN Unread ELSE read
    BY DEF ParseReceipt
  <2>2. ~(r.headBytes + r.tailBytes > r.originalBytes)
    BY <1>1, <1>3
  <2> HIDE DEF headBytes, tailBytes
  <2>3. headStart = 2 /\ heads = {h}
    BY <1>1, <1>7, <1>8
  <2>4. tailStart = h + 2
    <3> HIDE DEF headStart, heads
    <3> QED
      BY <1>2, <2>3
  <2>5. tails = {t}
    <3>1. h + 2 + 1 = h + 3
      BY <1>2
    <3> HIDE DEF tailStart
    <3> QED
      BY <1>1, <1>9, <2>4, <3>1
  <2>6. /\ SubSeq(r.body, headStart, tailStart - 1) = head
        /\ SubSeq(r.body, tailStart + 1, tailStart + CHOOSE n \in tails : TRUE) = tail
    <3>1. (CHOOSE n \in {t} : TRUE) = t
      OBVIOUS
    <3> HIDE DEF headStart, tailStart, tails
    <3>2. /\ tailStart - 1 = h + 1 /\ tailStart + 1 = h + 3
          /\ tailStart + (CHOOSE n \in tails : TRUE) = h + 2 + t
      BY <1>2, <2>4, <2>5, <3>1
    <3> QED
      BY <1>1, <1>5, <1>6, <2>3, <3>2
  <2>7. read = answered
    <3> HIDE DEF headStart, tailStart, tails
    <3> QED
      BY <1>1, <2>6
  <2>8. heads # {} /\ tails # {}
    <3> HIDE DEF heads, tails
    <3> QED
      BY <2>3, <2>5
  <2> HIDE DEF heads, tails, read, answered
  <2> QED
    BY <2>1, <2>2, <2>7, <2>8
<1>11. answered # Unread
  BY <1>2, <1>3, ReceiptRecoveryAssumption
<1> QED
  BY <1>10, <1>11 DEF r, bytes, head, tail

-----------------------------------------------------------------------------
(* What holds of a receipt and of every answer about it *)

Written ==
  receipt # Unread =>
    /\ original \in Texts /\ preview \in Previews
    /\ receipt = BuildReceipt(original, preview)
    /\ Shorter(original, preview)

\* Nothing is asked before there is a receipt.
AskedLater == receipt = Unread => answer = Unread

RecoveryIInv == Written /\ AskedLater /\ EvidenceIsExact

LEMMA RecoveryInitIInv == RecoveryInit => RecoveryIInv
BY DEF RecoveryInit, RecoveryIInv, Written, AskedLater, EvidenceIsExact

\* An answer that is the evidence of the receipt that was written.
LEMMA AssessmentIsExact ==
  ASSUME RecoveryIInv, NEW need, AssessReceipt(need)
  PROVE  EvidenceIsExact'
<1>1. /\ receipt = BuildReceipt(original, preview) /\ Shorter(original, preview)
      /\ original \in Seq(Symbol) /\ preview \in Nat /\ original' = original
  BY ReceiptRecoveryAssumption DEF RecoveryIInv, Written, AssessReceipt
<1> DEFINE head == SafeHead(original, preview)
           tail == SafeTail(original, preview)
           evidence == ParseReceipt(receipt)
           bytes == Length(original, Bytes)
           visible == Length(head, Bytes) + Length(tail, Bytes)
           omitted == IF bytes > visible THEN bytes - visible ELSE 0
           given == [kind |-> "assessment", head |-> head, tail |-> tail,
                     sourceRequired |-> need = "ExactContent", omitted |-> omitted]
<1>2. /\ evidence = [bytes |-> bytes, digest |-> original, head |-> head, tail |-> tail]
      /\ evidence # Unread
  BY <1>1, ReadAgain
<1>3. answer' = given
  <2>1. /\ evidence.bytes = bytes /\ evidence.head = head /\ evidence.tail = tail
        /\ evidence # Unread
    BY <1>2
  <2>2. answer' = IF evidence = Unread THEN [kind |-> "error"]
                  ELSE [kind |-> "assessment", head |-> evidence.head, tail |-> evidence.tail,
                        sourceRequired |-> need = "ExactContent",
                        omitted |-> IF evidence.bytes > Length(evidence.head, Bytes)
                                                          + Length(evidence.tail, Bytes)
                                    THEN evidence.bytes - (Length(evidence.head, Bytes)
                                                             + Length(evidence.tail, Bytes))
                                    ELSE 0]
    BY DEF AssessReceipt
  <2> HIDE DEF evidence
  <2> QED
    BY <2>1, <2>2
<1>4. PICK i \in 0 .. Len(original), j \in 0 .. Len(original) :
        /\ i <= j
        /\ head = SubSeq(original, 1, i)
        /\ tail = SubSeq(original, j + 1, Len(original))
        /\ Length(head, Bytes) \in Nat
        /\ Length(SubSeq(original, i + 1, j), Bytes) \in Nat
        /\ Length(tail, Bytes) \in Nat
        /\ bytes = Length(head, Bytes) + Length(SubSeq(original, i + 1, j), Bytes)
                     + Length(tail, Bytes)
  BY <1>1, PreviewsApart
<1>5. omitted = Length(SubSeq(original, i + 1, j), Bytes)
  <2> DEFINE a == Length(head, Bytes)
             b == Length(SubSeq(original, i + 1, j), Bytes)
             c == Length(tail, Bytes)
  <2>1. a \in Nat /\ b \in Nat /\ c \in Nat /\ bytes = a + b + c /\ visible = a + c
    BY <1>4
  <2> HIDE DEF a, b, c, bytes, visible
  <2>2. omitted = b
    BY <2>1
  <2> QED
    BY <2>2 DEF b
<1>6. /\ given.kind = "assessment" /\ given.head = head /\ given.tail = tail
      /\ given.omitted = omitted
  OBVIOUS
<1> HIDE DEF head, tail, omitted, given
<1> QED
  BY <1>1, <1>3, <1>4, <1>5, <1>6 DEF EvidenceIsExact

LEMMA VerificationIsExact ==
  ASSUME RecoveryIInv, NEW candidate, VerifyRecoveredCandidate(candidate)
  PROVE  EvidenceIsExact'
<1>1. /\ receipt = BuildReceipt(original, preview) /\ Shorter(original, preview)
      /\ original \in Seq(Symbol) /\ preview \in Nat /\ original' = original
  BY ReceiptRecoveryAssumption DEF RecoveryIInv, Written, VerifyRecoveredCandidate
<1> DEFINE evidence == ParseReceipt(receipt)
           exact == VerifyExactCandidate(evidence, candidate)
           given == [kind |-> "verification", candidate |-> candidate, exact |-> exact]
<1>2. /\ evidence.bytes = Length(original, Bytes) /\ evidence.digest = original
      /\ evidence # Unread
  BY <1>1, ReadAgain
<1>3. answer' = given
  BY <1>2 DEF VerifyRecoveredCandidate
<1>4. exact <=> candidate = original
  BY <1>2 DEF VerifyExactCandidate
<1>5. given.kind = "verification" /\ given.candidate = candidate /\ (given.exact <=> exact)
  OBVIOUS
<1> HIDE DEF exact, given
<1> QED
  BY <1>1, <1>3, <1>4, <1>5 DEF EvidenceIsExact

LEMMA RecoveryStep ==
  ASSUME RecoveryIInv, [RecoveryNext]_recoveryVars
  PROVE  RecoveryIInv'
<1>1. ASSUME NEW value \in Texts, NEW max \in Previews, Age(value, max)
      PROVE  RecoveryIInv'
  <2>1. answer' = Unread
    BY <1>1 DEF Age, RecoveryIInv, AskedLater
  <2>2. /\ original' = value /\ preview' = max /\ receipt' = BuildReceipt(value, max)
        /\ Shorter(value, max)
    BY <1>1 DEF Age, Shorter
  <2> QED
    BY <2>1, <2>2 DEF RecoveryIInv, Written, AskedLater, EvidenceIsExact
<1>2. ASSUME NEW need, AssessReceipt(need)
      PROVE  RecoveryIInv'
  <2>1. EvidenceIsExact'
    BY <1>2, AssessmentIsExact
  <2> QED
    BY <1>2, <2>1 DEF AssessReceipt, RecoveryIInv, Written, AskedLater
<1>3. ASSUME NEW candidate, VerifyRecoveredCandidate(candidate)
      PROVE  RecoveryIInv'
  <2>1. EvidenceIsExact'
    BY <1>3, VerificationIsExact
  <2> QED
    BY <1>3, <2>1 DEF VerifyRecoveredCandidate, RecoveryIInv, Written, AskedLater
<1>4. CASE UNCHANGED recoveryVars
  BY <1>4 DEF recoveryVars, RecoveryIInv, Written, AskedLater, EvidenceIsExact
<1> QED
  BY <1>1, <1>2, <1>3, <1>4 DEF RecoveryNext

LEMMA RecoveryIInvHolds == RecoverySpec => []RecoveryIInv
BY RecoveryInitIInv, RecoveryStep, PTL DEF RecoverySpec

\* Every receipt the engine writes can be read again, shows the beginning and the
\* end of the text and nothing twice, counts the rest as omitted, and accepts a
\* candidate exactly when it is the text: whatever the texts, the markers they
\* repeat, the lengths of characters and the size of the previews
\* (parse_receipt, assess_receipt, verify_recovered_candidate).
THEOREM EvidenceIsExactHolds == RecoverySpec => []EvidenceIsExact
<1>1. RecoveryIInv => EvidenceIsExact
  BY DEF RecoveryIInv
<1> QED
  BY <1>1, RecoveryIInvHolds, PTL

LEMMA LongestPreviews == RecoveryIInv => PreviewsAreLongest
<1> SUFFICES ASSUME RecoveryIInv, receipt # Unread,
                    NEW n \in 0 .. Len(original)
             PROVE  LET head == SafeHead(original, preview)
                        tail == SafeTail(original, preview)
                    IN  /\ n <= Len(head) <=> Length(SubSeq(original, 1, n), Units) <= preview
                        /\ n <= Len(tail) <=>
                             Length(SubSeq(original, Len(original) - n
                               + 1, Len(original)), Units)
                               <= preview
  BY DEF PreviewsAreLongest
<1>1. original \in Seq(Symbol) /\ preview \in Nat /\ Len(original) \in Nat
  BY ReceiptRecoveryAssumption, LenProperties DEF RecoveryIInv, Written
<1>2. PICK e \in 0 .. Len(original) :
        /\ SafeHead(original, preview) = SubSeq(original, 1, e)
        /\ \A k \in 0 .. Len(original) : k <= e <=> Fits(original, preview, k)
  BY <1>1, SafeHeadProperties
<1>3. Len(SafeHead(original, preview)) = e
  <2>1. 1 \in 1 .. Len(original) + 1 /\ e \in 1 - 1 .. Len(original) /\ e - 1 + 1 = e
    BY <1>1, <1>2
  <2>2. Len(SubSeq(original, 1, e)) = e - 1 + 1
    BY <1>1, <2>1, Piece
  <2> QED
    BY <1>2, <2>1, <2>2
<1>4. PICK f \in 0 .. Len(original) :
        /\ SafeTail(original, preview) = SubSeq(original, Len(original) - f + 1, Len(original))
        /\ \A k \in 0 .. Len(original) :
             k <= f <=> Length(SubSeq(original, Len(original) - k + 1, Len(original)), Units)
                          <= preview
  BY <1>1, SafeTailProperties
<1>5. Len(SafeTail(original, preview)) = f
  <2> DEFINE from == Len(original) - f + 1
  <2>1. /\ from \in 1 .. Len(original) + 1 /\ Len(original) \in from - 1 .. Len(original)
        /\ Len(original) - from + 1 = f
    BY <1>1, <1>4
  <2> HIDE DEF from
  <2>2. Len(SubSeq(original, from, Len(original))) = Len(original) - from + 1
    BY <1>1, <2>1, Piece
  <2> QED
    BY <1>4, <2>1, <2>2 DEF from
<1> QED
  BY <1>2, <1>3, <1>4, <1>5 DEF Fits

\* The previews of a receipt are the longest that fit, at both ends, for every
\* text, every length of a character and every preview_code_units (safe_head and
\* safe_tail decide it in one pass).
THEOREM PreviewsAreLongestHolds == RecoverySpec => []PreviewsAreLongest
BY LongestPreviews, RecoveryIInvHolds, PTL
=============================================================================
