------------------------------- MODULE FoldLemmas -------------------------------
(***************************************************************************)
(* Lemmas about the operators the passes over a body, a chunk or a history *)
(* are written with: induction over the naturals for a set of numbers,     *)
(* largest members, and the iteration behind FoldLeft.                     *)
(*                                                                         *)
(* FoldLeft is a function by recursion, which reaches the provers as a     *)
(* CHOOSE among the functions that solve its equation.  That there is one  *)
(* is IterationExists, for a step given as a function; a component's own   *)
(* lemma then has the fold as the last of its intermediate values.         *)
(***************************************************************************)
EXTENDS Integers, SequencesExt, FiniteSetsExt, FiniteSetTheorems, SequenceTheorems,
        NaturalsInduction, WellFoundedInduction, TLAPS

\* The order of the naturals: no set of them is without a smallest.
Before == {p \in Nat \X Nat : p[1] < p[2]}

LEMMA BeforeIsWellFounded == IsWellFoundedOn(Before, Nat)
<1>1. Before = OpToRel(<, Nat)
  BY DEF Before, OpToRel
<1> QED
  BY <1>1, NatLessThanWellFounded

LEMMA SmallestExists ==
  ASSUME NEW S \in SUBSET Nat, S # {}
  PROVE  \E m \in S : \A n \in S : m <= n
<1>1. PICK m \in S : \A n \in S : <<n, m>> \notin Before
  BY BeforeIsWellFounded, WFMin
<1>2. ASSUME NEW n \in S PROVE m <= n
  <2>1. n \in Nat /\ m \in Nat /\ <<n, m>> \notin Before
    BY <1>1
  <2>2. <<n, m>>[1] = n /\ <<n, m>>[2] = m /\ <<n, m>> \in Nat \X Nat
    BY <2>1
  <2>3. ~(n < m)
    BY <2>1, <2>2 DEF Before
  <2> QED
    BY <2>1, <2>3
<1> QED
  BY <1>2

\* Induction, for the set of the numbers that have a property.
LEMMA Induction ==
  ASSUME NEW S, 0 \in S, \A n \in Nat : n \in S => n + 1 \in S
  PROVE  Nat \subseteq S
<1> SUFFICES ASSUME NEW x \in Nat, x \notin S PROVE FALSE
  OBVIOUS
<1>1. PICK m \in Nat \ S : \A n \in Nat \ S : m <= n
  <2>1. Nat \ S \in SUBSET Nat /\ Nat \ S # {}
    OBVIOUS
  <2> QED
    BY <2>1, SmallestExists
<1>2. m # 0 /\ m \in Nat
  BY <1>1
<1>3. m - 1 \in Nat /\ m - 1 \in S
  BY <1>1, <1>2
<1> QED
  BY <1>1, <1>3

\* Induction over the numbers up to n.
LEMMA InductionUpTo ==
  ASSUME NEW n \in Nat, NEW S, 0 \in S,
         \A k \in 0 .. n : k < n /\ k \in S => k + 1 \in S
  PROVE  0 .. n \subseteq S
<1> DEFINE R == {k \in Nat : k <= n => k \in S}
<1>1. 0 \in R
  OBVIOUS
<1>2. \A k \in Nat : k \in R => k + 1 \in R
  OBVIOUS
<1>3. Nat \subseteq R
  <2> HIDE DEF R
  <2> QED
    BY <1>1, <1>2, Induction
<1> QED
  BY <1>3

\* Max is a member and no member is larger.
LEMMA MaxIsLargest ==
  ASSUME NEW n \in Nat, NEW S \in SUBSET (0 .. n), S # {}
  PROVE  Max(S) \in S /\ \A x \in S : x <= Max(S)
<1> DEFINE T == {n - x : x \in S}
<1>1. T \in SUBSET Nat /\ T # {}
  <2>1. \A x \in S : x \in 0 .. n /\ n - x \in Nat
    OBVIOUS
  <2>2. \A t \in T : \E x \in S : t = n - x
    OBVIOUS
  <2>3. T # {}
    OBVIOUS
  <2> HIDE DEF T
  <2> QED
    BY <2>1, <2>2, <2>3
<1>2. PICK m \in T : \A t \in T : m <= t
  <2> HIDE DEF T
  <2> QED
    BY <1>1, SmallestExists
<1>3. PICK y \in S : m = n - y
  BY <1>2
<1>4. ASSUME NEW x \in S PROVE y >= x
  <2>1. n - x \in T
    OBVIOUS
  <2>2. n - y <= n - x
    BY <1>2, <1>3, <2>1
  <2>3. x \in 0 .. n /\ y \in 0 .. n
    OBVIOUS
  <2> HIDE DEF T
  <2> QED
    BY <2>2, <2>3
<1> QED
  BY <1>3, <1>4 DEF Max

\* A member that none is larger than is the one Max chooses.
LEMMA MaxIs ==
  ASSUME NEW S \in SUBSET Int, NEW m \in S, \A x \in S : x <= m
  PROVE  Max(S) = m
<1>1. \A x \in S : m >= x
  OBVIOUS
<1>2. Max(S) \in S /\ \A x \in S : Max(S) >= x
  BY <1>1 DEF Max
<1>3. Max(S) >= m /\ Max(S) <= m /\ Max(S) \in Int /\ m \in Int
  BY <1>2
<1> QED
  BY <1>3

LEMMA MaxOfInterval ==
  ASSUME NEW k \in Nat, k # 0
  PROVE  /\ Max(1 .. k) = k
         /\ (1 .. k) \ {k} = 1 .. (k - 1)
         /\ 1 .. k # {}
<1>1. 1 .. k \in SUBSET Int /\ k \in 1 .. k /\ \A x \in 1 .. k : x <= k
  OBVIOUS
<1>2. Max(1 .. k) = k
  BY <1>1, MaxIs
<1>3. \A x : x \in (1 .. k) \ {k} <=> x \in 1 .. (k - 1)
  OBVIOUS
<1>4. (1 .. k) \ {k} = 1 .. (k - 1)
  BY <1>3
<1>5. 1 .. k # {}
  BY <1>1
<1> QED
  BY <1>2, <1>4, <1>5

-----------------------------------------------------------------------------
(* Pieces of a sequence, and a sequence with one more at its end *)

LEMMA Piece ==
  ASSUME NEW S, NEW s \in Seq(S), NEW m \in 1 .. Len(s) + 1, NEW n \in m - 1 .. Len(s)
  PROVE  /\ SubSeq(s, m, n) \in Seq(S)
         /\ Len(SubSeq(s, m, n)) = n - m + 1
         /\ \A i \in 1 .. n - m + 1 : SubSeq(s, m, n)[i] = s[m + i - 1]
<1>1. Len(s) \in Nat /\ m \in Int /\ n \in Int /\ m - 1 <= n
  BY LenProperties
<1>2. \A i \in m .. n : i \in 1 .. Len(s)
  BY <1>1
<1>3. \A i \in m .. n : s[i] \in S
  BY <1>2, ElementOfSeq
<1>4. /\ SubSeq(s, m, n) \in Seq(S)
      /\ Len(SubSeq(s, m, n)) = IF m <= n THEN n - m + 1 ELSE 0
      /\ \A i \in 1 .. n - m + 1 : SubSeq(s, m, n)[i] = s[m + i - 1]
  BY <1>1, <1>3, SubSeqProperties
<1> QED
  BY <1>1, <1>4

LEMMA PieceOfAppend ==
  ASSUME NEW S, NEW s \in Seq(S), NEW e \in S,
         NEW m \in 1 .. Len(s) + 1, NEW n \in m - 1 .. Len(s)
  PROVE  SubSeq(Append(s, e), m, n) = SubSeq(s, m, n)
<1> DEFINE t == Append(s, e)
<1>1. /\ t \in Seq(S) /\ Len(t) = Len(s) + 1 /\ Len(s) \in Nat
      /\ \A i \in 1 .. Len(s) : t[i] = s[i]
  BY AppendProperties, LenProperties
<1> HIDE DEF t
<1>2. m \in 1 .. Len(t) + 1 /\ n \in m - 1 .. Len(t)
  BY <1>1
<1>3. /\ SubSeq(t, m, n) \in Seq(S)
      /\ Len(SubSeq(t, m, n)) = n - m + 1
      /\ \A i \in 1 .. n - m + 1 : SubSeq(t, m, n)[i] = t[m + i - 1]
  BY <1>1, <1>2, Piece
<1>4. /\ SubSeq(s, m, n) \in Seq(S)
      /\ Len(SubSeq(s, m, n)) = n - m + 1
      /\ \A i \in 1 .. n - m + 1 : SubSeq(s, m, n)[i] = s[m + i - 1]
  BY Piece
<1>5. \A i \in 1 .. n - m + 1 : m + i - 1 \in 1 .. Len(s)
  BY <1>1
<1>6. \A i \in 1 .. Len(SubSeq(t, m, n)) : SubSeq(t, m, n)[i] = SubSeq(s, m, n)[i]
  BY <1>1, <1>3, <1>4, <1>5
<1>7. SubSeq(t, m, n) = SubSeq(s, m, n)
  BY <1>3, <1>4, <1>6, SeqEqual
<1> QED
  BY <1>7 DEF t

LEMMA AppendToPiece ==
  ASSUME NEW S, NEW s \in Seq(S), NEW m \in 1 .. Len(s), NEW n \in m .. Len(s)
  PROVE  SubSeq(s, m, n) = Append(SubSeq(s, m, n - 1), s[n])
<1>1. SubSeq(s, m, n) = SubSeq(s, m, n - 1) \o <<s[n]>>
  BY SubSeqRecursiveSecond
<1>2. Len(s) \in Nat
  BY LenProperties
<1>3. m \in 1 .. Len(s) + 1 /\ n - 1 \in m - 1 .. Len(s) /\ n \in 1 .. Len(s)
  BY <1>2
<1>4. SubSeq(s, m, n - 1) \in Seq(S) /\ s[n] \in S
  BY <1>3, Piece, ElementOfSeq
<1> QED
  BY <1>1, <1>4, AppendIsConcat

LEMMA ConcatAppend ==
  ASSUME NEW S, NEW s \in Seq(S), NEW t \in Seq(S), NEW e \in S
  PROVE  s \o Append(t, e) = Append(s \o t, e)
<1>1. s \o t \in Seq(S) /\ <<e>> \in Seq(S)
  BY ConcatProperties
<1>2. Append(t, e) = t \o <<e>> /\ Append(s \o t, e) = (s \o t) \o <<e>>
  BY <1>1, AppendIsConcat
<1>3. (s \o t) \o <<e>> = s \o (t \o <<e>>)
  BY <1>1, ConcatAssociative
<1> QED
  BY <1>2, <1>3

\* A sequence read backwards.
LEMMA ReverseProperties ==
  ASSUME NEW S, NEW s \in Seq(S)
  PROVE  /\ Reverse(s) \in Seq(S)
         /\ Len(Reverse(s)) = Len(s)
         /\ \A i \in 1 .. Len(s) : Reverse(s)[i] = s[Len(s) - i + 1]
<1>1. Len(s) \in Nat /\ \A i \in 1 .. Len(s) : s[i] \in S
  BY LenProperties, ElementOfSeq
<1>2. Reverse(s) = [i \in 1 .. Len(s) |-> s[(Len(s) - i) + 1]]
  BY DEF Reverse
<1>3. \A i \in 1 .. Len(s) : (Len(s) - i) + 1 \in 1 .. Len(s)
  BY <1>1
<1>4. \A i \in 1 .. Len(s) : s[(Len(s) - i) + 1] \in S
  BY <1>1, <1>3
<1>5. Reverse(s) \in [1 .. Len(s) -> S]
  BY <1>2, <1>4
<1>6. Reverse(s) \in Seq(S)
  BY <1>1, <1>5, SeqDef
<1>7. Len(Reverse(s)) = Len(s)
  <2>1. DOMAIN Reverse(s) = 1 .. Len(Reverse(s)) /\ Len(Reverse(s)) \in Nat
    BY <1>6, LenProperties
  <2>2. DOMAIN Reverse(s) = 1 .. Len(s)
    BY <1>2
  <2> QED
    BY <1>1, <2>1, <2>2
<1> QED
  BY <1>2, <1>6, <1>7

\* A sequence without its last element, and that element.
LEMMA FrontAndLast ==
  ASSUME NEW S, NEW s \in Seq(S), s # <<>>
  PROVE  /\ Front(s) \in Seq(S) /\ Len(s) \in Nat \ {0} /\ Len(Front(s)) = Len(s) - 1
         /\ \A i \in 1 .. Len(s) - 1 : Front(s)[i] = s[i]
         /\ Last(s) = s[Len(s)]
<1> DEFINE one == 1
           n == Len(s) - 1
<1>1. Len(s) \in Nat \ {0} /\ one \in 1 .. Len(s) + 1 /\ n \in one - 1 .. Len(s)
      /\ n - one + 1 = n
  BY LenProperties, EmptySeq
<1>2. Front(s) = SubSeq(s, one, n) /\ Last(s) = s[Len(s)]
  BY DEF Front, Last
<1>3. \A i \in 1 .. n : one + i - 1 = i
  OBVIOUS
<1> HIDE DEF one, n
<1>4. /\ SubSeq(s, one, n) \in Seq(S) /\ Len(SubSeq(s, one, n)) = n - one + 1
      /\ \A i \in 1 .. n - one + 1 : SubSeq(s, one, n)[i] = s[one + i - 1]
  BY <1>1, Piece
<1> QED
  BY <1>1, <1>2, <1>3, <1>4 DEF n

-----------------------------------------------------------------------------
(* The iteration behind FoldLeft *)

\* A function on sets of indexes that takes every value from the value without
\* the largest index, as MapThenFoldSet asks.
Iterates(it, n, base, step) ==
  \A u \in SUBSET (1 .. n) :
    it[u] = IF u = {} THEN base ELSE step[<<it[u \ {Max(u)}], Max(u)>>]

\* There is one, with all its values of the kind the step keeps to.
LEMMA IterationExists ==
  ASSUME NEW n \in Nat, NEW S, NEW base \in S, NEW step \in [S \X (1 .. n) -> S]
  PROVE  \E it \in [SUBSET (1 .. n) -> S] : Iterates(it, n, base, step)
<1> DEFINE Solves(it, m) ==
             /\ it \in [SUBSET (1 .. m) -> S]
             /\ \A u \in SUBSET (1 .. m) :
                  it[u] = IF u = {} THEN base ELSE step[<<it[u \ {Max(u)}], Max(u)>>]
           Solved == {m \in 0 .. n : \E it : Solves(it, m)}
<1>1. 0 \in Solved
  <2> DEFINE it == [u \in SUBSET (1 .. 0) |-> base]
  <2>1. \A u \in SUBSET (1 .. 0) : u = {}
    OBVIOUS
  <2>2. Solves(it, 0)
    BY <2>1
  <2>3. 0 \in 0 .. n
    OBVIOUS
  <2> HIDE DEF Solves
  <2> QED
    BY <2>2, <2>3
<1>2. ASSUME NEW m \in 0 .. n, m < n, m \in Solved PROVE m + 1 \in Solved
  <2>1. PICK before : Solves(before, m)
    BY <1>2
  <2> DEFINE it == [u \in SUBSET (1 .. (m + 1)) |->
                      IF u \in SUBSET (1 .. m) THEN before[u]
                      ELSE step[<<before[u \ {m + 1}], m + 1>>]]
  <2>2. ASSUME NEW u \in SUBSET (1 .. (m + 1)), u \notin SUBSET (1 .. m)
        PROVE  /\ Max(u) = m + 1
               /\ u \ {m + 1} \in SUBSET (1 .. m)
               /\ u # {}
    <3>1. m + 1 \in u /\ u \in SUBSET Int /\ \A x \in u : x <= m + 1
      BY <2>2
    <3>2. Max(u) = m + 1
      BY <3>1, MaxIs
    <3> QED
      BY <3>1, <3>2
  <2>3. ASSUME NEW u \in SUBSET (1 .. m), u # {}
        PROVE  u \ {Max(u)} \in SUBSET (1 .. m)
    OBVIOUS
  <2>4. it \in [SUBSET (1 .. (m + 1)) -> S]
    <3>1. ASSUME NEW u \in SUBSET (1 .. (m + 1)) PROVE it[u] \in S
      <4>1. CASE u \in SUBSET (1 .. m)
        BY <2>1, <4>1
      <4>2. CASE u \notin SUBSET (1 .. m)
        <5>1. before[u \ {m + 1}] \in S
          BY <2>1, <2>2, <4>2
        <5>2. m + 1 \in 1 .. n
          BY <1>2
        <5>3. <<before[u \ {m + 1}], m + 1>> \in S \X (1 .. n)
          BY <5>1, <5>2
        <5> QED
          BY <4>2, <5>3
      <4> QED
        BY <4>1, <4>2
    <3> QED
      BY <3>1
  <2>5. ASSUME NEW u \in SUBSET (1 .. (m + 1))
        PROVE  it[u] = IF u = {} THEN base ELSE step[<<it[u \ {Max(u)}], Max(u)>>]
    <3>1. CASE u \in SUBSET (1 .. m)
      <4>1. it[u] = before[u]
        BY <3>1
      <4>2. u # {} => it[u \ {Max(u)}] = before[u \ {Max(u)}]
        BY <2>3, <3>1
      <4>3. before[u] = IF u = {} THEN base
                        ELSE step[<<before[u \ {Max(u)}], Max(u)>>]
        BY <2>1, <3>1
      <4> HIDE DEF it
      <4> QED
        BY <4>1, <4>2, <4>3
    <3>2. CASE u \notin SUBSET (1 .. m)
      <4>1. it[u] = step[<<before[u \ {m + 1}], m + 1>>]
        BY <3>2
      <4>2. it[u \ {m + 1}] = before[u \ {m + 1}]
        BY <2>2, <3>2
      <4> HIDE DEF it
      <4> QED
        BY <2>2, <3>2, <4>1, <4>2
    <3> QED
      BY <3>1, <3>2
  <2>6. Solves(it, m + 1)
    <3> HIDE DEF it
    <3> QED
      BY <2>4, <2>5
  <2>7. m + 1 \in 0 .. n
    BY <1>2
  <2> HIDE DEF Solves
  <2> QED
    BY <2>6, <2>7
<1>3. 0 .. n \subseteq Solved
  <2> HIDE DEF Solved
  <2> QED
    BY <1>1, <1>2, InductionUpTo
<1>4. n \in Solved
  <2> HIDE DEF Solved
  <2> QED
    BY <1>3
<1> QED
  BY <1>4 DEF Iterates

LEMMA LargestIndex ==
  ASSUME NEW n \in Nat, NEW u \in SUBSET (1 .. n), u # {}
  PROVE  Max(u) \in 1 .. n /\ u \ {Max(u)} \in SUBSET (1 .. n)
<1>1. u \in SUBSET (0 .. n)
  OBVIOUS
<1> QED
  BY <1>1, MaxIsLargest

\* The values a loop over the indexes goes through, from the first to the last.
IsTrace(trace, n, base, step) ==
  /\ trace[0] = base
  /\ \A k \in 1 .. n : trace[k] = step[<<trace[k - 1], k>>]

\* A step can be iterated, from the first index on.
LEMMA TraceExists ==
  ASSUME NEW n \in Nat, NEW S, NEW base \in S, NEW step \in [S \X (1 .. n) -> S]
  PROVE  \E trace \in [0 .. n -> S] : IsTrace(trace, n, base, step)
<1>1. PICK it \in [SUBSET (1 .. n) -> S] : Iterates(it, n, base, step)
  BY IterationExists
<1> DEFINE trace == [k \in 0 .. n |-> it[1 .. k]]
<1>2. trace \in [0 .. n -> S]
  BY <1>1
<1>3. 1 .. 0 = {} /\ {} \in SUBSET (1 .. n) /\ 0 \in 0 .. n
  OBVIOUS
<1>4. it[{}] = base
  BY <1>1, <1>3 DEF Iterates
<1>5. trace[0] = base
  BY <1>3, <1>4
<1>6. ASSUME NEW k \in 1 .. n PROVE trace[k] = step[<<trace[k - 1], k>>]
  <2>1. k \in Nat /\ k # 0 /\ 1 .. k \in SUBSET (1 .. n) /\ k \in 0 .. n /\ k - 1 \in 0 .. n
    OBVIOUS
  <2>2. Max(1 .. k) = k /\ (1 .. k) \ {k} = 1 .. (k - 1) /\ 1 .. k # {}
    BY <2>1, MaxOfInterval
  <2>3. it[1 .. k] = step[<<it[1 .. (k - 1)], k>>]
    BY <1>1, <2>1, <2>2 DEF Iterates
  <2> QED
    BY <2>1, <2>3
<1> HIDE DEF trace
<1> QED
  BY <1>2, <1>5, <1>6 DEF IsTrace

\* Over initial segments of the indexes, f takes the step as long as it is in S.
StepsWithin(f, n, S, step) ==
  \A k \in 1 .. n : f[1 .. (k - 1)] \in S =>
    /\ step[<<f[1 .. (k - 1)], k>>] \in S
    /\ f[1 .. k] = step[<<f[1 .. (k - 1)], k>>]

\* Down the initial segments of the indexes, an iteration goes through the values
\* a loop over them would leave.
LEMMA TraceOfIteration ==
  ASSUME NEW n \in Nat, NEW S, NEW base \in S, NEW step, NEW f, f[{}] = base,
         StepsWithin(f, n, S, step)
  PROVE  \E trace \in [0 .. n -> S] : IsTrace(trace, n, base, step) /\ trace[n] = f[1 .. n]
<1> DEFINE trace == [k \in 0 .. n |-> f[1 .. k]]
<1>1. \A k \in 0 .. n : trace[k] = f[1 .. k]
  OBVIOUS
<1> HIDE DEF trace
<1>2. trace[0] = base
  <2>1. 1 .. 0 = {} /\ 0 \in 0 .. n
    OBVIOUS
  <2> QED
    BY <1>1, <2>1
<1>3. ASSUME NEW k \in 1 .. n, trace[k - 1] \in S
      PROVE  trace[k] \in S /\ trace[k] = step[<<trace[k - 1], k>>]
  <2>1. k \in 0 .. n /\ k - 1 \in 0 .. n
    OBVIOUS
  <2> QED
    BY <1>1, <1>3, <2>1 DEF StepsWithin
<1> DEFINE Kept == {k \in 0 .. n : trace[k] \in S}
<1>4. 0 \in Kept
  BY <1>2
<1>5. ASSUME NEW k \in 0 .. n, k < n, k \in Kept PROVE k + 1 \in Kept
  <2>1. k + 1 \in 1 .. n /\ (k + 1) - 1 = k /\ k + 1 \in 0 .. n
    BY <1>5
  <2> QED
    BY <1>3, <1>5, <2>1
<1>6. 0 .. n \subseteq Kept
  <2> HIDE DEF Kept
  <2> QED
    BY <1>4, <1>5, InductionUpTo
<1>7. trace \in [0 .. n -> S]
  BY <1>6 DEF trace
<1>8. \A k \in 1 .. n : k - 1 \in 0 .. n
  OBVIOUS
<1>9. \A k \in 1 .. n : trace[k] = step[<<trace[k - 1], k>>]
  BY <1>3, <1>6, <1>8
<1> QED
  BY <1>1, <1>2, <1>7, <1>9 DEF IsTrace
=============================================================================
