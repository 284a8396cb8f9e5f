--------------------------- MODULE DrainGateProofs ---------------------------
(***************************************************************************)
(* Proofs about DrainGate, for every set of requests and every limit.      *)
(***************************************************************************)
EXTENDS DrainGate, FiniteSetTheorems, SequenceTheorems, TLAPS

Stages == Inside \cup {"out", "knock", "count", "swap"}

\* A request only tries to swap a count that leaves room for it.
Judged == \A r \in Requests : pc[r] = "swap" => counted[r] < MaxRequests

CountInv == TypeOK /\ Judged /\ CounterExact

-----------------------------------------------------------------------------
(* The counter and the types *)

\* The ways a step of one request changes what the counter counts.
Stays(r) == (pc[r] \in Inside <=> pc'[r] \in Inside) /\ active' = active
Enters(r) ==
  pc[r] \notin Inside /\ pc'[r] \in Inside /\ active < MaxRequests /\ active' = active + 1
Exits(r) == pc[r] \in Inside /\ pc'[r] \notin Inside /\ active' = active - 1

LEMMA RequestStep ==
  ASSUME TypeOK, Judged, NEW r \in Requests, Request(r)
  PROVE  /\ pc' \in [Requests -> Stages]
         /\ \A s \in Requests \ {r} : pc'[s] = pc[s]
         /\ counted' \in [Requests -> Nat]
         /\ Judged'
         /\ Stays(r) \/ Enters(r) \/ Exits(r)
  <1> USE DrainGateAssumption
      DEF TypeOK, Judged, Moves, Stages, Inside, Served, Stays, Enters, Exits
  <1>1. CASE Arrive(r) BY <1>1 DEF Arrive
  <1>2. CASE Knock(r) BY <1>2 DEF Knock
  <1>3. CASE Count(r) BY <1>3 DEF Count, Judge
  <1>4. CASE Swap(r)
    <2>1. CASE Judge(r, "swap")
      BY <2>1 DEF Judge
    <2>2. CASE ~Judge(r, "swap")
      BY <1>4, <2>2 DEF Swap
    <2> QED BY <2>1, <2>2
  <1>5. CASE Recheck(r) BY <1>5 DEF Recheck
  <1>6. CASE ReadBody(r) BY <1>6 DEF ReadBody
  <1>7. CASE Answer(r) BY <1>7 DEF Answer
  <1>8. CASE EndStream(r) BY <1>8 DEF EndStream
  <1>9. CASE GiveUp(r) BY <1>9 DEF GiveUp
  <1>10. CASE Leave(r) BY <1>10 DEF Leave
  <1> QED
    BY <1>1, <1>2, <1>3, <1>4, <1>5, <1>6, <1>7, <1>8, <1>9, <1>10 DEF Request

\* A step of a request moves the counter along with the guards that are alive.
LEMMA CounterStep ==
  ASSUME TypeOK, CounterExact, NEW r \in Requests,
         pc' \in [Requests -> Stages],
         \A s \in Requests \ {r} : pc'[s] = pc[s],
         Stays(r) \/ Enters(r) \/ Exits(r)
  PROVE  CounterExact' /\ active' \in Nat
  <1> DEFINE before == In(Inside)
             after == {s \in Requests : pc'[s] \in Inside}
  <1>1. In(Inside)' = after
    BY DEF In, Inside, Served
  <1>2. IsFiniteSet(before) /\ Cardinality(before) \in Nat
    BY DrainGateAssumption, FS_Subset, FS_CardinalityType DEF In
  <1>3. CASE Stays(r)
    <2>1. after = before
      BY <1>3 DEF Stays, In
    <2> QED BY <1>1, <1>3, <2>1 DEF Stays, CounterExact, TypeOK
  <1>4. CASE Enters(r)
    <2>1. after = before \cup {r} /\ r \notin before
      BY <1>4 DEF Enters, In
    <2>2. Cardinality(after) = Cardinality(before) + 1
      BY <1>2, <2>1, FS_AddElement
    <2> HIDE DEF after, before
    <2>3. active = Cardinality(before)
      BY DEF CounterExact, before
    <2> QED
      BY <1>1, <1>4, <2>2, <2>3, DrainGateAssumption DEF Enters, CounterExact, TypeOK
  <1>5. CASE Exits(r)
    <2>1. after = before \ {r} /\ r \in before
      BY <1>5 DEF Exits, In
    <2>2. Cardinality(after) = Cardinality(before) - 1
      BY <1>2, <2>1, FS_RemoveElement
    <2>3. Cardinality(after) \in Nat
      BY <1>2, <2>1, FS_RemoveElement, FS_CardinalityType
    <2> HIDE DEF after, before
    <2>4. active = Cardinality(before)
      BY DEF CounterExact, before
    <2> QED
      BY <1>1, <1>5, <2>2, <2>3, <2>4, DrainGateAssumption DEF Exits, CounterExact, TypeOK
  <1> QED BY <1>3, <1>4, <1>5

LEMMA CountInvStep == CountInv /\ [Next]_vars => CountInv'
  <1> SUFFICES ASSUME CountInv, [Next]_vars PROVE CountInv'
    OBVIOUS
  <1>1. ASSUME NEW r \in Requests, Request(r) PROVE CountInv'
    <2>1. /\ pc' \in [Requests -> Stages]
          /\ \A s \in Requests \ {r} : pc'[s] = pc[s]
          /\ counted' \in [Requests -> Nat]
          /\ Judged'
          /\ Stays(r) \/ Enters(r) \/ Exits(r)
      BY <1>1, RequestStep DEF CountInv
    <2>2. CounterExact' /\ active' \in Nat
      BY <2>1, CounterStep DEF CountInv
    <2>3. UNCHANGED gateVars
      BY <1>1 DEF Request
    <2> QED BY <2>1, <2>2, <2>3 DEF CountInv, TypeOK, Stages, gateVars, Inside, Served
  <1>2. CASE Controller
    <2>1. Judged' /\ CounterExact'
      BY <1>2 DEF Controller, reqVars, CountInv, Judged, CounterExact, In, Inside, Served
    <2>2. draining' \in BOOLEAN /\ buffer' \in Seq(BOOLEAN)
             /\ control' \in {"idle", "load", "restore", "closed"}
      <3> USE DEF CountInv, TypeOK
      <3>1. ASSUME NEW value \in BOOLEAN, Store(value)
            PROVE  draining' \in BOOLEAN /\ buffer' \in Seq(BOOLEAN)
        <4>1. Append(buffer, value) \in Seq(BOOLEAN)
          BY AppendProperties
        <4> QED BY <3>1, <4>1 DEF Store
      <3>2. CASE BeginDrain
        <4>1. Store(TRUE) /\ control' = "load"
          BY <3>2 DEF BeginDrain
        <4> QED BY <4>1, <3>1
      <3>3. CASE LoadActive
        <4>1. Store(FALSE) \/ UNCHANGED <<draining, buffer>>
          BY <3>3 DEF LoadActive
        <4>2. control' \in {"idle", "restore"}
          BY <3>3 DEF LoadActive
        <4> QED BY <4>1, <4>2, <3>1
      <3>4. CASE Restore
        <4>1. Store(FALSE) \/ UNCHANGED <<draining, buffer>>
          BY <3>4 DEF Restore
        <4>2. control' \in {"idle", "closed"}
          BY <3>4 DEF Restore
        <4> QED BY <4>1, <4>2, <3>1
      <3>5. CASE Flush
        BY <3>5 DEF Flush
      <3> QED BY <1>2, <3>2, <3>3, <3>4, <3>5 DEF Controller
    <2> QED BY <1>2, <2>1, <2>2 DEF Controller, reqVars, CountInv, TypeOK, Inside, Served
  <1>3. CASE UNCHANGED vars
    BY <1>3 DEF vars, CountInv, TypeOK, Judged, CounterExact, In, Inside, Served
  <1> QED BY <1>1, <1>2, <1>3 DEF Next

LEMMA CountInvHolds == Spec => []CountInv
  <1>1. Init => CountInv
    <2> SUFFICES ASSUME Init PROVE CountInv
      OBVIOUS
    <2>1. In(Inside) = {}
      BY DEF Init, In, Inside, Served
    <2>2. CounterExact
      BY <2>1, FS_EmptySet, DrainGateAssumption DEF Init, CounterExact
    <2>3. TypeOK
      <3>1. <<>> \in Seq(BOOLEAN) /\ 0 \in Nat
        OBVIOUS
      <3> QED BY <3>1 DEF Init, TypeOK
    <2> QED
      BY <2>2, <2>3 DEF Init, CountInv, Judged
  <1> QED BY <1>1, CountInvStep, PTL DEF Spec

\* Stages, counters, the flag and the store buffer keep their types; that the
\* counter never wraps below zero needs CounterExact.
THEOREM TypeCorrect == Spec => []TypeOK
  <1>1. CountInv => TypeOK
    BY DEF CountInv
  <1> QED BY <1>1, CountInvHolds, PTL

\* active_requests is the number of live guards and never exceeds the limit,
\* for every number of clients and whichever way the stores are ordered.
THEOREM CounterExactHolds == Spec => []CounterExact
  <1>1. CountInv => CounterExact
    BY DEF CountInv
  <1> QED BY <1>1, CountInvHolds, PTL

-----------------------------------------------------------------------------
(* The gate reopens *)

\* What the handlers see once every buffered store is visible.
LEMMA LastStore ==
  ASSUME TypeOK, NEW value \in BOOLEAN, Store(value)
  PROVE  buffer' # <<>> /\ buffer'[Len(buffer')] = value
  BY AppendProperties DEF TypeOK, Store

LEMMA OneStore ==
  ASSUME buffer \in Seq(BOOLEAN), buffer # <<>>, Len(buffer) = 1
  PROVE  Tail(buffer) = <<>> /\ Head(buffer) = buffer[1]
  <1>1. Tail(buffer) \in Seq(BOOLEAN) /\ Len(Tail(buffer)) = Len(buffer) - 1
    BY HeadTailProperties
  <1>2. Len(Tail(buffer)) = 0
    BY <1>1
  <1>3. Tail(buffer) = <<>>
    BY <1>1, <1>2, EmptySeq
  <1>4. Head(buffer) = buffer[1]
    OBVIOUS
  <1> QED BY <1>3, <1>4

LEMMA FlushKeepsLast ==
  ASSUME TypeOK, Flush, GateReopens
  PROVE  GateReopens'
  <1> SUFFICES ASSUME control = "idle"
               PROVE  IF buffer' = <<>> THEN ~draining' ELSE ~buffer'[Len(buffer')]
    BY DEF Flush, GateReopens
  <1>1. /\ buffer \in Seq(BOOLEAN) /\ buffer # <<>>
        /\ draining' = Head(buffer) /\ buffer' = Tail(buffer)
        /\ ~buffer[Len(buffer)]
    BY DEF TypeOK, Flush, GateReopens
  <1>2. CASE Len(buffer) = 1
    BY <1>1, <1>2, OneStore
  <1>3. CASE Len(buffer) # 1
    <2>1. Len(buffer) \in Nat /\ Len(buffer) > 1
      <3>1. Len(buffer) \in Nat \ {0}
        BY <1>1, EmptySeq, Zenon
      <3> QED BY <3>1, <1>3
    <2>2. /\ Len(Tail(buffer)) = Len(buffer) - 1
          /\ \A i \in 1 .. Len(Tail(buffer)) : Tail(buffer)[i] = buffer[i + 1]
      BY <1>1, HeadTailProperties
    <2>3. Tail(buffer)[Len(Tail(buffer))] = buffer[Len(buffer)]
      BY <2>1, <2>2
    <2>4. Tail(buffer) # <<>>
      <3>1. Tail(buffer) = <<>> => Len(Tail(buffer)) = 0
        BY EmptySeq, Zenon
      <3>2. Len(Tail(buffer)) = Len(buffer) - 1
        BY <2>2
      <3>3. Len(Tail(buffer)) # 0
        BY <2>1, <3>2
      <3> QED BY <3>1, <3>3
    <2> QED BY <1>1, <2>3, <2>4
  <1> QED BY <1>2, <1>3

LEMMA GateReopensStep == CountInv /\ GateReopens /\ [Next]_vars => GateReopens'
  <1> SUFFICES ASSUME CountInv, GateReopens, [Next]_vars PROVE GateReopens'
    OBVIOUS
  <1> USE DEF CountInv
  <1>1. ASSUME NEW r \in Requests, Request(r) PROVE GateReopens'
    BY <1>1 DEF Request, gateVars, GateReopens
  <1>2. CASE BeginDrain
    BY <1>2 DEF BeginDrain, GateReopens
  <1>3. CASE LoadActive
    <2>1. control' = "idle" => Store(FALSE)
      BY <1>3 DEF LoadActive
    <2> QED BY <2>1, LastStore DEF GateReopens
  <1>4. CASE Restore
    <2>1. control' = "idle" => Store(FALSE)
      BY <1>4 DEF Restore
    <2> QED BY <2>1, LastStore DEF GateReopens
  <1>5. CASE Flush
    BY <1>5, FlushKeepsLast
  <1>6. CASE UNCHANGED vars
    BY <1>6 DEF vars, GateReopens
  <1> QED BY <1>1, <1>2, <1>3, <1>4, <1>5, <1>6 DEF Next, Controller

\* A refused or failed disconnect always leaves the gate open, whichever way
\* the stores and loads are ordered.
THEOREM GateReopensHolds == Spec => []GateReopens
  <1>1. Init => GateReopens
    BY DEF Init, GateReopens
  <1> QED BY <1>1, GateReopensStep, CountInvHolds, PTL DEF Spec

-----------------------------------------------------------------------------
(* The gate, where a load waits for earlier stores *)

\* Once the store to draining is visible, and until the disconnect ends, nobody
\* gets past the second look; a counter of zero then leaves nobody inside.
GateInv ==
  /\ control = "load" => \/ buffer = <<>> /\ draining
                         \/ Len(buffer) = 1 /\ buffer[1]
  /\ control \in {"restore", "closed"} =>
       buffer = <<>> /\ draining /\ In(Served) = {}

\* The requests being served after a step of r, by where it went.
LEMMA ServedStep ==
  ASSUME TypeOK, Judged, NEW r \in Requests, Request(r)
  PROVE  \/ In(Served)' = In(Served)
         \/ /\ ~draining /\ pc[r] = "recheck"
            /\ In(Served)' = In(Served) \cup {r}
         \/ r \in In(Served) /\ In(Served)' = In(Served) \ {r}
  <1> USE DEF TypeOK, Moves, In, Served
  <1>1. CASE Arrive(r) BY <1>1 DEF Arrive
  <1>2. CASE Knock(r) BY <1>2 DEF Knock
  <1>3. CASE Count(r) BY <1>3 DEF Count, Judge
  <1>4. CASE Swap(r) BY <1>4 DEF Swap, Judge
  <1>5. CASE Recheck(r)
    <2>1. CASE draining BY <1>5, <2>1 DEF Recheck
    <2>2. CASE ~draining
      <3>1. pc' = [pc EXCEPT ![r] = "body"] /\ pc[r] = "recheck"
        BY <1>5, <2>2 DEF Recheck
      <3>2. \A s \in Requests : pc'[s] = IF s = r THEN "body" ELSE pc[s]
        BY <3>1
      <3>3. In(Served)' = {s \in Requests : pc'[s] \in Served}
        OBVIOUS
      <3>4. In(Served)' = In(Served) \cup {r}
        BY <3>2, <3>3
      <3> QED BY <3>1, <3>4, <2>2
    <2> QED BY <2>1, <2>2
  <1>6. CASE ReadBody(r) BY <1>6 DEF ReadBody
  <1>7. CASE Answer(r) BY <1>7 DEF Answer
  <1>8. CASE EndStream(r) BY <1>8 DEF EndStream
  <1>9. CASE GiveUp(r) BY <1>9 DEF GiveUp
  <1>10. CASE Leave(r) BY <1>10 DEF Leave
  <1> QED
    BY <1>1, <1>2, <1>3, <1>4, <1>5, <1>6, <1>7, <1>8, <1>9, <1>10 DEF Request

LEMMA GateInvStep ==
  ASSUME ~LoadOvertakes
  PROVE  CountInv /\ GateInv /\ [Next]_vars => GateInv'
  <1> SUFFICES ASSUME CountInv, GateInv, [Next]_vars PROVE GateInv'
    OBVIOUS
  <1>1. ASSUME NEW r \in Requests, Request(r) PROVE GateInv'
    <2>1. UNCHANGED gateVars
      BY <1>1 DEF Request
    <2>2. CASE control \in {"restore", "closed"}
      <3>1. draining /\ In(Served) = {}
        BY <2>2 DEF GateInv
      <3>2. In(Served)' = {}
        BY <1>1, <3>1, ServedStep DEF CountInv
      <3> QED BY <2>1, <2>2, <3>2 DEF gateVars, GateInv
    <2>3. CASE control \notin {"restore", "closed"}
      BY <2>1, <2>3 DEF gateVars, GateInv
    <2> QED BY <2>2, <2>3
  <1>2. CASE Controller
    <2>1. In(Served)' = In(Served)
      BY <1>2 DEF Controller, reqVars, In
    <2>2. CASE BeginDrain
      <3>1. buffer = <<>> /\ buffer' = Append(buffer, TRUE) /\ control' = "load"
        BY <2>2 DEF BeginDrain, Store
      <3>2. buffer \in Seq(BOOLEAN)
        BY DEF CountInv, TypeOK
      <3>3. Len(buffer') = 1 /\ buffer'[1] = TRUE
        BY <3>1, <3>2, AppendProperties, EmptySeq
      <3> QED BY <3>1, <3>3 DEF GateInv
    <2>3. CASE LoadActive
      <3>1. CASE active > 0
        BY <2>3, <3>1 DEF LoadActive, GateInv
      <3>2. CASE ~(active > 0)
        <4>1. Cardinality(In(Inside)) = 0
          BY <3>2 DEF CountInv, TypeOK, CounterExact
        <4>2. In(Inside) = {}
          BY <4>1, FS_EmptySet, FS_Subset, DrainGateAssumption DEF In
        <4>3. In(Served) = {}
          BY <4>2 DEF In, Inside
        <4>4. buffer = <<>> /\ draining
          <5>1. control = "load" /\ buffer = <<>>
            BY <2>3 DEF LoadActive, MayLoad
          <5>2. Len(buffer) # 1
            BY <5>1, EmptySeq
          <5> QED BY <5>1, <5>2 DEF GateInv
        <4> QED BY <2>3, <3>2, <2>1, <4>3, <4>4 DEF LoadActive, GateInv
      <3> QED BY <3>1, <3>2
    <2>4. CASE Restore
      BY <2>4, <2>1 DEF Restore, GateInv
    <2>5. CASE Flush
      <3>1. control = "load" => Len(buffer) = 1 /\ buffer[1]
        BY <2>5 DEF Flush, GateInv
      <3>2. Len(buffer) = 1 => Tail(buffer) = <<>> /\ Head(buffer) = buffer[1]
        BY <2>5, OneStore DEF CountInv, TypeOK, Flush
      <3>3. control = "load" => buffer' = <<>> /\ draining'
        BY <2>5, <3>1, <3>2, Zenon DEF Flush
      <3> QED BY <2>5, <2>1, <3>3 DEF Flush, GateInv
    <2> QED BY <1>2, <2>2, <2>3, <2>4, <2>5 DEF Controller
  <1>3. CASE UNCHANGED vars
    BY <1>3 DEF vars, GateInv, In
  <1> QED BY <1>1, <1>2, <1>3 DEF Next

LEMMA GateInvHolds == ASSUME ~LoadOvertakes PROVE Spec => []GateInv
  <1>1. Init => GateInv
    BY DEF Init, GateInv, In, Served
  <1>2. CountInv /\ GateInv /\ [Next]_vars => GateInv'
    BY GateInvStep
  <1> QED BY <1>1, <1>2, CountInvHolds, PTL DEF Spec

\* Where a load waits for earlier stores, the two looks at draining around the
\* increment are enough: once Codex has its provider back nothing is served.
THEOREM DrainSafeHolds == ASSUME ~LoadOvertakes PROVE Spec => []DrainSafe
  <1>1. GateInv => DrainSafe
    BY DEF GateInv, DrainSafe
  <1>2. Spec => []GateInv
    BY GateInvHolds
  <1> QED BY <1>1, <1>2, PTL

\* Every step of the handlers and of the controller is a step of the abstract
\* gate, or none.
LEMMA GateStep ==
  ASSUME CountInv, GateInv, [Next]_vars
  PROVE  [Gate!Next]_(Gate!vars)
  <1> USE DEF Gate!Next, Gate!vars
  <1>1. ASSUME NEW r \in Requests, Request(r) PROVE [Gate!Next]_(Gate!vars)
    <2>1. (control = "closed")' = (control = "closed")
      BY <1>1 DEF Request, gateVars
    <2>2. CASE In(Served)' = In(Served)
      BY <2>1, <2>2
    <2>3. CASE r \in In(Served) /\ In(Served)' = In(Served) \ {r}
      BY <2>1, <2>3 DEF Gate!Finish
    <2>4. CASE ~draining /\ pc[r] = "recheck" /\ In(Served)' = In(Served) \cup {r}
      <3>1. control # "closed"
        BY <2>4 DEF GateInv
      <3>2. r \in In(Inside) /\ r \notin In(Served) /\ In(Served) \subseteq In(Inside) \ {r}
        BY <2>4 DEF In, Inside, Served
      <3>3. IsFiniteSet(In(Inside))
        BY DrainGateAssumption, FS_Subset DEF In
      <3>4. /\ IsFiniteSet(In(Inside) \ {r})
            /\ Cardinality(In(Inside) \ {r}) = Cardinality(In(Inside)) - 1
        BY <3>2, <3>3, FS_RemoveElement
      <3>5. Cardinality(In(Served)) <= Cardinality(In(Inside) \ {r})
        BY <3>2, <3>4, FS_Subset
      <3>6. Cardinality(In(Served)) \in Nat
        BY <3>2, <3>4, FS_Subset, FS_CardinalityType
      <3>7. Cardinality(In(Served)) < MaxRequests
        BY <3>4, <3>5, <3>6, DrainGateAssumption DEF CountInv, CounterExact, TypeOK
      <3>8. UNCHANGED (control = "closed")
        BY <2>1
      <3>9. Gate!Cardinality(In(Served)) = Cardinality(In(Served))
        BY Zenon DEF Gate!Cardinality, Cardinality
      <3>10. Gate!Admit(r)
        BY <2>4, <3>1, <3>2, <3>7, <3>8, <3>9 DEF Gate!Admit
      <3> QED BY <3>10
    <2> QED BY <1>1, <2>2, <2>3, <2>4, ServedStep DEF CountInv
  <1>2. CASE Controller
    <2>1. In(Served)' = In(Served)
      BY <1>2 DEF Controller, reqVars, In
    <2>2. CASE control' = "closed" /\ control # "closed"
      <3>1. control = "restore"
        BY <1>2, <2>2 DEF Controller, BeginDrain, LoadActive, Restore, Flush
      <3> QED BY <2>1, <2>2, <3>1 DEF GateInv, Gate!Close
    <2>3. CASE (control' = "closed") = (control = "closed")
      BY <2>1, <2>3
    <2>4. control = "closed" => control' = "closed"
      BY <1>2 DEF Controller, BeginDrain, LoadActive, Restore, Flush
    <2> QED BY <2>2, <2>3, <2>4
  <1>3. CASE UNCHANGED vars
    BY <1>3 DEF vars, In
  <1> QED BY <1>1, <1>2, <1>3 DEF Next

\* Where a load waits for earlier stores, the server implements the abstract gate.
THEOREM ImplementsGateHolds == ASSUME ~LoadOvertakes PROVE Spec => ImplementsGate
  <1>1. Init => Gate!Init
    BY DEF Init, Gate!Init, In, Served
  <1>2. CountInv /\ GateInv /\ [Next]_vars => [Gate!Next]_(Gate!vars)
    BY GateStep
  <1>3. Spec => []GateInv
    BY GateInvHolds
  <1> QED BY <1>1, <1>2, <1>3, CountInvHolds, PTL DEF Spec, Gate!Spec, ImplementsGate
=============================================================================
