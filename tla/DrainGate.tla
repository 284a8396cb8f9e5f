------------------------------ MODULE DrainGate ------------------------------
(***************************************************************************)
(* How requests enter and leave the loopback server while the controller   *)
(* tries to drain it: handle_request, ActiveRequestGuard and               *)
(* TransportControl (modules/transport/server.rs) against begin_drain,     *)
(* the restoration of Codex's config and resume_accepting in               *)
(* disconnect_internal (application/desktop_runtime.rs).                   *)
(*                                                                         *)
(* One step is one atomic access, or the wait between two of them.  The    *)
(* checks of handle_request before the first look at "draining" touch no   *)
(* shared state; a request that fails one never arrives here.  A store to  *)
(* "draining" waits in a store buffer before the handlers see it.  In      *)
(* begin_drain it is a Release store followed by an Acquire load of        *)
(* another location, so the load need not wait for it: LoadOvertakes says  *)
(* whether the build and its hardware let the load go first.               *)
(***************************************************************************)
EXTENDS Naturals, Sequences, FiniteSets

CONSTANTS
  Requests,       \* the connections that carry requests, one at a time each
  MaxRequests,    \* MAX_CONCURRENT_REQUESTS
  LoadOvertakes   \* may a load be performed before an earlier store?

ASSUME DrainGateAssumption ==
  /\ IsFiniteSet(Requests)
  /\ MaxRequests \in Nat \ {0}
  /\ LoadOvertakes \in BOOLEAN

VARIABLES
  pc,        \* where each request is in handle_request
  counted,   \* the value of active_requests its fetch_update loop read last
  active,    \* active_requests
  draining,  \* draining, as the handlers see it
  buffer,    \* stores to draining the handlers do not see yet
  control    \* where disconnect_internal is

vars == <<pc, counted, active, draining, buffer, control>>

reqVars == <<pc, counted, active>>
gateVars == <<draining, buffer, control>>

Served == {"body", "upstream", "stream"}
Inside == Served \cup {"recheck", "leave"}

In(stages) == {r \in Requests : pc[r] \in stages}

Init ==
  /\ pc = [r \in Requests |-> "out"]
  /\ counted = [r \in Requests |-> 0]
  /\ active = 0
  /\ draining = FALSE
  /\ buffer = <<>>
  /\ control = "idle"

-----------------------------------------------------------------------------
(* A request *)

Moves(r, from, to) == pc[r] = from /\ pc' = [pc EXCEPT ![r] = to]

Arrive(r) ==
  /\ Moves(r, "out", "knock")
  /\ UNCHANGED <<counted, active>>

\* The first look at draining: 503.
Knock(r) ==
  /\ Moves(r, "knock", IF draining THEN "out" ELSE "count")
  /\ UNCHANGED <<counted, active>>

\* The closure of fetch_update judges the counter it was just given: 429.
Judge(r, stage) ==
  /\ Moves(r, stage, IF active < MaxRequests THEN "swap" ELSE "out")
  /\ counted' = [counted EXCEPT ![r] = active]
  /\ UNCHANGED active

Count(r) == Judge(r, "count")

\* Mutant: a store in place of the compare-and-swap.
SwapBlind(r) ==
  /\ Moves(r, "swap", "recheck")
  /\ active' = counted[r] + 1
  /\ UNCHANGED counted

\* The compare-and-swap of fetch_update.  When it fails, because the counter
\* moved or for no reason, it returns the value to judge next.
Swap(r) ==
  \/ /\ active = counted[r]
     /\ Moves(r, "swap", "recheck")
     /\ active' = active + 1
     /\ UNCHANGED counted
  \/ Judge(r, "swap")

\* Mutant: no second look.
RecheckSkipped(r) ==
  /\ Moves(r, "recheck", "body")
  /\ UNCHANGED <<counted, active>>

\* The second look at draining: 503.
Recheck(r) ==
  /\ Moves(r, "recheck", IF draining THEN "leave" ELSE "body")
  /\ UNCHANGED <<counted, active>>

\* The body is read in full and prepared, or it is too large.
ReadBody(r) ==
  /\ Moves(r, "body", "upstream")
  /\ UNCHANGED <<counted, active>>

\* The provider answers, or cannot be reached: 502.
Answer(r) ==
  /\ Moves(r, "upstream", "stream")
  /\ UNCHANGED <<counted, active>>

\* The provider's stream ends or breaks.
EndStream(r) ==
  /\ Moves(r, "stream", "leave")
  /\ UNCHANGED <<counted, active>>

\* The handler returns an error, or the client goes away and the handler or
\* the response stream is dropped.
GiveUp(r) ==
  /\ \E stage \in Served : Moves(r, stage, "leave")
  /\ UNCHANGED <<counted, active>>

\* ActiveRequestGuard is dropped.
Leave(r) ==
  /\ Moves(r, "leave", "out")
  /\ active' = active - 1
  /\ UNCHANGED counted

Request(r) ==
  /\ \/ Arrive(r) \/ Knock(r) \/ Count(r) \/ Swap(r) \/ Recheck(r)
     \/ ReadBody(r) \/ Answer(r) \/ EndStream(r) \/ GiveUp(r) \/ Leave(r)
  /\ UNCHANGED gateVars

-----------------------------------------------------------------------------
(* The controller *)

Store(value) == buffer' = Append(buffer, value) /\ UNCHANGED draining

MayLoad == LoadOvertakes \/ buffer = <<>>

\* begin_drain stores the flag; taking the operation lock before that has
\* made every earlier store visible.
BeginDrain ==
  /\ control = "idle"
  /\ buffer = <<>>
  /\ control' = "load"
  /\ Store(TRUE)

\* Mutant: a refused disconnect leaves the gate shut.
LoadActiveStaysShut ==
  /\ control = "load" /\ MayLoad
  /\ control' = IF active > 0 THEN "idle" ELSE "restore"
  /\ UNCHANGED <<draining, buffer>>

\* Mutant: the counter is not looked at.
LoadActiveIgnored ==
  /\ control = "load" /\ MayLoad
  /\ control' = "restore"
  /\ UNCHANGED <<draining, buffer>>

\* begin_drain loads the counter; a request that is still active refuses the
\* disconnect, and admission is resumed.
LoadActive ==
  /\ control = "load" /\ MayLoad
  /\ IF active > 0
     THEN control' = "idle" /\ Store(FALSE)
     ELSE control' = "restore" /\ UNCHANGED <<draining, buffer>>

\* disconnect_native_codex succeeds and the connection is taken down, or it
\* fails and admission is resumed.
Restore ==
  /\ control = "restore"
  /\ \/ control' = "closed" /\ UNCHANGED <<draining, buffer>>
     \/ control' = "idle" /\ Store(FALSE)

\* The oldest buffered store becomes visible.
Flush ==
  /\ buffer # <<>>
  /\ draining' = Head(buffer)
  /\ buffer' = Tail(buffer)
  /\ UNCHANGED control

Controller ==
  /\ BeginDrain \/ LoadActive \/ Restore \/ Flush
  /\ UNCHANGED reqVars

Next == Controller \/ \E r \in Requests : Request(r)

Spec == Init /\ [][Next]_vars

-----------------------------------------------------------------------------
(* Properties *)

TypeOK ==
  /\ pc \in [Requests -> Inside \cup {"out", "knock", "count", "swap"}]
  /\ counted \in [Requests -> Nat]
  /\ active \in Nat
  /\ draining \in BOOLEAN
  /\ buffer \in Seq(BOOLEAN)
  /\ control \in {"idle", "load", "restore", "closed"}

\* active_requests is the number of guards alive, through every lost race of
\* the compare-and-swap and every way out of the handler, and never above the
\* limit (server.rs:192-206).
CounterExact ==
  /\ active = Cardinality(In(Inside))
  /\ active <= MaxRequests

\* Once Codex has its own provider back, no request is being served: a zero
\* from begin_drain was the truth and stayed the truth (server.rs:101-106).
DrainSafe == control = "closed" => In(Served) = {}

\* A disconnect that is refused or fails leaves the server open: requests are
\* turned away only while a disconnect is under way or after it succeeded
\* (server.rs:108-111).
GateReopens ==
  control = "idle" => IF buffer = <<>> THEN ~draining ELSE ~buffer[Len(buffer)]

Gate == INSTANCE AdmissionGate
          WITH served <- In(Served), closed <- control = "closed"

\* The gate admits a request, lets one go and closes in single steps, however
\* the accesses of the handlers and of the controller interleave.
ImplementsGate == Gate!Spec
=============================================================================
