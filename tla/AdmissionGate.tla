---------------------------- MODULE AdmissionGate ----------------------------
(***************************************************************************)
(* What the loopback server promises the controller: at most MaxRequests   *)
(* requests are being served at a time, and once the controller has taken  *)
(* Codex off the server none is being served and none ever will be.        *)
(***************************************************************************)
EXTENDS Naturals, FiniteSets

CONSTANTS
  Requests,    \* the requests Codex makes
  MaxRequests  \* MAX_CONCURRENT_REQUESTS

VARIABLES
  served,  \* the requests being served
  closed   \* Codex has its own provider back

vars == <<served, closed>>

Init == served = {} /\ closed = FALSE

Admit(r) ==
  /\ ~closed
  /\ r \notin served
  /\ Cardinality(served) < MaxRequests
  /\ served' = served \cup {r}
  /\ UNCHANGED closed

Finish(r) ==
  /\ r \in served
  /\ served' = served \ {r}
  /\ UNCHANGED closed

Close ==
  /\ served = {}
  /\ ~closed
  /\ closed' = TRUE
  /\ UNCHANGED served

Next == Close \/ \E r \in Requests : Admit(r) \/ Finish(r)

Spec == Init /\ [][Next]_vars
=============================================================================
