----------------------------- MODULE ConfigLease -----------------------------
(***************************************************************************)
(* What TokenSaver promises the owner of config.toml: it borrows some      *)
(* keys, all of them in one step, and gives them back in one step.  Until  *)
(* then the document is the user's with the borrowed values laid over it;  *)
(* a key the user sets is the user's again, and one taken key is enough    *)
(* for TokenSaver to stop writing until the user has taken back the rest.  *)
(***************************************************************************)
EXTENDS CodexConfig

VARIABLES
  user,   \* the document as the user alone would have it
  lease,  \* the borrowed keys with the values installed under them
  taken   \* the borrowed keys the user has set since

vars == <<user, lease, taken>>

NoLease == [k \in {} |-> Absent]

Visible ==
  [k \in Keys |-> IF k \in DOMAIN lease \ taken THEN lease[k] ELSE user[k]]

Init ==
  /\ user \in Docs
  /\ lease = NoLease
  /\ taken = {}

Borrow ==
  /\ lease = NoLease
  /\ Connectable(user)
  /\ \E e \in Endpoints : lease' = Installed(user, e)
  /\ UNCHANGED <<user, taken>>

GiveBack ==
  /\ lease # NoLease
  /\ taken = {}
  /\ lease' = NoLease
  /\ UNCHANGED <<user, taken>>

\* The user sets the keys K to the values d has for them.
Edit(K, d) ==
  LET owned == (taken \cup K) \cap DOMAIN lease
  IN /\ user' = [k \in Keys |-> IF k \in K THEN d[k] ELSE user[k]]
     /\ IF owned = DOMAIN lease
        THEN lease' = NoLease /\ taken' = {}
        ELSE taken' = owned /\ UNCHANGED lease

Next ==
  \/ Borrow
  \/ GiveBack
  \/ \E k \in Keys, v \in UserValues : Edit({k}, [EmptyDoc EXCEPT ![k] = v])
  \/ Edit(Keys, EmptyDoc)

Spec == Init /\ [][Next]_vars
=============================================================================
