-------------------------- MODULE ConfigRefinement --------------------------
(***************************************************************************)
(* ConfigTransaction implements ConfigLease: the lease is what the         *)
(* snapshot installed as long as one of its values is still in             *)
(* config.toml, and the user's document is config.toml with the snapshot's *)
(* original values under the keys that are lent.                           *)
(*                                                                         *)
(* It also implements CodexLink, the view the desktop runtime has of it:   *)
(* an operation shows nothing of what it does before it is over.           *)
(***************************************************************************)
EXTENDS ConfigTransaction

doc == DocOf(config)

\* The keys that hold what TokenSaver installed.
Lent ==
  IF snapshot = NoSnapshot THEN {}
  ELSE {k \in DOMAIN snapshot.installed : doc[k] = snapshot.installed[k]}

userDoc ==
  [k \in Keys |-> IF k \notin Lent THEN doc[k]
                  ELSE IF k = "openai" THEN snapshot.original ELSE Absent]

leaseOf == IF Lent = {} THEN [k \in {} |-> Absent] ELSE snapshot.installed

takenOf == IF Lent = {} THEN {} ELSE DOMAIN snapshot.installed \ Lent

Lease == INSTANCE ConfigLease WITH user <- userDoc, lease <- leaseOf, taken <- takenOf

\* As long as nobody writes config.toml in the middle of a transaction, what
\* the user sees is always the user's own document under TokenSaver's values,
\* installed at once and given back at once, whatever fails or crashes
\* (connect_with_snapshot and disconnect_with_snapshot, config.rs:134-188).
ImplementsLease == Lease!Spec

-----------------------------------------------------------------------------

\* config.toml relative to a snapshot, or to none.
View(file, snap) ==
  IF snap = NoSnapshot THEN IF Managed(file) THEN "mixed" ELSE "own"
  ELSE IF ConnectionState(file, snap) = "NotConnected" THEN "own"
  ELSE IF ConnectionState(file, snap) = "Connected" THEN "ours"
  ELSE IF ConnectionState(file, snap) = "Error" THEN "broken"
  ELSE IF Managed(file) THEN "mixed" ELSE "other"

\* A connect that has not shown what it is about to do, a disconnect that has
\* not shown what it did.
Connecting == op.pc \in {"write", "rollback"}
Disconnecting == op.pc \in {"put", "forget"}

linkSnapshot == snapshot # NoSnapshot /\ ~Connecting

linkConfig ==
  IF Connecting \/ At("discard") THEN "own"
  ELSE IF Disconnecting THEN "ours" ELSE View(config, snapshot)

Link ==
  INSTANCE CodexLink
    WITH snapshot <- linkSnapshot, config <- linkConfig, live <- serving # None

\* Whatever fails or crashes between the file operations, and whatever the user
\* writes between them, connecting and disconnecting are each one step with the
\* outcomes the desktop runtime counts on (config.rs:134-188).
ImplementsLink == Link!Spec
=============================================================================
