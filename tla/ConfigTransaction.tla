-------------------------- MODULE ConfigTransaction --------------------------
(***************************************************************************)
(* Connecting Codex to TokenSaver and disconnecting it, one file operation *)
(* per step: prepare_native_codex_connection_at and                        *)
(* disconnect_native_codex (application/codex_connection.rs) with          *)
(* connect_with_snapshot and disconnect_with_snapshot                      *)
(* (modules/codex_integration/config.rs).  Every file operation may fail,  *)
(* the process may die between any two of them, and the user (or Codex     *)
(* itself) edits config.toml at any time.                                  *)
(***************************************************************************)
EXTENDS CodexConfig

CONSTANTS
  None,       \* no endpoint, no text
  EditsRace,  \* may config.toml change between TokenSaver's read and write?
  HomeMoves   \* may CODEX_HOME name another directory after a restart?

ASSUME ConfigTransactionAssumption ==
  /\ EditsRace \in BOOLEAN
  /\ HomeMoves \in BOOLEAN
  /\ None \notin Endpoints \cup Files

VARIABLES
  config,     \* config.toml in the Codex home the process resolved
  elsewhere,  \* config.toml in the other Codex home
  snapshot,   \* codex-config-snapshot.json
  serving,    \* the endpoint of the live connection, or None
  op          \* the operation under way: where it is, what it has read

vars == <<config, elsewhere, snapshot, serving, op>>

Idle == [pc |-> "idle", endpoint |-> None, seen |-> None]

At(pc) == op.pc = pc
Goto(pc, endpoint, seen) ==
  op' = [pc |-> pc, endpoint |-> endpoint, seen |-> seen]
Return == op' = Idle

-----------------------------------------------------------------------------
(* Connect *)

\* The endpoint of a snapshot on disk is reused; otherwise the port and the
\* capability are new.  A second connect on a live connection does nothing.
BeginConnect(e) ==
  /\ At("idle")
  /\ serving = None
  /\ snapshot # NoSnapshot => e = EndpointOf(snapshot)
  /\ Goto("bind", e, None)
  /\ UNCHANGED <<config, elsewhere, snapshot, serving>>

\* The loopback port is bound, or taken.
Bind ==
  /\ At("bind")
  /\ \/ Goto(IF snapshot = NoSnapshot THEN "read" ELSE "inspect", op.endpoint, None)
     \/ Return
  /\ UNCHANGED <<config, elsewhere, snapshot, serving>>

\* An existing snapshot decides by what config.toml says now.  Drift, another
\* endpoint and a file that cannot be read all end in an error.
Inspect ==
  /\ At("inspect")
  /\ \/ /\ ConnectionState(config, snapshot) = "Connected"
        /\ EndpointOf(snapshot) = op.endpoint
        /\ serving' = op.endpoint
        /\ Return
     \/ /\ ConnectionState(config, snapshot) = "NotConnected"
        /\ Goto("discard", op.endpoint, None)
        /\ UNCHANGED serving
     \/ Return /\ UNCHANGED serving
  /\ UNCHANGED <<config, elsewhere, snapshot>>

Discard ==
  /\ At("discard")
  /\ \/ snapshot' = NoSnapshot /\ Goto("read", op.endpoint, None)
     \/ Return /\ UNCHANGED snapshot
  /\ UNCHANGED <<config, elsewhere, serving>>

\* Mutant: the snapshot is not saved before config.toml is written.
ReadUnsaved ==
  /\ At("read")
  /\ \/ /\ Connectable(DocOf(config))
        /\ Goto("write", op.endpoint, config)
     \/ Return
  /\ UNCHANGED <<config, elsewhere, snapshot, serving>>

Read ==
  /\ At("read")
  /\ \/ /\ Connectable(DocOf(config))
        /\ Goto("save", op.endpoint, config)
     \/ Return
  /\ UNCHANGED <<config, elsewhere, snapshot, serving>>

Save ==
  /\ At("save")
  /\ \/ /\ snapshot' = SnapshotOf(DocOf(op.seen), op.endpoint)
        /\ Goto("write", op.endpoint, op.seen)
     \/ Return /\ UNCHANGED snapshot
  /\ UNCHANGED <<config, elsewhere, serving>>

\* Mutant: an edit that slipped in counts as a failed write, and only half of
\* the way back is taken.
WriteBacksOut ==
  /\ At("write")
  /\ \/ /\ config' = ConnectText(DocOf(op.seen), op.endpoint)
        /\ serving' = op.endpoint
        /\ snapshot' = IF config = op.seen THEN snapshot ELSE NoSnapshot
        /\ Return
     \/ /\ Goto("rollback", op.endpoint, None)
        /\ UNCHANGED <<config, snapshot, serving>>
  /\ UNCHANGED elsewhere

Write ==
  /\ At("write")
  /\ \/ /\ config' = ConnectText(DocOf(op.seen), op.endpoint)
        /\ serving' = op.endpoint
        /\ Return
     \/ /\ Goto("rollback", op.endpoint, None)
        /\ UNCHANGED <<config, serving>>
  /\ UNCHANGED <<elsewhere, snapshot>>

\* The result of removing the snapshot again is ignored.
Rollback ==
  /\ At("rollback")
  /\ snapshot' \in {NoSnapshot, snapshot}
  /\ Return
  /\ UNCHANGED <<config, elsewhere, serving>>

-----------------------------------------------------------------------------
(* Disconnect *)

BeginDisconnect ==
  /\ At("idle")
  /\ serving # None
  /\ \/ snapshot # NoSnapshot /\ Goto("restore", None, None)
     \/ Return
  /\ UNCHANGED <<config, elsewhere, snapshot, serving>>

\* Mutant: the values found are not compared with those installed.
RestoreOverDrift ==
  /\ At("restore")
  /\ \/ /\ config # NoFile
        /\ Goto("put", None, config)
     \/ Return
  /\ UNCHANGED <<config, elsewhere, snapshot, serving>>

\* A missing file, or an owned value that changed, refuses the restoration.
Restore ==
  /\ At("restore")
  /\ \/ /\ config # NoFile
        /\ OwnedIntact(config, snapshot)
        /\ Goto("put", None, config)
     \/ Return
  /\ UNCHANGED <<config, elsewhere, snapshot, serving>>

Put ==
  /\ At("put")
  /\ \/ /\ config' = DisconnectText(op.seen, snapshot)
        /\ Goto("forget", None, None)
     \/ Return /\ UNCHANGED config
  /\ UNCHANGED <<elsewhere, snapshot, serving>>

\* Mutant: the connection outlives its snapshot.
ForgetKeepsServing ==
  /\ At("forget")
  /\ snapshot' \in {NoSnapshot, snapshot}
  /\ Return
  /\ UNCHANGED <<config, elsewhere, serving>>

Forget ==
  /\ At("forget")
  /\ \/ snapshot' = NoSnapshot /\ serving' = None
     \/ UNCHANGED <<snapshot, serving>>
  /\ Return
  /\ UNCHANGED <<config, elsewhere>>

-----------------------------------------------------------------------------
(* The environment *)

\* The process dies or is killed; the files stay.  The next one may resolve
\* another Codex home.
Crash ==
  /\ serving' = None
  /\ Return
  /\ \/ UNCHANGED <<config, elsewhere>>
     \/ HomeMoves /\ config' = elsewhere /\ elsewhere' = config
  /\ UNCHANGED snapshot

MayEdit == EditsRace \/ op.seen = None

UserEdit(k, v) ==
  /\ MayEdit
  /\ v # DocOf(config)[k]
  /\ config' = [DocOf(config) EXCEPT ![k] = v]
  /\ UNCHANGED <<elsewhere, snapshot, serving, op>>

UserDelete ==
  /\ MayEdit
  /\ config # NoFile
  /\ config' = NoFile
  /\ UNCHANGED <<elsewhere, snapshot, serving, op>>

-----------------------------------------------------------------------------

\* Before TokenSaver ran, the files hold what the user wrote: no endpoint, but
\* perhaps the same native realtime URLs TokenSaver would have derived.
UserDocs == {d \in Docs : d["openai"] \notin Endpoints}

Init ==
  /\ config \in UserDocs \cup {NoFile}
  /\ elsewhere \in UserDocs \cup {NoFile}
  /\ ~HomeMoves => elsewhere = NoFile   \* a home never used is left out
  /\ snapshot = NoSnapshot
  /\ serving = None
  /\ op = Idle

Connect ==
  \/ \E e \in Endpoints : BeginConnect(e)
  \/ Bind \/ Inspect \/ Discard \/ Read \/ Save \/ Write \/ Rollback

Disconnect == BeginDisconnect \/ Restore \/ Put \/ Forget

Environment ==
  \/ Crash
  \/ \E k \in Keys, v \in UserValues : UserEdit(k, v)
  \/ UserDelete

Next == Connect \/ Disconnect \/ Environment

Spec == Init /\ [][Next]_vars

-----------------------------------------------------------------------------
(* Properties *)

TypeOK ==
  /\ config \in Files
  /\ elsewhere \in Files
  /\ snapshot \in Snapshots \cup {NoSnapshot}
  /\ serving \in Endpoints \cup {None}
  /\ op \in [pc : {"idle", "bind", "inspect", "discard", "read", "save",
                    "write", "rollback", "restore", "put", "forget"},
             endpoint : Endpoints \cup {None},
             seen : Files \cup {None}]

\* Codex is pointed at TokenSaver.
Managed(file) == DocOf(file)["openai"] \in Endpoints

\* Wherever a config.toml points Codex at a TokenSaver endpoint, the snapshot
\* that can undo it is on disk, names that endpoint, and remembers a value of
\* the user's, never another TokenSaver endpoint: after any crash and any
\* failed file operation Codex can still be given back its own provider
\* ("The restoration snapshot is durably written before the Codex config is
\* changed", config.rs:132).
Restorable ==
  \A file \in {config, elsewhere} :
    Managed(file) => /\ snapshot # NoSnapshot
                     /\ EndpointOf(snapshot) = DocOf(file)["openai"]
                     /\ snapshot.original \notin Endpoints

\* While a connection is live its snapshot is on disk: whatever happened to
\* config.toml, the values that were there before are not forgotten.
ServedHasSnapshot ==
  serving # None => snapshot # NoSnapshot /\ EndpointOf(snapshot) = serving

\* A config.toml that points at TokenSaver points at the endpoint that is being
\* served, never at one that a restart left behind
\* (docs/CODEX_TRANSPORT_CONTRACT.md:121, "silently rotating the endpoint").
PointsAtServed ==
  serving # None /\ Managed(config) => config["openai"] = serving

\* What TokenSaver writes replaces exactly the text it checked: an edit that
\* slipped in after the check is drift and must be refused, not overwritten.
ReplacesWhatItRead ==
  [][op.pc \in {"write", "put"} /\ op'.seen = None /\ config' # config /\ op' # op
       => config = op.seen]_vars
=============================================================================
