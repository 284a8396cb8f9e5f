--------------------------- MODULE MCConfigWorlds ---------------------------
(* ConfigTransaction in two worlds, each explored with the other at a start of *)
(* its own.  In the quiet one nobody writes config.toml in the middle of a     *)
(* transaction; in the moving one config.toml changes at any moment and        *)
(* CODEX_HOME may move at a restart.                                           *)
EXTENDS MCConfig

VARIABLES movingConfig, movingElsewhere, movingSnapshot, movingServing, movingOp

movingVars ==
  <<movingConfig, movingElsewhere, movingSnapshot, movingServing, movingOp>>

Moving ==
  INSTANCE ConfigTransaction
    WITH config <- movingConfig, elsewhere <- movingElsewhere,
         snapshot <- movingSnapshot, serving <- movingServing, op <- movingOp,
         EditsRace <- TRUE, HomeMoves <- TRUE

QuietAtRest ==
  config = EmptyDoc /\ elsewhere = NoFile /\ snapshot = NoSnapshot /\ serving = None /\ op = Idle

MovingAtRest ==
  /\ movingConfig = EmptyDoc /\ movingElsewhere = NoFile
  /\ movingSnapshot = NoSnapshot /\ movingServing = None /\ movingOp = Idle

\* Bound: in the moving world the user writes no URL of his own and leaves
\* chatgpt_base_url alone; a value that is not a string stands for what he writes.
Plain(file) ==
  /\ DocOf(file)["chatgpt"] = Absent
  /\ \A k \in Keys : DocOf(file)[k] \notin UserUrls \cup {c1}

MovingIsPlain == Plain(movingConfig) /\ Plain(movingElsewhere)

MCInit ==
  \/ Init /\ MovingAtRest
  \/ QuietAtRest /\ Moving!Init /\ MovingIsPlain

MCNext ==
  \/ MovingAtRest /\ Next /\ UNCHANGED movingVars
  \/ QuietAtRest /\ Moving!Next /\ MovingIsPlain' /\ UNCHANGED vars

MCSpec == MCInit /\ [][MCNext]_<<vars, movingVars>>

\* While a connection is live its snapshot is on disk, also when config.toml
\* changes under a transaction and a restart finds another Codex home: neither
\* an edit that slips in nor a stale snapshot leaves a live connection without
\* its way back (connect_with_snapshot, config.rs:134-174).
ServedHasSnapshotAnywhere == Moving!ServedHasSnapshot
=============================================================================
