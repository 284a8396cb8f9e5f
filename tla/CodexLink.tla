------------------------------ MODULE CodexLink ------------------------------
(***************************************************************************)
(* What connecting and disconnecting Codex promise, each in one step: the  *)
(* effect of connect_with_snapshot and disconnect_with_snapshot            *)
(* (modules/codex_integration/config.rs) on the restoration snapshot and   *)
(* on config.toml, whatever fails on the way.                              *)
(*                                                                         *)
(* config.toml is seen relative to the snapshot:                           *)
(*   "own"     the user's own values                                       *)
(*   "ours"    all that TokenSaver installed                               *)
(*   "mixed"   still pointed at TokenSaver, another owned value changed    *)
(*   "other"   missing, or pointed elsewhere, and not the user's own       *)
(*   "broken"  cannot be understood any more                               *)
(***************************************************************************)

VARIABLES
  snapshot,  \* does codex-config-snapshot.json exist?
  config,    \* config.toml, relative to the snapshot
  live       \* is the endpoint it names being served?

Views == {"own", "ours", "mixed", "other", "broken"}
PointedHere == {"ours", "mixed"}
Foreign == Views \ PointedHere

Init == ~snapshot /\ config = "own" /\ ~live

\* connection_state_with_snapshot.
FileState ==
  IF ~snapshot \/ config = "own" THEN "NotConnected"
  ELSE IF config = "ours" THEN "Connected"
  ELSE IF config = "broken" THEN "unreadable" ELSE "Drifted"

-----------------------------------------------------------------------------

\* Connecting: drift refuses it, and a file that cannot be understood.
Install ==
  /\ snapshot => config \in {"own", "ours"}
  /\ snapshot' = TRUE
  /\ config' = "ours"

\* It stops on the way: the snapshot of an earlier connection may be gone, or
\* the new one may be left beside a config.toml that was not written.
InstallFails ==
  /\ snapshot => config = "own"
  /\ \/ snapshot' = FALSE /\ config' = "own"
     \/ snapshot' = TRUE /\ config' \in Foreign

\* Disconnecting restores nothing but what TokenSaver installed.
Withdraw ==
  /\ snapshot /\ config = "ours"
  /\ snapshot' = FALSE
  /\ config' = "own"

\* It stops on the way, before or after config.toml was written.
WithdrawFails ==
  /\ snapshot /\ config = "ours"
  /\ snapshot' = TRUE
  /\ config' \in Views

\* Only TokenSaver makes Codex point at TokenSaver.
UserEdits ==
  /\ snapshot
  /\ config' \in IF config \in PointedHere THEN Views ELSE Foreign
  /\ UNCHANGED snapshot

-----------------------------------------------------------------------------

Connect ==
  /\ ~live
  /\ \/ Install /\ live' = TRUE
     \/ InstallFails /\ live' = FALSE

Disconnect ==
  /\ live
  /\ \/ Withdraw /\ live' = FALSE
     \/ WithdrawFails /\ live' = TRUE

\* The process dies, between two operations or in the middle of one.
Die ==
  /\ live' = FALSE
  /\ \/ UNCHANGED <<snapshot, config>>
     \/ IF live THEN WithdrawFails ELSE InstallFails

Next == Connect \/ Disconnect \/ Die \/ (UserEdits /\ UNCHANGED live)

Spec == Init /\ [][Next]_<<snapshot, config, live>>

-----------------------------------------------------------------------------

\* As long as an endpoint is served, or config.toml points at TokenSaver whether
\* or not anybody still serves it, the snapshot that undoes the connection is on
\* disk: the next launch finds it and connects again (desktop_runtime.rs:234).
WayBack == live \/ config \in PointedHere => snapshot
=============================================================================
