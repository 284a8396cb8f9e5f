--------------------------- MODULE DesktopRuntime ---------------------------
(***************************************************************************)
(* The menu-bar application: DesktopRuntimeController                      *)
(* (application/desktop_runtime.rs) with the shell that starts and quits   *)
(* it (desktop/mod.rs).  Operations come from the menu and from the CLI's  *)
(* control socket, each in a task of its own; the controller's operation   *)
(* lock serialises them, but quitting and the health refresh look at the   *)
(* connection without it.  File operations may fail, the process may die,  *)
(* and the user edits config.toml.                                         *)
(*                                                                         *)
(* Connecting and disconnecting Codex take one step each here, with the    *)
(* outcomes CodexLink allows; ConfigTransaction implements CodexLink one   *)
(* file operation at a time.                                               *)
(***************************************************************************)
EXTENDS Naturals

CONSTANTS
  Tasks,      \* tasks that can be running at once
  Boot,       \* the task that initialises the controller
  Policies,   \* structural aging policies
  NoOne,      \* no task, no connection, no argument
  MaxEvents,  \* bound on commands, edits, crashes and control failures
  MaxFaults   \* bound on file operations that fail

ASSUME DesktopRuntimeAssumption ==
  /\ Boot \notin Tasks
  /\ NoOne \notin Tasks \cup {Boot}
  /\ NoOne \notin [saving : BOOLEAN, policy : Policies]
  /\ MaxEvents \in Nat /\ MaxFaults \in Nat

VARIABLES
  app,       \* "up", "down" after a crash, "exited" or "prepared" to uninstall
  disk,      \* runtime-preferences.json
  prefs,     \* RuntimePreferencesStore.preferences
  snapshot,  \* does codex-config-snapshot.json exist?
  config,    \* config.toml, relative to the snapshot
  conn,      \* ControllerInner.connection with its transport's AgingPolicy
  requests,  \* active requests of the transport
  draining,  \* TransportControl.draining
  status,    \* RuntimeStatusStore
  lock,      \* the task that holds the operation lock
  task,      \* what every task is doing
  exiting,   \* shutdown_in_progress
  tick,      \* what the health refresh has seen
  events, faults  \* how many events and faults there were

files == <<snapshot, config>>
budget == <<events, faults>>
link == <<conn, draining>>
vars == <<app, disk, prefs, files, link, requests, status, lock, task, exiting, tick, budget>>

Everyone == Tasks \cup {Boot}
Idle == [op |-> "none", pc |-> "idle", arg |-> NoOne]

Connects == {"connect", "init"}
Clears == {"disconnect", "reconnect", "uninstall"}  \* disconnect_internal(true)
Disconnects == Clears \cup {"quit"}
Exits == {"quit", "uninstall"}

\* A file operation fails, or all of a step's file operations succeed.
Fault == faults < MaxFaults /\ faults' = faults + 1 /\ UNCHANGED events
NoFault == UNCHANGED budget
Event == events < MaxEvents /\ events' = events + 1 /\ UNCHANGED faults

At(t, ops, pc) == app = "up" /\ task[t].op \in ops /\ task[t].pc = pc
Step(t, pc) == task' = [task EXCEPT ![t].pc = pc]
Show(service, codex) == status' = [status EXCEPT !.service = service, !.codex = codex]

\* Mutant: the guard of the lock is leaked.
ReleaseForgotten(t) == lock' = lock

\* The task returns and lets go of the lock if it holds it.
Release(t) == lock' = IF lock = t THEN NoOne ELSE lock
Fail(t) ==
  /\ task' = [task EXCEPT ![t] = Idle]
  /\ Release(t)
  /\ exiting' = (exiting /\ task[t].op \notin Exits)

\* A setter changes the preferences in memory and then saves all of them.
Set(p) == prefs' = p
\* Mutant: the preferences only change in memory.
SavedInMemory == UNCHANGED disk /\ NoFault

Saved == disk' = prefs' /\ NoFault
NotSaved == UNCHANGED disk /\ Fault

\* The endpoint is served from the moment the connection is prepared until
\* config.toml has been restored.
Live ==
  \/ \E t \in Everyone : task[t].pc = "publish"
  \/ conn # NoOne /\ \A t \in Everyone : task[t].pc # "takedown"

Codex == INSTANCE CodexLink WITH live <- Live

\* Mutant: any state that could be read passes for connected.
HealthyUnlessUnreadable(state) ==
  IF state # "unreadable" THEN Show("Running", "Connected") ELSE Show(status.service, "Error")

\* The match at the end of refresh_connection_health.
Healthy(state) ==
  IF state = "Connected"
  THEN IF status.service = "Error" THEN Show("Error", "Error") ELSE Show("Running", "Connected")
  ELSE Show(status.service, IF state = "Drifted" THEN "Drifted" ELSE "Error")

-----------------------------------------------------------------------------
(* connect *)

\* Mutant: nobody looks for a live connection.
BeginConnectAgain(t) ==
  /\ At(t, Connects, "lock")
  /\ lock = NoOne
  /\ Set([prefs EXCEPT !.connect = TRUE])
  /\ Saved
  /\ Show("Starting", "Connecting")
  /\ lock' = t
  /\ Step(t, "prepare")
  /\ UNCHANGED <<app, files, link, requests, exiting, tick>>

\* A live connection is only looked at again; otherwise the wish to be
\* connected is saved first.  initialize reports the failure itself.
BeginConnect(t) ==
  /\ At(t, Connects, "lock")
  /\ lock = NoOne
  /\ \/ /\ conn # NoOne
        /\ Healthy(Codex!FileState)
        /\ task' = [task EXCEPT ![t] = Idle]
        /\ UNCHANGED <<prefs, disk, lock, exiting, budget>>
     \/ /\ conn = NoOne
        /\ Set([prefs EXCEPT !.connect = TRUE])
        /\ \/ /\ Saved
              /\ Show("Starting", "Connecting")
              /\ lock' = t
              /\ Step(t, "prepare")
              /\ UNCHANGED exiting
           \/ /\ NotSaved
              /\ IF task[t].op = "init" THEN Show("Running", "Error") ELSE UNCHANGED status
              /\ Fail(t)
  /\ UNCHANGED <<app, files, link, requests, tick>>

\* prepare_native_codex_connection.  A fault strikes before the files change, or
\* leaves them as a connect that stopped on the way.
Prepare(t) ==
  /\ At(t, Connects, "prepare")
  /\ \/ /\ Codex!Install
        /\ Step(t, "publish")
        /\ NoFault
        /\ UNCHANGED <<status, lock, exiting>>
     \/ /\ \/ snapshot /\ config \notin {"own", "ours"} /\ NoFault /\ UNCHANGED files
           \/ Fault /\ (Codex!InstallFails \/ UNCHANGED files)
        /\ Show("Running", "Error")
        /\ Fail(t)
  /\ UNCHANGED <<app, prefs, disk, link, requests, tick>>

Publish(t) ==
  /\ At(t, Connects, "publish")
  /\ conn' = [saving |-> prefs.saving, policy |-> prefs.policy]
  /\ Step(t, "announce")
  /\ UNCHANGED <<app, prefs, disk, files, draining, requests, status, lock, exiting, tick, budget>>

Announce(t) ==
  /\ At(t, Connects, "announce")
  /\ status' = [service |-> "Running", codex |-> "Connected", saving |-> prefs.saving]
  /\ Fail(t)
  /\ UNCHANGED <<app, prefs, disk, files, link, requests, tick, budget>>

-----------------------------------------------------------------------------
(* disconnect, and quitting *)

\* safe_shutdown looks for a connection before it takes the lock.
AskToQuit(t) ==
  /\ At(t, {"quit"}, "ask")
  /\ Step(t, IF conn # NoOne THEN "lock" ELSE "flush")
  /\ UNCHANGED <<app, prefs, disk, files, link, requests, status, lock, exiting, tick, budget>>

\* Mutant: active requests do not refuse the disconnect.
BeginDisconnectAnyway(t) ==
  /\ At(t, Disconnects, "lock")
  /\ lock = NoOne
  /\ lock' = t
  /\ Step(t, IF conn = NoOne THEN "settle" ELSE "restore")
  /\ draining' = (conn # NoOne)
  /\ UNCHANGED <<app, prefs, disk, files, conn, requests, status, exiting, tick, budget>>

\* Without a connection only the wish and the status change.  An active request
\* refuses the disconnect (DrainGate shows how that is decided).
BeginDisconnect(t) ==
  /\ At(t, Disconnects, "lock")
  /\ lock = NoOne
  /\ IF conn = NoOne
     THEN Step(t, "settle") /\ lock' = t /\ UNCHANGED <<draining, exiting>>
     ELSE IF requests > 0
     THEN Fail(t) /\ UNCHANGED draining
     ELSE Step(t, "restore") /\ lock' = t /\ draining' = TRUE /\ UNCHANGED exiting
  /\ UNCHANGED <<app, prefs, disk, files, conn, requests, status, tick, budget>>

\* disconnect_native_codex; drift refuses it.
Restore(t) ==
  /\ At(t, Disconnects, "restore")
  /\ \/ /\ Codex!Withdraw
        /\ Step(t, "takedown")
        /\ NoFault
        /\ UNCHANGED <<draining, status, lock, exiting>>
     \/ /\ \/ ~(snapshot /\ config = "ours") /\ NoFault /\ UNCHANGED files
           \/ Fault /\ Codex!WithdrawFails
        /\ draining' = FALSE
        /\ Show("Running", "Error")
        /\ Fail(t)
  /\ UNCHANGED <<app, prefs, disk, conn, requests, tick>>

\* The connection is taken and its server aborted.
TakeDown(t) ==
  /\ At(t, Disconnects, "takedown")
  /\ conn' = NoOne
  /\ draining' = FALSE
  /\ Step(t, "settle")
  /\ UNCHANGED <<app, prefs, disk, files, requests, status, lock, exiting, tick, budget>>

Settle(t) ==
  /\ At(t, Disconnects, "settle")
  /\ \/ /\ IF task[t].op \in Clears
           THEN Set([prefs EXCEPT !.connect = FALSE]) /\ Saved
           ELSE UNCHANGED <<prefs, disk, budget>>
        /\ Show("Running", "Disconnected")
        /\ Step(t, "flush")
        /\ UNCHANGED <<lock, exiting>>
     \/ /\ task[t].op \in Clears
        /\ Set([prefs EXCEPT !.connect = FALSE]) /\ NotSaved
        /\ Fail(t)
        /\ UNCHANGED status
  /\ UNCHANGED <<app, files, link, requests, tick>>

\* flush_persistent; a reconnect goes on to connect, quitting goes on to exit.
Flush(t) ==
  /\ At(t, Disconnects, "flush")
  /\ \/ /\ NoFault
        /\ task' = [task EXCEPT ![t] =
             IF task[t].op \in Exits THEN [@ EXCEPT !.pc = "exit"]
             ELSE IF task[t].op = "reconnect" THEN [@ EXCEPT !.op = "connect", !.pc = "lock"]
             ELSE Idle]
        /\ Release(t)
        /\ UNCHANGED exiting
     \/ Fault /\ Fail(t)
  /\ UNCHANGED <<app, prefs, disk, files, link, requests, status, tick>>

-----------------------------------------------------------------------------
(* Preferences *)

\* Mutant: the live transport is not told.
SetSavingOffline(t) ==
  /\ At(t, {"saving"}, "lock")
  /\ lock = NoOne
  /\ Set([prefs EXCEPT !.saving = task[t].arg])
  /\ \/ Saved /\ status' = [status EXCEPT !.saving = task[t].arg]
     \/ NotSaved /\ UNCHANGED status
  /\ Fail(t)
  /\ UNCHANGED <<app, files, link, requests, tick>>

\* set_saving_enabled reaches the live transport as well.
SetSaving(t) ==
  /\ At(t, {"saving"}, "lock")
  /\ lock = NoOne
  /\ Set([prefs EXCEPT !.saving = task[t].arg])
  /\ \/ /\ Saved
        /\ conn' = IF conn = NoOne THEN NoOne ELSE [conn EXCEPT !.saving = task[t].arg]
        /\ status' = [status EXCEPT !.saving = task[t].arg]
     \/ NotSaved /\ UNCHANGED <<conn, status>>
  /\ Fail(t)
  /\ UNCHANGED <<app, files, draining, requests, tick>>

\* set_min_bytes, set_frontier, set_preview_code_units.
SetPolicy(t) ==
  /\ At(t, {"policy"}, "lock")
  /\ lock = NoOne
  /\ IF conn # NoOne
     THEN UNCHANGED <<prefs, disk, budget>>
     ELSE Set([prefs EXCEPT !.policy = task[t].arg]) /\ (Saved \/ NotSaved)
  /\ Fail(t)
  /\ UNCHANGED <<app, files, link, requests, status, tick>>

-----------------------------------------------------------------------------
(* The shell *)

\* A command from the menu or from the CLI; "Reconnect Codex" is offered in an
\* error, and the second request to quit is ignored.
Command(t, op, arg) ==
  /\ app = "up"
  /\ task[t] = Idle
  /\ op = "reconnect" => status.codex = "Error"
  /\ op \in Exits => ~exiting
  /\ exiting' = (exiting \/ op \in Exits)
  /\ task' = [task EXCEPT ![t] =
       [op |-> op, pc |-> IF op = "quit" THEN "ask" ELSE "lock", arg |-> arg]]
  /\ Event
  /\ UNCHANGED <<app, prefs, disk, files, link, requests, status, lock, tick>>

Commands(t) ==
  \/ \E op \in {"connect", "disconnect", "reconnect", "quit", "uninstall"} :
       Command(t, op, NoOne)
  \/ \E on \in BOOLEAN : Command(t, "saving", on)
  \/ \E policy \in Policies : Command(t, "policy", policy)

\* DesktopRuntimeController::open and the start of initialize.
Launch ==
  /\ app # "up"
  /\ app' = "up"
  /\ prefs' = disk
  /\ status' = [service |-> "Starting", codex |-> "Disconnected", saving |-> disk.saving]
  /\ task' = [task EXCEPT ![Boot] = [op |-> "init", pc |-> "init", arg |-> NoOne]]
  /\ UNCHANGED <<disk, files, link, requests, lock, exiting, tick, budget>>

\* A surviving snapshot or the wish to be connected connects at launch.
Initialize ==
  /\ At(Boot, {"init"}, "init")
  /\ IF snapshot \/ prefs.connect
     THEN Step(Boot, "lock") /\ UNCHANGED status
     ELSE task' = [task EXCEPT ![Boot] = Idle] /\ Show("Running", "Disconnected")
  /\ UNCHANGED <<app, prefs, disk, files, link, requests, lock, exiting, tick, budget>>

\* The process is gone; what it kept in memory with it.
Stop(how) ==
  /\ app' = how
  /\ prefs' = disk
  /\ conn' = NoOne /\ draining' = FALSE /\ requests' = 0
  /\ status' = [service |-> "Stopped", codex |-> "Disconnected", saving |-> TRUE]
  /\ lock' = NoOne
  /\ task' = [t \in Everyone |-> Idle]
  /\ exiting' = FALSE
  /\ tick' = "idle"
  /\ UNCHANGED disk

\* allow_exit is set; preparing to uninstall has first disabled Start at Login,
\* which may fail.
Exit(t) ==
  /\ At(t, Exits, "exit")
  /\ \/ Stop(IF task[t].op = "quit" THEN "exited" ELSE "prepared") /\ UNCHANGED <<files, budget>>
     \/ /\ task[t].op = "uninstall"
        /\ Fault /\ Fail(t)
        /\ UNCHANGED <<app, prefs, disk, files, link, requests, status, tick>>

\* The process dies, perhaps in the middle of connecting or disconnecting.
Crash ==
  /\ app = "up"
  /\ \/ UNCHANGED files
     \/ (\E t \in Everyone : At(t, Connects, "prepare")) /\ Codex!InstallFails
     \/ (\E t \in Everyone : At(t, Disconnects, "restore")) /\ Codex!WithdrawFails
  /\ Stop("down")
  /\ Event

\* refresh_connection_health: the connection, then the files, then the status.
TickLook ==
  /\ app = "up" /\ tick = "idle"
  /\ tick' = IF conn = NoOne THEN "absent" ELSE "present"
  /\ UNCHANGED <<status, budget>>

TickProbe ==
  /\ app = "up" /\ tick = "present"
  /\ \/ tick' = Codex!FileState /\ NoFault
     \/ tick' = "unreadable" /\ Fault
  /\ UNCHANGED status

TickShow ==
  /\ app = "up" /\ tick \notin {"idle", "present"}
  /\ IF tick = "absent" THEN Show("Running", "Disconnected") ELSE Healthy(tick)
  /\ tick' = "idle"
  /\ UNCHANGED budget

Tick ==
  /\ TickLook \/ TickProbe \/ TickShow
  /\ UNCHANGED <<app, prefs, disk, files, link, requests, lock, task, exiting>>

\* The control server could not start, or stopped.
ControlFails ==
  /\ app = "up" /\ task[Boot] = Idle
  /\ status' = [status EXCEPT !.service = "Error"]
  /\ Event
  /\ UNCHANGED <<app, prefs, disk, files, link, requests, lock, task, exiting, tick>>

-----------------------------------------------------------------------------
(* Codex and its user *)

Traffic ==
  /\ app = "up" /\ conn # NoOne
  /\ \/ requests = 0 /\ ~draining /\ requests' = 1
     \/ requests = 1 /\ requests' = 0
  /\ UNCHANGED <<app, prefs, disk, files, link, status, lock, task, exiting, tick, budget>>

UserEdit ==
  /\ Codex!UserEdits
  /\ config' # config
  /\ Event
  /\ UNCHANGED <<app, prefs, disk, link, requests, status, lock, task, exiting, tick>>

-----------------------------------------------------------------------------

Init ==
  /\ app = "down"
  /\ \E policy \in Policies : disk = [saving |-> FALSE, connect |-> FALSE, policy |-> policy]
  /\ prefs = disk
  /\ snapshot = FALSE /\ config = "own"
  /\ conn = NoOne /\ draining = FALSE /\ requests = 0
  /\ status = [service |-> "Stopped", codex |-> "Disconnected", saving |-> TRUE]
  /\ lock = NoOne
  /\ task = [t \in Everyone |-> Idle]
  /\ exiting = FALSE
  /\ tick = "idle"
  /\ events = 0 /\ faults = 0

Work(t) ==
  \/ BeginConnect(t) \/ Prepare(t) \/ Publish(t) \/ Announce(t)
  \/ AskToQuit(t) \/ BeginDisconnect(t) \/ Restore(t) \/ TakeDown(t) \/ Settle(t)
  \/ Flush(t) \/ Exit(t) \/ SetSaving(t) \/ SetPolicy(t)

Next ==
  \/ \E t \in Everyone : Work(t)
  \/ \E t \in Tasks : Commands(t)
  \/ Launch \/ Initialize \/ Crash \/ Tick \/ ControlFails \/ Traffic \/ UserEdit

Spec == Init /\ [][Next]_vars

\* The runtime polls every task, and the shell refreshes once a second.
Fairness == WF_vars(Tick) /\ WF_vars(Initialize) /\ \A t \in Everyone : WF_vars(Work(t))

FairSpec == Spec /\ Fairness

-----------------------------------------------------------------------------
(* Properties *)

Ops == {"none", "init", "connect", "saving", "policy"} \cup Disconnects

TypeOK ==
  /\ app \in {"up", "down", "exited", "prepared"}
  /\ disk \in [saving : BOOLEAN, connect : BOOLEAN, policy : Policies]
  /\ prefs \in [saving : BOOLEAN, connect : BOOLEAN, policy : Policies]
  /\ snapshot \in BOOLEAN
  /\ config \in Codex!Views
  /\ conn \in {NoOne} \cup [saving : BOOLEAN, policy : Policies]
  /\ requests \in {0, 1}
  /\ draining \in BOOLEAN
  /\ status \in [service : {"Stopped", "Starting", "Running", "Error"},
                codex : {"Disconnected", "Connecting", "Connected", "Drifted", "Error"},
                saving : BOOLEAN]
  /\ lock \in Everyone \cup {NoOne}
  /\ \A t \in Everyone : task[t].op \in Ops
  /\ exiting \in BOOLEAN
  /\ tick \in {"idle", "absent", "present", "Connected", "NotConnected", "Drifted", "unreadable"}

PointsHere == config \in Codex!PointedHere

\* A live connection is remembered on disk: after a crash at any moment the
\* next launch connects Codex again (desktop_runtime.rs:282, 414).
ConnectionRemembered == conn # NoOne => disk.connect

\* Whoever sees no operation under way sees the truth about the live transport:
\* it saves exactly when the tray says so, under the policy the preferences
\* show, also after setters that failed halfway (desktop_runtime.rs:438-493).
TrayMatchesTransport ==
  lock = NoOne /\ conn # NoOne =>
    conn.saving = status.saving /\ conn.policy = prefs.policy

\* While the application runs, a connection is only taken down when no request
\* is active and TokenSaver's values are out of config.toml
\* (docs/DESKTOP_RUNTIME.md:137-145).
TakenDownAfterRestore ==
  [][app' = "up" /\ conn # NoOne /\ conn' = NoOne => requests = 0 /\ ~PointsHere]_vars

\* Of the controller's many steps only preparing a connection and restoring the
\* file reach Codex's files, the first only without a live connection and the
\* second only with one, and a crash in between leaves what CodexLink says; so
\* what ConfigTransaction promises holds under the controller, however commands
\* overlap (desktop_runtime.rs:275-307, 366-421).
ImplementsLink == Codex!Spec

\* Of a live connection the tray shows what a look at config.toml says.  Without
\* one it says so if the file is the user's own; what an unclean shutdown left in
\* the file is at least not shown as a connection.
Truth ==
  IF conn = NoOne
  THEN IF Codex!FileState = "NotConnected"
       THEN status.codex = "Disconnected"
       ELSE status.codex \notin {"Connecting", "Connected"}
  ELSE IF Codex!FileState = "Connected" /\ status.service # "Error"
       THEN status.codex = "Connected"
       ELSE status.codex = IF Codex!FileState = "Drifted" THEN "Drifted" ELSE "Error"

\* However operations, failures and refreshes overlap, the tray comes to show
\* whether there is a connection and what has become of it, and stays there
\* (refresh_connection_health, desktop_runtime.rs:495-545).  Drift without a
\* connection is the matter of DriftIsShown.
StatusSettles == <>[](app = "up" => Truth)

\* "Tray connection state is periodically re-proven from the Phase 3
\* snapshot/config relationship.  If a TokenSaver-owned Codex value changed
\* unexpectedly: state becomes `Configuration Drift`"
\* (docs/DESKTOP_RUNTIME.md:168-172), in the end and whatever came before.
DriftIsShown == <>[](app = "up" /\ Codex!FileState = "Drifted" => status.codex = "Drifted")

\* Every command, and initialisation, comes to an end: whatever a task does, it is
\* idle again, and nobody waits for an operation lock that is never released
\* (desktop_runtime.rs:275, 368).
CommandsEnd == \A t \in Everyone : []<>(task[t] = Idle)

\* A normal exit does not leave Codex at an endpoint nobody serves: "instead of
\* knowingly leaving Codex configured to a dead TokenSaver endpoint"
\* (docs/DESKTOP_RUNTIME.md:164).
ExitReleasesCodex == app = "exited" => ~PointsHere

\* Preparing to uninstall succeeds only when Codex has its provider back and
\* nothing is left to restore, "rather than claiming uninstall preparation
\* succeeded" (docs/PACKAGING.md:135-141).
PreparedReleasesCodex == app = "prepared" => ~PointsHere /\ ~snapshot
=============================================================================
