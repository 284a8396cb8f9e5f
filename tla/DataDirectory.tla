---------------------------- MODULE DataDirectory ----------------------------
(***************************************************************************)
(* The directory that the menu-bar application and the command line share. *)
(* Every invocation of `tokensaver` is a process of its own (cli/mod.rs):  *)
(* it asks the runtime over control.sock (application/control.rs), and     *)
(* when no answer comes, for whatever reason, it takes the runtime for     *)
(* stopped and works on the files itself: a setting is written             *)
(* (application/settings.rs), a purge removes what TokenSaver owns         *)
(* (application/maintenance.rs).                                           *)
(*                                                                         *)
(* The application is seen from the directory: it reads the preferences    *)
(* once, keeps them in memory, and every setter writes all of them.  How   *)
(* it connects Codex in detail is the subject of DesktopRuntime and of     *)
(* ConfigTransaction; here a connect is two steps under the operation lock *)
(* and a disconnect is one.  savings.json, which a purge removes as it     *)
(* removes the preferences, is left out.                                   *)
(***************************************************************************)
EXTENDS Naturals, FiniteSets

CONSTANTS
  Clients,     \* the invocations of the command line, one command each
  Keys,        \* numeric settings
  Values,      \* values a user may type
  InRange,     \* those that the guardrails admit
  Default,     \* the value of every setting that was never set
  MaxClients,  \* MAX_CONTROL_CLIENTS
  NoOne        \* nobody, nothing

ASSUME DataDirectoryAssumption ==
  /\ IsFiniteSet(Clients)
  /\ Default \in InRange /\ InRange \subseteq Values
  /\ MaxClients \in Nat \ {0}
  /\ NoOne \notin Clients \cup {"boot", "menu"}
  /\ Clients \cap {"boot", "menu"} = {}

VARIABLES
  dir,         \* the names in the data directory
  stored,      \* what runtime-preferences.json says, or the defaults
  app,         \* how far the application is
  memory,      \* its RuntimePreferencesStore
  connected,   \* is there a live connection?
  holder,      \* who holds the operation lock
  request,     \* every client's connection as the runtime sees it
  cli,         \* every client: where it is, its command, what it has read
  promised,    \* for every setting, the values its user may expect to find
  overlapped   \* has a client been mistaken about the runtime or been interfered with?

runtime == <<app, memory, connected, holder>>
vars == <<dir, stored, runtime, request, cli, promised, overlapped>>

Defaults == [connect |-> FALSE, policy |-> [k \in Keys |-> Default]]
Preferences == [connect : BOOLEAN, policy : [Keys -> InRange]]

\* OWNED_FILES, with the temporary file that an atomic write of the preferences
\* leaves when it is cut short.
Owned == {"preferences", "socket", "temporary"}
\* The same of the snapshot is not among them.
Entries == Owned \cup {"snapshot", "snapshotTemporary", "foreign"}

Command(op) == [op |-> op, key |-> NoOne, value |-> NoOne]
Commands ==
  {Command(op) : op \in {"connect", "disconnect", "saving", "purge"}}
    \cup [op : {"set"}, key : Keys, value : Values]

NoRequest == [at |-> "none", command |-> Command("none")]
Ready == [pc |-> "new", command |-> Command("none"), seen |-> Defaults]
Done == [Ready EXCEPT !.pc = "done"]

Running == app # "down"
Reachable == app = "serving" /\ "socket" \in dir

At(c, pc) == cli[c].pc = pc
Alone(c, ops) == At(c, "alone") /\ cli[c].command.op \in ops
Move(c, pc) == cli' = [cli EXCEPT ![c].pc = pc]
Report(c) == cli' = [cli EXCEPT ![c] = Done]

\* atomic_write_private that ends before its rename: killed, or with an error,
\* and then the result of removing its temporary file is ignored.
CutShort(names, temporary) == {names, names \cup {temporary}}

\* The file now says what p says.
Save(p) == stored' = p /\ dir' = dir \cup {"preferences"}
SaveFails == UNCHANGED stored /\ dir' \in CutShort(dir, "temporary")

With(p, command) == [p EXCEPT !.policy[command.key] = command.value]
Promise(command) == promised' = [promised EXCEPT ![command.key] = {command.value}]

-----------------------------------------------------------------------------
(* The runtime's side of the control socket *)

\* The permit is free again; the answer reaches a client that still waits.
Answer(c) ==
  /\ request' = [request EXCEPT ![c] = NoRequest]
  /\ IF At(c, "waiting") THEN Report(c) ELSE UNCHANGED cli

Handling == {c \in Clients : request[c].at = "handling"}

\* A connection beyond the last permit is dropped without an answer.
Accept(c) ==
  /\ app = "serving" /\ request[c].at = "backlog"
  /\ request' = IF Cardinality(Handling) < MaxClients
                THEN [request EXCEPT ![c].at = "handling"]
                ELSE [request EXCEPT ![c] = NoRequest]
  /\ UNCHANGED <<dir, stored, runtime, cli, promised>>

\* A request that was read is carried out, whether or not its client waits.
Carries(c, op) == c \in Handling /\ request[c].command.op = op

\* A purge asks for the status, which no operation holds up; any answer makes
\* it refuse.
AnswerStatus(c) ==
  /\ Carries(c, "purge")
  /\ Answer(c)
  /\ UNCHANGED <<dir, stored, runtime, promised>>

\* set_min_bytes, set_frontier, set_preview_code_units: a live connection and a
\* value out of range refuse.  A save that fails leaves the value in memory.
AnswerSet(c) ==
  LET command == request[c].command IN
  /\ Carries(c, "set")
  /\ holder = NoOne
  /\ IF connected \/ command.value \notin InRange
     THEN UNCHANGED <<dir, stored, memory, promised>>
     ELSE /\ memory' = With(memory, command)
          /\ \/ Save(memory') /\ Promise(command)
             \/ /\ SaveFails
                /\ promised' = [promised EXCEPT ![command.key] = @ \cup {command.value}]
  /\ Answer(c)
  /\ UNCHANGED <<app, connected, holder>>

-----------------------------------------------------------------------------
(* Operations of the controller: from the menu, at launch, or for a client *)

Asked(a, op) ==
  IF a \in Clients THEN Carries(a, op)
  ELSE IF a = "boot" THEN app = "connecting" /\ op = "connect"
  ELSE Running

Returns(a) ==
  IF a \in Clients THEN Answer(a) /\ UNCHANGED app
  ELSE /\ app' = IF a = "boot" THEN "booted" ELSE app
       /\ UNCHANGED <<request, cli>>

\* connect: the wish to be connected is saved, with everything else in memory.
BeginConnect(a) ==
  /\ Asked(a, "connect")
  /\ holder = NoOne
  /\ IF connected
     THEN Returns(a) /\ UNCHANGED <<dir, stored, memory, holder>>
     ELSE /\ memory' = [memory EXCEPT !.connect = TRUE]
          /\ \/ Save(memory') /\ holder' = a /\ UNCHANGED <<app, request, cli>>
             \/ SaveFails /\ Returns(a) /\ UNCHANGED holder
  /\ UNCHANGED <<connected, promised>>

\* A connect that stops on its way may leave a new snapshot behind, or have
\* discarded an old one and be in the middle of writing the new.
BrokenConnect ==
  {dir \cup {"snapshot"}} \cup CutShort(dir \ {"snapshot"}, "snapshotTemporary")

\* The snapshot is saved before Codex is pointed at the transport.
FinishConnect(a) ==
  /\ holder = a
  /\ holder' = NoOne
  /\ \/ dir' = dir \cup {"snapshot"} /\ connected' = TRUE
     \/ dir' \in BrokenConnect /\ UNCHANGED connected
  /\ Returns(a)
  /\ UNCHANGED <<stored, memory, promised>>

\* disconnect_internal: the snapshot has done its work and goes; a live
\* connection may also refuse to be taken down.  Quitting keeps the wish to be
\* connected.
Disconnect(a, quitting) ==
  LET left == IF connected THEN dir \ {"snapshot"} ELSE dir IN
  /\ Asked(a, "disconnect")
  /\ quitting => a = "menu"
  /\ holder = NoOne
  /\ \/ connected /\ UNCHANGED <<dir, stored, memory, connected>>
     \/ /\ connected' = FALSE
        /\ memory' = [memory EXCEPT !.connect = quitting /\ @]
        /\ \/ ~quitting /\ stored' = memory' /\ dir' = left \cup {"preferences"}
           \/ ~quitting /\ UNCHANGED stored /\ dir' \in CutShort(left, "temporary")
           \/ quitting /\ UNCHANGED stored /\ dir' = left
  /\ Returns(a)
  /\ UNCHANGED <<holder, promised>>

\* set_saving_enabled: the switch itself is left out, but saving it writes all
\* that is in memory.
SetSaving(a) ==
  /\ Asked(a, "saving")
  /\ holder = NoOne
  /\ Save(memory) \/ SaveFails
  /\ Returns(a)
  /\ UNCHANGED <<memory, connected, holder, promised>>

-----------------------------------------------------------------------------
(* The application *)

\* DesktopRuntimeController::open reads the preferences once.
Launch ==
  /\ app = "down"
  /\ app' = "opened"
  /\ memory' = stored
  /\ UNCHANGED <<dir, stored, connected, holder, request, cli, promised>>

\* initialize connects when a snapshot survived or the user wishes it.
Initialize ==
  /\ app = "opened"
  /\ app' = IF "snapshot" \in dir \/ memory.connect THEN "connecting" ELSE "booted"
  /\ UNCHANGED <<dir, stored, memory, connected, holder, request, cli, promised>>

\* serve_control_socket: a socket at which nobody answers is replaced.
Bind ==
  /\ app = "booted"
  /\ app' = "serving"
  /\ dir' = dir \cup {"socket"}
  /\ UNCHANGED <<stored, memory, connected, holder, request, cli, promised>>

\* The socket cannot be bound, or accept fails: the runtime goes on without it
\* and finishes the requests it has read.
ControlFails ==
  /\ app \in {"booted", "serving"}
  /\ app' = "deaf"
  /\ request' = [c \in Clients |-> IF c \in Handling THEN request[c] ELSE NoRequest]
  /\ UNCHANGED <<dir, stored, memory, connected, holder, cli, promised>>

\* The process ends, perhaps in the middle of writing its preferences or of
\* connecting.
Stop ==
  /\ Running
  /\ app' = "down" /\ memory' = Defaults /\ connected' = FALSE /\ holder' = NoOne
  /\ dir' \in CutShort(dir, "temporary") \cup IF holder = NoOne THEN {} ELSE BrokenConnect
  /\ request' = [c \in Clients |-> NoRequest]
  /\ UNCHANGED <<stored, cli, promised>>

-----------------------------------------------------------------------------
(* A client *)

\* Mutant: a purge does not ask for the runtime.
StartUnasked(c, command) ==
  /\ At(c, "new")
  /\ IF Reachable /\ command.op # "purge"
     THEN /\ request' = [request EXCEPT ![c] = [at |-> "backlog", command |-> command]]
          /\ cli' = [cli EXCEPT ![c].command = command, ![c].pc = "waiting"]
     ELSE /\ UNCHANGED request
          /\ cli' = [cli EXCEPT ![c].command = command, ![c].pc = "alone"]
  /\ UNCHANGED <<dir, stored, runtime, promised>>

\* send_control_request: the connection waits to be accepted, or is refused.
Start(c, command) ==
  /\ At(c, "new")
  /\ IF Reachable
     THEN /\ request' = [request EXCEPT ![c] = [at |-> "backlog", command |-> command]]
          /\ cli' = [cli EXCEPT ![c].command = command, ![c].pc = "waiting"]
     ELSE /\ UNCHANGED request
          /\ cli' = [cli EXCEPT ![c].command = command, ![c].pc = "alone"]
  /\ UNCHANGED <<dir, stored, runtime, promised>>

\* Five seconds without an answer, or the connection was dropped: the client
\* takes the runtime for stopped.
GiveUp(c) ==
  /\ At(c, "waiting")
  /\ Move(c, "alone")
  /\ UNCHANGED <<dir, stored, runtime, request, promised>>

\* runtime_mutation can only say that the runtime is not running.
NotRunning(c) ==
  /\ Alone(c, {"connect", "disconnect", "saving"})
  /\ Report(c)
  /\ UNCHANGED <<dir, stored, runtime, request, promised>>

\* Mutant: the value is not checked.
ReadSettingsUnchecked(c) ==
  /\ Alone(c, {"set"})
  /\ cli' = [cli EXCEPT ![c].pc = "write", ![c].seen = stored]
  /\ UNCHANGED <<dir, stored, runtime, request, promised>>

\* set_numeric_setting_offline opens the file and checks the value ...
ReadSettings(c) ==
  /\ Alone(c, {"set"})
  /\ IF cli[c].command.value \in InRange
     THEN cli' = [cli EXCEPT ![c].pc = "write", ![c].seen = stored]
     ELSE Report(c)
  /\ UNCHANGED <<dir, stored, runtime, request, promised>>

\* Mutant: every other setting is written with its default.
WriteSettingsAnew(c) ==
  /\ At(c, "write")
  /\ Save(With(Defaults, cli[c].command)) /\ Promise(cli[c].command)
  /\ Report(c)
  /\ UNCHANGED <<runtime, request>>

\* ... and writes all of it, or fails.
WriteSettings(c) ==
  /\ At(c, "write")
  /\ \/ Save(With(cli[c].seen, cli[c].command)) /\ Promise(cli[c].command)
     \/ SaveFails /\ UNCHANGED promised
  /\ Report(c)
  /\ UNCHANGED <<runtime, request>>

\* purge_owned_state: an active snapshot blocks all cleanup.
CheckSnapshot(c) ==
  /\ Alone(c, {"purge"})
  /\ IF "snapshot" \in dir THEN Report(c) ELSE Move(c, "preferences")
  /\ UNCHANGED <<dir, stored, runtime, request, promised>>

\* Mutant: what is left of writing the preferences stays.
RemovePreferencesOnly(c) ==
  /\ At(c, "preferences")
  /\ dir' = dir \ {"preferences"}
  /\ stored' = Defaults
  /\ promised' = [k \in Keys |-> {Default}]
  /\ Move(c, "socket")
  /\ UNCHANGED <<runtime, request>>

\* Mutant: any temporary file is taken for TokenSaver's.
RemoveAnyTemporary(c) ==
  /\ At(c, "preferences")
  /\ dir' = dir \ {"preferences", "temporary", "foreign"}
  /\ stored' = Defaults
  /\ promised' = [k \in Keys |-> {Default}]
  /\ Move(c, "socket")
  /\ UNCHANGED <<runtime, request>>

\* The preferences, with what is left of writing them, then the socket; the
\* first error ends the purge, perhaps between the two.
RemovePreferences(c) ==
  /\ At(c, "preferences")
  /\ \/ /\ \/ dir' = dir \ {"preferences", "temporary"} /\ Move(c, "socket")
           \/ dir' = dir \ {"preferences"} /\ Report(c)
        /\ stored' = Defaults
        /\ promised' = [k \in Keys |-> {Default}]
     \/ UNCHANGED <<dir, stored, promised>> /\ Report(c)
  /\ UNCHANGED <<runtime, request>>

RemoveSocket(c) ==
  /\ At(c, "socket")
  /\ \/ dir' = dir \ {"socket"} /\ Move(c, "list")
     \/ UNCHANGED dir /\ Report(c)
  /\ UNCHANGED <<stored, runtime, request, promised>>

\* What is left is reported; an empty directory is removed, which fails if it
\* is not empty any more.
ListEntries(c) ==
  /\ At(c, "list")
  /\ IF dir = {} THEN Move(c, "rmdir") ELSE Report(c)
  /\ UNCHANGED <<dir, stored, runtime, request, promised>>

\* Mutant: the directory is removed with all that is in it by now.
RemoveDirAll(c) ==
  /\ At(c, "rmdir")
  /\ dir' = {}
  /\ Report(c)
  /\ UNCHANGED <<stored, runtime, request, promised>>

RemoveDir(c) ==
  /\ At(c, "rmdir")
  /\ Report(c)
  /\ UNCHANGED <<dir, stored, runtime, request, promised>>

\* The user interrupts the command; a write leaves its temporary file.
Interrupt(c) ==
  /\ cli[c].pc \notin {"new", "done"}
  /\ dir' \in IF At(c, "write") THEN CutShort(dir, "temporary") ELSE {dir}
  /\ Report(c)
  /\ UNCHANGED <<stored, runtime, request, promised>>

-----------------------------------------------------------------------------

Init ==
  /\ dir \in {{}, {"foreign"}}
  /\ stored = Defaults
  /\ app = "down" /\ memory = Defaults /\ connected = FALSE /\ holder = NoOne
  /\ request = [c \in Clients |-> NoRequest]
  /\ cli = [c \in Clients |-> Ready]
  /\ promised = [k \in Keys |-> {Default}]
  /\ overlapped = FALSE

Serve(c) == Accept(c) \/ AnswerStatus(c) \/ AnswerSet(c)

Operate(a) ==
  \/ BeginConnect(a) \/ FinishConnect(a) \/ SetSaving(a)
  \/ \E quitting \in BOOLEAN : Disconnect(a, quitting)

Work(c) ==
  \/ GiveUp(c) \/ NotRunning(c) \/ ReadSettings(c) \/ WriteSettings(c)
  \/ CheckSnapshot(c) \/ RemovePreferences(c) \/ RemoveSocket(c)
  \/ ListEntries(c) \/ RemoveDir(c)

\* At work on the files.
Offline(c) ==
  /\ cli[c].command.op \in {"set", "purge"}
  /\ ~At(c, "waiting")

\* A client finds nobody although the runtime is up, or works on the files while
\* the application starts or another client works on them.
Overlap ==
  \/ \E c \in Clients :
       /\ Running /\ ~(At(c, "new") /\ Reachable)
       /\ ~At(c, "alone") /\ cli'[c].pc = "alone"
  \/ ~Running /\ Running' /\ \E c \in Clients : Offline(c)
  \/ \E c, d \in Clients : c # d /\ Offline(c)' /\ Offline(d)'

Step ==
  \/ \E c \in Clients : Serve(c) \/ Work(c) \/ Interrupt(c)
  \/ \E c \in Clients, command \in Commands : Start(c, command)
  \/ \E a \in Clients \cup {"boot", "menu"} : Operate(a)
  \/ Launch \/ Initialize \/ Bind \/ ControlFails \/ Stop

Next == Step /\ overlapped' = (overlapped \/ Overlap)

Spec == Init /\ [][Next]_vars

-----------------------------------------------------------------------------
(* Properties *)

TypeOK ==
  /\ dir \subseteq Entries
  /\ stored \in Preferences /\ memory \in Preferences
  /\ app \in {"down", "opened", "connecting", "booted", "serving", "deaf"}
  /\ connected \in BOOLEAN
  /\ holder \in Clients \cup {"boot", "menu", NoOne}
  /\ \A c \in Clients : request[c].at \in {"none", "backlog", "handling"}

\* A live connection has its snapshot on disk, whoever purges the directory and
\* whenever the snapshot was looked for ("deleting it could strand Codex on a
\* dead loopback endpoint", maintenance.rs:56-58).
WayBackKept == connected => "snapshot" \in dir

\* Nobody removes what is not TokenSaver's, and only an operation of the
\* controller removes the snapshot, also when purges, settings and the runtime
\* overlap (maintenance.rs:54-59).
OnlyOwnedRemoved ==
  [][dir \ dir' \subseteq
       Owned \cup (IF UNCHANGED <<connected, holder>> THEN {} ELSE {"snapshot"})]_vars

\* As long as no client was mistaken about the runtime, a setting that was
\* reported as set, by the runtime or by a client alone, is what the file and
\* the runtime say, through other settings, connects, launches and crashes
\* (cli/mod.rs:208-226, settings.rs:78-92, desktop_runtime.rs:461-486).
SettingsKept ==
  ~overlapped =>
    \A k \in Keys : /\ stored.policy[k] \in promised[k]
                    /\ Running => memory.policy[k] \in promised[k]

\* As long as no client was mistaken about it, a runtime that serves the control
\* socket can be reached there: neither a launch nor a purge takes it away
\* (control.rs:167-176, cli/mod.rs:261-269).
ServingIsReachable == ~overlapped /\ app = "serving" => Reachable

\* As long as it has the directory for itself, a purge that comes to its report
\* has left neither preferences nor socket nor what interrupted commands, failed
\* saves and crashes left of writing the preferences, and no snapshot stands
\* beside an empty place: all there is to report is not TokenSaver's, or is the
\* temporary file of a snapshot, which purges do not know (maintenance.rs:12, 77-101).
PurgedClean ==
  ~overlapped =>
    \A c \in Clients :
      cli[c].pc \in {"list", "rmdir"} => dir \subseteq {"foreign", "snapshotTemporary"}

\* A connection uses the settings that users were told are set: "Runtime: not
\* running; persisted setting for next connection" (cli/mod.rs:221).
ReportedSettingsApply ==
  [][~connected /\ connected' => \A k \in Keys : memory.policy[k] \in promised[k]]_vars
=============================================================================
