------------------------- MODULE DataDirectoryProofs -------------------------
(***************************************************************************)
(* Proofs about DataDirectory, for every number of clients, every set of   *)
(* keys and values and every limit of the control socket.                  *)
(*                                                                         *)
(* "Shape" is the type invariant with what a client's place says of its    *)
(* command.  The way back to Codex's own provider rests on it alone.  What *)
(* holds as long as no client was mistaken rests on "Quiet": whoever works *)
(* on the files has them for itself, so what it has removed or read is     *)
(* still so when it goes on.                                               *)
(***************************************************************************)
EXTENDS DataDirectory, TLAPS

Pcs ==
  {"new", "waiting", "alone", "write", "preferences", "socket", "list", "rmdir", "done"}

AnyCommand == Commands \cup {Command("none")}

CliRecords == [pc : Pcs, command : AnyCommand, seen : Preferences]
RequestRecords == [at : {"none", "backlog", "handling"}, command : AnyCommand]

\* What a client is at, with what this says of its command.
CliShape ==
  /\ cli \in [Clients -> CliRecords]
  /\ \A c \in Clients :
       /\ At(c, "write") => cli[c].command.op = "set" /\ cli[c].command.value \in InRange
       /\ cli[c].pc \in {"preferences", "socket", "list", "rmdir"} => cli[c].command.op = "purge"
       /\ cli[c].pc \in {"new", "done"} => cli[c].command.op = "none"

Requests == [Clients -> RequestRecords]

Apps == {"down", "opened", "connecting", "booted", "serving", "deaf"}

Actors == Clients \cup {"boot", "menu"}

DataShape ==
  /\ dir \subseteq Entries
  /\ stored \in Preferences /\ memory \in Preferences
  /\ app \in Apps
  /\ connected \in BOOLEAN
  /\ holder \in Actors \cup {NoOne}
  /\ promised \in [Keys -> SUBSET Values]

\* Every variable has its type; when the application is down nothing of it is
\* left, and who holds the operation lock has yet to connect.
Shape ==
  /\ CliShape /\ request \in Requests /\ DataShape
  /\ ~Running => ~connected /\ holder = NoOne /\ \A c \in Clients : request[c].at = "none"
  /\ holder # NoOne => ~connected

LEMMA Constants ==
  /\ Default \in InRange /\ InRange \subseteq Values
  /\ NoOne \notin Clients \cup {"boot", "menu"}
BY DataDirectoryAssumption

LEMMA CommandFacts ==
  /\ Command("none") \in AnyCommand /\ Command("none").op = "none"
  /\ \A command \in Commands : command \in AnyCommand /\ command.op # "none"
  /\ \A command \in AnyCommand : command.op = "set" => command.key \in Keys /\ command.value \in Values
BY DEF AnyCommand, Commands, Command

LEMMA RecordFacts ==
  /\ Defaults \in Preferences
  /\ Ready \in CliRecords /\ Ready.pc = "new" /\ Ready.command.op = "none"
  /\ Done \in CliRecords /\ Done.pc = "done" /\ Done.command.op = "none"
  /\ NoRequest \in RequestRecords /\ NoRequest.at = "none"
<1>1. Defaults \in Preferences
  BY Constants DEF Defaults, Preferences
<1> QED
  BY <1>1, CommandFacts DEF Ready, Done, CliRecords, RequestRecords, NoRequest, Pcs

LEMMA WithFacts ==
  ASSUME NEW p \in Preferences, NEW command, command.key \in Keys, command.value \in InRange
  PROVE  /\ With(p, command) \in Preferences
         /\ With(p, command).connect = p.connect
         /\ With(p, command).policy[command.key] = command.value
         /\ \A k \in Keys : k # command.key => With(p, command).policy[k] = p.policy[k]
BY DEF With, Preferences

LEMMA ConnectFacts ==
  ASSUME NEW p \in Preferences, NEW b \in BOOLEAN
  PROVE  /\ [p EXCEPT !.connect = b] \in Preferences
         /\ [p EXCEPT !.connect = b].policy = p.policy
BY DEF Preferences

-----------------------------------------------------------------------------
(* A client's record and a request from one step to the next *)

LEMMA MoveShape ==
  ASSUME CliShape, NEW c \in Clients, NEW pc \in Pcs, Move(c, pc)
  PROVE  /\ cli' \in [Clients -> CliRecords]
         /\ cli'[c].pc = pc /\ cli'[c].command = cli[c].command /\ cli'[c].seen = cli[c].seen
         /\ \A d \in Clients \ {c} : cli'[d] = cli[d]
BY DEF CliShape, CliRecords, Move

LEMMA ReportShape ==
  ASSUME CliShape, NEW c \in Clients, Report(c)
  PROVE  /\ CliShape' /\ cli'[c] = Done
         /\ \A d \in Clients \ {c} : cli'[d] = cli[d]
<1>1. /\ cli' \in [Clients -> CliRecords] /\ cli'[c] = Done
      /\ \A d \in Clients \ {c} : cli'[d] = cli[d]
  BY RecordFacts DEF CliShape, Report
<1> QED
  BY <1>1, RecordFacts DEF CliShape, At

LEMMA AnswerShape ==
  ASSUME CliShape, request \in Requests, NEW c \in Clients, Answer(c)
  PROVE  /\ CliShape' /\ request' \in Requests
         /\ request'[c].at = "none"
         /\ \A d \in Clients \ {c} : request'[d] = request[d] /\ cli'[d] = cli[d]
         /\ cli'[c] = cli[c] \/ cli'[c] = Done
<1>1. /\ request' \in Requests /\ request'[c].at = "none"
      /\ \A d \in Clients \ {c} : request'[d] = request[d]
  BY RecordFacts DEF Answer, Requests
<1>2. CASE Report(c)
  BY <1>1, <1>2, ReportShape
<1>3. CASE UNCHANGED cli
  BY <1>1, <1>3 DEF CliShape, At
<1> QED
  BY <1>2, <1>3 DEF Answer

LEMMA ReturnsShape ==
  ASSUME CliShape, request \in Requests, app \in Apps, NEW a \in Actors, Returns(a)
  PROVE  /\ CliShape' /\ request' \in Requests /\ app' \in Apps
         /\ Running' <=> (IF a = "boot" THEN TRUE ELSE Running)
         /\ \A d \in Clients : /\ request'[d] = request[d] \/ request'[d].at = "none"
                               /\ cli'[d] = cli[d] \/ cli'[d] = Done
<1>1. CASE a \in Clients
  <2>1. Answer(a) /\ UNCHANGED app
    BY <1>1 DEF Returns
  <2>2. a # "boot"
    BY <1>1, DataDirectoryAssumption
  <2> QED
    BY <1>1, <2>1, <2>2, AnswerShape DEF Running
<1>2. CASE a \notin Clients
  <2>1. app' = (IF a = "boot" THEN "booted" ELSE app) /\ UNCHANGED <<request, cli>>
    BY <1>2 DEF Returns
  <2> QED
    BY <2>1 DEF Apps, Running, CliShape, At
<1> QED
  BY <1>1, <1>2

-----------------------------------------------------------------------------
(* Types: one lemma for each group of actions *)

LEMMA PromiseType ==
  ASSUME promised \in [Keys -> SUBSET Values], NEW command, NEW S \in SUBSET Values
  PROVE  [promised EXCEPT ![command.key] = S] \in [Keys -> SUBSET Values]
OBVIOUS

LEMMA ServeShape ==
  ASSUME Shape, NEW c \in Clients, Serve(c)
  PROVE  Shape'
<1>1. CASE Accept(c)
  <2>1. request' \in Requests
    BY <1>1, RecordFacts DEF Accept, Shape, Requests, RequestRecords
  <2>2. CliShape' /\ DataShape'
    BY <1>1 DEF Accept, Shape, CliShape, DataShape, runtime, At
  <2>3. Running' /\ UNCHANGED <<connected, holder>>
    BY <1>1 DEF Accept, runtime, Running
  <2> QED
    BY <2>1, <2>2, <2>3 DEF Shape
<1>2. CASE AnswerStatus(c)
  <2>1. /\ CliShape' /\ request' \in Requests
        /\ \A d \in Clients : request[d].at = "none" => request'[d].at = "none"
    BY <1>2, AnswerShape DEF AnswerStatus, Shape
  <2>2. DataShape' /\ UNCHANGED <<app, connected, holder>>
    BY <1>2 DEF AnswerStatus, Shape, DataShape, runtime
  <2> QED
    BY <2>1, <2>2 DEF Shape, Running
<1>3. CASE AnswerSet(c)
  <2> DEFINE command == request[c].command
  <2>1. /\ CliShape' /\ request' \in Requests
        /\ \A d \in Clients : request[d].at = "none" => request'[d].at = "none"
    BY <1>3, AnswerShape DEF AnswerSet, Shape
  <2>2. command \in AnyCommand /\ command.op = "set"
    BY <1>3 DEF AnswerSet, Carries, Shape, Requests, RequestRecords
  <2>3. command.key \in Keys
    BY <2>2, CommandFacts
  <2>4. CASE connected \/ command.value \notin InRange
    <3>1. DataShape' /\ UNCHANGED <<app, connected, holder>>
      BY <1>3, <2>4 DEF AnswerSet, Shape, DataShape
    <3> QED
      BY <2>1, <3>1 DEF Shape, Running
  <2>5. CASE ~connected /\ command.value \in InRange
    <3>1. /\ memory' = With(memory, command) /\ UNCHANGED <<app, connected, holder>>
          /\ \/ Save(memory') /\ Promise(command)
             \/ /\ SaveFails
                /\ promised' = [promised EXCEPT ![command.key] = @ \cup {command.value}]
      BY <1>3, <2>5 DEF AnswerSet
    <3>2. memory' \in Preferences
      BY <2>3, <2>5, <3>1, WithFacts DEF Shape, DataShape
    <3>3. stored' \in Preferences /\ dir' \subseteq Entries
      BY <3>1, <3>2 DEF Save, SaveFails, CutShort, Shape, DataShape, Entries, Owned
    <3>4. promised' \in [Keys -> SUBSET Values]
      BY <2>3, <2>5, <3>1, Constants DEF Promise, Shape, DataShape
    <3> QED
      BY <2>1, <3>1, <3>2, <3>3, <3>4 DEF Shape, DataShape, Running
  <2> QED
    BY <2>4, <2>5
<1> QED
  BY <1>1, <1>2, <1>3 DEF Serve

\* An operation is only ever asked of an application that runs.
LEMMA AskedRunning ==
  ASSUME Shape, NEW a \in Actors, NEW op, Asked(a, op)
  PROVE  Running
BY DEF Asked, Carries, Handling, Running, Shape

LEMMA OperateShape ==
  ASSUME Shape, NEW a \in Actors, Operate(a)
  PROVE  Shape' /\ Running /\ Running'
<1> USE DEF Shape
<1>1. CASE BeginConnect(a)
  <2>1. Running
    BY <1>1, AskedRunning DEF BeginConnect
  <2>2. [memory EXCEPT !.connect = TRUE] \in Preferences
    BY ConnectFacts DEF DataShape
  <2>3. /\ dir' \subseteq Entries /\ stored' \in Preferences /\ memory' \in Preferences
        /\ UNCHANGED <<connected, promised>>
        /\ \/ Returns(a) /\ UNCHANGED holder
           \/ holder' = a /\ ~connected /\ UNCHANGED <<app, request, cli>>
    BY <1>1, <2>2 DEF BeginConnect, DataShape, Save, SaveFails, CutShort, Entries, Owned
  <2>4. CASE Returns(a) /\ UNCHANGED holder
    BY <2>1, <2>3, <2>4, ReturnsShape DEF DataShape
  <2>5. CASE holder' = a /\ ~connected /\ UNCHANGED <<app, request, cli>>
    BY <2>1, <2>3, <2>5 DEF DataShape, CliShape, At, Running
  <2> QED
    BY <2>3, <2>4, <2>5
<1>2. CASE FinishConnect(a)
  <2>1. Running
    BY <1>2, DataDirectoryAssumption DEF FinishConnect, Actors
  <2>2. /\ dir' \subseteq Entries /\ connected' \in BOOLEAN /\ holder' = NoOne
        /\ UNCHANGED <<stored, memory, promised>> /\ Returns(a)
    BY <1>2 DEF FinishConnect, BrokenConnect, CutShort, DataShape, Entries
  <2> QED
    BY <2>1, <2>2, ReturnsShape DEF DataShape
<1>3. CASE SetSaving(a)
  <2>1. Running
    BY <1>3, AskedRunning DEF SetSaving
  <2>2. /\ dir' \subseteq Entries /\ stored' \in Preferences
        /\ UNCHANGED <<memory, connected, holder, promised>> /\ Returns(a)
    BY <1>3 DEF SetSaving, DataShape, Save, SaveFails, CutShort, Entries, Owned
  <2> QED
    BY <2>1, <2>2, ReturnsShape DEF DataShape
<1>4. ASSUME NEW quitting \in BOOLEAN, Disconnect(a, quitting) PROVE Shape' /\ Running /\ Running'
  <2>1. Running
    BY <1>4, AskedRunning DEF Disconnect
  <2>2. [memory EXCEPT !.connect = quitting /\ @] \in Preferences
    BY ConnectFacts DEF DataShape, Preferences
  <2>3. /\ dir' \subseteq Entries /\ stored' \in Preferences /\ memory' \in Preferences
        /\ connected' \in BOOLEAN /\ holder = NoOne
        /\ UNCHANGED <<holder, promised>> /\ Returns(a)
    BY <1>4, <2>2 DEF Disconnect, CutShort, DataShape, Entries, Owned
  <2> QED
    BY <2>1, <2>3, ReturnsShape DEF DataShape
<1> QED
  BY <1>1, <1>2, <1>3, <1>4 DEF Operate

LEMMA ServeRunning ==
  ASSUME Shape, NEW c \in Clients, Serve(c)
  PROVE  Running /\ UNCHANGED app
BY DEF Serve, Accept, AnswerStatus, AnswerSet, Carries, Handling, Running, Shape, runtime

LEMMA ApplicationShape ==
  ASSUME Shape, Launch \/ Initialize \/ Bind \/ ControlFails \/ Stop
  PROVE  Shape'
<1> USE DEF Shape
<1>1. CASE Launch
  BY <1>1 DEF Launch, DataShape, CliShape, At, Apps, Running
<1>2. CASE Initialize
  BY <1>2 DEF Initialize, DataShape, CliShape, At, Apps, Running
<1>3. CASE Bind
  BY <1>3 DEF Bind, DataShape, CliShape, At, Apps, Running, Entries, Owned
<1>4. CASE ControlFails
  <2>1. request' \in Requests
    BY <1>4, RecordFacts DEF ControlFails, Requests
  <2>2. CliShape' /\ DataShape' /\ Running' /\ UNCHANGED <<connected, holder>>
    BY <1>4 DEF ControlFails, DataShape, CliShape, At, Apps, Running
  <2> QED
    BY <2>1, <2>2
<1>5. CASE Stop
  <2>1. request' \in Requests /\ \A c \in Clients : request'[c].at = "none"
    BY <1>5, RecordFacts DEF Stop, Requests
  <2>2. dir' \subseteq Entries
    BY <1>5 DEF Stop, BrokenConnect, CutShort, DataShape, Entries, Owned
  <2>3. CliShape' /\ DataShape' /\ ~connected' /\ holder' = NoOne /\ ~Running'
    BY <1>5, <2>2, RecordFacts DEF Stop, DataShape, CliShape, At, Apps, Running
  <2> QED
    BY <2>1, <2>3
<1> QED
  BY <1>1, <1>2, <1>3, <1>4, <1>5

LEMMA StartShape ==
  ASSUME Shape, NEW c \in Clients, NEW command \in Commands, Start(c, command)
  PROVE  Shape'
<1>1. PICK pc \in {"waiting", "alone"} :
        cli' = [cli EXCEPT ![c].command = command, ![c].pc = pc]
  BY DEF Start
<1>2. command \in AnyCommand
  BY CommandFacts
<1>3. CliShape'
  <2>1. cli' \in [Clients -> CliRecords] /\ cli'[c].pc = pc
    BY <1>1, <1>2 DEF Shape, CliShape, CliRecords, Pcs
  <2>2. \A d \in Clients \ {c} : cli'[d] = cli[d]
    BY <1>1 DEF Shape, CliShape
  <2> QED
    BY <1>1, <2>1, <2>2 DEF Shape, CliShape, At
<1>4. request' \in Requests
  BY <1>2 DEF Start, Shape, Requests, RequestRecords
<1>5. DataShape' /\ UNCHANGED <<app, connected, holder>>
  BY DEF Start, Shape, DataShape, runtime
<1>6. ~Running => UNCHANGED request
  BY DEF Start, Reachable, Running
<1> QED
  BY <1>3, <1>4, <1>5, <1>6 DEF Shape, Running

\* A client's own steps leave the runtime alone, and the request too.
LEMMA WorkFrame ==
  ASSUME NEW c \in Clients, Work(c) \/ Interrupt(c)
  PROVE  UNCHANGED <<app, memory, connected, holder, request>>
BY DEF Work, GiveUp, NotRunning, ReadSettings, WriteSettings, CheckSnapshot,
  RemovePreferences, RemoveSocket, ListEntries, RemoveDir, Interrupt, runtime

\* Where a client is after a step of its own.
LEMMA WorkMoves ==
  ASSUME Shape, NEW c \in Clients, Work(c) \/ Interrupt(c)
  PROVE  /\ CliShape'
         /\ \A d \in Clients \ {c} : cli'[d] = cli[d]
         /\ \/ cli'[c] = Done
            \/ At(c, "waiting") /\ cli'[c].pc = "alone" /\ cli'[c].command = cli[c].command
            \/ /\ ~At(c, "waiting") /\ cli'[c].pc \in Pcs \ {"new", "waiting", "alone", "done"}
               /\ cli'[c].command = cli[c].command
<1> USE DEF Shape
<1>1. CASE Report(c)
  BY <1>1, ReportShape
<1>2. CASE GiveUp(c)
  BY <1>2, MoveShape DEF GiveUp, Pcs, CliShape, At
<1>3. CASE ReadSettings(c) /\ ~Report(c)
  <2>1. /\ cli' = [cli EXCEPT ![c].pc = "write", ![c].seen = stored]
        /\ Alone(c, {"set"}) /\ cli[c].command.value \in InRange
    BY <1>3 DEF ReadSettings
  <2>2. /\ cli' \in [Clients -> CliRecords] /\ cli'[c].pc = "write"
        /\ cli'[c].command = cli[c].command /\ \A d \in Clients \ {c} : cli'[d] = cli[d]
    BY <2>1 DEF CliShape, CliRecords, Pcs, DataShape
  <2> QED
    BY <2>1, <2>2 DEF CliShape, At, Alone, Pcs
<1>4. CASE CheckSnapshot(c) /\ ~Report(c)
  BY <1>4, MoveShape DEF CheckSnapshot, Alone, Pcs, CliShape, At
<1>5. CASE RemovePreferences(c) /\ ~Report(c)
  BY <1>5, MoveShape DEF RemovePreferences, Pcs, CliShape, At
<1>6. CASE RemoveSocket(c) /\ ~Report(c)
  BY <1>6, MoveShape DEF RemoveSocket, Pcs, CliShape, At
<1>7. CASE ListEntries(c) /\ ~Report(c)
  BY <1>7, MoveShape DEF ListEntries, Pcs, CliShape, At
<1>8. Report(c) \/ GiveUp(c) \/ ReadSettings(c) \/ CheckSnapshot(c) \/ RemovePreferences(c)
        \/ RemoveSocket(c) \/ ListEntries(c)
  BY DEF Work, NotRunning, WriteSettings, RemoveDir, Interrupt
<1> QED
  BY <1>1, <1>2, <1>3, <1>4, <1>5, <1>6, <1>7, <1>8

LEMMA WorkShape ==
  ASSUME Shape, NEW c \in Clients, Work(c) \/ Interrupt(c)
  PROVE  Shape'
<1>1. CliShape' /\ UNCHANGED <<app, memory, connected, holder, request>>
  BY WorkMoves, WorkFrame
<1>2. CASE WriteSettings(c)
  <2>1. cli[c].command.value \in InRange /\ cli[c].command.key \in Keys /\ cli[c].seen \in Preferences
    BY <1>2, CommandFacts DEF WriteSettings, Shape, CliShape, CliRecords
  <2>2. With(cli[c].seen, cli[c].command) \in Preferences
    BY <2>1, WithFacts
  <2>3. {cli[c].command.value} \in SUBSET Values
    BY <2>1, Constants
  <2>4. promised \in [Keys -> SUBSET Values] /\ dir \subseteq Entries /\ stored \in Preferences
    BY DEF Shape, DataShape
  <2>5. \/ /\ stored' = With(cli[c].seen, cli[c].command) /\ dir' = dir \cup {"preferences"}
           /\ promised' = [promised EXCEPT ![cli[c].command.key] = {cli[c].command.value}]
        \/ UNCHANGED <<stored, promised>> /\ dir' \subseteq dir \cup {"temporary"}
    BY <1>2 DEF WriteSettings, Save, SaveFails, CutShort, Promise
  <2>6. promised' \in [Keys -> SUBSET Values]
    BY <2>3, <2>4, <2>5, PromiseType
  <2>7. dir' \subseteq Entries /\ stored' \in Preferences
    BY <2>2, <2>4, <2>5 DEF Entries, Owned
  <2> QED
    BY <1>1, <2>6, <2>7 DEF Shape, DataShape, Running
<1>3. CASE RemovePreferences(c)
  <2>1. dir' \subseteq Entries /\ stored' \in Preferences /\ promised' \in [Keys -> SUBSET Values]
    BY <1>3, RecordFacts, Constants DEF RemovePreferences, Shape, DataShape
  <2> QED
    BY <1>1, <2>1 DEF Shape, DataShape, Running
<1>4. CASE ~WriteSettings(c) /\ ~RemovePreferences(c)
  <2>1. dir' \subseteq Entries /\ UNCHANGED <<stored, promised>>
    BY <1>4 DEF Work, GiveUp, NotRunning, ReadSettings, CheckSnapshot, RemoveSocket,
      ListEntries, RemoveDir, Interrupt, CutShort, Shape, DataShape, Entries, Owned
  <2> QED
    BY <1>1, <2>1 DEF Shape, DataShape, Running
<1> QED
  BY <1>2, <1>3, <1>4

LEMMA ShapeInit == Init => Shape /\ overlapped \in BOOLEAN
<1> SUFFICES ASSUME Init PROVE Shape /\ overlapped \in BOOLEAN
  OBVIOUS
<1>1. CliShape
  BY RecordFacts DEF Init, CliShape, At
<1>2. request \in Requests /\ \A c \in Clients : request[c].at = "none"
  BY RecordFacts DEF Init, Requests
<1>3. DataShape
  BY RecordFacts, Constants DEF Init, DataShape, Entries, Apps
<1> QED
  BY <1>1, <1>2, <1>3 DEF Init, Shape

LEMMA ShapeStep == ASSUME Shape, Step PROVE Shape'
BY ServeShape, OperateShape, ApplicationShape, StartShape, WorkShape DEF Step, Actors

LEMMA ShapeStutter == ASSUME Shape, UNCHANGED vars PROVE Shape'
BY DEF Shape, CliShape, DataShape, vars, runtime, At, Running

LEMMA ShapeAlways == Spec => [](Shape /\ overlapped \in BOOLEAN)
<1>1. Shape /\ overlapped \in BOOLEAN /\ [Next]_vars => (Shape /\ overlapped \in BOOLEAN)'
  <2> SUFFICES ASSUME Shape, overlapped \in BOOLEAN, [Next]_vars
               PROVE  Shape' /\ overlapped' \in BOOLEAN
    OBVIOUS
  <2>1. Shape'
    BY ShapeStep, ShapeStutter DEF Next
  <2>2. overlapped' \in BOOLEAN
    BY ZenonT(60) DEF Next, vars
  <2> QED
    BY <2>1, <2>2
<1> QED
  BY <1>1, ShapeInit, PTL DEF Spec

\* Every variable has its type (every step of the runtime and of its clients).
THEOREM TypeCorrect == Spec => []TypeOK
<1>1. Shape /\ overlapped \in BOOLEAN => TypeOK
  BY DEF Shape, DataShape, Requests, RequestRecords, TypeOK, Apps, Actors
<1> QED
  BY <1>1, ShapeAlways, PTL

-----------------------------------------------------------------------------
(* The way back and what is removed *)

\* A step of a client removes files of TokenSaver's only, and never the snapshot.
LEMMA WorkRemoves ==
  ASSUME NEW c \in Clients, Work(c) \/ Interrupt(c)
  PROVE  dir \ dir' \subseteq Owned
BY DEF Work, GiveUp, NotRunning, ReadSettings, WriteSettings, Save, SaveFails, CutShort,
  CheckSnapshot, RemovePreferences, RemoveSocket, ListEntries, RemoveDir, Interrupt, Owned

LEMMA OtherRemoves ==
  ASSUME \/ \E c \in Clients : Serve(c)
         \/ \E c \in Clients, command \in Commands : Start(c, command)
         \/ Launch \/ Initialize \/ Bind \/ ControlFails
  PROVE  dir \subseteq dir'
BY DEF Serve, Accept, AnswerStatus, AnswerSet, Save, SaveFails, CutShort, Start, Launch,
  Initialize, Bind, ControlFails

\* A process that ends in the middle of a connect may have discarded the snapshot.
LEMMA StopRemoves ==
  ASSUME Stop
  PROVE  /\ ~connected' /\ app' = "down"
         /\ dir \ dir' \subseteq IF UNCHANGED <<connected, holder>> THEN {} ELSE {"snapshot"}
BY DEF Stop, BrokenConnect, CutShort

\* An operation removes nothing but the snapshot; it is there when a connection
\* is, and it goes when the connection or the lock changes hands.
LEMMA OperateRemoves ==
  ASSUME Shape, WayBackKept, NEW a \in Actors, Operate(a)
  PROVE  /\ WayBackKept'
         /\ dir \ dir' \subseteq IF UNCHANGED <<connected, holder>> THEN {} ELSE {"snapshot"}
<1>1. CASE BeginConnect(a)
  BY <1>1 DEF BeginConnect, Save, SaveFails, CutShort, WayBackKept
<1>2. CASE FinishConnect(a)
  <2>1. holder # NoOne /\ holder' = NoOne
    BY <1>2, DataDirectoryAssumption DEF FinishConnect, Actors
  <2>2. ~connected
    BY <2>1 DEF Shape
  <2> QED
    BY <1>2, <2>1, <2>2 DEF FinishConnect, BrokenConnect, CutShort, WayBackKept
<1>3. CASE SetSaving(a)
  BY <1>3 DEF SetSaving, Save, SaveFails, CutShort, WayBackKept
<1>4. ASSUME NEW quitting \in BOOLEAN, Disconnect(a, quitting)
      PROVE  /\ WayBackKept'
             /\ dir \ dir' \subseteq IF UNCHANGED <<connected, holder>> THEN {} ELSE {"snapshot"}
  BY <1>4 DEF Disconnect, CutShort, WayBackKept
<1> QED
  BY <1>1, <1>2, <1>3, <1>4 DEF Operate

LEMMA WayBackStep ==
  ASSUME Shape, WayBackKept, [Next]_vars
  PROVE  WayBackKept'
<1>1. ASSUME NEW c \in Clients, Work(c) \/ Interrupt(c) PROVE WayBackKept'
  <2>1. UNCHANGED connected
    BY <1>1, WorkFrame
  <2>2. dir \ dir' \subseteq Owned
    BY <1>1, WorkRemoves
  <2> QED
    BY <2>1, <2>2 DEF WayBackKept, Owned
<1>2. ASSUME NEW a \in Actors, Operate(a) PROVE WayBackKept'
  BY <1>2, OperateRemoves
<1>3. CASE \/ \E c \in Clients : Serve(c)
           \/ \E c \in Clients, command \in Commands : Start(c, command)
           \/ Launch \/ Initialize \/ Bind \/ ControlFails
  <2>1. UNCHANGED connected
    BY <1>3 DEF Serve, Accept, AnswerStatus, AnswerSet, Start, Launch, Initialize, Bind,
      ControlFails, runtime
  <2> QED
    BY <1>3, <2>1, OtherRemoves DEF WayBackKept
<1>4. CASE Stop
  BY <1>4, StopRemoves DEF WayBackKept
<1>5. CASE UNCHANGED vars
  BY <1>5 DEF vars, runtime, WayBackKept
<1> QED
  BY <1>1, <1>2, <1>3, <1>4, <1>5 DEF Next, Step, Actors

\* A live connection has its snapshot on disk, for any number of clients and
\* whenever they look, purge and are interrupted (purge_owned_state_at against
\* connect and disconnect_internal).
THEOREM WayBackAlways == Spec => []WayBackKept
<1>1. Init => WayBackKept
  BY DEF Init, WayBackKept
<1>2. Shape /\ WayBackKept /\ [Next]_vars => WayBackKept'
  BY WayBackStep
<1> QED
  BY <1>1, <1>2, ShapeAlways, PTL DEF Spec

\* No step of anybody removes what is not TokenSaver's, and the snapshot goes only
\* as the controller connects or disconnects (remove_if_present,
\* remove_known_atomic_temps, disconnect_internal).
THEOREM OnlyOwnedIsRemoved == Spec => OnlyOwnedRemoved
<1> DEFINE Removed ==
      dir \ dir' \subseteq
        Owned \cup (IF UNCHANGED <<connected, holder>> THEN {} ELSE {"snapshot"})
<1>1. Shape /\ WayBackKept /\ [Next]_vars => [Removed]_vars
  <2> SUFFICES ASSUME Shape, WayBackKept, Step PROVE Removed
    BY DEF Next
  <2>1. ASSUME NEW c \in Clients, Work(c) \/ Interrupt(c) PROVE Removed
    BY <2>1, WorkRemoves
  <2>2. ASSUME NEW a \in Actors, Operate(a) PROVE Removed
    BY <2>2, OperateRemoves
  <2>3. CASE \/ \E c \in Clients : Serve(c)
             \/ \E c \in Clients, command \in Commands : Start(c, command)
             \/ Launch \/ Initialize \/ Bind \/ ControlFails
    BY <2>3, OtherRemoves
  <2>4. CASE Stop
    BY <2>4, StopRemoves
  <2> QED
    BY <2>1, <2>2, <2>3, <2>4 DEF Step, Actors
<1> QED
  BY <1>1, ShapeAlways, WayBackAlways, PTL DEF Spec, OnlyOwnedRemoved

-----------------------------------------------------------------------------
(* As long as nobody was mistaken about the runtime *)

OnFiles == {"write", "preferences", "socket", "list", "rmdir"}

\* A client that works on the files has them for itself, and the runtime is down.
ForItself ==
  \A c \in Clients :
    Offline(c) => ~Running /\ \A d \in Clients \ {c} : ~Offline(d)

\* What a purge has removed or not found stays away, and what a setting has read
\* stays true.
StillTrue ==
  \A c \in Clients :
    /\ cli[c].pc \in {"preferences", "socket", "list", "rmdir"} => "snapshot" \notin dir
    /\ cli[c].pc \in {"socket", "list", "rmdir"} => dir \cap {"preferences", "temporary"} = {}
    /\ cli[c].pc \in {"list", "rmdir"} => "socket" \notin dir
    /\ At(c, "write") => cli[c].seen = stored

Bound == app = "serving" => "socket" \in dir

Kept ==
  \A k \in Keys : /\ stored.policy[k] \in promised[k]
                  /\ Running => memory.policy[k] \in promised[k]

Quiet == ForItself /\ StillTrue /\ Bound /\ Kept

LEMMA OnFilesOffline ==
  ASSUME CliShape, NEW c \in Clients, cli[c].pc \in OnFiles
  PROVE  Offline(c)
BY DEF CliShape, At, Offline, OnFiles

\* The steps of the application and of the runtime.
OfRuntime ==
  \/ \E c \in Clients : Serve(c)
  \/ \E a \in Actors : Operate(a)
  \/ Launch \/ Initialize \/ Bind \/ ControlFails \/ Stop

\* During a step of the runtime nobody works on the files.
LEMMA RuntimeAlone ==
  ASSUME Shape, ForItself, OfRuntime, ~Overlap
  PROVE  /\ \A c \in Clients : ~Offline(c) /\ ~Offline(c)'
         /\ \A c \in Clients : cli'[c].pc \notin OnFiles
<1>1. \A c \in Clients : ~Offline(c)
  <2>1. CASE Launch
    BY <2>1 DEF Launch, Overlap, Running
  <2>2. CASE ~Launch
    <3>1. Running
      BY <2>2, ServeRunning, OperateShape
      DEF OfRuntime, Initialize, Bind, ControlFails, Stop, Running
    <3> QED
      BY <3>1 DEF ForItself
  <2> QED
    BY <2>1, <2>2
<1>2. \A c \in Clients : cli'[c] = cli[c] \/ cli'[c] = Done
  <2>1. ASSUME NEW d \in Clients, Serve(d)
        PROVE  \A c \in Clients : cli'[c] = cli[c] \/ cli'[c] = Done
    <3>1. UNCHANGED cli \/ Answer(d)
      BY <2>1 DEF Serve, Accept, AnswerStatus, AnswerSet
    <3> QED
      BY <3>1, AnswerShape DEF Shape
  <2>2. ASSUME NEW a \in Actors, Operate(a)
        PROVE  \A c \in Clients : cli'[c] = cli[c] \/ cli'[c] = Done
    <3>1. UNCHANGED cli \/ Returns(a)
      BY <2>2 DEF Operate, BeginConnect, FinishConnect, SetSaving, Disconnect
    <3> QED
      BY <3>1, ReturnsShape DEF Shape, DataShape
  <2>3. CASE Launch \/ Initialize \/ Bind \/ ControlFails \/ Stop
    BY <2>3 DEF Launch, Initialize, Bind, ControlFails, Stop
  <2> QED
    BY <2>1, <2>2, <2>3 DEF OfRuntime
<1>3. \A c \in Clients : ~Offline(c)'
  BY <1>1, <1>2, RecordFacts DEF Offline, At
<1>4. CliShape'
  <2>1. Shape'
    BY ServeShape, OperateShape, ApplicationShape DEF OfRuntime
  <2> QED
    BY <2>1 DEF Shape
<1>5. \A c \in Clients : cli'[c].pc \notin OnFiles
  BY <1>3, <1>4 DEF CliShape, At, Offline, OnFiles
<1> QED
  BY <1>1, <1>3, <1>5

LEMMA ForItselfStep ==
  ASSUME Shape, ForItself, Step, ~Overlap
  PROVE  ForItself'
<1> SUFFICES ASSUME NEW c \in Clients, Offline(c)'
             PROVE  ~Running' /\ \A d \in Clients \ {c} : ~Offline(d)'
  BY DEF ForItself
<1>1. \A d \in Clients \ {c} : ~Offline(d)'
  BY DEF Overlap
<1>2. CASE OfRuntime
  BY <1>2, RuntimeAlone
<1>3. ASSUME NEW d \in Clients, Work(d) \/ Interrupt(d) PROVE ~Running'
  <2>1. UNCHANGED app
    BY <1>3, WorkFrame
  <2>2. CASE c # d
    <3>1. cli'[c] = cli[c]
      BY <1>3, <2>2, WorkMoves
    <3> QED
      BY <2>1, <3>1 DEF Offline, At, ForItself, Running
  <2>3. CASE c = d
    <3>1. CASE cli'[c] = Done
      BY <3>1, RecordFacts DEF Offline
    <3>2. CASE At(c, "waiting") /\ cli'[c].pc = "alone"
      BY <2>1, <3>2 DEF At, Overlap, Running
    <3>3. CASE ~At(c, "waiting") /\ cli'[c].command = cli[c].command
      BY <2>1, <3>3 DEF Offline, ForItself, Running
    <3> QED
      BY <1>3, <2>3, <3>1, <3>2, <3>3, WorkMoves
  <2> QED
    BY <2>2, <2>3
<1>4. ASSUME NEW d \in Clients, NEW command \in Commands, Start(d, command) PROVE ~Running'
  <2>1. UNCHANGED app
    BY <1>4 DEF Start, runtime
  <2>2. CASE c # d
    <3>1. cli'[c] = cli[c]
      BY <1>4, <2>2 DEF Start, Shape, CliShape
    <3> QED
      BY <2>1, <3>1 DEF Offline, At, ForItself, Running
  <2>3. CASE c = d
    <3>1. cli'[c].pc = IF Reachable THEN "waiting" ELSE "alone"
      BY <1>4, <2>3 DEF Start, Shape, CliShape, CliRecords
    <3>2. ~Reachable /\ cli'[c].pc = "alone" /\ At(c, "new")
      BY <1>4, <2>3, <3>1 DEF Offline, At, Start
    <3> QED
      BY <2>1, <3>2 DEF Overlap, At, Running
  <2> QED
    BY <2>2, <2>3
<1> QED
  BY <1>1, <1>2, <1>3, <1>4 DEF Step, OfRuntime, Actors

\* A client on the files sees nothing change but by its own hand.
LEMMA StillTrueStep ==
  ASSUME Shape, ForItself, StillTrue, Step, ~Overlap
  PROVE  StillTrue'
<1>1. CASE OfRuntime
  BY <1>1, RuntimeAlone DEF StillTrue, At, OnFiles
<1>2. ASSUME NEW d \in Clients, NEW command \in Commands, Start(d, command) PROVE StillTrue'
  <2>1. UNCHANGED <<dir, stored>> /\ cli'[d].pc \in {"waiting", "alone"}
        /\ \A c \in Clients \ {d} : cli'[c] = cli[c]
    BY <1>2 DEF Start, Shape, CliShape, CliRecords
  <2> QED
    BY <2>1 DEF StillTrue, At
<1>3. ASSUME NEW d \in Clients, Work(d) \/ Interrupt(d) PROVE StillTrue'
  <2>1. \A c \in Clients \ {d} : cli'[c] = cli[c]
    BY <1>3, WorkMoves
  <2>2. CASE dir' \subseteq dir /\ UNCHANGED stored
    <3>1. /\ cli'[d].pc \in {"preferences", "socket", "list", "rmdir"} => "snapshot" \notin dir'
          /\ cli'[d].pc \in {"socket", "list", "rmdir"} => dir' \cap {"preferences", "temporary"} = {}
          /\ cli'[d].pc \in {"list", "rmdir"} => "socket" \notin dir'
          /\ cli'[d].pc = "write" => cli'[d].seen = stored'
      <4>1. CASE cli'[d] = Done
        BY <4>1, RecordFacts
      <4>2. CASE GiveUp(d)
        BY <4>2, MoveShape DEF GiveUp, Pcs, Shape
      <4>3. CASE ReadSettings(d)
        BY <4>3, <2>2, ReportShape, RecordFacts DEF ReadSettings, Shape, CliShape, CliRecords
      <4>4. CASE CheckSnapshot(d)
        BY <4>4, MoveShape, ReportShape, RecordFacts DEF CheckSnapshot, Pcs, Shape
      <4>5. CASE RemoveSocket(d)
        BY <4>5, MoveShape, ReportShape, RecordFacts DEF RemoveSocket, Pcs, Shape, StillTrue, At
      <4>6. CASE ListEntries(d)
        BY <4>6, MoveShape, ReportShape, RecordFacts DEF ListEntries, Pcs, Shape, StillTrue, At
      <4>7. CASE RemovePreferences(d)
        BY <4>7, MoveShape, ReportShape, RecordFacts
        DEF RemovePreferences, Pcs, Shape, StillTrue, At
      <4>8. Report(d) => cli'[d] = Done
        BY ReportShape DEF Shape
      <4> QED
        BY <1>3, <4>1, <4>2, <4>3, <4>4, <4>5, <4>6, <4>7, <4>8
        DEF Work, NotRunning, WriteSettings, RemoveDir, Interrupt
    <3> QED
      BY <2>1, <2>2, <3>1 DEF StillTrue, At
  <2>3. CASE cli[d].pc \in OnFiles
    <3>1. \A c \in Clients \ {d} : cli'[c].pc \notin OnFiles
      BY <2>1, <2>3, OnFilesOffline DEF ForItself, Shape
    <3>2. CASE cli'[d] = Done
      BY <3>1, <3>2, RecordFacts DEF StillTrue, At, OnFiles
    <3>3. CASE RemovePreferences(d) /\ cli'[d] # Done
      <4>1. dir' = dir \ {"preferences", "temporary"} /\ cli'[d].pc = "socket"
        BY <3>3, MoveShape, ReportShape DEF RemovePreferences, Pcs, Shape
      <4> QED
        BY <3>1, <3>3, <4>1 DEF RemovePreferences, StillTrue, At, OnFiles
    <3>4. Report(d) => cli'[d] = Done
      BY ReportShape DEF Shape
    <3>5. CASE ~RemovePreferences(d) /\ cli'[d] # Done
      <4>1. dir' \subseteq dir /\ UNCHANGED stored
        BY <1>3, <2>3, <3>4, <3>5
        DEF Work, GiveUp, NotRunning, ReadSettings, WriteSettings, CheckSnapshot, RemoveSocket,
          ListEntries, RemoveDir, Interrupt
      <4> QED
        BY <2>2, <4>1
    <3> QED
      BY <3>2, <3>3, <3>5
  <2>4. cli[d].pc \notin OnFiles => dir' \subseteq dir /\ UNCHANGED stored
    BY <1>3 DEF Work, GiveUp, NotRunning, ReadSettings, WriteSettings, CheckSnapshot,
      RemovePreferences, RemoveSocket, ListEntries, RemoveDir, Interrupt, At, Alone, OnFiles
  <2> QED
    BY <2>2, <2>3, <2>4
<1> QED
  BY <1>1, <1>2, <1>3 DEF Step, OfRuntime, Actors

LEMMA BoundStep ==
  ASSUME Shape, WayBackKept, ForItself, Bound, Step, ~Overlap
  PROVE  Bound'
<1>1. ASSUME NEW d \in Clients, Work(d) \/ Interrupt(d) PROVE Bound'
  <2>1. UNCHANGED app
    BY <1>1, WorkFrame
  <2>2. CASE cli[d].pc \in OnFiles
    <3>1. ~Running
      BY <2>2, OnFilesOffline DEF ForItself, Shape
    <3> QED
      BY <2>1, <3>1 DEF Bound, Running
  <2>3. CASE cli[d].pc \notin OnFiles
    <3>1. dir \subseteq dir'
      BY <1>1, <2>3 DEF Work, GiveUp, NotRunning, ReadSettings, WriteSettings, CheckSnapshot,
        RemovePreferences, RemoveSocket, ListEntries, RemoveDir, Interrupt, At, Alone, OnFiles
    <3> QED
      BY <2>1, <3>1 DEF Bound
  <2> QED
    BY <2>2, <2>3
<1>2. ASSUME NEW a \in Actors, Operate(a) PROVE Bound'
  <2>1. app' = app \/ app' = "booted"
    BY <1>2 DEF Operate, BeginConnect, FinishConnect, SetSaving, Disconnect, Returns
  <2>2. dir \ dir' \subseteq {"snapshot"}
    BY <1>2, OperateRemoves
  <2> QED
    BY <2>1, <2>2 DEF Bound
<1>3. CASE \/ \E c \in Clients : Serve(c)
           \/ \E c \in Clients, command \in Commands : Start(c, command)
           \/ Launch \/ Initialize \/ Bind \/ ControlFails
  <2>1. dir \subseteq dir'
    BY <1>3, OtherRemoves
  <2>2. app' = "serving" => app = "serving" \/ "socket" \in dir'
    BY <1>3 DEF Serve, Accept, AnswerStatus, AnswerSet, Start, Launch, Initialize, Bind,
      ControlFails, runtime
  <2> QED
    BY <2>1, <2>2 DEF Bound
<1>4. CASE Stop
  BY <1>4, StopRemoves DEF Bound
<1> QED
  BY <1>1, <1>2, <1>3, <1>4 DEF Step, Actors

KeptOf(p, pr) == \A k \in Keys : p.policy[k] \in pr[k]

LEMMA KeptIs == Kept <=> KeptOf(stored, promised) /\ (Running => KeptOf(memory, promised))
BY DEF Kept, KeptOf

\* A setting and its promise change together, and the others with neither.
LEMMA WithKept ==
  ASSUME NEW p \in Preferences, NEW pr \in [Keys -> SUBSET Values], KeptOf(p, pr),
         NEW command, command.key \in Keys, command.value \in InRange,
         NEW S \in SUBSET Values, command.value \in S
  PROVE  KeptOf(With(p, command), [pr EXCEPT ![command.key] = S])
BY WithFacts DEF KeptOf

LEMMA KeptStep ==
  ASSUME Shape, ForItself, StillTrue, Kept, Step, ~Overlap
  PROVE  Kept'
<1> USE DEF Shape, DataShape
<1>a. KeptOf(stored, promised) /\ (Running => KeptOf(memory, promised))
  BY KeptIs
<1> SUFFICES KeptOf(stored', promised') /\ (Running' => KeptOf(memory', promised'))
  BY DEF Kept, KeptOf
<1> DEFINE Goal == KeptOf(stored', promised') /\ (Running' => KeptOf(memory', promised'))
<1>1. CASE UNCHANGED <<stored, memory, promised, app>>
  BY <1>a, <1>1 DEF Running
<1>2. ASSUME NEW c \in Clients, Serve(c) PROVE Goal
  <2>1. Running
    BY <1>2, ServeRunning
  <2>2. CASE Accept(c) \/ AnswerStatus(c)
    BY <1>1, <2>2 DEF Accept, AnswerStatus, runtime
  <2>3. CASE AnswerSet(c)
    <3> DEFINE command == request[c].command
    <3>1. command.key \in Keys
      BY <2>3, CommandFacts DEF AnswerSet, Carries, Requests, RequestRecords
    <3>2. CASE connected \/ command.value \notin InRange
      BY <1>1, <2>3, <3>2 DEF AnswerSet
    <3>3. CASE ~connected /\ command.value \in InRange
      <4>1. /\ memory' = With(memory, command) /\ UNCHANGED app
            /\ \/ Save(memory') /\ Promise(command)
               \/ /\ SaveFails
                  /\ promised' = [promised EXCEPT ![command.key] = @ \cup {command.value}]
        BY <2>3, <3>3 DEF AnswerSet
      <4>2. CASE Save(memory') /\ Promise(command)
        <5>1. promised' = [promised EXCEPT ![command.key] = {command.value}]
          BY <4>2 DEF Promise
        <5>2. {command.value} \in SUBSET Values
          BY <3>3, Constants
        <5>3. KeptOf(memory', promised')
          BY <1>a, <2>1, <3>1, <3>3, <4>1, <5>1, <5>2, WithKept
        <5> QED
          BY <4>2, <5>3 DEF Save
      <4>3. CASE SaveFails /\ promised' = [promised EXCEPT ![command.key] = @ \cup {command.value}]
        <5>1. promised[command.key] \cup {command.value} \in SUBSET Values
          BY <3>1, <3>3, Constants
        <5>2. KeptOf(memory', promised')
          BY <1>a, <2>1, <3>1, <3>3, <4>1, <4>3, <5>1, WithKept
        <5>3. \A k \in Keys : promised[k] \subseteq promised'[k]
          BY <3>1, <4>3
        <5> QED
          BY <1>a, <4>3, <5>2, <5>3 DEF SaveFails, KeptOf
      <4> QED
        BY <4>1, <4>2, <4>3
    <3> QED
      BY <3>2, <3>3
  <2> QED
    BY <1>2, <2>2, <2>3 DEF Serve
<1>3. ASSUME NEW a \in Actors, Operate(a) PROVE Goal
  <2>1. Running /\ UNCHANGED promised
    BY <1>3, OperateShape DEF Operate, BeginConnect, FinishConnect, SetSaving, Disconnect
  <2>2. ASSUME NEW b \in BOOLEAN PROVE KeptOf([memory EXCEPT !.connect = b], promised)
    BY <1>a, <2>1, ConnectFacts DEF KeptOf
  <2>3. CASE BeginConnect(a)
    BY <1>a, <2>1, <2>2, <2>3 DEF BeginConnect, Save, SaveFails
  <2>4. CASE FinishConnect(a)
    BY <1>a, <2>1, <2>4 DEF FinishConnect
  <2>5. CASE SetSaving(a)
    BY <1>a, <2>1, <2>5 DEF SetSaving, Save, SaveFails
  <2>6. ASSUME NEW quitting \in BOOLEAN, Disconnect(a, quitting) PROVE Goal
    <3>1. (quitting /\ memory.connect) \in BOOLEAN
      BY DEF Preferences
    <3>2. [memory EXCEPT !.connect = quitting /\ @] = [memory EXCEPT !.connect = quitting /\ memory.connect]
      OBVIOUS
    <3>3. KeptOf([memory EXCEPT !.connect = quitting /\ @], promised)
      BY <2>2, <3>1, <3>2
    <3> QED
      BY <1>a, <2>1, <2>6, <3>3 DEF Disconnect
  <2> QED
    BY <1>3, <2>3, <2>4, <2>5, <2>6 DEF Operate
<1>4. CASE Launch
  BY <1>a, <1>4 DEF Launch
<1>5. CASE Initialize \/ Bind \/ ControlFails
  BY <1>a, <1>5 DEF Initialize, Bind, ControlFails, Running
<1>6. CASE Stop
  BY <1>a, <1>6 DEF Stop, Running
<1>7. ASSUME NEW c \in Clients, NEW command \in Commands, Start(c, command) PROVE Goal
  BY <1>1, <1>7 DEF Start, runtime
<1>8. ASSUME NEW c \in Clients, Work(c) \/ Interrupt(c) PROVE Goal
  <2>1. UNCHANGED app
    BY <1>8, WorkFrame
  <2>2. CASE WriteSettings(c)
    <3>1. ~Running
      BY <2>2, OnFilesOffline DEF WriteSettings, At, OnFiles, ForItself
    <3>2. /\ cli[c].seen = stored /\ cli[c].command.key \in Keys
          /\ cli[c].command.value \in InRange
      BY <2>2, CommandFacts DEF WriteSettings, At, StillTrue, CliShape, CliRecords
    <3>3. CASE Save(With(stored, cli[c].command)) /\ Promise(cli[c].command)
      <4>1. {cli[c].command.value} \in SUBSET Values
        BY <3>2, Constants
      <4> QED
        BY <1>a, <2>1, <3>1, <3>2, <3>3, <4>1, WithKept DEF Save, Promise, Running
    <3>4. CASE SaveFails /\ UNCHANGED promised
      BY <1>a, <2>1, <3>1, <3>4 DEF SaveFails, Running
    <3> QED
      BY <2>2, <3>2, <3>3, <3>4 DEF WriteSettings
  <2>3. CASE RemovePreferences(c)
    <3>1. ~Running
      BY <2>3, OnFilesOffline DEF RemovePreferences, At, OnFiles, ForItself
    <3>2. \/ UNCHANGED <<stored, promised>>
          \/ stored' = Defaults /\ promised' = [k \in Keys |-> {Default}]
      BY <2>3 DEF RemovePreferences
    <3> QED
      BY <1>a, <2>1, <3>1, <3>2 DEF KeptOf, Defaults, Running
  <2>4. CASE ~WriteSettings(c) /\ ~RemovePreferences(c)
    <3>1. UNCHANGED <<stored, promised>>
      BY <1>8, <2>4 DEF Work, GiveUp, NotRunning, ReadSettings, CheckSnapshot, RemoveSocket,
        ListEntries, RemoveDir, Interrupt
    <3>2. UNCHANGED memory
      BY <1>8, WorkFrame
    <3> QED
      BY <1>1, <2>1, <3>1, <3>2
  <2> QED
    BY <2>2, <2>3, <2>4
<1> QED
  BY <1>2, <1>3, <1>4, <1>5, <1>6, <1>7, <1>8 DEF Step, Actors

LEMMA QuietStutter == ASSUME Quiet, UNCHANGED vars PROVE Quiet'
<1>1. UNCHANGED <<dir, stored, app, memory, cli, promised>>
  BY DEF vars, runtime
<1>2. ForItself'
  BY <1>1 DEF Quiet, ForItself, Offline, At, Running
<1>3. StillTrue'
  BY <1>1 DEF Quiet, StillTrue, At
<1>4. Bound' /\ Kept'
  BY <1>1 DEF Quiet, Bound, Kept, Running
<1> QED
  BY <1>2, <1>3, <1>4 DEF Quiet

LEMMA QuietAlways == Spec => [](~overlapped => Quiet)
<1>1. Init => (~overlapped => Quiet)
  BY RecordFacts, Constants
  DEF Init, Quiet, ForItself, StillTrue, Bound, Kept, Offline, At, Running, Defaults
<1>2. Shape /\ overlapped \in BOOLEAN /\ WayBackKept /\ (~overlapped => Quiet) /\ [Next]_vars
        => (~overlapped => Quiet)'
  <2> SUFFICES ASSUME Shape, overlapped \in BOOLEAN, WayBackKept, ~overlapped => Quiet,
                      [Next]_vars, ~overlapped'
               PROVE  Quiet'
    OBVIOUS
  <2>1. CASE UNCHANGED vars
    BY <2>1, QuietStutter DEF vars
  <2>2. CASE Next
    <3>1. ~overlapped /\ ~Overlap /\ Step
      BY <2>2, Zenon DEF Next
    <3> QED
      BY <3>1, ForItselfStep, StillTrueStep, BoundStep, KeptStep DEF Quiet
  <2> QED
    BY <2>1, <2>2
<1> QED
  BY <1>1, <1>2, ShapeAlways, WayBackAlways, PTL DEF Spec

\* As long as no client was mistaken about the runtime: a setting that was
\* reported as set is in the file and in the runtime, for any number of clients,
\* keys and values (set_numeric_setting_offline, set_min_bytes, open).
THEOREM SettingsAreKept == Spec => []SettingsKept
<1>1. (~overlapped => Quiet) => SettingsKept
  BY DEF Quiet, Kept, SettingsKept
<1> QED
  BY <1>1, QuietAlways, PTL

\* ... a runtime that serves the socket can be reached there
\* (serve_control_socket, purge_state_for_uninstall) ...
THEOREM ServingStaysReachable == Spec => []ServingIsReachable
<1>1. (~overlapped => Quiet) => ServingIsReachable
  BY DEF Quiet, Bound, ServingIsReachable, Reachable
<1> QED
  BY <1>1, QuietAlways, PTL

\* ... and a purge that comes to its report has left neither preferences nor
\* socket nor the temporary file of a setting, and no snapshot: what it reports is
\* not TokenSaver's, or the one file of TokenSaver's that purges do not know, the
\* temporary file of a snapshot (purge_owned_state_at, maintenance.rs:77-101).
THEOREM PurgeLeavesOnlyTheRest == Spec => []PurgedClean
<1>1. Shape /\ (~overlapped => Quiet) => PurgedClean
  BY DEF Shape, DataShape, Quiet, StillTrue, PurgedClean, Entries, Owned
<1> QED
  BY <1>1, QuietAlways, ShapeAlways, PTL

\* Only an operation of the application begins a connection.
LEMMA ConnectedBy ==
  ASSUME Next, ~connected, connected'
  PROVE  \E a \in Actors : Operate(a)
<1>1. Step
  BY DEF Next
<1>2. ASSUME NEW c \in Clients, Serve(c) PROVE UNCHANGED connected
  BY <1>2 DEF Serve, Accept, AnswerStatus, AnswerSet, runtime
<1>3. ASSUME NEW c \in Clients, NEW command \in Commands, Start(c, command)
      PROVE  UNCHANGED connected
  BY <1>3 DEF Start, runtime
<1>4. ASSUME NEW c \in Clients, Work(c) \/ Interrupt(c) PROVE UNCHANGED connected
  BY <1>4, WorkFrame
<1>5. CASE Launch \/ Initialize \/ Bind \/ ControlFails \/ Stop
  BY <1>5 DEF Launch, Initialize, Bind, ControlFails, Stop
<1> QED
  BY <1>1, <1>2, <1>3, <1>4, <1>5, Zenon DEF Step, Actors

\* ... and a connection begins with the settings last reported, which is what
\* ReportedSettingsApply finds untrue where a client was mistaken: the overlap is
\* the only way to it (open, connect_locked).
THEOREM ReportedApplyWithoutOverlap ==
  Spec => [][~overlapped /\ ~connected /\ connected'
               => \A k \in Keys : memory.policy[k] \in promised[k]]_vars
<1>1. Shape /\ (~overlapped => Quiet) /\ [Next]_vars
        => [~overlapped /\ ~connected /\ connected'
              => \A k \in Keys : memory.policy[k] \in promised[k]]_vars
  <2> SUFFICES ASSUME Shape, Quiet, Next, ~connected, connected'
               PROVE  \A k \in Keys : memory.policy[k] \in promised[k]
    BY DEF vars
  <2>1. Running
    <3>1. PICK a \in Actors : Operate(a)
      BY ConnectedBy
    <3> QED BY <3>1, OperateShape
  <2> QED
    BY <2>1 DEF Quiet, Kept
<1> QED
  BY <1>1, QuietAlways, ShapeAlways, PTL DEF Spec
=============================================================================
