------------------------ MODULE DesktopRuntimeProofs ------------------------
(***************************************************************************)
(* Proofs about DesktopRuntime, for every number of tasks, every set of    *)
(* policies and any number of events and faults.                           *)
(*                                                                         *)
(* Whoever is at a critical place of the controller holds the operation    *)
(* lock ("Exclusive"), so nobody else is at one; hence what "Placed" says  *)
(* of a place stays true while a task is there, although quitting, the     *)
(* health refresh, Codex and the user of config.toml take no lock.  The    *)
(* refinement of CodexLink rests on the same two.                          *)
(***************************************************************************)
EXTENDS DesktopRuntime, TLAPS

Critical == {"prepare", "publish", "announce", "restore", "takedown", "settle"}
Pcs == {"idle", "init", "lock", "ask", "flush", "exit"} \cup Critical

Settings == [saving : BOOLEAN, connect : BOOLEAN, policy : Policies]
Links == [saving : BOOLEAN, policy : Policies]

TaskRecords ==
  {r \in [op : Ops, pc : Pcs, arg : {NoOne} \cup BOOLEAN \cup Policies] :
     /\ r.op = "saving" => r.arg \in BOOLEAN
     /\ r.op = "policy" => r.arg \in Policies}

Shape == TypeOK /\ task \in [Everyone -> TaskRecords]

\* The operation lock is held at every critical place, and an application that
\* is not up has nothing of its own left.
Exclusive ==
  /\ app # "up" => lock = NoOne /\ conn = NoOne
  /\ \A t \in Everyone : task[t].pc \in Critical => lock = t

\* What is true while a task is at a critical place.
Placed ==
  \A t \in Everyone :
    /\ task[t].pc \in {"prepare", "publish"} => conn = NoOne /\ prefs.connect /\ disk.connect
    /\ task[t].pc = "announce" => (conn # NoOne => conn.saving = prefs.saving)
    /\ task[t].pc \in {"restore", "takedown"} => conn # NoOne /\ draining /\ requests = 0
    /\ task[t].pc = "takedown" => ~snapshot /\ config = "own"
    /\ task[t].pc = "settle" => conn = NoOne

\* What is true of a live connection.
Linked ==
  conn # NoOne =>
    /\ prefs.connect /\ disk.connect
    /\ conn.policy = prefs.policy
    /\ (\A t \in Everyone : task[t].pc # "announce") => conn.saving = status.saving

Inv == Shape /\ Exclusive /\ Placed /\ Linked

LEMMA Constants == /\ NoOne \notin Everyone /\ NoOne \notin Links /\ Boot \in Everyone
                   /\ Tasks \subseteq Everyone
BY DesktopRuntimeAssumption DEF Everyone, Links

LEMMA IdleRecord == Idle \in TaskRecords /\ Idle.pc = "idle" /\ Idle.op = "none"
BY DEF Idle, TaskRecords, Ops, Disconnects, Clears, Pcs

-----------------------------------------------------------------------------
(* A task's record, the lock and the status from one step to the next *)

LEMMA StepShape ==
  ASSUME Shape, NEW t \in Everyone, NEW pc \in Pcs, Step(t, pc)
  PROVE  /\ task' \in [Everyone -> TaskRecords]
         /\ task'[t].pc = pc /\ task'[t].op = task[t].op
         /\ \A u \in Everyone \ {t} : task'[u] = task[u]
BY DEF Shape, Step, TaskRecords

LEMMA FailShape ==
  ASSUME Shape, NEW t \in Everyone, Fail(t)
  PROVE  /\ task' \in [Everyone -> TaskRecords]
         /\ task'[t] = Idle
         /\ \A u \in Everyone \ {t} : task'[u] = task[u]
         /\ lock' = IF lock = t THEN NoOne ELSE lock
         /\ exiting' \in BOOLEAN
<1>1. exiting' \in BOOLEAN
  BY DEF Fail
<1> QED
  BY <1>1, IdleRecord DEF Shape, Fail, Release

LEMMA ShowShape ==
  ASSUME Shape, NEW service \in {"Stopped", "Starting", "Running", "Error"},
         NEW codex \in {"Disconnected", "Connecting", "Connected", "Drifted", "Error"},
         Show(service, codex)
  PROVE  /\ status' \in [service : {"Stopped", "Starting", "Running", "Error"},
                         codex : {"Disconnected", "Connecting", "Connected", "Drifted", "Error"},
                         saving : BOOLEAN]
         /\ status'.saving = status.saving
BY DEF Shape, TypeOK, Show

LEMMA HealthyShape ==
  ASSUME Shape, NEW state, Healthy(state)
  PROVE  /\ status' \in [service : {"Stopped", "Starting", "Running", "Error"},
                         codex : {"Disconnected", "Connecting", "Connected", "Drifted", "Error"},
                         saving : BOOLEAN]
         /\ status'.saving = status.saving
BY DEF Shape, TypeOK, Show, Healthy

\* What becomes of Codex's files, whoever writes them.
LEMMA FilesShape ==
  ASSUME Shape,
         \/ Codex!Install \/ Codex!InstallFails \/ Codex!Withdraw \/ Codex!WithdrawFails
         \/ Codex!UserEdits \/ UNCHANGED files
  PROVE  snapshot' \in BOOLEAN /\ config' \in Codex!Views
BY DEF Shape, TypeOK, files, Codex!Install, Codex!InstallFails, Codex!Withdraw,
   Codex!WithdrawFails, Codex!UserEdits, Codex!Foreign, Codex!Views

\* The lock excludes everyone else from the critical places.
LEMMA Nobody ==
  ASSUME Inv, lock = NoOne
  PROVE  \A u \in Everyone : task[u].pc \notin Critical
BY Constants DEF Inv, Exclusive

LEMMA NobodyElse ==
  ASSUME Inv, NEW t \in Everyone, task[t].pc \in Critical
  PROVE  lock = t /\ \A u \in Everyone \ {t} : task[u].pc \notin Critical
BY DEF Inv, Exclusive

-----------------------------------------------------------------------------
(* connect *)

LEMMA BeginConnectStep ==
  ASSUME Inv, NEW t \in Everyone, BeginConnect(t)
  PROVE  Inv'
<1>1. /\ \A u \in Everyone : task[u].pc \notin Critical
      /\ lock = NoOne /\ app = "up" /\ lock # t
  BY Nobody, Constants DEF BeginConnect, At
<1>2. UNCHANGED <<app, files, conn, draining, requests, tick>>
  BY DEF BeginConnect, link
<1>3. CASE /\ conn # NoOne /\ Healthy(Codex!FileState)
           /\ task' = [task EXCEPT ![t] = Idle]
           /\ UNCHANGED <<prefs, disk, lock, exiting, budget>>
  <2>1. /\ task' \in [Everyone -> TaskRecords] /\ task'[t].pc = "idle"
        /\ \A u \in Everyone \ {t} : task'[u] = task[u]
    BY <1>3, IdleRecord DEF Inv, Shape
  <2>2. Shape'
    BY <1>2, <1>3, <2>1, HealthyShape DEF Inv, Shape, TypeOK, files, TaskRecords
  <2> QED
    BY <1>1, <1>2, <1>3, <2>1, <2>2, HealthyShape DEF Inv, Exclusive, Placed, Linked, files, Critical
<1>4. CASE /\ conn = NoOne /\ Set([prefs EXCEPT !.connect = TRUE])
           /\ Saved /\ Show("Starting", "Connecting") /\ lock' = t
           /\ Step(t, "prepare") /\ UNCHANGED exiting
  <2>1. /\ task' \in [Everyone -> TaskRecords] /\ task'[t].pc = "prepare"
        /\ \A u \in Everyone \ {t} : task'[u] = task[u]
    BY <1>4, StepShape DEF Inv, Pcs, Critical
  <2>2. prefs' \in Settings /\ disk' = prefs' /\ prefs'.connect
    BY <1>4 DEF Inv, Shape, TypeOK, Set, Saved, Settings
  <2>3. Shape'
    BY <1>2, <1>4, <2>1, <2>2, ShowShape DEF Inv, Shape, TypeOK, files, TaskRecords, Settings
  <2> QED
    BY <1>1, <1>2, <1>4, <2>1, <2>2, <2>3 DEF Inv, Exclusive, Placed, Linked, Critical
<1>5. CASE /\ conn = NoOne /\ Set([prefs EXCEPT !.connect = TRUE])
           /\ NotSaved /\ Fail(t)
           /\ IF task[t].op = "init" THEN Show("Running", "Error") ELSE UNCHANGED status
  <2>1. prefs' \in Settings /\ disk' = disk
    BY <1>5 DEF Inv, Shape, TypeOK, Set, NotSaved, Settings
  <2>2. Shape'
    BY <1>2, <1>5, <2>1, ShowShape, FailShape, <1>1 DEF Inv, Shape, TypeOK, files, TaskRecords, Settings
  <2> QED
    BY <1>1, <1>2, <1>5, <2>1, <2>2, FailShape, IdleRecord DEF Inv, Exclusive, Placed, Linked, Critical
<1> QED
  BY <1>3, <1>4, <1>5 DEF BeginConnect

LEMMA PrepareStep ==
  ASSUME Inv, NEW t \in Everyone, Prepare(t)
  PROVE  Inv'
<1>1. /\ task[t].pc = "prepare" /\ app = "up"
      /\ lock = t /\ \A u \in Everyone \ {t} : task[u].pc \notin Critical
      /\ conn = NoOne /\ prefs.connect /\ disk.connect
  <2>1. task[t].pc = "prepare" /\ app = "up"
    BY DEF Prepare, At
  <2> QED
    BY <2>1, NobodyElse DEF Inv, Placed, Critical
<1>2. UNCHANGED <<app, prefs, disk, conn, draining, requests, tick>>
  BY DEF Prepare, link
<1>3. CASE Codex!Install /\ Step(t, "publish") /\ UNCHANGED <<status, lock, exiting>>
  <2>1. /\ task' \in [Everyone -> TaskRecords] /\ task'[t].pc = "publish"
        /\ \A u \in Everyone \ {t} : task'[u] = task[u]
    BY <1>3, StepShape DEF Inv, Pcs, Critical
  <2>2. Shape'
    BY <1>2, <1>3, <2>1, FilesShape DEF Inv, Shape, TypeOK, TaskRecords
  <2> QED
    BY <1>1, <1>2, <1>3, <2>1, <2>2 DEF Inv, Exclusive, Placed, Linked, Critical
<1>4. CASE (Codex!InstallFails \/ UNCHANGED files) /\ Show("Running", "Error") /\ Fail(t)
  <2>1. Shape'
    BY <1>2, <1>4, FilesShape, ShowShape, FailShape DEF Inv, Shape, TypeOK, TaskRecords
  <2> QED
    BY <1>1, <1>2, <1>4, <2>1, FailShape, IdleRecord DEF Inv, Exclusive, Placed, Linked, Critical
<1> QED
  BY <1>3, <1>4 DEF Prepare

LEMMA PublishStep ==
  ASSUME Inv, NEW t \in Everyone, Publish(t)
  PROVE  Inv'
<1>1. /\ task[t].pc = "publish" /\ app = "up"
      /\ lock = t /\ \A u \in Everyone \ {t} : task[u].pc \notin Critical
      /\ prefs.connect /\ disk.connect
  <2>1. task[t].pc = "publish" /\ app = "up"
    BY DEF Publish, At
  <2> QED
    BY <2>1, NobodyElse DEF Inv, Placed, Critical
<1>2. UNCHANGED <<app, prefs, disk, files, draining, requests, status, lock, exiting, tick>>
  BY DEF Publish
<1>3. /\ task' \in [Everyone -> TaskRecords] /\ task'[t].pc = "announce"
      /\ \A u \in Everyone \ {t} : task'[u] = task[u]
  BY StepShape DEF Inv, Pcs, Critical, Publish
<1>4. conn' \in Links /\ conn'.saving = prefs.saving /\ conn'.policy = prefs.policy
  BY DEF Inv, Shape, TypeOK, Publish, Links
<1>5. Shape'
  BY <1>2, <1>3, <1>4 DEF Inv, Shape, TypeOK, TaskRecords, files, Links
<1> QED
  BY <1>1, <1>2, <1>3, <1>4, <1>5 DEF Inv, Exclusive, Placed, Linked, Critical, files

LEMMA AnnounceStep ==
  ASSUME Inv, NEW t \in Everyone, Announce(t)
  PROVE  Inv'
<1>1. /\ task[t].pc = "announce" /\ app = "up"
      /\ lock = t /\ \A u \in Everyone \ {t} : task[u].pc \notin Critical
  <2>1. task[t].pc = "announce" /\ app = "up"
    BY DEF Announce, At
  <2> QED
    BY <2>1, NobodyElse DEF Critical
<1>2. UNCHANGED <<app, prefs, disk, files, link, requests, tick>> /\ Fail(t)
  BY DEF Announce
<1>3. /\ status' \in [service : {"Running"}, codex : {"Connected"}, saving : BOOLEAN]
      /\ status'.saving = prefs.saving
  BY DEF Inv, Shape, TypeOK, Announce
<1>4. Shape'
  BY <1>2, <1>3, FailShape DEF Inv, Shape, TypeOK, TaskRecords, files, link
<1>5. Placed' /\ Exclusive'
  BY <1>1, <1>2, FailShape, IdleRecord DEF Inv, Exclusive, Placed, Critical, link
<1>6. Linked'
  BY <1>1, <1>2, <1>3, FailShape DEF Inv, Placed, Linked, link
<1> QED
  BY <1>4, <1>5, <1>6 DEF Inv

-----------------------------------------------------------------------------
(* disconnect, and quitting *)

LEMMA AskToQuitStep ==
  ASSUME Inv, NEW t \in Everyone, AskToQuit(t)
  PROVE  Inv'
<1>1. PICK pc \in {"lock", "flush"} : Step(t, pc)
  BY DEF AskToQuit
<1>2. /\ task' \in [Everyone -> TaskRecords] /\ task'[t].pc = pc
      /\ \A u \in Everyone \ {t} : task'[u] = task[u]
  BY <1>1, StepShape DEF Inv, Pcs
<1>3. UNCHANGED <<app, prefs, disk, files, link, requests, status, lock, exiting, tick>>
  BY DEF AskToQuit
<1>4. task[t].pc = "ask"
  BY DEF AskToQuit, At
<1>5. Shape'
  BY <1>2, <1>3 DEF Inv, Shape, TypeOK, TaskRecords, files, link
<1> QED
  BY <1>2, <1>3, <1>4, <1>5 DEF Inv, Exclusive, Placed, Linked, Critical, files, link

LEMMA BeginDisconnectStep ==
  ASSUME Inv, NEW t \in Everyone, BeginDisconnect(t)
  PROVE  Inv'
<1>1. /\ \A u \in Everyone : task[u].pc \notin Critical
      /\ lock = NoOne /\ app = "up"
  BY Nobody DEF BeginDisconnect, At
<1>2. UNCHANGED <<app, prefs, disk, files, conn, requests, status, tick>>
  BY DEF BeginDisconnect
<1>3. CASE conn = NoOne /\ Step(t, "settle") /\ lock' = t /\ UNCHANGED <<draining, exiting>>
  <2>1. /\ task' \in [Everyone -> TaskRecords] /\ task'[t].pc = "settle"
        /\ \A u \in Everyone \ {t} : task'[u] = task[u]
    BY <1>3, StepShape DEF Inv, Pcs, Critical
  <2>2. Shape'
    BY <1>2, <1>3, <2>1 DEF Inv, Shape, TypeOK, TaskRecords, files
  <2> QED
    BY <1>1, <1>2, <1>3, <2>1, <2>2 DEF Inv, Exclusive, Placed, Linked, Critical
<1>4. CASE Fail(t) /\ UNCHANGED draining
  <2>1. Shape'
    BY <1>2, <1>4, <1>1, FailShape DEF Inv, Shape, TypeOK, TaskRecords, files
  <2> QED
    BY <1>1, <1>2, <1>4, <2>1, FailShape, IdleRecord DEF Inv, Exclusive, Placed, Linked, Critical
<1>5. CASE /\ conn # NoOne /\ ~(requests > 0)
           /\ Step(t, "restore") /\ lock' = t /\ draining' = TRUE /\ UNCHANGED exiting
  <2>1. /\ task' \in [Everyone -> TaskRecords] /\ task'[t].pc = "restore"
        /\ \A u \in Everyone \ {t} : task'[u] = task[u]
    BY <1>5, StepShape DEF Inv, Pcs, Critical
  <2>2. requests = 0
    BY <1>5 DEF Inv, Shape, TypeOK
  <2>3. Shape'
    BY <1>2, <1>5, <2>1 DEF Inv, Shape, TypeOK, TaskRecords, files
  <2> QED
    BY <1>1, <1>2, <1>5, <2>1, <2>2, <2>3 DEF Inv, Exclusive, Placed, Linked, Critical
<1> QED
  BY <1>3, <1>4, <1>5 DEF BeginDisconnect

LEMMA RestoreStep ==
  ASSUME Inv, NEW t \in Everyone, Restore(t)
  PROVE  Inv'
<1>1. /\ task[t].pc = "restore" /\ app = "up"
      /\ lock = t /\ \A u \in Everyone \ {t} : task[u].pc \notin Critical
      /\ draining /\ requests = 0
  <2>1. task[t].pc = "restore" /\ app = "up"
    BY DEF Restore, At
  <2> QED
    BY <2>1, NobodyElse DEF Inv, Placed, Critical
<1>2. UNCHANGED <<app, prefs, disk, conn, requests, tick>>
  BY DEF Restore
<1>3. CASE Codex!Withdraw /\ Step(t, "takedown") /\ UNCHANGED <<draining, status, lock, exiting>>
  <2>1. /\ task' \in [Everyone -> TaskRecords] /\ task'[t].pc = "takedown"
        /\ \A u \in Everyone \ {t} : task'[u] = task[u]
    BY <1>3, StepShape DEF Inv, Pcs, Critical
  <2>2. ~snapshot' /\ config' = "own"
    BY <1>3 DEF Codex!Withdraw
  <2>3. Shape'
    BY <1>2, <1>3, <2>1, FilesShape DEF Inv, Shape, TypeOK, TaskRecords
  <2> QED
    BY <1>1, <1>2, <1>3, <2>1, <2>2, <2>3 DEF Inv, Exclusive, Placed, Linked, Critical
<1>4. CASE /\ Codex!WithdrawFails \/ UNCHANGED files
           /\ draining' = FALSE /\ Show("Running", "Error") /\ Fail(t)
  <2>0. draining' \in BOOLEAN
    BY <1>4
  <2>1. Shape'
    BY <1>2, <1>4, <2>0, FilesShape, ShowShape, FailShape DEF Inv, Shape, TypeOK, TaskRecords
  <2>2. Exclusive' /\ Placed'
    BY <1>1, <1>2, <1>4, FailShape, IdleRecord DEF Inv, Exclusive, Placed, Critical
  <2>3. Linked'
    BY <1>1, <1>2, <1>4, FailShape, ShowShape, IdleRecord DEF Inv, Linked
  <2> QED
    BY <2>1, <2>2, <2>3 DEF Inv
<1> QED
  BY <1>3, <1>4 DEF Restore

LEMMA TakeDownStep ==
  ASSUME Inv, NEW t \in Everyone, TakeDown(t)
  PROVE  Inv'
<1>1. /\ task[t].pc = "takedown" /\ app = "up"
      /\ lock = t /\ \A u \in Everyone \ {t} : task[u].pc \notin Critical
  <2>1. task[t].pc = "takedown" /\ app = "up"
    BY DEF TakeDown, At
  <2> QED
    BY <2>1, NobodyElse DEF Critical
<1>2. /\ conn' = NoOne /\ draining' = FALSE
      /\ UNCHANGED <<app, prefs, disk, files, requests, status, lock, exiting, tick>>
  BY DEF TakeDown
<1>3. /\ task' \in [Everyone -> TaskRecords] /\ task'[t].pc = "settle"
      /\ \A u \in Everyone \ {t} : task'[u] = task[u]
  BY StepShape DEF Inv, Pcs, Critical, TakeDown
<1>4. draining' \in BOOLEAN /\ conn' \in {NoOne}
  BY <1>2
<1>5. Shape'
  BY <1>2, <1>3, <1>4 DEF Inv, Shape, TypeOK, TaskRecords, files
<1> QED
  BY <1>1, <1>2, <1>3, <1>5 DEF Inv, Exclusive, Placed, Linked, Critical, files

LEMMA SettleStep ==
  ASSUME Inv, NEW t \in Everyone, Settle(t)
  PROVE  Inv'
<1>1. /\ task[t].pc = "settle" /\ app = "up" /\ conn = NoOne
      /\ lock = t /\ \A u \in Everyone \ {t} : task[u].pc \notin Critical
  <2>1. task[t].pc = "settle" /\ app = "up"
    BY DEF Settle, At
  <2> QED
    BY <2>1, NobodyElse DEF Inv, Placed, Critical
<1>2. UNCHANGED <<app, files, conn, draining, requests, tick>>
  BY DEF Settle, link
<1>3. prefs' \in Settings /\ disk' \in Settings
  <2>1. prefs \in Settings /\ disk \in Settings
    BY DEF Inv, Shape, TypeOK, Settings
  <2> QED
    BY <2>1 DEF Settle, Set, Saved, NotSaved, Settings
<1>4. CASE /\ Show("Running", "Disconnected") /\ Step(t, "flush")
           /\ UNCHANGED <<lock, exiting>>
  <2>1. /\ task' \in [Everyone -> TaskRecords] /\ task'[t].pc = "flush"
        /\ \A u \in Everyone \ {t} : task'[u] = task[u]
    BY <1>4, StepShape DEF Inv, Pcs, Critical
  <2>2. Shape'
    BY <1>2, <1>3, <1>4, <2>1, ShowShape DEF Inv, Shape, TypeOK, TaskRecords, files, Settings
  <2> QED
    BY <1>1, <1>2, <1>4, <2>1, <2>2 DEF Inv, Exclusive, Placed, Linked, Critical
<1>5. CASE Fail(t) /\ UNCHANGED status
  <2>1. Shape'
    BY <1>2, <1>3, <1>5, FailShape DEF Inv, Shape, TypeOK, TaskRecords, files, Settings
  <2> QED
    BY <1>1, <1>2, <1>5, <2>1, FailShape, IdleRecord DEF Inv, Exclusive, Placed, Linked, Critical
<1> QED
  BY <1>4, <1>5 DEF Settle

LEMMA FlushShape ==
  ASSUME Inv, NEW t \in Everyone, Flush(t)
  PROVE  /\ task' \in [Everyone -> TaskRecords] /\ task'[t].pc \notin Critical
         /\ \A u \in Everyone \ {t} : task'[u] = task[u]
         /\ lock' = (IF lock = t THEN NoOne ELSE lock) /\ exiting' \in BOOLEAN
<1>0. task[t] \in TaskRecords
  BY DEF Inv, Shape
<1>1. CASE Fail(t)
  BY <1>1, FailShape, IdleRecord DEF Inv, Critical
<1>2. CASE /\ task' = [task EXCEPT ![t] =
                IF task[t].op \in Exits THEN [@ EXCEPT !.pc = "exit"]
                ELSE IF task[t].op = "reconnect" THEN [@ EXCEPT !.op = "connect", !.pc = "lock"]
                ELSE Idle]
           /\ Release(t) /\ UNCHANGED exiting
  <2>1. [task[t] EXCEPT !.pc = "exit"] \in TaskRecords
    BY <1>0 DEF TaskRecords, Pcs
  <2>2. task[t].op = "reconnect" =>
          [task[t] EXCEPT !.op = "connect", !.pc = "lock"] \in TaskRecords
    BY <1>0 DEF TaskRecords, Pcs, Ops
  <2>3. task' \in [Everyone -> TaskRecords]
    BY <1>2, <2>1, <2>2, IdleRecord DEF Inv, Shape
  <2>4. task'[t].pc \in {"exit", "lock", "idle"}
    BY <1>0, <1>2, IdleRecord DEF Inv, Shape, TaskRecords
  <2> QED
    BY <1>2, <2>3, <2>4 DEF Inv, Shape, TypeOK, Release, Critical
<1> QED
  BY <1>1, <1>2 DEF Flush

LEMMA FlushStep ==
  ASSUME Inv, NEW t \in Everyone, Flush(t)
  PROVE  Inv'
<1>1. task[t].pc = "flush" /\ app = "up"
  BY DEF Flush, At
<1>2. UNCHANGED <<app, prefs, disk, files, link, requests, status, tick>>
  BY DEF Flush
<1>3. /\ task' \in [Everyone -> TaskRecords] /\ task'[t].pc \notin Critical
      /\ \A u \in Everyone \ {t} : task'[u] = task[u]
      /\ lock' = (IF lock = t THEN NoOne ELSE lock) /\ exiting' \in BOOLEAN
  BY FlushShape
<1>4. Shape'
  BY <1>2, <1>3 DEF Inv, Shape, TypeOK, TaskRecords, files, link
<1>5. Exclusive'
  BY <1>1, <1>2, <1>3 DEF Inv, Exclusive, link
<1>6. Placed' /\ Linked'
  BY <1>1, <1>2, <1>3 DEF Inv, Placed, Linked, Critical, files, link
<1> QED
  BY <1>4, <1>5, <1>6 DEF Inv

-----------------------------------------------------------------------------
(* Preferences *)

LEMMA SetSavingStep ==
  ASSUME Inv, NEW t \in Everyone, SetSaving(t)
  PROVE  Inv'
<1>1. /\ \A u \in Everyone : task[u].pc \notin Critical
      /\ lock = NoOne /\ app = "up" /\ task[t].arg \in BOOLEAN
  <2>1. task[t].op = "saving" /\ task[t] \in TaskRecords
    BY DEF SetSaving, At, Inv, Shape
  <2> QED
    BY <2>1, Nobody DEF SetSaving, At, TaskRecords
<1>2. UNCHANGED <<app, files, draining, requests, tick>> /\ Fail(t)
  BY DEF SetSaving
<1>3. /\ prefs' \in Settings /\ prefs'.saving = task[t].arg
      /\ prefs'.connect = prefs.connect /\ prefs'.policy = prefs.policy
  BY <1>1 DEF SetSaving, Set, Inv, Shape, TypeOK, Settings
<1>4. CASE /\ Saved /\ status' = [status EXCEPT !.saving = task[t].arg]
           /\ conn' = IF conn = NoOne THEN NoOne ELSE [conn EXCEPT !.saving = task[t].arg]
  <2>1. disk' \in Settings /\ disk' = prefs'
    BY <1>3, <1>4 DEF Saved
  <2>2. /\ conn' \in Links \cup {NoOne}
        /\ conn' # NoOne => conn # NoOne
        /\ conn' # NoOne => conn'.saving = task[t].arg /\ conn'.policy = conn.policy
    BY <1>1, <1>4 DEF Inv, Shape, TypeOK, Links
  <2>3. /\ status' \in [service : {"Stopped", "Starting", "Running", "Error"},
                         codex : {"Disconnected", "Connecting", "Connected", "Drifted", "Error"},
                         saving : BOOLEAN]
        /\ status'.saving = task[t].arg
    BY <1>1, <1>4 DEF Inv, Shape, TypeOK
  <2>4. Shape'
    <3>1. /\ task' \in [Everyone -> TaskRecords] /\ exiting' \in BOOLEAN
          /\ lock' \in Everyone \cup {NoOne}
      BY <1>1, <1>2, FailShape DEF Inv
    <3>2. \A u \in Everyone : task'[u].op \in Ops
      BY <3>1 DEF TaskRecords
    <3>3. /\ prefs' \in Settings /\ disk' \in Settings
          /\ conn' \in {NoOne} \cup Links
      BY <1>3, <2>1, <2>2
    <3> QED
      BY <1>2, <2>3, <3>1, <3>2, <3>3 DEF Inv, Shape, TypeOK, files, Settings, Links
  <2>5. Exclusive' /\ Placed'
    BY <1>1, <1>2, <2>2, FailShape, IdleRecord DEF Inv, Exclusive, Placed, Critical
  <2>6. Linked'
    <3>1. conn' # NoOne => prefs'.connect /\ disk'.connect
      BY <1>3, <2>1, <2>2 DEF Inv, Linked
    <3>2. conn' # NoOne => conn'.policy = prefs'.policy
      BY <1>3, <2>2 DEF Inv, Linked
    <3>3. conn' # NoOne => conn'.saving = status'.saving
      BY <2>2, <2>3
    <3> QED
      BY <3>1, <3>2, <3>3 DEF Linked
  <2> QED
    BY <2>4, <2>5, <2>6 DEF Inv
<1>5. CASE NotSaved /\ UNCHANGED <<conn, status>>
  <2>1. Shape'
    BY <1>1, <1>2, <1>3, <1>5, FailShape
    DEF Inv, Shape, TypeOK, TaskRecords, files, Settings, NotSaved
  <2>2. Exclusive' /\ Placed'
    BY <1>1, <1>2, <1>5, FailShape, IdleRecord DEF Inv, Exclusive, Placed, Critical
  <2>3. Linked'
    BY <1>1, <1>2, <1>3, <1>5, FailShape, IdleRecord DEF Inv, Linked, NotSaved, Critical
  <2> QED
    BY <2>1, <2>2, <2>3 DEF Inv
<1> QED
  BY <1>4, <1>5 DEF SetSaving

LEMMA SetPolicyStep ==
  ASSUME Inv, NEW t \in Everyone, SetPolicy(t)
  PROVE  Inv'
<1>1. /\ \A u \in Everyone : task[u].pc \notin Critical
      /\ lock = NoOne /\ app = "up" /\ task[t].arg \in Policies
  <2>1. task[t].op = "policy" /\ task[t] \in TaskRecords
    BY DEF SetPolicy, At, Inv, Shape
  <2> QED
    BY <2>1, Nobody DEF SetPolicy, At, TaskRecords
<1>2. UNCHANGED <<app, files, conn, draining, requests, status, tick>> /\ Fail(t)
  BY DEF SetPolicy, link
<1>3. /\ prefs' \in Settings /\ disk' \in Settings
      /\ conn # NoOne => UNCHANGED <<prefs, disk>>
  <2>1. prefs \in Settings /\ disk \in Settings
    BY DEF Inv, Shape, TypeOK, Settings
  <2> QED
    BY <1>1, <2>1 DEF SetPolicy, Set, Saved, NotSaved, Settings
<1>4. Shape'
  BY <1>1, <1>2, <1>3, FailShape DEF Inv, Shape, TypeOK, TaskRecords, files, Settings
<1>5. Exclusive' /\ Placed'
  BY <1>1, <1>2, FailShape, IdleRecord DEF Inv, Exclusive, Placed, Critical
<1>6. Linked'
  BY <1>1, <1>2, <1>3, FailShape, IdleRecord DEF Inv, Linked, Critical
<1> QED
  BY <1>4, <1>5, <1>6 DEF Inv

-----------------------------------------------------------------------------
(* The shell *)

LEMMA CommandStep ==
  ASSUME Inv, NEW t \in Tasks, Commands(t)
  PROVE  Inv'
<1>1. PICK op \in Ops, pc \in {"ask", "lock"}, arg \in {NoOne} \cup BOOLEAN \cup Policies :
        /\ [op |-> op, pc |-> pc, arg |-> arg] \in TaskRecords
        /\ task' = [task EXCEPT ![t] = [op |-> op, pc |-> pc, arg |-> arg]]
        /\ task[t] = Idle
        /\ exiting' = (exiting \/ op \in Exits)
        /\ UNCHANGED <<app, prefs, disk, files, link, requests, status, lock, tick>>
  <2>1. CASE \E op \in {"connect", "disconnect", "reconnect", "quit", "uninstall"} :
               Command(t, op, NoOne)
    <3>1. PICK op \in {"connect", "disconnect", "reconnect", "quit", "uninstall"} :
            Command(t, op, NoOne)
      BY <2>1
    <3>2. \A pc \in {"ask", "lock"} : [op |-> op, pc |-> pc, arg |-> NoOne] \in TaskRecords
      BY DEF TaskRecords, Ops, Pcs, Disconnects, Clears
    <3>3. op \in Ops
      BY DEF Ops, Disconnects, Clears
    <3> QED
      BY <3>1, <3>2, <3>3 DEF Command
  <2>2. CASE \E on \in BOOLEAN : Command(t, "saving", on)
    <3>1. PICK on \in BOOLEAN : Command(t, "saving", on)
      BY <2>2
    <3>2. [op |-> "saving", pc |-> "lock", arg |-> on] \in TaskRecords
      BY DEF TaskRecords, Ops, Pcs
    <3> QED
      BY <3>1, <3>2 DEF Command, Ops
  <2>3. CASE \E policy \in Policies : Command(t, "policy", policy)
    <3>1. PICK policy \in Policies : Command(t, "policy", policy)
      BY <2>3
    <3>2. [op |-> "policy", pc |-> "lock", arg |-> policy] \in TaskRecords
      BY DEF TaskRecords, Ops, Pcs
    <3> QED
      BY <3>1, <3>2 DEF Command, Ops
  <2> QED
    BY <2>1, <2>2, <2>3 DEF Commands
<1>2. /\ task' \in [Everyone -> TaskRecords] /\ task'[t].pc \notin Critical
      /\ \A u \in Everyone \ {t} : task'[u] = task[u]
  BY <1>1, Constants DEF Inv, Shape, Critical
<1>3. exiting' \in BOOLEAN
  BY <1>1
<1>4. task[t].pc = "idle"
  BY <1>1, IdleRecord
<1>5. Shape'
  BY <1>1, <1>2, <1>3 DEF Inv, Shape, TypeOK, TaskRecords, files, link
<1>6. Exclusive'
  BY <1>1, <1>2 DEF Inv, Exclusive, link
<1>7. Placed' /\ Linked'
  BY <1>1, <1>2, <1>4, Constants DEF Inv, Placed, Linked, Critical, files, link
<1> QED
  BY <1>5, <1>6, <1>7 DEF Inv

LEMMA LaunchStep ==
  ASSUME Inv, Launch
  PROVE  Inv'
<1>1. /\ app' = "up" /\ lock = NoOne /\ conn = NoOne
      /\ \A u \in Everyone : task[u].pc \notin Critical
  BY Nobody DEF Launch, Inv, Exclusive
<1>2. prefs' = disk /\ UNCHANGED <<disk, files, link, requests, lock, exiting, tick>>
  BY DEF Launch
<1>3. /\ task' \in [Everyone -> TaskRecords] /\ task'[Boot].pc = "init"
      /\ \A u \in Everyone \ {Boot} : task'[u] = task[u]
  <2>1. [op |-> "init", pc |-> "init", arg |-> NoOne] \in TaskRecords
    BY DEF TaskRecords, Ops, Pcs
  <2> QED
    BY <2>1, Constants DEF Launch, Inv, Shape
<1>4. status' \in [service : {"Starting"}, codex : {"Disconnected"}, saving : BOOLEAN]
  BY DEF Launch, Inv, Shape, TypeOK
<1>5. Shape'
  BY <1>1, <1>2, <1>3, <1>4 DEF Inv, Shape, TypeOK, TaskRecords, files, link
<1> QED
  BY <1>1, <1>2, <1>3, <1>5 DEF Inv, Exclusive, Placed, Linked, Critical, link

LEMMA InitializeStep ==
  ASSUME Inv, Initialize
  PROVE  Inv'
<1>1. /\ task' \in [Everyone -> TaskRecords] /\ task'[Boot].pc \in {"lock", "idle"}
      /\ \A u \in Everyone \ {Boot} : task'[u] = task[u]
  <2>1. CASE Step(Boot, "lock")
    BY <2>1, StepShape, Constants DEF Inv, Pcs
  <2>2. CASE task' = [task EXCEPT ![Boot] = Idle]
    BY <2>2, IdleRecord, Constants DEF Inv, Shape
  <2> QED
    BY <2>1, <2>2 DEF Initialize
<1>2. UNCHANGED <<app, prefs, disk, files, link, requests, lock, exiting, tick>>
  BY DEF Initialize
<1>3. /\ status' \in [service : {"Stopped", "Starting", "Running", "Error"},
                       codex : {"Disconnected", "Connecting", "Connected", "Drifted", "Error"},
                       saving : BOOLEAN]
      /\ status'.saving = status.saving
  <2>1. CASE UNCHANGED status
    BY <2>1 DEF Inv, Shape, TypeOK
  <2>2. CASE Show("Running", "Disconnected")
    BY <2>2, ShowShape DEF Inv
  <2> QED
    BY <2>1, <2>2 DEF Initialize
<1>4. task[Boot].pc = "init"
  BY DEF Initialize, At
<1>5. Shape'
  BY <1>1, <1>2, <1>3 DEF Inv, Shape, TypeOK, TaskRecords, files, link
<1>6. Exclusive' /\ Placed'
  BY <1>1, <1>2 DEF Inv, Exclusive, Placed, Critical, files, link
<1>7. Linked'
  BY <1>1, <1>2, <1>3, <1>4 DEF Inv, Linked, link
<1> QED
  BY <1>5, <1>6, <1>7 DEF Inv

LEMMA StopStep ==
  ASSUME Inv, NEW how \in {"exited", "prepared", "down"}, Stop(how),
         UNCHANGED files \/ Codex!InstallFails \/ Codex!WithdrawFails
  PROVE  Inv'
<1>1. /\ app' = how /\ prefs' = disk /\ conn' = NoOne /\ lock' = NoOne /\ requests' = 0
      /\ tick' = "idle" /\ UNCHANGED disk
  BY DEF Stop
<1>2. draining' \in BOOLEAN /\ exiting' \in BOOLEAN
  BY DEF Stop
<1>3. status' \in [service : {"Stopped"}, codex : {"Disconnected"}, saving : BOOLEAN]
  BY DEF Stop
<1>4. task' \in [Everyone -> TaskRecords] /\ \A u \in Everyone : task'[u].pc = "idle"
  BY IdleRecord DEF Stop
<1>5. Shape'
  BY <1>1, <1>2, <1>3, <1>4, FilesShape DEF Inv, Shape, TypeOK, TaskRecords
<1> QED
  BY <1>1, <1>4, <1>5 DEF Inv, Exclusive, Placed, Linked, Critical

LEMMA ExitStep ==
  ASSUME Inv, NEW t \in Everyone, Exit(t)
  PROVE  Inv'
<1>1. CASE Stop(IF task[t].op = "quit" THEN "exited" ELSE "prepared") /\ UNCHANGED files
  BY <1>1, StopStep
<1>2. CASE Fail(t) /\ UNCHANGED <<app, prefs, disk, files, link, requests, status, tick>>
  <2>1. task[t].pc = "exit" /\ app = "up"
    BY DEF Exit, At
  <2>2. Shape'
    BY <1>2, FailShape DEF Inv, Shape, TypeOK, TaskRecords, files, link
  <2>3. Exclusive'
    BY <1>2, <2>1, FailShape, IdleRecord DEF Inv, Exclusive, Critical, link
  <2>4. Placed' /\ Linked'
    BY <1>2, <2>1, FailShape, IdleRecord DEF Inv, Placed, Linked, files, link
  <2> QED
    BY <2>2, <2>3, <2>4 DEF Inv
<1> QED
  BY <1>1, <1>2 DEF Exit

\* The health refresh and a failing control server only change what is shown.
LEMMA ShownStep ==
  ASSUME Inv, Tick \/ ControlFails
  PROVE  Inv'
<1>1. UNCHANGED <<app, prefs, disk, files, link, requests, lock, task, exiting>>
  BY DEF Tick, ControlFails
<1>2. /\ status' \in [service : {"Stopped", "Starting", "Running", "Error"},
                       codex : {"Disconnected", "Connecting", "Connected", "Drifted", "Error"},
                       saving : BOOLEAN]
      /\ status'.saving = status.saving
  <2>1. CASE UNCHANGED status
    BY <2>1 DEF Inv, Shape, TypeOK
  <2>2. CASE Show("Running", "Disconnected")
    BY <2>2, ShowShape DEF Inv
  <2>3. CASE Healthy(tick)
    BY <2>3, HealthyShape DEF Inv
  <2>4. CASE ControlFails
    BY <2>4 DEF ControlFails, Inv, Shape, TypeOK
  <2> QED
    BY <2>1, <2>2, <2>3, <2>4 DEF Tick, TickLook, TickProbe, TickShow
<1>3. tick' \in {"idle", "absent", "present", "Connected", "NotConnected", "Drifted", "unreadable"}
  BY DEF Inv, Shape, TypeOK, Tick, TickLook, TickProbe, TickShow, Codex!FileState, ControlFails
<1>4. Shape'
  BY <1>1, <1>2, <1>3 DEF Inv, Shape, TypeOK, files, link
<1> QED
  BY <1>1, <1>2, <1>4 DEF Inv, Exclusive, Placed, Linked, files, link

-----------------------------------------------------------------------------
(* Codex and its user *)

LEMMA TrafficStep ==
  ASSUME Inv, Traffic
  PROVE  Inv'
<1>1. UNCHANGED <<app, prefs, disk, files, link, status, lock, task, exiting, tick>>
  BY DEF Traffic
<1>2. requests' \in {0, 1} /\ (draining => requests' = 0 \/ requests = 1)
  BY DEF Traffic
<1>3. Shape'
  BY <1>1, <1>2 DEF Inv, Shape, TypeOK, files, link
<1> QED
  BY <1>1, <1>2, <1>3 DEF Inv, Exclusive, Placed, Linked, files, link

LEMMA UserEditStep ==
  ASSUME Inv, UserEdit
  PROVE  Inv'
<1>1. UNCHANGED <<app, prefs, disk, link, requests, status, lock, task, exiting, tick>>
  BY DEF UserEdit
<1>2. snapshot /\ Codex!UserEdits
  BY DEF UserEdit, Codex!UserEdits
<1>3. Shape'
  BY <1>1, <1>2, FilesShape DEF Inv, Shape, TypeOK, link
<1> QED
  BY <1>1, <1>2, <1>3 DEF Inv, Exclusive, Placed, Linked, link

-----------------------------------------------------------------------------

LEMMA InitInv == Init => Inv
<1> SUFFICES ASSUME Init PROVE Inv
  OBVIOUS
<1>1. task \in [Everyone -> TaskRecords] /\ \A u \in Everyone : task[u].pc = "idle"
  BY IdleRecord DEF Init
<1>2. disk \in Settings /\ prefs \in Settings
  BY DEF Init, Settings
<1>3. Shape
  BY <1>1, <1>2 DEF Init, Shape, TypeOK, TaskRecords, Settings, Codex!Views
<1> QED
  BY <1>1, <1>3 DEF Init, Inv, Exclusive, Placed, Linked, Critical

LEMMA StepInv == Inv /\ [Next]_vars => Inv'
<1> SUFFICES ASSUME Inv, [Next]_vars PROVE Inv'
  OBVIOUS
<1>1. CASE UNCHANGED vars
  BY <1>1 DEF Inv, Shape, TypeOK, Exclusive, Placed, Linked, vars, files, link
<1>2. ASSUME NEW t \in Everyone, Work(t) PROVE Inv'
  BY <1>2, BeginConnectStep, PrepareStep, PublishStep, AnnounceStep, AskToQuitStep,
     BeginDisconnectStep, RestoreStep, TakeDownStep, SettleStep, FlushStep, ExitStep,
     SetSavingStep, SetPolicyStep DEF Work
<1>3. ASSUME NEW t \in Tasks, Commands(t) PROVE Inv'
  BY <1>3, CommandStep
<1>4. CASE Crash
  BY <1>4, StopStep DEF Crash
<1> QED
  BY <1>1, <1>2, <1>3, <1>4, LaunchStep, InitializeStep, ShownStep, TrafficStep, UserEditStep
  DEF Next

LEMMA Invariance == Spec => []Inv
BY InitInv, StepInv, PTL DEF Spec

\* Every state of the controller is well typed.
THEOREM TypeCorrect == Spec => []TypeOK
<1>1. Inv => TypeOK
  BY DEF Inv, Shape
<1> QED
  BY <1>1, Invariance, PTL

\* A live connection is remembered on disk, however commands overlap and fail
\* (desktop_runtime.rs:282, 414).
THEOREM ConnectionIsRemembered == Spec => []ConnectionRemembered
<1>1. Inv => ConnectionRemembered
  BY DEF Inv, Linked, ConnectionRemembered
<1> QED
  BY <1>1, Invariance, PTL

\* With no operation under way, the transport does what tray and preferences
\* say, also after saves that failed (desktop_runtime.rs:438-493).
THEOREM TrayMatches == Spec => []TrayMatchesTransport
<1>1. Inv => TrayMatchesTransport
  BY Nobody DEF Inv, Linked, TrayMatchesTransport, Critical
<1> QED
  BY <1>1, Invariance, PTL

\* While the application runs, its connection is only taken down without an
\* active request and after config.toml has been restored, whatever Codex and
\* its user do in between (docs/DESKTOP_RUNTIME.md:137-145).
THEOREM TakenDownInOrder == Spec => TakenDownAfterRestore
<1>1. ASSUME Inv, Next, app' = "up", conn # NoOne, conn' = NoOne
      PROVE  requests = 0 /\ ~PointsHere
  <2>1. PICK t \in Everyone : Work(t)
    <3>1. ~Launch
      BY <1>1 DEF Launch, link
    <3>2. ~Initialize /\ ~Tick /\ ~ControlFails /\ ~Traffic /\ ~UserEdit
      BY <1>1 DEF Initialize, Tick, ControlFails, Traffic, UserEdit, link
    <3>3. ~Crash
      BY <1>1 DEF Crash, Stop
    <3>4. \A u \in Tasks : ~Commands(u)
      BY <1>1 DEF Commands, Command, link
    <3> QED
      BY <1>1, <3>1, <3>2, <3>3, <3>4 DEF Next
  <2>2. CASE TakeDown(t)
    <3>1. task[t].pc = "takedown"
      BY <2>2 DEF TakeDown, At
    <3> QED
      BY <1>1, <3>1 DEF Inv, Placed, PointsHere, Codex!PointedHere
  <2>3. ~Publish(t)
    BY <1>1, Constants DEF Publish, At, Inv, Placed
  <2>4. ~SetSaving(t)
    <3>1. SUFFICES ASSUME SetSaving(t) PROVE FALSE
      OBVIOUS
    <3>2. task[t].arg \in BOOLEAN
      <4>1. task[t].op = "saving" /\ task[t] \in TaskRecords
        BY <1>1, <3>1 DEF SetSaving, At, Inv, Shape
      <4> QED
        BY <4>1 DEF TaskRecords
    <3>3. conn \in Links
      BY <1>1 DEF Inv, Shape, TypeOK, Links
    <3>4. conn' = [conn EXCEPT !.saving = task[t].arg]
      BY <1>1, <3>1 DEF SetSaving
    <3>5. conn' \in Links
      BY <3>2, <3>3, <3>4 DEF Links
    <3> QED
      BY <1>1, <3>5, Constants
  <2>5. ~Exit(t)
    BY <1>1 DEF Exit, Stop, link
  <2>6. /\ ~BeginConnect(t) /\ ~Prepare(t) /\ ~Announce(t) /\ ~AskToQuit(t)
        /\ ~BeginDisconnect(t) /\ ~Restore(t) /\ ~Settle(t) /\ ~Flush(t) /\ ~SetPolicy(t)
    BY <1>1 DEF BeginConnect, Prepare, Announce, AskToQuit, BeginDisconnect, Restore, Settle,
                Flush, SetPolicy, link
  <2> QED
    BY <2>1, <2>2, <2>3, <2>4, <2>5, <2>6 DEF Work
<1>2. Inv /\ [Next]_vars =>
        [app' = "up" /\ conn # NoOne /\ conn' = NoOne => requests = 0 /\ ~PointsHere]_vars
  BY <1>1
<1> QED
  BY <1>2, Invariance, PTL DEF Spec, TakenDownAfterRestore

-----------------------------------------------------------------------------
(* The lock and the flag *)

Working == Critical \cup {"flush"}
Quitting == {t \in Everyone : task[t].op \in Exits}

\* The operation lock is held by a task that is at work under it, and
\* shutdown_in_progress is set for one that is quitting.
Attended ==
  /\ lock # NoOne => lock \in Everyone /\ task[lock].pc \in Working
  /\ exiting => Quitting # {}

\* One task quits at a time, the flag is set as long as it does, and none does
\* in an application that is not up.
OneQuits ==
  /\ Quitting # {} => exiting /\ app = "up"
  /\ \A t, u \in Quitting : t = u

AttendedInv == Attended /\ OneQuits

LEMMA AttendedMove ==
  ASSUME AttendedInv, NEW t \in Everyone, app' = "up",
         \A u \in Everyone \ {t} : task'[u] = task[u],
         \/ lock' = IF lock = t THEN NoOne ELSE lock
         \/ lock' \in {t, lock} /\ (lock' = t => task'[t].pc \in Working),
         \/ exiting' = exiting /\ (task'[t].op \in Exits <=> task[t].op \in Exits)
         \/ exiting' = (exiting /\ task[t].op \notin Exits) /\ task'[t].op \notin Exits
         \/ ~exiting /\ exiting' /\ task'[t].op \in Exits
  PROVE  AttendedInv'
<1> USE DEF AttendedInv, Attended, OneQuits, Quitting
<1>1. (lock # NoOne => lock \in Everyone /\ task[lock].pc \in Working)'
  BY Constants
<1>2. CASE exiting' = exiting /\ (task'[t].op \in Exits <=> task[t].op \in Exits)
  <2>1. Quitting' = Quitting
    BY <1>2
  <2> QED
    BY <1>1, <1>2, <2>1
<1>3. CASE exiting' = (exiting /\ task[t].op \notin Exits) /\ task'[t].op \notin Exits
  <2>1. Quitting' = Quitting \ {t}
    BY <1>3
  <2>2. CASE task[t].op \in Exits
    <3>1. Quitting = {t}
      BY <2>2
    <3> QED
      BY <1>1, <1>3, <2>1, <2>2, <3>1
  <2>3. CASE task[t].op \notin Exits
    BY <1>1, <1>3, <2>1, <2>3
  <2> QED
    BY <2>2, <2>3
<1>4. CASE ~exiting /\ exiting' /\ task'[t].op \in Exits
  <2>1. Quitting' = {t}
    BY <1>4
  <2> QED
    BY <1>1, <1>4, <2>1
<1> QED
  BY <1>2, <1>3, <1>4

LEMMA AttendedFail ==
  ASSUME Inv, AttendedInv, NEW t \in Everyone, Fail(t), app' = "up"
  PROVE  AttendedInv'
<1>1. exiting' = (exiting /\ task[t].op \notin Exits)
  BY DEF Fail
<1>2. task'[t].op = "none" /\ \A u \in Everyone \ {t} : task'[u] = task[u]
  BY FailShape, IdleRecord DEF Inv
<1>3. lock' = IF lock = t THEN NoOne ELSE lock
  BY DEF Fail, Release
<1> QED
  BY <1>1, <1>2, <1>3, AttendedMove, Constants DEF Exits

\* A step that keeps its command, to a place where the lock is held or from one
\* where it is not.
LEMMA AttendedStep ==
  ASSUME Inv, AttendedInv, NEW t \in Everyone, NEW pc \in Pcs, Step(t, pc),
         UNCHANGED exiting, app' = "up",
         \/ lock' \in {t, lock} /\ pc \in Working
         \/ UNCHANGED lock /\ task[t].pc \notin Working
  PROVE  AttendedInv'
<1>1. /\ task'[t].pc = pc /\ task'[t].op = task[t].op
      /\ \A u \in Everyone \ {t} : task'[u] = task[u]
  BY StepShape DEF Inv
<1>2. UNCHANGED lock /\ task[t].pc \notin Working => lock # t
  BY Constants DEF AttendedInv, Attended
<1> QED
  BY <1>1, <1>2, AttendedMove, Constants

LEMMA AttendedWork ==
  ASSUME Inv, AttendedInv, NEW t \in Everyone, Work(t)
  PROVE  AttendedInv'
<1> USE DEF Working, Critical, At
<1>1. CASE BeginConnect(t)
  <2>0. app' = "up"
    BY <1>1 DEF BeginConnect
  <2>1. CASE task' = [task EXCEPT ![t] = Idle] /\ lock = NoOne /\ UNCHANGED <<lock, exiting>>
    <3>1. task'[t].op = "none" /\ \A u \in Everyone \ {t} : task'[u] = task[u]
      BY <2>1, IdleRecord DEF Inv, Shape
    <3>2. task[t].op \notin Exits
      BY <1>1 DEF BeginConnect, Connects, Exits
    <3> QED
      BY <2>0, <2>1, <3>1, <3>2, AttendedMove, Constants DEF Exits
  <2>2. CASE lock' = t /\ Step(t, "prepare") /\ UNCHANGED exiting
    BY <2>0, <2>2, AttendedStep DEF Pcs
  <2> QED
    BY <1>1, <2>0, <2>1, <2>2, AttendedFail DEF BeginConnect
<1>2. CASE Prepare(t)
  BY <1>2, AttendedStep, AttendedFail DEF Prepare, Pcs
<1>3. CASE Publish(t)
  BY <1>3, AttendedStep DEF Publish, Pcs
<1>4. CASE Announce(t)
  BY <1>4, AttendedFail DEF Announce
<1>5. CASE AskToQuit(t)
  <2>1. task[t].pc \notin Working
    BY <1>5 DEF AskToQuit
  <2> QED
    BY <1>5, <2>1, AttendedStep DEF AskToQuit, Pcs
<1>6. CASE BeginDisconnect(t)
  BY <1>6, AttendedStep, AttendedFail DEF BeginDisconnect, Pcs
<1>7. CASE Restore(t)
  BY <1>7, AttendedStep, AttendedFail DEF Restore, Pcs
<1>8. CASE TakeDown(t)
  BY <1>8, AttendedStep DEF TakeDown, Pcs
<1>9. CASE Settle(t)
  BY <1>9, AttendedStep, AttendedFail DEF Settle, Pcs
<1>10. CASE Flush(t)
  <2> DEFINE r == IF task[t].op \in Exits THEN [task[t] EXCEPT !.pc = "exit"]
                  ELSE IF task[t].op = "reconnect"
                  THEN [task[t] EXCEPT !.op = "connect", !.pc = "lock"]
                  ELSE Idle
  <2>1. CASE task' = [task EXCEPT ![t] = r] /\ Release(t) /\ UNCHANGED exiting
    <3>1. task[t] \in TaskRecords
      BY DEF Inv, Shape
    <3>2. r.op \in Exits <=> task[t].op \in Exits
      BY <3>1, IdleRecord DEF TaskRecords, Exits
    <3>3. task'[t] = r /\ \A u \in Everyone \ {t} : task'[u] = task[u]
      BY <2>1 DEF Inv, Shape
    <3>4. app' = "up"
      BY <1>10 DEF Flush
    <3> HIDE DEF r
    <3> QED
      BY <2>1, <3>2, <3>3, <3>4, AttendedMove DEF Release
  <2> QED
    BY <1>10, <2>1, AttendedFail DEF Flush
<1>11. CASE Exit(t)
  <2>1. CASE Stop(IF task[t].op = "quit" THEN "exited" ELSE "prepared")
    BY <2>1, IdleRecord DEF Stop, AttendedInv, Attended, OneQuits, Quitting, Exits
  <2> QED
    BY <1>11, <2>1, AttendedFail DEF Exit
<1>12. CASE SetSaving(t) \/ SetPolicy(t)
  BY <1>12, AttendedFail DEF SetSaving, SetPolicy
<1> QED
  BY <1>1, <1>2, <1>3, <1>4, <1>5, <1>6, <1>7, <1>8, <1>9, <1>10, <1>11, <1>12 DEF Work

LEMMA AttendedNext == Inv /\ AttendedInv /\ [Next]_vars => AttendedInv'
<1> SUFFICES ASSUME Inv, AttendedInv, [Next]_vars PROVE AttendedInv'
  OBVIOUS
<1>1. ASSUME NEW t \in Tasks, NEW op, NEW arg, Command(t, op, arg) PROVE AttendedInv'
  <2>1. task[t].op = "none" /\ task[t].pc = "idle" /\ t \in Everyone
    BY <1>1, IdleRecord, Constants DEF Command
  <2>2. task'[t].op = op /\ \A u \in Everyone \ {t} : task'[u] = task[u]
    BY <1>1, <2>1 DEF Command, Inv, Shape
  <2>3. lock' = lock /\ lock # t
    BY <1>1, <2>1, Constants DEF Command, AttendedInv, Attended, Working, Critical
  <2>4. CASE op \in Exits
    BY <1>1, <2>1, <2>2, <2>3, <2>4, AttendedMove, Constants DEF Command
  <2>5. CASE op \notin Exits
    BY <1>1, <2>1, <2>2, <2>3, <2>5, AttendedMove, Constants DEF Command, Exits
  <2> QED
    BY <2>4, <2>5
<1>2. CASE Launch
  <2>1. lock = NoOne /\ UNCHANGED <<lock, exiting>>
    BY <1>2 DEF Launch, Inv, Exclusive
  <2>2. task'[Boot].op = "init" /\ \A u \in Everyone \ {Boot} : task'[u] = task[u]
    BY <1>2, Constants DEF Launch, Inv, Shape
  <2>3. task[Boot].op \notin Exits
    BY <1>2, Constants DEF Launch, AttendedInv, OneQuits, Quitting
  <2> QED
    BY <1>2, <2>1, <2>2, <2>3, AttendedMove, Constants DEF Launch, Exits
<1>3. CASE Initialize
  <2>1. /\ task[Boot].op = "init" /\ task[Boot].pc = "init"
        /\ task'[Boot].op \in {"init", "none"}
        /\ \A u \in Everyone \ {Boot} : task'[u] = task[u]
    BY <1>3, Constants, StepShape, IdleRecord DEF Initialize, At, Inv, Shape, Pcs
  <2>2. UNCHANGED <<lock, exiting>> /\ lock # Boot
    BY <1>3, <2>1, Constants DEF Initialize, AttendedInv, Attended, Working, Critical
  <2> QED
    BY <1>3, <2>1, <2>2, AttendedMove, Constants DEF Initialize, At, Exits
<1>4. CASE Crash
  BY <1>4, IdleRecord DEF Crash, Stop, AttendedInv, Attended, OneQuits, Quitting, Exits
<1>5. CASE UNCHANGED <<app, lock, task, exiting>>
  BY <1>5 DEF AttendedInv, Attended, OneQuits, Quitting
<1> QED
  BY <1>1, <1>2, <1>3, <1>4, <1>5, AttendedWork
  DEF Next, Commands, Tick, ControlFails, Traffic, UserEdit, vars

\* Nobody waits for a lock that its holder has left, and no request to quit is
\* ignored for one that is over: whatever fails, the operation lock and
\* shutdown_in_progress are held only by tasks that are still at work, the part
\* of CommandsEnd that needs no fairness (desktop_runtime.rs:275, 368).
THEOREM AttendedHolds == Spec => []Attended
<1>1. Init => AttendedInv
  BY IdleRecord DEF Init, AttendedInv, Attended, OneQuits, Quitting, Exits
<1>2. AttendedInv => Attended
  BY DEF AttendedInv
<1> QED
  BY <1>1, <1>2, AttendedNext, Invariance, PTL DEF Spec

-----------------------------------------------------------------------------
(* The refinement *)

\* With nobody at a critical place the endpoint is served while there is a
\* connection; somebody there decides it alone.
LEMMA LiveAtRest ==
  ASSUME Inv, lock = NoOne PROVE Live <=> conn # NoOne
BY Nobody DEF Live, Critical

LEMMA LiveAt ==
  ASSUME Inv, NEW t \in Everyone, task[t].pc \in Critical
  PROVE  Live <=> task[t].pc = "publish" \/ (conn # NoOne /\ task[t].pc # "takedown")
BY NobodyElse DEF Live, Critical

\* A step between other places that neither makes nor ends a connection.
Serving == {"publish", "takedown"}

LEMMA LiveKept ==
  ASSUME NEW t \in Everyone, \A u \in Everyone \ {t} : task'[u] = task[u],
         task[t].pc \notin Serving, task'[t].pc \notin Serving,
         conn' = NoOne <=> conn = NoOne
  PROVE  Live' = Live
<1>1. \A u \in Everyone, pc \in Serving : task'[u].pc = pc <=> task[u].pc = pc
  OBVIOUS
<1> QED
  BY <1>1 DEF Live, Serving

LEMMA StepKept ==
  ASSUME Inv, NEW t \in Everyone, NEW pc \in Pcs, Step(t, pc), conn' = conn,
         task[t].pc \notin Serving, pc \notin Serving
  PROVE  Live' = Live
BY StepShape, LiveKept DEF Inv

LEMMA FailKept ==
  ASSUME Inv, NEW t \in Everyone, Fail(t), conn' = conn, task[t].pc \notin Serving
  PROVE  Live' = Live
BY FailShape, LiveKept, IdleRecord DEF Inv, Serving

\* Connecting.
LEMMA ConnectLink ==
  ASSUME Inv, NEW t \in Everyone,
         BeginConnect(t) \/ Prepare(t) \/ Publish(t) \/ Announce(t)
  PROVE  [Codex!Next]_<<snapshot, config, Live>>
<1>1. CASE BeginConnect(t)
  <2>1. task[t].pc = "lock" /\ conn' = conn /\ UNCHANGED files
    BY <1>1 DEF BeginConnect, At, link
  <2>2. CASE task' = [task EXCEPT ![t] = Idle]
    BY <2>1, <2>2, LiveKept, IdleRecord DEF Inv, Shape, files, Serving
  <2>3. CASE Step(t, "prepare")
    BY <2>1, <2>3, StepKept DEF files, Serving, Pcs, Critical
  <2>4. CASE Fail(t)
    BY <2>1, <2>4, FailKept DEF files, Serving
  <2> QED
    BY <1>1, <2>2, <2>3, <2>4 DEF BeginConnect
<1>2. CASE Prepare(t)
  <2>1. task[t].pc = "prepare" /\ conn = NoOne /\ conn' = conn
    BY <1>2 DEF Prepare, At, link, Inv, Placed
  <2>2. ~Live
    BY <2>1, LiveAt DEF Critical
  <2>3. CASE Codex!Install /\ Step(t, "publish")
    <3>1. task'[t].pc = "publish"
      BY <2>3, StepShape DEF Inv, Pcs, Critical
    <3>2. Live' = TRUE
      BY <3>1 DEF Live
    <3> QED
      BY <2>2, <2>3, <3>2 DEF Codex!Next, Codex!Connect
  <2>4. CASE (Codex!InstallFails \/ UNCHANGED files) /\ Fail(t)
    <3>1. Live' = Live
      BY <2>1, <2>4, FailKept DEF Serving
    <3>2. Live' = FALSE
      BY <2>2, <3>1
    <3> QED
      BY <2>2, <2>4, <3>1, <3>2 DEF Codex!Next, Codex!Connect, files
  <2> QED
    BY <1>2, <2>3, <2>4 DEF Prepare
<1>3. CASE Publish(t)
  <2>1. /\ task[t].pc = "publish" /\ UNCHANGED files /\ Step(t, "announce")
        /\ conn' \in Links
    BY <1>3 DEF Publish, At, Inv, Shape, TypeOK, Links
  <2>2. Live
    BY <2>1 DEF Live
  <2>3. \A u \in Everyone : task'[u].pc # "takedown"
    BY <2>1, NobodyElse, StepShape DEF Inv, Pcs, Critical
  <2>4. Live'
    BY <2>1, <2>3, Constants DEF Live
  <2> QED
    BY <2>1, <2>2, <2>4 DEF files, Live
<1>4. CASE Announce(t)
  BY <1>4, FailKept DEF Announce, At, files, link, Serving
<1> QED
  BY <1>1, <1>2, <1>3, <1>4

\* Disconnecting.
LEMMA DisconnectLink ==
  ASSUME Inv, NEW t \in Everyone,
         \/ AskToQuit(t) \/ BeginDisconnect(t) \/ Restore(t) \/ TakeDown(t) \/ Settle(t)
         \/ Flush(t)
  PROVE  [Codex!Next]_<<snapshot, config, Live>>
<1>1. CASE AskToQuit(t)
  BY <1>1, StepKept DEF AskToQuit, At, files, link, Serving, Pcs
<1>2. CASE BeginDisconnect(t)
  <2>1. task[t].pc = "lock" /\ conn' = conn /\ UNCHANGED files
    BY <1>2 DEF BeginDisconnect, At
  <2>2. Step(t, "settle") \/ Step(t, "restore") \/ Fail(t)
    BY <1>2 DEF BeginDisconnect
  <2> QED
    BY <2>1, <2>2, StepKept, FailKept DEF files, Serving, Pcs, Critical
<1>3. CASE Restore(t)
  <2>1. task[t].pc = "restore" /\ conn # NoOne /\ conn' = conn
    BY <1>3 DEF Restore, At, Inv, Placed
  <2>2. Live
    BY <2>1, LiveAt DEF Critical
  <2>3. CASE Codex!Withdraw /\ Step(t, "takedown")
    <3>1. /\ task'[t].pc = "takedown"
          /\ \A u \in Everyone : task'[u].pc # "publish"
      BY <2>1, <2>3, NobodyElse, StepShape DEF Inv, Pcs, Critical
    <3>2. Live' = FALSE
      BY <3>1 DEF Live
    <3> QED
      BY <2>2, <2>3, <3>2 DEF Codex!Next, Codex!Disconnect
  <2>4. CASE (Codex!WithdrawFails \/ UNCHANGED files) /\ Fail(t)
    <3>1. Live' = Live
      BY <2>1, <2>4, FailKept DEF Serving
    <3>2. Live' = TRUE
      BY <2>2, <3>1 DEF Live
    <3> QED
      BY <2>2, <2>4, <3>1, <3>2 DEF Codex!Next, Codex!Disconnect, files
  <2> QED
    BY <1>3, <2>3, <2>4 DEF Restore
<1>4. CASE TakeDown(t)
  <2>1. /\ task[t].pc = "takedown" /\ UNCHANGED files /\ Step(t, "settle")
        /\ conn' = NoOne
    BY <1>4 DEF TakeDown, At
  <2>2. ~Live
    BY <2>1, LiveAt DEF Critical
  <2>3. \A u \in Everyone : task'[u].pc # "publish"
    BY <2>1, NobodyElse, StepShape DEF Inv, Pcs, Critical
  <2>4. ~Live'
    BY <2>1, <2>3 DEF Live
  <2> QED
    BY <2>1, <2>2, <2>4 DEF files, Live
<1>5. CASE Settle(t)
  <2>1. task[t].pc = "settle" /\ conn' = conn /\ UNCHANGED files
    BY <1>5 DEF Settle, At, link
  <2>2. Step(t, "flush") \/ Fail(t)
    BY <1>5 DEF Settle
  <2> QED
    BY <2>1, <2>2, StepKept, FailKept DEF files, Serving, Pcs
<1>6. CASE Flush(t)
  <2>1. task[t].pc = "flush" /\ conn' = conn /\ UNCHANGED files
    BY <1>6 DEF Flush, At, link
  <2> QED
    BY <1>6, <2>1, FlushShape, LiveKept DEF files, Serving, Critical
<1> QED
  BY <1>1, <1>2, <1>3, <1>4, <1>5, <1>6

\* The process ends: nothing is live any more.
LEMMA StopLink ==
  ASSUME NEW how, Stop(how) PROVE Live' = FALSE
BY IdleRecord DEF Stop, Live

LEMMA SettingLink ==
  ASSUME Inv, NEW t \in Everyone, SetSaving(t) \/ SetPolicy(t)
  PROVE  UNCHANGED <<snapshot, config, Live>>
<1>1. task[t].pc = "lock" /\ UNCHANGED files /\ Fail(t)
  BY DEF SetSaving, SetPolicy, At
<1>2. conn' = NoOne <=> conn = NoOne
  <2>1. CASE SetPolicy(t)
    BY <2>1 DEF SetPolicy, link
  <2>2. CASE SetSaving(t)
    <3>1. task[t].op = "saving" /\ task[t] \in TaskRecords
      BY <2>2 DEF SetSaving, At, Inv, Shape
    <3>2. task[t].arg \in BOOLEAN
      BY <3>1 DEF TaskRecords
    <3>3. conn # NoOne => [conn EXCEPT !.saving = task[t].arg] \in Links
      BY <3>2 DEF Inv, Shape, TypeOK, Links
    <3> QED
      BY <2>2, <3>3, Constants DEF SetSaving
  <2> QED
    BY <2>1, <2>2
<1>3. task'[t].pc = "idle" /\ \A u \in Everyone \ {t} : task'[u] = task[u]
  BY <1>1, FailShape, IdleRecord DEF Inv
<1> QED
  BY <1>1, <1>2, <1>3, LiveKept DEF files, Serving

LEMMA StepLink ==
  ASSUME Inv, [Next]_vars PROVE [Codex!Next]_<<snapshot, config, Live>>
<1>1. ASSUME NEW t \in Everyone, Exit(t) PROVE [Codex!Next]_<<snapshot, config, Live>>
  <2>1. task[t].pc = "exit"
    BY <1>1 DEF Exit, At
  <2>2. CASE Stop(IF task[t].op = "quit" THEN "exited" ELSE "prepared") /\ UNCHANGED files
    BY <2>2, StopLink DEF Codex!Next, Codex!Die, files
  <2>3. CASE Fail(t) /\ UNCHANGED files /\ UNCHANGED link
    BY <2>1, <2>3, FailKept DEF files, link, Serving
  <2> QED
    BY <1>1, <2>2, <2>3 DEF Exit
<1>2. ASSUME NEW t \in Everyone, Work(t) PROVE [Codex!Next]_<<snapshot, config, Live>>
  BY <1>1, <1>2, ConnectLink, DisconnectLink, SettingLink DEF Work
<1>3. ASSUME NEW t \in Tasks, Commands(t) PROVE [Codex!Next]_<<snapshot, config, Live>>
  <2>1. PICK op, arg : Command(t, op, arg)
    BY <1>3 DEF Commands
  <2>2. /\ task[t].pc = "idle" /\ task'[t].pc \in {"ask", "lock"}
        /\ \A u \in Everyone \ {t} : task'[u] = task[u]
    BY <2>1, IdleRecord, Constants DEF Command, Inv, Shape
  <2> QED
    BY <2>1, <2>2, Constants, LiveKept DEF Command, files, link, Serving
<1>4. CASE Crash
  <2>1. Live' = FALSE
    BY <1>4, StopLink DEF Crash
  <2>2. CASE UNCHANGED files
    BY <2>1, <2>2 DEF Codex!Next, Codex!Die, files
  <2>3. CASE (\E t \in Everyone : At(t, Connects, "prepare")) /\ Codex!InstallFails
    <3>1. ~Live
      BY <2>3, LiveAt DEF At, Inv, Placed, Critical
    <3> QED
      BY <2>1, <2>3, <3>1 DEF Codex!Next, Codex!Die
  <2>4. CASE (\E t \in Everyone : At(t, Disconnects, "restore")) /\ Codex!WithdrawFails
    <3>1. Live
      BY <2>4, LiveAt DEF At, Inv, Placed, Critical
    <3> QED
      BY <2>1, <2>4, <3>1 DEF Codex!Next, Codex!Die
  <2> QED
    BY <1>4, <2>2, <2>3, <2>4 DEF Crash
<1>5. CASE Launch
  <2>1. task[Boot].pc \notin Serving /\ UNCHANGED <<files, conn>>
    BY <1>5, Nobody, Constants DEF Launch, Inv, Exclusive, Serving, Critical, link
  <2>2. task'[Boot].pc = "init" /\ \A u \in Everyone \ {Boot} : task'[u] = task[u]
    BY <1>5, Constants DEF Launch, Inv, Shape
  <2> QED
    BY <2>1, <2>2, Constants, LiveKept DEF files, Serving
<1>6. CASE Initialize
  <2>1. /\ task[Boot].pc = "init" /\ task'[Boot].pc \in {"lock", "idle"}
        /\ \A u \in Everyone \ {Boot} : task'[u] = task[u]
    BY <1>6, Constants, StepShape, IdleRecord DEF Initialize, At, Inv, Shape, Pcs
  <2> QED
    BY <1>6, <2>1, Constants, LiveKept DEF Initialize, files, link, Serving
<1>7. CASE Tick \/ ControlFails \/ Traffic
  BY <1>7 DEF Tick, ControlFails, Traffic, files, link, Live
<1>8. CASE UserEdit
  <2>1. Live' = Live /\ Codex!UserEdits
    BY <1>8 DEF UserEdit, link, Live
  <2> QED
    BY <2>1 DEF Codex!Next
<1>9. CASE UNCHANGED vars
  BY <1>9 DEF vars, files, link, Live
<1> QED
  BY <1>2, <1>3, <1>4, <1>5, <1>6, <1>7, <1>8, <1>9 DEF Next

\* However commands, quitting, failures and crashes overlap, the controller
\* reaches Codex's files only as CodexLink says: it connects without a live
\* connection, and disconnects with one (desktop_runtime.rs:275-306, 398-406).
THEOREM ImplementsLinkHolds == Spec => ImplementsLink
<1>1. Init => Codex!Init
  BY IdleRecord DEF Init, Codex!Init, Live
<1>2. Inv /\ [Next]_vars => [Codex!Next]_<<snapshot, config, Live>>
  BY StepLink
<1> QED
  BY <1>1, <1>2, Invariance, PTL DEF Spec, ImplementsLink, Codex!Spec
\* So what CodexLink promises holds under the controller: when the application has
\* quit or died without giving Codex its provider back, the snapshot is still
\* there, and the next launch connects instead of leaving a dead endpoint.
THEOREM WayBackHolds == Spec => []Codex!WayBack
<1> USE DEF Codex!WayBack, Codex!PointedHere
<1>1. Codex!Init => Codex!WayBack
  BY DEF Codex!Init
<1>2. Codex!WayBack /\ [Codex!Next]_<<snapshot, config, Live>> => Codex!WayBack'
  BY DEF Codex!Next, Codex!Connect, Codex!Disconnect, Codex!Die, Codex!UserEdits, Codex!Install,
     Codex!InstallFails, Codex!Withdraw, Codex!WithdrawFails, Codex!Foreign
<1> QED
  BY <1>1, <1>2, ImplementsLinkHolds, PTL DEF ImplementsLink, Codex!Spec
=============================================================================
