-------------------------- MODULE TelemetryPipeline --------------------------
(***************************************************************************)
(* The way of an observation from the end of a response to the disk:       *)
(* relay_response and emit_observation (modules/transport/server.rs), the  *)
(* bounded channel, the observation task and its end in                    *)
(* disconnect_internal (application/desktop_runtime.rs), SavingsLedger and *)
(* DurableSavingsStore (modules/telemetry), the flush every five seconds   *)
(* and at exit (desktop/mod.rs), and crashes.                              *)
(*                                                                         *)
(* One step is what runs between two awaits of the observation task, one   *)
(* poll of a response stream, or one critical section of the controller.   *)
(* Admission is DrainGate's matter: here no stream is opened once a        *)
(* disconnect has found none.  Restoring Codex's config is                 *)
(* ConfigTransaction's: a disconnect that fails there changes nothing here.*)
(***************************************************************************)
EXTENDS SavingsSummary, FiniteSets, Sequences, SequencesExt

CONSTANTS
  Requests,  \* the requests that reach their response, each once
  Prepared,  \* what was counted of a request before it was sent
  Usages,    \* what the provider may report of it, NoUsage included
  Capacity,  \* OBSERVATION_CHANNEL_CAPACITY
  MaxDays,   \* MAX_DAILY_BUCKETS
  LastDay,   \* bound on the clock
  None       \* nothing

ASSUME TelemetryAssumption ==
  /\ \A p \in Prepared : p.outcome \in PreparationOutcomes /\ p.saved \in Nat
  /\ \A u \in Usages \ {NoUsage} : u.input \in Nat /\ u.cached \in Nat
  /\ Capacity \in Nat \ {0}
  /\ MaxDays \in Nat \ {0, 1}
  /\ LastDay \in Nat \ {0}

VARIABLES
  process,   \* "running", "exited" or "dead"
  link,      \* where connect and disconnect_internal are
  quitting,  \* is safe_shutdown waiting for the disconnect?
  stream,    \* each request's response stream and pending observation
  channel,   \* observations on their way to the task
  dropped,   \* dropped_observations of this connection
  task,      \* the observation task: its await, and the event it carries
  ledger,    \* the events of this process, in order
  store,     \* DurableSavingsStore in memory
  disk,      \* the savings file
  day,       \* the local date
  latest,    \* the latest local date so far
  opened,    \* history: all_time when the store was opened
  lost       \* history: observations an aborted task or a closed connection lost

vars == <<process, link, quitting, stream, channel, dropped, task, ledger,
          store, disk, day, latest, opened, lost>>

clock == <<day, latest>>
streams == <<stream, channel, dropped>>
records == <<task, ledger, store, opened>>
control == <<process, link, quitting>>

Off == [at |-> "off", event |-> None]
Receiving == [at |-> "recv", event |-> None]

EmptyStore == [all |-> NoSavings, daily |-> <<>>, last |-> 0]

Init ==
  /\ process = "running"
  /\ link = "down"
  /\ quitting = FALSE
  /\ stream = [r \in Requests |-> [at |-> "none", pending |-> None]]
  /\ channel = <<>>
  /\ dropped = 0
  /\ task = Off
  /\ ledger = <<>>
  /\ store = [data |-> EmptyStore, dirty |-> FALSE]
  /\ disk = EmptyStore
  /\ day = 1
  /\ latest = 1
  /\ opened = NoSavings
  /\ lost = [session |-> 0, store |-> 0]

-----------------------------------------------------------------------------
(* A response stream *)

At(r, stage) == stream[r].at = stage
Goto(r, stage, pending) ==
  stream' = [stream EXCEPT ![r] = [at |-> stage, pending |-> pending]]

\* The provider's headers have arrived; relay_response keeps the observation
\* until the stream ends.
Open(r) ==
  /\ link = "up"
  /\ At(r, "none")
  /\ \E p \in Prepared : Goto(r, "open", p)
  /\ UNCHANGED <<channel, dropped>>

\* try_send: the channel takes it, or the counter does.
Send(r, usage) ==
  LET p == stream[r].pending
  IN  IF Len(channel) < Capacity
      THEN /\ channel' = Append(channel, [id |-> r, outcome |-> p.outcome,
                                           saved |-> p.saved, usage |-> usage])
           /\ UNCHANGED dropped
      ELSE dropped' = dropped + 1 /\ UNCHANGED channel

\* Mutant: the observation is not taken, and emitted by every poll at the end.
EmitAgain(r) ==
  /\ stream[r].pending # None
  /\ Goto(r, "ended", stream[r].pending)
  /\ \E usage \in Usages : Send(r, usage)

\* A poll finds the end of the stream, or an error: the observation is taken
\* and sent.  The stream may be polled again before it is dropped, and then has
\* none left to emit.
Emit(r) ==
  /\ stream[r].pending # None
  /\ Goto(r, "ended", None)
  /\ \E usage \in Usages : Send(r, usage)

\* The stream is dropped: the client has it all, or went away and the
\* observation with it.
Close(r) ==
  /\ \/ At(r, "open") /\ Goto(r, "abandoned", None)
     \/ At(r, "ended") /\ Goto(r, "done", None)
  /\ UNCHANGED <<channel, dropped>>

Stream(r) ==
  /\ Open(r) \/ Emit(r) \/ Close(r)
  /\ UNCHANGED <<control, records, disk, clock, lost>>

-----------------------------------------------------------------------------
(* The observation task *)

Event(observation) ==
  [observation EXCEPT !.outcome = OutcomeOf(observation.outcome)]

Receive ==
  /\ task.at = "recv" /\ channel # <<>>
  /\ task' = [at |-> "ledger", event |-> Event(Head(channel))]
  /\ channel' = Tail(channel)
  /\ UNCHANGED <<ledger, store>>

\* Mutant: the event is let go before it is recorded durably.
RecordSessionOnly ==
  /\ task.at = "ledger"
  /\ ledger' = Append(ledger, task.event)
  /\ task' = Receiving
  /\ UNCHANGED <<channel, store>>

RecordSession ==
  /\ task.at = "ledger"
  /\ ledger' = Append(ledger, task.event)
  /\ task' = [task EXCEPT !.at = "store"]
  /\ UNCHANGED <<channel, store>>

Bucket(daily, d) == IF d \in DOMAIN daily THEN daily[d] ELSE NoSavings

Oldest(daily) == CHOOSE d \in DOMAIN daily : \A e \in DOMAIN daily : d <= e

\* Mutant: a bucket too many goes.
EvictedEarly(daily) ==
  IF Cardinality(DOMAIN daily) < MaxDays THEN daily
  ELSE [d \in DOMAIN daily \ {Oldest(daily)} |-> daily[d]]

\* Mutant: no bucket ever goes.
EvictedNever(daily) == daily

\* One bucket is added at a time, so that at most one has to go.
Evicted(daily) ==
  IF Cardinality(DOMAIN daily) <= MaxDays THEN daily
  ELSE [d \in DOMAIN daily \ {Oldest(daily)} |-> daily[d]]

Recorded(data, event) ==
  [all   |-> Observe(data.all, event),
   daily |-> Evicted([d \in DOMAIN data.daily \cup {day} |->
                        IF d = day THEN Observe(Bucket(data.daily, d), event)
                        ELSE data.daily[d]]),
   last  |-> IF event.outcome = "Aged" THEN event.saved ELSE data.last]

RecordDurable ==
  /\ task.at = "store"
  /\ store' = [data |-> Recorded(store.data, task.event), dirty |-> TRUE]
  /\ task' = Receiving
  /\ UNCHANGED <<channel, ledger>>

Task ==
  /\ process = "running"
  /\ Receive \/ RecordSession \/ RecordDurable
  /\ UNCHANGED <<control, stream, dropped, disk, clock, opened, lost>>

-----------------------------------------------------------------------------
(* The controller *)

\* A new connection has a channel, a task and a counter of its own.
Connect ==
  /\ link = "down" /\ ~quitting
  /\ link' = "up"
  /\ channel' = <<>>
  /\ dropped' = 0
  /\ task' = Receiving
  /\ lost' = [lost EXCEPT !.session = @ + dropped]
  /\ UNCHANGED <<quitting, ledger, store, disk>>

Active == {r \in Requests : stream[r].at \in {"open", "ended"}}

\* No request is active and Codex has its own provider back: the server's task
\* is aborted.
BeginDisconnect ==
  /\ link = "up" /\ Active = {}
  /\ link' = "drain"
  /\ quitting' \in BOOLEAN
  /\ UNCHANGED <<channel, dropped, task, ledger, store, disk, lost>>

\* The last sender is gone and the task has taken everything.
TaskEnds ==
  /\ link = "drain" /\ task.at = "recv" /\ channel = <<>>
  /\ task' = Off
  /\ link' = "flush"
  /\ UNCHANGED <<quitting, channel, dropped, ledger, store, disk, lost>>

\* After a second the task is aborted where it waits.
Abort ==
  /\ link = "drain"
  /\ task' = Off
  /\ channel' = <<>>
  /\ lost' = [session |-> lost.session + Len(channel) + (IF task.at = "ledger" THEN 1 ELSE 0),
              store   |-> lost.store + (IF task.at = "store" THEN 1 ELSE 0)]
  /\ link' = "flush"
  /\ UNCHANGED <<quitting, dropped, ledger, store, disk>>

\* DurableSavingsStore::flush: there is nothing to do, or it is written.
Flush ==
  /\ disk' = IF store.dirty THEN store.data ELSE disk
  /\ store' = [store EXCEPT !.dirty = FALSE]

\* Mutant: the store forgets that it is dirty although the write failed.
FlushForgets ==
  /\ store.dirty
  /\ store' = [store EXCEPT !.dirty = FALSE]
  /\ UNCHANGED disk

FlushFails == store.dirty /\ UNCHANGED <<store, disk>>

\* The flush that ends a disconnect; an explicit one may fail before it, when
\* the preferences cannot be saved.
FinishDisconnect ==
  /\ link = "flush"
  /\ link' = "down"
  /\ quitting' = FALSE
  /\ \/ Flush /\ process' = IF quitting THEN "exited" ELSE process
     \/ FlushFails /\ UNCHANGED process
     \/ ~quitting /\ UNCHANGED <<store, disk, process>>
  /\ UNCHANGED <<channel, dropped, task, ledger, lost>>

\* safe_shutdown without a connection; if it fails, TokenSaver stays.
Quit ==
  /\ link = "down"
  /\ Flush
  /\ process' = "exited"
  /\ UNCHANGED <<link, quitting, channel, dropped, task, ledger, lost>>

\* Every five seconds; a failure is shown and tried again.
Tick ==
  /\ Flush
  /\ UNCHANGED <<link, quitting, channel, dropped, task, ledger, lost>>

Controller ==
  /\ process = "running"
  /\ \/ (Connect \/ BeginDisconnect \/ TaskEnds \/ Abort \/ Tick) /\ UNCHANGED process
     \/ FinishDisconnect \/ Quit
  /\ UNCHANGED <<stream, clock, opened>>

-----------------------------------------------------------------------------
(* The process and the clock *)

\* Everything but the savings file is gone with the process.
LoseMemory ==
  /\ link' = "down"
  /\ quitting' = FALSE
  /\ stream' = [r \in Requests |-> IF At(r, "none") THEN stream[r]
                                  ELSE [at |-> "abandoned", pending |-> None]]
  /\ channel' = <<>>
  /\ dropped' = 0
  /\ task' = Off
  /\ ledger' = <<>>
  /\ lost' = [session |-> 0, store |-> 0]
  /\ opened' = store'.data.all

Crash ==
  /\ process = "running"
  /\ process' = "dead"
  /\ store' = [data |-> disk, dirty |-> FALSE]
  /\ LoseMemory
  /\ UNCHANGED <<disk, clock>>

\* Mutant: a savings file that cannot be read is taken for a missing one.
OpenedStoreOrEmpty == [data : {disk, EmptyStore}, dirty : {FALSE}]

\* A savings file that cannot be read keeps TokenSaver from starting.
OpenedStore == {[data |-> disk, dirty |-> FALSE]}

Launch ==
  /\ process # "running"
  /\ process' = "running"
  /\ store' \in OpenedStore
  /\ LoseMemory
  /\ UNCHANGED <<disk, clock>>

\* Midnight, or a change of the time zone by at most a day.
Clock ==
  /\ \/ day < LastDay /\ day' = day + 1
     \/ day = latest /\ day > 1 /\ day' = day - 1
  /\ latest' = IF day' > latest THEN day' ELSE latest
  /\ UNCHANGED <<control, streams, records, disk, lost>>

Next ==
  \/ \E r \in Requests : process = "running" /\ Stream(r)
  \/ Task \/ Controller \/ Crash \/ Launch \/ Clock

Spec == Init /\ [][Next]_vars

-----------------------------------------------------------------------------
(* Properties *)

Stores == {store.data, disk}
Summaries ==
  {s.all : s \in Stores} \cup UNION {{s.daily[d] : d \in DOMAIN s.daily} : s \in Stores}

\* The store never keeps more than MaxDays buckets, and the channel never more
\* than its capacity.
TypeOK ==
  /\ process \in {"running", "exited", "dead"}
  /\ link \in {"down", "up", "drain", "flush"}
  /\ quitting \in BOOLEAN
  /\ stream \in [Requests -> [at : {"none", "open", "ended", "abandoned", "done"},
                              pending : Prepared \cup {None}]]
  /\ Len(channel) <= Capacity
  /\ dropped \in Nat
  /\ task.at \in {"off", "recv", "ledger", "store"}
  /\ \A s \in Stores : Cardinality(DOMAIN s.daily) <= MaxDays
  /\ lost \in [session : Nat, store : Nat]

Emitted == {r \in Requests : stream[r].at \in {"ended", "done"}}

\* The observations of this process that have not been recorded yet.
Pending == (IF task.at = "ledger" THEN <<task.event>> ELSE <<>>) \o channel

\* Every response that was read to its end is observed once: it is in the
\* session's events, on its way there, counted as dropped, or was lost when the
\* task was aborted; and never twice (emit_observation, server.rs:473-488).  A
\* stream that is dropped before its end is observed by nobody.
ObservedOnce ==
  /\ IsInjective([i \in DOMAIN (ledger \o Pending) |-> (ledger \o Pending)[i].id])
  /\ Cardinality(Emitted) = Len(ledger \o Pending) + dropped + lost.session

\* The all-time savings are those found at launch and what this session
\* recorded, event by event, but for the one the task is about to record: the
\* two views of the same events never drift apart, unless the task was aborted
\* between its two records (desktop_runtime.rs:329-340).
StoreFollowsSession ==
  lost.store = 0 =>
    store.data.all =
      FoldLeft(Observe, opened, IF task.at = "store" THEN Front(ledger) ELSE ledger)

\* Whoever quits leaves everything that was recorded on disk, and nothing that
\* could still have been recorded behind (safe_shutdown,
\* desktop_runtime.rs:594-602).
CleanExitIsDurable ==
  process = "exited" =>
    disk = store.data /\ channel = <<>> /\ task = Off

\* The savings file never forgets: neither a crash nor a failed flush nor a
\* launch takes back what was once written.
DiskNeverGoesBack ==
  [][/\ disk'.all.events >= disk.all.events
     /\ disk'.all.saved >= disk.all.saved]_vars

\* What is recorded today shows up in today's bucket, also after the local date
\* has stepped back over midnight: the bucket that goes is never today's
\* (DurableSavingsStore::record, store.rs:112-139).
TodayIsCounted ==
  [][RecordDurable =>
       Bucket(store'.data.daily, day) = Observe(Bucket(store.data.daily, day), task.event)]_vars

\* In every summary the shown classes of requests add up to all of them, the
\* compared groups hold only Responses requests and no more cached tokens than
\* input tokens, and the estimate is within two tokens an event of the bytes
\* saved (aggregate.rs:70-174, model.rs:47-55).
SummaryCoherent ==
  \A s \in Summaries :
    /\ s.events < MaxCount =>
         /\ s.events = ResponsesRequests(s) + s.outcomes["Bypassed"]
                         + s.outcomes["NativePassthrough"]
         /\ s.aged.events <= s.outcomes["Aged"]
         /\ s.unaged.events <= ResponsesRequests(s) - s.outcomes["Aged"]
    /\ \A cache \in {s.usage, s.aged, s.unaged} :
         cache.input > 0 => RateBasisPoints(cache) <= 10000
    /\ s.saved < MaxCount =>
         /\ 4 * s.tokens <= s.saved + 2 * s.events
         /\ s.saved <= 4 * s.tokens + 2 * s.events
=============================================================================
