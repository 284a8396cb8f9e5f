# TokenSaver in TLA+

TokenSaver is a menu-bar application that sits between Codex and its provider.
While Codex is *connected*, its `config.toml` names a loopback endpoint of
TokenSaver; requests that arrive there leave for the provider with old, already
consumed tool results replaced by short receipts. On disconnect Codex gets back
the configuration its user wrote. This directory models the parts of that which
are hard to get right by testing: the transaction on `config.toml` and its
snapshot, the drain of the server, the operations of the desktop controller, the
data directory it shares with the command line, the replacement of tool results,
the encodings of a body, and the way of an observation into the durable
statistics. Paths below are relative to `src/src/`.

## 1. The system

| component | source | state it keeps | operations | talks to |
|---|---|---|---|---|
| Config transaction | `modules/codex_integration/config.rs`, `application/codex_connection.rs` | `config.toml`, `codex-config-snapshot.json` | connect (bind, inspect or discard a snapshot, read, save, write, roll back), disconnect (check, write, remove the snapshot) | files; called by the controller |
| Admission and drain | `modules/transport/server.rs` | `active_requests`, `draining` | admit, count, recheck, leave; begin drain, resume | handlers and the controller share two atomics |
| Desktop controller | `application/desktop_runtime.rs`, `desktop/mod.rs` | the connection, preferences, status, operation lock, `shutdown_in_progress` | connect, disconnect, reconnect, setters, initialise, quit, prepare to uninstall, health refresh | all of the others |
| Aging engine | `modules/aging/` | none | `age_tool_results` | called per request |
| Request preparation | `modules/transport/request.rs` | none of its own; reads the live policy | `prepare_responses_body` | engine, content codecs |
| Receipts | `modules/aging/receipt.rs`, `application/recovery.rs` | none | build, parse, assess, verify a candidate | engine writes them; a recovery API reads them |
| Usage collector | `modules/transport/response_usage.rs` | line buffer, captured body, usage | observe a chunk, finish | the response stream |
| Telemetry | `application/measurement.rs`, `modules/telemetry/` | bounded channel, session ledger, durable store, dirty flag, savings file | emit, record, flush, open | stream -> channel -> task -> ledger and store -> file |
| Preferences, offline settings | `modules/runtime/preferences.rs`, `application/settings.rs` | `runtime-preferences.json` | open, set, save | controller; the CLI when the application is off |
| Control socket | `application/control.rs`, `runtime_client.rs` | the socket, its clients' permits | accept, carry out a command of the CLI, answer | controller |
| State purge | `application/maintenance.rs` | none | remove owned files unless a snapshot exists | files |
| Content codings | `modules/transport/compression.rs` | none | decode, encode a chain | request preparation |
| Capability, header policy | `modules/transport/capability.rs`, `headers.rs`, `shared/security.rs` | none | pure checks | handlers |
| CLI, doctor, statistics views, benchmark and quality fixtures, scripts | `cli/`, `application/doctor.rs`, `stats.rs`, `benchmark.rs`, `quality.rs` | none | parse, probe, print | outside the running program's core |

What makes them hard, and what makes them correct:

* **Config transaction.** Several file operations, any of which may fail, with
  crashes between them and an editor (or Codex) writing the same file. Correct:
  a file that points at TokenSaver can always be restored, a live connection has
  its snapshot, and the user sees whole connects and disconnects.
* **Admission.** Handlers and controller race on two atomics. Correct: the
  counter is exact, nothing is served once Codex has its provider back, and a
  disconnect that failed leaves the gate open.
* **Controller.** Commands overlap with quitting and with a health refresh that
  does not take the lock. Correct: what disk, tray, transport and `config.toml`
  say of each other agrees, and everything started ends.
* **Data directory.** The application keeps the preferences in memory and writes
  all of them; every invocation of the command line is a process of its own that
  asks the application and, when no answer comes, works on the files beside it.
  Correct: the way back to the provider is never removed, a setting reported as
  set is the one in force, a purge removes what TokenSaver owns, its unfinished
  writes of the preferences included, and nothing else.
* **Aging and preparation.** Index arithmetic over a history that grows, a JSON
  body rewritten by the indexes of a normalized copy, two passes that count. Correct: only the results the
  rules allow are replaced, by their own receipts, and stay replaced.
* **Content codings.** A chain read from one header field, taken off under a limit
  and put on again. Correct: the provider can read what it gets as far as the
  header describes it.
* **Receipts.** Lengths in bytes against previews in UTF-16 units, in texts that
  may contain a receipt's markers. Correct: what is written can be read.
* **Usage.** Chunk boundaries anywhere, two limits. Correct: the usage is that of
  the whole response, and what is held is bounded.
* **Telemetry.** A lossy channel, an abortable task with two records per event, a
  retried flush, a clock that steps back. Correct: every observation is accounted
  for once, totals agree, and the disk never forgets.

`PROJECT.json` lists the hazards line by line with the properties that cover
them.

## 2. The modules

    CodexConfig            what connect and disconnect do to the text   (pure)
      ConfigTransaction      one file operation per step
      ConfigLease            abstract: keys borrowed and given back in one step
      CodexLink              abstract: connected and disconnected in one step
        ConfigRefinement       ConfigTransaction implements both
        ConfigTransactionProofs    invariants, and the two refinements
    AdmissionGate          abstract: admit, release, close
      DrainGate              one atomic access per step
      DrainGateProofs
    DesktopRuntime         the controller and its shell, over CodexLink
      DesktopRuntimeProofs       invariants, and that it keeps to CodexLink
    DataDirectory          the application and the CLI on the same files
      DataDirectoryProofs
    AgingEngine            age_tool_results                             (pure)
      RequestPreparation     a conversation, prepared again and again
      RequestPreparationProofs   of both
    ContentEncodings       a body's codings on their way through
    ResponseUsage          the usage collector
    ReceiptRecovery        receipts written and read
      ExchangeProofs         of the three
    SavingsSummary         sums of the statistics                       (pure)
      TelemetryPipeline      from the response to the disk
      TelemetryPipelineProofs    of both
    FoldLemmas             induction, pieces of sequences, folds        (lemmas)
    MCConfig, MCConfigWorlds, MCDrainGate, MCDesktop, MCDataDirectory,
    MCExchange, MCTelemetry                        instances for TLC

Definitions keep the names of the code (`Prepare` is `prepare_responses_body`,
`RecordDurable` the call of `DurableSavingsStore::record`); `PROJECT.json`
("map") gives each one's lines. Operators preceded by "Mutant:" are plausible
bugs that no specification uses: substituting one for the definition it names
makes TLC refute the property listed with it under "mutants".

### CodexConfig, ConfigTransaction, ConfigLease, CodexLink

A document is the value of four keys; the rest of the file, which `toml_edit`
carries along, behaves like `chatgpt_base_url`, a key that is read and never
written. `ConfigTransaction` has the file in the Codex home the process resolved
(`config`), the one in another home (`elsewhere`), the snapshot, the endpoint of
the live connection and the operation under way with the text it has read. Each
action is one file operation of `prepare_native_codex_connection_at` or
`disconnect_native_codex` and has a failing branch; a write is atomic
(`shared/filesystem.rs` renames a temporary file). `Crash` loses what is in
memory; `UserEdit` and `UserDelete` are the user's or Codex's own writes. Two
switches bound the environment: `EditsRace`, whether the file may change between
TokenSaver's read and its rename, and `HomeMoves`, whether `CODEX_HOME` may name
another directory after a restart.

`ConfigLease` is the promise to the owner of the file: TokenSaver borrows keys in
one step, gives them back in one step, and stops writing as soon as the user has
taken one back. `CodexLink` is the promise to the desktop runtime: whether there is
a snapshot, how `config.toml` stands to it (own, ours, mixed, other, or broken: not
to be understood any more), and whether the endpoint is served. Connecting and
disconnecting are one step each, that succeeds, fails on the way, or is cut short by
the end of the process, with every outcome the file operations can leave. One of them
is a snapshot beside no `config.toml`, which refuses connects (see the hazards).
`ConfigRefinement` maps the transaction onto both. Under the second mapping an
operation shows the old files until it is over or has failed, and the snapshot that
a connect finds fit to be discarded is already worth nothing.

### DrainGate, AdmissionGate

One step is one atomic access of `handle_request`, `ActiveRequestGuard` or
`TransportControl`, or the wait between two of them: the first look at
`draining`, the closure of `fetch_update` and its compare-and-swap (which may
fail spuriously), the second look, and the leave of the guard on every way out.
The refusals before the first look (origin, capability, route, method, content
type and length) touch nothing shared and are left out. A store to `draining`
goes through a store buffer. In `begin_drain` it is a Release store followed by an
Acquire load of another location, which those orderings allow to be performed in
either order; `LoadOvertakes` says whether it may. Taking the operation lock for
a new disconnect, a synchronising access, finds the buffer empty. `AdmissionGate`
admits, releases and closes atomically.

### DesktopRuntime

Each task runs one command; `BeginConnect .. Announce`, `BeginDisconnect .. Flush`,
`SetSaving` and `SetPolicy` are the critical sections of the controller's methods
between two awaits, and the lock is the controller's operation lock. The health
refresh (`TickLook`, `TickProbe`, `TickShow`) reads the connection, reads the
files and writes the status with nothing held in between. Codex's files are those of
`CodexLink`: preparing a connection and restoring the file are its actions, a crash
may strike in the middle of one (`Crash`), and an edit is its `UserEdits`. So the
controller is checked over exactly what the transaction is shown to implement.
`Live` says when the endpoint is served: from the moment the connection is prepared
until the file has been restored. The drain's decision is one step, the detail being
`DrainGate`'s. Menu items and the requests of the control socket both are
`Command`. The failing branches are a save of the preferences, a file operation
of connecting and disconnecting, a flush, a probe and Start at Login. The port
that cannot be bound and the snapshot that cannot be read are among the faults of
`Prepare`.

### DataDirectory

A client is one invocation of `tokensaver` with one command: it connects to
`control.sock` (`Start`), waits, and is answered, dropped beyond
`MAX_CONTROL_CLIENTS` (`Accept`), or gives up after five seconds. Whatever the
error, it takes the runtime for stopped (`GiveUp`, `Start` without a socket): a
setting is then read, checked and written by `set_numeric_setting_offline`
(`ReadSettings`, `WriteSettings`), a purge goes through `purge_owned_state` file by
file (`CheckSnapshot .. RemoveDir`), and the other commands can only report. A
command that the runtime has read is carried out whether or not its client still
waits. The application launches, connects, binds the socket, serves, loses the
socket and stops, in the middle of a save too; the controller's operations are two
steps (connect, under the operation lock) or one, their detail being
`DesktopRuntime`'s and `ConfigTransaction`'s. The directory is its names: the
preferences and what they say, the socket, the snapshot, the temporary files of a
write of either that was cut short, by the end of its process or by an error of
which the clean-up fails too (`CutShort`), and a file that is not TokenSaver's. A
connect that fails or dies may have discarded an old snapshot, left a new one, or
left the temporary file of one (`BrokenConnect`); of that file no purge knows.
`savings.json`, removed as the preferences are, is left out, and so is a second
application, which the shell's single-instance guard excludes.

Two history variables carry the properties. `promised` holds for every setting the
values its user may expect: the one that was reported as set, and one whose save
failed. `overlapped` says whether a client has been mistaken about the runtime, or
two processes have worked on the files at once. `WayBackKept` and
`OnlyOwnedRemoved` hold regardless; the promises about settings, the socket and the
purge hold until then, and `ReportedSettingsApply` shows what happens after.

### AgingEngine, RequestPreparation

A text is its length in bytes: the engine compares nothing else. A receipt is
what it is built from and its length. `AgeToolResults` follows the passes of the
code (acted-after flags from the end, protected indexes, names by call id); a
body is its path, whether its content coding can be decoded and encoded, whether
it has an input, and its items. `previous_response_id` is carried along untouched
and has no field. Histories only grow, and calls have fresh ids, as Codex makes
them; `Send` prepares the history under the policy in force when the body has
been read (`server.rs:308-314`).

### ContentEncodings

A body is a text under layers; a layer is its format and the length of what it
decodes to, the codecs themselves being libraries. `Parse`, `Decode` and `Encode`
are `EncodingChain`'s; what `handle_request` reads and forwards is the first
`Content-Encoding` field. Whether a body that can be read is rewritten is
`RequestPreparation`'s subject and a choice here.

### ResponseUsage

One step is one chunk of the response. Bytes come from a small alphabet with a
newline and a return; the constants `LineReports` and `BodyReports` say which
texts report which usage, in the place of the JSON parsing of
`usage_from_payload` and `usage_from_value`.

### ReceiptRecovery

A text is a sequence of symbols, each with its bytes and its UTF-16 units; the
markers of a receipt are symbols a tool may print too. `BuildReceipt` and
`ParseReceipt` work on lengths and positions as the code does. A digest is the
text itself: SHA-256 is taken to tell texts apart. Tool names are those the
provider accepts, which hold no line breaks. The recovery API is not called by
the running program yet; the quality fixture calls `parse_receipt`.

### SavingsSummary, TelemetryPipeline

One step is what runs between two awaits of the observation task, one poll of a
response stream, or one critical section of the controller. The bytes saved stand
for the twenty metrics that are all added alike; the outcomes, the cache groups
and the estimate of tokens are kept because properties relate them. Sums saturate
at `MaxCount`. Disconnecting drops the connection's sender, waits for the task
and aborts it after one second, at any of its awaits; a crash loses memory. A
savings file that cannot be read keeps the application from starting
(`OpenedStore`). The date moves by a day, forward or (a changed time zone) back.
`lost` and `opened` are history variables. `Quit` is atomic: its race with a
connect is `DesktopRuntime`'s `ExitReleasesCodex`.

## 3. The runs

| run | shows |
|---|---|
| `MCConfigWorlds` | with nobody writing in the middle of a transaction, every failure and crash: `Restorable`, `ServedHasSnapshot`, `PointsAtServed`, `ImplementsLease`, `ImplementsLink`; with edits at any moment and a home that moves: `ServedHasSnapshotAnywhere` |
| `MCConfigHomeStranded` | **violated:** `Restorable` when the home moves |
| `MCConfigRace` | **violated:** `ReplacesWhatItRead` when an edit falls between read and rename |
| `MCDrainGateReordered` | **violated:** `DrainSafe` where a load may overtake an earlier store |
| `MCDesktop` | `ConnectionRemembered`, `TrayMatchesTransport`, `TakenDownAfterRestore`, `ImplementsLink`; `StatusSettles`, `CommandsEnd` under fairness |
| `MCDesktopDrift` | **violated:** `DriftIsShown` |
| `MCDesktopExit` | **violated:** `ExitReleasesCodex` |
| `MCDesktopLeftover` | **violated:** `PreparedReleasesCodex` |
| `MCDataDirectory` | `WayBackKept`, `OnlyOwnedRemoved`, `SettingsKept`, `ServingIsReachable`, `PurgedClean` |
| `MCDataDirectoryLost` | **violated:** `ReportedSettingsApply` |
| `MCExchange` | the gate where a load waits for earlier stores: `CounterExact`, `DrainSafe`, `GateReopens`, `ImplementsGate`; engine against its reference, `OnlyAgedOutputsDiffer`, `OutcomeExplained`, `DiagnosticsAddUp`, `AgedStaysAged`; `ProviderReadsIt`, `NothingHugeIsRewritten`; `UsageOfWhole`, `HeldBounded`; `EvidenceIsExact`, `PreviewsAreLongest` |
| `MCTelemetry` | `ObservedOnce`, `StoreFollowsSession`, `CleanExitIsDurable`, `SummaryCoherent`, `DiskNeverGoesBack`, `TodayIsCounted` |

**What the violated runs say.** Each checks one sentence of a comment or a
document, quoted under "findings" in `PROJECT.json`.

* *The other home.* A snapshot does not say which `config.toml` it belongs to.
  After a crash with `CODEX_HOME` changed, connect finds the other file untouched,
  discards the snapshot, and the first file keeps a dead endpoint.
* *The lost edit.* `connect_with_snapshot` and `disconnect_with_snapshot` check a
  text and rename another over whatever is there by then.
* *The early load.* Release and Acquire do not order `begin_drain`'s store before
  its load. A request may pass both looks at `draining` while the controller
  counts none. Sequentially consistent accesses exclude it; that is
  the gate of `MCExchange`.
* *Quitting during connect.* `safe_shutdown` looks for a connection before it
  takes the operation lock, finds none, and exits while the CLI's connect finishes.
* *Preparing to uninstall.* Without a live connection a disconnect changes only
  the preference and reports success, although a snapshot and a managed file are
  left from an unclean shutdown.
* *The drift nobody shows.* The refresh re-proves the state from the snapshot and
  `config.toml` only while a connection is live. After a crash while connected and
  an edit, the launch refuses to reconnect over the drift and shows an error, and the
  next refresh replaces it by "Disconnected" for good. `StatusSettles` is therefore
  stated for what the refresh does look at: of a live connection the tray comes to
  show connected, drifted or an error as the file has it, without one "Disconnected"
  if the file is the user's own, and what an unclean shutdown left behind is at least
  never shown as a connection.
* *The setting nobody uses.* The command line takes any error of its request, a
  time-out or a dropped connection included, for a runtime that is not running. It
  writes the file and says that the setting is persisted for the next connection;
  the runtime has its preferences in memory, connects with those, and writes them
  over the file.

**Bounds, and why they are enough.**

* `MCConfig`, `MCConfigWorlds`: one URL of the user's, two endpoints (a stale one
  and the next), two derived call URLs. A third endpoint would play the part of one
  that no file and no snapshot names any more. Steps are unbounded: any sequence of
  connects, crashes and edits is explored. `MCConfigWorlds` explores each of its
  two worlds with the other at its start. Where the home moves there are two
  files, which squares the states: there the user's value is one that is not a
  string, and `chatgpt_base_url` is left alone (`Plain`). What is true
  there for all documents is proved.
* `MCDrainGateReordered`, and the gate of `MCExchange`: three requests for two
  places, so that the limit refuses one and a compare-and-swap fails against two
  others. Steps are unbounded.
* `MCDesktop`: two tasks beside the initialising one, two policies, `MaxEvents`
  = 3 commands, edits, crashes and control failures, `MaxFaults` = 1. Three events
  are a connect, a command that overlaps, and an edit or a crash; launches, internal
  steps, refreshes and requests cost none. One fault at a time is the code's own
  assumption in its rollbacks. The transport has one active request at most, since
  only "none" and "some" are told apart. Liveness excludes symmetry and makes more
  events too many; the four safety properties of the run are proved for any number of
  events and faults. The violated runs need one or two tasks and no more than four
  events.
* `MCDataDirectory`: two clients of one command each, two settings of two admitted
  values and one out of range, one permit of the socket, so that the second client
  is dropped. Two clients are what it takes for a purge to meet a setting, a
  setting another and either a runtime that is slow; launches, crashes and
  operations from the menu are unbounded. Two temporary files of one kind are one.
  The clients and the keys are symmetric.
  `CHECK_DEADLOCK FALSE`, since a runtime that was started and clients that are done
  are an end like any other.
* `MCExchange`: five parts that do not interact, each explored with the others
  at rest: the gate and the codings from the start, the rest once the gate has
  closed behind the last request. Histories of four items (a call, its result, a
  model action, another result) around policies whose thresholds the outputs of
  6, 7 and 9 bytes meet, exceed or fall below, with a receipt that is longer or
  shorter than its text; frontiers of zero and one; saving on and off. Responses
  of seven bytes with a line limit of three and a body limit of four, in chunks
  of one or two bytes, so that a line of the limit, one longer, a return and a
  boundary anywhere all occur. Receipts of all texts of up to five symbols of
  one to four bytes, under previews of zero to three units. Chains of up to
  three codings (two names of one format, another format, identity, one nobody
  knows), or two fields of one coding, over bodies of up to two layers that
  decode to the limit or to one byte more. The gate's type invariant is proved
  rather than run. A response that has been read is the end, hence
  `CHECK_DEADLOCK FALSE`.
* `MCTelemetry`: three responses, a channel of one, two days kept of three, sums
  that saturate at 20 with seven bytes saved an event. The channel overflows, the
  store evicts and the sums saturate. The process may crash and be launched again
  without a bound. The scaled numerator of a rate saturates at 20 as well, so what
  `SummaryCoherent` says of rates cannot fail in this run and rests on `SummaryCoherentHolds`, its proof for every
  limit. `ObservedOnce` is about responses that were read to their end: a stream that
  is dropped before sends no observation.

Every invariant, action property and refinement of the passing runs is also proved,
and so are the type invariants that the runs of the config transaction, the gate and the controller
leave out.

**Fairness.** Safety runs assume none. `FairSpec` of `DesktopRuntime` assumes weak
fairness of every task's work, of initialisation and of the refresh: tokio polls
every task that can go on, its mutex is first-in-first-out and the commands of a
behaviour are finitely many, so that a task that waits for the lock eventually
finds it free with nobody before it; a task of the shell refreshes once a second.
Nothing is assumed of the user, of crashes, of faults or of requests. Commands
that are given only bounds on I/O (the drain of the observation task, the abort
of the server) always return.

## 4. What is proved

The seven `...Proofs` modules and `FoldLemmas` are checked by TLAPS for every value of the constants
under the modules' named assumptions. `PROJECT.json` lists the theorems.

**The config transaction.** `TypeCorrect`, `ServedHasSnapshotHolds`,
`RestorableHolds`, `PointsAtServedHolds`, `ReplacesWhatItReadHolds`,
`ServedHasSnapshotAnywhereHolds`; and of the two texts, for every document,
`RoundTrip`: what a connect writes counts as connected, what it found as not
connected, and a restoration undoes the keys that were set and keeps the others as
they are by then.

* `TypeInv` adds to `TypeOK` what an operation carries at each of its places: a
  connect has an endpoint and excludes a live connection, a disconnect has both a
  live connection and a snapshot, and whoever is about to write holds a text it
  has checked.
* `ServedInv` adds that there is no snapshot while a connect reads and saves, and
  that from `write` on there is one that names the endpoint about to be served.
  Without these, `Write` could publish an endpoint without its snapshot.
* `SafeInv` adds to `Restorable` that no snapshot remembers an endpoint as the
  user's own value, that the text a connect is about to replace is not a managed
  one, and that `config.toml` is not managed wherever a transaction is about to
  remove or has just written a snapshot. `NotConnectedNotManaged` is the lemma on
  which discarding a snapshot rests.

`RestorableHolds` and `PointsAtServedHolds` assume `~HomeMoves`, and nothing of
`EditsRace`: an edit in the middle of a transaction can lose the user's edit
(`MCConfigRace`) but not the way back. That `HomeMoves` is needed is
`MCConfigHomeStranded`. `ReplacesWhatItReadHolds` assumes `~EditsRace` and shows that
this race is the only way to lose an edit. `ServedHasSnapshotAnywhereHolds` says the
same of the other instance in `MCConfigWorlds` as `ServedHasSnapshotHolds` of the
first; `MovingInv` is its inductive invariant.

**The lease.** `ImplementsLeaseHolds`, under `~HomeMoves`, `~EditsRace` and the
assumption that the user writes no URL that TokenSaver derives: one written while a
snapshot of a broken connect is around would count as lent.

* `LeaseInv` adds to `SafeInv` that a snapshot installs derived values only, that a
  text which was read is still what the file says, and that nothing is lent where
  a snapshot has just been written, is discarded or forgotten.
* `Write` is the lease's `Borrow` and `Put` its `GiveBack` (`Borrowing`,
  `GivingBack`); an edit is an `Edit` of the keys it sets (`Taking`); every other
  step, the save and the removal of a snapshot included, changes nothing the
  user could see (`SameView`).

**The link.** `ImplementsLinkHolds` (of `ConfigTransactionProofs`) says under
`~HomeMoves` that the transaction implements `CodexLink`, `ImplementsLinkHolds` (of
`DesktopRuntimeProofs`) that the controller reaches Codex's files only as `CodexLink`
allows, and `WayBackHolds` what follows for the controller: as long as an endpoint is
served, or `config.toml` points at TokenSaver whether or not anybody serves it, the
snapshot is on disk. `MCDesktopExit` shows that quitting can leave a dead endpoint;
by this theorem the next launch finds the snapshot and connects again.

* For the transaction, `LinkInv` adds to the invariants above that a snapshot names an
  endpoint and that the one about to be put to use is that of the text about to be
  replaced. `ViewOfFile` says that a managed file is "ours" or "mixed" in every view
  of it and one that is not managed neither, so that a write that is lost, a snapshot
  that stays and an edit in the middle all have views that `CodexLink` allows. The
  edits need no restriction: the lease has to know what the user wrote, the link only
  that it was the user.
* For the controller, the step is read off `Exclusive` and `Placed`: whoever prepares
  has no live connection (`LiveAt`), whoever restores has one, a crash in the middle
  of either finds the same, and no other step changes `Live` or the files
  (`LiveKept`).

**The gate.** `TypeCorrect`, `CounterExactHolds`, `GateReopensHolds`, and under
`~LoadOvertakes` `DrainSafeHolds` and `ImplementsGateHolds`, for any finite set of
requests and any limit.

* `CountInv` joins `TypeOK` and `CounterExact` with `Judged` (a request about to
  swap has judged a counter below the limit). Every step of a request either
  stays, enters or leaves, and the counter follows the cardinality.
* `GateReopens` is inductive with it: whatever is stored last after a failed or
  refused disconnect is `FALSE`, and emptying the buffer keeps the last store.
* `GateInv` says that when the counter is loaded the store to `draining` is visible
  or is the only one in the buffer, and that from a zero count on it is visible and nobody is
  served. Where loads overtake, its first part fails, and `MCDrainGateReordered`
  shows how.
* `ImplementsGateHolds` maps initial states to initial states and each step to a
  step of `AdmissionGate` or a stutter.

**The controller.** `TypeCorrect`, `ConnectionIsRemembered`, `TrayMatches`,
`TakenDownInOrder`, `AttendedHolds`, for any tasks, policies, events and faults.

* `Exclusive`: whoever is at a critical place holds the operation lock, so at most
  one task is at one, and an application that is not up holds nothing.
* `Placed` says what is true while a task is at such a place (nothing is connected
  and the wish is saved before a connection is published; the gate is closed and
  empty from the drain's decision to the takedown). It survives the others' steps
  because quitting, the refresh, requests and edits cannot take the lock.
* `Linked` says of a live connection that the wish for it is in memory and on disk
  and that its settings are the preferences' and, outside of `announce`, the
  tray's. The two invariants asked for are its parts; `TakenDownInOrder` reads the
  step off `Placed`.
* `Attended` says that the operation lock and `shutdown_in_progress` are held only by
  tasks that are still at work. With it goes that one task quits at a time
  (`OneQuits`), without which the failure of one would reset the flag of another.

**The data directory.** `TypeCorrect`, `WayBackAlways`, `OnlyOwnedIsRemoved`,
`SettingsAreKept`, `ServingStaysReachable`, `PurgeLeavesOnlyTheRest`,
`ReportedApplyWithoutOverlap`, for any number of clients and permits and any settings.
The last says that `ReportedSettingsApply`, which `MCDataDirectoryLost` violates, holds
until a client is mistaken about the runtime.

* `Shape` is the type invariant with what a client's place says of its command: only
  a value in range comes to be written, only a purge removes. The way back and the
  ownership of what is removed rest on it alone, whoever overlaps with whom.
* `Quiet` holds until a client is mistaken: whoever works on the files has them for
  itself (`ForItself`), so what it has read, removed or not found is still so
  (`StillTrue`; with the entries that are left `PurgeLeavesOnlyTheRest` follows), a
  serving runtime has its socket (`Bound`), and file and memory say what was
  promised (`Kept`). Each part needs the first; a step that would break it sets
  `overlapped`.

**The telemetry pipeline.** `TypeCorrect`, `ObservedOnceHolds`,
`CleanExitIsDurableHolds`, `SummaryCoherentHolds`, `DiskNeverGoesBackHolds`,
`TodayIsCountedHolds`, `StoreFollowsSessionHolds`, for any requests, any capacity,
any number of days kept above one and any limit of the sums.

* The first part shows of `Observe` that it keeps a summary coherent: adding
  saturates and never decreases (`AddProperties`), and the estimate of tokens
  follows the bytes until a sum saturates (`EstimateProperties`).
* `Typed` has every summary of memory and disk coherent, `Dated` has no bucket later
  than the latest date, `Wired` says what a state of the connection rules out (a
  channel or a task without a connection, a clean store unlike the file), `Ahead`
  that the store is never behind the file.
* `Once` reads what the session knows as one sequence, ledger, task and channel
  in turn; its entries have different requests, and its length with what was
  dropped or lost is the number of observations made.
* `TodayIsCountedHolds` is the one proof about the oldest bucket: a set of dates has
  a least element (by well-founded induction), which is not today's, since the date
  steps back by at most a day and two buckets are kept at least.
* `Followed` adds to `StoreFollowsSession` that what the task carries to the store is
  the last event of the ledger, without which its second record would be of
  anything. `SessionAppend` says what one more event does to the fold.

**Loops over data.** The rest is about passes over a history, a body, a chunk or a
text of any length: folds and functions recursive on an index. The theorems of the
library that would unfold them take an operator as parameter, which the provers
cannot instantiate, so `FoldLemmas` states the same with sets and functions:

* `Induction` and `InductionUpTo`, for a *set* of numbers, from the well-foundedness
  of the naturals;
* `IterationExists`: a step given as a *function* on values of some kind can be
  iterated over the indexes. `FoldLeft` chooses a function that solves its equation,
  and there is one by this lemma;
* `TraceExists` and `TraceOfIteration`: such an iteration goes through the values the
  loop goes through.

Each loop has a lemma, named for its trace (`AgingTrace`,
`WriteTrace`, `PeelTrace`, `ObserveTrace`, `SessionTrace`), that gives its result as the last of a sequence of
values, each the step of the one before. The lemmas after it say by induction along
the trace what every value is, in words that do not mention the loop; the theorems
use those only.

**Aging and preparation.** `EngineMeetsReferenceHolds`, `OnlyAgedOutputsDifferHolds`,
`OutcomeExplainedHolds`, `DiagnosticsAddUpHolds`, `AgedStaysAgedHolds`: for every set
of items, envelopes and policies of their types, and histories of any length. They
rest on `RequestIInv`:

* the history is of normalizable items, the policy is one, and `sent.prepared` is
  what `Prepare` made of the body that was sent (`SentIsPrepared`), so that a property
  of a request is one of `Prepare`;
* `FreshCalls`: a call with an id is the first item with it. Without it the name in a
  receipt, taken from the map of names whose later entries win, could change as the
  history grows, and `AgedStaysAged` would fail.

The argument goes pass by pass: the flag carried from the end is "a later model
action exists", the last indexes are "fewer later results than the frontier" (by
the cardinality of the results after an index), the map has the last name of a
call; so the decision on a result is that of `MayAge` and `Shrinks`. The replacements
are then the aged results in order, each index once, so every replacement still
matches its item and the second loop never fails; and each evaluation has one
decision, so the counters of the two passes, and the bytes, add up.

**Codings, usage, receipts** (`ExchangeProofs`).

* `ProviderReadsItHolds`, `NothingHugeIsRewrittenHolds`, for every table of codings and
  every body, from `Forwarded`: what left is the client's body, or the rewritten text
  under the chain that was read and could be decoded. `Decode` takes off, layer by
  layer, exactly the formats of the chain in reverse, and each only within the limit;
  `Encode` puts the same formats on.
* `HeldBoundedHolds`, `UsageOfWholeHolds`, for every response, every cut into chunks and
  both limits, from `UsageIInv`: the held bytes are those after the last newline unless
  they are too many, and the usage is that of the last complete line short enough to be
  read (`Follows`). `ObserveByte` keeps it byte by byte, so chunks do not matter.
* `EvidenceIsExactHolds`, `PreviewsAreLongestHolds`, for all texts and lengths of
  characters, from `RecoveryIInv`: the receipt was built from the original
  (`Written`), nothing is asked before one is (`AskedLater`), and answers are exact. The first
  marker of a receipt is its own (`FirstMarker`), and a section of a given length
  followed by a marker is unique because every symbol has a positive length
  (`SectionIsUnique`), whatever markers the previews repeat. The walk of `safe_head`
  stops at the longest prefix because lengths grow with the prefix; `safe_tail` is the
  same walk over the text reversed.

## 5. What is only model-checked

* Liveness (`StatusSettles`, `CommandsEnd`) under `FairSpec`: fairness and `ENABLED`
  are out of the prover's reach. What `CommandsEnd` needs besides fairness, that
  neither lock nor flag is left behind, is `AttendedHolds`.
* That the sentences under "findings" fail: a counterexample is TLC's to find.

The proofs take from outside only the library's theorems about finite sets, functions,
sequences and well-founded orders, and the named assumptions on the constants, which
TLC evaluates in every run.

## 6. What is not modelled

* Failure of the listening socket after it was bound: `axum::serve` does not
  return in the running program.
* `last_error`, logging, wording, and the CLI's, the tray's and the doctor's
  formatting.
* The session ledger's growth and what the user is shown of
  `dropped_observations`, which starts over with each connection while the totals
  go on (listed as hazards).
* A second temporary file of the same kind: one stands for all. Only that of the
  data directory's own files is modelled; one beside `config.toml` is in a directory
  that no purge touches.
* A second application taking over the control socket: the shell's single-instance
  guard is assumed. The size limits and malformed lines of the socket refuse one
  request and touch nothing.
* Preferences, snapshots or savings that are not valid: opening them fails, and the
  application does not start (`TelemetryPipeline` has this of the savings file).
* A second `Content-Encoding` field, of which the provider hears nothing (listed as
  a hazard: no document says what should happen; `ProviderReadsIt` is stated for
  one).
* The menu's toggles, which read a setting and set the opposite (listed as a
  hazard): commands of the model carry their value.
* Capability and header checks: pure functions of one request, with no state.
* The CLI's parsing and printing, the doctor, the views of the statistics: they read
  once and change nothing. The benchmark and quality fixtures, the scripts and the
  packaging are not part of the running program.
* A keep-alive connection outliving the server's abort: the drain's wait covers
  it and no shared state depends on it.

## 7. Plan

The order of the work was: the config transaction with its lease and proofs; the
gate with its abstract specification and proofs; the controller with liveness;
aging and preparation; telemetry; usage and receipts; the data directory; content
codings; the proofs of the controller, the data directory, the pipeline and the
lease; the proofs of the loops over data; the link between the transaction and the
controller, with its two refinements. These are in place. What would come next:

1. *Two data directories*: a client whose environment names another directory than
   the application's.
2. *Liveness of the data directory*: under fairness of clients and runtime every
   command ends; it follows from the time-out of the client and would need the
   drain's wait to be bounded.

New instances are to be joined to existing ones the way `MCExchange` joins parts
that do not interact.
