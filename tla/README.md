# Reyn Studio: specifications and proofs

TLA+ models of the parts of Reyn Studio that keep an engineer's work: the atomic file writer,
the project ledger, the project lifecycle of concurrent sessions, the orchestration of
external-flow runs between the user interface and the engine worker, the draft of a case with its
undo history and orientation worker, the Benchmark Lab with the model library, the controller
of the managed Python runtime, and the window with its access gate, settings and signing identity. TLC checks each model on
small instances, TLAPS proves the most important properties for every instance.

Paths below are relative to the repository: `project.rs` is `src/project.rs`, and so on.

## The system

| Component | State it keeps | Operations | Models |
|---|---|---|---|
| Atomic file writer (`project.rs`, `write_atomic_bytes`) | a file, a temporary file, the digest the caller expects | write under a precondition | `AtomicFile`, `OptimisticRegister` |
| Project ledger (`project.rs`, `ProjectManifest`) | sources, cases and revisions, runs, evidence, selection | add source, create case, append revision, append and finish run, append evidence, select | `RunLedger` |
| Project lifecycle (`project_lifecycle.rs`, dialogs of `app.rs`) | document, path, unsaved mark, digest of the file, owned snapshot, listed snapshots | load, new, open, edit, save, save as, autosave, checkpoint, recover, discard, reload | `ProjectLifecycle` |
| External-flow runs (`app.rs`) | pending run, displayed run, preview cache, engine state, access mode | submit, record, fail, cancel, preview, review, import, restart | `ExternalFlowRun` |
| Engine client (`engine.rs`) | worker thread, request and reply channels | start, take, answer, stop, terminate | `ExternalFlowRun`, `BenchmarkLab` |
| Benchmarks and model library (`app.rs`, `library.rs`) | suite, cell and run on display, flags of what is being computed, inventory, benchmark case | run a suite, select a cell, open a stored run, sign a report, change inputs, import, delete and activate a model | `BenchmarkLab` |
| Managed runtime (`runtime.rs`, worker of `engine.rs`) | `state.json`, slots, staged candidates, the runtime of each worker | discover, launch, record health, roll back, activate, collect | `ManagedRuntime`, `RuntimePointer` |
| Case drafts (`engineering.rs`, `app.rs`) | draft on the desk, dirty mark, undo and redo stacks | edit, approve, waive, choose a model, undo, redo, commit, run, save, review, reopen | `CaseDraft`, `CaseReview` |
| Orientation worker (`app.rs`) | pending request, generation, queue, results | request, supersede, finish, install, discard | `CaseDraft` |
| Access gate (`access.rs`, `services/yc-access-worker`) | gate, login in flight, session with its expiry | submit, answer, poll, expire | `AccessGate`, `Shell` |
| Settings (`settings.rs`, handlers of `app.rs`, `signing.rs`) | settings file, copy in memory, draft, keychain item | load with quarantine, save, reset, create and revoke the key | `SettingsStore`, `Shell` |
| Window (`RootApp` of `access.rs`) | the studio or the gate | frame, start, drop | `Shell` |
| Horizon playback (`app.rs`) | step on display, cached frames, step being fetched, failed steps, animation | choose a step, play, advance, fetch, install, trim | `ExternalFlowRun` |

How they interact: the user interface is one thread. It calls the lifecycle, which edits the
ledger as a clone that replaces the manifest only when the edit succeeds, and which publishes
files through the atomic writer. It talks to the engine worker through two channels. Sessions of
the program, one process each, share only files: the project, the recovery snapshots, the settings
and the state of the managed runtime. The window starts the studio when the gate opens and drops it
when the session expires; the settings are loaded by that start. The engine worker discovers a
runtime at each start and reports to the controller how it fared. A second worker thread rebuilds
voxel masks and answers through a channel.

What is hard: crashes between system calls, two processes that save one file, replies that arrive
after the case has moved on, a checkpoint that fails after the ledger was changed, an engine that
is restarted under a run, recovery snapshots of other sessions, a mask that is finished after the
attitude has changed again, a health count that races an activation, and two stores (the settings
file and the keychain) that must agree on a key. `PROJECT.json` lists each
hazard at the line where it bites, with the properties that cover it.

## AtomicFile and OptimisticRegister

`AtomicFile` models `write_atomic_bytes_impl` with one action per system call: create, write,
sync, hash the destination, rename, sync the directory, verify. Writers interleave between the
calls; `Fail` is an error of any call, `Crash` the death of a process, `PowerLoss` that of the
machine, `Delete` somebody who removes the file. The destination is the sequence of its
generations; those after `durable` may be undone by a power loss, and a generation that was not
flushed is torn afterwards. A digest stands for the bytes. `Observe` and `Begin` are the callers
in `project_lifecycle.rs`: save and snapshots expect what they saw, Save As expects anything.
The assumption about the file system is that renames are persisted in order and that syncing the
directory persists them; `SyncsDirectory` is false where the platform or file system does not,
and `AckedSurvives` promises nothing there.

`OptimisticRegister` is what the callers may rely on: a register that holds one complete value,
written by a compare-and-swap whose comparison and store are two steps. It is the contract in the
comment of `write_atomic_bytes_impl` ("optimistic conflict detection, not a process lock"), and
`AtomicFile` implements it under the refinement mapping at its end.

Run `atomic_file`: two writers, two contents, four generations. Every race needs two writers and
every undone rename two generations; four let a third party change the file on both sides of a
comparison.

- `NeverTorn`: no reader sees part of a file.
- `AckedSurvives`: what a caller was told is written survives.
- `StaleWriterStopped`: a write replaces what its caller did not allow only when another change
  came between its comparison and its rename.
- `ImplementsRegister`: the refinement.

## RunLedger

One action per public operation of `ProjectManifest`, its guard the conjunction of the checks of
the operation, with the stale stages it sets or clears. A failed call changes nothing and is a
stuttering step. A `Vec` position is a number in the record, because the loader demands earlier
entries. Digests, names, timestamps and warnings are left out.

Run `run_ledger` explores two instances together (`Bounded`, a constraint of the run; the records of
a ledger only grow). `OfEdits`: two cases, three revisions, one run, one evidence artifact with views,
two contracts, one source. `OfEvidence`: two runs, so that reruns and determinism records occur, and
three evidence artifacts, so that a report can be signed and signed again, over two revisions of one
setup. The product of the two is too large and adds nothing: stale stages are about the inputs of
revisions, signatures about the runs of a report.

- `LoaderAccepts`: what the operations accept one at a time, `validate_loaded` accepts as a
  whole; it runs before every save and after every open.
- `OneLineOfDescent`: the revisions of a case form one line that ends in the active one.
- `FreshHasAReason`: a case claims a current run or evidence stage only if its active revision was
  run or described, or did not change its parent's inputs.
- `StaleFlowsDownstream`: staleness reaches every later stage up to the run.
- `HistoryIsImmutable`: records never change, but an open attempt may be closed once.
- `OneSignaturePerReport`: a key signs a report once, over the runs of the report.

Run `run_ledger_stale` refutes `EditOnlyAddsStaleStages`: `append_case_revision` overwrites the
stale stages by the difference to the last revision, so a second edit makes stages current that
nothing has rerun, while PRD.md:230-231 says that an edit marks dependent stages stale.

## ProjectLifecycle

Sessions of the program on one machine. A document is a project id and the edits it contains; a
file, and the digest of a file, are that document. A session has the fields of the Rust struct
that decide what it may overwrite: `onDisk`, `owned`, `listed`, `recovered`, `dirty`.
`discarding` stands between Discard in the unsaved-changes dialog and the deferred action.
`SaveUnreported` and the second branch of `WriteSnapshot` are writes that were renamed into place
before a later call failed. A write or removal compares and acts in one step; the two removals
(`load_recovery_entries`, `discard_owned_active_recovery`) have the same small window in the code
as the atomic writer has, and here that window is closed. Autosave intervals and the recent list
do not change what may be overwritten and are left out; every file was written by this version.

Run `project_lifecycle`: two sessions, two project ids, one path, two edits, snapshots in two
different seconds. Two sessions with one project show every conflict; the second project is
needed for replacement; two seconds tell two snapshots of one document apart. Project ids and
edits run out, so the run does not check deadlock.

- `CleanMeansSaved`: a session without the unsaved mark holds what its file held.
- `BaselinesAreCovered`: what a session may overwrite or remove without asking is contained in
  its own document.
- `WorkIsLostOnlyByDecision`: an edit that reached a file or snapshot leaves all of them only when
  a user discards it, saves over another file, or saves a recovered session.

Run `project_lifecycle_discard` refutes `DiscardRemovesOwnSnapshot` with one session: after a
crash the next session opens the same project, edits it and chooses Discard; the snapshot of the
crashed session goes too. The dialog (app.rs:9773) says that Discard removes this session's
recovery snapshot.

## ExternalFlowRun

The engine worker (`Start`, `Take`, `Answer`, `Stop`) and the user interface, which in every frame
drains replies (`Drain`, `RunFails`), reconciles the access mode (`Reconcile`), then handles
panels. `dirty` keeps the frame's order: panel actions need `~dirty`, whereas shortcuts, the
playback timer and results of other workers act before the reconcile. A restart joins the worker
and drops both channels in one step. `attempts` is the ledger in memory and `saved` the last
checkpoint or file; with `StorageFails` each ledger edit or checkpoint may fail, and a checkpoint
may report failure after it has been published. Which lifecycle file holds `saved` is the subject
of `ProjectLifecycle`. A request that is neither a run nor a preview behaves like a preview that
nobody waits for.

The playback of a result shares the engine with the runs: `ShowStep` is `show_horizon_step` with
the fetch it makes, called by the keys, the controls and the animation; `Trimmed` makes room in the
cache of frames (24 in the code). A preview has an id while it is in flight, a frame its step; both
carry the result they were asked for as history.

Run `external_flow`: two runs and two previews in flight, so that a reply of the first meets the
state of the second, three horizon steps of which the second is recorded, a cache of one frame, so
that a second one makes the first go, storage failing at will.

- `PendingIsRunning`: the case waits for the attempt that the ledger says is running.
- `RunningIsDurable`: a running attempt is on disk as running.
- `TerminalIsSilent`: nothing of an ended attempt is left in the engine or its channels.
- `DisplayIsRecorded`: what is on display is recorded; previews belong to it, each to a step of its
  own that is neither the recorded one nor marked as failed.
- `FrameOnDisplayStays`: trimming and late frames leave the frame on display.
- `OwnResultRecorded`: a run succeeds by its own reply only, and is on disk before it is shown.
- `RequestsEnd`: every request is answered or dropped.

Fairness is weak fairness of the worker and of draining. The worker is a thread whose calls all
have limits (socket timeouts of `engine.rs`, half a second for a process to exit), and a reply
wakes the user interface, which drains in every frame. No fairness of a user is assumed.

Run `external_flow_cancel` refutes what PRD.md says, without failing storage: saving compute
settings restarts the engine; until it is ready the project is read-only, and
Cancel cannot close the attempt ("terminalizes its immutable attempt", PRD.md:580). The model also
shows that importing geometry, reviewing a stored run or creating a variant drops the pending run
from the case while the engine computes it (`ImportGeometry`, app.rs:11460), so that no Cancel reaches it,
while PRD.md:437 says "Every in-flight run is cancellable".

## BenchmarkLab

The other half of the engine client: what the user interface asks of the engine besides external
flows, and what becomes of the replies. `requests` and `replies` are the two channels, `Serve` and
`Fail` the worker, one action per kind of message the drain, and one action per control of the lab,
the library and the 2D view. Requests of the lab carry no identity: a suite is current if it has the
model and the seeds of the controls (`IsCurrent`), a cell if it has the selected seed and horizon
(`IsSelected`); the library remembers the identity of its last request (`Current`). `ledger` is the
benchmark case with its runs, cells and reports; what may fail on the way (the revision, the copy of
the bundle, the records, the bytes of a suite) is the set of outcomes of `Prepared` and `Appended`.
`Reconcile` makes a project with evidence read-only while the engine is away, the model of its
active revision is not in the inventory, or an object is not bundled. A bundle is a file name and a
content; every bundle is of a verified publisher.

Run `benchmark_lab`: two models, two settings of the seeds, one horizon, two revisions, two runs,
one cell, one report, two messages in the channels, one upset. Two runs with different seeds are what
a late cell needs to meet the wrong run, two revisions a suite that meets the wrong inputs; the upset
is a failure or restart of the engine, a change of the 2D view, an operation of the library and its
failure, or another project. One content per name: the run does not tell a bundle from another of the same name.
Records run out, so it does not check deadlock.

- `ShownIsRecorded`: the suite and the cell on display are those recorded under the run they are
  attributed to.
- `RunsMatchRevision`: a run holds the inputs of the revision it is appended to.
- `CellsFitTheirRun`: evidence of a cell belongs to a run that has this seed and horizon.
- `RequestsCoalesced`: at most one field and one suite are with the engine, and a flag says so.

What the model shows of the code: a late cell is recorded for the run that is open by then, also if
it was computed with another model for the same seed and horizon (app.rs:1571); a report of a stored
run names the digest that the library shows for the model's name now (app.rs:14789, `ReportIdentity`),
which is another one when the bundle was deleted and a new one imported under its name; an import or a delete
that ends halfway (the process is killed, or a file cannot be removed) leaves a signature and metadata
without a bundle (`Torn`), which the library does not list, `delete_model` does not find, and every
later import under that name collides with (reyn_engine.py:1156, 1219); an engine
that is interrupted under a suite leaves the flags of the lab and the 2D view set, so that neither asks again
until the project or the compute settings change (app.rs:2220); and deleting the model of the active
revision makes the project read-only until the same content is back.

## ManagedRuntime and RuntimePointer

The studio runs its engine on a Python runtime that an installer may replace. Studios and the
installer share `state.json` and one directory of slots; no lock is taken. Every update of the file
is a load (`LoadNote`, `BeginActivation`) and a later atomic replacement (`WriteNote`, `PointState`),
computed from what was loaded. Any party may die in between, and any other may write in between, so
that its update is lost; the history variable `overtaken` says that this has happened. The
activation is its four steps in the order of `activate_validated_candidate_impl` (check, create the
slot, publish the files, move the pointer); the collector reads the file once and removes one slot
per step. `Discovered` is `discover_runtime`, which runs at every start of the engine. Manifests,
digests and the smoke protocol come down to three facts about a runtime: the slot is whole, the
closure is that of the application, the sidecar starts.

`RequestHandled` is a command that the worker has handled without an I/O error, which is a success for
the runtime whether the sidecar carried it out or not; once a success is recorded the worker reports no
other. `RequestBreaks` is any I/O error of a
request; a cancellation of the user and the ten-minute timeout are counted as crashes by the code
too. A report about a runtime that is no longer active is dropped, one that changes nothing is not
written, and an error of the read or the write is ignored (`NoteFails`).

`RuntimePointer` is what this amounts to for the pointer: an installation, a rollback and a report
each write what follows from the pointer that they have read, a rollback retires the runtime in
charge of that pointer, and nothing else moves it. Overwriting is part of it, since no lock is taken.

Run `managed_runtime`: one studio, an installer and a collector, three runtimes (two of one application
version, of which one does not start, one of the next version), three mishaps. Two good runtimes and a
bad one give a rollback to each kind of target, and the third belongs to an application update; three
mishaps are the crashes that make a rollback. Updates are lost here between the studio and the
installer: an activation that was begun before a report or a rollback and ends after it, and the reverse.

- `PointersArePublished`: until an update is lost the file never names a slot that is unpublished or
  collected.
- `LastKnownGoodStarts`: last known good was activated after its self-test and its sidecar comes up,
  whatever updates are lost.
- `NoRollbackLoop`: until an update is lost no start selects a runtime that was rolled back.
- `ImplementsPointer`: the refinement, lost updates included.
- `EngineComesUp`: an operator who keeps restarting gets an engine that serves, also after lost updates.

Run `managed_runtime_race`: two studios (nothing in the code keeps a second instance out), two runtimes.
It refutes `RolledBackStaysOut`, which is `NoRollbackLoop` without its condition: one studio has read
the file to report a start, the other fails to start twice and rolls back, and the report puts the
runtime back in charge, enabled; the next start selects it. An activation that was begun before a
rollback loses the disabled id with one studio; the runtime is then a fallback and selected when the new
one is damaged. The document says that rolled-back runtimes cannot re-enter
discovery (docs/PYTHON_RUNTIME_DISTRIBUTION.md:80-82). With two studios the four safety properties are
proved and not run. `EngineComesUp` is not claimed there: each of two studios may take back the count of
the other, and an installer that reinstalls a runtime that fails keeps them doing so.

What the model shows of the code besides: the document promotes a runtime to last known good only after
a successful production engine request (docs/PYTHON_RUNTIME_DISTRIBUTION.md:77-78), but the worker
records a success for every command that it has handled (engine.rs:1317), also for an import or a model
request that it refuses without asking the sidecar (engine.rs:1083, 495) and for a reply that says
`ok: false`. What is left is that its sidecar came up, which is `LastKnownGoodStarts`.

Assumptions. One maintenance operation runs at a time (`KeeperBusy`): the installer is not written
yet, and the lock between installers that the document announces (lines 108-111) is taken for
granted. Nothing keeps it from overlapping the studios. Another version of the application is
installed while no engine and no maintenance runs. Fairness is that of the worker thread, of an operator who
restarts an engine that is down, and of a maintenance operation that was begun. `EngineComesUp`
assumes that discovery does not settle on a fallback that cannot start: a failed start of a fallback
is not counted (engine.rs:944-966), so such a fallback is tried for ever and the factory runtime is
not reached.

## CaseReview and CaseDraft

The desk of the operator: one case, its contract, its voxel mask, the draft of an attitude, the
undo history, and the commits that turn the draft into a revision. A point stands for the operating
point, of which `Operating` gives what the readiness rules read. The ledger is the revisions in
order, the runs and the selection; what its operations do beyond that is `RunLedger`, what happens
to a run while it is computed is `ExternalFlowRun`. `Edited` covers one repaint of an editor,
`dragging` the transaction that merges the repaints of a drag into one entry. The worker drops every
queued request but the newest (`TakeNewest`); a result is installed only if it answers the request
that is pending, for the case and geometry on the desk (`Wanted`). `DiscardResult` is a stale, failed
or refused result; it opens the gate again if it answers the pending request.

`CaseReview` holds what stands between a draft and a run, as operators on a contract: the findings
of the geometry preflight with those that may be waived (`Findings`, `MayWaive`, `WaiverCovers`), the
envelope of the operating point, the contract of the model, and the models that an import or the
page may put into a case. Codes that no later step tells apart are one (`source`, `transform`). What
the preflight measures is a constant of the geometry, the attitude and the grid. `RecordWaiver` is an
edit that undo takes back; `SelectModel` changes an identity and rebases the history. The page offers
every bundle of the right shape, signed or not, and the readiness rules do not ask for a signature;
an import and the activation in the library do (app.rs:4126, 11485).

Run `case_draft`: two cases, one geometry that needs one waiver as imported and another when
pitched, two attitudes, two points of which one declares a unit, a signed model and an unsigned one
of a shorter horizon, a history of one entry, three revisions, one run, two orientation requests,
three edits and one mishap. Two requests are what a superseded result needs, three edits are what a
run needs and overflow the history, the third revision comes after a run on the second.

- `MaskMatchesContract`: a late result of another attitude, geometry or case is never installed.
- `RunsAreApproved`: a run computes on what its revision records, and the operator approved this
  attitude of this geometry. The approval of a unit is not part of it: after a change of the length
  unit the tick stays (`EditPoint`).
- `IssuesAreWaived`: every finding that stood against a run may be waived and was, by a waiver of its
  own for that geometry, also when a later attitude brought it.
- `UndoLosesNothing`: undo and redo walk one line of drafts without losing one.
- `CleanDraftIsRecorded`: a draft that Save skips is on record.
- `OrientationSettles`: every request ends, so that runs and saves are not gated for ever.

Fairness is that of the worker thread and of the frames, which handle one result each
(a result wakes the user interface). The run ends when revisions, edits and requests are used up, so
it does not check deadlock.

What the model shows of the code, without a document that promises otherwise: reopening a project
whose selected run is older than the active revision puts that older revision on the desk, and every
later commit of it is refused (app.rs:2954, project.rs:1325), so that runs, Save and import fail
until another run is chosen; reviewing a stored run replaces an uncommitted draft while the dirty
mark stays; a new attitude whose commit is refused leaves the history as it was, and undo may tick
an approval for the new attitude, which no run can use since its commit is refused again. A waiver
names a finding and not the value measured: it stays through a change of attitude, and answers the
same finding when it comes back worse (app.rs:2859).

## AccessGate, SettingsStore and Shell

`AccessGate` and `SettingsStore` are parts without a specification of their own; `Shell` is the
window that composes them. A frame is three steps of the user-interface thread: `BeginFrame` polls
the gate and lets a session expire with one reading of the clock, `Lifecycle` starts or drops the
studio, then the studio or the gate is drawn. In between, the thread of a login may answer, the
clock may be set to any value (`SetClock`), the system may write the directory back (`Settle`), and
the process or the machine may die. The access service is whatever session the client's checks let
through. Starting the studio is `Load`; the file is moved to quarantine when it is malformed, and
when it can be neither read nor moved the session is protected (`protected`).

A save is a temporary file and a rename without a sync (settings.rs:2778), so a power loss may take
it back or leave a torn file; `undone` collects the records lost that way, and those an outside
change of the file removed. A preference is one value for everything that is not identity. Creating
a key is the keychain item and then the settings, revoking it the settings and then the item:
`task` is what is left to do between the two.

Run `shell`: two instants and a clock that cannot be read, sessions of up to two units, two preferences, two
keys, three mishaps. Two instants tell valid from expired; two keys tell a revoked one from its
successor; three mishaps are a failed save, a crash and a power loss, in every order. The keys are
symmetric; deadlock is checked.

- `StudioNeedsSession`: a gated build draws the studio only under a session valid at the reading of
  the frame. A clock set back prolongs a session; the code reads the wall clock and nothing else.
- `IdentityIsSound`: a revocation the operator was told of stands in the file, in memory and in the
  draft; a key that looks ready can sign.
- `FoundIsKept`: a settings file that a load could not use is never destroyed.

One process is assumed: two would write the same `settings.json.tmp` and replace each other's whole
document. After a revocation the settings keep the reference of the revoked key, and no control of
the screen creates another (settings.rs:2145).

## Proofs

The theorems hold for every value of the constants, under the assumptions named beside them:
sentinels such as `None` are no data, bounds are naturals, flags are Booleans.

- `AtomicFile_proofs`: type, `NeverTorn`, `AckedSurvives`, `StaleWriterStopped` and the refinement
  `ImplementsRegister`. The invariant relates
  each writer's program counter to its temporary file (synced from the hash on) and to the
  generation it published, says that every generation is complete and that what follows `durable`
  is flushed, and that a writer about to rename which was not raced has an allowed content before
  it. `NeverTorn` alone is not inductive: a rename needs to know that its file is synced, a power
  loss that older generations were complete. The refinement goes step by step: what the register
  holds is every generation on record, a call is invoked until its comparison has passed, and the
  rename is where it is stored, so each system call is one action of `OptimisticRegister` or a
  stutter. It needs one fact more (`IdleUnraced`): a writer without a call is not marked as raced.
- `RunLedger_proofs`: type, all five invariants and `HistoryIsImmutable`. The invariant (`Ledger`) is
  `LoaderAccepts`, `OneLineOfDescent`, `FreshHasAReason`, `StaleFlowsDownstream` and that no two
  pieces of evidence have one position (`PositionsDiffer`). `LoaderAccepts` needs only the type; every
  other part needs it: a new revision is the only child of the active one because parents resolve
  within their case, a reason for a fresh stage is found again because runs name a revision that is
  on record, and a position is new because it is the count of the `Vec`. `OneSignaturePerReport`
  follows from positions: of two signatures of one payload with one key the later one would have
  been refused. One lemma per operation states what it leaves of every record, and each property
  cites those instead of the operation.
- `ProjectLifecycle_proofs`: type, `CleanMeansSaved`, `BaselinesAreCovered` and
  `WorkIsLostOnlyByDecision`. The invariant is one predicate per session record plus the type of
  the shared files; each action is shown to update one session by a good record. That no work is
  lost follows action by action: each write covers what it replaces, because what it replaces is
  the baseline of the session.
- `ExternalFlowRun_proofs`: type, the four invariants, `OwnResultRecorded` and `FrameOnDisplayStays`,
  the last two from the invariant too. The invariant adds
  that each request is in one place only (queue, worker or replies) and that whatever is in flight
  is of a running attempt; without it the end of an attempt could leave a second copy behind.
- `ManagedRuntime_proofs`: type, `PointersArePublished`, `LastKnownGoodStarts`, `NoRollbackLoop` and the
  refinement `ImplementsPointer`, for any number of studios. The
  properties are not inductive on the file alone, because a write may bring back any state that was
  loaded before: the invariant (`IInv`) says the same of the file, of the record in every worker and
  of the record of the keeper (`Good`: its pointers name activated runtimes, its last known good one
  that starts). `Undisturbed` is what holds until an update is lost: the file names published slots
  only, the collector has read every pointer that the file has, and every runtime that was rolled back
  is in the disabled set. A write either replaces the state it was computed from, and keeps
  `Undisturbed`, or sets `overtaken`. The refinement needs neither: whatever a worker or the keeper has
  read was the pointer, and what it writes is one action of `RuntimePointer` on that.
- `CaseDraft_proofs`: type, the four invariants and `UndoLosesNothing`. The revisions alone do not carry them: the
  invariant adds that every contract on record was approved for its own mask and waived for its own
  geometry (`Backed`, `Covered`), and says the same of the draft and of each snapshot of the history
  that undo could still restore. Of approvals it can say so only while the revision on the desk is
  the active one of its case (`Current`): a refused change of attitude leaves snapshots with an
  approval for the old attitude, and no commit takes them since `Recordable` asks for `Current` too.
  `PendingInv` ties a request for the mask of a stored case to the revision it will show. That a run
  has its waivers is `ReadyFits` at its start, since a commit changes no finding.
  `UndoLosesNothing` needs that the two stacks together are no longer than the limit (`StacksFit`):
  a new edit clears redo, so what undo takes off one stack always fits on the other.
- `Shell_proofs`: type, `StudioNeedsSession`, `FoundIsKept` and `IdentityIsSound`. The draft always
  carries the identity of the memory (`SameIdentity`), and a handler that is not finished belongs to
  a frame that is being drawn. `IdentityIsSound` also needs that every key that may sign, in what a
  power loss would bring back too, was once made, so that a new key is not one of them, and that the
  key an unfinished handler will remove is not one that may sign.

- `BenchmarkLab_proofs`: type and the four invariants. None of them is inductive alone, and the
  invariant (`IInv`) has three parts. `Shape` is the type of the controls, flags and files. `Records`
  says that the benchmark case is sound (a run repeats the inputs of its revision, evidence is of a
  cell of its run, the selection resolves) and that the display agrees with it: the suite shown is
  that of the run it is attributed to, a cell in the inspector has evidence under that run and is at
  the selected place, and nothing is in the inspector while a cell is awaited. `Queues` says what
  requests and replies may carry, and that at most one field and one suite are with the engine, none
  of them unless its flag is set. A reply can be recorded because of `Queues`, and is attributed
  to the right run because of `Records`. But for a new project the case only
  grows, so each way it grows has one lemma that what was sound stays so. A free request identifier
  exists always, because fewer requests are in flight than there are identifiers.

The type invariants of `AtomicFile`, `RunLedger`, `ProjectLifecycle`, `ExternalFlowRun`, `ManagedRuntime`,
`CaseDraft` and `Shell` are proved and not checked again by the runs.

With these every property of a passing run is a theorem, but for three. `RequestsEnd`,
`EngineComesUp` and `OrientationSettles` are liveness under fairness, out of the prover's reach, and
only model-checked. The properties of the violation runs are refuted by TLC, so there is nothing to
prove of them.

## Not modelled

- Rendering (`gpu.rs`, `viewport.rs`, `painter.rs` and others) and geometry and field numerics
  (`cad.rs`, `flow.rs`, `field2d.rs`): drawing and floating point, without protocol state. With the
  screens in `app.rs` and `settings.rs` and the tests inside each file they are most of the code,
  which is why the map covers a small share of its lines.
- Report and field export, canonical payloads (`report.rs`, `vtk_export.rs`, `benchmark_export.rs`):
  formatting, pure functions of a record.
- Of the lab and the library: selected views and scales, scalars and their comparison, 3D models, the
  persisted default model, and the text of reports.
- The Python sidecar and the access service: their answers are nondeterministic choices here.
- Packaging and release scripts: sequential build steps.

## Plan

1. Finer removal steps in the lifecycle, composed with the atomic writer.
2. Two processes that share the settings, once the program takes a position on it.
3. Two contents under one bundle name in `BenchmarkLab`, once reports take the digest of their run.
4. Proofs: what a change of the models above adds to the invariants, and a refinement of the
   lifecycle's saves once they are composed with the atomic writer.

Run a model with `tlc -workers 2 -config X.cfg M` and a proof with `tlapm M_proofs.tla`.
