--------------------------- MODULE ExternalFlowRun ---------------------------
(***************************************************************************)
(* An external-flow run from submission to its terminal record: the user   *)
(* interface thread (src/app.rs), the engine worker thread it talks to     *)
(* through two channels (src/engine.rs), and the run attempts of the       *)
(* project, in memory and in the last checkpoint.                          *)
(*                                                                         *)
(* The user interface draws frames: it drains replies, then reconciles the *)
(* project's access mode, then draws panels whose buttons act.  A restart  *)
(* of the engine terminates and joins the worker and drops its replies.    *)
(* Requests are runs and horizon previews (both predict_cad); every id is  *)
(* a new UUID.  Other requests (2D fields, benchmarks, the model library)  *)
(* do to this state what a preview that nobody waits for does.             *)
(***************************************************************************)
EXTENDS Naturals, Sequences, FiniteSets

CONSTANTS Run, Preview,     \* request ids
          None,
          StorageFails,     \* may a ledger or checkpoint write fail?
          Recorded,         \* the horizon step of every run (case.steps)
          MaxStep,          \* the last step that can be shown
          CacheLimit        \* HORIZON_CACHE_LIMIT

ASSUME StorageFailsIsBoolean == StorageFails \in BOOLEAN
ASSUME HorizonAssumption ==
    /\ MaxStep \in Nat /\ Recorded \in 1 .. MaxStep
    /\ CacheLimit \in Nat \ {0}
ASSUME RequestsAreDistinct == Run \cap Preview = {} /\ None \notin Run \cup Preview

VARIABLES
    worker,     \* the current engine thread
    queue,      \* requests it has not taken (EngineHandle.tx)
    busy,       \* the request it is computing
    replies,    \* messages the user interface has not drained (EngineHandle.rx)
    engineOk,   \* engine_ok
    dirty,      \* dependencies_dirty
    readOnly,   \* ProjectAccessMode::ReadOnlyEvidence
    pending,    \* pending_run of the active case
    shown,      \* the run whose result the active case shows
    step,       \* playback.step: the step on display, 0 before one is chosen
    playing,    \* playback.playing
    failed,     \* playback.failed: steps that could not be fetched
    fetching,   \* playback.fetching: the id of the preview that is waited for
    asked,      \* and its step, with (history) the result it was asked for
    frames,     \* playback.frames, each with (history) the result it was asked for
    attempts,   \* per run: the state of its record in memory
    saved       \* per run: the state of its record in the last checkpoint or file

engine == <<worker, queue, busy, replies>>
access == <<engineOk, dirty, readOnly>>
playback == <<step, playing, failed, fetching, asked, frames>>
view == <<pending, shown, playback>>
ledger == <<attempts, saved>>
vars == <<engine, access, view, ledger>>

Request == Run \cup Preview
Step == 1 .. MaxStep
Frame == [at : Step, of : Run]
AttemptState == {"none", "running", "succeeded", "failed", "cancelled"}
Announcement == [kind : {"ready", "unavailable"}, request : {None}]
Response == [kind : {"field", "refused", "broken"}, request : Request]

TypeOK ==
    /\ worker \in {"starting", "ready", "stopping", "gone"}
    /\ queue \in Seq(Request)
    /\ busy \in Request \cup {None}
    /\ replies \in Seq(Announcement \cup Response)
    /\ engineOk \in BOOLEAN /\ dirty \in BOOLEAN /\ readOnly \in BOOLEAN
    /\ pending \in Run \cup {None}
    /\ shown \in Run \cup {None}
    /\ step \in Step \cup {0} /\ playing \in BOOLEAN /\ failed \subseteq Step
    /\ fetching \in Preview \cup {None}
    /\ asked \in Frame \cup {None}
    /\ frames \subseteq Frame
    /\ attempts \in [Run -> AttemptState]
    /\ saved \in [Run -> AttemptState]

Init ==
    /\ worker = "starting"
    /\ queue = <<>>
    /\ busy = None
    /\ replies = <<>>
    /\ engineOk = FALSE /\ dirty = TRUE /\ readOnly = FALSE
    /\ pending = None /\ shown = None
    /\ step = 0 /\ playing = FALSE /\ failed = {}
    /\ fetching = None /\ asked = None /\ frames = {}
    /\ attempts = [r \in Run |-> "none"]
    /\ saved = [r \in Run |-> "none"]

-----------------------------------------------------------------------------
(* The engine worker.                                                      *)

Send(kind, request) == replies' = Append(replies, [kind |-> kind, request |-> request])

\* A worker that cannot start ends, and the requests already queued with it.
Start ==
    /\ worker = "starting"
    /\ \/ worker' = "ready" /\ Send("ready", None) /\ UNCHANGED queue
       \/ worker' = "gone" /\ Send("unavailable", None) /\ queue' = <<>>
    /\ UNCHANGED <<busy, access, view, ledger>>

Take ==
    /\ worker = "ready" /\ busy = None /\ queue # <<>>
    /\ busy' = Head(queue)
    /\ queue' = Tail(queue)
    /\ UNCHANGED <<worker, replies, access, view, ledger>>

\* The sidecar answers, refuses, or the connection breaks or times out; in the
\* last case the worker leaves its loop.
Answer ==
    /\ busy # None
    /\ \E kind \in {"field", "refused", "broken"} :
          /\ Send(kind, busy)
          /\ worker' = IF kind = "broken" THEN "stopping" ELSE worker
    /\ busy' = None
    /\ UNCHANGED <<queue, access, view, ledger>>

\* Mutant: the worker waits for a sidecar that never exits.
StopHangs == worker = "stopping" /\ UNCHANGED vars

\* It waits for the sidecar process (up to half a second) before its end of the
\* channel is dropped, with whatever was queued meanwhile.
Stop ==
    /\ worker = "stopping"
    /\ worker' = "gone"
    /\ queue' = <<>>
    /\ UNCHANGED <<busy, replies, access, view, ledger>>

Worker == Start \/ Take \/ Answer \/ Stop

-----------------------------------------------------------------------------
(* Helpers of the user interface.                                          *)

InFlight(q) ==
    \/ \E i \in 1 .. Len(queue) : queue[i] = q
    \/ busy = q
    \/ \E i \in 1 .. Len(replies) : replies[i].request = q

\* Mutant: the new handle keeps the old receiver.
RestartKeepingReplies ==
    /\ worker' = "starting"
    /\ queue' = <<>> /\ busy' = None /\ UNCHANGED replies
    /\ engineOk' = FALSE /\ dirty' = TRUE
    /\ UNCHANGED readOnly

RestartEngine ==
    /\ worker' = "starting"
    /\ queue' = <<>> /\ busy' = None /\ replies' = <<>>
    /\ engineOk' = FALSE /\ dirty' = TRUE
    /\ UNCHANGED readOnly

\* finish_run_attempt and the checkpoint after it.  Read-only access refuses
\* both; the ledger or the checkpoint may fail.  The checkpoint writes the
\* whole project, and may report a failure after it has published the file.
FinishAttempt(r, state) ==
    \/ /\ readOnly \/ StorageFails
       /\ UNCHANGED ledger
    \/ /\ ~readOnly
       /\ attempts' = [attempts EXCEPT ![r] = state]
       /\ saved' \in {attempts'} \cup (IF StorageFails THEN {saved} ELSE {})

\* HorizonPlayback::reset
ResetPlayback ==
    /\ step' = 0 /\ playing' = FALSE /\ failed' = {}
    /\ fetching' = None /\ asked' = None /\ frames' = {}

\* Mutants: the pending run, or the playback, outlives the case.
ShowCaseKeepingPending(result) == shown' = result /\ ResetPlayback /\ UNCHANGED pending
ShowCaseKeepingPlayback(result) == pending' = None /\ shown' = result /\ UNCHANGED playback

\* Replacing the case, or invalidating its result, drops its pending run and
\* its playback.
ShowCase(result) == pending' = None /\ shown' = result /\ ResetPlayback

Distance(a, b) == IF a < b THEN b - a ELSE a - b

\* Mutant: the lowest step goes first (BTreeMap::pop_first).
TrimmedLowest(fs, here) ==
    IF Cardinality(fs) <= CacheLimit THEN fs
    ELSE fs \ {f \in fs : \A g \in fs : f.at <= g.at}

\* HorizonPlayback::trim with the step here on display: the step farthest from it, the
\* later one of two, makes room.  One frame is cached at a time, so one has to go.
Trimmed(fs, here) ==
    LET others == {f \in fs : f.at # here /\ f.at # Recorded}
        farther(f, g) ==
            \/ Distance(g.at, here) < Distance(f.at, here)
            \/ Distance(g.at, here) = Distance(f.at, here) /\ g.at <= f.at
    IN  IF Cardinality(fs) <= CacheLimit THEN fs
        ELSE fs \ {f \in others : \A g \in others : farther(f, g)}

-----------------------------------------------------------------------------
(* Draining replies.                                                       *)

\* Mutant: a result is taken for the pending run without comparing ids.
DispositionByPending(request) ==
    IF request = fetching THEN "preview"
    ELSE IF pending # None THEN "record"
    ELSE "stale"

\* classify_cad_result
Disposition(request) ==
    IF request = fetching THEN "preview"
    ELSE IF request = pending THEN "record"
    ELSE "stale"

Announce(m) ==
    /\ m.kind \in {"ready", "unavailable"}
    /\ engineOk' = (m.kind = "ready")
    /\ UNCHANGED <<view, ledger>>

InstallPreview(m) ==
    /\ m.kind = "field" /\ Disposition(m.request) = "preview"
    /\ frames' = Trimmed(frames \cup {asked}, step)
    /\ failed' = failed \ {asked.at}
    /\ fetching' = None /\ asked' = None
    /\ engineOk' = TRUE
    /\ UNCHANGED <<pending, shown, step, playing, ledger>>

\* persist_external_flow_run: the result is shown if it is recorded and
\* checkpointed; otherwise the case only forgets the pending run, although the
\* success may be recorded, or even published.
RecordRun(m) ==
    /\ m.kind = "field" /\ Disposition(m.request) = "record"
    /\ \/ /\ ~readOnly
          /\ attempts' = [attempts EXCEPT ![pending] = "succeeded"]
          /\ saved' = attempts'
          /\ ShowCase(pending)
          /\ engineOk' = TRUE
       \/ /\ readOnly \/ StorageFails
          /\ \/ UNCHANGED ledger
             \/ /\ ~readOnly
                /\ attempts' = [attempts EXCEPT ![pending] = "succeeded"]
                /\ saved' \in {saved, attempts'}
          /\ pending' = None
          /\ UNCHANGED <<shown, playback, engineOk>>

PreviewFails(m) ==
    /\ m.kind \in {"refused", "broken"} /\ Disposition(m.request) = "preview"
    /\ fetching' = None /\ asked' = None
    /\ failed' = failed \cup {asked.at} /\ playing' = FALSE
    /\ engineOk' = (engineOk /\ m.kind # "broken")
    /\ UNCHANGED <<pending, shown, step, frames, ledger>>

DiscardStale(m) ==
    /\ m.kind \in {"field", "refused", "broken"} /\ Disposition(m.request) = "stale"
    /\ UNCHANGED <<engineOk, view, ledger>>

Drain ==
    /\ replies # <<>>
    /\ LET m == Head(replies) IN
          Announce(m) \/ InstallPreview(m) \/ RecordRun(m) \/ PreviewFails(m) \/ DiscardStale(m)
    /\ replies' = Tail(replies)
    /\ dirty' = TRUE
    /\ UNCHANGED <<worker, queue, busy, readOnly>>

\* An error of the pending run: the attempt has failed, the engine restarts.
RunFails ==
    /\ replies # <<>>
    /\ Head(replies).kind \in {"refused", "broken"}
    /\ Disposition(Head(replies).request) = "record"
    /\ FinishAttempt(pending, "failed")
    /\ pending' = None
    /\ UNCHANGED <<shown, playback>>
    /\ RestartEngine

\* Stored evidence stays readable without an engine, and only readable.
Reconcile ==
    /\ dirty
    /\ readOnly' = (~engineOk /\ \E r \in Run : attempts[r] # "none")
    /\ dirty' = FALSE
    /\ UNCHANGED <<engine, engineOk, view, ledger>>

-----------------------------------------------------------------------------
(* Buttons, shortcuts and timers.                                          *)

\* Panels are drawn after Reconcile (~dirty); shortcuts, the playback timer and
\* results of other workers act before it, under the access mode of the last frame.
MayWrite == ~readOnly
MayRun == ~dirty /\ MayWrite /\ pending = None /\ engineOk

\* start_run_attempt_checkpointed fails: the attempt is closed in memory, and
\* either state of it may have reached the disk.
SubmitFails(r) ==
    /\ MayRun /\ attempts[r] = "none"
    /\ StorageFails
    /\ attempts' = [attempts EXCEPT ![r] = "failed"]
    /\ saved' \in {saved, [attempts EXCEPT ![r] = "running"], attempts'}
    /\ UNCHANGED <<engine, access, view>>

\* Mutant: the request is sent before the attempt is checkpointed.
SubmitUncheckpointed(r) ==
    /\ MayRun /\ attempts[r] = "none"
    /\ worker # "gone"
    /\ attempts' = [attempts EXCEPT ![r] = "running"]
    /\ pending' = r
    /\ queue' = Append(queue, r)
    /\ UNCHANGED <<worker, busy, replies, access, shown, playback, saved>>

\* The running attempt is checkpointed before the request is sent.
Submit(r) ==
    /\ MayRun /\ attempts[r] = "none"
    /\ worker # "gone"
    /\ attempts' = [attempts EXCEPT ![r] = "running"]
    /\ saved' = attempts'
    /\ pending' = r
    /\ queue' = Append(queue, r)
    /\ UNCHANGED <<worker, busy, replies, access, shown, playback>>

\* The request cannot be sent: the running attempt, which is on disk, is closed
\* as failed, and the engine restarts.
SubmitToGoneWorker(r) ==
    /\ MayRun /\ attempts[r] = "none"
    /\ worker = "gone"
    /\ \E end \in {"failed"} \cup (IF StorageFails THEN {"running"} ELSE {}) :
          attempts' = [attempts EXCEPT ![r] = end]
    /\ saved' \in {attempts'}
          \cup (IF StorageFails THEN {[attempts EXCEPT ![r] = "running"]} ELSE {})
    /\ UNCHANGED view
    /\ RestartEngine

Cancel ==
    /\ pending # None /\ ~dirty
    /\ FinishAttempt(pending, "cancelled")
    /\ pending' = None
    /\ UNCHANGED <<shown, playback>>
    /\ RestartEngine

DisplayStep == IF step = 0 THEN Recorded ELSE step
Cached(s) == \E f \in frames : f.at = s
Awaited == IF fetching = None THEN {} ELSE {asked}

\* request_horizon_step: one preview at a time, and none of a step that is there.  A step
\* that is shown while another is fetched is not asked for afterwards.
MayFetch(s) ==
    /\ MayWrite /\ engineOk
    /\ pending = None /\ shown # None /\ fetching = None
    /\ s # Recorded /\ ~Cached(s)

Fetch(s) ==
    \/ /\ worker # "gone"
       /\ \E v \in Preview :
             /\ ~InFlight(v)
             /\ fetching' = v /\ asked' = [at |-> s, of |-> shown]
             /\ queue' = Append(queue, v)
       /\ failed' = failed \ {s}
    \/ /\ worker = "gone"
       /\ failed' = failed \cup {s}
       /\ UNCHANGED <<fetching, asked, queue>>

\* show_horizon_step
ShowStep(s) ==
    /\ s \in Step /\ s # DisplayStep
    /\ step' = s
    /\ frames' = Trimmed(frames, s)
    /\ \/ MayFetch(s) /\ Fetch(s)
       \/ ~MayFetch(s) /\ UNCHANGED <<failed, fetching, asked, queue>>
    /\ UNCHANGED <<worker, busy, replies, access, pending, shown, ledger>>

\* The keys of the 3D screens step whether a result is shown or not, and leave the
\* animation running; the controls stop it.
PressStepKey ==
    /\ \E s \in {DisplayStep - 1, DisplayStep + 1} : ShowStep(s)
    /\ UNCHANGED playing

ChooseStep ==
    /\ ~dirty /\ shown # None
    /\ \E s \in Step : ShowStep(s)
    /\ playing' = FALSE

TogglePlaying ==
    /\ shown # None /\ pending = None
    /\ playing' = ~playing
    /\ UNCHANGED <<engine, access, ledger, pending, shown, step, failed, fetching, asked,
                   frames>>

\* advance_horizon_playback, half a second after the last step.
Advance ==
    /\ playing /\ shown # None /\ fetching = None
    /\ ShowStep(IF DisplayStep >= MaxStep THEN 1 ELSE DisplayStep + 1)
    /\ UNCHANGED playing

\* An edit of the case, which a pending run disables, or "Create Operating-Point
\* Variant" of a shown result, which it does not.
InvalidateResult ==
    /\ MayWrite
    /\ pending = None \/ (~dirty /\ shown # None)
    /\ ShowCase(None)
    /\ UNCHANGED <<engine, access, ledger>>

ImportGeometry ==
    /\ MayWrite
    /\ ShowCase(None)
    /\ UNCHANGED <<engine, access, ledger>>

\* A stored run is reviewed, whatever the access mode.
SelectStoredRun(r) ==
    /\ ~dirty
    /\ attempts[r] = "succeeded"
    /\ ShowCase(r)
    /\ UNCHANGED <<engine, access, ledger>>

\* Save, Save As and autosave: flush_project_drafts_for_persistence needs
\* write access.
Save ==
    /\ ~readOnly
    /\ saved' = attempts
    /\ UNCHANGED <<engine, access, view, attempts>>

\* Settings with another runtime are saved.
RestartFromSettings ==
    /\ ~dirty
    /\ RestartEngine
    /\ UNCHANGED <<view, ledger>>

\* The project is opened again: by the user, or after a crash.
Reopen ==
    /\ attempts' = saved
    /\ \E r \in {None} \cup {s \in Run : saved[s] = "succeeded"} : ShowCase(r)
    /\ UNCHANGED saved
    /\ RestartEngine

UserInterface ==
    \/ Drain \/ RunFails \/ Reconcile
    \/ \E r \in Run : \/ Submit(r) \/ SubmitFails(r) \/ SubmitToGoneWorker(r)
                      \/ SelectStoredRun(r)
    \/ PressStepKey \/ ChooseStep \/ TogglePlaying \/ Advance
    \/ Cancel \/ InvalidateResult \/ ImportGeometry \/ Save
    \/ RestartFromSettings \/ Reopen

Next == Worker \/ UserInterface

\* The worker thread runs, its socket has read and write timeouts, and each
\* frame drains replies.
Fairness == WF_vars(Worker) /\ WF_vars(Drain \/ RunFails)

Spec == Init /\ [][Next]_vars /\ Fairness

-----------------------------------------------------------------------------
(* Properties.                                                             *)

Terminal == {"succeeded", "failed", "cancelled"}

\* The attempt the case waits for is the one the ledger says is running.
PendingIsRunning == pending # None => attempts[pending] = "running"

\* A running attempt is on disk as running, whatever failed since, and a later
\* Save preserves no false running state (start_run_attempt_checkpointed).
RunningIsDurable == \A r \in Run : attempts[r] = "running" => saved[r] = "running"

\* When an attempt has ended, nothing of it is left in the engine or its
\* channels: "stale responses from the terminated generation cannot affect the
\* retry" (PRD.md, N6-RUN-01).
TerminalIsSilent == \A r \in Run : attempts[r] \in Terminal => ~InFlight(r)

\* The result on display is a recorded success, and the preview frames beside
\* it were asked for that result ("preview frames belong to the contract that
\* produced them"), one for a step, none for the recorded step, and none for a
\* step that is marked as failed.
DisplayIsRecorded ==
    /\ shown # None => attempts[shown] = "succeeded"
    /\ \A f \in frames \cup Awaited :
          /\ shown # None /\ f.of = shown
          /\ f.at # Recorded /\ f.at \notin failed
    /\ \A f, g \in frames : f.at = g.at => f = g
    /\ fetching # None => ~Cached(asked.at)

\* The frame on display stays while its step is on display: neither trimming nor a
\* frame that arrives for another step takes it away ("Keep the recorded step and
\* the neighbourhood of the displayed step").
FrameOnDisplayStays ==
    [][\A f \in frames : f.at = step /\ step' = step => f \in frames']_vars

\* A run is recorded as succeeded only when its own field is drained, and it is
\* then on disk before it is on display.
OwnResultRecorded ==
    [][\A r \in Run :
          /\ attempts[r] # "succeeded" /\ attempts'[r] = "succeeded" =>
                 replies # <<>> /\ Head(replies) = [kind |-> "field", request |-> r]
          /\ pending = r /\ shown' = r /\ shown # r => saved'[r] = "succeeded"]_vars

\* Every request is answered or dropped with its worker: neither thread waits
\* for the other forever.
RequestsEnd == \A q \in Request : InFlight(q) ~> ~InFlight(q)

\* "Cancelling an in-flight run terminalizes its immutable attempt as
\* `Cancelled`" (PRD.md, N6-RUN-01).
CancelTerminalizes == [][Cancel => attempts'[pending] = "cancelled"]_vars
=============================================================================
