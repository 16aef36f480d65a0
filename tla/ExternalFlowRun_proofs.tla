------------------------ MODULE ExternalFlowRun_proofs ------------------------
(* Safety of ExternalFlowRun, for every set of runs and previews, every    *)
(* horizon and every size of the cache of frames.                          *)
EXTENDS ExternalFlowRun, TLAPS

USE RequestsAreDistinct

\* Nothing of a run is in the engine or its channels unless it is running.
InFlightIsRunning == \A r \in Run : InFlight(r) => attempts[r] = "running"

\* A run is in one place of the pipeline from queue to replies, so that draining
\* its reply leaves nothing of it behind.
Once ==
    /\ \A i, j \in 1 .. Len(queue) : queue[i] \in Run /\ queue[i] = queue[j] => i = j
    /\ \A i \in 1 .. Len(queue) : queue[i] \in Run => queue[i] # busy
    /\ \A i \in 1 .. Len(queue), j \in 1 .. Len(replies) :
          queue[i] \in Run => queue[i] # replies[j].request
    /\ \A j \in 1 .. Len(replies) : replies[j].request \in Run => replies[j].request # busy
    /\ \A i, j \in 1 .. Len(replies) :
          replies[i].request \in Run /\ replies[i].request = replies[j].request => i = j

EngineType ==
    /\ worker \in {"starting", "ready", "stopping", "gone"}
    /\ queue \in Seq(Request)
    /\ busy \in Request \cup {None}
    /\ replies \in Seq(Announcement \cup Response)

ViewType ==
    /\ engineOk \in BOOLEAN /\ dirty \in BOOLEAN /\ readOnly \in BOOLEAN
    /\ pending \in Run \cup {None}
    /\ shown \in Run \cup {None}
    /\ attempts \in [Run -> AttemptState]
    /\ saved \in [Run -> AttemptState]

\* What the user interface keeps to itself.
ShownSucceeded == shown # None => attempts[shown] = "succeeded"

Desk == ViewType /\ PendingIsRunning /\ RunningIsDurable /\ ShownSucceeded

PlaybackType ==
    /\ step \in Step \cup {0} /\ playing \in BOOLEAN /\ failed \subseteq Step
    /\ fetching \in Preview \cup {None}
    /\ asked \in IF fetching = None THEN {None} ELSE Frame
    /\ frames \subseteq Frame

\* The frames and the one that is waited for belong to the result on display, each to
\* a step of its own.
Fits ==
    /\ \A f \in frames \cup Awaited :
          shown # None /\ f.of = shown /\ f.at # Recorded /\ f.at \notin failed
    /\ \A f, g \in frames : f.at = g.at => f = g
    /\ fetching # None => ~Cached(asked.at)

Screen == PlaybackType /\ Fits

Pipeline == EngineType /\ Once /\ InFlightIsRunning

Inv == Desk /\ Screen /\ Pipeline

LEMMA InitInv == Init => Inv
<1> SUFFICES ASSUME Init PROVE Inv
  OBVIOUS
<1>1. Desk
  BY DEF Init, Desk, ViewType, PendingIsRunning, RunningIsDurable, ShownSucceeded,
         AttemptState
<1>2. Screen
  BY DEF Init, Screen, PlaybackType, Fits, Awaited
<1>3. EngineType
  BY DEF Init, EngineType
<1>4. Once /\ InFlightIsRunning
  BY DEF Init, Once, InFlightIsRunning, InFlight
<1> QED BY <1>1, <1>2, <1>3, <1>4 DEF Inv, Pipeline

\* A new engine has nothing in flight.
LEMMA RestartClears ==
    ASSUME RestartEngine
    PROVE  Pipeline'
  BY DEF RestartEngine, Pipeline, EngineType, Once, InFlightIsRunning, InFlight

\* The worker moves requests along the pipeline.
LEMMA WorkerKeepsPipeline ==
    ASSUME Pipeline, Worker
    PROVE  Pipeline'
<1> USE DEF Pipeline, EngineType, access, view, ledger
<1>1. CASE Start
  <2>1. PICK kind \in {"ready", "unavailable"} :
           replies' = Append(replies, [kind |-> kind, request |-> None])
    BY <1>1 DEF Start, Send
  <2> DEFINE reply == [kind |-> kind, request |-> None]
  <2>2. reply \in Announcement /\ reply.request \notin Run
    BY DEF Announcement
  <2>3. replies' = Append(replies, reply)
    BY <2>1
  <2>4. /\ worker' \in {"ready", "gone"} /\ queue' \in {queue, <<>>}
        /\ UNCHANGED <<busy, attempts>>
    BY <1>1 DEF Start
  <2> HIDE DEF reply
  <2>5. EngineType'
    <3>1. replies' \in Seq(Announcement \cup Response)
      BY <2>2, <2>3
    <3>2. queue' = queue \/ queue' = <<>>
      BY <2>4
    <3>3. CASE queue' = queue
      BY <2>4, <3>1, <3>3
    <3>4. CASE queue' = <<>>
      BY <2>4, <3>1, <3>4
    <3> QED BY <3>2, <3>3, <3>4
  <2>6. /\ \A j \in 1 .. Len(replies) : replies'[j] = replies[j]
        /\ replies'[Len(replies')] = reply
        /\ Len(replies') = Len(replies) + 1
    BY <2>3
  <2>7. Once' /\ InFlightIsRunning'
    BY <2>2, <2>4, <2>6 DEF Once, InFlightIsRunning, InFlight
  <2> QED BY <2>5, <2>7
<1>2. CASE Take
  <2>1. queue # <<>> /\ busy = None /\ busy' = Head(queue) /\ queue' = Tail(queue)
        /\ UNCHANGED <<worker, replies, attempts>>
    BY <1>2 DEF Take
  <2>2. /\ Len(queue') = Len(queue) - 1
        /\ \A i \in 1 .. Len(queue') : queue'[i] = queue[i + 1] /\ i + 1 \in 1 .. Len(queue)
        /\ busy' = queue[1] /\ 1 \in 1 .. Len(queue)
    BY <2>1
  <2>3. EngineType'
    BY <2>1, <2>2
  <2>4. Once'
    BY <2>1, <2>2 DEF Once
  <2>5. InFlightIsRunning'
    BY <2>1, <2>2 DEF InFlightIsRunning, InFlight
  <2> QED BY <2>3, <2>4, <2>5
<1>3. CASE Answer
  <2> PICK kind \in {"field", "refused", "broken"} :
          /\ Send(kind, busy)
          /\ worker' = IF kind = "broken" THEN "stopping" ELSE worker
    BY <1>3 DEF Answer
  <2> DEFINE reply == [kind |-> kind, request |-> busy]
  <2>1. reply \in Response /\ reply.request = busy
    BY <1>3 DEF Answer, Response
  <2>2. replies' = Append(replies, reply)
    BY DEF Send
  <2> HIDE DEF reply
  <2>3. EngineType'
    BY <1>3, <2>1, <2>2 DEF Answer
  <2>4. /\ \A j \in 1 .. Len(replies) : replies'[j] = replies[j]
        /\ replies'[Len(replies')] = reply
        /\ Len(replies') = Len(replies) + 1
    BY <2>2
  <2>5. busy # None /\ busy' = None /\ UNCHANGED <<queue, attempts>>
    BY <1>3 DEF Answer
  <2>6. Once'
    BY <2>1, <2>4, <2>5 DEF Once
  <2>7. InFlightIsRunning'
    BY <2>1, <2>4, <2>5 DEF InFlightIsRunning, InFlight
  <2> QED BY <2>3, <2>6, <2>7
<1>4. CASE Stop
  BY <1>4 DEF Stop, Once, InFlightIsRunning, InFlight
<1> QED BY <1>1, <1>2, <1>3, <1>4 DEF Worker

\* Draining a reply leaves the rest of the pipeline; only the drained run may
\* change its state.
LEMMA DrainKeepsPipeline ==
    ASSUME Pipeline, replies # <<>>, replies' = Tail(replies),
           UNCHANGED <<worker, queue, busy>>,
           \A r \in Run : r # Head(replies).request => attempts'[r] = attempts[r]
    PROVE  Pipeline'
<1> USE DEF Pipeline, EngineType
<1>1. EngineType'
  OBVIOUS
<1>2. /\ Len(replies') = Len(replies) - 1
      /\ \A j \in 1 .. Len(replies') : replies'[j] = replies[j + 1] /\ j + 1 \in 1 .. Len(replies)
      /\ Head(replies) = replies[1] /\ 1 \in 1 .. Len(replies)
  OBVIOUS
<1>3. Once'
  BY <1>2 DEF Once
<1>4. ASSUME NEW r \in Run, InFlight(r)' PROVE InFlight(r) /\ r # Head(replies).request
  BY <1>2, <1>4 DEF InFlight, Once
<1> QED BY <1>1, <1>3, <1>4 DEF InFlightIsRunning

\* A request that is not in flight is queued.
LEMMA QueueKeepsPipeline ==
    ASSUME Pipeline, NEW q \in Request, queue' = Append(queue, q),
           UNCHANGED <<worker, busy, replies>>,
           q \in Run => ~InFlight(q) /\ attempts'[q] = "running",
           \A r \in Run : r # q => attempts'[r] = attempts[r]
    PROVE  Pipeline'
<1> USE DEF Pipeline, EngineType
<1>1. EngineType'
  OBVIOUS
<1>2. /\ Len(queue') = Len(queue) + 1
      /\ \A i \in 1 .. Len(queue) : queue'[i] = queue[i]
      /\ queue'[Len(queue')] = q
  OBVIOUS
<1>3. Once'
  BY <1>2 DEF Once, InFlight
<1>4. ASSUME NEW r \in Run, InFlight(r)', r # q PROVE InFlight(r)
  BY <1>2, <1>4 DEF InFlight
<1> QED BY <1>1, <1>3, <1>4 DEF InFlightIsRunning

\* Without a step of the engine the pipeline stays, if running attempts do.
LEMMA IdleKeepsPipeline ==
    ASSUME Pipeline, UNCHANGED engine,
           \A r \in Run : attempts[r] = "running" => attempts'[r] = "running"
    PROVE  Pipeline'
  BY DEF Pipeline, EngineType, engine, Once, InFlightIsRunning, InFlight

\* Ending the pending attempt, as far as the storage lets it.
LEMMA FinishKeepsDesk ==
    ASSUME Desk, NEW state \in {"failed", "cancelled"}, pending # None,
           FinishAttempt(pending, state), pending' = None,
           UNCHANGED shown,
           engineOk' \in BOOLEAN, dirty' \in BOOLEAN, readOnly' \in BOOLEAN
    PROVE  Desk'
<1> USE DEF Desk, ViewType, AttemptState
<1>1. pending \in Run /\ attempts[pending] = "running"
  BY DEF PendingIsRunning
<1>2. ViewType' /\ PendingIsRunning'
  BY <1>1 DEF FinishAttempt, ledger, PendingIsRunning
<1>3. RunningIsDurable'
  BY <1>1 DEF FinishAttempt, ledger, RunningIsDurable
<1>4. ShownSucceeded'
  BY <1>1 DEF FinishAttempt, ledger, ShownSucceeded
<1> QED BY <1>2, <1>3, <1>4

-----------------------------------------------------------------------------
LEMMA NextDesk == Inv /\ [Next]_vars => Desk' /\ Pipeline'
<1> SUFFICES ASSUME Desk, PlaybackType, Pipeline, [Next]_vars PROVE Desk' /\ Pipeline'
  BY DEF Inv, Screen
<1>0. CASE UNCHANGED vars
  <2>1. UNCHANGED engine /\ UNCHANGED <<access, view, ledger>>
    BY <1>0 DEF vars
  <2>2. Desk'
    BY <2>1 DEF access, view, ledger, Desk, ViewType, PendingIsRunning, RunningIsDurable,
                ShownSucceeded
  <2>3. UNCHANGED attempts
    BY <2>1 DEF ledger
  <2> QED BY <2>1, <2>2, <2>3, IdleKeepsPipeline
<1>1. CASE Worker
  <2>1. UNCHANGED <<access, view, ledger>>
    BY <1>1 DEF Worker, Start, Take, Answer, Stop
  <2>2. Desk'
    BY <2>1 DEF access, view, ledger, Desk, ViewType, PendingIsRunning, RunningIsDurable,
                ShownSucceeded
  <2> QED BY <1>1, <2>2, WorkerKeepsPipeline
<1>2. CASE Drain
  <2> DEFINE m == Head(replies)
  <2>1. m \in Announcement \cup Response
    BY <1>2 DEF Drain, Pipeline, EngineType
  <2>2. /\ replies # <<>> /\ replies' = Tail(replies) /\ dirty' = TRUE
        /\ UNCHANGED <<worker, queue, busy, readOnly>>
        /\ Announce(m) \/ InstallPreview(m) \/ RecordRun(m) \/ PreviewFails(m)
             \/ DiscardStale(m)
    BY <1>2 DEF Drain
  <2> HIDE DEF m
  <2>3. CASE UNCHANGED <<view, ledger>> /\ engineOk' \in BOOLEAN
    <3>1. Desk'
      BY <2>2, <2>3 DEF view, ledger, Desk, ViewType, PendingIsRunning, RunningIsDurable,
                         ShownSucceeded
    <3>2. UNCHANGED attempts
      BY <2>3 DEF ledger
    <3> QED BY <2>2, <3>1, <3>2, DrainKeepsPipeline
  <2>4. CASE InstallPreview(m) \/ PreviewFails(m)
    <3>1. m.request \in Request /\ m.request = fetching
      BY <2>1, <2>4 DEF InstallPreview, PreviewFails, Disposition, Announcement, Response
    <3>2. fetching \in Preview
      BY <3>1 DEF Request, PlaybackType
    <3>3. engineOk' \in BOOLEAN /\ UNCHANGED <<pending, shown, attempts, saved>>
      BY <2>4, <3>1 DEF InstallPreview, PreviewFails, ledger, Desk, ViewType
    <3>4. Desk'
      BY <2>2, <3>2, <3>3 DEF Desk, ViewType, PendingIsRunning, RunningIsDurable,
                              ShownSucceeded
    <3> QED BY <2>2, <3>3, <3>4, DrainKeepsPipeline
  <2>5. CASE RecordRun(m)
    <3>1. m.request \in Request /\ m.request = pending
      BY <2>1, <2>5 DEF RecordRun, Disposition, Announcement, Response
    <3>2. pending \in Run /\ attempts[pending] = "running"
      BY <3>1 DEF Request, Desk, ViewType, PendingIsRunning
    <3> DEFINE recorded == [attempts EXCEPT ![pending] = "succeeded"]
    <3>3. /\ attempts' \in {attempts, recorded}
          /\ pending' = None
          /\ \/ attempts' = recorded /\ saved' = recorded
                 /\ shown' = pending /\ engineOk' = TRUE
             \/ /\ saved' = saved \/ (attempts' = recorded /\ saved' = recorded)
                /\ UNCHANGED <<shown, engineOk>>
      BY <2>5 DEF RecordRun, ShowCase, ledger
    <3>4. ViewType' /\ PendingIsRunning'
      BY <2>2, <3>2, <3>3 DEF Desk, ViewType, PendingIsRunning, AttemptState
    <3>5. RunningIsDurable' /\ ShownSucceeded'
      BY <3>2, <3>3 DEF Desk, ViewType, RunningIsDurable, ShownSucceeded
    <3>6. \A r \in Run : r # m.request => attempts'[r] = attempts[r]
      BY <3>1, <3>2, <3>3 DEF Desk, ViewType
    <3> QED BY <2>2, <3>4, <3>5, <3>6, DrainKeepsPipeline DEF Desk, m
  <2>6. Announce(m) \/ DiscardStale(m) => UNCHANGED <<view, ledger>> /\ engineOk' \in BOOLEAN
    BY DEF Announce, DiscardStale, Desk, ViewType
  <2> QED BY <2>2, <2>3, <2>4, <2>5, <2>6
<1>3. CASE RunFails
  <2>1. Head(replies) \in Response
    BY <1>3 DEF RunFails, Pipeline, EngineType, Announcement
  <2>2. pending # None
    BY <1>3, <2>1 DEF RunFails, Disposition, Response, Request
  <2>3. /\ FinishAttempt(pending, "failed") /\ pending' = None
        /\ UNCHANGED shown /\ RestartEngine
    BY <1>3 DEF RunFails
  <2>4. engineOk' \in BOOLEAN /\ dirty' \in BOOLEAN /\ readOnly' \in BOOLEAN
    BY <2>3 DEF RestartEngine, Desk, ViewType
  <2> QED BY <2>2, <2>3, <2>4, FinishKeepsDesk, RestartClears
<1>4. CASE Cancel
  <2>1. /\ pending # None /\ FinishAttempt(pending, "cancelled") /\ pending' = None
        /\ UNCHANGED shown /\ RestartEngine
    BY <1>4 DEF Cancel
  <2>2. engineOk' \in BOOLEAN /\ dirty' \in BOOLEAN /\ readOnly' \in BOOLEAN
    BY <2>1 DEF RestartEngine, Desk, ViewType
  <2> QED BY <2>1, <2>2, FinishKeepsDesk, RestartClears
<1>5. CASE Reconcile
  <2>1. Desk'
    BY <1>5 DEF Reconcile, view, ledger, Desk, ViewType, PendingIsRunning,
                RunningIsDurable, ShownSucceeded
  <2> QED BY <1>5, <2>1, IdleKeepsPipeline DEF Reconcile, ledger
<1>6. ASSUME NEW r \in Run, Submit(r) PROVE Desk' /\ Pipeline'
  <2>1. attempts[r] = "none" /\ attempts' = [attempts EXCEPT ![r] = "running"]
        /\ saved' = attempts' /\ pending' = r /\ queue' = Append(queue, r)
        /\ UNCHANGED <<worker, busy, replies, access, shown>>
    BY <1>6 DEF Submit
  <2>2. ViewType' /\ PendingIsRunning' /\ RunningIsDurable'
    BY <2>1 DEF Desk, ViewType, access, PendingIsRunning, RunningIsDurable, AttemptState
  <2>3. ShownSucceeded'
    BY <2>1 DEF Desk, ViewType, ShownSucceeded
  <2>4. /\ ~InFlight(r) /\ attempts'[r] = "running" /\ r \in Request
        /\ \A q \in Run : q # r => attempts'[q] = attempts[q]
    BY <2>1 DEF Pipeline, InFlightIsRunning, Desk, ViewType, Request
  <2> QED BY <2>1, <2>2, <2>3, <2>4, QueueKeepsPipeline DEF Desk
<1>7. ASSUME NEW r \in Run, SubmitFails(r) PROVE Desk' /\ Pipeline'
  <2>1. /\ attempts[r] = "none" /\ attempts' = [attempts EXCEPT ![r] = "failed"]
        /\ saved' \in {saved, [attempts EXCEPT ![r] = "running"], attempts'}
        /\ UNCHANGED <<engine, access, view>>
    BY <1>7 DEF SubmitFails
  <2>2. ViewType' /\ PendingIsRunning' /\ ShownSucceeded'
    BY <2>1 DEF Desk, ViewType, access, view, PendingIsRunning, ShownSucceeded,
                AttemptState
  <2>3. RunningIsDurable'
    BY <2>1 DEF Desk, ViewType, RunningIsDurable
  <2>4. \A q \in Run : attempts[q] = "running" => attempts'[q] = "running"
    BY <2>1 DEF Desk, ViewType
  <2> QED BY <2>1, <2>2, <2>3, <2>4, IdleKeepsPipeline DEF Desk
<1>8. ASSUME NEW r \in Run, SubmitToGoneWorker(r) PROVE Desk' /\ Pipeline'
  <2>1. PICK end \in {"failed", "running"} : attempts' = [attempts EXCEPT ![r] = end]
    BY <1>8 DEF SubmitToGoneWorker
  <2>2. /\ attempts[r] = "none"
        /\ saved' \in {attempts', [attempts EXCEPT ![r] = "running"]}
        /\ RestartEngine /\ UNCHANGED view
    BY <1>8 DEF SubmitToGoneWorker
  <2>3. ViewType' /\ PendingIsRunning' /\ ShownSucceeded'
    BY <2>1, <2>2 DEF RestartEngine, Desk, ViewType, view, PendingIsRunning,
                      ShownSucceeded, AttemptState
  <2>4. RunningIsDurable'
    BY <2>1, <2>2 DEF Desk, ViewType, RunningIsDurable
  <2> QED BY <2>2, <2>3, <2>4, RestartClears DEF Desk
<1>9. CASE PressStepKey \/ ChooseStep \/ Advance
  <2>1. PICK s : ShowStep(s)
    BY <1>9 DEF PressStepKey, ChooseStep, Advance
  <2>2. UNCHANGED <<worker, busy, replies, access, pending, shown, ledger>>
    BY <2>1 DEF ShowStep
  <2>3. Desk'
    BY <2>2 DEF Desk, ViewType, access, ledger, PendingIsRunning, RunningIsDurable,
                ShownSucceeded
  <2>4. UNCHANGED queue \/ \E v \in Preview : queue' = Append(queue, v)
    BY <2>1 DEF ShowStep, Fetch
  <2>5. CASE UNCHANGED queue
    BY <2>2, <2>3, <2>5, IdleKeepsPipeline DEF engine, ledger
  <2>6. ASSUME NEW v \in Preview, queue' = Append(queue, v) PROVE Pipeline'
    <3>1. v \in Request /\ v \notin Run /\ UNCHANGED attempts
      BY <2>2 DEF Request, ledger
    <3> QED BY <2>2, <2>6, <3>1, QueueKeepsPipeline
  <2> QED BY <2>3, <2>4, <2>5, <2>6
<1>16. CASE TogglePlaying
  <2>1. UNCHANGED <<engine, access, ledger, pending, shown>>
    BY <1>16 DEF TogglePlaying
  <2>2. Desk'
    BY <2>1 DEF access, ledger, Desk, ViewType, PendingIsRunning, RunningIsDurable,
                ShownSucceeded
  <2> QED BY <2>1, <2>2, IdleKeepsPipeline DEF ledger
<1>10. ASSUME NEW result \in Run \cup {None}, result # None => attempts[result] = "succeeded",
              ShowCase(result), UNCHANGED <<engine, access, ledger>>
       PROVE  Desk' /\ Pipeline'
  <2>1. Desk'
    BY <1>10 DEF ShowCase, access, ledger, Desk, ViewType, PendingIsRunning,
                 RunningIsDurable, ShownSucceeded
  <2> QED BY <1>10, <2>1, IdleKeepsPipeline DEF ledger
<1>11. CASE Save
  <2>1. Desk'
    BY <1>11 DEF Save, access, view, Desk, ViewType, PendingIsRunning,
                 RunningIsDurable, ShownSucceeded
  <2> QED BY <1>11, <2>1, IdleKeepsPipeline DEF Save
<1>12. CASE RestartFromSettings
  <2>1. RestartEngine /\ UNCHANGED <<view, ledger>>
    BY <1>12 DEF RestartFromSettings
  <2>2. Desk'
    BY <2>1 DEF RestartEngine, view, ledger, Desk, ViewType, PendingIsRunning,
                RunningIsDurable, ShownSucceeded
  <2> QED BY <2>1, <2>2, RestartClears
<1>13. CASE Reopen
  <2>1. PICK r \in {None} \cup {s \in Run : saved[s] = "succeeded"} : ShowCase(r)
    BY <1>13 DEF Reopen
  <2>2. attempts' = saved /\ saved' = saved /\ RestartEngine
    BY <1>13 DEF Reopen
  <2>3. Desk'
    BY <2>1, <2>2 DEF ShowCase, RestartEngine, Desk, ViewType, PendingIsRunning,
                      RunningIsDurable, ShownSucceeded
  <2> QED BY <2>2, <2>3, RestartClears
<1>14. CASE \E r \in Run : SelectStoredRun(r)
  BY <1>10, <1>14 DEF SelectStoredRun
<1>15. CASE InvalidateResult \/ ImportGeometry
  BY <1>10, <1>15 DEF InvalidateResult, ImportGeometry
<1> QED BY <1>0, <1>1, <1>2, <1>3, <1>4, <1>5, <1>6, <1>7, <1>8, <1>9, <1>11, <1>12,
           <1>13, <1>14, <1>15, <1>16 DEF Next, UserInterface

-----------------------------------------------------------------------------
(* Playback.                                                               *)

\* Trimming takes frames away, and never the one on display.
LEMMA TrimmingKeeps ==
    ASSUME NEW fs, NEW here
    PROVE  /\ Trimmed(fs, here) \subseteq fs
           /\ \A f \in fs : f.at = here => f \in Trimmed(fs, here)
  BY DEF Trimmed

\* Fewer frames of the same result fit as well.
LEMMA FewerFramesFit ==
    ASSUME Screen, frames' \subseteq frames, step' \in Step \cup {0}, playing' \in BOOLEAN,
           UNCHANGED <<failed, fetching, asked, shown>>
    PROVE  Screen'
  BY DEF Screen, PlaybackType, Fits, Awaited, Cached

LEMMA ShowStepKeepsScreen ==
    ASSUME Screen, ViewType, NEW s, ShowStep(s), playing' \in BOOLEAN
    PROVE  Screen'
<1>1. /\ s \in Step /\ step' = s /\ frames' \subseteq frames /\ UNCHANGED shown
  BY TrimmingKeeps DEF ShowStep
<1>2. CASE UNCHANGED <<failed, fetching, asked>>
  BY <1>1, <1>2, FewerFramesFit
<1>3. CASE MayFetch(s) /\ Fetch(s)
  <2>1. /\ shown \in Run /\ fetching = None /\ asked = None
        /\ s # Recorded /\ ~Cached(s)
    BY <1>3 DEF MayFetch, Screen, PlaybackType, ViewType
  <2>2. CASE failed' = failed \cup {s} /\ UNCHANGED <<fetching, asked>>
    BY <1>1, <2>1, <2>2 DEF Screen, PlaybackType, Fits, Awaited, Cached
  <2>3. CASE /\ failed' = failed \ {s} /\ fetching' \in Preview
             /\ asked' = [at |-> s, of |-> shown]
    <3>1. asked' \in Frame /\ asked'.at = s /\ asked'.of = shown
      BY <1>1, <2>1, <2>3 DEF Frame
    <3>2. PlaybackType'
      BY <1>1, <2>1, <2>3, <3>1 DEF Screen, PlaybackType
    <3>3. Fits'
      BY <1>1, <2>1, <2>3, <3>1 DEF Screen, Fits, Awaited, Cached
    <3> QED BY <3>2, <3>3 DEF Screen
  <2> QED BY <1>3, <2>2, <2>3 DEF Fetch
<1> QED BY <1>2, <1>3 DEF ShowStep

\* A preview that arrives, or is given up.
LEMMA PreviewKeepsScreen ==
    ASSUME Screen, NEW m, InstallPreview(m) \/ PreviewFails(m), fetching # None
    PROVE  Screen'
<1>1. asked \in Frame /\ asked.at \in Step
  BY DEF Screen, PlaybackType, Frame
<1>2. /\ fetching' = None /\ asked' = None /\ playing' \in BOOLEAN /\ UNCHANGED <<step, shown>>
      /\ \/ failed' = failed \ {asked.at} /\ frames' \subseteq frames \cup {asked}
         \/ failed' = failed \cup {asked.at} /\ UNCHANGED frames
  BY TrimmingKeeps DEF InstallPreview, PreviewFails, Screen, PlaybackType
<1>3. PlaybackType'
  BY <1>1, <1>2 DEF Screen, PlaybackType
<1>4. /\ shown # None /\ asked.of = shown /\ asked.at # Recorded /\ asked.at \notin failed
      /\ \A f \in frames : f.at # asked.at
  BY DEF Screen, Fits, Awaited, Cached
<1>5. \A f, g \in frames \cup {asked} : f.at = g.at => f = g
  BY <1>4 DEF Screen, Fits
<1>6. \A f \in frames \cup {asked} : f.of = shown /\ f.at # Recorded /\ f.at \notin failed
  BY <1>4 DEF Screen, Fits
<1>7. Fits'
  BY <1>2, <1>4, <1>5, <1>6 DEF Fits, Awaited
<1> QED BY <1>3, <1>7 DEF Screen

LEMMA NextScreen == Inv /\ [Next]_vars => Screen'
<1> SUFFICES ASSUME Inv, [Next]_vars PROVE Screen'
  OBVIOUS
<1> USE DEF Inv
<1>1. ASSUME UNCHANGED <<shown, playback>> PROVE Screen'
  BY <1>1 DEF playback, Screen, PlaybackType, Fits, Awaited, Cached
<1>2. ASSUME ResetPlayback PROVE Screen'
  BY <1>2 DEF ResetPlayback, Screen, PlaybackType, Fits, Awaited
<1>3. CASE PressStepKey \/ ChooseStep \/ Advance
  <2>1. playing' \in BOOLEAN
    BY <1>3 DEF PressStepKey, ChooseStep, Advance, Screen, PlaybackType
  <2> QED BY <1>3, <2>1, ShowStepKeepsScreen DEF PressStepKey, ChooseStep, Advance, Desk
<1>4. CASE TogglePlaying
  BY <1>4, FewerFramesFit DEF TogglePlaying, Screen, PlaybackType
<1>5. CASE Drain
  <2> DEFINE m == Head(replies)
  <2>1. m \in Announcement \cup Response
    BY <1>5 DEF Drain, Pipeline, EngineType
  <2>2. CASE InstallPreview(m) \/ PreviewFails(m)
    <3>1. m.request = fetching /\ m.request \in Request
      BY <2>1, <2>2 DEF InstallPreview, PreviewFails, Disposition, Announcement, Response
    <3>2. fetching # None
      BY <3>1 DEF Request
    <3> QED BY <2>2, <3>2, PreviewKeepsScreen
  <2>3. CASE Announce(m) \/ RecordRun(m) \/ DiscardStale(m)
    BY <1>1, <1>2, <2>3 DEF Announce, RecordRun, DiscardStale, view, ShowCase
  <2> QED BY <1>5, <2>2, <2>3 DEF Drain
<1>6. CASE UNCHANGED vars \/ Worker \/ Reconcile
  BY <1>1, <1>6 DEF vars, view, Worker, Start, Take, Answer, Stop, Reconcile
<1>7. CASE RunFails \/ Cancel \/ Save \/ RestartFromSettings
  BY <1>1, <1>7 DEF view, RunFails, Cancel, Save, RestartFromSettings
<1>8. CASE \E r \in Run : Submit(r) \/ SubmitFails(r) \/ SubmitToGoneWorker(r)
  BY <1>1, <1>8 DEF view, Submit, SubmitFails, SubmitToGoneWorker
<1>9. CASE InvalidateResult \/ ImportGeometry \/ Reopen \/ \E r \in Run : SelectStoredRun(r)
  BY <1>2, <1>9 DEF ShowCase, InvalidateResult, ImportGeometry, Reopen, SelectStoredRun
<1> QED BY <1>3, <1>4, <1>5, <1>6, <1>7, <1>8, <1>9 DEF Next, UserInterface

LEMMA NextInv == Inv /\ [Next]_vars => Inv'
  BY NextDesk, NextScreen DEF Inv

THEOREM AlwaysInv == Spec => []Inv
<1> QED BY InitInv, NextInv, PTL DEF Spec

\* Every variable keeps its type.
THEOREM TypeCorrect == Spec => []TypeOK
<1>1. Inv => TypeOK
  BY DEF Inv, Desk, ViewType, Screen, PlaybackType, Pipeline, EngineType, TypeOK
<1> QED BY <1>1, AlwaysInv, PTL

\* The attempt the case waits for is running in the ledger.
THEOREM PendingRuns == Spec => []PendingIsRunning
<1>1. Inv => PendingIsRunning
  BY DEF Inv, Desk
<1> QED BY <1>1, AlwaysInv, PTL

\* An attempt that runs in memory runs on disk.
THEOREM RunningOnDisk == Spec => []RunningIsDurable
<1>1. Inv => RunningIsDurable
  BY DEF Inv, Desk
<1> QED BY <1>1, AlwaysInv, PTL

\* An ended attempt has no request, computation or reply left.
THEOREM EndedIsSilent == Spec => []TerminalIsSilent
<1>1. Inv => TerminalIsSilent
  BY DEF Inv, Pipeline, InFlightIsRunning, TerminalIsSilent, Terminal
<1> QED BY <1>1, AlwaysInv, PTL

\* What is displayed is recorded, with the previews of that result.
THEOREM DisplayRecorded == Spec => []DisplayIsRecorded
<1>1. Inv => DisplayIsRecorded
  BY DEF Inv, Desk, ShownSucceeded, Screen, Fits, DisplayIsRecorded
<1> QED BY <1>1, AlwaysInv, PTL

\* While a step is on display, its frame is.
THEOREM FrameStays == Spec => FrameOnDisplayStays
<1> DEFINE Stays == \A f \in frames : f.at = step /\ step' = step => f \in frames'
<1>1. ASSUME Inv, [Next]_vars, NEW f \in frames, f.at = step, step' = step PROVE f \in frames'
  <2>1. step # 0
    BY <1>1, HorizonAssumption DEF Inv, Screen, PlaybackType, Frame, Step
  <2>2. ~ResetPlayback
    BY <1>1, <2>1 DEF ResetPlayback
  <2>3. CASE UNCHANGED frames
    BY <1>1, <2>3
  <2>4. CASE PressStepKey \/ ChooseStep \/ Advance
    BY <1>1, <2>4, TrimmingKeeps DEF PressStepKey, ChooseStep, Advance, ShowStep
  <2>5. CASE Drain
    BY <1>1, <2>2, <2>5, TrimmingKeeps
       DEF Drain, Announce, InstallPreview, RecordRun, PreviewFails, DiscardStale, ShowCase,
           view, playback
  <2>6. CASE UNCHANGED vars \/ Worker \/ Reconcile \/ TogglePlaying
    BY <2>3, <2>6 DEF vars, view, playback, Worker, Start, Take, Answer, Stop, Reconcile,
                      TogglePlaying
  <2>7. CASE RunFails \/ Cancel \/ Save \/ RestartFromSettings
    BY <2>3, <2>7 DEF view, playback, RunFails, Cancel, Save, RestartFromSettings
  <2>8. CASE \E r \in Run : Submit(r) \/ SubmitFails(r) \/ SubmitToGoneWorker(r)
    BY <2>3, <2>8 DEF view, playback, Submit, SubmitFails, SubmitToGoneWorker
  <2>9. CASE InvalidateResult \/ ImportGeometry \/ Reopen \/ \E r \in Run : SelectStoredRun(r)
    BY <2>2, <2>9 DEF ShowCase, InvalidateResult, ImportGeometry, Reopen, SelectStoredRun
  <2> QED BY <1>1, <2>4, <2>5, <2>6, <2>7, <2>8, <2>9 DEF Next, UserInterface
<1>2. Inv /\ [Next]_vars => [Stays]_vars
  BY <1>1
<1>3. FrameOnDisplayStays <=> [][Stays]_vars
  BY DEF FrameOnDisplayStays
<1> QED BY <1>2, <1>3, AlwaysInv, PTL DEF Spec

-----------------------------------------------------------------------------
\* The disk is never ahead of the memory with a success.
SavedIsRecorded == \A r \in Run : saved[r] = "succeeded" => attempts[r] = "succeeded"

\* The steps that write the ledger; no other step changes it.
LEMMA LedgerSteps ==
    ASSUME Inv, [Next]_vars
    PROVE  \/ UNCHANGED ledger
           \/ \E r \in Run, state \in {"running", "failed", "cancelled"} :
                 /\ attempts[r] \in {"none", "running"}
                 /\ attempts' = [attempts EXCEPT ![r] = state]
                 /\ saved' \in {saved, attempts', [attempts EXCEPT ![r] = "running"]}
           \/ \E r \in Run :
                 /\ replies # <<>> /\ Head(replies) = [kind |-> "field", request |-> r]
                 /\ pending = r
                 /\ attempts' = [attempts EXCEPT ![r] = "succeeded"]
                 /\ saved' = attempts' \/ (saved' = saved /\ shown' = shown)
           \/ UNCHANGED attempts /\ saved' = attempts
           \/ attempts' = saved /\ saved' = saved
<1> USE DEF Inv, Desk, ViewType
<1>1. CASE Drain
  <2>1. Head(replies) \in Announcement \cup Response
    BY <1>1 DEF Drain, Pipeline, EngineType
  <2>2. CASE RecordRun(Head(replies))
    <3>1. /\ Head(replies).kind = "field" /\ Head(replies).request = pending
          /\ Head(replies).request \in Request
      BY <2>1, <2>2 DEF RecordRun, Disposition, Announcement, Response
    <3>2. pending \in Run
      BY <3>1 DEF Request
    <3>3. Head(replies) = [kind |-> "field", request |-> pending]
      BY <2>1, <3>1 DEF Announcement, Response
    <3>4. \/ attempts' = attempts /\ saved' = saved
          \/ /\ attempts' = [attempts EXCEPT ![pending] = "succeeded"]
             /\ saved' = attempts' \/ (saved' = saved /\ shown' = shown)
      BY <2>2 DEF RecordRun, ShowCase, ledger
    <3>5. replies # <<>>
      BY <1>1 DEF Drain
    <3> QED BY <3>2, <3>3, <3>4, <3>5 DEF ledger
  <2>3. ~RecordRun(Head(replies)) => UNCHANGED ledger
    BY <1>1 DEF Drain, Announce, InstallPreview, PreviewFails, DiscardStale, ledger
  <2> QED BY <2>2, <2>3
<1>2. ASSUME pending # None, NEW state \in {"failed", "cancelled"}, FinishAttempt(pending, state)
      PROVE  \/ UNCHANGED ledger
             \/ /\ pending \in Run /\ attempts[pending] = "running"
                /\ attempts' = [attempts EXCEPT ![pending] = state]
                /\ saved' \in {saved, attempts'}
  BY <1>2 DEF FinishAttempt, PendingIsRunning
<1>3. CASE RunFails
  <2>1. pending # None
    BY <1>3 DEF RunFails, Disposition, Pipeline, EngineType, Announcement, Response, Request
  <2> QED BY <1>2, <1>3, <2>1 DEF RunFails
<1>4. CASE Cancel
  BY <1>2, <1>4 DEF Cancel
<1>5. CASE \E r \in Run : Submit(r) \/ SubmitFails(r) \/ SubmitToGoneWorker(r)
  <2> PICK r \in Run : Submit(r) \/ SubmitFails(r) \/ SubmitToGoneWorker(r)
    BY <1>5
  <2>1. /\ attempts[r] = "none"
        /\ \E state \in {"running", "failed"} : attempts' = [attempts EXCEPT ![r] = state]
        /\ saved' \in {saved, attempts', [attempts EXCEPT ![r] = "running"]}
    BY DEF Submit, SubmitFails, SubmitToGoneWorker
  <2> QED BY <2>1
<1>6. CASE Save
  BY <1>6 DEF Save
<1>7. CASE Reopen
  BY <1>7 DEF Reopen
<1>8. CASE \/ UNCHANGED vars \/ Worker \/ Reconcile \/ InvalidateResult \/ ImportGeometry
           \/ RestartFromSettings \/ \E r \in Run : SelectStoredRun(r)
           \/ PressStepKey \/ ChooseStep \/ TogglePlaying \/ Advance
  BY <1>8 DEF vars, Worker, Start, Take, Answer, Stop, Reconcile, InvalidateResult,
              ImportGeometry, RestartFromSettings, SelectStoredRun, PressStepKey, ChooseStep,
              TogglePlaying, Advance, ShowStep
<1> QED BY <1>1, <1>3, <1>4, <1>5, <1>6, <1>7, <1>8 DEF Next, UserInterface

LEMMA SavedNext == Inv /\ SavedIsRecorded /\ [Next]_vars => SavedIsRecorded'
<1> SUFFICES ASSUME Inv, SavedIsRecorded, [Next]_vars PROVE SavedIsRecorded'
  OBVIOUS
<1> USE DEF SavedIsRecorded, Inv, Desk, ViewType
<1>1. CASE UNCHANGED ledger \/ (UNCHANGED attempts /\ saved' = attempts)
             \/ (attempts' = saved /\ saved' = saved)
  BY <1>1 DEF ledger
<1>2. ASSUME NEW r \in Run, NEW state \in {"running", "failed", "cancelled", "succeeded"},
             attempts[r] \in {"none", "running"},
             attempts' = [attempts EXCEPT ![r] = state],
             saved' \in {saved, attempts', [attempts EXCEPT ![r] = "running"]}
      PROVE  SavedIsRecorded'
  <2>1. ASSUME NEW q \in Run, saved'[q] = "succeeded" PROVE attempts'[q] = "succeeded"
    <3>1. saved[r] # "succeeded"
      BY <1>2
    <3> QED BY <1>2, <2>1, <3>1
  <2> QED BY <2>1
<1>3. CASE \E r \in Run :
              /\ pending = r
              /\ attempts' = [attempts EXCEPT ![r] = "succeeded"]
              /\ saved' = attempts' \/ saved' = saved
  <2>1. pending \in Run /\ attempts[pending] = "running"
    BY <1>3 DEF PendingIsRunning
  <2> QED BY <1>2, <1>3, <2>1
<1> QED BY <1>1, <1>2, <1>3, LedgerSteps

\* A success is recorded from the run's own field, and displayed from the disk.
THEOREM OwnResult == Spec => OwnResultRecorded
<1> DEFINE Own == \A r \in Run :
          /\ attempts[r] # "succeeded" /\ attempts'[r] = "succeeded" =>
                 replies # <<>> /\ Head(replies) = [kind |-> "field", request |-> r]
          /\ pending = r /\ shown' = r /\ shown # r => saved'[r] = "succeeded"
<1>1. Init => SavedIsRecorded
  BY DEF Init, SavedIsRecorded
<1>2. ASSUME Inv, SavedIsRecorded, [Next]_vars, NEW r \in Run,
             attempts[r] # "succeeded", attempts'[r] = "succeeded"
      PROVE  replies # <<>> /\ Head(replies) = [kind |-> "field", request |-> r]
  BY <1>2, LedgerSteps DEF SavedIsRecorded, Inv, Desk, ViewType, ledger
<1>3. ASSUME Inv, SavedIsRecorded, [Next]_vars, NEW r \in Run,
             pending = r, shown' = r, shown # r
      PROVE  saved'[r] = "succeeded"
  <2>1. attempts[r] = "running" /\ r # None
    BY <1>3 DEF Inv, Desk, PendingIsRunning
  <2>2. CASE Drain
    BY <1>3, <2>1, <2>2 DEF Drain, Announce, InstallPreview, RecordRun, PreviewFails,
          DiscardStale, view, ShowCase, Inv, Desk, ViewType
  <2>3. CASE Reopen
    BY <1>3, <2>1, <2>3 DEF Reopen, ShowCase
  <2>4. CASE \E q \in Run : SelectStoredRun(q)
    BY <1>3, <2>1, <2>4 DEF SelectStoredRun, ShowCase
  <2>5. CASE InvalidateResult \/ ImportGeometry
    BY <1>3, <2>1, <2>5 DEF InvalidateResult, ImportGeometry, ShowCase
  <2>6. CASE UNCHANGED vars \/ Worker \/ RunFails \/ Reconcile \/ Cancel \/ Save
    BY <1>3, <2>6 DEF vars, view, Worker, Start, Take, Answer, Stop, RunFails, Reconcile,
                      Cancel, Save
  <2>7. CASE \/ RestartFromSettings \/ PressStepKey \/ ChooseStep \/ TogglePlaying \/ Advance
             \/ \E q \in Run : Submit(q) \/ SubmitFails(q) \/ SubmitToGoneWorker(q)
    BY <1>3, <2>7 DEF RestartFromSettings, PressStepKey, ChooseStep, TogglePlaying,
                      Advance, ShowStep, Submit, SubmitFails, SubmitToGoneWorker, view
  <2> QED BY <1>3, <2>2, <2>3, <2>4, <2>5, <2>6, <2>7 DEF Next, UserInterface
<1>4. Inv /\ SavedIsRecorded /\ [Next]_vars => [Own]_vars
  BY <1>2, <1>3
<1>5. OwnResultRecorded <=> [][Own]_vars
  BY DEF OwnResultRecorded
<1> QED BY <1>1, <1>4, <1>5, SavedNext, AlwaysInv, PTL DEF Spec
=============================================================================
