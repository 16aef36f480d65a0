----------------------------- MODULE CaseDraft -----------------------------
(***************************************************************************)
(* The draft of an external-flow case on the operator's desk (app.rs), its *)
(* undo history (engineering.rs), the background worker that rebuilds the  *)
(* voxel mask for a new body attitude, and the commits that turn the draft *)
(* into an immutable revision before a run or a save.                      *)
(*                                                                         *)
(* The user interface is one thread; the worker is another, reached by a   *)
(* channel in each direction. The ledger of RunLedger is reduced to what   *)
(* the desk reads and writes: the revisions of each case in order, their   *)
(* runs and the selected run. What makes a draft ready for a run is        *)
(* CaseReview's, and what becomes of a run between its start and its end   *)
(* is ExternalFlowRun's.                                                   *)
(***************************************************************************)
EXTENDS CaseReview, Sequences, SequencesExt

CONSTANTS
    Cases,         \* identities of cases
    HistoryLimit,  \* CASE_DRAFT_HISTORY_LIMIT
    MaxRevisions,  \* bound on the revisions in the ledger
    MaxRuns,       \* bound on the runs in the ledger
    MaxRequests,   \* bound on the requests to the worker
    MaxEdits,      \* bound on the edits of points, approvals, waivers and models
    MaxMishaps     \* bound on failed requests and changes of access

ASSUME DraftAssumption ==
    /\ HistoryLimit \in Nat \ {0}
    /\ MaxRevisions \in Nat /\ MaxRuns \in Nat /\ MaxRequests \in Nat
    /\ MaxEdits \in Nat /\ MaxMishaps \in Nat

VARIABLES
    ledger,       \* revisions, runs and selection of the project
    saved,        \* the project file or a snapshot holds the ledger as it is
    access,       \* the project may be edited, or is read-only evidence
    desk,         \* the active case and its editable workflow
    dirty,        \* case_draft_dirty
    draft,        \* orientation_draft: angles that are not in the mask
    pending,      \* orientation_pending: the request that is still wanted
    generation,   \* orientation_generation
    requests,     \* channel to the worker
    computing,    \* the request the worker is busy with
    results,      \* channel from the worker
    history,      \* CaseDraftHistory
    dragging,     \* case_edit_transaction: a numeric editor is being dragged
    edits,        \* edits so far
    mishaps,      \* mishaps so far
    approvals,    \* history: what the operator saw when ticking the approval
    waived        \* history: the waivers the operator has named for a geometry

worker == <<requests, computing, results>>
project == <<ledger, saved, access>>
editing == <<history, dragging>>
budget == <<edits, mishaps>>
decisions == <<approvals, waived>>
orientation == <<draft, pending, generation>>
vars == <<project, desk, dirty, orientation, worker, editing, budget, decisions>>

Nothing == [none |-> TRUE]

Contract ==
    [geometry : Geometries, attitude : Attitudes, grid : Grids, point : Points,
     approved : BOOLEAN, waivers : SUBSET Waivable, model : Models \cup {NoModel},
     source : 1..MaxRevisions, declared : BOOLEAN]
Mask == [geometry : Geometries, attitude : Attitudes]
MaskOf(c) == [geometry |-> c.geometry, attitude |-> c.attitude]

(***************************************************************************)
(* The undo history. A snapshot holds the reversible inputs of the draft;  *)
(* the scope is the case and the source revision they belong to.           *)
(***************************************************************************)
Snapshot(d) ==
    [point |-> d.contract.point, approved |-> d.contract.approved,
     waivers |-> d.contract.waivers]

Restore(d, s) ==
    [d EXCEPT !.contract.point = s.point, !.contract.approved = s.approved,
              !.contract.waivers = s.waivers]

Scope(d) == [case |-> d.case, source |-> d.contract.source]

Cleared == [scope |-> Nothing, undo |-> <<>>, redo |-> <<>>]

Rebased(d) == [Cleared EXCEPT !.scope = Scope(d)]

EnsureScope(h, d) == IF h.scope = Scope(d) THEN h ELSE Rebased(d)

PushBounded(stack, s) ==
    IF Len(stack) < HistoryLimit THEN Append(stack, s) ELSE Append(Tail(stack), s)

\* Mutant: the redo branch survives a new edit.
RecordChangeOnly(h, before, after, coalesce) ==
    LET scoped == EnsureScope(h, after)
    IN  IF Snapshot(before) = Snapshot(after) \/ coalesce THEN scoped
        ELSE [scoped EXCEPT !.undo = PushBounded(@, Snapshot(before))]

RecordChange(h, before, after, coalesce) ==
    LET scoped == [EnsureScope(h, after) EXCEPT !.redo = <<>>]
    IN  IF Snapshot(before) = Snapshot(after) \/ coalesce THEN scoped
        ELSE [scoped EXCEPT !.undo = PushBounded(@, Snapshot(before))]

CanUndo(h, d) == h.scope = Scope(d) /\ h.undo # <<>>
CanRedo(h, d) == h.scope = Scope(d) /\ h.redo # <<>>

UndoOf(h, d) == [h EXCEPT !.undo = Front(@), !.redo = PushBounded(@, Snapshot(d))]
RedoOf(h, d) == [h EXCEPT !.redo = Front(@), !.undo = PushBounded(@, Snapshot(d))]

(***************************************************************************)
(* The ledger, and the commit of a draft d as the next revision.           *)
(***************************************************************************)
Revisions == ledger.revisions
Known(c) == \E r \in DOMAIN Revisions : Revisions[r].case = c

\* Every append makes its revision the active one of the case.
ActiveOf(revisions, c) ==
    CHOOSE r \in DOMAIN revisions :
        /\ revisions[r].case = c
        /\ \A q \in DOMAIN revisions : revisions[q].case = c => q <= r
Active(c) == ActiveOf(Revisions, c)

NewRevision(c, parent, contract) == [case |-> c, parent |-> parent, contract |-> contract]

\* The source revision on record does not carry the approved units, frame and
\* transform of the draft.
SourceChanged(d) ==
    LET recorded == Revisions[d.contract.source].contract
    IN  \/ ~d.contract.declared
        \/ UnitOf(recorded.point) # UnitOf(d.contract.point)
        \/ recorded.attitude # d.contract.attitude

\* Mutant: only the geometry of the revision is compared.
UnchangedGeometry(d) == ~SourceChanged(d) /\ d.revision = Active(d.case)

Unchanged(d) ==
    /\ ~SourceChanged(d)
    /\ d.revision = Active(d.case)
    /\ Revisions[d.revision].contract = d.contract

\* append_case_revision takes a child of the active revision only.
Recordable(d) == d.revision = Active(d.case)

CommittedContract(d) ==
    [d.contract EXCEPT !.declared = TRUE,
                       !.source = IF SourceChanged(d) THEN Len(Revisions) + 1 ELSE @]

\* commit_active_case_revision when it succeeds, for the draft d.
CommitUnchanged(d) ==
    /\ Unchanged(d)
    /\ desk' = d
    /\ dirty' = FALSE
    /\ UNCHANGED <<ledger, editing>>

CommitRevision(d) ==
    /\ ~Unchanged(d)
    /\ Recordable(d)
    /\ Len(Revisions) < MaxRevisions
    /\ desk' = [d EXCEPT !.revision = Len(Revisions) + 1, !.contract = CommittedContract(d)]
    /\ ledger' = [ledger EXCEPT !.revisions =
                      Append(@, NewRevision(d.case, d.revision, CommittedContract(d)))]
    /\ dirty' = FALSE
    /\ history' = Rebased(desk')
    /\ dragging' = FALSE

(***************************************************************************)
(* The desk.                                                               *)
(***************************************************************************)
NoDesk == [case |-> "none"]
HasDesk == desk # NoDesk

Desk ==
    [case : Cases, revision : 1..MaxRevisions, contract : Contract, mask : Mask, run : 0..MaxRuns]

Writable == access = "edit"

\* The page is disabled while a run is in flight and for read-only evidence.
Editable == HasDesk /\ Writable /\ desk.run = 0

\* orientation_geometry_gate
OrientationSettled == draft = Nothing /\ pending = Nothing

Mishap == mishaps < MaxMishaps /\ mishaps' = mishaps + 1

Init ==
    /\ ledger = [revisions |-> <<>>, runs |-> <<>>, selected |-> 0]
    /\ saved = FALSE
    /\ access = "edit"
    /\ desk = NoDesk
    /\ dirty = FALSE
    /\ draft = Nothing /\ pending = Nothing /\ generation = 0
    /\ requests = <<>> /\ computing = Nothing /\ results = <<>>
    /\ history = Cleared /\ dragging = FALSE
    /\ edits = 0 /\ mishaps = 0
    /\ approvals = {} /\ waived = {}

ImportedContract(g, m) ==
    [geometry |-> g, attitude |-> Level, grid |-> ImportGrid(m), point |-> FirstPoint,
     approved |-> FALSE, waivers |-> {}, model |-> m,
     source |-> Len(Revisions) + 1, declared |-> FALSE]

FreshCase == CHOOSE c \in Cases : ~Known(c)

\* A geometry file becomes a revision of the case on the desk or of a new
\* case; it goes ahead of an unsaved draft and of a pending orientation.
ImportCadPath(g, m, c) ==
    LET parent == IF HasDesk THEN desk.revision ELSE 0
        contract == ImportedContract(g, m)
    IN  /\ Writable
        /\ IF HasDesk THEN c = desk.case /\ parent = Active(c) ELSE ~Known(c) /\ c = FreshCase
        /\ Len(Revisions) < MaxRevisions
        /\ ledger' = [ledger EXCEPT !.revisions = Append(@, NewRevision(c, parent, contract))]
        /\ desk' = [case |-> c, revision |-> Len(Revisions) + 1, contract |-> contract,
                    mask |-> MaskOf(contract), run |-> 0]
        /\ saved' = FALSE
        /\ dirty' = FALSE
        /\ draft' = Nothing /\ pending' = Nothing
        /\ history' = Rebased(desk') /\ dragging' = FALSE
        /\ UNCHANGED <<access, generation, worker, budget, decisions>>

\* record_case_draft_change: one changed input, another repaint of a drag.
Edited(d, transaction) ==
    /\ edits < MaxEdits /\ edits' = edits + 1
    /\ desk' = d
    /\ history' = RecordChange(history, desk, d, transaction /\ dragging)
    /\ dragging' = transaction
    /\ dirty' = TRUE
    /\ UNCHANGED <<project, orientation, worker, mishaps>>

EditPoint(p, transaction) ==
    /\ Editable
    /\ p # desk.contract.point
    /\ Edited([desk EXCEPT !.contract.point = p], transaction)
    /\ UNCHANGED decisions

ToggleApproval ==
    /\ Editable
    /\ Edited([desk EXCEPT !.contract.approved = ~@], FALSE)
    /\ approvals' =
           IF desk.contract.approved THEN approvals
           ELSE approvals \cup {MaskOf(desk.contract)}
    /\ UNCHANGED waived

\* A waiver stays when the attitude changes.
RecordWaiver(code) ==
    /\ Editable
    /\ MayWaive(desk.contract, code)
    /\ ~WaiverCovers(desk.contract, code)
    /\ Edited([desk EXCEPT !.contract.waivers = @ \cup {code}], FALSE)
    /\ waived' = waived \cup {<<desk.contract.geometry, code>>}
    /\ UNCHANGED approvals

\* A model is an identity: choosing it is not undone, and nothing before it.
SelectModel(m) ==
    /\ Editable
    /\ edits < MaxEdits /\ edits' = edits + 1
    /\ m \in Selectable(desk.contract) \ {desk.contract.model}
    /\ desk' = [desk EXCEPT !.contract.model = m]
    /\ dirty' = TRUE
    /\ history' = Rebased(desk)
    /\ dragging' = FALSE
    /\ UNCHANGED <<project, orientation, worker, mishaps, decisions>>

EndDrag ==
    /\ dragging
    /\ dragging' = FALSE
    /\ UNCHANGED <<project, desk, dirty, orientation, worker, history, budget, decisions>>

ApplyHistoryAction(restored, remaining) ==
    /\ desk' = Restore(desk, restored)
    /\ history' = remaining
    /\ dragging' = FALSE
    /\ dirty' = TRUE
    /\ UNCHANGED <<project, orientation, worker, budget, decisions>>

Undo ==
    /\ Editable
    /\ CanUndo(history, desk)
    /\ ApplyHistoryAction(Last(history.undo), UndoOf(history, desk))

Redo ==
    /\ Editable
    /\ CanRedo(history, desk)
    /\ ApplyHistoryAction(Last(history.redo), RedoOf(history, desk))

(***************************************************************************)
(* Body orientation.                                                       *)
(***************************************************************************)
Angles(a) == [angles |-> a]
DraftOf(a) == IF a = desk.contract.attitude THEN Nothing ELSE Angles(a)

EditOrientation(a) ==
    /\ Editable
    /\ DraftOf(a) # draft
    /\ draft' = DraftOf(a)
    /\ UNCHANGED <<project, desk, dirty, pending, generation, worker, editing, budget, decisions>>

Request(gen, c, g, a) == [generation |-> gen, case |-> c, geometry |-> g, angles |-> a]

\* A new request supersedes the one that is pending.
Queue(c, g, a, kind) ==
    /\ generation < MaxRequests
    /\ generation' = generation + 1
    /\ requests' = Append(requests, Request(generation + 1, c, g, a))
    /\ pending' = [request |-> Request(generation + 1, c, g, a), kind |-> kind]

RequestMatches(a) == pending # Nothing /\ pending.request.angles = a

ApplyBodyOrientation(a) ==
    /\ Editable
    /\ \/ DraftOf(a) # Nothing /\ draft = DraftOf(a) /\ ~RequestMatches(a)
       \/ a = Level /\ (draft # Nothing \/ desk.contract.attitude # Level)     \* Level button
    /\ Len(Revisions) < MaxRevisions
    /\ draft' = DraftOf(a)
    /\ Queue(desk.case, desk.contract.geometry, a, "draft")
    /\ UNCHANGED <<project, desk, dirty, computing, results, editing, budget, decisions>>

\* Mutant: the oldest queued request is started, the newer ones are lost.
TakeOldest ==
    /\ computing = Nothing
    /\ requests # <<>>
    /\ computing' = Head(requests)
    /\ requests' = <<>>
    /\ UNCHANGED <<project, desk, dirty, orientation, results, editing, budget, decisions>>

\* The worker starts the newest queued request and drops the others.
TakeNewest ==
    /\ computing = Nothing
    /\ requests # <<>>
    /\ computing' = Last(requests)
    /\ requests' = <<>>
    /\ UNCHANGED <<project, desk, dirty, orientation, results, editing, budget, decisions>>

Finish(ok) ==
    /\ computing # Nothing
    /\ IF ok THEN UNCHANGED mishaps ELSE Mishap
    /\ results' = Append(results, [request |-> computing, ok |-> ok])
    /\ computing' = Nothing
    /\ UNCHANGED <<project, desk, dirty, orientation, requests, editing, edits, decisions>>

\* classify_orientation_result
CurrentContext(p) ==
    IF p.kind = "draft"
    THEN HasDesk /\ p.request.case = desk.case /\ p.request.geometry = desk.contract.geometry
    ELSE ~HasDesk

\* Mutant: whatever arrives is taken for the answer to the pending request.
WantedInContext(r) == pending # Nothing /\ CurrentContext(pending)

Wanted(r) == pending # Nothing /\ pending.request = r.request /\ CurrentContext(pending)

Arrived == Head(results)
Consume == results # <<>> /\ results' = Tail(results)

\* A run in flight or lost write access refuses a new attitude.
Installs(r) ==
    /\ Wanted(r)
    /\ r.ok
    /\ pending.kind = "draft" => Writable /\ desk.run = 0

\* A stale, failed or refused result changes nothing but the gate.
DiscardResult ==
    /\ Consume
    /\ ~Installs(Arrived)
    /\ pending' = IF pending # Nothing /\ pending.request = Arrived.request THEN Nothing
                  ELSE pending
    /\ UNCHANGED <<project, desk, dirty, draft, generation, requests, computing, editing,
                   budget, decisions>>

\* Mutant: the approval outlives the attitude it was given for.
ReorientedOnly(a) ==
    [desk EXCEPT !.contract.attitude = a,
                 !.mask = [geometry |-> Arrived.request.geometry, attitude |-> a]]

Reoriented(a) ==
    [desk EXCEPT !.contract.attitude = a, !.contract.approved = FALSE,
                 !.mask = [geometry |-> Arrived.request.geometry, attitude |-> a]]

\* The new attitude takes effect and is committed; when the commit is refused
\* the draft keeps it, unrecorded, and the history is not rebased.
InstallBodyOrientation ==
    LET oriented == Reoriented(Arrived.request.angles)
    IN  /\ Consume
        /\ Installs(Arrived) /\ pending.kind = "draft"
        /\ pending' = Nothing
        /\ draft' = IF draft = Angles(Arrived.request.angles) THEN Nothing ELSE draft
        /\ \/ CommitUnchanged(oriented) /\ UNCHANGED saved
           \/ CommitRevision(oriented) /\ saved' = FALSE
           \/ /\ ~Unchanged(oriented) /\ ~Recordable(oriented)
              /\ desk' = oriented
              /\ dirty' = TRUE
              /\ UNCHANGED <<ledger, saved, editing>>
        /\ UNCHANGED <<access, generation, requests, computing, budget, decisions>>

(***************************************************************************)
(* Runs, persistence and stored cases.                                     *)
(***************************************************************************)
StartedRun == [revision |-> desk'.revision, mask |-> desk.mask, state |-> "running"]

\* Commit, then the immutable attempt, checkpointed before it is sent.
RunExternalFlow ==
    /\ Editable
    /\ OrientationSettled
    /\ Ready(desk.contract)
    /\ Len(ledger.runs) < MaxRuns
    /\ LET d == [desk EXCEPT !.run = Len(ledger.runs) + 1]
       IN  /\ \/ Unchanged(d) /\ desk' = d
              \/ /\ ~Unchanged(d) /\ Recordable(d) /\ Len(Revisions) < MaxRevisions
                 /\ desk' = [d EXCEPT !.revision = Len(Revisions) + 1,
                                      !.contract = CommittedContract(d)]
           /\ ledger' =
                  [ledger EXCEPT
                     !.revisions = IF Unchanged(d) THEN @
                                   ELSE Append(@, NewRevision(d.case, d.revision,
                                                              CommittedContract(d))),
                     !.runs = Append(@, StartedRun)]
    /\ saved' = TRUE
    /\ dirty' = FALSE
    /\ history' = Rebased(desk') /\ dragging' = FALSE
    /\ UNCHANGED <<access, orientation, worker, budget, decisions>>

\* The checkpoint fails: the commit stands, the attempt is taken back.
RunNotStarted ==
    /\ Editable
    /\ OrientationSettled
    /\ Ready(desk.contract)
    /\ Mishap
    /\ \/ /\ Unchanged(desk)
          /\ dirty' = FALSE
          /\ history' = Rebased(desk) /\ dragging' = FALSE
          /\ UNCHANGED <<ledger, saved, desk>>
       \/ CommitRevision(desk) /\ saved' = FALSE
    /\ UNCHANGED <<access, orientation, worker, edits, decisions>>

EndRun(state) ==
    /\ HasDesk /\ desk.run # 0
    /\ desk' = [desk EXCEPT !.run = 0]
    /\ IF Writable
       THEN /\ ledger' = [ledger EXCEPT !.runs[desk.run].state = state,
                                        !.selected = IF state = "succeeded" THEN desk.run ELSE @]
            /\ saved' = TRUE
       ELSE UNCHANGED <<ledger, saved>>
    /\ UNCHANGED <<access, dirty, orientation, worker, editing, budget, decisions>>

\* Save, or an autosave that is due: the draft is committed first, and stays
\* committed when the file cannot be written.
Persist ==
    /\ Writable
    /\ OrientationSettled
    /\ ~saved \/ dirty
    /\ \/ dirty /\ HasDesk /\ (CommitUnchanged(desk) \/ CommitRevision(desk))
       \/ ~dirty /\ UNCHANGED <<ledger, desk, dirty, editing>>
    /\ \/ saved' = TRUE /\ UNCHANGED mishaps
       \/ saved' = (saved /\ ledger' = ledger) /\ Mishap
    /\ UNCHANGED <<access, orientation, worker, edits, decisions>>

HasEvidence(x) == x # 0 /\ ledger.runs[x].state = "succeeded"

\* hydrate_engineering_run: the desk shows the run with the contract and the
\* revision it was computed from, whatever was on it.
HydratedRun(x) ==
    LET r == ledger.runs[x].revision
    IN  [case |-> Revisions[r].case, revision |-> r, contract |-> Revisions[r].contract,
         mask |-> ledger.runs[x].mask, run |-> 0]

SelectExternalRun(x) ==
    /\ IF Writable THEN ledger' = [ledger EXCEPT !.selected = x] /\ saved' = FALSE
       ELSE UNCHANGED <<ledger, saved>>
    /\ IF HasEvidence(x)
       THEN desk' = HydratedRun(x) /\ pending' = Nothing /\ history' = Rebased(desk')
       ELSE history' = Cleared /\ UNCHANGED <<desk, pending>>
    /\ dragging' = FALSE
    /\ UNCHANGED <<access, dirty, draft, generation, worker, budget, decisions>>

FirstCase == Revisions[1].case

\* hydrate_external_flow_runtime: no run is selected; the mask of the case is
\* not stored and the worker has to rebuild it.
RebuildMask ==
    LET c == Revisions[Active(FirstCase)].contract
    IN  Queue(FirstCase, c.geometry, c.attitude, "hydrate")

\* A saved project or snapshot is opened again; what was not saved is gone.
Reopen ==
    /\ saved
    /\ dirty' = FALSE
    /\ draft' = Nothing
    /\ dragging' = FALSE
    /\ IF HasEvidence(ledger.selected)
       THEN desk' = HydratedRun(ledger.selected) /\ history' = Rebased(desk')
       ELSE desk' = NoDesk /\ history' = Cleared
    /\ IF ledger.selected = 0 /\ Revisions # <<>> THEN RebuildMask
       ELSE pending' = Nothing /\ UNCHANGED <<generation, requests>>
    /\ UNCHANGED <<project, computing, results, budget, decisions>>

InstallHydratedBodyOrientation ==
    LET r == Active(Arrived.request.case)
    IN  /\ Consume
        /\ Installs(Arrived) /\ pending.kind = "hydrate"
        /\ desk' = [case |-> Arrived.request.case, revision |-> r,
                    contract |-> Revisions[r].contract, run |-> 0,
                    mask |-> [geometry |-> Arrived.request.geometry,
                              attitude |-> Arrived.request.angles]]
        /\ pending' = Nothing /\ draft' = Nothing
        /\ history' = Rebased(desk') /\ dragging' = FALSE
        /\ UNCHANGED <<project, dirty, generation, requests, computing, budget, decisions>>

\* A dependency of the project goes missing or is found again.
ReconcileDependencies ==
    /\ IF Writable THEN Mishap /\ access' = "read_only"
       ELSE access' = "edit" /\ UNCHANGED mishaps
    /\ UNCHANGED <<ledger, saved, desk, dirty, orientation, worker, editing, edits, decisions>>

EditCase ==
    \/ \E p \in Points, transaction \in BOOLEAN : EditPoint(p, transaction)
    \/ ToggleApproval \/ EndDrag \/ Undo \/ Redo
    \/ \E code \in Waivable : RecordWaiver(code)
    \/ \E m \in Models : SelectModel(m)
    \/ \E a \in Attitudes : EditOrientation(a) \/ ApplyBodyOrientation(a)

Work == TakeNewest \/ (\E ok \in BOOLEAN : Finish(ok))

HandleOrientationResults ==
    DiscardResult \/ InstallBodyOrientation \/ InstallHydratedBodyOrientation

Next ==
    \/ \E g \in Geometries, m \in Chosen, c \in Cases : ImportCadPath(g, m, c)
    \/ EditCase
    \/ Work
    \/ HandleOrientationResults
    \/ RunExternalFlow
    \/ RunNotStarted
    \/ \E state \in {"succeeded", "failed"} : EndRun(state)
    \/ Persist
    \/ \E x \in DOMAIN ledger.runs : SelectExternalRun(x)
    \/ Reopen
    \/ ReconcileDependencies

\* The worker thread runs on, and every frame handles what has arrived.
Fairness == WF_vars(Work) /\ WF_vars(HandleOrientationResults)

Spec == Init /\ [][Next]_vars
FairSpec == Spec /\ Fairness

(***************************************************************************)
(* Properties.                                                             *)
(***************************************************************************)
Snapshots == [point : Points, approved : BOOLEAN, waivers : SUBSET Waivable]
WorkRequest ==
    [generation : 1..MaxRequests, case : Cases, geometry : Geometries, angles : Attitudes]
Revision == [case : Cases, parent : 0..MaxRevisions, contract : Contract]
Run == [revision : 1..MaxRevisions, mask : Mask, state : {"running", "succeeded", "failed"}]

TypeOK ==
    /\ ledger \in [revisions : Seq(Revision), runs : Seq(Run), selected : 0..MaxRuns]
    /\ Len(ledger.revisions) <= MaxRevisions /\ Len(ledger.runs) <= MaxRuns
    /\ saved \in BOOLEAN /\ access \in {"edit", "read_only"}
    /\ desk \in Desk \cup {NoDesk} /\ dirty \in BOOLEAN
    /\ draft \in {Angles(a) : a \in Attitudes} \cup {Nothing}
    /\ pending \in [request : WorkRequest, kind : {"draft", "hydrate"}] \cup {Nothing}
    /\ generation \in 0..MaxRequests
    /\ requests \in Seq(WorkRequest) /\ computing \in WorkRequest \cup {Nothing}
    /\ results \in Seq([request : WorkRequest, ok : BOOLEAN])
    /\ history \in [scope : [case : Cases, source : 1..MaxRevisions] \cup {Nothing},
                    undo : Seq(Snapshots), redo : Seq(Snapshots)]
    /\ Len(history.undo) <= HistoryLimit /\ Len(history.redo) <= HistoryLimit
    /\ dragging \in BOOLEAN /\ edits \in 0..MaxEdits /\ mishaps \in 0..MaxMishaps
    /\ approvals \subseteq Mask
    /\ waived \subseteq Geometries \X Waivable

\* The mask on the desk is that of the geometry and the attitude its contract
\* shows: a late result of an older attitude, another geometry or another case
\* is never installed (classify_orientation_result, app.rs:395).
MaskMatchesContract == HasDesk => desk.mask = MaskOf(desk.contract)

\* What a run computes on is what its revision records, and the operator has
\* approved this attitude of this geometry: no undo, stored case or late
\* result brings an approval back for an attitude it was not given for.
RunsAreApproved ==
    \A x \in DOMAIN ledger.runs :
        LET c == Revisions[ledger.runs[x].revision].contract
        IN  /\ ledger.runs[x].mask = MaskOf(c)
            /\ c.approved
            /\ MaskOf(c) \in approvals

\* Every finding that stood against a run is one that may be waived and that
\* the operator has waived for this geometry; one waiver does not answer the
\* finding that a later attitude brings (waiver_covers, engineering.rs:527).
IssuesAreWaived ==
    \A x \in DOMAIN ledger.runs :
        LET c == Revisions[ledger.runs[x].revision].contract
        IN  \A code \in SupportIssues(c) : code \in c.waivers /\ <<c.geometry, code>> \in waived

\* Undo and redo walk along the same line of drafts and lose none of them,
\* although both stacks are bounded (push_bounded, engineering.rs:803).
Timeline == history.undo \o <<Snapshot(desk)>> \o Reverse(history.redo)
UndoLosesNothing == [][Undo \/ Redo => Timeline' = Timeline]_vars

\* A draft that is not marked as unsaved is the revision it claims to be: what
\* Save and autosave skip is on record (app.rs:1254).
CleanDraftIsRecorded ==
    HasDesk /\ ~dirty => desk.contract = Revisions[desk.revision].contract

\* Every orientation request ends: its result is installed, or fails, or it is
\* given up, and runs and saves are not gated for ever (app.rs:110).
OrientationSettles == pending # Nothing ~> pending = Nothing
=============================================================================
