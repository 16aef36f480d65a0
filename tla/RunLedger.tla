----------------------------- MODULE RunLedger -----------------------------
(***************************************************************************)
(* The project ledger of src/project.rs (ProjectManifest): source          *)
(* revisions, cases with their revisions and runs, evidence and the        *)
(* current selection.  Every public operation validates its argument and   *)
(* either returns an error, which leaves the manifest as it was, or pushes *)
(* one record.  An action below is the successful call; a failed call is a *)
(* stuttering step.                                                        *)
(*                                                                         *)
(* An object that does not exist is None.  A Vec position is the length of *)
(* its Vec at the push, kept in the case (revisionCount, runCount) and in  *)
(* evidenceCount, because the loader depends on "an earlier entry".        *)
(* Digests, names, timestamps and warnings are left out: no property here  *)
(* tells them apart.                                                       *)
(***************************************************************************)
EXTENDS Naturals

CONSTANTS SourceId, CaseId, RevisionId, RunId, EvidenceId, ViewId,
          Contract, Discretization, Outputs,   \* the inputs of a revision
          AttemptInputs,                       \* what same_attempt_inputs compares
          Payload, Key,                        \* canonical report payload, signing key
          Recorded,                            \* the attempt states callers record
          None

ASSUME RecordedStates ==
    Recorded \subseteq {"pending", "running", "succeeded", "evidence_locked",
                        "failed", "cancelled"}

VARIABLES sources, revisions, cases, runs, evidence, evidenceCount, selection

ledger == <<sources, revisions, cases, runs, evidence, evidenceCount, selection>>

Stage == {"contract", "discretization", "run", "evidence"}
OpenState == {"pending", "running"}
SuccessState == {"succeeded", "evidence_locked"}
TerminalState == SuccessState \cup {"failed", "cancelled"}

Setup == [sources : SUBSET SourceId, contract : Contract,
          discretization : Discretization, outputs : Outputs]

SourceRecord == [parent : SourceId \cup {None}]
RevisionRecord == [case : CaseId, parent : RevisionId \cup {None},
                   setup : Setup, at : Nat]
CaseRecord == [active : RevisionId, stale : SUBSET Stage,
               revisionCount : Nat, runCount : Nat]
RunRecord == [case : CaseId, revision : RevisionId, parent : RunId \cup {None},
              inputs : AttemptInputs, state : OpenState \cup TerminalState,
              determinism : RunId \cup {None}, views : SUBSET ViewId, at : Nat]
EvidenceRecord == [runs : SUBSET RunId, views : SUBSET ViewId,
                   class : {"derived", "signature"},
                   parent : EvidenceId \cup {None},
                   payload : Payload \cup {None}, key : Key \cup {None}, at : Nat]
Selection == [case : CaseId \cup {None}, run : RunId \cup {None},
              evidence : EvidenceId \cup {None}, view : ViewId \cup {None}]

ASSUME NoneIsNoObject ==
    /\ None \notin SourceId \cup CaseId \cup RevisionId \cup RunId
    /\ None \notin EvidenceId \cup ViewId \cup Payload \cup Key
    /\ None \notin SourceRecord \cup RevisionRecord \cup CaseRecord
    /\ None \notin RunRecord \cup EvidenceRecord

\* The manifest has the shape of its Rust type.
TypeOK ==
    /\ sources \in [SourceId -> SourceRecord \cup {None}]
    /\ revisions \in [RevisionId -> RevisionRecord \cup {None}]
    /\ cases \in [CaseId -> CaseRecord \cup {None}]
    /\ runs \in [RunId -> RunRecord \cup {None}]
    /\ evidence \in [EvidenceId -> EvidenceRecord \cup {None}]
    /\ evidenceCount \in Nat
    /\ selection \in Selection

Present(objects) == {id \in DOMAIN objects : objects[id] # None}
PresentOrNone(objects) == Present(objects) \cup {None}

Init ==
    /\ sources = [s \in SourceId |-> None]
    /\ revisions = [r \in RevisionId |-> None]
    /\ cases = [c \in CaseId |-> None]
    /\ runs = [x \in RunId |-> None]
    /\ evidence = [e \in EvidenceId |-> None]
    /\ evidenceCount = 0
    /\ selection = [case |-> None, run |-> None, evidence |-> None, view |-> None]

-----------------------------------------------------------------------------
(* Sources and case revisions.                                             *)

AddSourceRevision(s, parent) ==
    /\ sources[s] = None
    /\ parent \in PresentOrNone(sources)
    /\ sources' = [sources EXCEPT ![s] = [parent |-> parent]]
    /\ UNCHANGED <<revisions, cases, runs, evidence, evidenceCount, selection>>

ValidSources(setup) == setup.sources \subseteq Present(sources)

CreateCase(c, r, setup) ==
    /\ cases[c] = None
    /\ revisions[r] = None
    /\ ValidSources(setup)
    /\ revisions' = [revisions EXCEPT ![r] =
                        [case |-> c, parent |-> None, setup |-> setup, at |-> 0]]
    /\ cases' = [cases EXCEPT ![c] =
                    [active |-> r, stale |-> {}, revisionCount |-> 1, runCount |-> 0]]
    /\ UNCHANGED <<sources, runs, evidence, evidenceCount, selection>>

\* Mutant: an edit of the contract leaves the run current.
StaleStagesWithoutRun(old, new) ==
    (IF old.sources # new.sources THEN Stage ELSE {})
      \cup (IF old.contract # new.contract THEN {"discretization", "evidence"} ELSE {})

StaleStagesAgainst(old, new) ==
    (IF old.sources # new.sources THEN Stage ELSE {})
      \cup (IF old.contract # new.contract
            THEN {"discretization", "run", "evidence"} ELSE {})
      \cup (IF old.discretization # new.discretization \/ old.outputs # new.outputs
            THEN {"run", "evidence"} ELSE {})

\* Mutant: any revision of the case may be the parent.
AnyRevisionOf(c) == {r \in Present(revisions) : revisions[r].case = c}

\* The new revision must parent the active one.
AllowedParents(c) == {cases[c].active}

\* Its difference from the active one replaces the stale stages of the case.
AppendCaseRevision(c, r, setup) ==
    /\ revisions[r] = None
    /\ ValidSources(setup)
    /\ cases[c] # None
    /\ \E parent \in AllowedParents(c) :
          revisions' = [revisions EXCEPT ![r] =
                           [case |-> c, parent |-> parent, setup |-> setup,
                            at |-> cases[c].revisionCount]]
    /\ cases' = [cases EXCEPT
                    ![c].active = r,
                    ![c].stale = StaleStagesAgainst(revisions[cases[c].active].setup, setup),
                    ![c].revisionCount = @ + 1]
    /\ UNCHANGED <<sources, runs, evidence, evidenceCount, selection>>

-----------------------------------------------------------------------------
(* Runs.                                                                   *)

\* validate_run: an attempt has no output before it ends.
ValidRun(run) == run.state \in OpenState => run.determinism = None /\ run.views = {}

\* validate_determinism, and no determinism record without a parent.
ValidDeterminism(run) == run.determinism \in {None, run.parent}

\* Mutant: a success makes only its own stage current.
StaleAfterRunOnly(case, run) ==
    IF run.revision = case.active /\ run.state \in SuccessState
    THEN case.stale \ {"run"}
    ELSE case.stale

\* A success on the active revision makes all stages but the evidence current.
StaleAfterRun(case, run) ==
    IF run.revision = case.active /\ run.state \in SuccessState
    THEN case.stale \ {"contract", "discretization", "run"}
    ELSE case.stale

AppendRun(x, run) ==
    LET c == run.case IN
    /\ runs[x] = None
    /\ ValidRun(run)
    /\ cases[c] # None
    /\ revisions[run.revision] # None /\ revisions[run.revision].case = c
    /\ run.parent # None => runs[run.parent] # None /\ runs[run.parent].case = c
    /\ ValidDeterminism(run)
    /\ run.at = cases[c].runCount
    /\ runs' = [runs EXCEPT ![x] = run]
    /\ cases' = [cases EXCEPT ![c].stale = StaleAfterRun(cases[c], run),
                              ![c].runCount = @ + 1]
    /\ UNCHANGED <<sources, revisions, evidence, evidenceCount, selection>>

\* Mutant: a recorded run may be finished again.
Recordable(x) == runs[x] # None

\* An attempt is closed once.
Unfinished(x) == runs[x] # None /\ runs[x].state \in OpenState

\* Only the state and the outputs may differ from the persisted attempt.
FinishRunAttempt(x, state, determinism, views) ==
    /\ state \in TerminalState
    /\ Unfinished(x)
    /\ LET run == [runs[x] EXCEPT !.state = state, !.determinism = determinism,
                                  !.views = views]
           c == runs[x].case
       IN  /\ ValidDeterminism(run)
           /\ runs' = [runs EXCEPT ![x] = run]
           /\ cases' = [cases EXCEPT ![c].stale = StaleAfterRun(cases[c], run)]
    /\ UNCHANGED <<sources, revisions, evidence, evidenceCount, selection>>

-----------------------------------------------------------------------------
(* Evidence and the selection.                                             *)

\* validate_signature_artifact, against the evidence recorded before position n.
MatchesReport(artifact, n) ==
    /\ artifact.payload # None /\ artifact.key # None
    /\ artifact.parent # None
    /\ evidence[artifact.parent] # None
    /\ LET report == evidence[artifact.parent]
       IN  /\ report.at < n
           /\ report.class = "derived"
           /\ report.runs = artifact.runs
           /\ report.payload = artifact.payload

SignedBefore(artifact, n) ==
    \E e \in Present(evidence) :
        /\ evidence[e].at < n
        /\ evidence[e].class = "signature"
        /\ evidence[e].payload = artifact.payload
        /\ evidence[e].key = artifact.key

\* Mutant: a report may be signed again.
ValidRepeatedSignature(artifact, n) ==
    artifact.class = "signature" => MatchesReport(artifact, n)

ValidSignature(artifact, n) ==
    artifact.class = "signature" => MatchesReport(artifact, n) /\ ~SignedBefore(artifact, n)

ValidEvidence(artifact) ==
    /\ ValidSignature(artifact, evidenceCount)
    /\ artifact.runs # {}
    /\ artifact.runs \subseteq Present(runs)

RunsOnActiveRevision(c, ids) ==
    {x \in ids : runs[x].case = c /\ runs[x].revision = cases[c].active}

AppendEvidence(e, artifact) ==
    /\ evidence[e] = None
    /\ artifact.at = evidenceCount
    /\ ValidEvidence(artifact)
    /\ evidence' = [evidence EXCEPT ![e] = artifact]
    /\ evidenceCount' = evidenceCount + 1
    /\ cases' = [c \in CaseId |->
                    IF cases[c] # None /\ RunsOnActiveRevision(c, artifact.runs) # {}
                    THEN [cases[c] EXCEPT !.stale = @ \ {"evidence"}]
                    ELSE cases[c]]
    /\ UNCHANGED <<sources, revisions, runs, selection>>

SelectionResolves(s) ==
    /\ s.case \in PresentOrNone(cases)
    /\ s.run \in PresentOrNone(runs)
    /\ s.case # None /\ s.run # None => runs[s.run].case = s.case
    /\ s.evidence \in PresentOrNone(evidence)
    /\ s.evidence # None /\ s.run # None => s.run \in evidence[s.evidence].runs
    /\ s.view # None => \/ s.run # None /\ s.view \in runs[s.run].views
                        \/ s.evidence # None /\ s.view \in evidence[s.evidence].views

\* Mutant: a selection is not resolved.
SetAnySelection(s) ==
    /\ selection' = s
    /\ UNCHANGED <<sources, revisions, cases, runs, evidence, evidenceCount>>

SetSelection(s) ==
    /\ SelectionResolves(s)
    /\ selection' = s
    /\ UNCHANGED <<sources, revisions, cases, runs, evidence, evidenceCount>>

-----------------------------------------------------------------------------
NewRun(c, r, parent, inputs, state, determinism, views) ==
    [case |-> c, revision |-> r, parent |-> parent, inputs |-> inputs,
     state |-> state, determinism |-> determinism, views |-> views,
     at |-> cases[c].runCount]

Report(xs, views, payload) ==
    [runs |-> xs, views |-> views, class |-> "derived", parent |-> None,
     payload |-> payload, key |-> None, at |-> evidenceCount]

Signature(parent, xs, payload, key) ==
    [runs |-> xs, views |-> {}, class |-> "signature", parent |-> parent,
     payload |-> payload, key |-> key, at |-> evidenceCount]

Next ==
    \/ \E s \in SourceId, p \in SourceId \cup {None} : AddSourceRevision(s, p)
    \/ \E c \in CaseId, r \in RevisionId, setup \in Setup :
            CreateCase(c, r, setup) \/ AppendCaseRevision(c, r, setup)
    \/ \E x \in RunId, c \in Present(cases), r \in RevisionId, p \in RunId \cup {None},
          i \in AttemptInputs, st \in Recorded,
          d \in RunId \cup {None}, v \in SUBSET ViewId :
            AppendRun(x, NewRun(c, r, p, i, st, d, v))
    \/ \E x \in RunId, st \in Recorded, d \in RunId \cup {None}, v \in SUBSET ViewId :
            FinishRunAttempt(x, st, d, v)
    \/ \E e \in EvidenceId, xs \in SUBSET RunId, v \in SUBSET ViewId,
          pl \in Payload \cup {None} :
            AppendEvidence(e, Report(xs, v, pl))
    \/ \E e, p \in EvidenceId, xs \in SUBSET RunId, pl \in Payload, k \in Key :
            AppendEvidence(e, Signature(p, xs, pl, k))
    \/ \E s \in Selection : SetSelection(s)

Spec == Init /\ [][Next]_ledger

-----------------------------------------------------------------------------
(* Properties.                                                             *)

\* The checks the operations make one at a time add up to the checks the
\* loader makes on the whole manifest (validate_loaded): a project the program
\* built can always be saved (to_bytes validates first) and opened again.
LoadableCases ==
    \A c \in Present(cases) :
        /\ revisions[cases[c].active] # None
        /\ revisions[cases[c].active].case = c

LoadableRevisions ==
    \A r \in Present(revisions) :
        LET revision == revisions[r] IN
        /\ cases[revision.case] # None
        /\ revision.at < cases[revision.case].revisionCount
        /\ ValidSources(revision.setup)
        /\ (revision.at = 0) <=> (revision.parent = None)
        /\ revision.parent # None =>
              /\ revisions[revision.parent] # None
              /\ revisions[revision.parent].case = revision.case
              /\ revisions[revision.parent].at < revision.at

LoadableRuns ==
    \A x \in Present(runs) :
        LET run == runs[x] IN
        /\ cases[run.case] # None
        /\ run.at < cases[run.case].runCount
        /\ revisions[run.revision] # None /\ revisions[run.revision].case = run.case
        /\ run.parent # None => /\ runs[run.parent] # None
                                /\ runs[run.parent].case = run.case
                                /\ runs[run.parent].at < run.at
        /\ ValidDeterminism(run)
        /\ ValidRun(run)

LoadableEvidence ==
    \A e \in Present(evidence) :
        /\ evidence[e].at < evidenceCount
        /\ evidence[e].runs # {}
        /\ evidence[e].runs \subseteq Present(runs)
        /\ ValidSignature(evidence[e], evidence[e].at)

LoaderAccepts ==
    /\ \A s \in Present(sources) : sources[s].parent \in PresentOrNone(sources)
    /\ LoadableCases
    /\ LoadableRevisions
    /\ LoadableRuns
    /\ LoadableEvidence
    /\ SelectionResolves(selection)

\* A case has one line of descent: a revision that is not the active one has
\* exactly one child, so no edit is lost on a branch nobody sees
\* (append_case_revision refuses a revision that does not parent the active one).
Child(r, q) == revisions[q] # None /\ revisions[q].parent = r
OneLineOfDescent ==
    \A r \in Present(revisions) :
        /\ \A p, q \in RevisionId : Child(r, p) /\ Child(r, q) => p = q
        /\ (cases[revisions[r].case].active = r) <=> (\A q \in RevisionId : ~Child(r, q))

\* A case that does not list a stage as stale has a reason: the active revision
\* is the first one, repeats its parent's inputs, or has been run (for the run
\* stage) and described by evidence (for the evidence stage).
Unedited(r) ==
    \/ revisions[r].parent = None
    \/ revisions[r].setup = revisions[revisions[r].parent].setup
FreshHasAReason ==
    \A c \in Present(cases) :
        LET r == cases[c].active IN
        /\ \/ "run" \in cases[c].stale
           \/ Unedited(r)
           \/ \E x \in Present(runs) : runs[x].revision = r /\ runs[x].state \in SuccessState
        /\ \/ "evidence" \in cases[c].stale
           \/ Unedited(r)
           \/ \E e \in Present(evidence) : RunsOnActiveRevision(c, evidence[e].runs) # {}

\* Staleness flows downstream: a stale contract makes the discretization stale,
\* a stale discretization the run (StaleStagesAgainst adds them together and
\* a success removes them together).
StaleFlowsDownstream ==
    \A c \in Present(cases) :
        /\ "contract" \in cases[c].stale => "discretization" \in cases[c].stale
        /\ "discretization" \in cases[c].stale => "run" \in cases[c].stale

\* Runs, evidence and revisions are immutable: nothing recorded is ever removed
\* or changed, except that an open attempt may be closed once, with the inputs
\* and the lineage it was submitted with.
SameAttempt(old, new) ==
    /\ new # None
    /\ <<new.case, new.revision, new.parent, new.inputs, new.at>>
         = <<old.case, old.revision, old.parent, old.inputs, old.at>>
Immutable ==
    /\ \A s \in Present(sources) : sources'[s] = sources[s]
    /\ \A r \in Present(revisions) : revisions'[r] = revisions[r]
    /\ \A e \in Present(evidence) : evidence'[e] = evidence[e]
    /\ \A x \in Present(runs) :
          \/ runs'[x] = runs[x]
          \/ runs[x].state \in OpenState /\ SameAttempt(runs[x], runs'[x])
                /\ runs'[x].state \in TerminalState
HistoryIsImmutable == [][Immutable]_ledger

\* A report is signed at most once with a key, and a signature speaks of the
\* same runs as the report it signs (validate_signature_artifact).
OneSignaturePerReport ==
    \A e, f \in Present(evidence) :
        evidence[e].class = "signature" =>
            /\ evidence[e].runs = evidence[evidence[e].parent].runs
            /\ evidence[f].class = "signature"
                 /\ <<evidence[e].payload, evidence[e].key>>
                      = <<evidence[f].payload, evidence[f].key>> => e = f

\* "Editing a case creates a new revision and marks dependent stages stale"
\* (PRD.md, the domain model): an edit adds stale stages, and only a run or
\* evidence takes one away.
EditOnlyAddsStaleStages ==
    [][\A c \in Present(cases) :
          LET old == cases[c] new == cases'[c] IN
          new.active # old.active
            /\ revisions'[new.active].setup # revisions[old.active].setup
            => old.stale \subseteq new.stale]_ledger
=============================================================================
