-------------------------- MODULE RunLedger_proofs --------------------------
(***************************************************************************)
(* Theorems about the project ledger, for any sets of identifiers.  The    *)
(* type of the manifest comes first, on its own.  What the loader checks,  *)
(* the line of descent, the reasons and the flow of staleness, and the     *)
(* positions of evidence are then one inductive invariant (Ledger): one    *)
(* lemma per operation says what it leaves of the records, one per part of *)
(* the invariant that a step keeps it.                                     *)
(***************************************************************************)
EXTENDS RunLedger, TLAPS

\* What a revision stales is a set of stages.
LEMMA StaleStagesType ==
    \A old, new : StaleStagesAgainst(old, new) \subseteq Stage
BY DEF StaleStagesAgainst, Stage

\* The run record the next-state relation builds is well formed.
LEMMA NewRunType ==
    ASSUME TypeOK,
           NEW c \in Present(cases), NEW r \in RevisionId, NEW p \in RunId \cup {None},
           NEW i \in AttemptInputs, NEW st \in Recorded, NEW d \in RunId \cup {None},
           NEW v \in SUBSET ViewId
    PROVE  NewRun(c, r, p, i, st, d, v) \in RunRecord
BY RecordedStates DEF NewRun, RunRecord, TypeOK, Present, CaseRecord, OpenState,
                      TerminalState, SuccessState

\* Every run belongs to a case the manifest holds.
RunsHaveCases == \A x \in Present(runs) : cases[runs[x].case] # None
Shape == TypeOK /\ RunsHaveCases

\* The three ways an operation updates a case record keep its shape.
LEMMA CaseRecordUpdate ==
    ASSUME NEW case \in CaseRecord, NEW stale \in SUBSET Stage
    PROVE  /\ [case EXCEPT !.stale = stale] \in CaseRecord
           /\ [case EXCEPT !.stale = stale, !.runCount = @ + 1] \in CaseRecord
           /\ \A r \in RevisionId :
                [case EXCEPT !.active = r, !.stale = stale, !.revisionCount = @ + 1]
                  \in CaseRecord
<1>1. case.runCount + 1 \in Nat /\ case.revisionCount + 1 \in Nat
  BY DEF CaseRecord
<1>2. \A n \in Nat, r \in RevisionId :
        [case EXCEPT !.active = r, !.stale = stale, !.revisionCount = n] \in CaseRecord
  BY DEF CaseRecord
<1>3. \A n \in Nat : /\ [case EXCEPT !.stale = stale] \in CaseRecord
                     /\ [case EXCEPT !.stale = stale, !.runCount = n] \in CaseRecord
  BY DEF CaseRecord
<1> QED BY <1>1, <1>2, <1>3

\* Replacing the record of a case that exists adds and removes no case.
LEMMA CaseUpdate ==
    ASSUME TypeOK, NEW c \in CaseId, cases[c] # None, NEW case \in CaseRecord,
           cases' = [cases EXCEPT ![c] = case]
    PROVE  /\ cases' \in [CaseId -> CaseRecord \cup {None}]
           /\ Present(cases)' = Present(cases)
BY NoneIsNoObject DEF TypeOK, Present

\* Every step is one of the operations on well-formed arguments.
LEMMA StepCases ==
    ASSUME TypeOK, [Next]_ledger
    PROVE  \/ \E s \in SourceId, p \in SourceId \cup {None} : AddSourceRevision(s, p)
           \/ \E c \in CaseId, r \in RevisionId, setup \in Setup : CreateCase(c, r, setup)
           \/ \E c \in CaseId, r \in RevisionId, setup \in Setup :
                  AppendCaseRevision(c, r, setup)
           \/ \E x \in RunId, run \in RunRecord : AppendRun(x, run)
           \/ \E x \in RunId, st \in TerminalState, d \in RunId \cup {None},
                 v \in SUBSET ViewId : FinishRunAttempt(x, st, d, v)
           \/ \E e \in EvidenceId, a \in EvidenceRecord : AppendEvidence(e, a)
           \/ \E s \in Selection : SetSelection(s)
           \/ UNCHANGED ledger
<1>1. CASE UNCHANGED ledger
  BY <1>1
<1>2. ASSUME NEW x \in RunId, NEW c \in Present(cases), NEW r \in RevisionId,
             NEW p \in RunId \cup {None}, NEW i \in AttemptInputs, NEW st \in Recorded,
             NEW d \in RunId \cup {None}, NEW v \in SUBSET ViewId,
             AppendRun(x, NewRun(c, r, p, i, st, d, v))
      PROVE  \E y \in RunId, run \in RunRecord : AppendRun(y, run)
  <2>1. NewRun(c, r, p, i, st, d, v) \in RunRecord
    BY NewRunType
  <2> QED BY <1>2, <2>1
<1>3. ASSUME NEW x \in RunId, NEW st \in Recorded, NEW d \in RunId \cup {None},
             NEW v \in SUBSET ViewId, FinishRunAttempt(x, st, d, v)
      PROVE  st \in TerminalState
  BY <1>3 DEF FinishRunAttempt
<1>4. ASSUME NEW e \in EvidenceId, NEW xs \in SUBSET RunId, NEW v \in SUBSET ViewId,
             NEW pl \in Payload \cup {None}, AppendEvidence(e, Report(xs, v, pl))
      PROVE  \E f \in EvidenceId, a \in EvidenceRecord : AppendEvidence(f, a)
  <2>1. Report(xs, v, pl) \in EvidenceRecord
    BY DEF Report, EvidenceRecord, TypeOK
  <2> QED BY <1>4, <2>1
<1>5. ASSUME NEW e \in EvidenceId, NEW p \in EvidenceId, NEW xs \in SUBSET RunId,
             NEW pl \in Payload, NEW k \in Key, AppendEvidence(e, Signature(p, xs, pl, k))
      PROVE  \E f \in EvidenceId, a \in EvidenceRecord : AppendEvidence(f, a)
  <2>1. Signature(p, xs, pl, k) \in EvidenceRecord
    BY DEF Signature, EvidenceRecord, TypeOK
  <2> QED BY <1>5, <2>1
<1> QED BY <1>1, <1>2, <1>3, <1>4, <1>5 DEF Next

\* The manifest keeps the shape of its Rust type: every operation pushes or
\* replaces a well-formed record.
THEOREM TypeCorrect == Spec => []TypeOK
<1>1. Init => Shape
  BY DEF Init, Shape, TypeOK, Selection, RunsHaveCases, Present
<1>2. Shape /\ [Next]_ledger => Shape'
  <2> SUFFICES ASSUME Shape, [Next]_ledger PROVE Shape'
    OBVIOUS
  <2> USE NoneIsNoObject, RecordedStates DEF Shape, TypeOK, RunsHaveCases, Present
  <2>1. ASSUME NEW s \in SourceId, NEW p \in SourceId \cup {None},
               AddSourceRevision(s, p)
        PROVE  Shape'
    BY <2>1 DEF AddSourceRevision, SourceRecord
  <2>2. ASSUME NEW c \in CaseId, NEW r \in RevisionId, NEW setup \in Setup,
               CreateCase(c, r, setup)
        PROVE  Shape'
    BY <2>2 DEF CreateCase, RevisionRecord, CaseRecord
  <2>3. ASSUME NEW c \in CaseId, NEW r \in RevisionId, NEW setup \in Setup,
               AppendCaseRevision(c, r, setup)
        PROVE  Shape'
    <3>1. cases[c] \in CaseRecord
      BY <2>3 DEF AppendCaseRevision
    <3>2. revisions' \in [RevisionId -> RevisionRecord \cup {None}]
      BY <2>3, <3>1 DEF AppendCaseRevision, AllowedParents, RevisionRecord, CaseRecord
    <3> DEFINE stale == StaleStagesAgainst(revisions[cases[c].active].setup, setup)
               case == [cases[c] EXCEPT !.active = r, !.stale = stale,
                                        !.revisionCount = @ + 1]
    <3>3. case \in CaseRecord
      <4>1. stale \in SUBSET Stage
        BY StaleStagesType
      <4> QED BY <3>1, <4>1, CaseRecordUpdate
    <3>4. cases' = [cases EXCEPT ![c] = case]
      BY <2>3, <3>1 DEF AppendCaseRevision, CaseRecord
    <3> HIDE DEF case
    <3>5. /\ cases' \in [CaseId -> CaseRecord \cup {None}]
          /\ Present(cases)' = Present(cases)
      BY <2>3, <3>3, <3>4, CaseUpdate DEF AppendCaseRevision
    <3>6. RunsHaveCases'
      BY <2>3, <3>5 DEF AppendCaseRevision, RunRecord
    <3> QED BY <2>3, <3>2, <3>5, <3>6 DEF AppendCaseRevision
  <2>4. ASSUME NEW x \in RunId, NEW run \in RunRecord, AppendRun(x, run)
        PROVE  Shape'
    <3>1. run.case \in CaseId /\ cases[run.case] \in CaseRecord
      BY <2>4 DEF AppendRun, RunRecord
    <3>2. runs' \in [RunId -> RunRecord \cup {None}]
      BY <2>4 DEF AppendRun
    <3> DEFINE stale == StaleAfterRun(cases[run.case], run)
               case == [cases[run.case] EXCEPT !.stale = stale, !.runCount = @ + 1]
    <3>3. case \in CaseRecord
      <4>1. stale \in SUBSET Stage
        BY <3>1 DEF StaleAfterRun, CaseRecord
      <4> HIDE DEF stale
      <4> QED BY <3>1, <4>1, CaseRecordUpdate
    <3>4. cases' = [cases EXCEPT ![run.case] = case]
      BY <2>4, <3>1 DEF AppendRun, CaseRecord
    <3> HIDE DEF case
    <3>5. /\ cases' \in [CaseId -> CaseRecord \cup {None}]
          /\ Present(cases)' = Present(cases)
      BY <2>4, <3>1, <3>3, <3>4, CaseUpdate DEF AppendRun
    <3>6. RunsHaveCases'
      BY <2>4, <3>1, <3>5 DEF AppendRun, RunRecord
    <3> QED BY <2>4, <3>2, <3>5, <3>6 DEF AppendRun
  <2>5. ASSUME NEW x \in RunId, NEW state \in TerminalState,
               NEW d \in RunId \cup {None}, NEW v \in SUBSET ViewId,
               FinishRunAttempt(x, state, d, v)
        PROVE  Shape'
    <3> DEFINE run == [runs[x] EXCEPT !.state = state, !.determinism = d, !.views = v]
    <3>1. runs[x] \in RunRecord /\ run \in RunRecord /\ run.case = runs[x].case
      BY <2>5 DEF FinishRunAttempt, Unfinished, RunRecord, TerminalState, SuccessState
    <3>2. runs' = [runs EXCEPT ![x] = run]
      BY <2>5 DEF FinishRunAttempt
    <3>3. cases' = [cases EXCEPT ![run.case].stale = StaleAfterRun(cases[run.case], run)]
      BY <2>5, <3>1 DEF FinishRunAttempt
    <3>4. run.case \in CaseId /\ cases[run.case] \in CaseRecord
      BY <2>5, <3>1 DEF FinishRunAttempt, RunRecord
    <3> HIDE DEF run
    <3> DEFINE case == [cases[run.case] EXCEPT !.stale = StaleAfterRun(cases[run.case], run)]
    <3>5. case \in CaseRecord
      BY <3>4 DEF StaleAfterRun, CaseRecord
    <3>6. cases' = [cases EXCEPT ![run.case] = case]
      BY <3>3, <3>4 DEF CaseRecord
    <3> HIDE DEF case
    <3>7. /\ cases' \in [CaseId -> CaseRecord \cup {None}]
          /\ Present(cases)' = Present(cases)
      BY <3>4, <3>5, <3>6, CaseUpdate
    <3>8. RunsHaveCases'
      BY <3>1, <3>2, <3>4, <3>7 DEF RunRecord
    <3> QED BY <2>5, <3>1, <3>2, <3>7, <3>8 DEF FinishRunAttempt
  <2>6. ASSUME NEW e \in EvidenceId, NEW a \in EvidenceRecord, AppendEvidence(e, a)
        PROVE  Shape'
    <3>1. \A c \in CaseId : cases[c] # None => [cases[c] EXCEPT !.stale = @ \ {"evidence"}] \in CaseRecord
      BY DEF CaseRecord
    <3>2. /\ cases' \in [CaseId -> CaseRecord \cup {None}]
          /\ \A c \in CaseId : cases[c] # None => cases'[c] # None
      BY <2>6, <3>1 DEF AppendEvidence
    <3>3. RunsHaveCases'
      BY <2>6, <3>2 DEF AppendEvidence, RunRecord
    <3>4. evidence' \in [EvidenceId -> EvidenceRecord \cup {None}] /\ evidenceCount' \in Nat
      BY <2>6 DEF AppendEvidence
    <3> QED BY <2>6, <3>2, <3>3, <3>4 DEF AppendEvidence
  <2>7. ASSUME NEW s \in Selection, SetSelection(s)
        PROVE  Shape'
    BY <2>7 DEF SetSelection
  <2>8. CASE UNCHANGED ledger
    BY <2>8 DEF ledger
  <2> QED BY <2>1, <2>2, <2>3, <2>4, <2>5, <2>6, <2>7, <2>8, StepCases
<1> QED BY <1>1, <1>2, PTL DEF Spec, Shape

-----------------------------------------------------------------------------
(***************************************************************************)
(* The invariant.  The checks of the loader are inductive together: a      *)
(* position is below the count of its Vec, a parent is an earlier entry.   *)
(* One signature per report follows when positions are distinct.           *)
(***************************************************************************)
PositionsDiffer ==
    \A e, f \in Present(evidence) : evidence[e].at = evidence[f].at => e = f

Ledger ==
    /\ LoaderAccepts
    /\ OneLineOfDescent
    /\ FreshHasAReason
    /\ StaleFlowsDownstream
    /\ PositionsDiffer

-----------------------------------------------------------------------------
(* What each operation does to the records, field by field.                *)

\* A case is created with its first revision, and nothing else changes.
LEMMA CreateCaseFacts ==
    ASSUME TypeOK, NEW c \in CaseId, NEW r \in RevisionId, NEW setup \in Setup,
           CreateCase(c, r, setup)
    PROVE  /\ cases[c] = None /\ revisions[r] = None /\ ValidSources(setup)
           /\ revisions'[r] # None /\ cases'[c] # None
           /\ revisions'[r].case = c /\ revisions'[r].parent = None
           /\ revisions'[r].setup = setup /\ revisions'[r].at = 0
           /\ cases'[c].active = r /\ cases'[c].stale = {}
           /\ cases'[c].revisionCount = 1 /\ cases'[c].runCount = 0
           /\ \A q \in RevisionId : q # r => revisions'[q] = revisions[q]
           /\ \A k \in CaseId : k # c => cases'[k] = cases[k]
           /\ UNCHANGED <<sources, runs, evidence, evidenceCount, selection>>
<1>1. /\ [case |-> c, parent |-> None, setup |-> setup, at |-> 0] \in RevisionRecord
      /\ [active |-> r, stale |-> {}, revisionCount |-> 1, runCount |-> 0] \in CaseRecord
  BY DEF RevisionRecord, CaseRecord
<1> QED BY <1>1, NoneIsNoObject DEF CreateCase, TypeOK

\* An edit appends a child of the active revision and stales what differs.
LEMMA AppendCaseRevisionFacts ==
    ASSUME TypeOK, NEW c \in CaseId, NEW r \in RevisionId, NEW setup \in Setup,
           AppendCaseRevision(c, r, setup)
    PROVE  /\ cases[c] # None /\ revisions[r] = None /\ ValidSources(setup)
           /\ revisions'[r] # None /\ cases'[c] # None
           /\ revisions'[r].case = c /\ revisions'[r].parent = cases[c].active
           /\ revisions'[r].setup = setup /\ revisions'[r].at = cases[c].revisionCount
           /\ cases'[c].active = r
           /\ cases'[c].stale = StaleStagesAgainst(revisions[cases[c].active].setup, setup)
           /\ cases'[c].revisionCount = cases[c].revisionCount + 1
           /\ cases'[c].runCount = cases[c].runCount
           /\ \A q \in RevisionId : q # r => revisions'[q] = revisions[q]
           /\ \A k \in CaseId : k # c => cases'[k] = cases[k]
           /\ UNCHANGED <<sources, runs, evidence, evidenceCount, selection>>
<1>1. cases[c] \in CaseRecord
  BY DEF AppendCaseRevision, TypeOK
<1> DEFINE stale == StaleStagesAgainst(revisions[cases[c].active].setup, setup)
           case == [cases[c] EXCEPT !.active = r, !.stale = stale,
                                    !.revisionCount = @ + 1]
           revision == [case |-> c, parent |-> cases[c].active, setup |-> setup,
                        at |-> cases[c].revisionCount]
<1>2. /\ case.active = r /\ case.stale = stale /\ case.runCount = cases[c].runCount
      /\ case.revisionCount = cases[c].revisionCount + 1
  BY <1>1 DEF CaseRecord
<1>3. case \in CaseRecord
  <2>1. stale \in SUBSET Stage
    BY StaleStagesType
  <2> HIDE DEF stale
  <2> QED BY <1>1, <2>1, CaseRecordUpdate
<1>4. cases' = [cases EXCEPT ![c] = case]
  BY <1>1 DEF AppendCaseRevision, CaseRecord
<1>5. revision \in RevisionRecord
  BY <1>1 DEF CaseRecord, RevisionRecord
<1>6. revisions' = [revisions EXCEPT ![r] = revision]
  BY DEF AppendCaseRevision, AllowedParents
<1> HIDE DEF case
<1>7. /\ cases' \in [CaseId -> CaseRecord \cup {None}] /\ cases'[c] = case
      /\ \A k \in CaseId : k # c => cases'[k] = cases[k]
  BY <1>3, <1>4 DEF TypeOK
<1>8. revisions'[r] = revision /\ \A q \in RevisionId : q # r => revisions'[q] = revisions[q]
  BY <1>5, <1>6 DEF TypeOK
<1> QED BY <1>2, <1>3, <1>5, <1>7, <1>8, NoneIsNoObject DEF AppendCaseRevision

\* A run is recorded: its case counts it and may have fewer stale stages.
LEMMA AppendRunFacts ==
    ASSUME TypeOK, NEW x \in RunId, NEW run \in RunRecord, AppendRun(x, run)
    PROVE  LET c == run.case IN
           /\ c \in CaseId /\ cases[c] # None /\ runs[x] = None
           /\ runs' = [runs EXCEPT ![x] = run]
           /\ runs'[x] = run /\ run # None
           /\ \A y \in RunId : y # x => runs'[y] = runs[y]
           /\ ValidRun(run) /\ ValidDeterminism(run)
           /\ run.revision \in RevisionId
           /\ revisions[run.revision] # None /\ revisions[run.revision].case = c
           /\ run.parent # None =>
                 run.parent \in RunId /\ runs[run.parent] # None /\ runs[run.parent].case = c
           /\ run.at = cases[c].runCount
           /\ cases'[c] # None
           /\ cases'[c].active = cases[c].active
           /\ cases'[c].stale = StaleAfterRun(cases[c], run)
           /\ cases'[c].revisionCount = cases[c].revisionCount
           /\ cases'[c].runCount = cases[c].runCount + 1
           /\ \A k \in CaseId : k # c => cases'[k] = cases[k]
           /\ UNCHANGED <<sources, revisions, evidence, evidenceCount, selection>>
<1>1. run.case \in CaseId /\ cases[run.case] \in CaseRecord
  BY DEF AppendRun, TypeOK, RunRecord
<1> DEFINE stale == StaleAfterRun(cases[run.case], run)
           case == [cases[run.case] EXCEPT !.stale = stale, !.runCount = @ + 1]
<1>2. /\ case.active = cases[run.case].active /\ case.stale = stale
      /\ case.revisionCount = cases[run.case].revisionCount
      /\ case.runCount = cases[run.case].runCount + 1
  BY <1>1 DEF CaseRecord
<1>3. case \in CaseRecord
  <2>1. stale \in SUBSET Stage
    BY <1>1 DEF StaleAfterRun, CaseRecord
  <2> HIDE DEF stale
  <2> QED BY <1>1, <2>1, CaseRecordUpdate
<1>4. cases' = [cases EXCEPT ![run.case] = case]
  BY <1>1 DEF AppendRun, CaseRecord
<1> HIDE DEF case
<1>5. /\ cases'[run.case] = case
      /\ \A k \in CaseId : k # run.case => cases'[k] = cases[k]
  BY <1>1, <1>3, <1>4 DEF TypeOK
<1>6. runs'[x] = run /\ \A y \in RunId : y # x => runs'[y] = runs[y]
  BY DEF AppendRun, TypeOK
<1>7. /\ runs[x] = None /\ runs' = [runs EXCEPT ![x] = run] /\ ValidRun(run) /\ ValidDeterminism(run)
      /\ revisions[run.revision] # None /\ revisions[run.revision].case = run.case
      /\ run.parent # None => runs[run.parent] # None /\ runs[run.parent].case = run.case
      /\ run.at = cases[run.case].runCount /\ cases[run.case] # None
      /\ UNCHANGED <<sources, revisions, evidence, evidenceCount, selection>>
  BY DEF AppendRun
<1>8. run.revision \in RevisionId /\ run.parent \in RunId \cup {None}
  BY DEF RunRecord
<1>9. case # None /\ run # None
  BY <1>3, NoneIsNoObject
<1> QED BY <1>1, <1>2, <1>5, <1>6, <1>7, <1>8, <1>9

\* An attempt is closed: its case and its lineage stay.
LEMMA FinishFacts ==
    ASSUME TypeOK, RunsHaveCases, NEW x \in RunId, NEW state \in TerminalState,
           NEW d \in RunId \cup {None}, NEW v \in SUBSET ViewId,
           FinishRunAttempt(x, state, d, v)
    PROVE  LET run == runs'[x]
               c == run.case IN
           /\ runs[x] # None /\ run \in RunRecord /\ run # None
           /\ runs[x].state \in OpenState /\ run.state = state
           /\ SameAttempt(runs[x], run)
           /\ ValidDeterminism(run)
           /\ \A y \in RunId : y # x => runs'[y] = runs[y]
           /\ c \in CaseId /\ cases[c] # None /\ cases'[c] # None
           /\ cases'[c].active = cases[c].active
           /\ cases'[c].stale = StaleAfterRun(cases[c], run)
           /\ cases'[c].revisionCount = cases[c].revisionCount
           /\ cases'[c].runCount = cases[c].runCount
           /\ \A k \in CaseId : k # c => cases'[k] = cases[k]
           /\ UNCHANGED <<sources, revisions, evidence, evidenceCount, selection>>
<1> DEFINE run == [runs[x] EXCEPT !.state = state, !.determinism = d, !.views = v]
<1>1. runs[x] # None /\ runs[x] \in RunRecord /\ runs[x].state \in OpenState
  BY DEF FinishRunAttempt, Unfinished, TypeOK
<1>2. run \in RunRecord
  BY <1>1 DEF RunRecord, TerminalState, SuccessState
<1>3. run.state = state /\ SameAttempt(runs[x], run) /\ run.case = runs[x].case
  BY <1>1, <1>2, NoneIsNoObject DEF RunRecord, SameAttempt
<1>4. /\ runs' = [runs EXCEPT ![x] = run] /\ ValidDeterminism(run)
      /\ cases' = [cases EXCEPT ![run.case].stale = StaleAfterRun(cases[run.case], run)]
      /\ UNCHANGED <<sources, revisions, evidence, evidenceCount, selection>>
  BY <1>3 DEF FinishRunAttempt
<1>5. run.case \in CaseId /\ cases[run.case] # None /\ cases[run.case] \in CaseRecord
  BY <1>1, <1>3 DEF RunsHaveCases, Present, TypeOK, RunRecord
<1>6. run # None
  BY <1>2, NoneIsNoObject
<1> HIDE DEF run
<1>7. runs'[x] = run /\ \A y \in RunId : y # x => runs'[y] = runs[y]
  BY <1>4 DEF TypeOK
<1> DEFINE case == [cases[run.case] EXCEPT !.stale = StaleAfterRun(cases[run.case], run)]
<1>8. /\ case \in CaseRecord
      /\ case.active = cases[run.case].active /\ case.stale = StaleAfterRun(cases[run.case], run)
      /\ case.revisionCount = cases[run.case].revisionCount
      /\ case.runCount = cases[run.case].runCount
  BY <1>5 DEF StaleAfterRun, CaseRecord
<1>9. cases' = [cases EXCEPT ![run.case] = case]
  BY <1>4, <1>5 DEF CaseRecord
<1> HIDE DEF case
<1>10. /\ cases'[run.case] = case /\ case # None
       /\ \A k \in CaseId : k # run.case => cases'[k] = cases[k]
  BY <1>5, <1>8, <1>9, NoneIsNoObject DEF TypeOK
<1> QED BY <1>1, <1>2, <1>3, <1>4, <1>5, <1>6, <1>7, <1>8, <1>10

\* Evidence is recorded: it makes the evidence of the cases it describes current.
LEMMA AppendEvidenceFacts ==
    ASSUME TypeOK, NEW e \in EvidenceId, NEW a \in EvidenceRecord, AppendEvidence(e, a)
    PROVE  /\ evidence[e] = None /\ a # None /\ evidence'[e] = a
           /\ \A f \in EvidenceId : f # e => evidence'[f] = evidence[f]
           /\ a.at = evidenceCount /\ evidenceCount' = evidenceCount + 1
           /\ ValidEvidence(a)
           /\ \A c \in CaseId :
                 /\ cases'[c] = None <=> cases[c] = None
                 /\ cases[c] # None =>
                       /\ cases'[c].active = cases[c].active
                       /\ cases'[c].revisionCount = cases[c].revisionCount
                       /\ cases'[c].runCount = cases[c].runCount
                       /\ cases'[c].stale =
                             IF RunsOnActiveRevision(c, a.runs) # {}
                             THEN cases[c].stale \ {"evidence"} ELSE cases[c].stale
           /\ UNCHANGED <<sources, revisions, runs, selection>>
<1>1. \A c \in CaseId : cases[c] # None =>
        LET case == [cases[c] EXCEPT !.stale = @ \ {"evidence"}] IN
        /\ case \in CaseRecord /\ case # None
        /\ case.active = cases[c].active /\ case.revisionCount = cases[c].revisionCount
        /\ case.runCount = cases[c].runCount /\ case.stale = cases[c].stale \ {"evidence"}
  BY NoneIsNoObject DEF TypeOK, CaseRecord
<1>2. \A c \in CaseId : cases'[c] =
         IF cases[c] # None /\ RunsOnActiveRevision(c, a.runs) # {}
         THEN [cases[c] EXCEPT !.stale = @ \ {"evidence"}] ELSE cases[c]
  BY DEF AppendEvidence
<1>3. /\ evidence[e] = None /\ evidence' = [evidence EXCEPT ![e] = a]
      /\ a.at = evidenceCount /\ evidenceCount' = evidenceCount + 1
      /\ ValidEvidence(a) /\ UNCHANGED <<sources, revisions, runs, selection>>
  BY DEF AppendEvidence
<1>4. evidence'[e] = a /\ \A f \in EvidenceId : f # e => evidence'[f] = evidence[f]
  BY <1>3 DEF TypeOK
<1>5. a # None
  BY NoneIsNoObject
<1> QED BY <1>1, <1>2, <1>3, <1>4, <1>5

-----------------------------------------------------------------------------
(* Every operation keeps every part of the invariant.                      *)

\* What the loader checks of evidence survives any step that keeps evidence and runs.
LEMMA EvidenceStays ==
    ASSUME LoadableEvidence, UNCHANGED <<evidence, evidenceCount>>,
           \A x \in RunId : runs[x] # None => runs'[x] # None, TypeOK, TypeOK'
    PROVE  LoadableEvidence'
BY DEF LoadableEvidence, Present, ValidSignature, MatchesReport, SignedBefore, TypeOK

\* A selection survives any step that keeps its objects and their views.
LEMMA SelectionStays ==
    ASSUME TypeOK, TypeOK', SelectionResolves(selection), UNCHANGED selection,
           \A c \in CaseId : cases[c] # None => cases'[c] # None,
           \A e \in EvidenceId : evidence[e] # None => evidence'[e] = evidence[e],
           \A x \in RunId : runs[x] # None =>
              /\ runs'[x] # None /\ runs'[x].case = runs[x].case
              /\ runs[x].views \subseteq runs'[x].views
    PROVE  SelectionResolves(selection)'
<1>1. selection' = selection /\ selection \in Selection
  BY DEF TypeOK
<1>2. /\ selection.case \in CaseId \cup {None} /\ selection.run \in RunId \cup {None}
      /\ selection.evidence \in EvidenceId \cup {None}
  BY <1>1 DEF Selection
<1>3. /\ DOMAIN cases = CaseId /\ DOMAIN cases' = CaseId /\ DOMAIN runs = RunId
      /\ DOMAIN runs' = RunId /\ DOMAIN evidence = EvidenceId /\ DOMAIN evidence' = EvidenceId
  BY DEF TypeOK
<1> QED BY <1>1, <1>2, <1>3 DEF SelectionResolves, PresentOrNone, Present

\* Runs survive any step that keeps them, the revisions they compute and the counts.
LEMMA RunsStay ==
    ASSUME TypeOK, TypeOK', LoadableRuns, UNCHANGED runs,
           \A r \in RevisionId : revisions[r] # None => revisions'[r] = revisions[r],
           \A c \in CaseId : cases[c] # None =>
              cases'[c] # None /\ cases'[c].runCount = cases[c].runCount
    PROVE  LoadableRuns'
<1>1. \A x \in RunId : runs[x] # None =>
         /\ runs[x].case \in CaseId /\ runs[x].revision \in RevisionId
         /\ runs[x].parent \in RunId \cup {None}
  BY DEF TypeOK, RunRecord
<1>2. DOMAIN runs = RunId
  BY DEF TypeOK
<1> QED BY <1>1, <1>2 DEF LoadableRuns, Present, ValidRun, ValidDeterminism

\* Revisions survive any step that keeps them, the sources they use and the counts.
LEMMA RevisionsStay ==
    ASSUME TypeOK, TypeOK', LoadableRevisions, UNCHANGED revisions,
           \A s \in SourceId : sources[s] # None => sources'[s] # None,
           \A c \in CaseId : cases[c] # None =>
              cases'[c] # None /\ cases'[c].revisionCount = cases[c].revisionCount
    PROVE  LoadableRevisions'
<1>1. \A r \in RevisionId : revisions[r] # None => revisions[r].case \in CaseId
  BY DEF TypeOK, RevisionRecord
<1>2. DOMAIN revisions = RevisionId /\ DOMAIN sources = SourceId /\ DOMAIN sources' = SourceId
  BY DEF TypeOK
<1> QED BY <1>1, <1>2 DEF LoadableRevisions, Present, ValidSources

\* The revision a case has active stays one of its own.
LEMMA CasesStay ==
    ASSUME TypeOK, TypeOK', LoadableCases, UNCHANGED revisions,
           \A c \in CaseId : cases'[c] # None =>
              cases[c] # None /\ cases'[c].active = cases[c].active
    PROVE  LoadableCases'
BY DEF LoadableCases, Present, TypeOK

\* The checks the operations make one at a time add up to those of the loader.
LEMMA LoaderStep ==
    ASSUME TypeOK, TypeOK', LoaderAccepts, [Next]_ledger
    PROVE  LoaderAccepts'
<1> USE DEF LoaderAccepts
<1>0. /\ DOMAIN cases = CaseId /\ DOMAIN cases' = CaseId /\ DOMAIN runs = RunId
      /\ DOMAIN runs' = RunId /\ DOMAIN evidence = EvidenceId /\ DOMAIN evidence' = EvidenceId
      /\ DOMAIN sources = SourceId /\ DOMAIN sources' = SourceId
      /\ DOMAIN revisions = RevisionId /\ DOMAIN revisions' = RevisionId
  BY DEF TypeOK
<1>00. RunsHaveCases
  BY DEF LoadableRuns, RunsHaveCases
<1>1. ASSUME NEW s \in SourceId, NEW p \in SourceId \cup {None}, AddSourceRevision(s, p)
      PROVE  LoaderAccepts'
  <2>1. /\ sources'[s] # None /\ sources'[s].parent = p /\ p \in PresentOrNone(sources)
        /\ \A q \in SourceId : q # s => sources'[q] = sources[q]
        /\ sources[s] = None
        /\ UNCHANGED <<revisions, cases, runs, evidence, evidenceCount, selection>>
    BY <1>1, NoneIsNoObject DEF AddSourceRevision, TypeOK, SourceRecord
  <2>2. \A q \in Present(sources)' : sources'[q].parent \in PresentOrNone(sources)'
    BY <2>1, <1>0 DEF Present, PresentOrNone
  <2>3. LoadableRevisions'
    BY <2>1, RevisionsStay
  <2>4. LoadableCases'
    BY <2>1, CasesStay
  <2>5. LoadableRuns'
    BY <2>1, RunsStay
  <2>6. LoadableEvidence'
    BY <2>1, EvidenceStays
  <2>7. SelectionResolves(selection)'
    BY <2>1, SelectionStays
  <2> QED BY <2>2, <2>3, <2>4, <2>5, <2>6, <2>7
<1>2. ASSUME NEW c \in CaseId, NEW r \in RevisionId, NEW setup \in Setup,
             CreateCase(c, r, setup)
      PROVE  LoaderAccepts'
  <2> DEFINE Step == 
           /\ cases[c] = None /\ revisions[r] = None /\ ValidSources(setup)
           /\ revisions'[r] # None /\ cases'[c] # None
           /\ revisions'[r].case = c /\ revisions'[r].parent = None
           /\ revisions'[r].setup = setup /\ revisions'[r].at = 0
           /\ cases'[c].active = r /\ cases'[c].stale = {}
           /\ cases'[c].revisionCount = 1 /\ cases'[c].runCount = 0
           /\ \A q \in RevisionId : q # r => revisions'[q] = revisions[q]
           /\ \A k \in CaseId : k # c => cases'[k] = cases[k]
           /\ UNCHANGED <<sources, runs, evidence, evidenceCount, selection>>
  <2>1. Step
    BY <1>2, CreateCaseFacts
  <2>2. LoadableCases'
    <3> SUFFICES ASSUME NEW k \in CaseId, cases'[k] # None
                 PROVE  revisions'[cases'[k].active] # None /\ revisions'[cases'[k].active].case = k
      BY <1>0 DEF LoadableCases, Present
    <3>1. CASE k = c
      BY <2>1, <3>1
    <3>2. CASE k # c
      <4>1. cases[k].active \in RevisionId
        BY <2>1, <3>2 DEF TypeOK, CaseRecord
      <4> QED BY <2>1, <3>2, <4>1, <1>0 DEF LoadableCases, Present
    <3> QED BY <3>1, <3>2
  <2>3. LoadableRevisions'
    <3>1. \A q \in RevisionId : revisions[q] # None =>
             revisions[q].case \in CaseId /\ revisions[q].parent \in RevisionId \cup {None}
      BY DEF TypeOK, RevisionRecord
    <3> QED BY <2>1, <3>1, <1>0 DEF LoadableRevisions, Present, ValidSources
  <2>5. LoadableRuns'
    BY <2>1, RunsStay
  <2>6. LoadableEvidence'
    BY <2>1, EvidenceStays
  <2>7. SelectionResolves(selection)'
    BY <2>1, SelectionStays
  <2> QED BY <2>1, <2>2, <2>3, <2>5, <2>6, <2>7, <1>0 DEF PresentOrNone, Present
<1>3. ASSUME NEW c \in CaseId, NEW r \in RevisionId, NEW setup \in Setup,
             AppendCaseRevision(c, r, setup)
      PROVE  LoaderAccepts'
  <2>1. /\ cases[c] # None /\ revisions[r] = None /\ ValidSources(setup)
        /\ revisions'[r] # None /\ cases'[c] # None
        /\ revisions'[r].case = c /\ revisions'[r].parent = cases[c].active
        /\ revisions'[r].setup = setup /\ revisions'[r].at = cases[c].revisionCount
        /\ cases'[c].active = r
        /\ cases'[c].revisionCount = cases[c].revisionCount + 1
        /\ cases'[c].runCount = cases[c].runCount
        /\ \A q \in RevisionId : q # r => revisions'[q] = revisions[q]
        /\ \A k \in CaseId : k # c => cases'[k] = cases[k]
        /\ UNCHANGED <<sources, runs, evidence, evidenceCount, selection>>
    BY <1>3, AppendCaseRevisionFacts
  <2>a. /\ cases[c].active \in RevisionId /\ cases[c].active # r /\ cases[c].active # None
        /\ revisions[cases[c].active] # None /\ revisions[cases[c].active].case = c
        /\ revisions[cases[c].active].at < cases[c].revisionCount
        /\ revisions[cases[c].active].at \in Nat /\ cases[c].revisionCount \in Nat
    <3>1. cases[c] \in CaseRecord
      BY <2>1 DEF TypeOK
    <3>2. cases[c].active \in RevisionId /\ cases[c].revisionCount \in Nat
      BY <3>1 DEF CaseRecord
    <3>3. revisions[cases[c].active] # None /\ revisions[cases[c].active].case = c
      BY <2>1, <1>0 DEF LoadableCases, Present
    <3>4. revisions[cases[c].active].at < cases[c].revisionCount
      BY <3>2, <3>3, <1>0 DEF LoadableRevisions, Present
    <3>5. revisions[cases[c].active] \in RevisionRecord
      BY <3>2, <3>3 DEF TypeOK
    <3> QED BY <2>1, <3>2, <3>3, <3>4, <3>5, NoneIsNoObject DEF RevisionRecord
  <2>2. LoadableCases'
    <3> SUFFICES ASSUME NEW k \in CaseId, cases'[k] # None
                 PROVE  revisions'[cases'[k].active] # None /\ revisions'[cases'[k].active].case = k
      BY <1>0 DEF LoadableCases, Present
    <3>1. CASE k = c
      BY <2>1, <3>1
    <3>2. CASE k # c
      <4>1. cases[k].active \in RevisionId
        BY <2>1, <3>2 DEF TypeOK, CaseRecord
      <4> QED BY <2>1, <3>2, <4>1, <1>0 DEF LoadableCases, Present
    <3> QED BY <3>1, <3>2
  <2>3. LoadableRevisions'
    <3> SUFFICES ASSUME NEW q \in RevisionId, revisions'[q] # None
                 PROVE  LET revision == revisions'[q] IN
                        /\ cases'[revision.case] # None
                        /\ revision.at < cases'[revision.case].revisionCount
                        /\ ValidSources(revisions[q].setup)'
                        /\ (revision.at = 0) <=> (revision.parent = None)
                        /\ revision.parent # None =>
                              /\ revisions'[revision.parent] # None
                              /\ revisions'[revision.parent].case = revision.case
                              /\ revisions'[revision.parent].at < revision.at
      BY <1>0 DEF LoadableRevisions, Present
    <3>1. CASE q = r
      <4>1. revisions'[cases[c].active] = revisions[cases[c].active]
        BY <2>1, <2>a
      <4>2. ValidSources(setup)'
        BY <2>1 DEF ValidSources, Present
      <4> QED BY <2>1, <2>a, <3>1, <4>1, <4>2
    <3>2. CASE q # r
      <4>1. revisions'[q] = revisions[q] /\ revisions[q] \in RevisionRecord
        BY <2>1, <3>2 DEF TypeOK
      <4>2. /\ revisions[q].case \in CaseId /\ revisions[q].parent \in RevisionId \cup {None}
            /\ revisions[q].at \in Nat
        BY <4>1 DEF RevisionRecord
      <4>3. /\ cases[revisions[q].case] # None
            /\ revisions[q].at < cases[revisions[q].case].revisionCount
            /\ ValidSources(revisions[q].setup)
            /\ (revisions[q].at = 0) <=> (revisions[q].parent = None)
            /\ revisions[q].parent # None =>
                  /\ revisions[revisions[q].parent] # None
                  /\ revisions[revisions[q].parent].case = revisions[q].case
                  /\ revisions[revisions[q].parent].at < revisions[q].at
        BY <3>2, <4>1, <1>0 DEF LoadableRevisions, Present
      <4>4. ValidSources(revisions[q].setup)'
        BY <2>1, <4>1, <4>3 DEF ValidSources, Present
      <4>5. revisions[q].at < cases'[revisions[q].case].revisionCount
        BY <2>1, <2>a, <4>2, <4>3
      <4> QED BY <2>1, <4>1, <4>2, <4>3, <4>4, <4>5
    <3> QED BY <3>1, <3>2
  <2>5. LoadableRuns'
    BY <2>1, RunsStay
  <2>6. LoadableEvidence'
    BY <2>1, EvidenceStays
  <2>7. SelectionResolves(selection)'
    BY <2>1, SelectionStays
  <2> QED BY <2>1, <2>2, <2>3, <2>5, <2>6, <2>7, <1>0 DEF PresentOrNone, Present
<1>4. ASSUME NEW x \in RunId, NEW run \in RunRecord, AppendRun(x, run)
      PROVE  LoaderAccepts'
  <2>1. LET c == run.case IN
        /\ c \in CaseId /\ cases[c] # None /\ runs[x] = None
        /\ runs'[x] = run /\ run # None
        /\ \A y \in RunId : y # x => runs'[y] = runs[y]
        /\ ValidRun(run) /\ ValidDeterminism(run)
        /\ run.revision \in RevisionId
        /\ revisions[run.revision] # None /\ revisions[run.revision].case = c
        /\ run.parent # None =>
              run.parent \in RunId /\ runs[run.parent] # None /\ runs[run.parent].case = c
        /\ run.at = cases[c].runCount
        /\ cases'[c] # None
        /\ cases'[c].active = cases[c].active
        /\ cases'[c].revisionCount = cases[c].revisionCount
        /\ cases'[c].runCount = cases[c].runCount + 1
        /\ \A k \in CaseId : k # c => cases'[k] = cases[k]
        /\ UNCHANGED <<sources, revisions, evidence, evidenceCount, selection>>
    BY <1>4, AppendRunFacts
  <2>2. /\ \A k \in CaseId : cases'[k] # None =>
              cases[k] # None /\ cases'[k].active = cases[k].active
        /\ \A k \in CaseId : cases[k] # None =>
              cases'[k] # None /\ cases'[k].revisionCount = cases[k].revisionCount
        /\ \A y \in RunId : runs[y] # None => runs'[y] = runs[y]
    BY <2>1
  <2>3. LoadableCases' /\ LoadableRevisions' /\ LoadableEvidence'
    BY <2>1, <2>2, CasesStay, RevisionsStay, EvidenceStays
  <2>4. SelectionResolves(selection)'
    BY <2>1, <2>2, SelectionStays
  <2>5. LoadableRuns'
    <3> SUFFICES ASSUME NEW y \in RunId, runs'[y] # None
                 PROVE  /\ cases'[runs'[y].case] # None
                        /\ runs'[y].at < cases'[runs'[y].case].runCount
                        /\ revisions[runs'[y].revision] # None
                        /\ revisions[runs'[y].revision].case = runs'[y].case
                        /\ runs'[y].parent # None =>
                              /\ runs'[runs'[y].parent] # None
                              /\ runs'[runs'[y].parent].case = runs'[y].case
                              /\ runs'[runs'[y].parent].at < runs'[y].at
                        /\ ValidDeterminism(runs'[y]) /\ ValidRun(runs'[y])
      BY <1>0, <2>1 DEF LoadableRuns, Present, ValidDeterminism, ValidRun
    <3>1. \A z \in RunId : runs[z] # None =>
             /\ runs[z].case \in CaseId /\ runs[z].at \in Nat
             /\ runs[z].parent \in RunId \cup {None}
             /\ cases[runs[z].case] # None /\ runs[z].at < cases[runs[z].case].runCount
             /\ cases[runs[z].case].runCount \in Nat
      <4>1. ASSUME NEW z \in RunId, runs[z] # None
            PROVE  /\ runs[z].case \in CaseId /\ runs[z].at \in Nat
                   /\ runs[z].parent \in RunId \cup {None}
        BY <4>1 DEF TypeOK, RunRecord
      <4>2. \A k \in CaseId : cases[k] # None => cases[k].runCount \in Nat
        BY DEF TypeOK, CaseRecord
      <4> QED BY <1>0, <4>1, <4>2 DEF LoadableRuns, Present
    <3>2. CASE y = x
      <4>1. run.parent # None => runs'[run.parent] = runs[run.parent] /\ run.parent # x
        BY <2>1
      <4>2. cases[run.case].runCount \in Nat
        BY <2>1 DEF TypeOK, CaseRecord
      <4> QED BY <2>1, <3>1, <3>2, <4>1, <4>2
    <3>3. CASE y # x
      <4>1. runs'[y] = runs[y] /\ runs[y] # None
        BY <2>1, <3>3
      <4>2. /\ revisions[runs[y].revision] # None
            /\ revisions[runs[y].revision].case = runs[y].case
            /\ runs[y].parent # None =>
                  /\ runs[runs[y].parent] # None
                  /\ runs[runs[y].parent].case = runs[y].case
                  /\ runs[runs[y].parent].at < runs[y].at
            /\ ValidDeterminism(runs[y]) /\ ValidRun(runs[y])
        BY <1>0, <4>1 DEF LoadableRuns, Present
      <4>3. /\ cases'[runs[y].case] # None
            /\ runs[y].at < cases'[runs[y].case].runCount
        BY <2>1, <2>2, <3>1, <4>1
      <4>4. runs[y].parent # None => runs'[runs[y].parent] = runs[runs[y].parent]
        BY <2>2, <3>1, <4>1, <4>2
      <4> QED BY <4>1, <4>2, <4>3, <4>4
    <3> QED BY <3>2, <3>3
  <2> QED BY <2>1, <2>3, <2>4, <2>5, <1>0 DEF PresentOrNone, Present
<1>5. ASSUME NEW x \in RunId, NEW state \in TerminalState, NEW d \in RunId \cup {None},
             NEW v \in SUBSET ViewId, FinishRunAttempt(x, state, d, v)
      PROVE  LoaderAccepts'
  <2>1. LET c == runs'[x].case IN
        /\ runs[x] # None /\ runs'[x] # None
        /\ runs[x].state \in OpenState /\ runs'[x].state = state
        /\ SameAttempt(runs[x], runs'[x])
        /\ ValidDeterminism(runs'[x])
        /\ \A y \in RunId : y # x => runs'[y] = runs[y]
        /\ c \in CaseId /\ cases[c] # None /\ cases'[c] # None
        /\ cases'[c].active = cases[c].active
        /\ cases'[c].revisionCount = cases[c].revisionCount
        /\ cases'[c].runCount = cases[c].runCount
        /\ \A k \in CaseId : k # c => cases'[k] = cases[k]
        /\ UNCHANGED <<sources, revisions, evidence, evidenceCount, selection>>
    BY <1>5, <1>00, FinishFacts
  <2>2. \A k \in CaseId :
           /\ cases'[k] # None <=> cases[k] # None
           /\ cases[k] # None => /\ cases'[k].active = cases[k].active
                                 /\ cases'[k].revisionCount = cases[k].revisionCount
                                 /\ cases'[k].runCount = cases[k].runCount
    BY <2>1
  <2>3. \A y \in RunId :
           /\ runs'[y] # None <=> runs[y] # None
           /\ runs[y] # None =>
                 /\ runs'[y].case = runs[y].case /\ runs'[y].revision = runs[y].revision
                 /\ runs'[y].parent = runs[y].parent /\ runs'[y].at = runs[y].at
                 /\ runs[y].views \subseteq runs'[y].views
    <3>1. runs[x].views = {}
      BY <1>0, <2>1 DEF LoadableRuns, Present, ValidRun
    <3>2. /\ runs'[x].case = runs[x].case /\ runs'[x].revision = runs[x].revision
          /\ runs'[x].parent = runs[x].parent /\ runs'[x].at = runs[x].at
      BY <2>1 DEF SameAttempt
    <3> QED BY <2>1, <3>1, <3>2
  <2>4. LoadableCases' /\ LoadableRevisions' /\ LoadableEvidence'
    BY <2>1, <2>2, <2>3, CasesStay, RevisionsStay, EvidenceStays
  <2>5. SelectionResolves(selection)'
    BY <2>1, <2>2, <2>3, SelectionStays
  <2>6. LoadableRuns'
    <3> SUFFICES ASSUME NEW y \in RunId, runs'[y] # None
                 PROVE  /\ cases'[runs'[y].case] # None
                        /\ runs'[y].at < cases'[runs'[y].case].runCount
                        /\ revisions[runs'[y].revision] # None
                        /\ revisions[runs'[y].revision].case = runs'[y].case
                        /\ runs'[y].parent # None =>
                              /\ runs'[runs'[y].parent] # None
                              /\ runs'[runs'[y].parent].case = runs'[y].case
                              /\ runs'[runs'[y].parent].at < runs'[y].at
                        /\ ValidDeterminism(runs'[y]) /\ ValidRun(runs'[y])
      BY <1>0, <2>1 DEF LoadableRuns, Present, ValidDeterminism, ValidRun
    <3>1. /\ runs[y].case \in CaseId /\ runs[y].parent \in RunId \cup {None} /\ runs[y] # None
      BY <2>3 DEF TypeOK, RunRecord
    <3>2. /\ cases[runs[y].case] # None
          /\ runs[y].at < cases[runs[y].case].runCount
          /\ revisions[runs[y].revision] # None
          /\ revisions[runs[y].revision].case = runs[y].case
          /\ runs[y].parent # None =>
                /\ runs[runs[y].parent] # None
                /\ runs[runs[y].parent].case = runs[y].case
                /\ runs[runs[y].parent].at < runs[y].at
          /\ ValidDeterminism(runs[y]) /\ ValidRun(runs[y])
      BY <1>0, <3>1 DEF LoadableRuns, Present
    <3>3. ValidDeterminism(runs'[y]) /\ ValidRun(runs'[y])
      <4>1. CASE y = x
        BY <2>1, <4>1 DEF ValidRun, OpenState, TerminalState, SuccessState
      <4>2. CASE y # x
        BY <2>1, <3>2, <4>2
      <4> QED BY <4>1, <4>2
    <3> QED BY <2>2, <2>3, <3>1, <3>2, <3>3
  <2> QED BY <2>1, <2>4, <2>5, <2>6, <1>0 DEF PresentOrNone, Present
<1>6. ASSUME NEW e \in EvidenceId, NEW a \in EvidenceRecord, AppendEvidence(e, a)
      PROVE  LoaderAccepts'
  <2>1. /\ evidence[e] = None /\ a # None /\ evidence'[e] = a
        /\ \A f \in EvidenceId : f # e => evidence'[f] = evidence[f]
        /\ a.at = evidenceCount /\ evidenceCount' = evidenceCount + 1
        /\ ValidEvidence(a)
        /\ \A c \in CaseId :
              /\ cases'[c] = None <=> cases[c] = None
              /\ cases[c] # None =>
                    /\ cases'[c].active = cases[c].active
                    /\ cases'[c].revisionCount = cases[c].revisionCount
                    /\ cases'[c].runCount = cases[c].runCount
        /\ UNCHANGED <<sources, revisions, runs, selection>>
    BY <1>6, AppendEvidenceFacts
  <2>2. LoadableCases' /\ LoadableRevisions' /\ LoadableRuns'
    BY <2>1, CasesStay, RevisionsStay, RunsStay
  <2>3. SelectionResolves(selection)'
    BY <2>1, SelectionStays
  <2>4. LoadableEvidence'
    <3>0. /\ evidenceCount \in Nat
          /\ \A f \in EvidenceId : evidence[f] # None =>
                /\ evidence[f].at \in Nat /\ evidence[f].at < evidenceCount
                /\ evidence[f].parent \in EvidenceId \cup {None}
      <4>1. \A f \in EvidenceId : evidence[f] # None => evidence[f] \in EvidenceRecord
        BY DEF TypeOK
      <4>2. \A f \in EvidenceId : evidence[f] # None =>
               evidence[f].at \in Nat /\ evidence[f].parent \in EvidenceId \cup {None}
        BY <4>1 DEF EvidenceRecord
      <4> QED BY <1>0, <4>2 DEF LoadableEvidence, Present, TypeOK
    <3>1. ASSUME NEW artifact \in EvidenceRecord, NEW n \in Nat, n <= evidenceCount,
                 ValidSignature(artifact, n)
          PROVE  ValidSignature(artifact, n)'
      <4>1. artifact.parent \in EvidenceId \cup {None}
        BY DEF EvidenceRecord
      <4>2. SignedBefore(artifact, n)' => SignedBefore(artifact, n)
        BY <1>0, <2>1, <3>0, <3>1 DEF SignedBefore, Present
      <4>3. MatchesReport(artifact, n) => MatchesReport(artifact, n)'
        BY <2>1, <4>1 DEF MatchesReport
      <4> QED BY <3>1, <4>2, <4>3 DEF ValidSignature
    <3>2. ASSUME NEW f \in EvidenceId, evidence'[f] # None
          PROVE  /\ evidence'[f].at < evidenceCount'
                 /\ evidence'[f].runs # {} /\ evidence'[f].runs \subseteq Present(runs)'
                 /\ ValidSignature(evidence[f], evidence[f].at)'
      <4>1. CASE f = e
        <5>1. ValidSignature(a, a.at)' /\ evidence'[f] = a
          <6>1. ValidSignature(a, a.at) /\ a.at \in Nat /\ a.at <= evidenceCount
            BY <2>1, <3>0 DEF ValidEvidence
          <6> QED BY <2>1, <3>1, <4>1, <6>1
        <5>2. ValidSignature(evidence[f], evidence[f].at)'
          BY <5>1 DEF ValidSignature, MatchesReport, SignedBefore
        <5> QED BY <2>1, <3>0, <5>1, <5>2 DEF ValidEvidence
      <4>2. CASE f # e
        <5>1. evidence'[f] = evidence[f] /\ evidence[f] \in EvidenceRecord
          BY <2>1, <3>2, <4>2 DEF TypeOK
        <5>2. /\ evidence[f].at < evidenceCount /\ evidence[f].runs # {}
              /\ evidence[f].runs \subseteq Present(runs)
              /\ ValidSignature(evidence[f], evidence[f].at)
          BY <1>0, <3>2, <5>1 DEF LoadableEvidence, Present
        <5>3. evidence[f].at \in Nat /\ evidence[f].at <= evidenceCount
          BY <3>0, <3>2, <5>1
        <5>4. ASSUME NEW artifact \in EvidenceRecord, artifact = evidence[f]
              PROVE  ValidSignature(evidence[f], evidence[f].at)'
          <6>1. ValidSignature(artifact, artifact.at)'
            BY <3>1, <5>2, <5>3, <5>4
          <6> QED BY <5>1, <5>4, <6>1 DEF ValidSignature, MatchesReport, SignedBefore
        <5>5. ValidSignature(evidence[f], evidence[f].at)'
          BY <5>1, <5>4
        <5> QED BY <2>1, <3>0, <5>1, <5>2, <5>3, <5>5
      <4> QED BY <4>1, <4>2
    <3> QED BY <1>0, <3>2 DEF LoadableEvidence, Present
  <2> QED BY <2>1, <2>2, <2>3, <2>4, <1>0 DEF PresentOrNone, Present
<1>7. ASSUME NEW s \in Selection, SetSelection(s) PROVE LoaderAccepts'
  <2>1. SelectionResolves(s) /\ selection' = s
        /\ UNCHANGED <<sources, revisions, cases, runs, evidence, evidenceCount>>
    BY <1>7 DEF SetSelection
  <2>2. LoadableCases' /\ LoadableRevisions' /\ LoadableRuns' /\ LoadableEvidence'
    BY <2>1, CasesStay, RevisionsStay, RunsStay, EvidenceStays
  <2>3. SelectionResolves(selection)'
    BY <2>1 DEF SelectionResolves, PresentOrNone, Present
  <2> QED BY <2>1, <2>2, <2>3 DEF PresentOrNone, Present
<1>8. CASE UNCHANGED ledger
  <2>1. UNCHANGED <<sources, revisions, cases, runs, evidence, evidenceCount, selection>>
    BY <1>8 DEF ledger
  <2>2. LoadableCases' /\ LoadableRevisions' /\ LoadableRuns' /\ LoadableEvidence'
        /\ SelectionResolves(selection)'
    BY <2>1, CasesStay, RevisionsStay, RunsStay, EvidenceStays, SelectionStays
  <2> QED BY <2>1, <2>2 DEF PresentOrNone, Present
<1> QED BY <1>1, <1>2, <1>3, <1>4, <1>5, <1>6, <1>7, <1>8, StepCases

\* The revisions of a case stay one line: only the tip gets a child.
LEMMA DescentStep ==
    ASSUME TypeOK, TypeOK', LoaderAccepts, OneLineOfDescent, [Next]_ledger
    PROVE  OneLineOfDescent'
<1>0. /\ DOMAIN cases = CaseId /\ DOMAIN revisions = RevisionId /\ DOMAIN revisions' = RevisionId
      /\ \A q \in RevisionId : revisions[q] # None =>
            /\ revisions[q].case \in CaseId /\ cases[revisions[q].case] # None
            /\ revisions[q].parent \in RevisionId \cup {None}
            /\ revisions[q].parent # None =>
                  /\ revisions[revisions[q].parent] # None
                  /\ revisions[revisions[q].parent].case = revisions[q].case
      /\ \A k \in CaseId : cases[k] # None =>
            /\ cases[k].active \in RevisionId /\ revisions[cases[k].active] # None
            /\ revisions[cases[k].active].case = k
      /\ RunsHaveCases
  <2>1. DOMAIN cases = CaseId /\ DOMAIN revisions = RevisionId /\ DOMAIN revisions' = RevisionId
    BY DEF TypeOK
  <2>2. \A q \in RevisionId : revisions[q] # None =>
           revisions[q].case \in CaseId /\ revisions[q].parent \in RevisionId \cup {None}
    BY DEF TypeOK, RevisionRecord
  <2>3. \A k \in CaseId : cases[k] # None => cases[k].active \in RevisionId
    BY DEF TypeOK, CaseRecord
  <2> QED BY <2>1, <2>2, <2>3
          DEF LoaderAccepts, LoadableRevisions, LoadableCases, LoadableRuns, RunsHaveCases, Present
<1>1. ASSUME UNCHANGED revisions,
             \A k \in CaseId : cases[k] # None => cases'[k].active = cases[k].active
      PROVE  OneLineOfDescent'
  BY <1>0, <1>1 DEF OneLineOfDescent, Child, Present
<1>2. ASSUME NEW c \in CaseId, NEW r \in RevisionId, NEW setup \in Setup,
             CreateCase(c, r, setup)
      PROVE  OneLineOfDescent'
  <2>1. /\ cases[c] = None /\ revisions[r] = None /\ revisions'[r] # None
        /\ revisions'[r].case = c /\ revisions'[r].parent = None
        /\ cases'[c].active = r
        /\ \A q \in RevisionId : q # r => revisions'[q] = revisions[q]
        /\ \A k \in CaseId : k # c => cases'[k] = cases[k]
    BY <1>2, CreateCaseFacts
  <2>2. \A q, p \in RevisionId : Child(q, p)' <=> Child(q, p)
    BY <2>1, <1>0, NoneIsNoObject DEF Child
  <2> QED BY <1>0, <2>1, <2>2 DEF OneLineOfDescent, Present, Child
<1>3. ASSUME NEW c \in CaseId, NEW r \in RevisionId, NEW setup \in Setup,
             AppendCaseRevision(c, r, setup)
      PROVE  OneLineOfDescent'
  <2>1. /\ cases[c] # None /\ revisions[r] = None /\ revisions'[r] # None
        /\ revisions'[r].case = c /\ revisions'[r].parent = cases[c].active
        /\ cases'[c].active = r
        /\ \A q \in RevisionId : q # r => revisions'[q] = revisions[q]
        /\ \A k \in CaseId : k # c => cases'[k] = cases[k]
    BY <1>3, AppendCaseRevisionFacts
  <2> DEFINE tip == cases[c].active
  <2>2. /\ tip \in RevisionId /\ tip # r /\ revisions[tip] # None /\ revisions[tip].case = c
        /\ revisions'[r].parent = tip /\ \A q \in RevisionId : ~Child(tip, q)
    <3>1. tip \in RevisionId /\ revisions[tip] # None /\ revisions[tip].case = c /\ cases[c].active = tip
      BY <1>0, <2>1
    <3> HIDE DEF tip
    <3>2. \A q \in RevisionId : ~Child(tip, q)
      BY <1>0, <3>1 DEF OneLineOfDescent, Present
    <3> QED BY <2>1, <3>1, <3>2
  <2> HIDE DEF tip
  <2>3. /\ \A q, p \in RevisionId : Child(q, p)' <=> Child(q, p) \/ (q = tip /\ p = r)
        /\ \A p \in RevisionId : ~Child(r, p)
    <3>1. ASSUME NEW p \in RevisionId PROVE ~Child(r, p)
      BY <1>0, <2>1, NoneIsNoObject DEF Child
    <3>2. ASSUME NEW q \in RevisionId, NEW p \in RevisionId
          PROVE  Child(q, p)' <=> Child(q, p) \/ (q = tip /\ p = r)
      BY <2>1, <2>2, <3>2 DEF Child
    <3> QED BY <3>1, <3>2
  <2>4. ASSUME NEW q \in RevisionId, revisions'[q] # None
        PROVE  /\ \A p, o \in RevisionId : Child(q, p)' /\ Child(q, o)' => p = o
               /\ (cases'[revisions'[q].case].active = q) <=> \A p \in RevisionId : ~Child(q, p)'
    <3>1. CASE q = r
      BY <2>1, <2>2, <2>3, <3>1
    <3>2. CASE q = tip
      <4>1. revisions'[q].case = c
        BY <2>1, <2>2, <3>2
      <4> QED BY <2>1, <2>2, <2>3, <3>2, <4>1
    <3>3. CASE q # r /\ q # tip
      <4>1. revisions'[q] = revisions[q] /\ revisions[q] # None
        BY <2>1, <2>4, <3>3
      <4>2. /\ \A p, o \in RevisionId : Child(q, p) /\ Child(q, o) => p = o
            /\ (cases[revisions[q].case].active = q) <=> \A p \in RevisionId : ~Child(q, p)
        BY <1>0, <4>1 DEF OneLineOfDescent, Present
      <4>3. (cases'[revisions'[q].case].active = q) <=> (cases[revisions[q].case].active = q)
        BY <1>0, <2>1, <3>3, <4>1 DEF tip
      <4> QED BY <2>3, <3>3, <4>2, <4>3
    <3> QED BY <3>1, <3>2, <3>3
  <2> QED BY <1>0, <2>4 DEF OneLineOfDescent, Present, Child
<1>4. ASSUME NEW s \in SourceId, NEW p \in SourceId \cup {None}, AddSourceRevision(s, p)
      PROVE  OneLineOfDescent'
  BY <1>1, <1>4 DEF AddSourceRevision
<1>5. ASSUME NEW x \in RunId, NEW run \in RunRecord, AppendRun(x, run)
      PROVE  OneLineOfDescent'
  BY <1>1, <1>5, AppendRunFacts
<1>6. ASSUME NEW x \in RunId, NEW state \in TerminalState, NEW d \in RunId \cup {None},
             NEW v \in SUBSET ViewId, FinishRunAttempt(x, state, d, v)
      PROVE  OneLineOfDescent'
  BY <1>0, <1>1, <1>6, FinishFacts
<1>7. ASSUME NEW e \in EvidenceId, NEW a \in EvidenceRecord, AppendEvidence(e, a)
      PROVE  OneLineOfDescent'
  BY <1>1, <1>7, AppendEvidenceFacts
<1>8. ASSUME NEW s \in Selection, SetSelection(s) PROVE OneLineOfDescent'
  BY <1>1, <1>8 DEF SetSelection
<1>9. CASE UNCHANGED ledger
  BY <1>1, <1>9 DEF ledger
<1> QED BY <1>2, <1>3, <1>4, <1>5, <1>6, <1>7, <1>8, <1>9, StepCases

\* Evidence is numbered in the order it is recorded.
LEMMA PositionsStep ==
    ASSUME TypeOK, LoaderAccepts, PositionsDiffer, [Next]_ledger
    PROVE  PositionsDiffer'
<1>0. /\ DOMAIN evidence = EvidenceId /\ RunsHaveCases
      /\ \A f \in EvidenceId : evidence[f] # None => evidence[f].at < evidenceCount
      /\ \A f \in EvidenceId : evidence[f] # None => evidence[f].at \in Nat
      /\ evidenceCount \in Nat
  <2>1. \A f \in EvidenceId : evidence[f] # None => evidence[f].at \in Nat
    BY DEF TypeOK, EvidenceRecord
  <2> QED BY <2>1 DEF TypeOK, LoaderAccepts, LoadableEvidence, LoadableRuns, RunsHaveCases, Present
<1>1. ASSUME UNCHANGED evidence PROVE PositionsDiffer'
  BY <1>1 DEF PositionsDiffer, Present
<1>2. ASSUME NEW e \in EvidenceId, NEW a \in EvidenceRecord, AppendEvidence(e, a)
      PROVE  PositionsDiffer'
  <2>1. /\ evidence[e] = None /\ evidence'[e] = a /\ a.at = evidenceCount
        /\ \A f \in EvidenceId : f # e => evidence'[f] = evidence[f]
    BY <1>2, AppendEvidenceFacts
  <2>2. DOMAIN evidence' = EvidenceId
    BY <1>2 DEF AppendEvidence, TypeOK
  <2> QED BY <1>0, <2>1, <2>2 DEF PositionsDiffer, Present
<1>3. UNCHANGED evidence \/ \E e \in EvidenceId, a \in EvidenceRecord : AppendEvidence(e, a)
  BY StepCases DEF AddSourceRevision, CreateCase, AppendCaseRevision, AppendRun,
                   FinishRunAttempt, SetSelection, ledger
<1> QED BY <1>1, <1>2, <1>3

\* A report is signed once with a key: the later of two signatures was refused.
LEMMA SignedOnce ==
    ASSUME TypeOK, LoaderAccepts, PositionsDiffer
    PROVE  OneSignaturePerReport
<1> SUFFICES ASSUME NEW e \in Present(evidence), NEW f \in Present(evidence),
                    evidence[e].class = "signature"
             PROVE  /\ evidence[e].runs = evidence[evidence[e].parent].runs
                    /\ evidence[f].class = "signature"
                         /\ <<evidence[e].payload, evidence[e].key>>
                              = <<evidence[f].payload, evidence[f].key>> => e = f
  BY DEF OneSignaturePerReport
<1>1. /\ ValidSignature(evidence[e], evidence[e].at)
      /\ ValidSignature(evidence[f], evidence[f].at)
  BY DEF LoaderAccepts, LoadableEvidence
<1>2. evidence[e].runs = evidence[evidence[e].parent].runs
  BY <1>1 DEF ValidSignature, MatchesReport
<1>3. evidence[e].at \in Nat /\ evidence[f].at \in Nat
  BY DEF TypeOK, EvidenceRecord, Present
<1>4. ASSUME evidence[f].class = "signature", evidence[e].payload = evidence[f].payload,
             evidence[e].key = evidence[f].key, e # f
      PROVE  FALSE
  <2>1. evidence[e].at # evidence[f].at
    BY <1>4 DEF PositionsDiffer
  <2>2. ~(evidence[e].at < evidence[f].at) /\ ~(evidence[f].at < evidence[e].at)
    BY <1>1, <1>4 DEF ValidSignature, SignedBefore
  <2> QED BY <1>3, <2>1, <2>2
<1> QED BY <1>2, <1>4

\* A contract that is stale makes the discretization stale, and that the run.
LEMMA StaleStep ==
    ASSUME TypeOK, LoaderAccepts, StaleFlowsDownstream, [Next]_ledger
    PROVE  StaleFlowsDownstream'
<1> DEFINE Flows(stale) == /\ "contract" \in stale => "discretization" \in stale
                           /\ "discretization" \in stale => "run" \in stale
<1>0. DOMAIN cases = CaseId /\ RunsHaveCases
  BY DEF TypeOK, LoaderAccepts, LoadableRuns, RunsHaveCases
<1>1. ASSUME NEW c \in CaseId,
             \A k \in CaseId : k # c => cases'[k] = cases[k], cases'[c] # None,
             DOMAIN cases' = CaseId, Flows(cases'[c].stale)
      PROVE  StaleFlowsDownstream'
  BY <1>0, <1>1 DEF StaleFlowsDownstream, Present
<1>10. DOMAIN cases' = CaseId
  BY StepCases DEF TypeOK, ledger, AddSourceRevision, CreateCase, AppendCaseRevision, AppendRun,
                   FinishRunAttempt, AppendEvidence, SetSelection
<1>2. ASSUME NEW c \in CaseId, NEW r \in RevisionId, NEW setup \in Setup,
             CreateCase(c, r, setup)
      PROVE  StaleFlowsDownstream'
  BY <1>1, <1>2, <1>10, CreateCaseFacts
<1>3. ASSUME NEW c \in CaseId, NEW r \in RevisionId, NEW setup \in Setup,
             AppendCaseRevision(c, r, setup)
      PROVE  StaleFlowsDownstream'
  <2>1. Flows(StaleStagesAgainst(revisions[cases[c].active].setup, setup))
    BY DEF StaleStagesAgainst, Stage
  <2> QED BY <1>1, <1>3, <1>10, <2>1, AppendCaseRevisionFacts
<1>4. ASSUME NEW c \in CaseId, NEW run, cases[c] # None
      PROVE  Flows(StaleAfterRun(cases[c], run))
  BY <1>0, <1>4 DEF StaleFlowsDownstream, StaleAfterRun, Present
<1>5. ASSUME NEW x \in RunId, NEW run \in RunRecord, AppendRun(x, run)
      PROVE  StaleFlowsDownstream'
  BY <1>1, <1>4, <1>5, <1>10, AppendRunFacts
<1>6. ASSUME NEW x \in RunId, NEW state \in TerminalState, NEW d \in RunId \cup {None},
             NEW v \in SUBSET ViewId, FinishRunAttempt(x, state, d, v)
      PROVE  StaleFlowsDownstream'
  BY <1>0, <1>1, <1>4, <1>6, <1>10, FinishFacts
<1>7. ASSUME NEW e \in EvidenceId, NEW a \in EvidenceRecord, AppendEvidence(e, a)
      PROVE  StaleFlowsDownstream'
  BY <1>0, <1>7, <1>10, AppendEvidenceFacts DEF StaleFlowsDownstream, Present
<1>8. ASSUME UNCHANGED cases PROVE StaleFlowsDownstream'
  BY <1>8 DEF StaleFlowsDownstream, Present
<1> QED BY <1>2, <1>3, <1>5, <1>6, <1>7, <1>8, StepCases DEF AddSourceRevision, SetSelection, ledger

\* Two setups that leave no stage stale are the same.
LEMMA NothingStaled ==
    ASSUME NEW old \in Setup, NEW new \in Setup,
           \/ "run" \notin StaleStagesAgainst(old, new)
           \/ "evidence" \notin StaleStagesAgainst(old, new)
    PROVE  new = old
<1>1. /\ old.sources = new.sources /\ old.contract = new.contract
      /\ old.discretization = new.discretization /\ old.outputs = new.outputs
  BY DEF StaleStagesAgainst, Stage
<1> QED BY <1>1 DEF Setup

\* Why the stages of case c are current.
RunReason(c) ==
    LET r == cases[c].active IN
    \/ "run" \in cases[c].stale
    \/ Unedited(r)
    \/ \E x \in Present(runs) : runs[x].revision = r /\ runs[x].state \in SuccessState
EvidenceReason(c) ==
    LET r == cases[c].active IN
    \/ "evidence" \in cases[c].stale
    \/ Unedited(r)
    \/ \E e \in Present(evidence) : RunsOnActiveRevision(c, evidence[e].runs) # {}

\* A reason stays while the revision is active, nothing recorded changes and no stage
\* becomes current.
LEMMA ReasonsStay ==
    ASSUME TypeOK, TypeOK', LoaderAccepts, NEW c \in CaseId, cases[c] # None,
           cases'[c].active = cases[c].active,
           \A r \in RevisionId : revisions[r] # None => revisions'[r] = revisions[r],
           \A e \in EvidenceId : evidence[e] # None => evidence'[e] = evidence[e],
           \A x \in RunId : runs[x] # None =>
              /\ runs'[x] # None /\ runs'[x].case = runs[x].case
              /\ runs'[x].revision = runs[x].revision
              /\ runs[x].state \in SuccessState => runs'[x].state = runs[x].state
    PROVE  /\ RunReason(c) /\ ("run" \in cases[c].stale => "run" \in cases'[c].stale)
                => RunReason(c)'
           /\ EvidenceReason(c) /\ ("evidence" \in cases[c].stale => "evidence" \in cases'[c].stale)
                => EvidenceReason(c)'
<1>1. /\ DOMAIN runs = RunId /\ DOMAIN runs' = RunId /\ DOMAIN evidence = EvidenceId
      /\ DOMAIN evidence' = EvidenceId /\ DOMAIN cases = CaseId /\ DOMAIN revisions = RevisionId
  BY DEF TypeOK
<1>2. cases[c].active \in RevisionId
  BY DEF TypeOK, CaseRecord
<1> DEFINE r == cases[c].active
<1>3. revisions[r] # None /\ revisions[r].parent \in RevisionId \cup {None}
      /\ (revisions[r].parent # None => revisions[revisions[r].parent] # None)
  <2>1. revisions[r] # None
    BY <1>1 DEF LoaderAccepts, LoadableCases, Present
  <2>2. revisions[r] \in RevisionRecord
    BY <1>2, <2>1 DEF TypeOK
  <2> QED BY <1>1, <1>2, <2>1, <2>2 DEF LoaderAccepts, LoadableRevisions, Present, RevisionRecord
<1>4. Unedited(r) => Unedited(cases[c].active)'
  BY <1>2, <1>3 DEF Unedited
<1>5. ASSUME NEW xs \in SUBSET RunId, xs \subseteq Present(runs)
      PROVE  RunsOnActiveRevision(c, xs) \subseteq {x \in xs : runs'[x].case = c
                                                      /\ runs'[x].revision = cases'[c].active}
  BY <1>1, <1>5 DEF RunsOnActiveRevision, Present
<1>6. \A e \in EvidenceId : evidence[e] # None =>
         evidence[e].runs \subseteq Present(runs) /\ evidence[e].runs \in SUBSET RunId
  BY <1>1 DEF LoaderAccepts, LoadableEvidence, Present
<1>7. RunReason(c) /\ ("run" \in cases[c].stale => "run" \in cases'[c].stale) => RunReason(c)'
  BY <1>1, <1>4 DEF RunReason, Present
<1>8. EvidenceReason(c) /\ ("evidence" \in cases[c].stale => "evidence" \in cases'[c].stale)
        => EvidenceReason(c)'
  <2>1. ASSUME NEW e \in Present(evidence), RunsOnActiveRevision(c, evidence[e].runs) # {}
        PROVE  \E f \in Present(evidence)' : RunsOnActiveRevision(c, evidence[f].runs)' # {}
    <3>1. e \in Present(evidence)' /\ evidence'[e] = evidence[e]
      BY <1>1, <2>1 DEF Present
    <3>2. RunsOnActiveRevision(c, evidence[e].runs)' # {}
      BY <1>1, <1>5, <1>6, <2>1, <3>1 DEF RunsOnActiveRevision, Present
    <3> QED BY <3>1, <3>2
  <2> QED BY <1>4, <2>1 DEF EvidenceReason
<1> QED BY <1>7, <1>8

\* A stage that is current has a reason: no step takes the reason and leaves the stage.
LEMMA FreshStep ==
    ASSUME TypeOK, TypeOK', LoaderAccepts, FreshHasAReason, [Next]_ledger
    PROVE  FreshHasAReason'
<1>0. /\ DOMAIN cases = CaseId /\ DOMAIN cases' = CaseId /\ RunsHaveCases
      /\ DOMAIN runs = RunId /\ DOMAIN runs' = RunId /\ DOMAIN evidence' = EvidenceId
  BY DEF TypeOK, LoaderAccepts, LoadableRuns, RunsHaveCases
<1>1. \A c \in CaseId : cases[c] # None => RunReason(c) /\ EvidenceReason(c)
  BY <1>0 DEF FreshHasAReason, RunReason, EvidenceReason, Present
<1> SUFFICES ASSUME NEW c \in CaseId, cases'[c] # None
             PROVE  RunReason(c)' /\ EvidenceReason(c)'
  BY <1>0 DEF FreshHasAReason, RunReason, EvidenceReason, Present
<1>2. ASSUME cases[c] # None, cases'[c] = cases[c],
             \A r \in RevisionId : revisions[r] # None => revisions'[r] = revisions[r],
             UNCHANGED <<runs, evidence>>
      PROVE  RunReason(c)' /\ EvidenceReason(c)'
  BY <1>1, <1>2, ReasonsStay
<1>3. ASSUME NEW s \in SourceId, NEW p \in SourceId \cup {None}, AddSourceRevision(s, p)
      PROVE  RunReason(c)' /\ EvidenceReason(c)'
  BY <1>2, <1>3 DEF AddSourceRevision
<1>4. ASSUME NEW k \in CaseId, NEW r \in RevisionId, NEW setup \in Setup,
             CreateCase(k, r, setup)
      PROVE  RunReason(c)' /\ EvidenceReason(c)'
  <2>1. /\ revisions[r] = None /\ revisions'[r].parent = None /\ cases'[k].active = r
        /\ \A q \in RevisionId : q # r => revisions'[q] = revisions[q]
        /\ \A j \in CaseId : j # k => cases'[j] = cases[j]
        /\ UNCHANGED <<runs, evidence>>
    BY <1>4, CreateCaseFacts
  <2>2. CASE c = k
    <3>1. Unedited(cases[c].active)'
      BY <2>1, <2>2 DEF Unedited
    <3> QED BY <3>1 DEF RunReason, EvidenceReason
  <2>3. CASE c # k
    BY <1>2, <2>1, <2>3
  <2> QED BY <2>2, <2>3
<1>5. ASSUME NEW k \in CaseId, NEW r \in RevisionId, NEW setup \in Setup,
             AppendCaseRevision(k, r, setup)
      PROVE  RunReason(c)' /\ EvidenceReason(c)'
  <2>1. /\ cases[k] # None /\ revisions[r] = None /\ revisions'[r].parent = cases[k].active
        /\ revisions'[r].setup = setup /\ cases'[k].active = r
        /\ cases'[k].stale = StaleStagesAgainst(revisions[cases[k].active].setup, setup)
        /\ \A q \in RevisionId : q # r => revisions'[q] = revisions[q]
        /\ \A j \in CaseId : j # k => cases'[j] = cases[j]
        /\ UNCHANGED <<runs, evidence>>
    BY <1>5, AppendCaseRevisionFacts
  <2>2. CASE c = k
    <3>1. cases[k].active \in RevisionId
      BY <2>1 DEF TypeOK, CaseRecord
    <3>2. revisions[cases[k].active] # None
      BY <1>0, <2>1 DEF LoaderAccepts, LoadableCases, Present
    <3>3. revisions[cases[k].active].setup \in Setup
      BY <3>1, <3>2 DEF TypeOK, RevisionRecord
    <3>4. revisions'[revisions'[r].parent] = revisions[cases[k].active]
      BY <2>1, <3>1, <3>2
    <3>5. \/ "run" \in cases'[c].stale /\ "evidence" \in cases'[c].stale
          \/ setup = revisions[cases[k].active].setup
      BY <2>1, <2>2, <3>3, NothingStaled
    <3>6. setup = revisions[cases[k].active].setup => Unedited(cases[c].active)'
      BY <2>1, <2>2, <3>4 DEF Unedited
    <3> QED BY <3>5, <3>6 DEF RunReason, EvidenceReason
  <2>3. CASE c # k
    BY <1>2, <2>1, <2>3
  <2> QED BY <2>2, <2>3
<1>6. ASSUME NEW x \in RunId, NEW run \in RunRecord,
             run.case \in CaseId, cases[run.case] # None, runs'[x] = run, run # None,
             runs[x] # None => /\ run.case = runs[x].case /\ run.revision = runs[x].revision
                               /\ runs[x].state \in OpenState,
             \A y \in RunId : y # x => runs'[y] = runs[y],
             cases'[run.case].active = cases[run.case].active,
             cases'[run.case].stale = StaleAfterRun(cases[run.case], run),
             \A k \in CaseId : k # run.case => cases'[k] = cases[k],
             UNCHANGED <<revisions, evidence>>
      PROVE  RunReason(c)' /\ EvidenceReason(c)'
  <2>1. cases[c] # None /\ cases'[c].active = cases[c].active
    BY <1>6
  <2>2. \A y \in RunId : runs[y] # None =>
           /\ runs'[y] # None /\ runs'[y].case = runs[y].case
           /\ runs'[y].revision = runs[y].revision
           /\ runs[y].state \in SuccessState => runs'[y].state = runs[y].state
    BY <1>6 DEF OpenState, SuccessState
  <2>3. /\ "run" \in cases[c].stale =>
             \/ "run" \in cases'[c].stale
             \/ run.revision = cases'[c].active /\ run.state \in SuccessState
        /\ "evidence" \in cases[c].stale => "evidence" \in cases'[c].stale
    BY <1>6 DEF StaleAfterRun
  <2>4. EvidenceReason(c)'
    BY <1>1, <1>6, <2>1, <2>2, <2>3, ReasonsStay
  <2>5. CASE run.revision = cases'[c].active /\ run.state \in SuccessState
    BY <1>0, <1>6, <2>4, <2>5 DEF RunReason, Present
  <2>6. CASE "run" \in cases[c].stale => "run" \in cases'[c].stale
    BY <1>1, <1>6, <2>1, <2>2, <2>4, <2>6, ReasonsStay
  <2> QED BY <2>3, <2>5, <2>6
<1>7. ASSUME NEW x \in RunId, NEW run \in RunRecord, AppendRun(x, run)
      PROVE  RunReason(c)' /\ EvidenceReason(c)'
  BY <1>6, <1>7, AppendRunFacts
<1>8. ASSUME NEW x \in RunId, NEW state \in TerminalState, NEW d \in RunId \cup {None},
             NEW v \in SUBSET ViewId, FinishRunAttempt(x, state, d, v)
      PROVE  RunReason(c)' /\ EvidenceReason(c)'
  <2>1. /\ runs'[x] \in RunRecord /\ runs'[x] # None /\ runs[x].state \in OpenState
        /\ SameAttempt(runs[x], runs'[x])
    BY <1>0, <1>8, FinishFacts
  <2>2. runs'[x].case = runs[x].case /\ runs'[x].revision = runs[x].revision
    BY <2>1 DEF SameAttempt
  <2> QED BY <1>0, <1>6, <1>8, <2>1, <2>2, FinishFacts
<1>9. ASSUME NEW e \in EvidenceId, NEW a \in EvidenceRecord, AppendEvidence(e, a)
      PROVE  RunReason(c)' /\ EvidenceReason(c)'
  <2>1. /\ evidence[e] = None /\ evidence'[e] = a /\ a # None
        /\ \A f \in EvidenceId : f # e => evidence'[f] = evidence[f]
        /\ cases[c] # None /\ cases'[c].active = cases[c].active
        /\ cases'[c].stale = IF RunsOnActiveRevision(c, a.runs) # {}
                             THEN cases[c].stale \ {"evidence"} ELSE cases[c].stale
        /\ UNCHANGED <<revisions, runs>>
    BY <1>9, AppendEvidenceFacts
  <2>2. RunReason(c)'
    BY <1>1, <2>1, ReasonsStay
  <2>3. CASE RunsOnActiveRevision(c, a.runs) # {}
    <3>1. RunsOnActiveRevision(c, evidence[e].runs)' # {}
      BY <2>1, <2>3 DEF RunsOnActiveRevision
    <3> QED BY <1>0, <2>1, <2>2, <3>1 DEF EvidenceReason, Present
  <2>4. CASE RunsOnActiveRevision(c, a.runs) = {}
    BY <1>1, <2>1, <2>2, <2>4, ReasonsStay
  <2> QED BY <2>3, <2>4
<1>10. ASSUME NEW s \in Selection, SetSelection(s) PROVE RunReason(c)' /\ EvidenceReason(c)'
  BY <1>2, <1>10 DEF SetSelection
<1>11. CASE UNCHANGED ledger
  BY <1>2, <1>11 DEF ledger
<1> QED BY <1>3, <1>4, <1>5, <1>7, <1>8, <1>9, <1>10, <1>11, StepCases

-----------------------------------------------------------------------------
\* An empty manifest satisfies the invariant.
LEMMA InitLedger == Init => Ledger
<1> SUFFICES ASSUME Init PROVE Ledger
  OBVIOUS
<1>1. /\ Present(sources) = {} /\ Present(revisions) = {} /\ Present(cases) = {}
      /\ Present(runs) = {} /\ Present(evidence) = {}
  BY DEF Init, Present
<1> QED BY <1>1 DEF Init, Ledger, LoaderAccepts, LoadableCases, LoadableRevisions, LoadableRuns,
              LoadableEvidence, SelectionResolves, PresentOrNone, OneLineOfDescent,
              FreshHasAReason, StaleFlowsDownstream, PositionsDiffer

\* The invariant holds in every manifest the program builds.
LEMMA AlwaysLedger == Spec => [](TypeOK /\ Ledger)
<1>1. Ledger /\ TypeOK /\ TypeOK' /\ [Next]_ledger => Ledger'
  BY LoaderStep, DescentStep, FreshStep, StaleStep, PositionsStep DEF Ledger
<1> QED BY <1>1, InitLedger, TypeCorrect, PTL DEF Spec

\* For any sets of identifiers, what the operations built the loader accepts.
THEOREM Loadable == Spec => []LoaderAccepts
<1>1. Ledger => LoaderAccepts
  BY DEF Ledger
<1> QED BY <1>1, AlwaysLedger, PTL

\* The revisions of a case form one line that ends in the active one.
THEOREM OneLine == Spec => []OneLineOfDescent
<1>1. Ledger => OneLineOfDescent
  BY DEF Ledger
<1> QED BY <1>1, AlwaysLedger, PTL

\* A stage that is not stale is a first or repeated input, or has been computed.
THEOREM FreshIsJustified == Spec => []FreshHasAReason
<1>1. Ledger => FreshHasAReason
  BY DEF Ledger
<1> QED BY <1>1, AlwaysLedger, PTL

\* No stage is current above a stale one, up to the run.
THEOREM StalenessFlows == Spec => []StaleFlowsDownstream
<1>1. Ledger => StaleFlowsDownstream
  BY DEF Ledger
<1> QED BY <1>1, AlwaysLedger, PTL

\* One signature for a payload and a key, about the runs of its report.
THEOREM SignedAtMostOnce == Spec => []OneSignaturePerReport
<1>1. TypeOK /\ Ledger => OneSignaturePerReport
  BY SignedOnce DEF Ledger
<1> QED BY <1>1, AlwaysLedger, PTL

\* Nothing recorded changes, but for an open attempt that is closed once.
THEOREM RecordsAreImmutable == Spec => HistoryIsImmutable
<1>1. ASSUME TypeOK, LoaderAccepts, [Next]_ledger
      PROVE  Immutable
  <2>0. /\ DOMAIN sources = SourceId /\ DOMAIN revisions = RevisionId /\ RunsHaveCases
        /\ DOMAIN evidence = EvidenceId /\ DOMAIN runs = RunId
    BY <1>1 DEF TypeOK, LoaderAccepts, LoadableRuns, RunsHaveCases
  <2>1. ASSUME \A s \in SourceId : sources[s] # None => sources'[s] = sources[s],
               \A r \in RevisionId : revisions[r] # None => revisions'[r] = revisions[r],
               \A e \in EvidenceId : evidence[e] # None => evidence'[e] = evidence[e],
               \A x \in RunId : runs[x] # None => runs'[x] = runs[x]
        PROVE  Immutable
    BY <2>0, <2>1 DEF Immutable, Present
  <2>2. ASSUME NEW s \in SourceId, NEW p \in SourceId \cup {None}, AddSourceRevision(s, p)
        PROVE  Immutable
    BY <1>1, <2>1, <2>2 DEF AddSourceRevision, TypeOK
  <2>3. ASSUME NEW c \in CaseId, NEW r \in RevisionId, NEW setup \in Setup,
               CreateCase(c, r, setup)
        PROVE  Immutable
    BY <1>1, <2>1, <2>3, CreateCaseFacts
  <2>4. ASSUME NEW c \in CaseId, NEW r \in RevisionId, NEW setup \in Setup,
               AppendCaseRevision(c, r, setup)
        PROVE  Immutable
    BY <1>1, <2>1, <2>4, AppendCaseRevisionFacts
  <2>5. ASSUME NEW x \in RunId, NEW run \in RunRecord, AppendRun(x, run)
        PROVE  Immutable
    BY <1>1, <2>1, <2>5, AppendRunFacts
  <2>6. ASSUME NEW x \in RunId, NEW state \in TerminalState, NEW d \in RunId \cup {None},
               NEW v \in SUBSET ViewId, FinishRunAttempt(x, state, d, v)
        PROVE  Immutable
    BY <1>1, <2>0, <2>6, FinishFacts DEF Immutable, Present
  <2>7. ASSUME NEW e \in EvidenceId, NEW a \in EvidenceRecord, AppendEvidence(e, a)
        PROVE  Immutable
    BY <1>1, <2>1, <2>7, AppendEvidenceFacts
  <2>8. ASSUME NEW s \in Selection, SetSelection(s) PROVE Immutable
    BY <2>1, <2>8 DEF SetSelection
  <2>9. CASE UNCHANGED ledger
    BY <2>1, <2>9 DEF ledger
  <2> QED BY <1>1, <2>2, <2>3, <2>4, <2>5, <2>6, <2>7, <2>8, <2>9, StepCases
<1>2. TypeOK /\ Ledger /\ [Next]_ledger => [Immutable]_ledger
  BY <1>1 DEF Ledger
<1> QED BY <1>2, AlwaysLedger, PTL DEF Spec, HistoryIsImmutable
=============================================================================
