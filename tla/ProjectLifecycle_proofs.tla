----------------------- MODULE ProjectLifecycle_proofs -----------------------
(***************************************************************************)
(* Proofs about ProjectLifecycle for any number of sessions, projects,     *)
(* paths and edits.                                                        *)
(*                                                                         *)
(* The invariant speaks of one session record at a time (SessionOK), so    *)
(* each action is shown to build a record that satisfies it; sessions      *)
(* depend on each other only through the files, which carry no invariant   *)
(* but their type.                                                         *)
(***************************************************************************)
EXTENDS ProjectLifecycle, TLAPS

CleanRecord(r) ==
    ~r.dirty => IF r.path = None THEN r.document.edits = {} ELSE r.onDisk = r.document

CoveredRecord(r) ==
    /\ r.owned # None => Covers(r.document, r.owned.document)
    /\ r.onDisk # None /\ ~r.recovered => Covers(r.document, r.onDisk)

SessionOK(r) == r \in SessionRecord /\ CleanRecord(r) /\ CoveredRecord(r)

SharedOK ==
    /\ disk \in [Path -> Document \cup {None}]
    /\ snapshot \in [Project -> Snapshot \cup {None}]
    /\ clock \in 0 .. MaxClock
    /\ made \subseteq Edit

Inv ==
    /\ SharedOK
    /\ session \in [Session -> SessionRecord \cup {None}]
    /\ \A s \in Session : session[s] # None => SessionOK(session[s])

-----------------------------------------------------------------------------
\* The invariant implies the properties that the runs check.
LEMMA InvImplies == Inv => TypeOK /\ CleanMeansSaved /\ BaselinesAreCovered
  BY DEF Inv, SharedOK, TypeOK, CleanMeansSaved, BaselinesAreCovered, Running,
         SessionOK, CleanRecord, CoveredRecord

\* A step that leaves good files and gives one session a good record, or ends
\* it, preserves the invariant.
LEMMA UpdateSession ==
    ASSUME Inv, NEW s \in Session, NEW r, r = None \/ SessionOK(r),
           session' = [session EXCEPT ![s] = r], SharedOK'
    PROVE  Inv'
  BY DEF Inv, SessionOK

-----------------------------------------------------------------------------
LEMMA LoadInv ==
    ASSUME Inv, NEW s \in Session, NEW p \in Project, Load(s, p)
    PROVE  Inv'
<1> DEFINE r == [document |-> Blank(p), path |-> None, dirty |-> FALSE,
                 recovered |-> FALSE, onDisk |-> None, owned |-> None,
                 listed |-> [q \in Project |->
                                IF q \in Superseded THEN None ELSE snapshot[q]],
                 discarding |-> FALSE]
<1>1. r \in SessionRecord
  BY DEF Inv, SharedOK, SessionRecord, Blank, Document
<1>2. SessionOK(r)
  BY <1>1 DEF SessionOK, CleanRecord, CoveredRecord, Blank
<1>3. SharedOK'
  BY DEF Inv, SharedOK, Load
<1>4. session' = [session EXCEPT ![s] = r]
  BY DEF Load
<1> QED
  BY <1>2, <1>3, <1>4, UpdateSession

\* New, Open, Reload and Recover replace the record by a good one.
LEMMA ReplaceInv ==
    ASSUME Inv, NEW s \in Session, session[s] # None, UNCHANGED <<shared, made>>,
           NEW document \in Document, NEW path \in Path \cup {None},
           NEW dirty \in BOOLEAN, NEW recovered \in BOOLEAN,
           NEW onDisk \in Document \cup {None}, NEW owned \in Snapshot \cup {None},
           Replace(s, document, path, dirty, recovered, onDisk, owned),
           ~dirty => IF path = None THEN document.edits = {} ELSE onDisk = document,
           owned # None => Covers(document, owned.document),
           onDisk # None /\ ~recovered => Covers(document, onDisk)
    PROVE  Inv'
<1> DEFINE r == [document |-> document, path |-> path, dirty |-> dirty,
                 recovered |-> recovered, onDisk |-> onDisk, owned |-> owned,
                 listed |-> session[s].listed, discarding |-> FALSE]
<1>1. r \in SessionRecord
  BY DEF Inv, SessionRecord
<1>2. SessionOK(r)
  BY <1>1 DEF SessionOK, CleanRecord, CoveredRecord
<1>3. SharedOK'
  BY DEF Inv, SharedOK, shared
<1>4. session' = [session EXCEPT ![s] = r]
  BY DEF Replace
<1> QED
  BY <1>2, <1>3, <1>4, UpdateSession

LEMMA NewProjectInv ==
    ASSUME Inv, NEW s \in Session, NEW p \in Project, NewProject(s, p)
    PROVE  Inv'
<1>1. Blank(p) \in Document /\ session[s] # None
  BY DEF Blank, Document, NewProject, MayReplace, Running
<1> QED
  BY <1>1, ReplaceInv DEF NewProject

LEMMA OpenFileInv ==
    ASSUME Inv, NEW s \in Session, session[s] # None, NEW f \in Path, OpenFile(s, f)
    PROVE  Inv'
<1>1. disk[f] \in Document
  BY DEF OpenFile, Inv, SharedOK
<1>2. Covers(disk[f], disk[f])
  BY <1>1 DEF Covers
<1> QED
  BY <1>1, <1>2, ReplaceInv, NoneIsNothing DEF OpenFile

LEMMA RecoverInv ==
    ASSUME Inv, NEW s \in Session, NEW p \in Project, Recover(s, p)
    PROVE  Inv'
<1> DEFINE f == snapshot[p].source
           onDisk == IF f = None THEN None ELSE disk[f]
<1>1. snapshot[p] \in Snapshot /\ session[s] # None
  BY DEF Recover, MayReplace, Running, Inv, SharedOK
<1>2. snapshot[p].document \in Document /\ f \in Path \cup {None}
  BY <1>1 DEF Snapshot
<1>3. onDisk \in Document \cup {None}
  BY <1>2 DEF Inv, SharedOK
<1>4. Covers(snapshot[p].document, snapshot[p].document)
  BY DEF Covers
<1>5. Replace(s, snapshot[p].document, f, TRUE, TRUE, onDisk, snapshot[p])
  BY DEF Recover
<1>6. UNCHANGED <<shared, made>>
  BY DEF Recover
<1> HIDE DEF f, onDisk
<1> QED
  BY <1>1, <1>2, <1>3, <1>4, <1>5, <1>6, ReplaceInv

LEMMA MakeEditInv ==
    ASSUME Inv, NEW s \in Session, NEW e \in Edit, MakeEdit(s, e)
    PROVE  Inv'
<1> DEFINE r == [session[s] EXCEPT !.document.edits = @ \cup {e}, !.dirty = TRUE]
<1>1. session[s] \in SessionRecord /\ SessionOK(session[s])
  BY DEF MakeEdit, Active, Running, Inv
<1>2. r \in SessionRecord
  BY <1>1 DEF SessionRecord, Document
<1>3. /\ r.document.project = session[s].document.project
      /\ session[s].document.edits \subseteq r.document.edits
      /\ r.owned = session[s].owned /\ r.onDisk = session[s].onDisk
      /\ r.recovered = session[s].recovered /\ r.dirty
  BY <1>1 DEF SessionRecord, Document
<1>4. SessionOK(r)
  BY <1>1, <1>2, <1>3 DEF SessionOK, CleanRecord, CoveredRecord, Covers
<1>5. SharedOK'
  BY DEF Inv, SharedOK, MakeEdit, shared
<1>6. session' = [session EXCEPT ![s] = r]
  BY <1>1 DEF MakeEdit, Inv, SessionRecord, Document
<1> QED
  BY <1>4, <1>5, <1>6, UpdateSession

LEMMA EndInv ==
    ASSUME Inv, NEW s \in Session, DeferredActionFails(s) \/ Exit(s)
    PROVE  Inv'
<1>1. SharedOK'
  BY DEF Inv, SharedOK, DeferredActionFails, Exit, shared
<1>2. CASE Exit(s)
  BY <1>1, <1>2, UpdateSession DEF Exit
<1>3. CASE DeferredActionFails(s)
  <2> DEFINE r == [session[s] EXCEPT !.discarding = FALSE]
  <2>1. session[s] \in SessionRecord /\ SessionOK(session[s])
    BY <1>3 DEF DeferredActionFails, Running, Inv
  <2>2. r \in SessionRecord
    BY <2>1 DEF SessionRecord
  <2>3. SessionOK(r)
    BY <2>1, <2>2 DEF SessionOK, CleanRecord, CoveredRecord, SessionRecord
  <2>4. session' = [session EXCEPT ![s] = r]
    BY <1>3 DEF DeferredActionFails
  <2> QED
    BY <1>1, <2>3, <2>4, UpdateSession
<1> QED
  BY <1>2, <1>3

\* A published file holds the document, and the record of a successful save
\* holds the same document as its baseline.
LEMMA PublishShared ==
    ASSUME Inv, NEW s \in Running, NEW f \in Path, Publish(s, f)
    PROVE  /\ session[s] \in SessionRecord /\ SessionOK(session[s])
           /\ session[s].document \in Document
           /\ disk' \in [Path -> Document \cup {None}]
           /\ disk'[f] = session[s].document
<1>1. session[s] \in SessionRecord /\ SessionOK(session[s]) /\ s \in Session
  BY DEF Inv, Running
<1>2. session[s].document \in Document
  BY <1>1 DEF SessionRecord
<1> QED
  BY <1>1, <1>2 DEF Inv, SharedOK, Publish

LEMMA SaveInv ==
    ASSUME Inv, NEW s \in Session, s \in Running, NEW f \in Path, Publish(s, f),
           FinishSuccessfulSave(s, f), UNCHANGED <<clock, made>>
    PROVE  Inv'
<1> DEFINE p == session[s].document.project
<1>1. /\ session[s] \in SessionRecord /\ SessionOK(session[s])
      /\ session[s].document \in Document
      /\ disk' \in [Path -> Document \cup {None}]
  BY PublishShared
<1>2. p \in Project
  BY <1>1 DEF Document
<1>3. PICK removed \in BOOLEAN :
         /\ snapshot' = IF removed THEN [snapshot EXCEPT ![p] = None] ELSE snapshot
         /\ session' = [session EXCEPT
               ![s].path = f, ![s].dirty = FALSE, ![s].recovered = FALSE,
               ![s].onDisk = session[s].document,
               ![s].owned = IF removed THEN None ELSE @,
               ![s].listed[p] = IF removed THEN None ELSE @]
  BY DEF FinishSuccessfulSave
<1> DEFINE r == [session[s] EXCEPT
               !.path = f, !.dirty = FALSE, !.recovered = FALSE,
               !.onDisk = session[s].document,
               !.owned = IF removed THEN None ELSE @,
               !.listed[p] = IF removed THEN None ELSE @]
<1>4. session' = [session EXCEPT ![s] = r]
  BY <1>1, <1>2, <1>3 DEF Inv, SessionRecord, Document
<1>5. r \in SessionRecord
  BY <1>1, <1>2 DEF SessionRecord
<1>6. /\ r.document = session[s].document /\ r.onDisk = session[s].document
      /\ r.path = f /\ r.owned \in {None, session[s].owned}
  BY <1>1 DEF SessionRecord
<1>7. Covers(r.document, r.onDisk)
  BY <1>6 DEF Covers
<1>8. SessionOK(r)
  BY <1>1, <1>5, <1>6, <1>7, NoneIsNothing DEF SessionOK, CleanRecord, CoveredRecord
<1>9. SharedOK'
  BY <1>1, <1>2, <1>3 DEF Inv, SharedOK
<1> QED
  BY <1>4, <1>8, <1>9, UpdateSession

LEMMA SaveUnreportedInv ==
    ASSUME Inv, NEW s \in Session, NEW f \in Path, SaveUnreported(s, f)
    PROVE  Inv'
<1>1. disk' \in [Path -> Document \cup {None}]
  BY PublishShared DEF SaveUnreported, Active
<1> QED
  BY <1>1 DEF Inv, SharedOK, SaveUnreported

LEMMA WriteSnapshotInv ==
    ASSUME Inv, NEW s \in Session, NEW at \in 0 .. MaxClock, WriteSnapshot(s, at)
    PROVE  Inv'
<1> DEFINE p == session[s].document.project
           new == [document |-> session[s].document, source |-> session[s].path, at |-> at]
           r == [session[s] EXCEPT !.owned = new, !.listed[p] = new]
<1>1. session[s] \in SessionRecord /\ SessionOK(session[s]) /\ session[s].dirty
  BY DEF WriteSnapshot, Active, Running, Inv
<1>2. session[s].document \in Document /\ p \in Project /\ new \in Snapshot
  BY <1>1 DEF SessionRecord, Document, Snapshot
<1>3. SharedOK'
  BY <1>2 DEF Inv, SharedOK, WriteSnapshot
<1>4. CASE UNCHANGED session
  BY <1>3, <1>4 DEF Inv
<1>5. CASE session' = [session EXCEPT ![s].owned = new, ![s].listed[p] = new]
  <2>1. session' = [session EXCEPT ![s] = r]
    BY <1>5
  <2>2. r \in SessionRecord
    BY <1>1, <1>2 DEF SessionRecord
  <2>3. /\ r.document = session[s].document /\ r.owned.document = session[s].document
        /\ r.dirty /\ r.onDisk = session[s].onDisk /\ r.recovered = session[s].recovered
    BY <1>1 DEF SessionRecord
  <2>4. Covers(r.document, r.owned.document)
    BY <2>3 DEF Covers
  <2>5. SessionOK(r)
    BY <1>1, <2>2, <2>3, <2>4 DEF SessionOK, CleanRecord, CoveredRecord
  <2> QED
    BY <1>3, <2>1, <2>5, UpdateSession
<1> QED
  BY <1>4, <1>5 DEF WriteSnapshot

LEMMA RemoveListedInv ==
    ASSUME Inv, NEW s \in Session, s \in Running, NEW p \in Project,
           NEW discarding \in BOOLEAN, RemoveListed(s, p, discarding)
    PROVE  Inv'
<1> DEFINE own == /\ session[s].listed[p] # None /\ session[s].owned # None
                  /\ session[s].owned.document.project = p
           r == [session[s] EXCEPT !.listed[p] = None,
                                   !.owned = IF own THEN None ELSE @,
                                   !.discarding = discarding]
<1>1. session[s] \in SessionRecord /\ SessionOK(session[s])
  BY DEF Running, Inv
<1>2. r \in SessionRecord
  BY <1>1 DEF SessionRecord
<1>3. /\ r.document = session[s].document /\ r.path = session[s].path
      /\ r.dirty = session[s].dirty /\ r.onDisk = session[s].onDisk
      /\ r.recovered = session[s].recovered /\ r.owned \in {None, session[s].owned}
  BY <1>1 DEF SessionRecord
<1>4. SessionOK(r)
  BY <1>1, <1>2, <1>3 DEF SessionOK, CleanRecord, CoveredRecord
<1>5. SharedOK'
  BY DEF Inv, SharedOK, RemoveListed
<1>6. session' = [session EXCEPT ![s] = r]
  BY DEF RemoveListed
<1> QED
  BY <1>4, <1>5, <1>6, UpdateSession

-----------------------------------------------------------------------------
LEMMA NextInv == Inv /\ [Next]_vars => Inv'
<1> SUFFICES ASSUME Inv, [Next]_vars PROVE Inv'
  OBVIOUS
<1>1. CASE UNCHANGED vars
  BY <1>1 DEF vars, shared, Inv, SharedOK
<1>2. CASE Next
  <2> PICK s \in Session :
       \/ \E p \in Project :
             Load(s, p) \/ NewProject(s, p) \/ Recover(s, p) \/ DiscardRecovery(s, p)
       \/ \E e \in Edit : MakeEdit(s, e)
       \/ \E f \in Path :
             \/ Open(s, f) \/ Reload(s, f)
             \/ Save(s, f) \/ SaveAs(s, f) \/ SaveUnreported(s, f)
       \/ \E at \in 0 .. MaxClock : WriteSnapshot(s, at)
       \/ DiscardChanges(s) \/ DeferredActionFails(s) \/ Exit(s)
    BY <1>2 DEF Next
  <2>1. CASE \E p \in Project : Load(s, p) \/ NewProject(s, p) \/ Recover(s, p)
    BY <2>1, LoadInv, NewProjectInv, RecoverInv
  <2>2. CASE \E p \in Project : DiscardRecovery(s, p)
    BY <2>2, RemoveListedInv DEF DiscardRecovery, Active
  <2>3. CASE \E e \in Edit : MakeEdit(s, e)
    BY <2>3, MakeEditInv
  <2>4. CASE \E f \in Path : Open(s, f) \/ Reload(s, f)
    BY <2>4, OpenFileInv DEF Open, Reload, MayReplace, Active, Running
  <2>5. CASE \E f \in Path : Save(s, f) \/ SaveAs(s, f)
    BY <2>5, SaveInv DEF Save, SaveAs, Active
  <2>6. CASE \E f \in Path : SaveUnreported(s, f)
    BY <2>6, SaveUnreportedInv
  <2>7. CASE \E at \in 0 .. MaxClock : WriteSnapshot(s, at)
    BY <2>7, WriteSnapshotInv
  <2>8. CASE DiscardChanges(s)
    <3>1. session[s].document.project \in Project /\ s \in Running
      BY <2>8 DEF DiscardChanges, Active, Running, Inv, SessionRecord, Document
    <3> QED
      BY <2>8, <3>1, RemoveListedInv DEF DiscardChanges
  <2>9. CASE DeferredActionFails(s) \/ Exit(s)
    BY <2>9, EndInv
  <2> QED
    BY <2>1, <2>2, <2>3, <2>4, <2>5, <2>6, <2>7, <2>8, <2>9
<1> QED
  BY <1>1, <1>2

LEMMA InitInv == Init => Inv
  BY ClockIsBounded DEF Init, Inv, SharedOK

THEOREM AlwaysInv == Spec => []Inv
  BY InitInv, NextInv, PTL DEF Spec

\* Type correctness of the lifecycle.
THEOREM TypeCorrect == Spec => []TypeOK
  BY AlwaysInv, InvImplies, PTL

\* A session that shows no unsaved work has none.
THEOREM CleanIsSaved == Spec => []CleanMeansSaved
  BY AlwaysInv, InvImplies, PTL

\* Whatever a session may overwrite or remove without asking is in its document.
THEOREM BaselinesCovered == Spec => []BaselinesAreCovered
  BY AlwaysInv, InvImplies, PTL

-----------------------------------------------------------------------------
\* Work stays durable when every file keeps its edits and every snapshot keeps
\* them or is repeated by a file.
LEMMA KeptWork ==
    ASSUME \A f \in Path : disk[f] # None =>
              disk'[f] # None /\ disk[f].edits \subseteq disk'[f].edits,
           \A p \in Project : snapshot[p] # None =>
              \/ /\ snapshot'[p] # None
                 /\ snapshot[p].document.edits \subseteq snapshot'[p].document.edits
              \/ \E f \in Path : /\ disk'[f] # None
                                 /\ snapshot[p].document.edits \subseteq disk'[f].edits
    PROVE  Durable \subseteq Durable'
  BY DEF Durable

LEMMA UnchangedFiles == ASSUME UNCHANGED shared PROVE Durable \subseteq Durable'
  BY DEF shared, Durable

LEMMA LoadKeepsWork ==
    ASSUME Inv, NEW s \in Session, NEW p \in Project, Load(s, p)
    PROVE  Durable \subseteq Durable'
<1>1. disk' = disk
  BY DEF Load
<1>2. ASSUME NEW q \in Project, snapshot[q] # None
      PROVE  \/ snapshot'[q] = snapshot[q]
             \/ \E f \in Path : disk'[f] # None /\ disk'[f] = snapshot[q].document
  <2>1. snapshot[q] \in Snapshot
    BY <1>2 DEF Inv, SharedOK
  <2>2. snapshot[q].source \in Path \cup {None} /\ snapshot[q].document \in Document
    BY <2>1 DEF Snapshot
  <2> QED
    BY <1>1, <2>2, NoneIsNothing DEF Load, Superseded
<1> QED
  BY <1>1, <1>2, KeptWork

\* The file that a session not running on a recovered snapshot saves to is
\* covered by its document, and so is the snapshot that the save removes.
LEMMA PublishKeepsFiles ==
    ASSUME Inv, NEW s \in Running, NEW f \in Path, Publish(s, f),
           UnchangedOnDisk(s, f), ~session[s].recovered
    PROVE  /\ disk'[f] # None /\ disk'[f] = session[s].document
           /\ \A g \in Path : disk[g] # None =>
                 disk'[g] # None /\ disk[g].edits \subseteq disk'[g].edits
<1>1. SessionOK(session[s]) /\ session[s].document \in Document
      /\ disk'[f] = session[s].document
  BY PublishShared
<1>2. disk'[f] # None
  BY <1>1, NoneIsNothing
<1>3. disk[f] # None => disk[f].edits \subseteq session[s].document.edits
  BY <1>1 DEF UnchangedOnDisk, SessionOK, CoveredRecord, Covers
<1>4. \A g \in Path : g # f => disk'[g] = disk[g]
  BY DEF Publish, Inv, SharedOK
<1> QED
  BY <1>1, <1>2, <1>3, <1>4

LEMMA SaveKeepsWork ==
    ASSUME Inv, NEW s \in Session, NEW f \in Path, Save(s, f), ~session[s].recovered
    PROVE  Durable \subseteq Durable'
<1>1. /\ disk'[f] # None /\ disk'[f] = session[s].document
      /\ \A g \in Path : disk[g] # None =>
            disk'[g] # None /\ disk[g].edits \subseteq disk'[g].edits
  BY PublishKeepsFiles DEF Save, Active
<1>2. SessionOK(session[s])
  BY DEF Save, Active, Running, Inv
<1>3. ASSUME NEW q \in Project, snapshot[q] # None
      PROVE  \/ snapshot'[q] = snapshot[q]
             \/ snapshot[q].document.edits \subseteq session[s].document.edits
  BY <1>2, <1>3 DEF Save, FinishSuccessfulSave, SessionOK, CoveredRecord, Covers,
                    Inv, SharedOK
<1> QED
  BY <1>1, <1>3, KeptWork

LEMMA SaveUnreportedKeepsWork ==
    ASSUME Inv, NEW s \in Session, NEW f \in Path, SaveUnreported(s, f),
           session[s].path = f, ~session[s].recovered
    PROVE  Durable \subseteq Durable'
<1>1. \A g \in Path : disk[g] # None =>
            disk'[g] # None /\ disk[g].edits \subseteq disk'[g].edits
  BY PublishKeepsFiles DEF SaveUnreported, Active
<1>2. snapshot' = snapshot
  BY DEF SaveUnreported
<1> QED
  BY <1>1, <1>2, KeptWork

LEMMA WriteSnapshotKeepsWork ==
    ASSUME Inv, NEW s \in Session, NEW at \in 0 .. MaxClock, WriteSnapshot(s, at)
    PROVE  Durable \subseteq Durable'
<1> DEFINE p == session[s].document.project
           new == [document |-> session[s].document, source |-> session[s].path, at |-> at]
<1>1. session[s] \in SessionRecord /\ SessionOK(session[s])
  BY DEF WriteSnapshot, Active, Running, Inv
<1>2. p \in Project /\ new \in Snapshot /\ new.document = session[s].document
  BY <1>1 DEF SessionRecord, Document, Snapshot
<1>3. new # None
  BY <1>2, NoneIsNothing
<1>4. snapshot[p] # None => snapshot[p].document.edits \subseteq new.document.edits
  BY <1>1, <1>2 DEF WriteSnapshot, SessionOK, CoveredRecord, Covers
<1>5. snapshot' = [snapshot EXCEPT ![p] = new] /\ disk' = disk
  BY DEF WriteSnapshot
<1> HIDE DEF new, p
<1>6. \A q \in Project : snapshot[q] # None =>
         snapshot'[q] # None /\ snapshot[q].document.edits \subseteq snapshot'[q].document.edits
  BY <1>2, <1>3, <1>4, <1>5 DEF Inv, SharedOK
<1> QED
  BY <1>5, <1>6, KeptWork

LEMMA StepKeepsWork ==
    ASSUME Inv, [Next]_vars
    PROVE  Durable \subseteq Durable' \/ \E s \in Running : Decision(s)
<1>1. CASE UNCHANGED vars
  BY <1>1, UnchangedFiles DEF vars, shared
<1>2. CASE Next
  <2> PICK s \in Session :
       \/ \E p \in Project :
             Load(s, p) \/ NewProject(s, p) \/ Recover(s, p) \/ DiscardRecovery(s, p)
       \/ \E e \in Edit : MakeEdit(s, e)
       \/ \E f \in Path :
             \/ Open(s, f) \/ Reload(s, f)
             \/ Save(s, f) \/ SaveAs(s, f) \/ SaveUnreported(s, f)
       \/ \E at \in 0 .. MaxClock : WriteSnapshot(s, at)
       \/ DiscardChanges(s) \/ DeferredActionFails(s) \/ Exit(s)
    BY <1>2 DEF Next
  <2>1. CASE \E p \in Project : Load(s, p)
    BY <2>1, LoadKeepsWork
  <2>2. CASE \/ \E p \in Project : NewProject(s, p) \/ Recover(s, p)
             \/ \E e \in Edit : MakeEdit(s, e)
             \/ \E f \in Path : Open(s, f) \/ Reload(s, f)
             \/ DeferredActionFails(s) \/ Exit(s)
    BY <2>2, UnchangedFiles DEF NewProject, Recover, MakeEdit, Open, Reload, OpenFile,
                                DeferredActionFails, Exit
  <2>3. CASE DiscardChanges(s) \/ \E p \in Project : DiscardRecovery(s, p)
    BY <2>3 DEF Decision, DiscardChanges, DiscardRecovery, Active
  <2>4. CASE \E f \in Path : SaveAs(s, f)
    BY <2>4 DEF Decision, SaveAs, Active
  <2>5. CASE \E f \in Path : Save(s, f)
    <3>1. CASE session[s].recovered
      BY <2>5, <3>1 DEF Decision, Save, Active
    <3>2. CASE ~session[s].recovered
      BY <2>5, <3>2, SaveKeepsWork
    <3> QED
      BY <3>1, <3>2
  <2>6. CASE \E f \in Path : SaveUnreported(s, f)
    <3> PICK f \in Path : SaveUnreported(s, f)
      BY <2>6
    <3>1. CASE session[s].recovered \/ session[s].path # f
      BY <3>1 DEF Decision, SaveUnreported, Active
    <3>2. CASE ~session[s].recovered /\ session[s].path = f
      BY <3>2, SaveUnreportedKeepsWork
    <3> QED
      BY <3>1, <3>2
  <2>7. CASE \E at \in 0 .. MaxClock : WriteSnapshot(s, at)
    BY <2>7, WriteSnapshotKeepsWork
  <2> QED
    BY <2>1, <2>2, <2>3, <2>4, <2>5, <2>6, <2>7
<1> QED
  BY <1>1, <1>2

\* Autosaves, checkpoints, saves, starts and crashes of concurrent sessions
\* never lose work that reached a file or a snapshot.
THEOREM WorkSurvives == Spec => WorkIsLostOnlyByDecision
<1>1. Inv /\ [Next]_vars => [Durable \subseteq Durable' \/ \E s \in Running : Decision(s)]_vars
  BY StepKeepsWork
<1> QED
  BY <1>1, AlwaysInv, PTL DEF Spec, WorkIsLostOnlyByDecision
=============================================================================
