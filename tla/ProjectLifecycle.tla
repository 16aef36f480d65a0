-------------------------- MODULE ProjectLifecycle --------------------------
(***************************************************************************)
(* ProjectLifecycle of src/project_lifecycle.rs and the unsaved-changes    *)
(* dialog of src/app.rs: several sessions of the program on one machine    *)
(* open, edit, save, autosave, recover and discard projects.  They share   *)
(* the project files and one recovery snapshot per project id, and nothing *)
(* else: a session protects what it does not know only by comparing the    *)
(* digest of a file with the digest it last saw there.                     *)
(*                                                                         *)
(* A document is its project id and the set of edits it contains; a file,  *)
(* and the digest of a file, are that document (or, for a snapshot, the    *)
(* document, the save path and the second it was written in).  A write, or *)
(* a removal, compares and replaces in one step: for a write, the steps in *)
(* between are the subject of AtomicFile.                                  *)
(***************************************************************************)
EXTENDS Naturals

CONSTANTS Session, Project, Path, Edit, None,
          MaxClock      \* bound on the seconds in which snapshots are written

ASSUME ClockIsBounded == MaxClock \in Nat

Document == [project : Project, edits : SUBSET Edit]
Snapshot == [document : Document, source : Path \cup {None}, at : 0 .. MaxClock]

SessionRecord ==
    [document : Document, path : Path \cup {None},
     dirty : BOOLEAN, recovered : BOOLEAN,
     onDisk : Document \cup {None},                  \* on_disk_sha256
     owned : Snapshot \cup {None},                   \* owned_recovery
     listed : [Project -> Snapshot \cup {None}],     \* recovery_entries
     discarding : BOOLEAN]    \* Discard was chosen, the deferred action is next

ASSUME NoneIsNothing ==
    None \notin Path \cup Document \cup Snapshot \cup SessionRecord

VARIABLES
    disk,       \* per path: the project file
    snapshot,   \* per project: the recovery snapshot in the shared state directory
    clock,      \* the second of the last snapshot
    made,       \* history variable: the edits made so far
    session     \* per session: its ProjectLifecycle, or None when it does not run

shared == <<disk, snapshot, clock>>
vars == <<disk, snapshot, clock, made, session>>

TypeOK ==
    /\ disk \in [Path -> Document \cup {None}]
    /\ snapshot \in [Project -> Snapshot \cup {None}]
    /\ clock \in 0 .. MaxClock
    /\ made \subseteq Edit
    /\ session \in [Session -> SessionRecord \cup {None}]

Running == {s \in Session : session[s] # None}

\* The user interface is one thread: between Discard and the deferred action
\* nothing else happens in the session.
Active(s) == s \in Running /\ ~session[s].discarding

\* UnsavedChangesGuard: a session with unsaved work is replaced only after Discard.
MayReplace(s) == s \in Running /\ (session[s].dirty => session[s].discarding)

\* A project id is a new UUID.
Fresh(p) ==
    /\ \A f \in Path : disk[f] # None => disk[f].project # p
    /\ snapshot[p] = None
    /\ \A s \in Running : session[s].document.project # p /\ session[s].listed[p] = None

Blank(p) == [project |-> p, edits |-> {}]

Init ==
    /\ disk = [f \in Path |-> None]
    /\ snapshot = [p \in Project |-> None]
    /\ clock = 0
    /\ made = {}
    /\ session = [s \in Session |-> None]

-----------------------------------------------------------------------------
(* Starting, replacing and editing the active project.                     *)

\* Snapshots that repeat a saved file are removed (best effort), the others are
\* listed (load_recovery_entries).
Superseded ==
    {p \in Project : /\ snapshot[p] # None /\ snapshot[p].source # None
                     /\ disk[snapshot[p].source] = snapshot[p].document}

Load(s, p) ==
    /\ session[s] = None
    /\ Fresh(p)
    /\ \E removed \in SUBSET Superseded :
          snapshot' = [q \in Project |-> IF q \in removed THEN None ELSE snapshot[q]]
    /\ session' = [session EXCEPT ![s] =
          [document |-> Blank(p), path |-> None, dirty |-> FALSE,
           recovered |-> FALSE, onDisk |-> None, owned |-> None,
           listed |-> [q \in Project |->
                          IF q \in Superseded THEN None ELSE snapshot[q]],
           discarding |-> FALSE]]
    /\ UNCHANGED <<disk, clock, made>>

Replace(s, document, path, dirty, recovered, onDisk, owned) ==
    session' = [session EXCEPT ![s] =
                   [document |-> document, path |-> path, dirty |-> dirty,
                    recovered |-> recovered, onDisk |-> onDisk, owned |-> owned,
                    listed |-> @.listed, discarding |-> FALSE]]

\* Mutant: the snapshot of the previous project stays owned.
NewProjectKeepingSnapshot(s, p) ==
    /\ MayReplace(s)
    /\ Fresh(p)
    /\ Replace(s, Blank(p), None, TRUE, FALSE, None, session[s].owned)
    /\ UNCHANGED <<shared, made>>

NewProject(s, p) ==
    /\ MayReplace(s)
    /\ Fresh(p)
    /\ Replace(s, Blank(p), None, TRUE, FALSE, None, None)
    /\ UNCHANGED <<shared, made>>

\* Mutant: an edit that is not marked as unsaved work.
MakeEditSilently(s, e) ==
    /\ Active(s)
    /\ e \notin made
    /\ made' = made \cup {e}
    /\ session' = [session EXCEPT ![s].document.edits = @ \cup {e}]
    /\ UNCHANGED shared

\* transact: any change of the manifest or of its content.
MakeEdit(s, e) ==
    /\ Active(s)
    /\ e \notin made
    /\ made' = made \cup {e}
    /\ session' = [session EXCEPT ![s].document.edits = @ \cup {e}, ![s].dirty = TRUE]
    /\ UNCHANGED shared

\* Every file here was written by this version of the program: one of an older
\* schema, which opens as unsaved work, is left out.
OpenFile(s, f) ==
    /\ disk[f] # None
    /\ Replace(s, disk[f], f, FALSE, FALSE, disk[f], None)
    /\ UNCHANGED <<shared, made>>

Open(s, f) == MayReplace(s) /\ OpenFile(s, f)

\* "Reload disk version" of the conflict dialog does not ask about unsaved work:
\* the dialog itself said that the draft is discarded.  It is taken to be
\* answered while the conflict lasts.
Conflict(s, f) == session[s].path = f /\ disk[f] \notin {session[s].document, session[s].onDisk}
Reload(s, f) == Active(s) /\ Conflict(s, f) /\ OpenFile(s, f)

\* The snapshot must be the one that was listed.  The digest of the file at the
\* save path is read now, whatever the snapshot was based on.
Recover(s, p) ==
    /\ MayReplace(s)
    /\ session[s].listed[p] # None
    /\ snapshot[p] = session[s].listed[p]
    /\ LET f == snapshot[p].source IN
       Replace(s, snapshot[p].document, f, TRUE, TRUE,
               IF f = None THEN None ELSE disk[f], snapshot[p])
    /\ UNCHANGED <<shared, made>>

\* Opening or recovering fails (the file is gone, the snapshot has changed).
DeferredActionFails(s) ==
    /\ s \in Running
    /\ session[s].discarding
    /\ session' = [session EXCEPT ![s].discarding = FALSE]
    /\ UNCHANGED <<shared, made>>

\* The user quits, or the process dies; memory is gone either way.
Exit(s) ==
    /\ s \in Running
    /\ session' = [session EXCEPT ![s] = None]
    /\ UNCHANGED <<shared, made>>

-----------------------------------------------------------------------------
(* Saving.                                                                 *)

\* Mutant: the digest of the file is not compared.
AnythingOnDisk(s, f) == TRUE

\* The file is what the session last saw, or holds the document already.
UnchangedOnDisk(s, f) == disk[f] \in {session[s].onDisk, session[s].document}

Publish(s, f) == disk' = [disk EXCEPT ![f] = session[s].document]

\* discard_owned_active_recovery removes the snapshot only if its digest is the
\* session's own (and removing may fail); the save has succeeded either way.
FinishSuccessfulSave(s, f) ==
    LET p == session[s].document.project IN
    \E removed \in BOOLEAN :
       /\ removed => session[s].owned # None /\ snapshot[p] = session[s].owned
       /\ snapshot' = IF removed THEN [snapshot EXCEPT ![p] = None] ELSE snapshot
       /\ session' = [session EXCEPT
             ![s].path = f,
             ![s].dirty = FALSE,
             ![s].recovered = FALSE,
             ![s].onDisk = session[s].document,
             ![s].owned = IF removed THEN None ELSE @,
             ![s].listed[p] = IF removed THEN None ELSE @]

Save(s, f) ==
    /\ Active(s)
    /\ session[s].path = f
    /\ UnchangedOnDisk(s, f)
    /\ Publish(s, f)
    /\ FinishSuccessfulSave(s, f)
    /\ UNCHANGED <<clock, made>>

\* Save As to another path, and the conflict copy, replace whatever is there.
SaveAs(s, f) ==
    /\ Active(s)
    /\ session[s].path # f
    /\ Publish(s, f)
    /\ FinishSuccessfulSave(s, f)
    /\ UNCHANGED <<clock, made>>

\* The file was renamed into place and a later call failed: the session is told
\* that it was not saved, and keeps the digest it had.
SaveUnreported(s, f) ==
    /\ Active(s)
    /\ session[s].path = f => UnchangedOnDisk(s, f)
    /\ Publish(s, f)
    /\ UNCHANGED <<snapshot, clock, made, session>>

-----------------------------------------------------------------------------
(* Recovery snapshots.                                                     *)

\* write_recovery_snapshot, of a due autosave or of a run checkpoint: the file
\* must be the session's own snapshot, or absent if it owns none.
WriteSnapshot(s, at) ==
    LET p == session[s].document.project
        new == [document |-> session[s].document, source |-> session[s].path, at |-> at]
    IN  /\ Active(s)
        /\ session[s].dirty
        /\ at \in clock .. MaxClock
        /\ clock' = at
        /\ snapshot[p] \in {new, session[s].owned}
        /\ snapshot' = [snapshot EXCEPT ![p] = new]
        /\ \/ session' = [session EXCEPT ![s].owned = new, ![s].listed[p] = new]
           \/ UNCHANGED session     \* renamed into place, but reported as failed
        /\ UNCHANGED <<disk, made>>

\* discard_recovery removes the file without comparing its digest.
RemoveListed(s, p, discarding) ==
    /\ snapshot' = [snapshot EXCEPT ![p] = IF session[s].listed[p] = None THEN @ ELSE None]
    /\ session' = [session EXCEPT
          ![s].listed[p] = None,
          ![s].owned = IF /\ session[s].listed[p] # None /\ session[s].owned # None
                          /\ session[s].owned.document.project = p
                       THEN None ELSE @,
          ![s].discarding = discarding]
    /\ UNCHANGED <<disk, clock, made>>

DiscardRecovery(s, p) ==
    /\ Active(s)
    /\ session[s].listed[p] # None
    /\ RemoveListed(s, p, FALSE)

\* "Discard changes" of the unsaved-changes dialog.
DiscardChanges(s) ==
    /\ Active(s)
    /\ session[s].dirty
    /\ RemoveListed(s, session[s].document.project, TRUE)

Next ==
    \E s \in Session :
       \/ \E p \in Project :
             Load(s, p) \/ NewProject(s, p) \/ Recover(s, p) \/ DiscardRecovery(s, p)
       \/ \E e \in Edit : MakeEdit(s, e)
       \/ \E f \in Path :
             \/ Open(s, f) \/ Reload(s, f)
             \/ Save(s, f) \/ SaveAs(s, f) \/ SaveUnreported(s, f)
       \/ \E at \in 0 .. MaxClock : WriteSnapshot(s, at)
       \/ DiscardChanges(s) \/ DeferredActionFails(s) \/ Exit(s)

Spec == Init /\ [][Next]_vars

-----------------------------------------------------------------------------
(* Properties.                                                             *)

\* A session that shows no unsaved work has none: its document is the one it
\* last read from or wrote to its path, or has neither a path nor an edit.
\* (dirty is set and cleared in eight places.)
CleanMeansSaved ==
    \A s \in Running :
        ~session[s].dirty =>
            IF session[s].path = None THEN session[s].document.edits = {}
            ELSE session[s].onDisk = session[s].document

\* Whatever a session may overwrite or remove without asking is part of its
\* document: the snapshot it owns, and the file it last saw, unless it runs on
\* a recovered snapshot (whose file may have moved on).
Covers(document, old) == old.project = document.project /\ old.edits \subseteq document.edits
BaselinesAreCovered ==
    \A s \in Running :
        /\ session[s].owned # None => Covers(session[s].document, session[s].owned.document)
        /\ session[s].onDisk # None /\ ~session[s].recovered =>
              Covers(session[s].document, session[s].onDisk)

\* Work that reached a file or a snapshot leaves all of them only by a decision
\* of a user: discarding a snapshot or changes, Save As over another file, or
\* Save of a recovered session.  Autosaves, checkpoints, saves, starts and
\* crashes of concurrent sessions never lose it.
Durable ==
    {e \in Edit : \/ \E f \in Path : disk[f] # None /\ e \in disk[f].edits
                 \/ \E p \in Project : /\ snapshot[p] # None
                                      /\ e \in snapshot[p].document.edits}

Decision(s) ==
    \/ DiscardChanges(s)
    \/ \E p \in Project : DiscardRecovery(s, p)
    \/ \E f \in Path \ {session[s].path} : SaveAs(s, f) \/ SaveUnreported(s, f)
    \/ \E f \in Path : session[s].recovered /\ (Save(s, f) \/ SaveUnreported(s, f))

WorkIsLostOnlyByDecision ==
    [][Durable \subseteq Durable' \/ \E s \in Running : Decision(s)]_vars

\* "Discard removes this session's recovery snapshot" (the dialog of src/app.rs):
\* the snapshot it removes holds no work that the session does not have.
DiscardRemovesOwnSnapshot ==
    [][\A s \in Running :
          LET p == session[s].document.project IN
          DiscardChanges(s) /\ snapshot'[p] # snapshot[p] =>
              Covers(session[s].document, snapshot[p].document)]_vars
=============================================================================
