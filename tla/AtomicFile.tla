----------------------------- MODULE AtomicFile -----------------------------
(***************************************************************************)
(* write_atomic_bytes of src/project.rs: publishing complete bytes through *)
(* a temporary file in the same directory.  Several processes write one    *)
(* destination.  A step of a writer is one system call, so writers         *)
(* interleave between calls and a crash falls between any two.             *)
(*                                                                         *)
(* A digest stands for its bytes.  The destination is the sequence of its  *)
(* generations: the last one is what a reader sees, the ones after         *)
(* position durable have not reached the disk and a power loss may undo    *)
(* them.                                                                   *)
(***************************************************************************)
EXTENDS Naturals, Sequences

CONSTANTS Writer,           \* processes (and their background threads)
          Bytes,            \* complete contents
          Absent, Torn,     \* no file; a file with part of its bytes
          SyncsDirectory,   \* the file system persists a directory sync (unix)
          MaxGenerations    \* bound on the changes of the destination

Content == Bytes \cup {Absent}

ASSUME AbsentAndTornAreNoBytes ==
    Absent \notin Bytes /\ Torn \notin Bytes /\ Absent # Torn /\ Absent \notin Writer
ASSUME BoundIsNatural == MaxGenerations \in Nat
ASSUME SyncIsBoolean == SyncsDirectory \in BOOLEAN

VARIABLES
    history,   \* the generations of the destination: content and whether it is flushed
    durable,   \* the last generation a power loss cannot undo
    pc,        \* per writer: the next system call
    temp,      \* per writer: its temporary file
    call,      \* per writer: the bytes and the contents the precondition allows
    seen,      \* per writer: the content it last read or wrote (on_disk_sha256)
    position,  \* per writer: the generation its write compared with or published
    raced,     \* history variable: another change since the writer's comparison
    acked      \* history variable: the last generation a caller was told is written

file == <<history, durable>>
vars == <<history, durable, pc, temp, call, seen, position, raced, acked>>

Current == history[Len(history)].content

WritePrecondition == {Content, {Absent}} \cup {{b} : b \in Bytes}

TypeOK ==
    /\ history \in Seq([content : Content \cup {Torn}, flushed : BOOLEAN])
    /\ durable \in 1 .. Len(history)
    /\ pc \in [Writer -> {"idle", "create", "write", "sync", "hash", "rename",
                          "sync_dir", "verify", "sync_same"}]
    /\ temp \in [Writer -> {"none", "partial", "written", "synced"}]
    /\ call \in [Writer -> [bytes : Bytes \cup {Absent}, allowed : WritePrecondition]]
    /\ seen \in [Writer -> Content \cup {Torn}]
    /\ position \in [Writer -> Nat]
    /\ raced \in [Writer -> BOOLEAN]
    /\ acked \in Nat

NoCall == [bytes |-> Absent, allowed |-> {Absent}]

Init ==
    /\ history = <<[content |-> Absent, flushed |-> TRUE]>>
    /\ durable = 1
    /\ pc = [w \in Writer |-> "idle"]
    /\ temp = [w \in Writer |-> "none"]
    /\ call = [w \in Writer |-> NoCall]
    /\ seen = [w \in Writer |-> Absent]
    /\ position = [w \in Writer |-> 0]
    /\ raced = [w \in Writer |-> FALSE]
    /\ acked = 0

-----------------------------------------------------------------------------
\* Opening a project or recovering a snapshot reads the destination.
Observe(w) ==
    /\ pc[w] = "idle"
    /\ seen' = [seen EXCEPT ![w] = Current]
    /\ UNCHANGED <<file, pc, temp, call, position, raced, acked>>

\* Save and autosave allow what the writer saw (Missing or Unchanged), an
\* explicit Save As and the machine-local lists allow anything (Any).
Begin(w, bytes, allowed) ==
    /\ pc[w] = "idle"
    /\ allowed \in {{seen[w]}, Content}
    /\ call' = [call EXCEPT ![w] = [bytes |-> bytes, allowed |-> allowed]]
    /\ pc' = [pc EXCEPT ![w] = "create"]
    /\ UNCHANGED <<file, temp, seen, position, raced, acked>>

\* A system call that prepares the temporary file moves the writer on.
Prepare(w, from, to, state) ==
    /\ pc[w] = from
    /\ temp' = [temp EXCEPT ![w] = state]
    /\ pc' = [pc EXCEPT ![w] = to]
    /\ UNCHANGED <<file, call, seen, position, raced, acked>>

CreateTemporary(w) == Prepare(w, "create", "write", "partial")
WriteAll(w)        == Prepare(w, "write", "sync", "written")

\* Mutant: the temporary file is closed without a sync.
SyncAllSkipped(w)  == Prepare(w, "sync", "hash", "written")
SyncAll(w)         == Prepare(w, "sync", "hash", "synced")

\* The call ends: a temporary file that was not renamed is removed, and the
\* local variables are gone.
Return(w) ==
    /\ pc' = [pc EXCEPT ![w] = "idle"]
    /\ temp' = [temp EXCEPT ![w] = "none"]
    /\ call' = [call EXCEPT ![w] = NoCall]
    /\ position' = [position EXCEPT ![w] = 0]
    /\ raced' = [raced EXCEPT ![w] = FALSE]

\* The content is compared: the bytes are there already, or the precondition
\* fails (a conflict), or the temporary file may be renamed.
CompareContent(w, content, allowed) ==
    /\ pc[w] = "hash"
    /\ \/ /\ content = call[w].bytes
          /\ pc' = [pc EXCEPT ![w] = "sync_same"]
          /\ temp' = [temp EXCEPT ![w] = "none"]
          /\ position' = [position EXCEPT ![w] = Len(history)]
          /\ UNCHANGED <<call, raced>>
       \/ /\ content # call[w].bytes
          /\ content \in allowed
          /\ pc' = [pc EXCEPT ![w] = "rename"]
          /\ UNCHANGED <<temp, call, position, raced>>
       \/ /\ content # call[w].bytes
          /\ content \notin allowed
          /\ Return(w)
    /\ UNCHANGED <<file, seen, acked>>

\* Mutants: the precondition is ignored; the cached digest is compared.
HashUnconditionally(w) == CompareContent(w, Current, Content \cup {Torn})
HashFromCache(w) == CompareContent(w, seen[w], call[w].allowed)

\* The destination is hashed now.
HashDestination(w) == CompareContent(w, Current, call[w].allowed)

\* The destination changes; the writers that compared before have been raced.
Publish(content, flushed, by) ==
    /\ Len(history) < MaxGenerations
    /\ history' = Append(history, [content |-> content, flushed |-> flushed])
    /\ raced' = [w \in Writer |-> raced[w] \/ (w # by /\ pc[w] = "rename")]

Rename(w) ==
    /\ pc[w] = "rename"
    /\ Publish(IF temp[w] = "partial" THEN Torn ELSE call[w].bytes, temp[w] = "synced", w)
    /\ position' = [position EXCEPT ![w] = Len(history) + 1]
    /\ temp' = [temp EXCEPT ![w] = "none"]
    /\ pc' = [pc EXCEPT ![w] = "sync_dir"]
    /\ UNCHANGED <<durable, call, seen, acked>>

\* Mutant: the directory is not synced.
DirectoryNotSynced == durable' = durable

\* sync_parent_directory persists every rename made so far.
DirectorySynced == durable' = IF SyncsDirectory THEN Len(history) ELSE durable

SyncParentDirectory(w) ==
    /\ pc[w] = "sync_dir"
    /\ DirectorySynced
    /\ pc' = [pc EXCEPT ![w] = "verify"]
    /\ UNCHANGED <<history, temp, call, seen, position, raced, acked>>

\* The caller is told that its bytes are written, and remembers them.
Succeed(w) ==
    /\ Return(w)
    /\ seen' = [seen EXCEPT ![w] = call[w].bytes]
    /\ acked' = IF position[w] > acked THEN position[w] ELSE acked

SyncUnchanged(w) ==
    /\ pc[w] = "sync_same"
    /\ DirectorySynced
    /\ Succeed(w)
    /\ UNCHANGED history

\* The destination is hashed again after the rename.
Verify(w) ==
    /\ pc[w] = "verify"
    /\ Current = call[w].bytes
    /\ Succeed(w)
    /\ UNCHANGED file

\* Any call fails with an I/O error, verification included (the file was
\* deleted or overwritten meanwhile).  Nothing published is taken back.
Fail(w) ==
    /\ pc[w] # "idle"
    /\ Return(w)
    /\ UNCHANGED <<file, seen, acked>>

\* The process dies; a new one has seen nothing.
Crash(w) ==
    /\ Return(w)
    /\ seen' = [seen EXCEPT ![w] = Absent]
    /\ UNCHANGED <<file, acked>>

\* Discarding a recovery snapshot, or a user, deletes the destination.
Delete ==
    /\ Current # Absent
    /\ Publish(Absent, TRUE, Absent)
    /\ UNCHANGED <<durable, pc, temp, call, seen, position, acked>>

\* The machine stops: renames after the durable one may be undone, and a file
\* whose bytes were not flushed is torn.
PowerLoss ==
    /\ \E n \in durable .. Len(history) :
          LET survivor == history[n] IN
          history' = Append(SubSeq(history, 1, n - 1),
                            IF survivor.flushed THEN survivor
                            ELSE [survivor EXCEPT !.content = Torn])
    /\ durable' = Len(history')
    /\ pc' = [w \in Writer |-> "idle"]
    /\ temp' = [w \in Writer |-> "none"]
    /\ call' = [w \in Writer |-> NoCall]
    /\ seen' = [w \in Writer |-> Absent]
    /\ position' = [w \in Writer |-> 0]
    /\ raced' = [w \in Writer |-> FALSE]
    /\ UNCHANGED acked

Step(w) ==
    \/ Observe(w)
    \/ \E bytes \in Bytes, allowed \in WritePrecondition : Begin(w, bytes, allowed)
    \/ CreateTemporary(w) \/ WriteAll(w) \/ SyncAll(w)
    \/ HashDestination(w) \/ Rename(w) \/ SyncParentDirectory(w) \/ SyncUnchanged(w)
    \/ Verify(w) \/ Fail(w) \/ Crash(w)

Next == (\E w \in Writer : Step(w)) \/ Delete \/ PowerLoss

Spec == Init /\ [][Next]_vars

-----------------------------------------------------------------------------
(* Properties.                                                             *)

\* Readers never see a file with part of its bytes, whatever the crashes and
\* power losses: the temporary file is complete and synced before the rename.
NeverTorn == Current # Torn

\* What a caller was told is written survives a power loss, or a later
\* generation does: the directory is synced before the call succeeds.
AckedSurvives == SyncsDirectory => acked <= durable

\* A write that does not allow the content it replaces was overtaken between
\* its comparison and its rename; the comparison stops every other stale writer
\* ("it prevents ordinary stale writers", write_atomic_bytes_impl).
StaleWriterStopped ==
    [][\A w \in Writer :
          pc[w] = "rename" /\ pc'[w] = "sync_dir" =>
              Current \in call[w].allowed \/ raced[w]]_vars

\* A published file holds bytes some caller asked to write, in full, and each
\* call takes effect at most once: the writer implements the optimistic register.
Stage(w) ==
    CASE pc[w] = "idle" -> "idle"
      [] pc[w] \in {"create", "write", "sync", "hash"} -> "invoked"
      [] pc[w] = "rename" -> "compared"
      [] OTHER -> "stored"

Register == INSTANCE OptimisticRegister WITH
    held <- {history[n].content : n \in 1 .. Len(history)},
    value <- Current,
    write <- [w \in Writer |->
                IF pc[w] = "idle" THEN [stage |-> "idle"]
                ELSE [stage |-> Stage(w), bytes |-> call[w].bytes,
                      allowed |-> call[w].allowed]],
    raced <- raced

ImplementsRegister == Register!Spec
=============================================================================
