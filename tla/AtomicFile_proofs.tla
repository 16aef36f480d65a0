------------------------- MODULE AtomicFile_proofs -------------------------
(***************************************************************************)
(* Theorems about the atomic write, for any number of writers and          *)
(* contents: the invariant and what follows from it, then that the writers *)
(* implement the optimistic register, one lemma for each kind of step.     *)
(***************************************************************************)
EXTENDS AtomicFile, TLAPS

\* The inductive invariant.  A writer renames only a synced file, so every
\* generation is complete and flushed; a published position that was followed
\* by a directory sync is durable; a writer at its rename allows the current
\* content or has been raced.
Generation == [content : Content \cup {Torn}, flushed : BOOLEAN]

Complete == \A n \in 1 .. Len(history) :
                history[n].flushed /\ history[n].content # Torn

WriterInv(w) ==
    /\ pc[w] # "idle" => call[w].bytes \in Bytes
    /\ pc[w] \in {"hash", "rename"} => temp[w] = "synced"
    /\ pc[w] = "rename" => Current \in call[w].allowed \/ raced[w]
    /\ position[w] <= Len(history)
    /\ SyncsDirectory /\ pc[w] = "verify" => position[w] <= durable

Inv ==
    /\ TypeOK
    /\ Complete
    /\ \A w \in Writer : WriterInv(w)
    /\ AckedSurvives

-----------------------------------------------------------------------------
\* Appending a generation keeps the others and makes it the current one.
LEMMA AppendGeneration ==
    ASSUME NEW h \in Seq(Generation), NEW g \in Generation
    PROVE  /\ Append(h, g) \in Seq(Generation)
           /\ Len(Append(h, g)) = Len(h) + 1
           /\ \A n \in 1 .. Len(h) : Append(h, g)[n] = h[n]
           /\ Append(h, g)[Len(h) + 1] = g
OBVIOUS

\* A power loss keeps a prefix of the generations.
LEMMA PrefixOfGenerations ==
    ASSUME NEW h \in Seq(Generation), NEW n \in 1 .. Len(h)
    PROVE  LET p == Append(SubSeq(h, 1, n - 1), h[n]) IN
           /\ p \in Seq(Generation)
           /\ Len(p) = n
           /\ \A i \in 1 .. n : p[i] = h[i]
<1> DEFINE s == SubSeq(h, 1, n - 1)
<1>1. s \in Seq(Generation) /\ Len(s) = n - 1 /\ \A i \in 1 .. n - 1 : s[i] = h[i]
  OBVIOUS
<1>2. h[n] \in Generation
  OBVIOUS
<1> HIDE DEF s
<1>3. LET p == Append(s, h[n]) IN
        /\ p \in Seq(Generation) /\ Len(p) = n
        /\ \A i \in 1 .. n : p[i] = h[i]
  BY <1>1, <1>2
<1> QED BY <1>3 DEF s

LEMMA InitInv == Init => Inv
<1> SUFFICES ASSUME Init PROVE Inv
  OBVIOUS
<1>1. history \in Seq(Generation) /\ Len(history) = 1
  BY DEF Init, Generation, Content
<1> QED BY <1>1, AbsentAndTornAreNoBytes
        DEF Init, Inv, TypeOK, Complete, WriterInv, AckedSurvives, NoCall, Content,
            Generation, WritePrecondition

\* A writer that returns has no call left to be wrong about.
LEMMA ReturnInv ==
    ASSUME Inv, NEW w \in Writer, Return(w)
    PROVE  /\ pc' \in [Writer -> {"idle", "create", "write", "sync", "hash", "rename",
                                  "sync_dir", "verify", "sync_same"}]
           /\ temp' \in [Writer -> {"none", "partial", "written", "synced"}]
           /\ call' \in [Writer -> [bytes : Bytes \cup {Absent}, allowed : WritePrecondition]]
           /\ position' \in [Writer -> Nat]
           /\ raced' \in [Writer -> BOOLEAN]
           /\ pc'[w] = "idle" /\ position'[w] = 0
           /\ \A v \in Writer \ {w} :
                 /\ pc'[v] = pc[v] /\ temp'[v] = temp[v] /\ call'[v] = call[v]
                 /\ position'[v] = position[v] /\ raced'[v] = raced[v]
BY DEF Return, Inv, TypeOK, NoCall, WritePrecondition, Content

\* Every step of a writer and of its environment preserves the invariant.
LEMMA NextInv == Inv /\ [Next]_vars => Inv'
<1> SUFFICES ASSUME Inv, [Next]_vars PROVE Inv'
  OBVIOUS
<1> USE AbsentAndTornAreNoBytes, SyncIsBoolean
<1>0. Len(history) \in Nat /\ Len(history) >= 1
  BY DEF Inv, TypeOK
<1>00. Current \in Content
  <2>1. Len(history) \in 1 .. Len(history)
    BY <1>0
  <2>2. history \in Seq(Generation)
    BY DEF Inv, TypeOK, Generation
  <2>3. history[Len(history)] \in Generation
    BY <2>1, <2>2
  <2> QED BY <2>1, <2>3 DEF Inv, Complete, Current, Generation
<1>1. ASSUME NEW w \in Writer, Observe(w) PROVE Inv'
  BY <1>00, <1>1 DEF Observe, file, Inv, TypeOK, Complete, WriterInv, AckedSurvives, Current
<1>2. ASSUME NEW w \in Writer, NEW bytes \in Bytes, NEW allowed \in WritePrecondition,
             Begin(w, bytes, allowed)
      PROVE  Inv'
  BY <1>2 DEF Begin, file, Inv, TypeOK, Complete, WriterInv, AckedSurvives, Current
<1>3. ASSUME NEW w \in Writer, CreateTemporary(w) \/ WriteAll(w) \/ SyncAll(w) PROVE Inv'
  BY <1>3 DEF CreateTemporary, WriteAll, SyncAll, Prepare, file, Inv, TypeOK, Complete,
              WriterInv, AckedSurvives, Current
<1>4. ASSUME NEW w \in Writer, HashDestination(w) PROVE Inv'
  <2>1. CASE pc' = [pc EXCEPT ![w] = "sync_same"]
             /\ temp' = [temp EXCEPT ![w] = "none"]
             /\ position' = [position EXCEPT ![w] = Len(history)]
             /\ UNCHANGED <<call, raced>>
    BY <1>0, <1>4, <2>1 DEF HashDestination, CompareContent, file, Inv, TypeOK, Complete, WriterInv,
                            AckedSurvives, Current
  <2>2. CASE Current \in call[w].allowed
             /\ pc' = [pc EXCEPT ![w] = "rename"]
             /\ UNCHANGED <<temp, call, position, raced>>
    BY <1>4, <2>2 DEF HashDestination, CompareContent, file, Inv, TypeOK, Complete, WriterInv,
                      AckedSurvives, Current
  <2>3. CASE Return(w)
    <3>1. TypeOK'
      BY <1>4, <2>3, ReturnInv DEF HashDestination, CompareContent, file, Inv, TypeOK
    <3>2. ASSUME NEW v \in Writer PROVE WriterInv(v)'
      <4>1. WriterInv(v)
        BY DEF Inv
      <4>2. CASE v = w
        BY <1>4, <2>3, <1>0, <4>2, ReturnInv DEF HashDestination, CompareContent, file, WriterInv
      <4>3. CASE v # w
        BY <1>4, <2>3, <4>1, <4>3, ReturnInv DEF HashDestination, CompareContent, file, WriterInv, Current
      <4> QED BY <4>2, <4>3
    <3> QED BY <1>4, <3>1, <3>2 DEF HashDestination, CompareContent, file, Inv, Complete, AckedSurvives
  <2> QED BY <1>4, <2>1, <2>2, <2>3 DEF HashDestination, CompareContent
<1>5. ASSUME NEW w \in Writer, Rename(w) PROVE Inv'
  <2> DEFINE g == [content |-> call[w].bytes, flushed |-> TRUE]
  <2>1. g \in Generation /\ history \in Seq(Generation) /\ call[w].bytes # Torn
    BY <1>5 DEF Rename, Inv, TypeOK, WriterInv, Generation, Content
  <2>2. history' = Append(history, g)
    BY <1>5 DEF Rename, Publish, Inv, WriterInv
  <2> HIDE DEF g
  <2>3. /\ history' \in Seq(Generation) /\ Len(history') = Len(history) + 1
        /\ \A n \in 1 .. Len(history) : history'[n] = history[n]
        /\ history'[Len(history) + 1] = g
    BY <2>1, <2>2, AppendGeneration
  <2>4. Complete'
    BY <1>0, <2>1, <2>3 DEF Complete, Inv, g
  <2>5. TypeOK'
    BY <1>5, <1>0, <2>3 DEF Rename, Publish, Inv, TypeOK, Generation
  <2>6. ASSUME NEW v \in Writer PROVE WriterInv(v)'
    <3>1. WriterInv(v) /\ position[v] \in Nat
      BY DEF Inv, TypeOK
    <3>2. CASE v = w
      BY <1>5, <1>0, <2>3, <3>1, <3>2 DEF Rename, Publish, Inv, TypeOK, WriterInv
    <3>3. CASE v # w
      <4>1. pc'[v] = "rename" => raced'[v]
        BY <1>5, <3>3 DEF Rename, Publish, Inv, TypeOK
      <4>2. /\ pc'[v] = pc[v] /\ temp'[v] = temp[v] /\ call'[v] = call[v]
            /\ position'[v] = position[v] /\ durable' = durable
        BY <1>5, <3>3 DEF Rename, Inv, TypeOK
      <4> QED BY <1>0, <2>3, <3>1, <4>1, <4>2 DEF WriterInv
    <3> QED BY <3>2, <3>3
  <2> QED BY <1>5, <2>4, <2>5, <2>6 DEF Inv, Rename, AckedSurvives
<1>6. ASSUME NEW w \in Writer, SyncParentDirectory(w) PROVE Inv'
  BY <1>6, <1>0 DEF SyncParentDirectory, DirectorySynced, Inv, TypeOK, Complete, WriterInv,
                    AckedSurvives, Current
<1>7. ASSUME NEW w \in Writer, SyncUnchanged(w) PROVE Inv'
  <2>1. TypeOK'
    BY <1>7, <1>0, ReturnInv DEF SyncUnchanged, Succeed, DirectorySynced, Inv, TypeOK,
                                 WriterInv, Content
  <2>2. ASSUME NEW v \in Writer PROVE WriterInv(v)'
    BY <1>7, <1>0, ReturnInv DEF SyncUnchanged, Succeed, DirectorySynced, Inv, TypeOK, WriterInv, Current
  <2>3. AckedSurvives'
    BY <1>7, <1>0 DEF SyncUnchanged, Succeed, DirectorySynced, Inv, TypeOK, WriterInv, AckedSurvives
  <2> QED BY <1>7, <2>1, <2>2, <2>3 DEF SyncUnchanged, Succeed, DirectorySynced, Inv, Complete
<1>8. ASSUME NEW w \in Writer, Verify(w) PROVE Inv'
  <2>1. TypeOK'
    BY <1>8, <1>0, ReturnInv DEF Verify, Succeed, file, Inv, TypeOK, WriterInv, Content
  <2>2. ASSUME NEW v \in Writer PROVE WriterInv(v)'
    BY <1>8, <1>0, ReturnInv DEF Verify, Succeed, file, Inv, TypeOK, WriterInv, Current
  <2>3. AckedSurvives'
    BY <1>8, <1>0 DEF Verify, Succeed, file, Inv, TypeOK, WriterInv, AckedSurvives
  <2> QED BY <1>8, <2>1, <2>2, <2>3 DEF Verify, Succeed, file, Inv, Complete
<1>9. ASSUME NEW w \in Writer, Fail(w) \/ Crash(w) PROVE Inv'
  <2>1. TypeOK'
    BY <1>9, ReturnInv DEF Fail, Crash, file, Inv, TypeOK, Content
  <2>2. ASSUME NEW v \in Writer PROVE WriterInv(v)'
    BY <1>9, <1>0, ReturnInv DEF Fail, Crash, file, Inv, TypeOK, WriterInv, Current
  <2>3. AckedSurvives'
    BY <1>9, <1>0 DEF Fail, Crash, file, Inv, TypeOK, WriterInv, AckedSurvives
  <2> QED BY <1>9, <2>1, <2>2, <2>3 DEF Fail, Crash, file, Inv, Complete
<1>10. ASSUME Delete PROVE Inv'
  <2> DEFINE g == [content |-> Absent, flushed |-> TRUE]
  <2>1. g \in Generation /\ history \in Seq(Generation)
    BY DEF Inv, TypeOK, Generation, Content
  <2>2. history' = Append(history, g)
    BY <1>10 DEF Delete, Publish
  <2> HIDE DEF g
  <2>3. /\ history' \in Seq(Generation) /\ Len(history') = Len(history) + 1
        /\ \A n \in 1 .. Len(history) : history'[n] = history[n]
        /\ history'[Len(history) + 1] = g
    BY <2>1, <2>2, AppendGeneration
  <2>4. Complete'
    BY <1>0, <2>3 DEF Complete, Inv, g
  <2>5. TypeOK'
    BY <1>10, <1>0, <2>3 DEF Delete, Publish, Inv, TypeOK, Generation
  <2>6. ASSUME NEW v \in Writer PROVE WriterInv(v)'
    <3>1. WriterInv(v) /\ position[v] \in Nat /\ v # Absent
      BY DEF Inv, TypeOK
    <3>2. pc'[v] = "rename" => raced'[v]
      BY <1>10, <3>1 DEF Delete, Publish, Inv, TypeOK
    <3>3. UNCHANGED <<pc, temp, call, position, durable>>
      BY <1>10 DEF Delete
    <3> QED BY <1>0, <2>3, <3>1, <3>2, <3>3 DEF WriterInv
  <2> QED BY <1>10, <2>4, <2>5, <2>6 DEF Inv, Delete, AckedSurvives
<1>11. ASSUME PowerLoss PROVE Inv'
  <2>1. PICK n \in durable .. Len(history) :
          history' = Append(SubSeq(history, 1, n - 1),
                            IF history[n].flushed THEN history[n]
                            ELSE [history[n] EXCEPT !.content = Torn])
    BY <1>11 DEF PowerLoss
  <2>2. n \in 1 .. Len(history) /\ history \in Seq(Generation) /\ history[n].flushed
    BY <1>0 DEF Inv, TypeOK, Complete, Generation
  <2>3. history' = Append(SubSeq(history, 1, n - 1), history[n])
    BY <2>1, <2>2
  <2>4. /\ history' \in Seq(Generation) /\ Len(history') = n
        /\ \A i \in 1 .. n : history'[i] = history[i]
    BY <2>2, <2>3, PrefixOfGenerations
  <2>5. Complete'
    BY <2>2, <2>4 DEF Complete, Inv
  <2>6. TypeOK'
    BY <1>11, <2>2, <2>4 DEF PowerLoss, Inv, TypeOK, Generation, NoCall, Content,
                             WritePrecondition
  <2>7. ASSUME NEW v \in Writer PROVE WriterInv(v)'
    BY <1>11, <2>2, <2>4 DEF PowerLoss, WriterInv
  <2> QED BY <1>11, <2>1, <2>2, <2>4, <2>5, <2>6, <2>7 DEF Inv, TypeOK, PowerLoss, AckedSurvives
<1>12. CASE UNCHANGED vars
  BY <1>12 DEF vars, file, Inv, TypeOK, Complete, WriterInv, AckedSurvives, Current
<1> QED BY <1>1, <1>2, <1>3, <1>4, <1>5, <1>6, <1>7, <1>8, <1>9, <1>10, <1>11, <1>12
        DEF Next, Step

\* The invariant holds in every reachable state.
THEOREM AlwaysInv == Spec => []Inv
BY InitInv, NextInv, PTL DEF Spec

\* The state of the writer has its type: program counters, files and digests.
THEOREM TypeCorrect == Spec => []TypeOK
<1>1. Inv => TypeOK
  BY DEF Inv
<1> QED BY <1>1, AlwaysInv, PTL

\* Readers never see a torn file, after any crash or power loss.
THEOREM AlwaysComplete == Spec => []NeverTorn
<1>1. Inv => NeverTorn
  BY DEF Inv, TypeOK, Complete, NeverTorn, Current
<1> QED BY <1>1, AlwaysInv, PTL

\* A write that was acknowledged survives a power loss where directories sync.
THEOREM AcknowledgedIsDurable == Spec => []AckedSurvives
<1>1. Inv => AckedSurvives
  BY DEF Inv
<1> QED BY <1>1, AlwaysInv, PTL

\* Only a writer overtaken after its comparison replaces what it does not allow.
THEOREM NoStaleWriter == Spec => StaleWriterStopped
<1>1. Inv /\ [Next]_vars =>
        [\A w \in Writer : pc[w] = "rename" /\ pc'[w] = "sync_dir" =>
            Current \in call[w].allowed \/ raced[w]]_vars
  BY DEF Inv, WriterInv
<1> QED BY <1>1, AlwaysInv, PTL DEF Spec, StaleWriterStopped

-----------------------------------------------------------------------------
(***************************************************************************)
(* The writer implements the optimistic register.  What the register holds *)
(* is what a power loss may bring back; a write is invoked until it        *)
(* compared, and stored from its rename on.                                *)
(***************************************************************************)
Held == {history[n].content : n \in 1 .. Len(history)}
ViewOf(w) ==
    IF pc[w] = "idle" THEN [stage |-> "idle"]
    ELSE [stage |-> Stage(w), bytes |-> call[w].bytes, allowed |-> call[w].allowed]
Writes == [w \in Writer |-> ViewOf(w)]

\* A writer without a call has not been raced.
IdleUnraced == \A w \in Writer : pc[w] = "idle" => ~raced[w]

LEMMA IdleUnracedStep ==
    ASSUME Inv, IdleUnraced, [Next]_vars PROVE IdleUnraced'
<1> USE DEF IdleUnraced, Inv, TypeOK
<1>1. ASSUME NEW w \in Writer, Step(w) PROVE IdleUnraced'
  <2>1. CASE Return(w)
    BY <2>1 DEF Return
  <2>2. CASE ~Return(w)
    BY <1>1, <2>2 DEF Step, Observe, Begin, CreateTemporary, WriteAll, SyncAll, Prepare,
                      HashDestination, CompareContent, Rename, Publish, SyncParentDirectory,
                      SyncUnchanged, Verify, Succeed, Fail, Crash
  <2> QED BY <2>1, <2>2
<1>2. CASE Delete
  BY <1>2 DEF Delete, Publish
<1>3. CASE PowerLoss
  BY <1>3 DEF PowerLoss
<1>4. CASE UNCHANGED vars
  BY <1>4 DEF vars
<1> QED BY <1>1, <1>2, <1>3, <1>4 DEF Next

\* The variables of the register, under the refinement mapping.
LEMMA RegisterVariables ==
    Register!register = <<Held, Current, Writes, raced>>
BY DEF Register!register, Held, Writes, ViewOf

\* A step that changes the call or the place of one writer changes its write alone.
LEMMA OneWrite ==
    ASSUME NEW w \in Writer,
           \A v \in Writer \ {w} : pc'[v] = pc[v] /\ call'[v] = call[v]
    PROVE  Writes' = [Writes EXCEPT ![w] = ViewOf(w)']
BY DEF Writes, ViewOf, Stage

LEMMA SameWrites ==
    ASSUME \A v \in Writer : ViewOf(v)' = ViewOf(v)
    PROVE  Writes' = Writes
BY DEF Writes

\* What a write is at each place of its writer.
LEMMA Views ==
    ASSUME NEW w \in Writer
    PROVE  /\ pc[w] = "idle" => Writes[w] = [stage |-> "idle"]
           /\ pc[w] \in {"create", "write", "sync", "hash"} =>
                 Writes[w] = [stage |-> "invoked", bytes |-> call[w].bytes,
                              allowed |-> call[w].allowed]
           /\ pc[w] = "rename" =>
                 Writes[w] = [stage |-> "compared", bytes |-> call[w].bytes,
                              allowed |-> call[w].allowed]
           /\ pc[w] \in {"sync_dir", "verify", "sync_same"} =>
                 Writes[w] = [stage |-> "stored", bytes |-> call[w].bytes,
                              allowed |-> call[w].allowed]
BY DEF Writes, ViewOf, Stage

LEMMA StageOfWrite ==
    ASSUME NEW w \in Writer
    PROVE  Writes[w].stage = Stage(w)
<1>1. CASE pc[w] = "idle"
  BY <1>1 DEF Writes, ViewOf, Stage
<1>2. CASE pc[w] # "idle"
  <2>1. Writes[w] = [stage |-> Stage(w), bytes |-> call[w].bytes, allowed |-> call[w].allowed]
    BY <1>2 DEF Writes, ViewOf
  <2> QED BY <2>1
<1> QED BY <1>1, <1>2

\* Whatever ends a call, the register sees it return.
LEMMA ReturnReturns ==
    ASSUME Inv, NEW w \in Writer, pc[w] # "idle", Return(w), UNCHANGED history
    PROVE  Register!Return(w)
<1>1. /\ pc'[w] = "idle" /\ raced' = [raced EXCEPT ![w] = FALSE]
      /\ \A v \in Writer \ {w} : pc'[v] = pc[v] /\ call'[v] = call[v]
  BY DEF Return, Inv, TypeOK
<1>2. Writes' = [Writes EXCEPT ![w] = [stage |-> "idle"]]
  BY <1>1, OneWrite DEF ViewOf
<1>3. Writes[w].stage # "idle"
  <2>1. Stage(w) # "idle"
    BY DEF Stage
  <2> QED BY <2>1, StageOfWrite
<1>4. Held' = Held /\ Current' = Current
  BY DEF Held, Current
<1> QED BY <1>1, <1>2, <1>3, <1>4
        DEF Register!Return, Register!Idle, Writes, ViewOf, Held

\* A generation is stored: the register changes, and the writers that compared are raced.
LEMMA PublishChanges ==
    ASSUME Inv, NEW content \in Content, NEW by, Publish(content, TRUE, by)
    PROVE  Register!Change(content, by)
<1> DEFINE g == [content |-> content, flushed |-> TRUE]
<1>1. history \in Seq(Generation) /\ g \in Generation
  BY DEF Inv, TypeOK, Generation
<1>2. history' = Append(history, g)
  BY DEF Publish
<1> HIDE DEF g
<1>3. /\ Len(history) \in Nat
      /\ history' \in Seq(Generation) /\ Len(history') = Len(history) + 1
      /\ \A n \in 1 .. Len(history) : history'[n] = history[n]
      /\ history'[Len(history) + 1] = g
  BY <1>1, <1>2, AppendGeneration
<1>4. Current' = content /\ Held' = Held \cup {content}
  <2>1. g.content = content
    BY DEF g
  <2>2. Current' = content
    BY <1>3, <2>1 DEF Current
  <2>3. ASSUME NEW v PROVE v \in Held' <=> v \in Held \cup {content}
    <3>1. v \in Held' <=> \E n \in 1 .. Len(history) + 1 : v = history'[n].content
      BY <1>3 DEF Held
    <3>2. v \in Held <=> \E n \in 1 .. Len(history) : v = history[n].content
      BY DEF Held
    <3> QED BY <1>3, <2>1, <3>1, <3>2
  <2> QED BY <2>2, <2>3
<1>5. raced' = [w \in Writer |-> raced[w] \/ (w # by /\ Writes[w].stage = "compared")]
  <2>1. \A w \in Writer : (pc[w] = "rename") <=> (Writes[w].stage = "compared")
    <3> SUFFICES ASSUME NEW w \in Writer
                 PROVE  (pc[w] = "rename") <=> (Writes[w].stage = "compared")
      OBVIOUS
    <3>1. pc[w] \in {"idle", "create", "write", "sync", "hash", "rename",
                     "sync_dir", "verify", "sync_same"}
      BY DEF Inv, TypeOK
    <3>2. (pc[w] = "rename") <=> (Stage(w) = "compared")
      BY <3>1 DEF Stage
    <3> QED BY <3>2, StageOfWrite
  <2> QED BY <2>1 DEF Publish
<1> QED BY <1>4, <1>5 DEF Register!Change, Held, Writes, ViewOf

\* The steps before the rename and the directory sync change nothing the
\* register shows.
LEMMA HiddenStep ==
    ASSUME Inv, NEW w \in Writer,
           \/ Observe(w) \/ CreateTemporary(w) \/ WriteAll(w) \/ SyncAll(w)
           \/ SyncParentDirectory(w)
    PROVE  UNCHANGED Register!register
<1>1. history' = history /\ raced' = raced /\ call' = call
  BY DEF Observe, CreateTemporary, WriteAll, SyncAll, Prepare, SyncParentDirectory, file
<1>2. ASSUME NEW v \in Writer PROVE Stage(v)' = Stage(v) /\ (pc'[v] = "idle" <=> pc[v] = "idle")
  BY DEF Observe, CreateTemporary, WriteAll, SyncAll, Prepare, SyncParentDirectory, Stage,
         Inv, TypeOK
<1>3. Writes' = Writes
  BY <1>1, <1>2, SameWrites DEF ViewOf
<1>4. Held' = Held /\ Current' = Current
  BY <1>1 DEF Held, Current
<1> QED BY <1>1, <1>3, <1>4, RegisterVariables DEF Register!register, Held, Writes, ViewOf

\* Beginning a call invokes a write.
LEMMA BeginInvokes ==
    ASSUME Inv, NEW w \in Writer, NEW bytes \in Bytes, NEW allowed \in WritePrecondition,
           Begin(w, bytes, allowed)
    PROVE  Register!Invoke(w, bytes, allowed)
<1>1. /\ pc[w] = "idle" /\ pc'[w] = "create"
      /\ call'[w] = [bytes |-> bytes, allowed |-> allowed]
      /\ history' = history /\ raced' = raced
      /\ \A v \in Writer \ {w} : pc'[v] = pc[v] /\ call'[v] = call[v]
  BY DEF Begin, Inv, TypeOK, file
<1>2. ViewOf(w)' = [stage |-> "invoked", bytes |-> bytes, allowed |-> allowed]
  BY <1>1 DEF ViewOf, Stage
<1>3. Writes' = [Writes EXCEPT ![w] = [stage |-> "invoked", bytes |-> bytes, allowed |-> allowed]]
  BY <1>1, <1>2, OneWrite
<1>4. Writes[w].stage = "idle"
  BY <1>1, StageOfWrite DEF Stage
<1>5. Held' = Held /\ Current' = Current
  BY <1>1 DEF Held, Current
<1> QED BY <1>1, <1>3, <1>4, <1>5
        DEF Register!Invoke, Register!InProgress, Held, Writes, ViewOf

\* Hashing the destination is the register's comparison, or ends in a conflict.
LEMMA HashCompares ==
    ASSUME Inv, NEW w \in Writer, HashDestination(w)
    PROVE  Register!Compare(w) \/ Register!Return(w)
<1>1. pc[w] = "hash" /\ history' = history
  BY DEF HashDestination, CompareContent, file
<1>2. Writes[w] = [stage |-> "invoked", bytes |-> call[w].bytes, allowed |-> call[w].allowed]
  BY <1>1, Views
<1>3. Held' = Held /\ Current' = Current
  BY <1>1 DEF Held, Current
<1>4. ASSUME NEW to \in {"sync_same", "rename"}, NEW stage,
             pc' = [pc EXCEPT ![w] = to], call' = call,
             stage = IF to = "rename" THEN "compared" ELSE "stored"
      PROVE  Writes' = [Writes EXCEPT ![w].stage = stage]
  <2>1. pc'[w] = to /\ \A v \in Writer \ {w} : pc'[v] = pc[v] /\ call'[v] = call[v]
    BY <1>4 DEF Inv, TypeOK
  <2>2. ViewOf(w)' = [stage |-> stage, bytes |-> call[w].bytes, allowed |-> call[w].allowed]
    BY <1>4, <2>1 DEF ViewOf, Stage
  <2>3. Writes' = [Writes EXCEPT ![w] = ViewOf(w)']
    BY <2>1, OneWrite
  <2>4. [Writes[w] EXCEPT !.stage = stage] =
            [stage |-> stage, bytes |-> call[w].bytes, allowed |-> call[w].allowed]
    BY <1>2
  <2>5. [Writes EXCEPT ![w].stage = stage] =
            [Writes EXCEPT ![w] = [Writes[w] EXCEPT !.stage = stage]]
    OBVIOUS
  <2> QED BY <2>2, <2>3, <2>4, <2>5
<1>5. CASE /\ Current = call[w].bytes
           /\ pc' = [pc EXCEPT ![w] = "sync_same"]
           /\ UNCHANGED <<call, raced>>
  <2>1. Writes' = [Writes EXCEPT ![w].stage = "stored"]
    BY <1>4, <1>5
  <2>2. Writes[w].stage = "invoked" /\ Current = Writes[w].bytes
    BY <1>2, <1>5
  <2> QED BY <1>3, <1>5, <2>1, <2>2 DEF Register!Compare, Held, Writes, ViewOf
<1>6. CASE /\ Current # call[w].bytes /\ Current \in call[w].allowed
           /\ pc' = [pc EXCEPT ![w] = "rename"]
           /\ UNCHANGED <<call, raced>>
  <2>1. Writes' = [Writes EXCEPT ![w].stage = "compared"]
    BY <1>4, <1>6
  <2>2. /\ Writes[w].stage = "invoked" /\ Current # Writes[w].bytes
        /\ Current \in Writes[w].allowed
    BY <1>2, <1>6
  <2> QED BY <1>3, <1>6, <2>1, <2>2 DEF Register!Compare, Held, Writes, ViewOf
<1>7. CASE Return(w)
  BY <1>1, <1>7, ReturnReturns
<1> QED BY <1>5, <1>6, <1>7 DEF HashDestination, CompareContent

\* The rename stores the write, whole.
LEMMA RenameStores ==
    ASSUME Inv, NEW w \in Writer, Rename(w)
    PROVE  Register!Store(w)
<1>1. /\ pc[w] = "rename" /\ temp[w] = "synced" /\ call[w].bytes \in Content
      /\ Current \in call[w].allowed \/ raced[w]
  BY DEF Rename, Inv, WriterInv, Content
<1>2. Publish(call[w].bytes, TRUE, w)
  BY <1>1 DEF Rename
<1>3. Register!Change(call[w].bytes, w)
  BY <1>1, <1>2, PublishChanges
<1>4. Writes[w] = [stage |-> "compared", bytes |-> call[w].bytes, allowed |-> call[w].allowed]
  BY <1>1, Views
<1>5. /\ pc'[w] = "sync_dir" /\ call' = call
      /\ \A v \in Writer \ {w} : pc'[v] = pc[v] /\ call'[v] = call[v]
  BY DEF Rename, Inv, TypeOK
<1>6. Writes' = [Writes EXCEPT ![w].stage = "stored"]
  <2>1. ViewOf(w)' = [stage |-> "stored", bytes |-> call[w].bytes, allowed |-> call[w].allowed]
    BY <1>5 DEF ViewOf, Stage
  <2>2. Writes' = [Writes EXCEPT ![w] = ViewOf(w)']
    BY <1>5, OneWrite
  <2>3. [Writes[w] EXCEPT !.stage = "stored"] =
            [stage |-> "stored", bytes |-> call[w].bytes, allowed |-> call[w].allowed]
    BY <1>4
  <2>4. [Writes EXCEPT ![w].stage = "stored"] =
            [Writes EXCEPT ![w] = [Writes[w] EXCEPT !.stage = "stored"]]
    OBVIOUS
  <2> QED BY <2>1, <2>2, <2>3, <2>4
<1>7. /\ Writes[w].stage = "compared" /\ Writes[w].bytes = call[w].bytes
      /\ Writes[w].allowed = call[w].allowed
  BY <1>4
<1> QED BY <1>1, <1>3, <1>6, <1>7 DEF Register!Store, Writes, ViewOf

\* A call that ends, in whatever way, returns.
LEMMA EndReturns ==
    ASSUME Inv, NEW w \in Writer, SyncUnchanged(w) \/ Verify(w) \/ Fail(w)
    PROVE  Register!Return(w)
<1>1. pc[w] # "idle" /\ Return(w) /\ UNCHANGED history
  BY DEF SyncUnchanged, Verify, Fail, Succeed, file
<1> QED BY <1>1, ReturnReturns

\* A process that dies loses its write; one without a write loses nothing.
LEMMA CrashReturns ==
    ASSUME Inv, IdleUnraced, NEW w \in Writer, Crash(w)
    PROVE  Register!Return(w) \/ UNCHANGED Register!register
<1>1. Return(w) /\ history' = history
  BY DEF Crash, file
<1>2. CASE pc[w] # "idle"
  BY <1>1, <1>2, ReturnReturns
<1>3. CASE pc[w] = "idle"
  <2>1. /\ pc' = pc /\ raced' = raced
        /\ \A v \in Writer \ {w} : call'[v] = call[v]
    BY <1>1, <1>3 DEF Return, IdleUnraced, Inv, TypeOK
  <2>2. Writes' = Writes
    <3>1. \A v \in Writer : ViewOf(v)' = ViewOf(v)
      BY <1>3, <2>1 DEF ViewOf, Stage
    <3> QED BY <3>1, SameWrites
  <2>3. Held' = Held /\ Current' = Current
    BY <1>1 DEF Held, Current
  <2> QED BY <2>1, <2>2, <2>3 DEF Register!register, Held, Writes, ViewOf
<1> QED BY <1>2, <1>3

\* Deleting the file stores its absence.
LEMMA DeleteErases ==
    ASSUME Inv, Delete
    PROVE  Register!Erase
<1>1. Publish(Absent, TRUE, Absent) /\ Absent \in Content /\ pc' = pc /\ call' = call
  BY DEF Delete, Content
<1>2. Register!Change(Absent, Absent)
  BY <1>1, PublishChanges
<1>3. Writes' = Writes
  BY <1>1, SameWrites DEF ViewOf, Stage
<1> QED BY <1>2, <1>3 DEF Register!Erase, Writes, ViewOf

\* A power loss goes back to a value the register held.
LEMMA PowerLossGoesBack ==
    ASSUME Inv, PowerLoss
    PROVE  Register!PowerLoss
<1>1. PICK n \in durable .. Len(history) :
          history' = Append(SubSeq(history, 1, n - 1),
                            IF history[n].flushed THEN history[n]
                            ELSE [history[n] EXCEPT !.content = Torn])
  BY DEF PowerLoss
<1>2. n \in 1 .. Len(history) /\ history \in Seq(Generation) /\ history[n].flushed
  BY DEF Inv, TypeOK, Complete, Generation
<1>3. history' = Append(SubSeq(history, 1, n - 1), history[n])
  BY <1>1, <1>2
<1>4. /\ Len(history') = n
      /\ \A i \in 1 .. n : history'[i] = history[i]
  BY <1>2, <1>3, PrefixOfGenerations
<1>5. Held' \in SUBSET Held /\ Current' \in Held'
  BY <1>2, <1>4 DEF Held, Current
<1>6. Writes' = [w \in Writer |-> [stage |-> "idle"]] /\ raced' = [w \in Writer |-> FALSE]
  BY DEF PowerLoss, Writes, ViewOf
<1> QED BY <1>5, <1>6 DEF Register!PowerLoss, Register!Idle, Held, Writes, ViewOf

\* Every step of the writers and of their environment is a step of the register
\* or changes nothing it shows.
LEMMA StepRefines ==
    Inv /\ IdleUnraced /\ [Next]_vars => [Register!Next]_(Register!register)
<1> SUFFICES ASSUME Inv, IdleUnraced, [Next]_vars
             PROVE  [Register!Next]_(Register!register)
  OBVIOUS
<1>1. ASSUME NEW w \in Writer, Step(w) PROVE [Register!Next]_(Register!register)
  <2>1. CASE \/ Observe(w) \/ CreateTemporary(w) \/ WriteAll(w) \/ SyncAll(w)
             \/ SyncParentDirectory(w)
    BY <2>1, HiddenStep
  <2>2. ASSUME NEW bytes \in Bytes, NEW allowed \in WritePrecondition, Begin(w, bytes, allowed)
        PROVE  [Register!Next]_(Register!register)
    <3>1. allowed \in SUBSET Register!Content
      BY DEF WritePrecondition, Content, Register!Content
    <3> QED BY <2>2, <3>1, BeginInvokes DEF Register!Next
  <2>3. CASE HashDestination(w)
    BY <2>3, HashCompares DEF Register!Next
  <2>4. CASE Rename(w)
    BY <2>4, RenameStores DEF Register!Next
  <2>5. CASE SyncUnchanged(w) \/ Verify(w) \/ Fail(w)
    BY <2>5, EndReturns DEF Register!Next
  <2>6. CASE Crash(w)
    BY <2>6, CrashReturns DEF Register!Next
  <2> QED BY <1>1, <2>1, <2>2, <2>3, <2>4, <2>5, <2>6 DEF Step
<1>2. CASE Delete
  BY <1>2, DeleteErases DEF Register!Next
<1>3. CASE PowerLoss
  BY <1>3, PowerLossGoesBack DEF Register!Next
<1>4. CASE UNCHANGED vars
  BY <1>4 DEF vars, Register!register, Current, Stage
<1> QED BY <1>1, <1>2, <1>3, <1>4 DEF Next

\* Every behaviour of the writers is one of the optimistic register: a published
\* file holds the bytes of one call in full, a call takes effect at most once,
\* and a value a write does not allow is replaced only after a race.
THEOREM Refines == Spec => ImplementsRegister
<1>1. Init => Register!Init
  BY DEF Init, Register!Init, Register!Idle, Current
<1>2. Init => IdleUnraced
  BY DEF Init, IdleUnraced
<1>3. Inv /\ IdleUnraced /\ [Next]_vars => IdleUnraced'
  BY IdleUnracedStep
<1>4. Spec => []IdleUnraced
  BY <1>2, <1>3, AlwaysInv, PTL DEF Spec
<1> QED BY <1>1, <1>4, AlwaysInv, StepRefines, PTL DEF Spec, ImplementsRegister, Register!Spec
=============================================================================
