----------------------- MODULE ManagedRuntime_proofs -----------------------
(***************************************************************************)
(* Proofs about the runtime controller, for any studios, runtimes,         *)
(* closures and number of mishaps. Studios, installer and collector share  *)
(* state.json here without a lock, so a record that one of them writes may *)
(* be computed from a state that another has replaced in the meantime.     *)
(***************************************************************************)
EXTENDS ManagedRuntime, TLAPS

USE RuntimeAssumption

Pointers(st) == {st.active, st.previous, st.lastKnownGood} \ {None}
Published(sl) == {id \in Ids : sl[id] \in {"whole", "damaged"}}

(***************************************************************************)
(* What holds of a state record against the history: not only of the one   *)
(* in the file, but of every one that is being worked on.                  *)
(***************************************************************************)
Good(st, act) ==
    /\ ValidRuntimeState(st)
    /\ Pointers(st) \subseteq act
    /\ st.lastKnownGood \in Sound \cup {None}

\* The sets the fields of a record range over, kept closed for the provers.
OrNone == Ids \cup {None}
StartupCounts == 0..1
CrashCounts == 0..2

LEMMA Shape ==
  /\ RuntimeState = [active : OrNone, previous : OrNone, factory : {FactoryId, None},
                     lastKnownGood : OrNone, selfTest : OrNone, health : OrNone,
                     startupFailures : StartupCounts, crashes : CrashCounts,
                     disabled : SUBSET Ids]
  /\ None \in OrNone /\ Ids \subseteq OrNone
  /\ 0 \in StartupCounts /\ 0 \in CrashCounts
BY DEF RuntimeState, OrNone, StartupCounts, CrashCounts

LEMMA NoStateApart == NoState \notin RuntimeState
BY DEF NoState, RuntimeState

LEMMA EmptyIsGood == ASSUME NEW act
                     PROVE  /\ EmptyState \in RuntimeState /\ Good(EmptyState, act)
                            /\ Pointers(EmptyState) = {} /\ EmptyState.disabled = {}
BY DEF EmptyState, RuntimeState, Good, ValidRuntimeState, Pointers

\* Longer histories keep a record good.
LEMMA GoodStays == ASSUME NEW st, NEW act, NEW act2, Good(st, act), act \subseteq act2
                   PROVE  Good(st, act2)
BY DEF Good

\* The target of a rollback is one of the runtimes the record names.
LEMMA TargetNamed == ASSUME NEW st \in RuntimeState
                     PROVE  /\ RollbackTarget(st) \in {st.previous, st.lastKnownGood, st.factory, None}
                            /\ RollbackTarget(st) # None => RollbackTarget(st) \notin st.disabled
BY DEF RollbackTarget, Eligible

LEMMA TendedGood ==
  ASSUME NEW st \in RuntimeState, NEW id \in Ids, NEW act, Good(st, act)
  PROVE  /\ Tended(st, id) \in RuntimeState /\ Tended(st, id).health = id
         /\ Good(Tended(st, id), act)
         /\ Pointers(Tended(st, id)) = Pointers(st)
         /\ Tended(st, id).disabled = st.disabled /\ Tended(st, id).active = st.active
<1>1. CASE st.health = id
  BY <1>1 DEF Tended
<1>2. CASE st.health # id
  <2> DEFINE r == [st EXCEPT !.health = id, !.startupFailures = 0, !.crashes = 0]
  <2>1. Tended(st, id) = r
    BY <1>2 DEF Tended
  <2>2. /\ r \in RuntimeState /\ r.health = id /\ Pointers(r) = Pointers(st)
        /\ r.lastKnownGood = st.lastKnownGood
        /\ r.disabled = st.disabled /\ r.active = st.active
    BY Shape DEF Pointers
  <2> HIDE DEF r
  <2> QED
    BY <2>1, <2>2 DEF Good, ValidRuntimeState
<1> QED
  BY <1>1, <1>2

\* A rollback disables the runtime and hands over to one that is not disabled.
LEMMA RollBackGood ==
  ASSUME NEW st \in RuntimeState, NEW id \in Ids, NEW act, Good(st, act)
  PROVE  /\ RollBack(st, id) \in RuntimeState /\ Good(RollBack(st, id), act)
         /\ Pointers(RollBack(st, id)) \subseteq Pointers(st)
         /\ RollBack(st, id).disabled = st.disabled \cup {id}
         /\ RollBack(st, id).active \in (Pointers(st) \ (st.disabled \cup {id})) \cup {None}
<1> DEFINE disabled == [st EXCEPT !.disabled = @ \cup {id}]
           target == RollbackTarget(disabled)
           managed == IF target = st.factory THEN None ELSE target
<1>1. /\ disabled \in RuntimeState /\ disabled.previous = st.previous
      /\ disabled.lastKnownGood = st.lastKnownGood /\ disabled.factory = st.factory
      /\ disabled.disabled = st.disabled \cup {id}
  BY DEF RuntimeState
<1>2. /\ target \in {st.previous, st.lastKnownGood, st.factory, None}
      /\ target # None => target \notin st.disabled \cup {id}
  BY <1>1, TargetNamed
<1>3. /\ managed \in {st.previous, st.lastKnownGood, None}
      /\ managed # None => managed \notin st.disabled \cup {id}
  BY <1>2
<1>4. managed \in OrNone
  BY <1>3, Shape
<1> DEFINE result == [disabled EXCEPT !.active = managed, !.previous = None, !.health = managed,
                                      !.startupFailures = 0, !.crashes = 0]
<1>5. RollBack(st, id) = result
  BY <1>1 DEF RollBack
<1> HIDE DEF target, managed
<1>6. /\ result \in RuntimeState /\ result.active = managed /\ result.previous = None
      /\ result.lastKnownGood = st.lastKnownGood
      /\ result.disabled = st.disabled \cup {id}
      /\ result.startupFailures = 0 /\ result.crashes = 0
  <2> DEFINE d == disabled
  <2>1. d \in RuntimeState
    BY <1>1
  <2> HIDE DEF d, disabled
  <2> QED
    BY <2>1, <1>4, Shape, <1>1
<1> HIDE DEF result
<1>7. Pointers(result) \subseteq Pointers(st)
  BY <1>3, <1>6 DEF Pointers
<1>8. managed \in (Pointers(st) \ (st.disabled \cup {id})) \cup {None}
  BY <1>3 DEF Pointers
<1> QED
  BY <1>5, <1>6, <1>7, <1>8 DEF Good, ValidRuntimeState

Successes == {"startup_success", "request_success"}

\* What a report makes of the record it was computed from: good again, naming
\* no other runtime, and with the pointer where it was unless it rolls back.
LEMMA RecordedGood ==
  ASSUME NEW st \in RuntimeState, NEW id \in Ids, NEW kind \in Kinds, NEW act,
         Good(st, act), st.active = id, kind \in Successes => id \in Sound
  PROVE  LET r == Recorded(st, id, kind)
         IN  /\ r \in RuntimeState /\ Good(r, act) /\ Pointers(r) \subseteq Pointers(st)
             /\ ThresholdReached(st, id, kind) =>
                   /\ r.disabled = st.disabled \cup {id}
                   /\ r.active \in (Pointers(st) \ r.disabled) \cup {None}
             /\ ~ThresholdReached(st, id, kind) =>
                   r.disabled = st.disabled /\ r.active = st.active
<1> DEFINE r == Recorded(st, id, kind)
<1>1. CASE kind = "startup_success"
  <2>1. r = [st EXCEPT !.health = id, !.startupFailures = 0]
    BY <1>1 DEF Recorded, RecordStartupSuccess
  <2>2. /\ r \in RuntimeState /\ r.active = st.active /\ r.disabled = st.disabled
        /\ r.health = id /\ Pointers(r) = Pointers(st) /\ r.lastKnownGood = st.lastKnownGood
    BY <2>1, Shape DEF Pointers
  <2>3. ~ThresholdReached(st, id, kind)
    BY <1>1 DEF ThresholdReached
  <2> HIDE DEF r
  <2>4. Good(r, act)
    BY <2>2 DEF Good, ValidRuntimeState
  <2> QED
    BY <2>2, <2>3, <2>4 DEF r
<1>2. CASE kind = "request_success"
  <2>1. r = RecordRequestSuccess(st, id)
    BY <1>2 DEF Recorded
  <2>2. /\ r \in RuntimeState /\ r.active = st.active /\ r.previous = st.previous
        /\ r.lastKnownGood \in {st.lastKnownGood, id}
        /\ r.disabled = st.disabled /\ r.startupFailures = 0 /\ r.crashes = 0
    BY <2>1, Shape DEF RecordRequestSuccess
  <2>3. ~ThresholdReached(st, id, kind)
    BY <1>2 DEF ThresholdReached
  <2> HIDE DEF r
  <2>4. Pointers(r) \subseteq Pointers(st)
    BY <2>2 DEF Pointers
  <2>5. Good(r, act)
    BY <1>2, <2>2, <2>4 DEF Good, ValidRuntimeState, Successes
  <2> QED
    BY <2>2, <2>3, <2>4, <2>5 DEF r
<1>3. CASE kind \in {"startup_failure", "crash"}
  <2> DEFINE own == Tended(st, id)
  <2>1. /\ own \in RuntimeState /\ own.health = id /\ Good(own, act)
        /\ Pointers(own) = Pointers(st) /\ own.disabled = st.disabled /\ own.active = st.active
    BY TendedGood
  <2> HIDE DEF own
  <2>2. r = RecordFailure(st, id, kind)
    BY <1>3 DEF Recorded
  <2>3. CASE ThresholdReached(st, id, kind)
    <3>1. r = RollBack(own, id)
      BY <2>2, <2>3 DEF RecordFailure, own
    <3> QED
      BY <2>1, <2>3, <3>1, RollBackGood
  <2>4. CASE ~ThresholdReached(st, id, kind)
    <3>1. CASE kind = "crash"
      <4>1. r = [own EXCEPT !.crashes = @ + 1] /\ own.crashes + 1 < 3
        BY <2>1, <2>2, <2>4, <3>1 DEF RecordFailure, ThresholdReached, CrashThreshold, own, RuntimeState
      <4> QED
        BY <2>1, <2>4, <4>1 DEF RuntimeState, Good, ValidRuntimeState, Pointers
    <3>2. CASE kind = "startup_failure"
      <4>1. r = [own EXCEPT !.startupFailures = @ + 1] /\ own.startupFailures + 1 < 2
        BY <2>1, <2>2, <2>4, <3>2 DEF RecordFailure, ThresholdReached, StartupThreshold, own, RuntimeState
      <4> QED
        BY <2>1, <2>4, <4>1 DEF RuntimeState, Good, ValidRuntimeState, Pointers
    <3> QED
      BY <1>3, <3>1, <3>2
  <2> QED
    BY <2>3, <2>4
<1> QED
  BY <1>1, <1>2, <1>3 DEF Kinds

LEMMA ActivateGood ==
  ASSUME NEW st \in RuntimeState, NEW id \in Ids, NEW act, Good(st, act)
  PROVE  /\ Activate(st, id) \in RuntimeState /\ Good(Activate(st, id), act \cup {id})
         /\ Pointers(Activate(st, id)) \subseteq Pointers(st) \cup {id}
         /\ Activate(st, id).active = id /\ Activate(st, id).disabled = st.disabled
<1> DEFINE r == Activate(st, id)
<1>1. /\ r \in RuntimeState /\ r.active = id /\ r.previous \in {st.active, st.previous}
      /\ r.lastKnownGood = st.lastKnownGood /\ r.disabled = st.disabled
      /\ r.startupFailures = 0 /\ r.crashes = 0
  BY Shape DEF Activate
<1> HIDE DEF r
<1>2. Pointers(r) \subseteq Pointers(st) \cup {id}
  BY <1>1 DEF Pointers
<1> QED
  BY <1>1, <1>2 DEF r, Good, ValidRuntimeState

(***************************************************************************)
(* The inductive invariant. Whoever is at work holds a good record, about  *)
(* its own runtime, though it need not be the one in the file. As long as  *)
(* no update was overtaken the file names published runtimes, disables     *)
(* what was rolled back, and names nothing a collector does not protect.   *)
(***************************************************************************)
WorkerGood(w, act) ==
    /\ w.pc = "starting" => w.source = "none"
    /\ w.source = "active" => w.id \in Ids
    /\ w.source = "active" /\ w.pc = "serving" => w.id \in Sound
    /\ w.pc \in {"noting", "writing"} => /\ w.source = "active" /\ w.kind \in Kinds
                                         /\ w.kind \in Successes => w.id \in Sound
    /\ w.pc = "writing" => /\ w.loaded \in RuntimeState /\ w.loaded.active = w.id
                           /\ Good(w.loaded, act)

WorkersGood == \A s \in Studios : WorkerGood(studio[s], activated)

Activating(k) == k.op \in {"create", "publish", "point"}

KeeperGood(k, sl, act) ==
    /\ k.op # "none" => k.loaded \in RuntimeState /\ Good(k.loaded, act)
    /\ Activating(k) => k.id \in Ids /\ k.id \notin k.loaded.disabled
    /\ k.op = "create" => sl[k.id] = "absent"
    /\ k.op = "point" => k.id \in Published(sl)

FileGood == Good(Loaded, activated)

Undisturbed ==
    ~overtaken =>
        /\ Pointers(Loaded) \subseteq Published(slot)
        /\ rolledBack \subseteq Loaded.disabled
        /\ keeper.op = "collect" => Pointers(Loaded) \subseteq Pointers(keeper.loaded)

IInv == TypeOK /\ WorkersGood /\ KeeperGood(keeper, slot, activated) /\ FileGood /\ Undisturbed

LEMMA IdleWorker ==
  /\ Idle \in Worker /\ Idle.pc = "down"
  /\ \A act : WorkerGood(Idle, act)
BY DEF Idle, Worker, WorkerGood, MaybeId

LEMMA IdleKeeper ==
  /\ NoKeeper \in Keeper /\ NoKeeper.op = "none"
  /\ \A sl, act : KeeperGood(NoKeeper, sl, act)
BY DEF NoKeeper, Keeper, KeeperGood, Activating

LEMMA LoadedTyped == TypeOK => Loaded \in RuntimeState
BY EmptyIsGood DEF TypeOK, Loaded

LEMMA InitIInv == Init => IInv
<1> SUFFICES ASSUME Init PROVE IInv
  OBVIOUS
<1>1. TypeOK
  <2>1. slot \in [Ids -> {"absent", "empty", "whole", "damaged"}]
    BY DEF Init
  <2>2. studio \in [Studios -> Worker]
    BY IdleWorker DEF Init
  <2>3. mishaps \in 0..MaxMishaps
    BY DEF Init
  <2> QED
    BY <2>1, <2>2, <2>3, IdleKeeper DEF Init, TypeOK
<1>2. Loaded = EmptyState
  BY DEF Init, Loaded
<1>3. FileGood
  BY <1>2, EmptyIsGood DEF FileGood
<1>4. WorkersGood
  BY IdleWorker DEF Init, WorkersGood
<1>5. KeeperGood(keeper, slot, activated)
  BY IdleKeeper DEF Init
<1>6. Undisturbed
  BY <1>2, EmptyIsGood, IdleKeeper DEF Init, Undisturbed
<1> QED
  BY <1>1, <1>3, <1>4, <1>5, <1>6 DEF IInv

\* A step of one worker that touches nothing else.
LEMMA WorkerStep ==
  ASSUME IInv, NEW s \in Studios, NEW w \in Worker, Set(s, w), WorkerGood(w, activated),
         UNCHANGED <<state, world, keeper, history>>,
         mishaps' \in 0..MaxMishaps
  PROVE  IInv'
<1>1. TypeOK'
  BY DEF IInv, TypeOK, Set, world, history
<1>2. FileGood' /\ Undisturbed' /\ KeeperGood(keeper, slot, activated)'
  BY DEF IInv, FileGood, Undisturbed, Loaded, world, history
<1>3. WorkersGood'
  BY DEF IInv, TypeOK, WorkersGood, Set, history
<1> QED
  BY <1>1, <1>2, <1>3 DEF IInv

\* Where the worker goes once its note is written, or dropped, or lost.
LEMMA ProceedGood ==
  ASSUME NEW w \in Worker, NEW act, WorkerGood(w, act), w.pc \in {"noting", "writing"}
  PROVE  /\ Proceed(w) \in Worker /\ WorkerGood(Proceed(w), act)
         /\ Proceed(w).pc \in {"serving", "down"}
         /\ Noted(w) \in Worker /\ WorkerGood(Noted(w), act)
         /\ Noted(w).pc \in {"serving", "down"}
<1>1. /\ Proceed(w) \in Worker /\ WorkerGood(Proceed(w), act)
      /\ Proceed(w).pc \in {"serving", "down"}
  <2>1. CASE w.kind \in Successes
    <3> DEFINE p == [w EXCEPT !.pc = "serving", !.kind = "none", !.loaded = NoState]
    <3>1. p \in Worker /\ p.pc = "serving" /\ p.source = w.source /\ p.id = w.id
      BY DEF Worker
    <3>2. Proceed(w) = p
      BY <2>1 DEF Proceed, Successes
    <3> HIDE DEF p
    <3> QED
      BY <2>1, <3>1, <3>2 DEF WorkerGood
  <2>2. CASE w.kind \notin Successes
    BY <2>2, IdleWorker DEF Proceed, Successes
  <2> QED
    BY <2>1, <2>2
<1> DEFINE p == Proceed(w)
           n == [p EXCEPT !.recordedSuccess = @ \/ w.kind = "request_success"]
<1>2. Noted(w) = n
  BY DEF Noted
<1>3. p \in Worker /\ WorkerGood(p, act) /\ p.pc \in {"serving", "down"}
  BY <1>1
<1> HIDE DEF p
<1>4. n \in Worker /\ n.pc = p.pc /\ n.source = p.source /\ n.id = p.id
  BY <1>3 DEF Worker
<1> HIDE DEF n
<1>5. WorkerGood(n, act)
  BY <1>3, <1>4 DEF WorkerGood
<1> QED
  BY <1>1, <1>2, <1>3, <1>4, <1>5

LEMMA MishapTyped == TypeOK /\ Mishap => mishaps' \in 0..MaxMishaps
BY DEF TypeOK, Mishap

LEMMA NoteGood ==
  ASSUME NEW w \in Worker, NEW act, NEW kind \in Kinds, WorkerGood(w, act), Managed(w),
         kind \in Successes => w.id \in Sound
  PROVE  /\ Note(w, kind) \in Worker /\ WorkerGood(Note(w, kind), act)
         /\ Note(w, kind).pc = "noting"
<1>1. /\ Note(w, kind) \in Worker /\ Note(w, kind).pc = "noting" /\ Note(w, kind).kind = kind
      /\ Note(w, kind).source = w.source /\ Note(w, kind).id = w.id
  BY DEF Note, Worker
<1> QED
  BY <1>1 DEF WorkerGood, Managed

LEMMA LaunchIInv == ASSUME IInv, NEW s \in Studios, Launch(s) PROVE IInv'
<1> DEFINE w == studio[s]
<1>1. w \in Worker /\ WorkerGood(w, activated)
  BY DEF IInv, TypeOK, WorkersGood
<1>2. mishaps \in 0..MaxMishaps
  BY DEF IInv, TypeOK
<1>3. CASE Spawn(s)
  <2> DEFINE v == [Idle EXCEPT !.pc = "starting"]
  <2>1. v \in Worker /\ WorkerGood(v, activated)
    BY IdleWorker DEF Idle, Worker, MaybeId, WorkerGood
  <2> HIDE DEF v
  <2> QED
    BY <1>2, <1>3, <2>1, WorkerStep DEF Spawn, v, history
<1>4. CASE Discover(s)
  <2> DEFINE v == [w EXCEPT !.pc = "launching", !.source = Discovered.source, !.id = Discovered.id]
  <2>0. Loaded \in RuntimeState
    BY LoadedTyped DEF IInv
  <2>1. /\ Discovered.source \in {"active", "rollback", "factory"} /\ Discovered.id \in MaybeId
        /\ Discovered.source = "active" => Discovered.id \in Ids
    BY <2>0 DEF Discovered, Usable, RuntimeState, MaybeId
  <2>2. /\ v \in Worker /\ v.pc = "launching" /\ v.source = Discovered.source
        /\ v.id = Discovered.id
    BY <1>1, <2>1 DEF Worker
  <2>3. WorkerGood(v, activated)
    BY <2>1, <2>2 DEF WorkerGood
  <2> QED
    BY <1>2, <1>4, <2>2, <2>3, WorkerStep DEF Discover, history
<1>5. CASE LaunchSucceeds(s)
  <2> DEFINE v == [w EXCEPT !.pc = "serving"]
  <2>1. Managed(w) => w.id \in Sound
    BY <1>5 DEF LaunchSucceeds, SidecarStarts, Managed
  <2>2. v \in Worker /\ WorkerGood(v, activated)
    <3>1. v \in Worker /\ v.pc = "serving" /\ v.source = w.source /\ v.id = w.id
      BY <1>1 DEF Worker
    <3> QED
      BY <1>1, <2>1, <3>1 DEF WorkerGood, Managed
  <2>3. (Set(s, Note(w, "startup_success")) /\ Managed(w)) \/ Set(s, v)
    BY <1>5 DEF LaunchSucceeds
  <2>4. UNCHANGED <<state, world, keeper, history>> /\ mishaps' = mishaps
    BY <1>5 DEF LaunchSucceeds
  <2> QED
    BY <1>1, <1>2, <2>1, <2>2, <2>3, <2>4, NoteGood, WorkerStep DEF Kinds, history
<1>6. CASE LaunchFails(s)
  <2>1. mishaps' \in 0..MaxMishaps
    BY <1>2, <1>6, MishapTyped DEF LaunchFails, IInv
  <2>2. (Set(s, Note(w, "startup_failure")) /\ Managed(w)) \/ Set(s, Idle)
    BY <1>6 DEF LaunchFails
  <2>3. UNCHANGED <<state, world, keeper, history>>
    BY <1>6 DEF LaunchFails
  <2> QED
    BY <1>1, <1>2, <2>1, <2>2, <2>3, IdleWorker, NoteGood, WorkerStep DEF Kinds, Successes, history
<1> QED
  BY <1>3, <1>4, <1>5, <1>6 DEF Launch

LEMMA ServeIInv == ASSUME IInv, NEW s \in Studios, Serve(s) PROVE IInv'
<1> DEFINE w == studio[s]
<1>1. w \in Worker /\ WorkerGood(w, activated)
  BY DEF IInv, TypeOK, WorkersGood
<1>0. mishaps \in 0..MaxMishaps
  BY DEF IInv, TypeOK
<1>2. CASE RequestHandled(s)
  <2>1. /\ UNCHANGED <<state, world, keeper, mishaps, history>>
        /\ w.pc = "serving" /\ Managed(w) /\ Set(s, Note(w, "request_success"))
    BY <1>2 DEF RequestHandled
  <2>2. w.id \in Ids /\ w.id \in Sound
    BY <1>1, <2>1 DEF Managed, WorkerGood
  <2> QED
    BY <1>0, <1>1, <2>1, <2>2, NoteGood, WorkerStep DEF Kinds, history
<1>3. CASE RequestBreaks(s)
  <2>1. mishaps' \in 0..MaxMishaps
    BY <1>3, MishapTyped DEF RequestBreaks, IInv
  <2>2. (Set(s, Note(w, "crash")) /\ Managed(w)) \/ Set(s, Idle)
    BY <1>3 DEF RequestBreaks
  <2>3. UNCHANGED <<state, world, keeper, history>>
    BY <1>3 DEF RequestBreaks
  <2> QED
    BY <1>0, <1>1, <2>1, <2>2, <2>3, IdleWorker, NoteGood, WorkerStep DEF Kinds, Successes, history
<1>4. CASE Stop(s)
  BY <1>0, <1>4, MishapTyped, IdleWorker, WorkerStep DEF Stop, IInv, history
<1> QED
  BY <1>2, <1>3, <1>4 DEF Serve

\* What a worker has read is good, and about its own runtime.
LEMMA WriterHolds ==
  ASSUME IInv, NEW s \in Studios, studio[s].pc = "writing"
  PROVE  LET w == studio[s]
         IN  /\ w \in Worker /\ w.loaded \in RuntimeState /\ w.loaded.active = w.id
             /\ w.id \in Ids /\ w.kind \in Kinds /\ Good(w.loaded, activated)
             /\ w.kind \in Successes => w.id \in Sound
BY DEF IInv, TypeOK, WorkersGood, WorkerGood

LEMMA WriteNoteIInv == ASSUME IInv, NEW s \in Studios, WriteNote(s) PROVE IInv'
<1> DEFINE w == studio[s]
           r == Recorded(w.loaded, w.id, w.kind)
           rolls == ThresholdReached(w.loaded, w.id, w.kind)
<1>1. /\ w.pc = "writing" /\ state' = r
      /\ rolledBack' = IF rolls THEN rolledBack \cup {w.id} ELSE rolledBack
      /\ overtaken' = (overtaken \/ w.loaded # Loaded)
      /\ Set(s, Noted(w)) /\ UNCHANGED <<world, keeper, mishaps, activated>>
  BY DEF WriteNote, Overtakes
<1>2. /\ w \in Worker /\ w.loaded \in RuntimeState /\ w.loaded.active = w.id
      /\ w.id \in Ids /\ w.kind \in Kinds /\ Good(w.loaded, activated)
      /\ w.kind \in Successes => w.id \in Sound
  BY <1>1, WriterHolds
<1>3. /\ r \in RuntimeState /\ Good(r, activated) /\ Pointers(r) \subseteq Pointers(w.loaded)
      /\ rolls => r.disabled = w.loaded.disabled \cup {w.id}
      /\ ~rolls => r.disabled = w.loaded.disabled
  BY <1>2, RecordedGood
<1>4. Noted(w) \in Worker /\ WorkerGood(Noted(w), activated)
  BY <1>1, <1>2, ProceedGood DEF IInv, WorkersGood
<1> HIDE DEF r, rolls
<1>5. Loaded' = r
  BY <1>1, <1>3, NoStateApart DEF Loaded
<1>6. TypeOK'
  <2>1. rolledBack' \subseteq Ids /\ overtaken' \in BOOLEAN
    BY <1>1, <1>2 DEF IInv, TypeOK
  <2>2. state' \in RuntimeState /\ ValidRuntimeState(state')
    BY <1>1, <1>3 DEF Good
  <2> QED
    BY <1>1, <1>4, <2>1, <2>2 DEF IInv, TypeOK, Set, world
<1>7. FileGood' /\ KeeperGood(keeper, slot, activated)'
  BY <1>1, <1>3, <1>5 DEF IInv, FileGood, world
<1>8. WorkersGood'
  BY <1>1, <1>4 DEF IInv, TypeOK, WorkersGood, Set
<1>9. Undisturbed'
  <2> SUFFICES ASSUME ~overtaken'
               PROVE  /\ Pointers(r) \subseteq Published(slot)
                      /\ rolledBack' \subseteq r.disabled
                      /\ keeper.op = "collect" => Pointers(r) \subseteq Pointers(keeper.loaded)
    BY <1>1, <1>5 DEF Undisturbed, world
  <2>1. ~overtaken /\ w.loaded = Loaded
    BY <1>1
  <2>2. /\ Pointers(Loaded) \subseteq Published(slot) /\ rolledBack \subseteq Loaded.disabled
        /\ keeper.op = "collect" => Pointers(Loaded) \subseteq Pointers(keeper.loaded)
    BY <2>1 DEF IInv, Undisturbed
  <2> QED
    BY <1>1, <1>3, <2>1, <2>2
<1> QED
  BY <1>6, <1>7, <1>8, <1>9 DEF IInv

LEMMA RecordIInv == ASSUME IInv, NEW s \in Studios, Record(s) PROVE IInv'
<1> DEFINE w == studio[s]
<1>1. w \in Worker /\ WorkerGood(w, activated) /\ mishaps \in 0..MaxMishaps
  BY DEF IInv, TypeOK, WorkersGood
<1>2. CASE LoadNote(s)
  <2>1. UNCHANGED <<state, world, keeper, mishaps, history>> /\ w.pc = "noting"
    BY <1>2 DEF LoadNote
  <2>2. CASE Set(s, Proceed(w)) \/ Set(s, Noted(w))
    BY <1>1, <2>1, <2>2, ProceedGood, WorkerStep DEF history
  <2>3. CASE Reportable(w) /\ Set(s, [w EXCEPT !.pc = "writing", !.loaded = state])
    <3> DEFINE v == [w EXCEPT !.pc = "writing", !.loaded = state]
    <3>1. state \in RuntimeState /\ state.active = w.id /\ Good(state, activated)
      BY <2>3 DEF IInv, TypeOK, FileGood, Loaded, Reportable
    <3>2. /\ v \in Worker /\ v.pc = "writing" /\ v.loaded = state /\ v.source = w.source
          /\ v.id = w.id /\ v.kind = w.kind
      BY <1>1, <3>1 DEF Worker
    <3> HIDE DEF v
    <3>3. WorkerGood(v, activated)
      BY <1>1, <2>1, <3>1, <3>2 DEF WorkerGood
    <3> QED
      BY <1>1, <2>1, <2>3, <3>2, <3>3, WorkerStep DEF v, history
  <2> QED
    BY <1>2, <2>2, <2>3 DEF LoadNote
<1>3. CASE NoteFails(s)
  BY <1>1, <1>3, MishapTyped, ProceedGood, WorkerStep DEF NoteFails, IInv, history
<1> QED
  BY <1>2, <1>3, WriteNoteIInv DEF Record

(***************************************************************************)
(* The steps of the keeper and of the world.                               *)
(***************************************************************************)

\* The keeper goes on or stops, and the slots change, though not under what the
\* file names as long as no update was overtaken.
LEMMA KeeperStep ==
  ASSUME IInv,
         slot' \in [Ids -> {"absent", "empty", "whole", "damaged"}],
         staging' \subseteq Ids, closure' \in Closures, mishaps' \in 0..MaxMishaps,
         keeper' \in Keeper, KeeperGood(keeper', slot', activated),
         ~overtaken => Pointers(Loaded) \subseteq Published(slot'),
         \/ keeper'.op # "collect"
         \/ keeper'.loaded = Loaded
         \/ keeper.op = "collect" /\ keeper'.loaded = keeper.loaded,
         UNCHANGED <<state, studio, history>>
  PROVE  IInv'
<1>1. TypeOK'
  BY DEF IInv, TypeOK, history
<1>2. Loaded' = Loaded
  BY DEF Loaded
<1>3. FileGood' /\ WorkersGood'
  BY <1>2 DEF IInv, FileGood, WorkersGood, history
<1>4. KeeperGood(keeper, slot, activated)'
  BY DEF history
<1>5. Undisturbed'
  BY <1>2 DEF IInv, Undisturbed, history
<1> QED
  BY <1>1, <1>3, <1>4, <1>5 DEF IInv

\* What is collected is not named by the file while no update was overtaken.
LEMMA DoomedUnnamed ==
  ASSUME IInv, ~overtaken, keeper.op = "collect", NEW id \in Doomed
  PROVE  id \in Ids /\ id \notin Pointers(Loaded)
<1>1. id \in Ids /\ id \notin Pointers(keeper.loaded)
  BY DEF Doomed, Protected, Pointers
<1> QED
  BY <1>1 DEF IInv, Undisturbed

LEMMA PointIInv == ASSUME IInv, PointState PROVE IInv'
<1> DEFINE r == Activate(keeper.loaded, keeper.id)
<1>1. /\ keeper.op = "point" /\ state' = r /\ activated' = activated \cup {keeper.id}
      /\ overtaken' = (overtaken \/ keeper.loaded # Loaded) /\ keeper' = NoKeeper
      /\ UNCHANGED <<world, studio, mishaps, rolledBack>>
  BY DEF PointState, Overtakes
<1>2. /\ keeper.loaded \in RuntimeState /\ Good(keeper.loaded, activated)
      /\ keeper.id \in Ids /\ keeper.id \in Published(slot)
  BY <1>1 DEF IInv, KeeperGood, Activating
<1>3. /\ r \in RuntimeState /\ Good(r, activated')
      /\ Pointers(r) \subseteq Pointers(keeper.loaded) \cup {keeper.id}
      /\ r.disabled = keeper.loaded.disabled
  BY <1>1, <1>2, ActivateGood
<1> HIDE DEF r
<1>4. Loaded' = r
  BY <1>1, <1>3, NoStateApart DEF Loaded
<1>5. TypeOK'
  BY <1>1, <1>2, <1>3, IdleKeeper DEF IInv, TypeOK, world, Good
<1>6. FileGood' /\ KeeperGood(keeper, slot, activated)'
  BY <1>1, <1>3, <1>4, IdleKeeper DEF FileGood
<1>7. WorkersGood'
  BY <1>1, GoodStays DEF IInv, WorkersGood, WorkerGood
<1>8. Undisturbed'
  <2> SUFFICES ASSUME ~overtaken'
               PROVE  Pointers(r) \subseteq Published(slot) /\ rolledBack \subseteq r.disabled
    BY <1>1, <1>4, IdleKeeper DEF Undisturbed, world
  <2>1. /\ keeper.loaded = Loaded /\ Pointers(Loaded) \subseteq Published(slot)
        /\ rolledBack \subseteq Loaded.disabled
    BY <1>1 DEF IInv, Undisturbed
  <2> QED
    BY <1>2, <1>3, <2>1
<1> QED
  BY <1>5, <1>6, <1>7, <1>8 DEF IInv

LEMMA MaintainIInv == ASSUME IInv, Maintain PROVE IInv'
<1>t. /\ slot \in [Ids -> {"absent", "empty", "whole", "damaged"}] /\ keeper \in Keeper
      /\ staging \subseteq Ids /\ closure \in Closures /\ mishaps \in 0..MaxMishaps
  BY DEF IInv, TypeOK
<1>p. ~overtaken => Pointers(Loaded) \subseteq Published(slot)
  BY DEF IInv, Undisturbed
<1>k. KeeperGood(keeper, slot, activated)
  BY DEF IInv
<1>1. CASE CreateSlot
  <2>1. /\ keeper.op = "create" /\ keeper.id \in Ids /\ slot[keeper.id] = "absent"
        /\ slot' = [slot EXCEPT ![keeper.id] = "empty"]
    BY <1>1, <1>k DEF CreateSlot, KeeperGood, Activating
  <2>2. Published(slot) \subseteq Published(slot')
    BY <1>t, <2>1 DEF Published
  <2>3. /\ keeper' \in Keeper /\ keeper'.op = "publish" /\ keeper'.id = keeper.id
        /\ keeper'.loaded = keeper.loaded
    BY <1>1, <1>t DEF CreateSlot, Keeper
  <2>4. KeeperGood(keeper', slot', activated)
    BY <1>k, <2>1, <2>3 DEF KeeperGood, Activating
  <2>5. slot' \in [Ids -> {"absent", "empty", "whole", "damaged"}]
    BY <1>t, <2>1
  <2> QED
    BY <1>1, <1>t, <1>p, <2>2, <2>3, <2>4, <2>5, KeeperStep DEF CreateSlot
<1>2. CASE PublishSlot
  <2>1. /\ keeper.op = "publish" /\ keeper.id \in Ids
        /\ slot' = [slot EXCEPT ![keeper.id] = "whole"]
    BY <1>2, <1>k DEF PublishSlot, KeeperGood, Activating
  <2>2. Published(slot) \subseteq Published(slot') /\ keeper.id \in Published(slot')
    BY <1>t, <2>1 DEF Published
  <2>3. /\ keeper' \in Keeper /\ keeper'.op = "point" /\ keeper'.id = keeper.id
        /\ keeper'.loaded = keeper.loaded
    BY <1>2, <1>t DEF PublishSlot, Keeper
  <2>4. KeeperGood(keeper', slot', activated)
    BY <1>k, <2>1, <2>2, <2>3 DEF KeeperGood, Activating
  <2>5. slot' \in [Ids -> {"absent", "empty", "whole", "damaged"}] /\ staging' \subseteq Ids
    BY <1>2, <1>t, <2>1 DEF PublishSlot
  <2> QED
    BY <1>2, <1>t, <1>p, <2>2, <2>3, <2>4, <2>5, KeeperStep DEF PublishSlot
<1>3. CASE PointState
  BY <1>3, PointIInv
<1>4. CASE BeginCollection
  <2>1. Loaded \in RuntimeState /\ Good(Loaded, activated)
    BY LoadedTyped DEF IInv, FileGood
  <2>2. keeper' = [NoKeeper EXCEPT !.op = "collect", !.loaded = Loaded]
    BY <1>4 DEF BeginCollection
  <2>3. keeper' \in Keeper /\ keeper'.op = "collect" /\ keeper'.loaded = Loaded
    BY <2>1, <2>2 DEF NoKeeper, Keeper
  <2>4. /\ slot' = slot /\ staging' = staging /\ closure' = closure
        /\ mishaps' = mishaps /\ UNCHANGED <<state, studio, history>>
    BY <1>4 DEF BeginCollection, world
  <2>5. KeeperGood(keeper', slot', activated)
    BY <2>1, <2>3 DEF KeeperGood, Activating
  <2>6. ~overtaken => Pointers(Loaded) \subseteq Published(slot')
    BY <1>p, <2>4
  <2>7. /\ slot' \in [Ids -> {"absent", "empty", "whole", "damaged"}]
        /\ staging' \subseteq Ids /\ closure' \in Closures /\ mishaps' \in 0..MaxMishaps
        /\ UNCHANGED <<state, studio, history>>
    BY <1>t, <2>4
  <2>8. keeper' \in Keeper /\ keeper'.loaded = Loaded
    BY <2>3
  <2> QED
    BY <2>5, <2>6, <2>7, <2>8, KeeperStep
<1>5. CASE CollectSlot
  <2> PICK id \in Doomed : slot' = [slot EXCEPT ![id] = "absent"]
    BY <1>5 DEF CollectSlot
  <2>1. keeper.op = "collect" /\ keeper' = keeper
    BY <1>5 DEF CollectSlot
  <2>2. slot' \in [Ids -> {"absent", "empty", "whole", "damaged"}]
    BY <1>t DEF Doomed
  <2>3. ~overtaken => Pointers(Loaded) \subseteq Published(slot')
    BY <1>t, <1>p, <2>1, DoomedUnnamed DEF Published
  <2>4. KeeperGood(keeper', slot', activated)
    BY <1>k, <2>1 DEF KeeperGood, Activating
  <2> QED
    BY <1>5, <1>t, <2>1, <2>2, <2>3, <2>4, KeeperStep DEF CollectSlot
<1>6. CASE EndCollection
  BY <1>6, <1>t, <1>p, IdleKeeper, KeeperStep DEF EndCollection, world
<1> QED
  BY <1>1, <1>2, <1>3, <1>4, <1>5, <1>6 DEF Maintain

LEMMA InstallIInv == ASSUME IInv, NEW id \in Ids, Install(id) PROVE IInv'
<1>t. /\ slot \in [Ids -> {"absent", "empty", "whole", "damaged"}] /\ keeper \in Keeper
      /\ staging \subseteq Ids /\ closure \in Closures /\ mishaps \in 0..MaxMishaps
  BY DEF IInv, TypeOK
<1>p. ~overtaken => Pointers(Loaded) \subseteq Published(slot)
  BY DEF IInv, Undisturbed
<1>1. CASE Stage(id)
  <2>1. KeeperGood(keeper, slot, activated)
    BY DEF IInv
  <2> QED
    BY <1>1, <1>t, <1>p, <2>1, KeeperStep DEF Stage, KeeperBusy
<1>2. CASE BeginActivation(id)
  <2>1. Loaded \in RuntimeState /\ Good(Loaded, activated)
    BY LoadedTyped DEF IInv, FileGood
  <2>2. keeper' = [NoKeeper EXCEPT !.op = "create", !.id = id, !.loaded = Loaded]
    BY <1>2 DEF BeginActivation
  <2>3. /\ keeper' \in Keeper /\ keeper'.op = "create" /\ keeper'.id = id
        /\ keeper'.loaded = Loaded
    BY <2>1, <2>2 DEF NoKeeper, Keeper
  <2>4. KeeperGood(keeper', slot, activated)
    BY <1>2, <2>1, <2>3 DEF KeeperGood, Activating, BeginActivation
  <2> QED
    BY <1>2, <1>t, <1>p, <2>3, <2>4, KeeperStep DEF BeginActivation, world
<1> QED
  BY <1>1, <1>2 DEF Install

LEMMA WorldIInv == ASSUME IInv, World \/ (\E id \in Ids : DamageSlot(id)) PROVE IInv'
<1>t. /\ slot \in [Ids -> {"absent", "empty", "whole", "damaged"}] /\ keeper \in Keeper
      /\ staging \subseteq Ids /\ closure \in Closures /\ mishaps \in 0..MaxMishaps
  BY DEF IInv, TypeOK
<1>p. ~overtaken => Pointers(Loaded) \subseteq Published(slot)
  BY DEF IInv, Undisturbed
<1>k. KeeperGood(keeper, slot, activated)
  BY DEF IInv
<1>1. CASE KeeperDies
  <2>1. mishaps' \in 0..MaxMishaps
    BY <1>1, MishapTyped DEF KeeperDies, IInv
  <2>2. /\ slot' \in [Ids -> {"absent", "empty", "whole", "damaged"}]
        /\ ~overtaken => Pointers(Loaded) \subseteq Published(slot')
    <3>1. CASE UNCHANGED slot
      BY <1>t, <1>p, <3>1
    <3>2. CASE keeper.op = "collect" /\ \E id \in Doomed : slot' = [slot EXCEPT ![id] = "damaged"]
      <4> PICK id \in Doomed : slot' = [slot EXCEPT ![id] = "damaged"]
        BY <3>2
      <4> QED
        BY <1>t, <1>p, <3>2, DoomedUnnamed DEF Published, Doomed
    <3> QED
      BY <1>1, <3>1, <3>2 DEF KeeperDies
  <2> QED
    BY <1>1, <1>t, <2>1, <2>2, IdleKeeper, KeeperStep DEF KeeperDies
<1>2. CASE UpdateApplication
  <2>1. mishaps' \in 0..MaxMishaps
    BY <1>2, MishapTyped DEF UpdateApplication, IInv
  <2> QED
    BY <1>2, <1>t, <1>p, <1>k, <2>1, KeeperStep DEF UpdateApplication, KeeperBusy
<1>3. ASSUME NEW id \in Ids, DamageSlot(id) PROVE IInv'
  <2>1. /\ slot[id] = "whole" /\ slot' = [slot EXCEPT ![id] = "damaged"]
        /\ mishaps' \in 0..MaxMishaps
        /\ UNCHANGED <<state, staging, closure, studio, keeper, history>>
    BY <1>3, MishapTyped DEF DamageSlot, IInv
  <2>2. Published(slot') = Published(slot)
    BY <1>t, <2>1 DEF Published
  <2>3. KeeperGood(keeper', slot', activated)
    BY <1>t, <1>k, <2>1, <2>2 DEF KeeperGood, Activating
  <2> QED
    BY <1>t, <1>p, <2>1, <2>2, <2>3, KeeperStep
<1> QED
  BY <1>1, <1>2, <1>3 DEF World

LEMMA NextIInv == IInv /\ [Next]_vars => IInv'
<1> SUFFICES ASSUME IInv, [Next]_vars PROVE IInv'
  OBVIOUS
<1>1. ASSUME NEW s \in Studios, StudioDies(s) PROVE IInv'
  BY <1>1, MishapTyped, IdleWorker, WorkerStep DEF StudioDies, IInv, history
<1>2. CASE UNCHANGED vars
  <2>1. UNCHANGED <<state, slot, staging, closure, studio, keeper, mishaps, activated,
                    rolledBack, overtaken>>
    BY <1>2 DEF vars, world, history
  <2> QED
    BY <2>1 DEF IInv, TypeOK, WorkersGood, FileGood, Undisturbed, Loaded
<1> QED
  BY <1>1, <1>2, LaunchIInv, ServeIInv, RecordIInv, InstallIInv, MaintainIInv, WorldIInv DEF Next

THEOREM IInvHolds == Spec => []IInv
BY InitIInv, NextIInv, PTL DEF Spec

\* Every variable keeps its type, for any number of studios: the counters in
\* state.json stay below the thresholds of runtime.rs:1771, and the loader
\* accepts every record that is ever written (runtime.rs:2069).
THEOREM TypeCorrect == Spec => []TypeOK
<1>1. IInv => TypeOK
  BY DEF IInv
<1> QED
  BY <1>1, IInvHolds, PTL

\* For any number of studios that report while an installer or a collector is at
\* work: only an update that was overtaken leaves state.json with a pointer to a
\* slot that was not published or was removed.
THEOREM PointersPublished == Spec => []PointersArePublished
<1>1. IInv => PointersArePublished
  BY DEF IInv, Undisturbed, PointersArePublished, Pointers, Published, Loaded, TypeOK
<1> QED
  BY <1>1, IInvHolds, PTL

\* What state.json calls last known good was activated after its self-test and
\* its sidecar has come up, also when updates were overtaken.
THEOREM LastKnownGoodCameUp == Spec => []LastKnownGoodStarts
<1>1. IInv => LastKnownGoodStarts
  BY DEF IInv, FileGood, Good, LastKnownGoodStarts, Loaded, Pointers
<1> QED
  BY <1>1, IInvHolds, PTL

\* A worker that is starting discovers a runtime, dies, or is left alone.
LEMMA StartingStep ==
  ASSUME IInv, [Next]_vars, NEW s \in Studios, studio[s].pc = "starting"
  PROVE  studio'[s] = studio[s] \/ studio'[s] = Idle \/ Discover(s)
<1>w. studio \in [Studios -> Worker]
  BY DEF IInv, TypeOK
<1>1. ASSUME NEW t \in Studios, NEW w, Set(t, w), t # s PROVE studio'[s] = studio[s]
  BY <1>1, <1>w DEF Set
<1>2. ASSUME NEW t \in Studios, Launch(t) \/ Serve(t) \/ Record(t) \/ StudioDies(t)
      PROVE  studio'[s] = studio[s] \/ studio'[s] = Idle \/ Discover(s)
  <2>1. CASE t = s
    BY <1>2, <1>w, <2>1
    DEF Launch, Serve, Record, Spawn, LaunchSucceeds, LaunchFails, RequestHandled,
        RequestBreaks, Stop, LoadNote, WriteNote, NoteFails, StudioDies, Set
  <2>2. CASE t # s
    <3>1. \E w : Set(t, w)
      BY <1>2
      DEF Launch, Serve, Record, Spawn, Discover, LaunchSucceeds, LaunchFails, RequestHandled,
          RequestBreaks, Stop, LoadNote, WriteNote, NoteFails, StudioDies
    <3> QED
      BY <1>1, <2>2, <3>1
  <2> QED
    BY <2>1, <2>2
<1>3. CASE (\E id \in Ids : Install(id) \/ DamageSlot(id)) \/ Maintain \/ World \/ UNCHANGED vars
  BY <1>3 DEF Install, Stage, BeginActivation, DamageSlot, Maintain, CreateSlot, PublishSlot,
     PointState, BeginCollection, CollectSlot, EndCollection, World, KeeperDies, UpdateApplication, vars
<1> QED
  BY <1>2, <1>3 DEF Next

\* For any number of studios, and whatever crashes, failed writes and activations
\* lie between the two: only after an update was overtaken may a start of the
\* engine select a runtime that an automatic rollback has disabled.
THEOREM NoLoop == Spec => NoRollbackLoop
<1> DEFINE Step == \A s \in Studios : SelectsRolledBack(s) => overtaken
<1>1. IInv /\ [Next]_vars => [Step]_vars
  <2> SUFFICES ASSUME IInv, [Next]_vars, NEW s \in Studios, SelectsRolledBack(s), ~overtaken
               PROVE  FALSE
    OBVIOUS
  <2>1. /\ studio[s].pc = "starting" /\ studio'[s].source \in {"active", "rollback"}
        /\ studio'[s].id \in rolledBack
    BY DEF SelectsRolledBack
  <2>2. studio[s] \in Worker /\ studio[s].source = "none" /\ studio \in [Studios -> Worker]
    BY <2>1 DEF IInv, TypeOK, WorkersGood, WorkerGood
  <2>3. Discover(s)
    BY <2>1, <2>2, StartingStep DEF Idle
  <2>4. studio'[s].source = Discovered.source /\ studio'[s].id = Discovered.id
    BY <2>2, <2>3 DEF Discover, Set, Worker
  <2>5. Discovered.source \in {"active", "rollback"} => Discovered.id \notin Loaded.disabled
    BY DEF Discovered, Usable
  <2> QED
    BY <2>1, <2>4, <2>5 DEF IInv, Undisturbed
<1> QED
  BY <1>1, IInvHolds, PTL DEF Spec, NoRollbackLoop

(***************************************************************************)
(* The refinement of RuntimePointer: what a worker that writes and an      *)
(* installer have loaded is what the pointer was when they read it.        *)
(***************************************************************************)
ReadBy(w) == IF w.pc = "writing" THEN {PointerOf(w.loaded)} ELSE {}
Reads == [s \in Studios |-> ReadBy(studio[s])]
PlanOf(k) == IF Activating(k) THEN {PointerOf(k.loaded)} ELSE {}

\* A step of one worker changes what that worker holds.
LEMMA ReadsChange ==
  ASSUME IInv, NEW s \in Studios, NEW w, Set(s, w)
  PROVE  Reads' = [Reads EXCEPT ![s] = ReadBy(w)]
BY DEF IInv, TypeOK, Set, Reads

\* A worker that holds nothing after its step, and has not written, has given up.
LEMMA GivesUp ==
  ASSUME IInv, NEW s \in Studios, NEW w, Set(s, w), w.pc # "writing",
         UNCHANGED <<state, keeper, activated>>
  PROVE  Pointer!GiveUp(s)
<1>1. ReadBy(w) = {}
  BY DEF ReadBy
<1>2. Reads' = [Reads EXCEPT ![s] = {}]
  BY <1>1, ReadsChange
<1>3. PointerOf(Loaded)' = PointerOf(Loaded)
  BY DEF PointerOf, Loaded
<1> QED
  BY <1>2, <1>3 DEF Pointer!GiveUp, Pointer!Done, Reads, ReadBy

\* Nothing that the pointer is read from changes.
LEMMA Stutters ==
  ASSUME UNCHANGED <<state, studio, activated>>, PlanOf(keeper') = PlanOf(keeper)
  PROVE  UNCHANGED Pointer!vars
<1>1. PointerOf(Loaded)' = PointerOf(Loaded)
  BY DEF PointerOf, Loaded
<1> QED
  BY <1>1 DEF Pointer!vars, PlanOf, Activating

LEMMA LoadReads ==
  ASSUME IInv, NEW s \in Studios, LoadNote(s)
  PROVE  Pointer!Read(s) \/ Pointer!GiveUp(s)
<1> DEFINE w == studio[s]
<1>1. /\ w \in Worker /\ WorkerGood(w, activated) /\ w.pc = "noting"
      /\ UNCHANGED <<state, keeper, activated>>
  BY DEF IInv, TypeOK, WorkersGood, LoadNote, history
<1>2. CASE Set(s, Proceed(w)) \/ Set(s, Noted(w))
  BY <1>1, <1>2, GivesUp, ProceedGood
<1>3. CASE Reportable(w) /\ Set(s, [w EXCEPT !.pc = "writing", !.loaded = state])
  <2> DEFINE v == [w EXCEPT !.pc = "writing", !.loaded = state]
  <2>1. state \in RuntimeState /\ Loaded = state /\ state.active = w.id /\ w.id \in Ids
    BY <1>1, <1>3 DEF IInv, TypeOK, Loaded, Reportable, WorkerGood
  <2>2. v.pc = "writing" /\ v.loaded = state
    BY <1>1 DEF Worker
  <2> HIDE DEF v
  <2>3. ReadBy(v) = {PointerOf(Loaded)}
    BY <2>1, <2>2 DEF ReadBy
  <2>4. Reads' = [Reads EXCEPT ![s] = {PointerOf(Loaded)}]
    BY <1>3, <2>3, ReadsChange DEF v
  <2>5. PointerOf(Loaded).current # None /\ PointerOf(Loaded)' = PointerOf(Loaded)
    BY <1>1, <2>1 DEF PointerOf, Loaded
  <2> QED
    BY <1>1, <2>4, <2>5 DEF Pointer!Read, Reads, ReadBy
<1> QED
  BY <1>2, <1>3 DEF LoadNote

LEMMA WriteReports ==
  ASSUME IInv, NEW s \in Studios, WriteNote(s)
  PROVE  Pointer!Report(s) \/ Pointer!RollBack(s)
<1> DEFINE w == studio[s]
           r == Recorded(w.loaded, w.id, w.kind)
           rolls == ThresholdReached(w.loaded, w.id, w.kind)
<1>1. /\ w.pc = "writing" /\ state' = r
      /\ Set(s, Noted(w)) /\ UNCHANGED <<keeper, activated>>
  BY DEF WriteNote
<1>2. /\ w \in Worker /\ w.loaded \in RuntimeState /\ w.loaded.active = w.id
      /\ w.id \in Ids /\ w.kind \in Kinds /\ Good(w.loaded, activated)
      /\ w.kind \in Successes => w.id \in Sound
  BY <1>1, WriterHolds
<1>3. /\ r \in RuntimeState
      /\ rolls => /\ r.disabled = w.loaded.disabled \cup {w.id}
                  /\ r.active \in (Pointers(w.loaded) \ r.disabled) \cup {None}
      /\ ~rolls => r.disabled = w.loaded.disabled /\ r.active = w.loaded.active
  BY <1>2, RecordedGood
<1>4. Noted(w).pc # "writing"
  BY <1>1, <1>2, ProceedGood DEF IInv, WorkersGood
<1> HIDE DEF r, rolls
<1>5. Loaded' = r
  BY <1>1, <1>3, NoStateApart DEF Loaded
<1>6. Reads[s] = {PointerOf(w.loaded)}
  BY <1>1 DEF Reads, ReadBy
<1>7. Reads' = [Reads EXCEPT ![s] = {}]
  BY <1>1, <1>4, ReadsChange DEF ReadBy
<1>8. CASE ~rolls
  <2>1. PointerOf(Loaded)' = PointerOf(w.loaded)
    BY <1>3, <1>5, <1>8 DEF PointerOf
  <2> QED
    BY <1>1, <1>6, <1>7, <2>1 DEF Pointer!Report, Pointer!Done, Reads, ReadBy
<1>9. CASE rolls
  <2>1. /\ PointerOf(w.loaded).retired \cup {PointerOf(w.loaded).current} = r.disabled
        /\ PointerOf(Loaded)' = [current |-> r.active, retired |-> r.disabled]
    BY <1>2, <1>3, <1>5, <1>9 DEF PointerOf
  <2>2. r.active \in activated \cup {None} /\ r.active \notin r.disabled
    <3>1. r.disabled \subseteq Ids /\ None \notin Ids
      BY <1>3 DEF RuntimeState
    <3> QED
      BY <1>2, <1>3, <1>9, <3>1 DEF Good
  <2> QED
    BY <1>1, <1>6, <1>7, <2>1, <2>2 DEF Pointer!RollBack, Pointer!Done, Reads, ReadBy
<1> QED
  BY <1>8, <1>9

LEMMA PointInstalls == ASSUME IInv, PointState PROVE \E id \in Ids : Pointer!Install(id)
<1> DEFINE r == Activate(keeper.loaded, keeper.id)
<1>1. /\ keeper.op = "point" /\ state' = r /\ activated' = activated \cup {keeper.id}
      /\ keeper' = NoKeeper /\ studio' = studio
  BY DEF PointState
<1>2. /\ keeper.loaded \in RuntimeState /\ Good(keeper.loaded, activated)
      /\ keeper.id \in Ids /\ keeper.id \notin keeper.loaded.disabled
  BY <1>1 DEF IInv, KeeperGood, Activating
<1>3. r \in RuntimeState /\ r.active = keeper.id /\ r.disabled = keeper.loaded.disabled
  BY <1>2, ActivateGood
<1> HIDE DEF r
<1>4. Loaded' = r
  BY <1>1, <1>3, NoStateApart DEF Loaded
<1>5. PlanOf(keeper) = {PointerOf(keeper.loaded)} /\ PlanOf(keeper') = {}
  BY <1>1, IdleKeeper DEF PlanOf, Activating
<1>6. /\ PointerOf(Loaded)' = [PointerOf(keeper.loaded) EXCEPT !.current = keeper.id]
      /\ keeper.id \notin PointerOf(keeper.loaded).retired
  BY <1>2, <1>3, <1>4 DEF PointerOf
<1> QED
  BY <1>1, <1>2, <1>5, <1>6 DEF Pointer!Install, PlanOf, Activating

LEMMA WorkerRefines ==
  ASSUME IInv, NEW s \in Studios, Launch(s) \/ Serve(s) \/ Record(s) \/ StudioDies(s)
  PROVE  Pointer!Read(s) \/ Pointer!Report(s) \/ Pointer!RollBack(s) \/ Pointer!GiveUp(s)
<1> DEFINE w == studio[s]
<1>w. w \in Worker /\ WorkerGood(w, activated) /\ Idle.pc = "down"
  BY IdleWorker DEF IInv, TypeOK, WorkersGood
<1>n. \A kind : Note(w, kind).pc = "noting"
  BY <1>w DEF Note, Worker
<1>1. CASE Launch(s)
  <2>1. [Idle EXCEPT !.pc = "starting"].pc = "starting"
    BY DEF Idle
  <2>2. \A src, id : [w EXCEPT !.pc = "launching", !.source = src, !.id = id].pc = "launching"
    BY <1>w DEF Worker
  <2>3. [w EXCEPT !.pc = "serving"].pc = "serving"
    BY <1>w DEF Worker
  <2>4. \E v : Set(s, v) /\ v.pc # "writing"
    BY <1>1, <1>w, <1>n, <2>1, <2>2, <2>3 DEF Launch, Spawn, Discover, LaunchSucceeds, LaunchFails
  <2>5. UNCHANGED <<state, keeper, activated>>
    BY <1>1 DEF Launch, Spawn, Discover, LaunchSucceeds, LaunchFails, history
  <2> QED
    BY <2>4, <2>5, GivesUp
<1>2. CASE Serve(s) \/ StudioDies(s)
  <2>1. \E v : Set(s, v) /\ v.pc # "writing"
    BY <1>2, <1>w, <1>n DEF Serve, RequestHandled, RequestBreaks, Stop, StudioDies
  <2>2. UNCHANGED <<state, keeper, activated>>
    BY <1>2 DEF Serve, RequestHandled, RequestBreaks, Stop, StudioDies, history
  <2> QED
    BY <2>1, <2>2, GivesUp
<1>3. CASE NoteFails(s)
  BY <1>3, <1>w, ProceedGood, GivesUp DEF NoteFails, history
<1> QED
  BY <1>1, <1>2, <1>3, LoadReads, WriteReports DEF Record

LEMMA KeeperRefines ==
  ASSUME IInv, (\E id \in Ids : Install(id) \/ DamageSlot(id)) \/ Maintain \/ World
  PROVE  [Pointer!Next]_(Pointer!vars)
<1>k. keeper \in Keeper
  BY DEF IInv, TypeOK
<1>1. CASE PointState
  BY <1>1, PointInstalls DEF Pointer!Next
<1>2. ASSUME NEW id \in Ids, BeginActivation(id) PROVE Pointer!Plan
  <2>1. /\ keeper' = [NoKeeper EXCEPT !.op = "create", !.id = id, !.loaded = Loaded]
        /\ UNCHANGED <<state, studio, activated>>
    BY <1>2 DEF BeginActivation, history
  <2>2. keeper'.op = "create" /\ keeper'.loaded = Loaded
    BY <2>1 DEF NoKeeper
  <2>3. PlanOf(keeper') = {PointerOf(Loaded)} /\ PointerOf(Loaded)' = PointerOf(Loaded)
    BY <2>1, <2>2 DEF PlanOf, Activating, PointerOf, Loaded
  <2> QED
    BY <2>1, <2>3 DEF Pointer!Plan, PlanOf, Activating
<1>3. CASE CreateSlot \/ PublishSlot
  <2>1. /\ keeper.op \in {"create", "publish"} /\ keeper'.op \in {"publish", "point"}
        /\ keeper'.loaded = keeper.loaded /\ UNCHANGED <<state, studio, activated>>
    BY <1>3, <1>k DEF CreateSlot, PublishSlot, Keeper, history
  <2> QED
    BY <2>1, Stutters DEF PlanOf, Activating
<1>4. CASE BeginCollection \/ EndCollection \/ CollectSlot
  <2>1. [NoKeeper EXCEPT !.op = "collect", !.loaded = Loaded].op = "collect" /\ NoKeeper.op = "none"
    BY DEF NoKeeper
  <2>2. keeper.op \in {"none", "collect"} /\ keeper'.op \in {"none", "collect"}
    BY <1>4, <2>1 DEF BeginCollection, EndCollection, CollectSlot, KeeperBusy
  <2>3. UNCHANGED <<state, studio, activated>>
    BY <1>4 DEF BeginCollection, EndCollection, CollectSlot, history
  <2> QED
    BY <2>2, <2>3, Stutters DEF PlanOf, Activating
<1>5. CASE KeeperDies
  <2>1. PlanOf(keeper') = {} /\ UNCHANGED <<state, studio, activated>>
    BY <1>5, IdleKeeper DEF KeeperDies, PlanOf, Activating, history
  <2>2. PointerOf(Loaded)' = PointerOf(Loaded)
    BY <2>1 DEF PointerOf, Loaded
  <2> QED
    BY <2>1, <2>2 DEF Pointer!Next, Pointer!Abandon, PlanOf, Activating
<1>6. CASE (\E id \in Ids : Stage(id) \/ DamageSlot(id)) \/ UpdateApplication
  BY <1>6, Stutters DEF Stage, DamageSlot, UpdateApplication, history
<1> QED
  BY <1>1, <1>2, <1>3, <1>4, <1>5, <1>6 DEF Install, Maintain, World, Pointer!Next

\* For any number of studios beside an installer and a collector every behaviour
\* of the controller is one of RuntimePointer: each installation, rollback and
\* report is computed from the pointer its author has read, and nothing else moves it.
THEOREM Refines == Spec => ImplementsPointer
<1>1. Init => Pointer!Init
  BY DEF Init, Pointer!Init, Loaded, EmptyState, PointerOf, Idle, NoKeeper
<1>2. IInv /\ [Next]_vars => [Pointer!Next]_(Pointer!vars)
  <2> SUFFICES ASSUME IInv, [Next]_vars PROVE [Pointer!Next]_(Pointer!vars)
    OBVIOUS
  <2>1. CASE UNCHANGED vars
    BY <2>1, Stutters DEF vars, history
  <2>2. ASSUME NEW s \in Studios, Launch(s) \/ Serve(s) \/ Record(s) \/ StudioDies(s)
        PROVE  Pointer!Next
    BY <2>2, WorkerRefines DEF Pointer!Next
  <2> QED
    BY <2>1, <2>2, KeeperRefines DEF Next
<1> QED
  BY <1>1, <1>2, IInvHolds, PTL DEF Spec, ImplementsPointer, Pointer!Spec

=============================================================================
