--------------------------- MODULE ManagedRuntime ---------------------------
(***************************************************************************)
(* The controller of the Python runtime the engine runs on (runtime.rs)    *)
(* with the engine worker that feeds it (engine.rs): staged candidates,    *)
(* their activation, discovery at every start of the engine, the health    *)
(* counters with the automatic rollback, and garbage collection of slots.  *)
(*                                                                         *)
(* All the parties share one file, state.json, and one directory of slots  *)
(* per user. Every update of the file is a load, a computation in memory   *)
(* and an atomic replacement (AtomicFile models that replacement): the     *)
(* load and the replacement are separate steps here, any party may die or  *)
(* be overtaken in between, and the code takes no lock. The worker of one  *)
(* studio is sequential; terminate() joins it before the next one is       *)
(* spawned. Nothing keeps a second studio from running.                    *)
(*                                                                         *)
(* Manifests, digests and the smoke protocol are abstracted to three facts *)
(* about a runtime: its slot is whole or not, its closure is the one the   *)
(* application expects or not, its sidecar starts or not.                  *)
(***************************************************************************)
EXTENDS Naturals

CONSTANTS
    Studios,      \* running instances of the program
    Ids,          \* identities of managed runtimes
    FactoryId,    \* identity of the runtime inside the application bundle
    None,         \* no runtime
    Closures,     \* digests of the engine and research files of an application
    ClosureOf,    \* the closure a runtime was built for: part of its identity
    Sound,        \* the runtimes whose sidecar starts once activated
    MaxMishaps    \* bound on crashes, failures, damage and application updates

ASSUME RuntimeAssumption ==
    /\ None \notin Ids
    /\ FactoryId # None
    /\ Sound \subseteq Ids
    /\ ClosureOf \in [Ids -> Closures]
    /\ MaxMishaps \in Nat

VARIABLES
    state,      \* contents of state.json, NoState: the file does not exist
    slot,       \* slots/<id>: absent, empty, whole or damaged
    staging,    \* runtimes extracted to staging/<id>
    closure,    \* closure of the installed application
    studio,     \* studio[s]: the engine worker of that instance
    keeper,     \* the installer or the garbage collector
    mishaps,    \* mishaps so far
    activated,  \* history: runtimes an activation has put into state.json
    rolledBack, \* history: runtimes an automatic rollback has disabled
    overtaken   \* history: an update replaced another that it had not read

world == <<slot, staging, closure>>
history == <<activated, rolledBack, overtaken>>
vars == <<state, world, studio, keeper, mishaps, history>>

MaybeId == Ids \cup {FactoryId, None}

RuntimeState ==
    [active : Ids \cup {None}, previous : Ids \cup {None}, factory : {FactoryId, None},
     lastKnownGood : Ids \cup {None}, selfTest : Ids \cup {None}, health : Ids \cup {None},
     startupFailures : 0..1, crashes : 0..2, disabled : SUBSET Ids]

NoState == [exists |-> FALSE]

Kinds == {"startup_success", "startup_failure", "request_success", "crash"}

(***************************************************************************)
(* Operations on the state record.                                         *)
(***************************************************************************)
EmptyState ==
    [active |-> None, previous |-> None, factory |-> None, lastKnownGood |-> None,
     selfTest |-> None, health |-> None, startupFailures |-> 0, crashes |-> 0, disabled |-> {}]

\* What the loader demands of the file beyond its types.
ValidRuntimeState(st) ==
    st.startupFailures > 0 \/ st.crashes > 0 => st.health # None

Loaded == IF state = NoState THEN EmptyState ELSE state

\* Mutant: the self-test of the candidate is enough to be last known good.
ActivateAsGood(st, id) ==
    [st EXCEPT !.previous = IF st.active = id THEN @ ELSE st.active,
               !.active = id, !.factory = FactoryId, !.selfTest = id,
               !.health = id, !.startupFailures = 0, !.crashes = 0, !.lastKnownGood = id]

Activate(st, id) ==
    [st EXCEPT !.previous = IF st.active = id THEN @ ELSE st.active,
               !.active = id, !.factory = FactoryId, !.selfTest = id,
               !.health = id, !.startupFailures = 0, !.crashes = 0]

Eligible(st, id) == id # None /\ id # st.active /\ id \notin st.disabled

RollbackTarget(st) ==
    IF Eligible(st, st.previous) THEN st.previous
    ELSE IF Eligible(st, st.lastKnownGood) THEN st.lastKnownGood
    ELSE IF Eligible(st, st.factory) THEN st.factory ELSE None

\* Mutant: the runtime that failed stays eligible.
RollBackOnly(st, id) ==
    LET target == RollbackTarget(st)
        managed == IF target = st.factory THEN None ELSE target
    IN  [st EXCEPT !.active = managed, !.previous = None, !.health = managed,
                   !.startupFailures = 0, !.crashes = 0]

RollBack(st, id) ==
    LET disabled == [st EXCEPT !.disabled = @ \cup {id}]
        target == RollbackTarget(disabled)
        managed == IF target = st.factory THEN None ELSE target
    IN  [disabled EXCEPT !.active = managed, !.previous = None, !.health = managed,
                         !.startupFailures = 0, !.crashes = 0]

StartupThreshold == 2
CrashThreshold == 3

\* Mutant: every start begins with fresh counters.
TendedAfresh(st, id) == [st EXCEPT !.health = id, !.startupFailures = 0, !.crashes = 0]

\* The counters of the runtime in use: those of another runtime are dropped.
Tended(st, id) ==
    IF st.health = id THEN st
    ELSE [st EXCEPT !.health = id, !.startupFailures = 0, !.crashes = 0]

ThresholdReached(st, id, kind) ==
    LET own == Tended(st, id)
    IN  \/ kind = "startup_failure" /\ own.startupFailures + 1 >= StartupThreshold
        \/ kind = "crash" /\ own.crashes + 1 >= CrashThreshold

RecordFailure(st, id, kind) ==
    LET own == Tended(st, id)
    IN  IF ThresholdReached(st, id, kind) THEN RollBack(own, id)
        ELSE IF kind = "crash" THEN [own EXCEPT !.crashes = @ + 1]
        ELSE [own EXCEPT !.startupFailures = @ + 1]

RecordStartupSuccess(st, id) == [st EXCEPT !.health = id, !.startupFailures = 0]

RecordRequestSuccess(st, id) ==
    [st EXCEPT !.health = id, !.startupFailures = 0, !.crashes = 0,
               !.lastKnownGood = IF st.selfTest = id THEN id ELSE @]

Recorded(st, id, kind) ==
    CASE kind = "startup_success" -> RecordStartupSuccess(st, id)
      [] kind = "request_success" -> RecordRequestSuccess(st, id)
      [] OTHER -> RecordFailure(st, id, kind)

(***************************************************************************)
(* Discovery: active, previous, last known good, then the factory runtime. *)
(***************************************************************************)
SlotExists(id) == slot[id] \in {"whole", "damaged"}

\* The manifest, part of the identity, names this host, these dependency
\* versions and the closure of this application.
ManifestMatches(id) == ClosureOf[id] = closure

\* Every payload file is there with its size and digest, and nothing else.
PayloadIntact(id) == slot[id] = "whole"

ValidRuntimeRoot(id) == SlotExists(id) /\ ManifestMatches(id) /\ PayloadIntact(id)

\* Mutant: a disabled runtime is tried when its files are in order.
UsableAnyway(st, id) == id # None /\ ValidRuntimeRoot(id)

Usable(st, id) == id # None /\ id \notin st.disabled /\ ValidRuntimeRoot(id)

\* The isolated import and version probe, then the READY line of the sidecar.
SidecarStarts(w) == w.source = "factory" \/ w.id \in Sound

Discovered ==
    LET st == Loaded
    IN  IF Usable(st, st.active) THEN [source |-> "active", id |-> st.active]
        ELSE IF Usable(st, st.previous) THEN [source |-> "rollback", id |-> st.previous]
        ELSE IF Usable(st, st.lastKnownGood)
             THEN [source |-> "rollback", id |-> st.lastKnownGood]
        ELSE [source |-> "factory", id |-> FactoryId]

(***************************************************************************)
(* The engine worker of a studio.                                          *)
(***************************************************************************)
Idle == [pc |-> "down", source |-> "none", id |-> None, kind |-> "none",
         recordedSuccess |-> FALSE, loaded |-> NoState]

NoKeeper == [op |-> "none", id |-> None, loaded |-> NoState]

Init ==
    /\ state = NoState
    /\ slot = [id \in Ids |-> "absent"]
    /\ staging = {}
    /\ closure \in Closures
    /\ studio = [s \in Studios |-> Idle]
    /\ keeper = NoKeeper
    /\ mishaps = 0
    /\ activated = {} /\ rolledBack = {} /\ overtaken = FALSE

Set(s, w) == studio' = [studio EXCEPT ![s] = w]

Mishap == mishaps < MaxMishaps /\ mishaps' = mishaps + 1

Managed(w) == w.source = "active"       \* only then there is a health context

\* EngineHandle::spawn_with_config, at start and by every restart.
Spawn(s) ==
    /\ studio[s].pc = "down"
    /\ Set(s, [Idle EXCEPT !.pc = "starting"])
    /\ UNCHANGED <<state, world, keeper, mishaps, history>>

Discover(s) ==
    /\ studio[s].pc = "starting"
    /\ Set(s, [studio[s] EXCEPT !.pc = "launching", !.source = Discovered.source,
                                !.id = Discovered.id])
    /\ UNCHANGED <<state, world, keeper, mishaps, history>>

Note(w, kind) == [w EXCEPT !.pc = "noting", !.kind = kind]

\* Smoke test, READY line and connection.
LaunchSucceeds(s) ==
    LET w == studio[s]
    IN  /\ w.pc = "launching"
        /\ SidecarStarts(w)
        /\ Set(s, IF Managed(w) THEN Note(w, "startup_success") ELSE [w EXCEPT !.pc = "serving"])
        /\ UNCHANGED <<state, world, keeper, mishaps, history>>

LaunchFails(s) ==
    LET w == studio[s]
    IN  /\ w.pc = "launching"
        /\ \/ ~SidecarStarts(w) /\ UNCHANGED mishaps
           \/ Mishap
        /\ Set(s, IF Managed(w) THEN Note(w, "startup_failure") ELSE Idle)
        /\ UNCHANGED <<state, world, keeper, history>>

\* A command was handled without an I/O error, and this worker has recorded no
\* success yet; later ones change nothing. It is a success for the runtime also when
\* the sidecar answered that it did not carry the command out, or was not asked: a
\* bundle without a signature the worker refuses itself.
RequestHandled(s) ==
    LET w == studio[s]
    IN  /\ w.pc = "serving"
        /\ Managed(w) /\ ~w.recordedSuccess
        /\ Set(s, Note(w, "request_success"))
        /\ UNCHANGED <<state, world, keeper, mishaps, history>>

\* A request ends in an I/O error: the sidecar died, the ten-minute timeout
\* passed, or terminate() shut the stream under it.
RequestBreaks(s) ==
    LET w == studio[s]
    IN  /\ w.pc = "serving"
        /\ Mishap
        /\ Set(s, IF Managed(w) THEN Note(w, "crash") ELSE Idle)
        /\ UNCHANGED <<state, world, keeper, history>>

\* terminate() between two requests: the worker leaves its loop.
Stop(s) ==
    /\ studio[s].pc = "serving"
    /\ Mishap
    /\ Set(s, Idle)
    /\ UNCHANGED <<state, world, keeper, history>>

Proceed(w) ==
    IF w.kind \in {"startup_success", "request_success"}
    THEN [w EXCEPT !.pc = "serving", !.kind = "none", !.loaded = NoState]
    ELSE Idle

\* The record_runtime_ function has returned Ok.
Noted(w) == [Proceed(w) EXCEPT !.recordedSuccess = @ \/ w.kind = "request_success"]

\* The runtime the report is about is still the active one.
Reportable(w) == state # NoState /\ state.active = w.id

\* First half of the four record_runtime_ functions: the state is read; a report
\* about another runtime is dropped, one that changes nothing is not written.
LoadNote(s) ==
    LET w == studio[s]
    IN  /\ w.pc = "noting"
        /\ \/ /\ ~Reportable(w)
              /\ Set(s, Proceed(w))
           \/ /\ Reportable(w) /\ Recorded(state, w.id, w.kind) = state
              /\ Set(s, Noted(w))
           \/ /\ Reportable(w) /\ Recorded(state, w.id, w.kind) # state
              /\ Set(s, [w EXCEPT !.pc = "writing", !.loaded = state])
        /\ UNCHANGED <<state, world, keeper, mishaps, history>>

\* A record computed from what was read replaces what the file holds now.
Overtakes(loaded) == overtaken' = (overtaken \/ loaded # Loaded)

\* Second half: the record computed from what was read replaces the file.
WriteNote(s) ==
    LET w == studio[s]
        rolls == ThresholdReached(w.loaded, w.id, w.kind)
    IN  /\ w.pc = "writing"
        /\ state' = Recorded(w.loaded, w.id, w.kind)
        /\ rolledBack' = IF rolls THEN rolledBack \cup {w.id} ELSE rolledBack
        /\ Overtakes(w.loaded)
        /\ Set(s, Noted(w))
        /\ UNCHANGED <<world, keeper, mishaps, activated>>

\* The read or the write fails; every caller in engine.rs ignores the error.
NoteFails(s) ==
    /\ studio[s].pc \in {"noting", "writing"}
    /\ Mishap
    /\ Set(s, Proceed(studio[s]))
    /\ UNCHANGED <<state, world, keeper, history>>

StudioDies(s) ==
    /\ studio[s].pc # "down"
    /\ Mishap
    /\ Set(s, Idle)
    /\ UNCHANGED <<state, world, keeper, history>>

(***************************************************************************)
(* The installer: extraction of a candidate (outside this code), then      *)
(* activate_validated_candidate in four steps, and the garbage collector.  *)
(***************************************************************************)
\* One maintenance operation runs at a time: the installer that will call these
\* functions is to bring a lock of its own (docs/PYTHON_RUNTIME_DISTRIBUTION.md:
\* 108-111). Nothing keeps it from overlapping a studio that records its health.
KeeperBusy == keeper.op # "none"

Stage(id) ==
    /\ ~KeeperBusy
    /\ id \notin staging
    /\ staging' = staging \cup {id}
    /\ UNCHANGED <<state, slot, closure, studio, keeper, mishaps, history>>

\* A candidate is validated and passes its self-test before it is activated;
\* that its sidecar starts in production does not follow.
StagedCandidateValid(id) == id \in staging /\ ManifestMatches(id)

\* The checks of the activation and the next state, computed in memory.
BeginActivation(id) ==
    /\ ~KeeperBusy
    /\ StagedCandidateValid(id)
    /\ id \notin Loaded.disabled
    /\ slot[id] = "absent"
    /\ keeper' = [NoKeeper EXCEPT !.op = "create", !.id = id, !.loaded = Loaded]
    /\ UNCHANGED <<state, world, studio, mishaps, history>>

CreateSlot ==
    /\ keeper.op = "create"
    /\ slot' = [slot EXCEPT ![keeper.id] = "empty"]
    /\ keeper' = [keeper EXCEPT !.op = "publish"]
    /\ UNCHANGED <<state, staging, closure, studio, mishaps, history>>

PublishSlot ==
    /\ keeper.op = "publish"
    /\ slot' = [slot EXCEPT ![keeper.id] = "whole"]
    /\ staging' = staging \ {keeper.id}
    /\ keeper' = [keeper EXCEPT !.op = "point"]
    /\ UNCHANGED <<state, closure, studio, mishaps, history>>

PointState ==
    /\ keeper.op = "point"
    /\ state' = Activate(keeper.loaded, keeper.id)
    /\ activated' = activated \cup {keeper.id}
    /\ Overtakes(keeper.loaded)
    /\ keeper' = NoKeeper
    /\ UNCHANGED <<world, studio, mishaps, rolledBack>>

\* Mutant: only the runtimes of the latest switch are kept.
ProtectedRecent(st) == {st.active, st.previous, st.factory}

Protected(st) == {st.active, st.previous, st.lastKnownGood, st.factory}

Doomed == {id \in Ids : slot[id] # "absent" /\ id \notin Protected(keeper.loaded)}

BeginCollection ==
    /\ ~KeeperBusy
    /\ keeper' = [NoKeeper EXCEPT !.op = "collect", !.loaded = Loaded]
    /\ UNCHANGED <<state, world, studio, mishaps, history>>

CollectSlot ==
    /\ keeper.op = "collect"
    /\ \E id \in Doomed : slot' = [slot EXCEPT ![id] = "absent"]
    /\ UNCHANGED <<state, staging, closure, studio, keeper, mishaps, history>>

EndCollection ==
    /\ keeper.op = "collect"
    /\ Doomed = {}
    /\ keeper' = NoKeeper
    /\ UNCHANGED <<state, world, studio, mishaps, history>>

\* An error or a crash at any point of either operation; a slot whose removal
\* was begun stays behind in part.
KeeperDies ==
    /\ KeeperBusy
    /\ Mishap
    /\ keeper' = NoKeeper
    /\ \/ UNCHANGED slot
       \/ /\ keeper.op = "collect"
          /\ \E id \in Doomed : slot' = [slot EXCEPT ![id] = "damaged"]
    /\ UNCHANGED <<state, staging, closure, studio, history>>

\* The file system loses or changes files of a slot.
DamageSlot(id) ==
    /\ slot[id] = "whole"
    /\ Mishap
    /\ slot' = [slot EXCEPT ![id] = "damaged"]
    /\ UNCHANGED <<state, staging, closure, studio, keeper, history>>

\* Another version of the application is installed: it brings its own factory
\* runtime and expects its own closure of the managed ones.
UpdateApplication ==
    /\ \A s \in Studios : studio[s].pc = "down"
    /\ ~KeeperBusy
    /\ Mishap
    /\ closure' \in Closures \ {closure}
    /\ UNCHANGED <<state, slot, staging, studio, keeper, history>>

Launch(s) == Spawn(s) \/ Discover(s) \/ LaunchSucceeds(s) \/ LaunchFails(s)
Serve(s) == RequestHandled(s) \/ RequestBreaks(s) \/ Stop(s)
Record(s) == LoadNote(s) \/ WriteNote(s) \/ NoteFails(s)
Install(id) == Stage(id) \/ BeginActivation(id)
Maintain ==
    \/ CreateSlot \/ PublishSlot \/ PointState
    \/ BeginCollection \/ CollectSlot \/ EndCollection
World == KeeperDies \/ UpdateApplication

Next ==
    \/ \E s \in Studios : Launch(s) \/ Serve(s) \/ Record(s) \/ StudioDies(s)
    \/ \E id \in Ids : Install(id) \/ DamageSlot(id)
    \/ Maintain
    \/ World

\* The worker thread runs on; the operator restarts an engine that is down and
\* a maintenance operation that was begun is finished or dies.
Fairness ==
    /\ \A s \in Studios : /\ WF_vars(Launch(s))
                          /\ WF_vars(LoadNote(s) \/ WriteNote(s) \/ NoteFails(s))
    /\ WF_vars(CreateSlot \/ PublishSlot \/ PointState \/ CollectSlot \/ EndCollection)

Spec == Init /\ [][Next]_vars
FairSpec == Spec /\ Fairness

(***************************************************************************)
(* Properties.                                                             *)
(***************************************************************************)
Worker ==
    [pc : {"down", "starting", "launching", "serving", "noting", "writing"},
     source : {"none", "active", "rollback", "factory"}, id : MaybeId,
     kind : Kinds \cup {"none"}, recordedSuccess : BOOLEAN, loaded : RuntimeState \cup {NoState}]

Keeper ==
    [op : {"none", "create", "publish", "point", "collect"}, id : Ids \cup {None},
     loaded : RuntimeState \cup {NoState}]

\* Every variable keeps its type; in particular the counters in the file stay
\* below the thresholds of RuntimeHealthFailureKind (runtime.rs:1771), and the
\* loader accepts the file (runtime.rs:2069).
TypeOK ==
    /\ state \in RuntimeState \cup {NoState}
    /\ state # NoState => ValidRuntimeState(state)
    /\ slot \in [Ids -> {"absent", "empty", "whole", "damaged"}]
    /\ staging \subseteq Ids
    /\ closure \in Closures
    /\ studio \in [Studios -> Worker]
    /\ keeper \in Keeper
    /\ mishaps \in 0..MaxMishaps
    /\ activated \subseteq Ids /\ rolledBack \subseteq Ids
    /\ overtaken \in BOOLEAN

\* Whatever crashes where, and whatever a studio records while a collection or
\* an activation runs: as long as no update was overtaken, state.json never names
\* a runtime whose slot was not published completely or has been collected (the
\* order of publication and pointer in activate_validated_candidate, the
\* protection in garbage_collect, which reads the state once).
PointersArePublished ==
    state # NoState /\ ~overtaken =>
        \A id \in {state.active, state.previous, state.lastKnownGood} \ {None} :
            slot[id] \in {"whole", "damaged"}

\* What a rollback falls back on: a runtime is last known good only if it was
\* activated after its self-test and its sidecar has come up in production.
LastKnownGoodStarts ==
    state # NoState => state.lastKnownGood \in (activated \cap Sound) \cup {None}

\* No start of the engine after an automatic rollback selects the runtime that
\* was rolled back, neither as active nor as a fallback (runtime.rs:540), as long
\* as no update was overtaken by one that had not read it.
SelectsRolledBack(s) ==
    /\ studio[s].pc = "starting" /\ studio'[s].source \in {"active", "rollback"}
    /\ studio'[s].id \in rolledBack
NoRollbackLoop == [][\A s \in Studios : SelectsRolledBack(s) => overtaken]_vars

\* "Rolled-back runtime IDs are disabled and cannot re-enter active/previous/
\* last-known-good discovery" (PYTHON_RUNTIME_DISTRIBUTION.md:80-82).
RolledBackStaysOut == [][\A s \in Studios : ~SelectsRolledBack(s)]_vars

PointerOf(st) == [current |-> st.active, retired |-> st.disabled]

Pointer == INSTANCE RuntimePointer WITH
    pointer <- PointerOf(Loaded),
    read <- [s \in Studios |-> IF studio[s].pc = "writing"
                               THEN {PointerOf(studio[s].loaded)} ELSE {}],
    plan <- IF keeper.op \in {"create", "publish", "point"}
            THEN {PointerOf(keeper.loaded)} ELSE {},
    installed <- activated

\* Through every interleaving of studios, installer and collector and every
\* crash between their steps the controller moves its pointer only by an
\* installation, a rollback or a report, each computed from the pointer that its
\* author has read.
ImplementsPointer == Pointer!Spec

\* With one studio, and while discovery does not settle on a fallback that cannot
\* start - a start that fails there is not counted, engine.rs:927 - an operator who
\* keeps restarting the engine gets one that serves: the failures of the runtime in
\* charge are counted, it is rolled back, and in the end the factory runs.
FallbackCanStart == Discovered.source = "rollback" => Discovered.id \in Sound
EngineComesUp ==
    <>[]FallbackCanStart => \A s \in Studios : []<>(studio[s].pc = "serving")
=============================================================================
