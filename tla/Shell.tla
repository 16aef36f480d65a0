------------------------------- MODULE Shell -------------------------------
(***************************************************************************)
(* The window of the app (RootApp of access.rs): every frame polls the     *)
(* gate, lets a session expire, starts or drops the studio and draws one   *)
(* of the two. The studio is its settings here (SettingsStore); dropping   *)
(* it ends its memory, and the next start loads the file again.            *)
(*                                                                         *)
(* A frame is three steps of the one user-interface thread, between which  *)
(* the thread of a login, the clock, the disk and the outside may move.    *)
(***************************************************************************)
EXTENDS AccessGate, SettingsStore

VARIABLES
    phase,        \* "begin", "lifecycle" or "draw": where the frame stands
    reading       \* the clock as the frame read it

vars == <<gateVars, storeVars, phase, reading>>

TypeOK ==
    /\ GateTypeOK /\ StoreTypeOK
    /\ phase \in {"begin", "lifecycle", "draw"}
    /\ reading \in Times \cup {Never}

Init ==
    /\ GateInit /\ StoreInit
    /\ phase = "begin" /\ reading = 0

MayRun == ~Required \/ IsGranted(gate)

\* Mutant: only the answer is looked at, an old session goes on.
BeginFrameUnexpired ==
    /\ phase = "begin"
    /\ reading' \in Readings
    /\ gate' = Polled(gate, reading') /\ pending' = Taken
    /\ phase' = "lifecycle"
    /\ UNCHANGED <<clock, storeVars>>

\* poll_at and expire_if_needed, with one reading of the clock.
BeginFrame ==
    /\ phase = "begin"
    /\ reading' \in Readings
    /\ gate' = Expired(Polled(gate, reading'), reading') /\ pending' = Taken
    /\ phase' = "lifecycle"
    /\ UNCHANGED <<clock, storeVars>>

\* studio_lifecycle_action and what it asks for.
Lifecycle ==
    /\ phase = "lifecycle"
    /\ phase' = "draw"
    /\ \/ MayRun /\ ~Running /\ Load
       \/ ~MayRun /\ Running /\ Drop
       \/ MayRun = Running /\ UNCHANGED storeVars
    /\ UNCHANGED <<gateVars, reading>>

\* The studio is drawn and one of its handlers takes a step.
Use ==
    /\ phase = "draw" /\ Running
    /\ Handle
    /\ UNCHANGED <<gateVars, phase, reading>>

\* The gate is drawn: it polls again, with a reading of its own, and the
\* form may be submitted.
DrawGate ==
    /\ phase = "draw" /\ ~Running /\ Required
    /\ \/ \E now \in Readings : gate' = Polled(gate, now) /\ pending' = Taken
       \/ \E now \in Readings : Polled(gate, now).state # "checking" /\ Submit(Polled(gate, now))
    /\ phase' = "begin"
    /\ UNCHANGED <<clock, storeVars, reading>>

EndFrame ==
    /\ phase = "draw" /\ Running /\ task = NoTask
    /\ phase' = "begin"
    /\ UNCHANGED <<gateVars, storeVars, reading>>

Fresh == gate' = FreshGate /\ pending' = Idle /\ phase' = "begin"

Crash == CrashStore /\ Fresh /\ UNCHANGED <<clock, reading>>
PowerLoss == PowerLossStore /\ Fresh /\ UNCHANGED <<clock, reading>>

\* What goes on beside the user-interface thread.
Around ==
    /\ \/ (Answer \/ SetClock) /\ UNCHANGED storeVars
       \/ (Settle \/ ChangeFile) /\ UNCHANGED gateVars
    /\ UNCHANGED <<phase, reading>>

Next ==
    \/ BeginFrame \/ Lifecycle \/ Use \/ DrawGate \/ EndFrame
    \/ Crash \/ PowerLoss
    \/ Around

Spec == Init /\ [][Next]_vars

\* The studio, with its projects and its engine, is on the screen of a gated
\* build only while the gate holds a session that is valid at the time the
\* frame read, whenever the answer came and whatever the clock did.
StudioNeedsSession ==
    Required /\ phase = "draw" /\ Running
        => IsGranted(gate) /\ ValidAt(gate.expires, reading)

=============================================================================
