----------------------------- MODULE AccessGate -----------------------------
(***************************************************************************)
(* The access gate of an official preview build (access.rs): a login is    *)
(* asked of the access service on a thread of its own, and its session     *)
(* opens the studio until the session expires. Credentials and the form    *)
(* are left out: a submission stands for a complete form. The service      *)
(* (not under the program's control) answers with any session the client's *)
(* own checks let through, or not at all within the timeout.               *)
(*                                                                         *)
(* The module has no specification of its own: Shell composes it with the  *)
(* studio it guards.                                                       *)
(***************************************************************************)
EXTENDS Naturals

CONSTANTS
    Required,     \* access_required(): the build is gated
    EndpointConfigured,  \* configured_endpoint() is good; fixed when the app is built
    MaxTime,      \* the clock runs over 0..MaxTime
    Lifetime      \* MAX_SESSION_LIFETIME_SECONDS

ASSUME GateAssumption ==
    Required \in BOOLEAN /\ EndpointConfigured \in BOOLEAN /\ MaxTime \in Nat /\ Lifetime \in Nat

VARIABLES
    gate,         \* GateState
    pending,      \* the login that is being checked and its answer
    clock         \* the wall clock, which may also be set back

gateVars == <<gate, pending, clock>>

Times == 0..MaxTime

\* unix_now().unwrap_or(u64::MAX): a clock before the epoch reads as never.
Never == MaxTime + Lifetime + 1
Readings == {clock, Never}

Ready == [state |-> "ready", expires |-> 0]
Checking == [state |-> "checking", expires |-> 0]
Failed == [state |-> "failed", expires |-> 0]
Granted(e) == [state |-> "granted", expires |-> e]

Idle == [step |-> "idle", expires |-> 0]
Asked == [step |-> "asked", expires |-> 0]
Refused == [step |-> "refused", expires |-> 0]
Session(e) == [step |-> "session", expires |-> e]

Expiries == 1..(MaxTime + Lifetime)

GateTypeOK ==
    /\ gate \in {Ready, Checking, Failed} \cup {Granted(e) : e \in Expiries}
    /\ pending \in {Idle, Asked, Refused} \cup {Session(e) : e \in Expiries}
    /\ clock \in Times

FreshGate == IF EndpointConfigured THEN Ready ELSE Failed

GateInit ==
    /\ gate = FreshGate
    /\ pending = Idle
    /\ clock = 0

IsGranted(g) == g.state = "granted"

\* Session::is_valid_at
ValidAt(e, now) == e > now

Answered == pending.step \in {"refused", "session"}

\* Takes an answer, if there is one, into the state of the gate.
Polled(g, now) ==
    IF ~Answered THEN g
    ELSE IF pending.step = "session" /\ ValidAt(pending.expires, now)
         THEN Granted(pending.expires)
         ELSE Failed

Taken == IF Answered THEN Idle ELSE pending

Expired(g, now) ==
    IF IsGranted(g) /\ ~ValidAt(g.expires, now) THEN Failed ELSE g

\* A complete form is submitted at the gate as poll_at left it.
Submit(g) ==
    /\ Taken = Idle
    /\ IF EndpointConfigured
       THEN gate' = Checking /\ pending' = Asked
       ELSE gate' = Failed /\ pending' = Idle

\* The checks of session_from_response that the model tells apart.
Acceptable(e, now) == e - now <= Lifetime /\ e > now

\* The thread of a login sends what authenticate returned.
Answer ==
    /\ pending = Asked
    /\ \/ pending' = Refused
       \/ \E e \in Expiries : Acceptable(e, clock) /\ pending' = Session(e)
    /\ UNCHANGED <<gate, clock>>

SetClock ==
    /\ clock' \in Times \ {clock}
    /\ UNCHANGED <<gate, pending>>

=============================================================================
