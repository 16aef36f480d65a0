------------------------- MODULE OptimisticRegister -------------------------
(***************************************************************************)
(* What an atomic write promises to its callers: the file is a register    *)
(* that holds one complete value, and a write is an optimistic             *)
(* compare-and-swap.  The value is compared with what the caller allows,   *)
(* then replaced in one step.  The two are not one step, so a write may    *)
(* replace a value it does not allow, but only one that was stored after   *)
(* its comparison.                                                         *)
(***************************************************************************)
CONSTANTS Writer, Bytes, Absent

Content == Bytes \cup {Absent}

VARIABLES
    held,    \* the values the register may show after a power loss
    value,   \* the value it shows
    write,   \* per writer: idle, or the write in progress
    raced    \* per writer: has another one stored a value since its comparison?

register == <<held, value, write, raced>>

Idle == [stage |-> "idle"]
InProgress(stage, bytes, allowed) ==
    [stage |-> stage, bytes |-> bytes, allowed |-> allowed]

Init ==
    /\ value = Absent
    /\ held = {Absent}
    /\ write = [w \in Writer |-> Idle]
    /\ raced = [w \in Writer |-> FALSE]

Invoke(w, bytes, allowed) ==
    /\ write[w].stage = "idle"
    /\ write' = [write EXCEPT ![w] = InProgress("invoked", bytes, allowed)]
    /\ UNCHANGED <<held, value, raced>>

\* The value is allowed, or already what the writer wants.
Compare(w) ==
    /\ write[w].stage = "invoked"
    /\ \/ value = write[w].bytes
          /\ write' = [write EXCEPT ![w].stage = "stored"]
       \/ value # write[w].bytes /\ value \in write[w].allowed
          /\ write' = [write EXCEPT ![w].stage = "compared"]
    /\ UNCHANGED <<held, value, raced>>

Change(v, by) ==
    /\ value' = v
    /\ held' = held \cup {v}
    /\ raced' = [w \in Writer |-> raced[w] \/ (w # by /\ write[w].stage = "compared")]

Store(w) ==
    /\ write[w].stage = "compared"
    /\ value \in write[w].allowed \/ raced[w]
    /\ write' = [write EXCEPT ![w].stage = "stored"]
    /\ Change(write[w].bytes, w)

\* Success, a conflict, an I/O error or a crash: only a write that did not store
\* may report a conflict, but one that stored may also report an error.
Return(w) ==
    /\ write[w].stage # "idle"
    /\ write' = [write EXCEPT ![w] = Idle]
    /\ raced' = [raced EXCEPT ![w] = FALSE]
    /\ UNCHANGED <<held, value>>

\* Somebody deletes the file.
Erase ==
    /\ Change(Absent, Absent)
    /\ UNCHANGED write

\* The machine stops: every writer is gone and an older value may reappear.
PowerLoss ==
    /\ \E kept \in SUBSET held : held' = kept /\ value' \in kept
    /\ write' = [w \in Writer |-> Idle]
    /\ raced' = [w \in Writer |-> FALSE]

Next ==
    \/ \E w \in Writer :
          \/ \E bytes \in Bytes, allowed \in SUBSET Content : Invoke(w, bytes, allowed)
          \/ Compare(w) \/ Store(w) \/ Return(w)
    \/ Erase
    \/ PowerLoss

Spec == Init /\ [][Next]_register
=============================================================================
