--------------------------- MODULE RuntimePointer ---------------------------
(***************************************************************************)
(* What the managed-runtime controller promises of the runtime the studio  *)
(* runs (docs/PYTHON_RUNTIME_DISTRIBUTION.md:66-85): an installation puts  *)
(* one runtime in charge, an automatic rollback retires the runtime in     *)
(* charge and hands over to an earlier one or to the factory runtime of    *)
(* the application, and nothing else moves the pointer.                    *)
(*                                                                         *)
(* There is no lock: each of them acts on the pointer it has read, and     *)
(* what it writes replaces whatever was written in between.                *)
(***************************************************************************)
CONSTANTS
    Studios, \* those that report the health of the runtime in charge
    Ids,     \* identities of runtimes
    None     \* not one of them: the factory runtime is in charge

VARIABLES
    pointer,   \* the runtime in charge, None: the factory; the retired ones
    read,      \* per studio: what it has read and not yet answered, or nothing
    plan,      \* what the installer has read, or nothing
    installed  \* the runtimes that were ever put in charge

vars == <<pointer, read, plan, installed>>

Init ==
    /\ pointer = [current |-> None, retired |-> {}]
    /\ read = [s \in Studios |-> {}]
    /\ plan = {}
    /\ installed = {}

\* A studio reads the pointer in order to report; it has a runtime in charge.
Read(s) ==
    /\ pointer.current # None
    /\ read' = [read EXCEPT ![s] = {pointer}]
    /\ UNCHANGED <<pointer, plan, installed>>

Done(s) == read' = [read EXCEPT ![s] = {}]

\* A report that is counted leaves the pointer as its author has read it.
Report(s) ==
    /\ \E old \in read[s] : pointer' = old
    /\ Done(s)
    /\ UNCHANGED <<plan, installed>>

\* The runtime in charge is retired, and none that is retired takes over.
RollBack(s) ==
    /\ \E old \in read[s], next \in installed \cup {None} :
          LET retired == old.retired \cup {old.current}
          IN  /\ next \notin retired
              /\ pointer' = [current |-> next, retired |-> retired]
    /\ Done(s)
    /\ UNCHANGED <<plan, installed>>

\* A report that is lost.
GiveUp(s) == Done(s) /\ UNCHANGED <<pointer, plan, installed>>

Plan == plan' = {pointer} /\ UNCHANGED <<pointer, read, installed>>

Install(id) ==
    /\ \E old \in plan :
          /\ id \notin old.retired
          /\ pointer' = [old EXCEPT !.current = id]
    /\ installed' = installed \cup {id}
    /\ plan' = {}
    /\ UNCHANGED read

Abandon == plan' = {} /\ UNCHANGED <<pointer, read, installed>>

Next ==
    \/ \E s \in Studios : Read(s) \/ Report(s) \/ RollBack(s) \/ GiveUp(s)
    \/ \E id \in Ids : Install(id)
    \/ Plan \/ Abandon

Spec == Init /\ [][Next]_vars
=============================================================================
