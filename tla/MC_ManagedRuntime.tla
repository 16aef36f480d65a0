------------------------- MODULE MC_ManagedRuntime -------------------------
(* Three runtimes for two versions of the application: a and b of the first, *)
(* c of the second; the sidecar of b does not start. Two runtimes, a and b,  *)
(* where two studios share them.                                             *)
EXTENDS ManagedRuntime, TLC
MCIds == {"a", "b", "c"}
MCSound == {"a", "c"}
MCClosureOf == [id \in MCIds |-> IF id = "c" THEN 2 ELSE 1]

TwoIds == {"a", "b"}
TwoSound == {"a"}
TwoClosureOf == [id \in TwoIds |-> 1]
AnyStudio == Permutations(Studios)
=============================================================================
