------------------------ MODULE MC_ProjectLifecycle ------------------------
(* Two interchangeable sessions of the program on one machine.             *)
EXTENDS ProjectLifecycle, TLC

Symmetry == Permutations(Session) \cup Permutations(Project)
              \cup Permutations(Path) \cup Permutations(Edit)
=============================================================================
