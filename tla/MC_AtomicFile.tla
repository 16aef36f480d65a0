--------------------------- MODULE MC_AtomicFile ---------------------------
(* Two interchangeable writers of one file.                                *)
EXTENDS AtomicFile, TLC

Symmetry == Permutations(Writer) \cup Permutations(Bytes)
=============================================================================
