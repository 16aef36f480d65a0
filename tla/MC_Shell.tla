------------------------------ MODULE MC_Shell ------------------------------
(* The window, its gate and its settings for TLC: the keys are symmetric. *)
EXTENDS Shell, TLC

KeySymmetry == Permutations(Keys)
=============================================================================
