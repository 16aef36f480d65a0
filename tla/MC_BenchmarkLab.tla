-------------------------- MODULE MC_BenchmarkLab --------------------------
(* Instances of the Benchmark Lab for TLC: two settings of the seed        *)
(* controls and one horizon; models are interchangeable.                   *)
EXTENDS BenchmarkLab, TLC

MCSeedLists == {<<1>>, <<1, 2>>}
MCHorizons == <<1>>
Symmetry == Permutations(Models)
=============================================================================
