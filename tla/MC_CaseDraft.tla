---------------------------- MODULE MC_CaseDraft ----------------------------
(* Two cases and one geometry, too close to the boundary as imported and too  *)
(* thin for the grid when pitched; one point without a unit; a model that an  *)
(* import takes and another, unsigned, that only the page offers.             *)
EXTENDS CaseDraft

MCOperating ==
    [p \in Points |-> [unit |-> IF p = FirstPoint THEN UnknownUnit ELSE "m",
                       reynolds |-> 100, horizon |-> 10]]
MCCard ==
    [m \in Models |-> [status |-> "clean", verified |-> m = "signed", dimension |-> 3,
                       grid |-> DiagnosticGrid, inputs |-> 4, outputs |-> 3,
                       scenario |-> "obstacle", steps |-> IF m = "signed" THEN 20 ELSE 5]]
MCMeasured ==
    [x \in Geometries \X Attitudes \X Grids |->
        [readable |-> TRUE, degenerate |-> 0, open |-> 0, branching |-> 0, flipped |-> 0,
         crossing |-> 0, shells |-> 1, finite |-> TRUE, solid |-> 9, classifier |-> 2,
         disagreement |-> 0, pieces |-> 1,
         across |-> IF x[2] = Level THEN 3 ELSE 2,
         clearance |-> IF x[2] = Level THEN 1 ELSE 2]]
=============================================================================
