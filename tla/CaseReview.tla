----------------------------- MODULE CaseReview -----------------------------
(***************************************************************************)
(* What stands between the draft of an external-flow case and a run: the   *)
(* findings of the geometry preflight and the waivers that answer them, the *)
(* envelope of the operating point and the contract of the model           *)
(* (engineering.rs), and the models that an import or the model list of    *)
(* the page may put into a case (app.rs).                                  *)
(*                                                                         *)
(* A contract c has a geometry, an attitude, a grid, a point, an approval, *)
(* waivers and a model. Numbers that nothing compares are left out, and a  *)
(* waiver is its code without the rationale.                               *)
(***************************************************************************)
EXTENDS Naturals

CONSTANTS
    Geometries,    \* imported geometry files, by digest
    Attitudes,     \* body orientations
    Level,         \* the attitude of an import
    Points,        \* operating points
    FirstPoint,    \* that of an import, its length unit unknown
    Operating,     \* the unit, Reynolds number and horizon of a point
    Units,         \* length units
    UnknownUnit,   \* not declared yet
    Models,        \* the bundles that the library lists, sooner or later
    Card,          \* and the card of each
    NoModel,       \* a case imported without a compatible model
    DiagnosticGrid,\* DIAGNOSTIC_PREFLIGHT_GRID, the grid of such a case
    Measured       \* the preflight of a geometry at an attitude on a grid

Codes ==
    {"source", "degenerate_triangles", "open_boundary", "non_manifold", "inconsistent_winding",
     "self_intersection", "disconnected_shells", "transform", "empty", "classification_stale",
     "axis_disagreement", "disconnected_components", "under_resolved", "boundary_clearance"}

Grids == {DiagnosticGrid} \cup {Card[m].grid : m \in Models}
Preflight ==
    [readable : BOOLEAN, degenerate : Nat, open : Nat, branching : Nat, flipped : Nat,
     crossing : Nat, shells : Nat, finite : BOOLEAN, solid : Nat, classifier : Nat,
     disagreement : Nat, pieces : Nat, across : Nat, clearance : Nat]

ASSUME ReviewAssumption ==
    /\ Level \in Attitudes
    /\ FirstPoint \in Points
    /\ Operating \in [Points -> [unit : Units \cup {UnknownUnit}, reynolds : Nat, horizon : Nat]]
    /\ NoModel \notin Models
    /\ Card \in [Models -> [status : STRING, verified : BOOLEAN, dimension : Nat, grid : Nat,
                            inputs : Nat, outputs : Nat, scenario : STRING, steps : Nat]]
    /\ Measured \in [Geometries \X Attitudes \X Grids -> Preflight]

UnitOf(p) == Operating[p].unit

\* An import builds the mask on the grid of its model.
ImportGrid(m) == IF m = NoModel THEN DiagnosticGrid ELSE Card[m].grid

PreflightOf(c) == Measured[<<c.geometry, c.attitude, c.grid>>]

(***************************************************************************)
(* Findings and waivers.                                                   *)
(***************************************************************************)
\* A percentage above two is a disagreement (MAX_AXIS_DISAGREEMENT_FRACTION).
Findings(p) ==
    [source                  |-> ~p.readable,
     degenerate_triangles    |-> p.degenerate > 0,
     open_boundary           |-> p.open > 0,
     non_manifold            |-> p.branching > 0,
     inconsistent_winding    |-> p.flipped > 0,
     self_intersection       |-> p.crossing > 0,
     disconnected_shells     |-> p.shells > 1,
     transform               |-> ~p.finite,
     empty                   |-> p.solid = 0,
     classification_stale    |-> p.classifier < 2,
     axis_disagreement       |-> p.disagreement > 2,
     disconnected_components |-> p.pieces > 1,
     under_resolved          |-> p.across < 3,
     boundary_clearance      |-> p.clearance < 2]

\* support_issues, without the approval that it asks for too.
SupportIssues(c) ==
    LET found == Findings(PreflightOf(c)) IN {code \in Codes : found[code]}

Waivable ==
    {"degenerate_triangles", "disconnected_components", "under_resolved", "boundary_clearance"}

\* record_waiver
MayWaive(c, code) == code \in SupportIssues(c) \cap Waivable

\* Mutant: a waiver answers every finding that can be waived.
AnyWaiverCovers(c, code) == code \in Waivable /\ c.waivers # {}

WaiverCovers(c, code) == code \in Waivable /\ code \in c.waivers

BlockingIssues(c) == {code \in SupportIssues(c) : ~WaiverCovers(c, code)}

(***************************************************************************)
(* The operating point and the model.                                      *)
(***************************************************************************)
Steps(m) == IF m = NoModel THEN 0 ELSE Card[m].steps

\* OperatingPoint::validation.  Without a unit there is no Reynolds number,
\* and without a model no horizon to compare with.
OperatingPointFits(p, m) ==
    LET o == Operating[p]
    IN  /\ o.unit # UnknownUnit
        /\ o.reynolds \in 60 .. 400
        /\ Steps(m) > 0 => o.horizon \in 1 .. Steps(m)

\* ModelSupport::validation
ModelFits(m, grid) ==
    /\ m # NoModel
    /\ Card[m].grid = grid
    /\ Card[m].status \notin {"unavailable", "invalid", ""}
    /\ Card[m].dimension = 3
    /\ Card[m].outputs = 3 /\ Card[m].inputs > 3
    /\ Card[m].scenario = "obstacle"
    /\ Card[m].steps > 0

\* readiness_issues
Ready(c) ==
    /\ BlockingIssues(c) = {}
    /\ c.approved
    /\ OperatingPointFits(c.point, c.model)
    /\ ModelFits(c.model, c.grid)

(***************************************************************************)
(* Which model a case gets.                                                *)
(***************************************************************************)
\* An import asks for an authenticated bundle and takes any scenario.
Importable ==
    {m \in Models : /\ Card[m].status # "invalid" /\ Card[m].verified
                    /\ Card[m].dimension = 3 /\ Card[m].inputs > Card[m].outputs
                    /\ Card[m].grid > 0}

Chosen == IF Importable = {} THEN {NoModel} ELSE Importable

\* The model list of the page asks for the scenario and the grid of the mask,
\* and takes any bundle, whatever its state and its signature.
Selectable(c) ==
    {m \in Models : /\ Card[m].dimension = 3 /\ Card[m].grid = c.grid
                    /\ Card[m].inputs > Card[m].outputs /\ Card[m].outputs = 3
                    /\ Card[m].scenario = "obstacle"}
=============================================================================
