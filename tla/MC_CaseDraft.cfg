SPECIFICATION FairSpec
CONSTANTS
    Cases = {c1, c2}
    Geometries = {g1}
    Attitudes = {"level", "pitched"}
    Level = "level"
    Points = {"unset", "metres"}
    FirstPoint = "unset"
    Units = {"m"}
    Operating <- MCOperating
    Models = {"signed", "dev"}
    Card <- MCCard
    NoModel = "none"
    DiagnosticGrid = 64
    Measured <- MCMeasured
    UnknownUnit = "?"
    HistoryLimit = 1
    MaxRevisions = 3
    MaxRuns = 1
    MaxRequests = 2
    MaxEdits = 3
    MaxMishaps = 1
INVARIANTS
    MaskMatchesContract
    CleanDraftIsRecorded
    RunsAreApproved
    IssuesAreWaived
PROPERTIES
    UndoLosesNothing
    OrientationSettles
CHECK_DEADLOCK FALSE
