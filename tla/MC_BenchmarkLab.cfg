SPECIFICATION Spec
CONSTANTS
  Models = {a, b}
  Digests = {d1}
  SeedLists <- MCSeedLists
  Horizons <- MCHorizons
  MaxRevisions = 2
  MaxRuns = 2
  MaxCells = 1
  MaxReports = 1
  MaxQueue = 2
  MaxUpsets = 1
INVARIANTS TypeOK ShownIsRecorded RunsMatchRevision CellsFitTheirRun RequestsCoalesced
SYMMETRY Symmetry
CHECK_DEADLOCK FALSE
