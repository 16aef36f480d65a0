SPECIFICATION Spec
CONSTANTS
  SourceId = {s1}
  CaseId = {c1}
  RevisionId = {r1, r2, r3}
  RunId = {x1}
  EvidenceId = {e1}
  ViewId = {}
  Contract = {k1, k2}
  Discretization = {d1}
  Outputs = {o1}
  AttemptInputs = {i1}
  Payload = {}
  Key = {}
  Recorded = {"running", "succeeded", "failed"}
  None = None
SYMMETRY Symmetry
PROPERTY EditOnlyAddsStaleStages
CHECK_DEADLOCK FALSE
