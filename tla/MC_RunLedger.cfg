SPECIFICATION Spec
CONSTANTS
  SourceId = {s1}
  CaseId = {c1, c2}
  RevisionId = {r1, r2, r3}
  RunId = {x1, x2}
  EvidenceId = {e1, e2, e3}
  ViewId = {v1}
  Contract = {k1, k2}
  Discretization = {d1}
  Outputs = {o1}
  AttemptInputs = {i1}
  Payload = {p1}
  Key = {key1}
  Recorded = {"running", "succeeded", "failed"}
  None = None
SYMMETRY Symmetry
CONSTRAINT Bounded
INVARIANTS LoaderAccepts OneLineOfDescent FreshHasAReason StaleFlowsDownstream OneSignaturePerReport
PROPERTY HistoryIsImmutable
CHECK_DEADLOCK FALSE
