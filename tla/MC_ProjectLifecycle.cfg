SPECIFICATION Spec
CONSTANTS
  Session = {s1, s2}
  Project = {p1, p2}
  Path = {f1}
  Edit = {e1, e2}
  None = None
  MaxClock = 1
SYMMETRY Symmetry
INVARIANTS CleanMeansSaved BaselinesAreCovered
PROPERTY WorkIsLostOnlyByDecision
CHECK_DEADLOCK FALSE
