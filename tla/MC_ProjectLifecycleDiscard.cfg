SPECIFICATION Spec
CONSTANTS
  Session = {s1}
  Project = {p1, p2}
  Path = {f1}
  Edit = {e1, e2}
  None = None
  MaxClock = 1
SYMMETRY Symmetry
PROPERTY DiscardRemovesOwnSnapshot
CHECK_DEADLOCK FALSE
