SPECIFICATION Spec
CONSTANTS
  Writer = {w1, w2}
  Bytes = {b1, b2}
  Absent = Absent
  Torn = Torn
  SyncsDirectory = TRUE
  MaxGenerations = 4
SYMMETRY Symmetry
INVARIANTS NeverTorn AckedSurvives
PROPERTIES StaleWriterStopped ImplementsRegister
