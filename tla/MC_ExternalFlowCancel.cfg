SPECIFICATION Spec
CONSTANTS
  Run = {r1, r2}
  Preview = {v1, v2}
  None = None
  StorageFails = FALSE
  Recorded = 2
  MaxStep = 3
  CacheLimit = 1
PROPERTY CancelTerminalizes
