SPECIFICATION Spec
CONSTANTS
  Run = {r1, r2}
  Preview = {v1, v2}
  None = None
  StorageFails = TRUE
  Recorded = 2
  MaxStep = 3
  CacheLimit = 1
INVARIANTS PendingIsRunning RunningIsDurable TerminalIsSilent DisplayIsRecorded
PROPERTIES OwnResultRecorded FrameOnDisplayStays RequestsEnd
