SPECIFICATION Spec
CONSTANTS
  Requests = 4
  RotateEvery = 2
  CloseCount = 2
  Runs = 2
  Processes = 2
  Depth = 2
  Lossy = TRUE
  Reorders = FALSE
CHECK_DEADLOCK FALSE
INVARIANTS CleanRun OrderKept UseAfterClose
