SPECIFICATION FairSpec
CONSTANTS
  Requests = 2
  RotateEvery = 2
  CloseCount = 2
  Runs = 2
  Processes = 2
  Depth = 2
  Lossy = TRUE
  Reorders = TRUE
CHECK_DEADLOCK FALSE
INVARIANTS TypeOK Accounted RowsPaired
PROPERTIES Answered
