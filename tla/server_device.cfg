SPECIFICATION FairSpec
CONSTANTS
  Counts = {2}
  ReqRows = {2}
  Rows = 3
  QueueCap = 1
  CloseCount = 9
  Stales <- NoStale
  InitChanged = {0}
  UseMms = TRUE
  MaxSamples = 2
  MaxPolls = 2
CHECK_DEADLOCK FALSE
INVARIANTS AnsweredByDevice
