SPECIFICATION FairSpec
CONSTANTS
  Counts = {1, 2, 3}
  ReqRows = {2}
  Rows = 2
  QueueCap = 1
  CloseCount = 3
  Stales <- MaybeStale
  InitChanged = {0, 3}
  UseMms = FALSE
  MaxSamples = 4
  MaxPolls = 0
CHECK_DEADLOCK FALSE
INVARIANTS TypeOK InOrder IntervalSpan UseAfterClose
PROPERTIES ImplementsFifo RequestsAnswered ListenerReturns
