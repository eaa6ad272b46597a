SPECIFICATION Spec
CONSTANTS
  Counts = {2}
  ReqRows = {0, 2, 3}
  Rows = 3
  QueueCap = 1
  CloseCount = 9
  Stales <- NoStale
  InitChanged = {0, 4}
  UseMms = TRUE
  MaxSamples = 2
  MaxPolls = 2
CHECK_DEADLOCK FALSE
INVARIANTS DeliveredOnce OnePerPublication GarbageOnlyFirst QuietPollDelivered AsPublished
