SPECIFICATION FairSpec
CONSTANTS
  UseMms = TRUE
  WaitForAcks = TRUE
  MaxPublishers = 3
CHECK_DEADLOCK FALSE
INVARIANTS TypeOK NoUseAfterDelete NoMissedChange
PROPERTIES WriterReleased
