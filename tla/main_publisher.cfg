SPECIFICATION EndingSpec
CONSTANTS
  UseMms = FALSE
  WaitForAcks = FALSE
  MaxPublishers = 2
CHECK_DEADLOCK FALSE
PROPERTIES PublisherCompletes
