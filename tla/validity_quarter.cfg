SPECIFICATION Spec
CONSTANTS
  NumMessages = 4
  Below = 0
  Highest = 5
CHECK_DEADLOCK FALSE
INVARIANTS QuarterReceived
