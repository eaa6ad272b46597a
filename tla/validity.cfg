SPECIFICATION FairSpec
CONSTANTS
  NumMessages = 4
  Below = 2
  Highest = 5
CHECK_DEADLOCK FALSE
INVARIANTS VerdictExact
PROPERTIES Terminates
