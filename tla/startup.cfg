SPECIFICATION FairSpec
CONSTANTS
  QueueCap = 2
  CommandLines <- Lines
CHECK_DEADLOCK FALSE
INVARIANTS TypeOK CleanFailure SentWhenReading OptionsHeard
PROPERTIES ExchangeStarts
