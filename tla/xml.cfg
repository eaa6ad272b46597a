SPECIFICATION FairSpec
CONSTANTS
  MaxNodes = 4
  MaxItems = 4
  Items = {"item", "500"}
  Values = {"500", ""}
  Documents <- Requests
  Rows = 4
  RowSize = 2
  TextLength <- Lengths
  MaxDocuments = 2
CHECK_DEADLOCK FALSE
INVARIANTS TypeOK FirstInOrder RowsCopied OverrunCaused ItemsArrive ItemsReturned
PROPERTIES ExtractEnds
