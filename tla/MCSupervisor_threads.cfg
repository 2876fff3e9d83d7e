SPECIFICATION FairSpec
CONSTANTS
  Workers = {w1, w2}
  Limits = {0, 2}
  DefaultLimit = 2
  More = 1
  Attempts = 1
  FileUrls = 2
  Interfaces = {"menu"}
  HasTerminal = TRUE
  Insists = TRUE
  Overlap = TRUE
  MaxKeys = 1
  MaxOld = 1
  MaxWaiting = 2
  MaxDocs = 3
CHECK_DEADLOCK FALSE
INVARIANTS TypeOK AtMostInFlight
PROPERTIES TargetNoticed
