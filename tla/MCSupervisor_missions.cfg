SPECIFICATION Spec
CONSTANTS
  Workers = {w1}
  Limits = {1}
  DefaultLimit = 2
  More = 1
  Attempts = 1
  FileUrls = 1
  Interfaces = {"menu", "flags"}
  HasTerminal = TRUE
  Insists = FALSE
  Overlap = FALSE
  MaxKeys = 2
  MaxOld = 1
  MaxWaiting = 1
  MaxDocs = 2
CHECK_DEADLOCK FALSE
INVARIANTS PausedAsShown OnlyThisCrawl
PROPERTIES CompletesOnTarget OrderlyExitUnpauses
