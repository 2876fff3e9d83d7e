SPECIFICATION Spec
CONSTANTS
  Webs <- Odd
  MaxTargets = 2
CHECK_DEADLOCK FALSE
INVARIANTS CrawledOnce
