SPECIFICATION Spec
CONSTANTS
  Webs <- PathsAndHosts
  MaxTargets = 3
CHECK_DEADLOCK FALSE
INVARIANTS TypeOK CrawledOnce LinkKept StaysOnSite AdmittedByCrawler
