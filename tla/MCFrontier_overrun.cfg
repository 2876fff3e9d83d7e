SPECIFICATION FairSpec
CONSTANTS
  Workers = {w1, w2}
  NoWorker = NoWorker
  NoEntry = NoEntry
  NoJob = NoJob
  Targets <- FanTargets
  Seeds <- OneSeeds
  Foreign = {}
  Undecodable = {}
  Jobs <- OneJobs
  Urls <- FanUrls
  Hosts <- FanHosts
  JobOf <- FanJobOf
  UrlOf <- FanUrlOf
  PriorityOf <- FanPriorityOf
  HostOf <- FanHostOf
  MaxAttempts = 2
  MaxRedeliveries = 1
  Visibility = 2
  HostGap = 1
  Backoff = 1
  RouteBatch = 2
  PromoteBatch = 2
  ScanLimit = 50
  Overrun = TRUE
  MaxShutdowns = 0
  MaxReplays = 1
INVARIANTS OnePlace JobAccounting
PROPERTIES KeepsPromise JobsComplete
