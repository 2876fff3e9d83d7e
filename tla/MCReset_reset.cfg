SPECIFICATION ResetSpec
SYMMETRY Perms
CONSTANTS
  Workers = {w1, w2}
  NoWorker = NoWorker
  NoEntry = NoEntry
  NoJob = NoJob
  Targets <- PairTargets
  Seeds <- PairTargets
  Foreign = {}
  Undecodable = {}
  Jobs <- PairJobs
  Urls <- PairUrls
  Hosts = {"a"}
  JobOf <- PairJobOf
  UrlOf <- PairUrlOf
  PriorityOf <- PairPriorityOf
  HostOf <- PairHostOf
  MaxAttempts = 2
  MaxRedeliveries = 1
  Visibility = 1
  HostGap = 1
  Backoff = 1
  RouteBatch = 2
  PromoteBatch = 2
  ScanLimit = 50
  Overrun = TRUE
  MaxShutdowns = 0
  MaxReplays = 0
  SubmitDuring = FALSE
  MaxResets = 1
INVARIANTS OldGone BooksAfterReset
