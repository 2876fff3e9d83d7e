SPECIFICATION Spec
SYMMETRY Perms
CONSTANTS
  Workers = {w1, w2}
  NoWorker = NoWorker
  NoEntry = NoEntry
  NoJob = NoJob
  Targets <- MeshTargets
  Seeds <- MeshSeeds
  Foreign <- MeshForeign
  Undecodable <- MeshUndecodable
  Jobs <- MeshJobs
  Urls <- MeshUrls
  Hosts <- MeshHosts
  JobOf <- MeshJobOf
  UrlOf <- MeshUrlOf
  PriorityOf <- MeshPriorityOf
  HostOf <- MeshHostOf
  MaxAttempts = 2
  MaxRedeliveries = 1
  Visibility = 2
  HostGap = 1
  Backoff = 1
  RouteBatch = 2
  PromoteBatch = 2
  ScanLimit = 50
  Overrun = FALSE
  MaxShutdowns = 1
  MaxReplays = 1
INVARIANTS TypeOK LeasesMatch NeverCompletedEarly OneRequestPerHost
PROPERTIES OnlyHolderCommits
