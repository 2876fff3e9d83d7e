SPECIFICATION FairSpec
CONSTANTS
  Instances = {"i1"}
  Workers = {w1, w2}
  NoWorker = NoWorker
  InstanceOf <- OneProcess
  Hosts <- Names
  Keys = {"a", "b"}
  KeyOf <- NameKeys
  Policies = {"slow", "failing"}
  SlowDelay = 2
  okTTL = 2
  serverErrorTTL = 1
  memoryTTL = 2
  maxMemoryHosts = 1
  PolitenessDelay = 0
  MaxCrawlDelay = 1
  retryAfterMax = 2
  RetryAfters = {0, 3}
  FetchTimeout = 1
  VisibilityTimeout = 3
  MaxStops = 1
INVARIANTS TypeOK PolicyFresh GapKept
PROPERTIES HandleEnds
