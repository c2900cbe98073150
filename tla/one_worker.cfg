SPECIFICATION FairSpec
CONSTANTS
  Workers = {w1}
  Jobs = {j1, j2, j3}
  CrawlJobs = {j3}
  Wallets = {}
  NoJob = NoJob
  NoRoot = NoRoot
  Roots = {r1}
  MAX_COMMIT_RETRIES = 2
  RegistryConfigured = TRUE
  StartFaults = FALSE
  MaxCrashes = 1
  MaxDbFaults = 0
INVARIANTS
  StatusTruthful
  HooksTruthful
PROPERTIES
  RetryProgress
  EveryJobFinishes
  QueueDrains
