SPECIFICATION FairSpec
CONSTANTS
  Workers = {w1, w2}
  Jobs = {j1}
  CrawlJobs = {}
  Wallets = {}
  NoJob = NoJob
  NoRoot = NoRoot
  Roots = {r1}
  MAX_COMMIT_RETRIES = 2
  RegistryConfigured = TRUE
  StartFaults = FALSE
  MaxCrashes = 0
  MaxDbFaults = 0
PROPERTY
  PendingResolves
