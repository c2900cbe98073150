SPECIFICATION Spec
CONSTANTS
  Workers = {w1, w2}
  Jobs = {j1, j2}
  CrawlJobs = {j2}
  Wallets = {j2}
  NoJob = NoJob
  NoRoot = NoRoot
  Roots = {r1}
  MAX_COMMIT_RETRIES = 2
  RegistryConfigured = TRUE
  StartFaults = TRUE
  MaxCrashes = 1
  MaxDbFaults = 1
SYMMETRY IndexSymmetry
INVARIANTS
  TypeOK
  RetriedIsAnchored
  AnchorSound
  Ownership
PROPERTIES
  LifecycleSpec
CHECK_DEADLOCK FALSE
