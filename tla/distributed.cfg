SPECIFICATION FairSpec
CONSTANTS
  Workers = {w1, w2}
  Jobs = {j1, j2}
  MAX_PRIORITY = 1
  Priorities = {0, 1, 2}
  Times = {1}
  RetryLimits = {2}
  NoMember = NoMember
  NoWorker = NoWorker
  NoInfo = NoInfo
  Converts = {TRUE, FALSE}
  MaxFaults = 1
INVARIANTS
  TypeOK
  ExactlyOnePlace
  BoundedRuns
  HighestFirst
PROPERTIES
  EveryJobSettles
  Served
