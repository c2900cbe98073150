SPECIFICATION FairSpec
CONSTANTS
  Requests = {r1, r2}
  Subscriptions = {s1, s2}
  Worker = Worker
  Metrics = Metrics
  MaxConnections = 2
INVARIANTS
  TypeOK
PROPERTIES
  RefusedOnlyIfStarved
  EveryRequestAnswered
