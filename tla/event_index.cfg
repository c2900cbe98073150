SPECIFICATION Spec
CONSTANTS
  first = first
  second = second
  transfer = transfer
  approval = approval
  h1 = h1
  h2 = h2
  lower = lower
  other = other
  Jobs <- TwoJobs
  Events <- TwoEvents
  Hashes <- TwoHashes
  Addresses = {lower, other}
  AskedFor <- Asked
  Logs <- SomeLogs
  ContentHash <- SomeHashes
  AddressOf <- SomeAddresses
  Oversize = {}
  AiJobs = {first}
  Budget = 1
  MaxCall = 2
  NoRoot = NoRoot
  NoRow = NoRow
  Subscribers = {s1}
  MaxFaults = 1
INVARIANTS
  TypeOK
  VerifiedIsAnchored
  WholeBatch
  CompletedVerifies
  StreamFaithful
PROPERTIES
  VerifiedForever
CHECK_DEADLOCK FALSE
