SPECIFICATION BatchSpec
CONSTANTS
  ContentHashes = {a, b}
  EmptyHash = EmptyHash
  MaxLeaves = 7
INVARIANTS
  RootOfTree
  ProofsExact
  RootTellsBatch
CHECK_DEADLOCK FALSE
