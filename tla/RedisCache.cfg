\* Two clients of two caches, one within the other, with empty buckets between.
CONSTANTS
  Clients = {c1, c2}
  CachePrefixes <- MCPrefixes
  Keys <- MCKeys
  Places = 4
  Place <- MCPlace
  Tables <- MCTables
  Lifetimes = {1, 2}
  Forever = Forever
  NoLease = NoLease
  MaxTime = 3
SPECIFICATION FairSpec
INVARIANTS
  ClearCoversTheOld
  LeaseHeldAlone
PROPERTY ClearEnds
