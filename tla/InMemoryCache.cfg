\* Three keys compete for two places.
CONSTANTS
  k1 = k1
  k2 = k2
  k3 = k3
  v1 = v1
  v2 = v2
  Keys <- MCKeys
  Values <- MCValues
  TTLs <- MCTTLs
  MaxSize = 2
  MaxTime = 4
SPECIFICATION Spec
INVARIANTS
  CapacityBound
PROPERTY ImplementsTTLMap
