\* Two requests share a cache with room for one of two limited targets.
CONSTANTS
  r1 = r1
  r2 = r2
  Null = Null
  Unreadable = Unreadable
  NoRule = NoRule
  NoValue = NoValue
  Requests <- MCRequests
  HttpRequests <- MCHttpRequests
  TablePrefix = "null"
  Override = Null
  Targets <- MCTargets
  Whitelist <- MCWhitelist
  LogWhitelist <- MCWhitelist
  WindowOrder <- MCWindowOrder
  WindowStart <- MCWindowStart
  Limits <- MCLimits
  TTL = 1
  MaxSize = 2
  MaxLatency = 1
  MaxRows = 2
  MaxTime = 2
SPECIFICATION FairPipeline
CONSTRAINT OrdersAlone
INVARIANTS
  NoReuseAcrossTargets
  AdmissionsWithinLimit
PROPERTIES
  FullMeansOtherKeysLive
  EveryRequestAnswered
\* Requests and the clock come to an end.
CHECK_DEADLOCK FALSE
