\* Targets that a colon or a null prefix brings to the same cache key.
CONSTANTS
  r1 = r1
  r2 = r2
  Offset = 0
  NoRule = NoRule
  NoValue = NoValue
  Requests <- MCRequests
  Targets <- MCCollidingTargets
  Whitelist <- MCNoWhitelist
  WindowOrder <- MCOneWindow
  WindowStart <- MCWindowStart
  Limits <- MCLimits
  TTL = 1
  MaxSize = 8
  MaxLatency = 1
  MaxRows = 0
  MaxTime = 0
SPECIFICATION Spec
INVARIANT NoReuseAcrossTargets
