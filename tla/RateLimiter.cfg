\* One target and a whitelisted one, two windows, and a clock that outlives a cached value and an hour.
CONSTANTS
  r1 = r1
  r2 = r2
  Offset = 2
  NoRule = NoRule
  NoValue = NoValue
  Requests <- MCRequests
  Targets <- MCWithHealth
  Whitelist <- MCWhitelist
  WindowOrder <- MCTwoWindows
  WindowStart <- MCWindowStart
  Limits <- MCLimits
  TTL = 2
  MaxSize = 2
  MaxLatency = 1
  MaxRows = 1
  MaxTime = 5
SPECIFICATION Spec
INVARIANTS
  VerdictsRestOnFreshData
  EnforcedWithinTTL
  RejectionJustified
CONSTRAINT HealthUnruled
SYMMETRY MCRequestSymmetry
