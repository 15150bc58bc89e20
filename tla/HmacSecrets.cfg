\* Three callers, two rotations, three calls of the provider.
CONSTANTS
  Callers = {c1, c2, c3}
  Keep = 2
  MaxVersion = 3
  MaxCalls = 3
SPECIFICATION FairSpec
INVARIANTS
  TypeOK
  SingleFlight
  ServedAlike
PROPERTIES
  FailureNotKept
  EveryCallerTold
  ImplementsOnceLoaded
