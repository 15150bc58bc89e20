\* Three attempts that can time out, overlap, and be applied late or never; with
\* the most jitter the second backoff is longer than a timer takes.
CONSTANTS
  MaxAttempts = 3
  BaseDelay = 3
  Jitter = 2
  Timeout = 4
  NoTimeout = NoTimeout
  TimerMax = 6
  Errors <- MCErrors
  MaxLag = 1
  MaxTime = 31
SPECIFICATION FairSpec
INVARIANTS
  RetrySpacing
  OverlapOnlyAfterTimeout
  EndsInTime
PROPERTIES
  ValidationFailsFast
  ImplementsAtLeastOnce
  EventuallyEnds
\* The operation ends, and so does the clock.
CHECK_DEADLOCK FALSE
