\* Two clients race over two keys for two seconds.
CONSTANTS
  Clients = {c1, c2}
  Keys = {k1, k2}
  Lifetimes = {0, 1}
  TicksPerSecond = 2
  None = None
  Never = Never
  MaxTime = 3
SPECIFICATION Spec
SYMMETRY ClientSymmetry
INVARIANTS
  NeverServedTooLate
PROPERTY LossesAccounted
\* The clock stops and clients may be done.
CHECK_DEADLOCK FALSE
