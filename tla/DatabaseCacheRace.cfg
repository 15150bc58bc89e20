\* A get removes what another client has just set.
CONSTANTS
  Clients = {c1, c2}
  Keys = {k1}
  Lifetimes = {1}
  TicksPerSecond = 2
  None = None
  Never = Never
  MaxTime = 5
SPECIFICATION Spec
PROPERTY ReadRemovesExpiredOnly
\* The clock stops and clients may be done.
CHECK_DEADLOCK FALSE
