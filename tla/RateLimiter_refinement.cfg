\* Callers never overtake one another: the limiter is a leaky bucket.
CONSTANTS
  Clients = {c1, c2, c3}
  Callers = {t1, t2}
  Rps = 1
  BurstArg = 0
  MaxIdleArg = 2
  MaxClientsArg = 2
  TicksPerSecond = 2
  MaxWait = 0
  MaxClock = 5
SYMMETRY Symmetry
SPECIFICATION Spec
PROPERTIES ImplementsLeakyBucket
