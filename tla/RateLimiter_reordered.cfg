\* Callers overtake one another between the clock and the mutex.
CONSTANTS
  Clients = {c1, c2}
  Callers = {t1, t2}
  Rps = 1
  BurstArg = 2
  MaxIdleArg = 4
  MaxClientsArg = 1
  TicksPerSecond = 1
  MaxWait = 1
  MaxClock = 11
SYMMETRY Symmetry
SPECIFICATION Spec
INVARIANTS TypeOK BucketLaw OverallRate BoundedDebt
PROPERTIES OnlyFullBucketsDropped RoomIsReclaimed
