\* Two POSTs at once, two faults, writes that fail after their commit; faults end
\* and the supervisor restarts the process.
CONSTANTS
  r1 = r1
  r2 = r2
  l1 = l1
  l2 = l2
  h1 = h1
  Requests = {r1, r2}
  Libraries = {l1, l2}
  Overrides = {h1}
  Empty = Empty
  None = None
  Bad = Bad
  Boot = Boot
  MaxFaults = 2
  MaxInFlight = 2
  Ambiguous = TRUE
SPECIFICATION FairSpec
INVARIANTS TypeOK WriteAhead TemplatesSurvive HeadersSurviveCompletion OnlyRacesDiverge
PROPERTIES StartServesNewest ServesAgain
\* A run ends when its POSTs have ended and its faults are used up.
CHECK_DEADLOCK FALSE
