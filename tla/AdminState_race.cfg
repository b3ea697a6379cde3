\* Two POSTs at once and no fault at all.
CONSTANTS
  r1 = r1
  r2 = r2
  l1 = l1
  l2 = l2
  h1 = h1
  Requests = {r1, r2}
  Libraries = {l1, l2}
  Overrides = {h1}
  Empty = Empty
  None = None
  Bad = Bad
  Boot = Boot
  MaxFaults = 0
  MaxInFlight = 2
  Ambiguous = FALSE
SYMMETRY RequestSymmetry
SPECIFICATION Spec
INVARIANTS ServedIsPersisted
\* A run ends when its POSTs have ended and its faults are used up.
CHECK_DEADLOCK FALSE
