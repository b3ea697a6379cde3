\* Two lookups at once of two keys: slow answers overtake one another, entries expire
\* and are asked for again.
SPECIFICATION Spec
CONSTANTS
  c1 = c1  c2 = c2  k1 = k1  k2 = k2
  Callers = {c1, c2}
  Keys = {k1, k2}
  TTL = 1
  MaxSize = 2
  MaxFetch = 1
  MaxChanges = 1
  MaxClock = 3
SYMMETRY Symmetry
INVARIANTS TypeOK BoundedStaleness FreshIsFresh
PROPERTIES GoodEntriesStay
