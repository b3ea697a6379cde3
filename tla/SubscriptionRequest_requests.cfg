\* Two devices; a tick is the ten seconds of PanelTimeout.
CONSTANTS
  r1 = r1
  r2 = r2
  Requests = {r1, r2}
  TTL = 1
  Fetch = 1
  WriteTimeout = 1
  Grace = 1
  None = None
SYMMETRY RequestSymmetry
SPECIFICATION Spec
INVARIANTS TypeOK
PROPERTIES NotFoundIsTrue AnswerIsFresh OnlyDoubleWaitsAreLost LostIsHalfDone
