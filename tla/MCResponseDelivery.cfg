SPECIFICATION Spec
CONSTANTS
  Callers = {c1, c2}
  Responses = {r1, r2}
  NoText = NoText
  Altered = Altered
  MaxPosts = 3
SYMMETRY Symmetry
INVARIANTS
  AtMostOneCopy
  ConfirmedIsExact
  TranscribedOnce
CHECK_DEADLOCK FALSE
