SPECIFICATION Spec
CONSTANTS
  Requests = {r1, r2}
  Routers = {k1, k2}
  None = None
  MaxClicks = 2
  MaxAttempts = 2
  MaxFaults = 1
INVARIANT DecisionIsClicked
SYMMETRY Symmetry
CHECK_DEADLOCK FALSE
