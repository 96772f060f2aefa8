SPECIFICATION Spec
CONSTANTS
  Clicks = {c1, c2}
  Strays = {s1}
  Cap = 1
  MaxSessions = 3
  MaxFaults = 2
  MaxTime = 5
  HourLimit = 1
  HourWindow = 2
  DayLimit = 2
  DayWindow = 5
  MinWait = 2
INVARIANTS CheckpointIsDurable BudgetHolds WaitIsExact
PROPERTIES HandledOnce ClickIsHandled
CHECK_DEADLOCK FALSE
