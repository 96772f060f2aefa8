SPECIFICATION TurnSpec
CONSTANTS
  Threads = {t1, t2}
  Orders = {o0, o1}
  FileOrder = o1
  None = None
  Runs = {r1, r2}
  MaxTurns = 3
  MaxLines = 7
  MaxBuffer = 1
  MaxQueue = 1
  Drifting = {"skillFiles", "skillList", "mcp"}
  MaxDrifts = 1
INVARIANTS AnswerIsOwn AnswerWasHooked AnswerUnderPolicy NoTurnIsLeft StopReachesTurn
SYMMETRY Symmetry
CHECK_DEADLOCK FALSE
