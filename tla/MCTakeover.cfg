SPECIFICATION TakeoverSpec
CONSTANTS
  N = 2
  Channels = {"root", "thread"}
  Channel <- MCChannel
  Editable = {1}
  LegacyOps = {"none", "known"}
  Session0 = "prior"
  Receipts = {r1, r2}
  NoTakeover = NoTakeover
  MaxFaults = 1
INVARIANTS
  OneRuntime
  WindowIsServed
  QuarantineIsAcknowledged
PROPERTIES
  AbortSeesWork
  RollbackIsExact
SYMMETRY Symmetry
CHECK_DEADLOCK FALSE
