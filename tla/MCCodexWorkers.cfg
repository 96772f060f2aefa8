CONSTANTS
  root1 = root1
  root2 = root2
  reply1 = reply1
  reply2 = reply2
  thread1 = thread1
  thread2 = thread2
  None = None
  Events = {root1, reply1}
  Roots = {root1}
  Threads = {thread1}
  ThreadOf <- MCThreadOf
  Listen = listen
  Policies = {policyA, policyB}
  Slots = {slot1, slot2}
  Startup = startup
  MaxPending = 2
  MaxStops = 2
  MaxAges = 1
SPECIFICATION FairSpec
INVARIANTS
  TurnsNeverRepeat
  AloneInDestination
  StrictOrder
  CompletedIsShown
  NeverRunsAcrossPolicies
PROPERTY ReleasedJobIsClaimed
CHECK_DEADLOCK FALSE
