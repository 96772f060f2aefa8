CONSTANTS
  root1 = root1
  root2 = root2
  reply1 = reply1
  reply2 = reply2
  thread1 = thread1
  thread2 = thread2
  None = None
  Events = {root1,reply1,reply2}
  Roots = {root1}
  Threads = {thread1}
  ThreadOf <- MCThreadOf
  Listen = listen
  Policies = {policyA}
  Policy = policyA
  Changes = {"edited","deleted"}
  PageSize = 1
  MaxPending = 1
  MaxFaults = 1
  MaxExpiries = 1
SPECIFICATION IngressFairSpec
INVARIANTS
  NothingIsSkipped
  InPostingOrder
  ReleasedIsRouted
PROPERTY EveryMessageIsHandled
CHECK_DEADLOCK FALSE
