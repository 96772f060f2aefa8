CONSTANTS
  top1 = top1
  top2 = top2
  reply1 = reply1
  thread1 = thread1
  thread2 = thread2
  None = None
  Messages = {top1, top2, reply1}
  TopLevel = {top1, top2}
  Threads = {thread1, thread2}
  ThreadOf <- MCThreadOf
  Listen = listen
  Procs = {p1, p2}
  MaxCrashes = 1
SPECIFICATION FairSpec
INVARIANTS
  OneInFlightPerChat
  PerChatOrder
  AtMostOneWorker
PROPERTIES
  ReadyRowIsClaimed
CHECK_DEADLOCK FALSE
