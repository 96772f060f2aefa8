SPECIFICATION FairSpec
CONSTANTS
  top = top
  reply = reply
  Messages = {top, reply}
  ThreadOf <- MCThreadOf
  Sessions = {s1}
  Dispatchers = {d1, d2}
  Helpers = {h1, h2}
  None = None
  MaxPosts = 2
  MaxKills = 1
INVARIANTS
  OneInputTurn
PROPERTY EveryDispatchCompletes
