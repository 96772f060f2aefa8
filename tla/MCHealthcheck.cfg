SPECIFICATION FairSpec
CONSTANTS
  Roles <- RolesC
  Members <- MembersC
  Channels <- ChannelsC
  Bot = "bot"
  Owner = "owner"
  Chat = "chat"
  Errors = "errors"
  Parents <- ParentsC
  Threads = {t1}
  Strangers = {s1}
  Config <- ConfigC
  MaxEvents = 2
  MaxFaults = 1
INVARIANTS StrangerIsCaught RefusalHasCause PassIsLeastPrivilege
PROPERTIES ListenerReturns
