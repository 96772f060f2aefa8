SPECIFICATION FairSpec
CONSTANTS
  Roles <- RolesC
  Members <- MembersC
  Channels <- ChannelsC
  Bot = "bot"
  Owner = "owner"
  Chat = "chat"
  Errors = "chat"
  Parents <- ParentsC
  Config <- ConfigC
  Trust = "owner_private"
  MaxEvents = 3
  MaxChanges = 2
PROPERTY VerifiesAgain
