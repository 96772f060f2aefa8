SPECIFICATION Spec
CONSTANTS
  Count = 3
  MaxRetries = 2
  MaxPosts = 5
PROPERTY ImplementsOutbox
CHECK_DEADLOCK FALSE
