SPECIFICATION FairSpec
CONSTANTS
  dp_size = 2
  Clients = {c1}
  PauseModes = {"keep"}
  Orderly = TRUE
  sync_interval = 2
  MaxTokens = 1
  MaxRequests = 2
  MaxInterrupts = 1
INVARIANTS
  CollectivesMatch
  PausedStaysIdle
  

  
CHECK_DEADLOCK FALSE
