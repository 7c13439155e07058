\* FCFS with preemption, aborts, pause and resume, under fairness of the engine.
SPECIFICATION FairSpec
CONSTANTS
  r1 = r1
  r2 = r2
  Requests = {r1, r2}
  NoRequest = NoRequest
  Blocks = {b1, b2, b3, b4}
  NullBlock = NullBlock
  BlockSize = 2
  PromptLen <- MCPromptLen
  MaxTokens <- MCFewTokens
  Rank <- MCRank
  TokenBudget = 4
  MaxRunning = 2
  LongPrefill = 0
  ReserveFullIsl = TRUE
  Policy = "fcfs"
  Async = FALSE
  Budget = 2
  Sink = 1
  Local = 1
  EvictEvery = 2
  Margin = 2
  ProtectPrompt = FALSE
  ReclaimWorks = TRUE
  AllowAbort = TRUE
  AllowPause = TRUE
  AllowReset = FALSE
PROPERTIES
  
  EveryRequestFinishes
