\* step_with_batch_queue under priority scheduling, with forced resets between steps.
SPECIFICATION Spec
CONSTANTS
  r1 = r1
  r2 = r2
  Requests = {r1, r2}
  NoRequest = NoRequest
  Blocks = {b1, b2, b3, b4, b5}
  NullBlock = NullBlock
  BlockSize = 2
  PromptLen <- MCPromptLen
  MaxTokens <- MCMaxTokens
  Rank <- MCRank
  TokenBudget = 5
  MaxRunning = 2
  LongPrefill = 0
  ReserveFullIsl = TRUE
  Policy = "priority"
  Async = TRUE
  Budget = 2
  Sink = 1
  Local = 1
  EvictEvery = 2
  Margin = 1
  ProtectPrompt = TRUE
  ReclaimWorks = TRUE
  AllowAbort = FALSE
  AllowPause = FALSE
  AllowReset = TRUE
SYMMETRY BlockSymmetry
INVARIANTS
  PlaceholdersMatchInFlight
  ScheduleAsserts
  SinksKept
