\* A "keep" pause and a finished request make the worker drop the batch.
SPECIFICATION Spec
CONSTANTS
  r1 = r1
  r2 = r2
  Requests = {r1, r2}
  NoRequest = NoRequest
  Blocks = {b1, b2, b3, b4, b5}
  NullBlock = NullBlock
  BlockSize = 2
  PromptLen <- MCPromptLen
  MaxTokens <- MCMaxTokens
  Rank <- MCRank
  TokenBudget = 4
  MaxRunning = 2
  LongPrefill = 0
  ReserveFullIsl = TRUE
  Policy = "fcfs"
  Async = FALSE
  Budget = 2
  Sink = 1
  Local = 1
  EvictEvery = 2
  Margin = 2
  ProtectPrompt = FALSE
  ReclaimWorks = TRUE
  AllowAbort = TRUE
  AllowPause = TRUE
  AllowReset = FALSE
SYMMETRY BlockSymmetry
INVARIANTS
  ForwardReadsOwnBlocks
