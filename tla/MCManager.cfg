\* One sequence of up to six blocks, budget three.
SPECIFICATION Spec
CONSTANTS
  block_size = 2
  kv_budget = 3
  num_sink_blocks = 1
  num_local_blocks = 1
  MaxLen = 12
  Scores <- MCScores
INVARIANTS
  AccountingExact
  OneShotIsIteratedPick
