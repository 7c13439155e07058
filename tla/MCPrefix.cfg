SPECIFICATION Spec
CONSTANTS
  r1 = r1
  r2 = r2
  r3 = r3
  Requests = {r1, r2, r3}
  Prompt <- MCPrompt
  Rank <- MCRank
  num_gpu_blocks = 8
  block_size = 2
  sliding_window = 3
  max_num_batched_tokens = 2
  max_model_len = 8
  max_tokens = 3
  long_prefill_token_threshold = 0
  max_num_running_reqs = 3
  policy = "fcfs"
  batch_queue_size = 2
  AllowAbort = TRUE
  AllowReset = TRUE
CHECK_DEADLOCK FALSE
INVARIANTS
  ReadsComputedPrefix
  PoolExact
  ChainReachable
  CommonPrefixShared
  AdmissionExact
