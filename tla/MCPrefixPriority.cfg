\* Priority scheduling and chunked prefill: a request is preempted by one that
\* is scheduled after it in the same step.
SPECIFICATION Spec
CONSTANTS
  r1 = r1
  r2 = r2
  r3 = r3
  Requests = {r1, r2}
  Prompt <- MCLongPrompt
  Rank <- MCRank
  num_gpu_blocks = 16
  block_size = 1
  sliding_window = 3
  max_num_batched_tokens = 4
  max_model_len = 8
  max_tokens = 2
  long_prefill_token_threshold = 2
  max_num_running_reqs = 2
  policy = "priority"
  batch_queue_size = 1
  AllowAbort = FALSE
  AllowReset = FALSE
CHECK_DEADLOCK FALSE
INVARIANT ReadsComputedPrefix
