SPECIFICATION RpcFairSpec
CONSTANTS
  Readers = {1, 2}
  max_chunks = 7
  output_rank = 1
  batch_queue_size = 2
  Raises = {"execute_model"}
  MaxCalls = 9
  MaxUtils = 1
  MaxCrashes = 1
INVARIANTS
  ResponsesMatch
  CallNotOverwritten
PROPERTIES
  CallsReturn
  FailureDetected
CHECK_DEADLOCK FALSE
