\* Parallel sampling, stop strings, aborts by either id, cancellation and a dying engine.
SPECIFICATION FairSpec
CONSTANTS
  g1 = g1
  e = e
  Calls = {g1}
  n <- MCn
  external_req_id <- MCExternal
  stream_interval = 2
  length <- MCLength
  MaxCrashes = 1
  AllowPreprocError = TRUE
  AllowAbortAll = TRUE
CHECK_DEADLOCK FALSE
INVARIANTS
  StreamExact
  FinishedMeansAll
  RegistryExact
  RegisteredIsServed
  UnregisteredIsAborted
 
