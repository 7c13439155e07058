--------------------------- MODULE EngineTheorems ---------------------------
(***************************************************************************)
(* What holds in every reachable state of the engine, for every value of   *)
(* the constants: each theorem rests on the inductive invariants of        *)
(* EngineInvariants and on the lemma, proved action by action in the other *)
(* modules, that a step preserves them.                                    *)
(***************************************************************************)
EXTENDS TableProofs, ReclaimProofs, CoverProofs

\* The inductive invariant holds throughout every behaviour.
THEOREM Invariance == Spec => []IInv
<1>1. Init => IInv
  BY InitInvariant
<1>2. IInv /\ [Next]_vars => IInv'
  BY NextKeeps
<1> QED BY <1>1, <1>2, PTL DEF Spec

\* Every variable of the scheduler, the worker and the engine core keeps its
\* type, for any number of requests and blocks and any configuration that
\* EvictionConfig accepts.
THEOREM TypeCorrect == Spec => []TypeOK
<1>1. IInv => TypeOK
  BY DEF IInv
<1> QED BY <1>1, Invariance, PTL

\* Whatever interleaving of allocation, preemption, finish, abort, forced reset
\* and SKIVE's reclaim: no block backs two entries, none is freed twice, none is
\* lost (BlockPool.get_new_blocks and free_blocks, skive_reclaim).
THEOREM PoolSafety == Spec => []PoolConsistent
<1>1. IInv => PoolConsistent
  BY DEF IInv
<1> QED BY <1>1, Invariance, PTL

\* The queues agree and the request being allocated for runs, in every reachable
\* state.
LEMMA QueueInvariance == Spec => []QInv
<1>1. IInv /\ QInv /\ [Next]_vars => QInv'
  BY QueuesKeep, SMTT(30)
<1> QED BY <1>1, InitQueues, Invariance, PTL DEF Spec

\* In every reachable state a request sits in exactly the queue its status
\* says, once, and only running requests hold blocks: no request is lost or
\* queued twice by preemption, admission, finish, abort or a forced reset.
THEOREM QueueAgreement == Spec => []QueuesMatchStatus
<1>1. QInv => QueuesMatchStatus
  BY DEF QInv
<1> QED BY <1>1, QueueInvariance, PTL

\* A forced reset always finds every block back in the pool once the running
\* requests are preempted, which is what BlockPool.reset_prefix_cache needs.
THEOREM ResetSucceeds == Spec => []ResetFindsPoolFree
<1>1. IInv /\ QueuesMatchStatus => ResetFindsPoolFree
  <2> SUFFICES ASSUME IInv, QueuesMatchStatus, running = <<>> PROVE free = Blocks
    BY DEF ResetFindsPoolFree
  <2>1. \A r \in Requests : status[r] # "RUNNING"
    BY DEF QueuesMatchStatus, Elems
  <2>2. \A r \in Requests : Elems(req_to_blocks[r]) = {}
    BY <2>1, SMTT(30) DEF QueuesMatchStatus, Elems
  <2>3. \A b \in Blocks : b \in free
    BY <2>2, SMTT(30) DEF IInv, PoolConsistent, RefCountsExact
  <2>4. free \in SUBSET Blocks
    BY DEF IInv, TypeOK, KVTypeOK
  <2> QED BY <2>3, <2>4, Zenon
<1> QED BY <1>1, Invariance, QueueAgreement, PTL

\* Nothing is scheduled, in flight or preempted at the start.
LEMMA InitSchedule == Init => SInv
<1> SUFFICES ASSUME Init
             PROVE  SInv
  BY Zenon
<1>1. /\ pc = "idle" /\ batch_queue = <<>> /\ to_update = {} /\ popped = {} /\ over_rows = {}
      /\ status = [r \in Requests |-> "NONE"] /\ running = <<>>
      /\ num_tokens = [r \in Requests |-> 0] /\ num_computed_tokens = [r \in Requests |-> 0]
      /\ num_output_placeholders = [r \in Requests |-> 0]
      /\ async_tokens_to_discard = [r \in Requests |-> 0]
      /\ num_scheduled_tokens = [r \in Requests |-> 0]
      /\ req_to_new_blocks = [r \in Requests |-> <<>>]
      /\ scheduled_new_reqs = {} /\ scheduled_resumed_reqs = {} /\ scheduled_running_reqs = {}
      /\ prev_step_scheduled_req_ids = {} /\ token_budget = 0 /\ preempted = FALSE /\ req_index = 1
  BY Zenon DEF Init, SchedInit, WorkerInit
<1>2. BatchInv
  BY <1>1, SMTT(30) DEF BatchInv, BatchQueueSize, InExecute
<1>3. TokenInv
  BY <1>1, SMTT(30) DEF TokenInv, TokensOf, InSchedule, Live, Lists
<1>4. ListInv
  BY <1>1, SchedulerAssumption, SMTT(30) DEF ListInv, Lists, InSchedule, InExecute, Elems
<1>5. IndexInv /\ PrevInv
  BY <1>1, Zenon DEF IndexInv, PrevInv
<1>6. FlightInv
  BY <1>1, SMTT(30) DEF FlightInv, FlightOf, InFlight, One, InExecute
<1> QED BY <1>2, <1>3, <1>4, <1>5, <1>6, Zenon DEF SInv

\* Every step keeps the scheduler's invariant.
LEMMA SchedulesKeep ==
  ASSUME IInv, QInv, SInv, [Next]_vars
  PROVE  SInv'
<1>1. BatchInv'
  BY BatchKeeps, Zenon DEF IInv, SInv
<1> QED BY <1>1, TokensKeep, ListsKeep, IndexKeeps, PrevKeeps, FlightKeeps, Zenon DEF SInv

\* The scheduler's invariant, under every interleaving of clients and engine steps.
LEMMA ScheduleInvariance == Spec => [](IInv /\ QInv /\ SInv)
<1>1. IInv /\ QInv /\ SInv /\ [Next]_vars => SInv'
  BY SchedulesKeep, SMTT(30)
<1> QED BY <1>1, InitSchedule, Invariance, QueueInvariance, PTL DEF Spec

\* What schedule() asserts before it returns, and what _make_cached_request_data
\* asserts about resumed requests, holds: the scheduled requests are the three
\* lists, disjoint and running, within the token budget and the batch size, and
\* none that is resumed was scheduled in the previous step.  For every policy, with
\* preemptions of requests already scheduled in this step, pauses, aborts and resets.
THEOREM ScheduleAssertions == Spec => []ScheduleAsserts
<1>1. IInv /\ QInv /\ SInv => ScheduleAsserts
  <2> SUFFICES ASSUME IInv, SInv, pc = "finish"
               PROVE  ScheduleAsserts
    BY DEF ScheduleAsserts
  <2>1. Scheduled = Lists
    <3>1. Lists \subseteq Requests
      BY SMTT(30) DEF Lists, IInv, TypeOK, OutTypeOK
    <3>2. \A r \in Requests : num_scheduled_tokens[r] > 0 <=> r \in Lists
      BY SMTT(30) DEF SInv, TokenInv, TokensOf
    <3> QED BY <3>1, <3>2, SMTT(30) DEF Scheduled
  <2> QED BY <2>1, SMTT(30) DEF ScheduleAsserts, SInv, ListInv, PrevInv, Lists
<1> QED BY <1>1, ScheduleInvariance, PTL

\* The asynchronous scheduler's placeholders, with the outputs it is to discard,
\* count the sampled tokens of a live request in flight exactly, whatever
\* preemptions and forced resets happen while batches are in flight; the
\* synchronous scheduler has none.
THEOREM PlaceholdersExact == Spec => []PlaceholdersMatchInFlight
<1>1. IInv /\ QInv /\ SInv => PlaceholdersMatchInFlight
  <2> SUFFICES ASSUME IInv, SInv, pc = "idle", NEW r \in Requests, status[r] \in Live
               PROVE  num_output_placeholders[r] + async_tokens_to_discard[r] =
                        IF Async THEN Cardinality({i \in DOMAIN batch_queue : r \in batch_queue[i]})
                                 ELSE 0
    BY SMTT(30) DEF PlaceholdersMatchInFlight
  <2>1. FlightOf(r) /\ to_update = {} /\ Len(batch_queue) < BatchQueueSize
    BY DEF SInv, FlightInv, BatchInv, InExecute
  <2>2. CASE ~Async
    BY <2>1, <2>2, SMTT(30) DEF FlightOf
  <2>3. CASE Async
    <3>1. Len(batch_queue) \in {0, 1} /\ DOMAIN batch_queue = 1..Len(batch_queue)
      <4>1. BatchQueueSize = 2
        BY <2>3, SMTT(30) DEF BatchQueueSize
      <4>2. Len(batch_queue) \in Nat /\ DOMAIN batch_queue = 1..Len(batch_queue)
        BY LenProperties, SMTT(30) DEF IInv, TypeOK, EngineTypeOK
      <4> QED BY <2>1, <4>1, <4>2, SMTT(30)
    <3>2. num_output_placeholders[r] + async_tokens_to_discard[r] = InFlight(r)
      BY <2>1, <2>3, SMTT(30) DEF FlightOf, Live
    <3>3. CASE Len(batch_queue) = 1 /\ r \in batch_queue[1]
      <4>1. {i \in DOMAIN batch_queue : r \in batch_queue[i]} = {1}
        BY <3>1, <3>3, SMTT(30)
      <4>2. Cardinality({i \in DOMAIN batch_queue : r \in batch_queue[i]}) = 1
        BY <4>1, FS_Singleton, Zenon
      <4>3. InFlight(r) = 1
        BY <2>1, <3>3, SMTT(30) DEF InFlight, One
      <4> QED BY <2>3, <3>2, <4>2, <4>3, SMTT(30)
    <3>4. CASE ~(Len(batch_queue) = 1 /\ r \in batch_queue[1])
      <4>1. {i \in DOMAIN batch_queue : r \in batch_queue[i]} = {}
        BY <3>1, <3>4, SMTT(30)
      <4>2. Cardinality({i \in DOMAIN batch_queue : r \in batch_queue[i]}) = 0
        BY <4>1, FS_EmptySet, SMTT(30)
      <4>3. InFlight(r) = 0
        BY <2>1, <3>1, <3>4, SMTT(30) DEF InFlight, One
      <4> QED BY <2>3, <3>2, <4>2, <4>3, SMTT(30)
    <3> QED BY <3>3, <3>4, SMTT(30)
  <2> QED BY <2>2, <2>3, SMTT(30)
<1> QED BY <1>1, ScheduleInvariance, PTL

\* The attention sinks are never evicted: a row keeps its first Sink entries, and
\* with SKIVE_PROTECT_PROMPT those of the prompt, through every sequence of
\* evictions, preemptions and re-admissions (evict_request_blocks).
THEOREM SinksSurvive == Spec => []SinksKept
<1>1. RealInv => SinksKept
  BY SMTT(30) DEF RealInv, RealOf, SinksKept
<1>2. IInv /\ QInv /\ RealInv /\ [Next]_vars => RealInv'
  BY RealKeeps
<1> QED BY <1>1, <1>2, InitReal, Invariance, QueueInvariance, PTL DEF Spec

\* The invariant of the tables, on top of that of the scheduler.
LEMMA TableInvariance == Spec => [](IInv /\ QInv /\ SInv /\ TInv)
<1> DEFINE S == IInv /\ QInv /\ SInv
<1>1. S /\ S' /\ TInv /\ [Next]_vars => TInv'
  <2> SUFFICES ASSUME S, S', TInv, [Next]_vars
               PROVE  TInv'
    OBVIOUS
  <2>1. RealInv' /\ FinishedInv' /\ TailInv' /\ RecordInv'
    BY RealKeeps, FinishedKeeps, TailKeeps, RecordsKeep, SMTT(30) DEF TInv
  <2>2. TypeOK' /\ TokenInv'
    BY DEF IInv, SInv
  <2>3. LenInv'
    BY <2>2, LenKeeps, SMTT(30) DEF TInv
  <2> QED BY <2>1, <2>3, SMTT(30) DEF TInv
<1>2. Spec => []S
  BY ScheduleInvariance
<1> HIDE DEF S
<1>3. Spec => [](S /\ TInv)
  BY <1>1, <1>2, InitTables, PTL DEF Spec
<1> QED BY <1>3, PTL DEF S

\* With a local window of at least one block (the eviction kernel's newest blocks),
\* no token's K/V is ever written to the null block: the slot that
\* compute_slot_mapping gives lies in a real entry of the row, whatever SKIVE has
\* nulled before it.
THEOREM SlotsOwned ==
  ASSUME Local >= 1
  PROVE  Spec => []NullNeverWritten
<1>1. IInv /\ QInv /\ SInv /\ TInv => NullNeverWritten
  BY SlotsReal DEF TInv
<1> QED BY <1>1, TableInvariance, PTL

\* The invariant with working reclaims.
LEMMA StrandInvariance ==
  ASSUME ReclaimWorks
  PROVE  Spec => []StrandInv
<1>1. Init => StrandInv
  BY DEF Init, WorkerInit, SchedInit, StrandInv, InSchedule
<1>2. IInv /\ QInv /\ SInv /\ StrandInv /\ [Next]_vars => StrandInv'
  BY StrandKeeps, SMTT(30)
<1> QED BY <1>1, <1>2, ScheduleInvariance, PTL DEF Spec

\* With an executor that accepts the reclaim call, the engine never blocks on its
\* input queue with evicted blocks still to reclaim, although step_with_batch_queue
\* returns early while its queue has room.
THEOREM NothingStranded ==
  ASSUME ReclaimWorks
  PROVE  Spec => []NoStrandedEvictions
<1>1. StrandInv => NoStrandedEvictions
  BY DEF StrandInv, NoStrandedEvictions
<1> QED BY <1>1, StrandInvariance, PTL

\* A row the hook does not trim is within the bound, and a request that exceeds it in
\* the pool is one whose evictions are still to be reclaimed.
LEMMA HeldInvariance ==
  ASSUME ~Async, ReclaimWorks, ~ProtectPrompt
  PROVE  Spec => [](BoundInv /\ HeldInv)
<1> DEFINE Base == IInv /\ QInv /\ SInv /\ TInv
           Inv == BoundInv /\ HeldInv
<1>1. Init => Inv
  BY InitHeld, Zenon
<1>2. Base /\ Base' /\ StrandInv /\ Inv /\ [Next]_vars => Inv'
  BY BoundKeeps, HeldKeeps, Zenon DEF TInv
<1>3. Spec => []Base
  BY TableInvariance, SMTT(30)
<1>4. Spec => []StrandInv
  BY StrandInvariance, PTL
<1> QED BY <1>1, <1>2, <1>3, <1>4, PTL DEF Spec

\* HeldBound, for every configuration of a synchronous engine: no request has Margin
\* or more blocks over the budget in its row once the hook is done, nor in the pool
\* once the step is over (skive_post_step, plan_eviction, skive_reclaim), provided the
\* reclaim call is accepted and the prompt is not protected beyond the sink.
THEOREM BlocksBounded ==
  ASSUME ~Async, ReclaimWorks, ~ProtectPrompt
  PROVE  Spec => []HeldBound
<1>1. IInv /\ SInv /\ BoundInv /\ HeldInv => HeldBound
  <2> SUFFICES ASSUME IInv, SInv, BoundInv, HeldInv, NEW r \in Requests
               PROVE  /\ pc = "end" /\ over_rows = {} => RealCount(r) <= Most
                      /\ pc = "idle" => HeldCount(r) <= Most
    BY Zenon DEF HeldBound, Most, HeldCount
  <2>1. pc = "end" /\ over_rows = {} => RealCount(r) <= Most
    BY Zenon DEF BoundInv
  <2>2. ASSUME pc = "idle" PROVE HeldCount(r) <= Most
    <3>1. Filling /\ Lists = {}
      BY <2>2, Zenon DEF Filling, SInv, ListInv, InSchedule, InExecute
    <3>2. ~(HeldCount(r) > Most)
      BY <3>1, Zenon DEF HeldInv, HeldOf
    <3>3. HeldCount(r) \in Nat /\ Most \in Nat
      <4>1. HeldCount(r) \in Nat
        BY RankFacts, Zenon DEF HeldCount, IInv, TypeOK, KVTypeOK
      <4> QED BY <4>1, WorkerAssumption, SMTT(30) DEF Most, Maximum
    <3> QED BY <3>2, <3>3, SMTT(30)
  <2> QED BY <2>1, <2>2, ZenonT(30)
<1>2. Spec => [](IInv /\ QInv /\ SInv /\ TInv)
  BY TableInvariance, SMTT(30)
<1>3. Spec => [](BoundInv /\ HeldInv)
  BY HeldInvariance, SMTT(30)
<1> QED BY <1>1, <1>2, <1>3, PTL

\* What is known of recorded evictions, in every reachable state.
LEMMA UnmapInvariance ==
  ASSUME ~(Async /\ AllowReset), ReclaimWorks
  PROVE  Spec => []UnmapInv
<1> DEFINE Base == IInv /\ QInv /\ SInv /\ TInv
<1>1. Init => UnmapInv
  BY InitMap, Zenon
<1>2. Base /\ StrandInv /\ UnmapInv /\ [Next]_vars => UnmapInv'
  BY PendingKeeps, PoppedKeeps, RowsKeep, Zenon DEF UnmapInv, TInv
<1>3. Spec => []Base
  BY TableInvariance, SMTT(30)
<1>4. Spec => []StrandInv
  BY StrandInvariance, SMTT(30)
<1> QED BY <1>1, <1>2, <1>3, <1>4, PTL DEF Spec

\* skive_reclaim never takes a block that the worker still reads: when a recorded
\* eviction is applied, the request is gone, or its row has that entry null, also
\* after the request was preempted and re-admitted with new blocks in between.  For
\* every configuration but forced resets of an asynchronous engine, where the record
\* can be stale.
THEOREM ReclaimHitsUnmapped ==
  ASSUME ~(Async /\ AllowReset), ReclaimWorks
  PROVE  Spec => []ReclaimUnmapped
<1>1. IInv /\ QInv /\ SInv /\ TInv /\ UnmapInv => ReclaimUnmapped
  <2> SUFFICES ASSUME IInv, QInv, PoppedInv,
                      NEW item \in popped, Reclaimable(item[1], item[2]), item[2] \in DOMAIN row[item[1]]
               PROVE  row[item[1]][item[2]] = NullBlock
    BY Zenon DEF ReclaimUnmapped, UnmapInv
  <2>1. popped \subseteq Requests \X Nat
    BY Zenon DEF IInv, TypeOK, EngineTypeOK
  <2>2. PICK r \in Requests, j \in Nat : item = <<r, j>>
    BY <2>1, SMTT(30)
  <2>3. item[1] = r /\ item[2] = j
    BY <2>2, SMTT(30)
  <2>4. req_to_blocks[r] # <<>>
    <3>1. j \in DOMAIN req_to_blocks[r]
      BY <2>3, ZenonT(30) DEF Reclaimable
    <3> QED BY <3>1, SMTT(30)
  <2>5. status[r] = "RUNNING"
    BY <2>4, Zenon DEF QInv, QueuesMatchStatus
  <2> QED BY <2>2, <2>3, <2>5, Zenon DEF PoppedInv, Unmapped
<1>2. Spec => [](IInv /\ QInv /\ SInv /\ TInv)
  BY TableInvariance, SMTT(30)
<1>3. Spec => []UnmapInv
  BY UnmapInvariance, SMTT(30)
<1> QED BY <1>1, <1>2, <1>3, PTL

\* Under the default scheduling every running request stays in the worker's batch
\* until the token in flight ends it.
LEMMA CoverInvariance ==
  ASSUME DefaultScheduling
  PROVE  Spec => []CInv
<1> DEFINE Base == IInv /\ QInv /\ SInv /\ TInv
<1>1. Base /\ Base' /\ CInv /\ [Next]_vars => CInv'
  <2> SUFFICES ASSUME Base, Base', CInv, [Next]_vars
               PROVE  CInv'
    BY Zenon
  <2>1. GapInv'
    BY GapKeeps, Zenon DEF CInv
  <2>2. ChunkInv'
    BY ChunkKeeps, Zenon DEF CInv, CoverInv
  <2>3. CoverInv'
    BY CoverKeeps, Zenon DEF CInv, TInv
  <2> QED BY <2>1, <2>2, <2>3, Zenon DEF CInv
<1>2. Spec => []Base
  BY TableInvariance, SMTT(30)
<1> QED BY <1>1, <1>2, InitCover, PTL DEF Spec

\* Without working reclaims nothing is ever popped.
LEMMA PoppedInvariance ==
  ASSUME ReclaimWorks => ~(Async /\ AllowReset)
  PROVE  Spec => []PoppedInv
<1>1. CASE ReclaimWorks
  <2>1. Spec => []UnmapInv
    BY <1>1, UnmapInvariance, SMTT(30)
  <2>2. UnmapInv => PoppedInv
    BY Zenon DEF UnmapInv
  <2> QED BY <2>1, <2>2, PTL
<1>2. CASE ~ReclaimWorks
  <2> DEFINE None == popped = {}
  <2>1. Init => None
    BY ZenonT(30) DEF Init
  <2>2. None /\ [Next]_vars => None'
    BY <1>2, ZenonT(30) DEF Next, EngineStep, ScheduleStep, Quiet, FinishSchedule, ExecuteStep,
       EndExecute, OutputStep, AwaitOutput, TakeOutput, UpdateFromOutput, PopPending, EndStep,
       ResetPreempt, ResetDone, ClientStep, AddRequest, Abort, PauseScheduler, ResumeScheduler,
       ResetPrefixCache, WaitForInput, vars, engineVars
  <2>3. None => PoppedInv
    BY Zenon DEF PoppedInv
  <2> QED BY <2>1, <2>2, <2>3, PTL DEF Spec
<1> QED BY <1>1, <1>2, Zenon

\* The two tables agree entry by entry.
LEMMA MapInvariance ==
  ASSUME DefaultScheduling, ReclaimWorks => ~(Async /\ AllowReset)
  PROVE  Spec => []MapInv
<1> DEFINE Base == IInv /\ QInv /\ SInv /\ TInv
           Inv == NewInv /\ MapInv
<1>1. Init => Inv
  BY InitMap, Zenon
<1>2. Base /\ Base' /\ CInv /\ PoppedInv /\ Inv /\ [Next]_vars => Inv'
  <2> SUFFICES ASSUME Base, Base', CInv, PoppedInv, Inv, [Next]_vars
               PROVE  Inv'
    BY Zenon
  <2>1. NoReAdd
    BY CoveredStay, Zenon DEF CInv
  <2>2. NewInv'
    BY NewKeeps, Zenon DEF SInv
  <2>3. MapInv'
    BY <2>1, MapKeeps, Zenon DEF TInv
  <2> QED BY <2>2, <2>3, Zenon
<1>3. Spec => []Base
  BY TableInvariance, SMTT(30)
<1>4. Spec => []CInv
  BY CoverInvariance, SMTT(30)
<1>5. Spec => []PoppedInv
  BY PoppedInvariance, SMTT(30)
<1> QED BY <1>1, <1>2, <1>3, <1>4, <1>5, PTL DEF Spec

\* The forward pass reads only the request's own blocks: under the default scheduling
\* every entry of a scheduled row is null or the very block the scheduler holds there,
\* for any number of requests and blocks, after every sequence of preemption,
\* re-admission, eviction and reclaim (_update_states, append_row,
\* evict_request_blocks against req_to_blocks).
THEOREM ForwardOwned ==
  ASSUME DefaultScheduling, ReclaimWorks => ~(Async /\ AllowReset)
  PROVE  Spec => []ForwardReadsOwnBlocks
<1>1. IInv /\ QInv /\ SInv /\ TInv /\ MapInv => ForwardReadsOwnBlocks
  <2> SUFFICES ASSUME IInv, QInv, SInv, LenInv, MapInv, pc = "hook", NEW r \in Scheduled
               PROVE  /\ Len(row[r]) = Len(req_to_blocks[r])
                      /\ \A j \in DOMAIN row[r] : row[r][j] \in {NullBlock, req_to_blocks[r][j]}
    BY Zenon DEF ForwardReadsOwnBlocks, TInv
  <2>1. r \in Requests /\ r \in Lists
    BY ZenonT(30) DEF Scheduled, SInv, TokenInv, TokensOf
  <2>2. status[r] = "RUNNING" /\ Loaded
    BY <2>1, Zenon DEF SInv, ListInv, QInv, QueuesMatchStatus, Loaded
  <2>3. Len(row[r]) = Len(req_to_blocks[r])
    BY <2>1, <2>2, Zenon DEF LenInv, LenOf
  <2>4. DOMAIN row[r] = DOMAIN req_to_blocks[r]
    <3>1. row[r] \in Seq(Entries) /\ req_to_blocks[r] \in Seq(Entries)
      BY <2>1, Zenon DEF IInv, TypeOK, WorkerTypeOK, KVTypeOK
    <3> QED BY <2>3, <3>1, LenProperties, Zenon
  <2>5. \A j \in DOMAIN row[r] : row[r][j] # NullBlock => row[r][j] = req_to_blocks[r][j]
    BY <2>1, <2>2, <2>4, Zenon DEF MapInv, MapOf
  <2> QED BY <2>3, <2>5, Zenon
<1>2. Spec => [](IInv /\ QInv /\ SInv /\ TInv)
  BY TableInvariance, SMTT(30)
<1>3. Spec => []MapInv
  BY MapInvariance, SMTT(30)
<1> QED BY <1>1, <1>2, <1>3, PTL

\* Between steps the worker's table and the scheduler's agree entry by entry for every
\* running request in the batch, but for the evictions still to be reclaimed, under
\* the default scheduling (append_row, add_row, allocate_new_blocks, skive_reclaim).
THEOREM TablesAgree ==
  ASSUME DefaultScheduling, ReclaimWorks => ~(Async /\ AllowReset)
  PROVE  Spec => []ReclaimAgreement
<1>1. IInv /\ QInv /\ SInv /\ TInv /\ MapInv => ReclaimAgreement
  <2> SUFFICES ASSUME IInv, QInv, SInv, LenInv, RecordInv, MapInv, pc = "idle",
                      NEW r \in Elems(running), InBatch(r)
               PROVE  /\ Len(row[r]) = Len(req_to_blocks[r])
                      /\ \A j \in DOMAIN row[r] :
                           \/ row[r][j] = req_to_blocks[r][j]
                           \/ row[r][j] = NullBlock /\ <<r, j>> \in pending
    BY Zenon DEF ReclaimAgreement, TInv
  <2>1. r \in Requests /\ status[r] = "RUNNING"
    BY Zenon DEF QInv, QueuesMatchStatus
  <2>2. ~Loaded /\ ~InSchedule /\ ~InExecute /\ pc # "reclaim"
    BY SMTT(30) DEF Loaded, InSchedule, InExecute
  <2>3. Lists = {} /\ popped = {}
    BY <2>2, ZenonT(30) DEF SInv, ListInv, BatchInv
  <2>4. r \notin Fresh
    BY <2>3, Zenon DEF Lists, Fresh
  <2>5. Pre(r) + num_scheduled_tokens[r] = Pre(r)
    <3>1. ~(num_scheduled_tokens[r] > 0) /\ 0 <= num_scheduled_tokens[r]
      BY <2>1, <2>3, Zenon DEF SInv, TokenInv, TokensOf
    <3>2. Pre(r) \in Int /\ num_scheduled_tokens[r] \in Int
      BY <2>1, CountTypes, SMTT(30) DEF Pre
    <3> QED BY <3>1, <3>2, SMTT(30)
  <2>6. Len(row[r]) = Len(req_to_blocks[r])
    BY <2>1, <2>2, <2>4, <2>5, Zenon DEF LenInv, LenOf
  <2>7. DOMAIN row[r] = DOMAIN req_to_blocks[r]
    <3>1. row[r] \in Seq(Entries) /\ req_to_blocks[r] \in Seq(Entries)
      BY <2>1, ZenonT(30) DEF IInv, TypeOK, WorkerTypeOK, KVTypeOK
    <3> QED BY <2>6, <3>1, LenProperties, Zenon
  <2>8. \A j \in DOMAIN row[r] : row[r][j] # NullBlock => row[r][j] = req_to_blocks[r][j]
    BY <2>1, <2>4, <2>7, Zenon DEF MapInv, MapOf
  <2>9. \A j \in DOMAIN row[r] :
          row[r][j] = NullBlock /\ req_to_blocks[r][j] # NullBlock => <<r, j>> \in pending
    BY <2>1, <2>3, <2>4, <2>7, Zenon DEF RecordInv, RecordOf
  <2> QED BY <2>6, <2>8, <2>9, Zenon
<1>2. Spec => [](IInv /\ QInv /\ SInv /\ TInv)
  BY TableInvariance
<1>3. Spec => []MapInv
  BY MapInvariance, SMTT(30)
<1> QED BY <1>1, <1>2, <1>3, PTL
=============================================================================
