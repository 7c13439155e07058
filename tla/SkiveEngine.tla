---------------------------- MODULE SkiveEngine ----------------------------
(***************************************************************************)
(* EngineCore.step (Async = FALSE) and step_with_batch_queue (Async, a     *)
(* queue of two batches): schedule, execute, SKIVE's hook, then the oldest *)
(* batch's output and the reclaim of evicted blocks.  Clients act between  *)
(* steps, and aborts also just before an output is applied.                *)
(***************************************************************************)
EXTENDS Worker

CONSTANTS
  ReclaimWorks,  \* collective_rpc(..., single_value=True) is accepted by the executor
  AllowAbort, AllowPause, AllowReset   \* which client calls are made

ASSUME EngineAssumption ==
  ReclaimWorks \in BOOLEAN /\ AllowAbort \in BOOLEAN
    /\ AllowPause \in BOOLEAN /\ AllowReset \in BOOLEAN

VARIABLES
  batch_queue,   \* the sampled requests of each batch in flight, oldest first
  to_update,     \* sampled requests of the output being applied
  popped         \* pending frees handed to skive_reclaim

engineVars == <<batch_queue, to_update, popped>>
vars == <<kvVars, schedVars, workerVars, engineVars>>

BatchQueueSize == IF Async THEN 2 ELSE 1

Init ==
  /\ KVInit
  /\ SchedInit
  /\ WorkerInit
  /\ batch_queue = <<>>
  /\ to_update = {}
  /\ popped = {}

-----------------------------------------------------------------------------
(* Client calls *)

AddRequest(r) == pc = "idle" /\ add_request(r) /\ UNCHANGED <<workerVars, engineVars>>

Abort(r) ==
  /\ AllowAbort
  /\ pc \in {"idle", "aborts"}
  /\ finish_requests(r)
  /\ UNCHANGED <<workerVars, engineVars>>

\* pause_scheduler: modes "wait" (PAUSED_NEW) and "keep" (PAUSED_ALL)
PauseScheduler ==
  /\ AllowPause
  /\ pc = "idle"
  /\ pause_state = "UNPAUSED"
  /\ \E p \in {"PAUSED_NEW", "PAUSED_ALL"} : set_pause_state(p)
  /\ UNCHANGED <<workerVars, engineVars>>

ResumeScheduler ==
  /\ AllowPause
  /\ pc = "idle"
  /\ pause_state # "UNPAUSED"
  /\ set_pause_state("UNPAUSED")
  /\ UNCHANGED <<workerVars, engineVars>>

ResetPrefixCache ==
  /\ AllowReset
  /\ pc = "idle"
  /\ pc' = "reset"
  /\ UNCHANGED <<kvVars, reqVars, queueVars, loopVars, outVars, workerVars, engineVars>>

ResetPreempt ==
  /\ pc = "reset"
  /\ reset_preempt
  /\ UNCHANGED <<pc, workerVars, engineVars>>

ResetDone ==
  /\ pc = "reset"
  /\ reset_done
  /\ pc' = "idle"
  /\ UNCHANGED <<workerVars, engineVars>>

-----------------------------------------------------------------------------
(* One engine step *)

\* schedule() and the forward pass leave the engine core's own state alone.
Quiet == UNCHANGED <<workerVars, engineVars>>

\* The batch enters the queue with the requests that get a token from it.
FinishSchedule ==
  /\ finish_schedule
  /\ batch_queue' = Append(batch_queue, Sampled)
  /\ UNCHANGED <<workerVars, to_update, popped>>

ClearScheduleLocals ==
  /\ req_index' = 1
  /\ token_budget' = 0
  /\ preempted' = FALSE
  /\ num_scheduled_tokens' = [r \in Requests |-> 0]
  /\ req_to_new_blocks' = [r \in Requests |-> <<>>]
  /\ scheduled_new_reqs' = {}
  /\ scheduled_resumed_reqs' = {}
  /\ scheduled_running_reqs' = {}
  /\ finished_out' = {}

\* A queue with room, after a batch that ran or with more requests to serve, is
\* filled first: step_with_batch_queue returns before any output and any reclaim.
EndExecute ==
  /\ pc = "end"
  /\ over_rows = {}
  /\ pc' = IF Len(batch_queue) < BatchQueueSize /\ (Scheduled # {} \/ has_requests)
           THEN "idle" ELSE "aborts"
  /\ ClearScheduleLocals
  /\ UNCHANGED <<kvVars, reqVars, queueVars, cur, num_new_tokens, workerVars, engineVars>>

\* Nothing to schedule, a batch in flight: wait for its output.
AwaitOutput ==
  /\ pc = "idle"
  /\ ~has_requests
  /\ batch_queue # <<>>
  /\ pc' = "aborts"
  /\ UNCHANGED <<kvVars, reqVars, queueVars, loopVars, outVars, workerVars, engineVars>>

TakeOutput ==
  /\ pc = "aborts"
  /\ batch_queue # <<>>
  /\ to_update' = Head(batch_queue)
  /\ batch_queue' = Tail(batch_queue)
  /\ pc' = "output"
  /\ UNCHANGED <<kvVars, reqVars, queueVars, loopVars, outVars, workerVars, popped>>

UpdateFromOutput(r) ==
  /\ pc = "output"
  /\ r \in to_update
  /\ \E stop \in BOOLEAN : update_from_output(r, stop)
  /\ to_update' = to_update \ {r}
  /\ UNCHANGED <<pc, loopVars, outVars, workerVars, batch_queue, popped>>

\* Mutant: the list is cleared and not returned.
PopPending_lost ==
  /\ pc = "output"
  /\ to_update = {}
  /\ pending' = {}
  /\ pc' = "idle"
  /\ UNCHANGED <<kvVars, reqVars, queueVars, loopVars, outVars, block_ids, row, skive_step,
                 over_rows, engineVars>>

\* Mutant: no reclaim without an unfinished request.
PopPending_if_busy ==
  /\ pc = "output"
  /\ to_update = {}
  /\ IF get_num_unfinished_requests > 0
     THEN popped' = pending /\ pending' = {} /\ pc' = "reclaim"
     ELSE pc' = "idle" /\ UNCHANGED <<popped, pending>>
  /\ UNCHANGED <<kvVars, reqVars, queueVars, loopVars, outVars, block_ids, row, skive_step,
                 over_rows, batch_queue, to_update>>

\* collective_rpc(_skive_pop_pending); an executor without single_value raises
\* TypeError, which is swallowed.
PopPending ==
  /\ pc = "output"
  /\ to_update = {}
  /\ IF ReclaimWorks THEN popped' = pending /\ pending' = {} /\ pc' = "reclaim"
                     ELSE pc' = "idle" /\ UNCHANGED <<popped, pending>>
  /\ UNCHANGED <<kvVars, reqVars, queueVars, loopVars, outVars, block_ids, row, skive_step,
                 over_rows, batch_queue, to_update>>

\* skive_reclaim frees nothing for an entry that is gone or null already.
Reclaimable(r, j) == j \in DOMAIN req_to_blocks[r] /\ req_to_blocks[r][j] # NullBlock

\* Mutant: the block is freed and the entry still points at it.
FreeEntry_not_nulled(r, j) == free_blocks(r, {j}) /\ UNCHANGED req_to_blocks

FreeEntry(r, j) ==
  /\ free_blocks(r, {j})
  /\ req_to_blocks' = [req_to_blocks EXCEPT ![r] = NullOut(@, NullBlock, {j})]

skive_reclaim(r, j) ==
  /\ pc = "reclaim"
  /\ <<r, j>> \in popped
  /\ popped' = popped \ {<<r, j>>}
  /\ \/ /\ Reclaimable(r, j)
        /\ FreeEntry(r, j)
     \/ /\ ~Reclaimable(r, j)
        /\ UNCHANGED kvVars
  /\ UNCHANGED <<schedVars, workerVars, batch_queue, to_update>>

EndStep ==
  /\ pc = "reclaim"
  /\ popped = {}
  /\ pc' = "idle"
  /\ UNCHANGED <<kvVars, reqVars, queueVars, loopVars, outVars, workerVars, engineVars>>

\* run_busy_loop blocks on its input queue while there is no work.
WaitForInput ==
  /\ pc = "idle"
  /\ ~has_requests
  /\ batch_queue = <<>>
  /\ UNCHANGED vars

-----------------------------------------------------------------------------
ScheduleStep ==
  \/ start_schedule /\ Quiet
  \/ running_skip /\ Quiet
  \/ running_pick /\ Quiet
  \/ running_allocate /\ Quiet
  \/ running_preempt /\ Quiet
  \/ running_done /\ Quiet
  \/ waiting_admit /\ Quiet
  \/ waiting_done /\ Quiet
  \/ FinishSchedule

ExecuteStep ==
  \/ update_states /\ UNCHANGED engineVars
  \/ skive_check /\ UNCHANGED engineVars
  \/ \E r \in Requests : evict_request_blocks(r) /\ UNCHANGED engineVars
  \/ EndExecute

OutputStep ==
  \/ AwaitOutput
  \/ TakeOutput
  \/ \E r \in Requests : UpdateFromOutput(r)
  \/ PopPending
  \/ \E item \in popped : skive_reclaim(item[1], item[2])
  \/ EndStep

EngineStep == ScheduleStep \/ ExecuteStep \/ OutputStep \/ ResetPreempt \/ ResetDone

ClientStep ==
  \/ \E r \in Requests : AddRequest(r)
  \/ \E r \in Requests : Abort(r)
  \/ PauseScheduler
  \/ ResumeScheduler
  \/ ResetPrefixCache

Next == EngineStep \/ ClientStep \/ WaitForInput

Spec == Init /\ [][Next]_vars

\* The busy loop keeps taking steps; clients promise nothing.
FairSpec == Spec /\ WF_vars(EngineStep)

-----------------------------------------------------------------------------
Phases == {"idle", "reset", "running", "alloc", "waiting", "finish", "execute", "hook", "end",
           "aborts", "output", "reclaim"}

Statuses == Live \cup {"NONE", "FINISHED"}

ReqTypeOK ==
  /\ status \in [Requests -> Statuses]
  /\ num_tokens \in [Requests -> Int]
  /\ num_computed_tokens \in [Requests -> Int]
  /\ num_output_placeholders \in [Requests -> Int]
  /\ async_tokens_to_discard \in [Requests -> Int]

QueueTypeOK ==
  /\ waiting \in Seq(Requests)
  /\ running \in Seq(Requests)
  /\ finished_req_ids \in SUBSET Requests
  /\ pause_state \in {"UNPAUSED", "PAUSED_NEW", "PAUSED_ALL"}
  /\ prev_step_scheduled_req_ids \in SUBSET Requests

LoopTypeOK ==
  /\ pc \in Phases
  /\ req_index \in Int
  /\ cur \in Requests \cup {NoRequest}
  /\ pc = "alloc" => cur \in Requests
  /\ num_new_tokens \in Int
  /\ token_budget \in Int
  /\ preempted \in BOOLEAN

OutTypeOK ==
  /\ num_scheduled_tokens \in [Requests -> Int]
  /\ req_to_new_blocks \in [Requests -> Seq(Entries)]
  /\ scheduled_new_reqs \in SUBSET Requests
  /\ scheduled_resumed_reqs \in SUBSET Requests
  /\ scheduled_running_reqs \in SUBSET Requests
  /\ finished_out \in SUBSET Requests

WorkerTypeOK ==
  /\ block_ids \in [Requests -> Seq(Entries)]
  /\ row \in [Requests -> Seq(Entries)]
  /\ pending \in SUBSET (Requests \X Nat)
  /\ skive_step \in 0..(EvictEvery - 1)
  /\ over_rows \in SUBSET Requests

EngineTypeOK ==
  /\ batch_queue \in Seq(SUBSET Requests)
  /\ to_update \in SUBSET Requests
  /\ popped \in SUBSET (Requests \X Nat)

\* Every variable keeps its type.
TypeOK ==
  KVTypeOK /\ ReqTypeOK /\ QueueTypeOK /\ LoopTypeOK /\ OutTypeOK /\ WorkerTypeOK /\ EngineTypeOK

\* During a forward pass, every block-table entry the kernel may follow is
\* either null or the very block the scheduler holds for that entry of that
\* request: after preemption, re-admission, eviction and reclaim no row points
\* at a block that is free or has another owner (_update_states, append_row,
\* evict_request_blocks against req_to_blocks).
ForwardReadsOwnBlocks ==
  pc = "hook" =>
    \A r \in Scheduled :
      /\ Len(row[r]) = Len(req_to_blocks[r])
      /\ \A j \in DOMAIN row[r] : row[r][j] \in {NullBlock, req_to_blocks[r][j]}

\* The entry that holds the KV slot of token position p (0-based).
EntryOf(p) == (p \div BlockSize) + 1

\* No scheduled token's K/V goes to the null block: its slot (compute_slot_mapping)
\* lies in a block the request owns, so block 0 stays all zeros.
NullNeverWritten ==
  pc = "hook" =>
    \A r \in Scheduled :
      \A p \in (num_computed_tokens[r] - num_scheduled_tokens[r])..(num_computed_tokens[r] - 1) :
        /\ EntryOf(p) \in DOMAIN row[r]
        /\ row[r][EntryOf(p)] # NullBlock

\* The compacted gather of a decode row ends exactly at the newest token: the
\* reduced length fills the retained blocks up to the block and offset where
\* that token was written (compact_block_table_torch).
CompactGatherExact ==
  pc = "hook" =>
    \A r \in {q \in Scheduled : num_scheduled_tokens[q] = 1} :
      LET seq_len == num_computed_tokens[r]
          gather  == compact_row(row[r], NullBlock, seq_len, BlockSize)
          kept    == compact_seq_len(row[r], NullBlock, seq_len, BlockSize)
      IN  /\ CeilDiv(kept, BlockSize) = Len(gather)
          /\ gather # <<>>
          /\ gather[Len(gather)] = row[r][EntryOf(seq_len - 1)]
          /\ (kept - 1) % BlockSize = (seq_len - 1) % BlockSize

\* The first Sink entries of a row (and, with ProtectPrompt, all of the prompt's)
\* are never evicted, however often the row is trimmed.
SinksKept ==
  \A r \in Requests : \A j \in DOMAIN row[r] : j <= SinkOf(r) => row[r][j] # NullBlock

\* Between steps the worker's table and the scheduler's agree entry by entry for
\* every running request in the batch, but for the evictions whose reclaim is
\* still pending (append_row / add_row against allocate_new_blocks / skive_reclaim).
ReclaimAgreement ==
  pc = "idle" =>
    \A r \in Elems(running) :
      InBatch(r) =>
        /\ Len(row[r]) = Len(req_to_blocks[r])
        /\ \A j \in DOMAIN row[r] :
             \/ row[r][j] = req_to_blocks[r][j]
             \/ row[r][j] = NullBlock /\ <<r, j>> \in pending

\* No request is Margin or more blocks over its budget, neither in its row once
\* the hook is done (eviction is deferred only below the margin and otherwise goes
\* all the way down) nor, after a synchronous step, in the pool: what the hook
\* evicted is back (skive_post_step, plan_eviction, skive_reclaim).
HeldBound ==
  LET most == Budget + Maximum(Margin - 1, 0)
  IN  \A r \in Requests :
        /\ pc = "end" /\ over_rows = {} => RealCount(r) <= most
        /\ pc = "idle" => Cardinality(real_indices(req_to_blocks[r], NullBlock)) <= most

\* The engine never goes to sleep on evictions it has not reclaimed, although
\* step_with_batch_queue may return before its reclaim.
NoStrandedEvictions ==
  pc = "idle" /\ ~has_requests /\ batch_queue = <<>> => pending = {}

\* skive_reclaim frees only blocks that the worker's row of that request no
\* longer maps: a record of an old eviction never takes a block the request
\* has been given since.
ReclaimUnmapped ==
  pc = "reclaim" =>
    \A item \in popped :
      LET r == item[1]
          j == item[2]
      IN  Reclaimable(r, j) /\ j \in DOMAIN row[r] => row[r][j] = NullBlock

\* The assertions at the end of schedule(), that every scheduled request is in
\* exactly one of the three lists and still running, and the assertion of
\* _make_cached_request_data that a request resumed from preemption was not
\* scheduled in the previous step.
ScheduleAsserts ==
  pc = "finish" =>
    /\ token_budget >= 0
    /\ Len(running) <= MaxRunning
    /\ Scheduled = scheduled_new_reqs \cup scheduled_resumed_reqs \cup scheduled_running_reqs
    /\ Scheduled \subseteq Elems(running)
    /\ scheduled_new_reqs \cap scheduled_running_reqs = {}
    /\ scheduled_resumed_reqs \cap scheduled_running_reqs = {}
    /\ scheduled_resumed_reqs \cap prev_step_scheduled_req_ids = {}

\* A request is in exactly the queue its status says, once; one that is not
\* running holds no blocks.
QueuesMatchStatus ==
  /\ Elems(running) = {r \in Requests : status[r] = "RUNNING"}
  /\ Elems(waiting) = {r \in Requests : status[r] \in {"WAITING", "PREEMPTED"}}
  /\ NoDuplicates(running)
  /\ NoDuplicates(waiting)
  /\ \A r \in Requests : status[r] # "RUNNING" => req_to_blocks[r] = <<>>

\* reset_prefix_cache can succeed: once the running requests are preempted
\* every block is back in the pool, as BlockPool.reset_prefix_cache demands.
ResetFindsPoolFree == pc = "reset" /\ running = <<>> => free = Blocks

\* Async bookkeeping: the placeholders and the outputs to discard of a live
\* request are exactly its sampled tokens still in flight.
PlaceholdersMatchInFlight ==
  pc = "idle" =>
    \A r \in {q \in Requests : status[q] \in Live} :
      num_output_placeholders[r] + async_tokens_to_discard[r] =
        IF Async THEN Cardinality({i \in DOMAIN batch_queue : r \in batch_queue[i]}) ELSE 0


\* Every request added finishes, although preemption restarts requests and the
\* pool cannot hold them all, provided a pause is not left on for ever.
EveryRequestFinishes ==
  <>[](pause_state = "UNPAUSED") =>
    \A r \in Requests : status[r] \in Live ~> status[r] = "FINISHED"
============================================================================
