------------------------------- MODULE Worker -------------------------------
(***************************************************************************)
(* The worker: GPUModelRunner._update_states on the cached requests and    *)
(* the full-attention BlockTable, and SKIVE's post-step hook               *)
(* (vllm/kv_evict/integration.py), which nulls block-table entries and     *)
(* records them for the engine core to free.                               *)
(*                                                                         *)
(* A batch row is keyed by its request instead of its index: condense and  *)
(* swap move rows without changing them.  Scores are abstracted: any set   *)
(* of candidates of the planned size may be the lowest-scored one.         *)
(***************************************************************************)
EXTENDS Scheduler, Selection

CONSTANTS
  Budget, Sink, Local,   \* EvictionConfig
  EvictEvery, Margin,    \* SKIVE_EVICT_EVERY, SKIVE_EVICT_MARGIN
  ProtectPrompt          \* SKIVE_PROTECT_PROMPT

ASSUME WorkerAssumption ==
  /\ Budget \in Nat /\ Sink \in Nat /\ Local \in Nat
  /\ ValidEvictionConfig(BlockSize, Budget, Sink, Local)
  /\ EvictEvery \in Nat \ {0}
  /\ Margin \in Nat
  /\ ProtectPrompt \in BOOLEAN

VARIABLES
  block_ids,    \* CachedRequestState.block_ids; <<>> = not cached
  row,          \* the BlockTable row; <<>> = not in the batch
  pending,      \* _skive_pending_free, entries <<request, index>>
  skive_step,   \* _skive_step, modulo EvictEvery
  over_rows     \* rows the hook has still to evict from

workerVars == <<block_ids, row, pending, skive_step, over_rows>>

WorkerInit ==
  /\ block_ids = [r \in Requests |-> <<>>]
  /\ row = [r \in Requests |-> <<>>]
  /\ pending = {}
  /\ skive_step = 0
  /\ over_rows = {}

InBatch(r) == row[r] # <<>>

\* CachedRequestState.block_ids after _update_states
UpdatedBlockIds(r) ==
  IF r \in scheduled_new_reqs \cup scheduled_resumed_reqs THEN req_to_new_blocks[r]
  ELSE IF r \in scheduled_running_reqs THEN block_ids[r] \o req_to_new_blocks[r]
  ELSE IF r \in finished_out THEN <<>>
  ELSE block_ids[r]

\* Mutant: a resumed request found in the batch has its old row extended.
UpdatedRow_resumed_appended(r) ==
  IF r \in Scheduled /\ InBatch(r) THEN row[r] \o req_to_new_blocks[r]
  ELSE IF r \in Scheduled THEN UpdatedBlockIds(r)
  ELSE <<>>

\* A scheduled running request still in the batch has its row extended; any other
\* scheduled one is (re-)added from its cached block ids; the rest leave the batch.
UpdatedRow(r) ==
  IF r \in scheduled_running_reqs /\ InBatch(r) THEN row[r] \o req_to_new_blocks[r]
  ELSE IF r \in Scheduled THEN UpdatedBlockIds(r)
  ELSE <<>>

\* execute_model: an output without tokens ends after _update_states.
update_states ==
  /\ pc = "execute"
  /\ block_ids' = [r \in Requests |-> UpdatedBlockIds(r)]
  /\ row' = [r \in Requests |-> UpdatedRow(r)]
  /\ pc' = IF Scheduled # {} THEN "hook" ELSE "end"
  /\ UNCHANGED <<kvVars, reqVars, queueVars, loopVars, outVars, pending, skive_step, over_rows>>

RealCount(r) == Cardinality(real_indices(row[r], NullBlock))

OverBudget == {r \in Requests : RealCount(r) > Budget}

\* skive_post_step up to its eviction loop: eviction is deferred to every
\* EvictEvery-th step unless some row is Margin or more over budget.
skive_check ==
  /\ pc = "hook"
  /\ skive_step' = (skive_step + 1) % EvictEvery
  /\ over_rows' = IF skive_step' = 0 \/ \E r \in OverBudget : RealCount(r) - Budget >= Margin
                  THEN OverBudget ELSE {}
  /\ pc' = "end"
  /\ UNCHANGED <<kvVars, reqVars, queueVars, loopVars, outVars, block_ids, row, pending>>

\* The sink of evict_request_blocks, which may cover the prompt.
SinkOf(r) ==
  IF ProtectPrompt THEN Maximum(Sink, CeilDiv(PromptLen[r], BlockSize) + 1) ELSE Sink

\* Mutant: the rank among the real blocks is recorded, not the logical index.
Records_ranks(r, J) == {r} \X {RealRank(row[r], NullBlock, j) : j \in J}

\* Mutant: evictions are not recorded.
Records_nothing(r, J) == {}

\* What the hook records for the nulled entries J of request r.
Records(r, J) == {r} \X J

\* evict_request_blocks and the recording of what it nulled
evict_request_blocks(r) ==
  /\ pc = "end"
  /\ r \in over_rows
  /\ \E J \in SUBSET candidates(row[r], NullBlock, SinkOf(r), Local) :
       /\ Cardinality(J) = num_to_evict(row[r], NullBlock, SinkOf(r), Local, Budget)
       /\ row' = [row EXCEPT ![r] = NullOut(@, NullBlock, J)]
       /\ pending' = pending \cup Records(r, J)
  /\ over_rows' = over_rows \ {r}
  /\ UNCHANGED <<kvVars, pc, reqVars, queueVars, loopVars, outVars, block_ids, skive_step>>
=============================================================================
