-------------------------- MODULE EngineInvariants --------------------------
(***************************************************************************)
(* The inductive invariants of the engine: what the safety properties of   *)
(* SkiveEngine need to be preserved by every step.                         *)
(***************************************************************************)
EXTENDS SkiveEngine

\* The inductive invariant: PoolConsistent needs the types, and the types of
\* ref_cnt and free need the accounting (a block is freed at most once).
IInv == TypeOK /\ PoolConsistent

-----------------------------------------------------------------------------
(* The scheduler: QInv and SInv *)

\* What the queues' agreement rests on: the request being allocated for is one
\* of the running ones.
QInv == QueuesMatchStatus /\ (pc = "alloc" => cur \in Elems(running))

InSchedule == pc \in {"running", "alloc", "waiting", "finish"}

\* The worker has the batch that schedule() has made.
InExecute == pc \in {"execute", "hook", "end"}

Lists == scheduled_new_reqs \cup scheduled_resumed_reqs \cup scheduled_running_reqs

\* Where in a step the queue of batches may be full, and when the outputs to
\* apply, the blocks to reclaim and the rows to trim are empty.
BatchInv ==
  /\ Len(batch_queue) <= BatchQueueSize
  /\ ~InExecute /\ pc # "aborts" => Len(batch_queue) < BatchQueueSize
  /\ InExecute => batch_queue # <<>>
  /\ pc # "output" => to_update = {}
  /\ pc # "reclaim" => popped = {}
  /\ pc # "end" => over_rows = {}

\* Token counts: a request is never computed further than its known and its
\* in-flight tokens, and it has tokens and new blocks in this step exactly when it
\* is in one of the three lists.
TokensOf(r) ==
  /\ 0 <= num_computed_tokens[r] /\ 0 <= num_scheduled_tokens[r] /\ 0 <= num_tokens[r]
  /\ num_computed_tokens[r] + (IF InSchedule THEN num_scheduled_tokens[r] ELSE 0)
       <= num_tokens[r] + num_output_placeholders[r]
  /\ status[r] \in Live => num_tokens[r] > 0
  /\ status[r] # "RUNNING" => num_computed_tokens[r] = 0
  /\ num_scheduled_tokens[r] > 0 <=> r \in Lists
  /\ r \notin Lists => req_to_new_blocks[r] = <<>>

TokenInv == \A r \in Requests : TokensOf(r)

\* The lists of schedule() hold running requests, each in one list.
ListInv ==
  /\ token_budget >= 0
  /\ Len(running) <= MaxRunning
  /\ ~InSchedule /\ ~InExecute => Lists = {} /\ req_index = 1 /\ ~preempted
  /\ pc \in {"running", "alloc"} => scheduled_new_reqs = {} /\ scheduled_resumed_reqs = {}
  /\ pc = "waiting" => ~preempted
  /\ Lists \subseteq Elems(running)
  /\ scheduled_running_reqs \cap (scheduled_new_reqs \cup scheduled_resumed_reqs) = {}

\* The running loop never comes back to a request: the scheduled ones are behind
\* req_index, also after a preemption has moved the queue.
IndexInv ==
  /\ pc \in {"running", "alloc"} =>
       \A i \in DOMAIN running : running[i] \in scheduled_running_reqs => i < req_index
  /\ pc = "alloc" =>
       /\ cur \notin scheduled_running_reqs
       /\ \E i \in DOMAIN running :
            running[i] = cur /\ i <= req_index /\ (Policy # "priority" => i = req_index)
       /\ 0 < num_new_tokens /\ num_new_tokens <= token_budget
       /\ num_computed_tokens[cur] + num_new_tokens
            <= num_tokens[cur] + num_output_placeholders[cur]

\* A request preempted before this schedule() was not scheduled in the step before.
PrevInv ==
  /\ pc \in {"waiting", "finish"} => scheduled_resumed_reqs \cap prev_step_scheduled_req_ids = {}
  /\ InExecute \/ (pc \notin {"reset", "finish"} /\ ~preempted) =>
       \A r \in prev_step_scheduled_req_ids : status[r] # "PREEMPTED"

One(p) == IF p THEN 1 ELSE 0

\* The sampled tokens of r in flight; at most two batches are.
InFlight(r) ==
  One(Len(batch_queue) >= 1 /\ r \in batch_queue[1])
    + One(Len(batch_queue) >= 2 /\ r \in batch_queue[2]) + One(r \in to_update)

\* Placeholders and outputs to discard count the tokens in flight; an output to
\* discard is in the oldest batch, so it is gone before the next forced reset.
FlightOf(r) ==
  /\ num_output_placeholders[r] >= 0 /\ async_tokens_to_discard[r] >= 0
  /\ ~Async \/ status[r] = "FINISHED" =>
       num_output_placeholders[r] = 0 /\ async_tokens_to_discard[r] = 0
  /\ Async /\ status[r] # "FINISHED" =>
       num_output_placeholders[r] + async_tokens_to_discard[r] = InFlight(r)
  /\ Async /\ status[r] = "NONE" => InFlight(r) = 0
  /\ async_tokens_to_discard[r] > 0 =>
       /\ pc # "reclaim"
       /\ IF pc = "output" THEN r \in to_update
                           ELSE Len(batch_queue) >= 1 /\ r \in batch_queue[1]
       /\ pc \in {"idle", "reset"} => status[r] # "RUNNING"
       /\ InExecute => Len(batch_queue) >= 2
       /\ async_tokens_to_discard[r] = 1

FlightInv == \A r \in Requests : FlightOf(r)

SInv == BatchInv /\ TokenInv /\ ListInv /\ IndexInv /\ PrevInv /\ FlightInv

-----------------------------------------------------------------------------
(* The block tables: TInv *)

\* The ids the scheduler sends and the worker caches are real; a row keeps its
\* sink and, with a local window, its last entry.
RealOf(r) ==
  /\ block_ids[r] \in Seq(Blocks)
  /\ req_to_new_blocks[r] \in Seq(Blocks)
  /\ \A j \in DOMAIN row[r] : j <= SinkOf(r) => row[r][j] # NullBlock
  /\ Local >= 1 /\ row[r] # <<>> => row[r][Len(row[r])] # NullBlock

RealInv == \A r \in Requests : RealOf(r)

Fresh == scheduled_new_reqs \cup scheduled_resumed_reqs

\* _update_states has applied the batch to the worker's tables.
Loaded == pc \in {"hook", "end"}

\* The tokens computed before this step.
Pre(r) == IF InExecute THEN num_computed_tokens[r] - num_scheduled_tokens[r]
                       ELSE num_computed_tokens[r]

\* A running request holds the blocks of its tokens, those of this step included;
\* the worker's tables are as long once it has the batch, and else as long as they
\* were before the step.
LenOf(r) ==
  status[r] = "RUNNING" =>
    /\ Pre(r) >= 0
    /\ Len(req_to_blocks[r]) = CeilDiv(Pre(r) + num_scheduled_tokens[r], BlockSize)
    /\ Len(req_to_blocks[r]) = CeilDiv(Pre(r), BlockSize) + Len(req_to_new_blocks[r])
    /\ r \in Fresh => Pre(r) = 0
    /\ Loaded =>
         /\ Len(block_ids[r]) = Len(req_to_blocks[r])
         /\ InBatch(r) \/ r \in Scheduled => Len(row[r]) = Len(req_to_blocks[r])
    /\ ~Loaded /\ r \notin Fresh =>
         /\ Len(block_ids[r]) = CeilDiv(Pre(r), BlockSize)
         /\ InBatch(r) => Len(row[r]) = CeilDiv(Pre(r), BlockSize)

LenInv == \A r \in Requests : LenOf(r)

\* Only finished requests are reported as finished to the worker.
FinishedInv == \A r \in finished_req_ids \cup finished_out : status[r] = "FINISHED"

\* In a forward pass the entries from the last one of before the step on are real.
TailOf(r) ==
  pc = "hook" /\ Local >= 1 /\ r \in Scheduled =>
    \A j \in DOMAIN row[r] : CeilDiv(Pre(r), BlockSize) <= j => row[r][j] # NullBlock

TailInv == \A r \in Requests : TailOf(r)

\* An entry that is null for the worker and not yet for the scheduler is recorded.
RecordOf(r) ==
  Loaded \/ r \notin Fresh =>
    \A j \in (DOMAIN row[r]) \cap (DOMAIN req_to_blocks[r]) :
      row[r][j] = NullBlock /\ req_to_blocks[r][j] # NullBlock => <<r, j>> \in pending \cup popped

RecordInv == \A r \in Requests : RecordOf(r)

TInv == RealInv /\ FinishedInv /\ LenInv /\ TailInv /\ RecordInv

\* Evictions wait for their reclaim only while a batch is in flight whose output
\* is still to be taken.
StrandInv ==
  /\ pc \in {"idle", "reset"} \/ InSchedule => (pending = {} \/ batch_queue # <<>>)
  /\ pc = "execute" => (pending = {} \/ Len(batch_queue) >= 2)
  /\ pc = "reclaim" => pending = {}

-----------------------------------------------------------------------------
(* How much a request holds: BoundInv and HeldInv *)

\* What HeldBound allows.
Most == Budget + Maximum(Margin - 1, 0)

\* Once the hook has looked at the rows, one that exceeds the bound is to be trimmed.
BoundInv == pc # "hook" => \A r \in Requests : r \in over_rows \/ RealCount(r) <= Most

HeldCount(r) == Cardinality(real_indices(req_to_blocks[r], NullBlock))

\* The step is before _update_states, or over.
Filling == pc \in {"idle", "reset", "execute"} \/ InSchedule

\* A request that holds more was given blocks in this step, and is then a row of
\* the batch until its evicted blocks are reclaimed.
HeldOf(r) == HeldCount(r) > Most => IF Filling THEN r \in Lists ELSE InBatch(r)

HeldInv == \A r \in Requests : HeldOf(r)

-----------------------------------------------------------------------------
(* Evictions and reclaims of the same entry: UnmapInv *)

Nulled(r, j) == j \in DOMAIN row[r] /\ row[r][j] = NullBlock

\* The row of r, if r runs, does not map entry j.
Unmapped(r, j) == status[r] = "RUNNING" /\ j \in DOMAIN row[r] => row[r][j] = NullBlock

\* A recorded eviction that is not popped yet: between steps, and until the worker
\* has the next batch, its request still has the nulled entry, or is gone, or has just
\* been preempted; from then on no row maps the entry.  When this step may end
\* without a reclaim the eviction is of this very step.
PendingOf(r, j) ==
  /\ status[r] \in {"RUNNING", "PREEMPTED", "FINISHED"}
  /\ pc # "reset"
  /\ Filling =>
       /\ status[r] = "PREEMPTED" => preempted
       /\ status[r] = "RUNNING" => r \notin Fresh /\ Nulled(r, j)
  /\ Loaded \/ pc \in {"aborts", "output", "reclaim"} => Unmapped(r, j)
  /\ Loaded /\ Len(batch_queue) < BatchQueueSize => status[r] = "RUNNING" /\ Nulled(r, j)

PendingInv == \A r \in Requests, j \in Nat : <<r, j>> \in pending => PendingOf(r, j)

PoppedInv == \A r \in Requests, j \in Nat : <<r, j>> \in popped => Unmapped(r, j)

\* Only scheduled requests are in the batch of a forward pass, and only they are
\* evicted from.
RowsInv == Loaded => \A r \in Requests : InBatch(r) \/ r \in over_rows => r \in Scheduled

UnmapInv == PendingInv /\ PoppedInv /\ RowsInv

-----------------------------------------------------------------------------
(* The two tables entry by entry: NewInv and MapInv *)

\* The new blocks of a scheduled request are the last ones it holds.
NewOf(r) ==
  r \in Lists =>
    \A i \in DOMAIN req_to_new_blocks[r] :
      req_to_blocks[r][Len(req_to_blocks[r]) - Len(req_to_new_blocks[r]) + i]
        = req_to_new_blocks[r][i]

NewInv == \A r \in Requests : NewOf(r)

\* An entry the row of a running request maps is the block the scheduler has there.
MapOf(r) ==
  status[r] = "RUNNING" /\ (Loaded \/ r \notin Fresh) =>
    \A j \in (DOMAIN row[r]) \cap (DOMAIN req_to_blocks[r]) :
      row[r][j] # NullBlock => row[r][j] = req_to_blocks[r][j]

MapInv == \A r \in Requests : MapOf(r)

\* No running request that had left the batch comes back to it: _update_states
\* would give it a row from its cached block ids, evicted blocks included.
NoReAdd == ~Loaded => \A r \in scheduled_running_reqs : InBatch(r)

-----------------------------------------------------------------------------
(* When no request comes back to the batch: CInv *)

\* What keeps every running request in the batch: first come first served, prompts cut
\* by the token budget only, a budget of a token for each running request
\* (SchedulerConfig demands max_num_batched_tokens >= max_num_seqs), and no pause.
DefaultScheduling ==
  Policy = "fcfs" /\ LongPrefill = 0 /\ MaxRunning <= TokenBudget /\ ~AllowPause

\* The tokens still to schedule.
Lacks(r) == num_tokens[r] + num_output_placeholders[r] - num_computed_tokens[r]

\* A token sampled by the synchronous engine that is not applied yet.
Due(r) == IF Async THEN 0 ELSE InFlight(r)

Rest(r) == Lacks(r) + Due(r)

Planned(r) == IF InSchedule THEN num_scheduled_tokens[r] ELSE 0

\* What will be left after this step.
Left(r) == Rest(r) - Planned(r)

\* The token in flight brings the request to its end.
Ending(r) ==
  /\ num_output_placeholders[r] > 0
  /\ Lacks(r) = 1
  /\ num_tokens[r] + 1 >= PromptLen[r] + MaxTokens[r]

\* A running request always has a token to schedule, and a live one is not complete.
GapOf(r) ==
  /\ status[r] = "RUNNING" => Rest(r) >= 1
  /\ status[r] \in Live => num_tokens[r] < PromptLen[r] + MaxTokens[r]

GapInv == \A r \in Requests : GapOf(r)

\* Only the last running request can be in the middle of its prompt: the others need
\* one token, so the budget reaches all of them, and no request is admitted after one
\* that used the budget up.
Tight(i) ==
  \/ i < Len(running)
  \/ pc \in {"running", "alloc"} /\ i < req_index /\ token_budget > 0
  \/ pc \in {"waiting", "finish"} /\ token_budget > 0

TightInv == \A i \in DOMAIN running : Tight(i) => Left(running[i]) <= 1

ChunkInv ==
  /\ TightInv
  /\ pc \in {"running", "alloc"} /\ req_index <= Len(running) =>
       token_budget >= TokenBudget - req_index + 1
  /\ pc = "alloc" => num_new_tokens = NumNewTokens(cur)

\* Every running request is scheduled, or is ending; and those in the batch stay.
CoverOf(r) ==
  /\ ~Loaded /\ r \notin Fresh => InBatch(r) \/ Ending(r)
  /\ ~Loaded /\ r \in scheduled_running_reqs => InBatch(r)
  /\ pc = "alloc" /\ r = cur => InBatch(r)
  /\ pc \in {"waiting", "finish"} \/ InExecute => r \in Lists \/ Ending(r)

CoverInv ==
  /\ \A r \in Requests : status[r] = "RUNNING" => CoverOf(r)
  /\ pc \in {"running", "alloc"} =>
       \A i \in DOMAIN running : i < req_index => running[i] \in Lists \/ Ending(running[i])
  /\ pause_state = "UNPAUSED"

CInv == GapInv /\ ChunkInv /\ CoverInv
=============================================================================
