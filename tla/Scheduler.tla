----------------------------- MODULE Scheduler -----------------------------
(***************************************************************************)
(* vllm.v1.core.sched.scheduler.Scheduler (and AsyncScheduler when Async). *)
(*                                                                         *)
(* schedule() is a sequence of loop iterations; each iteration is one      *)
(* action, and pc says where in the engine step the core is, so nothing    *)
(* else interleaves with them.  Left out: speculative decoding, encoder    *)
(* inputs, LoRA, KV connectors, streaming sessions, structured output.     *)
(***************************************************************************)
EXTENDS KVCache

CONSTANTS
  NoRequest,        \* no request
  PromptLen,        \* num_prompt_tokens of each request
  MaxTokens,        \* sampling_params.max_tokens of each request
  TokenBudget,      \* max_num_scheduled_tokens
  MaxRunning,       \* max_num_running_reqs
  LongPrefill,      \* long_prefill_token_threshold, 0 = off
  ReserveFullIsl,   \* scheduler_reserve_full_isl
  Policy,           \* "fcfs" or "priority"
  Rank,             \* position in the (priority, arrival_time) order
  Async             \* async_scheduling

ASSUME SchedulerAssumption ==
  /\ NoRequest \notin Requests
  /\ PromptLen \in [Requests -> Nat \ {0}]
  /\ MaxTokens \in [Requests -> Nat \ {0}]
  /\ TokenBudget \in Nat \ {0}
  /\ MaxRunning \in Nat \ {0}
  /\ LongPrefill \in Nat
  /\ ReserveFullIsl \in BOOLEAN
  /\ Policy \in {"fcfs", "priority"}
  /\ Rank \in [Requests -> Nat]
  /\ \A r, q \in Requests : Rank[r] = Rank[q] => r = q
  /\ Async \in BOOLEAN

VARIABLES
  pc,                        \* phase of the engine step
  status,                    \* RequestStatus; "NONE" = never added
  waiting, running,          \* the queues
  num_tokens,                \* prompt and output tokens known to the scheduler
  num_computed_tokens,
  num_output_placeholders,   \* async: sampled tokens still in flight
  async_tokens_to_discard,
  finished_req_ids,          \* finished, not yet told to the worker
  pause_state,
  prev_step_scheduled_req_ids,
  \* locals of schedule(), and what its SchedulerOutput carries
  req_index, cur, num_new_tokens, token_budget, preempted,
  num_scheduled_tokens, req_to_new_blocks,
  scheduled_new_reqs, scheduled_resumed_reqs, scheduled_running_reqs,
  finished_out               \* SchedulerOutput.finished_req_ids

reqVars == <<status, num_tokens, num_computed_tokens, num_output_placeholders,
             async_tokens_to_discard>>
queueVars == <<waiting, running, finished_req_ids, pause_state, prev_step_scheduled_req_ids>>
loopVars == <<req_index, cur, num_new_tokens, token_budget, preempted>>
outVars == <<num_scheduled_tokens, req_to_new_blocks, scheduled_new_reqs,
             scheduled_resumed_reqs, scheduled_running_reqs, finished_out>>
schedVars == <<pc, reqVars, queueVars, loopVars, outVars>>

Live == {"WAITING", "RUNNING", "PREEMPTED"}

-----------------------------------------------------------------------------
SchedInit ==
  /\ pc = "idle"
  /\ status = [r \in Requests |-> "NONE"]
  /\ waiting = <<>>
  /\ running = <<>>
  /\ num_tokens = [r \in Requests |-> 0]
  /\ num_computed_tokens = [r \in Requests |-> 0]
  /\ num_output_placeholders = [r \in Requests |-> 0]
  /\ async_tokens_to_discard = [r \in Requests |-> 0]
  /\ finished_req_ids = {}
  /\ pause_state = "UNPAUSED"
  /\ prev_step_scheduled_req_ids = {}
  /\ req_index = 1
  /\ cur = NoRequest
  /\ num_new_tokens = 0
  /\ token_budget = 0
  /\ preempted = FALSE
  /\ num_scheduled_tokens = [r \in Requests |-> 0]
  /\ req_to_new_blocks = [r \in Requests |-> <<>>]
  /\ scheduled_new_reqs = {}
  /\ scheduled_resumed_reqs = {}
  /\ scheduled_running_reqs = {}
  /\ finished_out = {}

-----------------------------------------------------------------------------
(* Requests coming and going *)

add_request(r) ==
  /\ status[r] = "NONE"
  /\ status' = [status EXCEPT ![r] = "WAITING"]
  /\ num_tokens' = [num_tokens EXCEPT ![r] = PromptLen[r]]
  /\ waiting' = Append(waiting, r)
  /\ UNCHANGED <<kvVars, pc, num_computed_tokens, num_output_placeholders,
                 async_tokens_to_discard, running, finished_req_ids, pause_state,
                 prev_step_scheduled_req_ids, loopVars, outVars>>

\* _free_request with the removal from the queues: r leaves the scheduler.
free_request(r) ==
  /\ status' = [status EXCEPT ![r] = "FINISHED"]
  /\ num_tokens' = [num_tokens EXCEPT ![r] = 0]
  /\ num_computed_tokens' = [num_computed_tokens EXCEPT ![r] = 0]
  /\ num_output_placeholders' = [num_output_placeholders EXCEPT ![r] = 0]
  /\ async_tokens_to_discard' = [async_tokens_to_discard EXCEPT ![r] = 0]
  /\ running' = Without(running, r)
  /\ waiting' = Without(waiting, r)
  /\ finished_req_ids' = finished_req_ids \cup {r}
  /\ kv_free(r)

\* finish_requests on one request (an abort)
finish_requests(r) ==
  /\ status[r] \in Live
  /\ free_request(r)
  /\ UNCHANGED <<pc, pause_state, prev_step_scheduled_req_ids, loopVars, outVars>>

set_pause_state(p) ==
  /\ pause_state' = p
  /\ UNCHANGED <<kvVars, pc, reqVars, waiting, running, finished_req_ids,
                 prev_step_scheduled_req_ids, loopVars, outVars>>


get_num_unfinished_requests ==
  CASE pause_state = "PAUSED_ALL" -> 0
    [] pause_state = "PAUSED_NEW" -> Len(running)
    [] OTHER -> Len(waiting) + Len(running)

has_requests == get_num_unfinished_requests > 0 \/ finished_req_ids # {}

\* Mutant: the preempted request is in no queue any more.
preempt_request_lost(v) ==
  /\ kv_free(v)
  /\ status' = [status EXCEPT ![v] = "PREEMPTED"]
  /\ num_computed_tokens' = [num_computed_tokens EXCEPT ![v] = 0]
  /\ UNCHANGED waiting

\* _preempt_request: all of v's blocks go back, and it starts over.  The caller
\* takes it off the running queue.
preempt_request(v) ==
  /\ kv_free(v)
  /\ status' = [status EXCEPT ![v] = "PREEMPTED"]
  /\ num_computed_tokens' = [num_computed_tokens EXCEPT ![v] = 0]
  /\ waiting' = <<v>> \o waiting

-----------------------------------------------------------------------------
(* schedule() *)

start_schedule ==
  /\ pc = "idle"
  /\ has_requests
  /\ token_budget' = IF pause_state = "PAUSED_ALL" THEN 0 ELSE TokenBudget
  /\ pc' = "running"
  /\ UNCHANGED <<kvVars, reqVars, queueVars, req_index, cur, num_new_tokens, preempted, outVars>>

\* The token count a request may be given, before the budget.
Chunk(n) == IF 0 < LongPrefill /\ LongPrefill < n THEN LongPrefill ELSE n

NumNewTokens(r) ==
  Minimum(Chunk(num_tokens[r] + num_output_placeholders[r] - num_computed_tokens[r]), token_budget)

\* Mutant: the request is passed over one step too early.
LastStepInFlight_early(r) ==
  /\ num_output_placeholders[r] > 0
  /\ num_computed_tokens[r] + 3 - num_output_placeholders[r] >= PromptLen[r] + MaxTokens[r]

\* Async: the step in flight is sure to bring r to max_tokens.
LastStepInFlight(r) ==
  /\ num_output_placeholders[r] > 0
  /\ num_computed_tokens[r] + 2 - num_output_placeholders[r] >= PromptLen[r] + MaxTokens[r]

InRunningLoop == pc = "running" /\ req_index \in DOMAIN running /\ token_budget > 0

running_skip ==
  /\ InRunningLoop
  /\ LastStepInFlight(running[req_index]) \/ NumNewTokens(running[req_index]) = 0
  /\ req_index' = req_index + 1
  /\ UNCHANGED <<kvVars, pc, reqVars, queueVars, cur, num_new_tokens, token_budget,
                 preempted, outVars>>

running_pick ==
  /\ InRunningLoop
  /\ LET r == running[req_index]
     IN  /\ ~LastStepInFlight(r)
         /\ NumNewTokens(r) # 0
         /\ cur' = r
         /\ num_new_tokens' = NumNewTokens(r)
  /\ pc' = "alloc"
  /\ UNCHANGED <<kvVars, reqVars, queueVars, req_index, token_budget, preempted, outVars>>

BlocksFor(r, n) == get_num_blocks_to_allocate(r, num_computed_tokens[r] + n)

running_allocate ==
  /\ pc = "alloc"
  /\ BlocksFor(cur, num_new_tokens) <= Cardinality(free)
  /\ \E nb \in get_new_blocks(BlocksFor(cur, num_new_tokens)) :
       /\ allocate_new_blocks(cur, nb)
       /\ req_to_new_blocks' = [req_to_new_blocks EXCEPT ![cur] = nb]
  /\ num_scheduled_tokens' = [num_scheduled_tokens EXCEPT ![cur] = num_new_tokens]
  /\ scheduled_running_reqs' = scheduled_running_reqs \cup {cur}
  /\ token_budget' = token_budget - num_new_tokens
  /\ req_index' = req_index + 1
  /\ cur' = NoRequest
  /\ num_new_tokens' = 0
  /\ pc' = "running"
  /\ UNCHANGED <<reqVars, queueVars, preempted, scheduled_new_reqs, scheduled_resumed_reqs,
                 finished_out>>

\* The request to preempt: the last admitted, or the one of lowest priority.
IsVictim(v) ==
  /\ v \in Elems(running)
  /\ IF Policy = "priority" THEN \A r \in Elems(running) : Rank[r] <= Rank[v]
                            ELSE v = running[Len(running)]

\* Mutant: a scheduled victim stays in this step's output.
Unschedule_never(v) == FALSE

\* A victim already scheduled in this step is taken out of it.
Unschedule(v) == Policy = "priority" /\ v \in scheduled_running_reqs

running_preempt ==
  /\ pc = "alloc"
  /\ BlocksFor(cur, num_new_tokens) > Cardinality(free)
  /\ \E v \in Requests :
         /\ IsVictim(v)
         /\ preempt_request(v)
         /\ running' = Without(running, v)
         /\ preempted' = TRUE
         /\ IF Unschedule(v)
            THEN /\ scheduled_running_reqs' = scheduled_running_reqs \ {v}
                 /\ token_budget' = token_budget + num_scheduled_tokens[v]
                 /\ num_scheduled_tokens' = [num_scheduled_tokens EXCEPT ![v] = 0]
                 /\ req_to_new_blocks' = [req_to_new_blocks EXCEPT ![v] = <<>>]
                 /\ req_index' = req_index - 1
            ELSE UNCHANGED <<scheduled_running_reqs, token_budget, num_scheduled_tokens,
                             req_to_new_blocks, req_index>>
         \* No one left to preempt but the request itself: it is not scheduled.
         /\ IF v = cur
            THEN pc' = "finish" /\ cur' = NoRequest /\ num_new_tokens' = 0
            ELSE UNCHANGED <<pc, cur, num_new_tokens>>
  /\ UNCHANGED <<num_tokens, num_output_placeholders, async_tokens_to_discard,
                 finished_req_ids, pause_state, prev_step_scheduled_req_ids,
                 scheduled_new_reqs, scheduled_resumed_reqs, finished_out>>

running_done ==
  /\ pc = "running"
  /\ req_index > Len(running) \/ token_budget <= 0
  /\ pc' = IF ~preempted /\ pause_state = "UNPAUSED" THEN "waiting" ELSE "finish"
  /\ UNCHANGED <<kvVars, reqVars, queueVars, loopVars, outVars>>

\* peek_request of the FCFS deque or of the priority heap
IsNext(r) ==
  /\ r \in Elems(waiting)
  /\ IF Policy = "priority" THEN \A q \in Elems(waiting) : Rank[r] <= Rank[q]
                            ELSE r = waiting[1]

WaitingTokens(r) == Minimum(Chunk(num_tokens[r]), token_budget)

InWaitingLoop == pc = "waiting" /\ waiting # <<>> /\ token_budget > 0 /\ Len(running) # MaxRunning

\* allocate_slots succeeds for a waiting request: the chunk fits and, with
\* full_sequence_must_fit, so does the whole sequence.
WaitingFits(r) ==
  /\ ReserveFullIsl => get_num_blocks_to_allocate(r, num_tokens[r]) <= Cardinality(free)
  /\ get_num_blocks_to_allocate(r, WaitingTokens(r)) <= Cardinality(free)

waiting_admit ==
  /\ InWaitingLoop
  /\ \E r \in Requests : LET n == WaitingTokens(r) IN
         /\ IsNext(r)
         /\ WaitingFits(r)
         /\ \E nb \in get_new_blocks(get_num_blocks_to_allocate(r, n)) :
              /\ allocate_new_blocks(r, nb)
              /\ req_to_new_blocks' = [req_to_new_blocks EXCEPT ![r] = req_to_blocks'[r]]
         /\ waiting' = Without(waiting, r)
         /\ running' = Append(running, r)
         /\ IF status[r] = "WAITING"
            THEN /\ scheduled_new_reqs' = scheduled_new_reqs \cup {r}
                 /\ UNCHANGED scheduled_resumed_reqs
            ELSE /\ scheduled_resumed_reqs' = scheduled_resumed_reqs \cup {r}
                 /\ UNCHANGED scheduled_new_reqs
         /\ status' = [status EXCEPT ![r] = "RUNNING"]
         /\ num_computed_tokens' = [num_computed_tokens EXCEPT ![r] = 0]
         /\ num_scheduled_tokens' = [num_scheduled_tokens EXCEPT ![r] = n]
         /\ token_budget' = token_budget - n
  /\ UNCHANGED <<pc, num_tokens, num_output_placeholders, async_tokens_to_discard,
                 finished_req_ids, pause_state, prev_step_scheduled_req_ids,
                 req_index, cur, num_new_tokens, preempted, scheduled_running_reqs, finished_out>>

waiting_done ==
  /\ pc = "waiting"
  /\ InWaitingLoop => \A r \in Requests : IsNext(r) => ~WaitingFits(r)
  /\ pc' = "finish"
  /\ UNCHANGED <<kvVars, reqVars, queueVars, loopVars, outVars>>

Scheduled == {r \in Requests : num_scheduled_tokens[r] > 0}

\* Requests whose chunk of this step ends their known tokens (not is_prefill_chunk):
\* the worker samples a token for them.
Sampled ==
  {r \in Scheduled : num_computed_tokens[r] + num_scheduled_tokens[r]
                       >= num_tokens[r] + num_output_placeholders[r]}

\* The end of schedule(): the SchedulerOutput is built and _update_after_schedule runs.
finish_schedule ==
  /\ pc = "finish"
  /\ num_computed_tokens' =
       [r \in Requests |-> num_computed_tokens[r] + num_scheduled_tokens[r]]
  /\ num_output_placeholders' =
       [r \in Requests |-> IF Async /\ r \in Sampled THEN num_output_placeholders[r] + 1
                                                     ELSE num_output_placeholders[r]]
  /\ prev_step_scheduled_req_ids' = Scheduled
  /\ finished_out' = finished_req_ids
  /\ finished_req_ids' = {}
  /\ pc' = "execute"
  /\ UNCHANGED <<kvVars, status, num_tokens, async_tokens_to_discard, waiting, running,
                 pause_state, loopVars, num_scheduled_tokens, req_to_new_blocks,
                 scheduled_new_reqs, scheduled_resumed_reqs, scheduled_running_reqs>>

-----------------------------------------------------------------------------
(* update_from_output(), one request of the model output at a time *)

\* The sampled token of r arrives: dropped when r is gone or when a forced
\* preemption made it stale, else appended; stop = the token ends the request.
update_from_output(r, stop) ==
  \/ /\ status[r] \notin Live
     /\ UNCHANGED <<kvVars, reqVars, queueVars>>
  \/ /\ status[r] \in Live
     /\ async_tokens_to_discard[r] > 0
     /\ async_tokens_to_discard' = [async_tokens_to_discard EXCEPT ![r] = @ - 1]
     /\ UNCHANGED <<kvVars, status, num_tokens, num_computed_tokens,
                    num_output_placeholders, queueVars>>
  \/ /\ status[r] \in Live
     /\ async_tokens_to_discard[r] = 0
     /\ IF stop \/ num_tokens[r] + 1 >= PromptLen[r] + MaxTokens[r]
        THEN /\ free_request(r)
             /\ UNCHANGED <<pause_state, prev_step_scheduled_req_ids>>
        ELSE /\ num_tokens' = [num_tokens EXCEPT ![r] = @ + 1]
             /\ num_output_placeholders' =
                  [num_output_placeholders EXCEPT ![r] = IF Async THEN @ - 1 ELSE @]
             /\ UNCHANGED <<kvVars, status, num_computed_tokens, async_tokens_to_discard,
                            queueVars>>

\* Mutant: the in-flight outputs of the preempted request are not marked stale.
reset_preempt_no_discard ==
  /\ running # <<>>
  /\ \E v \in Requests :
         /\ v = running[Len(running)]
         /\ preempt_request(v)
         /\ running' = SubSeq(running, 1, Len(running) - 1)
         /\ num_output_placeholders' = [num_output_placeholders EXCEPT ![v] = 0]
  /\ UNCHANGED <<num_tokens, async_tokens_to_discard, finished_req_ids, pause_state,
                 prev_step_scheduled_req_ids, loopVars, outVars>>

\* reset_prefix_cache(reset_running_requests=True): one iteration preempts the
\* last running request and marks its in-flight outputs stale ...
reset_preempt ==
  /\ running # <<>>
  /\ \E v \in Requests :
         /\ v = running[Len(running)]
         /\ preempt_request(v)
         /\ running' = SubSeq(running, 1, Len(running) - 1)
         /\ async_tokens_to_discard' =
              [async_tokens_to_discard EXCEPT ![v] = num_output_placeholders[v]]
         /\ num_output_placeholders' = [num_output_placeholders EXCEPT ![v] = 0]
  /\ UNCHANGED <<num_tokens, finished_req_ids, pause_state, prev_step_scheduled_req_ids,
                 loopVars, outVars>>

\* ... and when none is left the previous step is forgotten.
reset_done ==
  /\ running = <<>>
  /\ prev_step_scheduled_req_ids' = {}
  /\ UNCHANGED <<kvVars, reqVars, waiting, running, finished_req_ids, pause_state,
                 loopVars, outVars>>
=============================================================================
