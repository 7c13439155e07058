---------------------------- MODULE TableProofs -----------------------------
(***************************************************************************)
(* The batches in flight and the token counts stay in order (BatchInv,     *)
(* TokenInv), and the worker's block table against the scheduler's: what   *)
(* rows are made of, how long they are, which entries SKIVE may null, and  *)
(* what is recorded for the engine core to reclaim (TInv).                 *)
(***************************************************************************)
EXTENDS PoolProofs

-----------------------------------------------------------------------------
(* Batches in flight *)

\* The batches move from schedule() to the output one at a time.
LEMMA BatchKeeps ==
  ASSUME TypeOK, BatchInv, [Next]_vars
  PROVE  BatchInv'
<1> DEFINE Early == {"idle", "reset", "running", "alloc", "waiting", "finish"}
<1>0. batch_queue \in Seq(SUBSET Requests) /\ BatchQueueSize \in {1, 2} /\ Len(batch_queue) \in Nat
  BY DEF TypeOK, EngineTypeOK, BatchQueueSize
<1>1. ASSUME UNCHANGED <<batch_queue, to_update, popped, over_rows>>,
             \/ pc \in Early /\ pc' \in Early
             \/ pc' = pc
             \/ pc = "reclaim" /\ popped = {} /\ pc' = "idle"
             \/ pc = "idle" /\ pc' = "aborts"
      PROVE  BatchInv'
  BY <1>1, Zenon DEF BatchInv, InExecute, BatchQueueSize
<1>2. CASE ClientStep \/ WaitForInput \/ UNCHANGED vars
  <2>1. UNCHANGED <<batch_queue, to_update, popped, over_rows>>
    BY <1>2, Zenon
       DEF ClientStep, AddRequest, Abort, PauseScheduler, ResumeScheduler, ResetPrefixCache,
                WaitForInput, vars, workerVars, engineVars
  <2>2. pc' = pc \/ (pc = "idle" /\ pc' = "reset")
    BY <1>2, Zenon DEF ClientStep, AddRequest, add_request, Abort, finish_requests,
       PauseScheduler,
                ResumeScheduler, set_pause_state, ResetPrefixCache, WaitForInput, vars, schedVars
  <2> QED BY <1>1, <2>1, <2>2, Zenon
<1>3. CASE ScheduleStep
  <2>1. CASE FinishSchedule
    <3>1. batch_queue' = Append(batch_queue, Sampled) /\ pc = "finish" /\ pc' = "execute"
      BY <2>1, Zenon DEF FinishSchedule, finish_schedule
    <3>2. UNCHANGED <<to_update, popped, over_rows>>
      BY <2>1, Zenon DEF FinishSchedule, workerVars
    <3>3. Sampled \in SUBSET Requests
      BY Zenon DEF Sampled, Scheduled
    <3>4. Len(batch_queue') = Len(batch_queue) + 1 /\ batch_queue' # <<>>
      BY <1>0, <3>1, <3>3, AppendProperties, SMTT(30)
    <3> QED BY <1>0, <3>1, <3>2, <3>4, SMTT(30) DEF BatchInv, InExecute, BatchQueueSize
  <2>2. CASE ~FinishSchedule
    <3>1. UNCHANGED <<batch_queue, to_update, popped, over_rows>>
      BY <1>3, <2>2, Zenon DEF ScheduleStep, Quiet, workerVars, engineVars
    <3>2. pc \in Early /\ pc' \in Early
      BY <1>3, <2>2, Zenon DEF ScheduleStep, start_schedule, running_skip, running_pick,
           running_allocate, running_preempt, running_done, waiting_admit, waiting_done,
           InRunningLoop, InWaitingLoop
    <3> QED BY <1>1, <3>1, <3>2, Zenon
  <2> QED BY <2>1, <2>2, Zenon
<1>4. CASE ExecuteStep
  <2>1. CASE update_states \/ skive_check \/ \E r \in Requests : evict_request_blocks(r)
    <3>1. UNCHANGED <<batch_queue, to_update, popped>>
      BY <1>4, <2>1, Zenon DEF ExecuteStep, engineVars, EndExecute
    <3>2. InExecute /\ InExecute' /\ (pc' = "end" \/ over_rows' = over_rows)
      BY <2>1, Zenon DEF update_states, skive_check, evict_request_blocks, InExecute
    <3>3. pc' # "end" => pc # "end"
      BY <2>1, Zenon DEF update_states, skive_check, evict_request_blocks, InExecute
    <3> QED BY <3>1, <3>2, <3>3, Zenon DEF BatchInv, InExecute
  <2>2. CASE EndExecute
    <3>1. UNCHANGED <<batch_queue, to_update, popped,
    over_rows>> /\ pc = "end" /\ over_rows = {}
      BY <2>2, Zenon DEF EndExecute, workerVars, engineVars
    <3>2. (pc' = "idle" /\ Len(batch_queue) < BatchQueueSize) \/ pc' = "aborts"
      BY <2>2, Zenon DEF EndExecute
    <3> QED BY <3>1, <3>2, Zenon DEF BatchInv, InExecute, BatchQueueSize
  <2> QED BY <1>4, <2>1, <2>2, Zenon DEF ExecuteStep
<1>5. CASE OutputStep
  <2>1. CASE AwaitOutput \/ EndStep
    BY <1>1, <2>1, Zenon DEF AwaitOutput, EndStep, workerVars, engineVars
  <2>2. CASE TakeOutput
    <3>1. /\ pc = "aborts" /\ pc' = "output" /\ batch_queue # <<>>
          /\ batch_queue' = Tail(batch_queue) /\ UNCHANGED <<popped, over_rows>>
      BY <2>2, Zenon DEF TakeOutput, workerVars
    <3>2. Len(batch_queue') = Len(batch_queue) - 1
      BY <1>0, <3>1, HeadTailProperties, Zenon
    <3> QED BY <1>0, <3>1, <3>2, SMTT(30) DEF BatchInv, InExecute, BatchQueueSize
  <2>3. ASSUME NEW r \in Requests, UpdateFromOutput(r) PROVE BatchInv'
    BY <2>3, Zenon DEF UpdateFromOutput, workerVars, BatchInv, InExecute, BatchQueueSize
  <2>4. CASE PopPending
    BY <2>4, Zenon DEF PopPending, BatchInv, InExecute, BatchQueueSize
  <2>5. ASSUME NEW item \in popped, skive_reclaim(item[1], item[2]) PROVE BatchInv'
    BY <2>5, Zenon DEF skive_reclaim, schedVars, workerVars, BatchInv, InExecute, BatchQueueSize
  <2> QED BY <1>5, <2>1, <2>2, <2>3, <2>4, <2>5, Zenon DEF OutputStep
<1>6. CASE ResetPreempt \/ ResetDone
  BY <1>1, <1>6, Zenon DEF ResetPreempt, ResetDone, workerVars, engineVars
<1> QED BY <1>2, <1>3, <1>4, <1>5, <1>6, Zenon DEF Next, EngineStep

-----------------------------------------------------------------------------
(* Token counts *)

\* What TokenInv is about.
tokenVars == <<status, num_tokens, num_computed_tokens, num_output_placeholders,
               num_scheduled_tokens, req_to_new_blocks, scheduled_new_reqs,
               scheduled_resumed_reqs, scheduled_running_reqs>>

\* A step that leaves them alone, and does not enter or leave schedule().
LEMMA TokensUnchanged ==
  ASSUME TokenInv, UNCHANGED tokenVars, InSchedule' <=> InSchedule
  PROVE  TokenInv'
BY Zenon DEF TokenInv, TokensOf, tokenVars, Lists

\* A request that leaves the scheduler between steps or at an output has no tokens.
LEMMA FreeRequestTokens ==
  ASSUME IInv, SInv, NEW r \in Requests, free_request(r), UNCHANGED <<pc, outVars>>,
         ~InSchedule, ~InExecute
  PROVE  TokenInv'
<1>1. /\ status' = [status EXCEPT ![r] = "FINISHED"]
      /\ num_tokens' = [num_tokens EXCEPT ![r] = 0]
      /\ num_computed_tokens' = [num_computed_tokens EXCEPT ![r] = 0]
      /\ num_output_placeholders' = [num_output_placeholders EXCEPT ![r] = 0]
      /\ UNCHANGED <<num_scheduled_tokens, req_to_new_blocks, Lists, InSchedule>>
  BY Zenon DEF free_request, outVars, Lists, InSchedule
<1>2. ReqTypeOK
  BY Zenon DEF IInv, TypeOK
<1> QED BY <1>1, <1>2, SMTT(30) DEF SInv, TokenInv, TokensOf, ReqTypeOK, Live

\* Clients: a request starts with its prompt and ends with nothing.
LEMMA ClientKeepsTokens ==
  ASSUME IInv, SInv, ClientStep
  PROVE  TokenInv'
<1>1. ASSUME NEW r \in Requests, AddRequest(r) PROVE TokenInv'
  <2>1. /\ status[r] = "NONE" /\ status' = [status EXCEPT ![r] = "WAITING"]
        /\ num_tokens' = [num_tokens EXCEPT ![r] = PromptLen[r]]
        /\ UNCHANGED <<num_computed_tokens, num_output_placeholders, num_scheduled_tokens,
                       req_to_new_blocks, Lists, InSchedule>>
        /\ ~InSchedule
    BY <1>1, Zenon DEF AddRequest, add_request, outVars, Lists, InSchedule
  <2>2. ReqTypeOK /\ PromptLen[r] \in Nat /\ PromptLen[r] > 0
    BY SchedulerAssumption DEF IInv, TypeOK
  <2>3. num_output_placeholders[r] >= 0 /\ num_computed_tokens[r] = 0
    BY <2>1, Zenon DEF SInv, FlightInv, FlightOf, TokenInv, TokensOf
  <2> SUFFICES ASSUME NEW q \in Requests PROVE TokensOf(q)'
    BY Zenon DEF TokenInv
  <2>4. TokensOf(q)
    BY ZenonT(30) DEF SInv, TokenInv
  <2>5. CASE q = r
    BY <2>1, <2>2, <2>3, <2>4, <2>5, SMTT(30) DEF TokensOf, ReqTypeOK, Live
  <2>6. CASE q # r
    BY <2>1, <2>2, <2>4, <2>6, Zenon DEF TokensOf, ReqTypeOK
  <2> QED BY <2>5, <2>6, Zenon
<1>2. ASSUME NEW r \in Requests, Abort(r) PROVE TokenInv'
  BY <1>2, FreeRequestTokens, Zenon DEF Abort, finish_requests, InSchedule, InExecute
<1>3. CASE PauseScheduler \/ ResumeScheduler
  BY <1>3, TokensUnchanged, Zenon
     DEF PauseScheduler, ResumeScheduler, set_pause_state, SInv, tokenVars,
       reqVars, outVars, InSchedule
<1>4. CASE ResetPrefixCache
  BY <1>4, TokensUnchanged, Zenon
     DEF ResetPrefixCache, SInv, tokenVars, reqVars, outVars, InSchedule
<1> QED BY <1>1, <1>2, <1>3, <1>4, Zenon DEF ClientStep

\* schedule(): what a request is given stays within its known tokens.
LEMMA ScheduleKeepsTokens ==
  ASSUME IInv, QInv, SInv, ScheduleStep
  PROVE  TokenInv'
<1>0. ReqTypeOK /\ OutTypeOK /\ LoopTypeOK /\ TokenInv /\ ListInv
  BY Zenon DEF IInv, TypeOK, SInv
<1>1. CASE start_schedule
  <2>1. UNCHANGED tokenVars /\ ~InSchedule /\ ~InExecute
    BY <1>1, ZenonT(30) DEF start_schedule, tokenVars, reqVars, outVars, InSchedule, InExecute
  <2>2. \A r \in Requests : num_scheduled_tokens[r] = 0
    BY <1>0, <2>1, SMTT(30) DEF TokenInv, TokensOf, ListInv, OutTypeOK
  <2> QED BY <1>0, <2>1, <2>2, Zenon DEF TokenInv, TokensOf, tokenVars, Lists, ReqTypeOK
<1>2. CASE running_skip \/ running_pick \/ running_done \/ waiting_done
  <2>1. UNCHANGED tokenVars
    BY <1>2, Zenon
       DEF running_skip, running_pick, running_done, waiting_done, tokenVars, reqVars, outVars
  <2>2. InSchedule /\ InSchedule'
    BY <1>2, Zenon
       DEF running_skip, running_pick, running_done, waiting_done, InRunningLoop, InSchedule
  <2> QED BY <1>0, <2>1, <2>2, TokensUnchanged, Zenon
<1>3. CASE running_allocate
  <2>1. PICK nb : req_to_new_blocks' = [req_to_new_blocks EXCEPT ![cur] = nb]
    BY <1>3, Zenon DEF running_allocate
  <2>2. /\ num_scheduled_tokens' = [num_scheduled_tokens EXCEPT ![cur] = num_new_tokens]
        /\ scheduled_running_reqs' = scheduled_running_reqs \cup {cur}
        /\ UNCHANGED <<reqVars, scheduled_new_reqs, scheduled_resumed_reqs>>
        /\ pc = "alloc" /\ InSchedule /\ InSchedule'
    BY <1>3, Zenon DEF running_allocate, InSchedule
  <2>3. /\ cur \in Requests /\ 0 < num_new_tokens /\ num_new_tokens \in Int
        /\ num_computed_tokens[cur] + num_new_tokens
             <= num_tokens[cur] + num_output_placeholders[cur]
    BY <1>0, <2>2, Zenon DEF LoopTypeOK, SInv, IndexInv
  <2>4. Lists' = Lists \cup {cur}
    BY <2>2, Zenon DEF Lists
  <2> SUFFICES ASSUME NEW r \in Requests
               PROVE  TokensOf(r)'
    BY Zenon DEF TokenInv
  <2>5. TokensOf(r)
    BY <1>0, Zenon DEF TokenInv
  <2>6. CASE r # cur
    <3>1. /\ num_scheduled_tokens'[r] = num_scheduled_tokens[r]
          /\ req_to_new_blocks'[r] = req_to_new_blocks[r] /\ (r \in Lists' <=> r \in Lists)
      BY <1>0, <2>1, <2>2, <2>4, <2>6, Zenon DEF OutTypeOK
    <3> QED BY <2>2, <2>5, <3>1, Zenon DEF TokensOf, reqVars
  <2>7. CASE r = cur
    <3>1. num_scheduled_tokens'[r] = num_new_tokens /\ r \in Lists'
      BY <1>0, <2>2, <2>4, <2>7, ZenonT(30) DEF OutTypeOK
    <3>2. 0 <= num_new_tokens /\ num_new_tokens > 0
      BY <2>3, SMTT(30)
    <3> QED BY <2>2, <2>3, <2>5, <2>7, <3>1, <3>2, Zenon DEF TokensOf, reqVars
  <2> QED BY <2>6, <2>7
<1>4. CASE running_preempt
  <2>1. PICK v \in Requests :
          /\ IsVictim(v) /\ preempt_request(v)
          /\ IF Unschedule(v)
             THEN /\ scheduled_running_reqs' = scheduled_running_reqs \ {v}
                  /\ num_scheduled_tokens' = [num_scheduled_tokens EXCEPT ![v] = 0]
                  /\ req_to_new_blocks' = [req_to_new_blocks EXCEPT ![v] = <<>>]
             ELSE UNCHANGED <<scheduled_running_reqs, num_scheduled_tokens, req_to_new_blocks>>
          /\ pc' \in {pc, "finish"}
    BY <1>4, Zenon DEF running_preempt
  <2>2. /\ pc = "alloc" /\ InSchedule /\ InSchedule'
        /\ UNCHANGED <<num_tokens, num_output_placeholders, scheduled_new_reqs,
                       scheduled_resumed_reqs>>
    BY <1>4, <2>1, Zenon DEF running_preempt, InSchedule
  <2>3. /\ status' = [status EXCEPT ![v] = "PREEMPTED"]
        /\ num_computed_tokens' = [num_computed_tokens EXCEPT ![v] = 0]
    BY <2>1, Zenon DEF preempt_request
  <2>4. status[v] = "RUNNING"
    BY <2>1, Zenon DEF IsVictim, QInv, QueuesMatchStatus
  <2>5. CASE Unschedule(v)
    <3>1. Lists' = Lists \ {v}
      BY <1>0, <2>1, <2>2, <2>5, Zenon DEF Lists, ListInv
    <3> SUFFICES ASSUME NEW r \in Requests
                 PROVE  TokensOf(r)'
      BY Zenon DEF TokenInv
    <3>2. TokensOf(r)
      BY <1>0, Zenon DEF TokenInv
    <3>3. CASE r # v
      <4>1. /\ status'[r] = status[r] /\ num_computed_tokens'[r] = num_computed_tokens[r]
            /\ num_scheduled_tokens'[r] = num_scheduled_tokens[r]
            /\ req_to_new_blocks'[r] = req_to_new_blocks[r]
        BY <1>0, <2>1, <2>3, <2>5, <3>3, Zenon DEF ReqTypeOK, OutTypeOK
      <4> QED BY <2>2, <3>1, <3>2, <3>3, <4>1, Zenon DEF TokensOf
    <3>4. CASE r = v
      <4>1. /\ status'[r] = "PREEMPTED" /\ num_computed_tokens'[r] = 0
            /\ num_scheduled_tokens'[r] = 0 /\ req_to_new_blocks'[r] = <<>>
        BY <1>0, <2>1, <2>3, <2>5, <3>4, Zenon DEF ReqTypeOK, OutTypeOK
      <4>2. /\ 0 <= num_computed_tokens[r] /\ 0 <= num_scheduled_tokens[r] /\ 0 <= num_tokens[r]
            /\ num_computed_tokens[r] + num_scheduled_tokens[r]
                 <= num_tokens[r] + num_output_placeholders[r]
            /\ num_tokens[r] > 0
        BY <2>2, <2>4, <3>2, <3>4, Zenon DEF TokensOf, Live
      <4>3. 0 + 0 <= num_tokens[r] + num_output_placeholders[r] /\ 0 <= 0 /\ ~(0 > 0)
        BY <1>0, <4>2, SMTT(30) DEF ReqTypeOK, OutTypeOK
      <4> QED BY <2>2, <3>1, <3>4, <4>1, <4>2, <4>3, Zenon DEF TokensOf
    <3> QED BY <3>3, <3>4, Zenon
  <2>6. CASE ~Unschedule(v)
    <3>1. v \notin Lists /\ Lists' = Lists
      BY <2>1, <2>2, <2>6, VictimNotScheduled, Zenon DEF Lists
    <3> SUFFICES ASSUME NEW r \in Requests
                 PROVE  TokensOf(r)'
      BY Zenon DEF TokenInv
    <3>2. TokensOf(r) /\ num_scheduled_tokens'[r] = num_scheduled_tokens[r]
          /\ req_to_new_blocks'[r] = req_to_new_blocks[r]
      BY <1>0, <2>1, <2>6, Zenon DEF TokenInv
    <3>3. CASE r # v
      <4>1. /\ status'[r] = status[r] /\ num_computed_tokens'[r] = num_computed_tokens[r]
        BY <1>0, <2>3, <3>3, Zenon DEF ReqTypeOK
      <4> QED BY <2>2, <3>1, <3>2, <4>1, Zenon DEF TokensOf
    <3>4. CASE r = v
      <4>1. /\ status'[r] = "PREEMPTED" /\ num_computed_tokens'[r] = 0
        BY <1>0, <2>3, <3>4, Zenon DEF ReqTypeOK
      <4>2. /\ 0 <= num_computed_tokens[r] /\ 0 <= num_scheduled_tokens[r] /\ 0 <= num_tokens[r]
            /\ num_computed_tokens[r] + num_scheduled_tokens[r]
                 <= num_tokens[r] + num_output_placeholders[r]
            /\ num_tokens[r] > 0
        BY <2>2, <2>4, <3>2, <3>4, ZenonT(30) DEF TokensOf, Live
      <4>3. /\ 0 + num_scheduled_tokens[r] <= num_tokens[r] + num_output_placeholders[r]
            /\ 0 <= 0
        BY <1>0, <4>2, SMTT(30) DEF ReqTypeOK, OutTypeOK
      <4> QED BY <2>2, <3>1, <3>2, <3>4, <4>1, <4>2, <4>3, Zenon DEF TokensOf
    <3> QED BY <3>3, <3>4, Zenon
  <2> QED BY <2>5, <2>6, Zenon
<1>5. CASE waiting_admit
  <2>1. PICK r \in Requests :
          /\ IsNext(r)
          /\ req_to_new_blocks' = [req_to_new_blocks EXCEPT ![r] = req_to_blocks'[r]]
          /\ IF status[r] = "WAITING"
             THEN /\ scheduled_new_reqs' = scheduled_new_reqs \cup {r}
                  /\ UNCHANGED scheduled_resumed_reqs
             ELSE /\ scheduled_resumed_reqs' = scheduled_resumed_reqs \cup {r}
                  /\ UNCHANGED scheduled_new_reqs
          /\ status' = [status EXCEPT ![r] = "RUNNING"]
          /\ num_computed_tokens' = [num_computed_tokens EXCEPT ![r] = 0]
          /\ num_scheduled_tokens' = [num_scheduled_tokens EXCEPT ![r] = WaitingTokens(r)]
    BY <1>5, Zenon DEF waiting_admit
  <2>2. /\ UNCHANGED <<num_tokens, num_output_placeholders, scheduled_running_reqs>>
        /\ InSchedule /\ InSchedule' /\ token_budget > 0
    BY <1>5, Zenon DEF waiting_admit, InWaitingLoop, InSchedule
  <2>3. Lists' = Lists \cup {r}
    BY <2>1, <2>2, Zenon DEF Lists
  <2>4. status[r] \in Live
    BY <2>1, Zenon DEF IsNext, QInv, QueuesMatchStatus, Live
  <2>5. 0 < WaitingTokens(r) /\ WaitingTokens(r) <= num_tokens[r] /\ WaitingTokens(r) \in Int
    BY <1>0, <2>2, <2>4, NewTokensBound, Zenon DEF TokenInv, TokensOf
  <2>6. num_output_placeholders[r] >= 0
    BY ZenonT(30) DEF SInv, FlightInv, FlightOf
  <2> SUFFICES ASSUME NEW q \in Requests PROVE TokensOf(q)'
    BY Zenon DEF TokenInv
  <2>7. TokensOf(q)
    BY <1>0, Zenon DEF TokenInv
  <2>8. CASE q = r
    <3>1. /\ status'[r] = "RUNNING" /\ num_computed_tokens'[r] = 0
          /\ num_scheduled_tokens'[r] = WaitingTokens(r)
      BY <1>0, <2>1, Zenon DEF ReqTypeOK, OutTypeOK
    <3> QED BY <1>0, <2>2, <2>3, <2>4, <2>5, <2>6, <2>7, <2>8, <3>1, SMTT(30)
               DEF TokensOf, ReqTypeOK, Live
  <2>9. CASE q # r
    <3>1. /\ status'[q] = status[q] /\ num_computed_tokens'[q] = num_computed_tokens[q]
          /\ num_scheduled_tokens'[q] = num_scheduled_tokens[q]
          /\ req_to_new_blocks'[q] = req_to_new_blocks[q]
      BY <1>0, <2>1, <2>9, ZenonT(30) DEF ReqTypeOK, OutTypeOK
    <3> QED BY <2>2, <2>3, <2>7, <2>9, <3>1, Zenon DEF TokensOf
  <2> QED BY <2>8, <2>9, Zenon
<1>6. CASE FinishSchedule
  <2>1. /\ num_computed_tokens' =
              [r \in Requests |-> num_computed_tokens[r] + num_scheduled_tokens[r]]
        /\ \A r \in Requests : num_output_placeholders'[r] \in
              {num_output_placeholders[r], num_output_placeholders[r] + 1}
        /\ UNCHANGED <<status, num_tokens, num_scheduled_tokens, req_to_new_blocks, Lists>>
        /\ InSchedule /\ ~InSchedule'
    BY <1>6, Zenon DEF FinishSchedule, finish_schedule, InSchedule, Lists
  <2>2. \A r \in Requests : r \in Lists => status[r] = "RUNNING"
    BY <1>0, Zenon DEF ListInv, QInv, QueuesMatchStatus
  <2> SUFFICES ASSUME NEW q \in Requests PROVE TokensOf(q)'
    BY Zenon DEF TokenInv
  <2>3. TokensOf(q)
    BY <1>0, Zenon DEF TokenInv
  <2>4. num_computed_tokens'[q] = num_computed_tokens[q] + num_scheduled_tokens[q]
    BY <2>1, Zenon
  <2>5. num_output_placeholders'[q] \in {num_output_placeholders[q],
  num_output_placeholders[q] + 1}
    BY <2>1, Zenon
  <2>6. /\ num_computed_tokens[q] \in Int /\ num_scheduled_tokens[q] \in Int
        /\ num_output_placeholders[q] \in Int /\ num_tokens[q] \in Int
    BY <1>0, Zenon DEF ReqTypeOK, OutTypeOK
  <2> QED BY <2>1, <2>2, <2>3, <2>4, <2>5, <2>6, SMTT(30) DEF TokensOf
<1> QED BY <1>1, <1>2, <1>3, <1>4, <1>5, <1>6, Zenon DEF ScheduleStep

\* The rest of a step: the output moves a token from in flight to known.
LEMMA StepKeepsTokens ==
  ASSUME IInv, QInv, SInv, ExecuteStep \/ OutputStep \/ ResetPreempt \/ ResetDone
  PROVE  TokenInv'
<1>0. ReqTypeOK /\ OutTypeOK /\ TokenInv /\ ListInv
  BY Zenon DEF IInv, TypeOK, SInv
<1>1. CASE update_states \/ skive_check \/ \E r \in Requests : evict_request_blocks(r)
  <2>1. UNCHANGED tokenVars
    BY <1>1, Zenon DEF update_states, skive_check, evict_request_blocks, tokenVars, reqVars,
       outVars
  <2>2. ~InSchedule /\ ~InSchedule'
    BY <1>1, ZenonT(30) DEF update_states, skive_check, evict_request_blocks, InSchedule
  <2> QED BY <1>0, <2>1, <2>2, TokensUnchanged, Zenon
<1>2. CASE EndExecute
  <2>1. /\ num_scheduled_tokens' = [r \in Requests |-> 0]
        /\ req_to_new_blocks' = [r \in Requests |-> <<>>]
        /\ Lists' = {} /\ UNCHANGED reqVars /\ ~InSchedule /\ ~InSchedule'
    BY <1>2, Zenon DEF EndExecute, ClearScheduleLocals, Lists, InSchedule
  <2> QED BY <1>0, <2>1 DEF TokenInv, TokensOf, reqVars
<1>3. CASE AwaitOutput \/ TakeOutput \/ PopPending \/ EndStep
  <2>1. UNCHANGED tokenVars /\ ~InSchedule /\ ~InSchedule'
    BY <1>3, Zenon DEF AwaitOutput, TakeOutput, PopPending, EndStep, tokenVars, reqVars,
       outVars,
                InSchedule
  <2> QED BY <1>0, <2>1, TokensUnchanged, Zenon
<1>4. ASSUME NEW r \in Requests, UpdateFromOutput(r) PROVE TokenInv'
  <2>1. pc = "output" /\ UNCHANGED <<pc, outVars>> /\ ~InSchedule /\ ~InExecute
    BY <1>4, Zenon DEF UpdateFromOutput, InSchedule, InExecute
  <2>2. CASE free_request(r)
    BY <2>1, <2>2, FreeRequestTokens, Zenon
  <2>3. CASE UNCHANGED <<status, num_tokens, num_computed_tokens, num_output_placeholders>>
    BY <1>0, <2>1, <2>3, TokensUnchanged, Zenon DEF tokenVars, outVars, InSchedule
  <2>4. CASE /\ num_tokens' = [num_tokens EXCEPT ![r] = @ + 1]
             /\ num_output_placeholders' =
                  [num_output_placeholders EXCEPT ![r] = IF Async THEN @ - 1 ELSE @]
             /\ UNCHANGED <<status, num_computed_tokens>>
    <3> SUFFICES ASSUME NEW q \in Requests PROVE TokensOf(q)'
      BY Zenon DEF TokenInv
    <3>1. TokensOf(q)
      BY <1>0, Zenon DEF TokenInv
    <3>2. CASE q = r
      BY <1>0, <2>1, <2>4, <3>1, <3>2, SMTT(30) DEF TokensOf, ReqTypeOK, outVars, Lists, InSchedule
    <3>3. CASE q # r
      BY <1>0, <2>1, <2>4, <3>1, <3>3, Zenon DEF TokensOf, ReqTypeOK, outVars, Lists, InSchedule
    <3> QED BY <3>2, <3>3, Zenon
  <2> QED BY <1>4, <2>2, <2>3, <2>4, Zenon DEF UpdateFromOutput, update_from_output, reqVars
<1>5. ASSUME NEW item \in popped, skive_reclaim(item[1], item[2]) PROVE TokenInv'
  <2>1. UNCHANGED tokenVars /\ UNCHANGED InSchedule
    BY <1>5, Zenon DEF skive_reclaim, schedVars, tokenVars, reqVars, outVars, InSchedule
  <2> QED BY <1>0, <2>1, TokensUnchanged, Zenon
<1>6. CASE ResetPreempt
  <2>1. PICK v \in Requests :
          /\ status' = [status EXCEPT ![v] = "PREEMPTED"]
          /\ num_computed_tokens' = [num_computed_tokens EXCEPT ![v] = 0]
          /\ num_output_placeholders' = [num_output_placeholders EXCEPT ![v] = 0]
          /\ v = running[Len(running)]
    BY <1>6, Zenon DEF ResetPreempt, reset_preempt, preempt_request
  <2>2. /\ UNCHANGED <<num_tokens, num_scheduled_tokens, req_to_new_blocks, Lists, InSchedule>>
        /\ ~InSchedule /\ ~InExecute
    BY <1>6, Zenon DEF ResetPreempt, reset_preempt, outVars, Lists, InSchedule, InExecute
  <2>3. running # <<>> /\ running \in Seq(Requests)
    BY <1>6, Zenon DEF ResetPreempt, reset_preempt, IInv, TypeOK, QueueTypeOK
  <2>4. v \in Elems(running)
    BY <2>1, <2>3, PopFacts, Zenon DEF QInv, QueuesMatchStatus
  <2>5. status[v] = "RUNNING"
    BY <2>4, Zenon DEF QInv, QueuesMatchStatus
  <2> SUFFICES ASSUME NEW q \in Requests PROVE TokensOf(q)'
    BY Zenon DEF TokenInv
  <2>6. TokensOf(q)
    BY <1>0, Zenon DEF TokenInv
  <2>7. CASE q = v
    BY <1>0, <2>1, <2>2, <2>5, <2>6, <2>7, SMTT(30) DEF TokensOf, ReqTypeOK, Live
  <2>8. CASE q # v
    BY <1>0, <2>1, <2>2, <2>6, <2>8, Zenon DEF TokensOf, ReqTypeOK
  <2> QED BY <2>7, <2>8, Zenon
<1>7. CASE ResetDone
  <2>1. UNCHANGED tokenVars /\ ~InSchedule /\ ~InSchedule'
    BY <1>7, Zenon DEF ResetDone, reset_done, tokenVars, reqVars, outVars, InSchedule
  <2> QED BY <1>0, <2>1, TokensUnchanged, Zenon
<1> QED BY <1>1, <1>2, <1>3, <1>4, <1>5, <1>6, <1>7, Zenon DEF ExecuteStep, OutputStep

\* The token counts stay in order in every step.
LEMMA TokensKeep ==
  ASSUME IInv, QInv, SInv, [Next]_vars
  PROVE  TokenInv'
<1>1. CASE WaitForInput \/ UNCHANGED vars
  <2>1. UNCHANGED tokenVars /\ UNCHANGED InSchedule
    BY <1>1, Zenon DEF WaitForInput, vars, schedVars, tokenVars, reqVars, outVars, InSchedule
  <2> QED BY <2>1, TokensUnchanged, Zenon DEF SInv
<1> QED BY <1>1, ClientKeepsTokens, ScheduleKeepsTokens, StepKeepsTokens, Zenon
           DEF Next, EngineStep

-----------------------------------------------------------------------------
(* Entries and candidates *)

\* The slot of token position p lies in the blocks of the tokens up to it, and not
\* before the last block of the tokens before it.
LEMMA EntryFacts ==
  ASSUME NEW p \in Nat, NEW m \in Nat, NEW n \in Nat, m <= p, p < n
  PROVE  /\ EntryOf(p) \in 1..CeilDiv(n, BlockSize)
         /\ CeilDiv(m, BlockSize) <= EntryOf(p)
<1>0. BlockSize \in Nat \ {0}
  BY KVAssumption, Zenon
<1> DEFINE q == p \div BlockSize
<1>1. q \in Int /\ BlockSize * q <= p /\ p < BlockSize * q + BlockSize
  BY DivFacts
<1>2. q >= 0
  <2>1. 0 \div BlockSize = 0
    BY <1>0, DivUnique
  <2> QED BY <2>1, <1>1, DivMonotone
<1>3. (p + BlockSize) \div BlockSize = q + 1
  <2> HIDE DEF q
  <2>1. BlockSize * (q + 1) = BlockSize * q + BlockSize
    BY <1>0, <1>1, SMTT(30)
  <2>2. BlockSize * (q + 1) <= p + BlockSize /\ p + BlockSize < BlockSize * (q + 1) + BlockSize
    <3>1. BlockSize * q \in Int
      BY <1>0, <1>1
    <3> QED BY <1>0, <1>1, <2>1, <3>1, SMTT(30)
  <2> QED BY <1>0, <1>1, <2>2, DivUnique, SMTT(30)
<1>4. q + 1 <= CeilDiv(n, BlockSize)
  <2>1. p + BlockSize <= n + BlockSize - 1 /\ p + BlockSize \in Int /\ n + BlockSize - 1 \in Int
    BY <1>0
  <2> QED BY <1>3, <2>1, DivMonotone, Zenon DEF CeilDiv
<1>5. CeilDiv(m, BlockSize) <= q + 1
  <2>1. m + BlockSize - 1 <= p + BlockSize /\ p + BlockSize \in Int /\ m + BlockSize - 1 \in Int
    BY <1>0
  <2> QED BY <1>3, <2>1, DivMonotone, Zenon DEF CeilDiv
<1>6. EntryOf(p) = q + 1 /\ CeilDiv(n, BlockSize) \in Nat
  BY CeilDivFacts, Zenon DEF EntryOf
<1> HIDE DEF q
<1> QED BY <1>1, <1>2, <1>4, <1>5, <1>6, SMTT(30)

\* Candidates for eviction are real entries after the sink, and, with a local
\* window, never the last entry.
LEMMA CandidateFacts ==
  ASSUME NEW s \in Seq(Entries), NEW sink \in Nat,
         NEW j \in candidates(s, NullBlock, sink, Local)
  PROVE  j \in DOMAIN s /\ s[j] # NullBlock /\ sink < j /\ (Local >= 1 => j # Len(s))
<1>1. /\ j \in real_indices(s, NullBlock) /\ sink < RealRank(s, NullBlock, j)
      /\ RealRank(s, NullBlock, j) <= Cardinality(real_indices(s, NullBlock)) - Local
  BY Zenon DEF candidates
<1>2. /\ RealRank(s, NullBlock, j) \in 1..Cardinality(real_indices(s, NullBlock))
      /\ RealRank(s, NullBlock, j) <= j
      /\ j = Len(s) => RealRank(s, NullBlock, j) = Cardinality(real_indices(s, NullBlock))
      /\ Cardinality(real_indices(s, NullBlock)) \in Nat
  BY <1>1, RankFacts, Zenon
<1>3. j \in DOMAIN s /\ s[j] # NullBlock /\ j \in Nat
  BY <1>1, LenProperties DEF real_indices
<1> QED BY <1>1, <1>2, <1>3, WorkerAssumption, SMTT(30)

\* The sink is a number of blocks.
LEMMA SinkType ==
  ASSUME NEW r \in Requests
  PROVE  SinkOf(r) \in Nat
<1>1. PromptLen[r] \in Nat /\ Sink \in Nat
  BY SchedulerAssumption, WorkerAssumption, Zenon
<1>2. CeilDiv(PromptLen[r], BlockSize) \in Nat
  BY <1>1, CeilDivFacts, Zenon
<1> QED BY <1>1, <1>2 DEF SinkOf, Maximum

-----------------------------------------------------------------------------
(* What rows are made of *)

\* A row of real blocks.
LEMMA RealRow ==
  ASSUME NEW s \in Seq(Blocks)
  PROVE  /\ \A j \in DOMAIN s : s[j] # NullBlock
         /\ s # <<>> => s[Len(s)] # NullBlock
<1>1. DOMAIN s = 1..Len(s) /\ Len(s) \in Nat
  BY LenProperties, Zenon
<1>2. \A j \in DOMAIN s : s[j] # NullBlock
  BY <1>1, ElementOfSeq, KVAssumption, Zenon
<1>3. s # <<>> => Len(s) \in DOMAIN s
  BY <1>1, EmptySeq
<1> QED BY <1>2, <1>3, Zenon

\* _update_states builds rows and cached ids from what is real.
LEMMA UpdateKeepsReal ==
  ASSUME IInv, RealInv, update_states
  PROVE  RealInv'
<1>0. /\ block_ids' = [r \in Requests |-> UpdatedBlockIds(r)]
      /\ row' = [r \in Requests |-> UpdatedRow(r)] /\ UNCHANGED req_to_new_blocks
  BY Zenon DEF update_states, outVars
<1> SUFFICES ASSUME NEW r \in Requests
             PROVE  RealOf(r)'
  BY Zenon DEF RealInv
<1>1. RealOf(r) /\ row[r] \in Seq(Entries)
  BY Zenon DEF RealInv, IInv, TypeOK, WorkerTypeOK
<1>2. <<>> \in Seq(Blocks)
  BY EmptySeq, Zenon
<1>3. UpdatedBlockIds(r) \in Seq(Blocks)
  <2>1. block_ids[r] \o req_to_new_blocks[r] \in Seq(Blocks)
    BY <1>1, ConcatProperties, Zenon DEF RealOf
  <2> QED BY <1>1, <1>2, <2>1, Zenon DEF UpdatedBlockIds, RealOf
<1>4. block_ids'[r] \in Seq(Blocks) /\ req_to_new_blocks'[r] \in Seq(Blocks)
  BY <1>0, <1>1, <1>3, Zenon DEF RealOf
<1>5. CASE r \in scheduled_running_reqs /\ InBatch(r)
  <2> DEFINE s == row[r]
             t == req_to_new_blocks[r]
  <2>1. row'[r] = s \o t /\ s # <<>> /\ s \in Seq(Entries) /\ t \in Seq(Blocks)
    BY <1>0, <1>1, <1>5, Zenon DEF UpdatedRow, InBatch, RealOf
  <2>2. /\ \A j \in DOMAIN (s \o t) :
             IF j \in DOMAIN s THEN (s \o t)[j] = s[j] ELSE (s \o t)[j] # NullBlock
        /\ t = <<>> => s \o t = s
        /\ t # <<>> => (s \o t)[Len(s \o t)] # NullBlock
    <3> HIDE DEF s, t
    <3> QED BY <2>1, ExtendRow
  <2>3. /\ \A j \in DOMAIN s : j <= SinkOf(r) => s[j] # NullBlock
        /\ Local >= 1 => s[Len(s)] # NullBlock
    BY <1>1, <2>1, Zenon DEF RealOf
  <2>4. /\ \A j \in DOMAIN row'[r] : j <= SinkOf(r) => row'[r][j] # NullBlock
        /\ Local >= 1 => row'[r][Len(row'[r])] # NullBlock
    <3> HIDE DEF s, t
    <3> QED BY <2>1, <2>2, <2>3, Zenon
  <2> QED BY <1>4, <2>4, Zenon DEF RealOf, SinkOf
<1>6. CASE ~(r \in scheduled_running_reqs /\ InBatch(r))
  <2>1. row'[r] \in Seq(Blocks)
    BY <1>0, <1>2, <1>3, <1>6, Zenon DEF UpdatedRow
  <2> QED BY <1>4, <2>1, RealRow, Zenon DEF RealOf, SinkOf
<1> QED BY <1>5, <1>6, Zenon

\* Evicting candidates touches neither the sink nor, with a local window, the last
\* entry.
LEMMA EvictKeepsReal ==
  ASSUME IInv, RealInv, NEW q \in Requests, evict_request_blocks(q)
  PROVE  RealInv'
<1>0. UNCHANGED <<block_ids, req_to_new_blocks>>
  BY Zenon DEF evict_request_blocks, outVars
<1>1. PICK J \in SUBSET candidates(row[q], NullBlock, SinkOf(q), Local) :
        row' = [row EXCEPT ![q] = NullOut(row[q], NullBlock, J)]
  BY Zenon DEF evict_request_blocks
<1>2. row \in [Requests -> Seq(Entries)]
  BY Zenon DEF IInv, TypeOK, WorkerTypeOK
<1> SUFFICES ASSUME NEW r \in Requests
             PROVE  RealOf(r)'
  BY Zenon DEF RealInv
<1>3. RealOf(r)
  BY Zenon DEF RealInv
<1>4. CASE r # q
  <2>1. row'[r] = row[r]
    BY <1>1, <1>2, <1>4, Zenon
  <2> QED BY <1>0, <1>3, <2>1, Zenon DEF RealOf, SinkOf
<1>5. CASE r = q
  <2> DEFINE s == row[r]
             t == NullOut(s, NullBlock, J)
  <2>1. row'[r] = t /\ s \in Seq(Entries) /\ SinkOf(r) \in Nat
    BY <1>1, <1>2, <1>5, SinkType, Zenon
  <2>2. DOMAIN t = DOMAIN s /\ \A j \in DOMAIN s : t[j] = IF j \in J THEN NullBlock ELSE s[j]
    BY Zenon DEF NullOut
  <2>3. t \in Seq(Entries) /\ Len(t) = Len(s) /\ DOMAIN s = 1..Len(s) /\ Len(s) \in Nat
    <3>1. t \in Seq(Entries)
      BY <2>1, NullOutType, Zenon
    <3> HIDE DEF t, s
    <3>2. Len(t) \in Nat /\ DOMAIN t = 1..Len(t) /\ DOMAIN s = 1..Len(s) /\ Len(s) \in Nat
      BY <2>1, <3>1, LenProperties, Zenon
    <3>3. Len(t) = Len(s)
      BY <2>2, <3>2, SameLength, Zenon
    <3> QED BY <3>1, <3>2, <3>3, Zenon
  <2>4. \A j \in J : SinkOf(r) < j /\ (Local >= 1 => j # Len(s)) /\ j \in DOMAIN s
    BY <1>5, <2>1, CandidateFacts, Zenon
  <2>5. \A j \in DOMAIN t : j <= SinkOf(r) => t[j] # NullBlock
    <3>1. \A j \in DOMAIN s : j <= SinkOf(r) => s[j] # NullBlock
      BY <1>3, Zenon DEF RealOf
    <3> HIDE DEF t, s
    <3> QED BY <2>1, <2>2, <2>3, <2>4, <3>1, SMTT(30)
  <2>6. Local >= 1 /\ t # <<>> => t[Len(t)] # NullBlock
    <3>1. Local >= 1 /\ s # <<>> => s[Len(s)] # NullBlock
      BY <1>3, Zenon DEF RealOf
    <3> HIDE DEF t, s
    <3>2. t # <<>> => s # <<>> /\ Len(s) \in DOMAIN s
      BY <2>1, <2>3, EmptySeq, SMTT(30)
    <3> QED BY <2>2, <2>3, <2>4, <3>1, <3>2, Zenon
  <2> QED BY <1>0, <1>3, <2>1, <2>5, <2>6, Zenon DEF RealOf, SinkOf
<1> QED BY <1>4, <1>5, Zenon

\* What rows are made of, in every step.
LEMMA RealKeeps ==
  ASSUME IInv, QInv, RealInv, [Next]_vars
  PROVE  RealInv'
<1>0. <<>> \in Seq(Blocks) /\ req_to_new_blocks \in [Requests -> Seq(Entries)]
  BY EmptySeq, Zenon DEF IInv, TypeOK, OutTypeOK
<1>1. ASSUME UNCHANGED <<block_ids, row>>,
             \A r \in Requests : \/ req_to_new_blocks'[r] = req_to_new_blocks[r]
                                 \/ req_to_new_blocks'[r] \in Seq(Blocks)
      PROVE  RealInv'
  BY <1>1, Zenon DEF RealInv, RealOf, SinkOf
<1>2. CASE update_states
  BY <1>2, UpdateKeepsReal, Zenon
<1>3. CASE \E r \in Requests : evict_request_blocks(r)
  BY <1>3, EvictKeepsReal, Zenon
<1>4. CASE running_allocate /\ Quiet
  <2>1. PICK nb \in Seq(Blocks) : req_to_new_blocks' = [req_to_new_blocks EXCEPT ![cur] = nb]
    BY <1>4, RunningAllocateFacts, Zenon
  <2> QED BY <1>0, <1>1, <1>4, <2>1, Zenon DEF Quiet, workerVars
<1>5. CASE waiting_admit /\ Quiet
  <2>1. PICK r \in Requests, nb \in Seq(Blocks) :
          req_to_new_blocks' = [req_to_new_blocks EXCEPT ![r] = nb]
    BY <1>5, WaitingAdmitFacts, Zenon
  <2> QED BY <1>0, <1>1, <1>5, <2>1, Zenon DEF Quiet, workerVars
<1>6. CASE running_preempt /\ Quiet
  <2>1. PICK v \in Requests : \/ req_to_new_blocks' = [req_to_new_blocks EXCEPT ![v] = <<>>]
                              \/ UNCHANGED req_to_new_blocks
    BY <1>6, Zenon DEF running_preempt
  <2> QED BY <1>0, <1>1, <1>6, <2>1, Zenon DEF Quiet, workerVars
<1>7. CASE EndExecute
  BY <1>0, <1>1, <1>7, Zenon DEF EndExecute, ClearScheduleLocals, workerVars
<1>8. CASE /\ \/ start_schedule \/ running_skip \/ running_pick \/ running_done \/ waiting_done
           /\ Quiet
  BY <1>1, <1>8, Zenon
     DEF start_schedule, running_skip, running_pick, running_done, waiting_done, Quiet,
       workerVars, outVars
<1>9. CASE FinishSchedule \/ skive_check \/ ResetPreempt \/ ResetDone
  BY <1>1, <1>9, Zenon
     DEF FinishSchedule, finish_schedule, skive_check, ResetPreempt, reset_preempt,
       ResetDone, reset_done, workerVars, outVars
<1>10. CASE OutputStep
  BY <1>1, <1>10, Zenon DEF OutputStep, AwaitOutput, TakeOutput, UpdateFromOutput, PopPending,
       skive_reclaim, EndStep, workerVars, schedVars, outVars
<1>11. CASE ClientStep \/ WaitForInput \/ UNCHANGED vars
  BY <1>1, <1>11, Zenon
     DEF ClientStep, AddRequest, add_request, Abort, finish_requests, PauseScheduler,
       ResumeScheduler, set_pause_state, ResetPrefixCache, WaitForInput, vars, workerVars, schedVars,
       outVars
<1> QED BY <1>2, <1>3, <1>4, <1>5, <1>6, <1>7, <1>8, <1>9, <1>10, <1>11, SMTT(30)
        DEF Next, EngineStep, ScheduleStep, ExecuteStep

\* No row, no cached id, no new block at the start.
LEMMA InitReal == Init => RealInv
<1> SUFFICES ASSUME Init, NEW r \in Requests
             PROVE  RealOf(r)
  BY Zenon DEF RealInv
<1>1. block_ids[r] = <<>> /\ row[r] = <<>> /\ req_to_new_blocks[r] = <<>>
  BY Zenon DEF Init, WorkerInit, SchedInit
<1> QED BY <1>1, EmptySeq DEF RealOf

-----------------------------------------------------------------------------
(* Lengths of the tables *)

\* A request none of whose tables changes.
LEMMA LenUnchanged ==
  ASSUME NEW r \in Requests, LenOf(r), TypeOK,
         \/ status'[r] # "RUNNING"
         \/ /\ status'[r] = status[r]
            /\ num_computed_tokens'[r] = num_computed_tokens[r]
            /\ num_scheduled_tokens'[r] = num_scheduled_tokens[r]
            /\ Len(req_to_blocks'[r]) = Len(req_to_blocks[r])
            /\ req_to_new_blocks'[r] = req_to_new_blocks[r]
            /\ block_ids'[r] = block_ids[r]
            /\ Len(row'[r]) = Len(row[r])
            /\ row'[r] = <<>> <=> row[r] = <<>>
            /\ r \in Fresh' <=> r \in Fresh
            /\ InExecute' <=> InExecute
            /\ Loaded' <=> Loaded
  PROVE  LenOf(r)'
<1>1. CASE status'[r] # "RUNNING"
  BY <1>1, Zenon DEF LenOf
<1>2. CASE status'[r] = "RUNNING"
  <2>1. Pre(r)' = Pre(r)
    BY <1>2, Zenon DEF Pre
  <2>2. InBatch(r)' <=> InBatch(r)
    BY <1>2, Zenon DEF InBatch
  <2>3. r \in Scheduled' <=> r \in Scheduled
    BY <1>2, Zenon DEF Scheduled
  <2> QED BY <1>2, <2>1, <2>2, <2>3, Zenon DEF LenOf
<1> QED BY <1>1, <1>2, Zenon

\* A batch of blocks for a scheduled request.
LEMMA AllocateKeepsLen ==
  ASSUME IInv, QInv, SInv, LenInv, running_allocate, Quiet
  PROVE  LenInv'
<1>0. /\ TypeOK /\ pc = "alloc" /\ pc' = "running" /\ UNCHANGED <<reqVars, workerVars>>
      /\ num_scheduled_tokens' = [num_scheduled_tokens EXCEPT ![cur] = num_new_tokens]
      /\ UNCHANGED <<scheduled_new_reqs, scheduled_resumed_reqs>>
  BY Zenon DEF running_allocate, Quiet, IInv
<1>1. PICK nb \in Seq(Blocks) :
        /\ Len(nb) = BlocksFor(cur, num_new_tokens)
        /\ req_to_blocks' = [req_to_blocks EXCEPT ![cur] = req_to_blocks[cur] \o nb]
        /\ req_to_new_blocks' = [req_to_new_blocks EXCEPT ![cur] = nb]
  BY RunningAllocateFacts, Zenon
<1>2. cur \in Requests
  BY <1>0, Zenon DEF TypeOK, LoopTypeOK
<1> SUFFICES ASSUME NEW r \in Requests
             PROVE  LenOf(r)'
  BY Zenon DEF LenInv
<1>3. LenOf(r) /\ ~InExecute /\ ~InExecute' /\ ~Loaded /\ ~Loaded' /\ Fresh' = Fresh
  BY <1>0, Zenon DEF LenInv, InExecute, Loaded, Fresh
<1>4. CASE r # cur
  <2>1. /\ num_scheduled_tokens'[r] = num_scheduled_tokens[r]
        /\ req_to_blocks'[r] = req_to_blocks[r] /\ req_to_new_blocks'[r] = req_to_new_blocks[r]
    BY <1>0, <1>1, <1>4, Zenon DEF TypeOK, OutTypeOK, KVTypeOK
  <2> QED BY <1>0, <1>3, <2>1, LenUnchanged, Zenon DEF reqVars, workerVars
<1>5. CASE r = cur
  <2> DEFINE B == req_to_blocks[r]
             c == num_computed_tokens[r]
  <2>1. /\ num_scheduled_tokens'[r] = num_new_tokens /\ req_to_blocks'[r] = B \o nb
        /\ req_to_new_blocks'[r] = nb /\ B \in Seq(Entries)
    BY <1>0, <1>1, <1>5, Zenon DEF TypeOK, OutTypeOK, KVTypeOK
  <2>2. status[r] = "RUNNING"
    BY <1>0, <1>5, Zenon DEF SInv, IndexInv, QInv, QueuesMatchStatus, Elems
  <2>3. c \in Nat /\ num_new_tokens \in Nat
    BY <1>0, <1>5 DEF SInv, TokenInv, TokensOf, IndexInv, TypeOK, ReqTypeOK, LoopTypeOK
  <2>4. r \notin Lists /\ r \notin Fresh
    BY <1>0, <1>5, Zenon DEF SInv, IndexInv, ListInv, Lists, Fresh
  <2>5. num_scheduled_tokens[r] = 0
    BY <2>4 DEF SInv, TokenInv, TokensOf, TypeOK, IInv, OutTypeOK
  <2>6. Pre(r) = c /\ Pre(r)' = c
    BY <1>0, <1>3, Zenon DEF Pre, reqVars
  <2>7. Len(B) = CeilDiv(c, BlockSize)
    BY <1>3, <2>2, <2>3, <2>5, <2>6, SMTT(30) DEF LenOf
  <2>8. CeilDiv(c, BlockSize) \in Nat /\ CeilDiv(c + num_new_tokens, BlockSize) \in Nat
        /\ CeilDiv(c, BlockSize) <= CeilDiv(c + num_new_tokens, BlockSize)
    <3> HIDE DEF c
    <3> QED BY <2>3, CeilDivFacts
  <2>9. Len(nb) = CeilDiv(c + num_new_tokens, BlockSize) - Len(B)
    <3>1. Len(nb) = LET missing == CeilDiv(c + num_new_tokens, BlockSize) - Len(B)
                    IN  IF missing > 0 THEN missing ELSE 0
      BY <1>1, <1>5, Zenon DEF BlocksFor, get_num_blocks_to_allocate
    <3> HIDE DEF B, c
    <3> QED BY <2>7, <2>8, <3>1, SMTT(30)
  <2>10. Len(B \o nb) = Len(B) + Len(nb) /\ Len(B) \in Nat /\ Len(nb) \in Nat
    <3> HIDE DEF B
    <3> QED BY <2>1, ExtendRow, Zenon
  <2>11. /\ Len(req_to_blocks'[r]) = CeilDiv(c + num_scheduled_tokens'[r], BlockSize)
         /\ Len(req_to_blocks'[r]) = CeilDiv(c, BlockSize) + Len(req_to_new_blocks'[r])
    <3> HIDE DEF B, c
    <3> QED BY <2>1, <2>7, <2>8, <2>9, <2>10, SMTT(30)
  <2>12. /\ Len(block_ids'[r]) = CeilDiv(c, BlockSize)
         /\ InBatch(r)' => Len(row'[r]) = CeilDiv(c, BlockSize)
    BY <1>0, <1>3, <2>2, <2>4, <2>6, Zenon DEF LenOf, InBatch, workerVars
  <2> QED BY <1>3, <2>3, <2>4, <2>6, <2>11, <2>12, SMTT(30) DEF LenOf
<1> QED BY <1>4, <1>5, Zenon

\* The blocks of an admitted request, for its first chunk.
LEMMA AdmitKeepsLen ==
  ASSUME IInv, QInv, SInv, LenInv, TokenInv', TypeOK', waiting_admit, Quiet
  PROVE  LenInv'
<1>0. TypeOK /\ pc = "waiting" /\ pc' = "waiting" /\ UNCHANGED workerVars
  BY Zenon DEF waiting_admit, InWaitingLoop, Quiet, IInv
<1>1. PICK q \in Requests, nb \in Seq(Blocks) :
        /\ status' = [status EXCEPT ![q] = "RUNNING"]
        /\ Len(nb) = get_num_blocks_to_allocate(q, WaitingTokens(q))
        /\ req_to_blocks[q] = <<>>
        /\ req_to_blocks' = [req_to_blocks EXCEPT ![q] = nb]
        /\ req_to_new_blocks' = [req_to_new_blocks EXCEPT ![q] = nb]
        /\ num_scheduled_tokens' = [num_scheduled_tokens EXCEPT ![q] = WaitingTokens(q)]
        /\ num_computed_tokens' = [num_computed_tokens EXCEPT ![q] = 0]
        /\ Fresh' = Fresh \cup {q}
  <2>1. waiting_admit => Fresh' = scheduled_new_reqs' \cup scheduled_resumed_reqs'
    BY Zenon DEF Fresh
  <2> QED BY <2>1, WaitingAdmitFacts, Zenon DEF Fresh
<1> SUFFICES ASSUME NEW r \in Requests
             PROVE  LenOf(r)'
  BY Zenon DEF LenInv
<1>3. LenOf(r) /\ ~InExecute /\ ~InExecute' /\ ~Loaded /\ ~Loaded'
  BY <1>0, Zenon DEF LenInv, InExecute, Loaded
<1>4. CASE r # q
  <2>1. /\ num_scheduled_tokens'[r] = num_scheduled_tokens[r] /\ status'[r] = status[r]
        /\ num_computed_tokens'[r] = num_computed_tokens[r] /\ (r \in Fresh' <=> r \in Fresh)
        /\ req_to_blocks'[r] = req_to_blocks[r] /\ req_to_new_blocks'[r] = req_to_new_blocks[r]
    BY <1>0, <1>1, <1>4, SMTT(30) DEF TypeOK, OutTypeOK, KVTypeOK, ReqTypeOK
  <2> QED BY <1>0, <1>3, <2>1, LenUnchanged, Zenon DEF workerVars
<1>5. CASE r = q
  <2> DEFINE n == WaitingTokens(r)
  <2>1. /\ num_scheduled_tokens'[r] = n /\ num_computed_tokens'[r] = 0 /\ r \in Fresh'
        /\ req_to_blocks'[r] = nb /\ req_to_new_blocks'[r] = nb
    BY <1>0, <1>1, <1>5, Zenon DEF TypeOK, OutTypeOK, KVTypeOK, ReqTypeOK
  <2>2. n \in Nat
    <3>1. num_scheduled_tokens'[r] \in Int /\ 0 <= num_scheduled_tokens'[r]
      BY Zenon DEF TokenInv, TokensOf, TypeOK, OutTypeOK
    <3> QED BY <2>1, <3>1
  <2>3. CeilDiv(n, BlockSize) \in Nat /\ CeilDiv(0, BlockSize) = 0
    <3> HIDE DEF n
    <3> QED BY <2>2, CeilDivFacts, Zenon
  <2>4. Len(nb) = CeilDiv(n, BlockSize)
    <3>1. Len(req_to_blocks[r]) = 0
      BY <1>1, <1>5, Zenon
    <3>2. Len(nb) = LET missing == CeilDiv(n, BlockSize) - 0
                    IN  IF missing > 0 THEN missing ELSE 0
      BY <1>1, <1>5, <3>1, Zenon DEF get_num_blocks_to_allocate
    <3> HIDE DEF n
    <3> QED BY <2>3, <3>2
  <2>5. Pre(r)' = 0
    BY <1>3, <2>1, Zenon DEF Pre
  <2>6. 0 + n = n /\ Len(nb) \in Nat
    BY <2>2, <2>3, <2>4, SMTT(30)
  <2> HIDE DEF n
  <2> QED BY <1>3, <2>1, <2>3, <2>4, <2>5, <2>6, SMTT(30) DEF LenOf
<1> QED BY <1>4, <1>5, Zenon

\* _update_states brings the worker's tables to the scheduler's lengths.
LEMMA UpdateKeepsLen ==
  ASSUME IInv, QInv, SInv, LenInv, FinishedInv, update_states
  PROVE  LenInv'
<1>0. /\ TypeOK /\ pc = "execute" /\ UNCHANGED <<kvVars, reqVars, outVars>>
      /\ pc' \in {"hook", "end"}
      /\ block_ids' = [r \in Requests |-> UpdatedBlockIds(r)]
      /\ row' = [r \in Requests |-> UpdatedRow(r)]
  BY Zenon DEF update_states, IInv
<1>1. InExecute /\ InExecute' /\ ~Loaded /\ Loaded' /\ Fresh' = Fresh /\ Scheduled' = Scheduled
  BY <1>0, Zenon DEF InExecute, Loaded, Fresh, Scheduled, outVars
<1> SUFFICES ASSUME NEW r \in Requests, status[r] = "RUNNING"
             PROVE  LenOf(r)'
  BY <1>0, Zenon DEF LenInv, LenOf, reqVars
<1> DEFINE B == req_to_blocks[r]
           s == row[r]
           i == block_ids[r]
           t == req_to_new_blocks[r]
           before == CeilDiv(Pre(r), BlockSize)
<1>2. /\ s \in Seq(Entries) /\ i \in Seq(Entries) /\ t \in Seq(Entries) /\ B \in Seq(Entries)
      /\ num_scheduled_tokens[r] \in Int /\ num_computed_tokens[r] \in Int
  BY <1>0, Zenon DEF TypeOK, WorkerTypeOK, OutTypeOK, KVTypeOK, ReqTypeOK
<1>3. /\ Len(s) \in Nat /\ Len(i) \in Nat /\ Len(t) \in Nat /\ Len(B) \in Nat
      /\ Len(s \o t) = Len(s) + Len(t) /\ Len(i \o t) = Len(i) + Len(t)
  <2> HIDE DEF s, i, t, B
  <2> QED BY <1>2, LenProperties, ConcatProperties, Zenon
<1>4. /\ Pre(r) >= 0 /\ Len(B) = CeilDiv(Pre(r) + num_scheduled_tokens[r], BlockSize)
      /\ Len(B) = before + Len(t) /\ (r \in Fresh => Pre(r) = 0)
      /\ r \notin Fresh => Len(i) = before /\ (InBatch(r) => Len(s) = before)
  BY <1>1, Zenon DEF LenInv, LenOf
<1>5. before \in Nat /\ CeilDiv(0, BlockSize) = 0
  <2>1. Pre(r) \in Nat
    BY <1>2, <1>4, SMTT(30) DEF Pre
  <2> QED BY <2>1, CeilDivFacts, Zenon
<1>6. r \in Scheduled <=> r \in Lists
  BY Zenon DEF Scheduled, SInv, TokenInv, TokensOf
<1>7. r \in scheduled_running_reqs => r \notin Fresh
  BY Zenon DEF SInv, ListInv, Fresh
<1>8. r \notin Lists => t = <<>> /\ r \notin finished_out
  BY Zenon DEF SInv, TokenInv, TokensOf, FinishedInv
<1>9. /\ Len(UpdatedBlockIds(r)) = Len(B)
      /\ r \in Scheduled => Len(UpdatedRow(r)) = Len(B)
      /\ r \notin Scheduled => UpdatedRow(r) = <<>>
  <2>1. CASE r \in Fresh
    <3>1. UpdatedBlockIds(r) = t /\ UpdatedRow(r) = t /\ r \in Scheduled
      BY <1>6, <1>7, <2>1, Zenon DEF UpdatedBlockIds, UpdatedRow, Fresh, Lists
    <3>2. Len(t) = Len(B)
      <4>1. before = 0
        BY <1>4, <1>5, <2>1, Zenon
      <4> HIDE DEF before, t, B
      <4> QED BY <1>3, <1>4, <4>1, SMTT(30)
    <3> HIDE DEF t, B
    <3> QED BY <3>1, <3>2, Zenon
  <2>2. CASE r \in scheduled_running_reqs
    <3>1. /\ UpdatedBlockIds(r) = i \o t /\ r \in Scheduled /\ r \notin Fresh
          /\ UpdatedRow(r) = IF InBatch(r) THEN s \o t ELSE i \o t
      BY <1>6, <1>7, <2>2, Zenon DEF UpdatedBlockIds, UpdatedRow, Fresh, Lists
    <3> HIDE DEF s, i, t, B, before
    <3> QED BY <1>3, <1>4, <1>5, <3>1, Zenon
  <2>3. CASE r \notin Lists
    <3>1. UpdatedBlockIds(r) = i /\ UpdatedRow(r) = <<>> /\ r \notin Scheduled /\ r \notin Fresh
      BY <1>6, <1>8, <2>3, Zenon DEF UpdatedBlockIds, UpdatedRow, Fresh, Lists
    <3>2. Len(t) = 0
      BY <1>8, <2>3, SMTT(30)
    <3>3. Len(i) = Len(B)
      <4>1. Len(i) = before /\ Len(B) = before + Len(t)
        BY <1>4, <3>1, Zenon
      <4> HIDE DEF i, t, B, before
      <4> QED BY <1>5, <3>2, <4>1, SMTT(30)
    <3> HIDE DEF i, B
    <3> QED BY <3>1, <3>3, Zenon
  <2> QED BY <2>1, <2>2, <2>3, Zenon DEF Lists, Fresh
<1>10. /\ Len(block_ids'[r]) = Len(B)
       /\ InBatch(r)' \/ r \in Scheduled => Len(row'[r]) = Len(B)
  BY <1>0, <1>9, Zenon DEF InBatch
<1>11. Pre(r)' = Pre(r) /\ req_to_blocks'[r] = B /\ req_to_new_blocks'[r] = t
       /\ num_scheduled_tokens'[r] = num_scheduled_tokens[r]
  BY <1>0, <1>1, Zenon DEF Pre, kvVars, reqVars, outVars
<1> HIDE DEF B, t, s, i
<1> QED BY <1>1, <1>4, <1>10, <1>11, Zenon DEF LenOf

\* The end of execution: the tokens of the step are computed tokens now.
LEMMA EndKeepsLen ==
  ASSUME IInv, SInv, LenInv, EndExecute
  PROVE  LenInv'
<1>0. /\ TypeOK /\ pc = "end" /\ pc' \in {"idle", "aborts"} /\ UNCHANGED <<kvVars, reqVars, workerVars>>
      /\ num_scheduled_tokens' = [r \in Requests |-> 0]
      /\ req_to_new_blocks' = [r \in Requests |-> <<>>]
  BY Zenon DEF EndExecute, ClearScheduleLocals, IInv
<1> SUFFICES ASSUME NEW r \in Requests, status[r] = "RUNNING"
             PROVE  LenOf(r)'
  BY <1>0, Zenon DEF LenInv, LenOf, reqVars
<1>1. InExecute /\ ~InExecute' /\ Loaded /\ ~Loaded' /\ LenOf(r)
  BY <1>0, Zenon DEF InExecute, Loaded, LenInv
<1>2. num_computed_tokens[r] \in Int /\ num_scheduled_tokens[r] \in Int
  BY <1>0, Zenon DEF TypeOK, ReqTypeOK, OutTypeOK
<1>3. Pre(r)' = num_computed_tokens[r] /\ Pre(r) + num_scheduled_tokens[r] = num_computed_tokens[r]
  BY <1>0, <1>1, <1>2, SMTT(30) DEF Pre, reqVars
<1>4. 0 <= num_computed_tokens[r] /\ num_computed_tokens[r] + 0 = num_computed_tokens[r]
  BY <1>2, SMTT(30) DEF SInv, TokenInv, TokensOf
<1>5. CeilDiv(num_computed_tokens[r], BlockSize) \in Nat
  BY <1>2, <1>4, CeilDivFacts, SMTT(30)
<1>6. /\ num_scheduled_tokens'[r] = 0 /\ Len(req_to_new_blocks'[r]) = 0
      /\ req_to_blocks'[r] = req_to_blocks[r] /\ row'[r] = row[r] /\ block_ids'[r] = block_ids[r]
  BY <1>0, Zenon DEF kvVars, workerVars
<1>7. Len(req_to_blocks[r]) = CeilDiv(num_computed_tokens[r], BlockSize)
  BY <1>1, <1>3, Zenon DEF LenOf
<1>8. /\ Len(block_ids[r]) = Len(req_to_blocks[r])
      /\ InBatch(r) => Len(row[r]) = Len(req_to_blocks[r])
  BY <1>1, Zenon DEF LenOf
<1>9. r \notin Fresh'
  BY Zenon DEF Fresh, EndExecute, ClearScheduleLocals
<1> QED BY <1>1, <1>3, <1>4, <1>5, <1>6, <1>7, <1>8, <1>9, SMTT(30) DEF LenOf, InBatch

\* finish_schedule advances the computed tokens by those of the step.
LEMMA FinishKeepsLen ==
  ASSUME IInv, LenInv, FinishSchedule
  PROVE  LenInv'
<1>0. /\ TypeOK /\ pc = "finish" /\ pc' = "execute" /\ UNCHANGED <<kvVars, status, workerVars>>
      /\ UNCHANGED <<num_scheduled_tokens, req_to_new_blocks, scheduled_new_reqs,
                     scheduled_resumed_reqs>>
      /\ num_computed_tokens' =
           [r \in Requests |-> num_computed_tokens[r] + num_scheduled_tokens[r]]
  BY Zenon DEF FinishSchedule, finish_schedule, IInv
<1> SUFFICES ASSUME NEW r \in Requests, status[r] = "RUNNING"
             PROVE  LenOf(r)'
  BY <1>0, Zenon DEF LenInv, LenOf
<1>1. ~InExecute /\ InExecute' /\ ~Loaded /\ ~Loaded' /\ LenOf(r) /\ Fresh' = Fresh
  BY <1>0, Zenon DEF InExecute, Loaded, LenInv, Fresh
<1>2. num_computed_tokens[r] \in Int /\ num_scheduled_tokens[r] \in Int
  BY <1>0, Zenon DEF TypeOK, ReqTypeOK, OutTypeOK
<1>3. Pre(r)' = Pre(r)
  BY <1>0, <1>1, <1>2, SMTT(30) DEF Pre
<1> QED BY <1>0, <1>1, <1>3, Zenon DEF LenOf, InBatch, kvVars, workerVars

\* The lengths of the tables, in every step.
LEMMA LenKeeps ==
  ASSUME IInv, QInv, SInv, LenInv, FinishedInv, TypeOK', TokenInv', [Next]_vars
  PROVE  LenInv'
<1>0. TypeOK
  BY Zenon DEF IInv
<1>1. CASE running_allocate /\ Quiet
  BY <1>1, AllocateKeepsLen, Zenon
<1>2. CASE waiting_admit /\ Quiet
  BY <1>2, AdmitKeepsLen, Zenon
<1>3. CASE update_states
  BY <1>3, UpdateKeepsLen, Zenon
<1>4. CASE EndExecute
  BY <1>4, EndKeepsLen, Zenon
<1>5. CASE FinishSchedule
  BY <1>5, FinishKeepsLen, Zenon
<1>6. ASSUME UNCHANGED <<block_ids, row>>, Fresh' = Fresh, InExecute' <=> InExecute, Loaded' <=> Loaded,
             NEW q \in Requests, status'[q] # "RUNNING",
             \A r \in Requests : r # q =>
               /\ status'[r] = status[r] /\ num_computed_tokens'[r] = num_computed_tokens[r]
               /\ num_scheduled_tokens'[r] = num_scheduled_tokens[r]
               /\ req_to_blocks'[r] = req_to_blocks[r]
               /\ req_to_new_blocks'[r] = req_to_new_blocks[r]
      PROVE  LenInv'
  BY <1>0, <1>6, LenUnchanged, Zenon DEF LenInv
<1>7. ASSUME UNCHANGED <<num_computed_tokens, num_scheduled_tokens, req_to_new_blocks, block_ids,
                         status>>,
             Fresh' = Fresh, InExecute' <=> InExecute, Loaded' <=> Loaded,
             \A r \in Requests : /\ Len(req_to_blocks'[r]) = Len(req_to_blocks[r])
                                 /\ Len(row'[r]) = Len(row[r])
                                 /\ row'[r] = <<>> <=> row[r] = <<>>
      PROVE  LenInv'
  BY <1>0, <1>7, LenUnchanged, Zenon DEF LenInv
<1>8. CASE running_preempt /\ Quiet
  <2>1. PICK q \in Requests :
          /\ preempt_request(q)
          /\ IF Unschedule(q)
             THEN /\ num_scheduled_tokens' = [num_scheduled_tokens EXCEPT ![q] = 0]
                  /\ req_to_new_blocks' = [req_to_new_blocks EXCEPT ![q] = <<>>]
             ELSE UNCHANGED <<num_scheduled_tokens, req_to_new_blocks>>
    BY <1>8, Zenon DEF running_preempt
  <2>2. pc = "alloc" /\ pc' \in {"alloc", "finish"} /\ UNCHANGED <<block_ids,
  row>> /\ Fresh' = Fresh
    BY <1>8, Zenon DEF running_preempt, Quiet, workerVars, Fresh
  <2>3. status'[q] = "PREEMPTED"
    BY <1>0, <2>1, Zenon DEF preempt_request, TypeOK, ReqTypeOK
  <2>4. \A r \in Requests : r # q =>
               /\ status'[r] = status[r] /\ num_computed_tokens'[r] = num_computed_tokens[r]
               /\ num_scheduled_tokens'[r] = num_scheduled_tokens[r]
               /\ req_to_blocks'[r] = req_to_blocks[r]
               /\ req_to_new_blocks'[r] = req_to_new_blocks[r]
    <3>1. \A r \in Requests : r # q =>
               /\ status'[r] = status[r] /\ num_computed_tokens'[r] = num_computed_tokens[r]
      BY <1>0, <2>1, Zenon DEF preempt_request, TypeOK, ReqTypeOK
    <3>2. \A r \in Requests : r # q => num_scheduled_tokens'[r] = num_scheduled_tokens[r]
      BY <1>0, <2>1, Zenon DEF TypeOK, OutTypeOK
    <3>3. \A r \in Requests : r # q => req_to_new_blocks'[r] = req_to_new_blocks[r]
      BY <1>0, <2>1, Zenon DEF TypeOK, OutTypeOK
    <3>4. \A r \in Requests : r # q => req_to_blocks'[r] = req_to_blocks[r]
      BY <1>0, <2>1, Zenon DEF preempt_request, kv_free, TypeOK, KVTypeOK
    <3> QED BY <3>1, <3>2, <3>3, <3>4, Zenon
  <2>5. (InExecute' <=> InExecute) /\ (Loaded' <=> Loaded)
    BY <2>2, Zenon DEF InExecute, Loaded
  <2> QED BY <1>6, <2>2, <2>3, <2>4, <2>5, Zenon
<1>9. CASE ResetPreempt
  <2>1. PICK q \in Requests : preempt_request(q)
    BY <1>9, Zenon DEF ResetPreempt, reset_preempt
  <2>2. pc' = pc /\ UNCHANGED <<block_ids, row, outVars>>
    BY <1>9, Zenon DEF ResetPreempt, reset_preempt, workerVars
  <2>3. status'[q] = "PREEMPTED"
    BY <1>0, <2>1, Zenon DEF preempt_request, TypeOK, ReqTypeOK
  <2>4. \A r \in Requests : r # q =>
               /\ status'[r] = status[r] /\ num_computed_tokens'[r] = num_computed_tokens[r]
               /\ req_to_blocks'[r] = req_to_blocks[r]
    BY <1>0, <2>1, Zenon DEF preempt_request, kv_free, TypeOK, ReqTypeOK, KVTypeOK
  <2> QED BY <1>6, <2>2, <2>3, <2>4, Zenon DEF InExecute, Loaded, Fresh, outVars
<1>10. ASSUME NEW q \in Requests, free_request(q), pc' = pc, UNCHANGED <<block_ids, row, outVars>>
       PROVE  LenInv'
  <2>1. status'[q] = "FINISHED"
    BY <1>0, <1>10, Zenon DEF free_request, TypeOK, ReqTypeOK
  <2>2. \A r \in Requests : r # q =>
               /\ status'[r] = status[r] /\ num_computed_tokens'[r] = num_computed_tokens[r]
               /\ req_to_blocks'[r] = req_to_blocks[r]
    BY <1>0, <1>10, Zenon DEF free_request, kv_free, TypeOK, ReqTypeOK, KVTypeOK
  <2> QED BY <1>6, <1>10, <2>1, <2>2, Zenon DEF InExecute, Loaded, Fresh, outVars
<1>11. CASE ClientStep
  <2>1. ASSUME NEW q \in Requests, Abort(q)
        PROVE  LenInv'
    BY <1>10, <2>1, Zenon DEF Abort, finish_requests, workerVars
  <2>2. ASSUME NEW q \in Requests, AddRequest(q)
        PROVE  LenInv'
    <3>1. /\ pc' = pc /\ UNCHANGED <<kvVars, workerVars, num_computed_tokens, outVars>>
          /\ status' = [status EXCEPT ![q] = "WAITING"]
      BY <2>2, Zenon DEF AddRequest, add_request
    <3>2. status'[q] # "RUNNING" /\ \A r \in Requests : r # q => status'[r] = status[r]
      BY <1>0, <3>1, Zenon DEF TypeOK, ReqTypeOK
    <3> QED BY <1>6, <3>1, <3>2, Zenon DEF InExecute, Loaded, Fresh, kvVars, workerVars, outVars
  <2>3. CASE PauseScheduler \/ ResumeScheduler \/ ResetPrefixCache
    <3>1. /\ UNCHANGED <<kvVars, workerVars, reqVars, outVars>>
          /\ pc = "idle" /\ pc' \in {"idle", "reset"}
      BY <2>3, Zenon DEF PauseScheduler, ResumeScheduler, ResetPrefixCache, set_pause_state
    <3> QED BY <1>7, <3>1, Zenon DEF InExecute, Loaded, Fresh, kvVars, workerVars, reqVars,
               outVars
  <2> QED BY <1>11, <2>1, <2>2, <2>3, Zenon DEF ClientStep
<1>12. CASE /\ \/ start_schedule \/ running_skip \/ running_pick \/ running_done \/ waiting_done
            /\ Quiet
  <2>1. /\ UNCHANGED <<kvVars, workerVars, reqVars, outVars>>
        /\ pc' \in {"running", "alloc", "waiting", "finish"}
        /\ pc \in {"idle", "running", "alloc", "waiting", "finish"}
    BY <1>12, Zenon
       DEF start_schedule, running_skip, running_pick, running_done, waiting_done, Quiet,
         InRunningLoop, outVars
  <2> QED BY <1>7, <2>1, Zenon DEF InExecute, Loaded, Fresh, kvVars, workerVars, reqVars,
             outVars
<1>13. CASE skive_check
  <2>1. /\ UNCHANGED <<kvVars, reqVars, outVars, block_ids, row>> /\ pc = "hook" /\ pc' = "end"
    BY <1>13, Zenon DEF skive_check
  <2> QED BY <1>7, <2>1, Zenon DEF InExecute, Loaded, Fresh, kvVars, reqVars, outVars
<1>14. ASSUME NEW q \in Requests, evict_request_blocks(q)
       PROVE  LenInv'
  <2>1. PICK J : row' = [row EXCEPT ![q] = NullOut(row[q], NullBlock, J)]
    BY <1>14, Zenon DEF evict_request_blocks
  <2>2. UNCHANGED <<kvVars, reqVars, outVars, block_ids>> /\ pc' = pc
    BY <1>14, Zenon DEF evict_request_blocks
  <2>3. \A r \in Requests : Len(row'[r]) = Len(row[r]) /\ (row'[r] = <<>> <=> row[r] = <<>>)
    BY <1>0, <2>1, NullOutFacts, SMTT(30) DEF TypeOK, WorkerTypeOK
  <2> QED BY <1>7, <2>2, <2>3, Zenon DEF InExecute, Loaded, Fresh, kvVars, reqVars, outVars
<1>15. CASE OutputStep
  <2>1. CASE AwaitOutput \/ TakeOutput \/ PopPending \/ EndStep
    <3>1. /\ UNCHANGED <<kvVars, reqVars, outVars, block_ids, row>>
          /\ pc \notin {"execute", "hook", "end"} /\ pc' \notin {"execute", "hook", "end"}
      BY <2>1, Zenon DEF AwaitOutput, TakeOutput, PopPending, EndStep, workerVars
    <3> QED BY <1>7, <3>1, Zenon DEF InExecute, Loaded, Fresh, kvVars, reqVars, outVars
  <2>2. ASSUME NEW q \in Requests, UpdateFromOutput(q)
        PROVE  LenInv'
    <3>1. pc' = pc /\ UNCHANGED <<block_ids, row, outVars>>
      BY <2>2, Zenon DEF UpdateFromOutput, workerVars
    <3>2. CASE free_request(q)
      BY <1>10, <3>1, <3>2, Zenon
    <3>3. CASE UNCHANGED <<kvVars, status, num_computed_tokens>>
      BY <1>7, <3>1, <3>3, Zenon DEF InExecute, Loaded, Fresh, kvVars, outVars
    <3> QED BY <2>2, <3>2, <3>3, Zenon DEF UpdateFromOutput, update_from_output, reqVars
  <2>3. CASE \E item \in popped : skive_reclaim(item[1], item[2])
    <3>1. PICK item \in popped : skive_reclaim(item[1], item[2])
      BY <2>3, Zenon
    <3>2. UNCHANGED <<pc, reqVars, outVars, block_ids, row>>
      BY <3>1, Zenon DEF skive_reclaim, schedVars, workerVars
    <3>3. \/ UNCHANGED req_to_blocks
          \/ req_to_blocks' = [req_to_blocks EXCEPT ![item[1]] =
               NullOut(req_to_blocks[item[1]], NullBlock, {item[2]})]
      BY <3>1, Zenon DEF skive_reclaim, FreeEntry, kvVars
    <3>4. item[1] \in Requests
      BY <1>0, Zenon DEF TypeOK, EngineTypeOK
    <3>5. \A r \in Requests : Len(req_to_blocks'[r]) = Len(req_to_blocks[r])
      BY <1>0, <3>3, <3>4, NullOutFacts, SMTT(30) DEF TypeOK, KVTypeOK
    <3> QED BY <1>7, <3>2, <3>5, Zenon DEF InExecute, Loaded, Fresh, reqVars, outVars
  <2> QED BY <1>15, <2>1, <2>2, <2>3, Zenon DEF OutputStep
<1>16. CASE ResetDone \/ WaitForInput \/ UNCHANGED vars
  <2>1. /\ UNCHANGED <<kvVars, reqVars, outVars, block_ids, row>>
        /\ pc' = pc \/ (pc = "reset" /\ pc' = "idle")
    BY <1>16, Zenon DEF ResetDone, reset_done, WaitForInput, vars, schedVars, workerVars
  <2> QED BY <1>7, <2>1, Zenon DEF InExecute, Loaded, Fresh, kvVars, reqVars, outVars
<1> QED BY <1>1, <1>2, <1>3, <1>4, <1>5, <1>8, <1>9, <1>11, <1>12, <1>13, <1>14, <1>15, <1>16,
           Zenon
        DEF Next, EngineStep, ScheduleStep, ExecuteStep

\* Finished requests stay finished.
LEMMA FinishedKeeps ==
  ASSUME IInv, QInv, FinishedInv, [Next]_vars
  PROVE  FinishedInv'
<1>0. status \in [Requests -> Statuses] /\ finished_req_ids \subseteq Requests
      /\ finished_out \subseteq Requests
  BY Zenon DEF IInv, TypeOK, ReqTypeOK, QueueTypeOK, OutTypeOK
<1>1. ASSUME finished_req_ids' \cup finished_out' \subseteq finished_req_ids \cup finished_out,
             \A r \in Requests : status[r] = "FINISHED" => status'[r] = "FINISHED"
      PROVE  FinishedInv'
  BY <1>0, <1>1, Zenon DEF FinishedInv
<1>2. ASSUME NEW q \in Requests, free_request(q), UNCHANGED finished_out
      PROVE  FinishedInv'
  BY <1>0, <1>2, Zenon DEF free_request, FinishedInv
<1>3. CASE ClientStep
  <2>1. ASSUME NEW q \in Requests, Abort(q)
        PROVE  FinishedInv'
    BY <1>2, <2>1, Zenon DEF Abort, finish_requests, outVars
  <2>2. CASE ~\E q \in Requests : Abort(q)
    BY <1>0, <1>1, <1>3, <2>2, Zenon DEF ClientStep, AddRequest, add_request, PauseScheduler,
         ResumeScheduler, ResetPrefixCache, set_pause_state, reqVars, queueVars, outVars
  <2> QED BY <2>1, <2>2, Zenon
<1>4. CASE running_preempt \/ waiting_admit
  <2>1. PICK q \in Requests : \/ status' = [status EXCEPT ![q] = "RUNNING"] /\ IsNext(q)
                              \/ status' = [status EXCEPT ![q] = "PREEMPTED"] /\ IsVictim(q)
    BY <1>4, Zenon DEF running_preempt, waiting_admit, preempt_request
  <2>2. UNCHANGED <<finished_req_ids, finished_out>>
    BY <1>4, Zenon DEF running_preempt, waiting_admit
  <2>3. status[q] # "FINISHED"
    BY <2>1, Zenon DEF IsNext, IsVictim, QInv, QueuesMatchStatus
  <2> QED BY <1>0, <1>1, <2>1, <2>2, <2>3, Zenon
<1>5. CASE ResetPreempt
  <2>1. PICK q \in Requests : q = running[Len(running)] /\ status' = [status EXCEPT ![q] = "PREEMPTED"]
    BY <1>5, Zenon DEF ResetPreempt, reset_preempt, preempt_request
  <2>2. UNCHANGED <<finished_req_ids, finished_out>> /\ running # <<>>
    BY <1>5, Zenon DEF ResetPreempt, reset_preempt, outVars
  <2>3. q \in Elems(running)
    BY <2>1, <2>2, LenProperties, EmptySeq, SMTT(30) DEF Elems, IInv, TypeOK, QueueTypeOK
  <2>4. status[q] # "FINISHED"
    BY <2>3, Zenon DEF QInv, QueuesMatchStatus
  <2> QED BY <1>0, <1>1, <2>1, <2>2, <2>4, Zenon
<1>6. CASE \E q \in Requests : UpdateFromOutput(q)
  <2>1. PICK q \in Requests : UpdateFromOutput(q)
    BY <1>6, Zenon
  <2>2. UNCHANGED finished_out /\ (free_request(q) \/ UNCHANGED <<status, finished_req_ids>>)
    BY <2>1, Zenon DEF UpdateFromOutput, update_from_output, reqVars, queueVars, outVars
  <2> QED BY <1>1, <1>2, <2>2, Zenon
<1>7. CASE FinishSchedule \/ EndExecute
  BY <1>1, <1>7, Zenon
     DEF FinishSchedule, finish_schedule, EndExecute, ClearScheduleLocals, reqVars,
       queueVars
<1>8. CASE start_schedule \/ running_skip \/ running_pick \/ running_allocate \/ running_done
             \/ waiting_done
  BY <1>1, <1>8, Zenon
     DEF start_schedule, running_skip, running_pick, running_allocate, running_done,
       waiting_done, reqVars, queueVars, outVars
<1>9. CASE update_states \/ skive_check \/ (\E q \in Requests : evict_request_blocks(q)) \/ ResetDone
  BY <1>1, <1>9, Zenon
     DEF update_states, skive_check, evict_request_blocks, ResetDone, reset_done, reqVars,
       queueVars, outVars
<1>10. CASE AwaitOutput \/ TakeOutput \/ PopPending \/ EndStep \/ WaitForInput \/ UNCHANGED vars
             \/ (\E item \in popped : skive_reclaim(item[1], item[2]))
  BY <1>1, <1>10, Zenon
     DEF AwaitOutput, TakeOutput, PopPending, EndStep, skive_reclaim, WaitForInput, vars,
       schedVars, reqVars, queueVars, outVars
<1> QED BY <1>3, <1>4, <1>5, <1>6, <1>7, <1>8, <1>9, <1>10, Zenon
        DEF Next, EngineStep, ScheduleStep, ExecuteStep, OutputStep

-----------------------------------------------------------------------------
(* Where the step's tokens are written *)

\* Only _update_states starts a forward pass.
LEMMA HookEntered ==
  ASSUME [Next]_vars, pc' = "hook"
  PROVE  update_states \/ UNCHANGED vars
<1>1. CASE ClientStep \/ WaitForInput
  BY <1>1, Zenon DEF ClientStep, AddRequest, add_request, Abort, finish_requests,
     PauseScheduler,
       ResumeScheduler, set_pause_state, ResetPrefixCache, WaitForInput
<1>2. CASE ScheduleStep
  BY <1>2, Zenon DEF ScheduleStep, start_schedule, running_skip, running_pick, running_allocate,
       running_preempt, running_done, waiting_admit, waiting_done, FinishSchedule,
       finish_schedule,
       InRunningLoop, InWaitingLoop
<1>3. CASE ExecuteStep
  BY <1>3, Zenon DEF ExecuteStep, skive_check, evict_request_blocks, EndExecute
<1>4. CASE OutputStep
  BY <1>4, Zenon
     DEF OutputStep, AwaitOutput, TakeOutput, UpdateFromOutput, PopPending, skive_reclaim,
       EndStep, schedVars
<1>5. CASE ResetPreempt \/ ResetDone
  BY <1>5, Zenon DEF ResetPreempt, ResetDone
<1> QED BY <1>1, <1>2, <1>3, <1>4, <1>5, Zenon DEF Next, EngineStep

\* A row keeps its last entry, and the new ones are real.
LEMMA TailKeeps ==
  ASSUME IInv, QInv, SInv, RealInv, LenInv, TailInv, [Next]_vars
  PROVE  TailInv'
<1> SUFFICES ASSUME NEW r \in Requests, pc' = "hook", Local >= 1, r \in Scheduled',
                    NEW j \in DOMAIN row'[r], CeilDiv(Pre(r)', BlockSize) <= j
             PROVE  row'[r][j] # NullBlock
  BY Zenon DEF TailInv, TailOf
<1>1. CASE UNCHANGED vars
  <2>1. /\ pc' = pc /\ row' = row /\ Scheduled' = Scheduled /\ Pre(r)' = Pre(r)
    BY <1>1, Zenon DEF vars, schedVars, reqVars, outVars, workerVars, Scheduled, Pre, InExecute
  <2> QED BY <2>1, Zenon DEF TailInv, TailOf
<1>2. CASE update_states
  <2>0. /\ pc = "execute" /\ UNCHANGED <<reqVars, outVars>>
        /\ row' = [q \in Requests |-> UpdatedRow(q)]
        /\ block_ids' = [q \in Requests |-> UpdatedBlockIds(q)]
    BY <1>2, Zenon DEF update_states
  <2>1. Pre(r)' = Pre(r) /\ Scheduled' = Scheduled /\ ~Loaded
    BY <2>0, Zenon DEF Pre, InExecute, reqVars, outVars, Scheduled, Loaded
  <2>2. r \in Lists /\ status[r] = "RUNNING"
    BY <2>1, Zenon DEF Scheduled, SInv, TokenInv, TokensOf, ListInv, QInv, QueuesMatchStatus
  <2>3. CASE r \in scheduled_running_reqs /\ InBatch(r)
    <3> DEFINE s == row[r]
               t == req_to_new_blocks[r]
    <3>1. /\ row'[r] = s \o t /\ s # <<>> /\ s \in Seq(Entries) /\ t \in Seq(Blocks)
          /\ s[Len(s)] # NullBlock
      BY <2>0, <2>3, Zenon DEF UpdatedRow, InBatch, IInv, TypeOK, WorkerTypeOK, RealInv, RealOf
    <3>2. Len(s) = CeilDiv(Pre(r), BlockSize)
      BY <2>1, <2>2, <2>3, Zenon DEF LenInv, LenOf, SInv, ListInv, Fresh
    <3> HIDE DEF s, t
    <3>3. IF j \in DOMAIN s THEN (s \o t)[j] = s[j] ELSE (s \o t)[j] # NullBlock
      BY <3>1, ExtendRow, SMTT(30)
    <3>4. DOMAIN s = 1..Len(s) /\ Len(s) \in Nat
      BY <3>1, LenProperties, Zenon
    <3>5. j \in DOMAIN s => j = Len(s)
      BY <2>1, <3>2, <3>4, SMTT(30)
    <3> QED BY <3>1, <3>3, <3>5, Zenon
  <2>4. CASE ~(r \in scheduled_running_reqs /\ InBatch(r))
    <3>1. row'[r] = block_ids'[r]
      BY <2>0, <2>1, <2>4, Zenon DEF UpdatedRow
    <3>2. block_ids'[r] \in Seq(Blocks)
      BY <1>2, UpdateKeepsReal, Zenon DEF RealInv, RealOf
    <3> QED BY <3>1, <3>2, RealRow, Zenon
  <2> QED BY <2>3, <2>4, Zenon
<1> QED BY <1>1, <1>2, HookEntered, Zenon

\* The null block is never written: a slot of the step's tokens lies in the row,
\* in a real entry.
LEMMA SlotsReal ==
  ASSUME IInv, SInv, QInv, LenInv, TailInv, Local >= 1
  PROVE  NullNeverWritten
<1> SUFFICES ASSUME pc = "hook", NEW r \in Scheduled,
                    NEW p \in (num_computed_tokens[r] - num_scheduled_tokens[r])..(num_computed_tokens[r] - 1)
             PROVE  EntryOf(p) \in DOMAIN row[r] /\ row[r][EntryOf(p)] # NullBlock
  BY Zenon DEF NullNeverWritten
<1>1. r \in Requests /\ r \in Lists /\ status[r] = "RUNNING"
  BY Zenon DEF Scheduled, SInv, TokenInv, TokensOf, ListInv, QInv, QueuesMatchStatus
<1>2. num_computed_tokens[r] \in Int /\ num_scheduled_tokens[r] \in Int /\ row[r] \in Seq(Entries)
  BY <1>1, Zenon DEF IInv, TypeOK, ReqTypeOK, OutTypeOK, WorkerTypeOK
<1>3. Pre(r) = num_computed_tokens[r] - num_scheduled_tokens[r] /\ Loaded
  BY Zenon DEF Pre, InExecute, Loaded
<1>4. /\ Pre(r) >= 0 /\ Len(row[r]) = Len(req_to_blocks[r])
      /\ Len(req_to_blocks[r]) = CeilDiv(Pre(r) + num_scheduled_tokens[r], BlockSize)
  BY <1>1, <1>3, Zenon DEF LenInv, LenOf
<1>5. /\ p \in Nat /\ Pre(r) \in Nat /\ Pre(r) + num_scheduled_tokens[r] \in Nat /\ Pre(r) <= p
      /\ p < Pre(r) + num_scheduled_tokens[r]
  BY <1>2, <1>3, <1>4, SMTT(30)
<1>6. EntryOf(p) \in 1..Len(row[r]) /\ CeilDiv(Pre(r), BlockSize) <= EntryOf(p)
  BY <1>4, <1>5, EntryFacts, Zenon
<1>7. EntryOf(p) \in DOMAIN row[r]
  BY <1>2, <1>6, LenProperties, Zenon
<1> QED BY <1>1, <1>6, <1>7, Zenon DEF TailInv, TailOf

-----------------------------------------------------------------------------
(* What is recorded for the engine core *)

\* A request whose tables and records do not change, or that gives up its blocks.
LEMMA RecordUnchanged ==
  ASSUME NEW r \in Requests, RecordOf(r),
         row'[r] = row[r],
         req_to_blocks'[r] = req_to_blocks[r] \/ req_to_blocks'[r] = <<>>,
         pending \cup popped \subseteq pending' \cup popped',
         Loaded' \/ r \notin Fresh' => Loaded \/ r \notin Fresh
  PROVE  RecordOf(r)'
<1>1. CASE req_to_blocks'[r] = <<>>
  BY <1>1 DEF RecordOf
<1>2. CASE req_to_blocks'[r] = req_to_blocks[r]
  BY <1>2, Zenon DEF RecordOf
<1> QED BY <1>1, <1>2, Zenon

\* New blocks are beyond the row.
LEMMA AllocateKeepsRecords ==
  ASSUME IInv, SInv, QInv, LenInv, RecordInv, running_allocate, Quiet
  PROVE  RecordInv'
<1>0. /\ pc = "alloc" /\ pc' = "running" /\ UNCHANGED workerVars /\ UNCHANGED popped
      /\ UNCHANGED <<scheduled_new_reqs, scheduled_resumed_reqs>>
  BY Zenon DEF running_allocate, Quiet, engineVars
<1>1. PICK nb \in Seq(Blocks) :
        req_to_blocks' = [req_to_blocks EXCEPT ![cur] = req_to_blocks[cur] \o nb]
  BY RunningAllocateFacts, Zenon
<1>2. req_to_blocks \in [Requests -> Seq(Entries)] /\ row \in [Requests -> Seq(Entries)]
  BY Zenon DEF IInv, TypeOK, KVTypeOK, WorkerTypeOK
<1> SUFFICES ASSUME NEW r \in Requests
             PROVE  RecordOf(r)'
  BY Zenon DEF RecordInv
<1>3. RecordOf(r) /\ ~Loaded /\ ~Loaded' /\ Fresh' = Fresh
  BY <1>0, Zenon DEF RecordInv, Loaded, Fresh
<1>4. CASE r # cur
  BY <1>0, <1>1, <1>2, <1>3, <1>4, RecordUnchanged, Zenon DEF workerVars
<1>5. CASE r = cur
  <2> DEFINE B == req_to_blocks[r]
  <2>1. status[r] = "RUNNING" /\ r \notin Lists /\ r \notin Fresh
    BY <1>0, <1>5, ZenonT(30) DEF SInv, IndexInv, ListInv, QInv, QueuesMatchStatus, Elems, Lists,
       Fresh
  <2>2. num_scheduled_tokens[r] = 0 /\ num_computed_tokens[r] \in Int
    BY <2>1, SMTT(30) DEF SInv, TokenInv, TokensOf, IInv, TypeOK, OutTypeOK, ReqTypeOK
  <2>3. Len(B) = CeilDiv(Pre(r), BlockSize) /\ (InBatch(r) => Len(row[r]) = CeilDiv(Pre(r),
  BlockSize))
    <3>1. Pre(r) + 0 = Pre(r)
      BY <1>0, <2>2, SMTT(30) DEF Pre, InExecute
    <3> QED BY <1>3, <2>1, <2>2, <3>1, Zenon DEF LenInv, LenOf
  <2>4. row[r] \in Seq(Entries) /\ B \in Seq(Entries) /\ req_to_blocks'[r] = B \o nb
    BY <1>1, <1>2, <1>5, Zenon
  <2>5. DOMAIN row[r] \subseteq DOMAIN B
    <3> HIDE DEF B
    <3>1. DOMAIN row[r] = 1..Len(row[r]) /\ DOMAIN B = 1..Len(B)
      BY <2>4, LenProperties, Zenon
    <3>2. CASE InBatch(r)
      BY <2>3, <3>1, <3>2, Zenon
    <3>3. CASE ~InBatch(r)
      BY <3>3 DEF InBatch
    <3> QED BY <3>2, <3>3, Zenon
  <2>6. \A j \in DOMAIN (B \o nb) : j \in DOMAIN B => (B \o nb)[j] = B[j]
    <3> HIDE DEF B
    <3> QED BY <2>4, ExtendRow, Zenon
  <2>7. \A j \in DOMAIN row[r] :
          row[r][j] = NullBlock /\ B[j] # NullBlock => <<r, j>> \in pending \cup popped
    BY <1>3, <2>1, <2>5, Zenon DEF RecordOf
  <2>8. row'[r] = row[r] /\ pending' = pending /\ popped' = popped
    BY <1>0, Zenon DEF workerVars
  <2> HIDE DEF B
  <2> QED BY <2>4, <2>5, <2>6, <2>7, <2>8, Zenon DEF RecordOf
<1> QED BY <1>4, <1>5, Zenon

\* _update_states nulls nothing.
LEMMA UpdateKeepsRecords ==
  ASSUME IInv, SInv, RealInv, RecordInv, update_states, UNCHANGED engineVars
  PROVE  RecordInv'
<1>0. /\ pc = "execute" /\ UNCHANGED <<kvVars, pending, popped>>
      /\ row' = [q \in Requests |-> UpdatedRow(q)]
      /\ block_ids' = [q \in Requests |-> UpdatedBlockIds(q)]
  BY Zenon DEF update_states, engineVars
<1> SUFFICES ASSUME NEW r \in Requests, NEW j \in DOMAIN row'[r], row'[r][j] = NullBlock,
                    j \in DOMAIN req_to_blocks[r], req_to_blocks[r][j] # NullBlock
             PROVE  <<r, j>> \in pending \cup popped
  BY <1>0, Zenon DEF RecordInv, RecordOf, kvVars
<1>1. block_ids'[r] \in Seq(Blocks)
  BY UpdateKeepsReal, Zenon DEF RealInv, RealOf
<1>2. r \in scheduled_running_reqs /\ InBatch(r)
  <2> SUFFICES ASSUME ~(r \in scheduled_running_reqs /\ InBatch(r))
               PROVE  FALSE
    BY Zenon
  <2>1. row'[r] = block_ids'[r] \/ row'[r] = <<>>
    BY <1>0, Zenon DEF UpdatedRow
  <2> QED BY <1>1, <2>1, RealRow, SMTT(30)
<1> DEFINE s == row[r]
           t == req_to_new_blocks[r]
<1>3. row'[r] = s \o t /\ s \in Seq(Entries) /\ t \in Seq(Blocks)
  BY <1>0, <1>2, Zenon DEF UpdatedRow, RealInv, RealOf, IInv, TypeOK, WorkerTypeOK
<1>4. IF j \in DOMAIN s THEN (s \o t)[j] = s[j] ELSE (s \o t)[j] # NullBlock
  <2> HIDE DEF s, t
  <2> QED BY <1>3, ExtendRow, Zenon
<1>5. j \in DOMAIN s /\ s[j] = NullBlock
  <2> HIDE DEF s, t
  <2> QED BY <1>3, <1>4, Zenon
<1>6. r \notin Fresh
  BY <1>2, Zenon DEF SInv, ListInv, Fresh
<1> QED BY <1>5, <1>6, Zenon DEF RecordInv, RecordOf

\* Every step records what it nulls, and frees what was recorded.
LEMMA RecordsKeep ==
  ASSUME IInv, QInv, SInv, RealInv, LenInv, RecordInv, [Next]_vars
  PROVE  RecordInv'
<1>0. /\ req_to_blocks \in [Requests -> Seq(Entries)] /\ row \in [Requests -> Seq(Entries)]
      /\ pending \subseteq Requests \X Nat /\ popped \subseteq Requests \X Nat
  BY Zenon DEF IInv, TypeOK, KVTypeOK, WorkerTypeOK, EngineTypeOK
<1>1. ASSUME UNCHANGED row, pending \cup popped \subseteq pending' \cup popped',
             \A r \in Requests : req_to_blocks'[r] = req_to_blocks[r] \/ req_to_blocks'[r] = <<>>,
             \/ Fresh' = Fresh /\ (Loaded' <=> Loaded)
             \/ Loaded
      PROVE  RecordInv'
  BY <1>1, RecordUnchanged, Zenon DEF RecordInv
<1>2. CASE running_allocate /\ Quiet
  BY <1>2, AllocateKeepsRecords, Zenon
<1>3. CASE update_states /\ UNCHANGED engineVars
  BY <1>3, UpdateKeepsRecords, Zenon
<1>4. CASE waiting_admit /\ Quiet
  <2>1. PICK q \in Requests, nb \in Seq(Blocks) :
          /\ req_to_blocks' = [req_to_blocks EXCEPT ![q] = nb]
          /\ scheduled_new_reqs' \cup scheduled_resumed_reqs'
                = scheduled_new_reqs \cup scheduled_resumed_reqs \cup {q}
    BY <1>4, WaitingAdmitFacts, Zenon
  <2>2. Fresh' = Fresh \cup {q} /\ ~Loaded'
    BY <1>4, <2>1, Zenon DEF Fresh, Loaded, waiting_admit, InWaitingLoop
  <2>3. UNCHANGED <<row, pending, popped>>
    BY <1>4, Zenon DEF Quiet, workerVars, engineVars
  <2> SUFFICES ASSUME NEW r \in Requests
               PROVE  RecordOf(r)'
    BY Zenon DEF RecordInv
  <2>4. CASE r = q
    BY <2>2, <2>4, Zenon DEF RecordOf
  <2>5. CASE r # q
    <3>1. req_to_blocks'[r] = req_to_blocks[r] /\ (r \notin Fresh' => r \notin Fresh)
      BY <1>0, <2>1, <2>2, <2>5, Zenon
    <3> QED BY <2>2, <2>3, <3>1, RecordUnchanged, Zenon DEF RecordInv
  <2> QED BY <2>4, <2>5, Zenon
<1>5. ASSUME NEW q \in Requests, evict_request_blocks(q), UNCHANGED engineVars
      PROVE  RecordInv'
  <2>1. PICK J \in SUBSET candidates(row[q], NullBlock, SinkOf(q), Local) :
          /\ row' = [row EXCEPT ![q] = NullOut(row[q], NullBlock, J)]
          /\ pending' = pending \cup Records(q, J)
    BY <1>5, Zenon DEF evict_request_blocks
  <2>2. /\ pc' = pc /\ UNCHANGED <<req_to_blocks, popped, scheduled_new_reqs,
                                   scheduled_resumed_reqs>>
    BY <1>5, Zenon DEF evict_request_blocks, kvVars, engineVars, outVars
  <2> SUFFICES ASSUME NEW r \in Requests
               PROVE  RecordOf(r)'
    BY Zenon DEF RecordInv
  <2>3. RecordOf(r) /\ Fresh' = Fresh /\ (Loaded' <=> Loaded)
    BY <2>2, Zenon DEF RecordInv, Fresh, Loaded
  <2>4. CASE r # q
    BY <1>0, <2>1, <2>2, <2>3, <2>4, RecordUnchanged, Zenon
  <2>5. CASE r = q
    <3> DEFINE t == NullOut(row[r], NullBlock, J)
    <3>1. row'[r] = t /\ \A j \in J : <<r, j>> \in pending'
      BY <1>0, <2>1, <2>5, Zenon DEF Records
    <3>2. DOMAIN t = DOMAIN row[r] /\ \A j \in DOMAIN row[r] : j \notin J => t[j] = row[r][j]
      BY Zenon DEF NullOut
    <3>3. pending \cup popped \subseteq pending' \cup popped'
      BY <2>1, <2>2, Zenon
    <3> HIDE DEF t
    <3> QED BY <2>2, <2>3, <3>1, <3>2, <3>3, Zenon DEF RecordOf
  <2> QED BY <2>4, <2>5, Zenon
<1>6. ASSUME NEW item \in popped, skive_reclaim(item[1], item[2])
      PROVE  RecordInv'
  <2> DEFINE q == item[1]
             k == item[2]
  <2>1. q \in Requests /\ k \in Nat /\ item = <<q, k>>
    BY <1>0
  <2>2. /\ UNCHANGED <<pc, row, pending, scheduled_new_reqs, scheduled_resumed_reqs>>
        /\ popped' = popped \ {<<q, k>>}
    BY <1>6, Zenon DEF skive_reclaim, schedVars, workerVars, outVars
  <2>3. \/ /\ Reclaimable(q, k)
           /\ req_to_blocks' = [req_to_blocks EXCEPT ![q] = NullOut(req_to_blocks[q], NullBlock, {k})]
        \/ ~Reclaimable(q, k) /\ UNCHANGED req_to_blocks
    BY <1>6, Zenon DEF skive_reclaim, FreeEntry, kvVars
  <2> SUFFICES ASSUME NEW r \in Requests, Loaded' \/ r \notin Fresh',
                      NEW j \in (DOMAIN row'[r]) \cap (DOMAIN req_to_blocks'[r]),
                      row'[r][j] = NullBlock, req_to_blocks'[r][j] # NullBlock
               PROVE  <<r, j>> \in pending' \cup popped'
    BY Zenon DEF RecordInv, RecordOf
  <2>4. j \in DOMAIN req_to_blocks[r] /\ req_to_blocks[r][j] # NullBlock /\ ~(r = q /\ j = k)
    <3> HIDE DEF q, k
    <3>1. CASE ~Reclaimable(q, k) /\ UNCHANGED req_to_blocks
      BY <3>1, Zenon DEF Reclaimable
    <3>2. CASE req_to_blocks' = [req_to_blocks EXCEPT ![q] = NullOut(req_to_blocks[q],
    NullBlock, {k})]
      <4>1. CASE r # q
        BY <1>0, <3>2, <4>1, Zenon
      <4>2. CASE r = q
        <5>1. req_to_blocks'[r] = NullOut(req_to_blocks[r], NullBlock, {k})
          BY <1>0, <3>2, <4>2, Zenon
        <5> QED BY <5>1, Zenon DEF NullOut
      <4> QED BY <4>1, <4>2, Zenon
    <3> QED BY <2>3, <3>1, <3>2, Zenon
  <2>5. <<r, j>> \in pending \cup popped
    BY <2>2, <2>4, Zenon DEF RecordInv, RecordOf, Loaded, Fresh
  <2>6. <<r, j>> # <<q, k>>
    BY <2>4, Zenon
  <2> QED BY <2>2, <2>5, <2>6, Zenon
<1>7. CASE EndExecute
  BY <1>1, <1>7, Zenon DEF EndExecute, Loaded, kvVars, workerVars, engineVars
<1>8. CASE PopPending
  <2>1. popped = {}
    BY <1>8, Zenon DEF PopPending, SInv, BatchInv
  <2>2. /\ UNCHANGED <<kvVars, row, outVars>> /\ pc = "output" /\ pc' \in {"reclaim", "idle"}
        /\ pending \cup popped \subseteq pending' \cup popped'
    BY <1>8, <2>1, Zenon DEF PopPending
  <2> QED BY <1>1, <2>2, Zenon DEF Loaded, Fresh, kvVars, outVars
<1>9. CASE running_preempt /\ Quiet
  <2>1. PICK q \in Requests : req_to_blocks' = [req_to_blocks EXCEPT ![q] = <<>>]
    BY <1>9, Zenon DEF running_preempt, preempt_request, kv_free
  <2>2. /\ pc = "alloc" /\ pc' \in {"alloc", "finish"} /\ UNCHANGED <<row, pending, popped>>
        /\ Fresh' = Fresh
    BY <1>9, Zenon DEF running_preempt, Quiet, workerVars, engineVars, Fresh
  <2> QED BY <1>0, <1>1, <2>1, <2>2, Zenon DEF Loaded
<1>10. CASE ResetPreempt
  <2>1. PICK q \in Requests : req_to_blocks' = [req_to_blocks EXCEPT ![q] = <<>>]
    BY <1>10, Zenon DEF ResetPreempt, reset_preempt, preempt_request, kv_free
  <2>2. pc' = pc /\ UNCHANGED <<row, pending, popped, outVars>>
    BY <1>10, Zenon DEF ResetPreempt, reset_preempt, workerVars, engineVars
  <2> QED BY <1>0, <1>1, <2>1, <2>2, Zenon DEF Loaded, Fresh, outVars
<1>11. ASSUME NEW q \in Requests, Abort(q) \/ UpdateFromOutput(q)
       PROVE  RecordInv'
  <2>1. pc' = pc /\ UNCHANGED <<row, pending, popped, outVars>>
    BY <1>11, Zenon DEF Abort, finish_requests, UpdateFromOutput, workerVars, engineVars
  <2>2. req_to_blocks' = [req_to_blocks EXCEPT ![q] = <<>>] \/ UNCHANGED req_to_blocks
    BY <1>11, Zenon
       DEF Abort, finish_requests, UpdateFromOutput, update_from_output, free_request, kv_free,
         kvVars
  <2> QED BY <1>0, <1>1, <2>1, <2>2, Zenon DEF Loaded, Fresh, outVars
<1>12. ASSUME UNCHANGED <<kvVars, row, pending, popped, scheduled_new_reqs, scheduled_resumed_reqs>>,
              Loaded' <=> Loaded
       PROVE  RecordInv'
  BY <1>1, <1>12, Zenon DEF Fresh, kvVars
<1>13. CASE /\ \/ start_schedule \/ running_skip \/ running_pick \/ running_done \/ waiting_done
            /\ Quiet
  BY <1>12, <1>13, Zenon
     DEF start_schedule, running_skip, running_pick, running_done, waiting_done, Quiet,
       InRunningLoop, workerVars, engineVars, outVars, Loaded
<1>14. CASE FinishSchedule
  BY <1>12, <1>14, Zenon DEF FinishSchedule, finish_schedule, workerVars, Loaded
<1>15. CASE skive_check /\ UNCHANGED engineVars
  BY <1>12, <1>15, Zenon DEF skive_check, engineVars, outVars, Loaded
<1>16. CASE AwaitOutput \/ TakeOutput \/ EndStep \/ ResetDone
  BY <1>12, <1>16, Zenon
     DEF AwaitOutput, TakeOutput, EndStep, ResetDone, reset_done, engineVars, workerVars,
       outVars, Loaded
<1>17. CASE WaitForInput \/ UNCHANGED vars
  BY <1>12, <1>17, Zenon
     DEF WaitForInput, vars, kvVars, schedVars, engineVars, workerVars, outVars, Loaded
<1>18. CASE (\E q \in Requests : AddRequest(q)) \/ PauseScheduler \/ ResumeScheduler
            \/ ResetPrefixCache
  BY <1>12, <1>18, Zenon
     DEF AddRequest, add_request, PauseScheduler, ResumeScheduler, ResetPrefixCache,
       set_pause_state, engineVars, workerVars, outVars, Loaded
<1> QED BY SMTT(30), <1>2, <1>3, <1>4, <1>5, <1>6, <1>7, <1>8, <1>9, <1>10, <1>11, <1>13, <1>14, <1>15,
           <1>16,
           <1>17, <1>18
        DEF Next, EngineStep, ScheduleStep, ExecuteStep, OutputStep, ClientStep

-----------------------------------------------------------------------------
(* The invariant of the tables *)

\* No request runs at the start.
LEMMA InitTables == Init => TInv
<1> SUFFICES ASSUME Init
             PROVE  TInv
  BY Zenon
<1>1. /\ \A r \in Requests : status[r] # "RUNNING" /\ row[r] = <<>>
      /\ finished_req_ids = {} /\ finished_out = {} /\ pc = "idle"
  BY Zenon DEF Init, WorkerInit, SchedInit
<1>2. LenInv /\ FinishedInv /\ TailInv /\ RecordInv
  BY <1>1 DEF LenInv, LenOf, FinishedInv, TailInv, TailOf, RecordInv, RecordOf
<1> QED BY <1>2, InitReal, Zenon DEF TInv
=============================================================================
