--------------------------- MODULE ScheduleProofs ---------------------------
(***************************************************************************)
(* The lists of schedule(), what it asserts about its own result, what the *)
(* asynchronous engine's placeholders count, and that a running request    *)
(* always lacks a token: ListInv, IndexInv, PrevInv, FlightInv and GapInv  *)
(* are kept by every step.                                                 *)
(***************************************************************************)
EXTENDS PoolProofs

-----------------------------------------------------------------------------
(* The lists of schedule() *)

\* Taking an element off a queue makes it no longer.
LEMMA WithoutShorter ==
  ASSUME NEW S, NEW s \in Seq(S), NoDuplicates(s), NEW x
  PROVE  Len(Without(s, x)) <= Len(s) /\ Len(Without(s, x)) \in Nat
<1>1. CASE x \in Elems(s)
  <2>1. PICK k \in DOMAIN s : s[k] = x
    BY <1>1, Zenon DEF Elems
  <2>2. Len(Without(s, x)) = Len(s) - 1 /\ Without(s, x) \in Seq(S)
    BY <2>1, WithoutIndex, Zenon
  <2> QED BY <2>2, LenProperties
<1>2. CASE x \notin Elems(s)
  <2>1. Without(s, x) = s
    BY <1>2, Zenon DEF Without, Elems
  <2> QED BY <2>1, LenProperties
<1> QED BY <1>1, <1>2, Zenon

\* What ListInv is about, and the steps that leave it alone.
listVars == <<token_budget, running, req_index, preempted, scheduled_new_reqs,
              scheduled_resumed_reqs, scheduled_running_reqs>>

\* A step that leaves them alone, and stays in the same part of the step.
LEMMA ListsUnchanged ==
  ASSUME ListInv, UNCHANGED listVars,
         \/ InSchedule /\ pc' \in {"running", "alloc", "finish"} /\ (pc' = "finish" \/ pc' = pc
                                                                      \/ pc = "running")
         \/ InExecute /\ InExecute'
         \/ ~InSchedule /\ ~InExecute /\ ~InSchedule' /\ ~InExecute'
  PROVE  ListInv'
BY Zenon DEF ListInv, listVars, Lists, InSchedule, InExecute

\* Between steps a running request may go: no list holds it.
LEMMA LeaveKeepsLists ==
  ASSUME ListInv, ~InSchedule, ~InExecute,
         UNCHANGED <<pc, token_budget, req_index, preempted, scheduled_new_reqs,
                     scheduled_resumed_reqs, scheduled_running_reqs>>,
         Len(running') <= Len(running), Len(running') \in Nat, Len(running) \in Nat
  PROVE  ListInv'
<1>1. MaxRunning \in Nat
  BY SchedulerAssumption, Zenon
<1>2. Lists = {} /\ Lists' = {}
  BY Zenon DEF ListInv, Lists
<1> QED BY <1>1, <1>2 DEF ListInv, InSchedule, InExecute, Lists

\* Clients.
LEMMA ClientKeepsLists ==
  ASSUME IInv, QInv, SInv, ClientStep
  PROVE  ListInv'
<1>0. /\ ListInv /\ running \in Seq(Requests) /\ NoDuplicates(running) /\ Len(running) \in Nat
  BY DEF SInv, IInv, TypeOK, QueueTypeOK, QInv, QueuesMatchStatus
<1>1. ASSUME NEW r \in Requests, Abort(r) PROVE ListInv'
  <2>1. /\ running' = Without(running, r) /\ UNCHANGED <<pc, loopVars, outVars>>
        /\ ~InSchedule /\ ~InExecute
    BY <1>1, Zenon DEF Abort, finish_requests, free_request, InSchedule, InExecute
  <2>2. Len(running') <= Len(running) /\ Len(running') \in Nat
    BY <1>0, <2>1, WithoutShorter, Zenon
  <2> QED BY <1>0, <2>1, <2>2, LeaveKeepsLists, Zenon DEF loopVars, outVars
<1>2. CASE (\E r \in Requests : AddRequest(r)) \/ PauseScheduler \/ ResumeScheduler
           \/ ResetPrefixCache
  <2>1. UNCHANGED listVars
    BY <1>2, Zenon DEF AddRequest, add_request, PauseScheduler, ResumeScheduler,
       set_pause_state,
                ResetPrefixCache, listVars, queueVars, loopVars, outVars
  <2>2. ~InSchedule /\ ~InExecute /\ ~InSchedule' /\ ~InExecute'
    BY <1>2, Zenon DEF AddRequest, add_request, PauseScheduler, ResumeScheduler,
       set_pause_state,
                ResetPrefixCache, InSchedule, InExecute
  <2> QED BY <1>0, <2>1, <2>2, ListsUnchanged, Zenon
<1> QED BY <1>1, <1>2, Zenon DEF ClientStep

\* schedule(): a preempted request leaves the lists with the running queue, an
\* admitted one is new to both.
LEMMA ScheduleKeepsLists ==
  ASSUME IInv, QInv, SInv, ScheduleStep
  PROVE  ListInv'
<1>0. /\ ListInv /\ TokenInv /\ running \in Seq(Requests) /\ NoDuplicates(running)
      /\ Len(running) \in Nat /\ MaxRunning \in Nat /\ TokenBudget \in Nat
      /\ token_budget \in Int /\ OutTypeOK
  BY SchedulerAssumption, SMTT(30) DEF SInv, IInv, TypeOK, QueueTypeOK, LoopTypeOK, QInv,
     QueuesMatchStatus
<1>1. CASE start_schedule
  <2>1. /\ token_budget' \in {0, TokenBudget} /\ ~InSchedule /\ ~InExecute /\ pc' = "running"
        /\ UNCHANGED <<running, scheduled_new_reqs, scheduled_resumed_reqs, scheduled_running_reqs>>
    BY <1>1, Zenon DEF start_schedule, queueVars, outVars, InSchedule, InExecute
  <2> QED BY <1>0, <2>1 DEF ListInv, InSchedule, InExecute, Lists
<1>2. CASE running_skip
  <2>1. pc = "running" /\ UNCHANGED <<pc, token_budget, running, preempted, scheduled_new_reqs,
                                      scheduled_resumed_reqs, scheduled_running_reqs>>
    BY <1>2, Zenon DEF running_skip, InRunningLoop, queueVars, outVars
  <2> QED BY <1>0, <2>1, Zenon DEF ListInv, InSchedule, InExecute, Lists
<1>3. CASE running_pick \/ waiting_done
  <2>1. UNCHANGED listVars
    BY <1>3, Zenon DEF running_pick, waiting_done, listVars, queueVars, loopVars, outVars
  <2>2. InSchedule /\ ((pc = "running" /\ pc' = "alloc") \/ pc' = "finish")
    BY <1>3, Zenon DEF running_pick, waiting_done, InRunningLoop, InSchedule
  <2> QED BY <1>0, <2>1, <2>2, ListsUnchanged, Zenon
<1>4. CASE running_done
  <2>1. UNCHANGED listVars /\ pc = "running"
    BY <1>4, Zenon DEF running_done, listVars, queueVars, loopVars, outVars
  <2>2. (pc' = "waiting" /\ ~preempted) \/ pc' = "finish"
    BY <1>4, Zenon DEF running_done
  <2> QED BY <1>0, <2>1, <2>2, Zenon DEF ListInv, listVars, InSchedule, InExecute, Lists
<1>5. CASE running_allocate
  <2>1. /\ pc = "alloc" /\ pc' = "running" /\ token_budget' = token_budget - num_new_tokens
        /\ scheduled_running_reqs' = scheduled_running_reqs \cup {cur}
        /\ UNCHANGED <<running, preempted, scheduled_new_reqs, scheduled_resumed_reqs>>
    BY <1>5, Zenon DEF running_allocate, queueVars
  <2>2. cur \in Elems(running) /\ num_new_tokens <= token_budget /\ num_new_tokens \in Int
    BY <2>1, Zenon DEF QInv, SInv, IndexInv, IInv, TypeOK, LoopTypeOK
  <2> QED BY <1>0, <2>1, <2>2, SMTT(30) DEF ListInv, InSchedule, InExecute, Lists
<1>6. CASE running_preempt
  <2>1. PICK v \in Requests :
          /\ IsVictim(v) /\ running' = Without(running, v)
          /\ IF Unschedule(v)
             THEN /\ scheduled_running_reqs' = scheduled_running_reqs \ {v}
                  /\ token_budget' = token_budget + num_scheduled_tokens[v]
             ELSE UNCHANGED <<scheduled_running_reqs, token_budget>>
          /\ pc' \in {pc, "finish"}
    BY <1>6, Zenon DEF running_preempt
  <2>2. pc = "alloc" /\ UNCHANGED <<scheduled_new_reqs, scheduled_resumed_reqs>>
    BY <1>6, Zenon DEF running_preempt
  <2>3. /\ Elems(running') = Elems(running) \ {v}
        /\ Len(running') <= Len(running) /\ Len(running') \in Nat
    BY <1>0, <2>1, WithoutFacts, WithoutShorter, Zenon
  <2>4. v \notin Lists' /\ Lists' \subseteq Lists
    BY <1>0, <2>1, <2>2, VictimNotScheduled, Zenon DEF Lists, ListInv
  <2>5. token_budget' >= 0
    BY <1>0, <2>1 DEF ListInv, TokenInv, TokensOf, OutTypeOK
  <2>6. scheduled_new_reqs' = {} /\ scheduled_resumed_reqs' = {}
    BY <1>0, <2>2, Zenon DEF ListInv
  <2>7. Lists' \subseteq Elems(running')
    BY <1>0, <2>3, <2>4, Zenon DEF ListInv
  <2> QED BY <1>0, <2>1, <2>2, <2>3, <2>5, <2>6, <2>7, SMTT(30) DEF ListInv, InSchedule, InExecute
<1>7. CASE waiting_admit
  <2>1. PICK r \in Requests :
          /\ IsNext(r) /\ running' = Append(running, r)
          /\ \/ /\ scheduled_new_reqs' = scheduled_new_reqs \cup {r}
                /\ UNCHANGED scheduled_resumed_reqs
             \/ /\ scheduled_resumed_reqs' = scheduled_resumed_reqs \cup {r}
                /\ UNCHANGED scheduled_new_reqs
          /\ token_budget' = token_budget - WaitingTokens(r)
    BY <1>7, Zenon DEF waiting_admit
  <2>2. /\ pc = "waiting" /\ token_budget > 0 /\ Len(running) # MaxRunning
        /\ UNCHANGED <<pc, preempted, scheduled_running_reqs>>
    BY <1>7, Zenon DEF waiting_admit, InWaitingLoop
  <2>3. status[r] \in Live /\ r \notin Elems(running)
    BY <2>1, Zenon DEF IsNext, QInv, QueuesMatchStatus, Live
  <2>4. WaitingTokens(r) <= token_budget /\ WaitingTokens(r) \in Int
    BY <1>0, <2>2, <2>3, NewTokensBound, Zenon DEF TokenInv, TokensOf
  <2>5. Len(running') = Len(running) + 1 /\ Elems(running') = Elems(running) \cup {r}
    BY <1>0, <2>1, <2>3, AppendFacts, AppendProperties, SMTT(30)
  <2>6. Lists' = Lists \cup {r} /\ r \notin scheduled_running_reqs
    BY <1>0, <2>1, <2>2, <2>3, Zenon DEF Lists, ListInv
  <2>7. scheduled_running_reqs' \cap (scheduled_new_reqs' \cup scheduled_resumed_reqs') = {}
    BY <1>0, <2>1, <2>2, <2>6, Zenon DEF ListInv
  <2> QED BY <1>0, <2>1, <2>2, <2>4, <2>5, <2>6, <2>7, SMTT(30) DEF ListInv, InSchedule, InExecute
<1>8. CASE FinishSchedule
  <2>1. pc = "finish" /\ pc' = "execute" /\ UNCHANGED listVars
    BY <1>8, Zenon DEF FinishSchedule, finish_schedule, listVars, loopVars
  <2> QED BY <1>0, <2>1, Zenon DEF ListInv, listVars, InSchedule, InExecute, Lists
<1> QED BY <1>1, <1>2, <1>3, <1>4, <1>5, <1>6, <1>7, <1>8, Zenon DEF ScheduleStep

\* The rest of a step: the lists are cleared when the worker is done with them.
LEMMA StepKeepsLists ==
  ASSUME IInv, QInv, SInv, ExecuteStep \/ OutputStep \/ ResetPreempt \/ ResetDone
  PROVE  ListInv'
<1>0. /\ ListInv /\ running \in Seq(Requests) /\ NoDuplicates(running) /\ Len(running) \in Nat
  BY DEF SInv, IInv, TypeOK, QueueTypeOK, QInv, QueuesMatchStatus
<1>1. CASE update_states \/ skive_check \/ \E r \in Requests : evict_request_blocks(r)
  <2>1. UNCHANGED listVars
    BY <1>1, Zenon
       DEF update_states, skive_check, evict_request_blocks, listVars, queueVars, loopVars,
                outVars
  <2>2. InExecute /\ InExecute'
    BY <1>1, Zenon DEF update_states, skive_check, evict_request_blocks, InExecute
  <2> QED BY <1>0, <2>1, <2>2, ListsUnchanged, Zenon
<1>2. CASE EndExecute
  <2>1. pc' \in {"idle", "aborts"} /\ UNCHANGED running /\ ClearScheduleLocals
    BY <1>2, Zenon DEF EndExecute, queueVars
  <2> QED BY <1>0, <2>1 DEF ListInv, ClearScheduleLocals, Lists, InSchedule, InExecute, Elems
<1>3. CASE AwaitOutput \/ TakeOutput \/ PopPending \/ EndStep \/ ResetDone
  <2>1. UNCHANGED listVars
    BY <1>3, Zenon
       DEF AwaitOutput, TakeOutput, PopPending, EndStep, ResetDone, reset_done, listVars,
                queueVars, loopVars, outVars
  <2>2. ~InSchedule /\ ~InExecute /\ ~InSchedule' /\ ~InExecute'
    BY <1>3, Zenon
       DEF AwaitOutput, TakeOutput, PopPending, EndStep, ResetDone, InSchedule, InExecute
  <2> QED BY <1>0, <2>1, <2>2, ListsUnchanged, Zenon
<1>4. ASSUME NEW r \in Requests, UpdateFromOutput(r) PROVE ListInv'
  <2>1. UNCHANGED <<pc, loopVars, outVars>> /\ ~InSchedule /\ ~InExecute
    BY <1>4, Zenon DEF UpdateFromOutput, InSchedule, InExecute
  <2>2. running' = running \/ running' = Without(running, r)
    BY <1>4, Zenon DEF UpdateFromOutput, update_from_output, free_request, queueVars
  <2>3. Len(running') <= Len(running) /\ Len(running') \in Nat
    BY <1>0, <2>2, WithoutShorter, SMTT(30)
  <2> QED BY <1>0, <2>1, <2>3, LeaveKeepsLists, Zenon DEF loopVars, outVars
<1>5. ASSUME NEW item \in popped, skive_reclaim(item[1], item[2]) PROVE ListInv'
  <2>1. UNCHANGED listVars /\ pc = "reclaim" /\ pc' = "reclaim"
    BY <1>5, Zenon DEF skive_reclaim, schedVars, listVars, queueVars, loopVars, outVars
  <2> QED BY <1>0, <2>1, ListsUnchanged, Zenon DEF InSchedule, InExecute
<1>6. CASE ResetPreempt
  <2>1. /\ UNCHANGED <<pc, loopVars, outVars>> /\ ~InSchedule /\ ~InExecute
        /\ running' = SubSeq(running, 1, Len(running) - 1) /\ running # <<>>
    BY <1>6, Zenon DEF ResetPreempt, reset_preempt, InSchedule, InExecute
  <2>2. Len(running) \in Nat \ {0} /\ DOMAIN running = 1..Len(running)
    BY <1>0, <2>1, EmptySeq, LenProperties, Zenon
  <2>3. Len(running') = Len(running) - 1
    BY <1>0, <2>1, <2>2, SubSeqProperties, SMTT(30)
  <2> QED BY <1>0, <2>1, <2>2, <2>3, LeaveKeepsLists, SMTT(30) DEF loopVars, outVars
<1> QED BY <1>1, <1>2, <1>3, <1>4, <1>5, <1>6, Zenon DEF ExecuteStep, OutputStep

\* The lists stay in order in every step.
LEMMA ListsKeep ==
  ASSUME IInv, QInv, SInv, [Next]_vars
  PROVE  ListInv'
<1>1. CASE WaitForInput \/ UNCHANGED vars
  <2>1. UNCHANGED listVars /\ UNCHANGED pc
    BY <1>1, Zenon DEF WaitForInput, vars, schedVars, listVars, queueVars, loopVars, outVars
  <2> QED BY <2>1, Zenon DEF SInv, ListInv, listVars, Lists, InSchedule, InExecute
<1> QED BY <1>1, ClientKeepsLists, ScheduleKeepsLists, StepKeepsLists, Zenon
           DEF Next, EngineStep

-----------------------------------------------------------------------------
(* The running loop and the previous step *)

\* The running loop goes forward: preempting an unscheduled request leaves the
\* index alone, preempting a scheduled one moves it back with the queue.
LEMMA PreemptKeepsIndex ==
  ASSUME IInv, QInv, SInv, running_preempt, Quiet
  PROVE  IndexInv'
<1>0. /\ IndexInv /\ running \in Seq(Requests) /\ NoDuplicates(running)
      /\ Len(running) \in Nat /\ DOMAIN running = 1..Len(running)
      /\ ReqTypeOK /\ OutTypeOK /\ req_index \in Int /\ token_budget \in Int /\ num_new_tokens \in Int
  BY LenProperties, Zenon DEF SInv, IInv, TypeOK, QueueTypeOK, LoopTypeOK, QInv,
     QueuesMatchStatus
<1>1. PICK v \in Requests :
        /\ IsVictim(v) /\ preempt_request(v) /\ running' = Without(running, v)
        /\ IF Unschedule(v)
           THEN /\ scheduled_running_reqs' = scheduled_running_reqs \ {v}
                /\ token_budget' = token_budget + num_scheduled_tokens[v]
                /\ req_index' = req_index - 1
           ELSE UNCHANGED <<scheduled_running_reqs, token_budget, req_index>>
        /\ IF v = cur THEN pc' = "finish" ELSE UNCHANGED <<pc, cur, num_new_tokens>>
  BY Zenon DEF running_preempt
<1>2. pc = "alloc" /\ UNCHANGED <<num_tokens, num_output_placeholders>>
  BY Zenon DEF running_preempt
<1>3. CASE v = cur
  BY <1>1, <1>3, Zenon DEF IndexInv
<1>4. CASE v # cur
  <2>1. pc' = "alloc" /\ cur' = cur /\ num_new_tokens' = num_new_tokens
    BY <1>1, <1>2, <1>4, Zenon
  <2>2. PICK k \in DOMAIN running : running[k] = v
    BY <1>1, Zenon DEF IsVictim, Elems
  <2>3. /\ running' \in Seq(Requests) /\ DOMAIN running' = 1..(Len(running) - 1)
        /\ \A i \in 1..(k - 1) : running'[i] = running[i]
        /\ \A i \in k..(Len(running) - 1) : running'[i] = running[i + 1]
    BY <1>0, <1>1, <2>2, WithoutIndex, Zenon
  <2>5. scheduled_running_reqs' \subseteq scheduled_running_reqs /\ cur \notin scheduled_running_reqs'
    BY <1>0, <1>1, <1>2, Zenon DEF IndexInv
  <2>6. Unschedule(v) => k < req_index
    BY <1>0, <1>2, <2>2, Zenon DEF IndexInv, Unschedule
  <2>7. ASSUME NEW i \in DOMAIN running', running'[i] \in scheduled_running_reqs'
        PROVE  i < req_index'
    <3>1. CASE i < k
      <4>1. i \in 1..(k - 1) /\ i \in DOMAIN running
        BY <1>0, <2>2, <2>3, <3>1, SMTT(30)
      <4>2. running[i] \in scheduled_running_reqs /\ running[i] # v
        BY <1>0, <2>2, <2>3, <2>5, <2>7, <3>1, <4>1, SMTT(30) DEF NoDuplicates
      <4>3. i < req_index
        BY <1>0, <1>2, <4>1, <4>2, Zenon DEF IndexInv
      <4> QED BY <1>0, <1>1, <2>2, <2>6, <3>1, <4>1, <4>3, SMTT(30)
    <3>2. CASE i >= k
      <4>1. i \in k..(Len(running) - 1) /\ i + 1 \in DOMAIN running
        BY <1>0, <2>2, <2>3, <3>2, SMTT(30)
      <4>2. running[i + 1] \in scheduled_running_reqs
        BY <2>3, <2>5, <2>7, <4>1, Zenon
      <4>3. i + 1 < req_index
        BY <1>0, <1>2, <4>1, <4>2, Zenon DEF IndexInv
      <4> QED BY <1>0, <1>1, <4>1, <4>3, SMTT(30)
    <3>3. i \in Int /\ k \in Int
      BY <1>0, <2>2, <2>3, SMTT(30)
    <3> QED BY <3>1, <3>2, <3>3, SMTT(30)
  <2>8. PICK m \in DOMAIN running :
          running[m] = cur /\ m <= req_index /\ (Policy # "priority" => m = req_index)
    BY <1>0, <1>2, Zenon DEF IndexInv
  <2>9. m # k
    BY <1>4, <2>2, <2>8, Zenon
  <2>10. Policy # "priority" => k = Len(running) /\ m < k /\ ~Unschedule(v)
    BY <1>0, <1>1, <2>2, <2>8, <2>9, SMTT(30) DEF IsVictim, Unschedule, NoDuplicates
  <2>11. \E i \in DOMAIN running' :
           running'[i] = cur /\ i <= req_index' /\ (Policy # "priority" => i = req_index')
    <3>1. CASE m < k
      <4>1. m \in DOMAIN running' /\ running'[m] = cur
        BY <1>0, <2>2, <2>3, <2>8, <3>1, SMTT(30)
      <4>2. m <= req_index' /\ (Policy # "priority" => m = req_index')
        BY <1>0, <1>1, <2>2, <2>6, <2>8, <2>10, <3>1, SMTT(30)
      <4> QED BY <4>1, <4>2, Zenon
    <3>2. CASE m > k
      <4>1. m - 1 \in DOMAIN running' /\ running'[m - 1] = cur
        BY <1>0, <2>2, <2>3, <2>8, <3>2, SMTT(30)
      <4>2. Policy = "priority"
        BY <1>0, <2>2, <2>8, <2>10, <3>2, SMTT(30)
      <4>3. m - 1 <= req_index'
        BY <1>0, <1>1, <2>2, <2>8, SMTT(30)
      <4> QED BY <4>1, <4>2, <4>3, Zenon
    <3> QED BY <1>0, <2>2, <2>8, <2>9, <3>1, <3>2, SMTT(30)
  <2>12. num_new_tokens <= token_budget'
    <3>1. num_scheduled_tokens[v] \in Int /\ 0 <= num_scheduled_tokens[v]
      BY <1>0, Zenon DEF SInv, TokenInv, TokensOf, OutTypeOK
    <3>2. num_new_tokens <= token_budget
      BY <1>0, <1>2, Zenon DEF IndexInv
    <3> QED BY <1>0, <1>1, <3>1, <3>2, SMTT(30)
  <2>13. num_computed_tokens'[cur] = num_computed_tokens[cur]
    BY <1>0, <1>1, <1>4, SMTT(30) DEF preempt_request, ReqTypeOK
  <2> QED BY <1>0, <1>2, <2>1, <2>5, <2>7, <2>11, <2>12, <2>13, Zenon DEF IndexInv
<1> QED BY <1>3, <1>4, Zenon

\* The index and the request being allocated for, in every step.
LEMMA IndexKeeps ==
  ASSUME IInv, QInv, SInv, [Next]_vars
  PROVE  IndexInv'
<1>0. /\ IndexInv /\ ListInv /\ TokenInv /\ running \in Seq(Requests) /\ NoDuplicates(running)
      /\ Len(running) \in Nat /\ DOMAIN running = 1..Len(running)
      /\ ReqTypeOK /\ OutTypeOK
      /\ req_index \in Int /\ token_budget \in Int /\ num_new_tokens \in Int
  BY LenProperties, Zenon DEF SInv, IInv, TypeOK, QueueTypeOK, LoopTypeOK, QInv,
     QueuesMatchStatus
<1>1. CASE pc' \notin {"running", "alloc"}
  BY <1>1, Zenon DEF IndexInv
<1>2. CASE start_schedule
  <2>1. pc = "idle" /\ pc' = "running" /\ UNCHANGED scheduled_running_reqs
    BY <1>2, Zenon DEF start_schedule, outVars
  <2>2. scheduled_running_reqs' = {}
    BY <1>0, <2>1, Zenon DEF ListInv, Lists, InSchedule, InExecute
  <2> QED BY <2>1, <2>2, Zenon DEF IndexInv
<1>3. CASE running_skip
  <2>1. /\ pc = "running" /\ pc' = pc /\ req_index' = req_index + 1
        /\ UNCHANGED <<running, scheduled_running_reqs>>
    BY <1>3, Zenon DEF running_skip, InRunningLoop, queueVars, outVars
  <2> QED BY <1>0, <2>1, SMTT(30) DEF IndexInv
<1>4. CASE running_pick
  <2>1. /\ pc = "running" /\ pc' = "alloc" /\ req_index \in DOMAIN running /\ token_budget > 0
        /\ cur' = running[req_index] /\ num_new_tokens' = NumNewTokens(running[req_index])
        /\ NumNewTokens(running[req_index]) # 0
        /\ UNCHANGED <<reqVars, running, scheduled_running_reqs, req_index, token_budget>>
    BY <1>4, Zenon DEF running_pick, InRunningLoop, queueVars, outVars
  <2>2. cur' \in Requests
    BY <1>0, <2>1, SMTT(30)
  <2>3. cur' \notin scheduled_running_reqs
    BY <1>0, <2>1 DEF IndexInv
  <2>4. 0 <= num_tokens[cur'] + num_output_placeholders[cur'] - num_computed_tokens[cur']
    <3> DEFINE c == cur'
    <3>1. c \in Requests /\ TokensOf(c)
      BY <1>0, <2>2, Zenon DEF TokenInv
    <3>2. /\ num_tokens[c] \in Int /\ num_output_placeholders[c] \in Int
          /\ num_computed_tokens[c] \in Int /\ num_scheduled_tokens[c] \in Int
      BY <1>0, <3>1, Zenon DEF ReqTypeOK, OutTypeOK
    <3>3. /\ 0 <= num_scheduled_tokens[c]
          /\ num_computed_tokens[c] + num_scheduled_tokens[c]
               <= num_tokens[c] + num_output_placeholders[c]
      BY <2>1, <3>1, Zenon DEF TokensOf, InSchedule
    <3> HIDE DEF c
    <3>4. 0 <= num_tokens[c] + num_output_placeholders[c] - num_computed_tokens[c]
      BY <3>2, <3>3
    <3> QED BY <3>4, Zenon DEF c
  <2>5. /\ 0 < num_new_tokens' /\ num_new_tokens' <= token_budget
        /\ num_computed_tokens[cur'] + num_new_tokens'
             <= num_tokens[cur'] + num_output_placeholders[cur']
    BY <2>1, <2>2, <2>4, NewTokensBound, Zenon
  <2> QED BY <1>0, <2>1, <2>3, <2>5, SMTT(30) DEF IndexInv, reqVars
<1>5. CASE running_allocate
  <2>1. /\ pc = "alloc" /\ pc' = "running" /\ req_index' = req_index + 1 /\ UNCHANGED running
        /\ scheduled_running_reqs' = scheduled_running_reqs \cup {cur}
    BY <1>5, Zenon DEF running_allocate, queueVars
  <2>2. PICK m \in DOMAIN running : running[m] = cur /\ m <= req_index
    BY <1>0, <2>1, Zenon DEF IndexInv
  <2>3. ASSUME NEW i \in DOMAIN running, running[i] \in scheduled_running_reqs'
        PROVE  i < req_index'
    <3>1. CASE running[i] = cur
      <4>1. i = m
        BY <1>0, <2>2, <3>1, Zenon DEF NoDuplicates
      <4> QED BY <1>0, <2>1, <2>2, <4>1, SMTT(30)
    <3>2. CASE running[i] # cur
      BY <1>0, <2>1, <2>3, <3>2, SMTT(30) DEF IndexInv
    <3> QED BY <3>1, <3>2, Zenon
  <2> QED BY <2>1, <2>3, Zenon DEF IndexInv
<1>6. CASE running_preempt /\ Quiet
  BY <1>6, PreemptKeepsIndex, Zenon
<1>7. CASE UNCHANGED vars \/ WaitForInput
  BY <1>0, <1>7, Zenon
     DEF WaitForInput, vars, schedVars, reqVars, queueVars, loopVars, outVars, IndexInv
<1>8. CASE ClientStep \/ ResetPreempt \/ ResetDone
  <2>1. pc' \in {"idle", "aborts", "reset"}
    BY <1>8, Zenon DEF ClientStep, AddRequest, add_request, Abort, finish_requests,
       PauseScheduler,
         ResumeScheduler, set_pause_state, ResetPrefixCache, ResetPreempt, ResetDone
  <2> QED BY <1>1, <2>1, Zenon
<1>9. CASE ExecuteStep \/ OutputStep
  <2>1. pc' \notin {"running", "alloc"}
    BY <1>9, Zenon DEF ExecuteStep, update_states, skive_check, evict_request_blocks,
       EndExecute,
         OutputStep, AwaitOutput, TakeOutput, UpdateFromOutput, PopPending, skive_reclaim,
         schedVars, EndStep
  <2> QED BY <1>1, <2>1, Zenon
<1>10. CASE running_done \/ waiting_admit \/ waiting_done \/ FinishSchedule
  <2>1. pc' \notin {"running", "alloc"}
    BY <1>10, Zenon DEF running_done, waiting_admit, waiting_done, FinishSchedule,
       finish_schedule,
         InWaitingLoop
  <2> QED BY <1>1, <2>1, Zenon
<1> QED BY <1>2, <1>3, <1>4, <1>5, <1>6, <1>7, <1>8, <1>9, <1>10, Zenon
        DEF Next, EngineStep, ScheduleStep

\* What was scheduled in the previous step, in every step.
LEMMA PrevKeeps ==
  ASSUME IInv, QInv, SInv, [Next]_vars
  PROVE  PrevInv'
<1>0. /\ PrevInv /\ ListInv /\ TokenInv /\ QueuesMatchStatus
      /\ status \in [Requests -> Statuses] /\ prev_step_scheduled_req_ids \in SUBSET Requests
      /\ num_scheduled_tokens \in [Requests -> Int] /\ preempted \in BOOLEAN
  BY Zenon DEF SInv, IInv, TypeOK, ReqTypeOK, QueueTypeOK, LoopTypeOK, OutTypeOK, QInv
<1>1. ASSUME UNCHANGED <<status, prev_step_scheduled_req_ids, scheduled_resumed_reqs, preempted>>,
             \/ pc' = pc
             \/ pc' \in {"running", "alloc"} /\ pc \in {"idle", "running", "alloc"}
             \/ InExecute /\ InExecute'
             \/ pc' \in {"idle", "aborts", "output", "reclaim"}
                  /\ pc \in {"idle", "aborts", "output", "reclaim"}
      PROVE  PrevInv'
  BY <1>0, <1>1, Zenon DEF PrevInv, InExecute
<1>2. CASE ClientStep
  <2>1. CASE ResetPrefixCache
    BY <2>1, Zenon DEF ResetPrefixCache, PrevInv, InExecute
  <2>2. CASE PauseScheduler \/ ResumeScheduler
    BY <1>1, <2>2, Zenon
       DEF PauseScheduler, ResumeScheduler, set_pause_state, reqVars, loopVars, outVars
  <2>3. ASSUME NEW r \in Requests, AddRequest(r) \/ Abort(r)
        PROVE  PrevInv'
    <3>1. /\ pc' = pc /\ pc \in {"idle", "aborts"}
          /\ UNCHANGED <<prev_step_scheduled_req_ids, preempted>>
          /\ \/ status' = [status EXCEPT ![r] = "WAITING"]
             \/ status' = [status EXCEPT ![r] = "FINISHED"]
      BY <2>3, Zenon DEF AddRequest, add_request, Abort, finish_requests, free_request, loopVars
    <3> QED BY <1>0, <3>1, Zenon DEF PrevInv, InExecute
  <2> QED BY <1>2, <2>1, <2>2, <2>3, Zenon DEF ClientStep
<1>3. CASE ResetPreempt
  BY <1>3, Zenon DEF ResetPreempt, PrevInv, InExecute
<1>4. CASE ResetDone
  BY <1>4, Zenon DEF ResetDone, reset_done, PrevInv, InExecute
<1>5. CASE ScheduleStep
  <2>1. CASE (start_schedule \/ running_skip \/ running_pick \/ running_allocate) /\ Quiet
    <3>1. /\ UNCHANGED <<status, prev_step_scheduled_req_ids, scheduled_resumed_reqs,
                         preempted>>
          /\ pc' \in {"running", "alloc"} /\ pc \in {"idle", "running", "alloc"}
      BY <2>1, Zenon
         DEF start_schedule, running_skip, running_pick, running_allocate, InRunningLoop,
           reqVars, queueVars, outVars
    <3> QED BY <1>1, <3>1, Zenon
  <2>2. CASE running_preempt
    <3>1. /\ pc = "alloc" /\ pc' \in {"alloc", "finish"} /\ preempted' = TRUE
          /\ UNCHANGED scheduled_resumed_reqs
      BY <2>2, Zenon DEF running_preempt
    <3> QED BY <1>0, <3>1, Zenon DEF PrevInv, ListInv, InExecute
  <2>3. CASE running_done
    <3>1. /\ pc = "running" /\ pc' \in {"waiting", "finish"}
          /\ UNCHANGED <<status, prev_step_scheduled_req_ids, scheduled_resumed_reqs, preempted>>
      BY <2>3, Zenon DEF running_done, reqVars, queueVars, loopVars, outVars
    <3> QED BY <1>0, <3>1, Zenon DEF PrevInv, ListInv, InExecute
  <2>4. CASE waiting_admit
    <3>1. /\ pc = "waiting" /\ pc' = pc
          /\ UNCHANGED <<prev_step_scheduled_req_ids, preempted>>
      BY <2>4, Zenon DEF waiting_admit, InWaitingLoop
    <3>2. PICK r \in Requests :
            /\ IsNext(r) /\ status' = [status EXCEPT ![r] = "RUNNING"]
            /\ IF status[r] = "WAITING" THEN UNCHANGED scheduled_resumed_reqs
               ELSE scheduled_resumed_reqs' = scheduled_resumed_reqs \cup {r}
      BY <2>4, Zenon DEF waiting_admit
    <3>3. status[r] \in {"WAITING", "PREEMPTED"}
      BY <1>0, <3>2, Zenon DEF IsNext, QueuesMatchStatus
    <3>4. status[r] = "PREEMPTED" => r \notin prev_step_scheduled_req_ids
      BY <1>0, <3>1, Zenon DEF PrevInv, ListInv
    <3> QED BY <1>0, <3>1, <3>2, <3>3, <3>4, Zenon DEF PrevInv, InExecute
  <2>5. CASE waiting_done
    <3>1. /\ pc = "waiting" /\ pc' = "finish"
          /\ UNCHANGED <<prev_step_scheduled_req_ids, scheduled_resumed_reqs>>
      BY <2>5, Zenon DEF waiting_done, queueVars, outVars
    <3> QED BY <1>0, <3>1, Zenon DEF PrevInv, InExecute
  <2>6. CASE FinishSchedule
    <3>1. pc' = "execute" /\ prev_step_scheduled_req_ids' = Scheduled /\ UNCHANGED status
      BY <2>6, Zenon DEF FinishSchedule, finish_schedule
    <3>2. \A r \in Scheduled : status[r] = "RUNNING"
      BY <1>0, Zenon DEF Scheduled, TokenInv, TokensOf, ListInv, QueuesMatchStatus
    <3> QED BY <3>1, <3>2, Zenon DEF PrevInv
  <2> QED BY <1>5, <2>1, <2>2, <2>3, <2>4, <2>5, <2>6, Zenon DEF ScheduleStep
<1>6. CASE ExecuteStep
  <2>1. CASE EndExecute
    <3>1. /\ pc = "end" /\ pc' \in {"idle", "aborts"}
          /\ UNCHANGED <<status, prev_step_scheduled_req_ids>>
      BY <2>1, Zenon DEF EndExecute, reqVars, queueVars
    <3> QED BY <1>0, <3>1, Zenon DEF PrevInv, InExecute
  <2>2. CASE ~EndExecute
    <3>1. /\ UNCHANGED <<status, prev_step_scheduled_req_ids, scheduled_resumed_reqs,
                         preempted>>
          /\ InExecute /\ InExecute'
      BY <1>6, <2>2, Zenon
         DEF ExecuteStep, update_states, skive_check, evict_request_blocks, InExecute,
           reqVars, queueVars, loopVars, outVars
    <3> QED BY <1>1, <3>1, Zenon
  <2> QED BY <2>1, <2>2, Zenon
<1>7. CASE OutputStep
  <2>1. CASE \E r \in Requests : UpdateFromOutput(r)
    <3>1. PICK r \in Requests : UpdateFromOutput(r)
      BY <2>1, Zenon
    <3>2. /\ pc = "output" /\ pc' = pc /\ UNCHANGED <<prev_step_scheduled_req_ids, preempted>>
          /\ \/ status' = [status EXCEPT ![r] = "FINISHED"]
             \/ status' = status
      BY <3>1, Zenon
         DEF UpdateFromOutput, update_from_output, free_request, reqVars, queueVars, loopVars
    <3> QED BY <1>0, <3>2, Zenon DEF PrevInv, InExecute
  <2>2. CASE AwaitOutput \/ TakeOutput \/ PopPending \/ EndStep
    BY <1>1, <2>2, Zenon
       DEF AwaitOutput, TakeOutput, PopPending, EndStep, reqVars, queueVars, loopVars,
         outVars
  <2>3. CASE \E item \in popped : skive_reclaim(item[1], item[2])
    BY <1>1, <2>3, Zenon DEF skive_reclaim, schedVars, reqVars, queueVars, loopVars, outVars
  <2> QED BY <1>7, <2>1, <2>2, <2>3, Zenon DEF OutputStep
<1>8. CASE UNCHANGED vars \/ WaitForInput
  BY <1>1, <1>8, Zenon DEF WaitForInput, vars, schedVars, reqVars, queueVars, loopVars, outVars
<1> QED BY <1>2, <1>3, <1>4, <1>5, <1>6, <1>7, <1>8, ZenonT(30) DEF Next, EngineStep

-----------------------------------------------------------------------------
(* Tokens in flight *)

\* A step that leaves the tokens in flight and their counts alone.
LEMMA FlightUnchanged ==
  ASSUME NEW r \in Requests, FlightOf(r), async_tokens_to_discard[r] \in Int,
         UNCHANGED <<num_output_placeholders, async_tokens_to_discard, batch_queue, to_update>>,
         \/ status'[r] = status[r]
         \/ status[r] \in Live /\ status'[r] \in Live /\ pc' \notin {"idle", "reset"}
         \/ status[r] = "NONE" /\ status'[r] = "WAITING",
         \/ pc' = pc
         \/ pc = "reclaim"
         \/ pc = "output" /\ to_update = {}
         \/ pc = "end" /\ Len(batch_queue) < 2
         \/ /\ pc' \notin {"output", "reclaim"} /\ pc # "output"
            /\ InExecute' => InExecute
            /\ pc' \in {"idle", "reset"} => pc \in {"idle", "reset"}
  PROVE  FlightOf(r)'
<1>1. InFlight(r)' = InFlight(r)
  BY Zenon DEF InFlight, One
<1>2. ~(status[r] = "FINISHED") <=> ~(status'[r] = "FINISHED")
  BY Zenon DEF Live
<1>3. status'[r] = "NONE" => status[r] = "NONE"
  BY Zenon DEF Live
<1>4. async_tokens_to_discard[r] > 0 =>
        ~(pc = "reclaim" \/ (pc = "output" /\ to_update = {}) \/ (pc = "end" /\ Len(batch_queue) < 2))
  <2>1. pc = "end" /\ async_tokens_to_discard[r] > 0 => ~(Len(batch_queue) < 2)
    <3>1. pc = "end" /\ async_tokens_to_discard[r] > 0 => Len(batch_queue) >= 2
      BY Zenon DEF FlightOf, InExecute
    <3> QED BY <3>1
  <2> QED BY <2>1, Zenon DEF FlightOf
<1>5. async_tokens_to_discard'[r] > 0 =>
       /\ pc' # "reclaim"
       /\ IF pc' = "output" THEN r \in to_update'
                            ELSE Len(batch_queue') >= 1 /\ r \in batch_queue'[1]
       /\ pc' \in {"idle", "reset"} => status'[r] # "RUNNING"
       /\ InExecute' => Len(batch_queue') >= 2
       /\ async_tokens_to_discard'[r] = 1
  BY <1>4, Zenon DEF FlightOf, InExecute
<1> QED BY <1>1, <1>2, <1>3, <1>5, Zenon DEF FlightOf

\* A request that leaves has nothing in flight to account for.
LEMMA FlightGone ==
  ASSUME NEW r \in Requests, status'[r] = "FINISHED",
         num_output_placeholders'[r] = 0, async_tokens_to_discard'[r] = 0
  PROVE  FlightOf(r)'
  BY DEF FlightOf

\* finish_schedule counts a placeholder for each token the batch will sample.
LEMMA FinishKeepsFlight ==
  ASSUME IInv, QInv, SInv, FinishSchedule
  PROVE  FlightInv'
<1>0. /\ FlightInv /\ TokenInv /\ ListInv /\ QueuesMatchStatus /\ ReqTypeOK
      /\ batch_queue \in Seq(SUBSET Requests) /\ Len(batch_queue) \in Nat
      /\ num_scheduled_tokens \in [Requests -> Int]
  BY LenProperties, Zenon DEF SInv, IInv, TypeOK, EngineTypeOK, OutTypeOK, QInv
<1>1. /\ pc = "finish" /\ pc' = "execute" /\ UNCHANGED <<status, async_tokens_to_discard, to_update>>
      /\ batch_queue' = Append(batch_queue, Sampled)
      /\ num_output_placeholders' =
           [r \in Requests |-> IF Async /\ r \in Sampled THEN num_output_placeholders[r] + 1
                                                         ELSE num_output_placeholders[r]]
  BY Zenon DEF FinishSchedule, finish_schedule
<1>2. Len(batch_queue) < BatchQueueSize
  BY <1>1, Zenon DEF SInv, BatchInv, InExecute
<1>3. Sampled \in SUBSET Requests /\ \A r \in Sampled : status[r] = "RUNNING"
  BY <1>0, Zenon DEF Sampled, Scheduled, TokenInv, TokensOf, ListInv, QueuesMatchStatus
<1>4. /\ Len(batch_queue') = Len(batch_queue) + 1 /\ batch_queue'[Len(batch_queue) + 1] = Sampled
      /\ \A i \in 1..Len(batch_queue) : batch_queue'[i] = batch_queue[i]
  BY <1>0, <1>1, <1>3, AppendProperties, SMTT(30)
<1>5. SUFFICES ASSUME NEW r \in Requests
               PROVE  FlightOf(r)'
  BY Zenon DEF FlightInv
<1>6. /\ num_output_placeholders[r] \in Int /\ async_tokens_to_discard[r] \in Int
      /\ status[r] \in Statuses /\ FlightOf(r)
  BY <1>0, Zenon DEF ReqTypeOK, FlightInv
<1>7. CASE ~Async
  <2>1. num_output_placeholders'[r] = num_output_placeholders[r]
    BY <1>1, <1>7, Zenon
  <2> QED BY <1>1, <1>6, <1>7, <2>1, SMTT(30) DEF FlightOf
<1>8. CASE Async
  <2>1. Len(batch_queue) \in {0, 1}
    <3>1. BatchQueueSize = 2
      BY <1>8, Zenon DEF BatchQueueSize
    <3>2. Len(batch_queue) < 2 /\ Len(batch_queue) \in Nat
      BY <1>0, <1>2, <3>1, Zenon
    <3>3. \A n \in Nat : n < 2 => n \in {0, 1}
      OBVIOUS
    <3> QED BY <3>2, <3>3, Zenon
  <2>2. InFlight(r)' = InFlight(r) + One(r \in Sampled)
    <3>1. CASE Len(batch_queue) = 0
      <4>1. Len(batch_queue') = 1 /\ batch_queue'[1] = Sampled
        BY <1>4, <3>1, SMTT(30)
      <4> QED BY <1>1, <3>1, <4>1, SMTT(30) DEF InFlight, One
    <3>2. CASE Len(batch_queue) = 1
      <4>1. Len(batch_queue') = 2 /\ batch_queue'[2] = Sampled /\ batch_queue'[1] = batch_queue[1]
        BY <1>4, <3>2, SMTT(30)
      <4> QED BY <1>1, <3>2, <4>1, SMTT(30) DEF InFlight, One
    <3> QED BY <2>1, <3>1, <3>2, Zenon
  <2>3. num_output_placeholders'[r] = num_output_placeholders[r] + One(r \in Sampled)
    BY <1>1, <1>6, <1>8, SMTT(30) DEF One
  <2>4. r \in Sampled => status[r] = "RUNNING"
    BY <1>3, Zenon
  <2>5. InFlight(r) \in Int /\ One(r \in Sampled) \in {0,
  1} /\ (r \notin Sampled => One(r \in Sampled) = 0)
    BY DEF InFlight, One
  <2>6. async_tokens_to_discard[r] > 0 =>
          /\ Len(batch_queue) = 1 /\ r \in batch_queue[1] /\ async_tokens_to_discard[r] = 1
    <3>1. async_tokens_to_discard[r] > 0 =>
            Len(batch_queue) >= 1 /\ r \in batch_queue[1] /\ async_tokens_to_discard[r] = 1
      BY <1>1, <1>6, Zenon DEF FlightOf
    <3> QED BY <2>1, <3>1, SMTT(30)
  <2>7. async_tokens_to_discard[r] > 0 => Len(batch_queue') >= 2 /\ r \in batch_queue'[1]
    BY <1>4, <2>6
  <2> QED BY <1>1, <1>6, <1>8, <2>2, <2>3, <2>4, <2>5, <2>6, <2>7, SMTT(30) DEF FlightOf
<1> QED BY <1>7, <1>8, Zenon

\* The oldest batch becomes the output.
LEMMA TakeKeepsFlight ==
  ASSUME IInv, SInv, TakeOutput
  PROVE  FlightInv'
<1>0. /\ FlightInv /\ ReqTypeOK /\ batch_queue \in Seq(SUBSET Requests) /\ Len(batch_queue) \in Nat
      /\ Len(batch_queue) <= 2
  BY LenProperties DEF SInv, BatchInv, BatchQueueSize, IInv, TypeOK, EngineTypeOK
<1>1. /\ pc = "aborts" /\ pc' = "output" /\ batch_queue # <<>>
      /\ to_update' = Head(batch_queue) /\ batch_queue' = Tail(batch_queue)
      /\ UNCHANGED <<status, num_output_placeholders, async_tokens_to_discard>>
  BY Zenon DEF TakeOutput, reqVars
<1>2. to_update = {}
  BY <1>1, Zenon DEF SInv, BatchInv
<1>3. /\ Len(batch_queue) >= 1 /\ to_update' = batch_queue[1]
      /\ Len(batch_queue') = Len(batch_queue) - 1
      /\ Len(batch_queue) = 2 => batch_queue'[1] = batch_queue[2]
  BY <1>0, <1>1, HeadTailProperties, EmptySeq, SMTT(30)
<1>4. SUFFICES ASSUME NEW r \in Requests
               PROVE  FlightOf(r)'
  BY Zenon DEF FlightInv
<1>5. InFlight(r)' = InFlight(r)
  BY <1>0, <1>2, <1>3, SMTT(30) DEF InFlight, One
<1>6. FlightOf(r)
  BY <1>0, Zenon DEF FlightInv
<1> QED BY <1>1, <1>3, <1>5, <1>6, Zenon DEF FlightOf, InExecute

\* A token arrives: it is discarded, or a placeholder becomes a token.
LEMMA UpdateKeepsFlight ==
  ASSUME IInv, SInv, NEW q \in Requests, UpdateFromOutput(q)
  PROVE  FlightInv'
<1>0. FlightInv /\ ReqTypeOK
  BY Zenon DEF SInv, IInv, TypeOK
<1>1. /\ pc = "output" /\ pc' = pc /\ q \in to_update /\ to_update' = to_update \ {q}
      /\ UNCHANGED batch_queue
  BY Zenon DEF UpdateFromOutput
<1>2. PICK stop \in BOOLEAN : update_from_output(q, stop)
  BY Zenon DEF UpdateFromOutput
<1>3. SUFFICES ASSUME NEW r \in Requests
               PROVE  FlightOf(r)'
  BY Zenon DEF FlightInv
<1>4. /\ num_output_placeholders[r] \in Int /\ async_tokens_to_discard[r] \in Int
      /\ status[r] \in Statuses /\ FlightOf(r)
  BY <1>0, Zenon DEF ReqTypeOK, FlightInv
<1>5. CASE r # q
  <2>1. /\ status'[r] = status[r] /\ num_output_placeholders'[r] = num_output_placeholders[r]
        /\ async_tokens_to_discard'[r] = async_tokens_to_discard[r]
    BY <1>0, <1>2, <1>5, Zenon DEF update_from_output, free_request, reqVars, ReqTypeOK
  <2>2. InFlight(r)' = InFlight(r)
    BY <1>1, <1>5, ZenonT(30) DEF InFlight, One
  <2> QED BY <1>1, <1>4, <1>5, <2>1, <2>2, Zenon DEF FlightOf, InExecute
<1>6. CASE r = q
  <2>1. InFlight(r)' = InFlight(r) - 1 /\ InFlight(r)' >= 0 /\ InFlight(r) \in Int
    <3> DEFINE a == One(Len(batch_queue) >= 1 /\ r \in batch_queue[1])
               b == One(Len(batch_queue) >= 2 /\ r \in batch_queue[2])
    <3>1. a \in {0, 1} /\ b \in {0, 1}
      BY Zenon DEF One
    <3>2. InFlight(r) = a + b + 1 /\ InFlight(r)' = a + b + 0
      BY <1>1, <1>6, ZenonT(30) DEF InFlight, One
    <3> HIDE DEF a, b
    <3> QED BY <3>1, <3>2, SMTT(30)
  <2>2. CASE status[r] \notin Live
    <3>1. UNCHANGED <<status, num_output_placeholders, async_tokens_to_discard>>
      BY <1>2, <1>6, <2>2, Zenon DEF update_from_output, reqVars
    <3>2. Async => status[r] = "FINISHED"
      <4>1. Async /\ status[r] = "NONE" => InFlight(r) = 0
        BY <1>4, Zenon DEF FlightOf
      <4>2. InFlight(r) # 0
        BY <2>1
      <4> QED BY <1>4, <2>2, <4>1, <4>2, Zenon DEF Statuses
    <3> QED BY <1>4, <3>1, <3>2, SMTT(30) DEF FlightOf
  <2>3. CASE status[r] \in Live /\ async_tokens_to_discard[r] > 0
    <3>0. async_tokens_to_discard[r] # 0
      BY <1>4, <2>3, SMTT(30)
    <3>1. /\ UNCHANGED <<status, num_output_placeholders>>
          /\ async_tokens_to_discard'[r] = async_tokens_to_discard[r] - 1
      BY <1>0, <1>2, <1>6, <2>3, <3>0, ZenonT(30) DEF update_from_output, ReqTypeOK
    <3>2. async_tokens_to_discard'[r] = 0 /\ Async /\ async_tokens_to_discard[r] = 1
      BY <1>4, <2>3, <3>1, SMTT(30) DEF FlightOf
    <3>3. /\ num_output_placeholders[r] >= 0 /\ status[r] # "FINISHED" /\ status[r] # "NONE"
          /\ num_output_placeholders[r] + async_tokens_to_discard[r] = InFlight(r)
      BY <1>4, <2>3, <3>2, Zenon DEF FlightOf, Live
    <3>4. num_output_placeholders[r] + 0 = InFlight(r)' /\ 0 >= 0 /\ ~(0 > 0)
      BY <1>4, <2>1, <3>2, <3>3, SMTT(30)
    <3> QED BY <3>1, <3>2, <3>3, <3>4, Zenon DEF FlightOf
  <2>4. CASE status[r] \in Live /\ async_tokens_to_discard[r] = 0
    <3>1. CASE free_request(r)
      BY <1>0, <3>1, FlightGone, Zenon DEF free_request, ReqTypeOK
    <3>2. CASE /\ num_output_placeholders' =
                    [num_output_placeholders EXCEPT ![r] = IF Async THEN @ - 1 ELSE @]
               /\ UNCHANGED <<status, async_tokens_to_discard>>
      <4>1. /\ num_output_placeholders[r] >= 0 /\ status[r] # "FINISHED" /\ status[r] # "NONE"
            /\ IF Async THEN num_output_placeholders[r] + async_tokens_to_discard[r] = InFlight(r)
                        ELSE num_output_placeholders[r] = 0
        BY <1>4, <2>4, Zenon DEF FlightOf, Live
      <4>2. /\ num_output_placeholders'[r] = IF Async THEN num_output_placeholders[r] - 1
                                                      ELSE num_output_placeholders[r]
            /\ status'[r] = status[r] /\ async_tokens_to_discard'[r] = 0
        BY <1>0, <2>4, <3>2, ZenonT(30) DEF ReqTypeOK
      <4>3. /\ num_output_placeholders'[r] >= 0 /\ 0 >= 0 /\ ~(0 > 0)
            /\ IF Async THEN num_output_placeholders'[r] + 0 = InFlight(r)'
                        ELSE num_output_placeholders'[r] = 0
        BY <1>4, <2>1, <2>4, <4>1, <4>2, SMTT(30)
      <4> QED BY <4>1, <4>2, <4>3, Zenon DEF FlightOf
    <3>3. ~(async_tokens_to_discard[r] > 0)
      BY <2>4
    <3> QED BY <1>2, <1>6, <2>4, <3>1, <3>2, <3>3, Zenon DEF update_from_output
  <2> QED BY <1>4, <2>2, <2>3, <2>4, SMTT(30) DEF FlightOf
<1> QED BY <1>5, <1>6, Zenon

\* A forced reset marks every token in flight of the preempted request.
LEMMA ResetKeepsFlight ==
  ASSUME IInv, QInv, SInv, ResetPreempt
  PROVE  FlightInv'
<1>0. /\ FlightInv /\ ReqTypeOK /\ QueuesMatchStatus /\ running \in Seq(Requests)
      /\ batch_queue \in Seq(SUBSET Requests) /\ Len(batch_queue) \in Nat
  BY LenProperties, Zenon DEF SInv, IInv, TypeOK, EngineTypeOK, QueueTypeOK, QInv
<1>1. pc = "reset" /\ pc' = pc /\ UNCHANGED <<batch_queue, to_update>> /\ running # <<>>
  BY Zenon DEF ResetPreempt, reset_preempt, engineVars
<1>2. PICK v \in Requests :
        /\ v = running[Len(running)] /\ status' = [status EXCEPT ![v] = "PREEMPTED"]
        /\ async_tokens_to_discard' =
             [async_tokens_to_discard EXCEPT ![v] = num_output_placeholders[v]]
        /\ num_output_placeholders' = [num_output_placeholders EXCEPT ![v] = 0]
  BY Zenon DEF ResetPreempt, reset_preempt, preempt_request
<1>3. status[v] = "RUNNING"
  <2>1. v \in Elems(running)
    BY <1>0, <1>1, <1>2, LenProperties, EmptySeq, SMTT(30) DEF Elems
  <2> QED BY <1>0, <2>1, Zenon DEF QueuesMatchStatus
<1>4. to_update = {} /\ Len(batch_queue) < BatchQueueSize
  BY <1>1, Zenon DEF SInv, BatchInv, InExecute
<1>5. SUFFICES ASSUME NEW r \in Requests
               PROVE  FlightOf(r)'
  BY Zenon DEF FlightInv
<1>6. /\ num_output_placeholders[r] \in Int /\ async_tokens_to_discard[r] \in Int
      /\ status[r] \in Statuses /\ FlightOf(r)
  BY <1>0, Zenon DEF ReqTypeOK, FlightInv
<1>7. InFlight(r)' = InFlight(r)
  BY <1>1, Zenon DEF InFlight, One
<1>8. CASE r # v
  <2>1. /\ status'[r] = status[r] /\ num_output_placeholders'[r] = num_output_placeholders[r]
        /\ async_tokens_to_discard'[r] = async_tokens_to_discard[r]
    BY <1>0, <1>2, <1>8, Zenon DEF ReqTypeOK
  <2> QED BY <1>1, <1>6, <1>7, <2>1, Zenon DEF FlightOf, InExecute
<1>9. CASE r = v
  <2>1. /\ status'[r] = "PREEMPTED" /\ num_output_placeholders'[r] = 0
        /\ async_tokens_to_discard'[r] = num_output_placeholders[r]
    BY <1>0, <1>2, <1>9, Zenon DEF ReqTypeOK
  <2>2. async_tokens_to_discard[r] = 0
    BY <1>1, <1>3, <1>6, <1>9, SMTT(30) DEF FlightOf
  <2>3. Async => num_output_placeholders[r] = InFlight(r)
    BY <1>3, <1>6, <1>9, <2>2, SMTT(30) DEF FlightOf
  <2>4. InFlight(r) = One(Len(batch_queue) >= 1 /\ r \in batch_queue[1])
    BY <1>0, <1>4, SMTT(30) DEF InFlight, One, BatchQueueSize
  <2> QED BY <1>1, <1>6, <1>7, <2>1, <2>2, <2>3, <2>4, SMTT(30) DEF FlightOf, One, InExecute
<1> QED BY <1>8, <1>9, Zenon

\* The tokens in flight and their counts, in every step.
LEMMA FlightKeeps ==
  ASSUME IInv, QInv, SInv, [Next]_vars
  PROVE  FlightInv'
<1>0. FlightInv /\ ReqTypeOK /\ QueuesMatchStatus
  BY Zenon DEF SInv, IInv, TypeOK, QInv
<1>1. \A r \in Requests : FlightOf(r) /\ async_tokens_to_discard[r] \in Int
  BY <1>0, Zenon DEF FlightInv, ReqTypeOK
<1>2. CASE FinishSchedule
  BY <1>2, FinishKeepsFlight, Zenon
<1>3. CASE TakeOutput
  BY <1>3, TakeKeepsFlight, Zenon
<1>4. CASE \E r \in Requests : UpdateFromOutput(r)
  BY <1>4, UpdateKeepsFlight, Zenon
<1>5. CASE ResetPreempt
  BY <1>5, ResetKeepsFlight, Zenon
<1>6. CASE \E q \in Requests : Abort(q)
  <2>1. PICK q \in Requests : Abort(q)
    BY <1>6, Zenon
  <2>2. pc' = pc /\ UNCHANGED <<batch_queue, to_update>> /\ free_request(q)
    BY <2>1, Zenon DEF Abort, finish_requests, engineVars
  <2>3. SUFFICES ASSUME NEW r \in Requests
                 PROVE  FlightOf(r)'
    BY Zenon DEF FlightInv
  <2>4. CASE r = q
    BY <1>0, <2>2, <2>4, FlightGone, Zenon DEF free_request, ReqTypeOK
  <2>5. CASE r # q
    <3>1. /\ status'[r] = status[r] /\ num_output_placeholders'[r] = num_output_placeholders[r]
          /\ async_tokens_to_discard'[r] = async_tokens_to_discard[r]
      BY <1>0, <2>2, <2>5, Zenon DEF free_request, ReqTypeOK
    <3>2. InFlight(r)' = InFlight(r)
      BY <2>2, Zenon DEF InFlight, One
    <3> QED BY <1>1, <2>2, <3>1, <3>2, Zenon DEF FlightOf, InExecute
  <2> QED BY <2>4, <2>5, Zenon
<1>7. ASSUME UNCHANGED <<num_output_placeholders, async_tokens_to_discard, batch_queue, to_update>>,
             \A r \in Requests :
               \/ status'[r] = status[r]
               \/ status[r] \in Live /\ status'[r] \in Live /\ pc' \notin {"idle", "reset"}
               \/ status[r] = "NONE" /\ status'[r] = "WAITING",
             \/ pc' = pc
             \/ pc = "reclaim"
             \/ pc = "output" /\ to_update = {}
             \/ pc = "end" /\ Len(batch_queue) < 2
             \/ /\ pc' \notin {"output", "reclaim"} /\ pc # "output"
                /\ InExecute' => InExecute
                /\ pc' \in {"idle", "reset"} => pc \in {"idle", "reset"}
      PROVE  FlightInv'
  BY <1>1, <1>7, FlightUnchanged, Zenon DEF FlightInv
<1>8. CASE (\E q \in Requests : AddRequest(q)) \/ PauseScheduler \/ ResumeScheduler
           \/ ResetPrefixCache
  <2>1. UNCHANGED <<num_output_placeholders, async_tokens_to_discard, batch_queue, to_update>>
    BY <1>8, Zenon DEF AddRequest, add_request, PauseScheduler, ResumeScheduler,
       set_pause_state,
         ResetPrefixCache, reqVars, engineVars
  <2>2. \A r \in Requests :
          status'[r] = status[r] \/ (status[r] = "NONE" /\ status'[r] = "WAITING")
    BY <1>0, <1>8, Zenon
       DEF AddRequest, add_request, PauseScheduler, ResumeScheduler, set_pause_state,
         ResetPrefixCache, reqVars, ReqTypeOK
  <2>3. pc' = pc \/ (pc = "idle" /\ pc' = "reset")
    BY <1>8, Zenon DEF AddRequest, add_request, PauseScheduler, ResumeScheduler,
       set_pause_state,
         ResetPrefixCache
  <2> QED BY <1>7, <2>1, <2>2, <2>3, Zenon DEF InExecute
<1>9. CASE /\ \/ start_schedule \/ running_skip \/ running_pick \/ running_allocate
              \/ running_preempt \/ running_done \/ waiting_admit \/ waiting_done
           /\ Quiet
  <2>1. UNCHANGED <<num_output_placeholders, async_tokens_to_discard, batch_queue, to_update>>
    BY <1>9, Zenon
       DEF start_schedule, running_skip, running_pick, running_allocate, running_preempt,
         running_done, waiting_admit, waiting_done, Quiet, reqVars, engineVars
  <2>2. pc' \in {"running", "alloc", "waiting", "finish"} /\ pc \notin {"output", "reclaim"}
    BY <1>9, Zenon
       DEF start_schedule, running_skip, running_pick, running_allocate, running_preempt,
         running_done, waiting_admit, waiting_done, InRunningLoop, InWaitingLoop
  <2>3. \A r \in Requests :
          status'[r] = status[r] \/ (status[r] \in Live /\ status'[r] \in Live)
    <3>1. CASE running_preempt
      <4>1. PICK v \in Requests : IsVictim(v) /\ status' = [status EXCEPT ![v] = "PREEMPTED"]
        BY <3>1, Zenon DEF running_preempt, preempt_request
      <4>2. status[v] = "RUNNING"
        BY <1>0, <4>1, Zenon DEF IsVictim, QueuesMatchStatus
      <4> QED BY <1>0, <4>1, <4>2, Zenon DEF Live, ReqTypeOK
    <3>2. CASE waiting_admit
      <4>1. PICK v \in Requests : IsNext(v) /\ status' = [status EXCEPT ![v] = "RUNNING"]
        BY <3>2, Zenon DEF waiting_admit
      <4>2. status[v] \in {"WAITING", "PREEMPTED"}
        BY <1>0, <4>1, Zenon DEF IsNext, QueuesMatchStatus
      <4> QED BY <1>0, <4>1, <4>2, Zenon DEF Live, ReqTypeOK
    <3>3. CASE ~running_preempt /\ ~waiting_admit
      BY <1>9, <3>3, Zenon DEF start_schedule, running_skip, running_pick, running_allocate,
           running_done, waiting_done, reqVars
    <3> QED BY <3>1, <3>2, <3>3, Zenon
  <2> QED BY <1>7, <2>1, <2>2, <2>3, Zenon DEF InExecute
<1>10. CASE ExecuteStep
  <2>1. UNCHANGED <<status, num_output_placeholders, async_tokens_to_discard, batch_queue,
                    to_update>>
    BY <1>10, Zenon DEF ExecuteStep, update_states, skive_check, evict_request_blocks,
       EndExecute,
         reqVars, engineVars
  <2>2. \/ InExecute /\ InExecute'
        \/ pc = "end" /\ pc' = "aborts"
        \/ pc = "end" /\ Len(batch_queue) < 2
    <3>1. CASE EndExecute
      <4>1. /\ pc = "end" /\ pc' \in {"idle", "aborts"}
            /\ pc' = "idle" => Len(batch_queue) < BatchQueueSize
        BY <3>1, Zenon DEF EndExecute
      <4>2. Len(batch_queue) \in Nat
        BY LenProperties, Zenon DEF IInv, TypeOK, EngineTypeOK
      <4> QED BY <4>1, <4>2 DEF BatchQueueSize
    <3>2. CASE ~EndExecute
      BY <1>10, <3>2, Zenon
         DEF ExecuteStep, update_states, skive_check, evict_request_blocks, InExecute
    <3> QED BY <3>1, <3>2, Zenon
  <2> QED BY <1>7, <2>1, <2>2, Zenon DEF InExecute
<1>11. CASE AwaitOutput \/ PopPending \/ EndStep \/ ResetDone
             \/ (\E item \in popped : skive_reclaim(item[1], item[2]))
  <2>1. UNCHANGED <<status, num_output_placeholders, async_tokens_to_discard, batch_queue, to_update>>
    BY <1>11, Zenon
       DEF AwaitOutput, PopPending, EndStep, ResetDone, reset_done, skive_reclaim, reqVars,
         schedVars, engineVars
  <2>2. \/ pc = "idle" /\ pc' = "aborts"
        \/ pc = "output" /\ to_update = {}
        \/ pc = "reclaim"
        \/ pc = "reset" /\ pc' = "idle"
    BY <1>11, Zenon DEF AwaitOutput, PopPending, EndStep, ResetDone, skive_reclaim
  <2> QED BY <1>7, <2>1, <2>2, Zenon DEF InExecute
<1>12. CASE UNCHANGED vars \/ WaitForInput
  BY <1>7, <1>12, Zenon DEF WaitForInput, vars, schedVars, reqVars, engineVars
<1> QED BY <1>2, <1>3, <1>4, <1>5, <1>6, <1>8, <1>9, <1>10, <1>11, <1>12, SMTT(30)
        DEF Next, EngineStep, ScheduleStep, OutputStep, ClientStep

-----------------------------------------------------------------------------
(* What a request still needs *)

\* The counts of a request are numbers.
LEMMA CountTypes ==
  ASSUME IInv, NEW r \in Requests
  PROVE  /\ num_tokens[r] \in Int /\ num_computed_tokens[r] \in Int
         /\ num_output_placeholders[r] \in Int /\ num_scheduled_tokens[r] \in Int
         /\ PromptLen[r] \in Nat /\ PromptLen[r] > 0 /\ MaxTokens[r] \in Nat /\ MaxTokens[r] > 0
         /\ InFlight(r) \in Nat /\ Due(r) \in Nat
         /\ Lacks(r) \in Int /\ Rest(r) \in Int /\ Planned(r) \in Int
<1>1. /\ num_tokens[r] \in Int /\ num_computed_tokens[r] \in Int
      /\ num_output_placeholders[r] \in Int /\ num_scheduled_tokens[r] \in Int
  BY Zenon DEF IInv, TypeOK, ReqTypeOK, OutTypeOK
<1>2. InFlight(r) \in Nat
  BY DEF InFlight, One
<1>3. Due(r) \in Nat
  BY <1>2 DEF Due
<1>4. PromptLen[r] \in Nat /\ PromptLen[r] > 0 /\ MaxTokens[r] \in Nat /\ MaxTokens[r] > 0
  BY SchedulerAssumption, SMTT(30)
<1> QED BY <1>1, <1>2, <1>3, <1>4, SMTT(30) DEF Lacks, Rest, Planned

\* The synchronous engine has applied every token when it schedules.
LEMMA NothingDue ==
  ASSUME IInv, SInv, InSchedule, NEW r \in Requests
  PROVE  Due(r) = 0 /\ Rest(r) = Lacks(r)
<1>1. Due(r) = 0
  <2> SUFFICES ASSUME ~Async
               PROVE  InFlight(r) = 0
    BY Zenon DEF Due
  <2>1. to_update = {} /\ Len(batch_queue) < BatchQueueSize
    BY Zenon DEF SInv, BatchInv, InSchedule, InExecute
  <2>2. Len(batch_queue) \in Nat
    BY LenProperties, Zenon DEF IInv, TypeOK, EngineTypeOK
  <2>3. BatchQueueSize = 1
    BY Zenon DEF BatchQueueSize
  <2>4. ~(Len(batch_queue) >= 1) /\ ~(Len(batch_queue) >= 2)
    BY <2>1, <2>2, <2>3, SMTT(30)
  <2>5. InFlight(r) = 0 + 0 + 0
    BY <2>1, <2>4, Zenon DEF InFlight, One
  <2> QED BY <2>5
<1> QED BY <1>1, CountTypes DEF Rest

\* In the running loop every request lacks a token, so one that is passed over is
\* ending; and an ending one is passed over.
LEMMA PassedOver ==
  ASSUME IInv, SInv, GapInv, NEW r \in Requests, status[r] = "RUNNING", InSchedule
  PROVE  /\ Lacks(r) >= 1
         /\ LastStepInFlight(r) <=> Ending(r)
<1>1. Lacks(r) >= 1 /\ num_tokens[r] < PromptLen[r] + MaxTokens[r]
  <2>1. GapOf(r) /\ Rest(r) = Lacks(r)
    BY NothingDue, Zenon DEF GapInv
  <2> QED BY <2>1, Zenon DEF GapOf, Live
<1> QED BY <1>1, CountTypes DEF Lacks, LastStepInFlight, Ending

\* What one step does to the counts of a request that runs before and after it, when it
\* is not the end of schedule(): nothing, or a token arrives.
LEMMA CountSteps ==
  ASSUME IInv, QInv, SInv, [Next]_vars, ~FinishSchedule,
         NEW r \in Requests, status[r] = "RUNNING", status'[r] = "RUNNING"
  PROVE  /\ num_computed_tokens'[r] = num_computed_tokens[r]
         /\ \/ /\ num_tokens'[r] = num_tokens[r]
               /\ num_output_placeholders'[r] = num_output_placeholders[r]
               /\ Due(r)' = Due(r)
            \/ /\ num_tokens'[r] = num_tokens[r] + 1
               /\ ~(num_tokens[r] + 1 >= PromptLen[r] + MaxTokens[r])
               /\ IF Async THEN /\ num_output_placeholders'[r] = num_output_placeholders[r] - 1
                                /\ Due(r)' = 0 /\ Due(r) = 0
                           ELSE /\ num_output_placeholders'[r] = num_output_placeholders[r]
                                /\ Due(r)' = Due(r) - 1
<1> DEFINE Goal == /\ num_computed_tokens'[r] = num_computed_tokens[r]
                   /\ num_tokens'[r] = num_tokens[r]
                   /\ num_output_placeholders'[r] = num_output_placeholders[r]
                   /\ Due(r)' = Due(r)
<1>0. ReqTypeOK
  BY Zenon DEF IInv, TypeOK
<1>1. ASSUME UNCHANGED <<batch_queue, to_update>>,
             num_computed_tokens'[r] = num_computed_tokens[r], num_tokens'[r] = num_tokens[r],
             num_output_placeholders'[r] = num_output_placeholders[r]
      PROVE  Goal
  BY <1>1, Zenon DEF Due, InFlight, One
<1>2. CASE running_preempt /\ Quiet
  <2>1. PICK v \in Requests : /\ status' = [status EXCEPT ![v] = "PREEMPTED"]
                              /\ num_computed_tokens' = [num_computed_tokens EXCEPT ![v] = 0]
    BY <1>2, Zenon DEF running_preempt, preempt_request
  <2>2. UNCHANGED <<num_tokens, num_output_placeholders, batch_queue, to_update>>
    BY <1>2, Zenon DEF running_preempt, Quiet, engineVars
  <2>3. "PREEMPTED" # "RUNNING"
    OBVIOUS
  <2>4. r # v
    BY <1>0, <2>1, <2>3, Zenon DEF ReqTypeOK
  <2> QED BY <1>0, <1>1, <2>1, <2>2, <2>4, Zenon DEF ReqTypeOK
<1>3. CASE waiting_admit /\ Quiet
  <2>1. PICK q \in Requests, nb \in Seq(Blocks) :
          /\ status[q] \in {"WAITING", "PREEMPTED"}
          /\ num_computed_tokens' = [num_computed_tokens EXCEPT ![q] = 0]
    BY <1>3, WaitingAdmitFacts, Zenon
  <2>2. UNCHANGED <<num_tokens, num_output_placeholders, batch_queue, to_update>>
    BY <1>3, Zenon DEF waiting_admit, Quiet, engineVars
  <2>3. "PREEMPTED" # "RUNNING" /\ "WAITING" # "RUNNING"
    OBVIOUS
  <2>4. r # q
    BY <2>1, <2>3, Zenon
  <2> QED BY <1>0, <1>1, <2>1, <2>2, <2>4, Zenon DEF ReqTypeOK
<1>4. CASE ResetPreempt
  <2>1. PICK v \in Requests :
          /\ status' = [status EXCEPT ![v] = "PREEMPTED"]
          /\ num_computed_tokens' = [num_computed_tokens EXCEPT ![v] = 0]
          /\ num_output_placeholders' = [num_output_placeholders EXCEPT ![v] = 0]
    BY <1>4, Zenon DEF ResetPreempt, reset_preempt, preempt_request
  <2>2. UNCHANGED <<num_tokens, batch_queue, to_update>>
    BY <1>4, Zenon DEF ResetPreempt, reset_preempt, engineVars
  <2>3. "PREEMPTED" # "RUNNING"
    OBVIOUS
  <2>4. r # v
    BY <1>0, <2>1, <2>3, Zenon DEF ReqTypeOK
  <2> QED BY <1>0, <1>1, <2>1, <2>2, <2>4, Zenon DEF ReqTypeOK
<1>5. CASE TakeOutput
  <2>1. /\ UNCHANGED reqVars /\ batch_queue # <<>> /\ pc = "aborts"
        /\ to_update' = Head(batch_queue) /\ batch_queue' = Tail(batch_queue)
    BY <1>5, Zenon DEF TakeOutput
  <2>2. to_update = {} /\ Len(batch_queue) <= BatchQueueSize
    BY <2>1, Zenon DEF SInv, BatchInv
  <2>3. batch_queue \in Seq(SUBSET Requests) /\ Len(batch_queue) \in Nat /\ Len(batch_queue) <= 2
    BY <2>2, LenProperties, SMTT(30) DEF BatchQueueSize, IInv, TypeOK, EngineTypeOK
  <2>4. /\ Len(batch_queue) >= 1 /\ to_update' = batch_queue[1]
        /\ Len(batch_queue') = Len(batch_queue) - 1
        /\ Len(batch_queue) = 2 => batch_queue'[1] = batch_queue[2]
    BY <2>1, <2>3, HeadTailProperties, EmptySeq, SMTT(30)
  <2>5. InFlight(r)' = InFlight(r)
    BY <2>2, <2>3, <2>4, SMTT(30) DEF InFlight, One
  <2> QED BY <2>1, <2>5, Zenon DEF Due, reqVars
<1>6. ASSUME NEW q \in Requests, UpdateFromOutput(q)
      PROVE  \/ Goal
             \/ /\ num_computed_tokens'[r] = num_computed_tokens[r]
                /\ num_tokens'[r] = num_tokens[r] + 1
                /\ ~(num_tokens[r] + 1 >= PromptLen[r] + MaxTokens[r])
                /\ IF Async THEN /\ num_output_placeholders'[r] = num_output_placeholders[r] - 1
                                 /\ Due(r)' = 0 /\ Due(r) = 0
                            ELSE /\ num_output_placeholders'[r] = num_output_placeholders[r]
                                 /\ Due(r)' = Due(r) - 1
  <2>1. /\ pc = "output" /\ pc' = pc /\ q \in to_update /\ to_update' = to_update \ {q}
        /\ UNCHANGED batch_queue
    BY <1>6, Zenon DEF UpdateFromOutput
  <2>2. PICK stop \in BOOLEAN : update_from_output(q, stop)
    BY <1>6, Zenon DEF UpdateFromOutput
  <2>3. CASE r # q
    <3>1. /\ num_computed_tokens'[r] = num_computed_tokens[r] /\ num_tokens'[r] = num_tokens[r]
          /\ num_output_placeholders'[r] = num_output_placeholders[r]
      BY <1>0, <2>2, <2>3, Zenon DEF update_from_output, free_request, reqVars, ReqTypeOK
    <3>2. InFlight(r)' = InFlight(r)
      BY <2>1, <2>3, Zenon DEF InFlight, One
    <3> QED BY <3>1, <3>2, Zenon DEF Due
  <2>4. CASE r = q
    <3>1. status[r] \in Live
      BY Zenon DEF Live
    <3>2. ~free_request(r)
      <4>1. "FINISHED" # "RUNNING"
        OBVIOUS
      <4> QED BY <1>0, <4>1, Zenon DEF free_request, ReqTypeOK
    <3>3. CASE async_tokens_to_discard[r] > 0 /\ UNCHANGED <<num_tokens, num_computed_tokens,
                                                              num_output_placeholders>>
      <4>1. Async
        <5>1. ~Async => async_tokens_to_discard[r] = 0
          BY Zenon DEF SInv, FlightInv, FlightOf
        <5>2. async_tokens_to_discard[r] # 0
          BY <3>3
        <5> QED BY <5>1, <5>2, Zenon
      <4> QED BY <3>3, <4>1, Zenon DEF Due
    <3>4. CASE /\ ~(num_tokens[r] + 1 >= PromptLen[r] + MaxTokens[r])
               /\ num_tokens' = [num_tokens EXCEPT ![r] = num_tokens[r] + 1]
               /\ num_output_placeholders' =
                    [num_output_placeholders EXCEPT
                       ![r] = IF Async THEN num_output_placeholders[r] - 1
                                       ELSE num_output_placeholders[r]]
               /\ UNCHANGED num_computed_tokens
      <4>1. InFlight(r)' = InFlight(r) - 1
        <5> DEFINE a == One(Len(batch_queue) >= 1 /\ r \in batch_queue[1])
                   b == One(Len(batch_queue) >= 2 /\ r \in batch_queue[2])
        <5>1. a \in {0, 1} /\ b \in {0, 1}
          BY Zenon DEF One
        <5>2. InFlight(r) = a + b + 1 /\ InFlight(r)' = a + b + 0
          BY <2>1, <2>4, Zenon DEF InFlight, One
        <5> HIDE DEF a, b
        <5> QED BY <5>1, <5>2, SMTT(30)
      <4> QED BY <1>0, <3>4, <4>1, Zenon DEF Due, ReqTypeOK
    <3> QED BY <2>2, <2>4, <3>1, <3>2, <3>3, <3>4, Zenon DEF update_from_output
  <2> QED BY <2>3, <2>4, Zenon
<1>7. ASSUME NEW q \in Requests, Abort(q)
      PROVE  Goal
  <2>1. free_request(q) /\ UNCHANGED <<batch_queue, to_update>>
    BY <1>7, Zenon DEF Abort, finish_requests, engineVars
  <2>2. "FINISHED" # "RUNNING"
    OBVIOUS
  <2>3. r # q
    BY <1>0, <2>1, <2>2, Zenon DEF free_request, ReqTypeOK
  <2> QED BY <1>0, <1>1, <2>1, <2>3, Zenon DEF free_request, ReqTypeOK
<1>8. ASSUME NEW q \in Requests, AddRequest(q)
      PROVE  Goal
  <2>1. /\ status[q] = "NONE" /\ num_tokens' = [num_tokens EXCEPT ![q] = PromptLen[q]]
        /\ UNCHANGED <<num_computed_tokens, num_output_placeholders, batch_queue, to_update>>
    BY <1>8, Zenon DEF AddRequest, add_request, engineVars
  <2>2. "NONE" # "RUNNING"
    OBVIOUS
  <2>3. r # q
    BY <2>1, <2>2, Zenon
  <2> QED BY <1>0, <1>1, <2>1, <2>3, Zenon DEF ReqTypeOK
<1>9. CASE UNCHANGED <<reqVars, batch_queue, to_update>>
  BY <1>1, <1>9, Zenon DEF reqVars
<1>10. CASE /\ \/ start_schedule \/ running_skip \/ running_pick \/ running_allocate
               \/ running_done \/ waiting_done
            /\ Quiet
  BY <1>9, <1>10, Zenon DEF start_schedule, running_skip, running_pick, running_allocate,
     running_done, waiting_done, Quiet, engineVars
<1>11. CASE \/ update_states /\ UNCHANGED engineVars
            \/ skive_check /\ UNCHANGED engineVars
            \/ \E q \in Requests : evict_request_blocks(q) /\ UNCHANGED engineVars
            \/ EndExecute
  BY <1>9, <1>11, Zenon DEF update_states, skive_check, evict_request_blocks, EndExecute,
     engineVars
<1>12. CASE AwaitOutput \/ PopPending \/ (\E item \in popped : skive_reclaim(item[1], item[2]))
            \/ EndStep \/ ResetDone
  BY <1>9, <1>12, Zenon DEF AwaitOutput, PopPending, skive_reclaim, EndStep, ResetDone,
     reset_done, schedVars, engineVars
<1>13. CASE PauseScheduler \/ ResumeScheduler \/ ResetPrefixCache \/ WaitForInput
            \/ UNCHANGED vars
  BY <1>9, <1>13, Zenon DEF PauseScheduler, ResumeScheduler, ResetPrefixCache, set_pause_state,
     WaitForInput, vars, schedVars, engineVars
<1>14. CASE ScheduleStep
  BY <1>2, <1>3, <1>10, <1>14, Zenon DEF ScheduleStep
<1>15. CASE ExecuteStep \/ OutputStep
  BY <1>5, <1>6, <1>11, <1>12, <1>15, Zenon DEF ExecuteStep, OutputStep
<1>16. CASE ClientStep
  BY <1>7, <1>8, <1>13, <1>16, Zenon DEF ClientStep
<1> QED BY <1>4, <1>12, <1>13, <1>14, <1>15, <1>16, Zenon DEF Next, EngineStep

\* What the end of schedule() does to the counts of a running request.
LEMMA FinishCounts ==
  ASSUME IInv, SInv, FinishSchedule, NEW r \in Requests
  PROVE  /\ num_tokens'[r] = num_tokens[r] /\ status'[r] = status[r]
         /\ num_scheduled_tokens[r] >= 0 /\ Lacks(r) >= num_scheduled_tokens[r]
         /\ r \in Sampled <=> num_scheduled_tokens[r] > 0 /\ Lacks(r) = num_scheduled_tokens[r]
         /\ num_output_placeholders'[r] = num_output_placeholders[r] + One(Async /\ r \in Sampled)
         /\ Lacks(r)' = Lacks(r) - num_scheduled_tokens[r] + One(Async /\ r \in Sampled)
         /\ Rest(r)' = Rest(r) - num_scheduled_tokens[r] + One(r \in Sampled)
         /\ Rest(r) = Lacks(r)
<1>1. /\ pc = "finish" /\ batch_queue' = Append(batch_queue, Sampled)
      /\ num_computed_tokens' =
           [q \in Requests |-> num_computed_tokens[q] + num_scheduled_tokens[q]]
      /\ num_output_placeholders' =
           [q \in Requests |-> IF Async /\ q \in Sampled THEN num_output_placeholders[q] + 1
                                                         ELSE num_output_placeholders[q]]
      /\ UNCHANGED <<num_tokens, status, to_update>>
  BY Zenon DEF FinishSchedule, finish_schedule
<1>2. Due(r) = 0 /\ Rest(r) = Lacks(r)
  BY <1>1, NothingDue, Zenon DEF InSchedule
<1>3. /\ num_scheduled_tokens[r] >= 0
      /\ num_computed_tokens[r] + num_scheduled_tokens[r]
           <= num_tokens[r] + num_output_placeholders[r]
  <2>1. TokensOf(r) /\ InSchedule
    BY <1>1, Zenon DEF SInv, TokenInv, InSchedule
  <2> QED BY <2>1, CountTypes, SMTT(30) DEF TokensOf
<1>4. /\ num_computed_tokens'[r] = num_computed_tokens[r] + num_scheduled_tokens[r]
      /\ num_output_placeholders'[r] = num_output_placeholders[r] + One(Async /\ r \in Sampled)
  BY <1>1, CountTypes, SMTT(30) DEF One
<1>5. r \in Sampled <=> num_scheduled_tokens[r] > 0 /\ Lacks(r) = num_scheduled_tokens[r]
  BY <1>3, CountTypes, SMTT(30) DEF Sampled, Scheduled, Lacks
<1>6. /\ Lacks(r)' = Lacks(r) - num_scheduled_tokens[r] + One(Async /\ r \in Sampled)
      /\ Lacks(r) >= num_scheduled_tokens[r]
  <2>1. One(Async /\ r \in Sampled) \in {0, 1}
    BY Zenon DEF One
  <2>2. num_tokens'[r] = num_tokens[r]
    BY <1>1, Zenon
  <2> QED BY <1>3, <1>4, <2>1, <2>2, CountTypes, SMTT(30) DEF Lacks
<1>7. Due(r)' = One(~Async /\ r \in Sampled)
  <2>1. CASE Async
    BY <2>1, Zenon DEF Due, One
  <2>2. CASE ~Async
    <3>1. to_update = {} /\ Len(batch_queue) < BatchQueueSize /\ BatchQueueSize = 1
      BY <1>1, <2>2, Zenon DEF SInv, BatchInv, InExecute, BatchQueueSize
    <3>2. batch_queue \in Seq(SUBSET Requests) /\ Len(batch_queue) \in Nat
      BY LenProperties, Zenon DEF IInv, TypeOK, EngineTypeOK
    <3>3. Len(batch_queue) = 0
      BY <3>1, <3>2
    <3>4. Sampled \in SUBSET Requests
      BY Zenon DEF Sampled, Scheduled
    <3>5. Len(batch_queue') = 1 /\ batch_queue'[1] = Sampled
      BY <1>1, <3>2, <3>3, <3>4, AppendProperties, SMTT(30)
    <3>6. to_update' = {}
      BY <1>1, <3>1, Zenon
    <3>7. InFlight(r)' = One(r \in Sampled)
      BY <3>5, <3>6, SMTT(30) DEF InFlight, One
    <3> QED BY <2>2, <3>7, Zenon DEF Due, One
  <2> QED BY <2>1, <2>2, Zenon
<1>8. Rest(r)' = Rest(r) - num_scheduled_tokens[r] + One(r \in Sampled)
  <2> DEFINE x == One(Async /\ r \in Sampled)
             y == One(~Async /\ r \in Sampled)
             z == One(r \in Sampled)
  <2>1. Rest(r)' = Lacks(r)' + Due(r)'
    BY Zenon DEF Rest
  <2>2. x + y = z /\ x \in Int /\ y \in Int /\ z \in Int
    BY DEF One
  <2>3. Lacks(r)' = Lacks(r) - num_scheduled_tokens[r] + x /\ Due(r)' = y
    BY <1>6, <1>7, Zenon
  <2> HIDE DEF x, y, z
  <2>4. Rest(r)' = Rest(r) - num_scheduled_tokens[r] + z
    BY <1>2, <2>1, <2>2, <2>3, CountTypes, SMTT(30)
  <2> QED BY <2>4, Zenon DEF z
<1>9. num_tokens'[r] = num_tokens[r] /\ status'[r] = status[r]
  BY <1>1, Zenon
<1> QED BY <1>2, <1>3, <1>4, <1>5, <1>6, <1>8, <1>9, Zenon

\* Outside the end of schedule() a running request lacks what it lacked.
LEMMA RestKeeps ==
  ASSUME IInv, QInv, SInv, [Next]_vars, ~FinishSchedule,
         NEW r \in Requests, status[r] = "RUNNING", status'[r] = "RUNNING"
  PROVE  Rest(r)' = Rest(r)
<1> DEFINE a == num_tokens[r]
           b == num_output_placeholders[r]
           c == num_computed_tokens[r]
           d == Due(r)
<1>1. a \in Int /\ b \in Int /\ c \in Int /\ d \in Int
  BY CountTypes, SMTT(30)
<1>2. Rest(r) = a + b - c + d /\ Rest(r)' = a' + b' - c' + d'
  BY Zenon DEF Rest, Lacks
<1>3. /\ c' = c
      /\ \/ a' = a /\ b' = b /\ d' = d
         \/ a' = a + 1 /\ b' = b - 1 /\ d' = 0 /\ d = 0
         \/ a' = a + 1 /\ b' = b /\ d' = d - 1
  BY CountSteps, Zenon
<1> HIDE DEF a, b, c, d
<1> QED BY <1>1, <1>2, <1>3, SMTT(30)

\* A request that is ending is ending until it ends.
LEMMA EndingKeeps ==
  ASSUME IInv, QInv, SInv, [Next]_vars,
         NEW r \in Requests, status[r] = "RUNNING", status'[r] = "RUNNING", Ending(r)
  PROVE  Ending(r)'
<1>1. /\ num_output_placeholders[r] > 0 /\ Lacks(r) = 1
      /\ num_tokens[r] + 1 >= PromptLen[r] + MaxTokens[r]
  BY Zenon DEF Ending
<1>2. Async
  <2>1. ~Async => num_output_placeholders[r] = 0
    BY Zenon DEF SInv, FlightInv, FlightOf
  <2>2. num_output_placeholders[r] # 0
    BY <1>1
  <2> QED BY <2>1, <2>2, Zenon
<1>3. CASE FinishSchedule
  <2>1. num_tokens'[r] = num_tokens[r]
    BY <1>3, FinishCounts, Zenon
  <2>2. /\ num_output_placeholders'[r] = num_output_placeholders[r] + One(r \in Sampled)
        /\ Lacks(r)' = 1 - num_scheduled_tokens[r] + One(r \in Sampled)
        /\ num_scheduled_tokens[r] >= 0 /\ 1 >= num_scheduled_tokens[r]
        /\ r \in Sampled <=> num_scheduled_tokens[r] > 0 /\ 1 = num_scheduled_tokens[r]
    BY <1>1, <1>2, <1>3, FinishCounts, SMTT(30)
  <2>3. num_output_placeholders'[r] > 0 /\ Lacks(r)' = 1
    BY <1>1, <2>2, CountTypes, SMTT(30) DEF One
  <2> QED BY <1>1, <2>1, <2>3, Zenon DEF Ending
<1>4. CASE ~FinishSchedule
  <2>1. /\ num_computed_tokens'[r] = num_computed_tokens[r] /\ num_tokens'[r] = num_tokens[r]
        /\ num_output_placeholders'[r] = num_output_placeholders[r]
    BY <1>1, <1>4, CountSteps, Zenon
  <2> QED BY <1>1, <2>1, Zenon DEF Ending, Lacks
<1> QED BY <1>3, <1>4, Zenon

\* A request starts to run only when it is admitted.
LEMMA Admitted ==
  ASSUME IInv, [Next]_vars, NEW r \in Requests, status[r] # "RUNNING", status'[r] = "RUNNING"
  PROVE  waiting_admit /\ Quiet
<1>0. status \in [Requests -> Statuses]
  BY Zenon DEF IInv, TypeOK, ReqTypeOK
<1>1. ASSUME NEW q \in Requests, NEW x \in {"WAITING", "PREEMPTED", "FINISHED"},
             status' = [status EXCEPT ![q] = x]
      PROVE  FALSE
  <2>1. x # "RUNNING"
    BY <1>1
  <2> QED BY <1>0, <1>1, <2>1, Zenon
<1>2. status' # status
  BY Zenon
<1>3. CASE ClientStep \/ WaitForInput
  BY <1>1, <1>2, <1>3, Zenon DEF ClientStep, AddRequest, add_request, Abort, finish_requests,
     free_request, PauseScheduler, ResumeScheduler, set_pause_state, ResetPrefixCache,
     WaitForInput, vars, schedVars, reqVars
<1>4. CASE ScheduleStep
  <2>1. CASE running_preempt
    BY <1>1, <2>1, Zenon DEF running_preempt, preempt_request
  <2>2. CASE \/ start_schedule \/ running_skip \/ running_pick \/ running_allocate
             \/ running_done \/ waiting_done \/ FinishSchedule
    BY <1>2, <2>2, Zenon DEF start_schedule, running_skip, running_pick, running_allocate,
       running_done, waiting_done, FinishSchedule, finish_schedule, reqVars
  <2> QED BY <1>4, <2>1, <2>2, Zenon DEF ScheduleStep
<1>5. CASE ExecuteStep
  BY <1>2, <1>5, Zenon DEF ExecuteStep, update_states, skive_check, evict_request_blocks,
     EndExecute, reqVars
<1>6. CASE OutputStep
  <2>1. ASSUME NEW q \in Requests, UpdateFromOutput(q)
        PROVE  FALSE
    BY <1>1, <1>2, <2>1, Zenon DEF UpdateFromOutput, update_from_output, free_request, reqVars
  <2>2. CASE AwaitOutput \/ TakeOutput \/ PopPending \/ EndStep
             \/ (\E item \in popped : skive_reclaim(item[1], item[2]))
    BY <1>2, <2>2, Zenon DEF AwaitOutput, TakeOutput, PopPending, EndStep, skive_reclaim,
       schedVars, reqVars
  <2> QED BY <1>6, <2>1, <2>2, Zenon DEF OutputStep
<1>7. CASE ResetPreempt \/ ResetDone
  BY <1>1, <1>2, <1>7, Zenon DEF ResetPreempt, reset_preempt, preempt_request, ResetDone,
     reset_done, reqVars
<1>8. CASE UNCHANGED vars
  BY <1>2, <1>8, Zenon DEF vars, schedVars, reqVars
<1> QED BY <1>3, <1>4, <1>5, <1>6, <1>7, <1>8, Zenon DEF Next, EngineStep

\* A live request is not complete: the token that completes it ends it.
LEMMA LiveTokens ==
  ASSUME IInv, QInv, [Next]_vars, NEW r \in Requests, status'[r] \in Live,
         status[r] \in Live => num_tokens[r] < PromptLen[r] + MaxTokens[r]
  PROVE  num_tokens'[r] < PromptLen[r] + MaxTokens[r]
<1>0. ReqTypeOK
  BY Zenon DEF IInv, TypeOK
<1>1. ASSUME num_tokens'[r] = num_tokens[r], status[r] \in Live
      PROVE  num_tokens'[r] < PromptLen[r] + MaxTokens[r]
  BY <1>1, Zenon
<1>2. ASSUME NEW q \in Requests, AddRequest(q)
      PROVE  num_tokens'[r] < PromptLen[r] + MaxTokens[r]
  <2>1. /\ num_tokens' = [num_tokens EXCEPT ![q] = PromptLen[q]]
        /\ status' = [status EXCEPT ![q] = "WAITING"]
    BY <1>2, ZenonT(30) DEF AddRequest, add_request
  <2>2. CASE r = q
    <3>1. num_tokens'[r] = PromptLen[r]
      BY <1>0, <2>1, <2>2, Zenon DEF ReqTypeOK
    <3> QED BY <3>1, CountTypes
  <2>3. CASE r # q
    BY <1>0, <1>1, <2>1, <2>3, Zenon DEF ReqTypeOK
  <2> QED BY <2>2, <2>3, Zenon
<1>3. ASSUME NEW q \in Requests, free_request(q)
      PROVE  num_tokens'[r] < PromptLen[r] + MaxTokens[r]
  <2>1. "FINISHED" \notin Live
    BY DEF Live
  <2>2. r # q
    BY <1>0, <1>3, <2>1, Zenon DEF free_request, ReqTypeOK
  <2> QED BY <1>0, <1>1, <1>3, <2>2, Zenon DEF free_request, ReqTypeOK
<1>4. ASSUME NEW q \in Requests, UpdateFromOutput(q)
      PROVE  num_tokens'[r] < PromptLen[r] + MaxTokens[r]
  <2>1. CASE num_tokens' = num_tokens /\ status' = status
    BY <1>1, <2>1, Zenon
  <2>2. CASE /\ ~(num_tokens[q] + 1 >= PromptLen[q] + MaxTokens[q])
             /\ num_tokens' = [num_tokens EXCEPT ![q] = num_tokens[q] + 1]
             /\ status' = status
    <3>1. CASE r = q
      <4>1. num_tokens'[r] = num_tokens[r] + 1
        BY <1>0, <2>2, <3>1, Zenon DEF ReqTypeOK
      <4> QED BY <2>2, <3>1, <4>1, CountTypes, SMTT(30)
    <3>2. CASE r # q
      BY <1>0, <1>1, <2>2, <3>2, Zenon DEF ReqTypeOK
    <3> QED BY <3>1, <3>2, Zenon
  <2> QED BY <1>3, <1>4, <2>1, <2>2, Zenon DEF UpdateFromOutput, update_from_output, reqVars
<1>5. ASSUME NEW q \in Requests, status[q] \in Live, UNCHANGED num_tokens,
             NEW x, status' = [status EXCEPT ![q] = x]
      PROVE  num_tokens'[r] < PromptLen[r] + MaxTokens[r]
  BY <1>0, <1>1, <1>5, Zenon DEF ReqTypeOK
<1>6. CASE running_preempt
  <2>1. PICK v \in Requests : IsVictim(v) /\ status' = [status EXCEPT ![v] = "PREEMPTED"]
    BY <1>6, Zenon DEF running_preempt, preempt_request
  <2>2. status[v] \in Live
    BY <2>1, Zenon DEF IsVictim, QInv, QueuesMatchStatus, Live
  <2> QED BY <1>5, <1>6, <2>1, <2>2, Zenon DEF running_preempt
<1>7. CASE waiting_admit
  <2>1. PICK q \in Requests, nb \in Seq(Blocks) :
          /\ status[q] \in {"WAITING", "PREEMPTED"}
          /\ status' = [status EXCEPT ![q] = "RUNNING"]
    BY <1>7, WaitingAdmitFacts, Zenon
  <2> QED BY <1>5, <1>7, <2>1, Zenon DEF waiting_admit, Live
<1>8. CASE ResetPreempt
  <2>1. PICK v \in Requests : /\ v = running[Len(running)] /\ running # <<>>
                              /\ status' = [status EXCEPT ![v] = "PREEMPTED"]
    BY <1>8, Zenon DEF ResetPreempt, reset_preempt, preempt_request
  <2>2. running \in Seq(Requests) /\ NoDuplicates(running)
    BY Zenon DEF IInv, TypeOK, QueueTypeOK, QInv, QueuesMatchStatus
  <2>3. v \in Elems(running)
    BY <2>1, <2>2, PopFacts, Zenon
  <2>4. status[v] \in Live
    BY <2>3, Zenon DEF QInv, QueuesMatchStatus, Live
  <2> QED BY <1>5, <1>8, <2>1, <2>4, Zenon DEF ResetPreempt, reset_preempt
<1>9. CASE UNCHANGED <<num_tokens, status>>
  BY <1>1, <1>9, Zenon
<1>10. CASE ScheduleStep
  BY <1>6, <1>7, <1>9, <1>10, Zenon
     DEF ScheduleStep, start_schedule, running_skip, running_pick, running_allocate, running_done,
       waiting_done, FinishSchedule, finish_schedule, reqVars
<1>11. CASE ExecuteStep \/ WaitForInput \/ UNCHANGED vars
  BY <1>9, <1>11, Zenon DEF ExecuteStep, update_states, skive_check, evict_request_blocks,
     EndExecute, WaitForInput, vars, schedVars, reqVars
<1>12. CASE OutputStep \/ ResetDone
  BY <1>4, <1>9, <1>12, Zenon DEF OutputStep, AwaitOutput, TakeOutput, PopPending, EndStep,
     skive_reclaim, ResetDone, reset_done, schedVars, reqVars
<1>13. CASE ClientStep
  BY <1>2, <1>3, <1>9, <1>13, Zenon DEF ClientStep, Abort, finish_requests, PauseScheduler,
     ResumeScheduler, set_pause_state, ResetPrefixCache, reqVars
<1> QED BY <1>8, <1>10, <1>11, <1>12, <1>13, Zenon DEF Next, EngineStep

\* What a request lacks, in every step.
LEMMA GapKeeps ==
  ASSUME IInv, QInv, SInv, GapInv, [Next]_vars
  PROVE  GapInv'
<1> SUFFICES ASSUME NEW r \in Requests
             PROVE  GapOf(r)'
  BY Zenon DEF GapInv
<1>1. GapOf(r)
  BY Zenon DEF GapInv
<1>2. status'[r] \in Live => num_tokens'[r] < PromptLen[r] + MaxTokens[r]
  BY <1>1, LiveTokens, Zenon DEF GapOf
<1>3. ASSUME status[r] = "RUNNING", status'[r] = "RUNNING"
      PROVE  Rest(r)' >= 1
  <2>1. Rest(r) >= 1
    BY <1>1, <1>3, Zenon DEF GapOf
  <2>2. CASE FinishSchedule
    <3>1. /\ num_scheduled_tokens[r] >= 0 /\ Rest(r) >= num_scheduled_tokens[r]
          /\ r \in Sampled <=> num_scheduled_tokens[r] > 0 /\ Rest(r) = num_scheduled_tokens[r]
          /\ Rest(r)' = Rest(r) - num_scheduled_tokens[r] + One(r \in Sampled)
      BY <2>2, FinishCounts, SMTT(30)
    <3> QED BY <2>1, <3>1, CountTypes, SMTT(30) DEF One
  <2>3. CASE ~FinishSchedule
    BY <1>3, <2>1, <2>3, RestKeeps, Zenon
  <2> QED BY <2>2, <2>3, Zenon
<1>4. ASSUME status[r] # "RUNNING", status'[r] = "RUNNING"
      PROVE  Rest(r)' >= 1
  <2>1. waiting_admit /\ Quiet
    BY <1>4, Admitted, Zenon
  <2>2. PICK q \in Requests, nb \in Seq(Blocks) :
          /\ status[q] \in {"WAITING", "PREEMPTED"}
          /\ status' = [status EXCEPT ![q] = "RUNNING"]
          /\ num_computed_tokens' = [num_computed_tokens EXCEPT ![q] = 0]
    BY <2>1, WaitingAdmitFacts, Zenon
  <2>3. UNCHANGED <<num_tokens, num_output_placeholders, batch_queue, to_update>>
    BY <2>1, Zenon DEF waiting_admit, Quiet, engineVars
  <2>4. r = q /\ num_computed_tokens'[r] = 0
    BY <1>4, <2>2, Zenon DEF IInv, TypeOK, ReqTypeOK
  <2>5. num_tokens[r] > 0 /\ num_output_placeholders[r] >= 0
    BY <2>2, <2>4, Zenon DEF SInv, TokenInv, TokensOf, FlightInv, FlightOf, Live
  <2>6. Due(r)' = Due(r)
    BY <2>3, Zenon DEF Due, InFlight, One
  <2>7. Rest(r)' = num_tokens[r] + num_output_placeholders[r] - 0 + Due(r)
    BY <2>3, <2>4, <2>6, Zenon DEF Rest, Lacks
  <2>8. /\ num_tokens[r] \in Int /\ num_output_placeholders[r] \in Int /\ Due(r) \in Nat
    BY CountTypes, Zenon
  <2>9. Rest(r)' >= 1
    BY <2>5, <2>7, <2>8, SMTT(30)
  <2> QED BY <2>9, Zenon
<1> QED BY <1>2, <1>3, <1>4, Zenon DEF GapOf
=============================================================================
