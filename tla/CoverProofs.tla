---------------------------- MODULE CoverProofs -----------------------------
(***************************************************************************)
(* No running request comes back to the worker's batch, under the default  *)
(* scheduling: every running request is in every batch until the token in  *)
(* flight ends it.  ChunkInv and CoverInv are kept by every step.          *)
(***************************************************************************)
EXTENDS ScheduleProofs

-----------------------------------------------------------------------------
(* Which requests can be in the middle of their prompt *)

\* Taking an element off a queue leaves nothing but its last in the last place.
LEMMA WithoutFront ==
  ASSUME NEW S, NEW s \in Seq(S), NoDuplicates(s), NEW x,
         NEW i \in DOMAIN Without(s, x), i < Len(Without(s, x))
  PROVE  \E k \in DOMAIN s : k < Len(s) /\ Without(s, x)[i] = s[k]
<1>1. CASE x \notin Elems(s)
  <2>1. Without(s, x) = s
    BY <1>1, Zenon DEF Without, Elems
  <2> QED BY <2>1, Zenon
<1>2. CASE x \in Elems(s)
  <2>1. PICK m \in DOMAIN s : s[m] = x
    BY <1>2, Zenon DEF Elems
  <2> DEFINE t == Without(s, x)
  <2>2. /\ Len(t) = Len(s) - 1 /\ DOMAIN t = 1..(Len(s) - 1)
        /\ \A j \in 1..(m - 1) : t[j] = s[j]
        /\ \A j \in m..(Len(s) - 1) : t[j] = s[j + 1]
    BY <2>1, WithoutIndex, Zenon
  <2>3. Len(s) \in Nat /\ DOMAIN s = 1..Len(s)
    BY LenProperties, Zenon
  <2> HIDE DEF t
  <2>4. i \in DOMAIN t /\ i < Len(t)
    BY Zenon DEF t
  <2>5. CASE i < m
    <3>1. i \in DOMAIN s /\ i < Len(s) /\ i \in 1..(m - 1)
      BY <2>1, <2>2, <2>3, <2>4, <2>5, SMTT(30)
    <3> QED BY <2>2, <3>1, Zenon DEF t
  <2>6. CASE ~(i < m)
    <3>1. i + 1 \in DOMAIN s /\ i + 1 < Len(s) /\ i \in m..(Len(s) - 1)
      BY <2>1, <2>2, <2>3, <2>4, <2>6, SMTT(30)
    <3> QED BY <2>2, <3>1, Zenon DEF t
  <2> QED BY <2>5, <2>6, Zenon
<1> QED BY <1>1, <1>2, Zenon

\* What is planned for a request changes when it is given tokens, and at the end of
\* schedule().
LEMMA LeftKeeps ==
  ASSUME Policy = "fcfs", IInv, QInv, SInv, [Next]_vars, ~FinishSchedule,
         NEW r \in Requests, status[r] = "RUNNING", status'[r] = "RUNNING",
         ~(running_allocate /\ r = cur)
  PROVE  Left(r)' = Left(r)
<1>0. num_scheduled_tokens \in [Requests -> Int]
  BY Zenon DEF IInv, TypeOK, OutTypeOK
<1> SUFFICES Planned(r)' = Planned(r)
  BY RestKeeps, Zenon DEF Left
<1>1. ASSUME ~InSchedule, ~InSchedule'
      PROVE  Planned(r)' = Planned(r)
  BY <1>1, Zenon DEF Planned
<1>2. ASSUME InSchedule, InSchedule', num_scheduled_tokens'[r] = num_scheduled_tokens[r]
      PROVE  Planned(r)' = Planned(r)
  BY <1>2, Zenon DEF Planned
<1>3. CASE start_schedule
  <2>1. pc = "idle" /\ pc' = "running" /\ UNCHANGED num_scheduled_tokens
    BY <1>3, Zenon DEF start_schedule, outVars
  <2>2. num_scheduled_tokens[r] >= 0 /\ ~(num_scheduled_tokens[r] > 0)
    <3>1. Lists = {}
      BY <2>1, Zenon DEF SInv, ListInv, InSchedule, InExecute
    <3>2. TokensOf(r)
      BY Zenon DEF SInv, TokenInv
    <3>3. r \notin Lists
      BY <3>1, Zenon
    <3> QED BY <1>0, <3>2, <3>3 DEF TokensOf
  <2>3. num_scheduled_tokens'[r] = 0
    BY <1>0, <2>1, <2>2, SMTT(30)
  <2> QED BY <2>1, <2>3, Zenon DEF Planned, InSchedule
<1>4. CASE running_skip \/ running_pick \/ running_done \/ waiting_done
  BY <1>2, <1>4, Zenon DEF running_skip, running_pick, running_done, waiting_done,
     InRunningLoop, outVars, InSchedule
<1>5. CASE running_allocate
  <2>1. /\ num_scheduled_tokens' = [num_scheduled_tokens EXCEPT ![cur] = num_new_tokens]
        /\ pc = "alloc" /\ pc' = "running" /\ r # cur
    BY <1>5, Zenon DEF running_allocate
  <2> QED BY <1>0, <1>2, <2>1, Zenon DEF InSchedule
<1>6. CASE running_preempt
  <2>1. PICK v \in Requests :
          /\ IF Unschedule(v) THEN scheduled_running_reqs' = scheduled_running_reqs \ {v}
                              ELSE UNCHANGED num_scheduled_tokens
          /\ IF v = cur THEN pc' = "finish" ELSE UNCHANGED pc
    BY <1>6, Zenon DEF running_preempt
  <2>2. ~Unschedule(v)
    BY Zenon DEF Unschedule
  <2>3. pc = "alloc"
    BY <1>6, Zenon DEF running_preempt
  <2> QED BY <1>2, <2>1, <2>2, <2>3, Zenon DEF InSchedule
<1>7. CASE waiting_admit
  <2>1. PICK q \in Requests, nb \in Seq(Blocks) :
          /\ status[q] \in {"WAITING", "PREEMPTED"}
          /\ num_scheduled_tokens' = [num_scheduled_tokens EXCEPT ![q] = WaitingTokens(q)]
    BY <1>7, WaitingAdmitFacts, Zenon
  <2>2. "PREEMPTED" # "RUNNING" /\ "WAITING" # "RUNNING"
    OBVIOUS
  <2>3. r # q /\ pc = "waiting" /\ pc' = "waiting"
    BY <1>7, <2>1, <2>2, Zenon DEF waiting_admit, InWaitingLoop
  <2> QED BY <1>0, <1>2, <2>1, <2>3, Zenon DEF InSchedule
<1>8. CASE ExecuteStep \/ WaitForInput
  BY <1>1, <1>8, Zenon DEF ExecuteStep, update_states, skive_check, evict_request_blocks,
     EndExecute, WaitForInput, vars, schedVars, InSchedule
<1>9. CASE OutputStep \/ ResetDone \/ ResetPreempt
  BY <1>1, <1>9, Zenon DEF OutputStep, AwaitOutput, TakeOutput, UpdateFromOutput, PopPending,
     EndStep, skive_reclaim, ResetDone, ResetPreempt, schedVars, InSchedule
<1>10. CASE ClientStep
  BY <1>1, <1>10, Zenon DEF ClientStep, AddRequest, add_request, Abort, finish_requests,
     PauseScheduler, ResumeScheduler, set_pause_state, ResetPrefixCache, InSchedule
<1>11. CASE UNCHANGED vars
  BY <1>11, Zenon DEF vars, schedVars, outVars, Planned, InSchedule
<1> QED BY <1>3, <1>4, <1>5, <1>6, <1>7, <1>8, <1>9, <1>10, <1>11, Zenon
        DEF Next, EngineStep, ScheduleStep

\* The running requests, and their places.
LEMMA RunningFacts ==
  ASSUME IInv, QInv
  PROVE  /\ running \in Seq(Requests) /\ NoDuplicates(running)
         /\ Len(running) \in Nat /\ DOMAIN running = 1..Len(running)
         /\ \A i \in DOMAIN running : running[i] \in Requests /\ status[running[i]] = "RUNNING"
         /\ \A r \in Requests : status[r] = "RUNNING" => \E i \in DOMAIN running : running[i] = r
         /\ token_budget \in Int /\ req_index \in Int /\ num_new_tokens \in Int
<1>1. running \in Seq(Requests) /\ NoDuplicates(running) /\ QueuesMatchStatus
  BY Zenon DEF IInv, TypeOK, QueueTypeOK, QInv, QueuesMatchStatus
<1>2. Len(running) \in Nat /\ DOMAIN running = 1..Len(running)
  BY <1>1, LenProperties, Zenon
<1>3. \A i \in DOMAIN running : running[i] \in Requests /\ status[running[i]] = "RUNNING"
  BY <1>1, Zenon DEF QueuesMatchStatus, Elems
<1>4. ASSUME NEW r \in Requests, status[r] = "RUNNING"
      PROVE  \E i \in DOMAIN running : running[i] = r
  <2>1. r \in Elems(running)
    BY <1>1, <1>4, Zenon DEF QueuesMatchStatus
  <2> QED BY <2>1, Zenon DEF Elems
<1>5. token_budget \in Int /\ req_index \in Int /\ num_new_tokens \in Int
  BY Zenon DEF IInv, TypeOK, LoopTypeOK
<1> QED BY <1>1, <1>2, <1>3, <1>4, <1>5, Zenon

\* With no long-prefill threshold a request is given all it lacks, or the budget.
LEMMA GivenTokens ==
  ASSUME LongPrefill = 0, IInv, SInv, NEW r \in Requests
  PROVE  /\ NumNewTokens(r) = IF Lacks(r) <= token_budget THEN Lacks(r) ELSE token_budget
         /\ WaitingTokens(r) = IF num_tokens[r] <= token_budget THEN num_tokens[r]
                                                                ELSE token_budget
<1>1. \A n : Chunk(n) = n
  <2>1. ~(0 < LongPrefill)
    OBVIOUS
  <2> QED BY <2>1, Zenon DEF Chunk
<1>2. NumNewTokens(r) = Minimum(Lacks(r), token_budget)
  BY <1>1, Zenon DEF NumNewTokens, Lacks
<1>3. WaitingTokens(r) = Minimum(num_tokens[r], token_budget)
  BY <1>1, Zenon DEF WaitingTokens
<1> QED BY <1>2, <1>3, Zenon DEF Minimum

\* The running request at req_index is given its token, or what the budget holds.
LEMMA AllocateKeepsChunks ==
  ASSUME DefaultScheduling, IInv, QInv, SInv, GapInv, ChunkInv, QInv', [Next]_vars,
         running_allocate
  PROVE  ChunkInv'
<1>0. Policy = "fcfs" /\ LongPrefill = 0 /\ TokenBudget \in Nat /\ cur \in Requests
  BY SchedulerAssumption, RunningAllocateFacts DEF DefaultScheduling
<1> PICK c \in Requests : c = cur
  BY <1>0, Zenon
<1>1. /\ pc = "alloc" /\ pc' = "running" /\ UNCHANGED <<status, running>>
      /\ num_scheduled_tokens' = [num_scheduled_tokens EXCEPT ![c] = num_new_tokens]
      /\ token_budget' = token_budget - num_new_tokens /\ req_index' = req_index + 1
      /\ ~FinishSchedule
  BY Zenon DEF running_allocate, reqVars, queueVars, FinishSchedule, finish_schedule
<1>2. /\ running[req_index] = c /\ req_index \in DOMAIN running /\ 0 < num_new_tokens
      /\ c \notin scheduled_running_reqs
  BY <1>0, <1>1, Zenon DEF SInv, IndexInv
<1>3. num_new_tokens = IF Lacks(c) <= token_budget THEN Lacks(c) ELSE token_budget
  BY <1>0, <1>1, GivenTokens, Zenon DEF ChunkInv
<1>4. Rest(c) = Lacks(c) /\ Planned(c) = 0
  <2>1. InSchedule
    BY <1>1, Zenon DEF InSchedule
  <2>2. c \notin Lists
    BY <1>1, <1>2, Zenon DEF SInv, ListInv, Lists
  <2>3. num_scheduled_tokens[c] = 0
    <3>1. TokensOf(c)
      BY <1>0, Zenon DEF SInv, TokenInv
    <3> QED BY <1>0, <2>2, <3>1, CountTypes, SMTT(30) DEF TokensOf
  <2> QED BY <1>0, <2>1, <2>3, NothingDue, Zenon DEF Planned
<1>5. Left(c)' = Rest(c) - num_new_tokens
  <2>1. Planned(c)' = num_new_tokens
    BY <1>0, <1>1, Zenon DEF Planned, InSchedule, IInv, TypeOK, OutTypeOK
  <2>2. status[c] = "RUNNING" /\ status'[c] = "RUNNING"
    BY <1>1, <1>2, RunningFacts, Zenon
  <2>3. Rest(c)' = Rest(c)
    BY <1>1, <2>2, RestKeeps, Zenon
  <2> QED BY <2>1, <2>3, Zenon DEF Left
<1>6. /\ \A i \in DOMAIN running : Tight(i) => Left(running[i]) <= 1
      /\ req_index <= Len(running) => token_budget >= TokenBudget - req_index + 1
  BY <1>1, Zenon DEF ChunkInv, TightInv
<1>7. Left(c) = Rest(c)
  BY <1>4, CountTypes DEF Left
<1>8. req_index < Len(running) => Rest(c) <= 1
  BY <1>2, <1>6, <1>7, Zenon DEF Tight
<1> DEFINE n == num_new_tokens
           k == Rest(c)
           b == token_budget
           m == Len(running)
           x == req_index
<1>9. /\ n \in Int /\ k \in Int /\ b \in Int /\ m \in Nat /\ x \in Int /\ 0 < n
      /\ n = IF k <= b THEN k ELSE b
      /\ x < m => k <= 1
      /\ x <= m => b >= TokenBudget - x + 1
  BY <1>2, <1>3, <1>4, <1>6, <1>8, CountTypes, RunningFacts, Zenon
<1>10. TightInv'
  <2> SUFFICES ASSUME NEW i \in DOMAIN running, Tight(i)', NEW q \in Requests, q = running[i]
               PROVE  Left(q)' <= 1
    BY <1>1, RunningFacts, Zenon DEF TightInv
  <2>1. i < m \/ (i < x + 1 /\ b - n > 0)
    BY <1>1, Zenon DEF Tight
  <2>2. CASE i = req_index
    <3>1. k - n <= 1
      <4> HIDE DEF n, k, b, m
      <4> QED BY <1>0, <1>9, <2>1, <2>2, SMTT(30)
    <3> QED BY <1>2, <1>5, <2>2, <3>1, Zenon
  <2>3. CASE i # req_index
    <3>1. Tight(i)
      <4>1. i < Len(running) \/ (i < req_index /\ token_budget > 0)
        BY <1>9, <2>1, <2>3, RunningFacts, SMTT(30)
      <4> QED BY <1>1, <4>1, Zenon DEF Tight
    <3>2. q # c
      BY <1>2, <2>3, RunningFacts, Zenon DEF NoDuplicates
    <3>3. status[q] = "RUNNING" /\ status'[q] = "RUNNING"
      BY <1>1, RunningFacts, Zenon
    <3>4. Left(q)' = Left(q)
      BY <1>0, <1>1, <3>2, <3>3, LeftKeeps, Zenon
    <3> QED BY <1>6, <3>1, <3>4, Zenon
  <2> QED BY <2>2, <2>3, Zenon
<1>11. req_index' <= Len(running') => token_budget' >= TokenBudget - req_index' + 1
  <2>1. x + 1 <= m => b - n >= TokenBudget - (x + 1) + 1
    <3> HIDE DEF n, k, b, m, x
    <3> QED BY <1>0, <1>9, SMTT(30)
  <2> QED BY <1>1, <2>1, Zenon
<1> QED BY <1>1, <1>10, <1>11, Zenon DEF ChunkInv

\* A preemption takes the last running request off.
LEMMA PreemptTakesLast ==
  ASSUME Policy = "fcfs", IInv, QInv, SInv, running_preempt
  PROVE  /\ pc = "alloc" /\ req_index \in DOMAIN running /\ running[req_index] = cur
         /\ pc' = "alloc" \/ (pc' = "finish" /\ req_index = Len(running))
         /\ UNCHANGED <<token_budget, req_index, num_scheduled_tokens, scheduled_new_reqs,
                        scheduled_resumed_reqs, scheduled_running_reqs, num_tokens,
                        num_output_placeholders, pause_state>>
         /\ pc' = "alloc" => UNCHANGED <<cur, num_new_tokens>> /\ cur # running[Len(running)]
         /\ num_computed_tokens' = [num_computed_tokens EXCEPT ![running[Len(running)]] = 0]
         /\ Len(running') = Len(running) - 1
         /\ DOMAIN running' = 1..(Len(running) - 1)
         /\ \A i \in DOMAIN running' :
              i \in DOMAIN running /\ i < Len(running) /\ running'[i] = running[i]
<1>1. PICK v \in Requests :
        /\ IsVictim(v) /\ preempt_request(v) /\ running' = Without(running, v)
        /\ IF Unschedule(v)
           THEN scheduled_running_reqs' = scheduled_running_reqs \ {v}
           ELSE UNCHANGED <<scheduled_running_reqs, token_budget, num_scheduled_tokens, req_index>>
        /\ IF v = cur THEN pc' = "finish" ELSE UNCHANGED <<pc, cur, num_new_tokens>>
  BY Zenon DEF running_preempt
<1>2. /\ pc = "alloc"
      /\ UNCHANGED <<num_tokens, num_output_placeholders, pause_state, scheduled_new_reqs,
                     scheduled_resumed_reqs>>
  BY Zenon DEF running_preempt
<1>3. ~Unschedule(v) /\ v = running[Len(running)]
  <2>1. Policy # "priority"
    OBVIOUS
  <2> QED BY <1>1, <2>1, Zenon DEF Unschedule, IsVictim
<1>4. req_index \in DOMAIN running /\ running[req_index] = cur
  <2>1. Policy # "priority"
    OBVIOUS
  <2> QED BY <1>2, <2>1, Zenon DEF SInv, IndexInv
<1>5. /\ running \in Seq(Requests) /\ NoDuplicates(running)
      /\ Len(running) \in Nat /\ DOMAIN running = 1..Len(running)
  BY RunningFacts, Zenon
<1>6. Len(running) \in DOMAIN running
  BY <1>4, <1>5, SMTT(30)
<1>7. /\ Len(running') = Len(running) - 1 /\ DOMAIN running' = 1..(Len(running) - 1)
      /\ \A i \in 1..(Len(running) - 1) : running'[i] = running[i]
  BY <1>1, <1>3, <1>5, <1>6, WithoutIndex, Zenon
<1>8. ASSUME NEW i \in DOMAIN running'
      PROVE  i \in DOMAIN running /\ i < Len(running) /\ running'[i] = running[i]
  <2>1. i \in DOMAIN running /\ i < Len(running)
    BY <1>5, <1>7, <1>8, SMTT(30)
  <2> QED BY <1>7, <1>8, <2>1, Zenon
<1>9. pc' = "alloc" \/ (pc' = "finish" /\ req_index = Len(running))
  BY <1>1, <1>2, <1>3, <1>4, <1>6, RunningFacts, Zenon DEF NoDuplicates
<1>10. pc' = "alloc" => UNCHANGED <<cur, num_new_tokens>> /\ cur # running[Len(running)]
  <2>1. "alloc" # "finish"
    OBVIOUS
  <2> QED BY <1>1, <1>3, <2>1, Zenon
<1> QED BY <1>1, <1>2, <1>3, <1>4, <1>7, <1>8, <1>9, <1>10, Zenon DEF preempt_request

\* An admitted request that leaves some of the budget has its whole prompt computed.
LEMMA AdmitKeepsTight ==
  ASSUME DefaultScheduling, IInv, QInv, SInv, TightInv, QInv', [Next]_vars,
         waiting_admit, Quiet
  PROVE  TightInv'
<1>0. Policy = "fcfs" /\ LongPrefill = 0
  BY Zenon DEF DefaultScheduling
<1>1. PICK q \in Requests :
        /\ IsNext(q) /\ running' = Append(running, q)
        /\ num_scheduled_tokens' = [num_scheduled_tokens EXCEPT ![q] = WaitingTokens(q)]
        /\ num_computed_tokens' = [num_computed_tokens EXCEPT ![q] = 0]
        /\ token_budget' = token_budget - WaitingTokens(q)
  BY Zenon DEF waiting_admit
<1>2. /\ pc = "waiting" /\ pc' = "waiting" /\ token_budget > 0
      /\ UNCHANGED <<num_tokens, num_output_placeholders, batch_queue, to_update>>
      /\ ~FinishSchedule /\ ~running_allocate
  BY Zenon DEF waiting_admit, InWaitingLoop, Quiet, engineVars, FinishSchedule, finish_schedule,
     running_allocate
<1>3. status[q] \in {"WAITING", "PREEMPTED"}
  BY <1>1, Zenon DEF IsNext, QInv, QueuesMatchStatus
<1>4. /\ Len(running') = Len(running) + 1 /\ DOMAIN running' = 1..(Len(running) + 1)
      /\ \A i \in 1..Len(running) : running'[i] = running[i]
      /\ running'[Len(running) + 1] = q
  BY <1>1, RunningFacts, AppendProperties, SMTT(30)
<1>5. ASSUME token_budget' > 0
      PROVE  Left(q)' <= 1
  <2>1. WaitingTokens(q) = num_tokens[q]
    <3>1. WaitingTokens(q) = IF num_tokens[q] <= token_budget THEN num_tokens[q]
                                                              ELSE token_budget
      BY <1>0, GivenTokens, Zenon
    <3> QED BY <1>1, <1>5, <3>1, CountTypes, RunningFacts, SMTT(30)
  <2>2. /\ num_scheduled_tokens'[q] = num_tokens[q] /\ num_computed_tokens'[q] = 0
        /\ num_tokens'[q] = num_tokens[q]
        /\ num_output_placeholders'[q] = num_output_placeholders[q]
    BY <1>1, <1>2, <2>1, Zenon DEF IInv, TypeOK, OutTypeOK, ReqTypeOK
  <2>3. Due(q)' = 0
    <3>1. Due(q)' = Due(q)
      BY <1>2, Zenon DEF Due, InFlight, One
    <3>2. Due(q) = 0
      BY <1>2, NothingDue, Zenon DEF InSchedule
    <3> QED BY <3>1, <3>2, Zenon
  <2>4. Left(q)' = num_output_placeholders[q]
    <3>1. InSchedule'
      BY <1>2, Zenon DEF InSchedule
    <3>2. Planned(q)' = num_tokens[q]
      BY <2>2, <3>1, Zenon DEF Planned
    <3>3. Rest(q)' = num_tokens[q] + num_output_placeholders[q] - 0 + 0
      BY <2>2, <2>3, Zenon DEF Rest, Lacks
    <3>4. Left(q)' = Rest(q)' - Planned(q)'
      BY Zenon DEF Left
    <3> QED BY <3>2, <3>3, <3>4, CountTypes, SMTT(30)
  <2>5. num_output_placeholders[q] <= 1
    <3>1. CASE ~Async
      <4>1. num_output_placeholders[q] = 0
        BY <3>1, Zenon DEF SInv, FlightInv, FlightOf
      <4> QED BY <4>1, SMTT(30)
    <3>2. CASE Async
      <4>1. /\ num_output_placeholders[q] + async_tokens_to_discard[q] = InFlight(q)
            /\ async_tokens_to_discard[q] >= 0
        <5>1. "FINISHED" # "WAITING" /\ "FINISHED" # "PREEMPTED"
          OBVIOUS
        <5> QED BY <1>3, <3>2, <5>1, Zenon DEF SInv, FlightInv, FlightOf
      <4>2. to_update = {} /\ Len(batch_queue) < BatchQueueSize /\ BatchQueueSize = 2
        BY <1>2, <3>2, Zenon DEF SInv, BatchInv, InExecute, BatchQueueSize
      <4>3. Len(batch_queue) \in Nat
        BY LenProperties, Zenon DEF IInv, TypeOK, EngineTypeOK
      <4>4. InFlight(q) <= 1
        BY <4>2, <4>3, SMTT(30) DEF InFlight, One
      <4>5. async_tokens_to_discard[q] \in Int
        BY Zenon DEF IInv, TypeOK, ReqTypeOK
      <4> QED BY <4>1, <4>4, <4>5, CountTypes, SMTT(30)
    <3> QED BY <3>1, <3>2, Zenon
  <2> QED BY <2>4, <2>5, CountTypes, SMTT(30)
<1> SUFFICES ASSUME NEW i \in DOMAIN running', Tight(i)', NEW r \in Requests, r = running'[i]
             PROVE  Left(r)' <= 1
  <2>1. \A i \in DOMAIN running' : running'[i] \in Requests
    BY <1>4, RunningFacts, SMT
  <2> QED BY <2>1, Zenon DEF TightInv
<1>6. CASE i = Len(running) + 1
  <2>1. token_budget' > 0
    <3>1. ~(i < Len(running'))
      BY <1>4, <1>6, RunningFacts, SMTT(30)
    <3> QED BY <1>2, <3>1, Zenon DEF Tight
  <2> QED BY <1>4, <1>5, <1>6, <2>1, Zenon
<1>7. CASE i # Len(running) + 1
  <2>1. i \in DOMAIN running /\ i \in 1..Len(running)
    BY <1>4, <1>7, RunningFacts, SMTT(30)
  <2>2. r = running[i] /\ status[r] = "RUNNING"
    BY <1>4, <2>1, RunningFacts, Zenon
  <2>3. Left(r) <= 1
    BY <1>2, <2>1, <2>2, Zenon DEF TightInv, Tight
  <2>4. status'[r] = "RUNNING"
    BY Zenon DEF QInv, QueuesMatchStatus, Elems
  <2>5. Left(r)' = Left(r)
    BY <1>0, <1>2, <2>2, <2>4, LeftKeeps, Zenon
  <2> QED BY <2>3, <2>5, Zenon
<1> QED BY <1>6, <1>7, Zenon

\* Outside FinishSchedule and the allocation, a running request that has to be tight
\* and was last, or behind others, before the step is tight.
LEMMA TightStays ==
  ASSUME Policy = "fcfs", IInv, QInv, SInv, TightInv, QInv', [Next]_vars,
         ~FinishSchedule, ~running_allocate,
         \A i \in DOMAIN running' : Tight(i)' =>
           \E k \in DOMAIN running : /\ running'[i] = running[k]
                                     /\ Tight(k) \/ Left(running[k]) <= 1
  PROVE  TightInv'
<1> SUFFICES ASSUME NEW i \in DOMAIN running', Tight(i)'
             PROVE  (Left(running[i]) <= 1)'
  BY Zenon DEF TightInv
<1>1. PICK k \in DOMAIN running : running'[i] = running[k] /\ (Tight(k) \/ Left(running[k]) <= 1)
  OBVIOUS
<1>2. running[k] \in Requests /\ status[running[k]] = "RUNNING"
  BY RunningFacts, Zenon
<1> PICK r \in Requests : r = running[k]
  BY <1>2, Zenon
<1>3. Left(r) <= 1
  BY <1>1, Zenon DEF TightInv
<1>4. r = running'[i] /\ status[r] = "RUNNING"
  BY <1>1, <1>2, Zenon
<1>5. status'[r] = "RUNNING"
  <2>1. Elems(running)' = {q \in Requests : status'[q] = "RUNNING"}
    BY Zenon DEF QInv, QueuesMatchStatus
  <2>2. r \in Elems(running)'
    BY <1>4, Zenon DEF Elems
  <2> QED BY <2>1, <2>2, Zenon
<1>6. Left(r)' = Left(r)
  BY <1>4, <1>5, LeftKeeps, Zenon
<1> QED BY <1>3, <1>4, <1>6, Zenon

\* The end of schedule() computes what was planned.
LEMMA FinishKeepsTight ==
  ASSUME IInv, QInv, SInv, TightInv, FinishSchedule
  PROVE  TightInv'
<1>1. pc = "finish" /\ pc' = "execute" /\ UNCHANGED running
  BY Zenon DEF FinishSchedule, finish_schedule
<1> SUFFICES ASSUME NEW i \in DOMAIN running, Tight(i)', NEW r \in Requests, r = running[i]
             PROVE  Left(r)' <= 1
  <2>1. \A i \in DOMAIN running : running[i] \in Requests
    BY RunningFacts, Zenon
  <2> QED BY <1>1, <2>1, Zenon DEF TightInv
<1>2. i < Len(running)
  <2>1. ~(pc' \in {"running", "alloc"}) /\ ~(pc' \in {"waiting", "finish"})
    BY <1>1
  <2> QED BY <1>1, <2>1, Zenon DEF Tight
<1>3. Left(r) <= 1
  BY <1>2, Zenon DEF TightInv, Tight
<1>4. Left(r) = Rest(r) - num_scheduled_tokens[r]
  BY <1>1, Zenon DEF Left, Planned, InSchedule
<1>5. Planned(r)' = 0
  <2>1. ~InSchedule'
    BY <1>1 DEF InSchedule
  <2> QED BY <2>1, Zenon DEF Planned
<1>6. Left(r)' = Rest(r)' - Planned(r)'
  BY Zenon DEF Left
<1> DEFINE one == One(r \in Sampled)
<1>7. /\ Rest(r)' = Rest(r) - num_scheduled_tokens[r] + one
      /\ r \in Sampled => Rest(r) = num_scheduled_tokens[r]
      /\ num_scheduled_tokens[r] \in Int /\ Rest(r) \in Int
  BY FinishCounts, CountTypes, Zenon
<1>8. one \in {0, 1} /\ (one = 1 => r \in Sampled)
  <2>1. r \in Sampled => one = 1
    BY Zenon DEF One
  <2>2. r \notin Sampled => one = 0
    BY Zenon DEF One
  <2>3. 0 # 1
    OBVIOUS
  <2> QED BY <2>1, <2>2, <2>3, Zenon
<1> HIDE DEF one
<1>9. CASE one = 0
  BY <1>3, <1>4, <1>5, <1>6, <1>7, <1>9, SMTT(30)
<1>10. CASE one = 1
  <2>1. Rest(r) = num_scheduled_tokens[r]
    BY <1>7, <1>8, <1>10, Zenon
  <2> QED BY <1>5, <1>6, <1>7, <1>10, <2>1, SMTT(30)
<1> QED BY <1>8, <1>9, <1>10, Zenon

\* Every step keeps ChunkInv: a prompt that is cut leaves no budget for the requests
\* behind it, so all running requests but the last one lack a single token.
LEMMA ChunkKeeps ==
  ASSUME DefaultScheduling, IInv, QInv, SInv, GapInv, ChunkInv, QInv',
         pause_state = "UNPAUSED", [Next]_vars
  PROVE  ChunkInv'
<1>0. /\ Policy = "fcfs" /\ LongPrefill = 0
      /\ TightInv
      /\ pc \in {"running", "alloc"} /\ req_index <= Len(running) =>
           token_budget >= TokenBudget - req_index + 1
      /\ pc = "alloc" => num_new_tokens = NumNewTokens(cur)
  BY Zenon DEF DefaultScheduling, ChunkInv
<1>1. /\ running \in Seq(Requests) /\ NoDuplicates(running)
      /\ Len(running) \in Nat /\ DOMAIN running = 1..Len(running)
      /\ token_budget \in Int /\ req_index \in Int /\ TokenBudget \in Nat /\ TokenBudget > 0
  BY RunningFacts, SchedulerAssumption
<1>2. \A i \in DOMAIN running : i < Len(running) => Tight(i)
  BY Zenon DEF Tight
<1>a. ASSUME TightInv', pc' \notin {"running", "alloc"}
      PROVE  ChunkInv'
  <2>1. pc' # "alloc"
    BY <1>a
  <2> QED BY <1>a, <2>1, Zenon DEF ChunkInv
\* The steps that leave the queue alone and end outside the running loop
<1>b. ASSUME UNCHANGED running, ~FinishSchedule, ~running_allocate,
             pc' \notin {"running", "alloc"},
             pc' \in {"waiting", "finish"} => /\ pc \in {"waiting", "finish"}
                                              /\ UNCHANGED token_budget
      PROVE  ChunkInv'
  <2>1. ASSUME NEW i \in DOMAIN running, Tight(i)'
        PROVE  Tight(i)
    BY <1>b, <2>1, Zenon DEF Tight
  <2>2. TightInv'
    BY <1>0, <1>b, <2>1, TightStays, Zenon
  <2> QED BY <1>a, <1>b, <2>2, Zenon
\* The steps that take a request off the queue outside schedule()
<1>c. ASSUME ~FinishSchedule, ~running_allocate, pc' \notin {"running", "alloc"},
             pc' \notin {"waiting", "finish"},
             \A i \in DOMAIN running' : i < Len(running') =>
               \E k \in DOMAIN running : k < Len(running) /\ running'[i] = running[k]
      PROVE  ChunkInv'
  <2>1. ASSUME NEW i \in DOMAIN running', Tight(i)'
        PROVE  i < Len(running')
    BY <1>c, <2>1, Zenon DEF Tight
  <2>2. TightInv'
    BY <1>0, <1>2, <1>c, <2>1, TightStays, Zenon
  <2> QED BY <1>a, <1>c, <2>2, Zenon
<1>3. ASSUME start_schedule, Quiet PROVE ChunkInv'
  <2>1. /\ pc = "idle" /\ pc' = "running" /\ token_budget' = TokenBudget
        /\ UNCHANGED <<running, req_index>> /\ ~FinishSchedule /\ ~running_allocate
    <3>1. pause_state # "PAUSED_ALL"
      OBVIOUS
    <3> QED BY <1>3, <3>1, Zenon DEF start_schedule, queueVars, FinishSchedule, finish_schedule,
            running_allocate
  <2>2. req_index = 1
    <3>1. ~InSchedule /\ ~InExecute
      BY <2>1 DEF InSchedule, InExecute
    <3> QED BY <3>1, Zenon DEF SInv, ListInv
  <2>3. ASSUME NEW i \in DOMAIN running, Tight(i)'
        PROVE  Tight(i)
    <3>1. ~(i < req_index') /\ ~(pc' \in {"waiting", "finish"})
      BY <1>1, <2>1, <2>2, SMTT(30)
    <3> QED BY <2>1, <2>3, <3>1, Zenon DEF Tight
  <2>4. TightInv'
    BY <1>0, <2>1, <2>3, TightStays, Zenon
  <2>5. token_budget' >= TokenBudget - req_index' + 1 /\ pc' # "alloc"
    BY <1>1, <2>1, <2>2, SMTT(30)
  <2> QED BY <2>4, <2>5, Zenon DEF ChunkInv
<1>4. ASSUME running_skip, Quiet PROVE ChunkInv'
  <2>1. /\ pc = "running" /\ pc' = "running" /\ req_index \in DOMAIN running /\ token_budget > 0
        /\ LastStepInFlight(running[req_index]) \/ NumNewTokens(running[req_index]) = 0
        /\ UNCHANGED <<running, token_budget>> /\ req_index' = req_index + 1
        /\ ~FinishSchedule /\ ~running_allocate
    BY <1>4, Zenon DEF running_skip, InRunningLoop, queueVars, FinishSchedule, finish_schedule,
       running_allocate
  <2> PICK r \in Requests : r = running[req_index]
    BY <2>1, RunningFacts, Zenon
  <2>2. Lacks(r) >= 1 /\ (LastStepInFlight(r) <=> Ending(r))
    <3>1. InSchedule /\ status[r] = "RUNNING"
      BY <2>1, RunningFacts, Zenon DEF InSchedule
    <3> QED BY <3>1, PassedOver, Zenon
  <2>3. Lacks(r) = 1
    <3>1. NumNewTokens(r) = IF Lacks(r) <= token_budget THEN Lacks(r) ELSE token_budget
      BY <1>0, GivenTokens, Zenon
    <3>2. token_budget \in Int /\ token_budget > 0 /\ Lacks(r) \in Int /\ Lacks(r) >= 1
      BY <1>1, <2>1, <2>2, CountTypes, Zenon
    <3>3. NumNewTokens(r) # 0
      BY <3>1, <3>2, SMTT(30)
    <3> QED BY <2>1, <2>2, <3>3, Zenon DEF Ending
  <2>4. Left(r) <= 1
    <3>1. InSchedule
      BY <2>1, Zenon DEF InSchedule
    <3>2. Rest(r) = 1 /\ Planned(r) = num_scheduled_tokens[r] /\ num_scheduled_tokens[r] >= 0
      BY <2>3, <3>1, NothingDue, Zenon DEF Planned, SInv, TokenInv, TokensOf
    <3> QED BY <3>2, CountTypes DEF Left
  <2>5. ASSUME NEW i \in DOMAIN running, Tight(i)'
        PROVE  Tight(i) \/ Left(running[i]) <= 1
    <3>1. CASE i = req_index
      BY <2>4, <3>1, Zenon
    <3>2. CASE i # req_index
      <4>1. i < req_index' => i < req_index
        BY <1>1, <2>1, <3>2, SMTT(30)
      <4>2. pc' \notin {"waiting", "finish"}
        BY <2>1
      <4> QED BY <2>1, <2>5, <4>1, <4>2, Zenon DEF Tight
    <3> QED BY <3>1, <3>2, Zenon
  <2>6. TightInv'
    BY <1>0, <2>1, <2>5, TightStays, Zenon
  <2>7. token_budget' >= TokenBudget - req_index' + 1
    <3>1. token_budget >= TokenBudget - req_index + 1
      BY <1>0, <1>1, <2>1, SMTT(30)
    <3> QED BY <1>1, <2>1, <3>1, SMTT(30)
  <2>8. pc' # "alloc"
    BY <2>1
  <2> QED BY <2>6, <2>7, <2>8, Zenon DEF ChunkInv

<1>5. ASSUME running_pick, Quiet PROVE ChunkInv'
  <2>1. /\ pc = "running" /\ pc' = "alloc" /\ req_index \in DOMAIN running
        /\ cur' = running[req_index] /\ num_new_tokens' = NumNewTokens(running[req_index])
        /\ UNCHANGED <<running, token_budget, req_index, num_tokens, num_output_placeholders,
                       num_computed_tokens>>
        /\ ~FinishSchedule /\ ~running_allocate
    BY <1>5, Zenon DEF running_pick, InRunningLoop, queueVars, reqVars, FinishSchedule,
       finish_schedule, running_allocate
  <2>2. ASSUME NEW i \in DOMAIN running, Tight(i)'
        PROVE  Tight(i)
    <3>1. pc' \notin {"waiting", "finish"} /\ pc \in {"running", "alloc"}
      BY <2>1
    <3> QED BY <2>1, <2>2, <3>1, Zenon DEF Tight
  <2>3. TightInv'
    BY <1>0, <2>1, <2>2, TightStays, Zenon
  <2>4. num_new_tokens' = NumNewTokens(cur)'
    BY <2>1, Zenon DEF NumNewTokens
  <2>5. req_index' <= Len(running') => token_budget' >= TokenBudget - req_index' + 1
    BY <1>0, <2>1, Zenon
  <2> QED BY <2>3, <2>4, <2>5, Zenon DEF ChunkInv
<1>6. ASSUME running_preempt, Quiet PROVE ChunkInv'
  <2>1. /\ pc = "alloc" /\ req_index \in DOMAIN running /\ running[req_index] = cur
        /\ pc' = "alloc" \/ (pc' = "finish" /\ req_index = Len(running))
        /\ UNCHANGED <<token_budget, req_index, num_tokens, num_output_placeholders>>
        /\ pc' = "alloc" => UNCHANGED <<cur, num_new_tokens>> /\ cur # running[Len(running)]
        /\ num_computed_tokens' = [num_computed_tokens EXCEPT ![running[Len(running)]] = 0]
        /\ \A i \in DOMAIN running' :
             i \in DOMAIN running /\ i < Len(running) /\ running'[i] = running[i]
    BY <1>0, <1>6, PreemptTakesLast, Zenon
  <2>2. ~FinishSchedule /\ ~running_allocate
    <3>1. pc' # "running" /\ pc' # "execute"
      BY <2>1
    <3> QED BY <3>1, Zenon DEF FinishSchedule, finish_schedule, running_allocate
  <2>3. TightInv'
    BY <1>0, <1>2, <2>1, <2>2, TightStays, Zenon
  <2>4. CASE pc' = "finish"
    BY <1>a, <2>3, <2>4, SMTT(30)
  <2>5. CASE pc' = "alloc"
    <3>1. num_new_tokens' = NumNewTokens(cur)'
      <4>1. num_computed_tokens'[cur'] = num_computed_tokens[cur]
        <5>1. cur' = cur /\ cur # running[Len(running)]
          BY <2>1, <2>5, Zenon
        <5>2. cur \in Requests
          BY <2>1, RunningFacts, Zenon
        <5>3. num_computed_tokens \in [Requests -> Int]
          BY Zenon DEF IInv, TypeOK, ReqTypeOK
        <5> QED BY <2>1, <5>1, <5>2, <5>3, Zenon
      <4>2. NumNewTokens(cur)' = NumNewTokens(cur)
        BY <2>1, <2>5, <4>1, Zenon DEF NumNewTokens
      <4> QED BY <1>0, <2>1, <2>5, <4>2, Zenon
    <3>2. token_budget' >= TokenBudget - req_index' + 1
      <4>1. req_index <= Len(running)
        <5>1. req_index \in 1..Len(running)
          BY <1>1, <2>1, Zenon
        <5> QED BY <1>1, <5>1, SMTT(30)
      <4>2. token_budget >= TokenBudget - req_index + 1
        <5>1. pc \in {"running", "alloc"}
          BY <2>1
        <5> QED BY <1>0, <4>1, <5>1, Zenon
      <4> QED BY <2>1, <4>2, Zenon
    <3> QED BY <2>3, <3>1, <3>2, Zenon DEF ChunkInv
  <2> QED BY <2>1, <2>4, <2>5, Zenon
<1>7. ASSUME running_done, Quiet PROVE ChunkInv'
  <2>1. /\ pc = "running" /\ pc' \in {"waiting", "finish"}
        /\ req_index > Len(running) \/ token_budget <= 0
        /\ UNCHANGED <<running, token_budget>> /\ ~FinishSchedule /\ ~running_allocate
    BY <1>7, Zenon DEF running_done, queueVars, loopVars, FinishSchedule, finish_schedule,
       running_allocate
  <2>2. ASSUME NEW i \in DOMAIN running, Tight(i)'
        PROVE  Tight(i)
    <3>1. pc' \notin {"running", "alloc"}
      BY <2>1
    <3>2. CASE i < Len(running)
      BY <1>2, <3>2, Zenon
    <3>3. CASE token_budget > 0
      <4>1. i < req_index
        BY <1>1, <2>1, <3>3, SMTT(30)
      <4> QED BY <2>1, <3>3, <4>1, Zenon DEF Tight
    <3> QED BY <2>1, <2>2, <3>1, <3>2, <3>3, Zenon DEF Tight
  <2>3. TightInv'
    BY <1>0, <2>1, <2>2, TightStays, Zenon
  <2> QED BY <1>a, <2>1, <2>3, SMTT(30)
<1>8. ASSUME waiting_admit, Quiet PROVE ChunkInv'
  <2>1. pc' = "waiting"
    BY <1>8, Zenon DEF waiting_admit, InWaitingLoop
  <2>2. TightInv'
    BY <1>0, <1>8, AdmitKeepsTight, Zenon
  <2> QED BY <1>a, <2>1, <2>2, SMTT(30)
<1>9. ASSUME waiting_done, Quiet PROVE ChunkInv'
  <2>1. pc = "waiting" /\ pc' = "finish" /\ UNCHANGED <<running, token_budget>>
        /\ ~FinishSchedule /\ ~running_allocate
    BY <1>9, Zenon DEF waiting_done, queueVars, loopVars, FinishSchedule, finish_schedule,
       running_allocate
  <2> QED BY <1>b, <2>1, SMTT(30)
<1>10. ASSUME FinishSchedule PROVE ChunkInv'
  <2>1. pc' = "execute"
    BY <1>10, Zenon DEF FinishSchedule, finish_schedule
  <2>2. TightInv'
    BY <1>0, <1>10, FinishKeepsTight, Zenon
  <2> QED BY <1>a, <2>1, <2>2, SMTT(30)

<1>11. ASSUME NEW r \in Requests, running' = Without(running, r), UNCHANGED pc,
              pc \in {"idle", "aborts", "output"}
       PROVE  ChunkInv'
  <2>1. /\ pc' \notin {"running", "alloc"} /\ pc' \notin {"waiting", "finish"}
        /\ pc' # "execute" /\ pc # "alloc"
    BY <1>11
  <2>2. ~FinishSchedule /\ ~running_allocate
    BY <2>1, Zenon DEF FinishSchedule, finish_schedule, running_allocate
  <2>3. ASSUME NEW i \in DOMAIN running', i < Len(running')
        PROVE  \E k \in DOMAIN running : k < Len(running) /\ running'[i] = running[k]
    <3>1. i \in DOMAIN Without(running, r) /\ i < Len(Without(running, r))
      BY <1>11, <2>3, Zenon
    <3>2. \E k \in DOMAIN running : k < Len(running) /\ Without(running, r)[i] = running[k]
      <4>1. running \in Seq(Requests) /\ NoDuplicates(running)
        BY <1>1, Zenon
      <4> QED BY <3>1, <4>1, WithoutFront, SMT, SMTT(30)
    <3> QED BY <1>11, <3>2, Zenon
  <2> QED BY <1>c, <2>1, <2>2, <2>3, Zenon
<1>12. ASSUME ResetPreempt PROVE ChunkInv'
  <2>1. pc = "reset" /\ pc' = "reset" /\ running # <<>>
        /\ running' = SubSeq(running, 1, Len(running) - 1)
    BY <1>12, Zenon DEF ResetPreempt, reset_preempt
  <2>2. Len(running) > 0
    BY <1>1, <2>1, EmptySeq, SMTT(30)
  <2>3. Len(running') = Len(running) - 1 /\ DOMAIN running' = 1..(Len(running) - 1)
        /\ \A i \in 1..(Len(running) - 1) : running'[i] = running[i]
    BY <1>1, <2>1, <2>2, SubSeqProperties, SMTT(30)
  <2>4. ASSUME NEW i \in DOMAIN running', i < Len(running')
        PROVE  \E k \in DOMAIN running : k < Len(running) /\ running'[i] = running[k]
    <3>1. i \in DOMAIN running /\ i < Len(running)
      BY <1>1, <2>3, <2>4, SMTT(30)
    <3> QED BY <2>3, <3>1, Zenon
  <2>5. /\ pc' \notin {"running", "alloc"} /\ pc' \notin {"waiting", "finish"}
        /\ pc' # "execute" /\ pc # "alloc"
    BY <2>1
  <2>6. ~FinishSchedule /\ ~running_allocate
    BY <2>5, Zenon DEF FinishSchedule, finish_schedule, running_allocate
  <2> QED BY <1>c, <2>4, <2>5, <2>6, Zenon
<1>13. ASSUME UNCHANGED running,
              pc' \in {"hook", "end", "idle", "aborts", "output", "reclaim", "reset"}
       PROVE  ChunkInv'
  <2>1. /\ pc' \notin {"running", "alloc"} /\ pc' \notin {"waiting", "finish"}
        /\ pc' # "execute"
    BY <1>13
  <2>2. ~FinishSchedule /\ ~running_allocate
    BY <2>1, Zenon DEF FinishSchedule, finish_schedule, running_allocate
  <2> QED BY <1>b, <1>13, <2>1, <2>2, Zenon
<1>14. ASSUME UNCHANGED vars PROVE ChunkInv'
  <2>1. /\ UNCHANGED <<pc, running, token_budget, req_index, num_new_tokens, num_tokens,
                       num_output_placeholders, num_computed_tokens, num_scheduled_tokens>>
        /\ UNCHANGED <<cur, batch_queue, to_update>>
    BY <1>14, Zenon DEF vars, kvVars, schedVars, reqVars, queueVars, loopVars, outVars,
       workerVars, engineVars
  <2>2. TightInv'
    <3>1. \A i \in DOMAIN running : Tight(i)' => Tight(i)
      BY <2>1, Zenon DEF Tight
    <3>2. ASSUME NEW r \in Requests PROVE Left(r)' = Left(r)
      <4>1. Lacks(r)' = Lacks(r) /\ Planned(r)' = Planned(r)
        BY <2>1, Zenon DEF Lacks, Planned, InSchedule
      <4>2. Due(r)' = Due(r)
        BY <2>1, Zenon DEF Due, InFlight
      <4> QED BY <4>1, <4>2, Zenon DEF Left, Rest
    <3>3. \A i \in DOMAIN running : running[i] \in Requests
      BY RunningFacts, Zenon
    <3> QED BY <1>0, <2>1, <3>1, <3>2, <3>3, Zenon DEF TightInv
  <2>3. pc' = "alloc" => num_new_tokens' = NumNewTokens(cur)'
    BY <1>0, <2>1, Zenon DEF NumNewTokens
  <2>4. pc' \in {"running", "alloc"} /\ req_index' <= Len(running') =>
          token_budget' >= TokenBudget - req_index' + 1
    BY <1>0, <2>1, Zenon
  <2> QED BY <2>2, <2>3, <2>4, Zenon DEF ChunkInv
<1>15. ASSUME ScheduleStep PROVE ChunkInv'
  BY <1>3, <1>4, <1>5, <1>6, <1>7, <1>8, <1>9, <1>10, <1>15, AllocateKeepsChunks, Zenon
     DEF ScheduleStep
<1>16. ASSUME ExecuteStep PROVE ChunkInv'
  <2>1. UNCHANGED running /\ pc' \in {"hook", "end", "idle", "aborts"}
    BY <1>16, Zenon DEF ExecuteStep, update_states, skive_check, evict_request_blocks, EndExecute,
       queueVars
  <2> QED BY <1>13, <2>1, SMTT(30)
<1>17. ASSUME OutputStep PROVE ChunkInv'
  <2>1. ASSUME NEW r \in Requests, UpdateFromOutput(r) PROVE ChunkInv'
    <3>1. pc = "output" /\ UNCHANGED pc /\ \E stop \in BOOLEAN : update_from_output(r, stop)
      BY <2>1, Zenon DEF UpdateFromOutput
    <3>2. UNCHANGED running \/ running' = Without(running, r)
      BY <3>1, Zenon DEF update_from_output, free_request, queueVars
    <3> QED BY <1>11, <1>13, <3>1, <3>2, Zenon
  <2>2. ASSUME NEW item \in popped, skive_reclaim(item[1], item[2]) PROVE ChunkInv'
    <3>1. UNCHANGED running /\ pc' = "reclaim"
      BY <2>2, Zenon DEF skive_reclaim, schedVars, queueVars
    <3> QED BY <1>13, <3>1, Zenon
  <2>3. ASSUME AwaitOutput \/ TakeOutput \/ PopPending \/ EndStep PROVE ChunkInv'
    <3>1. UNCHANGED running /\ pc' \in {"aborts", "output", "reclaim", "idle"}
      BY <2>3, Zenon DEF AwaitOutput, TakeOutput, PopPending, EndStep, queueVars
    <3> QED BY <1>13, <3>1, SMTT(30)
  <2> QED BY <1>17, <2>1, <2>2, <2>3, Zenon DEF OutputStep
<1>18. ASSUME ClientStep \/ ResetDone \/ WaitForInput PROVE ChunkInv'
  <2>1. ASSUME NEW r \in Requests, Abort(r) PROVE ChunkInv'
    <3>1. running' = Without(running, r) /\ pc \in {"idle", "aborts"} /\ UNCHANGED pc
      BY <2>1, Zenon DEF Abort, finish_requests, free_request
    <3> QED BY <1>11, <3>1, SMTT(30)
  <2>2. ASSUME NEW r \in Requests, AddRequest(r) PROVE ChunkInv'
    <3>1. UNCHANGED running /\ pc' = "idle"
      BY <2>2, Zenon DEF AddRequest, add_request
    <3> QED BY <1>13, <3>1, Zenon
  <2>3. ASSUME PauseScheduler \/ ResumeScheduler \/ ResetPrefixCache \/ ResetDone \/ WaitForInput
        PROVE  ChunkInv'
    <3>1. ASSUME WaitForInput PROVE ChunkInv'
      BY <1>14, <3>1, Zenon DEF WaitForInput
    <3>2. ASSUME PauseScheduler \/ ResumeScheduler \/ ResetPrefixCache \/ ResetDone
          PROVE  UNCHANGED running /\ pc' \in {"idle", "reset"}
      BY <3>2, Zenon DEF PauseScheduler, ResumeScheduler, ResetPrefixCache, ResetDone, reset_done,
         set_pause_state, queueVars
    <3> QED BY <1>13, <2>3, <3>1, <3>2, SMTT(30)
  <2> QED BY <1>18, <2>1, <2>2, <2>3, Zenon DEF ClientStep
<1> QED BY <1>12, <1>14, <1>15, <1>16, <1>17, <1>18, Zenon DEF Next, EngineStep

-----------------------------------------------------------------------------
(* Every running request is in the batch *)

\* Up to the forward pass a request stays covered while its row and its list stay.
LEMMA CoverStays ==
  ASSUME IInv, QInv, SInv, [Next]_vars, NEW r \in Requests,
         status[r] = "RUNNING", status'[r] = "RUNNING", CoverOf(r),
         row'[r] = row[r], ~Loaded, ~Loaded', Fresh \subseteq Fresh',
         r \in scheduled_running_reqs' => r \in scheduled_running_reqs \/ InBatch(r),
         pc' = "alloc" /\ r = cur' => InBatch(r),
         pc' \in {"waiting", "finish", "execute"} => r \in Lists' \/ Ending(r)
  PROVE  CoverOf(r)'
<1>1. /\ r \notin Fresh => InBatch(r) \/ Ending(r)
      /\ r \in scheduled_running_reqs => InBatch(r)
  BY Zenon DEF CoverOf
<1>2. InBatch(r)' <=> InBatch(r)
  BY Zenon DEF InBatch
<1>3. Ending(r) => Ending(r)'
  BY EndingKeeps, Zenon
<1>4. InExecute' => pc' = "execute"
  BY DEF InExecute, Loaded
<1>5. r \notin Fresh' => (InBatch(r) \/ Ending(r))'
  BY <1>1, <1>2, <1>3, Zenon
<1>6. r \in scheduled_running_reqs' => InBatch(r)'
  BY <1>1, <1>2, Zenon
<1>7. pc' \in {"waiting", "finish"} \/ InExecute' => r \in Lists' \/ Ending(r)'
  BY <1>3, <1>4, Zenon
<1> QED BY <1>2, <1>5, <1>6, <1>7, Zenon DEF CoverOf

\* From the forward pass on it has to be scheduled or ending.
LEMMA CoverLoaded ==
  ASSUME IInv, QInv, SInv, [Next]_vars, NEW r \in Requests,
         status[r] = "RUNNING", status'[r] = "RUNNING", CoverOf(r), InExecute, Loaded',
         UNCHANGED <<scheduled_new_reqs, scheduled_resumed_reqs, scheduled_running_reqs>>
  PROVE  CoverOf(r)'
<1>1. r \in Lists \/ Ending(r)
  BY Zenon DEF CoverOf
<1>2. Lists' = Lists
  BY Zenon DEF Lists
<1>3. Ending(r) => Ending(r)'
  BY EndingKeeps, Zenon
<1>4. pc' # "alloc"
  BY DEF Loaded
<1> QED BY <1>1, <1>2, <1>3, <1>4, Zenon DEF CoverOf

\* After the forward pass a scheduled request is in the batch.
LEMMA CoverAfter ==
  ASSUME IInv, QInv, SInv, LenInv, [Next]_vars, EndExecute, NEW r \in Requests,
         status[r] = "RUNNING", status'[r] = "RUNNING", CoverOf(r)
  PROVE  CoverOf(r)'
<1>1. /\ pc = "end" /\ pc' \in {"idle", "aborts"} /\ UNCHANGED row
      /\ scheduled_running_reqs' = {}
  BY Zenon DEF EndExecute, ClearScheduleLocals, workerVars
<1>2. InExecute /\ Loaded /\ ~InExecute' /\ pc' # "alloc" /\ pc' \notin {"waiting", "finish"}
  BY <1>1 DEF InExecute, Loaded
<1>3. ASSUME r \in Lists PROVE InBatch(r)
  <2>1. num_scheduled_tokens[r] > 0 /\ r \in Scheduled
    BY <1>3, Zenon DEF SInv, TokenInv, TokensOf, Scheduled
  <2>2. /\ Pre(r) >= 0 /\ Len(row[r]) = Len(req_to_blocks[r])
        /\ Len(req_to_blocks[r]) = CeilDiv(Pre(r) + num_scheduled_tokens[r], BlockSize)
    BY <1>2, <2>1, Zenon DEF LenInv, LenOf
  <2>3. Pre(r) \in Int /\ num_scheduled_tokens[r] \in Int
    BY CountTypes DEF Pre
  <2>4. CeilDiv(Pre(r) + num_scheduled_tokens[r], BlockSize) > 0
    <3>1. Pre(r) + num_scheduled_tokens[r] \in Nat /\ Pre(r) + num_scheduled_tokens[r] > 0
      BY <2>1, <2>2, <2>3, SMTT(30)
    <3> QED BY <3>1, CeilDivFacts, Zenon
  <2>5. CASE row[r] = <<>>
    BY <2>2, <2>4, <2>5, SMTT(30)
  <2> QED BY <2>5, Zenon DEF InBatch
<1>4. Ending(r) => Ending(r)'
  BY EndingKeeps, Zenon
<1>5. (InBatch(r) \/ Ending(r))'
  <2>1. r \in Lists \/ Ending(r)
    BY <1>2, Zenon DEF CoverOf
  <2>2. InBatch(r) => InBatch(r)'
    BY <1>1, Zenon DEF InBatch
  <2> QED BY <1>3, <1>4, <2>1, <2>2, Zenon
<1> QED BY <1>1, <1>2, <1>5, Zenon DEF CoverOf

\* Without the pause calls the scheduler is never paused.
LEMMA NeverPaused ==
  ASSUME ~AllowPause, [Next]_vars
  PROVE  pause_state' = pause_state
<1>1. ASSUME UNCHANGED vars PROVE UNCHANGED pause_state
  BY <1>1, Zenon DEF vars, schedVars, queueVars
<1>2. ASSUME ScheduleStep PROVE UNCHANGED pause_state
  BY <1>2, Zenon DEF ScheduleStep, start_schedule, running_skip, running_pick, running_allocate,
     running_preempt, running_done, waiting_admit, waiting_done, FinishSchedule, finish_schedule,
     queueVars
<1>3. ASSUME ExecuteStep PROVE UNCHANGED pause_state
  BY <1>3, Zenon DEF ExecuteStep, update_states, skive_check, evict_request_blocks, EndExecute,
     queueVars
<1>4. ASSUME OutputStep PROVE UNCHANGED pause_state
  <2>1. ASSUME NEW r \in Requests, UpdateFromOutput(r) PROVE UNCHANGED pause_state
    BY <2>1, Zenon DEF UpdateFromOutput, update_from_output, queueVars
  <2> QED BY <1>4, <2>1, Zenon DEF OutputStep, AwaitOutput, TakeOutput, PopPending, skive_reclaim,
          EndStep, schedVars, queueVars
<1>5. ASSUME ResetPreempt \/ ResetDone PROVE UNCHANGED pause_state
  BY <1>5, Zenon DEF ResetPreempt, ResetDone, reset_preempt, reset_done
<1>6. ASSUME ClientStep PROVE UNCHANGED pause_state
  BY <1>6, Zenon DEF ClientStep, AddRequest, add_request, Abort, finish_requests, PauseScheduler,
     ResumeScheduler, ResetPrefixCache, queueVars
<1> QED BY <1>1, <1>2, <1>3, <1>4, <1>5, <1>6, Zenon DEF Next, EngineStep, WaitForInput

\* An admitted request is fresh; the others stay covered.
LEMMA AdmitKeepsCover ==
  ASSUME IInv, QInv, SInv, CoverInv, [Next]_vars, waiting_admit, Quiet,
         NEW r \in Requests, status'[r] = "RUNNING"
  PROVE  CoverOf(r)'
<1>1. PICK q \in Requests :
        /\ IsNext(q) /\ status' = [status EXCEPT ![q] = "RUNNING"]
        /\ IF status[q] = "WAITING"
           THEN /\ scheduled_new_reqs' = scheduled_new_reqs \cup {q}
                /\ UNCHANGED scheduled_resumed_reqs
           ELSE /\ scheduled_resumed_reqs' = scheduled_resumed_reqs \cup {q}
                /\ UNCHANGED scheduled_new_reqs
  BY Zenon DEF waiting_admit
<1>2. /\ pc = "waiting" /\ pc' = "waiting"
      /\ UNCHANGED <<row, scheduled_running_reqs>>
  BY Zenon DEF waiting_admit, InWaitingLoop, Quiet, workerVars
<1>3. ~Loaded /\ ~Loaded' /\ ~InExecute' /\ pc' # "alloc" /\ pc' # "execute"
  BY <1>2 DEF Loaded, InExecute
<1>4. Fresh' = Fresh \cup {q}
  BY <1>1 DEF Fresh
<1>5. Lists' = Lists \cup {q}
  BY <1>1, <1>2, SMTT(30) DEF Lists
<1>6. CASE r = q
  <2>1. status[q] # "RUNNING"
    <3>1. status[q] \in {"WAITING", "PREEMPTED"}
      BY <1>1, Zenon DEF IsNext, QInv, QueuesMatchStatus
    <3> QED BY <3>1
  <2>2. q \notin scheduled_running_reqs'
    BY <1>2, <2>1, Zenon DEF SInv, ListInv, Lists, QInv, QueuesMatchStatus
  <2>3. r \in Fresh' /\ r \in Lists'
    BY <1>4, <1>5, <1>6, Zenon
  <2> QED BY <1>3, <1>6, <2>2, <2>3, Zenon DEF CoverOf
<1>7. CASE r # q
  <2>1. status[r] = "RUNNING"
    BY <1>1, <1>7, Zenon DEF IInv, TypeOK, ReqTypeOK
  <2>2. CoverOf(r)
    BY <2>1, Zenon DEF CoverInv
  <2>3. r \in Lists \/ Ending(r)
    BY <1>2, <2>2, Zenon DEF CoverOf
  <2>4. row'[r] = row[r] /\ Fresh \subseteq Fresh' /\ (r \in Lists' \/ Ending(r))
    BY <1>2, <1>4, <1>5, <2>3, Zenon
  <2> QED BY <1>2, <1>3, <2>1, <2>2, <2>4, CoverStays, Zenon
<1> QED BY <1>6, <1>7, Zenon

\* The running loop keeps CoverInv: it passes over ending requests only, and it is
\* not cut short by the budget.
LEMMA LoopKeepsCover ==
  ASSUME DefaultScheduling, IInv, QInv, SInv, GapInv, ChunkInv, CoverInv, QInv', [Next]_vars,
         Quiet, running_skip \/ running_pick \/ running_allocate \/ running_preempt \/ running_done
  PROVE  CoverInv'
<1>pc. pc \in {"running", "alloc"}
  BY Zenon DEF running_skip, running_pick, InRunningLoop, running_allocate, running_preempt,
     running_done
<1>0. /\ Policy = "fcfs" /\ LongPrefill = 0 /\ ~AllowPause /\ MaxRunning <= TokenBudget
  BY Zenon DEF DefaultScheduling
<1>1. /\ Len(running) \in Nat /\ DOMAIN running = 1..Len(running)
      /\ token_budget \in Int /\ req_index \in Int
      /\ TokenBudget \in Nat /\ MaxRunning \in Nat /\ Len(running) <= MaxRunning
  <2>1. Len(running) <= MaxRunning
    BY Zenon DEF SInv, ListInv
  <2> QED BY <2>1, RunningFacts, SchedulerAssumption, SMTT(30)
<1>2. /\ \A i \in DOMAIN running : running[i] \in Requests /\ status[running[i]] = "RUNNING"
      /\ \A r \in Requests : status[r] = "RUNNING" => \E i \in DOMAIN running : running[i] = r
  BY RunningFacts, Zenon
<1>3. /\ \A r \in Requests : status[r] = "RUNNING" => CoverOf(r)
      /\ \A i \in DOMAIN running : i < req_index => running[i] \in Lists \/ Ending(running[i])
      /\ pause_state' = "UNPAUSED"
  BY <1>0, <1>pc, NeverPaused, Zenon DEF CoverInv
<1>4. ~Loaded /\ InSchedule
  BY <1>pc, SMTT(30) DEF Loaded, InSchedule
<1>5. Fresh = {}
  BY <1>pc, Zenon DEF SInv, ListInv, Fresh
\* A step of the loop that keeps the running requests
<1>6. ASSUME UNCHANGED <<running, status, row>>, Fresh' = {}, pc' \in {"running", "alloc"},
             Lists \subseteq Lists',
             \A r \in scheduled_running_reqs' : r \in scheduled_running_reqs \/ InBatch(r),
             pc' = "alloc" => InBatch(cur'),
             \A i \in DOMAIN running : i < req_index' =>
               i < req_index \/ running[i] \in Lists' \/ Ending(running[i])
      PROVE  CoverInv'
  <2>1. ~Loaded' /\ pc' \notin {"waiting", "finish", "execute"}
    BY <1>6, SMTT(30) DEF Loaded
  <2>2. ASSUME NEW r \in Requests, status'[r] = "RUNNING"
        PROVE  CoverOf(r)'
    BY <1>3, <1>4, <1>5, <1>6, <2>1, <2>2, CoverStays, Zenon
  <2>3. ASSUME NEW i \in DOMAIN running', (i < req_index)'
        PROVE  (running[i] \in Lists \/ Ending(running[i]))'
    <3> PICK r \in Requests : r = running[i]
      BY <1>2, <1>6, Zenon
    <3>1. r \in Lists' \/ Ending(r)
      BY <1>3, <1>6, <2>3, Zenon
    <3>2. status[r] = "RUNNING" /\ status'[r] = "RUNNING" /\ r = running'[i]
      BY <1>2, <1>6, Zenon
    <3>3. Ending(r) => Ending(r)'
      BY <3>2, EndingKeeps, Zenon
    <3> QED BY <3>1, <3>2, <3>3, Zenon
  <2> QED BY <1>3, <2>2, <2>3, Zenon DEF CoverInv
<1>7. ASSUME running_skip, Quiet PROVE CoverInv'
  <2>1. /\ pc' = "running" /\ req_index \in DOMAIN running /\ token_budget > 0
        /\ LastStepInFlight(running[req_index]) \/ NumNewTokens(running[req_index]) = 0
        /\ req_index' = req_index + 1
        /\ UNCHANGED <<running, status, row, scheduled_new_reqs, scheduled_resumed_reqs,
                       scheduled_running_reqs>>
    BY <1>7, Zenon DEF running_skip, InRunningLoop, Quiet, queueVars, reqVars, outVars, workerVars
  <2>2. Ending(running[req_index])
    <3> PICK r \in Requests : r = running[req_index] /\ status[r] = "RUNNING"
      BY <1>2, <2>1, Zenon
    <3>1. Lacks(r) >= 1 /\ (LastStepInFlight(r) <=> Ending(r))
      BY <1>4, PassedOver, Zenon
    <3>2. NumNewTokens(r) = IF Lacks(r) <= token_budget THEN Lacks(r) ELSE token_budget
      BY <1>0, GivenTokens, ZenonT(30)
    <3>3. NumNewTokens(r) # 0
      BY <1>1, <2>1, <3>1, <3>2, CountTypes, SMTT(30)
    <3> QED BY <2>1, <3>1, <3>3, Zenon
  <2>3. Fresh' = {} /\ Lists' = Lists
    BY <1>5, <2>1, Zenon DEF Fresh, Lists
  <2>4. ASSUME NEW i \in DOMAIN running, i < req_index'
        PROVE  i < req_index \/ running[i] \in Lists' \/ Ending(running[i])
    <3>1. i < req_index \/ i = req_index
      BY <1>1, <2>1, <2>4, SMTT(30)
    <3> QED BY <2>2, <3>1, Zenon
  <2>5. pc' \in {"running", "alloc"} /\ pc' # "alloc"
    BY <2>1, SMTT(30)
  <2> QED BY <1>6, <2>1, <2>3, <2>4, <2>5, Zenon
<1>8. ASSUME running_pick, Quiet PROVE CoverInv'
  <2>1. /\ pc' = "alloc" /\ req_index \in DOMAIN running /\ cur' = running[req_index]
        /\ ~LastStepInFlight(running[req_index])
        /\ UNCHANGED <<running, status, row, req_index, scheduled_new_reqs, scheduled_resumed_reqs,
                       scheduled_running_reqs>>
    BY <1>8, Zenon DEF running_pick, InRunningLoop, Quiet, queueVars, reqVars, outVars, workerVars
  <2>2. InBatch(cur')
    <3> PICK r \in Requests : r = running[req_index] /\ status[r] = "RUNNING"
      BY <1>2, <2>1, Zenon
    <3>1. ~Ending(r)
      BY <1>4, <2>1, PassedOver, Zenon
    <3>2. r \notin Fresh /\ CoverOf(r)
      BY <1>3, <1>5, Zenon
    <3> QED BY <1>4, <2>1, <3>1, <3>2, Zenon DEF CoverOf
  <2>3. Fresh' = {} /\ Lists' = Lists
    BY <1>5, <2>1, Zenon DEF Fresh, Lists
  <2> QED BY <1>6, <2>1, <2>2, <2>3, Zenon
<1>9. ASSUME running_allocate, Quiet PROVE CoverInv'
  <2>1. /\ pc = "alloc" /\ pc' = "running" /\ req_index' = req_index + 1
        /\ scheduled_running_reqs' = scheduled_running_reqs \cup {cur}
        /\ UNCHANGED <<running, status, row, scheduled_new_reqs, scheduled_resumed_reqs>>
    BY <1>9, Zenon DEF running_allocate, Quiet, queueVars, reqVars, workerVars
  <2>2. req_index \in DOMAIN running /\ running[req_index] = cur
    <3>1. Policy # "priority"
      BY <1>0
    <3> QED BY <2>1, <3>1, Zenon DEF SInv, IndexInv
  <2>3. InBatch(cur)
    <3>1. cur \in Requests /\ CoverOf(cur)
      BY <1>2, <1>3, <2>2, Zenon
    <3> QED BY <2>1, <3>1, Zenon DEF CoverOf
  <2>4. Fresh' = {}
    BY <1>5, <2>1, Zenon DEF Fresh
  <2>5. Lists \subseteq Lists' /\ cur \in Lists'
    BY <2>1, Zenon DEF Lists
  <2>6. ASSUME NEW i \in DOMAIN running, i < req_index'
        PROVE  i < req_index \/ running[i] \in Lists' \/ Ending(running[i])
    <3>1. i < req_index \/ i = req_index
      BY <1>1, <2>1, <2>6, SMTT(30)
    <3> QED BY <2>2, <2>5, <3>1, Zenon
  <2>7. pc' \in {"running", "alloc"} /\ pc' # "alloc"
    BY <2>1, SMTT(30)
  <2> QED BY <1>6, <2>1, <2>3, <2>4, <2>5, <2>6, <2>7, Zenon

<1>10. ASSUME running_preempt, Quiet PROVE CoverInv'
  <2>1. /\ pc = "alloc"
        /\ pc' = "alloc" \/ (pc' = "finish" /\ req_index = Len(running))
        /\ UNCHANGED <<req_index, scheduled_new_reqs, scheduled_resumed_reqs,
                       scheduled_running_reqs>>
        /\ pc' = "alloc" => cur' = cur
        /\ \A i \in DOMAIN running' :
             i \in DOMAIN running /\ i < Len(running) /\ running'[i] = running[i]
    BY <1>0, <1>10, PreemptTakesLast, Zenon
  <2>2. UNCHANGED row
    BY <1>10, Zenon DEF Quiet, workerVars
  <2>3. Fresh' = Fresh /\ Lists' = Lists
    BY <2>1, Zenon DEF Fresh, Lists
  <2>4. ~Loaded' /\ (pc' \in {"waiting", "finish", "execute"} => pc' = "finish")
    BY <2>1 DEF Loaded
  <2>5. Elems(running)' = {q \in Requests : status'[q] = "RUNNING"}
    BY Zenon DEF QInv, QueuesMatchStatus
  <2>6. ASSUME NEW r \in Requests, status'[r] = "RUNNING"
        PROVE  CoverOf(r)'
    <3>1. PICK i \in DOMAIN running' : r = running'[i]
      BY <2>5, <2>6, Zenon DEF Elems
    <3>2. i \in DOMAIN running /\ i < Len(running) /\ r = running[i] /\ status[r] = "RUNNING"
      BY <1>2, <2>1, <3>1, Zenon
    <3>3. CoverOf(r)
      BY <1>3, <3>2, Zenon
    <3>4. pc' = "finish" => r \in Lists' \/ Ending(r)
      <4>1. "alloc" # "finish"
        OBVIOUS
      <4> QED BY <1>3, <2>1, <2>3, <3>2, <4>1, Zenon
    <3>5. pc' = "alloc" /\ r = cur' => InBatch(r)
      BY <2>1, <3>3, Zenon DEF CoverOf
    <3> QED BY <1>4, <2>1, <2>2, <2>3, <2>4, <2>6, <3>2, <3>3, <3>4, <3>5, CoverStays, Zenon
  <2>7. ASSUME NEW i \in DOMAIN running', (i < req_index)'
        PROVE  (running[i] \in Lists \/ Ending(running[i]))'
    <3> PICK r \in Requests : r = running[i] /\ status[r] = "RUNNING"
      BY <1>2, <2>1, Zenon
    <3>1. r = running'[i] /\ (r \in Lists' \/ Ending(r))
      BY <1>3, <2>1, <2>3, <2>7, Zenon
    <3>2. status'[r] = "RUNNING"
      BY <2>5, <3>1, Zenon DEF Elems
    <3>3. Ending(r) => Ending(r)'
      BY <3>2, EndingKeeps, Zenon
    <3> QED BY <3>1, <3>3, Zenon
  <2> QED BY <1>3, <2>6, <2>7, Zenon DEF CoverInv
<1>11. ASSUME running_done, Quiet PROVE CoverInv'
  <2>1. /\ pc = "running" /\ pc' \in {"waiting", "finish"}
        /\ req_index > Len(running) \/ token_budget <= 0
        /\ UNCHANGED <<status, row, scheduled_new_reqs, scheduled_resumed_reqs,
                       scheduled_running_reqs>>
    BY <1>11, Zenon DEF running_done, Quiet, reqVars, outVars, workerVars
  <2>2. req_index > Len(running)
    <3>1. req_index <= Len(running) => token_budget >= TokenBudget - req_index + 1
      BY <1>pc, Zenon DEF ChunkInv
    <3> QED BY <1>0, <1>1, <2>1, <3>1, SMTT(30)
  <2>3. Fresh' = Fresh /\ Lists' = Lists
    BY <2>1, Zenon DEF Fresh, Lists
  <2>4. ~Loaded' /\ pc' # "alloc" /\ pc' \notin {"running", "alloc"}
    BY <2>1 DEF Loaded
  <2>5. ASSUME NEW r \in Requests, status'[r] = "RUNNING"
        PROVE  CoverOf(r)'
    <3>1. PICK i \in DOMAIN running : running[i] = r
      BY <1>2, <2>1, <2>5, Zenon
    <3>2. i < req_index
      BY <1>1, <2>2, SMTT(30)
    <3>3. status[r] = "RUNNING" /\ CoverOf(r) /\ (r \in Lists' \/ Ending(r))
      BY <1>3, <2>1, <2>3, <2>5, <3>1, <3>2, Zenon
    <3> QED BY <1>4, <2>1, <2>3, <2>4, <2>5, <3>3, CoverStays, Zenon
  <2> QED BY <1>3, <2>4, <2>5, Zenon DEF CoverInv
<1> QED BY <1>7, <1>8, <1>9, <1>10, <1>11, Zenon

\* Every step keeps CoverInv.
LEMMA CoverKeeps ==
  ASSUME DefaultScheduling, IInv, QInv, SInv, LenInv, GapInv, ChunkInv, CoverInv, QInv',
         [Next]_vars
  PROVE  CoverInv'
<1>0. /\ pause_state' = "UNPAUSED"
      /\ \A r \in Requests : status[r] = "RUNNING" => CoverOf(r)
  BY NeverPaused, Zenon DEF DefaultScheduling, CoverInv
<1>1. \A r \in Requests : status'[r] = "RUNNING" => status[r] = "RUNNING" \/ (waiting_admit /\ Quiet)
  BY Admitted, Zenon
\* A step that ends outside the running loop
<1>2. ASSUME pc' \notin {"running", "alloc"},
             \A r \in Requests : status[r] = "RUNNING" /\ status'[r] = "RUNNING" => CoverOf(r)'
      PROVE  CoverInv'
  <2>1. ASSUME NEW r \in Requests, status'[r] = "RUNNING"
        PROVE  CoverOf(r)'
    BY <1>1, <1>2, <2>1, AdmitKeepsCover, Zenon
  <2> QED BY <1>0, <1>2, <2>1, Zenon DEF CoverInv
\* Up to the forward pass
<1>3. ASSUME UNCHANGED <<row, scheduled_new_reqs, scheduled_resumed_reqs, scheduled_running_reqs>>,
             ~Loaded, pc' \notin {"running", "alloc"}, ~Loaded',
             pc' \in {"waiting", "finish", "execute"} => pc \in {"waiting", "finish", "execute"}
      PROVE  CoverInv'
  <2>1. ASSUME NEW r \in Requests, status[r] = "RUNNING", status'[r] = "RUNNING"
        PROVE  CoverOf(r)'
    <3>1. CoverOf(r)
      BY <1>0, <2>1, Zenon
    <3>2. Fresh' = Fresh /\ Lists' = Lists /\ pc' # "alloc"
      <4>1. pc' # "alloc"
        BY <1>3, SMTT(30)
      <4> QED BY <1>3, <4>1, Zenon DEF Fresh, Lists
    <3>3. pc \in {"waiting", "finish", "execute"} => r \in Lists \/ Ending(r)
      <4>1. pc \in {"waiting", "finish", "execute"} => pc \in {"waiting", "finish"} \/ InExecute
        BY DEF InExecute
      <4> QED BY <3>1, <4>1, Zenon DEF CoverOf
    <3> QED BY <1>3, <2>1, <3>1, <3>2, <3>3, CoverStays, Zenon
  <2> QED BY <1>2, <1>3, <2>1, Zenon
<1>4. ASSUME start_schedule, Quiet PROVE CoverInv'
  <2>1. /\ pc = "idle" /\ pc' = "running"
        /\ UNCHANGED <<status, running, req_index, row, scheduled_new_reqs, scheduled_resumed_reqs,
                       scheduled_running_reqs>>
    BY <1>4, Zenon DEF start_schedule, Quiet, reqVars, queueVars, outVars, workerVars
  <2>2. ~Loaded /\ ~Loaded' /\ pc' # "alloc" /\ pc' \notin {"waiting", "finish", "execute"}
        /\ ~InSchedule /\ ~InExecute
    BY <2>1 DEF Loaded, InSchedule, InExecute
  <2>3. Fresh' = Fresh
    BY <2>1, Zenon DEF Fresh
  <2>4. ASSUME NEW r \in Requests, status'[r] = "RUNNING"
        PROVE  CoverOf(r)'
    BY <1>0, <2>1, <2>2, <2>3, <2>4, CoverStays, Zenon
  <2>5. req_index' = 1
    BY <2>1, <2>2, Zenon DEF SInv, ListInv
  <2>6. ASSUME NEW i \in DOMAIN running' PROVE ~(i < req_index')
    <3>1. i \in 1..Len(running)
      BY <2>1, <2>6, RunningFacts, Zenon
    <3> QED BY <2>5, <3>1, RunningFacts, SMTT(30)
  <2> QED BY <1>0, <2>4, <2>6, Zenon DEF CoverInv
<1>5. ASSUME waiting_admit, Quiet PROVE CoverInv'
  <2>1. pc' = "waiting"
    BY <1>5, Zenon DEF waiting_admit, InWaitingLoop
  <2>2. pc' \notin {"running", "alloc"}
    BY <2>1
  <2> QED BY <1>2, <1>5, <2>2, AdmitKeepsCover, Zenon
<1>6. ASSUME (waiting_done /\ Quiet) \/ FinishSchedule PROVE CoverInv'
  <2>1. /\ pc \in {"waiting", "finish"} /\ pc' \in {"finish", "execute"}
        /\ UNCHANGED <<row, scheduled_new_reqs, scheduled_resumed_reqs, scheduled_running_reqs>>
    BY <1>6, Zenon DEF waiting_done, Quiet, FinishSchedule, finish_schedule, outVars, workerVars
  <2>2. ~Loaded /\ ~Loaded' /\ pc' \notin {"running", "alloc"}
        /\ pc \in {"waiting", "finish", "execute"}
    BY <2>1 DEF Loaded
  <2> QED BY <1>3, <2>1, <2>2, Zenon
<1>7. ASSUME ExecuteStep PROVE CoverInv'
  <2>1. ASSUME EndExecute PROVE CoverInv'
    <3>1. pc' \notin {"running", "alloc"}
      BY <2>1 DEF EndExecute
    <3> QED BY <1>0, <1>2, <2>1, <3>1, CoverAfter, Zenon
  <2>2. ASSUME update_states \/ skive_check \/ \E r \in Requests : evict_request_blocks(r)
        PROVE  CoverInv'
    <3>1. /\ pc \in {"execute", "hook", "end"} /\ pc' \in {"hook", "end"}
          /\ UNCHANGED <<scheduled_new_reqs, scheduled_resumed_reqs, scheduled_running_reqs>>
      BY <2>2, Zenon DEF update_states, skive_check, evict_request_blocks, outVars
    <3>2. InExecute /\ Loaded' /\ pc' \notin {"running", "alloc"}
      BY <3>1 DEF InExecute, Loaded
    <3> QED BY <1>0, <1>2, <3>1, <3>2, CoverLoaded, Zenon
  <2> QED BY <1>7, <2>1, <2>2, Zenon DEF ExecuteStep
<1>8. ASSUME UNCHANGED <<row, scheduled_new_reqs, scheduled_resumed_reqs, scheduled_running_reqs>>,
             pc \in {"idle", "aborts", "output", "reclaim", "reset"},
             pc' \in {"idle", "aborts", "output", "reclaim", "reset"}
      PROVE  CoverInv'
  <2>1. ~Loaded /\ ~Loaded' /\ pc' \notin {"running", "alloc"}
        /\ pc' \notin {"waiting", "finish", "execute"}
    BY <1>8, SMTT(30) DEF Loaded
  <2> QED BY <1>3, <1>8, <2>1, Zenon
<1>9. ASSUME OutputStep PROVE CoverInv'
  <2>1. ASSUME NEW r \in Requests, UpdateFromOutput(r) PROVE CoverInv'
    <3>1. /\ pc = "output" /\ pc' = "output"
          /\ UNCHANGED <<row, scheduled_new_reqs, scheduled_resumed_reqs, scheduled_running_reqs>>
      BY <2>1, Zenon DEF UpdateFromOutput, outVars, workerVars
    <3> QED BY <1>8, <3>1, Zenon
  <2>2. ASSUME NEW item \in popped, skive_reclaim(item[1], item[2]) PROVE CoverInv'
    <3>1. /\ pc = "reclaim" /\ pc' = "reclaim"
          /\ UNCHANGED <<row, scheduled_new_reqs, scheduled_resumed_reqs, scheduled_running_reqs>>
      BY <2>2, Zenon DEF skive_reclaim, schedVars, outVars, workerVars
    <3> QED BY <1>8, <3>1, Zenon
  <2>3. ASSUME AwaitOutput \/ TakeOutput \/ PopPending \/ EndStep PROVE CoverInv'
    <3>1. /\ pc \in {"idle", "aborts", "output", "reclaim"}
          /\ pc' \in {"idle", "aborts", "output", "reclaim"}
          /\ UNCHANGED <<row, scheduled_new_reqs, scheduled_resumed_reqs, scheduled_running_reqs>>
      BY <2>3, Zenon DEF AwaitOutput, TakeOutput, PopPending, EndStep, outVars, workerVars
    <3> QED BY <1>8, <3>1, Zenon
  <2> QED BY <1>9, <2>1, <2>2, <2>3, Zenon DEF OutputStep
<1>10. ASSUME ClientStep \/ ResetPreempt \/ ResetDone PROVE CoverInv'
  <2>1. /\ pc \in {"idle", "aborts", "reset"} /\ pc' \in {"idle", "aborts", "reset"}
        /\ UNCHANGED <<row, scheduled_new_reqs, scheduled_resumed_reqs, scheduled_running_reqs>>
    BY <1>10, Zenon DEF ClientStep, AddRequest, add_request, Abort, finish_requests, PauseScheduler,
       ResumeScheduler, set_pause_state, ResetPrefixCache, ResetPreempt, reset_preempt, ResetDone,
       reset_done, outVars, workerVars
  <2> QED BY <1>8, <2>1, Zenon
<1>11. ASSUME UNCHANGED vars PROVE CoverInv'
  <2>1. /\ UNCHANGED <<pc, status, running, req_index, cur, pause_state, row, scheduled_new_reqs,
                       scheduled_resumed_reqs, scheduled_running_reqs>>
        /\ UNCHANGED <<num_tokens, num_output_placeholders, num_computed_tokens>>
    BY <1>11, Zenon DEF vars, schedVars, reqVars, queueVars, loopVars, outVars, workerVars
  <2> QED BY <2>1, Zenon DEF CoverInv, CoverOf, Loaded, Fresh, InBatch, Ending, Lacks, InExecute,
          Lists
<1>12. ASSUME ScheduleStep PROVE CoverInv'
  BY <1>4, <1>5, <1>6, <1>12, LoopKeepsCover, Zenon DEF ScheduleStep
<1> QED BY <1>7, <1>9, <1>10, <1>11, <1>12, Zenon DEF Next, EngineStep, WaitForInput

\* Nothing has run at the start.
LEMMA InitCover ==
  Init => CInv
<1> SUFFICES ASSUME Init
             PROVE  CInv
  OBVIOUS
<1>1. /\ pc = "idle" /\ running = <<>> /\ pause_state = "UNPAUSED"
      /\ \A r \in Requests : status[r] = "NONE"
  BY Zenon DEF Init, SchedInit
<1>2. GapInv
  BY <1>1 DEF GapInv, GapOf, Live
<1>3. TightInv
  BY <1>1 DEF TightInv
<1>4. ChunkInv
  BY <1>1, <1>3, SMTT(30) DEF ChunkInv
<1>5. CoverInv
  BY <1>1 DEF CoverInv
<1> QED BY <1>2, <1>4, <1>5, Zenon DEF CInv

\* Covered requests do not come back to the batch.
LEMMA CoveredStay ==
  ASSUME IInv, QInv, SInv, CoverInv
  PROVE  NoReAdd
<1> SUFFICES ASSUME ~Loaded, NEW r \in scheduled_running_reqs
             PROVE  InBatch(r)
  BY Zenon DEF NoReAdd
<1>1. r \in Elems(running)
  BY Zenon DEF SInv, ListInv, Lists
<1>2. r \in Requests /\ status[r] = "RUNNING"
  BY <1>1, Zenon DEF QInv, QueuesMatchStatus
<1> QED BY <1>2, Zenon DEF CoverInv, CoverOf
=============================================================================
