--------------------------- MODULE ReclaimProofs ----------------------------
(***************************************************************************)
(* Evictions and reclaims: none is left behind, how much a request holds,  *)
(* no reclaim frees a block that a row maps, and a row maps only blocks of *)
(* its own request (StrandInv, HeldInv, UnmapInv, MapInv).                 *)
(***************************************************************************)
EXTENDS PoolProofs

-----------------------------------------------------------------------------
(* Evictions are not left behind *)

LEMMA StrandKeeps ==
  ASSUME ReclaimWorks, IInv, SInv, StrandInv, [Next]_vars
  PROVE  StrandInv'
<1> DEFINE Early == {"idle", "reset", "running", "alloc", "waiting", "finish"}
<1>1. ASSUME UNCHANGED <<batch_queue, pending>>,
             \/ pc \in Early /\ pc' \in Early
             \/ pc' = pc
             \/ pc = "reclaim" /\ pc' = "idle"
             \/ pc' \in {"hook", "end", "aborts", "output"}
      PROVE  StrandInv'
  BY <1>1, Zenon DEF StrandInv, InSchedule
<1>2. CASE ClientStep \/ WaitForInput \/ UNCHANGED vars
  <2>1. UNCHANGED <<batch_queue, pending>>
    BY <1>2, Zenon
       DEF ClientStep, AddRequest, Abort, PauseScheduler, ResumeScheduler, ResetPrefixCache,
                WaitForInput, vars, workerVars, engineVars
  <2>2. pc' = pc \/ (pc = "idle" /\ pc' = "reset")
    BY <1>2, Zenon DEF ClientStep, AddRequest, add_request, Abort, finish_requests,
       PauseScheduler,
                ResumeScheduler, set_pause_state, ResetPrefixCache, WaitForInput, vars, schedVars
  <2> QED BY <1>1, <2>1, <2>2, Zenon
<1>3. CASE ScheduleStep /\ ~FinishSchedule
  <2>1. UNCHANGED <<batch_queue, pending>>
    BY <1>3, Zenon DEF ScheduleStep, Quiet, workerVars, engineVars
  <2>2. pc \in Early /\ pc' \in Early
    BY <1>3, Zenon DEF ScheduleStep, start_schedule, running_skip, running_pick,
       running_allocate,
         running_preempt, running_done, waiting_admit, waiting_done, InRunningLoop, InWaitingLoop
  <2> QED BY <1>1, <2>1, <2>2, Zenon
<1>4. CASE FinishSchedule
  <2>1. /\ batch_queue' = Append(batch_queue, Sampled) /\ pc = "finish" /\ pc' = "execute"
        /\ pending' = pending
    BY <1>4, Zenon DEF FinishSchedule, finish_schedule, workerVars
  <2>2. batch_queue \in Seq(SUBSET Requests) /\ Sampled \in SUBSET Requests
    BY Zenon DEF IInv, TypeOK, EngineTypeOK, Sampled, Scheduled
  <2>3. Len(batch_queue') = Len(batch_queue) + 1 /\ Len(batch_queue) \in Nat
    BY <2>1, <2>2, AppendProperties, LenProperties, Zenon
  <2>4. batch_queue # <<>> => Len(batch_queue) # 0
    BY <2>2, EmptySeq, Zenon
  <2>5. pending = {} \/ batch_queue # <<>>
    BY <2>1, Zenon DEF StrandInv, InSchedule
  <2>6. pending' = {} \/ Len(batch_queue') >= 2
    BY <2>1, <2>3, <2>4, <2>5
  <2> QED BY <2>1, <2>6, Zenon DEF StrandInv, InSchedule
<1>5. CASE update_states /\ UNCHANGED engineVars
  BY <1>1, <1>5, Zenon DEF update_states, engineVars
<1>6. CASE skive_check /\ UNCHANGED engineVars
  BY <1>1, <1>6, Zenon DEF skive_check, engineVars
<1>7. CASE \E r \in Requests : evict_request_blocks(r)
  BY <1>7, Zenon DEF evict_request_blocks, StrandInv, InSchedule
<1>8. CASE EndExecute
  <2>1. pc = "end" /\ pc' \in {"idle", "aborts"} /\ UNCHANGED batch_queue
    BY <1>8, Zenon DEF EndExecute, engineVars
  <2> QED BY <2>1, Zenon DEF StrandInv, InSchedule, SInv, BatchInv, InExecute
<1>9. CASE OutputStep
  BY <1>9, Zenon
     DEF OutputStep, AwaitOutput, TakeOutput, UpdateFromOutput, PopPending, skive_reclaim,
       EndStep, StrandInv, InSchedule, workerVars, engineVars, schedVars
<1>10. CASE ResetPreempt \/ ResetDone
  BY <1>1, <1>10, Zenon DEF ResetPreempt, ResetDone, workerVars, engineVars
<1> QED BY <1>2, <1>3, <1>4, <1>5, <1>6, <1>7, <1>8, <1>9, <1>10, Zenon
        DEF Next, EngineStep, ExecuteStep

-----------------------------------------------------------------------------
(* How much a request holds *)

\* A row with fewer real entries counts fewer.
LEMMA RealSubset ==
  ASSUME NEW s \in Seq(Entries), NEW t \in Seq(Entries),
         real_indices(t, NullBlock) \subseteq real_indices(s, NullBlock)
  PROVE  /\ Cardinality(real_indices(t, NullBlock)) <= Cardinality(real_indices(s, NullBlock))
         /\ Cardinality(real_indices(t, NullBlock)) \in Nat
         /\ Cardinality(real_indices(s, NullBlock)) \in Nat
BY RankFacts, FS_Subset, Zenon

\* The sink and the local window leave all but Sink + Local real entries to choose from.
LEMMA CandidatesMany ==
  ASSUME NEW s \in Seq(Entries), NEW sink \in Nat
  PROVE  LET C == candidates(s, NullBlock, sink, Local)
         IN  /\ IsFiniteSet(C) /\ Cardinality(C) \in Nat
             /\ Cardinality(real_indices(s, NullBlock)) - sink - Local <= Cardinality(C)
<1> DEFINE R == real_indices(s, NullBlock)
           n == Cardinality(R)
           rank(j) == RealRank(s, NullBlock, j)
           C == candidates(s, NullBlock, sink, Local)
           N == R \ C
           low == 1..sink
           high == (n - Local + 1)..n
           f == [j \in N |-> rank(j)]
<1>1. /\ IsFiniteSet(R) /\ n \in Nat /\ Local \in Nat
      /\ \A j \in R : rank(j) \in 1..n
      /\ \A i, j \in R : i < j => rank(i) < rank(j)
  BY RankFacts, WorkerAssumption, Zenon
<1>2. C = {j \in R : sink < rank(j) /\ rank(j) <= n - Local}
  BY Zenon DEF candidates
<1>3. R \subseteq Nat
  <2>1. DOMAIN s = 1..Len(s) /\ Len(s) \in Nat
    BY LenProperties, Zenon
  <2> QED BY <2>1 DEF real_indices
<1> HIDE DEF R, C, rank, n
<1>4. \A j \in N : rank(j) \in low \cup high
  BY <1>1, <1>2
<1>5. ASSUME NEW i \in N, NEW j \in N, rank(i) = rank(j)
      PROVE  i = j
  BY <1>1, <1>3, <1>5
<1>6. f \in Injection(N, low \cup high)
  <2>1. f \in [N -> low \cup high]
    BY <1>4, Zenon
  <2>2. \A i, j \in DOMAIN f : f[i] = f[j] => i = j
    BY <1>5, Zenon
  <2> QED BY <2>1, <2>2, Zenon DEF Injection, IsInjective
<1>7. /\ IsFiniteSet(low) /\ Cardinality(low) <= sink /\ Cardinality(low) \in Nat
  <2>1. IsFiniteSet(low) /\ Cardinality(low) = IF 1 > sink THEN 0 ELSE sink - 1 + 1
    BY FS_Interval
  <2> QED BY <2>1
<1>8. /\ IsFiniteSet(high) /\ Cardinality(high) <= Local /\ Cardinality(high) \in Nat
  <2>1. n - Local + 1 \in Int /\ n \in Int
    BY <1>1
  <2>2. /\ IsFiniteSet(high)
        /\ Cardinality(high) = IF n - Local + 1 > n THEN 0 ELSE n - (n - Local + 1) + 1
    BY <2>1, FS_Interval
  <2> QED BY <1>1, <2>2
<1>9. /\ IsFiniteSet(low \cup high) /\ Cardinality(low \cup high) <= sink + Local
      /\ Cardinality(low \cup high) \in Nat
  <2> HIDE DEF low, high
  <2>1. /\ IsFiniteSet(low \cup high)
        /\ Cardinality(low \cup high)
             = Cardinality(low) + Cardinality(high) - Cardinality(low \cap high)
    BY <1>7, <1>8, FS_Union, Zenon
  <2>2. IsFiniteSet(low \cap high) /\ Cardinality(low \cap high) \in Nat
    <3>1. low \cap high \in SUBSET low
      BY Zenon
    <3> QED BY <1>7, <3>1, FS_Subset, FS_CardinalityType, Zenon
  <2> QED BY <1>1, <1>7, <1>8, <2>1, <2>2, FS_CardinalityType, SMTT(30)
<1> HIDE DEF f, low, high
<1>10. IsFiniteSet(N) /\ Cardinality(N) <= Cardinality(low \cup high) /\ Cardinality(N) \in Nat
  BY <1>6, <1>9, FS_Injection, FS_CardinalityType, Zenon
<1>11. /\ IsFiniteSet(C) /\ Cardinality(C) \in Nat /\ R \cap C = C
  <2>1. C \in SUBSET R
    BY <1>2, Zenon
  <2> QED BY <1>1, <2>1, FS_Subset, FS_CardinalityType, Zenon
<1>12. Cardinality(N) = n - Cardinality(C)
  BY <1>1, <1>11, FS_Difference, Zenon DEF n
<1>13. n - sink - Local <= Cardinality(C)
  BY <1>1, <1>9, <1>10, <1>11, <1>12
<1> QED BY <1>11, <1>13, Zenon DEF R, n, C

\* An eviction brings its row down to the budget: the protected entries are within it.
LEMMA EvictedDown ==
  ASSUME NEW s \in Seq(Entries), NEW J \in SUBSET candidates(s, NullBlock, Sink, Local),
         Cardinality(J) = num_to_evict(s, NullBlock, Sink, Local, Budget)
  PROVE  Cardinality(real_indices(NullOut(s, NullBlock, J), NullBlock)) <= Budget
<1> DEFINE R == real_indices(s, NullBlock)
           n == Cardinality(R)
           c == Cardinality(candidates(s, NullBlock, Sink, Local))
<1>0. Sink \in Nat /\ Local \in Nat /\ Budget \in Nat /\ Sink + Local <= Budget
  BY WorkerAssumption DEF ValidEvictionConfig
<1>1. IsFiniteSet(R) /\ n \in Nat
  BY RankFacts, Zenon
<1>2. c \in Nat /\ n - Sink - Local <= c
  BY <1>0, CandidatesMany, Zenon
<1>3. J \in SUBSET R /\ R \cap J = J
  BY Zenon DEF candidates
<1>4. real_indices(NullOut(s, NullBlock, J), NullBlock) = R \ J
  <2> DEFINE t == NullOut(s, NullBlock, J)
  <2>1. /\ DOMAIN t = DOMAIN s
        /\ \A j \in DOMAIN s : t[j] = IF j \in J THEN NullBlock ELSE s[j]
    BY NullOutFacts, Zenon
  <2> HIDE DEF t
  <2>2. real_indices(t, NullBlock) = R \ J
    BY <2>1, Zenon DEF real_indices
  <2> QED BY <2>2, Zenon DEF t
<1>5. Cardinality(R \ J) = n - Cardinality(J)
  <2> HIDE DEF R
  <2>1. Cardinality(R \ J) = Cardinality(R) - Cardinality(R \cap J)
    BY <1>1, FS_Difference, Zenon
  <2> QED BY <1>3, <2>1, Zenon
<1>6. Cardinality(J) = Minimum(Maximum(n - Budget, 0), c)
  BY Zenon DEF num_to_evict
<1> HIDE DEF R, n, c
<1>7. n - Cardinality(J) <= Budget
  BY <1>0, <1>1, <1>2, <1>6, SMTT(30) DEF Minimum, Maximum
<1> QED BY <1>4, <1>5, <1>7, Zenon

\* The bound on the rows: it holds for the rows the hook does not trim, and after a
\* trim.
LEMMA BoundKeeps ==
  ASSUME ~ProtectPrompt, IInv, SInv, BoundInv, [Next]_vars
  PROVE  BoundInv'
<1>0. /\ row \in [Requests -> Seq(Entries)] /\ over_rows \subseteq Requests
      /\ Budget \in Nat /\ Margin \in Nat
  BY WorkerAssumption, Zenon DEF IInv, TypeOK, WorkerTypeOK
<1>1. Most \in Nat /\ Budget <= Most /\ Budget + Margin - 1 <= Most
  BY <1>0 DEF Most, Maximum
<1>2. ASSUME UNCHANGED <<row, over_rows>>, pc = "hook" => pc' = "hook"
      PROVE  BoundInv'
  BY <1>2, Zenon DEF BoundInv, RealCount
<1>3. CASE update_states
  <2>1. /\ pc' = IF Scheduled # {} THEN "hook" ELSE "end"
        /\ row' = [r \in Requests |-> UpdatedRow(r)]
    BY <1>3, Zenon DEF update_states
  <2>2. CASE Scheduled # {}
    BY <2>1, <2>2, Zenon DEF BoundInv
  <2>3. CASE Scheduled = {}
    <3> SUFFICES ASSUME NEW r \in Requests
                 PROVE  RealCount(r)' <= Most
      BY Zenon DEF BoundInv, Most
    <3>1. r \notin Scheduled /\ r \notin scheduled_running_reqs
      BY <2>3, Zenon DEF SInv, TokenInv, TokensOf, Scheduled, Lists
    <3>2. row'[r] = <<>>
      BY <2>1, <3>1, Zenon DEF UpdatedRow
    <3>3. RealCount(r)' = 0
      BY <3>2, FS_EmptySet DEF RealCount, real_indices
    <3> QED BY <1>1, <3>3
  <2> QED BY <2>2, <2>3, Zenon
<1>4. CASE skive_check
  <2>1. /\ over_rows' = IF skive_step' = 0 \/ \E r \in OverBudget : RealCount(r) - Budget >= Margin
                        THEN OverBudget ELSE {}
        /\ row' = row
    BY <1>4, Zenon DEF skive_check
  <2> SUFFICES ASSUME NEW r \in Requests, r \notin over_rows'
               PROVE  RealCount(r) <= Most
    BY <2>1, Zenon DEF BoundInv, Most, RealCount
  <2>2. RealCount(r) \in Nat
    BY <1>0, RankFacts, Zenon DEF RealCount
  <2>3. CASE r \notin OverBudget
    <3>1. ~(RealCount(r) > Budget)
      BY <2>3, Zenon DEF OverBudget
    <3> QED BY <1>0, <1>1, <2>2, <3>1, SMTT(30)
  <2>4. CASE r \in OverBudget
    <3>1. ~(RealCount(r) - Budget >= Margin)
      BY <2>1, <2>4, Zenon
    <3> QED BY <1>0, <1>1, <2>2, <3>1, SMTT(30)
  <2> QED BY <2>3, <2>4, Zenon
<1>5. ASSUME NEW q \in Requests, evict_request_blocks(q)
      PROVE  BoundInv'
  <2>1. PICK J \in SUBSET candidates(row[q], NullBlock, SinkOf(q), Local) :
          /\ Cardinality(J) = num_to_evict(row[q], NullBlock, SinkOf(q), Local, Budget)
          /\ row' = [row EXCEPT ![q] = NullOut(row[q], NullBlock, J)]
    BY <1>5, Zenon DEF evict_request_blocks
  <2>2. SinkOf(q) = Sink
    BY Zenon DEF SinkOf
  <2>3. pc = "end" /\ pc' = "end" /\ over_rows' = over_rows \ {q}
    BY <1>5, Zenon DEF evict_request_blocks
  <2> SUFFICES ASSUME NEW r \in Requests, r \notin over_rows'
               PROVE  RealCount(r)' <= Most
    BY Zenon DEF BoundInv, Most
  <2>4. CASE r # q
    <3>1. RealCount(r)' = RealCount(r)
      BY <1>0, <2>1, <2>4, Zenon DEF RealCount
    <3> QED BY <2>3, <2>4, <3>1, Zenon DEF BoundInv
  <2>5. CASE r = q
    <3>1. row'[r] = NullOut(row[q], NullBlock, J) /\ row[q] \in Seq(Entries)
      BY <1>0, <2>1, <2>5, Zenon
    <3>2. RealCount(r)' <= Budget
      BY <2>1, <2>2, <3>1, EvictedDown, Zenon DEF RealCount
    <3>3. RealCount(r)' \in Nat
      BY <3>1, NullOutFacts, RankFacts, Zenon DEF RealCount
    <3> QED BY <1>0, <1>1, <3>2, <3>3, SMTT(30)
  <2> QED BY <2>4, <2>5, Zenon
<1>6. CASE ~(update_states \/ skive_check \/ \E q \in Requests : evict_request_blocks(q))
  <2>1. UNCHANGED <<row, over_rows>>
    BY <1>6, Zenon DEF Next, EngineStep, ClientStep, ScheduleStep, ExecuteStep, OutputStep,
       ResetPreempt, ResetDone, AddRequest, Abort, PauseScheduler, ResumeScheduler,
       ResetPrefixCache, Quiet, FinishSchedule, EndExecute, AwaitOutput, TakeOutput,
       UpdateFromOutput, PopPending, skive_reclaim, EndStep, WaitForInput, vars, workerVars
  <2>2. pc # "hook" \/ pc' = "hook"
    <3> SUFFICES ASSUME pc = "hook" PROVE pc' = "hook"
      BY Zenon
    <3>1. CASE ClientStep \/ WaitForInput \/ UNCHANGED vars
      BY <3>1, Zenon DEF ClientStep, AddRequest, Abort, PauseScheduler, ResumeScheduler,
         ResetPrefixCache, WaitForInput, vars, schedVars
    <3>2. CASE ScheduleStep
      BY <3>2, Zenon DEF ScheduleStep, start_schedule, running_skip, running_pick,
         running_allocate, running_preempt, running_done, waiting_admit, waiting_done,
         InRunningLoop, InWaitingLoop, FinishSchedule, finish_schedule
    <3>3. CASE ExecuteStep \/ OutputStep \/ ResetPreempt \/ ResetDone
      BY <1>6, <3>3, Zenon DEF ExecuteStep, OutputStep, ResetPreempt, ResetDone, EndExecute,
         AwaitOutput, TakeOutput, UpdateFromOutput, PopPending, skive_reclaim, EndStep
    <3> QED BY <3>1, <3>2, <3>3, Zenon DEF Next, EngineStep
  <2> QED BY <1>2, <2>1, <2>2, Zenon
<1> QED BY <1>3, <1>4, <1>5, <1>6, Zenon

\* The blocks a request holds, when entries are dropped or nulled.
LEMMA HeldShrinks ==
  ASSUME IInv, NEW r \in Requests,
         \/ req_to_blocks'[r] = req_to_blocks[r]
         \/ req_to_blocks'[r] = <<>>
         \/ \E J : req_to_blocks'[r] = NullOut(req_to_blocks[r], NullBlock, J)
  PROVE  HeldCount(r)' <= HeldCount(r) /\ HeldCount(r) \in Nat /\ HeldCount(r)' \in Nat
<1>0. req_to_blocks[r] \in Seq(Entries)
  BY Zenon DEF IInv, TypeOK, KVTypeOK
<1>1. HeldCount(r) \in Nat
  BY <1>0, RankFacts, Zenon DEF HeldCount
<1>2. CASE req_to_blocks'[r] = req_to_blocks[r]
  <2>1. HeldCount(r)' = HeldCount(r)
    BY <1>2, Zenon DEF HeldCount
  <2> QED BY <1>1, <2>1
<1>3. CASE req_to_blocks'[r] = <<>>
  <2>1. HeldCount(r)' = 0
    BY <1>3, FS_EmptySet DEF HeldCount, real_indices
  <2> QED BY <1>1, <2>1
<1>4. ASSUME NEW J, req_to_blocks'[r] = NullOut(req_to_blocks[r], NullBlock, J)
      PROVE  HeldCount(r)' <= HeldCount(r) /\ HeldCount(r)' \in Nat
  <2> DEFINE s == req_to_blocks[r]
             t == req_to_blocks'[r]
  <2>1. /\ t \in Seq(Entries) /\ DOMAIN t = DOMAIN s
        /\ \A j \in DOMAIN s : t[j] = IF j \in J THEN NullBlock ELSE s[j]
    <3> DEFINE u == NullOut(s, NullBlock, J)
    <3>1. /\ u \in Seq(Entries) /\ DOMAIN u = DOMAIN s
          /\ \A j \in DOMAIN s : u[j] = IF j \in J THEN NullBlock ELSE s[j]
      <4>1. s \in Seq(Entries)
        BY <1>0, Zenon
      <4> HIDE DEF s
      <4> QED BY <4>1, NullOutFacts
    <3>2. t = u
      BY <1>4, Zenon
    <3> HIDE DEF s, t, u
    <3> QED BY <3>1, <3>2, Zenon
  <2>2. real_indices(t, NullBlock) \subseteq real_indices(s, NullBlock)
    <3> HIDE DEF s, t
    <3> QED BY <2>1, Zenon DEF real_indices
  <2> QED BY <1>0, <2>1, <2>2, RealSubset, Zenon DEF HeldCount
<1> QED BY <1>1, <1>2, <1>3, <1>4, Zenon

\* Who holds much stays listed, or stays in the batch.
LEMMA HeldUnchanged ==
  ASSUME IInv, NEW r \in Requests, HeldOf(r),
         \/ req_to_blocks'[r] = req_to_blocks[r]
         \/ req_to_blocks'[r] = <<>>
         \/ \E J : req_to_blocks'[r] = NullOut(req_to_blocks[r], NullBlock, J),
         HeldCount(r)' > Most => IF Filling THEN Filling' /\ (r \in Lists => r \in Lists')
                                 ELSE ~Filling' /\ (InBatch(r) => InBatch(r)')
  PROVE  HeldOf(r)'
<1>1. HeldCount(r)' <= HeldCount(r) /\ HeldCount(r) \in Nat /\ HeldCount(r)' \in Nat
  BY HeldShrinks, Zenon
<1>2. Most \in Nat
  BY WorkerAssumption DEF Most, Maximum
<1>3. HeldCount(r)' > Most => HeldCount(r) > Most
  BY <1>1, <1>2
<1> QED BY <1>3, Zenon DEF HeldOf, Most

\* A request that holds no blocks is within the bound.
LEMMA HeldNothing ==
  ASSUME NEW r \in Requests, req_to_blocks[r] = <<>>
  PROVE  ~(HeldCount(r) > Most)
<1>1. HeldCount(r) = 0
  BY FS_EmptySet DEF HeldCount, real_indices
<1>2. Most \in Nat
  BY WorkerAssumption DEF Most, Maximum
<1> QED BY <1>1, <1>2

\* When the reclaim is over, the scheduler holds no block the worker has evicted, and
\* so no more than the rows do.
LEMMA ReclaimedBound ==
  ASSUME IInv, QInv, SInv, TInv, StrandInv, BoundInv, HeldInv, EndStep,
         NEW r \in Requests
  PROVE  ~(HeldCount(r) > Most)
<1> SUFFICES ASSUME HeldCount(r) > Most PROVE FALSE
  BY Zenon
<1>1. pc = "reclaim" /\ popped = {} /\ pending = {} /\ over_rows = {}
  BY Zenon DEF EndStep, StrandInv, SInv, BatchInv
<1>2. ~InSchedule /\ ~InExecute /\ ~Loaded /\ ~Filling
  BY <1>1, Zenon DEF InSchedule, InExecute, Loaded, Filling
<1>3. InBatch(r)
  BY <1>2, Zenon DEF HeldInv, HeldOf
<1>4. status[r] = "RUNNING"
  BY HeldNothing, Zenon DEF QInv, QueuesMatchStatus
<1>5. Lists = {} /\ r \notin Fresh /\ req_to_new_blocks[r] = <<>>
  BY <1>2, Zenon DEF SInv, ListInv, TokenInv, TokensOf, Lists, Fresh
<1>6. LenOf(r) /\ RecordOf(r) /\ RealCount(r) <= Most
  BY <1>1, Zenon DEF TInv, LenInv, RecordInv, BoundInv
<1>7. row[r] \in Seq(Entries) /\ req_to_blocks[r] \in Seq(Entries)
  BY Zenon DEF IInv, TypeOK, KVTypeOK, WorkerTypeOK
<1>8. Len(row[r]) = Len(req_to_blocks[r])
  <2>1. /\ Len(req_to_blocks[r]) = CeilDiv(Pre(r), BlockSize) + Len(req_to_new_blocks[r])
        /\ Len(row[r]) = CeilDiv(Pre(r), BlockSize)
    BY <1>2, <1>3, <1>4, <1>5, <1>6, Zenon DEF LenOf
  <2>2. Len(req_to_new_blocks[r]) = 0 /\ Len(row[r]) \in Nat
    BY <1>5, <1>7, LenProperties, EmptySeq, SMTT(30)
  <2> QED BY <2>1, <2>2
<1>9. DOMAIN row[r] = DOMAIN req_to_blocks[r]
  BY <1>7, <1>8, LenProperties, Zenon
<1>10. real_indices(req_to_blocks[r], NullBlock) \subseteq real_indices(row[r], NullBlock)
  BY <1>1, <1>5, <1>6, <1>9, Zenon DEF RecordOf, real_indices
<1>11. /\ HeldCount(r) <= RealCount(r) /\ HeldCount(r) \in Nat /\ RealCount(r) \in Nat
  BY <1>7, <1>10, RealSubset, Zenon DEF HeldCount, RealCount
<1>12. Most \in Nat
  BY WorkerAssumption DEF Most, Maximum
<1> QED BY <1>6, <1>11, <1>12

\* The bound on the pool is kept by every step of a synchronous engine that reclaims.
LEMMA HeldKeeps ==
  ASSUME ~Async, ReclaimWorks, IInv, QInv, SInv, TInv, StrandInv, BoundInv, HeldInv,
         LenInv', [Next]_vars
  PROVE  HeldInv'
<1> SUFFICES ASSUME NEW r \in Requests
             PROVE  HeldOf(r)'
  BY Zenon DEF HeldInv
<1>0. /\ HeldOf(r) /\ req_to_blocks \in [Requests -> Seq(Entries)]
      /\ row \in [Requests -> Seq(Entries)]
  BY Zenon DEF HeldInv, IInv, TypeOK, KVTypeOK, WorkerTypeOK
<1> DEFINE Kept == \/ req_to_blocks'[r] = req_to_blocks[r]
                   \/ req_to_blocks'[r] = <<>>
                   \/ \E J : req_to_blocks'[r] = NullOut(req_to_blocks[r], NullBlock, J)
<1>1. ASSUME Kept, IF Filling THEN Filling' /\ (r \in Lists => r \in Lists')
                              ELSE ~Filling' /\ (InBatch(r) => InBatch(r)')
      PROVE  HeldOf(r)'
  BY <1>0, <1>1, HeldUnchanged, Zenon
<1>2. CASE ClientStep \/ WaitForInput \/ UNCHANGED vars
  <2>1. Kept
    BY <1>0, <1>2, Zenon DEF ClientStep, AddRequest, add_request, Abort, finish_requests,
       free_request, kv_free, PauseScheduler, ResumeScheduler, set_pause_state,
       ResetPrefixCache, WaitForInput, vars, kvVars
  <2>2. pc' = pc \/ (pc = "idle" /\ pc' = "reset")
    BY <1>2, Zenon DEF ClientStep, AddRequest, add_request, Abort, finish_requests,
       PauseScheduler, ResumeScheduler, set_pause_state, ResetPrefixCache, WaitForInput, vars,
       schedVars
  <2>3. UNCHANGED <<row, scheduled_new_reqs, scheduled_resumed_reqs, scheduled_running_reqs>>
    BY <1>2, Zenon DEF ClientStep, AddRequest, add_request, Abort, finish_requests,
       PauseScheduler, ResumeScheduler, set_pause_state, ResetPrefixCache, WaitForInput, vars,
       schedVars, outVars, workerVars
  <2> QED BY <1>1, <2>1, <2>2, <2>3, Zenon DEF Filling, InSchedule, Lists, InBatch
<1>3. CASE running_allocate /\ Quiet
  <2>1. PICK nb \in Seq(Blocks) :
          req_to_blocks' = [req_to_blocks EXCEPT ![cur] = req_to_blocks[cur] \o nb]
    BY <1>3, RunningAllocateFacts, Zenon
  <2>2. /\ pc = "alloc" /\ pc' = "running"
        /\ scheduled_running_reqs' = scheduled_running_reqs \cup {cur}
        /\ UNCHANGED <<scheduled_new_reqs, scheduled_resumed_reqs>>
    BY <1>3, Zenon DEF running_allocate
  <2>3. CASE r = cur
    BY <2>2, <2>3, Zenon DEF HeldOf, Filling, InSchedule, Lists
  <2>4. CASE r # cur
    <3>1. req_to_blocks'[r] = req_to_blocks[r]
      BY <1>0, <2>1, <2>4, Zenon
    <3> QED BY <1>1, <2>2, <3>1, Zenon DEF Filling, InSchedule, Lists
  <2> QED BY <2>3, <2>4, Zenon
<1>4. CASE waiting_admit /\ Quiet
  <2>1. PICK q \in Requests, nb \in Seq(Blocks) :
          /\ req_to_blocks' = [req_to_blocks EXCEPT ![q] = nb]
          /\ scheduled_new_reqs' \cup scheduled_resumed_reqs'
               = scheduled_new_reqs \cup scheduled_resumed_reqs \cup {q}
    BY <1>4, WaitingAdmitFacts, Zenon
  <2>2. pc = "waiting" /\ pc' = "waiting" /\ UNCHANGED scheduled_running_reqs
    BY <1>4, Zenon DEF waiting_admit, InWaitingLoop
  <2>3. CASE r = q
    BY <2>1, <2>2, <2>3, Zenon DEF HeldOf, Filling, InSchedule, Lists
  <2>4. CASE r # q
    <3>1. req_to_blocks'[r] = req_to_blocks[r]
      BY <1>0, <2>1, <2>4, Zenon
    <3> QED BY <1>1, <2>1, <2>2, <3>1, Zenon DEF Filling, InSchedule, Lists
  <2> QED BY <2>3, <2>4, Zenon
<1>5. CASE running_preempt /\ Quiet
  <2>1. PICK v \in Requests :
          /\ req_to_blocks' = [req_to_blocks EXCEPT ![v] = <<>>]
          /\ IF Unschedule(v) THEN scheduled_running_reqs' = scheduled_running_reqs \ {v}
                              ELSE UNCHANGED scheduled_running_reqs
          /\ pc' = pc \/ pc' = "finish"
    BY <1>5, Zenon DEF running_preempt, preempt_request, kv_free
  <2>2. pc = "alloc" /\ UNCHANGED <<scheduled_new_reqs, scheduled_resumed_reqs>>
    BY <1>5, Zenon DEF running_preempt
  <2>3. CASE r = v
    <3>1. req_to_blocks'[r] = <<>>
      BY <1>0, <2>1, <2>3, Zenon
    <3>2. ~(HeldCount(r)' > Most)
      <4>1. HeldCount(r)' = 0
        BY <3>1, FS_EmptySet, SMTT(30) DEF HeldCount, real_indices
      <4>2. Most \in Nat
        BY WorkerAssumption DEF Most, Maximum
      <4> QED BY <4>1, <4>2
    <3> QED BY <3>2, Zenon DEF HeldOf, Most
  <2>4. CASE r # v
    <3>1. req_to_blocks'[r] = req_to_blocks[r]
      BY <1>0, <2>1, <2>4, Zenon
    <3> QED BY <1>1, <2>1, <2>2, <2>4, <3>1, Zenon DEF Filling, InSchedule, Lists
  <2> QED BY <2>3, <2>4, Zenon
<1>6. CASE \/ start_schedule \/ running_skip \/ running_pick \/ running_done \/ waiting_done
           \/ FinishSchedule
  <2>1. UNCHANGED <<req_to_blocks, scheduled_new_reqs, scheduled_resumed_reqs,
                    scheduled_running_reqs>>
    BY <1>6, Zenon DEF start_schedule, running_skip, running_pick, running_done,
       waiting_done, FinishSchedule, finish_schedule, kvVars, outVars
  <2>2. Filling /\ Filling'
    BY <1>6, Zenon DEF start_schedule, running_skip, running_pick, running_done,
       waiting_done, FinishSchedule, finish_schedule, InRunningLoop, Filling, InSchedule
  <2> QED BY <1>1, <2>1, <2>2, Zenon DEF Lists
<1>7. CASE update_states /\ UNCHANGED engineVars
  <2>1. /\ pc = "execute" /\ pc' \in {"hook", "end"} /\ UNCHANGED <<kvVars, reqVars, outVars>>
        /\ UNCHANGED running
    BY <1>7, Zenon DEF update_states, queueVars
  <2>2. Filling /\ ~Filling' /\ Loaded'
    BY <2>1, Zenon DEF Filling, InSchedule, Loaded
  <2> SUFFICES ASSUME HeldCount(r)' > Most
               PROVE  row'[r] # <<>>
    BY <2>2, Zenon DEF HeldOf, InBatch, Most
  <2>3. HeldCount(r) > Most /\ r \in Lists
    BY <1>0, <2>1, <2>2, Zenon DEF HeldOf, HeldCount, kvVars
  <2>4. status'[r] = "RUNNING" /\ r \in Scheduled'
    BY <2>1, <2>3, Zenon DEF SInv, ListInv, TokenInv, TokensOf, QInv, QueuesMatchStatus,
       reqVars, outVars, Scheduled
  <2>5. Len(row'[r]) = Len(req_to_blocks'[r])
    BY <2>2, <2>4, Zenon DEF LenInv, LenOf
  <2>6. req_to_blocks'[r] # <<>> /\ req_to_blocks'[r] \in Seq(Entries)
    BY <1>0, <2>1, <2>3, HeldNothing, Zenon DEF kvVars
  <2>7. Len(req_to_blocks'[r]) # 0 /\ Len(<<>>) = 0
    BY <2>6, EmptySeq, Zenon
  <2> QED BY <2>5, <2>7, Zenon
<1>8. CASE skive_check /\ UNCHANGED engineVars
  BY <1>1, <1>8, Zenon DEF skive_check, kvVars, Filling, InSchedule, InBatch
<1>9. ASSUME NEW q \in Requests, evict_request_blocks(q)
      PROVE  HeldOf(r)'
  <2>1. PICK J : row' = [row EXCEPT ![q] = NullOut(row[q], NullBlock, J)]
    BY <1>9, Zenon DEF evict_request_blocks
  <2>2. pc = "end" /\ pc' = "end" /\ UNCHANGED req_to_blocks
    BY <1>9, Zenon DEF evict_request_blocks, kvVars
  <2>3. InBatch(r) => InBatch(r)'
    <3>1. CASE r # q
      BY <1>0, <2>1, <3>1, Zenon DEF InBatch
    <3>2. CASE r = q
      <4>1. row'[r] = NullOut(row[r], NullBlock, J) /\ row[r] \in Seq(Entries)
        BY <1>0, <2>1, <3>2, Zenon
      <4>2. row'[r] \in Seq(Entries) /\ Len(row'[r]) = Len(row[r])
        BY <4>1, NullOutFacts
      <4>3. row[r] # <<>> => Len(row[r]) # 0
        BY <4>1, EmptySeq, Zenon
      <4> QED BY <4>2, <4>3, EmptySeq, Zenon DEF InBatch
    <3> QED BY <3>1, <3>2, Zenon
  <2> QED BY <1>1, <2>2, <2>3, Zenon DEF Filling, InSchedule
<1>10. CASE EndExecute
  <2>1. pc = "end" /\ UNCHANGED <<req_to_blocks, row>>
    BY <1>10, Zenon DEF EndExecute, kvVars, workerVars
  <2>2. batch_queue # <<>> /\ batch_queue \in Seq(SUBSET Requests)
    BY <2>1, Zenon DEF SInv, BatchInv, InExecute, IInv, TypeOK, EngineTypeOK
  <2>3. Len(batch_queue) \in Nat /\ Len(batch_queue) # 0 /\ BatchQueueSize = 1
    BY <2>2, LenProperties, EmptySeq, Zenon DEF BatchQueueSize
  <2>4. ~(Len(batch_queue) < BatchQueueSize)
    BY <2>3
  <2>5. pc' = "aborts"
    BY <1>10, <2>4, Zenon DEF EndExecute
  <2> QED BY <1>1, <2>1, <2>5, Zenon DEF Filling, InSchedule, InBatch
<1>11. CASE AwaitOutput
  <2>1. /\ pc = "idle" /\ req_to_blocks' = req_to_blocks
    BY <1>11, Zenon DEF AwaitOutput, kvVars
  <2>2. Lists = {} /\ Filling
    BY <2>1, Zenon DEF SInv, ListInv, InSchedule, InExecute, Filling
  <2>3. ~(HeldCount(r) > Most)
    BY <1>0, <2>2, Zenon DEF HeldOf
  <2> QED BY <2>1, <2>3, Zenon DEF HeldOf, HeldCount, Most
<1>12. CASE TakeOutput \/ PopPending
  BY <1>1, <1>12, Zenon
     DEF TakeOutput, PopPending, kvVars, workerVars, Filling, InSchedule, InBatch
<1>13. ASSUME NEW q \in Requests, UpdateFromOutput(q)
       PROVE  HeldOf(r)'
  <2>1. Kept
    BY <1>0, <1>13, Zenon DEF UpdateFromOutput, update_from_output, free_request, kv_free, kvVars
  <2>2. pc = "output" /\ pc' = pc /\ UNCHANGED row
    BY <1>13, Zenon DEF UpdateFromOutput, workerVars
  <2> QED BY <1>1, <2>1, <2>2, Zenon DEF Filling, InSchedule, InBatch
<1>14. ASSUME NEW item \in popped, skive_reclaim(item[1], item[2])
       PROVE  HeldOf(r)'
  <2>1. Kept
    BY <1>0, <1>14, Zenon DEF skive_reclaim, FreeEntry, kvVars
  <2>2. pc = "reclaim" /\ pc' = pc /\ UNCHANGED row
    BY <1>14, Zenon DEF skive_reclaim, schedVars, workerVars
  <2> QED BY <1>1, <2>1, <2>2, Zenon DEF Filling, InSchedule, InBatch
<1>15. CASE EndStep
  <2>1. ~(HeldCount(r) > Most)
    BY <1>15, ReclaimedBound, Zenon
  <2> QED BY <1>15, <2>1, Zenon DEF EndStep, kvVars, HeldOf, HeldCount, Most
<1>16. CASE ResetPreempt \/ ResetDone
  <2>1. Kept
    BY <1>0, <1>16, Zenon
       DEF ResetPreempt, reset_preempt, preempt_request, kv_free, ResetDone, reset_done, kvVars
  <2>2. pc = "reset" /\ pc' \in {"reset", "idle"}
        /\ UNCHANGED <<scheduled_new_reqs, scheduled_resumed_reqs, scheduled_running_reqs>>
    BY <1>16, Zenon DEF ResetPreempt, reset_preempt, ResetDone, reset_done, outVars
  <2> QED BY <1>1, <2>1, <2>2, Zenon DEF Filling, InSchedule, Lists
<1>17. CASE ScheduleStep
  BY <1>3, <1>4, <1>5, <1>6, <1>17, Zenon DEF ScheduleStep
<1>18. CASE ExecuteStep \/ OutputStep
  BY <1>7, <1>8, <1>9, <1>10, <1>11, <1>12, <1>13, <1>14, <1>15, <1>18, Zenon
     DEF ExecuteStep, OutputStep
<1> QED BY <1>2, <1>16, <1>17, <1>18, Zenon DEF Next, EngineStep

\* Nothing is held at the start.
LEMMA InitHeld == Init => BoundInv /\ HeldInv
<1> SUFFICES ASSUME Init, NEW r \in Requests
             PROVE  RealCount(r) <= Most /\ HeldOf(r)
  BY Zenon DEF BoundInv, HeldInv
<1>1. row[r] = <<>> /\ req_to_blocks[r] = <<>>
  BY Zenon DEF Init, WorkerInit, KVInit
<1>2. RealCount(r) = 0 /\ Most \in Nat
  BY <1>1, FS_EmptySet, WorkerAssumption, SMTT(30) DEF RealCount, real_indices, Most, Maximum
<1> QED BY <1>1, <1>2, HeldNothing DEF HeldOf

-----------------------------------------------------------------------------
(* Evictions and reclaims of the same entry *)

\* The steps that lead into the phases where the worker has the batch.
LEMMA LoadedSteps ==
  ASSUME [Next]_vars, Loaded'
  PROVE  \/ update_states /\ UNCHANGED engineVars
         \/ skive_check /\ UNCHANGED engineVars
         \/ \E q \in Requests : evict_request_blocks(q) /\ UNCHANGED engineVars
         \/ UNCHANGED vars
<1>1. CASE ClientStep \/ WaitForInput
  BY <1>1, Zenon DEF ClientStep, AddRequest, add_request, Abort, finish_requests,
     PauseScheduler, ResumeScheduler, set_pause_state, ResetPrefixCache, WaitForInput, Loaded
<1>2. CASE ScheduleStep
  BY <1>2, Zenon DEF ScheduleStep, start_schedule, running_skip, running_pick, running_allocate,
     running_preempt, running_done, waiting_admit, waiting_done, FinishSchedule,
     finish_schedule, InRunningLoop, InWaitingLoop, Loaded
<1>3. CASE ExecuteStep
  BY <1>3, Zenon DEF ExecuteStep, EndExecute, Loaded
<1>4. CASE OutputStep
  BY <1>4, Zenon DEF OutputStep, AwaitOutput, TakeOutput, UpdateFromOutput, PopPending,
     skive_reclaim, EndStep, schedVars, Loaded
<1>5. CASE ResetPreempt \/ ResetDone
  BY <1>5, Zenon DEF ResetPreempt, ResetDone, Loaded
<1> QED BY <1>1, <1>2, <1>3, <1>4, <1>5, Zenon DEF Next, EngineStep

\* A row over budget is not empty.
LEMMA OverInBatch ==
  ASSUME NEW r \in OverBudget
  PROVE  InBatch(r)
<1> SUFFICES ASSUME row[r] = <<>> PROVE FALSE
  BY Zenon DEF InBatch
<1>1. RealCount(r) > Budget
  BY Zenon DEF OverBudget
<1>2. RealCount(r) = 0
  BY FS_EmptySet DEF RealCount, real_indices
<1>3. Budget \in Nat
  BY WorkerAssumption, Zenon
<1> QED BY <1>1, <1>2, <1>3, SMTT(30)

\* What an eviction does to one row.
LEMMA EvictFacts ==
  ASSUME IInv, NEW q \in Requests, evict_request_blocks(q)
  PROVE  \E J \in SUBSET DOMAIN row[q] :
           /\ pending' = pending \cup Records(q, J)
           /\ \A r \in Requests :
                /\ DOMAIN row'[r] = DOMAIN row[r]
                /\ InBatch(r)' <=> InBatch(r)
                /\ \A j \in DOMAIN row[r] :
                     row'[r][j] = IF r = q /\ j \in J THEN NullBlock ELSE row[r][j]
<1>1. PICK J \in SUBSET candidates(row[q], NullBlock, SinkOf(q), Local) :
        /\ row' = [row EXCEPT ![q] = NullOut(row[q], NullBlock, J)]
        /\ pending' = pending \cup Records(q, J)
  BY Zenon DEF evict_request_blocks
<1>2. row \in [Requests -> Seq(Entries)]
  BY Zenon DEF IInv, TypeOK, WorkerTypeOK
<1>3. J \in SUBSET DOMAIN row[q]
  BY Zenon DEF candidates, real_indices
<1>4. ASSUME NEW r \in Requests
      PROVE  /\ DOMAIN row'[r] = DOMAIN row[r]
             /\ InBatch(r)' <=> InBatch(r)
             /\ \A j \in DOMAIN row[r] :
                  row'[r][j] = IF r = q /\ j \in J THEN NullBlock ELSE row[r][j]
  <2>1. CASE r # q
    BY <1>1, <1>2, <2>1, Zenon DEF InBatch
  <2>2. CASE r = q
    <3> DEFINE s == row[q]
    <3>1. row'[r] = NullOut(s, NullBlock, J) /\ s \in Seq(Entries)
      BY <1>1, <1>2, <2>2, Zenon
    <3>2. /\ DOMAIN NullOut(s, NullBlock, J) = DOMAIN s
          /\ \A j \in DOMAIN s : NullOut(s, NullBlock, J)[j] = IF j \in J THEN NullBlock ELSE s[j]
          /\ NullOut(s, NullBlock, J) = <<>> <=> s = <<>>
      <4> HIDE DEF s
      <4> QED BY <3>1, NullOutFacts
    <3> QED BY <2>2, <3>1, <3>2, Zenon DEF InBatch
  <2> QED BY <2>1, <2>2, Zenon
<1> QED BY <1>1, <1>3, <1>4, Zenon

\* Rows of the batch, and rows to trim, are those of scheduled requests.
LEMMA RowsKeep ==
  ASSUME IInv, SInv, RowsInv, [Next]_vars
  PROVE  RowsInv'
<1> SUFFICES ASSUME Loaded', NEW r \in Requests, InBatch(r)' \/ r \in over_rows'
             PROVE  r \in Scheduled'
  BY Zenon DEF RowsInv
<1>1. CASE UNCHANGED vars
  BY <1>1, Zenon
     DEF vars, schedVars, outVars, workerVars, Scheduled, RowsInv, Loaded, InBatch
<1>2. CASE update_states
  <2>1. /\ pc = "execute" /\ row' = [q \in Requests |-> UpdatedRow(q)]
        /\ UNCHANGED <<outVars, over_rows>>
    BY <1>2, Zenon DEF update_states
  <2>2. over_rows' = {} /\ Scheduled' = Scheduled
    BY <2>1, Zenon DEF SInv, BatchInv, outVars, Scheduled
  <2>3. UpdatedRow(r) # <<>>
    BY <2>1, <2>2, Zenon DEF InBatch
  <2>4. r \in scheduled_running_reqs => r \in Scheduled
    BY Zenon DEF SInv, TokenInv, TokensOf, Scheduled, Lists
  <2> QED BY <2>2, <2>3, <2>4, Zenon DEF UpdatedRow
<1>3. CASE skive_check
  <2>1. /\ pc = "hook" /\ UNCHANGED <<row, outVars>> /\ over_rows' \subseteq OverBudget
    BY <1>3, Zenon DEF skive_check
  <2>2. InBatch(r)
    BY <2>1, OverInBatch, Zenon DEF InBatch
  <2> QED BY <2>1, <2>2, Zenon DEF RowsInv, Loaded, outVars, Scheduled
<1>4. ASSUME NEW q \in Requests, evict_request_blocks(q)
      PROVE  r \in Scheduled'
  <2>1. pc = "end" /\ UNCHANGED outVars /\ over_rows' \subseteq over_rows
    BY <1>4, Zenon DEF evict_request_blocks
  <2>2. InBatch(r)' => InBatch(r)
    BY <1>4, EvictFacts, Zenon
  <2> QED BY <2>1, <2>2, Zenon DEF RowsInv, Loaded, outVars, Scheduled
<1> QED BY <1>1, <1>2, <1>3, <1>4, LoadedSteps, Zenon

\* What is popped was unmapped when it was popped, and nothing is mapped until it is
\* reclaimed.
LEMMA PoppedKeeps ==
  ASSUME IInv, SInv, PendingInv, PoppedInv, [Next]_vars
  PROVE  PoppedInv'
<1> SUFFICES ASSUME NEW r \in Requests, NEW j \in Nat, <<r, j>> \in popped'
             PROVE  Unmapped(r, j)'
  BY Zenon DEF PoppedInv
<1>1. CASE PopPending
  <2>1. popped = {} /\ pc = "output"
    BY <1>1, Zenon DEF PopPending, SInv, BatchInv
  <2>2. <<r, j>> \in pending /\ UNCHANGED <<row, status>>
    BY <1>1, <2>1, Zenon DEF PopPending, reqVars
  <2> QED BY <2>1, <2>2, Zenon DEF PendingInv, PendingOf, Unmapped
<1>2. CASE UNCHANGED vars \/ WaitForInput
  BY <1>2, Zenon DEF WaitForInput, vars, schedVars, reqVars, workerVars, engineVars, PoppedInv,
     Unmapped
<1>3. ASSUME NEW item \in popped, skive_reclaim(item[1], item[2])
      PROVE  Unmapped(r, j)'
  <2>1. popped' \subseteq popped /\ UNCHANGED <<row, status>>
    BY <1>3, Zenon DEF skive_reclaim, schedVars, reqVars, workerVars
  <2> QED BY <2>1, Zenon DEF PoppedInv, Unmapped
<1>4. ASSUME popped' = popped, pc # "reclaim" \/ popped = {}
      PROVE  FALSE
  BY <1>4, Zenon DEF SInv, BatchInv
<1>5. CASE ClientStep \/ ResetPreempt \/ ResetDone
  BY <1>4, <1>5, Zenon DEF ClientStep, AddRequest, Abort, PauseScheduler, ResumeScheduler,
     ResetPrefixCache, ResetPreempt, ResetDone, engineVars
<1>6. CASE ScheduleStep
  BY <1>4, <1>6, Zenon DEF ScheduleStep, start_schedule, running_skip, running_pick,
     running_allocate, running_preempt, running_done, waiting_admit, waiting_done, Quiet,
     FinishSchedule, finish_schedule, InRunningLoop, InWaitingLoop, engineVars
<1>7. CASE ExecuteStep
  BY <1>4, <1>7, Zenon DEF ExecuteStep, update_states, skive_check, evict_request_blocks,
     EndExecute, engineVars
<1>8. CASE AwaitOutput \/ TakeOutput \/ EndStep \/ \E q \in Requests : UpdateFromOutput(q)
  BY <1>4, <1>8, Zenon DEF AwaitOutput, TakeOutput, EndStep, UpdateFromOutput, engineVars
<1> QED BY <1>1, <1>2, <1>3, <1>5, <1>6, <1>7, <1>8, Zenon DEF Next, EngineStep, OutputStep

\* A recorded eviction when neither the row of its request nor the batches change.
LEMMA PendingUnchanged ==
  ASSUME NEW r \in Requests, NEW j \in Nat, PendingOf(r, j),
         row'[r] = row[r], UNCHANGED batch_queue,
         \/ status'[r] = status[r]
         \/ status'[r] = "FINISHED" /\ ~Loaded
         \/ status'[r] = "PREEMPTED" /\ preempted' /\ Filling /\ Filling',
         Filling' => (preempted => preempted') /\ (r \in Fresh' => r \in Fresh),
         \/ pc' = pc
         \/ Filling /\ Filling' /\ pc' # "reset"
         \/ pc = "hook" /\ pc' = "end"
         \/ pc \in {"idle", "aborts"} /\ pc' \in {"aborts", "output"}
  PROVE  PendingOf(r, j)'
<1>1. /\ Filling \/ Loaded \/ pc = "aborts" \/ pc' = pc
      /\ Filling' => Filling
      /\ Loaded' => Loaded
      /\ Loaded => ~Filling
      /\ pc' \in {"aborts", "output", "reclaim"} => Filling \/ pc \in {"aborts", "output", "reclaim"}
  BY Zenon DEF Filling, InSchedule, Loaded
<1>2. pc' # "reset"
  BY Zenon DEF PendingOf
<1>3. status'[r] \in {"RUNNING", "PREEMPTED", "FINISHED"}
  BY Zenon DEF PendingOf
<1>4. Nulled(r, j)' <=> Nulled(r, j)
  BY Zenon DEF Nulled
<1>5. ASSUME Filling'
      PROVE  /\ status'[r] = "PREEMPTED" => preempted'
             /\ status'[r] = "RUNNING" => r \notin Fresh' /\ Nulled(r, j)'
  BY <1>1, <1>4, <1>5, Zenon DEF PendingOf
<1>6. ASSUME Loaded' \/ pc' \in {"aborts", "output", "reclaim"}
      PROVE  Unmapped(r, j)'
  BY <1>1, <1>6, Zenon DEF PendingOf, Unmapped, Nulled
<1>7. ASSUME Loaded', Len(batch_queue') < BatchQueueSize
      PROVE  status'[r] = "RUNNING" /\ Nulled(r, j)'
  BY <1>1, <1>4, <1>7, Zenon DEF PendingOf
<1> QED BY <1>2, <1>3, <1>5, <1>6, <1>7, Zenon DEF PendingOf, BatchQueueSize

\* The batch of the next step leaves the nulled entries of a row alone.
LEMMA UpdateKeepsPending ==
  ASSUME IInv, QInv, SInv, RealInv, StrandInv, update_states, UNCHANGED engineVars,
         NEW r \in Requests, NEW j \in Nat, <<r, j>> \in pending, PendingOf(r, j)
  PROVE  PendingOf(r, j)'
<1>0. /\ pc = "execute" /\ pc' \in {"hook", "end"}
      /\ row' = [q \in Requests |-> UpdatedRow(q)]
      /\ UNCHANGED <<status, batch_queue, outVars>>
  BY Zenon DEF update_states, engineVars, reqVars
<1>1. ~(Len(batch_queue') < BatchQueueSize)
  <2>1. Len(batch_queue) >= 2
    BY <1>0, Zenon DEF StrandInv
  <2>2. Len(batch_queue) \in Nat
    BY LenProperties, Zenon DEF IInv, TypeOK, EngineTypeOK
  <2> QED BY <1>0, <2>1, <2>2, SMTT(30) DEF BatchQueueSize
<1>2. ~Filling' /\ Filling /\ pc' \notin {"reset", "aborts", "output", "reclaim"}
  BY <1>0, Zenon DEF Filling, InSchedule
<1>3. ASSUME status[r] = "RUNNING", j \in DOMAIN row'[r]
      PROVE  row'[r][j] = NullBlock
  <2>1. r \notin Fresh /\ Nulled(r, j)
    BY <1>2, <1>3, Zenon DEF PendingOf
  <2>2. r \in Scheduled => r \in scheduled_running_reqs
    BY <2>1, Zenon DEF SInv, TokenInv, TokensOf, Scheduled, Lists, Fresh
  <2>3. InBatch(r)
    BY <2>1 DEF Nulled, InBatch
  <2>4. row'[r] = row[r] \o req_to_new_blocks[r] \/ row'[r] = <<>>
    BY <1>0, <2>2, <2>3, Zenon DEF UpdatedRow
  <2>5. CASE row'[r] = <<>>
    BY <1>3, <2>5, SMTT(30)
  <2>6. CASE row'[r] = row[r] \o req_to_new_blocks[r]
    <3> DEFINE s == row[r]
               t == req_to_new_blocks[r]
    <3>1. s \in Seq(Entries) /\ t \in Seq(Blocks)
      BY Zenon DEF RealInv, RealOf, IInv, TypeOK, WorkerTypeOK
    <3>2. j \in DOMAIN s /\ s[j] = NullBlock
      BY <2>1, Zenon DEF Nulled
    <3>3. j \in DOMAIN (s \o t)
      BY <1>3, <2>6, Zenon
    <3>4. (s \o t)[j] = s[j]
      <4> HIDE DEF s, t
      <4> QED BY <3>1, <3>2, <3>3, ExtendRow, Zenon
    <3> QED BY <2>6, <3>2, <3>4, Zenon
  <2> QED BY <2>4, <2>5, <2>6, Zenon
<1>4. Unmapped(r, j)'
  BY <1>0, <1>3, Zenon DEF Unmapped
<1> QED BY <1>0, <1>1, <1>2, <1>4, Zenon DEF PendingOf, BatchQueueSize

\* The evictions that are recorded and not popped, through every step: this needs a
\* reclaim call that is accepted, and no forced reset while batches are in flight.
LEMMA PendingKeeps ==
  ASSUME ~(Async /\ AllowReset), ReclaimWorks, IInv, QInv, SInv, RealInv, StrandInv,
         PendingInv, RowsInv, [Next]_vars
  PROVE  PendingInv'
<1> SUFFICES ASSUME NEW r \in Requests, NEW j \in Nat, <<r, j>> \in pending'
             PROVE  PendingOf(r, j)'
  BY Zenon DEF PendingInv
<1>0. /\ <<r, j>> \in pending => PendingOf(r, j)
      /\ status \in [Requests -> Statuses]
  BY Zenon DEF PendingInv, IInv, TypeOK, ReqTypeOK
<1> DEFINE Same == /\ row' = row /\ pending' = pending /\ batch_queue' = batch_queue
<1>1. CASE UNCHANGED vars \/ WaitForInput
  <2>1. Same /\ UNCHANGED <<pc, status, preempted, scheduled_new_reqs, scheduled_resumed_reqs>>
    BY <1>1, Zenon DEF WaitForInput, vars, schedVars, reqVars, loopVars, outVars, workerVars,
       engineVars
  <2> QED BY <1>0, <2>1, PendingUnchanged, Zenon DEF Fresh, Filling, InSchedule
<1>2. ASSUME NEW q \in Requests, AddRequest(q) \/ Abort(q)
      PROVE  PendingOf(r, j)'
  <2>1. /\ Same /\ UNCHANGED <<preempted, scheduled_new_reqs, scheduled_resumed_reqs, pc>>
        /\ pc \in {"idle", "aborts"}
    BY <1>2, Zenon DEF AddRequest, add_request, Abort, finish_requests, loopVars, outVars,
       workerVars, engineVars
  <2>2. \/ status[q] = "NONE" /\ status' = [status EXCEPT ![q] = "WAITING"]
        \/ status' = [status EXCEPT ![q] = "FINISHED"]
    BY <1>2, Zenon DEF AddRequest, add_request, Abort, finish_requests, free_request
  <2>3. status'[r] = status[r] \/ status'[r] = "FINISHED"
    BY <1>0, <2>1, <2>2, Zenon DEF PendingOf
  <2>4. ~Loaded
    BY <2>1, Zenon DEF Loaded
  <2> QED BY <1>0, <2>1, <2>3, <2>4, PendingUnchanged, Zenon DEF Fresh, Filling, InSchedule
<1>3. CASE PauseScheduler \/ ResumeScheduler
  <2>1. Same /\ UNCHANGED <<pc, status, preempted, scheduled_new_reqs, scheduled_resumed_reqs>>
    BY <1>3, Zenon DEF PauseScheduler, ResumeScheduler, set_pause_state, reqVars, loopVars,
       outVars, workerVars, engineVars
  <2> QED BY <1>0, <2>1, PendingUnchanged, Zenon DEF Fresh, Filling, InSchedule
<1>4. CASE ResetPrefixCache
  <2>1. pc = "idle" /\ ~Async /\ pending' = pending
    BY <1>4, Zenon DEF ResetPrefixCache, workerVars
  <2>2. Len(batch_queue) < BatchQueueSize /\ BatchQueueSize = 1
    BY <2>1, Zenon DEF SInv, BatchInv, InExecute, BatchQueueSize
  <2>3. batch_queue \in Seq(SUBSET Requests) /\ Len(batch_queue) \in Nat
    BY LenProperties, Zenon DEF IInv, TypeOK, EngineTypeOK
  <2>4. Len(batch_queue) = 0
    BY <2>2, <2>3
  <2>5. batch_queue = <<>>
    BY <2>3, <2>4, EmptySeq, Zenon
  <2>6. pending = {}
    BY <2>1, <2>5, Zenon DEF StrandInv
  <2> QED BY <2>1, <2>6, Zenon
<1>5. CASE ResetPreempt \/ ResetDone
  <2>1. pc = "reset" /\ pending' = pending
    BY <1>5, Zenon DEF ResetPreempt, ResetDone, workerVars
  <2> QED BY <1>0, <2>1, Zenon DEF PendingOf
<1>6. CASE /\ \/ start_schedule \/ running_skip \/ running_pick \/ running_done \/ waiting_done
              \/ running_allocate
           /\ Quiet
  <2>1. /\ Same /\ UNCHANGED <<status, preempted, scheduled_new_reqs, scheduled_resumed_reqs>>
    BY <1>6, Zenon DEF start_schedule, running_skip, running_pick, running_done, waiting_done,
       running_allocate, Quiet, workerVars, engineVars, reqVars, loopVars, outVars
  <2>2. Filling /\ Filling' /\ pc' # "reset"
    BY <1>6, Zenon DEF start_schedule, running_skip, running_pick, running_done, waiting_done,
       running_allocate, InRunningLoop, Filling, InSchedule
  <2> QED BY <1>0, <2>1, <2>2, PendingUnchanged, Zenon DEF Fresh
<1>7. CASE running_preempt /\ Quiet
  <2>1. PICK v \in Requests : status' = [status EXCEPT ![v] = "PREEMPTED"] /\ preempted' = TRUE
    BY <1>7, Zenon DEF running_preempt, preempt_request
  <2>2. /\ Same /\ UNCHANGED <<scheduled_new_reqs, scheduled_resumed_reqs>>
        /\ pc = "alloc" /\ pc' \in {"alloc", "finish"}
    BY <1>7, Zenon DEF running_preempt, Quiet, workerVars, engineVars
  <2>3. Filling /\ Filling' /\ pc' # "reset"
    BY <2>2, Zenon DEF Filling, InSchedule
  <2>4. status'[r] = status[r] \/ status'[r] = "PREEMPTED"
    BY <1>0, <2>1, Zenon
  <2> QED BY <1>0, <2>1, <2>2, <2>3, <2>4, PendingUnchanged, Zenon DEF Fresh
<1>8. CASE waiting_admit /\ Quiet
  <2>1. PICK q \in Requests :
          /\ status[q] \in {"WAITING", "PREEMPTED"}
          /\ status' = [status EXCEPT ![q] = "RUNNING"]
          /\ scheduled_new_reqs' \cup scheduled_resumed_reqs'
               = scheduled_new_reqs \cup scheduled_resumed_reqs \cup {q}
    BY <1>8, WaitingAdmitFacts, Zenon
  <2>2. /\ Same /\ UNCHANGED preempted /\ pc = "waiting" /\ pc' = "waiting"
    BY <1>8, Zenon DEF waiting_admit, InWaitingLoop, Quiet, workerVars, engineVars
  <2>3. Filling /\ Filling' /\ ~preempted
    BY <2>2, Zenon DEF Filling, InSchedule, SInv, ListInv
  <2>4. r # q
    BY <1>0, <2>1, <2>2, <2>3, Zenon DEF PendingOf
  <2>5. status'[r] = status[r] /\ (r \in Fresh' => r \in Fresh)
    BY <1>0, <2>1, <2>4, Zenon DEF Fresh
  <2> QED BY <1>0, <2>2, <2>3, <2>5, PendingUnchanged, Zenon
<1>9. CASE FinishSchedule
  <2>1. /\ row' = row /\ pending' = pending /\ pc = "finish" /\ pc' = "execute"
        /\ UNCHANGED <<status, preempted, scheduled_new_reqs, scheduled_resumed_reqs>>
    BY <1>9, Zenon DEF FinishSchedule, finish_schedule, workerVars, loopVars
  <2>2. Filling /\ Filling' /\ ~Loaded'
    BY <2>1, Zenon DEF Filling, InSchedule, Loaded
  <2> QED BY <1>0, <2>1, <2>2, Zenon DEF PendingOf, Nulled, Fresh
<1>10. CASE update_states /\ UNCHANGED engineVars
  BY <1>0, <1>10, UpdateKeepsPending, Zenon DEF update_states
<1>11. CASE skive_check /\ UNCHANGED engineVars
  <2>1. Same /\ UNCHANGED status /\ pc = "hook" /\ pc' = "end"
    BY <1>11, Zenon DEF skive_check, engineVars, reqVars
  <2>2. ~Filling'
    BY <2>1, Zenon DEF Filling, InSchedule
  <2> QED BY <1>0, <2>1, <2>2, PendingUnchanged, Zenon
<1>12. ASSUME NEW q \in Requests, evict_request_blocks(q), UNCHANGED engineVars
       PROVE  PendingOf(r, j)'
  <2>1. PICK J \in SUBSET DOMAIN row[q] :
          /\ pending' = pending \cup Records(q, J)
          /\ DOMAIN row'[r] = DOMAIN row[r]
          /\ \A i \in DOMAIN row[r] :
               row'[r][i] = IF r = q /\ i \in J THEN NullBlock ELSE row[r][i]
    BY <1>12, EvictFacts, Zenon
  <2>2. pc = "end" /\ pc' = "end" /\ UNCHANGED <<status, batch_queue>> /\ q \in over_rows
    BY <1>12, Zenon DEF evict_request_blocks, engineVars, reqVars
  <2>3. Loaded /\ ~Filling' /\ pc' # "reset"
    BY <2>2, Zenon DEF Loaded, Filling, InSchedule
  <2>4. CASE <<r, j>> \in pending
    <3>1. PendingOf(r, j)
      BY <1>0, <2>4, Zenon
    <3>2. /\ Nulled(r, j) => Nulled(r, j)'
          /\ Unmapped(r, j)'
      BY <2>1, <2>2, <2>3, <3>1, Zenon DEF Nulled, PendingOf, Unmapped
    <3> QED BY <2>2, <2>3, <3>1, <3>2, Zenon DEF PendingOf, BatchQueueSize
  <2>5. CASE <<r, j>> \notin pending
    <3>1. r = q /\ j \in J
      BY <2>1, <2>5, Zenon DEF Records
    <3>2. Nulled(r, j)' /\ Unmapped(r, j)'
      BY <2>1, <3>1, Zenon DEF Nulled, Unmapped
    <3>3. status[r] = "RUNNING"
      BY <2>2, <2>3, <3>1, Zenon DEF RowsInv, SInv, TokenInv, TokensOf, ListInv, QInv,
         QueuesMatchStatus, Scheduled
    <3> QED BY <2>2, <2>3, <3>2, <3>3, Zenon DEF PendingOf
  <2> QED BY <2>4, <2>5, Zenon
<1>13. CASE EndExecute
  <2>1. /\ Same /\ UNCHANGED status /\ pc = "end"
        /\ pc' = "aborts" \/ (pc' = "idle" /\ Len(batch_queue) < BatchQueueSize)
        /\ scheduled_new_reqs' = {} /\ scheduled_resumed_reqs' = {}
    BY <1>13, Zenon DEF EndExecute, ClearScheduleLocals, reqVars, workerVars, engineVars
  <2>2. Loaded /\ ~Loaded' /\ pc' # "reset" /\ (pc' = "aborts" => ~Filling')
    BY <2>1, Zenon DEF Loaded, Filling, InSchedule
  <2> QED BY <1>0, <2>1, <2>2, Zenon DEF PendingOf, Nulled, Unmapped, Fresh
<1>14. CASE AwaitOutput
  <2>1. Same /\ UNCHANGED status /\ pc = "idle" /\ pc' = "aborts"
    BY <1>14, Zenon DEF AwaitOutput, reqVars, workerVars, engineVars
  <2>2. ~Filling'
    BY <2>1, Zenon DEF Filling, InSchedule
  <2> QED BY <1>0, <2>1, <2>2, PendingUnchanged, Zenon
<1>15. CASE TakeOutput
  <2>1. /\ row' = row /\ pending' = pending /\ UNCHANGED status
        /\ pc = "aborts" /\ pc' = "output"
    BY <1>15, Zenon DEF TakeOutput, reqVars, workerVars
  <2>2. ~Filling' /\ ~Loaded'
    BY <2>1, Zenon DEF Filling, InSchedule, Loaded
  <2> QED BY <1>0, <2>1, <2>2, Zenon DEF PendingOf, Unmapped
<1>16. ASSUME NEW q \in Requests, UpdateFromOutput(q)
       PROVE  PendingOf(r, j)'
  <2>1. Same /\ pc = "output" /\ pc' = "output"
    BY <1>16, Zenon DEF UpdateFromOutput, workerVars
  <2>2. status' = status \/ status' = [status EXCEPT ![q] = "FINISHED"]
    BY <1>16, Zenon DEF UpdateFromOutput, update_from_output, free_request, reqVars
  <2>3. status'[r] = status[r] \/ status'[r] = "FINISHED"
    BY <1>0, <2>2, Zenon
  <2>4. ~Filling' /\ ~Loaded
    BY <2>1, Zenon DEF Filling, InSchedule, Loaded
  <2> QED BY <1>0, <2>1, <2>3, <2>4, PendingUnchanged, Zenon
<1>17. CASE PopPending
  BY <1>17, Zenon DEF PopPending
<1>18. CASE EndStep \/ \E item \in popped : skive_reclaim(item[1], item[2])
  <2>1. pc = "reclaim" /\ pending' = pending
    BY <1>18, Zenon DEF EndStep, skive_reclaim, workerVars
  <2> QED BY <2>1, Zenon DEF StrandInv
<1>19. CASE ScheduleStep
  BY <1>6, <1>7, <1>8, <1>9, <1>19, Zenon DEF ScheduleStep
<1>20. CASE ExecuteStep \/ OutputStep
  BY <1>10, <1>11, <1>12, <1>13, <1>14, <1>15, <1>16, <1>17, <1>18, <1>20, Zenon
     DEF ExecuteStep, OutputStep
<1>21. CASE ClientStep
  BY <1>2, <1>3, <1>4, <1>21, Zenon DEF ClientStep
<1> QED BY <1>1, <1>5, <1>19, <1>20, <1>21, Zenon DEF Next, EngineStep

-----------------------------------------------------------------------------
(* The rows map blocks of their own request *)

\* The new blocks of a scheduled request stay the last ones it holds until the step
\* is over.
LEMMA NewKeeps ==
  ASSUME IInv, QInv, SInv, NewInv, QInv', ListInv', [Next]_vars
  PROVE  NewInv'
<1> SUFFICES ASSUME NEW r \in Requests, r \in Lists'
             PROVE  NewOf(r)'
  BY Zenon DEF NewInv, NewOf
<1>0. /\ NewOf(r) /\ status'[r] = "RUNNING" /\ (InSchedule' \/ InExecute')
      /\ req_to_blocks \in [Requests -> Seq(Entries)]
      /\ req_to_new_blocks \in [Requests -> Seq(Entries)]
      /\ status \in [Requests -> Statuses]
  BY Zenon DEF NewInv, ListInv, QInv, QueuesMatchStatus, IInv, TypeOK, KVTypeOK, OutTypeOK,
     ReqTypeOK
<1>1. ASSUME req_to_blocks'[r] = req_to_blocks[r], req_to_new_blocks'[r] = req_to_new_blocks[r],
             r \in Lists
      PROVE  NewOf(r)'
  BY <1>0, <1>1, Zenon DEF NewOf
<1>2. CASE running_allocate /\ Quiet
  <2>1. PICK nb \in Seq(Blocks) :
          /\ req_to_blocks' = [req_to_blocks EXCEPT ![cur] = req_to_blocks[cur] \o nb]
          /\ req_to_new_blocks' = [req_to_new_blocks EXCEPT ![cur] = nb]
    BY <1>2, RunningAllocateFacts, Zenon
  <2>2. /\ scheduled_running_reqs' = scheduled_running_reqs \cup {cur}
        /\ UNCHANGED <<scheduled_new_reqs, scheduled_resumed_reqs>>
    BY <1>2, Zenon DEF running_allocate
  <2>3. CASE r # cur
    BY <1>0, <1>1, <2>1, <2>2, <2>3, Zenon DEF Lists
  <2>4. CASE r = cur
    <3> DEFINE s == req_to_blocks[r]
    <3>1. req_to_blocks'[r] = s \o nb /\ req_to_new_blocks'[r] = nb /\ s \in Seq(Entries)
      BY <1>0, <2>1, <2>4, Zenon
    <3> HIDE DEF s
    <3>2. nb \in Seq(Entries)
      BY SeqMonotonic, Zenon DEF Entries
    <3>3. /\ Len(s) \in Nat /\ Len(nb) \in Nat /\ Len(s \o nb) = Len(s) + Len(nb)
          /\ DOMAIN nb = 1..Len(nb)
          /\ \A i \in 1..(Len(s) + Len(nb)) :
               (s \o nb)[i] = IF i <= Len(s) THEN s[i] ELSE nb[i - Len(s)]
      BY <3>1, <3>2, ConcatProperties, LenProperties, SMTT(30)
    <3>4. ASSUME NEW i \in DOMAIN nb
          PROVE  (s \o nb)[Len(s \o nb) - Len(nb) + i] = nb[i]
      <4>1. Len(s \o nb) - Len(nb) + i = Len(s) + i /\ Len(s) + i \in 1..(Len(s) + Len(nb))
            /\ ~(Len(s) + i <= Len(s)) /\ Len(s) + i - Len(s) = i
        BY <3>3
      <4> QED BY <3>3, <4>1, SMTT(30)
    <3> QED BY <3>1, <3>4, Zenon DEF NewOf
  <2> QED BY <2>3, <2>4, Zenon
<1>3. CASE waiting_admit /\ Quiet
  <2>1. PICK q \in Requests, nb \in Seq(Blocks) :
          /\ req_to_blocks' = [req_to_blocks EXCEPT ![q] = nb]
          /\ req_to_new_blocks' = [req_to_new_blocks EXCEPT ![q] = nb]
          /\ scheduled_new_reqs' \cup scheduled_resumed_reqs'
               = scheduled_new_reqs \cup scheduled_resumed_reqs \cup {q}
    BY <1>3, WaitingAdmitFacts, Zenon
  <2>2. UNCHANGED scheduled_running_reqs
    BY <1>3, Zenon DEF waiting_admit
  <2>3. CASE r # q
    BY <1>0, <1>1, <2>1, <2>2, <2>3, Zenon DEF Lists
  <2>4. CASE r = q
    <3>1. req_to_blocks'[r] = nb /\ req_to_new_blocks'[r] = nb
      BY <1>0, <2>1, <2>4, Zenon
    <3>2. DOMAIN nb = 1..Len(nb) /\ Len(nb) \in Nat
      BY LenProperties, Zenon
    <3>3. ASSUME NEW i \in DOMAIN nb
          PROVE  nb[Len(nb) - Len(nb) + i] = nb[i]
      <4>1. Len(nb) - Len(nb) + i = i
        BY <3>2
      <4> QED BY <4>1, Zenon
    <3> QED BY <3>1, <3>3, Zenon DEF NewOf
  <2> QED BY <2>3, <2>4, Zenon
<1>4. CASE running_preempt /\ Quiet
  <2>1. PICK v \in Requests :
          /\ req_to_blocks' = [req_to_blocks EXCEPT ![v] = <<>>]
          /\ status' = [status EXCEPT ![v] = "PREEMPTED"]
          /\ IF Unschedule(v) THEN /\ scheduled_running_reqs' = scheduled_running_reqs \ {v}
                                   /\ req_to_new_blocks' = [req_to_new_blocks EXCEPT ![v] = <<>>]
                              ELSE UNCHANGED <<scheduled_running_reqs, req_to_new_blocks>>
    BY <1>4, Zenon DEF running_preempt, preempt_request, kv_free
  <2>2. UNCHANGED <<scheduled_new_reqs, scheduled_resumed_reqs>>
    BY <1>4, Zenon DEF running_preempt
  <2>3. r # v
    <3>1. "PREEMPTED" # "RUNNING"
      OBVIOUS
    <3> QED BY <1>0, <2>1, <3>1, Zenon
  <2> QED BY <1>0, <1>1, <2>1, <2>2, <2>3, Zenon DEF Lists
<1>5. CASE \/ start_schedule \/ running_skip \/ running_pick \/ running_done \/ waiting_done
           \/ FinishSchedule
  BY <1>1, <1>5, Zenon DEF start_schedule, running_skip, running_pick, running_done,
     waiting_done, FinishSchedule, finish_schedule, kvVars, outVars, Lists
<1>6. CASE update_states \/ skive_check \/ (\E q \in Requests : evict_request_blocks(q))
           \/ UNCHANGED vars \/ WaitForInput
  BY <1>1, <1>6, Zenon DEF update_states, skive_check, evict_request_blocks, WaitForInput, vars,
     kvVars, schedVars, outVars, Lists
<1>7. CASE EndExecute \/ OutputStep \/ ResetPreempt \/ ResetDone
  BY <1>0, <1>7, Zenon DEF EndExecute, OutputStep, AwaitOutput, TakeOutput, UpdateFromOutput,
     PopPending, skive_reclaim, EndStep, ResetPreempt, ResetDone, schedVars, InSchedule, InExecute
<1>8. CASE ClientStep
  BY <1>0, <1>8, Zenon DEF ClientStep, AddRequest, add_request, Abort, finish_requests,
     PauseScheduler, ResumeScheduler, set_pause_state, ResetPrefixCache, InSchedule, InExecute
<1> QED BY <1>2, <1>3, <1>4, <1>5, <1>6, <1>7, <1>8, Zenon
        DEF Next, EngineStep, ScheduleStep, ExecuteStep

\* A request whose row does not change, and which keeps its blocks or gives them up.
LEMMA MapUnchanged ==
  ASSUME NEW r \in Requests, MapOf(r),
         row'[r] = row[r],
         req_to_blocks'[r] = req_to_blocks[r] \/ req_to_blocks'[r] = <<>>,
         status'[r] = "RUNNING" => status[r] = "RUNNING",
         Loaded' \/ r \notin Fresh' => Loaded \/ r \notin Fresh
  PROVE  MapOf(r)'
<1>1. CASE req_to_blocks'[r] = <<>>
  BY <1>1 DEF MapOf
<1>2. CASE req_to_blocks'[r] = req_to_blocks[r]
  BY <1>2, Zenon DEF MapOf
<1> QED BY <1>1, <1>2, Zenon

\* New blocks are beyond the row.
LEMMA AllocateKeepsMap ==
  ASSUME IInv, SInv, QInv, LenInv, MapInv, running_allocate, Quiet
  PROVE  MapInv'
<1>0. /\ pc = "alloc" /\ pc' = "running" /\ UNCHANGED <<row, status>>
      /\ UNCHANGED <<scheduled_new_reqs, scheduled_resumed_reqs>>
  BY Zenon DEF running_allocate, Quiet, workerVars, reqVars
<1>1. PICK nb \in Seq(Blocks) :
        req_to_blocks' = [req_to_blocks EXCEPT ![cur] = req_to_blocks[cur] \o nb]
  BY RunningAllocateFacts, Zenon
<1>2. req_to_blocks \in [Requests -> Seq(Entries)] /\ row \in [Requests -> Seq(Entries)]
  BY Zenon DEF IInv, TypeOK, KVTypeOK, WorkerTypeOK
<1> SUFFICES ASSUME NEW r \in Requests
             PROVE  MapOf(r)'
  BY Zenon DEF MapInv
<1>3. MapOf(r) /\ ~Loaded /\ ~Loaded' /\ Fresh' = Fresh
  BY <1>0, Zenon DEF MapInv, Loaded, Fresh
<1>4. CASE r # cur
  BY <1>0, <1>1, <1>2, <1>3, <1>4, MapUnchanged, Zenon
<1>5. CASE r = cur
  <2> DEFINE B == req_to_blocks[r]
  <2>1. status[r] = "RUNNING" /\ r \notin Lists /\ r \notin Fresh
    BY <1>0, <1>5, Zenon DEF SInv, IndexInv, ListInv, QInv, QueuesMatchStatus, Elems, Lists,
       Fresh
  <2>2. num_scheduled_tokens[r] = 0 /\ num_computed_tokens[r] \in Int
    BY <2>1, SMTT(30) DEF SInv, TokenInv, TokensOf, IInv, TypeOK, OutTypeOK, ReqTypeOK
  <2>3. /\ Len(B) = CeilDiv(Pre(r), BlockSize)
        /\ InBatch(r) => Len(row[r]) = CeilDiv(Pre(r), BlockSize)
    <3>1. Pre(r) + 0 = Pre(r)
      BY <1>0, <2>2, SMTT(30) DEF Pre, InExecute
    <3> QED BY <1>3, <2>1, <2>2, <3>1, Zenon DEF LenInv, LenOf
  <2>4. row[r] \in Seq(Entries) /\ B \in Seq(Entries) /\ req_to_blocks'[r] = B \o nb
    BY <1>1, <1>2, <1>5, Zenon
  <2>5. DOMAIN row[r] \subseteq DOMAIN B
    <3> HIDE DEF B
    <3>1. DOMAIN row[r] = 1..Len(row[r]) /\ DOMAIN B = 1..Len(B)
      BY <2>4, LenProperties, Zenon
    <3>2. CASE InBatch(r)
      BY <2>3, <3>1, <3>2, Zenon
    <3>3. CASE ~InBatch(r)
      BY <3>3 DEF InBatch
    <3> QED BY <3>2, <3>3, Zenon
  <2>6. \A j \in DOMAIN (B \o nb) : j \in DOMAIN B => (B \o nb)[j] = B[j]
    <3> HIDE DEF B
    <3> QED BY <2>4, ExtendRow, Zenon
  <2>7. \A j \in DOMAIN row[r] : row[r][j] # NullBlock => row[r][j] = B[j]
    BY <1>3, <2>1, <2>5, Zenon DEF MapOf
  <2>8. row'[r] = row[r]
    BY <1>0, Zenon
  <2> HIDE DEF B
  <2> QED BY <2>4, <2>5, <2>6, <2>7, <2>8, Zenon DEF MapOf
<1> QED BY <1>4, <1>5, Zenon

\* _update_states gives a request its own blocks: those it is told of in this step,
\* after those it had, unless it comes back from outside the batch.
LEMMA UpdateKeepsMap ==
  ASSUME IInv, QInv, SInv, RealInv, LenInv, NewInv, MapInv, NoReAdd, update_states
  PROVE  MapInv'
<1>0. /\ pc = "execute" /\ row' = [q \in Requests |-> UpdatedRow(q)]
      /\ UNCHANGED <<req_to_blocks, status>>
  BY Zenon DEF update_states, kvVars, reqVars
<1> SUFFICES ASSUME NEW r \in Requests, status[r] = "RUNNING",
                    NEW j \in DOMAIN row'[r], j \in DOMAIN req_to_blocks[r],
                    row'[r][j] # NullBlock
             PROVE  row'[r][j] = req_to_blocks[r][j]
  BY <1>0, Zenon DEF MapInv, MapOf
<1> DEFINE s == row[r]
           t == req_to_new_blocks[r]
           B == req_to_blocks[r]
<1>1. /\ s \in Seq(Entries) /\ t \in Seq(Blocks) /\ B \in Seq(Entries) /\ ~Loaded
      /\ LenOf(r) /\ NewOf(r) /\ MapOf(r)
  BY <1>0, Zenon DEF RealInv, RealOf, IInv, TypeOK, WorkerTypeOK, KVTypeOK, Loaded, LenInv,
     NewInv, MapInv
<1>2. Len(B) = CeilDiv(Pre(r), BlockSize) + Len(t)
  BY <1>1, Zenon DEF LenOf
<1>3. /\ Len(s) \in Nat /\ Len(t) \in Nat /\ Len(B) \in Nat
      /\ DOMAIN s = 1..Len(s) /\ DOMAIN t = 1..Len(t) /\ DOMAIN B = 1..Len(B)
  BY <1>1, LenProperties, Zenon
<1>4. r \in Lists => \A i \in 1..Len(t) : B[Len(B) - Len(t) + i] = t[i]
  BY <1>1, <1>3, Zenon DEF NewOf
<1>5. CASE r \in Fresh
  <2>1. row'[r] = t
    BY <1>0, <1>5, Zenon
       DEF UpdatedRow, UpdatedBlockIds, Fresh, SInv, ListInv, TokenInv, TokensOf, Lists, Scheduled
  <2>2. Pre(r) = 0 /\ r \in Lists
    BY <1>1, <1>5, Zenon DEF LenOf, Fresh, Lists
  <2> HIDE DEF s, t, B
  <2>3. Len(B) - Len(t) + j = j /\ j \in 1..Len(t)
    BY <1>2, <1>3, <2>1, <2>2, CeilDivFacts, SMTT(30)
  <2> QED BY <1>4, <2>1, <2>2, <2>3, SMTT(30) DEF B
<1>6. CASE r \in scheduled_running_reqs
  <2>1. InBatch(r) /\ r \notin Fresh /\ r \in Lists
    BY <1>1, <1>6, Zenon DEF NoReAdd, SInv, ListInv, Fresh, Lists
  <2>2. row'[r] = s \o t
    BY <1>0, <1>6, <2>1, Zenon DEF UpdatedRow
  <2>3. Len(s) = CeilDiv(Pre(r), BlockSize)
    BY <1>1, <2>1, Zenon DEF LenOf
  <2>4. \A i \in DOMAIN s \cap DOMAIN B : s[i] # NullBlock => s[i] = B[i]
    BY <1>1, <2>1, Zenon DEF MapOf
  <2> HIDE DEF s, t, B
  <2>5. t \in Seq(Entries)
    BY <1>1, SeqMonotonic, Zenon DEF Entries
  <2>6. /\ Len(s \o t) = Len(s) + Len(t) /\ DOMAIN (s \o t) = 1..(Len(s) + Len(t))
        /\ \A i \in 1..(Len(s) + Len(t)) :
             (s \o t)[i] = IF i <= Len(s) THEN s[i] ELSE t[i - Len(s)]
    <3>1. s \o t \in Seq(Entries) /\ Len(s \o t) = Len(s) + Len(t)
      BY <1>1, <2>5, ConcatProperties, SMTT(30)
    <3> QED BY <1>1, <2>5, <3>1, ConcatProperties, LenProperties, SMTT(30)
  <2>7. j \in 1..(Len(s) + Len(t))
    BY <2>2, <2>6, Zenon
  <2>8. CASE j <= Len(s)
    <3>1. j \in DOMAIN s /\ (s \o t)[j] = s[j]
      BY <1>3, <2>6, <2>7, <2>8, SMTT(30)
    <3> QED BY <2>2, <2>4, <3>1, Zenon DEF B
  <2>9. CASE ~(j <= Len(s))
    <3>1. j - Len(s) \in 1..Len(t) /\ Len(B) - Len(t) + (j - Len(s)) = j
      BY <1>2, <1>3, <2>3, <2>7, <2>9, SMTT(30)
    <3>2. (s \o t)[j] = t[j - Len(s)]
      BY <2>6, <2>7, <2>9, Zenon
    <3>3. B[Len(B) - Len(t) + (j - Len(s))] = t[j - Len(s)]
      BY <1>4, <2>1, <3>1, Zenon
    <3>4. B[j] = t[j - Len(s)]
      BY <3>1, <3>3, Zenon
    <3> QED BY <2>2, <3>2, <3>4, Zenon DEF B
  <2> QED BY <2>8, <2>9, Zenon
<1>7. CASE r \notin Lists
  <2>1. row'[r] = <<>>
    BY <1>0, <1>7, Zenon
       DEF UpdatedRow, SInv, TokenInv, TokensOf, Lists, Scheduled
  <2> QED BY <2>1
<1> QED BY <1>5, <1>6, <1>7, Zenon DEF Lists, Fresh

\* The worker maps no block that is not the request's own, as long as no running request
\* comes back to the batch.
LEMMA MapKeeps ==
  ASSUME IInv, QInv, SInv, RealInv, LenInv, NewInv, PoppedInv, NoReAdd, MapInv, [Next]_vars
  PROVE  MapInv'
<1>0. /\ req_to_blocks \in [Requests -> Seq(Entries)] /\ row \in [Requests -> Seq(Entries)]
      /\ status \in [Requests -> Statuses] /\ popped \subseteq Requests \X Nat
  BY Zenon DEF IInv, TypeOK, KVTypeOK, ReqTypeOK, WorkerTypeOK, EngineTypeOK
<1>1. ASSUME UNCHANGED row,
             \A r \in Requests :
               /\ req_to_blocks'[r] = req_to_blocks[r] \/ req_to_blocks'[r] = <<>>
               /\ status'[r] = "RUNNING" => status[r] = "RUNNING",
             \/ Fresh' = Fresh /\ (Loaded' <=> Loaded)
             \/ Loaded
      PROVE  MapInv'
  BY <1>1, MapUnchanged, Zenon DEF MapInv
<1>2. CASE running_allocate /\ Quiet
  BY <1>2, AllocateKeepsMap, Zenon
<1>3. CASE update_states /\ UNCHANGED engineVars
  BY <1>3, UpdateKeepsMap, Zenon
<1>4. CASE waiting_admit /\ Quiet
  <2>1. PICK q \in Requests, nb \in Seq(Blocks) :
          /\ status' = [status EXCEPT ![q] = "RUNNING"]
          /\ req_to_blocks' = [req_to_blocks EXCEPT ![q] = nb]
          /\ scheduled_new_reqs' \cup scheduled_resumed_reqs'
                = scheduled_new_reqs \cup scheduled_resumed_reqs \cup {q}
    BY <1>4, WaitingAdmitFacts, Zenon
  <2>2. Fresh' = Fresh \cup {q} /\ ~Loaded'
    BY <1>4, <2>1, Zenon DEF Fresh, Loaded, waiting_admit, InWaitingLoop
  <2>3. UNCHANGED row
    BY <1>4, Zenon DEF Quiet, workerVars
  <2> SUFFICES ASSUME NEW r \in Requests
               PROVE  MapOf(r)'
    BY Zenon DEF MapInv
  <2>4. CASE r = q
    BY <2>2, <2>4, Zenon DEF MapOf
  <2>5. CASE r # q
    <3>1. /\ req_to_blocks'[r] = req_to_blocks[r] /\ status'[r] = status[r]
          /\ r \notin Fresh' => r \notin Fresh
      BY <1>0, <2>1, <2>2, <2>5, Zenon
    <3> QED BY <2>2, <2>3, <3>1, MapUnchanged, Zenon DEF MapInv
  <2> QED BY <2>4, <2>5, Zenon
<1>5. ASSUME NEW q \in Requests, evict_request_blocks(q)
      PROVE  MapInv'
  <2>1. PICK J \in SUBSET DOMAIN row[q] :
        /\ pending' = pending \cup Records(q, J)
        /\ \A r \in Requests :
            /\ DOMAIN row'[r] = DOMAIN row[r]
            /\ InBatch(r)' <=> InBatch(r)
            /\ \A j \in DOMAIN row[r] :
                 row'[r][j] = IF r = q /\ j \in J THEN NullBlock ELSE row[r][j]
    BY <1>5, EvictFacts, Zenon
  <2>2. pc = "end" /\ UNCHANGED <<req_to_blocks, status>>
    BY <1>5, Zenon DEF evict_request_blocks, kvVars, reqVars
  <2> SUFFICES ASSUME NEW r \in Requests, status[r] = "RUNNING",
                      NEW j \in DOMAIN row'[r], j \in DOMAIN req_to_blocks[r],
                      row'[r][j] # NullBlock
               PROVE  row'[r][j] = req_to_blocks[r][j]
    BY <2>2 DEF MapInv, MapOf
  <2>3. j \in DOMAIN row[r] /\ row'[r][j] = row[r][j]
    BY <2>1, Zenon
  <2> QED BY <2>2, <2>3, Zenon DEF MapInv, MapOf, Loaded
<1>6. ASSUME NEW item \in popped, skive_reclaim(item[1], item[2])
      PROVE  MapInv'
  <2> DEFINE q == item[1]
             k == item[2]
  <2>0. q \in Requests /\ k \in Nat /\ item = <<q, k>>
    BY <1>0
  <2>1. q \in Requests /\ k \in Nat /\ <<q, k>> \in popped
    BY <2>0, Zenon
  <2>2. UNCHANGED <<pc, row, status, scheduled_new_reqs, scheduled_resumed_reqs>>
    BY <1>6, Zenon DEF skive_reclaim, schedVars, reqVars, workerVars, outVars
  <2>3. \/ req_to_blocks' = [req_to_blocks EXCEPT ![q] = NullOut(req_to_blocks[q], NullBlock, {k})]
        \/ UNCHANGED req_to_blocks
    BY <1>6, Zenon DEF skive_reclaim, FreeEntry, kvVars
  <2>4. Unmapped(q, k)
    BY <2>1, Zenon DEF PoppedInv
  <2> HIDE DEF q, k
  <2> SUFFICES ASSUME NEW r \in Requests
               PROVE  MapOf(r)'
    BY Zenon DEF MapInv
  <2>5. MapOf(r) /\ Fresh' = Fresh /\ (Loaded' <=> Loaded)
    BY <2>2, Zenon DEF MapInv, Fresh, Loaded
  <2>6. CASE req_to_blocks'[r] = req_to_blocks[r]
    BY <2>2, <2>5, <2>6, MapUnchanged, Zenon
  <2>7. CASE req_to_blocks'[r] # req_to_blocks[r]
    <3>1. r = q /\ req_to_blocks'[r] = NullOut(req_to_blocks[r], NullBlock, {k})
      BY <1>0, <2>3, <2>7, Zenon
    <3>2. /\ DOMAIN req_to_blocks'[r] = DOMAIN req_to_blocks[r]
          /\ \A j \in DOMAIN req_to_blocks[r] : j # k => req_to_blocks'[r][j] = req_to_blocks[r][j]
      BY <3>1, Zenon DEF NullOut
    <3> QED BY <2>2, <2>4, <2>5, <3>1, <3>2, ZenonT(30) DEF MapOf, Unmapped
  <2> QED BY <2>6, <2>7, Zenon
<1>7. CASE EndExecute
  BY <1>1, <1>7, Zenon DEF EndExecute, Loaded, kvVars, workerVars, reqVars
<1>8. CASE PopPending
  <2>1. UNCHANGED <<kvVars, reqVars, row, outVars>> /\ pc = "output" /\ pc' \in {"reclaim", "idle"}
    BY <1>8, Zenon DEF PopPending
  <2> QED BY <1>1, <2>1, Zenon DEF Loaded, Fresh, kvVars, reqVars, outVars
<1>9. ASSUME NEW q \in Requests,
             req_to_blocks' = [req_to_blocks EXCEPT ![q] = <<>>] \/ UNCHANGED req_to_blocks,
             \/ status' = [status EXCEPT ![q] = "PREEMPTED"]
             \/ status' = [status EXCEPT ![q] = "FINISHED"]
             \/ UNCHANGED status,
             UNCHANGED <<row, scheduled_new_reqs, scheduled_resumed_reqs>>, Loaded' <=> Loaded
      PROVE  MapInv'
  <2>1. "PREEMPTED" # "RUNNING" /\ "FINISHED" # "RUNNING"
    OBVIOUS
  <2> SUFFICES ASSUME NEW r \in Requests
               PROVE  /\ req_to_blocks'[r] = req_to_blocks[r] \/ req_to_blocks'[r] = <<>>
                      /\ status'[r] = "RUNNING" => status[r] = "RUNNING"
    BY <1>1, <1>9, Zenon DEF Fresh
  <2> QED BY <1>0, <1>9, <2>1, Zenon
<1>10. CASE running_preempt /\ Quiet
  <2>1. PICK q \in Requests : /\ req_to_blocks' = [req_to_blocks EXCEPT ![q] = <<>>]
                              /\ status' = [status EXCEPT ![q] = "PREEMPTED"]
    BY <1>10, Zenon DEF running_preempt, preempt_request, kv_free
  <2>2. /\ pc = "alloc" /\ pc' \in {"alloc", "finish"}
        /\ UNCHANGED <<row, scheduled_new_reqs, scheduled_resumed_reqs>>
    BY <1>10, Zenon DEF running_preempt, Quiet, workerVars
  <2> QED BY <1>9, <2>1, <2>2, Zenon DEF Loaded
<1>11. CASE ResetPreempt
  <2>1. PICK q \in Requests : /\ req_to_blocks' = [req_to_blocks EXCEPT ![q] = <<>>]
                              /\ status' = [status EXCEPT ![q] = "PREEMPTED"]
    BY <1>11, Zenon DEF ResetPreempt, reset_preempt, preempt_request, kv_free
  <2>2. pc' = pc /\ UNCHANGED <<row, outVars>>
    BY <1>11, Zenon DEF ResetPreempt, reset_preempt, workerVars
  <2> QED BY <1>9, <2>1, <2>2, Zenon DEF Loaded, outVars
<1>12. ASSUME NEW q \in Requests, Abort(q) \/ UpdateFromOutput(q)
       PROVE  MapInv'
  <2>1. pc' = pc /\ UNCHANGED <<row, outVars>>
    BY <1>12, Zenon DEF Abort, finish_requests, UpdateFromOutput, workerVars
  <2>2. \/ /\ req_to_blocks' = [req_to_blocks EXCEPT ![q] = <<>>]
           /\ status' = [status EXCEPT ![q] = "FINISHED"]
        \/ UNCHANGED <<req_to_blocks, status>>
    BY <1>12, Zenon
       DEF Abort, finish_requests, UpdateFromOutput, update_from_output, free_request, kv_free,
         kvVars, reqVars
  <2> QED BY <1>9, <2>1, <2>2, Zenon DEF Loaded, outVars
<1>13. ASSUME UNCHANGED <<req_to_blocks, row, scheduled_new_reqs, scheduled_resumed_reqs>>,
              \A r \in Requests : status'[r] = "RUNNING" => status[r] = "RUNNING",
              Loaded' <=> Loaded
       PROVE  MapInv'
  BY <1>1, <1>13, Zenon DEF Fresh
<1>14. CASE /\ \/ start_schedule \/ running_skip \/ running_pick \/ running_done \/ waiting_done
            /\ Quiet
  BY <1>13, <1>14, Zenon
     DEF start_schedule, running_skip, running_pick, running_done, waiting_done, Quiet,
       InRunningLoop, kvVars, reqVars, workerVars, outVars, Loaded
<1>15. CASE FinishSchedule
  BY <1>13, <1>15, Zenon DEF FinishSchedule, finish_schedule, kvVars, workerVars, Loaded
<1>16. CASE skive_check
  BY <1>13, <1>16, Zenon DEF skive_check, kvVars, reqVars, outVars, Loaded
<1>17. CASE AwaitOutput \/ TakeOutput \/ EndStep \/ ResetDone
  BY <1>13, <1>17, Zenon
     DEF AwaitOutput, TakeOutput, EndStep, ResetDone, reset_done, kvVars, reqVars, workerVars,
       outVars, Loaded
<1>18. CASE WaitForInput \/ UNCHANGED vars
  BY <1>13, <1>18, Zenon
     DEF WaitForInput, vars, kvVars, schedVars, reqVars, workerVars, outVars, Loaded
<1>19. CASE PauseScheduler \/ ResumeScheduler \/ ResetPrefixCache
  BY <1>13, <1>19, Zenon
     DEF PauseScheduler, ResumeScheduler, ResetPrefixCache, set_pause_state, kvVars, reqVars,
       workerVars, outVars, Loaded
<1>20. ASSUME NEW q \in Requests, AddRequest(q)
       PROVE  MapInv'
  <2>1. /\ status' = [status EXCEPT ![q] = "WAITING"] /\ pc' = pc
        /\ UNCHANGED <<req_to_blocks, row, outVars>>
    BY <1>20, Zenon DEF AddRequest, add_request, kvVars, workerVars
  <2>2. "WAITING" # "RUNNING"
    OBVIOUS
  <2>3. \A r \in Requests : status'[r] = "RUNNING" => status[r] = "RUNNING"
    BY <1>0, <2>1, <2>2, Zenon
  <2> QED BY <1>13, <2>1, <2>3, Zenon DEF Loaded, outVars
<1> QED BY SMTT(30), <1>2, <1>3, <1>4, <1>5, <1>6, <1>7, <1>8, <1>10, <1>11, <1>12, <1>14, <1>15,
           <1>16, <1>17, <1>18, <1>19, <1>20
        DEF Next, EngineStep, ScheduleStep, ExecuteStep, OutputStep, ClientStep

\* At the start nothing is mapped, recorded or scheduled.
LEMMA InitMap == Init => UnmapInv /\ NewInv /\ MapInv
<1> SUFFICES ASSUME Init
             PROVE  UnmapInv /\ NewInv /\ MapInv
  BY Zenon
<1>1. /\ \A r \in Requests : status[r] # "RUNNING"
      /\ pending = {} /\ popped = {} /\ pc = "idle"
      /\ scheduled_new_reqs = {} /\ scheduled_resumed_reqs = {} /\ scheduled_running_reqs = {}
  BY Zenon DEF Init, WorkerInit, SchedInit
<1> QED BY <1>1 DEF UnmapInv, PendingInv, PoppedInv, RowsInv, Loaded, NewInv, NewOf, Lists,
        MapInv, MapOf
=============================================================================
