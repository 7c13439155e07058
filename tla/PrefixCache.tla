---------------------------- MODULE PrefixCache ----------------------------
(***************************************************************************)
(* Prefix caching as the engine uses it: Scheduler.schedule() looks up     *)
(* hits, allocates, and gives blocks their hash when it schedules the      *)
(* tokens, before the model has computed them; the model runner computes   *)
(* the batches in the order they were scheduled.  slots is the KV memory:  *)
(* for each slot of each block the group and the tokens whose KV it holds. *)
(* One loop iteration of schedule() is one action, as in Scheduler.        *)
(***************************************************************************)
EXTENDS HybridKVCache

CONSTANTS
  Prompt,                   \* prompt tokens of each request
  max_tokens,               \* output tokens of each request
  max_num_running_reqs,
  long_prefill_token_threshold,   \* 0 = off
  policy,                   \* "fcfs" or "priority"
  Rank,                     \* position in the (priority, arrival_time) order
  batch_queue_size,         \* 1, or 2 with async scheduling
  AllowAbort, AllowReset

ASSUME PrefixAssumption ==
  /\ policy \in {"fcfs", "priority"}
  /\ \A r, q \in Requests : Rank[r] = Rank[q] => r = q
  /\ batch_queue_size \in {1, 2}
  /\ \A r \in Requests : Len(Prompt[r]) + max_tokens <= max_model_len

VARIABLES
  kv,                       \* the KV cache manager
  slots,                    \* slots[b][i]: what slot i of block b holds
  status, tokens,           \* of each request
  num_computed_tokens, num_output_placeholders,
  waiting, running,
  pc, req_index, token_budget, preempted,
  batch,                    \* the SchedulerOutput being built
  batch_queue               \* scheduled, not computed yet

reqVars == <<status, tokens, num_computed_tokens, num_output_placeholders>>
loopVars == <<pc, req_index, token_budget, preempted, batch>>
vars == <<kv, slots, reqVars, waiting, running, loopVars, batch_queue>>

Async == batch_queue_size = 2
Live == {"WAITING", "RUNNING", "PREEMPTED"}
Empty == <<"none", <<>>>>         \* a slot nothing was written to
Output == 1                       \* the token every request samples

Init ==
  /\ kv = kv_init
  /\ slots = [b \in Blocks |-> [i \in 1 .. block_size |-> Empty]]
  /\ status = [r \in Requests |-> "NONE"]
  /\ tokens = Prompt
  /\ num_computed_tokens = [r \in Requests |-> 0]
  /\ num_output_placeholders = [r \in Requests |-> 0]
  /\ waiting = <<>>
  /\ running = <<>>
  /\ pc = "idle"
  /\ req_index = 1
  /\ token_budget = 0
  /\ preempted = FALSE
  /\ batch = << >>
  /\ batch_queue = <<>>

Without(seq, r) == SelectSeq(seq, LAMBDA q : q # r)

-----------------------------------------------------------------------------
(* Requests coming and going, between two steps of the engine *)

add_request(r) ==
  /\ pc = "idle"
  /\ status[r] = "NONE"
  /\ status' = [status EXCEPT ![r] = "WAITING"]
  /\ waiting' = Append(waiting, r)
  /\ UNCHANGED <<kv, slots, tokens, num_computed_tokens, num_output_placeholders, running,
                 loopVars, batch_queue>>

finish_requests(r) ==
  /\ AllowAbort
  /\ pc = "idle"
  /\ status[r] \in Live
  /\ status' = [status EXCEPT ![r] = "FINISHED"]
  /\ kv' = kv_free(kv, r)
  /\ waiting' = Without(waiting, r)
  /\ running' = Without(running, r)
  /\ UNCHANGED <<slots, tokens, num_computed_tokens, num_output_placeholders, loopVars,
                 batch_queue>>

reset_prefix_cache ==
  /\ AllowReset
  /\ pc = "idle"
  /\ kv' = pool_reset_prefix_cache(kv)
  /\ UNCHANGED <<slots, reqVars, waiting, running, loopVars, batch_queue>>

-----------------------------------------------------------------------------
(* schedule() *)

start_schedule ==
  /\ pc = "idle"
  /\ Len(batch_queue) < batch_queue_size
  /\ waiting # <<>> \/ running # <<>>
  /\ pc' = "running"
  /\ req_index' = 1
  /\ token_budget' = max_num_batched_tokens
  /\ preempted' = FALSE
  /\ batch' = << >>
  /\ UNCHANGED <<kv, slots, reqVars, waiting, running, batch_queue>>

\* How many of n tokens one step may compute
Chunk(n) ==
  AtMost(IF 0 < long_prefill_token_threshold THEN AtMost(n, long_prefill_token_threshold) ELSE n,
         token_budget)

num_new_tokens(r) ==
  Chunk(Len(tokens[r]) + num_output_placeholders[r] - num_computed_tokens[r])

\* Async: the step in flight is sure to bring r to max_tokens.
LastStepInFlight(r) ==
  /\ num_output_placeholders[r] > 0
  /\ num_computed_tokens[r] + 2 - num_output_placeholders[r] >= Len(Prompt[r]) + max_tokens

InRunningLoop == pc = "running" /\ req_index \in DOMAIN running /\ token_budget > 0

running_skip ==
  /\ InRunningLoop
  /\ LastStepInFlight(running[req_index]) \/ num_new_tokens(running[req_index]) = 0
  /\ req_index' = req_index + 1
  /\ UNCHANGED <<kv, slots, reqVars, waiting, running, pc, token_budget, preempted, batch,
                 batch_queue>>

\* r with n tokens from num_computed on joins the batch being built.
Scheduled(r, computed, n, k) ==
  [q \in DOMAIN batch \cup {r} |->
     IF q # r THEN batch[q]
     ELSE [start |-> computed, num |-> n, blocks |-> [g \in ToSet(Groups) |-> k.blocks[g][r]]]]

\* The request to preempt: the last admitted, or the one of lowest priority.
Victim ==
  IF policy = "fcfs" THEN Last(running)
  ELSE CHOOSE v \in ToSet(running) : \A r \in ToSet(running) : Rank[r] <= Rank[v]

\* allocate_slots for the running request r
Extension(r) ==
  allocate_slots(kv, r, tokens[r], num_computed_tokens[r], num_new_tokens(r), NoHit, FALSE)

\* One allocate_slots of the running loop: the request is scheduled, or another
\* (or the request itself, which ends the loop) is preempted.
running_allocate ==
  /\ InRunningLoop
  /\ \E r \in {running[req_index]} : \E a \in {Extension(r)} :
     LET n == num_new_tokens(r)
         v == Victim
         undone == policy = "priority" /\ v \in DOMAIN batch
     IN  /\ ~LastStepInFlight(r)
         /\ n > 0
         /\ \/ /\ a.fits
               /\ kv' = a.kv
               /\ batch' = Scheduled(r, num_computed_tokens[r], n, a.kv)
               /\ token_budget' = token_budget - n
               /\ req_index' = req_index + 1
               /\ UNCHANGED <<status, num_computed_tokens, waiting, running, pc, preempted>>
            \/ /\ ~a.fits
               /\ kv' = kv_free(a.kv, v)
               /\ status' = [status EXCEPT ![v] = "PREEMPTED"]
               /\ num_computed_tokens' = [num_computed_tokens EXCEPT ![v] = 0]
               /\ waiting' = <<v>> \o waiting
               /\ running' = Without(running, v)
               /\ preempted' = TRUE
               /\ batch' = IF undone THEN [q \in DOMAIN batch \ {v} |-> batch[q]] ELSE batch
               /\ token_budget' = IF undone THEN token_budget + batch[v].num ELSE token_budget
               /\ req_index' = IF undone THEN req_index - 1 ELSE req_index
               /\ pc' = IF v = r THEN "finish" ELSE pc
  /\ UNCHANGED <<slots, tokens, num_output_placeholders, batch_queue>>

running_done ==
  /\ pc = "running"
  /\ ~InRunningLoop
  /\ pc' = IF preempted THEN "finish" ELSE "waiting"
  /\ UNCHANGED <<kv, slots, reqVars, waiting, running, req_index, token_budget, preempted,
                 batch, batch_queue>>

\* peek_request of the FCFS deque or of the priority heap
NextWaiting ==
  IF policy = "fcfs" THEN Head(waiting)
  ELSE CHOOSE r \in ToSet(waiting) : \A q \in ToSet(waiting) : Rank[r] <= Rank[q]

InWaitingLoop ==
  pc = "waiting" /\ waiting # <<>> /\ token_budget > 0 /\ Len(running) # max_num_running_reqs

\* allocate_slots for request r at the head of the waiting queue, with its hit
Admission(r) ==
  LET hit == get_computed_blocks(kv, tokens[r])
      computed == Len(hit["full"]) * block_size
      n == Chunk(Len(tokens[r]) - computed)
  IN  [computed |-> computed, n |-> n]
        @@ allocate_slots(kv, r, tokens[r], computed, n, hit, TRUE)

waiting_admit ==
  /\ InWaitingLoop
  /\ \E r \in {NextWaiting} : \E a \in {Admission(r)} :
         /\ kv' = a.kv
         /\ \/ /\ a.fits
               /\ waiting' = Without(waiting, r)
               /\ running' = Append(running, r)
               /\ status' = [status EXCEPT ![r] = "RUNNING"]
               /\ num_computed_tokens' = [num_computed_tokens EXCEPT ![r] = a.computed]
               /\ batch' = Scheduled(r, a.computed, a.n, a.kv)
               /\ token_budget' = token_budget - a.n
               /\ UNCHANGED pc
            \/ /\ ~a.fits
               /\ pc' = "finish"
               /\ UNCHANGED <<waiting, running, status, num_computed_tokens, batch, token_budget>>
  /\ UNCHANGED <<slots, tokens, num_output_placeholders, req_index, preempted, batch_queue>>

waiting_done ==
  /\ pc = "waiting"
  /\ ~InWaitingLoop
  /\ pc' = "finish"
  /\ UNCHANGED <<kv, slots, reqVars, waiting, running, req_index, token_budget, preempted,
                 batch, batch_queue>>

\* Not is_prefill_chunk after this step: a token is sampled for r.
Samples(r) ==
  batch[r].start + batch[r].num >= Len(tokens[r]) + num_output_placeholders[r]

\* The end of schedule(), _update_after_schedule, and the batch goes to the model.
finish_schedule ==
  /\ pc = "finish"
  /\ num_computed_tokens' =
       [r \in Requests |-> num_computed_tokens[r] + IF r \in DOMAIN batch THEN batch[r].num ELSE 0]
  /\ num_output_placeholders' =
       [r \in Requests |-> num_output_placeholders[r]
                             + IF Async /\ r \in DOMAIN batch /\ Samples(r) THEN 1 ELSE 0]
  /\ batch_queue' =
       IF DOMAIN batch = {} THEN batch_queue
       ELSE Append(batch_queue, [r \in DOMAIN batch |-> [samples |-> Samples(r)] @@ batch[r]])
  /\ pc' = "idle"
  /\ req_index' = 1
  /\ token_budget' = 0
  /\ preempted' = FALSE
  /\ batch' = << >>
  /\ UNCHANGED <<kv, slots, status, tokens, waiting, running>>

-----------------------------------------------------------------------------
(* The model runner, and update_from_output *)

BlockOf(p) == (p - 1) \div block_size + 1
SlotOf(p) == ((p - 1) % block_size) + 1

\* What group g's KV of r's p-th token depends on.  After an abort the scheduler
\* does not learn the tokens in flight, and no request may read their KV.
KV(g, r, p) == IF p > Len(tokens[r]) THEN Empty ELSE <<g, SubSeq(tokens[r], 1, p)>>

\* The slots batch s writes, and what it writes there
Writes(s) ==
  UNION {{[block |-> s[r].blocks[g][BlockOf(p)], slot |-> SlotOf(p), kv |-> KV(g, r, p)] :
            p \in s[r].start + 1 .. s[r].start + s[r].num} : r \in DOMAIN s, g \in ToSet(Groups)}

\* The KV memory when the tokens of batch s are written
After(s) ==
  LET writes == Writes(s)
      to(b, i) == {w \in writes : w.block = b /\ w.slot = i}
  IN  [b \in Blocks |-> [i \in 1 .. block_size |->
         IF to(b, i) = {} THEN slots[b][i] ELSE (CHOOSE w \in to(b, i) : TRUE).kv]]

\* Positions group g's attention reads for the tokens of e.
Reads(g, e) ==
  (IF g = "full" THEN 1 ELSE AtLeast0(e.start + 1 - sliding_window) + 1) .. e.start + e.num

\* The oldest batch is computed and its output processed, one request at a time.
update_from_output ==
  /\ pc = "idle"
  /\ batch_queue # <<>>
  /\ LET s == Head(batch_queue)
         got == {r \in DOMAIN s : s[r].samples /\ status[r] \in Live}
         stopped == {r \in got : Len(tokens[r]) + 1 >= Len(Prompt[r]) + max_tokens}
         order == SetToSeq(got)
         grown == [r \in Requests |-> IF r \in got THEN Append(tokens[r], Output) ELSE tokens[r]]
         left == [r \in Requests |-> num_output_placeholders[r] - IF Async /\ r \in got THEN 1 ELSE 0]
         one(k, r) ==
           LET c == IF Async /\ status[r] = "RUNNING"
                    THEN cache_blocks(k, r, grown[r], num_computed_tokens[r] - left[r]) ELSE k
           IN  IF r \in stopped THEN kv_free(c, r) ELSE c
     IN  /\ slots' = After(s)
         /\ tokens' = grown
         /\ num_output_placeholders' = left
         /\ kv' = FoldLeft(one, kv, order)
         /\ status' = [r \in Requests |-> IF r \in stopped THEN "FINISHED" ELSE status[r]]
         /\ running' = SelectSeq(running, LAMBDA r : r \notin stopped)
         /\ waiting' = SelectSeq(waiting, LAMBDA r : r \notin stopped)
  /\ batch_queue' = Tail(batch_queue)
  /\ UNCHANGED <<num_computed_tokens, loopVars>>

-----------------------------------------------------------------------------
Schedule ==
  \/ start_schedule \/ running_skip \/ running_allocate \/ running_done
  \/ waiting_admit \/ waiting_done \/ finish_schedule

Next ==
  \/ Schedule
  \/ update_from_output
  \/ reset_prefix_cache
  \/ \E r \in Requests : add_request(r) \/ finish_requests(r)

Spec == Init /\ [][Next]_vars

-----------------------------------------------------------------------------
\* The forward pass reads what it should: when the oldest batch is computed, every
\* slot a request's attention reads in either group (all its prefix; the window)
\* holds the key and value of that very token, whatever hits, evictions,
\* preemptions, window frees and in-flight steps came between get_computed_blocks,
\* allocate_slots and the step.
ReadsComputedPrefix ==
  batch_queue # <<>> =>
    LET s == Head(batch_queue)
        after == After(s)
    IN  \A r \in DOMAIN s, g \in ToSet(Groups) :
          status[r] \in Live =>
            \A p \in Reads(g, s[r]) : after[s[r].blocks[g][BlockOf(p)]][SlotOf(p)] = KV(g, r, p)

InUse(b) == {<<g, r, i>> \in {"full", "swa"} \X Requests \X (1 .. max_model_len) :
               i \in DOMAIN kv.blocks[g][r] /\ kv.blocks[g][r][i] = b}

\* FreeKVCacheBlockQueue and the reference counts agree with the block tables: no
\* assertion of the queue or of the pool has failed, the list walked either way is
\* the same and as long as num_free_blocks, it holds exactly the blocks no request
\* holds, and ref_cnt counts the table entries of both groups.  BlockHashToBlockMap
\* and block_hash agree too: a block is found under its own hash and under no other,
\* through caching, duplicate blocks, reuse and reset.
PoolExact ==
  LET free == get_all_free_blocks(kv) IN
  /\ kv.ok
  /\ Len(free) = kv.num_free_blocks
  /\ Walk(kv.prev, TAIL) = Reverse(free)
  /\ IsInjective(free)
  /\ ToSet(free) = {b \in Blocks \ {Null} : InUse(b) = {}}
  /\ \A b \in Blocks \ {Null} : kv.ref_cnt[b] = Cardinality(InUse(b))
  /\ \A b \in Blocks : {h \in DOMAIN kv.cached : b \in ToSet(kv.cached[h])}
                         = IF kv.block_hash[b] = NoHash THEN {} ELSE {kv.block_hash[b]}

\* Freeing tail first (SingleTypeKVCacheManager.free) keeps hits contiguous: while a
\* full-attention block is cached, so is a block for every shorter prefix, so no
\* cached block is out of find_longest_cache_hit's left-to-right reach.
ChainReachable ==
  \A h \in DOMAIN kv.cached : h[1] = "full" =>
    \A i \in 1 .. Len(h[2]) \div block_size : HashOf("full", h[2], i) \in DOMAIN kv.cached

\* Cascade attention reads the common prefix once for all: the blocks counted by
\* get_num_common_prefix_blocks, which compares reference counts only, are the same
\* blocks in the table of every request that holds any.
CommonPrefixShared ==
  \A r \in ToSet(running), q \in Requests :
    kv.blocks["full"][q] # <<>> =>
      LET n == get_num_common_prefix_blocks(kv, r)
      IN  SubSeq(kv.blocks["full"][q], 1, n) = SubSeq(kv.blocks["full"][r], 1, n)

\* Admission reserves neither too little nor too much.  A request never holds more
\* sliding-window blocks than max_admission_blocks_per_request, which is all that
\* allocate_slots reserves for it; and one with no running competitor is never
\* refused its blocks, neither at admission (where full_sequence_must_fit would
\* refuse it for ever) nor while it runs (where it would preempt itself).
AdmissionExact ==
  /\ \A r \in Requests : Len(Real(kv.blocks["swa"][r])) <= max_admission_blocks_per_request
  /\ InWaitingLoop /\ running = <<>> => Admission(NextWaiting).fits
  /\ InRunningLoop /\ Len(running) = 1 /\ num_new_tokens(running[1]) > 0 => Extension(running[1]).fits
=============================================================================
