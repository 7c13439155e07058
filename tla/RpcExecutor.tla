---------------------------- MODULE RpcExecutor -----------------------------
(***************************************************************************)
(* MultiprocExecutor and WorkerProc, vllm/v1/executor/multiproc_executor,  *)
(* with the calls that the engine core's thread makes (v1/engine/core.py). *)
(*                                                                         *)
(* Call k is object k of the broadcast queue, whose readers are the worker *)
(* processes.  execute_model and sample_tokens do not block and are        *)
(* answered by output_rank alone; the call made while the engine starts    *)
(* ("init") and utility calls ("util") block and are answered by all.      *)
(* Each worker answers through its output thread on a queue of its own, a  *)
(* MessageQueue with one reader, which is taken here as the FIFO that      *)
(* BroadcastQueue promises.                                                *)
(*                                                                         *)
(* A worker process may die at any point of its life.  The executor's      *)
(* monitor thread then ends the other workers, shuts the queues down and   *)
(* tells the engine core through the failure callback.                     *)
(***************************************************************************)
EXTENDS BroadcastQueue, FiniteSetsExt, SequencesExt

CONSTANTS output_rank,
          batch_queue_size,
          Raises,         \* the kinds of calls whose worker method may raise
          MaxCalls,       \* bound: calls the engine core makes,
          MaxUtils,       \*        and utility calls among them
          MaxCrashes      \* bound: workers that die by themselves

ASSUME RpcAssumption ==
    output_rank \in Readers /\ batch_queue_size \in Nat \ {0} /\ max_chunks \in Nat \ {0}

Nobody == -1

VARIABLES kind,           \* kind[k + 1]: what call k is
          core_pc,        \* the engine core's thread
          batch_queue,    \* the sample_tokens calls of the batches in flight
          target,         \* the call whose result() the core waits in
          cur, left,      \* the future being answered, the ranks still to hear
          futures,        \* futures_queue, oldest first: <<call, ranks to hear>>
          results,        \* results[k + 1]: "none", "ok" or "error"
          answers,        \* history: the <<rank, call>> of k's answers
          worker,         \* worker[r]: where r's main thread is
          started,        \* workers whose READY is in the ready pipe
          rpc_ready,      \* the executor has sent READY on the broadcast queue
          resp_ready,     \* workers that have sent READY on their own queue
          resp,           \* resp[r]: outputs of r that are not dequeued yet
          mon_pc,         \* the executor's monitor thread
          is_failed,      \* the executor's flag
          queues_shut,    \* response queues shut down, response_mqs = []
          callback,       \* failure_callback is set
          failed_msg      \* EXECUTOR_FAILED is in the core's input queue

queue_vars == <<sent, got, ret>>
call_vars == <<kind, target, cur, left, futures, results, answers>>
start_vars == <<started, rpc_ready, resp_ready>>
mon_vars == <<mon_pc, is_failed, queues_shut>>
rpc_vars == <<queue_vars, call_vars, core_pc, batch_queue, worker, start_vars, resp,
              mon_vars, callback, failed_msg>>

RpcInit ==
    /\ Init
    /\ kind = <<>> /\ results = <<>> /\ answers = <<>> /\ futures = <<>>
    /\ core_pc = "wait_for_ready" /\ batch_queue = <<>>
    /\ target = Nobody /\ cur = Nobody /\ left = {}
    /\ worker = [r \in Readers |-> "init"]
    /\ started = {} /\ rpc_ready = FALSE /\ resp_ready = {}
    /\ resp = [r \in Readers |-> <<>>]
    /\ mon_pc = "off" /\ is_failed = FALSE /\ queues_shut = FALSE
    /\ callback = FALSE /\ failed_msg = FALSE

Alive(r) == worker[r] # "dead"

\* a fatal exception ends the engine core, and its shutdown the workers;
\* any other is reported and the core goes on
Raise(fatal) ==
    /\ core_pc' = IF fatal THEN "failed" ELSE "run"
    /\ worker' = IF fatal THEN [r \in Readers |-> "dead"] ELSE worker

-----------------------------------------------------------------------------
(* Startup.  Each side subscribes when it creates its end of a queue, so    *)
(* the writer's half of wait_until_ready only sends READY and the reader's  *)
(* half awaits it.                                                          *)

\* worker_main: READY on the pipe, then the two wait_until_ready
worker_ready(r) ==
    /\ worker[r] = "init"
    /\ started' = started \cup {r}
    /\ worker' = [worker EXCEPT ![r] = "rpc_ready"]
    /\ UNCHANGED <<queue_vars, call_vars, core_pc, batch_queue, rpc_ready, resp_ready, resp, mon_vars, callback, failed_msg>>

worker_handshake(r) ==
    /\ worker[r] = "rpc_ready" /\ rpc_ready
    /\ resp_ready' = resp_ready \cup {r}
    /\ worker' = [worker EXCEPT ![r] = "idle"]
    /\ UNCHANGED <<queue_vars, call_vars, core_pc, batch_queue, started, rpc_ready, resp, mon_vars, callback, failed_msg>>

\* wait_for_ready: all pipes deliver READY, or one ends early and the
\* executor gives up; the monitor starts here
wait_for_ready ==
    /\ core_pc = "wait_for_ready"
    /\ \/ /\ started = Readers
          /\ core_pc' = "rpc_ready" /\ mon_pc' = "watch"
          /\ UNCHANGED worker
       \/ /\ \E r \in Readers \ started : ~Alive(r)
          /\ Raise(TRUE)
          /\ UNCHANGED mon_pc
    /\ UNCHANGED <<queue_vars, call_vars, batch_queue, start_vars, resp, is_failed,
                   queues_shut, callback, failed_msg>>

send_rpc_ready ==
    /\ core_pc = "rpc_ready"
    /\ rpc_ready' = TRUE
    /\ core_pc' = "resp_ready"
    /\ UNCHANGED <<queue_vars, call_vars, batch_queue, worker, started, resp_ready, resp, mon_vars, callback, failed_msg>>

recv_resp_ready ==
    /\ core_pc = "resp_ready" /\ resp_ready = Readers
    /\ core_pc' = "register"
    /\ UNCHANGED <<queue_vars, call_vars, batch_queue, worker, start_vars, resp,
                   mon_vars, callback, failed_msg>>

\* register_failure_callback: test is_failed ...
register_failure_callback ==
    /\ core_pc = "register"
    /\ failed_msg' = is_failed
    /\ core_pc' = IF is_failed THEN "run" ELSE "set_callback"
    /\ UNCHANGED <<queue_vars, call_vars, batch_queue, worker, start_vars, resp,
                   mon_vars, callback>>

\* ... and set the callback, which the monitor thread may already have read
set_failure_callback ==
    /\ core_pc = "set_callback"
    /\ callback' = TRUE
    /\ core_pc' = "run"
    /\ UNCHANGED <<queue_vars, call_vars, batch_queue, worker, start_vars, resp,
                   mon_vars, failed_msg>>

-----------------------------------------------------------------------------
(* The engine core's thread: its calls, collective_rpc and FutureWrapper. *)

Repliers(k) == IF kind[k + 1] \in {"execute_model", "sample_tokens"}
                 THEN {output_rank} ELSE Readers

\* an exception of a utility call is reported to the client, any other ends
\* the engine core
Fatal(kd) == kd # "util"

\* mutant: one batch too many in flight
NextKinds_one_more ==
    IF kind = <<>> THEN {"init"}
    ELSE IF Last(kind) = "execute_model" THEN {"sample_tokens"}
    ELSE {kd \in {"util", "execute_model"} :
            /\ kd = "execute_model" => Len(batch_queue) <= batch_queue_size
            /\ kd = "util" => Len(SelectSeq(kind, LAMBDA x : x = "util")) < MaxUtils}

\* the calls the core may make next: the start of the engine, the second
\* half of a batch, or a new batch or a utility call
NextKinds ==
    IF kind = <<>> THEN {"init"}
    ELSE IF Last(kind) = "execute_model" THEN {"sample_tokens"}
    ELSE {kd \in {"util", "execute_model"} :
            /\ kd = "execute_model" => Len(batch_queue) < batch_queue_size
            /\ kd = "util" => Len(SelectSeq(kind, LAMBDA x : x = "util")) < MaxUtils}

\* the bound leaves room for the second half of a batch
CallsAfter(kd) == Len(kind) + (IF kd = "execute_model" THEN 2 ELSE 1)

collective_rpc(kd) ==
    /\ core_pc = "run" /\ kd \in NextKinds /\ CallsAfter(kd) <= MaxCalls
    /\ IF is_failed
         THEN /\ Raise(Fatal(kd))
              /\ UNCHANGED <<kind, results, answers>>
         ELSE /\ core_pc' = "enqueue"
              /\ kind' = Append(kind, kd)
              /\ results' = Append(results, "none")
              /\ answers' = Append(answers, {})
              /\ UNCHANGED worker
    /\ UNCHANGED <<queue_vars, batch_queue, target, cur, left, futures, start_vars,
                   resp, mon_vars, callback, failed_msg>>

\* rpc_broadcast_mq is there ...
enqueue_call ==
    /\ core_pc = "enqueue" /\ ~queues_shut
    /\ core_pc' = "write"
    /\ UNCHANGED <<queue_vars, call_vars, batch_queue, worker, start_vars, resp, mon_vars,
                   callback, failed_msg>>

\* ... and its acquire_write waits while the ring is full; no shutdown ends that
acquire_write ==
    /\ core_pc = "write"
    /\ Enqueue
    /\ core_pc' = "future"
    /\ UNCHANGED <<call_vars, batch_queue, worker, start_vars, resp, mon_vars, callback,
                   failed_msg>>

Call == Len(kind) - 1

\* the call raises: the monitor thread has set rpc_broadcast_mq to None, or
\* response_mqs to [], which has no element output_rank
call_raises ==
    /\ queues_shut
    /\ \/ core_pc = "enqueue"
       \/ core_pc = "future" /\ Repliers(Call) = {output_rank}
    /\ results' = [results EXCEPT ![Call + 1] = "error"]
    /\ Raise(Fatal(Last(kind)))
    /\ UNCHANGED <<queue_vars, kind, target, cur, left, futures, answers, batch_queue,
                   start_vars, resp, mon_vars, callback, failed_msg>>

\* mutant: the future joins the wrong end of the queue
create_future_first ==
    /\ core_pc = "future"
    /\ queues_shut => Repliers(Call) = Readers
    /\ futures' = <<<<Call, IF queues_shut THEN {} ELSE Repliers(Call)>>>> \o futures
    /\ IF Repliers(Call) = Readers
         THEN core_pc' = "result" /\ target' = Call
         ELSE core_pc' = "run" /\ UNCHANGED target
    /\ batch_queue' = IF Last(kind) = "sample_tokens" THEN Append(batch_queue, Call)
                      ELSE batch_queue
    /\ UNCHANGED <<queue_vars, kind, cur, left, results, answers, worker, start_vars, resp, mon_vars, callback, failed_msg>>

\* the FutureWrapper joins the queue; a blocking call asks for its result.
\* With response_mqs = [] a call to all workers has no reply to wait for.
create_future ==
    /\ core_pc = "future"
    /\ queues_shut => Repliers(Call) = Readers
    /\ futures' = Append(futures, <<Call, IF queues_shut THEN {} ELSE Repliers(Call)>>)
    /\ IF Repliers(Call) = Readers
         THEN core_pc' = "result" /\ target' = Call
         ELSE core_pc' = "run" /\ UNCHANGED target
    /\ batch_queue' = IF Last(kind) = "sample_tokens" THEN Append(batch_queue, Call)
                      ELSE batch_queue
    /\ UNCHANGED <<queue_vars, kind, cur, left, results, answers, worker, start_vars, resp, mon_vars, callback, failed_msg>>

\* step_with_batch_queue blocks until the oldest batch is done
batch_result ==
    /\ core_pc = "run" /\ batch_queue # <<>> /\ Last(kind) # "execute_model"
    /\ core_pc' = "result" /\ target' = Head(batch_queue)
    /\ batch_queue' = Tail(batch_queue)
    /\ UNCHANGED <<queue_vars, kind, cur, left, futures, results, answers, worker, start_vars,
                   resp, mon_vars, callback, failed_msg>>

\* result(): drain any futures ahead of us in the queue
pop_future ==
    /\ core_pc = "result" /\ cur = Nobody /\ results[target + 1] = "none"
    /\ cur' = Head(futures)[1] /\ left' = Head(futures)[2]
    /\ futures' = Tail(futures)
    /\ UNCHANGED <<queue_vars, kind, core_pc, batch_queue, target, results, answers, worker,
                   start_vars, resp, mon_vars, callback, failed_msg>>

SetResult(v) ==
    /\ results' = [results EXCEPT ![cur + 1] = v]
    /\ cur' = Nobody /\ left' = {}

\* get_response: dequeue from the next response queue; a FAILURE raises and
\* leaves the queues of the later ranks unread
get_response ==
    /\ core_pc = "result" /\ cur # Nobody /\ left # {}
    /\ LET r == Min(left) IN
         /\ resp[r] # <<>>
         /\ resp' = [resp EXCEPT ![r] = Tail(@)]
         /\ answers' = [answers EXCEPT ![cur + 1] = @ \cup {<<r, Head(resp[r]).call>>}]
         /\ IF ~Head(resp[r]).ok THEN SetResult("error")
            ELSE IF left = {r} THEN SetResult("ok")
            ELSE left' = left \ {r} /\ UNCHANGED <<cur, results>>
    /\ UNCHANGED <<queue_vars, kind, core_pc, batch_queue, target, futures, worker, start_vars,
                   mon_vars, callback, failed_msg>>

\* nobody to hear: the list of responses is empty
no_responses ==
    /\ core_pc = "result" /\ cur # Nobody /\ left = {}
    /\ SetResult("ok")
    /\ UNCHANGED <<queue_vars, kind, core_pc, batch_queue, target, futures, answers, worker,
                   start_vars, resp, mon_vars, callback, failed_msg>>

\* mutant: a dequeue is not cancelled by the shutdown of its queue
response_cancelled_never ==
    /\ core_pc = "result" /\ cur # Nobody /\ left # {} /\ mon_pc = "watch"
    /\ queues_shut /\ resp[Min(left)] = <<>>
    /\ SetResult("error")
    /\ UNCHANGED <<queue_vars, kind, core_pc, batch_queue, target, futures, answers, worker,
                   start_vars, resp, mon_vars, callback, failed_msg>>

\* the response queue was shut down: RuntimeError("cancelled")
response_cancelled ==
    /\ core_pc = "result" /\ cur # Nobody /\ left # {}
    /\ queues_shut /\ resp[Min(left)] = <<>>
    /\ SetResult("error")
    /\ UNCHANGED <<queue_vars, kind, core_pc, batch_queue, target, futures, answers, worker,
                   start_vars, resp, mon_vars, callback, failed_msg>>

\* result() returns or raises; a sample_tokens that returns None makes the
\* core ask for the result of its execute_model
result_done ==
    /\ core_pc = "result" /\ cur = Nobody /\ results[target + 1] # "none"
    /\ LET raised == \/ results[target + 1] = "error"
                     \/ kind[target + 1] = "sample_tokens" /\ results[target] = "error"
       IN  Raise(raised /\ Fatal(kind[target + 1]))
    /\ target' = Nobody
    /\ UNCHANGED <<queue_vars, kind, batch_queue, cur, left, futures, results, answers,
                   start_vars, resp, mon_vars, callback, failed_msg>>

\* the core takes EXECUTOR_FAILED from its input queue
executor_failed ==
    /\ core_pc = "run" /\ failed_msg
    /\ Raise(TRUE)
    /\ UNCHANGED <<queue_vars, call_vars, batch_queue, start_vars, resp, mon_vars,
                   callback, failed_msg>>

-----------------------------------------------------------------------------
(* A worker process: worker_busy_loop and its output thread. *)

worker_busy_loop(r) ==
    /\ worker[r] = "idle"
    /\ Dequeue(r)
    /\ worker' = [worker EXCEPT ![r] = "busy"]
    /\ UNCHANGED <<call_vars, core_pc, batch_queue, start_vars, resp, mon_vars, callback,
                   failed_msg>>

\* The method runs, and its result or its exception goes through the output
\* thread to the response queue: one FIFO per worker.  A forward pass is a
\* collective: no worker ends it before all have begun it.
execute(r) ==
    /\ worker[r] = "busy"
    /\ LET k == ret[r] IN
         /\ kind[k + 1] = "execute_model" => \A q \in Readers : got[q] > k
         /\ \E ok \in {TRUE} \cup {kind[k + 1] \notin Raises} :
              resp' = IF r \in Repliers(k)
                        THEN [resp EXCEPT ![r] = Append(@, [call |-> k, ok |-> ok])]
                        ELSE resp
    /\ worker' = [worker EXCEPT ![r] = "idle"]
    /\ UNCHANGED <<queue_vars, call_vars, core_pc, batch_queue, start_vars, mon_vars,
                   callback, failed_msg>>

Dead == {r \in Readers : ~Alive(r)}

worker_dies(r) ==
    /\ Alive(r) /\ Cardinality(Dead) < MaxCrashes
    /\ worker' = [worker EXCEPT ![r] = "dead"]
    /\ UNCHANGED <<queue_vars, call_vars, core_pc, batch_queue, start_vars, resp, mon_vars,
                   callback, failed_msg>>

\* the death pipe is closed: the worker's dequeue is cancelled, or it is
\* terminated or killed after the grace period
worker_exits(r) ==
    /\ Alive(r) /\ mon_pc = "terminate"
    /\ worker' = [worker EXCEPT ![r] = "dead"]
    /\ UNCHANGED <<queue_vars, call_vars, core_pc, batch_queue, start_vars, resp, mon_vars,
                   callback, failed_msg>>

-----------------------------------------------------------------------------
(* The executor's monitor thread: monitor_workers and shutdown. *)

\* unless the executor is shutting down already
worker_died ==
    /\ mon_pc = "watch" /\ Dead # {} /\ core_pc # "failed"
    /\ is_failed' = TRUE
    /\ mon_pc' = "terminate"
    /\ UNCHANGED <<queue_vars, call_vars, core_pc, batch_queue, worker, start_vars, resp,
                   queues_shut, callback, failed_msg>>

shutdown_queues ==
    /\ mon_pc = "terminate" /\ Dead = Readers
    /\ queues_shut' = TRUE
    /\ mon_pc' = "callback"
    /\ UNCHANGED <<queue_vars, call_vars, core_pc, batch_queue, worker, start_vars, resp,
                   is_failed, callback, failed_msg>>

\* mutant: the engine core is not told
failure_callback_skipped ==
    /\ mon_pc = "callback"
    /\ mon_pc' = "done"
    /\ UNCHANGED <<queue_vars, call_vars, core_pc, batch_queue, worker, start_vars, resp,
                   is_failed, queues_shut, callback, failed_msg>>

failure_callback ==
    /\ mon_pc = "callback"
    /\ failed_msg' = (failed_msg \/ callback)
    /\ mon_pc' = "done"
    /\ UNCHANGED <<queue_vars, call_vars, core_pc, batch_queue, worker, start_vars, resp,
                   is_failed, queues_shut, callback>>

-----------------------------------------------------------------------------
CoreStep == \/ wait_for_ready \/ send_rpc_ready \/ recv_resp_ready
            \/ register_failure_callback \/ set_failure_callback
            \/ \E kd \in {"init", "sample_tokens"} : collective_rpc(kd)
            \/ enqueue_call \/ acquire_write \/ call_raises \/ create_future \/ batch_result
            \/ pop_future \/ get_response \/ no_responses \/ response_cancelled
            \/ result_done \/ executor_failed

\* what a client asks for
NewCall == \E kd \in {"execute_model", "util"} : collective_rpc(kd)

WorkerStep(r) == \/ worker_ready(r) \/ worker_handshake(r)
                 \/ worker_busy_loop(r) \/ execute(r)

MonitorStep == worker_died \/ shutdown_queues \/ failure_callback

RpcNext == \/ CoreStep \/ NewCall \/ MonitorStep
           \/ \E r \in Readers : \/ WorkerStep(r) \/ worker_dies(r) \/ worker_exits(r)

RpcSpec == RpcInit /\ [][RpcNext]_rpc_vars

\* Every thread keeps running and a process told to exit does.  No worker has
\* to die, and no client has to ask for anything.
RpcFairSpec ==
    /\ RpcSpec
    /\ WF_rpc_vars(CoreStep) /\ WF_rpc_vars(MonitorStep)
    /\ \A r \in Readers : /\ WF_rpc_vars(WorkerStep(r))
                          /\ WF_rpc_vars(worker_exits(r))

-----------------------------------------------------------------------------
(* Properties. *)

Calls == 0 .. Len(kind) - 1

(* A call that succeeds was answered by each worker it is to be answered by, *)
(* and every answer it took was an answer to this call: the order of the     *)
(* broadcast, of each worker's outputs and of futures_queue agree, although  *)
(* most calls are answered by one worker and are not waited for.  (A call    *)
(* that meets the shutdown of a failed executor may return an empty list.)   *)
ResponsesMatch ==
    \A k \in Calls :
        /\ \A a \in answers[k + 1] : a[2] = k
        /\ results[k + 1] = "ok" /\ ~is_failed =>
              {a[1] : a \in answers[k + 1]} = Repliers(k)

(* While a worker executes a call, the chunk it came in is not filled again: *)
(* dequeue unpickles large buffers as views of the chunk after the read flag *)
(* has let the writer reuse it, and only the number of batches in flight and *)
(* the collective keep the core from getting max_chunks calls ahead.         *)
CallNotOverwritten ==
    \A r \in Readers : worker[r] = "busy" => sent - ret[r] <= max_chunks

(* The core never waits for ever.  Startup ends, unless a worker dies in it: *)
(* the two wait_until_ready of the executor and those of the workers are in  *)
(* the same order.  Calls and results of batches return: a worker that lives *)
(* answers, one that died gets the dequeue cancelled, and the ring never     *)
(* fills up before a worker that no longer reads it.                         *)
CallsReturn ==
    /\ <>(Dead # {} \/ core_pc \notin {"wait_for_ready", "rpc_ready", "resp_ready"})
    /\ core_pc \in {"enqueue", "write", "future", "result"} ~> core_pc \in {"run", "failed"}

(* Once the queues are ready, the death of a worker ends the engine core,    *)
(* wherever the core is: registering the callback, enqueueing, waiting for   *)
(* an answer of the dead worker or of a living one, or idle.                 *)
FailureDetected ==
    (core_pc \notin {"wait_for_ready", "rpc_ready", "resp_ready"} /\ Dead # {})
        ~> core_pc = "failed"
=============================================================================
