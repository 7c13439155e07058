------------------------------ MODULE FrontEnd ------------------------------
(***************************************************************************)
(* A request from generate() to the engine core and back: AsyncLLM and its *)
(* output_handler task (v1/engine/async_llm.py), AsyncMPClient             *)
(* (core_client.py) and, in the engine process, the input thread and the   *)
(* busy loop of EngineCoreProc (core.py).                                  *)
(*                                                                         *)
(* The API server's event loop runs a task from one suspension to the next *)
(* without interruption.  A send does not suspend: the input socket has no *)
(* high-water mark (make_zmq_socket).  So a call registers and sends all   *)
(* its requests in one step, an abort is one step, and output_handler      *)
(* pauses only for the next message and between chunks of outputs (of one  *)
(* output here: every place where it may pause).                           *)
(***************************************************************************)
EXTENDS OutputProcessor

CONSTANTS
  length,          \* length[r]: tokens of r until max_tokens or a stop token
  MaxCrashes,      \* bound: 1 if the engine core may die
  AllowPreprocError, AllowAbortAll   \* which rare events of the engine happen

ASSUME FrontEndAssumption ==
  /\ \A r \in Requests : length[r] \in Nat \ {0}
  /\ MaxCrashes \in {0, 1}
  /\ AllowPreprocError \in BOOLEAN /\ AllowAbortAll \in BOOLEAN

VARIABLES
  op,            \* the OutputProcessor and the collectors
  kind,          \* kind[g]: SamplingParams.output_kind
  call,          \* call[g]: where generate() is
  received,      \* received[r]: what the caller was given of r's completion
  handler,       \* the outputs output_handler has still to process
  to_abort,      \* reqs_to_abort of the last chunk, not sent yet
  handler_done,  \* the output_handler task has ended
  engine_dead,   \* BackgroundResources.engine_dead
  input_socket,  \* messages to the engine core
  in_hand,       \* the abort the input thread has put into aborts_queue only
  input_queue, aborts_queue,
  core,          \* where the busy loop is: "input", "step", "aborts" or "dead"
  live,          \* the unfinished requests of the scheduler
  scheduled,     \* the requests of the step
  made,          \* made[r]: number of tokens generated
  outputs        \* messages to the API server, each a sequence of outputs

clientVars == <<op, kind, call, received, handler, to_abort, handler_done>>
coreVars == <<core, live, scheduled, made>>
vars == <<clientVars, engine_dead, input_socket, in_hand, input_queue, aborts_queue, coreVars,
          outputs>>

ADD(r) == <<"ADD", r>>
ABORT(r) == <<"ABORT", r>>
ENGINE_CORE_DEAD == <<>>    \* the message without outputs
Output(r, new, finished) == [req |-> r, new |-> new, finished |-> finished]

Init ==
  /\ op = op_init
  /\ kind \in [Calls -> Kinds]
  /\ call = [g \in Calls |-> "new"]
  /\ received = [r \in Requests |-> [ids |-> <<>>, finished |-> FALSE]]
  /\ handler = <<>>
  /\ to_abort = {}
  /\ handler_done = FALSE
  /\ engine_dead = FALSE
  /\ input_socket = <<>>
  /\ in_hand = <<>>
  /\ input_queue = <<>>
  /\ aborts_queue = {}
  /\ core = "input"
  /\ live = {}
  /\ scheduled = {}
  /\ made = [r \in Requests |-> 0]
  /\ outputs = <<>>

errored == engine_dead \/ handler_done

\* The abort messages for the requests of rs; none once the engine is known to be dead
\* (abort_requests_async).
Aborts(rs) == IF engine_dead THEN <<>> ELSE [i \in 1 .. Cardinality(rs) |-> ABORT(SetToSeq(rs)[i])]

-----------------------------------------------------------------------------
(* AsyncLLM: the tasks of the callers *)

\* generate() up to its loop
add_request(g) ==
  /\ call[g] = "new"
  /\ IF errored
     THEN /\ call' = [call EXCEPT ![g] = "failed"]
          /\ UNCHANGED <<op, input_socket>>
     ELSE /\ call' = [call EXCEPT ![g] = "reading"]
          /\ op' = op_add_request(op, g)
          /\ input_socket' = input_socket \o [i \in 1 .. n[g] |-> ADD(<<g, i>>)]
  /\ UNCHANGED <<kind, received, handler, to_abort, handler_done, engine_dead, in_hand,
                 input_queue, aborts_queue, coreVars, outputs>>

\* q.get_nowait() or await q.get(), and the yield
get(g) ==
  /\ call[g] = "reading"
  /\ op.q[g] # Nothing
  /\ op' = [op EXCEPT !.q[g] = Nothing]
  /\ LET out == op.q[g] IN
     IF out = Failure
     THEN /\ call' = [call EXCEPT ![g] = "failed"]
          /\ UNCHANGED received
     ELSE /\ call' = [call EXCEPT ![g] = IF out.finished THEN "last" ELSE "yielded"]
          /\ received' = [r \in Requests |->
               IF r \notin DOMAIN out.outs THEN received[r]
               ELSE IF kind[g] = "DELTA"
               THEN [out.outs[r] EXCEPT !.ids = received[r].ids \o @]
               ELSE out.outs[r]]
  /\ UNCHANGED <<kind, handler, to_abort, handler_done, engine_dead, input_socket, in_hand,
                 input_queue, aborts_queue, coreVars, outputs>>

\* The caller asks for the next output.
resume(g) ==
  /\ call[g] \in {"yielded", "last"}
  /\ call' = [call EXCEPT ![g] = IF @ = "last" THEN "done" ELSE "reading"]
  /\ UNCHANGED <<op, kind, received, handler, to_abort, handler_done, engine_dead, input_socket,
                 in_hand, input_queue, aborts_queue, coreVars, outputs>>

\* The caller goes away: CancelledError in get(), GeneratorExit at the yield.
cancel(g) ==
  /\ call[g] \in {"reading", "yielded", "last"}
  /\ call' = [call EXCEPT ![g] = "cancelled"]
  /\ op' = abort_call(op, g, kind)
  /\ input_socket' = input_socket \o Aborts(OfCall(op, g))
  /\ UNCHANGED <<kind, received, handler, to_abort, handler_done, engine_dead, in_hand,
                 input_queue, aborts_queue, coreVars, outputs>>

\* abort() by an external id
abort(e) ==
  /\ OfExternal(op, e) # {}
  /\ op' = abort_states(op, OfExternal(op, e), kind)
  /\ input_socket' = input_socket \o Aborts(OfExternal(op, e))
  /\ UNCHANGED <<kind, call, received, handler, to_abort, handler_done, engine_dead, in_hand,
                 input_queue, aborts_queue, coreVars, outputs>>

-----------------------------------------------------------------------------
(* AsyncLLM.output_handler and the client's sockets *)

\* The next message: outputs, or the error that ends the task.
get_output_async ==
  /\ ~handler_done
  /\ handler = <<>>
  /\ outputs # <<>>
  /\ outputs' = Tail(outputs)
  /\ IF Head(outputs) = ENGINE_CORE_DEAD
     THEN /\ op' = propagate_error(op)
          /\ handler_done' = TRUE
          /\ engine_dead' = TRUE
          /\ UNCHANGED handler
     ELSE /\ handler' = Head(outputs)
          /\ UNCHANGED <<op, handler_done, engine_dead>>
  /\ UNCHANGED <<kind, call, received, to_abort, input_socket, in_hand, input_queue,
                 aborts_queue, coreVars>>

\* One chunk: the aborts of the chunk before are sent, the outputs processed, and the
\* aborts of the last chunk sent at once.  Any output may complete a stop string.
output_handler ==
  /\ handler # <<>>
  /\ handler' = Tail(handler)
  /\ LET out == Head(handler)
         r == out.req
     IN  IF r \notin op.request_states
         THEN /\ input_socket' = input_socket \o Aborts(to_abort)
              /\ to_abort' = {}
              /\ UNCHANGED op
         ELSE \E stop \in {FALSE} \cup {out.new # <<>>} :
                LET late == IF stop /\ ~out.finished THEN {r} ELSE {} IN
                /\ op' = process_output(op, r, out.new, out.finished, stop, kind[r[1]])
                /\ IF handler' = <<>>
                   THEN /\ input_socket' = input_socket \o Aborts(to_abort \cup late)
                        /\ to_abort' = {}
                   ELSE /\ input_socket' = input_socket \o Aborts(to_abort)
                        /\ to_abort' = late
  /\ UNCHANGED <<kind, call, received, handler_done, engine_dead, in_hand, input_queue,
                 aborts_queue, coreVars, outputs>>

\* process_outputs_socket sees the last message before output_handler gets to it.
validate_alive ==
  /\ ~engine_dead
  /\ ENGINE_CORE_DEAD \in ToSet(outputs)
  /\ engine_dead' = TRUE
  /\ UNCHANGED <<clientVars, input_socket, in_hand, input_queue, aborts_queue, coreVars, outputs>>

-----------------------------------------------------------------------------
(* EngineCoreProc: the input thread *)

\* Mutant: an abort goes to aborts_queue only.
enqueue_input_abort_once ==
  /\ in_hand # <<>>
  /\ in_hand' = <<>>
  /\ UNCHANGED <<clientVars, engine_dead, input_socket, input_queue, aborts_queue, coreVars,
                 outputs>>

\* The second half of an abort: it goes to the input queue too.
enqueue_input ==
  /\ in_hand # <<>>
  /\ input_queue' = input_queue \o in_hand
  /\ in_hand' = <<>>
  /\ UNCHANGED <<clientVars, engine_dead, input_socket, aborts_queue, coreVars, outputs>>

process_input_sockets ==
  /\ core # "dead"
  /\ in_hand = <<>>
  /\ input_socket # <<>>
  /\ input_socket' = Tail(input_socket)
  /\ LET m == Head(input_socket)
         r == m[2]
     IN  IF m = ABORT(r)
         THEN /\ aborts_queue' = aborts_queue \cup {r}
              /\ in_hand' = <<m>>
              /\ UNCHANGED <<input_queue, outputs>>
         ELSE /\ \/ /\ input_queue' = Append(input_queue, m)
                    /\ UNCHANGED outputs
                 \/ /\ AllowPreprocError
                    /\ outputs' = Append(outputs, <<Output(r, <<>>, TRUE)>>)
                    /\ UNCHANGED input_queue
              /\ UNCHANGED <<aborts_queue, in_hand>>
  /\ UNCHANGED <<clientVars, engine_dead, coreVars>>

-----------------------------------------------------------------------------
(* EngineCoreProc: the busy loop *)

handle_client_request ==
  /\ core = "input"
  /\ input_queue # <<>>
  /\ input_queue' = Tail(input_queue)
  /\ LET m == Head(input_queue)
     IN  live' = IF m = ADD(m[2]) THEN live \cup {m[2]} ELSE live \ {m[2]}
  /\ UNCHANGED <<clientVars, engine_dead, input_socket, in_hand, aborts_queue, core, scheduled,
                 made, outputs>>

\* No work and no input: aborts_queue is drained, everything in it comes again.
wait_for_input ==
  /\ core = "input"
  /\ input_queue = <<>>
  /\ live = {}
  /\ aborts_queue # {}
  /\ aborts_queue' = {}
  /\ UNCHANGED <<clientVars, engine_dead, input_socket, in_hand, input_queue, coreVars, outputs>>

\* schedule() and the forward pass; the token budget covers every request.
schedule ==
  /\ core = "input"
  /\ input_queue = <<>>
  /\ live # {}
  /\ scheduled' = live
  /\ core' = "aborts"
  /\ UNCHANGED <<clientVars, engine_dead, input_socket, in_hand, input_queue, aborts_queue, live,
                 made, outputs>>

process_aborts_queue ==
  /\ core = "aborts"
  /\ live' = live \ aborts_queue
  /\ aborts_queue' = {}
  /\ core' = "step"
  /\ UNCHANGED <<clientVars, engine_dead, input_socket, in_hand, input_queue, scheduled, made,
                 outputs>>

\* A token for every scheduled request that is left; one that has its last is finished.
update_from_output ==
  /\ core = "step"
  /\ core' = "input"
  /\ scheduled' = {}
  /\ LET rs == scheduled \cap live
         order == SetToSeq(rs)
     IN  /\ live' = {r \in live : r \in rs => made[r] + 1 < length[r]}
         /\ made' = [r \in Requests |-> IF r \in rs THEN made[r] + 1 ELSE made[r]]
         /\ outputs' = IF rs = {} THEN outputs
                       ELSE Append(outputs, [i \in DOMAIN order |->
                              LET r == order[i] IN
                              Output(r, <<made'[r]>>, made'[r] = length[r])])
  /\ UNCHANGED <<clientVars, engine_dead, input_socket, in_hand, input_queue, aborts_queue>>

\* Mutant: the clients are not told.
abort_all_silent ==
  /\ AllowAbortAll
  /\ core = "input"
  /\ live # {}
  /\ live' = {}
  /\ UNCHANGED <<clientVars, engine_dead, input_socket, in_hand, input_queue, aborts_queue, core,
                 scheduled, made, outputs>>

\* A pause in mode "abort", or a shutdown without grace: every request is finished and
\* its client told.
abort_all ==
  /\ AllowAbortAll
  /\ core = "input"
  /\ live # {}
  /\ live' = {}
  /\ outputs' = LET order == SetToSeq(live) IN
                Append(outputs, [i \in DOMAIN order |-> Output(order[i], <<>>, TRUE)])
  /\ UNCHANGED <<clientVars, engine_dead, input_socket, in_hand, input_queue, aborts_queue, core,
                 scheduled, made>>

\* The engine core and all it holds are gone.
Dies ==
  /\ MaxCrashes = 1
  /\ core # "dead"
  /\ core' = "dead"
  /\ live' = {}
  /\ scheduled' = {}
  /\ input_socket' = <<>>
  /\ in_hand' = <<>>
  /\ input_queue' = <<>>
  /\ aborts_queue' = {}
  /\ UNCHANGED <<clientVars, made>>

\* An exception in the busy loop: the last message says so.
send_engine_dead ==
  /\ Dies
  /\ outputs' = Append(outputs, ENGINE_CORE_DEAD)
  /\ UNCHANGED engine_dead

\* The process is gone: the monitor thread marks the engine dead and cancels the task
\* that reads the output socket; what was in the socket is lost.
monitor_engine_cores ==
  /\ Dies
  /\ \E k \in 0 .. Len(outputs) : outputs' = Append(SubSeq(outputs, 1, k), ENGINE_CORE_DEAD)
  /\ engine_dead' = TRUE

-----------------------------------------------------------------------------
Caller == \E g \in Calls : get(g) \/ resume(g)

System ==
  \/ Caller
  \/ get_output_async \/ output_handler
  \/ process_input_sockets \/ enqueue_input
  \/ handle_client_request \/ wait_for_input \/ schedule \/ process_aborts_queue
  \/ update_from_output

Environment ==
  \/ \E g \in Calls : add_request(g) \/ cancel(g)
  \/ \E e \in {external_req_id[g] : g \in Calls} : abort(e)
  \/ validate_alive \/ abort_all \/ send_engine_dead \/ monitor_engine_cores

Next == System \/ Environment

Spec == Init /\ [][Next]_vars

\* The event loop, the input thread and the busy loop keep running and callers keep
\* reading; nobody need cancel, abort or crash.
FairSpec == Spec /\ WF_vars(System)

-----------------------------------------------------------------------------
Ids(k) == [i \in 1 .. k |-> i]

\* What the caller was given of a completion and what waits in the collector are, in
\* order and without a gap, its tokens, however the reader lags, outputs are merged or
\* held back for stream_interval, and requests end (RequestOutputCollector.put,
\* RequestOutput.add, make_request_output); and a completion that is finished is whole.
StreamExact ==
  \A r \in Requests :
    LET g == r[1]
        reads == call[g] \in {"reading", "yielded", "last"}
        waits == IF reads /\ op.q[g].type = "output" /\ r \in DOMAIN op.q[g].outs
                 THEN op.q[g].outs[r].ids ELSE <<>>
        seen == IF kind[g] = "DELTA" THEN received[r].ids \o waits
                ELSE IF waits # <<>> THEN waits ELSE received[r].ids
    IN  /\ \E k \in 0 .. Len(op.ids[r]) : seen = Ids(k)
        /\ received[r].finished => received[r].ids = op.ids[r]
        /\ IsPrefix(op.ids[r], Ids(made[r]))

\* generate() ends as finished only when it has yielded the end of each of its n
\* completions (ParentRequest.get_outputs).
FinishedMeansAll ==
  \A g \in Calls : call[g] \in {"last", "done"} => \A r \in ChildrenOf(g) : received[r].finished

\* external_req_ids and request_states name the same requests: an abort by external
\* id takes what it should, and internal_ids.remove, which would end output_handler
\* and with it every call, never misses (abort_requests, _finish_request).
RegistryExact ==
  op.external_req_ids = {<<external_req_id[r[1]], r>> : r \in op.request_states}

\* Everything on its way to the scheduler, in order.
Pipeline == input_queue \o in_hand \o input_socket \o Aborts(to_abort)

Finishes(m, r) == m # ENGINE_CORE_DEAD /\ \E i \in DOMAIN m : m[i].req = r /\ m[i].finished

\* A registered request is never forgotten: it is on its way to the engine core, in its
\* scheduler, or its final output is on the way back, unless the engine has died.
RegisteredIsServed ==
  core # "dead" =>
    \A r \in op.request_states :
      \/ ADD(r) \in ToSet(Pipeline)
      \/ r \in live
      \/ Finishes(handler, r)
      \/ \E i \in DOMAIN outputs : Finishes(outputs[i], r)

\* No request outlives its caller: one that is no longer registered (cancelled,
\* aborted, stopped by a stop string) and is or will be in the scheduler has an abort
\* on its way that arrives after it, although aborts also jump the queue.
UnregisteredIsAborted ==
  core # "dead" /\ ~engine_dead =>
    \A r \in Requests \ op.request_states :
      /\ r \in live => ABORT(r) \in ToSet(Pipeline)
      /\ \A i \in DOMAIN Pipeline : Pipeline[i] = ADD(r) =>
           \E j \in i + 1 .. Len(Pipeline) : Pipeline[j] = ABORT(r)

=============================================================================
