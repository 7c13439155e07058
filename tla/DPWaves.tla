------------------------------ MODULE DPWaves -------------------------------
(***************************************************************************)
(* Request waves of data-parallel engines: DPEngineCoreProc (v1/engine/    *)
(* core.py), DPCoordinatorProc (v1/engine/coordinator.py), DPAsyncMPClient *)
(* (v1/engine/core_client.py), sync_dp_state (config/parallel.py).         *)
(*                                                                         *)
(* A forward pass of a mixture-of-experts model is a collective: an engine *)
(* that has a request cannot execute it until every engine runs a forward  *)
(* pass, if only a dummy one.  Engines therefore run and stop together, in *)
(* waves.  Every sync_interval passes an all-reduce finds out whether any  *)
(* engine has work left; a request that arrives while the engines are      *)
(* stopped makes the coordinator start the next wave.                      *)
(*                                                                         *)
(* Sockets are FIFO channels, one for each pair of ends; an engine reads   *)
(* its input sockets in any order.  A pause stops the engines at an        *)
(* all-reduce where every one of them has asked for it.  What an engine    *)
(* does between a collective and its next look at its input concerns only  *)
(* its own state and the messages it sends, and is part of the collective. *)
(***************************************************************************)
EXTENDS Integers, Sequences, FiniteSets

CONSTANTS dp_size,          \* engines 0 .. dp_size - 1
          Clients,          \* the API servers
          PauseModes,       \* the modes of pause_scheduler the operator uses
          Orderly,          \* do pauses, aborts and updates wait for pending wake-ups?
          sync_interval,    \* forward passes between all-reduces (32)
          MaxTokens,        \* bound: forward passes a request takes
          MaxRequests,      \* bound: requests the clients send
          MaxInterrupts     \* bound: aborts and pauses

ASSUME WaveAssumption ==
    /\ dp_size \in Nat \ {0, 1} /\ sync_interval \in Nat \ {0} /\ MaxTokens \in Nat \ {0}
    /\ PauseModes \subseteq {"abort", "wait", "keep"} /\ Orderly \in BOOLEAN

Engines == 0 .. dp_size - 1
Sockets == Clients \X Engines
None == -1

VARIABLES
    e_pc,          \* e_pc[e]: where the busy loop of engine e is
    e_wave,        \* its current_wave
    e_running,     \* its engines_running
    e_work,        \* forward passes until its running requests are finished, and
    e_new,         \* until those are that wait to be scheduled
    e_steps,       \* its step_counter, modulo sync_interval
    e_pause,       \* its scheduler's pause state
    e_pending,     \* its pending_pause
    e_ignore,      \* its ignore_start_dp_wave
    e_callback,    \* the pause waits for this engine to become idle
    co_wave, co_running,      \* current_wave and engines_running of the coordinator
    c_wave, c_running,        \* and of each client
    first_req,     \* first_req[c]: FIRST_REQ notices waiting for c's stats task
    paused,        \* the operator has paused the engines
    requests, interrupts, \* how many were sent so far
    input,         \* input[<<c, e>>]: messages on their way from c to e
    start_wave,    \* start_wave[e]: START_DP_WAVE messages on their way to e
    front,         \* front[c]: messages from c to the coordinator
    back,          \* back[e]: messages from e to the coordinator
    stats          \* stats[c]: updates from the coordinator to c

wave_vars == <<e_wave, e_running>>
work_vars == <<e_work, e_new>>
pause_vars == <<e_pause, e_pending, e_ignore, e_callback>>
engine_vars == <<e_pc, wave_vars, work_vars, pause_vars, e_steps>>
co_vars == <<co_wave, co_running>>
view_vars == <<c_wave, c_running, first_req>>
count_vars == <<paused, requests, interrupts>>
channels == <<input, start_wave, front, back, stats>>
vars == <<engine_vars, co_vars, view_vars, count_vars, channels>>

Init ==
    /\ e_pc = [e \in Engines |-> "poll"]
    /\ e_wave = [e \in Engines |-> 0] /\ e_running = [e \in Engines |-> FALSE]
    /\ e_work = [e \in Engines |-> 0] /\ e_new = [e \in Engines |-> 0]
    /\ e_steps = [e \in Engines |-> 0]
    /\ e_pause = [e \in Engines |-> "unpaused"]
    /\ e_pending = [e \in Engines |-> FALSE] /\ e_ignore = [e \in Engines |-> FALSE]
    /\ e_callback = [e \in Engines |-> FALSE]
    /\ co_wave = 0 /\ co_running = FALSE
    /\ c_wave = [c \in Clients |-> 0] /\ c_running = [c \in Clients |-> FALSE]
    /\ first_req = [c \in Clients |-> <<>>]
    /\ paused = FALSE /\ requests = 0 /\ interrupts = 0
    /\ input = [s \in Sockets |-> <<>>] /\ start_wave = [e \in Engines |-> <<>>]
    /\ front = [c \in Clients |-> <<>>] /\ back = [e \in Engines |-> <<>>]
    /\ stats = [c \in Clients |-> <<>>]

Longer(m, n) == IF m > n THEN m ELSE n
Send(ch, x, m) == [ch EXCEPT ![x] = Append(@, m)]
Receive(ch, x) == [ch EXCEPT ![x] = Tail(@)]

-----------------------------------------------------------------------------
(* A client: add_request_async, the utility calls of a pause, and the stats *)
(* task.                                                                    *)

\* the engines have been told to resume and some have not yet
Resuming == ~paused /\ \E e \in Engines : e_pause[e] # "unpaused" \/ e_pc[e] = "barrier"

add_request_async(c, e) ==
    /\ requests < MaxRequests
    /\ Orderly => ~Resuming
    /\ requests' = requests + 1
    /\ \E n \in 1 .. MaxTokens :
          input' = Send(input, <<c, e>>, [type |-> "ADD", wave |-> c_wave[c], work |-> n])
    /\ first_req' = IF c_running[c] THEN first_req ELSE Send(first_req, c, e)
    /\ UNCHANGED <<engine_vars, co_vars, c_wave, c_running, paused, interrupts, start_wave,
                   front, back, stats>>

Broadcast(c, m) ==
    input' = [s \in Sockets |-> IF s[1] = c THEN Append(input[s], m) ELSE input[s]]

\* no request is on its way to wake up the engines
WakeUpsDone ==
    /\ \A c \in Clients : first_req[c] = <<>> /\ front[c] = <<>>
    /\ \A e \in Engines : start_wave[e] = <<>>

\* after an earlier resume has returned, from every engine
pause_scheduler_async(c) ==
    /\ ~paused /\ ~Resuming /\ interrupts < MaxInterrupts
    /\ Orderly => WakeUpsDone
    /\ paused' = TRUE /\ interrupts' = interrupts + 1
    /\ \E mode \in PauseModes : Broadcast(c, [type |-> "PAUSE", mode |-> mode])
    /\ UNCHANGED <<engine_vars, co_vars, view_vars, requests, start_wave, front, back,
                   stats>>

\* after the pause future has resolved: every engine has reached its idle callback
resume_scheduler_async(c) ==
    /\ paused /\ \A e \in Engines : e_pause[e] # "unpaused" /\ ~e_callback[e]
    /\ paused' = FALSE
    /\ Broadcast(c, [type |-> "RESUME"])
    /\ UNCHANGED <<engine_vars, co_vars, view_vars, requests, interrupts, start_wave, front,
                   back, stats>>

\* wake the other engines up
send_first_req(c) ==
    /\ first_req[c] # <<>>
    /\ c_running' = [c_running EXCEPT ![c] = TRUE]
    /\ front' = Send(front, c, [engine |-> Head(first_req[c]), wave |-> c_wave[c]])
    /\ first_req' = Receive(first_req, c)
    /\ UNCHANGED <<engine_vars, co_vars, c_wave, count_vars, input, start_wave, back, stats>>

\* a FIRST_REQ notice that waits while the engines are stopped goes first
recv_stats(c) ==
    /\ stats[c] # <<>> /\ (first_req[c] = <<>> \/ (~Orderly /\ c_running[c]))
    /\ c_wave' = [c_wave EXCEPT ![c] = Head(stats[c]).wave]
    /\ c_running' = [c_running EXCEPT ![c] = Head(stats[c]).running]
    /\ stats' = Receive(stats, c)
    /\ UNCHANGED <<engine_vars, co_vars, first_req, count_vars, input, start_wave, front, back>>

-----------------------------------------------------------------------------
(* The coordinator: process_input_socket. *)

Publish(w, running) ==
    stats' = [c \in Clients |-> Append(stats[c], [wave |-> w, running |-> running])]

send_start_wave(w, exclude) ==
    start_wave' = [e \in Engines |-> Append(start_wave[e], [wave |-> w, exclude |-> exclude])]


\* a client sends a request while it takes the engines to be stopped
recv_front(c) ==
    /\ front[c] # <<>>
    /\ IF co_running
         THEN UNCHANGED <<co_running, start_wave, stats>>
         ELSE LET m == Head(front[c]) IN
              /\ co_running' = TRUE
              /\ send_start_wave(co_wave, IF m.wave < co_wave THEN None ELSE m.engine)
              /\ Publish(co_wave, TRUE)
    /\ front' = Receive(front, c)
    /\ UNCHANGED <<engine_vars, co_wave, view_vars, count_vars, input, back>>


\* rank 0 reports that the engines have stopped, or an engine that it has
\* started again for a request of an earlier wave
recv_back(e) ==
    /\ back[e] # <<>>
    /\ LET m == Head(back[e]) IN
         \/ /\ m.type = "wave_complete" /\ co_wave <= m.wave
            /\ co_wave' = m.wave + 1 /\ co_running' = FALSE
            /\ Publish(m.wave + 1, FALSE)
            /\ UNCHANGED start_wave
         \/ /\ m.type = "start_wave"
            /\ m.wave > co_wave \/ (m.wave = co_wave /\ ~co_running)
            /\ co_wave' = m.wave /\ co_running' = TRUE
            /\ send_start_wave(m.wave, e)
            /\ Publish(m.wave, TRUE)
         \/ /\ \/ m.type = "wave_complete" /\ co_wave > m.wave
               \/ /\ m.type = "start_wave"
                  /\ m.wave < co_wave \/ (m.wave = co_wave /\ co_running)
            /\ UNCHANGED <<co_vars, start_wave, stats>>
    /\ back' = Receive(back, e)
    /\ UNCHANGED <<engine_vars, view_vars, count_vars, input, front>>

\* the poll times out: publish the current state (bound: no update pending)
publish_stats ==
    /\ \A c \in Clients : stats[c] = <<>>
    /\ \E c \in Clients : <<c_wave[c], c_running[c]>> # <<co_wave, co_running>>
    /\ Publish(co_wave, co_running)
    /\ UNCHANGED <<engine_vars, co_vars, view_vars, count_vars, input, start_wave, front, back>>

-----------------------------------------------------------------------------
(* An engine: the messages its busy loop takes in _process_input_queue. *)

Goto(e, pc) == e_pc' = [e_pc EXCEPT ![e] = pc]

num_unfinished_requests(e) ==
    CASE e_pause[e] = "all" -> 0
      [] e_pause[e] = "new" -> e_work[e]
      [] OTHER -> e_work[e] + e_new[e]

has_work(e) == e_running[e] \/ num_unfinished_requests(e) > 0

TakeInput(c, e, type) ==
    /\ e_pc[e] = "poll" /\ input[<<c, e>>] # <<>> /\ Head(input[<<c, e>>]).type = type
    /\ input' = Receive(input, <<c, e>>)
    /\ UNCHANGED <<e_steps, co_vars, view_vars, count_vars, start_wave, front, stats>>

add_request(c, e) ==
    /\ TakeInput(c, e, "ADD")
    /\ LET m == Head(input[<<c, e>>]) IN
         /\ e_new' = [e_new EXCEPT ![e] = Longer(m.work, @)]
         /\ \/ /\ m.wave >= e_wave[e]
               /\ e_wave' = [e_wave EXCEPT ![e] = m.wave]
               /\ UNCHANGED <<e_running, back>>
            \/ /\ m.wave < e_wave[e] /\ ~e_running[e] /\ e_pause[e] = "unpaused"
               /\ e_running' = [e_running EXCEPT ![e] = TRUE]
               /\ back' = Send(back, e, [type |-> "start_wave", wave |-> e_wave[e]])
               /\ UNCHANGED e_wave
            \/ /\ m.wave < e_wave[e] /\ (e_running[e] \/ e_pause[e] # "unpaused")
               /\ UNCHANGED <<wave_vars, back>>
    /\ UNCHANGED <<e_pc, e_work, pause_vars>>

\* a client aborts the requests it has sent to this engine
abort_requests(e) ==
    /\ interrupts < MaxInterrupts
    /\ e_pc[e] = "poll" /\ e_work[e] + e_new[e] > 0
    /\ \A c \in Clients : input[<<c, e>>] = <<>>
    /\ Orderly => e_running[e] /\ ~paused /\ WakeUpsDone
    /\ interrupts' = interrupts + 1
    /\ e_work' = [e_work EXCEPT ![e] = 0] /\ e_new' = [e_new EXCEPT ![e] = 0]
    /\ UNCHANGED <<e_pc, wave_vars, pause_vars, e_steps, co_vars, view_vars, paused, requests,
                   channels>>

pause_scheduler(c, e) ==
    /\ TakeInput(c, e, "PAUSE")
    /\ LET mode == Head(input[<<c, e>>]).mode IN
         /\ e_pause' = [e_pause EXCEPT ![e] = IF mode = "keep" THEN "all" ELSE "new"]
         /\ IF mode = "abort" THEN e_work' = [e_work EXCEPT ![e] = 0] /\ e_new' = [e_new EXCEPT ![e] = 0]
                              ELSE UNCHANGED work_vars
    /\ e_pending' = [e_pending EXCEPT ![e] = TRUE]
    /\ e_running' = [e_running EXCEPT ![e] = TRUE]
    /\ e_callback' = [e_callback EXCEPT ![e] = TRUE]
    /\ UNCHANGED <<e_pc, e_wave, e_ignore, back>>

\* and wait for the others at a barrier; the call is an error while a pause is
\* in flight, and does nothing on running engines
resume_scheduler(c, e) ==
    /\ TakeInput(c, e, "RESUME")
    /\ IF e_pending[e] \/ e_running[e]
         THEN UNCHANGED <<e_pc, e_pause, e_ignore>>
         ELSE /\ e_pause' = [e_pause EXCEPT ![e] = "unpaused"]
              /\ e_ignore' = [e_ignore EXCEPT ![e] = FALSE]
              /\ Goto(e, "barrier")
    /\ UNCHANGED <<wave_vars, work_vars, e_pending, e_callback, back>>

\* Mutant: a paused engine does not ignore START_DP_WAVE.
handle_start_wave_paused(e) ==
    /\ e_pc[e] = "poll" /\ start_wave[e] # <<>>
    /\ LET m == Head(start_wave[e]) IN
         IF m.exclude # e /\ m.wave >= e_wave[e]
           THEN /\ e_wave' = [e_wave EXCEPT ![e] = m.wave]
                /\ e_running' = [e_running EXCEPT ![e] = TRUE]
           ELSE UNCHANGED wave_vars
    /\ start_wave' = Receive(start_wave, e)
    /\ UNCHANGED <<e_pc, work_vars, pause_vars, e_steps, co_vars, view_vars, count_vars, input,
                   front, back, stats>>

\* Mutant: an engine that is woken up restarts its step counter.
handle_start_wave_resets(e) ==
    /\ e_pc[e] = "poll" /\ start_wave[e] # <<>>
    /\ LET m == Head(start_wave[e]) IN
         IF ~e_ignore[e] /\ m.exclude # e /\ m.wave >= e_wave[e]
           THEN /\ e_wave' = [e_wave EXCEPT ![e] = m.wave]
                /\ e_running' = [e_running EXCEPT ![e] = TRUE]
                /\ e_steps' = [e_steps EXCEPT ![e] = 0]
           ELSE UNCHANGED <<wave_vars, e_steps>>
    /\ start_wave' = Receive(start_wave, e)
    /\ UNCHANGED <<e_pc, work_vars, pause_vars, co_vars, view_vars, count_vars, input, front, back,
                   stats>>

handle_start_wave(e) ==
    /\ e_pc[e] = "poll" /\ start_wave[e] # <<>>
    /\ LET m == Head(start_wave[e]) IN
         IF ~e_ignore[e] /\ m.exclude # e /\ m.wave >= e_wave[e]
           THEN /\ e_wave' = [e_wave EXCEPT ![e] = m.wave]
                /\ e_running' = [e_running EXCEPT ![e] = TRUE]
           ELSE UNCHANGED wave_vars
    /\ start_wave' = Receive(start_wave, e)
    /\ UNCHANGED <<e_pc, work_vars, pause_vars, e_steps, co_vars, view_vars, count_vars, input,
                   front, back, stats>>

\* the pause future of an idle engine resolves
notify_idle_state_callbacks(e) ==
    /\ e_pc[e] = "poll" /\ ~has_work(e) /\ e_callback[e]
    /\ e_callback' = [e_callback EXCEPT ![e] = FALSE]
    /\ UNCHANGED <<e_pc, wave_vars, work_vars, e_pause, e_pending, e_ignore, e_steps, co_vars,
                   view_vars, count_vars, channels>>

-----------------------------------------------------------------------------
(* An engine: run_busy_loop, and the three collectives. *)

\* execute the requests, or a dummy batch
begin_step(e) ==
    /\ e_pc[e] = "poll" /\ has_work(e)
    /\ IF e_pause[e] = "unpaused"
         THEN /\ e_work' = [e_work EXCEPT ![e] = Longer(@, e_new[e])]
              /\ e_new' = [e_new EXCEPT ![e] = 0]
         ELSE UNCHANGED work_vars
    /\ Goto(e, "forward")
    /\ UNCHANGED <<wave_vars, pause_vars, e_steps, co_vars, view_vars, count_vars, channels>>

\* the collective of the forward pass; without an all-reduce this time the
\* engines go on running
forward ==
    /\ \A e \in Engines : e_pc[e] = "forward"
    /\ e_work' = [e \in Engines |->
                    IF e_work[e] > 0 /\ e_pause[e] # "all" THEN e_work[e] - 1 ELSE e_work[e]]
    /\ e_steps' = [e \in Engines |-> (e_steps[e] + 1) % sync_interval]
    /\ e_pc' = [e \in Engines |-> IF e_steps'[e] = 0 THEN "sync" ELSE "poll"]
    /\ e_running' = [e \in Engines |-> IF e_steps'[e] = 0 THEN e_running[e] ELSE TRUE]
    /\ UNCHANGED <<e_wave, e_new, pause_vars, co_vars, view_vars, count_vars, channels>>

pause_count == Cardinality({e \in Engines : e_pending[e]})

has_unfinished_global == \/ \E e \in Engines : num_unfinished_requests(e) > 0
                         \/ pause_count % dp_size # 0

\* the all-reduce; rank 0 tells the coordinator if the wave is complete
sync_dp_state ==
    /\ \A e \in Engines : e_pc[e] = "sync"
    /\ IF pause_count = dp_size
         THEN /\ e_ignore' = [e \in Engines |-> TRUE]
              /\ e_pending' = [e \in Engines |-> FALSE]
         ELSE UNCHANGED <<e_ignore, e_pending>>
    /\ e_running' = [e \in Engines |-> has_unfinished_global]
    /\ IF has_unfinished_global
         THEN UNCHANGED <<e_wave, back>>
         ELSE /\ e_wave' = [e \in Engines |-> e_wave[e] + 1]
              /\ back' = Send(back, 0, [type |-> "wave_complete", wave |-> e_wave[0]])
    /\ e_pc' = [e \in Engines |-> "poll"]
    /\ UNCHANGED <<e_steps, work_vars, e_pause, e_callback, co_vars, view_vars, count_vars,
                   input, start_wave, front, stats>>

\* has_unfinished_dp: every engine has resumed
resume_barrier ==
    /\ \A e \in Engines : e_pc[e] = "barrier"
    /\ e_running' = [e \in Engines |-> \E f \in Engines : num_unfinished_requests(f) > 0]
    /\ e_pc' = [e \in Engines |-> "poll"]
    /\ UNCHANGED <<e_wave, work_vars, pause_vars, e_steps, co_vars, view_vars, count_vars,
                   channels>>

-----------------------------------------------------------------------------
Request(c) == pause_scheduler_async(c) \/ \E e \in Engines : add_request_async(c, e)

Notify == \/ \E c \in Clients : \/ send_first_req(c) \/ recv_stats(c) \/ recv_front(c)
                                \/ resume_scheduler_async(c)
          \/ \E e \in Engines : recv_back(e)

Input(e) == \/ handle_start_wave(e)
            \/ \E c \in Clients : \/ add_request(c, e)
                                  \/ pause_scheduler(c, e) \/ resume_scheduler(c, e)

BusyLoop == \/ \E e \in Engines : notify_idle_state_callbacks(e) \/ begin_step(e)
            \/ forward \/ sync_dp_state \/ resume_barrier

Next == \/ \E c \in Clients : Request(c)
        \/ Notify \/ publish_stats
        \/ \E e \in Engines : Input(e) \/ abort_requests(e)
        \/ BusyLoop

Spec == Init /\ [][Next]_vars

\* An engine looks at its input between any two steps.
FairSpec == /\ Spec /\ WF_vars(Notify) /\ WF_vars(BusyLoop)
            /\ \A e \in Engines : SF_vars(Input(e))

-----------------------------------------------------------------------------
(* Properties. *)

(* All engines that wait in a collective wait in the same one: a forward    *)
(* pass of one engine never meets the all-reduce, or the barrier of         *)
(* resume_scheduler, of another, where each would wait for ever.  The step  *)
(* counters agree although the engines enter a wave at different times.     *)
CollectivesMatch ==
    \A e, f \in Engines :
        {e_pc[e], e_pc[f]} \subseteq {"forward", "sync", "barrier"} => e_pc[e] = e_pc[f]

(* Once the engines have agreed to pause and have become idle, none of them *)
(* runs again before it is told to resume, whatever START_DP_WAVE messages  *)
(* and requests were still on their way: ignore_start_dp_wave.              *)
PausedStaysIdle ==
    \A e \in Engines : e_ignore[e] /\ ~e_callback[e] => e_pc[e] = "poll" /\ ~has_work(e)

Idle == \A e \in Engines : e_pc[e] = "poll" /\ ~has_work(e)

Quiet == /\ Idle /\ ~paused
         /\ \A s \in Sockets : input[s] = <<>>
         /\ \A e \in Engines : start_wave[e] = <<>> /\ back[e] = <<>>
         /\ \A c \in Clients : first_req[c] = <<>> /\ front[c] = <<>> /\ stats[c] = <<>>


=============================================================================
