----------------------------- MODULE WaveProofs -----------------------------
(***************************************************************************)
(* Data-parallel engines never wait in different collectives, and stay     *)
(* idle once they have agreed to pause: for every number of engines,       *)
(* clients, requests and pauses, and whatever START_DP_WAVE messages,      *)
(* aborts and requests are under way (DPEngineCoreProc, sync_dp_state).    *)
(***************************************************************************)
EXTENDS DPWaves, FiniteSetTheorems, SequenceTheorems, TLAPS

Messages == [type : {"ADD"}, wave : Nat, work : Nat] \cup [type : {"PAUSE"}, mode : PauseModes]
              \cup [type : {"RESUME"}]

EngineTypeOK ==
    /\ e_pc \in [Engines -> {"poll", "forward", "sync", "barrier"}]
    /\ e_wave \in [Engines -> Nat] /\ e_running \in [Engines -> BOOLEAN]
    /\ e_work \in [Engines -> Nat] /\ e_new \in [Engines -> Nat]
    /\ e_steps \in [Engines -> Nat]
    /\ e_pause \in [Engines -> {"unpaused", "new", "all"}]
    /\ e_pending \in [Engines -> BOOLEAN] /\ e_ignore \in [Engines -> BOOLEAN]
    /\ e_callback \in [Engines -> BOOLEAN]

TypeOK ==
    /\ EngineTypeOK
    /\ co_wave \in Nat /\ co_running \in BOOLEAN
    /\ c_wave \in [Clients -> Nat] /\ c_running \in [Clients -> BOOLEAN]
    /\ first_req \in [Clients -> Seq(Engines)]
    /\ paused \in BOOLEAN /\ requests \in Nat /\ interrupts \in Nat
    /\ input \in [Sockets -> Seq(Messages)]
    /\ start_wave \in [Engines -> Seq([wave : Nat, exclude : Engines \cup {None}])]
    /\ front \in [Clients -> Seq([engine : Engines, wave : Nat])]
    /\ back \in [Engines -> Seq([type : {"wave_complete", "start_wave"}, wave : Nat])]
    /\ stats \in [Clients -> Seq([wave : Nat, running : BOOLEAN])]

-----------------------------------------------------------------------------
(* The inductive invariant: a pause and the resume after it go through four *)
(* phases, and an engine can tell from its own state in which one it is.    *)

\* Only messages of these types are on their way to e.
Only(e, types) ==
    \A c \in Clients : \A i \in DOMAIN input[<<c, e>>] : input[<<c, e>>][i].type \in types

\* At most one PAUSE or RESUME is.
Single(e) ==
    \A c, d \in Clients : \A i \in DOMAIN input[<<c, e>>], j \in DOMAIN input[<<d, e>>] :
        input[<<c, e>>][i].type # "ADD" /\ input[<<d, e>>][j].type # "ADD" => c = d /\ i = j

NoControl(e) == Only(e, {"ADD"})

Stopped(e) == e_pc[e] = "poll" /\ ~has_work(e)

\* No pause is under way.
NormalAt(e) ==
    /\ e_pause[e] = "unpaused" /\ e_pc[e] # "barrier"
    /\ ~e_pending[e] /\ ~e_ignore[e] /\ ~e_callback[e]
    /\ NoControl(e)

\* Each engine keeps running from its PAUSE on, until all of them have theirs.
PausingAt(e) ==
    /\ e_pc[e] # "barrier" /\ ~e_ignore[e]
    /\ e_pending[e] <=> e_pause[e] # "unpaused"
    /\ e_callback[e] <=> e_pending[e]
    /\ e_pending[e] => e_running[e] /\ NoControl(e)
    /\ Only(e, {"ADD", "PAUSE"}) /\ Single(e)

\* The engines have agreed, and run on together until their requests are finished.
PausedAt(e) ==
    /\ e_pause[e] # "unpaused" /\ e_pc[e] # "barrier"
    /\ ~e_pending[e] /\ e_ignore[e]
    /\ e_running[e] => e_callback[e]
    /\ e_running[e] \/ Stopped(e)
    /\ NoControl(e)

\* An engine that is told to resume waits for the others, which are still idle.
ResumingAt(e) ==
    /\ ~e_pending[e] /\ ~e_callback[e] /\ ~e_running[e]
    /\ \/ /\ e_pause[e] = "unpaused" /\ ~e_ignore[e] /\ e_pc[e] = "barrier"
          /\ NoControl(e)
       \/ e_pause[e] # "unpaused" /\ e_ignore[e] /\ Stopped(e)
    /\ Only(e, {"ADD", "RESUME"}) /\ Single(e)

Together == \A e, f \in Engines : e_running[e] = e_running[f]

Normal == ~paused /\ \A e \in Engines : NormalAt(e)
Pausing == paused /\ \A e \in Engines : PausingAt(e)
Paused == paused /\ Together /\ \A e \in Engines : PausedAt(e)
Resume == ~paused /\ \A e \in Engines : ResumingAt(e)

PhaseInv == Normal \/ Pausing \/ Paused \/ Resume

\* The engines count the same passes, so the all-reduce is one for all of them.
StepInv ==
    \A e, f \in Engines : e_steps[e] = e_steps[f] /\ (e_pc[e] = "sync" => e_pc[f] = "sync")

WaveInv == TypeOK /\ StepInv /\ PhaseInv

-----------------------------------------------------------------------------
(* Channels *)

\* A message of the right type keeps the type of a family of channels.
LEMMA SendType ==
    ASSUME NEW X, NEW S, NEW ch \in [X -> Seq(S)], NEW x \in X, NEW m \in S
    PROVE  Send(ch, x, m) \in [X -> Seq(S)]
<1>1. Append(ch[x], m) \in Seq(S)
  BY AppendProperties
<1> QED BY <1>1 DEF Send

\* The first message of a channel that is not empty has its type, and the rest too.
LEMMA ReceiveType ==
    ASSUME NEW X, NEW S, NEW ch \in [X -> Seq(S)], NEW x \in X, ch[x] # <<>>
    PROVE  Receive(ch, x) \in [X -> Seq(S)] /\ Head(ch[x]) \in S
<1>1. ch[x] \in Seq(S)
  OBVIOUS
<1>2. Tail(ch[x]) \in Seq(S) /\ Head(ch[x]) \in S
  BY <1>1, HeadTailProperties
<1> QED BY <1>2 DEF Receive

LEMMA EngineSet == 0 \in Engines /\ IsFiniteSet(Engines) /\ Cardinality(Engines) = dp_size
<1>1. dp_size \in Nat /\ dp_size >= 2
  BY WaveAssumption
<1>2. 0 \in Int /\ dp_size - 1 \in Int /\ ~(0 > dp_size - 1) /\ dp_size - 1 - 0 + 1 = dp_size
  BY <1>1
<1>3. IsFiniteSet(0 .. dp_size - 1) /\ Cardinality(0 .. dp_size - 1) = dp_size
  BY <1>1, <1>2, FS_Interval
<1> QED BY <1>1, <1>3 DEF Engines

-----------------------------------------------------------------------------
(* Types *)

\* The types hold at the start.
LEMMA InitTypes == Init => TypeOK
<1> SUFFICES ASSUME Init PROVE TypeOK
  OBVIOUS
<1>1. EngineTypeOK
  BY DEF Init, EngineTypeOK
<1>2. \A S : <<>> \in Seq(S)
  BY EmptySeq
<1>3. /\ co_wave \in Nat /\ co_running \in BOOLEAN
      /\ c_wave \in [Clients -> Nat] /\ c_running \in [Clients -> BOOLEAN]
      /\ paused \in BOOLEAN /\ requests \in Nat /\ interrupts \in Nat
  BY Zenon DEF Init
<1> QED BY <1>1, <1>2, <1>3, Zenon DEF Init, TypeOK

\* A broadcast to all engines keeps the type of the input sockets.
LEMMA BroadcastType ==
    ASSUME NEW c \in Clients, NEW m \in Messages, input \in [Sockets -> Seq(Messages)],
           Broadcast(c, m)
    PROVE  input' \in [Sockets -> Seq(Messages)]
<1>1. \A s \in Sockets : Append(input[s], m) \in Seq(Messages)
  BY AppendProperties
<1> QED BY <1>1, Zenon DEF Broadcast

\* So do the steps of the clients and of their stats tasks.
LEMMA ClientTypes ==
    ASSUME TypeOK, NEW c \in Clients,
           \/ Request(c) \/ send_first_req(c) \/ recv_stats(c) \/ resume_scheduler_async(c)
    PROVE  TypeOK'
<1>1. ASSUME NEW e \in Engines, add_request_async(c, e) PROVE TypeOK'
  <2>1. requests' \in Nat
    BY <1>1 DEF TypeOK, add_request_async
  <2>2. PICK n \in 1 .. MaxTokens :
          input' = Send(input, <<c, e>>, [type |-> "ADD", wave |-> c_wave[c], work |-> n])
    BY <1>1, Zenon DEF add_request_async
  <2>3. [type |-> "ADD", wave |-> c_wave[c], work |-> n] \in Messages
    <3>1. c_wave[c] \in Nat /\ n \in Nat
      BY WaveAssumption DEF TypeOK
    <3> QED BY <3>1 DEF Messages
  <2>4. input' \in [Sockets -> Seq(Messages)]
    BY <2>2, <2>3, SendType, Zenon DEF TypeOK, Sockets
  <2>5. first_req' \in [Clients -> Seq(Engines)]
    BY <1>1, SendType, Zenon DEF TypeOK, add_request_async
  <2> QED BY <1>1, <2>1, <2>4, <2>5, Zenon DEF TypeOK, EngineTypeOK, add_request_async,
             engine_vars, wave_vars, work_vars, pause_vars, co_vars
<1>2. ASSUME pause_scheduler_async(c) PROVE TypeOK'
  <2>1. interrupts' \in Nat
    BY <1>2 DEF TypeOK, pause_scheduler_async
  <2>2. PICK mode \in PauseModes : Broadcast(c, [type |-> "PAUSE", mode |-> mode])
    BY <1>2, Zenon DEF pause_scheduler_async
  <2>3. [type |-> "PAUSE", mode |-> mode] \in Messages
    BY DEF Messages
  <2>4. input' \in [Sockets -> Seq(Messages)]
    BY <2>2, <2>3, BroadcastType, Zenon DEF TypeOK
  <2> QED BY <1>2, <2>1, <2>4, Zenon DEF TypeOK, EngineTypeOK, pause_scheduler_async,
             engine_vars, wave_vars, work_vars, pause_vars, co_vars, view_vars
<1>3. ASSUME resume_scheduler_async(c) PROVE TypeOK'
  <2>1. [type |-> "RESUME"] \in Messages
    BY DEF Messages
  <2>2. input' \in [Sockets -> Seq(Messages)]
    BY <1>3, <2>1, BroadcastType, Zenon DEF TypeOK, resume_scheduler_async
  <2> QED BY <1>3, <2>2, Zenon DEF TypeOK, EngineTypeOK, resume_scheduler_async,
             engine_vars, wave_vars, work_vars, pause_vars, co_vars, view_vars
<1>4. ASSUME send_first_req(c) PROVE TypeOK'
  <2>1. first_req' \in [Clients -> Seq(Engines)] /\ Head(first_req[c]) \in Engines
    BY <1>4, ReceiveType, Zenon DEF TypeOK, send_first_req
  <2>2. [engine |-> Head(first_req[c]), wave |-> c_wave[c]] \in [engine : Engines, wave : Nat]
    BY <2>1 DEF TypeOK
  <2>3. front' \in [Clients -> Seq([engine : Engines, wave : Nat])]
    BY <1>4, <2>2, SendType, Zenon DEF TypeOK, send_first_req
  <2>4. c_running' \in [Clients -> BOOLEAN]
    BY <1>4 DEF TypeOK, send_first_req
  <2> QED BY <1>4, <2>1, <2>3, <2>4, Zenon DEF TypeOK, EngineTypeOK, send_first_req,
             engine_vars, wave_vars, work_vars, pause_vars, co_vars, count_vars
<1>5. ASSUME recv_stats(c) PROVE TypeOK'
  <2>1. /\ stats' \in [Clients -> Seq([wave : Nat, running : BOOLEAN])]
        /\ Head(stats[c]) \in [wave : Nat, running : BOOLEAN]
    BY <1>5, ReceiveType, Zenon DEF TypeOK, recv_stats
  <2>2. c_wave' \in [Clients -> Nat] /\ c_running' \in [Clients -> BOOLEAN]
    BY <1>5, <2>1 DEF TypeOK, recv_stats
  <2> QED BY <1>5, <2>1, <2>2, Zenon DEF TypeOK, EngineTypeOK, recv_stats,
             engine_vars, wave_vars, work_vars, pause_vars, co_vars, count_vars
<1> QED BY <1>1, <1>2, <1>3, <1>4, <1>5, Zenon DEF Request

\* What the coordinator publishes and broadcasts has its type.
LEMMA CoordinatorSends ==
    ASSUME TypeOK, NEW w \in Nat, NEW running \in BOOLEAN, NEW x \in Engines \cup {None}
    PROVE  /\ Publish(w, running) => stats' \in [Clients -> Seq([wave : Nat, running : BOOLEAN])]
           /\ send_start_wave(w, x) =>
                start_wave' \in [Engines -> Seq([wave : Nat, exclude : Engines \cup {None}])]
<1>1. [wave |-> w, running |-> running] \in [wave : Nat, running : BOOLEAN]
  OBVIOUS
<1>2. [wave |-> w, exclude |-> x] \in [wave : Nat, exclude : Engines \cup {None}]
  OBVIOUS
<1>3. \A c \in Clients : Append(stats[c], [wave |-> w, running |-> running])
                           \in Seq([wave : Nat, running : BOOLEAN])
  BY <1>1, AppendProperties DEF TypeOK
<1>4. \A e \in Engines : Append(start_wave[e], [wave |-> w, exclude |-> x])
                           \in Seq([wave : Nat, exclude : Engines \cup {None}])
  BY <1>2, AppendProperties, Zenon DEF TypeOK
<1> QED BY <1>3, <1>4, Zenon DEF Publish, send_start_wave

\* The coordinator's steps keep the types.
LEMMA CoordinatorTypes ==
    ASSUME TypeOK,
           \/ \E c \in Clients : recv_front(c)
           \/ \E e \in Engines : recv_back(e)
           \/ publish_stats
    PROVE  TypeOK'
<1> USE DEF TypeOK
<1>1. ASSUME NEW c \in Clients, recv_front(c) PROVE TypeOK'
  <2> DEFINE m == Head(front[c])
             x == IF m.wave < co_wave THEN None ELSE m.engine
  <2>1. front' \in [Clients -> Seq([engine : Engines, wave : Nat])]
        /\ m \in [engine : Engines, wave : Nat]
    BY <1>1, ReceiveType, Zenon DEF recv_front
  <2>2. x \in Engines \cup {None}
    BY <2>1
  <2>3. ~co_running =>
          /\ co_running' \in BOOLEAN
          /\ start_wave' \in [Engines -> Seq([wave : Nat, exclude : Engines \cup {None}])]
          /\ stats' \in [Clients -> Seq([wave : Nat, running : BOOLEAN])]
    BY <1>1, <2>2, CoordinatorSends, Zenon DEF recv_front
  <2> QED BY <1>1, <2>1, <2>3, Zenon DEF EngineTypeOK, recv_front,
             engine_vars, wave_vars, work_vars, pause_vars, view_vars, count_vars
<1>2. ASSUME NEW e \in Engines, recv_back(e) PROVE TypeOK'
  <2> DEFINE m == Head(back[e])
  <2>1. back' \in [Engines -> Seq([type : {"wave_complete", "start_wave"}, wave : Nat])]
        /\ m \in [type : {"wave_complete", "start_wave"}, wave : Nat]
    BY <1>2, ReceiveType, Zenon DEF recv_back
  <2>2. m.wave \in Nat /\ m.wave + 1 \in Nat
    BY <2>1
  <2>3. /\ co_wave' \in Nat /\ co_running' \in BOOLEAN
        /\ start_wave' \in [Engines -> Seq([wave : Nat, exclude : Engines \cup {None}])]
        /\ stats' \in [Clients -> Seq([wave : Nat, running : BOOLEAN])]
    <3> HIDE DEF TypeOK
    <3>1. CASE Publish(m.wave + 1, FALSE) /\ UNCHANGED start_wave
                 /\ co_wave' = m.wave + 1 /\ co_running' = FALSE
      BY <2>2, <3>1, CoordinatorSends, Zenon DEF TypeOK
    <3>2. CASE Publish(m.wave, TRUE) /\ send_start_wave(m.wave, e)
                 /\ co_wave' = m.wave /\ co_running' = TRUE
      BY <2>2, <3>2, CoordinatorSends, Zenon
    <3>3. CASE UNCHANGED <<co_vars, start_wave, stats>>
      BY <3>3, Zenon DEF TypeOK, co_vars
    <3> QED BY <1>2, <3>1, <3>2, <3>3, Zenon DEF recv_back
  <2> QED BY <1>2, <2>1, <2>3, Zenon DEF EngineTypeOK, recv_back,
             engine_vars, wave_vars, work_vars, pause_vars, view_vars, count_vars
<1>3. ASSUME publish_stats PROVE TypeOK'
  <2>1. stats' \in [Clients -> Seq([wave : Nat, running : BOOLEAN])]
    BY <1>3, CoordinatorSends, Zenon DEF publish_stats
  <2> QED BY <1>3, <2>1, Zenon DEF EngineTypeOK, publish_stats,
             engine_vars, wave_vars, work_vars, pause_vars, view_vars, count_vars, co_vars
<1> QED BY <1>1, <1>2, <1>3, Zenon

\* What an engine does with a message keeps the types.
LEMMA InputTypes ==
    ASSUME TypeOK, NEW e \in Engines, Input(e)
    PROVE  TypeOK'
<1>1. ASSUME NEW c \in Clients, NEW t, TakeInput(c, e, t)
      PROVE  /\ input' \in [Sockets -> Seq(Messages)] /\ Head(input[<<c, e>>]) \in Messages
             /\ Head(input[<<c, e>>]).type = t
    BY <1>1, ReceiveType, Zenon DEF TypeOK, TakeInput, Sockets
<1>2. ASSUME NEW c \in Clients, add_request(c, e) PROVE TypeOK'
  <2> DEFINE m == Head(input[<<c, e>>])
  <2>1. TakeInput(c, e, "ADD")
    BY <1>2, Zenon DEF add_request
  <2>2. input' \in [Sockets -> Seq(Messages)] /\ m.wave \in Nat /\ m.work \in Nat
    <3>1. input' \in [Sockets -> Seq(Messages)] /\ m \in Messages /\ m.type = "ADD"
      BY <1>1, <2>1, Zenon
    <3> QED BY <3>1 DEF Messages
  <2>3. e_new' \in [Engines -> Nat]
    <3>1. e_new' = [e_new EXCEPT ![e] = Longer(m.work, @)]
      BY <1>2, Zenon DEF add_request
    <3> QED BY <2>2, <3>1 DEF TypeOK, EngineTypeOK, Longer
  <2>4. [type |-> "start_wave", wave |-> e_wave[e]]
          \in [type : {"wave_complete", "start_wave"}, wave : Nat]
    BY DEF TypeOK, EngineTypeOK
  <2>5. Send(back, e, [type |-> "start_wave", wave |-> e_wave[e]])
          \in [Engines -> Seq([type : {"wave_complete", "start_wave"}, wave : Nat])]
    BY <2>4, SendType, Zenon DEF TypeOK
  <2>6. /\ e_wave' \in [Engines -> Nat] /\ e_running' \in [Engines -> BOOLEAN]
        /\ back' \in [Engines -> Seq([type : {"wave_complete", "start_wave"}, wave : Nat])]
    <3>1. [e_wave EXCEPT ![e] = m.wave] \in [Engines -> Nat]
          /\ [e_running EXCEPT ![e] = TRUE] \in [Engines -> BOOLEAN]
      BY <2>2, SMTT(30) DEF TypeOK, EngineTypeOK
    <3> QED BY <1>2, <2>5, <3>1, Zenon DEF add_request, TypeOK, EngineTypeOK, wave_vars
  <2> QED BY <1>2, <2>1, <2>2, <2>3, <2>6, Zenon DEF TypeOK, EngineTypeOK, add_request, TakeInput,
             pause_vars, view_vars, count_vars, co_vars
<1>3. ASSUME NEW c \in Clients, pause_scheduler(c, e) PROVE TypeOK'
  <2>1. input' \in [Sockets -> Seq(Messages)]
    BY <1>1, <1>3, Zenon DEF pause_scheduler
  <2>2. EngineTypeOK'
    <3>1. /\ [e_work EXCEPT ![e] = 0] \in [Engines -> Nat]
          /\ [e_new EXCEPT ![e] = 0] \in [Engines -> Nat]
      BY DEF TypeOK, EngineTypeOK
    <3>2. e_work' \in [Engines -> Nat] /\ e_new' \in [Engines -> Nat]
      BY <1>3, <3>1, Zenon DEF TypeOK, EngineTypeOK, pause_scheduler, work_vars
    <3>3. e_pause' \in [Engines -> {"unpaused", "new", "all"}]
      BY <1>3, Zenon DEF TypeOK, EngineTypeOK, pause_scheduler
    <3> QED BY <1>3, <3>2, <3>3, Zenon DEF TypeOK, EngineTypeOK, pause_scheduler, TakeInput
  <2> QED BY <1>3, <2>1, <2>2, Zenon DEF TypeOK, pause_scheduler, TakeInput,
             view_vars, count_vars, co_vars
<1>4. ASSUME NEW c \in Clients, resume_scheduler(c, e) PROVE TypeOK'
  <2>1. input' \in [Sockets -> Seq(Messages)]
    BY <1>1, <1>4, Zenon DEF resume_scheduler
  <2>2. EngineTypeOK'
    BY <1>4, Zenon DEF TypeOK, EngineTypeOK, resume_scheduler, TakeInput, wave_vars, work_vars, Goto
  <2> QED BY <1>4, <2>1, <2>2, Zenon DEF TypeOK, resume_scheduler, TakeInput,
             view_vars, count_vars, co_vars
<1>5. ASSUME handle_start_wave(e) PROVE TypeOK'
  <2>1. start_wave' \in [Engines -> Seq([wave : Nat, exclude : Engines \cup {None}])]
        /\ Head(start_wave[e]) \in [wave : Nat, exclude : Engines \cup {None}]
    BY <1>5, ReceiveType, Zenon DEF TypeOK, handle_start_wave
  <2>2. EngineTypeOK'
    <3>1. [e_wave EXCEPT ![e] = Head(start_wave[e]).wave] \in [Engines -> Nat]
          /\ [e_running EXCEPT ![e] = TRUE] \in [Engines -> BOOLEAN]
      BY <2>1, SMTT(30) DEF TypeOK, EngineTypeOK
    <3> QED BY <1>5, <3>1, Zenon DEF TypeOK, EngineTypeOK, handle_start_wave, work_vars, wave_vars,
               pause_vars
  <2> QED BY <1>5, <2>1, <2>2, Zenon DEF TypeOK, handle_start_wave, view_vars, count_vars, co_vars
<1> QED BY <1>2, <1>3, <1>4, <1>5, Zenon DEF Input

\* The busy loops and the collectives keep the types.
LEMMA LoopTypes ==
    ASSUME TypeOK, BusyLoop \/ \E e \in Engines : abort_requests(e)
    PROVE  TypeOK'
<1>1. ASSUME NEW e \in Engines, abort_requests(e) PROVE TypeOK'
  <2>1. interrupts' \in Nat
    BY <1>1 DEF TypeOK, abort_requests
  <2>2. e_work' \in [Engines -> Nat] /\ e_new' \in [Engines -> Nat]
    BY <1>1 DEF TypeOK, EngineTypeOK, abort_requests
  <2> QED BY <1>1, <2>1, <2>2, Zenon DEF TypeOK, EngineTypeOK, abort_requests, wave_vars, pause_vars,
             co_vars, view_vars, channels
<1>2. ASSUME NEW e \in Engines, notify_idle_state_callbacks(e) PROVE TypeOK'
  <2>1. e_callback' \in [Engines -> BOOLEAN]
    BY <1>2 DEF TypeOK, EngineTypeOK, notify_idle_state_callbacks
  <2> QED BY <1>2, <2>1, Zenon DEF TypeOK, EngineTypeOK, notify_idle_state_callbacks, wave_vars,
             work_vars, co_vars, view_vars, count_vars, channels
<1>3. ASSUME NEW e \in Engines, begin_step(e) PROVE TypeOK'
  <2>1. /\ [e_work EXCEPT ![e] = Longer(@, e_new[e])] \in [Engines -> Nat]
        /\ [e_new EXCEPT ![e] = 0] \in [Engines -> Nat]
    BY DEF TypeOK, EngineTypeOK, Longer
  <2>2. e_work' \in [Engines -> Nat] /\ e_new' \in [Engines -> Nat]
    BY <1>3, <2>1, Zenon DEF TypeOK, EngineTypeOK, begin_step, work_vars
  <2>3. e_pc' \in [Engines -> {"poll", "forward", "sync", "barrier"}]
    BY <1>3, Zenon DEF TypeOK, EngineTypeOK, begin_step, Goto
  <2> QED BY <1>3, <2>2, <2>3, Zenon DEF TypeOK, EngineTypeOK, begin_step, wave_vars,
             pause_vars, co_vars, view_vars, count_vars, channels
<1>4. ASSUME forward PROVE TypeOK'
  <2>1. e_work' \in [Engines -> Nat]
    BY <1>4 DEF TypeOK, EngineTypeOK, forward
  <2>2. e_steps' \in [Engines -> Nat]
    <3>1. \A k \in Nat : (k + 1) % sync_interval \in Nat
      BY WaveAssumption
    <3> QED BY <1>4, <3>1 DEF TypeOK, EngineTypeOK, forward
  <2>3. e_pc' \in [Engines -> {"poll", "forward", "sync", "barrier"}]
    BY <1>4, Zenon DEF forward
  <2>4. e_running' \in [Engines -> BOOLEAN]
    BY <1>4, Zenon DEF TypeOK, EngineTypeOK, forward
  <2> QED BY <1>4, <2>1, <2>2, <2>3, <2>4, Zenon DEF TypeOK, EngineTypeOK, forward,
             pause_vars, co_vars, view_vars, count_vars, channels
<1>5. ASSUME sync_dp_state PROVE TypeOK'
  <2>1. e_pc' \in [Engines -> {"poll", "forward", "sync", "barrier"}]
        /\ e_running' \in [Engines -> BOOLEAN]
    BY <1>5, Zenon DEF sync_dp_state, has_unfinished_global
  <2>2. e_ignore' \in [Engines -> BOOLEAN] /\ e_pending' \in [Engines -> BOOLEAN]
    <3>1. CASE pause_count = dp_size
      <4>1. e_ignore' = [e \in Engines |-> TRUE] /\ e_pending' = [e \in Engines |-> FALSE]
        BY <1>5, <3>1, Zenon DEF sync_dp_state
      <4> QED BY <4>1, Zenon
    <3>2. CASE pause_count # dp_size
      <4>1. e_ignore' = e_ignore /\ e_pending' = e_pending
        BY <1>5, <3>2, Zenon DEF sync_dp_state
      <4> QED BY <4>1, Zenon DEF TypeOK, EngineTypeOK
    <3> QED BY <3>1, <3>2, Zenon
  <2>3. [e \in Engines |-> e_wave[e] + 1] \in [Engines -> Nat]
        /\ [type |-> "wave_complete", wave |-> e_wave[0]]
             \in [type : {"wave_complete", "start_wave"}, wave : Nat]
    BY EngineSet DEF TypeOK, EngineTypeOK
  <2>4. e_wave' \in [Engines -> Nat]
        /\ back' \in [Engines -> Seq([type : {"wave_complete", "start_wave"}, wave : Nat])]
    <3>1. CASE has_unfinished_global
      <4>1. e_wave' = e_wave /\ back' = back
        BY <1>5, <3>1, Zenon DEF sync_dp_state
      <4> QED BY <4>1, Zenon DEF TypeOK, EngineTypeOK
    <3>2. CASE ~has_unfinished_global
      <4>1. /\ e_wave' = [e \in Engines |-> e_wave[e] + 1]
            /\ back' = Send(back, 0, [type |-> "wave_complete", wave |-> e_wave[0]])
        BY <1>5, <3>2, Zenon DEF sync_dp_state
      <4>2. back' \in [Engines -> Seq([type : {"wave_complete", "start_wave"}, wave : Nat])]
        BY <2>3, <4>1, SendType, EngineSet, Zenon DEF TypeOK
      <4> QED BY <2>3, <4>1, <4>2, Zenon
    <3> QED BY <3>1, <3>2, Zenon
  <2> QED BY <1>5, <2>1, <2>2, <2>4, Zenon DEF TypeOK, EngineTypeOK, sync_dp_state,
             work_vars, co_vars, view_vars, count_vars
<1>6. ASSUME resume_barrier PROVE TypeOK'
  <2>1. e_pc' \in [Engines -> {"poll", "forward", "sync", "barrier"}]
        /\ e_running' \in [Engines -> BOOLEAN]
    BY <1>6, Zenon DEF resume_barrier
  <2> QED BY <1>6, <2>1, Zenon DEF TypeOK, EngineTypeOK, resume_barrier,
             work_vars, pause_vars, co_vars, view_vars, count_vars, channels
<1> QED BY <1>1, <1>2, <1>3, <1>4, <1>5, <1>6, Zenon DEF BusyLoop

\* Every step keeps the types.
LEMMA TypesKeep == TypeOK /\ [Next]_vars => TypeOK'
<1>1. ASSUME TypeOK, UNCHANGED vars PROVE TypeOK'
  BY <1>1, Zenon DEF vars, TypeOK, EngineTypeOK, engine_vars, wave_vars, work_vars, pause_vars,
     co_vars, view_vars, count_vars, channels
<1> QED BY <1>1, ClientTypes, CoordinatorTypes, InputTypes, LoopTypes, Zenon DEF Next, Notify

-----------------------------------------------------------------------------
(* What is on its way to an engine *)

\* What is said of an engine depends on its own state and on the controls on their way
\* to it.
LEMMA KeepsAt ==
    ASSUME NEW e \in Engines, e_pc'[e] = e_pc[e], e_running'[e] = e_running[e],
           e_pause'[e] = e_pause[e], e_pending'[e] = e_pending[e],
           e_ignore'[e] = e_ignore[e], e_callback'[e] = e_callback[e],
           e_pause[e] # "unpaused" /\ Stopped(e) => Stopped(e)',
           \A types : "ADD" \in types => (Only(e, types) => Only(e, types)'),
           Single(e) => Single(e)'
    PROVE  /\ NormalAt(e) => NormalAt(e)'
           /\ PausingAt(e) => PausingAt(e)'
           /\ PausedAt(e) => PausedAt(e)'
           /\ ResumingAt(e) => ResumingAt(e)'
<1>1. /\ NoControl(e) => NoControl(e)'
      /\ Only(e, {"ADD", "PAUSE"}) => Only(e, {"ADD", "PAUSE"})'
      /\ Only(e, {"ADD", "RESUME"}) => Only(e, {"ADD", "RESUME"})'
  BY Zenon DEF NoControl
<1> QED BY <1>1, Zenon DEF NormalAt, PausingAt, PausedAt, ResumingAt

\* The same, when nothing about the engine changes.
LEMMA SameAt ==
    ASSUME NEW e \in Engines, e_pc'[e] = e_pc[e], e_running'[e] = e_running[e],
           e_work'[e] = e_work[e], e_new'[e] = e_new[e], e_pause'[e] = e_pause[e],
           e_pending'[e] = e_pending[e], e_ignore'[e] = e_ignore[e],
           e_callback'[e] = e_callback[e],
           \A c \in Clients : input'[<<c, e>>] = input[<<c, e>>]
    PROVE  /\ NormalAt(e) => NormalAt(e)'
           /\ PausingAt(e) => PausingAt(e)'
           /\ PausedAt(e) => PausedAt(e)'
           /\ ResumingAt(e) => ResumingAt(e)'
<1>1. \A types : Only(e, types) => Only(e, types)'
  BY Zenon DEF Only
<1>2. Single(e) => Single(e)'
  BY DEF Single
<1>3. Stopped(e) => Stopped(e)'
  BY Zenon DEF Stopped, has_work, num_unfinished_requests
<1> QED BY <1>1, <1>2, <1>3, KeepsAt, Zenon

\* A request put on its way does not change which controls are.
LEMMA AddInFlight ==
    ASSUME TypeOK, NEW c \in Clients, NEW e \in Engines, NEW m \in Messages, m.type = "ADD",
           input' = Send(input, <<c, e>>, m), NEW f \in Engines
    PROVE  /\ \A types : "ADD" \in types => (Only(f, types) => Only(f, types)')
           /\ Single(f) => Single(f)'
<1>1. \A d \in Clients : \A i \in DOMAIN input'[<<d, f>>] :
        \/ i \in DOMAIN input[<<d, f>>] /\ input'[<<d, f>>][i] = input[<<d, f>>][i]
        \/ input'[<<d, f>>][i] = m
  <2> SUFFICES ASSUME NEW d \in Clients
               PROVE  \A i \in DOMAIN input'[<<d, f>>] :
                        \/ i \in DOMAIN input[<<d, f>>] /\ input'[<<d, f>>][i] = input[<<d, f>>][i]
                        \/ input'[<<d, f>>][i] = m
    BY Zenon
  <2>1. <<d, f>> \in Sockets /\ <<c, e>> \in Sockets
    BY Zenon DEF Sockets
  <2>2. input'[<<d, f>>] \in {input[<<d, f>>], Append(input[<<d, f>>], m)}
    BY <2>1, Zenon DEF Send, TypeOK
  <2>3. input[<<d, f>>] \in Seq(Messages)
    BY <2>1, Zenon DEF TypeOK
  <2>4. CASE input'[<<d, f>>] = input[<<d, f>>]
    BY <2>4, Zenon
  <2>5. CASE input'[<<d, f>>] = Append(input[<<d, f>>], m)
    <3>1. /\ DOMAIN input[<<d, f>>] = 1 .. Len(input[<<d, f>>])
          /\ DOMAIN Append(input[<<d, f>>], m) = 1 .. Len(input[<<d, f>>]) + 1
          /\ Len(input[<<d, f>>]) \in Nat
          /\ \A i \in 1 .. Len(input[<<d, f>>]) :
               Append(input[<<d, f>>], m)[i] = input[<<d, f>>][i]
          /\ Append(input[<<d, f>>], m)[Len(input[<<d, f>>]) + 1] = m
      BY <2>3
    <3>2. ASSUME NEW i \in DOMAIN Append(input[<<d, f>>], m)
          PROVE  i \in 1 .. Len(input[<<d, f>>]) \/ i = Len(input[<<d, f>>]) + 1
      BY <3>1, <3>2
    <3> QED BY <2>5, <3>1, <3>2, Zenon
  <2> QED BY <2>2, <2>4, <2>5, Zenon
<1>2. \A types : "ADD" \in types => (Only(f, types) => Only(f, types)')
  BY <1>1, Zenon DEF Only
<1>3. Single(f) => Single(f)'
  <2> SUFFICES ASSUME Single(f), NEW d1 \in Clients, NEW d2 \in Clients,
                      NEW i \in DOMAIN input'[<<d1, f>>], NEW j \in DOMAIN input'[<<d2, f>>],
                      input'[<<d1, f>>][i].type # "ADD", input'[<<d2, f>>][j].type # "ADD"
               PROVE  d1 = d2 /\ i = j
    BY DEF Single
  <2>1. i \in DOMAIN input[<<d1, f>>] /\ input'[<<d1, f>>][i] = input[<<d1, f>>][i]
    BY <1>1, Zenon
  <2>2. j \in DOMAIN input[<<d2, f>>] /\ input'[<<d2, f>>][j] = input[<<d2, f>>][j]
    BY <1>1, Zenon
  <2> QED BY <2>1, <2>2 DEF Single
<1> QED BY <1>2, <1>3, Zenon

\* An engine that takes a message leaves what else is on its way; after the one
\* control on its way to it, only requests are.
LEMMA TakenInFlight ==
    ASSUME TypeOK, NEW c \in Clients, NEW e \in Engines, input[<<c, e>>] # <<>>,
           input' = Receive(input, <<c, e>>), NEW f \in Engines
    PROVE  /\ \A types : Only(f, types) => Only(f, types)'
           /\ Single(f) => Single(f)'
           /\ f # e => \A d \in Clients : input'[<<d, f>>] = input[<<d, f>>]
           /\ Single(e) /\ Head(input[<<c, e>>]).type # "ADD" => NoControl(e)'
<1> DEFINE s == input[<<c, e>>]
<1>1. <<c, e>> \in Sockets /\ \A d \in Clients : <<d, f>> \in Sockets
  BY Zenon DEF Sockets
<1>2. s \in Seq(Messages)
  BY <1>1, Zenon DEF TypeOK
<1>3. /\ input'[<<c, e>>] = Tail(s)
      /\ \A d \in Clients, g \in Engines :
           <<d, g>> # <<c, e>> => input'[<<d, g>>] = input[<<d, g>>]
  BY <1>1 DEF Receive, TypeOK, Sockets
<1>4. /\ DOMAIN s = 1 .. Len(s) /\ Len(s) \in Nat /\ 1 \in DOMAIN s /\ Head(s) = s[1]
      /\ DOMAIN Tail(s) = 1 .. Len(s) - 1
      /\ \A i \in 1 .. Len(s) - 1 : Tail(s)[i] = s[i + 1]
  BY <1>2
<1>5. \A i \in DOMAIN Tail(s) : i + 1 \in DOMAIN s /\ i + 1 # 1 /\ i \in Int /\ Tail(s)[i] = s[i + 1]
  BY <1>4
<1> HIDE DEF s
<1>6. \A d \in Clients : \A i \in DOMAIN input'[<<d, f>>] :
        \/ /\ d = c /\ f = e /\ i + 1 \in DOMAIN input[<<d, f>>] /\ i \in Int
           /\ input'[<<d, f>>][i] = input[<<d, f>>][i + 1]
        \/ /\ <<d, f>> # <<c, e>> /\ i \in DOMAIN input[<<d, f>>]
           /\ input'[<<d, f>>][i] = input[<<d, f>>][i]
  <2> SUFFICES ASSUME NEW d \in Clients, NEW i \in DOMAIN input'[<<d, f>>]
               PROVE  \/ /\ d = c /\ f = e /\ i + 1 \in DOMAIN input[<<d, f>>] /\ i \in Int
                         /\ input'[<<d, f>>][i] = input[<<d, f>>][i + 1]
                      \/ /\ <<d, f>> # <<c, e>> /\ i \in DOMAIN input[<<d, f>>]
                         /\ input'[<<d, f>>][i] = input[<<d, f>>][i]
    BY Zenon
  <2>1. CASE d = c /\ f = e
    BY <1>3, <1>5, <2>1, Zenon DEF s
  <2>2. CASE ~(d = c /\ f = e)
    <3>1. <<d, f>> # <<c, e>>
      BY <2>2
    <3> QED BY <1>3, <3>1, Zenon
  <2> QED BY <2>1, <2>2, Zenon
<1>7. \A types : Only(f, types) => Only(f, types)'
  BY <1>6, Zenon DEF Only
<1>8. Single(f) => Single(f)'
  <2> SUFFICES ASSUME Single(f), NEW d1 \in Clients, NEW d2 \in Clients,
                      NEW i \in DOMAIN input'[<<d1, f>>], NEW j \in DOMAIN input'[<<d2, f>>],
                      input'[<<d1, f>>][i].type # "ADD", input'[<<d2, f>>][j].type # "ADD"
               PROVE  d1 = d2 /\ i = j
    BY DEF Single
  <2>1. CASE f = e /\ d1 = c /\ d2 = c
    <3>1. <<d1, f>> = <<c, e>> /\ <<d2, f>> = <<c, e>>
      BY <2>1
    <3>2. i + 1 \in DOMAIN input[<<d1, f>>] /\ i \in Int /\ input[<<d1, f>>][i + 1].type # "ADD"
      BY <1>6, <3>1, Zenon
    <3>3. j + 1 \in DOMAIN input[<<d2, f>>] /\ j \in Int /\ input[<<d2, f>>][j + 1].type # "ADD"
      BY <1>6, <3>1, Zenon
    <3>4. i + 1 = j + 1
      BY <3>2, <3>3 DEF Single
    <3> QED BY <2>1, <3>2, <3>3, <3>4
  <2>2. CASE ~(f = e /\ d1 = c /\ d2 = c)
    BY <1>6, <2>2 DEF Single
  <2> QED BY <2>1, <2>2, Zenon
<1>9. f # e => \A d \in Clients : input'[<<d, f>>] = input[<<d, f>>]
  <2>1. f # e => \A d \in Clients : <<d, f>> # <<c, e>>
    OBVIOUS
  <2> QED BY <1>3, <2>1, Zenon
<1>10. ASSUME Single(e), Head(s).type # "ADD" PROVE NoControl(e)'
  <2>0. 1 \in DOMAIN input[<<c, e>>] /\ input[<<c, e>>][1].type # "ADD"
    BY <1>4, <1>10, Zenon DEF s
  <2> SUFFICES ASSUME NEW d \in Clients, NEW i \in DOMAIN input'[<<d, e>>],
                      input'[<<d, e>>][i].type # "ADD"
               PROVE  FALSE
    BY DEF NoControl, Only
  <2>1. CASE d = c
    <3>1. i + 1 \in DOMAIN s /\ i + 1 # 1 /\ input'[<<d, e>>][i] = s[i + 1]
      BY <1>3, <1>5, <2>1, Zenon
    <3>2. i + 1 \in DOMAIN input[<<c, e>>] /\ input[<<c, e>>][i + 1].type # "ADD"
      BY <3>1, Zenon DEF s
    <3>3. 1 = i + 1
      BY <1>10, <2>0, <3>2 DEF Single
    <3> QED BY <3>1, <3>3, Zenon
  <2>2. CASE d # c
    <3>1. <<d, e>> # <<c, e>>
      BY <2>2
    <3>2. input'[<<d, e>>] = input[<<d, e>>]
      BY <1>3, <3>1, Zenon
    <3> QED BY <1>10, <2>0, <2>2, <3>2, Zenon DEF Single
  <2> QED BY <2>1, <2>2, Zenon
<1> QED BY <1>7, <1>8, <1>9, <1>10, Zenon DEF s

\* A broadcast puts one control on its way to every engine.
LEMMA ControlInFlight ==
    ASSUME TypeOK, NEW c \in Clients, NEW m \in Messages, m.type # "ADD", Broadcast(c, m),
           NEW f \in Engines, NoControl(f)
    PROVE  Only(f, {"ADD", m.type})' /\ Single(f)'
<1> DEFINE s == input[<<c, f>>]
<1>1. \A d \in Clients : <<d, f>> \in Sockets /\ <<d, f>>[1] = d
  BY DEF Sockets
<1>2. s \in Seq(Messages)
  BY <1>1, Zenon DEF TypeOK
<1>3. /\ input'[<<c, f>>] = Append(s, m)
      /\ \A d \in Clients : d # c => input'[<<d, f>>] = input[<<d, f>>]
  BY <1>1, Zenon DEF Broadcast
<1>4. /\ DOMAIN s = 1 .. Len(s) /\ Len(s) \in Nat
      /\ DOMAIN Append(s, m) = 1 .. Len(s) + 1
      /\ \A i \in 1 .. Len(s) : Append(s, m)[i] = s[i]
      /\ Append(s, m)[Len(s) + 1] = m
  BY <1>2
<1>5. \A i \in DOMAIN Append(s, m) :
        \/ i \in DOMAIN s /\ Append(s, m)[i] = s[i]
        \/ i = Len(s) + 1 /\ Append(s, m)[i] = m
  BY <1>4
<1>6. \A d \in Clients : \A i \in DOMAIN input'[<<d, f>>] :
        \/ input'[<<d, f>>][i].type = "ADD"
        \/ d = c /\ i = Len(s) + 1 /\ input'[<<d, f>>][i] = m
  <2> SUFFICES ASSUME NEW d \in Clients, NEW i \in DOMAIN input'[<<d, f>>]
               PROVE  \/ input'[<<d, f>>][i].type = "ADD"
                      \/ d = c /\ i = Len(s) + 1 /\ input'[<<d, f>>][i] = m
    BY Zenon
  <2>1. \A g \in Clients : \A k \in DOMAIN input[<<g, f>>] : input[<<g, f>>][k].type = "ADD"
    BY Zenon DEF NoControl, Only
  <2>2. CASE d = c
    BY <1>3, <1>5, <2>1, <2>2, Zenon
  <2>3. CASE d # c
    BY <1>3, <2>1, <2>3, Zenon
  <2> QED BY <2>2, <2>3, Zenon
<1>7. Only(f, {"ADD", m.type})'
  BY <1>6, Zenon DEF Only
<1>8. Single(f)'
  <2> SUFFICES ASSUME NEW d1 \in Clients, NEW d2 \in Clients,
                      NEW i \in DOMAIN input'[<<d1, f>>], NEW j \in DOMAIN input'[<<d2, f>>],
                      input'[<<d1, f>>][i].type # "ADD", input'[<<d2, f>>][j].type # "ADD"
               PROVE  d1 = d2 /\ i = j
    BY DEF Single
  <2> QED BY <1>6, Zenon
<1> QED BY <1>7, <1>8, Zenon

-----------------------------------------------------------------------------
(* The phases *)

\* A phase goes on when what is said of each engine stays and the engines that run
\* together go on doing so.
LEMMA PhaseStays ==
    ASSUME PhaseInv, paused' = paused, Paused => Together',
           \A e \in Engines : /\ NormalAt(e) => NormalAt(e)'
                              /\ PausingAt(e) => PausingAt(e)'
                              /\ PausedAt(e) => PausedAt(e)'
                              /\ ResumingAt(e) => ResumingAt(e)'
    PROVE  PhaseInv'
BY Zenon DEF PhaseInv, Normal, Pausing, Paused, Resume

\* Clients that send requests, their stats tasks and the coordinator leave it as it is.
LEMMA OutsideKeeps ==
    ASSUME WaveInv,
           \/ UNCHANGED <<engine_vars, paused, input>>
           \/ \E c \in Clients, e \in Engines : add_request_async(c, e)
    PROVE  StepInv' /\ PhaseInv'
<1>1. UNCHANGED engine_vars /\ paused' = paused
  BY Zenon DEF add_request_async
<1>2. ASSUME NEW f \in Engines PROVE Stopped(f) => Stopped(f)'
  BY <1>1, Zenon DEF Stopped, has_work, num_unfinished_requests, engine_vars, wave_vars, work_vars,
     pause_vars
<1>3. ASSUME NEW f \in Engines
      PROVE  /\ \A types : "ADD" \in types => (Only(f, types) => Only(f, types)')
             /\ Single(f) => Single(f)'
  <2>1. CASE input' = input
    BY <2>1 DEF Only, Single
  <2>2. ASSUME NEW c \in Clients, NEW e \in Engines, add_request_async(c, e)
        PROVE  /\ \A types : "ADD" \in types => (Only(f, types) => Only(f, types)')
               /\ Single(f) => Single(f)'
    <3>1. PICK n \in 1 .. MaxTokens :
            input' = Send(input, <<c, e>>, [type |-> "ADD", wave |-> c_wave[c], work |-> n])
      BY <2>2, Zenon DEF add_request_async
    <3>2. c_wave[c] \in Nat /\ n \in Nat
      BY WaveAssumption DEF WaveInv, TypeOK
    <3>3. /\ [type |-> "ADD", wave |-> c_wave[c], work |-> n] \in Messages
          /\ [type |-> "ADD", wave |-> c_wave[c], work |-> n].type = "ADD"
      BY <3>2 DEF Messages
    <3> QED BY <3>1, <3>3, AddInFlight, Zenon DEF WaveInv
  <2> QED BY <2>1, <2>2, Zenon
<1>4. ASSUME NEW f \in Engines
      PROVE  /\ NormalAt(f) => NormalAt(f)'
             /\ PausingAt(f) => PausingAt(f)'
             /\ PausedAt(f) => PausedAt(f)'
             /\ ResumingAt(f) => ResumingAt(f)'
  <2>1. Stopped(f) => Stopped(f)'
    BY <1>2, Zenon
  <2>2. /\ \A types : "ADD" \in types => (Only(f, types) => Only(f, types)')
        /\ Single(f) => Single(f)'
    BY <1>3, Zenon
  <2> QED BY <1>1, <2>1, <2>2, KeepsAt, Zenon DEF engine_vars, wave_vars, pause_vars
<1>5. Paused => Together'
  BY <1>1, Zenon DEF Paused, Together, engine_vars, wave_vars
<1>6. PhaseInv'
  BY <1>1, <1>4, <1>5, PhaseStays, Zenon DEF WaveInv
<1>7. StepInv'
  BY <1>1, Zenon DEF WaveInv, StepInv, engine_vars
<1> QED BY <1>6, <1>7, Zenon

\* pause_scheduler_async starts a pause: the operator has waited for the last resume.
LEMMA PauseSent ==
    ASSUME WaveInv, NEW c \in Clients, pause_scheduler_async(c)
    PROVE  StepInv' /\ PhaseInv'
<1>1. PICK mode \in PauseModes : Broadcast(c, [type |-> "PAUSE", mode |-> mode])
  BY Zenon DEF pause_scheduler_async
<1>2. /\ [type |-> "PAUSE", mode |-> mode] \in Messages
      /\ [type |-> "PAUSE", mode |-> mode].type = "PAUSE"
  BY DEF Messages
<1>3. UNCHANGED engine_vars /\ ~paused /\ ~Resuming /\ paused'
  BY Zenon DEF pause_scheduler_async
<1>4. ~Resume
  <2>1. ~ResumingAt(0)
    BY <1>3, EngineSet, Zenon DEF Resuming, ResumingAt
  <2> QED BY <2>1, EngineSet, Zenon DEF Resume
<1>5. \A e \in Engines : NormalAt(e)
  BY <1>3, <1>4, Zenon DEF WaveInv, PhaseInv, Normal, Pausing, Paused
<1>6. ASSUME NEW e \in Engines PROVE PausingAt(e)'
  <2>1. NormalAt(e)
    BY <1>5, Zenon
  <2>2. Only(e, {"ADD", "PAUSE"})' /\ Single(e)'
    <3>1. NoControl(e)
      BY <2>1, Zenon DEF NormalAt
    <3> QED BY <1>1, <1>2, <3>1, ControlInFlight, Zenon DEF WaveInv
  <2> QED BY <1>3, <2>1, <2>2, Zenon DEF NormalAt, PausingAt, engine_vars, wave_vars, pause_vars
<1>7. PhaseInv'
  BY <1>3, <1>6, Zenon DEF PhaseInv, Pausing
<1>8. StepInv'
  BY <1>3, Zenon DEF WaveInv, StepInv, engine_vars
<1> QED BY <1>7, <1>8, Zenon

\* resume_scheduler_async is called when every engine has reported the pause.
LEMMA ResumeSent ==
    ASSUME WaveInv, NEW c \in Clients, resume_scheduler_async(c)
    PROVE  StepInv' /\ PhaseInv'
<1>1. /\ [type |-> "RESUME"] \in Messages
      /\ [type |-> "RESUME"].type = "RESUME"
  BY DEF Messages
<1>2. /\ UNCHANGED engine_vars /\ paused /\ ~paused' /\ Broadcast(c, [type |-> "RESUME"])
      /\ \A e \in Engines : e_pause[e] # "unpaused" /\ ~e_callback[e]
  BY Zenon DEF resume_scheduler_async
<1>3. ~Pausing
  <2>1. ~PausingAt(0)
    BY <1>2, EngineSet, Zenon DEF PausingAt
  <2> QED BY <2>1, EngineSet, Zenon DEF Pausing
<1>4. \A e \in Engines : PausedAt(e)
  BY <1>2, <1>3, Zenon DEF WaveInv, PhaseInv, Normal, Resume, Paused
<1>5. ASSUME NEW e \in Engines PROVE ResumingAt(e)'
  <2>1. PausedAt(e)
    BY <1>4, Zenon
  <2>2. Only(e, {"ADD", "RESUME"})' /\ Single(e)'
    <3>1. NoControl(e)
      BY <2>1, Zenon DEF PausedAt
    <3> QED BY <1>1, <1>2, <3>1, ControlInFlight, Zenon DEF WaveInv
  <2>3. ~e_running[e] /\ Stopped(e)
    BY <1>2, <2>1, Zenon DEF PausedAt
  <2>4. Stopped(e)'
    BY <1>2, <2>3, Zenon DEF Stopped, has_work, num_unfinished_requests, engine_vars, wave_vars,
       work_vars, pause_vars
  <2> QED BY <1>2, <2>1, <2>2, <2>3, <2>4, Zenon DEF PausedAt, ResumingAt, engine_vars, wave_vars,
             pause_vars
<1>6. PhaseInv'
  BY <1>2, <1>5, Zenon DEF PhaseInv, Resume
<1>7. StepInv'
  BY <1>2, Zenon DEF WaveInv, StepInv, engine_vars
<1> QED BY <1>6, <1>7, Zenon

\* A step of one engine leaves what is said of the others.
LEMMA LocalKeeps ==
    ASSUME WaveInv, NEW e \in Engines, paused' = paused,
           \A f \in Engines \ {e} :
             /\ e_pc'[f] = e_pc[f] /\ e_running'[f] = e_running[f]
             /\ e_work'[f] = e_work[f] /\ e_new'[f] = e_new[f] /\ e_pause'[f] = e_pause[f]
             /\ e_pending'[f] = e_pending[f] /\ e_ignore'[f] = e_ignore[f]
             /\ e_callback'[f] = e_callback[f]
             /\ \A c \in Clients : input'[<<c, f>>] = input[<<c, f>>],
           NormalAt(e) => NormalAt(e)',
           PausingAt(e) => PausingAt(e)',
           PausedAt(e) => PausedAt(e)' /\ e_running'[e] = e_running[e],
           ResumingAt(e) => ResumingAt(e)'
    PROVE  PhaseInv'
<1>1. ASSUME NEW f \in Engines
      PROVE  /\ NormalAt(f) => NormalAt(f)'
             /\ PausingAt(f) => PausingAt(f)'
             /\ PausedAt(f) => PausedAt(f)'
             /\ ResumingAt(f) => ResumingAt(f)'
  <2>1. CASE f = e
    BY <2>1, Zenon
  <2>2. CASE f # e
    <3>1. f \in Engines \ {e}
      BY <2>2, Zenon
    <3> QED BY <3>1, SameAt, Zenon
  <2> QED BY <2>1, <2>2, Zenon
<1>2. Paused => Together'
  <2> SUFFICES ASSUME Paused PROVE Together'
    BY Zenon
  <2>1. \A f \in Engines : e_running'[f] = e_running[f]
    BY Zenon DEF Paused
  <2> QED BY <2>1, Zenon DEF Paused, Together
<1> QED BY <1>1, <1>2, PhaseStays, Zenon DEF WaveInv

\* A message taken from the queue: what was on its way, and to whom.
LEMMA TakeFacts ==
    ASSUME WaveInv, NEW c \in Clients, NEW e \in Engines, NEW t, TakeInput(c, e, t)
    PROVE  /\ e_pc[e] = "poll" /\ paused' = paused /\ e_steps' = e_steps
           /\ \A types : Only(e, types) => t \in types /\ Only(e, types)'
           /\ Single(e) => Single(e)'
           /\ Single(e) /\ t # "ADD" => NoControl(e)'
           /\ \A f \in Engines \ {e} : \A d \in Clients : input'[<<d, f>>] = input[<<d, f>>]
<1>1. /\ input[<<c, e>>] # <<>> /\ input' = Receive(input, <<c, e>>)
      /\ Head(input[<<c, e>>]).type = t
  BY Zenon DEF TakeInput
<1>2. 1 \in DOMAIN input[<<c, e>>] /\ input[<<c, e>>][1].type = t
  <2>1. <<c, e>> \in Sockets
    BY Zenon DEF Sockets
  <2>2. input[<<c, e>>] \in Seq(Messages)
    BY <2>1, Zenon DEF WaveInv, TypeOK
  <2>3. \A s \in Seq(Messages) : s # <<>> => 1 \in DOMAIN s /\ Head(s) = s[1]
    OBVIOUS
  <2> QED BY <1>1, <2>2, <2>3, Zenon
<1>3. \A types : Only(e, types) => t \in types
  BY <1>2, Zenon DEF Only
<1> QED BY <1>1, <1>3, TakenInFlight, Zenon DEF WaveInv, TakeInput, count_vars

\* A request comes in: it starts an engine that is idle, never one that is paused.
LEMMA AddKeeps ==
    ASSUME WaveInv, NEW c \in Clients, NEW e \in Engines, add_request(c, e)
    PROVE  StepInv' /\ PhaseInv'
<1>1. TakeInput(c, e, "ADD") /\ UNCHANGED <<e_pc, e_work, pause_vars>>
  BY Zenon DEF add_request
<1>2. /\ e_pc[e] = "poll" /\ paused' = paused /\ e_steps' = e_steps
      /\ \A types : Only(e, types) => Only(e, types)'
      /\ Single(e) => Single(e)'
      /\ \A f \in Engines \ {e} : \A d \in Clients : input'[<<d, f>>] = input[<<d, f>>]
  BY <1>1, TakeFacts, Zenon
<1>3. /\ e_running' = e_running \/ e_running' = [e_running EXCEPT ![e] = TRUE]
      /\ e_pause[e] # "unpaused" => e_running' = e_running
      /\ e_new' = [e_new EXCEPT ![e] = Longer(Head(input[<<c, e>>]).work, @)]
  BY Zenon DEF add_request, wave_vars
<1>4. \A f \in Engines \ {e} : e_running'[f] = e_running[f] /\ e_new'[f] = e_new[f]
  BY <1>3, Zenon DEF WaveInv, TypeOK, EngineTypeOK
<1>5. NoControl(e) => NoControl(e)'
  BY <1>2, Zenon DEF NoControl
<1>6. e_running[e] => e_running'[e]
  BY <1>3, Zenon DEF WaveInv, TypeOK, EngineTypeOK
<1>7. e_pause[e] # "unpaused" /\ Stopped(e) => Stopped(e)'
  <2>1. e_pause[e] \in {"new", "all"} /\ Stopped(e) => Stopped(e)'
    BY <1>1, <1>3, Zenon DEF Stopped, has_work, num_unfinished_requests, pause_vars
  <2>2. e_pause[e] \in {"unpaused", "new", "all"}
    BY Zenon DEF WaveInv, TypeOK, EngineTypeOK
  <2> QED BY <2>1, <2>2, Zenon
<1>8. NormalAt(e) => NormalAt(e)'
  BY <1>1, <1>5, Zenon DEF NormalAt, pause_vars
<1>9. PausingAt(e) => PausingAt(e)'
  BY <1>1, <1>2, <1>5, <1>6, Zenon DEF PausingAt, pause_vars
<1>10. PausedAt(e) => PausedAt(e)' /\ e_running'[e] = e_running[e]
  BY <1>1, <1>3, <1>5, <1>7, Zenon DEF PausedAt, pause_vars
<1>11. ResumingAt(e) => ResumingAt(e)'
  BY <1>1, <1>2, <1>3, <1>5, <1>7, Zenon DEF ResumingAt, pause_vars
<1>12. PhaseInv'
  BY <1>1, <1>2, <1>4, <1>8, <1>9, <1>10, <1>11, LocalKeeps, Zenon DEF pause_vars
<1>13. StepInv'
  BY <1>1, <1>2, Zenon DEF WaveInv, StepInv
<1> QED BY <1>12, <1>13, Zenon

\* PAUSE comes in: the engine has not been paused yet, and runs from now on.
LEMMA PauseKeeps ==
    ASSUME WaveInv, NEW c \in Clients, NEW e \in Engines, pause_scheduler(c, e)
    PROVE  StepInv' /\ PhaseInv'
<1>1. /\ TakeInput(c, e, "PAUSE") /\ UNCHANGED <<e_pc, e_ignore>>
      /\ e_pending' = [e_pending EXCEPT ![e] = TRUE]
      /\ e_running' = [e_running EXCEPT ![e] = TRUE]
      /\ e_callback' = [e_callback EXCEPT ![e] = TRUE]
  BY Zenon DEF pause_scheduler
<1>2. /\ paused' = paused /\ e_steps' = e_steps
      /\ \A types : Only(e, types) => "PAUSE" \in types /\ Only(e, types)'
      /\ Single(e) => Single(e)' /\ NoControl(e)'
      /\ \A f \in Engines \ {e} : \A d \in Clients : input'[<<d, f>>] = input[<<d, f>>]
  <2>1. "PAUSE" # "ADD"
    OBVIOUS
  <2>2. TakeInput(c, e, "PAUSE")
    BY <1>1, Zenon
  <2>3. Single(e) => Single(e)' /\ NoControl(e)'
    BY <2>1, <2>2, TakeFacts, Zenon
  <2>4. \A types : Only(e, types) => "PAUSE" \in types /\ Only(e, types)'
    BY <2>2, TakeFacts, Zenon
  <2> QED BY <2>2, <2>3, <2>4, TakeFacts, Zenon
<1>3. e_pause' = [e_pause EXCEPT ![e] = IF Head(input[<<c, e>>]).mode = "keep" THEN "all" ELSE "new"]
  BY Zenon DEF pause_scheduler
<1>4. /\ e_work' = e_work \/ e_work' = [e_work EXCEPT ![e] = 0]
      /\ e_new' = e_new \/ e_new' = [e_new EXCEPT ![e] = 0]
  BY Zenon DEF pause_scheduler, work_vars
<1>5. \A f \in Engines \ {e} :
        /\ e_pc'[f] = e_pc[f] /\ e_running'[f] = e_running[f]
        /\ e_pause'[f] = e_pause[f] /\ e_pending'[f] = e_pending[f]
        /\ e_ignore'[f] = e_ignore[f] /\ e_callback'[f] = e_callback[f]
  BY <1>1, <1>3, Zenon DEF WaveInv, TypeOK, EngineTypeOK
<1>6. \A f \in Engines \ {e} : e_work'[f] = e_work[f] /\ e_new'[f] = e_new[f]
  BY <1>4, Zenon DEF WaveInv, TypeOK, EngineTypeOK
<1>7. ~NoControl(e) /\ ~Only(e, {"ADD", "RESUME"})
  <2>1. NoControl(e) => "PAUSE" \in {"ADD"}
    BY <1>2, Zenon DEF NoControl
  <2>2. Only(e, {"ADD", "RESUME"}) => "PAUSE" \in {"ADD", "RESUME"}
    BY <1>2, Zenon
  <2> QED BY <2>1, <2>2
<1>8. ~NormalAt(e) /\ ~PausedAt(e) /\ ~ResumingAt(e)
  BY <1>7, Zenon DEF NormalAt, PausedAt, ResumingAt
<1>9. e_pause'[e] # "unpaused" /\ e_pending'[e] /\ e_running'[e] /\ e_callback'[e]
  BY <1>1, <1>3 DEF WaveInv, TypeOK, EngineTypeOK
<1>10. PausingAt(e) => PausingAt(e)'
  BY <1>1, <1>2, <1>9, Zenon DEF PausingAt
<1>11. PhaseInv'
  BY <1>2, <1>5, <1>6, <1>8, <1>10, LocalKeeps, Zenon
<1>12. StepInv'
  BY <1>1, <1>2, Zenon DEF WaveInv, StepInv
<1> QED BY <1>11, <1>12, Zenon

\* RESUME comes in: the engine is idle and goes to the barrier.
LEMMA ResumeKeeps ==
    ASSUME WaveInv, NEW c \in Clients, NEW e \in Engines, resume_scheduler(c, e)
    PROVE  StepInv' /\ PhaseInv'
<1>1. /\ TakeInput(c, e, "RESUME") /\ UNCHANGED <<wave_vars, work_vars, e_pending, e_callback>>
      /\ ~e_pending[e] /\ ~e_running[e] =>
           /\ e_pause' = [e_pause EXCEPT ![e] = "unpaused"]
           /\ e_ignore' = [e_ignore EXCEPT ![e] = FALSE]
           /\ e_pc' = [e_pc EXCEPT ![e] = "barrier"]
      /\ ~(~e_pending[e] /\ ~e_running[e]) => UNCHANGED <<e_pc, e_pause, e_ignore>>
  BY Zenon DEF resume_scheduler, Goto
<1>2. /\ e_pc[e] = "poll" /\ paused' = paused /\ e_steps' = e_steps
      /\ \A types : Only(e, types) => "RESUME" \in types /\ Only(e, types)'
      /\ Single(e) => Single(e)' /\ NoControl(e)'
      /\ \A f \in Engines \ {e} : \A d \in Clients : input'[<<d, f>>] = input[<<d, f>>]
  <2>1. "RESUME" # "ADD"
    OBVIOUS
  <2>2. TakeInput(c, e, "RESUME")
    BY <1>1, Zenon
  <2>3. Single(e) => Single(e)' /\ NoControl(e)'
    BY <2>1, <2>2, TakeFacts, Zenon
  <2>4. \A types : Only(e, types) => "RESUME" \in types /\ Only(e, types)'
    BY <2>2, TakeFacts, Zenon
  <2> QED BY <2>2, <2>3, <2>4, TakeFacts, Zenon
<1>3. \A f \in Engines \ {e} :
        e_pc'[f] = e_pc[f] /\ e_pause'[f] = e_pause[f] /\ e_ignore'[f] = e_ignore[f]
  <2>1. CASE ~e_pending[e] /\ ~e_running[e]
    BY <1>1, <2>1, Zenon DEF WaveInv, TypeOK, EngineTypeOK
  <2>2. CASE ~(~e_pending[e] /\ ~e_running[e])
    BY <1>1, <2>2, Zenon
  <2> QED BY <2>1, <2>2, Zenon
<1>4. ~NoControl(e) /\ ~Only(e, {"ADD", "PAUSE"})
  <2>1. NoControl(e) => "RESUME" \in {"ADD"}
    BY <1>2, Zenon DEF NoControl
  <2>2. Only(e, {"ADD", "PAUSE"}) => "RESUME" \in {"ADD", "PAUSE"}
    BY <1>2, Zenon
  <2> QED BY <2>1, <2>2
<1>5. ~NormalAt(e) /\ ~PausedAt(e) /\ ~PausingAt(e)
  BY <1>4, Zenon DEF NormalAt, PausedAt, PausingAt
<1>6. ResumingAt(e) => ResumingAt(e)'
  <2> SUFFICES ASSUME ResumingAt(e) PROVE ResumingAt(e)'
    BY Zenon
  <2>1. e_pause'[e] = "unpaused" /\ ~e_ignore'[e] /\ e_pc'[e] = "barrier"
    BY <1>1, Zenon DEF ResumingAt, WaveInv, TypeOK, EngineTypeOK
  <2> QED BY <1>1, <1>2, <2>1, Zenon DEF ResumingAt, wave_vars
<1>7. PhaseInv'
  BY <1>1, <1>2, <1>3, <1>5, <1>6, LocalKeeps, Zenon DEF wave_vars, work_vars
<1>8. StepInv'
  <2>1. \A f \in Engines : e_pc[f] # "sync"
    <3>1. "poll" # "sync"
      OBVIOUS
    <3> QED BY <1>2, <3>1, Zenon DEF WaveInv, StepInv
  <2>2. e_pc'[e] # "sync"
    <3>1. e_pc'[e] \in {"barrier", "poll"}
      BY <1>1, <1>2, Zenon DEF WaveInv, TypeOK, EngineTypeOK
    <3> QED BY <3>1
  <2>3. \A f \in Engines : e_pc'[f] # "sync"
    BY <1>3, <2>1, <2>2, Zenon
  <2> QED BY <1>2, <2>3, Zenon DEF WaveInv, StepInv
<1> QED BY <1>7, <1>8, Zenon

\* START_DP_WAVE comes in: an engine that has agreed to pause ignores it.
LEMMA StartKeeps ==
    ASSUME WaveInv, NEW e \in Engines, handle_start_wave(e)
    PROVE  StepInv' /\ PhaseInv'
<1>1. /\ e_pc[e] = "poll" /\ UNCHANGED <<e_pc, work_vars, pause_vars, e_steps, count_vars, input>>
      /\ e_running' = e_running \/ e_running' = [e_running EXCEPT ![e] = TRUE]
      /\ e_ignore[e] => e_running' = e_running
  BY Zenon DEF handle_start_wave, wave_vars
<1>2. \A f \in Engines \ {e} : e_running'[f] = e_running[f]
  BY <1>1, Zenon DEF WaveInv, TypeOK, EngineTypeOK
<1>3. e_running[e] => e_running'[e]
  BY <1>1, Zenon DEF WaveInv, TypeOK, EngineTypeOK
<1>4. /\ \A types : Only(e, types) => Only(e, types)'
      /\ Single(e) => Single(e)'
  BY <1>1 DEF Only, Single
<1>5. e_ignore[e] /\ Stopped(e) => Stopped(e)'
  BY <1>1, Zenon DEF Stopped, has_work, num_unfinished_requests, pause_vars, work_vars
<1>6. NoControl(e) => NoControl(e)'
  BY <1>4, Zenon DEF NoControl
<1>7. NormalAt(e) => NormalAt(e)'
  BY <1>1, <1>6, Zenon DEF NormalAt, pause_vars
<1>8. PausingAt(e) => PausingAt(e)'
  BY <1>1, <1>3, <1>4, <1>6, Zenon DEF PausingAt, pause_vars
<1>9. PausedAt(e) => PausedAt(e)' /\ e_running'[e] = e_running[e]
  BY <1>1, <1>5, <1>6, Zenon DEF PausedAt, pause_vars
<1>10. ResumingAt(e) => ResumingAt(e)'
  BY <1>1, <1>4, <1>5, <1>6, Zenon DEF ResumingAt, pause_vars
<1>11. PhaseInv'
  BY <1>1, <1>2, <1>7, <1>8, <1>9, <1>10, LocalKeeps, Zenon DEF pause_vars, work_vars, count_vars
<1>12. StepInv'
  BY <1>1, Zenon DEF WaveInv, StepInv
<1> QED BY <1>11, <1>12, Zenon

\* An abort empties the engine, which may be idle or not.
LEMMA AbortKeeps ==
    ASSUME WaveInv, NEW e \in Engines, abort_requests(e)
    PROVE  StepInv' /\ PhaseInv'
<1>1. /\ UNCHANGED <<e_pc, wave_vars, pause_vars, e_steps, paused, channels>>
      /\ e_work' = [e_work EXCEPT ![e] = 0] /\ e_new' = [e_new EXCEPT ![e] = 0]
  BY Zenon DEF abort_requests
<1>2. \A f \in Engines \ {e} : e_work'[f] = e_work[f] /\ e_new'[f] = e_new[f]
  BY <1>1, Zenon DEF WaveInv, TypeOK, EngineTypeOK
<1>3. e_work'[e] = 0 /\ e_new'[e] = 0
  BY <1>1, Zenon DEF WaveInv, TypeOK, EngineTypeOK
<1>4. ~(num_unfinished_requests(e)' > 0)
  BY <1>3 DEF num_unfinished_requests
<1>5. Stopped(e) => Stopped(e)'
  BY <1>1, <1>4, Zenon DEF Stopped, has_work, wave_vars
<1>6. /\ \A types : Only(e, types) => Only(e, types)'
      /\ Single(e) => Single(e)'
  BY <1>1 DEF Only, Single, channels
<1>7. /\ NormalAt(e) => NormalAt(e)'
      /\ PausingAt(e) => PausingAt(e)'
      /\ PausedAt(e) => PausedAt(e)'
      /\ ResumingAt(e) => ResumingAt(e)'
  BY <1>1, <1>5, <1>6, KeepsAt, Zenon DEF wave_vars, pause_vars
<1>8. PhaseInv'
  BY <1>1, <1>2, <1>7, LocalKeeps, Zenon DEF wave_vars, pause_vars, channels
<1>9. StepInv'
  BY <1>1, Zenon DEF WaveInv, StepInv
<1> QED BY <1>8, <1>9, Zenon

\* A pause is reported by an idle engine only, so after the agreement.
LEMMA NotifyKeeps ==
    ASSUME WaveInv, NEW e \in Engines, notify_idle_state_callbacks(e)
    PROVE  StepInv' /\ PhaseInv'
<1>1. /\ UNCHANGED <<e_pc, wave_vars, work_vars, e_pause, e_pending, e_ignore, e_steps, count_vars,
                     channels>>
      /\ e_pc[e] = "poll" /\ ~has_work(e) /\ e_callback[e]
      /\ e_callback' = [e_callback EXCEPT ![e] = FALSE]
  BY Zenon DEF notify_idle_state_callbacks
<1>2. /\ \A f \in Engines \ {e} : e_callback'[f] = e_callback[f]
      /\ ~e_callback'[e]
  BY <1>1, Zenon DEF WaveInv, TypeOK, EngineTypeOK
<1>3. ~e_running[e]
  BY <1>1, Zenon DEF has_work
<1>4. ~NormalAt(e) /\ ~PausingAt(e) /\ ~ResumingAt(e)
  BY <1>1, <1>3, Zenon DEF NormalAt, PausingAt, ResumingAt
<1>5. Stopped(e) => Stopped(e)'
  BY <1>1, Zenon DEF Stopped, has_work, num_unfinished_requests, wave_vars, work_vars
<1>6. NoControl(e) => NoControl(e)'
  BY <1>1 DEF NoControl, Only, channels
<1>7. PausedAt(e) => PausedAt(e)' /\ e_running'[e] = e_running[e]
  BY <1>1, <1>3, <1>5, <1>6, Zenon DEF PausedAt, wave_vars
<1>8. PhaseInv'
  BY <1>1, <1>2, <1>4, <1>7, LocalKeeps, Zenon DEF wave_vars, work_vars, count_vars, channels
<1>9. StepInv'
  BY <1>1, Zenon DEF WaveInv, StepInv
<1> QED BY <1>8, <1>9, Zenon

\* An engine with work enters the forward pass; an idle one of a pause does not.
LEMMA BeginKeeps ==
    ASSUME WaveInv, NEW e \in Engines, begin_step(e)
    PROVE  StepInv' /\ PhaseInv'
<1>1. /\ e_pc[e] = "poll" /\ has_work(e) /\ e_pc' = [e_pc EXCEPT ![e] = "forward"]
      /\ UNCHANGED <<wave_vars, pause_vars, e_steps, count_vars, channels>>
  BY Zenon DEF begin_step, Goto
<1>2. /\ e_work' = e_work \/ e_work' = [e_work EXCEPT ![e] = Longer(@, e_new[e])]
      /\ e_new' = e_new \/ e_new' = [e_new EXCEPT ![e] = 0]
  BY Zenon DEF begin_step, work_vars
<1>3. \A f \in Engines \ {e} : e_work'[f] = e_work[f] /\ e_new'[f] = e_new[f] /\ e_pc'[f] = e_pc[f]
  BY <1>1, <1>2, Zenon DEF WaveInv, TypeOK, EngineTypeOK
<1>4. e_pc'[e] = "forward"
  BY <1>1, Zenon DEF WaveInv, TypeOK, EngineTypeOK
<1>5. "forward" # "barrier" /\ "forward" # "sync" /\ "poll" # "barrier" /\ "poll" # "sync"
  OBVIOUS
<1>6. /\ \A types : Only(e, types) => Only(e, types)'
      /\ Single(e) => Single(e)'
      /\ NoControl(e) => NoControl(e)'
  BY <1>1 DEF Only, Single, NoControl, channels
<1>7. NormalAt(e) => NormalAt(e)'
  BY <1>1, <1>4, <1>5, <1>6, Zenon DEF NormalAt, pause_vars
<1>8. PausingAt(e) => PausingAt(e)'
  BY <1>1, <1>4, <1>5, <1>6, Zenon DEF PausingAt, pause_vars, wave_vars
<1>9. PausedAt(e) => PausedAt(e)' /\ e_running'[e] = e_running[e]
  BY <1>1, <1>4, <1>5, <1>6, Zenon DEF PausedAt, Stopped, pause_vars, wave_vars
<1>10. ~ResumingAt(e)
  BY <1>1, <1>5, Zenon DEF ResumingAt, Stopped
<1>11. PhaseInv'
  BY <1>1, <1>3, <1>7, <1>8, <1>9, <1>10, LocalKeeps, Zenon DEF wave_vars, pause_vars, count_vars,
     channels
<1>12. StepInv'
  <2>1. \A f \in Engines : e_pc[f] # "sync"
    BY <1>1, <1>5, Zenon DEF WaveInv, StepInv
  <2>2. \A f \in Engines : e_pc'[f] # "sync"
    BY <1>3, <1>4, <1>5, <2>1, Zenon
  <2> QED BY <1>1, <2>2, Zenon DEF WaveInv, StepInv
<1> QED BY <1>11, <1>12, Zenon

\* The forward pass: all engines are in it, and go to the all-reduce together.
LEMMA ForwardKeeps ==
    ASSUME WaveInv, forward
    PROVE  StepInv' /\ PhaseInv'
<1>1. /\ \A e \in Engines : e_pc[e] = "forward"
      /\ e_steps' = [e \in Engines |-> (e_steps[e] + 1) % sync_interval]
      /\ e_pc' = [e \in Engines |-> IF e_steps'[e] = 0 THEN "sync" ELSE "poll"]
      /\ e_running' = [e \in Engines |-> IF e_steps'[e] = 0 THEN e_running[e] ELSE TRUE]
      /\ UNCHANGED <<pause_vars, count_vars, channels>>
  BY Zenon DEF forward
<1>2. \A e, f \in Engines : e_steps'[e] = e_steps'[f]
  BY <1>1, Zenon DEF WaveInv, StepInv
<1>3. \A e \in Engines : /\ e_pc'[e] = IF e_steps'[e] = 0 THEN "sync" ELSE "poll"
                         /\ e_running[e] => e_running'[e]
  BY <1>1, Zenon
<1>4. StepInv'
  BY <1>2, <1>3, Zenon DEF StepInv
<1>5. \A e \in Engines : e_pc'[e] # "barrier" /\ ~Stopped(e)
  <2>1. "sync" # "barrier" /\ "poll" # "barrier" /\ "forward" # "poll"
    OBVIOUS
  <2> QED BY <1>1, <1>3, <2>1, Zenon DEF Stopped
<1>6. ASSUME NEW e \in Engines
      PROVE  /\ NormalAt(e) => NormalAt(e)'
             /\ PausingAt(e) => PausingAt(e)'
             /\ PausedAt(e) => PausedAt(e)' /\ e_running'[e] = TRUE
             /\ ~ResumingAt(e)
  <2>1. /\ \A types : Only(e, types) => Only(e, types)'
        /\ Single(e) => Single(e)'
        /\ NoControl(e) => NoControl(e)'
    BY <1>1 DEF Only, Single, NoControl, channels
  <2>2. NormalAt(e) => NormalAt(e)'
    BY <1>1, <1>5, <2>1, Zenon DEF NormalAt, pause_vars
  <2>3. PausingAt(e) => PausingAt(e)'
    BY <1>1, <1>3, <1>5, <2>1, Zenon DEF PausingAt, pause_vars
  <2>4. PausedAt(e) => e_running[e] = TRUE /\ e_running'[e] = TRUE
    <3>1. e_running[e] \in BOOLEAN
      BY Zenon DEF WaveInv, TypeOK, EngineTypeOK
    <3>2. PausedAt(e) => e_running[e] = TRUE
      BY <1>5, <3>1, Zenon DEF PausedAt
    <3> QED BY <1>1, <3>2, Zenon
  <2>5. PausedAt(e) => PausedAt(e)'
    BY <1>1, <1>3, <1>5, <2>1, <2>4, Zenon DEF PausedAt, pause_vars
  <2>6. ~ResumingAt(e)
    <3>1. "forward" # "barrier"
      OBVIOUS
    <3> QED BY <1>1, <1>5, <3>1, Zenon DEF ResumingAt
  <2> QED BY <2>2, <2>3, <2>4, <2>5, <2>6, Zenon
<1>7. Paused => Together'
  BY <1>6, Zenon DEF Paused, Together
<1>8. PhaseInv'
  BY <1>1, <1>6, <1>7, PhaseStays, Zenon DEF WaveInv, count_vars
<1> QED BY <1>4, <1>8, Zenon

\* The barrier of resume_scheduler: every engine has resumed.
LEMMA BarrierKeeps ==
    ASSUME WaveInv, resume_barrier
    PROVE  StepInv' /\ PhaseInv'
<1>1. /\ \A e \in Engines : e_pc[e] = "barrier"
      /\ e_pc' = [e \in Engines |-> "poll"]
      /\ UNCHANGED <<pause_vars, e_steps, count_vars, channels>>
  BY Zenon DEF resume_barrier
<1>2. "barrier" # "poll" /\ "sync" # "poll"
  OBVIOUS
<1>3. \A e \in Engines : e_pc'[e] # "sync" /\ e_pc'[e] # "barrier"
  BY <1>1, <1>2, Zenon
<1>4. StepInv'
  BY <1>1, <1>3, Zenon DEF WaveInv, StepInv
<1>5. ~NormalAt(0) /\ ~PausingAt(0) /\ ~PausedAt(0)
  BY <1>1, EngineSet, Zenon DEF NormalAt, PausingAt, PausedAt
<1>6. Resume
  BY <1>5, EngineSet, Zenon DEF WaveInv, PhaseInv, Normal, Pausing, Paused
<1>7. ASSUME NEW e \in Engines PROVE NormalAt(e)'
  <2>1. ResumingAt(e) /\ ~Stopped(e)
    BY <1>1, <1>2, <1>6, Zenon DEF Resume, Stopped
  <2>2. NoControl(e)'
    <3>1. NoControl(e)
      BY <2>1, Zenon DEF ResumingAt
    <3> QED BY <1>1, <3>1 DEF NoControl, Only, channels
  <2> QED BY <1>1, <1>3, <2>1, <2>2, Zenon DEF ResumingAt, NormalAt, pause_vars
<1>8. PhaseInv'
  BY <1>1, <1>6, <1>7, Zenon DEF PhaseInv, Normal, Resume, count_vars
<1> QED BY <1>4, <1>8, Zenon

\* The sum of the pause flags over all engines, modulo their number, tells whether some
\* but not all of them are set.
LEMMA PauseCount ==
    /\ pause_count = dp_size <=> \A e \in Engines : e_pending[e]
    /\ (\E e \in Engines : e_pending[e]) /\ pause_count # dp_size => pause_count % dp_size # 0
<1> DEFINE P == {e \in Engines : e_pending[e]}
<1>1. P \subseteq Engines /\ pause_count = Cardinality(P)
  BY Zenon DEF pause_count
<1>2. /\ IsFiniteSet(P) /\ Cardinality(P) <= dp_size
      /\ Cardinality(P) = dp_size => P = Engines
  BY <1>1, EngineSet, FS_Subset, Zenon
<1>3. Cardinality(P) \in Nat /\ (Cardinality(P) = 0 <=> P = {})
  BY <1>2, FS_CardinalityType, FS_EmptySet, Zenon
<1>4. dp_size \in Nat /\ dp_size > 0
  BY WaveAssumption
<1>5. P = Engines <=> \A e \in Engines : e_pending[e]
  BY Zenon
<1>6. P = Engines => Cardinality(P) = dp_size
  BY EngineSet, Zenon
<1>7. (\E e \in Engines : e_pending[e]) => P # {}
  OBVIOUS
<1> HIDE DEF P
<1>8. \A k \in Nat : 0 < k /\ k < dp_size => k % dp_size # 0
  <2> SUFFICES ASSUME NEW k \in Nat, 0 < k, k < dp_size PROVE k % dp_size # 0
    OBVIOUS
  <2>1. k % dp_size = k
    BY <1>4, SMTT(30)
  <2> QED BY <2>1
<1>9. (\E e \in Engines : e_pending[e]) /\ Cardinality(P) # dp_size => Cardinality(P) % dp_size # 0
  BY <1>2, <1>3, <1>4, <1>7, <1>8
<1>10. Cardinality(P) = dp_size <=> \A e \in Engines : e_pending[e]
  BY <1>2, <1>5, <1>6, Zenon
<1> QED BY <1>1, <1>9, <1>10, Zenon

\* The all-reduce: the engines agree whether to go on, and on the pause as soon as
\* each of them has its PAUSE.
LEMMA SyncKeeps ==
    ASSUME WaveInv, sync_dp_state
    PROVE  StepInv' /\ PhaseInv'
<1> DEFINE All == \A e \in Engines : e_pending[e]
           Unfinished(e) == num_unfinished_requests(e) > 0
<1>1. /\ \A e \in Engines : e_pc[e] = "sync"
      /\ e_running' = [e \in Engines |-> has_unfinished_global]
      /\ e_pc' = [e \in Engines |-> "poll"]
      /\ UNCHANGED <<e_steps, work_vars, e_pause, e_callback, count_vars, input>>
  BY Zenon DEF sync_dp_state
<1>2. /\ All => /\ e_ignore' = [e \in Engines |-> TRUE]
                /\ e_pending' = [e \in Engines |-> FALSE]
      /\ ~All => UNCHANGED <<e_ignore, e_pending>>
  <2>1. pause_count = dp_size <=> All
    BY PauseCount
  <2> QED BY <2>1, Zenon DEF sync_dp_state
<1>3. paused' = paused
  BY <1>1 DEF count_vars
<1>4. "sync" # "poll" /\ "sync" # "barrier" /\ "poll" # "barrier"
  OBVIOUS
<1>5. \A e \in Engines : /\ e_pc'[e] = "poll" /\ ~Stopped(e)
                         /\ e_running'[e] = has_unfinished_global
  BY <1>1, <1>4, Zenon DEF Stopped
<1>6. StepInv'
  BY <1>1, <1>4, <1>5, Zenon DEF WaveInv, StepInv
<1>7. ASSUME NEW e \in Engines
      PROVE  /\ \A types : Only(e, types) => Only(e, types)'
             /\ Single(e) => Single(e)'
             /\ NoControl(e) => NoControl(e)'
  BY <1>1 DEF Only, Single, NoControl
<1>8. ASSUME NEW e \in Engines, ~has_unfinished_global PROVE Stopped(e)'
  <2>1. ~Unfinished(e)
    BY <1>8, Zenon DEF has_unfinished_global
  <2>2. ~(num_unfinished_requests(e)' > 0)
    BY <1>1, <2>1, Zenon DEF num_unfinished_requests, work_vars
  <2>3. ~e_running'[e]
    BY <1>5, <1>8, Zenon
  <2> QED BY <1>5, <2>2, <2>3, Zenon DEF Stopped, has_work
<1>9. CASE Normal
  <2>1. ~All
    BY <1>9, EngineSet, Zenon DEF Normal, NormalAt
  <2>2. ASSUME NEW e \in Engines PROVE NormalAt(e)'
    BY <1>1, <1>2, <1>4, <1>5, <1>7, <1>9, <2>1, <2>2, Zenon DEF Normal, NormalAt
  <2> QED BY <1>3, <1>6, <1>9, <2>2, Zenon DEF Normal, PhaseInv
<1>10. CASE Pausing /\ ~All
  <2>1. ASSUME NEW e \in Engines PROVE PausingAt(e)'
    <3>1. PausingAt(e)
      BY <1>10, Zenon DEF Pausing
    <3>2. e_pending[e] => e_running'[e]
      <4>1. e_pending[e] => pause_count % dp_size # 0
        BY <1>10, PauseCount
      <4>2. e_pending[e] => has_unfinished_global
        BY <4>1, Zenon DEF has_unfinished_global
      <4> QED BY <1>5, <4>2, Zenon
    <3>3. /\ NoControl(e) => NoControl(e)'
          /\ Only(e, {"ADD", "PAUSE"}) => Only(e, {"ADD", "PAUSE"})'
          /\ Single(e) => Single(e)'
      BY <1>7, Zenon
    <3> QED BY <1>1, <1>2, <1>4, <1>5, <1>10, <3>1, <3>2, <3>3, Zenon DEF PausingAt
  <2> QED BY <1>3, <1>6, <1>10, <2>1, Zenon DEF Pausing, PhaseInv
<1>11. CASE Pausing /\ All
  <2>1. ASSUME NEW e \in Engines PROVE PausedAt(e)'
    <3>1. PausingAt(e) /\ e_pending[e]
      BY <1>11, Zenon DEF Pausing
    <3>2. e_pause'[e] # "unpaused" /\ e_callback'[e] /\ NoControl(e)'
      BY <1>1, <1>7, <3>1, Zenon DEF PausingAt
    <3>3. e_ignore'[e] /\ ~e_pending'[e]
      BY <1>2, <1>11, Zenon
    <3>4. e_running'[e] \/ Stopped(e)'
      BY <1>5, <1>8, Zenon
    <3> QED BY <1>4, <1>5, <3>2, <3>3, <3>4, Zenon DEF PausedAt
  <2>2. Together'
    BY <1>5, Zenon DEF Together
  <2> QED BY <1>3, <1>6, <1>11, <2>1, <2>2, Zenon DEF Pausing, Paused, PhaseInv
<1>12. CASE Paused
  <2>1. ~All
    BY <1>12, EngineSet, Zenon DEF Paused, PausedAt
  <2>2. ASSUME NEW e \in Engines PROVE PausedAt(e)'
    <3>1. PausedAt(e) /\ e_callback[e]
      BY <1>5, <1>12, Zenon DEF Paused, PausedAt
    <3>2. e_pause'[e] # "unpaused" /\ e_callback'[e] /\ NoControl(e)'
      BY <1>1, <1>7, <3>1, Zenon DEF PausedAt
    <3>3. e_ignore'[e] /\ ~e_pending'[e]
      BY <1>2, <2>1, <3>1, Zenon DEF PausedAt
    <3>4. e_running'[e] \/ Stopped(e)'
      BY <1>5, <1>8, Zenon
    <3> QED BY <1>4, <1>5, <3>2, <3>3, <3>4, Zenon DEF PausedAt
  <2>3. Together'
    BY <1>5, Zenon DEF Together
  <2> QED BY <1>3, <1>6, <1>12, <2>2, <2>3, Zenon DEF Paused, PhaseInv
<1>13. ~Resume
  <2>1. ~ResumingAt(0)
    BY <1>1, <1>4, <1>5, EngineSet, Zenon DEF ResumingAt
  <2> QED BY <2>1, EngineSet, Zenon DEF Resume
<1> QED BY <1>6, <1>9, <1>10, <1>11, <1>12, <1>13, Zenon DEF WaveInv, PhaseInv

-----------------------------------------------------------------------------
(* The theorems *)

\* Every step keeps the invariant.
LEMMA WavesKeep == WaveInv /\ [Next]_vars => WaveInv'
<1> SUFFICES ASSUME WaveInv, [Next]_vars PROVE WaveInv'
  BY Zenon
<1>1. TypeOK'
  BY TypesKeep, Zenon DEF WaveInv
<1>2. StepInv' /\ PhaseInv'
  <2>1. CASE UNCHANGED vars
    BY <2>1, OutsideKeeps, Zenon DEF vars, count_vars, channels
  <2>2. ASSUME NEW c \in Clients, Request(c) PROVE StepInv' /\ PhaseInv'
    BY <2>2, PauseSent, OutsideKeeps, Zenon DEF Request
  <2>3. CASE Notify \/ publish_stats
    <3>1. ASSUME NEW c \in Clients, send_first_req(c) PROVE StepInv' /\ PhaseInv'
      BY <3>1, OutsideKeeps, Zenon DEF send_first_req, count_vars
    <3>2. ASSUME NEW c \in Clients, recv_stats(c) PROVE StepInv' /\ PhaseInv'
      BY <3>2, OutsideKeeps, Zenon DEF recv_stats, count_vars
    <3>3. ASSUME NEW c \in Clients, recv_front(c) PROVE StepInv' /\ PhaseInv'
      BY <3>3, OutsideKeeps, Zenon DEF recv_front, count_vars
    <3>4. ASSUME NEW e \in Engines, recv_back(e) PROVE StepInv' /\ PhaseInv'
      BY <3>4, OutsideKeeps, Zenon DEF recv_back, count_vars
    <3>5. CASE publish_stats
      BY <3>5, OutsideKeeps, Zenon DEF publish_stats, count_vars
    <3> QED BY <2>3, <3>1, <3>2, <3>3, <3>4, <3>5, ResumeSent, Zenon DEF Notify
  <2>4. ASSUME NEW e \in Engines, Input(e) \/ abort_requests(e) PROVE StepInv' /\ PhaseInv'
    BY <2>4, AddKeeps, PauseKeeps, ResumeKeeps, StartKeeps, AbortKeeps, Zenon DEF Input
  <2>5. CASE BusyLoop
    BY <2>5, NotifyKeeps, BeginKeeps, ForwardKeeps, SyncKeeps, BarrierKeeps, Zenon DEF BusyLoop
  <2> QED BY <2>1, <2>2, <2>3, <2>4, <2>5, Zenon DEF Next
<1> QED BY <1>1, <1>2, Zenon DEF WaveInv

\* The invariant holds throughout every behaviour.
THEOREM WaveInvariance == Spec => []WaveInv
<1>1. Init => WaveInv
  <2> SUFFICES ASSUME Init PROVE WaveInv
    OBVIOUS
  <2>1. StepInv
    BY DEF Init, StepInv
  <2>2. ASSUME NEW e \in Engines PROVE NormalAt(e)
    <3>1. \A c \in Clients : input[<<c, e>>] = <<>>
      BY DEF Init, Sockets
    <3>2. NoControl(e)
      BY <3>1 DEF NoControl, Only
    <3> QED BY <3>2 DEF Init, NormalAt
  <2>3. PhaseInv
    BY <2>2 DEF PhaseInv, Normal, Init
  <2> QED BY <2>1, <2>3, InitTypes, Zenon DEF WaveInv
<1> QED BY <1>1, WavesKeep, PTL DEF Spec

\* All engines that wait in a collective wait in the same one: the forward pass, the
\* all-reduce of _has_global_unfinished_reqs or the barrier of resume_scheduler.  For
\* every number of engines and clients, every sync_interval, and whatever requests,
\* START_DP_WAVE messages, aborts and pauses are under way; the operator waits for the
\* return of a resume before the next pause.
THEOREM SameCollective == Spec => []CollectivesMatch
<1>1. WaveInv => CollectivesMatch
  <2> SUFFICES ASSUME WaveInv, NEW e \in Engines, NEW f \in Engines,
                      e_pc[e] \in {"forward", "sync", "barrier"},
                      e_pc[f] \in {"forward", "sync", "barrier"}
               PROVE  e_pc[e] = e_pc[f]
    BY DEF CollectivesMatch
  <2>1. e_pc[e] = "sync" <=> e_pc[f] = "sync"
    BY Zenon DEF WaveInv, StepInv
  <2>2. (e_pc[e] # "barrier" /\ e_pc[f] # "barrier") \/ Resume
    BY Zenon DEF WaveInv, PhaseInv, Normal, Pausing, Paused, NormalAt, PausingAt, PausedAt
  <2>3. Resume => e_pc[e] \in {"barrier", "poll"} /\ e_pc[f] \in {"barrier", "poll"}
    BY Zenon DEF Resume, ResumingAt, Stopped
  <2> QED BY <2>1, <2>2, <2>3
<1> QED BY <1>1, WaveInvariance, PTL

\* Once the engines have agreed to pause and an engine has reported it, the engine does
\* nothing before it is told to resume: no START_DP_WAVE and no request that was still
\* under way wakes it up (ignore_start_dp_wave, PauseState).
THEOREM StaysIdle == Spec => []PausedStaysIdle
<1>1. WaveInv => PausedStaysIdle
  <2> SUFFICES ASSUME WaveInv, NEW e \in Engines, e_ignore[e], ~e_callback[e]
               PROVE  Stopped(e)
    BY Zenon DEF PausedStaysIdle, Stopped
  <2>1. Paused \/ Resume
    BY Zenon DEF WaveInv, PhaseInv, Normal, Pausing, NormalAt, PausingAt
  <2> QED BY <2>1, Zenon DEF Paused, Resume, PausedAt, ResumingAt
<1> QED BY <1>1, WaveInvariance, PTL
=============================================================================
