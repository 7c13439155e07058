---------------------------- MODULE MessageQueue ----------------------------
(***************************************************************************)
(* The shared-memory message queue that carries RPCs to the worker         *)
(* processes: vllm/distributed/device_communicators/shm_broadcast.py.      *)
(*                                                                         *)
(* One writer and n_reader readers share max_chunks chunks.  Each chunk    *)
(* has a written flag and one read flag per reader and no lock.  Every     *)
(* load or store of a shared byte is a step of its own, and a chunk that   *)
(* is being filled holds Torn.  An object too large for a chunk is sent    *)
(* over a socket and its chunk only says so.  A reader without work spins, *)
(* then sleeps on a notification socket that keeps one ping (SpinCondition)*)
(*                                                                         *)
(* An object is its number; Big holds the numbers of the large ones.       *)
(***************************************************************************)
EXTENDS Integers, Sequences

CONSTANTS n_reader, max_chunks,
          Big,              \* the objects that do not fit a chunk
          MaxObjects,       \* bound: the writer stops after so many objects
          Stopping          \* the readers whose process may be told to stop

ASSUME QueueAssumption ==
    /\ n_reader \in Nat \ {0}
    /\ max_chunks \in Nat \ {0}
    /\ MaxObjects \in Nat

Readers == 1 .. n_reader
Chunks == 0 .. max_chunks - 1
Torn == -1
Overflow == -2

VARIABLES written,          \* written[c]: the written flag of chunk c
          read,             \* read[c][r]: the read flag of reader r
          data,             \* data[c]: what the bytes of the chunk hold
          sock,             \* sock[r]: large objects on their way to r
          note,             \* note[r]: a notification waits at r's socket
          cancel,           \* cancel[r]: a cancellation ping waits at r
          shutting_down,    \* shutting_down[r]: set by r's monitor thread
          w_pc, w_idx,      \* the writer: where it is, its current_idx,
          w_i, w_sum,       \*   its loop index, the flags it has summed
          r_pc, r_idx,      \* each reader: where it is, its current_idx,
          r_flag, r_val,    \*   the read flag it loaded, the bytes it read
          sent, taken,      \* history: objects published; objects marked
          got, ret          \*   read; objects returned; the last of them

shm_vars == <<written, read, data>>
socket_vars == <<sock, note, cancel, shutting_down>>
writer_vars == <<w_pc, w_idx, w_i, w_sum>>
reader_vars == <<r_pc, r_idx, r_flag, r_val>>
mq_vars == <<shm_vars, socket_vars, writer_vars, reader_vars, sent, taken, got, ret>>

MQInit ==
    /\ written = [c \in Chunks |-> 0]
    /\ read = [c \in Chunks |-> [r \in Readers |-> 0]]
    /\ data = [c \in Chunks |-> Torn]
    /\ sock = [r \in Readers |-> <<>>]
    /\ note = [r \in Readers |-> FALSE]
    /\ cancel = [r \in Readers |-> FALSE]
    /\ shutting_down = [r \in Readers |-> FALSE]
    /\ w_pc = "idle" /\ w_idx = 0 /\ w_i = 0 /\ w_sum = 0
    /\ r_pc = [r \in Readers |-> "idle"]
    /\ r_idx = [r \in Readers |-> 0]
    /\ r_flag = [r \in Readers |-> 0]
    /\ r_val = [r \in Readers |-> Torn]
    /\ sent = 0
    /\ taken = [r \in Readers |-> 0]
    /\ got = [r \in Readers |-> 0]
    /\ ret = [r \in Readers |-> -1]

-----------------------------------------------------------------------------
(* The writer: enqueue and acquire_write. *)

enqueue ==
    /\ w_pc = "idle" /\ sent < MaxObjects
    /\ w_pc' = "check" /\ w_i' = 0 /\ w_sum' = 0
    /\ UNCHANGED <<shm_vars, socket_vars, reader_vars, w_idx, sent, taken, got, ret>>

\* check(): sum(metadata_buffer[1:]), one byte at a time
check_sum ==
    /\ w_pc = "check" /\ w_i < n_reader
    /\ w_i' = w_i + 1
    /\ w_sum' = w_sum + read[w_idx][w_i + 1]
    /\ UNCHANGED <<shm_vars, socket_vars, reader_vars, w_pc, w_idx, sent, taken, got, ret>>

\* mutant: a chunk is reused once any reader has read it
check_written_any_reader ==
    /\ w_pc = "check" /\ w_i = n_reader
    /\ IF written[w_idx] = 1 /\ w_sum = 0
         THEN /\ w_i' = 0 /\ w_sum' = 0
              /\ UNCHANGED <<w_pc, written>>
         ELSE /\ written' = [written EXCEPT ![w_idx] = 0]
              /\ w_pc' = "fill"
              /\ UNCHANGED <<w_i, w_sum>>
    /\ UNCHANGED <<read, data, socket_vars, reader_vars, w_idx, sent, taken, got, ret>>

\* mutant: the written flag is not cleared before the chunk is filled
check_written_kept ==
    /\ w_pc = "check" /\ w_i = n_reader
    /\ IF written[w_idx] = 1 /\ w_sum # n_reader
         THEN w_i' = 0 /\ w_sum' = 0 /\ UNCHANGED w_pc
         ELSE w_pc' = "fill" /\ UNCHANGED <<w_i, w_sum>>
    /\ UNCHANGED <<shm_vars, socket_vars, reader_vars, w_idx, sent, taken, got, ret>>

\* check(): the written flag, which only the writer stores, so that clearing
\* it can be part of the step
check_written ==
    /\ w_pc = "check" /\ w_i = n_reader
    /\ IF written[w_idx] = 1 /\ w_sum # n_reader
         THEN /\ w_i' = 0 /\ w_sum' = 0
              /\ UNCHANGED <<w_pc, written>>
         ELSE /\ written' = [written EXCEPT ![w_idx] = 0]
              /\ w_pc' = "fill"
              /\ UNCHANGED <<w_i, w_sum>>
    /\ UNCHANGED <<read, data, socket_vars, reader_vars, w_idx, sent, taken, got, ret>>

fill ==
    /\ w_pc = "fill"
    /\ data' = [data EXCEPT ![w_idx] = Torn]
    /\ w_pc' = "filling"
    /\ UNCHANGED <<written, read, socket_vars, reader_vars, w_idx, w_i, w_sum,
                   sent, taken, got, ret>>

filled ==
    /\ w_pc = "filling"
    /\ data' = [data EXCEPT ![w_idx] = IF sent \in Big THEN Overflow ELSE sent]
    /\ w_pc' = "reset" /\ w_i' = 0
    /\ UNCHANGED <<written, read, socket_vars, reader_vars, w_idx, w_sum,
                   sent, taken, got, ret>>

\* mutant: the loop ends before the last reader's flag
reset_flag_not_last ==
    /\ w_pc = "reset" /\ w_i < n_reader
    /\ read' = [read EXCEPT ![w_idx][w_i + 1] = IF w_i + 1 < n_reader THEN 0 ELSE @]
    /\ w_i' = w_i + 1
    /\ UNCHANGED <<written, data, socket_vars, reader_vars, w_pc, w_idx, w_sum,
                   sent, taken, got, ret>>

reset_flag ==
    /\ w_pc = "reset" /\ w_i < n_reader
    /\ read' = [read EXCEPT ![w_idx][w_i + 1] = 0]
    /\ w_i' = w_i + 1
    /\ UNCHANGED <<written, data, socket_vars, reader_vars, w_pc, w_idx, w_sum,
                   sent, taken, got, ret>>

next_idx(i) == (i + 1) % max_chunks

publish ==
    /\ w_pc = "reset" /\ w_i = n_reader
    /\ written' = [written EXCEPT ![w_idx] = 1]
    /\ w_idx' = next_idx(w_idx)
    /\ sent' = sent + 1
    /\ w_pc' = IF sent \in Big THEN "send" ELSE "notify"
    /\ UNCHANGED <<read, data, socket_vars, reader_vars, w_i, w_sum, taken, got, ret>>

send ==
    /\ w_pc = "send"
    /\ sock' = [r \in Readers |-> Append(sock[r], sent - 1)]
    /\ w_pc' = "notify"
    /\ UNCHANGED <<shm_vars, note, cancel, shutting_down, reader_vars,
                   w_idx, w_i, w_sum, sent, taken, got, ret>>

notify ==
    /\ w_pc = "notify"
    /\ note' = [r \in Readers |-> TRUE]
    /\ w_pc' = "idle"
    /\ UNCHANGED <<shm_vars, sock, cancel, shutting_down, reader_vars,
                   w_idx, w_i, w_sum, sent, taken, got, ret>>

-----------------------------------------------------------------------------
(* A reader: dequeue and acquire_read. *)

Goto(r, pc) == r_pc' = [r_pc EXCEPT ![r] = pc]

dequeue(r) ==
    /\ r_pc[r] = "idle"
    /\ Goto(r, "check")
    /\ UNCHANGED <<shm_vars, socket_vars, writer_vars, r_idx, r_flag, r_val,
                   sent, taken, got, ret>>

check_read(r) ==
    /\ r_pc[r] = "check"
    /\ r_flag' = [r_flag EXCEPT ![r] = read[r_idx[r]][r]]
    /\ Goto(r, "check_written")
    /\ UNCHANGED <<shm_vars, socket_vars, writer_vars, r_idx, r_val,
                   sent, taken, got, ret>>

\* a reader that finds nothing calls SpinCondition.wait, which returns at once
\* or, if the last read is long ago, sleeps
check_ready(r) ==
    /\ r_pc[r] = "check_written"
    /\ IF written[r_idx[r]] = 0 \/ r_flag[r] = 1
         THEN \E pc \in {"woken", "poll"} : Goto(r, pc)
         ELSE Goto(r, "copy")
    /\ UNCHANGED <<shm_vars, socket_vars, writer_vars, r_idx, r_flag, r_val,
                   sent, taken, got, ret>>

\* mutant: the poller does not watch the cancellation socket
poll_notify_only(r) ==
    /\ r_pc[r] = "poll" /\ note[r]
    /\ note' = [note EXCEPT ![r] = FALSE]
    /\ Goto(r, "woken")
    /\ UNCHANGED <<shm_vars, sock, cancel, shutting_down, writer_vars,
                   r_idx, r_flag, r_val, sent, taken, got, ret>>

poll(r) ==
    /\ r_pc[r] = "poll" /\ (note[r] \/ cancel[r])
    /\ note' = [note EXCEPT ![r] = @ /\ cancel[r]]
    /\ Goto(r, "woken")
    /\ UNCHANGED <<shm_vars, sock, cancel, shutting_down, writer_vars,
                   r_idx, r_flag, r_val, sent, taken, got, ret>>

woken(r) ==
    /\ r_pc[r] = "woken"
    /\ Goto(r, IF shutting_down[r] THEN "cancelled" ELSE "check")
    /\ UNCHANGED <<shm_vars, socket_vars, writer_vars, r_idx, r_flag, r_val,
                   sent, taken, got, ret>>

copy(r) ==
    /\ r_pc[r] = "copy"
    /\ r_val' = [r_val EXCEPT ![r] = data[r_idx[r]]]
    /\ Goto(r, "mark")
    /\ UNCHANGED <<shm_vars, socket_vars, writer_vars, r_idx, r_flag,
                   sent, taken, got, ret>>

Return(r, v) ==
    /\ got' = [got EXCEPT ![r] = @ + 1]
    /\ ret' = [ret EXCEPT ![r] = v]
    /\ Goto(r, "idle")

\* set the read flag; the object is returned unless it comes by the socket
mark(r) ==
    /\ r_pc[r] = "mark"
    /\ read' = [read EXCEPT ![r_idx[r]][r] = 1]
    /\ r_idx' = [r_idx EXCEPT ![r] = next_idx(@)]
    /\ taken' = [taken EXCEPT ![r] = @ + 1]
    /\ IF r_val[r] = Overflow
         THEN Goto(r, "recv") /\ UNCHANGED <<got, ret>>
         ELSE Return(r, r_val[r])
    /\ UNCHANGED <<written, data, socket_vars, writer_vars, r_flag, r_val, sent>>

recv(r) ==
    /\ r_pc[r] = "recv" /\ sock[r] # <<>>
    /\ sock' = [sock EXCEPT ![r] = Tail(@)]
    /\ Return(r, Head(sock[r]))
    /\ UNCHANGED <<shm_vars, note, cancel, shutting_down, writer_vars,
                   r_idx, r_flag, r_val, sent, taken>>

-----------------------------------------------------------------------------
(* MessageQueue.shutdown, called by the monitor thread of r's process: set  *)
(* the flag, then wake a sleeping reader.                                   *)

shutdown(r) ==
    /\ r \in Stopping /\ ~shutting_down[r]
    /\ shutting_down' = [shutting_down EXCEPT ![r] = TRUE]
    /\ UNCHANGED <<shm_vars, sock, note, cancel, writer_vars, reader_vars,
                   sent, taken, got, ret>>

cancel_wait(r) ==
    /\ shutting_down[r] /\ ~cancel[r]
    /\ cancel' = [cancel EXCEPT ![r] = TRUE]
    /\ UNCHANGED <<shm_vars, sock, note, shutting_down, writer_vars, reader_vars,
                   sent, taken, got, ret>>

-----------------------------------------------------------------------------
\* the steps inside one enqueue, and inside one dequeue
InEnqueue == \/ check_sum \/ check_written \/ fill \/ filled \/ reset_flag
             \/ publish \/ send \/ notify
InDequeue(r) == \/ check_read(r) \/ check_ready(r) \/ poll(r) \/ woken(r)
                \/ copy(r) \/ mark(r) \/ recv(r)

MQNext == \/ enqueue \/ InEnqueue
          \/ \E r \in Readers : \/ dequeue(r) \/ InDequeue(r)
                                \/ shutdown(r) \/ cancel_wait(r)

MQSpec == MQInit /\ [][MQNext]_mq_vars

\* The writer, each reader and each monitor thread keep running, and a reader
\* always comes back for the next object; the writer need not enqueue, and
\* nobody need shut down.
MQFairSpec ==
    /\ MQSpec
    /\ WF_mq_vars(InEnqueue)
    /\ \A r \in Readers : /\ WF_mq_vars(dequeue(r) \/ InDequeue(r))
                          /\ WF_mq_vars(cancel_wait(r))

-----------------------------------------------------------------------------
(* Properties. *)

Flag == {0, 1}

(* Every variable keeps its type; in particular the indices of the writer   *)
(* and of the readers stay within the ring (current_idx).                   *)
MQTypeOK ==
    /\ written \in [Chunks -> Flag]
    /\ read \in [Chunks -> [Readers -> Flag]]
    /\ data \in [Chunks -> Int]
    /\ sock \in [Readers -> Seq(Int)]
    /\ note \in [Readers -> BOOLEAN] /\ cancel \in [Readers -> BOOLEAN]
    /\ shutting_down \in [Readers -> BOOLEAN]
    /\ w_pc \in {"idle", "check", "fill", "filling", "reset", "send", "notify"}
    /\ w_idx \in Chunks /\ w_i \in 0 .. n_reader /\ w_sum \in Int
    /\ r_pc \in [Readers -> {"idle", "check", "check_written", "poll", "woken",
                             "copy", "mark", "recv", "cancelled"}]
    /\ r_idx \in [Readers -> Chunks] /\ r_flag \in [Readers -> Flag]
    /\ r_val \in [Readers -> Int]
    /\ sent \in Nat /\ taken \in [Readers -> Nat]
    /\ got \in [Readers -> Nat] /\ ret \in [Readers -> Int]

(* Every dequeue returns the next object in order: none is lost, repeated or *)
(* torn, although the flags are read and written without a lock and large    *)
(* objects take another way (dequeue).                                       *)
InOrder == \A r \in Readers : ret[r] = got[r] - 1

(* The writer fills a chunk only while no reader copies from it: the check   *)
(* of acquire_write and the one of acquire_read exclude each other.          *)
ChunkExclusive ==
    w_pc \in {"fill", "filling", "reset"} =>
        \A r \in Readers : r_pc[r] \in {"copy", "mark"} => r_idx[r] # w_idx

(* A reader catches up with the writer, however long the reader has slept on  *)
(* its notification socket: the ping, of which at most one is kept, is sent *)
(* after the written flag and read before the next check.                   *)
EveryObjectArrives ==
    \A r \in Readers :
        got[r] < sent ~> (got[r] = sent \/ \E q \in Readers : shutting_down[q])

(* A reader whose queue is shut down leaves its dequeue, asleep or not.     *)
ShutdownWakes == \A r \in Readers : shutting_down[r] ~> r_pc[r] = "cancelled"

(* The queue implements the abstract broadcast queue. *)
BQ == INSTANCE BroadcastQueue WITH sent <- sent, got <- got, ret <- ret
Broadcast == BQ!Spec
=============================================================================
