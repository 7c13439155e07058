------------------------- MODULE MessageQueueProofs -------------------------
(***************************************************************************)
(* The shared-memory queue delivers every object once and in order, never  *)
(* lets the writer fill a chunk that is being read, and implements the     *)
(* abstract BroadcastQueue: for every number of readers, of chunks and of  *)
(* objects, and whichever objects are too large for a chunk.               *)
(*                                                                         *)
(* The module has three parts: the inductive invariant RingInv with the    *)
(* steps of the writer, the steps of the readers and of their monitor      *)
(* threads, and the theorems.                                              *)
(***************************************************************************)
EXTENDS MessageQueue, TLAPS

(* The chunk of the object enqueued d objects before the writer's next one. *)
Slot(w, d) == IF w >= d THEN w - d ELSE w - d + max_chunks

(* What a chunk holds of object k. *)
Obj(k) == IF k \in Big THEN Overflow ELSE k

Claiming == w_pc \in {"fill", "filling", "reset"}

(* How many of the last objects are intact: the chunk of the oldest one is  *)
(* given up when the writer claims it.                                      *)
Span == IF Claiming THEN max_chunks - 1 ELSE max_chunks

(* A reader's position: it is at most Span objects behind. *)
ReaderAt(r) ==
    /\ taken[r] <= sent
    /\ sent - taken[r] <= Span
    /\ r_idx[r] = Slot(w_idx, sent - taken[r])
    /\ r_pc[r] \in {"copy", "mark"} => taken[r] < sent
    /\ r_pc[r] = "mark" => r_val[r] = Obj(taken[r])

(* The chunk of the d-th last object, or a chunk not used yet. *)
ChunkIs(d) ==
    IF sent - d >= 0
      THEN /\ written[Slot(w_idx, d)] = 1
           /\ data[Slot(w_idx, d)] = Obj(sent - d)
           /\ \A r \in Readers :
                read[Slot(w_idx, d)][r] = (IF taken[r] > sent - d THEN 1 ELSE 0)
      ELSE /\ written[Slot(w_idx, d)] = 0
           /\ \A r \in Readers : read[Slot(w_idx, d)][r] = 0

ChunksOK == \A d \in 1 .. Span : ChunkIs(d)

WriterOK ==
    /\ w_pc = "check" => /\ w_sum <= w_i
                         /\ w_sum = w_i => \A j \in 1 .. w_i : read[w_idx][j] = 1
    /\ Claiming => written[w_idx] = 0
    /\ w_pc = "reset" => /\ data[w_idx] = Obj(sent)
                         /\ \A j \in 1 .. w_i : read[w_idx][j] = 0
    /\ w_pc = "send" => /\ sent >= 1 /\ sent - 1 \in Big
                        /\ \A r \in Readers : got[r] < sent

(* A reader that has loaded an unset read flag of the chunk the writer will *)
(* use next finds that chunk unwritten.                                     *)
LoadedOK ==
    \A r \in Readers :
        r_pc[r] = "check_written" /\ r_flag[r] = 0 /\ taken[r] = sent
            => written[w_idx] = 0

(* Objects whose socket message has been sent. *)
SockSent == IF w_pc = "send" THEN sent - 1 ELSE sent

(* The messages waiting at a reader's socket: the large objects it has not  *)
(* returned yet, oldest first.                                              *)
SockOK(r) ==
    /\ \A i \in 1 .. Len(sock[r]) :
         /\ sock[r][i] \in Big
         /\ got[r] <= sock[r][i] /\ sock[r][i] < SockSent
    /\ \A i, j \in 1 .. Len(sock[r]) : i < j => sock[r][i] < sock[r][j]
    /\ \A k \in Nat : k \in Big /\ got[r] <= k /\ k < SockSent
                        => \E i \in 1 .. Len(sock[r]) : sock[r][i] = k

Returned(r) ==
    /\ got[r] = IF r_pc[r] = "recv" THEN taken[r] - 1 ELSE taken[r]
    /\ r_pc[r] = "recv" => taken[r] - 1 \in Big
    /\ ret[r] = got[r] - 1

Core ==
    /\ \A r \in Readers : ReaderAt(r)
    /\ ChunksOK
    /\ WriterOK
    /\ LoadedOK
    /\ \A r \in Readers : SockOK(r)
    /\ \A r \in Readers : Returned(r)

RingInv == MQTypeOK /\ Core

-----------------------------------------------------------------------------
(* Facts about the ring's indices. *)

(* The index after i: (i + 1) % max_chunks wraps around at the last chunk. *)
LEMMA NextIdx ==
    ASSUME NEW i \in Chunks
    PROVE  /\ next_idx(i) = IF i + 1 = max_chunks THEN 0 ELSE i + 1
           /\ next_idx(i) \in Chunks
<1>1. max_chunks \in Nat \ {0} /\ i \in Nat /\ i < max_chunks
  BY QueueAssumption DEF Chunks
<1>2. CASE i + 1 = max_chunks
  <2>1. max_chunks % max_chunks = 0
    BY <1>1
  <2>2. QED
    BY <1>1, <1>2, <2>1 DEF next_idx, Chunks
<1>3. CASE i + 1 # max_chunks
  <2>1. i + 1 \in 0 .. max_chunks - 1
    BY <1>1, <1>3
  <2>2. (i + 1) % max_chunks = i + 1
    BY <1>1, <2>1
  <2>3. QED
    BY <1>1, <1>3, <2>2 DEF next_idx, Chunks
<1>4. QED
  BY <1>2, <1>3, Zenon

(* Slots are chunks, and the last max_chunks objects have different ones. *)
LEMMA SlotFacts ==
    ASSUME NEW w \in Chunks
    PROVE  /\ \A d \in 0 .. max_chunks : Slot(w, d) \in Chunks
           /\ Slot(w, 0) = w /\ Slot(w, max_chunks) = w
           /\ \A d \in 1 .. max_chunks - 1 : Slot(w, d) # w
           /\ \A d, e \in 1 .. max_chunks : d # e => Slot(w, d) # Slot(w, e)
BY QueueAssumption DEF Slot, Chunks

(* Advancing the writer's index keeps the slots of the objects, and a       *)
(* reader's next index is the slot of the next object.                      *)
LEMMA SlotStep ==
    ASSUME NEW w \in Chunks
    PROVE  /\ \A d \in 0 .. max_chunks - 1 : Slot(next_idx(w), d + 1) = Slot(w, d)
           /\ \A d \in 1 .. max_chunks : next_idx(Slot(w, d)) = Slot(w, d - 1)
<1>1. max_chunks \in Nat \ {0} /\ w \in Nat /\ w < max_chunks
  BY QueueAssumption DEF Chunks
<1>2. ASSUME NEW d \in 0 .. max_chunks - 1
      PROVE  Slot(next_idx(w), d + 1) = Slot(w, d)
  <2>1. next_idx(w) = IF w + 1 = max_chunks THEN 0 ELSE w + 1
    BY NextIdx, Zenon
  <2>2. QED
    BY <1>1, <2>1 DEF Slot
<1>3. ASSUME NEW d \in 1 .. max_chunks
      PROVE  next_idx(Slot(w, d)) = Slot(w, d - 1)
  <2>1. Slot(w, d) \in Chunks
    BY SlotFacts, <1>1
  <2>2. next_idx(Slot(w, d)) = IF Slot(w, d) + 1 = max_chunks THEN 0 ELSE Slot(w, d) + 1
    BY <2>1, NextIdx, Zenon
  <2>3. QED
    BY <1>1, <2>2 DEF Slot
<1>4. QED
  BY <1>2, <1>3, Zenon

-----------------------------------------------------------------------------
(* The inductive invariant. *)

(* It holds at first: no chunk is written and nobody has moved. *)
LEMMA RingInit == MQInit => RingInv
<1> SUFFICES ASSUME MQInit PROVE RingInv
  BY Zenon
<1> USE DEF MQInit
<1>1. MQTypeOK
  BY QueueAssumption DEF MQTypeOK, Chunks, Readers, Flag, Torn
<1>2. \A d \in 0 .. max_chunks : Slot(0, d) \in Chunks
  <2>1. 0 \in Chunks
    BY QueueAssumption DEF Chunks
  <2>2. QED
    BY <2>1, SlotFacts, Zenon
<1>3. ~Claiming /\ Span = max_chunks
  BY Zenon DEF Claiming, Span
<1>4. ASSUME NEW r \in Readers PROVE ReaderAt(r)
  BY <1>3, QueueAssumption DEF ReaderAt, Slot
<1>5. ChunksOK
  BY <1>2, <1>3, QueueAssumption DEF ChunksOK, ChunkIs
<1>6. WriterOK /\ LoadedOK
  BY <1>3, QueueAssumption, Zenon DEF WriterOK, LoadedOK, Chunks
<1>7. ASSUME NEW r \in Readers PROVE SockOK(r) /\ Returned(r)
  BY QueueAssumption DEF SockOK, SockSent, Returned
<1>8. QED
  BY <1>1, <1>4, <1>5, <1>6, <1>7, Zenon DEF RingInv, Core

(* Every step keeps the types. *)
LEMMA RingTypes ==
    ASSUME RingInv, MQNext
    PROVE  MQTypeOK'
<1> USE DEF MQTypeOK, Flag, shm_vars, socket_vars, writer_vars, reader_vars
<1>0. MQTypeOK /\ n_reader \in Nat \ {0} /\ max_chunks \in Nat \ {0}
  BY QueueAssumption, Zenon DEF RingInv
<1>1. CASE enqueue
  BY <1>0, <1>1 DEF enqueue
<1>2. CASE check_sum
  <2>1. w_i + 1 \in Readers
    BY <1>0, <1>2 DEF check_sum, Readers
  <2>2. read[w_idx][w_i + 1] \in {0, 1}
    BY <1>0, <2>1, Zenon
  <2>3. w_sum' \in Int /\ w_i' \in 0 .. n_reader
    BY <1>0, <1>2, <2>2 DEF check_sum
  <2>4. QED
    BY <1>0, <1>2, <2>3, Zenon DEF check_sum
<1>3. CASE check_written
  <2>1. CASE written[w_idx] = 1 /\ w_sum # n_reader
    BY <1>0, <1>3, <2>1 DEF check_written
  <2>2. CASE ~(written[w_idx] = 1 /\ w_sum # n_reader)
    BY <1>0, <1>3, <2>2, Zenon DEF check_written
  <2>3. QED
    BY <2>1, <2>2, Zenon
<1>4. CASE fill
  BY <1>0, <1>4 DEF fill, Torn, Overflow
<1>5. CASE filled
  BY <1>0, <1>5 DEF filled, Torn, Overflow
<1>6. CASE reset_flag
  <2>1. w_i' \in 0 .. n_reader
    BY <1>0, <1>6 DEF reset_flag
  <2>2. read' \in [Chunks -> [Readers -> {0, 1}]]
    BY <1>0, <1>6, Zenon DEF reset_flag
  <2>3. QED
    BY <1>0, <1>6, <2>1, <2>2, Zenon DEF reset_flag
<1>7. CASE publish
  BY <1>0, <1>7, NextIdx DEF publish
<1>8. CASE send
  BY <1>0, <1>8 DEF send
<1>9. CASE notify
  BY <1>0, <1>9, Zenon DEF notify
<1>10. ASSUME NEW r \in Readers, dequeue(r) PROVE MQTypeOK'
  BY <1>0, <1>10, Zenon DEF dequeue, Goto
<1>11. ASSUME NEW r \in Readers, check_read(r) PROVE MQTypeOK'
  BY <1>0, <1>11 DEF check_read, Goto
<1>12. ASSUME NEW r \in Readers, check_ready(r) PROVE MQTypeOK'
  BY <1>0, <1>12, Zenon DEF check_ready, Goto
<1>13. ASSUME NEW r \in Readers, poll(r) PROVE MQTypeOK'
  BY <1>0, <1>13, Zenon DEF poll, Goto
<1>14. ASSUME NEW r \in Readers, woken(r) PROVE MQTypeOK'
  BY <1>0, <1>14, Zenon DEF woken, Goto
<1>15. ASSUME NEW r \in Readers, copy(r) PROVE MQTypeOK'
  BY <1>0, <1>15, Zenon DEF copy, Goto
<1>16. ASSUME NEW r \in Readers, mark(r) PROVE MQTypeOK'
  <2>1. r_idx' \in [Readers -> Chunks]
    BY <1>0, <1>16, NextIdx, Zenon DEF mark
  <2>2. read' \in [Chunks -> [Readers -> {0, 1}]]
    BY <1>0, <1>16, Zenon DEF mark
  <2>3. taken' \in [Readers -> Nat]
    BY <1>0, <1>16 DEF mark
  <2>4. /\ got' \in [Readers -> Nat] /\ ret' \in [Readers -> Int]
        /\ \E pc \in {"idle", "recv"} : r_pc' = [r_pc EXCEPT ![r] = pc]
    <3>1. r_val[r] \in Int
      BY <1>0, Zenon
    <3>2. CASE r_val[r] = Overflow
      BY <1>0, <1>16, <3>2, Zenon DEF mark, Goto
    <3>3. CASE r_val[r] # Overflow
      <4>1. Return(r, r_val[r])
        BY <1>16, <3>3, Zenon DEF mark
      <4>2. got' \in [Readers -> Nat] /\ ret' \in [Readers -> Int]
        BY <1>0, <3>1, <4>1 DEF Return
      <4>3. QED
        BY <4>1, <4>2, Zenon DEF Return, Goto
    <3>4. QED
      BY <3>2, <3>3, Zenon
  <2>5. UNCHANGED <<written, data, sock, note, cancel, shutting_down, w_pc, w_idx, w_i,
                    w_sum, r_flag, r_val, sent>>
    BY <1>16, Zenon DEF mark
  <2>6. QED
    BY <1>0, <2>1, <2>2, <2>3, <2>4, <2>5, SMTT(30)
<1>17. ASSUME NEW r \in Readers, recv(r) PROVE MQTypeOK'
  <2>1. sock[r] \in Seq(Int) /\ sock[r] # <<>>
    BY <1>0, <1>17, Zenon DEF recv
  <2>2. Head(sock[r]) \in Int /\ Tail(sock[r]) \in Seq(Int)
    BY <2>1
  <2>3. sock' \in [Readers -> Seq(Int)]
    BY <1>0, <1>17, <2>2, Zenon DEF recv
  <2>4. got' \in [Readers -> Nat] /\ ret' \in [Readers -> Int]
    BY <1>0, <1>17, <2>2, SMTT(30) DEF recv, Return
  <2>5. QED
    BY <1>0, <1>17, <2>3, <2>4, Zenon DEF recv, Goto, Return
<1>18. ASSUME NEW r \in Readers, shutdown(r) PROVE MQTypeOK'
  BY <1>0, <1>18, Zenon DEF shutdown
<1>19. ASSUME NEW r \in Readers, cancel_wait(r) PROVE MQTypeOK'
  BY <1>0, <1>19, Zenon DEF cancel_wait
<1>20. QED
  BY <1>1, <1>2, <1>3, <1>4, <1>5, <1>6, <1>7, <1>8, <1>9, <1>10, <1>11, <1>12, <1>13, <1>14,
     <1>15, <1>16, <1>17, <1>18, <1>19, Zenon DEF MQNext, InEnqueue, InDequeue

(* Entering acquire_write moves nothing. *)
LEMMA EnqueueKeeps ==
    ASSUME RingInv, MQTypeOK', enqueue
    PROVE  Core'
<1>0. /\ MQTypeOK /\ Core
      /\ n_reader \in Nat \ {0} /\ max_chunks \in Nat \ {0}
  BY QueueAssumption, Zenon DEF RingInv
<1>1. UNCHANGED <<Claiming, Span, SockSent>>
  BY DEF enqueue, Claiming, Span, SockSent
<1>2. UNCHANGED <<written, read, data, sock, reader_vars, w_idx, sent, taken, got, ret>>
  BY Zenon DEF enqueue, shm_vars, socket_vars
<1>3. \A r \in Readers : ReaderAt(r)'
  BY <1>0, <1>1, <1>2, Zenon DEF Core, ReaderAt, reader_vars
<1>4. ChunksOK'
  BY <1>0, <1>1, <1>2, Zenon DEF Core, ChunksOK, ChunkIs
<1>5. WriterOK'
  BY <1>0, <1>1, <1>2 DEF Core, WriterOK, enqueue, Claiming
<1>6. LoadedOK'
  BY <1>0, <1>2, Zenon DEF Core, LoadedOK, reader_vars
<1>7. \A r \in Readers : SockOK(r)'
  BY <1>0, <1>1, <1>2, Zenon DEF Core, SockOK
<1>8. \A r \in Readers : Returned(r)'
  BY <1>0, <1>2, Zenon DEF Core, Returned, reader_vars
<1>9. QED
  BY <1>3, <1>4, <1>5, <1>6, <1>7, <1>8, Zenon DEF Core

(* A notification moves no object. *)
LEMMA NotifyKeeps ==
    ASSUME RingInv, MQTypeOK', notify
    PROVE  Core'
<1>0. /\ MQTypeOK /\ Core
      /\ n_reader \in Nat \ {0} /\ max_chunks \in Nat \ {0}
  BY QueueAssumption, Zenon DEF RingInv
<1>1. UNCHANGED <<Claiming, Span, SockSent>>
  BY DEF notify, Claiming, Span, SockSent
<1>2. UNCHANGED <<written, read, data, sock, reader_vars, w_idx, sent, taken, got, ret>>
  BY Zenon DEF notify, shm_vars, socket_vars
<1>3. \A r \in Readers : ReaderAt(r)'
  BY <1>0, <1>1, <1>2, Zenon DEF Core, ReaderAt, reader_vars
<1>4. ChunksOK'
  BY <1>0, <1>1, <1>2, Zenon DEF Core, ChunksOK, ChunkIs
<1>5. WriterOK'
  BY <1>0, <1>1, <1>2, Zenon DEF Core, WriterOK, notify, Claiming
<1>6. LoadedOK'
  BY <1>0, <1>2, Zenon DEF Core, LoadedOK, reader_vars
<1>7. \A r \in Readers : SockOK(r)'
  BY <1>0, <1>1, <1>2, Zenon DEF Core, SockOK
<1>8. \A r \in Readers : Returned(r)'
  BY <1>0, <1>2, Zenon DEF Core, Returned, reader_vars
<1>9. QED
  BY <1>3, <1>4, <1>5, <1>6, <1>7, <1>8, Zenon DEF Core

(* The sum counts read flags, which stay set while the writer checks. *)
LEMMA CheckSumKeeps ==
    ASSUME RingInv, MQTypeOK', check_sum
    PROVE  Core'
<1>0. /\ MQTypeOK /\ Core
      /\ n_reader \in Nat \ {0} /\ max_chunks \in Nat \ {0}
  BY QueueAssumption, Zenon DEF RingInv
<1>1. UNCHANGED <<Claiming, Span, SockSent>>
  BY Zenon DEF check_sum, Claiming, Span, SockSent
<1>2. UNCHANGED <<written, read, data, sock, reader_vars, w_pc, w_idx, sent, taken, got, ret>>
  BY Zenon DEF check_sum, shm_vars, socket_vars
<1>3. \A r \in Readers : ReaderAt(r)'
  BY <1>0, <1>1, <1>2, Zenon DEF Core, ReaderAt, reader_vars
<1>4. ChunksOK'
  BY <1>0, <1>1, <1>2, Zenon DEF Core, ChunksOK, ChunkIs
<1>5. WriterOK'
  <2>1. /\ w_i' = w_i + 1 /\ w_sum' = w_sum + read[w_idx][w_i + 1] /\ w_pc = "check"
        /\ w_i + 1 \in Readers
    BY <1>0 DEF check_sum, MQTypeOK, Readers
  <2>2. /\ read[w_idx][w_i + 1] \in {0, 1} /\ w_i \in Nat /\ w_sum \in Int
        /\ w_sum <= w_i
        /\ w_sum = w_i => \A j \in 1 .. w_i : read[w_idx][j] = 1
    BY <1>0, <2>1 DEF MQTypeOK, Flag, Core, WriterOK
  <2>3. w_sum' <= w_i'
    BY <2>1, <2>2
  <2>4. ASSUME w_sum' = w_i', NEW j \in 1 .. w_i' PROVE read[w_idx][j] = 1
    <3>1. w_sum = w_i /\ read[w_idx][w_i + 1] = 1
      BY <2>1, <2>2, <2>4
    <3>2. j \in 1 .. w_i \/ j = w_i + 1
      BY <2>1, <2>2
    <3>3. QED
      BY <2>2, <3>1, <3>2, Zenon
  <2>5. QED
    BY <1>1, <1>2, <2>1, <2>3, <2>4, Zenon DEF WriterOK, Claiming
<1>6. LoadedOK'
  BY <1>0, <1>2, Zenon DEF Core, LoadedOK, reader_vars
<1>7. \A r \in Readers : SockOK(r)'
  BY <1>0, <1>1, <1>2, Zenon DEF Core, SockOK
<1>8. \A r \in Readers : Returned(r)'
  BY <1>0, <1>2, Zenon DEF Core, Returned, reader_vars
<1>9. QED
  BY <1>3, <1>4, <1>5, <1>6, <1>7, <1>8, Zenon DEF Core

(* A chunk is claimed only if it is unused or every reader has read it. *)
LEMMA CheckWrittenKeeps ==
    ASSUME RingInv, MQTypeOK', check_written
    PROVE  Core'
<1>0. /\ MQTypeOK /\ Core
      /\ n_reader \in Nat \ {0} /\ max_chunks \in Nat \ {0}
  BY QueueAssumption, Zenon DEF RingInv
<1>1. /\ UNCHANGED <<read, data, sock, reader_vars, w_idx, sent, taken, got, ret>>
      /\ w_pc = "check" /\ w_i = n_reader /\ Span = max_chunks /\ SockSent = sent
  BY Zenon DEF check_written, socket_vars, Span, Claiming, SockSent
<1>2. CASE written[w_idx] = 1 /\ w_sum # n_reader
  <2>1. UNCHANGED <<written, w_pc>> /\ w_i' = 0 /\ w_sum' = 0
    BY <1>2, Zenon DEF check_written
  <2>2. UNCHANGED <<Claiming, Span, SockSent>>
    BY <1>1, <2>1, Zenon DEF Claiming, Span, SockSent
  <2>3. \A r \in Readers : ReaderAt(r)'
    BY <1>0, <1>1, <2>2, Zenon DEF Core, ReaderAt, reader_vars
  <2>4. ChunksOK'
    BY <1>0, <1>1, <2>1, <2>2, Zenon DEF Core, ChunksOK, ChunkIs
  <2>5. WriterOK'
    BY <1>0, <1>1, <2>1, <2>2 DEF Core, WriterOK, Claiming
  <2>6. LoadedOK'
    BY <1>0, <1>1, <2>1, Zenon DEF Core, LoadedOK, reader_vars
  <2>7. \A r \in Readers : SockOK(r)'
    BY <1>0, <1>1, <2>2, Zenon DEF Core, SockOK
  <2>8. \A r \in Readers : Returned(r)'
    BY <1>0, <1>1, Zenon DEF Core, Returned, reader_vars
  <2>9. QED
    BY <2>3, <2>4, <2>5, <2>6, <2>7, <2>8, Zenon DEF Core
<1>3. CASE ~(written[w_idx] = 1 /\ w_sum # n_reader)
  <2>1. /\ written' = [written EXCEPT ![w_idx] = 0] /\ w_pc' = "fill"
        /\ Span' = max_chunks - 1 /\ SockSent' = sent
    BY <1>1, <1>3, Zenon DEF check_written, Span, Claiming, SockSent
  <2>2. w_idx \in Chunks /\ sent \in Nat
    BY <1>0, Zenon DEF MQTypeOK
  <2>3. ASSUME NEW r \in Readers PROVE sent - taken[r] <= max_chunks - 1
    <3>1. taken[r] \in Nat
      BY <1>0, Zenon DEF MQTypeOK
    <3>2. CASE sent < max_chunks
      BY <1>0, <2>2, <3>1, <3>2
    <3>3. CASE sent >= max_chunks
      <4>1. ChunkIs(max_chunks)
        BY <1>0, <1>1 DEF Core, ChunksOK
      <4>2. Slot(w_idx, max_chunks) = w_idx
        BY <2>2, SlotFacts, Zenon
      <4>3. sent - max_chunks >= 0
        BY <1>0, <2>2, <3>3
      <4>4. /\ written[w_idx] = 1
            /\ read[w_idx][r] = (IF taken[r] > sent - max_chunks THEN 1 ELSE 0)
        BY <4>1, <4>2, <4>3, Zenon DEF ChunkIs
      <4>5. w_sum = n_reader
        BY <1>3, <4>4, Zenon
      <4>6. read[w_idx][r] = 1
        BY <1>0, <1>1, <4>5, Zenon DEF Core, WriterOK, Readers
      <4>7. taken[r] > sent - max_chunks
        BY <4>4, <4>6
      <4>8. QED
        BY <1>0, <2>2, <3>1, <4>7
    <3>4. QED
      BY <1>0, <2>2, <3>2, <3>3
  <2>4. \A r \in Readers : ReaderAt(r)'
    BY <1>0, <1>1, <2>1, <2>3, Zenon DEF Core, ReaderAt, reader_vars
  <2>5. ChunksOK'
    <3>1. ASSUME NEW d \in 1 .. max_chunks - 1 PROVE ChunkIs(d)'
      <4>1. Slot(w_idx, d) # w_idx /\ Slot(w_idx, d) \in Chunks
        BY <1>0, <2>2, SlotFacts
      <4>2. written'[Slot(w_idx, d)] = written[Slot(w_idx, d)]
        BY <1>0, <2>1, <4>1, Zenon DEF MQTypeOK
      <4>3. ChunkIs(d)
        BY <1>0, <1>1 DEF Core, ChunksOK
      <4>4. QED
        BY <1>1, <4>2, <4>3, Zenon DEF ChunkIs
    <3>2. QED
      BY <2>1, <3>1, Zenon DEF ChunksOK
  <2>6. written'[w_idx] = 0
    BY <1>0, <2>1, <2>2, Zenon DEF MQTypeOK
  <2>7. WriterOK'
    BY <1>1, <2>1, <2>6, Zenon DEF WriterOK, Claiming
  <2>8. LoadedOK'
    BY <1>1, <2>6, Zenon DEF LoadedOK
  <2>9. \A r \in Readers : SockOK(r)'
    BY <1>0, <1>1, <2>1, Zenon DEF Core, SockOK
  <2>10. \A r \in Readers : Returned(r)'
    BY <1>0, <1>1, Zenon DEF Core, Returned, reader_vars
  <2>11. QED
    BY <2>4, <2>5, <2>7, <2>8, <2>9, <2>10, Zenon DEF Core
<1>4. QED
  BY <1>2, <1>3, Zenon

(* Filling touches the claimed chunk only. *)
LEMMA FillKeeps ==
    ASSUME RingInv, MQTypeOK', fill
    PROVE  Core'
<1>0. /\ MQTypeOK /\ Core
      /\ n_reader \in Nat \ {0} /\ max_chunks \in Nat \ {0}
  BY QueueAssumption, Zenon DEF RingInv
<1>1. w_idx \in Chunks
  BY <1>0, Zenon DEF MQTypeOK
<1>2. /\ UNCHANGED <<written, read, sock, reader_vars, w_idx, sent, taken, got, ret>>
      /\ UNCHANGED <<Claiming, Span, SockSent>>
      /\ Claiming /\ Span = max_chunks - 1 /\ SockSent = sent
      /\ data' = [data EXCEPT ![w_idx] = Torn]
  BY DEF fill, Obj, socket_vars, Span, Claiming, SockSent
<1>3. \A r \in Readers : ReaderAt(r)'
  BY <1>0, <1>2, Zenon DEF Core, ReaderAt, reader_vars
<1>4. ChunksOK'
  <2>1. ASSUME NEW d \in 1 .. max_chunks - 1 PROVE ChunkIs(d)'
    <3>1. Slot(w_idx, d) # w_idx /\ Slot(w_idx, d) \in Chunks
      BY <1>0, <1>1, SlotFacts
    <3>2. data'[Slot(w_idx, d)] = data[Slot(w_idx, d)]
      BY <1>0, <1>2, <3>1, Zenon DEF MQTypeOK
    <3>3. ChunkIs(d)
      BY <1>0, <1>2, Zenon DEF Core, ChunksOK
    <3>4. QED
      BY <1>2, <3>2, <3>3, Zenon DEF ChunkIs
  <2>2. QED
    BY <1>2, <2>1, Zenon DEF ChunksOK
<1>5. WriterOK'
  BY <1>0, <1>2, Zenon DEF Core, WriterOK, fill, Claiming
<1>6. LoadedOK'
  BY <1>0, <1>2, Zenon DEF Core, LoadedOK, reader_vars
<1>7. \A r \in Readers : SockOK(r)'
  BY <1>0, <1>2, Zenon DEF Core, SockOK
<1>8. \A r \in Readers : Returned(r)'
  BY <1>0, <1>2, Zenon DEF Core, Returned, reader_vars
<1>9. QED
  BY <1>3, <1>4, <1>5, <1>6, <1>7, <1>8, Zenon DEF Core

(* The claimed chunk comes to hold the next object. *)
LEMMA FilledKeeps ==
    ASSUME RingInv, MQTypeOK', filled
    PROVE  Core'
<1>0. /\ MQTypeOK /\ Core
      /\ n_reader \in Nat \ {0} /\ max_chunks \in Nat \ {0}
  BY QueueAssumption, Zenon DEF RingInv
<1>1. w_idx \in Chunks
  BY <1>0, Zenon DEF MQTypeOK
<1>2. /\ UNCHANGED <<written, read, sock, reader_vars, w_idx, sent, taken, got, ret>>
      /\ UNCHANGED <<Claiming, Span, SockSent>>
      /\ Claiming /\ Span = max_chunks - 1 /\ SockSent = sent
      /\ data' = [data EXCEPT ![w_idx] = Obj(sent)]
  BY DEF filled, Obj, socket_vars, Span, Claiming, SockSent
<1>3. \A r \in Readers : ReaderAt(r)'
  BY <1>0, <1>2, Zenon DEF Core, ReaderAt, reader_vars
<1>4. ChunksOK'
  <2>1. ASSUME NEW d \in 1 .. max_chunks - 1 PROVE ChunkIs(d)'
    <3>1. Slot(w_idx, d) # w_idx /\ Slot(w_idx, d) \in Chunks
      BY <1>0, <1>1, SlotFacts
    <3>2. data'[Slot(w_idx, d)] = data[Slot(w_idx, d)]
      BY <1>0, <1>2, <3>1, Zenon DEF MQTypeOK
    <3>3. ChunkIs(d)
      BY <1>0, <1>2, Zenon DEF Core, ChunksOK
    <3>4. QED
      BY <1>2, <3>2, <3>3, Zenon DEF ChunkIs
  <2>2. QED
    BY <1>2, <2>1, Zenon DEF ChunksOK
<1>5. WriterOK'
  <2>1. data'[w_idx] = Obj(sent)
    BY <1>0, <1>1, <1>2, Zenon DEF MQTypeOK
  <2>2. w_pc' = "reset" /\ w_i' = 0
    BY Zenon DEF filled
  <2>3. QED
    BY <1>0, <1>2, <2>1, <2>2 DEF Core, WriterOK, Obj
<1>6. LoadedOK'
  BY <1>0, <1>2, Zenon DEF Core, LoadedOK, reader_vars
<1>7. \A r \in Readers : SockOK(r)'
  BY <1>0, <1>2, Zenon DEF Core, SockOK
<1>8. \A r \in Readers : Returned(r)'
  BY <1>0, <1>2, Zenon DEF Core, Returned, reader_vars
<1>9. QED
  BY <1>3, <1>4, <1>5, <1>6, <1>7, <1>8, Zenon DEF Core

(* Resetting a read flag touches the claimed chunk only. *)
LEMMA ResetFlagKeeps ==
    ASSUME RingInv, MQTypeOK', reset_flag
    PROVE  Core'
<1>0. /\ MQTypeOK /\ Core
      /\ n_reader \in Nat \ {0} /\ max_chunks \in Nat \ {0}
  BY QueueAssumption, Zenon DEF RingInv
<1>1. w_idx \in Chunks
  BY <1>0, Zenon DEF MQTypeOK
<1>2. /\ UNCHANGED <<written, data, sock, reader_vars, w_pc, w_idx, sent, taken, got, ret>>
      /\ UNCHANGED <<Claiming, Span, SockSent>>
      /\ w_pc = "reset" /\ Claiming /\ Span = max_chunks - 1 /\ SockSent = sent
      /\ read' = [read EXCEPT ![w_idx][w_i + 1] = 0] /\ w_i' = w_i + 1
      /\ w_i + 1 \in Readers
  <2>1. w_i \in Nat /\ w_i < n_reader
    BY <1>0 DEF reset_flag, MQTypeOK
  <2>2. w_i + 1 \in Readers
    BY <1>0, <2>1 DEF Readers
  <2>3. QED
    BY <2>2, Zenon DEF reset_flag, socket_vars, Span, Claiming, SockSent
<1>3. \A r \in Readers : ReaderAt(r)'
  BY <1>0, <1>2, Zenon DEF Core, ReaderAt, reader_vars
<1>4. ChunksOK'
  <2>1. ASSUME NEW d \in 1 .. max_chunks - 1 PROVE ChunkIs(d)'
    <3>1. Slot(w_idx, d) # w_idx /\ Slot(w_idx, d) \in Chunks
      BY <1>0, <1>1, SlotFacts
    <3>2. read'[Slot(w_idx, d)] = read[Slot(w_idx, d)]
      BY <1>0, <1>2, <3>1, Zenon DEF MQTypeOK
    <3>3. ChunkIs(d)
      BY <1>0, <1>2, Zenon DEF Core, ChunksOK
    <3>4. QED
      BY <1>2, <3>2, <3>3, Zenon DEF ChunkIs
  <2>2. QED
    BY <1>2, <2>1, Zenon DEF ChunksOK
<1>5. WriterOK'
  <2>1. ASSUME NEW j \in 1 .. w_i + 1 PROVE read'[w_idx][j] = 0
    <3>1. w_i \in Nat /\ w_i < n_reader /\ j \in Readers
      BY <1>0, <1>2 DEF MQTypeOK, Readers
    <3>2. read'[w_idx] = [read[w_idx] EXCEPT ![w_i + 1] = 0]
      BY <1>0, <1>1, <1>2, Zenon DEF MQTypeOK
    <3>3. read[w_idx] \in [Readers -> Flag]
      BY <1>0, <1>1, Zenon DEF MQTypeOK
    <3>4. CASE j = w_i + 1
      BY <3>1, <3>2, <3>3, <3>4, Zenon
    <3>5. CASE j # w_i + 1
      <4>1. j \in 1 .. w_i
        BY <3>1, <3>5
      <4>2. read[w_idx][j] = 0
        BY <1>0, <1>2, <4>1, Zenon DEF Core, WriterOK
      <4>3. QED
        BY <3>1, <3>2, <3>3, <3>5, <4>2, Zenon
    <3>6. QED
      BY <3>4, <3>5, Zenon
  <2>2. QED
    BY <1>0, <1>2, <2>1, Zenon DEF Core, WriterOK, Obj
<1>6. LoadedOK'
  BY <1>0, <1>2, Zenon DEF Core, LoadedOK, reader_vars
<1>7. \A r \in Readers : SockOK(r)'
  BY <1>0, <1>2, Zenon DEF Core, SockOK
<1>8. \A r \in Readers : Returned(r)'
  BY <1>0, <1>2, Zenon DEF Core, Returned, reader_vars
<1>9. QED
  BY <1>3, <1>4, <1>5, <1>6, <1>7, <1>8, Zenon DEF Core

(* Publishing turns the claimed chunk into the newest object. *)
LEMMA PublishKeeps ==
    ASSUME RingInv, MQTypeOK', publish
    PROVE  Core'
<1>0. /\ MQTypeOK /\ Core
      /\ n_reader \in Nat \ {0} /\ max_chunks \in Nat \ {0}
  BY QueueAssumption, Zenon DEF RingInv
<1>1. w_idx \in Chunks
  BY <1>0, Zenon DEF MQTypeOK
<1>2. /\ UNCHANGED <<read, data, sock, reader_vars, w_i, taken, got, ret>>
      /\ w_pc = "reset" /\ w_i = n_reader /\ Claiming /\ Span = max_chunks - 1
      /\ SockSent = sent /\ SockSent' = (IF sent \in Big THEN sent ELSE sent + 1)
      /\ written' = [written EXCEPT ![w_idx] = 1] /\ w_idx' = next_idx(w_idx)
      /\ sent' = sent + 1 /\ w_pc' = IF sent \in Big THEN "send" ELSE "notify"
      /\ ~Claiming' /\ Span' = max_chunks
  <2>1. w_pc' \in {"send", "notify"} /\ sent \in Nat
    BY <1>0, Zenon DEF publish, MQTypeOK
  <2>2. ~Claiming' /\ Span' = max_chunks
    BY <2>1, Zenon DEF Claiming, Span
  <2>3. QED
    BY <2>1, <2>2 DEF publish, socket_vars, Span, Claiming, SockSent
<1>3. sent \in Nat /\ \A r \in Readers : taken[r] \in Nat /\ got[r] \in Nat
  BY <1>0, Zenon DEF MQTypeOK
<1>4. ASSUME NEW r \in Readers PROVE ReaderAt(r)'
  <2>1. ReaderAt(r)
    BY <1>0, Zenon DEF Core
  <2>2. sent - taken[r] \in 0 .. max_chunks - 1
    BY <1>0, <1>2, <1>3, <2>1 DEF ReaderAt
  <2>3. Slot(next_idx(w_idx), (sent - taken[r]) + 1) = Slot(w_idx, sent - taken[r])
    BY <1>1, <2>2, SlotStep, Zenon
  <2>4. (sent - taken[r]) + 1 = (sent + 1) - taken[r]
    BY <1>3
  <2>5. r_idx'[r] = Slot(w_idx', sent' - taken'[r])
    BY <1>2, <2>1, <2>3, <2>4, Zenon DEF ReaderAt, reader_vars
  <2>6. taken'[r] <= sent' /\ sent' - taken'[r] <= Span' /\ taken'[r] < sent'
    BY <1>0, <1>2, <1>3, <2>2
  <2>7. QED
    BY <1>2, <2>1, <2>5, <2>6, Zenon DEF ReaderAt, reader_vars
<1>5. ChunksOK'
  <2>1. ASSUME NEW d \in 1 .. max_chunks PROVE ChunkIs(d)'
    <3>1. d - 1 \in 0 .. max_chunks - 1 /\ (d - 1) + 1 = d
      BY <1>0
    <3>2. Slot(w_idx', d) = Slot(w_idx, d - 1)
      BY <1>1, <1>2, <3>1, SlotStep, Zenon
    <3>3. sent' - d = sent - (d - 1)
      BY <1>2, <1>3, <3>1
    <3>4. CASE d = 1
      <4>1. Slot(w_idx', d) = w_idx /\ sent' - d = sent
        BY <1>1, <1>3, <3>2, <3>3, <3>4, SlotFacts
      <4>2. written'[w_idx] = 1
        BY <1>0, <1>1, <1>2, Zenon DEF MQTypeOK
      <4>3. data'[w_idx] = Obj(sent)
        BY <1>0, <1>2, Zenon DEF Core, WriterOK
      <4>4. \A r \in Readers : read'[w_idx][r] = 0
        BY <1>0, <1>2, Zenon DEF Core, WriterOK, Readers
      <4>5. \A r \in Readers : ~(taken'[r] > sent)
        <5>1. taken' = taken
          BY <1>2, Zenon
        <5>2. ASSUME NEW r \in Readers PROVE ~(taken[r] > sent)
          <6>1. taken[r] <= sent
            BY <1>0, Zenon DEF Core, ReaderAt
          <6>2. taken[r] \in Nat /\ sent \in Nat
            BY <1>3, Zenon
          <6>3. QED
            BY <6>1, <6>2
        <5>3. QED
          BY <5>1, <5>2, Zenon
      <4>6. sent >= 0
        BY <1>3
      <4>7. QED
        <5>1. ASSUME NEW r \in Readers
              PROVE  read'[w_idx][r] = IF taken'[r] > sent THEN 1 ELSE 0
          BY <4>4, <4>5, Zenon
        <5>2. sent' - d >= 0
          BY <4>1, <4>6, Zenon
        <5>3. QED
          BY <4>1, <4>2, <4>3, <5>1, <5>2, Zenon DEF ChunkIs, Obj
    <3>5. CASE d # 1
      <4>1. d - 1 \in 1 .. max_chunks - 1
        BY <1>0, <3>5
      <4>2. Slot(w_idx, d - 1) # w_idx /\ Slot(w_idx, d - 1) \in Chunks
        BY <1>0, <1>1, <3>1, <4>1, SlotFacts
      <4>3. written'[Slot(w_idx, d - 1)] = written[Slot(w_idx, d - 1)]
        BY <1>0, <1>2, <4>2, Zenon DEF MQTypeOK
      <4>4. ChunkIs(d - 1)
        BY <1>0, <1>2, <4>1, Zenon DEF Core, ChunksOK
      <4>5. QED
        BY <1>2, <3>2, <3>3, <4>3, <4>4, Zenon DEF ChunkIs
    <3>6. QED
      BY <3>4, <3>5, Zenon
  <2>2. QED
    BY <1>2, <2>1, Zenon DEF ChunksOK
<1>6. WriterOK'
  <2>1. \A r \in Readers : got'[r] < sent'
    BY <1>0, <1>2, <1>3 DEF Core, Returned, ReaderAt
  <2>2. sent' >= 1 /\ sent' - 1 = sent
    BY <1>2, <1>3
  <2>3. w_pc' = "send" => sent \in Big
    BY <1>2, Zenon
  <2>4. w_pc' \in {"send", "notify"}
    BY <1>2, Zenon
  <2>5. QED
    BY <1>2, <2>1, <2>2, <2>3, <2>4, Zenon DEF WriterOK
<1>7. LoadedOK'
  BY <1>0, <1>2, <1>3 DEF Core, LoadedOK, ReaderAt
<1>8. ASSUME NEW r \in Readers PROVE SockOK(r)'
  <2>1. SockOK(r) /\ sock' = sock /\ got' = got
    BY <1>0, <1>2, Zenon DEF Core
  <2>2. \A i \in 1 .. Len(sock[r]) : sock[r][i] \in Int
    <3>1. sock[r] \in Seq(Int)
      BY <1>0, Zenon DEF MQTypeOK
    <3>2. QED
      BY <3>1
  <2>3. \A k \in Nat : k \in Big /\ k < SockSent' => k < SockSent
    BY <1>2, <1>3
  <2>4. SockSent <= SockSent' /\ SockSent \in Int /\ SockSent' \in Int
    BY <1>2, <1>3
  <2>5. \A i \in 1 .. Len(sock[r]) : sock[r][i] < SockSent'
    BY <2>1, <2>2, <2>4 DEF SockOK
  <2>6. QED
    BY <2>1, <2>3, <2>5, Zenon DEF SockOK
<1>9. \A r \in Readers : Returned(r)'
  BY <1>0, <1>2, Zenon DEF Core, Returned, reader_vars
<1>10. QED
  BY <1>4, <1>5, <1>6, <1>7, <1>8, <1>9, Zenon DEF Core

(* The large object joins every socket behind the earlier ones. *)
LEMMA SendKeeps ==
    ASSUME RingInv, MQTypeOK', send
    PROVE  Core'
<1>0. /\ MQTypeOK /\ Core
      /\ n_reader \in Nat \ {0} /\ max_chunks \in Nat \ {0}
  BY QueueAssumption, Zenon DEF RingInv
<1>1. /\ UNCHANGED <<written, read, data, reader_vars, w_idx, sent, taken, got, ret>>
      /\ UNCHANGED <<Claiming, Span>>
      /\ w_pc = "send" /\ w_pc' = "notify" /\ SockSent = sent - 1 /\ SockSent' = sent
      /\ sock' = [r \in Readers |-> Append(sock[r], sent - 1)]
  BY DEF send, shm_vars, Span, Claiming, SockSent
<1>2. sent \in Nat /\ sent >= 1 /\ sent - 1 \in Big /\ \A r \in Readers : got[r] < sent
  BY <1>0, <1>1, Zenon DEF Core, WriterOK, MQTypeOK
<1>3. \A r \in Readers : ReaderAt(r)'
  BY <1>0, <1>1, Zenon DEF Core, ReaderAt, reader_vars
<1>4. ChunksOK'
  BY <1>0, <1>1, Zenon DEF Core, ChunksOK, ChunkIs
<1>5. WriterOK'
  BY <1>1, Zenon DEF WriterOK, Claiming
<1>6. LoadedOK'
  BY <1>0, <1>1, Zenon DEF Core, LoadedOK, reader_vars
<1>7. ASSUME NEW r \in Readers PROVE SockOK(r)'
  <2> DEFINE s == sock[r]
             n == Len(s)
             t == Append(s, sent - 1)
  <2>1. s \in Seq(Int) /\ n \in Nat /\ sock'[r] = t
    BY <1>0, <1>1 DEF MQTypeOK
  <2>2. /\ Len(t) = n + 1 /\ t[n + 1] = sent - 1
        /\ \A i \in 1 .. n : t[i] = s[i] /\ s[i] \in Int
    BY <1>2, <2>1
  <2>3. /\ \A i \in 1 .. n : s[i] \in Big /\ got[r] <= s[i] /\ s[i] < sent - 1
        /\ \A i, j \in 1 .. n : i < j => s[i] < s[j]
        /\ \A k \in Nat : k \in Big /\ got[r] <= k /\ k < sent - 1
                            => \E i \in 1 .. n : s[i] = k
    BY <1>0, <1>1, Zenon DEF Core, SockOK
  <2>4. got[r] \in Nat
    BY <1>0, Zenon DEF MQTypeOK
  <2> HIDE DEF t, n, s
  <2>5. ASSUME NEW i \in 1 .. n + 1
        PROVE  t[i] \in Big /\ got[r] <= t[i] /\ t[i] < sent
    <3>1. i \in 1 .. n \/ i = n + 1
      BY <2>1
    <3>2. CASE i \in 1 .. n
      <4>1. t[i] = s[i] /\ s[i] \in Int /\ s[i] \in Big /\ got[r] <= s[i] /\ s[i] < sent - 1
        BY <2>2, <2>3, <3>2, Zenon
      <4>2. QED
        BY <1>2, <4>1
    <3>3. CASE i = n + 1
      BY <1>2, <2>2, <2>4, <3>3
    <3>4. QED
      BY <3>1, <3>2, <3>3, Zenon
  <2>6. ASSUME NEW i \in 1 .. n + 1, NEW j \in 1 .. n + 1, i < j
        PROVE  t[i] < t[j]
    <3>1. i \in 1 .. n
      BY <2>1, <2>6
    <3>2. t[i] = s[i] /\ s[i] < sent - 1
      BY <2>2, <2>3, <3>1, Zenon
    <3>3. CASE j \in 1 .. n
      BY <2>2, <2>3, <2>6, <3>1, <3>3, Zenon
    <3>4. CASE j = n + 1
      BY <2>2, <3>2, <3>4, Zenon
    <3>5. QED
      BY <2>1, <3>3, <3>4
  <2>7. ASSUME NEW k \in Nat, k \in Big, got[r] <= k, k < sent
        PROVE  \E i \in 1 .. n + 1 : t[i] = k
    <3>1. CASE k = sent - 1
      BY <2>1, <2>2, <3>1
    <3>2. CASE k < sent - 1
      <4>1. PICK i \in 1 .. n : s[i] = k
        BY <2>3, <2>7, <3>2, Zenon
      <4>2. i \in 1 .. n + 1 /\ t[i] = k
        BY <2>1, <2>2, <4>1
      <4>3. QED
        BY <4>2, Zenon
    <3>3. QED
      BY <1>2, <2>7, <3>1, <3>2
  <2>8. QED
    BY <1>1, <2>1, <2>2, <2>5, <2>6, <2>7, Zenon DEF SockOK
<1>8. \A r \in Readers : Returned(r)'
  BY <1>0, <1>1, Zenon DEF Core, Returned, reader_vars
<1>9. QED
  BY <1>3, <1>4, <1>5, <1>6, <1>7, <1>8, Zenon DEF Core

-----------------------------------------------------------------------------

(* Entering acquire_read moves nothing. *)
LEMMA DequeueKeeps ==
    ASSUME RingInv, MQTypeOK', NEW q \in Readers, dequeue(q)
    PROVE  Core'
<1>0. /\ MQTypeOK /\ Core
      /\ n_reader \in Nat \ {0} /\ max_chunks \in Nat \ {0}
  BY QueueAssumption, Zenon DEF RingInv
<1>1. /\ UNCHANGED <<written, read, data, sock, writer_vars, r_idx, sent, taken, got, ret>>
      /\ UNCHANGED <<Claiming, Span, SockSent>>
  BY Zenon DEF dequeue, shm_vars, socket_vars, writer_vars, Claiming, Span, SockSent
<1>2. /\ UNCHANGED <<r_flag, r_val>>
      /\ \E pc \in {"check"} : r_pc' = [r_pc EXCEPT ![q] = pc]
      /\ r_pc[q] # "recv"
  BY Zenon DEF dequeue, Goto
<1>3. \A r \in Readers : ReaderAt(r)'
  BY <1>0, <1>1, <1>2, Zenon DEF Core, ReaderAt, writer_vars, MQTypeOK
<1>4. ChunksOK'
  BY <1>0, <1>1, Zenon DEF Core, ChunksOK, ChunkIs, writer_vars
<1>5. WriterOK'
  BY <1>0, <1>1, Zenon DEF Core, WriterOK, writer_vars
<1>6. LoadedOK'
  BY <1>0, <1>1, <1>2, Zenon DEF Core, LoadedOK, writer_vars, MQTypeOK
<1>7. \A r \in Readers : SockOK(r)'
  BY <1>0, <1>1, Zenon DEF Core, SockOK
<1>8. \A r \in Readers : Returned(r)'
  BY <1>0, <1>1, <1>2, Zenon DEF Core, Returned, MQTypeOK
<1>9. QED
  BY <1>3, <1>4, <1>5, <1>6, <1>7, <1>8, Zenon DEF Core

(* Waking up moves no object. *)
LEMMA PollKeeps ==
    ASSUME RingInv, MQTypeOK', NEW q \in Readers, poll(q)
    PROVE  Core'
<1>0. /\ MQTypeOK /\ Core
      /\ n_reader \in Nat \ {0} /\ max_chunks \in Nat \ {0}
  BY QueueAssumption, Zenon DEF RingInv
<1>1. /\ UNCHANGED <<written, read, data, sock, writer_vars, r_idx, sent, taken, got, ret>>
      /\ UNCHANGED <<Claiming, Span, SockSent>>
  BY Zenon DEF poll, shm_vars, socket_vars, writer_vars, Claiming, Span, SockSent
<1>2. /\ UNCHANGED <<r_flag, r_val>>
      /\ \E pc \in {"woken"} : r_pc' = [r_pc EXCEPT ![q] = pc]
      /\ r_pc[q] # "recv"
  BY Zenon DEF poll, Goto
<1>3. \A r \in Readers : ReaderAt(r)'
  BY <1>0, <1>1, <1>2, Zenon DEF Core, ReaderAt, writer_vars, MQTypeOK
<1>4. ChunksOK'
  BY <1>0, <1>1, Zenon DEF Core, ChunksOK, ChunkIs, writer_vars
<1>5. WriterOK'
  BY <1>0, <1>1, Zenon DEF Core, WriterOK, writer_vars
<1>6. LoadedOK'
  BY <1>0, <1>1, <1>2, Zenon DEF Core, LoadedOK, writer_vars, MQTypeOK
<1>7. \A r \in Readers : SockOK(r)'
  BY <1>0, <1>1, Zenon DEF Core, SockOK
<1>8. \A r \in Readers : Returned(r)'
  BY <1>0, <1>1, <1>2, Zenon DEF Core, Returned, MQTypeOK
<1>9. QED
  BY <1>3, <1>4, <1>5, <1>6, <1>7, <1>8, Zenon DEF Core

(* Returning from the wait moves no object. *)
LEMMA WokenKeeps ==
    ASSUME RingInv, MQTypeOK', NEW q \in Readers, woken(q)
    PROVE  Core'
<1>0. /\ MQTypeOK /\ Core
      /\ n_reader \in Nat \ {0} /\ max_chunks \in Nat \ {0}
  BY QueueAssumption, Zenon DEF RingInv
<1>1. /\ UNCHANGED <<written, read, data, sock, writer_vars, r_idx, sent, taken, got, ret>>
      /\ UNCHANGED <<Claiming, Span, SockSent>>
  BY Zenon DEF woken, shm_vars, socket_vars, writer_vars, Claiming, Span, SockSent
<1>2. /\ UNCHANGED <<r_flag, r_val>>
      /\ \E pc \in {"cancelled", "check"} : r_pc' = [r_pc EXCEPT ![q] = pc]
      /\ r_pc[q] # "recv"
  BY Zenon DEF woken, Goto
<1>3. \A r \in Readers : ReaderAt(r)'
  BY <1>0, <1>1, <1>2, Zenon DEF Core, ReaderAt, writer_vars, MQTypeOK
<1>4. ChunksOK'
  BY <1>0, <1>1, Zenon DEF Core, ChunksOK, ChunkIs, writer_vars
<1>5. WriterOK'
  BY <1>0, <1>1, Zenon DEF Core, WriterOK, writer_vars
<1>6. LoadedOK'
  BY <1>0, <1>1, <1>2, Zenon DEF Core, LoadedOK, writer_vars, MQTypeOK
<1>7. \A r \in Readers : SockOK(r)'
  BY <1>0, <1>1, Zenon DEF Core, SockOK
<1>8. \A r \in Readers : Returned(r)'
  BY <1>0, <1>1, <1>2, Zenon DEF Core, Returned, MQTypeOK
<1>9. QED
  BY <1>3, <1>4, <1>5, <1>6, <1>7, <1>8, Zenon DEF Core

(* Setting the shutdown flag moves no object. *)
LEMMA ShutdownKeeps ==
    ASSUME RingInv, MQTypeOK', NEW q \in Readers, shutdown(q)
    PROVE  Core'
<1>0. /\ MQTypeOK /\ Core
      /\ n_reader \in Nat \ {0} /\ max_chunks \in Nat \ {0}
  BY QueueAssumption, Zenon DEF RingInv
<1>1. /\ UNCHANGED <<written, read, data, sock, writer_vars, r_idx, sent, taken, got, ret>>
      /\ UNCHANGED <<Claiming, Span, SockSent>>
  BY Zenon DEF shutdown, shm_vars, writer_vars, reader_vars, Claiming, Span, SockSent
<1>2. UNCHANGED <<r_flag, r_val, r_pc>>
  BY Zenon DEF shutdown, reader_vars
<1>3. \A r \in Readers : ReaderAt(r)'
  BY <1>0, <1>1, <1>2, Zenon DEF Core, ReaderAt, writer_vars
<1>4. ChunksOK'
  BY <1>0, <1>1, Zenon DEF Core, ChunksOK, ChunkIs, writer_vars
<1>5. WriterOK'
  BY <1>0, <1>1, Zenon DEF Core, WriterOK, writer_vars
<1>6. LoadedOK'
  BY <1>0, <1>1, <1>2, Zenon DEF Core, LoadedOK, writer_vars, MQTypeOK
<1>7. \A r \in Readers : SockOK(r)'
  BY <1>0, <1>1, Zenon DEF Core, SockOK
<1>8. \A r \in Readers : Returned(r)'
  BY <1>0, <1>1, <1>2, Zenon DEF Core, Returned, MQTypeOK
<1>9. QED
  BY <1>3, <1>4, <1>5, <1>6, <1>7, <1>8, Zenon DEF Core

(* A cancellation moves no object. *)
LEMMA CancelKeeps ==
    ASSUME RingInv, MQTypeOK', NEW q \in Readers, cancel_wait(q)
    PROVE  Core'
<1>0. /\ MQTypeOK /\ Core
      /\ n_reader \in Nat \ {0} /\ max_chunks \in Nat \ {0}
  BY QueueAssumption, Zenon DEF RingInv
<1>1. /\ UNCHANGED <<written, read, data, sock, writer_vars, r_idx, sent, taken, got, ret>>
      /\ UNCHANGED <<Claiming, Span, SockSent>>
  BY Zenon DEF cancel_wait, shm_vars, writer_vars, reader_vars, Claiming, Span, SockSent
<1>2. UNCHANGED <<r_flag, r_val, r_pc>>
  BY Zenon DEF cancel_wait, reader_vars
<1>3. \A r \in Readers : ReaderAt(r)'
  BY <1>0, <1>1, <1>2, Zenon DEF Core, ReaderAt, writer_vars
<1>4. ChunksOK'
  BY <1>0, <1>1, Zenon DEF Core, ChunksOK, ChunkIs, writer_vars
<1>5. WriterOK'
  BY <1>0, <1>1, Zenon DEF Core, WriterOK, writer_vars
<1>6. LoadedOK'
  BY <1>0, <1>1, <1>2, Zenon DEF Core, LoadedOK, writer_vars, MQTypeOK
<1>7. \A r \in Readers : SockOK(r)'
  BY <1>0, <1>1, Zenon DEF Core, SockOK
<1>8. \A r \in Readers : Returned(r)'
  BY <1>0, <1>1, <1>2, Zenon DEF Core, Returned, MQTypeOK
<1>9. QED
  BY <1>3, <1>4, <1>5, <1>6, <1>7, <1>8, Zenon DEF Core

(* A read flag found unset at the writer's chunk means that it is not written. *)
LEMMA CheckReadKeeps ==
    ASSUME RingInv, MQTypeOK', NEW q \in Readers, check_read(q)
    PROVE  Core'
<1>0. /\ MQTypeOK /\ Core
      /\ n_reader \in Nat \ {0} /\ max_chunks \in Nat \ {0}
  BY QueueAssumption, Zenon DEF RingInv
<1>1. /\ UNCHANGED <<written, read, data, sock, writer_vars, r_idx, sent, taken, got, ret>>
      /\ UNCHANGED <<Claiming, Span, SockSent>>
  BY Zenon DEF check_read, shm_vars, socket_vars, writer_vars, Claiming, Span, SockSent
<1>2. /\ UNCHANGED r_val /\ r_flag' = [r_flag EXCEPT ![q] = read[r_idx[q]][q]]
      /\ r_pc' = [r_pc EXCEPT ![q] = "check_written"]
      /\ r_pc[q] # "recv"
  BY Zenon DEF check_read, Goto
<1>3. \A r \in Readers : ReaderAt(r)'
  BY <1>0, <1>1, <1>2, Zenon DEF Core, ReaderAt, writer_vars, MQTypeOK
<1>4. ChunksOK'
  BY <1>0, <1>1, Zenon DEF Core, ChunksOK, ChunkIs, writer_vars
<1>5. WriterOK'
  BY <1>0, <1>1, Zenon DEF Core, WriterOK, writer_vars
<1>6. LoadedOK'
  <2> SUFFICES ASSUME NEW r \in Readers,
                      r_pc'[r] = "check_written", r_flag'[r] = 0, taken[r] = sent
               PROVE  written[w_idx] = 0
    BY <1>1, Zenon DEF LoadedOK, writer_vars
  <2>1. CASE r # q
    BY <1>0, <1>2, <2>1, Zenon DEF Core, LoadedOK, MQTypeOK
  <2>2. CASE r = q
    <3>1. w_idx \in Chunks /\ sent \in Nat
      BY <1>0, Zenon DEF MQTypeOK
    <3>2. sent - taken[r] = 0
      BY <3>1
    <3>3. r_idx[r] = w_idx
      BY <1>0, <3>1, <3>2, SlotFacts DEF Core, ReaderAt
    <3>4. read[w_idx][r] = 0
      BY <1>0, <1>2, <2>2, <3>3, Zenon DEF MQTypeOK
    <3>5. CASE Claiming
      BY <1>0, <3>5, Zenon DEF Core, WriterOK
    <3>6. CASE ~Claiming
      <4>1. ChunkIs(max_chunks)
        BY <1>0, <3>6 DEF Core, ChunksOK, Span
      <4>2. Slot(w_idx, max_chunks) = w_idx
        BY <3>1, SlotFacts, Zenon
      <4>3. taken[r] > sent - max_chunks
        BY <1>0, <3>1
      <4>4. CASE sent - max_chunks >= 0
        <5>1. read[w_idx][r] = 1
          BY <4>1, <4>2, <4>3, <4>4, Zenon DEF ChunkIs
        <5>2. QED
          BY <3>4, <5>1
      <4>5. CASE ~(sent - max_chunks >= 0)
        BY <4>1, <4>2, <4>5, Zenon DEF ChunkIs
      <4>6. QED
        BY <4>4, <4>5, Zenon
    <3>7. QED
      BY <3>5, <3>6, Zenon
  <2>3. QED
    BY <2>1, <2>2, Zenon
<1>7. \A r \in Readers : SockOK(r)'
  BY <1>0, <1>1, Zenon DEF Core, SockOK
<1>8. \A r \in Readers : Returned(r)'
  BY <1>0, <1>1, <1>2, Zenon DEF Core, Returned, MQTypeOK
<1>9. QED
  BY <1>3, <1>4, <1>5, <1>6, <1>7, <1>8, Zenon DEF Core

(* A reader that goes on to copy has an object to read. *)
LEMMA CheckReadyKeeps ==
    ASSUME RingInv, MQTypeOK', NEW q \in Readers, check_ready(q)
    PROVE  Core'
<1>0. /\ MQTypeOK /\ Core
      /\ n_reader \in Nat \ {0} /\ max_chunks \in Nat \ {0}
  BY QueueAssumption, Zenon DEF RingInv
<1>1. /\ UNCHANGED <<written, read, data, sock, writer_vars, r_idx, sent, taken, got, ret>>
      /\ UNCHANGED <<Claiming, Span, SockSent>>
  BY Zenon DEF check_ready, shm_vars, socket_vars, writer_vars, Claiming, Span, SockSent
<1>2. /\ UNCHANGED <<r_flag, r_val>> /\ r_pc[q] = "check_written"
      /\ \E pc \in {"woken", "poll", "copy"} :
            /\ r_pc' = [r_pc EXCEPT ![q] = pc]
            /\ pc = "copy" => written[r_idx[q]] # 0 /\ r_flag[q] # 1
  <2>1. UNCHANGED <<r_flag, r_val>> /\ r_pc[q] = "check_written"
    BY Zenon DEF check_ready
  <2>2. CASE written[r_idx[q]] = 0 \/ r_flag[q] = 1
    BY <2>1, <2>2, Zenon DEF check_ready, Goto
  <2>3. CASE ~(written[r_idx[q]] = 0 \/ r_flag[q] = 1)
    BY <2>1, <2>3, Zenon DEF check_ready, Goto
  <2>4. QED
    BY <2>1, <2>2, <2>3, Zenon
<1>3. ASSUME NEW r \in Readers PROVE ReaderAt(r)'
  <2>1. ReaderAt(r)
    BY <1>0, Zenon DEF Core
  <2>2. CASE r # q
    BY <1>0, <1>1, <1>2, <2>1, <2>2, Zenon DEF ReaderAt, writer_vars, MQTypeOK
  <2>3. CASE r = q
    <3>1. r_pc'[q] \in {"woken", "poll", "copy"}
      BY <1>0, <1>2, Zenon DEF MQTypeOK
    <3>2. ASSUME r_pc'[q] = "copy" PROVE taken[q] < sent
      <4>1. written[r_idx[q]] # 0 /\ r_flag[q] = 0
        BY <1>0, <1>2, <3>2, Zenon DEF MQTypeOK, Flag
      <4>2. w_idx \in Chunks /\ sent \in Nat /\ taken[q] \in Nat /\ taken[q] <= sent
        BY <1>0, <2>1, <2>3, Zenon DEF MQTypeOK, ReaderAt
      <4>3. ASSUME taken[q] = sent PROVE FALSE
        <5>1. sent - taken[q] = 0
          BY <4>2, <4>3
        <5>2. r_idx[q] = w_idx
          BY <2>1, <2>3, <4>2, <5>1, SlotFacts, Zenon DEF ReaderAt
        <5>3. written[w_idx] = 0
          BY <1>0, <1>2, <4>1, <4>3, Zenon DEF Core, LoadedOK
        <5>4. QED
          BY <4>1, <5>2, <5>3, Zenon
      <4>4. QED
        BY <4>2, <4>3
    <3>3. QED
      BY <1>1, <2>1, <2>3, <3>1, <3>2, Zenon DEF ReaderAt, writer_vars
  <2>4. QED
    BY <2>2, <2>3, Zenon
<1>4. ChunksOK'
  BY <1>0, <1>1, Zenon DEF Core, ChunksOK, ChunkIs, writer_vars
<1>5. WriterOK'
  BY <1>0, <1>1, Zenon DEF Core, WriterOK, writer_vars
<1>6. LoadedOK'
  BY <1>0, <1>1, <1>2, Zenon DEF Core, LoadedOK, writer_vars, MQTypeOK
<1>7. \A r \in Readers : SockOK(r)'
  BY <1>0, <1>1, Zenon DEF Core, SockOK
<1>8. ASSUME NEW r \in Readers PROVE Returned(r)'
  <2>1. r_pc'[r] = "recv" <=> r_pc[r] = "recv"
    <3>1. CASE r = q
      BY <1>0, <1>2, <3>1, Zenon DEF MQTypeOK
    <3>2. CASE r # q
      BY <1>0, <1>2, <3>2, Zenon DEF MQTypeOK
    <3>3. QED
      BY <3>1, <3>2, Zenon
  <2>2. QED
    BY <1>0, <1>1, <2>1, Zenon DEF Core, Returned
<1>9. QED
  BY <1>3, <1>4, <1>5, <1>6, <1>7, <1>8, Zenon DEF Core

(* The bytes copied are those of the reader's next object. *)
LEMMA CopyKeeps ==
    ASSUME RingInv, MQTypeOK', NEW q \in Readers, copy(q)
    PROVE  Core'
<1>0. /\ MQTypeOK /\ Core
      /\ n_reader \in Nat \ {0} /\ max_chunks \in Nat \ {0}
  BY QueueAssumption, Zenon DEF RingInv
<1>1. /\ UNCHANGED <<written, read, data, sock, writer_vars, r_idx, sent, taken, got, ret>>
      /\ UNCHANGED <<Claiming, Span, SockSent>>
  BY Zenon DEF copy, shm_vars, socket_vars, writer_vars, Claiming, Span, SockSent
<1>2. /\ UNCHANGED r_flag /\ r_pc[q] = "copy"
      /\ r_val' = [r_val EXCEPT ![q] = data[r_idx[q]]]
      /\ r_pc' = [r_pc EXCEPT ![q] = "mark"]
  BY Zenon DEF copy, Goto
<1>3. ASSUME NEW r \in Readers PROVE ReaderAt(r)'
  <2>1. ReaderAt(r)
    BY <1>0, Zenon DEF Core
  <2>2. CASE r # q
    BY <1>0, <1>1, <1>2, <2>1, <2>2, Zenon DEF ReaderAt, writer_vars, MQTypeOK
  <2>3. CASE r = q
    <3>1. sent \in Nat /\ taken[q] \in Nat /\ taken[q] < sent
      BY <1>0, <1>2, <2>1, <2>3, Zenon DEF MQTypeOK, ReaderAt
    <3>2. sent - taken[q] \in 1 .. Span
      <4>1. Span \in Int
        BY <1>0 DEF Span
      <4>2. QED
        BY <2>1, <2>3, <3>1, <4>1 DEF ReaderAt
    <3>3. ChunkIs(sent - taken[q])
      BY <1>0, <3>2, Zenon DEF Core, ChunksOK
    <3>4. sent - (sent - taken[q]) = taken[q] /\ taken[q] >= 0
      BY <3>1
    <3>5. data[r_idx[q]] = Obj(taken[q])
      BY <2>1, <2>3, <3>3, <3>4, Zenon DEF ChunkIs, ReaderAt
    <3>6. r_val'[q] = Obj(taken[q]) /\ r_pc'[q] = "mark"
      BY <1>0, <1>2, <3>5, Zenon DEF MQTypeOK
    <3>7. QED
      BY <1>1, <2>1, <2>3, <3>1, <3>6, Zenon DEF ReaderAt, writer_vars, Obj
  <2>4. QED
    BY <2>2, <2>3, Zenon
<1>4. ChunksOK'
  BY <1>0, <1>1, Zenon DEF Core, ChunksOK, ChunkIs, writer_vars
<1>5. WriterOK'
  BY <1>0, <1>1, Zenon DEF Core, WriterOK, writer_vars
<1>6. LoadedOK'
  BY <1>0, <1>1, <1>2, Zenon DEF Core, LoadedOK, writer_vars, MQTypeOK
<1>7. \A r \in Readers : SockOK(r)'
  BY <1>0, <1>1, Zenon DEF Core, SockOK
<1>8. \A r \in Readers : Returned(r)'
  BY <1>0, <1>1, <1>2, Zenon DEF Core, Returned, MQTypeOK
<1>9. QED
  BY <1>3, <1>4, <1>5, <1>6, <1>7, <1>8, Zenon DEF Core

(* Marking the chunk read advances the reader by one object. *)
LEMMA MarkKeeps ==
    ASSUME RingInv, MQTypeOK', NEW q \in Readers, mark(q)
    PROVE  Core'
<1>0. /\ MQTypeOK /\ Core
      /\ n_reader \in Nat \ {0} /\ max_chunks \in Nat \ {0}
  BY QueueAssumption, Zenon DEF RingInv
<1>1. /\ UNCHANGED <<written, data, sock, writer_vars, r_flag, r_val, sent>>
      /\ UNCHANGED <<Claiming, Span, SockSent>>
      /\ r_pc[q] = "mark"
      /\ read' = [read EXCEPT ![r_idx[q]][q] = 1]
      /\ r_idx' = [r_idx EXCEPT ![q] = next_idx(r_idx[q])]
      /\ taken' = [taken EXCEPT ![q] = taken[q] + 1]
  BY Zenon DEF mark, socket_vars, writer_vars, Claiming, Span, SockSent
<1> DEFINE d0 == sent - taken[q]
<1>2. /\ sent \in Nat /\ w_idx \in Chunks
      /\ \A r \in Readers : taken[r] \in Nat /\ got[r] \in Nat
      /\ Span \in 0 .. max_chunks
      /\ Claiming => Span = max_chunks - 1
  BY <1>0 DEF MQTypeOK, Span
<1>3. d0 \in 1 .. Span /\ taken[q] < sent /\ r_idx[q] = Slot(w_idx, d0)
      /\ r_val[q] = Obj(taken[q]) /\ got[q] = taken[q]
  <2>1. ReaderAt(q) /\ Returned(q)
    BY <1>0, Zenon DEF Core
  <2>2. taken[q] < sent /\ r_val[q] = Obj(taken[q]) /\ got[q] = taken[q]
    BY <1>1, <2>1, Zenon DEF ReaderAt, Returned
  <2>3. QED
    BY <1>2, <2>1, <2>2 DEF ReaderAt
<1>4. d0 \in 1 .. max_chunks /\ r_idx[q] \in Chunks
  <2>1. r_idx[q] \in Chunks
    BY <1>0, Zenon DEF MQTypeOK
  <2>2. d0 \in 1 .. Span /\ Span \in 0 .. max_chunks
    BY <1>2, <1>3, Zenon
  <2> HIDE DEF d0
  <2>3. QED
    BY <1>0, <2>1, <2>2
<1>5. \/ /\ r_val[q] = Overflow /\ UNCHANGED <<got, ret>>
         /\ r_pc' = [r_pc EXCEPT ![q] = "recv"] /\ taken[q] \in Big
      \/ /\ got' = [got EXCEPT ![q] = got[q] + 1] /\ ret' = [ret EXCEPT ![q] = taken[q]]
         /\ r_pc' = [r_pc EXCEPT ![q] = "idle"] /\ taken[q] \notin Big
  <2>1. CASE taken[q] \in Big
    <3>1. r_val[q] = Overflow
      BY <1>3, <2>1, Zenon DEF Obj
    <3>2. QED
      BY <2>1, <3>1, Zenon DEF mark, Goto
  <2>2. CASE taken[q] \notin Big
    <3>1. r_val[q] = taken[q] /\ r_val[q] # Overflow
      BY <1>2, <1>3, <2>2 DEF Obj, Overflow
    <3>2. QED
      BY <2>2, <3>1, Zenon DEF mark, Return, Goto
  <2>3. QED
    BY <2>1, <2>2, Zenon
<1>6. /\ r_pc'[q] \in {"idle", "recv"} /\ taken'[q] = taken[q] + 1
      /\ \A r \in Readers \ {q} : /\ r_pc'[r] = r_pc[r] /\ taken'[r] = taken[r]
                                  /\ r_idx'[r] = r_idx[r] /\ got'[r] = got[r]
                                  /\ ret'[r] = ret[r]
  <2>1. taken \in [Readers -> Nat]
    BY <1>0, Zenon DEF MQTypeOK
  <2>2. r_idx \in [Readers -> Chunks] /\ got \in [Readers -> Nat] /\ ret \in [Readers -> Int]
    BY <1>0, Zenon DEF MQTypeOK
  <2>3. r_pc'[q] \in {"idle", "recv"} /\ \A r \in Readers \ {q} : r_pc'[r] = r_pc[r]
    BY <1>0, <1>5, Zenon DEF MQTypeOK
  <2>4. taken'[q] = taken[q] + 1 /\ \A r \in Readers \ {q} : taken'[r] = taken[r]
    BY <1>1, <2>1, Zenon
  <2>5. \A r \in Readers \ {q} : r_idx'[r] = r_idx[r]
    BY <1>1, <2>2, Zenon
  <2>6. \A r \in Readers \ {q} : got'[r] = got[r] /\ ret'[r] = ret[r]
    BY <1>5, <2>2, Zenon
  <2>7. QED
    BY <2>3, <2>4, <2>5, <2>6, Zenon
<1>7. /\ \A r \in Readers \ {q} : \A c \in Chunks : read'[c][r] = read[c][r]
      /\ \A c \in Chunks \ {r_idx[q]} : read'[c] = read[c]
      /\ read'[r_idx[q]][q] = 1
  <2>1. /\ \A c \in Chunks : read[c] \in [Readers -> Flag]
        /\ read \in [Chunks -> [Readers -> Flag]]
    BY <1>0, Zenon DEF MQTypeOK
  <2>2. /\ \A c \in Chunks \ {r_idx[q]} : read'[c] = read[c]
        /\ read'[r_idx[q]] = [read[r_idx[q]] EXCEPT ![q] = 1]
    BY <1>1, <1>4, <2>1, Zenon
  <2>3. read[r_idx[q]] \in [Readers -> Flag]
    BY <1>4, <2>1, Zenon
  <2>4. \A r \in Readers \ {q} : read'[r_idx[q]][r] = read[r_idx[q]][r]
    BY <2>2, <2>3, Zenon
  <2>5. QED
    BY <2>2, <2>3, <2>4, Zenon
<1> HIDE DEF d0
<1>8. ASSUME NEW r \in Readers PROVE ReaderAt(r)'
  <2>1. CASE r # q
    BY <1>0, <1>1, <1>6, <2>1, Zenon DEF Core, ReaderAt, writer_vars
  <2>2. CASE r = q
    <3>1. r_idx'[q] = Slot(w_idx, d0 - 1)
      <4>1. r_idx'[q] = next_idx(r_idx[q])
        BY <1>0, <1>1, Zenon DEF MQTypeOK
      <4>2. QED
        BY <1>2, <1>3, <1>4, <4>1, SlotStep, Zenon
    <3>2. sent - taken'[q] = d0 - 1 /\ taken'[q] <= sent /\ d0 - 1 <= Span
      <4>1. taken'[q] = taken[q] + 1 /\ taken[q] \in Nat /\ sent \in Nat
        BY <1>2, <1>6, Zenon
      <4>2. d0 = sent - taken[q] /\ taken[q] < sent /\ Span \in Int /\ d0 <= Span
        BY <1>2, <1>3 DEF d0
      <4>3. QED
        BY <4>1, <4>2
    <3>3. w_idx' = w_idx /\ sent' = sent /\ Span' = Span
      BY <1>1, Zenon DEF writer_vars
    <3>4. QED
      BY <1>6, <2>2, <3>1, <3>2, <3>3, Zenon DEF ReaderAt
  <2>3. QED
    BY <2>1, <2>2, Zenon
<1>9. ChunksOK'
  <2>1. ASSUME NEW d \in 1 .. Span PROVE ChunkIs(d)'
    <3>1. /\ ChunkIs(d) /\ d \in 1 .. max_chunks /\ d \in Int
          /\ Slot(w_idx, d) \in Chunks
      <4>1. d \in 1 .. max_chunks
        BY <1>0, <1>2
      <4>2. d \in 0 .. max_chunks
        BY <1>0, <4>1
      <4>3. QED
        <5>1. ChunkIs(d)
          BY <1>0, Zenon DEF Core, ChunksOK
        <5>2. Slot(w_idx, d) \in Chunks
          BY <1>2, <4>2, SlotFacts, Zenon
        <5>3. QED
          BY <4>1, <5>1, <5>2
    <3>2. UNCHANGED <<written, data, w_idx, sent>>
      BY <1>1, Zenon DEF writer_vars
    <3>3. CASE d = d0
      <4>1. Slot(w_idx, d) = r_idx[q] /\ sent - d = taken[q] /\ sent - d >= 0
        BY <1>2, <1>3, <3>3 DEF d0
      <4>2. \A r \in Readers : read'[r_idx[q]][r] = IF taken'[r] > sent - d THEN 1 ELSE 0
        <5>1. taken'[q] > sent - d
          BY <1>2, <1>6, <4>1
        <5>2. ASSUME NEW r \in Readers \ {q}
              PROVE  read'[r_idx[q]][r] = IF taken'[r] > sent - d THEN 1 ELSE 0
          BY <1>4, <1>6, <1>7, <3>1, <4>1, <5>2 DEF ChunkIs
        <5>3. QED
          BY <1>7, <5>1, <5>2, Zenon
      <4>3. written[r_idx[q]] = 1 /\ data[r_idx[q]] = Obj(sent - d)
        BY <3>1, <4>1, Zenon DEF ChunkIs
      <4>4. QED
        BY <3>2, <4>1, <4>2, <4>3, Zenon DEF ChunkIs, Obj
    <3>4. CASE d # d0
      <4>1. Slot(w_idx, d) # r_idx[q]
        BY <1>2, <1>3, <1>4, <3>1, <3>4, SlotFacts
      <4>2. read'[Slot(w_idx, d)] = read[Slot(w_idx, d)]
        BY <1>7, <3>1, <4>1, Zenon
      <4>3. \A r \in Readers : (taken'[r] > sent - d) <=> (taken[r] > sent - d)
        <5>1. taken[q] # sent - d
          BY <1>2, <3>1, <3>4, SMTT(30) DEF d0
        <5>2. (taken'[q] > sent - d) <=> (taken[q] > sent - d)
          BY <1>2, <1>6, <3>1, <5>1
        <5>3. QED
          BY <1>6, <5>2, Zenon
      <4>4. QED
        BY <3>1, <3>2, <4>2, <4>3, Zenon DEF ChunkIs, Obj
    <3>5. QED
      BY <3>3, <3>4, Zenon
  <2>2. QED
    BY <1>1, <2>1, Zenon DEF ChunksOK
<1>10. WriterOK'
  <2>1. UNCHANGED <<w_pc, w_idx, w_i, w_sum, written, data, sent, Claiming>>
    BY <1>1, Zenon DEF writer_vars
  <2>2. WriterOK /\ w_i \in 0 .. n_reader
    BY <1>0, Zenon DEF Core, MQTypeOK
  <2>3. \A j \in 1 .. w_i : read[w_idx][j] = 1 => read'[w_idx][j] = 1
    <3>1. \A j \in 1 .. w_i : j \in Readers
      BY <1>0, <2>2 DEF Readers
    <3>2. QED
      BY <1>2, <1>7, <3>1, Zenon
  <2>4. ASSUME Claiming PROVE read'[w_idx] = read[w_idx]
    <3>1. d0 \in 1 .. max_chunks - 1
      BY <1>0, <1>2, <1>3, <2>4, Zenon
    <3>2. r_idx[q] # w_idx
      BY <1>2, <1>3, <3>1, SlotFacts, Zenon
    <3>3. QED
      BY <1>2, <1>7, <3>2, Zenon
  <2>5. ASSUME w_pc = "send", NEW r \in Readers PROVE got'[r] < sent
    <3>1. got[r] < sent /\ sent - 1 \in Big
      BY <2>2, <2>5, Zenon DEF WriterOK
    <3>2. CASE r # q
      BY <1>6, <3>1, <3>2, Zenon
    <3>3. CASE r = q
      <4>1. CASE taken[q] \in Big
        BY <1>5, <3>1, <3>3, <4>1, Zenon
      <4>2. CASE taken[q] \notin Big
        <5>1. taken[q] # sent - 1
          BY <3>1, <4>2, Zenon
        <5>2. got'[q] = taken[q] + 1
          BY <1>0, <1>3, <1>5, <4>2 DEF MQTypeOK
        <5>3. QED
          BY <1>2, <1>3, <3>3, <5>1, <5>2
      <4>3. QED
        BY <4>1, <4>2, Zenon
    <3>4. QED
      BY <3>2, <3>3, Zenon
  <2>6. w_pc = "reset" => Claiming
    BY Zenon DEF Claiming
  <2>7. QED
    BY <2>1, <2>2, <2>3, <2>4, <2>5, <2>6, Zenon DEF WriterOK, Obj
<1>11. LoadedOK'
  BY <1>0, <1>1, <1>6, Zenon DEF Core, LoadedOK, writer_vars
<1>12. ASSUME NEW r \in Readers PROVE SockOK(r)'
  <2>1. SockOK(r) /\ sock' = sock /\ SockSent' = SockSent
    BY <1>0, <1>1, Zenon DEF Core
  <2>2. CASE got'[r] = got[r]
    BY <2>1, <2>2, Zenon DEF SockOK
  <2>3. CASE got'[r] # got[r]
    <3>1. r = q /\ got'[q] = got[q] + 1 /\ got[q] \notin Big
      BY <1>0, <1>3, <1>5, <1>6, <2>3, ZenonT(30) DEF MQTypeOK
    <3>2. \A i \in 1 .. Len(sock[q]) : sock[q][i] \in Int
      <4>1. sock[q] \in Seq(Int)
        BY <1>0, Zenon DEF MQTypeOK
      <4>2. QED
        BY <4>1
    <3>3. ASSUME NEW i \in 1 .. Len(sock[q]) PROVE got'[q] <= sock[q][i]
      <4>1. got[q] <= sock[q][i] /\ sock[q][i] \in Big
        BY <2>1, <3>1, Zenon DEF SockOK
      <4>2. got[q] # sock[q][i]
        BY <3>1, <4>1, Zenon
      <4>3. got'[q] = got[q] + 1 /\ got[q] \in Nat /\ sock[q][i] \in Int
        BY <1>2, <3>1, <3>2, Zenon
      <4>4. QED
        BY <4>1, <4>2, <4>3
    <3>4. \A k \in Nat : got'[q] <= k => got[q] <= k
      BY <1>2, <3>1
    <3>5. QED
      BY <2>1, <3>1, <3>3, <3>4, Zenon DEF SockOK
  <2>4. QED
    BY <2>2, <2>3, Zenon
<1>13. ASSUME NEW r \in Readers PROVE Returned(r)'
  <2>1. CASE r # q
    BY <1>0, <1>6, <2>1, Zenon DEF Core, Returned
  <2>2. CASE r = q
    <3>1. taken'[q] - 1 = taken[q]
      BY <1>2, <1>6
    <3>2. CASE taken[q] \in Big
      <4>1. got'[q] = taken[q] /\ r_pc'[q] = "recv" /\ ret'[q] = ret[q] /\ ret[q] = got[q] - 1
        BY <1>0, <1>3, <1>5, <3>2, Zenon DEF MQTypeOK, Core, Returned
      <4>2. QED
        BY <1>3, <2>2, <3>1, <3>2, <4>1, Zenon DEF Returned
    <3>3. CASE taken[q] \notin Big
      <4>1. got'[q] = taken[q] + 1 /\ r_pc'[q] = "idle" /\ ret'[q] = taken[q]
        BY <1>0, <1>3, <1>5, <3>3 DEF MQTypeOK
      <4>2. ret'[q] = got'[q] - 1 /\ got'[q] = taken'[q]
        <5>1. taken'[q] = taken[q] + 1 /\ taken[q] \in Nat
          BY <1>2, <1>6, Zenon
        <5>2. QED
          BY <4>1, <5>1
      <4>3. QED
        BY <2>2, <4>1, <4>2, Zenon DEF Returned
    <3>4. QED
      BY <3>2, <3>3, Zenon
  <2>3. QED
    BY <2>1, <2>2, Zenon
<1>14. QED
  BY <1>8, <1>9, <1>10, <1>11, <1>12, <1>13, Zenon DEF Core

(* The message at the head of the socket is the object the reader awaits. *)
LEMMA RecvKeeps ==
    ASSUME RingInv, MQTypeOK', NEW q \in Readers, recv(q)
    PROVE  Core'
<1>0. /\ MQTypeOK /\ Core
      /\ n_reader \in Nat \ {0} /\ max_chunks \in Nat \ {0}
  BY QueueAssumption, Zenon DEF RingInv
<1>1. /\ UNCHANGED <<written, read, data, writer_vars, r_idx, r_flag, r_val, sent, taken>>
      /\ UNCHANGED <<Claiming, Span, SockSent>>
      /\ r_pc[q] = "recv" /\ sock[q] # <<>>
      /\ sock' = [sock EXCEPT ![q] = Tail(sock[q])]
      /\ got' = [got EXCEPT ![q] = got[q] + 1]
      /\ ret' = [ret EXCEPT ![q] = Head(sock[q])]
      /\ r_pc' = [r_pc EXCEPT ![q] = "idle"]
  BY Zenon DEF recv, Return, Goto, shm_vars, writer_vars, Claiming, Span, SockSent
<1>2. /\ sock \in [Readers -> Seq(Int)] /\ got \in [Readers -> Nat] /\ ret \in [Readers -> Int]
      /\ sent \in Nat /\ taken[q] \in Nat
  BY <1>0, Zenon DEF MQTypeOK
<1> DEFINE s == sock[q]
           n == Len(s)
           t == Tail(s)
<1>3. /\ s \in Seq(Int) /\ n \in Nat \ {0} /\ Head(s) = s[1] /\ Len(t) = n - 1
      /\ \A i \in 1 .. n : s[i] \in Int
      /\ \A i \in 1 .. n - 1 : t[i] = s[i + 1]
  BY <1>1, <1>2
<1>4. /\ \A i \in 1 .. n : s[i] \in Big /\ got[q] <= s[i] /\ s[i] < SockSent
      /\ \A i, j \in 1 .. n : i < j => s[i] < s[j]
      /\ \A k \in Nat : k \in Big /\ got[q] <= k /\ k < SockSent
                          => \E i \in 1 .. n : s[i] = k
  BY <1>0, Zenon DEF Core, SockOK
<1>5. /\ sock'[q] = t /\ got'[q] = got[q] + 1 /\ ret'[q] = Head(s) /\ r_pc'[q] = "idle"
      /\ \A r \in Readers \ {q} : /\ sock'[r] = sock[r] /\ got'[r] = got[r]
                                  /\ ret'[r] = ret[r] /\ r_pc'[r] = r_pc[r]
  <2>1. sock'[q] = t /\ \A r \in Readers \ {q} : sock'[r] = sock[r]
    BY <1>1, <1>2, Zenon
  <2>2. got'[q] = got[q] + 1 /\ \A r \in Readers \ {q} : got'[r] = got[r]
    BY <1>1, <1>2, Zenon
  <2>3. ret'[q] = Head(s) /\ \A r \in Readers \ {q} : ret'[r] = ret[r]
    BY <1>1, <1>2, Zenon
  <2>4. r_pc'[q] = "idle" /\ \A r \in Readers \ {q} : r_pc'[r] = r_pc[r]
    BY <1>0, <1>1, Zenon DEF MQTypeOK
  <2>5. QED
    BY <2>1, <2>2, <2>3, <2>4, Zenon
<1>6. got[q] = taken[q] - 1 /\ got[q] \in Big /\ got[q] \in Nat /\ ret[q] = got[q] - 1
  BY <1>0, <1>1, <1>2, Zenon DEF Core, Returned
<1>7. SockSent \in Int
  BY <1>2 DEF SockSent
<1> HIDE DEF t, n, s
<1>8. s[1] = got[q] /\ got[q] < SockSent
  <2>1. 1 \in 1 .. n
    BY <1>3
  <2>2. got[q] <= s[1] /\ s[1] < SockSent /\ s[1] \in Int
    BY <1>3, <1>4, <2>1, Zenon
  <2>3. got[q] < SockSent
    BY <1>6, <1>7, <2>2
  <2>4. PICK i \in 1 .. n : s[i] = got[q]
    BY <1>4, <1>6, <2>3
  <2>5. ~(1 < i)
    BY <1>4, <1>6, <2>1, <2>2, <2>4
  <2>6. i = 1
    BY <1>3, <2>4, <2>5
  <2>7. QED
    BY <2>3, <2>4, <2>6, Zenon
<1>9. \A r \in Readers : ReaderAt(r)'
  <2>1. ASSUME NEW r \in Readers
        PROVE  r_pc'[r] \in {"copy", "mark"} => r_pc'[r] = r_pc[r]
    BY <1>5, Zenon
  <2>2. QED
    BY <1>0, <1>1, <2>1, Zenon DEF Core, ReaderAt, writer_vars
<1>10. ChunksOK'
  BY <1>0, <1>1, Zenon DEF Core, ChunksOK, ChunkIs, writer_vars
<1>11. WriterOK'
  <2>1. ASSUME w_pc = "send", NEW r \in Readers PROVE got'[r] < sent
    <3>1. got[r] < sent
      BY <1>0, <2>1, Zenon DEF Core, WriterOK
    <3>2. CASE r # q
      BY <1>5, <3>1, <3>2, Zenon
    <3>3. CASE r = q
      BY <1>2, <1>5, <1>6, <1>8, <2>1, <3>3 DEF SockSent
    <3>4. QED
      BY <3>2, <3>3, Zenon
  <2>2. QED
    BY <1>0, <1>1, <2>1, Zenon DEF Core, WriterOK, writer_vars
<1>12. LoadedOK'
  <2>1. ASSUME NEW r \in Readers
        PROVE  r_pc'[r] = "check_written" => r_pc[r] = "check_written"
    BY <1>5, Zenon
  <2>2. QED
    BY <1>0, <1>1, <2>1, Zenon DEF Core, LoadedOK, writer_vars
<1>13. ASSUME NEW r \in Readers PROVE SockOK(r)'
  <2>1. CASE r # q
    BY <1>0, <1>1, <1>5, <2>1 DEF Core, SockOK
  <2>2. CASE r = q
    <3>1. ASSUME NEW i \in 1 .. n - 1
          PROVE  t[i] \in Big /\ got[q] + 1 <= t[i] /\ t[i] < SockSent
      <4>1. i + 1 \in 1 .. n /\ 1 \in 1 .. n /\ 1 < i + 1
        BY <1>3
      <4>2. s[1] < s[i + 1] /\ s[i + 1] \in Big /\ s[i + 1] < SockSent /\ s[i + 1] \in Int
        BY <1>3, <1>4, <4>1, Zenon
      <4>3. t[i] = s[i + 1] /\ s[1] = got[q] /\ got[q] \in Nat
        BY <1>3, <1>6, <1>8, Zenon
      <4>4. got[q] + 1 <= s[i + 1]
        BY <4>2, <4>3
      <4>5. QED
        BY <4>2, <4>3, <4>4, Zenon
    <3>2. ASSUME NEW i \in 1 .. n - 1, NEW j \in 1 .. n - 1, i < j
          PROVE  t[i] < t[j]
      <4>1. i + 1 \in 1 .. n /\ j + 1 \in 1 .. n /\ i + 1 < j + 1
        BY <1>3, <3>2
      <4>2. s[i + 1] < s[j + 1]
        BY <1>4, <4>1, Zenon
      <4>3. QED
        BY <1>3, <4>2, Zenon
    <3>3. ASSUME NEW k \in Nat, k \in Big, got[q] + 1 <= k, k < SockSent
          PROVE  \E i \in 1 .. n - 1 : t[i] = k
      <4>1. got[q] <= k /\ k # got[q]
        BY <1>6, <3>3
      <4>2. PICK i \in 1 .. n : s[i] = k
        BY <1>4, <3>3, <4>1, Zenon
      <4>3. i # 1
        BY <1>8, <4>1, <4>2, Zenon
      <4>4. i - 1 \in 1 .. n - 1 /\ (i - 1) + 1 = i
        BY <1>3, <4>3
      <4>5. t[i - 1] = k
        BY <1>3, <4>2, <4>4, Zenon
      <4>6. QED
        BY <4>4, <4>5, Zenon
    <3>4. Len(sock'[q]) = n - 1 /\ sock'[q] = t /\ got'[q] = got[q] + 1 /\ SockSent' = SockSent
      BY <1>1, <1>3, <1>5, Zenon
    <3>5. \A i \in 1 .. n - 1 : t[i] \in Big /\ got[q] + 1 <= t[i] /\ t[i] < SockSent
      BY <3>1, Zenon
    <3>6. \A i, j \in 1 .. n - 1 : i < j => t[i] < t[j]
      BY <3>2, Zenon
    <3>7. \A k \in Nat : k \in Big /\ got[q] + 1 <= k /\ k < SockSent
                            => \E i \in 1 .. n - 1 : t[i] = k
      BY <3>3, Zenon
    <3>8. SockOK(q)'
      BY <3>4, <3>5, <3>6, <3>7, Zenon DEF SockOK
    <3>9. QED
      BY <2>2, <3>8, Zenon
  <2>3. QED
    BY <2>1, <2>2, Zenon
<1>14. ASSUME NEW r \in Readers PROVE Returned(r)'
  <2>1. CASE r # q
    BY <1>0, <1>1, <1>5, <2>1, Zenon DEF Core, Returned
  <2>2. CASE r = q
    <3>1. got'[q] = taken[q] /\ ret'[q] = got'[q] - 1
      <4>1. /\ got'[q] = got[q] + 1 /\ ret'[q] = got[q]
            /\ got[q] = taken[q] - 1 /\ got[q] \in Nat
        BY <1>3, <1>5, <1>6, <1>8, Zenon
      <4>2. taken[q] \in Nat
        BY <1>2, Zenon
      <4>3. QED
        BY <4>1, <4>2
    <3>2. QED
      BY <1>1, <1>5, <2>2, <3>1, Zenon DEF Returned
  <2>3. QED
    BY <2>1, <2>2, Zenon
<1>15. QED
  BY <1>9, <1>10, <1>11, <1>12, <1>13, <1>14, Zenon DEF Core

-----------------------------------------------------------------------------

(* Every step of the queue keeps the invariant. *)
LEMMA RingStep == RingInv /\ [MQNext]_mq_vars => RingInv'
<1> SUFFICES ASSUME RingInv, [MQNext]_mq_vars PROVE RingInv'
  BY Zenon
<1>1. CASE UNCHANGED mq_vars
  BY <1>1 DEF mq_vars, shm_vars, socket_vars, writer_vars, reader_vars, RingInv, Core,
     MQTypeOK, ReaderAt, ChunksOK, ChunkIs, WriterOK, LoadedOK, SockOK, SockSent,
     Returned, Span, Claiming
<1>2. CASE MQNext
  <2>1. MQTypeOK'
    BY <1>2, RingTypes, Zenon
  <2>2. CASE enqueue \/ InEnqueue
    BY <2>1, <2>2, EnqueueKeeps, CheckSumKeeps, CheckWrittenKeeps, FillKeeps, FilledKeeps,
       ResetFlagKeeps, PublishKeeps, SendKeeps, NotifyKeeps, Zenon DEF InEnqueue, RingInv
  <2>3. ASSUME NEW r \in Readers,
               dequeue(r) \/ InDequeue(r) \/ shutdown(r) \/ cancel_wait(r)
        PROVE  RingInv'
    BY <2>1, <2>3, DequeueKeeps, CheckReadKeeps, CheckReadyKeeps, PollKeeps, WokenKeeps,
       CopyKeeps, MarkKeeps, RecvKeeps, ShutdownKeeps, CancelKeeps, Zenon DEF InDequeue, RingInv
  <2>4. QED
    BY <1>2, <2>2, <2>3, Zenon DEF MQNext
<1>3. QED
  BY <1>1, <1>2, Zenon

(* The inductive invariant holds in every reachable state. *)
LEMMA RingInvariance == MQSpec => []RingInv
BY RingInit, RingStep, PTL DEF MQSpec

(* Every reader dequeues every object once, whole and in the order of the   *)
(* enqueues, whatever the interleaving of the flag accesses (acquire_write, *)
(* acquire_read, dequeue).                                                  *)
THEOREM DeliveredInOrder == MQSpec => []InOrder
<1>1. RingInv => InOrder
  BY Zenon DEF RingInv, Core, Returned, InOrder
<1>2. QED
  BY <1>1, RingInvariance, PTL

(* The writer never fills a chunk that a reader is copying from. *)
THEOREM NoWriteDuringRead == MQSpec => []ChunkExclusive
<1>1. ASSUME RingInv PROVE ChunkExclusive
  <2> SUFFICES ASSUME Claiming, NEW r \in Readers, r_pc[r] \in {"copy", "mark"}
               PROVE  r_idx[r] # w_idx
    BY Zenon DEF ChunkExclusive, Claiming
  <2>1. ReaderAt(r) /\ Span = max_chunks - 1 /\ MQTypeOK
    BY <1>1, Zenon DEF RingInv, Core, Span
  <2>2. sent - taken[r] \in 1 .. max_chunks - 1
    BY <2>1, QueueAssumption DEF ReaderAt, MQTypeOK
  <2>3. Slot(w_idx, sent - taken[r]) # w_idx
    BY <2>1, <2>2, SlotFacts, Zenon DEF MQTypeOK
  <2>4. QED
    BY <2>1, <2>3, Zenon DEF ReaderAt
<1>2. QED
  BY <1>1, RingInvariance, PTL

(* The queue implements the abstract broadcast queue: publishing a chunk is *)
(* its Enqueue, returning an object its Dequeue, all else a stutter.        *)
THEOREM ImplementsBroadcast == MQSpec => Broadcast
<1>1. MQInit => BQ!Init
  BY Zenon DEF MQInit, BQ!Init
<1>2. ASSUME RingInv, [MQNext]_mq_vars PROVE [BQ!Next]_(BQ!vars)
  <2>0. /\ sent \in Nat /\ max_chunks \in Nat
        /\ \A r \in Readers : taken[r] \in Nat /\ got[r] \in Nat
        /\ \A r \in Readers : ReaderAt(r) /\ Returned(r)
    BY <1>2, QueueAssumption, Zenon DEF RingInv, MQTypeOK, Core
  <2>1. CASE publish
    <3>1. sent' = sent + 1 /\ UNCHANGED <<got, ret>> /\ Span = max_chunks - 1
      BY <2>1, Zenon DEF publish, Span, Claiming
    <3>2. ASSUME NEW r \in Readers PROVE sent - got[r] <= max_chunks
      <4>1. sent - taken[r] <= max_chunks - 1 /\ (got[r] = taken[r] \/ got[r] = taken[r] - 1)
        BY <2>0, <3>1, Zenon DEF ReaderAt, Returned
      <4>2. QED
        BY <2>0, <4>1
    <3>3. QED
      BY <3>1, <3>2, Zenon DEF BQ!Next, BQ!Enqueue
  <2>2. ASSUME NEW r \in Readers, mark(r) PROVE BQ!Next \/ UNCHANGED BQ!vars
    <3>1. taken[r] < sent /\ got[r] = taken[r] /\ r_val[r] = Obj(taken[r]) /\ sent' = sent
      BY <2>0, <2>2, Zenon DEF ReaderAt, Returned, mark
    <3>2. CASE r_val[r] = Overflow
      BY <2>2, <3>1, <3>2, Zenon DEF mark, BQ!vars
    <3>3. CASE r_val[r] # Overflow
      <4>1. r_val[r] = got[r]
        BY <3>1, <3>3, Zenon DEF Obj
      <4>2. got' = [got EXCEPT ![r] = @ + 1] /\ ret' = [ret EXCEPT ![r] = got[r]]
        BY <2>2, <3>3, <4>1, Zenon DEF mark, Return
      <4>3. BQ!Dequeue(r)
        BY <3>1, <4>2, Zenon DEF BQ!Dequeue
      <4>4. QED
        BY <4>3, Zenon DEF BQ!Next
    <3>4. QED
      BY <3>2, <3>3, Zenon
  <2>3. ASSUME NEW r \in Readers, recv(r) PROVE BQ!Next
    <3>1. /\ got' = [got EXCEPT ![r] = @ + 1] /\ ret' = [ret EXCEPT ![r] = Head(sock[r])]
          /\ sent' = sent
      BY <2>3, Zenon DEF recv, Return
    <3>2. got[r] < sent
      <4>1. r_pc[r] = "recv"
        BY <2>3, Zenon DEF recv
      <4>2. taken[r] <= sent /\ got[r] = taken[r] - 1
        BY <2>0, <4>1, Zenon DEF ReaderAt, Returned
      <4>3. QED
        BY <2>0, <4>2
    <3>3. Head(sock[r]) = got[r]
      <4>1. RingInv'
        BY <1>2, RingStep, Zenon
      <4>2. ret'[r] = got'[r] - 1
        BY <4>1, Zenon DEF RingInv, Core, Returned
      <4>3. ret'[r] = Head(sock[r]) /\ got'[r] = got[r] + 1
        BY <1>2, <3>1, Zenon DEF RingInv, MQTypeOK
      <4>4. QED
        BY <2>0, <4>2, <4>3
    <3>4. QED
      BY <3>1, <3>2, <3>3, Zenon DEF BQ!Next, BQ!Dequeue
  <2>4. CASE UNCHANGED <<sent, got, ret>>
    BY <2>4, Zenon DEF BQ!vars
  <2>5. \/ publish \/ UNCHANGED <<sent, got, ret>>
        \/ \E r \in Readers : mark(r) \/ recv(r)
    <3>1. CASE UNCHANGED mq_vars
      BY <3>1, Zenon DEF mq_vars
    <3>2. CASE enqueue \/ InEnqueue
      BY <3>2, Zenon DEF InEnqueue, enqueue, check_sum, check_written, fill, filled, reset_flag,
         send, notify
    <3>3. ASSUME NEW r \in Readers,
                 dequeue(r) \/ InDequeue(r) \/ shutdown(r) \/ cancel_wait(r)
          PROVE  mark(r) \/ recv(r) \/ UNCHANGED <<sent, got, ret>>
      BY <3>3, Zenon DEF InDequeue, dequeue, check_read, check_ready, poll, woken, copy,
         shutdown, cancel_wait
    <3>4. QED
      BY <1>2, <3>1, <3>2, <3>3, Zenon DEF MQNext
  <2>6. QED
    BY <2>1, <2>2, <2>3, <2>4, <2>5, Zenon
<1>3. QED
  BY <1>1, <1>2, RingInvariance, PTL DEF MQSpec, Broadcast, BQ!Spec
=============================================================================
