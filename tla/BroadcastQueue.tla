--------------------------- MODULE BroadcastQueue ---------------------------
(***************************************************************************)
(* What vllm.distributed.device_communicators.shm_broadcast promises its   *)
(* users: one writer enqueues objects, numbered 0, 1, 2, ... here, and     *)
(* every reader dequeues each of them exactly once and in that order.  The *)
(* writer is never more than max_chunks objects, and the one a reader is   *)
(* fetching, ahead of the slowest reader.                                  *)
(***************************************************************************)
EXTENDS Integers

CONSTANTS Readers, max_chunks

VARIABLES sent,   \* number of objects enqueued so far
          got,    \* got[r]: number of objects reader r has dequeued
          ret     \* ret[r]: the object r's last dequeue returned, -1 at first

vars == <<sent, got, ret>>

Init ==
    /\ sent = 0
    /\ got = [r \in Readers |-> 0]
    /\ ret = [r \in Readers |-> -1]

Enqueue ==
    /\ \A r \in Readers : sent - got[r] <= max_chunks
    /\ sent' = sent + 1
    /\ UNCHANGED <<got, ret>>

Dequeue(r) ==
    /\ got[r] < sent
    /\ got' = [got EXCEPT ![r] = @ + 1]
    /\ ret' = [ret EXCEPT ![r] = got[r]]
    /\ UNCHANGED sent

Next == Enqueue \/ \E r \in Readers : Dequeue(r)

Spec == Init /\ [][Next]_vars
=============================================================================
