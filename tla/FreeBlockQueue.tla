--------------------------- MODULE FreeBlockQueue ---------------------------
(***************************************************************************)
(* FreeKVCacheBlockQueue of vllm.v1.core.kv_cache_utils: the free blocks   *)
(* as a doubly linked list through their prev_free_block and               *)
(* next_free_block fields, between a fake head and a fake tail.  A queue   *)
(* is a record of the two links of every node and num_free_blocks; the     *)
(* operators are the methods, from queue to queue.  ok turns FALSE where   *)
(* the code raises.                                                        *)
(***************************************************************************)
EXTENDS Integers, SequencesExt

CONSTANT num_gpu_blocks

ASSUME QueueAssumption == num_gpu_blocks \in Nat \ {0}

Blocks == 0 .. num_gpu_blocks - 1   \* block ids
HEAD == -1                          \* fake_free_list_head
TAIL == -2                          \* fake_free_list_tail
None == -3                          \* the Python None
Nodes == Blocks \cup {HEAD, TAIL, None}

-----------------------------------------------------------------------------
Link(q, a, b) == [q EXCEPT !.next[a] = b, !.prev[b] = a]

Unlink(q, b) == [q EXCEPT !.next[b] = None, !.prev[b] = None]

Check(q, cond) == [q EXCEPT !.ok = @ /\ cond]

\* Links blocks in their order behind node a, and the last of them before z.
Chain(q, a, blocks, z) ==
  LET step(acc, b) == [q |-> Link(acc.q, acc.last, b), last |-> b]
      done == FoldLeft(step, [q |-> q, last |-> a], blocks)
  IN  Link(done.q, done.last, z)

\* __init__ on the blocks in id order
NewQueue ==
  LET unlinked == [next |-> [n \in Nodes |-> None], prev |-> [n \in Nodes |-> None],
                   num_free_blocks |-> num_gpu_blocks, ok |-> TRUE]
  IN  Chain(unlinked, HEAD, [i \in 1 .. num_gpu_blocks |-> i - 1], TAIL)

\* popleft_n: the first n blocks leave the queue.
popleft_n(q, n) ==
  LET step(acc, i) == [q    |-> Unlink(Check(acc.q, acc.curr \in Blocks), acc.curr),
                       curr |-> acc.q.next[acc.curr],
                       ret  |-> Append(acc.ret, acc.curr)]
      done == FoldLeft(step, [q |-> q, curr |-> q.next[HEAD], ret |-> <<>>], [i \in 1 .. n |-> i])
  IN  IF n = 0 THEN [q |-> q, ret |-> <<>>]
      ELSE [q   |-> [(IF done.curr = None THEN done.q ELSE Link(done.q, HEAD, done.curr))
                       EXCEPT !.num_free_blocks = @ - n,
                              !.ok = @ /\ q.num_free_blocks >= n],
            ret |-> done.ret]

remove(q, b) ==
  LET linked == Check(q, q.prev[b] # None /\ q.next[b] # None)
  IN  [Unlink(Link(linked, q.prev[b], q.next[b]), b) EXCEPT !.num_free_blocks = @ - 1]

append_n(q, blocks) ==
  IF blocks = <<>> THEN q
  ELSE [Chain(q, q.prev[TAIL], blocks, TAIL) EXCEPT !.num_free_blocks = @ + Len(blocks)]

prepend_n(q, blocks) ==
  IF blocks = <<>> THEN q
  ELSE [Chain(q, HEAD, blocks, q.next[HEAD]) EXCEPT !.num_free_blocks = @ + Len(blocks)]

\* get_all_free_blocks, and the same walk from the tail along prev_free_block;
\* cut off when it is longer than the number of blocks.
Walk(links, from) ==
  LET step(acc, i) == IF links[acc.curr] = None THEN acc
                      ELSE [curr |-> links[acc.curr], ret |-> Append(acc.ret, acc.curr)]
  IN  FoldLeft(step, [curr |-> links[from], ret |-> <<>>],
               [i \in 1 .. num_gpu_blocks + 1 |-> i]).ret

get_all_free_blocks(q) == Walk(q.next, HEAD)
=============================================================================
