-------------------------- MODULE EvictionManager --------------------------
(***************************************************************************)
(* BlockEvictionManager (vllm/kv_evict/manager.py), the one-block-at-a-    *)
(* time policy, driven on one sequence: tokens arrive, and whenever        *)
(* should_evict holds the caller evicts the picked block and records it.   *)
(* row is the sequence's table (0 = evicted), batch the row that           *)
(* selection.py's one-shot plan gives from where the evictions began.      *)
(***************************************************************************)
EXTENDS Selection

CONSTANTS
  block_size, kv_budget, num_sink_blocks, num_local_blocks,   \* EvictionConfig
  MaxLen,     \* bound on the sequence length
  Scores      \* the importance values told apart

ASSUME ManagerAssumption ==
  /\ block_size \in Nat /\ kv_budget \in Nat
  /\ num_sink_blocks \in Nat /\ num_local_blocks \in Nat
  /\ ValidEvictionConfig(block_size, kv_budget, num_sink_blocks, num_local_blocks)
  /\ MaxLen \in Nat \ {0}
  /\ Scores \subseteq Int

VARIABLES
  registered,       \* seq_id is in _seqs
  total_len,
  blocks_evicted,   \* _SeqState
  row,
  score,            \* importance of each block, frozen once it is full
  batch             \* <<>> = no eviction since the last token

vars == <<registered, total_len, blocks_evicted, row, score, batch>>

MaxBlocks == CeilDiv(MaxLen, block_size)

\* Mutant: a partial block is not counted.
num_blocks_floor == (total_len \div block_size) - blocks_evicted

num_blocks == CeilDiv(total_len, block_size) - blocks_evicted

\* Ranks among the n held blocks that must stay.
protected_indices(n) ==
  (1..Minimum(num_sink_blocks, n)) \cup ((Maximum(0, n - num_local_blocks) + 1)..n)

should_evict ==
  /\ total_len > 0
  /\ total_len % block_size = 0
  /\ num_blocks > kv_budget

\* The entry of the k-th block still held.
HeldEntry(k) == CHOOSE j \in real_indices(row, 0) : RealRank(row, 0, j) = k

\* The rank of the unprotected held block of lowest score, ties to the lowest.
pick_block ==
  LET C == (1..num_blocks) \ protected_indices(num_blocks)
      S(k) == score[HeldEntry(k)]
  IN  CHOOSE k \in C : \A i \in C : S(k) < S(i) \/ (S(k) = S(i) /\ k <= i)

OneShot ==
  NullOut(row, 0,
          choose_lowest(candidates(row, 0, num_sink_blocks, num_local_blocks), score,
                        num_to_evict(row, 0, num_sink_blocks, num_local_blocks, kv_budget)))

Init ==
  /\ registered = FALSE
  /\ total_len = 0
  /\ blocks_evicted = 0
  /\ row = <<>>
  /\ score \in [1..MaxBlocks -> Scores]
  /\ batch = <<>>

\* A sequence starts with a prompt of n tokens.
register_seq(n) ==
  /\ ~registered
  /\ registered' = TRUE
  /\ blocks_evicted' = 0
  /\ total_len' = n
  /\ row' = [j \in 1..CeilDiv(n, block_size) |-> j]
  /\ UNCHANGED <<score, batch>>

\* One more token, in a new block when the last one is full.
DecodeToken ==
  /\ registered
  /\ ~should_evict
  /\ total_len < MaxLen
  /\ total_len' = total_len + 1
  /\ row' = IF total_len % block_size = 0 THEN Append(row, Len(row) + 1) ELSE row
  /\ batch' = <<>>
  /\ UNCHANGED <<registered, blocks_evicted, score>>

\* pick_block, the caller's eviction, and record_eviction
record_eviction ==
  /\ registered
  /\ should_evict
  /\ row' = NullOut(row, 0, {HeldEntry(pick_block)})
  /\ blocks_evicted' = blocks_evicted + 1
  /\ batch' = IF batch = <<>> THEN OneShot ELSE batch
  /\ UNCHANGED <<registered, total_len, score>>

deregister_seq ==
  /\ registered
  /\ registered' = FALSE
  /\ total_len' = 0
  /\ blocks_evicted' = 0
  /\ row' = <<>>
  /\ batch' = <<>>
  /\ UNCHANGED score

Next ==
  \/ \E n \in 1..MaxLen : register_seq(n)
  \/ DecodeToken
  \/ record_eviction
  \/ deregister_seq

Spec == Init /\ [][Next]_vars

-----------------------------------------------------------------------------
\* The counter-based num_blocks equals the blocks really held in the table,
\* through any sequence of tokens, evictions and re-registrations, and "we must
\* always have at least one evictable block at the moment eviction fires":
\* pick_block never finds every held block protected.
AccountingExact ==
  registered =>
    /\ num_blocks = Cardinality(real_indices(row, 0))
    /\ should_evict => (1..num_blocks) \ protected_indices(num_blocks) # {}

\* Evicting one picked block at a time until should_evict no longer holds ends
\* in the row that plan_eviction and choose_lowest produce in one shot.
OneShotIsIteratedPick == batch # <<>> /\ ~should_evict => row = batch
=============================================================================
