------------------------------ MODULE KVCache ------------------------------
(***************************************************************************)
(* The scheduler's KV-cache bookkeeping: KVCacheManager on top of one      *)
(* full-attention SingleTypeKVCacheManager and the BlockPool, with prefix  *)
(* caching off (the only mode SKIVE supports).                             *)
(*                                                                         *)
(* The free block queue is kept as a set: get_new_blocks may hand out any  *)
(* free blocks, in any order, which includes the FIFO order of the code.   *)
(***************************************************************************)
EXTENDS BlockMath

CONSTANTS
  Requests,    \* request ids
  Blocks,      \* physical blocks of the pool, the null block excluded
  NullBlock,   \* BlockPool.null_block (block_id 0)
  BlockSize    \* tokens per block

ASSUME KVAssumption ==
  /\ IsFiniteSet(Requests)
  /\ IsFiniteSet(Blocks)
  /\ NullBlock \notin Blocks
  /\ BlockSize \in Nat \ {0}

VARIABLES
  req_to_blocks,  \* [Requests -> Seq(Blocks \cup {NullBlock})], <<>> = no entry
  ref_cnt,        \* KVCacheBlock.ref_cnt
  free            \* the blocks of the FreeKVCacheBlockQueue

kvVars == <<req_to_blocks, ref_cnt, free>>

Entries == Blocks \cup {NullBlock}

KVInit ==
  /\ req_to_blocks = [r \in Requests |-> <<>>]
  /\ ref_cnt = [b \in Blocks |-> 0]
  /\ free = Blocks

\* Blocks to allocate so that request r has slots for n tokens.
get_num_blocks_to_allocate(r, n) ==
  LET missing == CeilDiv(n, BlockSize) - Len(req_to_blocks[r])
  IN  IF missing > 0 THEN missing ELSE 0

\* The blocks get_new_blocks(n) can return: n different free ones.
get_new_blocks(n) ==
  {s \in [1..n -> free] : \A i, k \in 1..n : i # k => s[i] # s[k]}

\* allocate_new_blocks: the new blocks nb leave the pool for request r.
allocate_new_blocks(r, nb) ==
  /\ req_to_blocks' = [req_to_blocks EXCEPT ![r] = @ \o nb]
  /\ ref_cnt' = [b \in Blocks |-> IF b \in Elems(nb) THEN ref_cnt[b] + 1 ELSE ref_cnt[b]]
  /\ free' = free \ Elems(nb)

\* How many of the entries J of request r are block b.
Occurrences(r, J, b) == Cardinality({j \in J : req_to_blocks[r][j] = b})

\* BlockPool.free_blocks on the entries J of request r: every listed block loses
\* one reference, those left with none rejoin the queue, the null block never.
free_blocks(r, J) ==
  LET left == [b \in Blocks |-> ref_cnt[b] - Occurrences(r, J, b)]
  IN  /\ ref_cnt' = left
      /\ free' = free \cup {b \in Blocks : left[b] = 0 /\ \E j \in J : req_to_blocks[r][j] = b}

\* KVCacheManager.free
kv_free(r) ==
  /\ free_blocks(r, DOMAIN req_to_blocks[r])
  /\ req_to_blocks' = [req_to_blocks EXCEPT ![r] = <<>>]

-----------------------------------------------------------------------------
KVTypeOK ==
  /\ req_to_blocks \in [Requests -> Seq(Entries)]
  /\ ref_cnt \in [Blocks -> Int]
  /\ free \in SUBSET Blocks

\* No physical block backs two logical entries, of one request or of two.
NoSharedBlock ==
  \A r1, r2 \in Requests :
    \A j1 \in DOMAIN req_to_blocks[r1], j2 \in DOMAIN req_to_blocks[r2] :
      /\ req_to_blocks[r1][j1] = req_to_blocks[r2][j2]
      /\ req_to_blocks[r1][j1] \in Blocks
      => r1 = r2 /\ j1 = j2

\* A block is held by some request exactly when its ref_cnt is 1, and is in
\* the free queue exactly when its ref_cnt is 0: none is leaked, none is
\* free and in use.
RefCountsExact ==
  \A b \in Blocks :
    /\ ref_cnt[b] \in {0, 1}
    /\ ref_cnt[b] = 0 <=> b \in free
    /\ ref_cnt[b] = 1 <=> \E r \in Requests : b \in Elems(req_to_blocks[r])

\* The pool's accounting, across allocation, preemption, finish, abort and
\* SKIVE's reclaim (block_pool.py free_blocks / get_new_blocks, skive_reclaim).
PoolConsistent == NoSharedBlock /\ RefCountsExact
=============================================================================
