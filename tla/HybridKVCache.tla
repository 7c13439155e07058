--------------------------- MODULE HybridKVCache ---------------------------
(***************************************************************************)
(* The KV cache of a hybrid model with prefix caching on: BlockPool        *)
(* (block_pool.py), the FullAttentionManager and the SlidingWindowManager  *)
(* of the two groups of a gpt-oss model (single_type_kv_cache_manager.py), *)
(* HybridKVCacheCoordinator and KVCacheManager.  The operators are the     *)
(* methods, from a state of the cache to the next; the state extends the   *)
(* record of the free block queue with                                     *)
(*   ref_cnt, block_hash   of every block                                  *)
(*   cached                BlockHashToBlockMap: hash -> blocks, oldest first*)
(*   blocks[g][r]          req_to_blocks of group g's manager              *)
(*   num_cached[g][r]      its num_cached_block, None when there is none   *)
(* A block hash is <<group, the tokens up to the end of the block>>: what  *)
(* the chain of hashes stands for.  Left out: EAGLE, retention intervals,  *)
(* KV connectors, context parallelism, groups of different block sizes.    *)
(***************************************************************************)
EXTENDS FreeBlockQueue

CONSTANTS
  Requests,
  block_size,
  sliding_window,
  max_num_batched_tokens,
  max_model_len

ASSUME HybridAssumption ==
  /\ block_size \in Nat \ {0}
  /\ sliding_window \in Nat \ {0, 1}
  /\ max_num_batched_tokens \in Nat \ {0}
  /\ max_model_len \in Nat \ {0}

Groups == <<"full", "swa">>         \* single_type_managers; full attention first
Null == 0                           \* null_block: popped first from the queue
NoHash == <<"none", <<>>>>          \* block_hash is None

cdiv(a, b) == (a + b - 1) \div b
AtLeast0(n) == IF n < 0 THEN 0 ELSE n
AtMost(n, m) == IF n < m THEN n ELSE m

HashOf(g, tokens, i) == <<g, SubSeq(tokens, 1, i * block_size)>>

kv_init ==
  LET q == popleft_n(NewQueue, 1).q
  IN  [next |-> q.next, prev |-> q.prev, num_free_blocks |-> q.num_free_blocks, ok |-> q.ok,
       ref_cnt |-> [b \in Blocks |-> 0],
       block_hash |-> [b \in Blocks |-> NoHash],
       cached |-> << >>,
       blocks |-> [g \in ToSet(Groups) |-> [r \in Requests |-> <<>>]],
       num_cached |-> [g \in ToSet(Groups) |-> [r \in Requests |-> None]]]

-----------------------------------------------------------------------------
(* BlockPool *)

\* BlockHashToBlockMap.insert, pop and get_one_block
insert(kv, h, b) ==
  [kv EXCEPT !.cached = [k \in DOMAIN kv.cached \cup {h} |->
                           IF k # h THEN kv.cached[k]
                           ELSE IF h \in DOMAIN kv.cached THEN Append(kv.cached[h], b)
                           ELSE <<b>>]]

pop(kv, h, b) ==
  LET left == SelectSeq(kv.cached[h], LAMBDA c : c # b)
  IN  [kv EXCEPT !.cached = [k \in {k \in DOMAIN kv.cached : k # h \/ left # <<>>} |->
                               IF k = h THEN left ELSE kv.cached[k]]]

get_cached_block(kv, h) == IF h \in DOMAIN kv.cached THEN Head(kv.cached[h]) ELSE None

maybe_evict_cached_block(kv, b) ==
  LET h == kv.block_hash[b]
  IN  IF h \notin DOMAIN kv.cached \/ b \notin ToSet(kv.cached[h]) THEN kv
      ELSE [pop(kv, h, b) EXCEPT !.block_hash[b] = NoHash]

get_new_blocks(kv, n) ==
  LET popped == popleft_n(kv, n)
      take(k, b) == [maybe_evict_cached_block(Check(k, k.ref_cnt[b] = 0), b)
                       EXCEPT !.ref_cnt[b] = @ + 1]
  IN  [kv  |-> FoldLeft(take, Check(popped.q, n <= kv.num_free_blocks), popped.ret),
       ret |-> popped.ret]

\* The reference count of the null block is not maintained.
Real(blocks) == SelectSeq(blocks, LAMBDA b : b # Null)

\* Mutant: a block that was free stays in the free queue.
touch_counts_only(kv, blocks) ==
  FoldLeft(LAMBDA k, b : [k EXCEPT !.ref_cnt[b] = @ + 1], kv, Real(blocks))

touch(kv, blocks) ==
  LET one(k, b) == [(IF k.ref_cnt[b] = 0 THEN remove(k, b) ELSE k) EXCEPT !.ref_cnt[b] = @ + 1]
  IN  FoldLeft(one, kv, Real(blocks))

free_blocks(kv, ordered, prepend) ==
  LET real == Real(ordered)
      k    == FoldLeft(LAMBDA s, b : [s EXCEPT !.ref_cnt[b] = @ - 1], kv, real)
      freed == SelectSeq(real, LAMBDA b : k.ref_cnt[b] = 0)
  IN  IF prepend THEN prepend_n(k, freed) ELSE append_n(k, freed)

cache_full_blocks(kv, r, g, tokens, num_full) ==
  LET from == kv.num_cached[g][r]
      one(k, i) == LET b == k.blocks[g][r][i] IN
                   IF b = Null THEN k
                   ELSE insert([Check(k, k.block_hash[b] = NoHash)
                                  EXCEPT !.block_hash[b] = HashOf(g, tokens, i)],
                               HashOf(g, tokens, i), b)
  IN  FoldLeft(one, kv, [i \in 1 .. num_full - AtLeast0(from) |-> i + AtLeast0(from)])

\* BlockPool.reset_prefix_cache: only when no block but the null block is in use
pool_reset_prefix_cache(kv) ==
  IF num_gpu_blocks - kv.num_free_blocks # 1 THEN kv
  ELSE [kv EXCEPT !.cached = << >>, !.block_hash = [b \in Blocks |-> NoHash]]

-----------------------------------------------------------------------------
(* The managers of the two groups *)

\* SlidingWindowSpec.max_admission_blocks_per_request
max_admission_blocks_per_request ==
  cdiv(AtMost(sliding_window - 1 + max_num_batched_tokens, max_model_len), block_size) + 1

\* The engine starts only with room for a request of max_model_len tokens.
ASSUME PoolAssumption ==
  num_gpu_blocks - 1 >= cdiv(max_model_len, block_size) + max_admission_blocks_per_request

\* Mutant: one token too many is behind the window.
get_num_skipped_tokens_off_by_one(g, num_computed) ==
  IF g = "swa" THEN AtLeast0(num_computed - sliding_window + 2) ELSE 0

get_num_skipped_tokens(g, num_computed) ==
  IF g = "swa" THEN AtLeast0(num_computed - sliding_window + 1) ELSE 0

num_skipped_blocks(g, num_computed) == get_num_skipped_tokens(g, num_computed) \div block_size

num_evictable(kv, blocks) ==
  Len(SelectSeq(blocks, LAMBDA b : kv.ref_cnt[b] = 0 /\ b # Null))

\* Mutant: the blocks of a request longer than the window are all asked for.
get_num_blocks_to_allocate_uncapped(kv, r, g, num_tokens, hit, computed, cap) ==
  LET required == cdiv(num_tokens, block_size)
      held     == Len(kv.blocks[g][r])
      skipped  == num_skipped_blocks(g, computed)
      local    == Len(hit) + held
  IN  IF kv.num_cached[g][r] # None THEN AtLeast0(required - held)
      ELSE AtLeast0(required - (IF skipped > local THEN skipped ELSE local))
             + num_evictable(kv, SubSeq(hit, AtLeast0(skipped - held) + 1, Len(hit)))

\* get_num_blocks_to_allocate of g's manager; hit = new_computed_blocks
get_num_blocks_to_allocate(kv, r, g, num_tokens, hit, computed, cap) ==
  LET wanted   == cdiv(num_tokens, block_size)
      required == IF cap /\ g = "swa" THEN AtMost(wanted, max_admission_blocks_per_request)
                                      ELSE wanted
      held     == Len(kv.blocks[g][r])
      skipped  == num_skipped_blocks(g, computed)
      local    == Len(hit) + held
  IN  IF kv.num_cached[g][r] # None THEN AtLeast0(required - held)
      ELSE AtLeast0(required - (IF skipped > local THEN skipped ELSE local))
             + num_evictable(kv, SubSeq(hit, AtLeast0(skipped - held) + 1, Len(hit)))

allocate_new_computed_blocks(kv, r, g, hit, computed) ==
  LET skipped == num_skipped_blocks(g, computed)
      kept    == SubSeq(hit, skipped + 1, Len(hit))
      all     == [i \in 1 .. skipped |-> Null] \o kept
  IN  IF kv.num_cached[g][r] # None THEN Check(kv, hit = <<>>)
      ELSE [touch(Check(kv, kv.blocks[g][r] = <<>>), kept)
              EXCEPT !.blocks[g][r] = all, !.num_cached[g][r] = Len(all)]

allocate_new_blocks(kv, r, g, num_tokens) ==
  LET new == get_new_blocks(kv, AtLeast0(cdiv(num_tokens, block_size) - Len(kv.blocks[g][r])))
  IN  [new.kv EXCEPT !.blocks[g][r] = @ \o new.ret]

\* cache_blocks of g's manager: with equal block sizes every block is reachable.
manager_cache_blocks(kv, r, g, tokens, num_tokens) ==
  LET num_full == num_tokens \div block_size
  IN  IF AtLeast0(kv.num_cached[g][r]) >= num_full THEN kv
      ELSE [cache_full_blocks(kv, r, g, tokens, num_full) EXCEPT !.num_cached[g][r] = num_full]

\* remove_skipped_blocks: what fell out of the window is freed, the blocks no hash
\* was given to first in line for reuse.
manager_remove_skipped_blocks(kv, r, g, computed) ==
  LET blocks  == kv.blocks[g][r]
      n       == AtMost(num_skipped_blocks(g, computed), Len(blocks))
      nulls   == {i \in 1 .. n : blocks[i] = Null}
      from    == CHOOSE i \in 0 .. n : (i = 0 \/ i \in nulls) /\ \A j \in nulls : j <= i
      removed == Reverse(SubSeq(blocks, from + 1, n))
      cached(b) == kv.block_hash[b] # NoHash
      uncached(b) == ~cached(b)
      k == [kv EXCEPT !.blocks[g][r] = [i \in DOMAIN blocks |->
                                         IF i \in from + 1 .. n THEN Null ELSE blocks[i]]]
  IN  free_blocks(free_blocks(k, SelectSeq(removed, cached), FALSE),
                  SelectSeq(removed, uncached), TRUE)

\* Mutant: the head of the chain is freed, and so evicted, first.
manager_free_in_order(kv, r, g) ==
  [free_blocks(kv, kv.blocks[g][r], FALSE)
     EXCEPT !.blocks[g][r] = <<>>, !.num_cached[g][r] = None]

\* free of g's manager, tail of the chain first
manager_free(kv, r, g) ==
  LET blocks == Reverse(kv.blocks[g][r])
      cached(b) == kv.block_hash[b] # NoHash
      uncached(b) == ~cached(b)
      k == IF g = "full" THEN free_blocks(kv, blocks, FALSE)
           ELSE free_blocks(free_blocks(kv, SelectSeq(blocks, cached), FALSE),
                            SelectSeq(blocks, uncached), TRUE)
  IN  [k EXCEPT !.blocks[g][r] = <<>>, !.num_cached[g][r] = None]

\* FullAttentionManager.find_longest_cache_hit: left to right up to the first miss
full_hit(kv, tokens, max_length) ==
  LET n == max_length \div block_size
      Hit(i) == get_cached_block(kv, HashOf("full", tokens, i))
      misses == {i \in 1 .. n : Hit(i) = None}
      len == IF misses = {} THEN n ELSE (CHOOSE i \in misses : \A j \in misses : i <= j) - 1
  IN  [i \in 1 .. len |-> Hit(i)]

contiguous_blocks_for_hit == cdiv(sliding_window - 1, block_size)

\* SlidingWindowManager.find_longest_cache_hit: the longest prefix whose last
\* contiguous_blocks_for_hit blocks (or all of them) are cached; null before them.
swa_hit(kv, tokens, max_length) ==
  LET n == max_length \div block_size
      Hit(i) == get_cached_block(kv, HashOf("swa", tokens, i))
      first(len) == AtLeast0(len - contiguous_blocks_for_hit) + 1
      lens == {len \in 0 .. n : \A i \in first(len) .. len : Hit(i) # None}
      len == CHOOSE l \in lens : \A m \in lens : m <= l
  IN  [i \in 1 .. len |-> IF i >= first(len) THEN Hit(i) ELSE Null]

-----------------------------------------------------------------------------
(* HybridKVCacheCoordinator and KVCacheManager *)

\* get_computed_blocks: the hit of both groups; one round settles two groups.
get_computed_blocks(kv, tokens) ==
  LET full == full_hit(kv, tokens, Len(tokens) - 1)
      swa  == swa_hit(kv, tokens, Len(full) * block_size)
  IN  [g \in ToSet(Groups) |-> IF g = "full" THEN SubSeq(full, 1, Len(swa)) ELSE swa]

cache_blocks(kv, r, tokens, num_tokens) ==
  FoldLeft(LAMBDA k, g : manager_cache_blocks(k, r, g, tokens, num_tokens), kv, Groups)

kv_free(kv, r) == FoldLeft(LAMBDA k, g : manager_free(k, r, g), kv, Groups)

blocks_to_allocate(kv, r, num_tokens, hit, computed, cap) ==
  FoldLeft(LAMBDA n, g :
             n + get_num_blocks_to_allocate(kv, r, g, num_tokens, hit[g], computed, cap),
           0, Groups)

NoHit == [g \in ToSet(Groups) |-> <<>>]

\* allocate_slots: fits says whether it succeeds, kv is the state it leaves; the
\* blocks outside the window are gone even when it fails.
allocate_slots(kv, r, tokens, computed, num_new_tokens, hit, full_sequence_must_fit) ==
  LET need_slot == AtMost(computed + num_new_tokens, max_model_len)
      k1 == FoldLeft(LAMBDA k, g : manager_remove_skipped_blocks(k, r, g, computed), kv, Groups)
      k2 == IF hit = NoHit THEN k1
            ELSE FoldLeft(LAMBDA k, g : allocate_new_computed_blocks(k, r, g, hit[g], computed), k1, Groups)
      k3 == FoldLeft(LAMBDA k, g : allocate_new_blocks(k, r, g, need_slot), k2, Groups)
      k4 == cache_blocks(k3, r, tokens, AtMost(computed + num_new_tokens, Len(tokens)))
  IN  IF full_sequence_must_fit
           /\ blocks_to_allocate(kv, r, AtMost(Len(tokens), max_model_len), hit, computed, TRUE)
                > kv.num_free_blocks
      THEN [fits |-> FALSE, kv |-> kv]
      ELSE IF blocks_to_allocate(k1, r, need_slot, hit, computed, FALSE) > k1.num_free_blocks
      THEN [fits |-> FALSE, kv |-> k1]
      ELSE [fits |-> TRUE, kv |-> k4]

\* Mutant: the request itself is not counted among the holders.
get_num_common_prefix_blocks_others(kv, r) ==
  LET others == {q \in Requests \ {r} : kv.blocks["full"][q] # <<>>}
      own == kv.blocks["full"][r]
      other == {i \in DOMAIN own : kv.ref_cnt[own[i]] # Cardinality(others)}
  IN  IF other = {} THEN Len(own)
      ELSE (CHOOSE i \in other : \A j \in other : i <= j) - 1

\* get_num_common_prefix_blocks of the full-attention group, for a running request
get_num_common_prefix_blocks(kv, r) ==
  LET holders == {q \in Requests : kv.blocks["full"][q] # <<>>}
      own == kv.blocks["full"][r]
      other == {i \in DOMAIN own : kv.ref_cnt[own[i]] # Cardinality(holders)}
  IN  IF other = {} THEN Len(own)
      ELSE (CHOOSE i \in other : \A j \in other : i <= j) - 1
=============================================================================
