----------------------------- MODULE Selection -----------------------------
(***************************************************************************)
(* SKIVE's pure decisions: which blocks of a block-table row may go, how   *)
(* many, and which (vllm/kv_evict/selection.py), and the compacted gather  *)
(* list the attention read uses (vllm/kv_evict/compaction.py).             *)
(*                                                                         *)
(* A row is a sequence of block ids; null marks an evicted entry.  Rows    *)
(* and ranks are 1-based here: the k-th real block has rank k.             *)
(***************************************************************************)
EXTENDS BlockMath

real_indices(row, null) == {j \in DOMAIN row : row[j] # null}

\* The rank of the real entry j among the real entries.
RealRank(row, null, j) == Cardinality({i \in real_indices(row, null) : i <= j})

\* Mutant: the local window starts one block late.
candidates_local_off_by_one(row, null, sink, local) ==
  LET n == Cardinality(real_indices(row, null))
  IN  {j \in real_indices(row, null) :
         sink < RealRank(row, null, j) /\ RealRank(row, null, j) <= n - local + 1}

\* Mutant: the sink ends one block early.
candidates_sink_off_by_one(row, null, sink, local) ==
  LET n == Cardinality(real_indices(row, null))
  IN  {j \in real_indices(row, null) :
         sink <= RealRank(row, null, j) /\ RealRank(row, null, j) <= n - local}

\* Real entries outside the first sink and the last local real ones.
candidates(row, null, sink, local) ==
  LET n == Cardinality(real_indices(row, null))
  IN  {j \in real_indices(row, null) :
         sink < RealRank(row, null, j) /\ RealRank(row, null, j) <= n - local}

num_to_evict(row, null, sink, local, budget) ==
  Minimum(Maximum(Cardinality(real_indices(row, null)) - budget, 0),
          Cardinality(candidates(row, null, sink, local)))

\* Mutant: ties go to the higher index.
choose_lowest_unstable(C, score, k) ==
  {j \in C : Cardinality({i \in C : score[i] < score[j] \/ (score[i] = score[j] /\ i > j)}) < k}

\* The k candidates of lowest score, ties to the lower index (stable argsort).
choose_lowest(C, score, k) ==
  {j \in C : Cardinality({i \in C : score[i] < score[j] \/ (score[i] = score[j] /\ i < j)}) < k}

\* The row with the entries J repointed to the null block.
NullOut(row, null, J) == [j \in DOMAIN row |-> IF j \in J THEN null ELSE row[j]]

\* EvictionConfig.__post_init__ accepts the configuration.
ValidEvictionConfig(block_size, budget, sink, local) ==
  block_size > 0 /\ budget > 0 /\ sink >= 0 /\ local >= 0 /\ budget >= sink + local

-----------------------------------------------------------------------------
(* compact_block_table_torch, on one decode row: only the entries within the *)
(* context count.                                                            *)

Context(row, seq_len, block_size) == SubSeq(row, 1, CeilDiv(seq_len, block_size))

\* The retained ids, left-packed in logical order.
compact_row(row, null, seq_len, block_size) ==
  LET real(b) == b # null IN SelectSeq(Context(row, seq_len, block_size), real)

\* Mutant: the length shrinks by evicted entries, not by their tokens.
compact_seq_len_in_blocks(row, null, seq_len, block_size) ==
  LET c == Context(row, seq_len, block_size)
  IN  seq_len - (Len(c) - Cardinality(real_indices(c, null)))

compact_seq_len(row, null, seq_len, block_size) ==
  LET c == Context(row, seq_len, block_size)
  IN  seq_len - (Len(c) - Cardinality(real_indices(c, null))) * block_size
=============================================================================
