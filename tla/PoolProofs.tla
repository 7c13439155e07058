----------------------------- MODULE PoolProofs -----------------------------
(***************************************************************************)
(* What the engine's proofs share, and the pool: the types and the         *)
(* accounting of the blocks are kept by allocation, by the release of a    *)
(* whole request, by the reclaim of one entry, and so by every step of the *)
(* engine.  The scheduler's queues agree with the requests' statuses and   *)
(* with who holds blocks: QInv is kept by every step.                      *)
(***************************************************************************)
EXTENDS EngineInvariants, FiniteSetTheorems, SequenceTheorems, TLAPS

-----------------------------------------------------------------------------
(* Sequences of blocks and queues *)

\* Indices and values of a concatenation.
LEMMA ConcatFacts ==
  ASSUME NEW S, NEW s \in Seq(S), NEW t \in Seq(S)
  PROVE  /\ s \o t \in Seq(S)
         /\ Len(s) \in Nat /\ Len(t) \in Nat
         /\ DOMAIN s = 1..Len(s) /\ DOMAIN t = 1..Len(t)
         /\ DOMAIN (s \o t) = 1..(Len(s) + Len(t))
         /\ \A j \in 1..Len(s) : (s \o t)[j] = s[j]
         /\ \A i \in 1..Len(t) : (s \o t)[Len(s) + i] = t[i]
         /\ \A j \in DOMAIN (s \o t) :
              \/ j \in 1..Len(s)
              \/ j - Len(s) \in 1..Len(t) /\ (s \o t)[j] = t[j - Len(s)]
         /\ Elems(s \o t) = Elems(s) \cup Elems(t)
<1>1. Len(s) \in Nat /\ Len(t) \in Nat /\ DOMAIN s = 1..Len(s) /\ DOMAIN t = 1..Len(t)
  BY LenProperties, Zenon
<1>2. s \o t \in Seq(S) /\ Len(s \o t) = Len(s) + Len(t)
  BY ConcatProperties, Zenon
<1>3. DOMAIN (s \o t) = 1..(Len(s) + Len(t))
  BY <1>2, LenProperties, Zenon
<1>4. \A j \in 1..(Len(s) + Len(t)) : (s \o t)[j] = IF j <= Len(s) THEN s[j] ELSE t[j - Len(s)]
  BY ConcatProperties, Zenon
<1>5. \A j \in 1..Len(s) : (s \o t)[j] = s[j]
  BY <1>1, <1>4
<1>6. \A i \in 1..Len(t) : Len(s) + i \in 1..(Len(s) + Len(t)) /\ (s \o t)[Len(s) + i] = t[i]
  <2> TAKE i \in 1..Len(t)
  <2>1. Len(s) + i \in 1..(Len(s) + Len(t)) /\ ~(Len(s) + i <= Len(s)) /\ (Len(s) + i) - Len(s) = i
    BY <1>1
  <2>2. (s \o t)[Len(s) + i] = t[(Len(s) + i) - Len(s)]
    BY <2>1, <1>4, Zenon
  <2> QED BY <2>1, <2>2, Zenon
<1>7. \A j \in DOMAIN (s \o t) :
        \/ j \in 1..Len(s)
        \/ j - Len(s) \in 1..Len(t) /\ (s \o t)[j] = t[j - Len(s)]
  BY <1>1, <1>3, <1>4
<1>8. Elems(s \o t) = Elems(s) \cup Elems(t)
  <2>1. \A x \in Elems(s \o t) : x \in Elems(s) \cup Elems(t)
    <3> SUFFICES ASSUME NEW j \in DOMAIN (s \o t) PROVE (s \o t)[j] \in Elems(s) \cup Elems(t)
      BY Zenon DEF Elems
    <3> QED BY <1>1, <1>5, <1>7, Zenon DEF Elems
  <2>2. \A x \in Elems(s) : x \in Elems(s \o t)
    <3> SUFFICES ASSUME NEW j \in 1..Len(s) PROVE s[j] \in Elems(s \o t)
      BY <1>1, Zenon DEF Elems
    <3>1. j \in DOMAIN (s \o t) /\ (s \o t)[j] = s[j]
      BY <1>1, <1>3, <1>5
    <3> QED BY <3>1, Zenon DEF Elems
  <2>3. \A x \in Elems(t) : x \in Elems(s \o t)
    <3> SUFFICES ASSUME NEW i \in 1..Len(t) PROVE t[i] \in Elems(s \o t)
      BY <1>1, Zenon DEF Elems
    <3> QED BY <1>3, <1>6, Zenon DEF Elems
  <2> QED BY <2>1, <2>2, <2>3, Zenon
<1> QED BY <1>1, <1>2, <1>3, <1>5, <1>6, <1>7, <1>8, Zenon

\* Popping the last element of a queue.
LEMMA PopFacts ==
  ASSUME NEW S, NEW s \in Seq(S), NoDuplicates(s), s # <<>>
  PROVE  LET t == SubSeq(s, 1, Len(s) - 1)
         IN  /\ Elems(t) = Elems(s) \ {s[Len(s)]} /\ NoDuplicates(t)
             /\ s[Len(s)] \in Elems(s)
<1> DEFINE t == SubSeq(s, 1, Len(s) - 1)
<1>1. Len(s) \in Nat \ {0} /\ DOMAIN s = 1..Len(s)
  BY LenProperties, EmptySeq, Zenon
<1>2. /\ DOMAIN t = 1..(Len(s) - 1)
      /\ \A i \in 1..(Len(s) - 1) : t[i] = s[i]
  BY <1>1, SubSeqProperties, LenProperties
<1> HIDE DEF t
<1>3. Elems(t) = Elems(s) \ {s[Len(s)]}
  BY <1>1, <1>2 DEF Elems, NoDuplicates
<1>4. NoDuplicates(t) /\ s[Len(s)] \in Elems(s)
  BY <1>1, <1>2 DEF Elems, NoDuplicates
<1> QED BY <1>3, <1>4, Zenon DEF t

\* Where the elements are after one is taken off a queue.
LEMMA WithoutIndex ==
  ASSUME NEW S, NEW s \in Seq(S), NoDuplicates(s), NEW k \in DOMAIN s
  PROVE  LET t == Without(s, s[k])
         IN  /\ t \in Seq(S) /\ Len(t) = Len(s) - 1 /\ DOMAIN t = 1..(Len(s) - 1)
             /\ \A i \in 1..(k - 1) : t[i] = s[i]
             /\ \A i \in k..(Len(s) - 1) : t[i] = s[i + 1]
<1> DEFINE t == Without(s, s[k])
           m == CHOOSE m \in DOMAIN s : s[m] = s[k]
           u == SubSeq(s, 1, k - 1)
           w == SubSeq(s, k + 1, Len(s))
<1>1. m \in DOMAIN s /\ s[m] = s[k]
  BY Zenon
<1>2. m = k
  BY <1>1, Zenon DEF NoDuplicates
<1>3. t = u \o w
  BY <1>2, Zenon DEF Without
<1> HIDE DEF m
<1>4. k \in 1..Len(s) /\ Len(s) \in Nat /\ DOMAIN s = 1..Len(s) /\ \A i \in 1..Len(s) : s[i] \in S
  BY LenProperties, ElementOfSeq, Zenon
<1>5. /\ u \in Seq(S) /\ Len(u) = k - 1
      /\ \A i \in 1..(k - 1) : u[i] = s[i]
  BY <1>4, SubSeqProperties
<1>6. /\ w \in Seq(S)
      /\ Len(w) = IF k + 1 <= Len(s) THEN Len(s) - (k + 1) + 1 ELSE 0
      /\ \A i \in 1..(Len(s) - (k + 1) + 1) : w[i] = s[(k + 1) + i - 1]
  <2>1. \A i \in (k + 1)..Len(s) : s[i] \in S
    BY <1>4
  <2> QED BY <1>4, <2>1, SubSeqProperties
<1> HIDE DEF u, w, t
<1>7. Len(w) = Len(s) - k
  BY <1>4, <1>6
<1>8. /\ t \in Seq(S) /\ DOMAIN t = 1..(Len(u) + Len(w))
      /\ \A j \in 1..Len(u) : t[j] = u[j]
      /\ \A i \in 1..Len(w) : t[Len(u) + i] = w[i]
  <2>1. u \in Seq(S) /\ w \in Seq(S)
    BY <1>5, <1>6, Zenon
  <2>2. /\ u \o w \in Seq(S) /\ DOMAIN (u \o w) = 1..(Len(u) + Len(w))
        /\ \A j \in 1..Len(u) : (u \o w)[j] = u[j]
        /\ \A i \in 1..Len(w) : (u \o w)[Len(u) + i] = w[i]
    BY <2>1, ConcatFacts
  <2> QED BY <1>3, <2>2, Zenon
<1>9. Len(t) = Len(s) - 1 /\ DOMAIN t = 1..(Len(s) - 1)
  <2>1. Len(t) = Len(u) + Len(w)
    BY <1>3, <1>5, <1>6, ConcatProperties, Zenon
  <2> QED BY <1>4, <1>5, <1>7, <1>8, <2>1
<1>10. \A i \in 1..(k - 1) : t[i] = s[i]
  BY <1>4, <1>5, <1>8, Zenon
<1>11. ASSUME NEW i \in k..(Len(s) - 1) PROVE t[i] = s[i + 1]
  <2>1. i - k + 1 \in 1..Len(w) /\ i - k + 1 \in 1..(Len(s) - (k + 1) + 1)
    BY <1>4, <1>7
  <2>2. t[Len(u) + (i - k + 1)] = w[i - k + 1] /\ w[i - k + 1] = s[(k + 1) + (i - k + 1) - 1]
    BY <1>6, <1>8, <2>1, Zenon
  <2>3. Len(u) + (i - k + 1) = i /\ (k + 1) + (i - k + 1) - 1 = i + 1
    BY <1>4, <1>5
  <2> QED BY <2>2, <2>3, Zenon
<1> QED BY <1>8, <1>9, <1>10, <1>11, Zenon DEF t

-----------------------------------------------------------------------------
(* Blocks for a number of tokens, ranks of the real entries of a row *)

\* A quotient by the block size is where the multiples of the block size say.
LEMMA DivFacts ==
  ASSUME NEW a \in Int
  PROVE  /\ a \div BlockSize \in Int
         /\ BlockSize * (a \div BlockSize) <= a
         /\ a < BlockSize * (a \div BlockSize) + BlockSize
  BY KVAssumption, SMTT(30)

\* Division keeps the order.
LEMMA DivMonotone ==
  ASSUME NEW a \in Int, NEW b \in Int, a <= b
  PROVE  a \div BlockSize <= b \div BlockSize
<1> DEFINE p == a \div BlockSize
           q == b \div BlockSize
<1>1. /\ p \in Int /\ q \in Int /\ BlockSize \in Nat \ {0}
      /\ BlockSize * p <= a /\ b < BlockSize * q + BlockSize
  BY DivFacts, KVAssumption, Zenon
<1>2. BlockSize * p < BlockSize * q + BlockSize
  BY <1>1
<1> HIDE DEF p, q
<1>3. ASSUME p >= q + 1 PROVE FALSE
  <2>1. BlockSize * p >= BlockSize * (q + 1)
    BY <1>1, <1>3, SMTT(30)
  <2>2. BlockSize * (q + 1) = BlockSize * q + BlockSize
    BY <1>1, SMTT(30)
  <2> QED BY <1>1, <1>2, <2>1, <2>2
<1>4. p <= q
  BY <1>1, <1>3
<1> QED BY <1>4, Zenon DEF p, q

\* The quotient is the only number there.
LEMMA DivUnique ==
  ASSUME NEW a \in Int, NEW q \in Int, BlockSize * q <= a, a < BlockSize * q + BlockSize
  PROVE  a \div BlockSize = q
<1> DEFINE p == a \div BlockSize
<1>1. /\ p \in Int /\ BlockSize \in Nat \ {0}
      /\ BlockSize * p <= a /\ a < BlockSize * p + BlockSize
  BY DivFacts, KVAssumption, Zenon
<1> HIDE DEF p
<1>2. ASSUME NEW m \in Int, NEW n \in Int, m >= n + 1
      PROVE  BlockSize * m >= BlockSize * n + BlockSize
  <2>1. BlockSize * m >= BlockSize * (n + 1)
    BY <1>1, <1>2, SMTT(30)
  <2>2. BlockSize * (n + 1) = BlockSize * n + BlockSize
    BY <1>1, SMTT(30)
  <2> QED BY <2>1, <2>2, Zenon
<1>3. /\ BlockSize * p \in Int /\ BlockSize * q \in Int /\ BlockSize \in Int
  BY <1>1
<1>4. ASSUME p >= q + 1 PROVE FALSE
  <2>1. BlockSize * p >= BlockSize * q + BlockSize
    BY <1>1, <1>2, <1>4, Zenon
  <2> QED BY <1>1, <1>3, <2>1
<1>5. ASSUME q >= p + 1 PROVE FALSE
  <2>1. BlockSize * q >= BlockSize * p + BlockSize
    BY <1>1, <1>2, <1>5, Zenon
  <2> QED BY <1>1, <1>3, <2>1
<1>6. p = q
  BY <1>1, <1>4, <1>5
<1> QED BY <1>6, Zenon DEF p

\* cdiv counts the blocks that n tokens fill.
LEMMA CeilDivFacts ==
  /\ CeilDiv(0, BlockSize) = 0
  /\ \A n \in Nat : CeilDiv(n, BlockSize) \in Nat /\ (n > 0 => CeilDiv(n, BlockSize) > 0)
  /\ \A m, n \in Nat : m <= n => CeilDiv(m, BlockSize) <= CeilDiv(n, BlockSize)
<1>0. BlockSize \in Nat \ {0}
  BY KVAssumption, Zenon
<1>1. CeilDiv(0, BlockSize) = 0
  <2>1. (0 + BlockSize - 1) \div BlockSize = 0
    BY <1>0, DivUnique
  <2> QED BY <2>1, Zenon DEF CeilDiv
<1>2. ASSUME NEW m \in Nat, NEW n \in Nat, m <= n
      PROVE  CeilDiv(m, BlockSize) <= CeilDiv(n, BlockSize) /\ CeilDiv(n, BlockSize) \in Int
  <2>1. m + BlockSize - 1 \in Int /\ n + BlockSize - 1 \in Int
        /\ m + BlockSize - 1 <= n + BlockSize - 1
    BY <1>0, <1>2
  <2> QED BY <2>1, DivMonotone, DivFacts, Zenon DEF CeilDiv
<1>3. ASSUME NEW n \in Nat, n > 0
      PROVE  CeilDiv(n, BlockSize) > 0
  <2>1. BlockSize \div BlockSize = 1
    BY <1>0, DivUnique
  <2>2. BlockSize <= n + BlockSize - 1 /\ BlockSize \in Int /\ n + BlockSize - 1 \in Int
    BY <1>0, <1>3
  <2>3. BlockSize \div BlockSize <= (n + BlockSize - 1) \div BlockSize
    BY <2>2, DivMonotone, Zenon
  <2>4. (n + BlockSize - 1) \div BlockSize \in Int
    BY <2>2, DivFacts, Zenon
  <2> QED BY <2>1, <2>3, <2>4 DEF CeilDiv
<1>4. ASSUME NEW n \in Nat
      PROVE  CeilDiv(n, BlockSize) \in Nat
  <2>1. CeilDiv(0, BlockSize) <= CeilDiv(n, BlockSize) /\ CeilDiv(n, BlockSize) \in Int
    BY <1>2
  <2> QED BY <1>1, <2>1
<1> QED BY <1>1, <1>2, <1>3, <1>4, Zenon

\* The real entries of a row, and the rank of one: at most its index, and the
\* number of them all for the last entry.
LEMMA RankFacts ==
  ASSUME NEW s \in Seq(Entries)
  PROVE  /\ IsFiniteSet(real_indices(s, NullBlock))
         /\ Cardinality(real_indices(s, NullBlock)) \in Nat
         /\ \A j \in real_indices(s, NullBlock) :
              /\ RealRank(s, NullBlock, j) \in 1..Cardinality(real_indices(s, NullBlock))
              /\ RealRank(s, NullBlock, j) <= j
              /\ j = Len(s) => RealRank(s, NullBlock, j) = Cardinality(real_indices(s, NullBlock))
         /\ \A i, j \in real_indices(s, NullBlock) :
              i < j => RealRank(s, NullBlock, i) < RealRank(s, NullBlock, j)
<1> DEFINE R == real_indices(s, NullBlock)
           upto(j) == {i \in R : i <= j}
<1>1. Len(s) \in Nat /\ DOMAIN s = 1..Len(s) /\ R \subseteq 1..Len(s)
  BY LenProperties, Zenon DEF real_indices
<1>2. IsFiniteSet(1..Len(s))
  BY <1>1, FS_Interval
<1>3. IsFiniteSet(R) /\ Cardinality(R) \in Nat
  BY <1>1, <1>2, FS_Subset, FS_CardinalityType, Zenon
<1>4. ASSUME NEW j \in R
      PROVE  /\ IsFiniteSet(upto(j)) /\ Cardinality(upto(j)) \in Nat
             /\ RealRank(s, NullBlock, j) = Cardinality(upto(j)) /\ j \in upto(j)
  <2>1. upto(j) \in SUBSET R /\ j \in Int /\ j \in upto(j)
    BY <1>1
  <2>2. IsFiniteSet(upto(j))
    BY <1>3, <2>1, FS_Subset, Zenon
  <2> QED BY <2>1, <2>2, FS_CardinalityType, Zenon DEF RealRank
<1>5. ASSUME NEW j \in R
      PROVE  /\ RealRank(s, NullBlock, j) \in 1..Cardinality(R)
             /\ RealRank(s, NullBlock, j) <= j
             /\ j = Len(s) => RealRank(s, NullBlock, j) = Cardinality(R)
  <2>1. upto(j) \in SUBSET R /\ upto(j) # {}
    BY <1>4, Zenon
  <2>2. Cardinality(upto(j)) <= Cardinality(R)
    BY <1>3, <2>1, FS_Subset, Zenon
  <2>3. Cardinality(upto(j)) # 0
    BY <1>4, <2>1, FS_EmptySet, Zenon
  <2>4. upto(j) \in SUBSET (1..j) /\ j \in Nat
    BY <1>1
  <2>5. IsFiniteSet(1..j) /\ Cardinality(1..j) <= j
    <3>1. IsFiniteSet(1..j) /\ Cardinality(1..j) = IF 1 > j THEN 0 ELSE j - 1 + 1
      BY <2>4, FS_Interval
    <3> QED BY <2>4, <3>1
  <2>6. Cardinality(upto(j)) <= Cardinality(1..j) /\ Cardinality(1..j) \in Nat
    BY <2>4, <2>5, FS_Subset, FS_CardinalityType, Zenon
  <2>7. j = Len(s) => upto(j) = R
    BY <1>1
  <2> HIDE DEF R, upto
  <2> QED BY <1>3, <1>4, <2>2, <2>3, <2>4, <2>5, <2>6, <2>7, SMTT(30)
<1>6. ASSUME NEW i \in R, NEW j \in R, i < j
      PROVE  RealRank(s, NullBlock, i) < RealRank(s, NullBlock, j)
  <2>1. upto(i) \in SUBSET upto(j) /\ j \notin upto(i) /\ j \in upto(j)
    BY <1>1, <1>6
  <2>2. Cardinality(upto(i)) <= Cardinality(upto(j)) /\ Cardinality(upto(i)) # Cardinality(upto(j))
    BY <1>4, <2>1, FS_Subset, Zenon
  <2>3. /\ RealRank(s, NullBlock, i) = Cardinality(upto(i)) /\ Cardinality(upto(i)) \in Nat
        /\ RealRank(s, NullBlock, j) = Cardinality(upto(j)) /\ Cardinality(upto(j)) \in Nat
    BY <1>4, Zenon
  <2> HIDE DEF upto
  <2> QED BY <2>2, <2>3
<1> QED BY <1>3, <1>5, <1>6, Zenon

-----------------------------------------------------------------------------
(* The KV-cache operations *)

\* A list handed out by get_new_blocks is a duplicate-free sequence of free blocks.
LEMMA NewBlocksFacts ==
  ASSUME KVTypeOK, NEW n \in Nat, NEW nb \in get_new_blocks(n)
  PROVE  /\ nb \in Seq(Blocks)
         /\ nb \in Seq(Entries)
         /\ DOMAIN nb = 1..n
         /\ Len(nb) = n
         /\ \A i \in 1..n : nb[i] \in free
         /\ \A i, k \in 1..n : nb[i] = nb[k] => i = k
         /\ Elems(nb) \subseteq free
<1>1. nb \in [1..n -> free] /\ \A i, k \in 1..n : i # k => nb[i] # nb[k]
  BY Zenon DEF get_new_blocks
<1>2. free \subseteq Blocks /\ Blocks \subseteq Entries
  BY Zenon DEF KVTypeOK, Entries
<1>3. nb \in [1..n -> Blocks] /\ nb \in [1..n -> Entries]
  BY <1>1, <1>2, Zenon
<1>4. nb \in Seq(Blocks) /\ nb \in Seq(Entries)
  BY <1>3, SeqDef
<1>5. DOMAIN nb = 1..n /\ Len(nb) = n
  BY <1>1, <1>4, LenProperties
<1> QED BY <1>1, <1>4, <1>5, Zenon DEF Elems

\* allocate_new_blocks moves free blocks to one request.
LEMMA AllocateKeepsPool ==
  ASSUME KVTypeOK, PoolConsistent, NEW r \in Requests, NEW n \in Nat,
         NEW nb \in get_new_blocks(n), allocate_new_blocks(r, nb)
  PROVE  KVTypeOK' /\ PoolConsistent'
<1> DEFINE B == req_to_blocks[r]
<1>0. /\ nb \in Seq(Entries)
      /\ Len(nb) = n
      /\ \A i \in 1..n : nb[i] \in free
      /\ \A i, k \in 1..n : nb[i] = nb[k] => i = k
      /\ Elems(nb) \subseteq free
  BY NewBlocksFacts, Zenon
<1>1. B \in Seq(Entries)
  BY Zenon DEF KVTypeOK
<1>2. req_to_blocks' = [req_to_blocks EXCEPT ![r] = B \o nb]
  BY Zenon DEF allocate_new_blocks
<1>3. /\ B \o nb \in Seq(Entries)
      /\ Len(B) \in Nat
      /\ DOMAIN B = 1..Len(B)
      /\ \A j \in 1..Len(B) : (B \o nb)[j] = B[j]
      /\ \A j \in DOMAIN (B \o nb) :
           \/ j \in 1..Len(B)
           \/ j - Len(B) \in 1..n /\ (B \o nb)[j] = nb[j - Len(B)]
      /\ DOMAIN (B \o nb) \subseteq Int
      /\ Elems(B \o nb) = Elems(B) \cup Elems(nb)
  BY <1>0, <1>1, ConcatFacts
<1>4. KVTypeOK'
  <2>1. req_to_blocks' \in [Requests -> Seq(Entries)]
    BY <1>2, <1>3, Zenon DEF KVTypeOK
  <2>2. ref_cnt' \in [Blocks -> Int]
    BY DEF allocate_new_blocks, KVTypeOK
  <2>3. free' \in SUBSET Blocks
    BY Zenon DEF allocate_new_blocks, KVTypeOK
  <2> QED BY <2>1, <2>2, <2>3, Zenon DEF KVTypeOK
<1>6. /\ req_to_blocks'[r] = B \o nb
      /\ \A q \in Requests : q # r => req_to_blocks'[q] = req_to_blocks[q]
  BY <1>2, Zenon DEF KVTypeOK
<1>7. \A q \in Requests : \A j \in DOMAIN req_to_blocks[q] : req_to_blocks[q][j] \notin free
  <2> TAKE q \in Requests
  <2> TAKE j \in DOMAIN req_to_blocks[q]
  <2>1. req_to_blocks[q][j] \in Elems(req_to_blocks[q])
    BY Zenon DEF Elems
  <2> QED BY <2>1 DEF PoolConsistent, RefCountsExact, KVTypeOK

\* An entry of the new table is an old one or one of the new blocks.
<1>8. \A q \in Requests : \A j \in DOMAIN req_to_blocks'[q] :
        \/ j \in DOMAIN req_to_blocks[q] /\ req_to_blocks'[q][j] = req_to_blocks[q][j]
        \/ q = r /\ j \in Int /\ j - Len(B) \in 1..n /\ req_to_blocks'[q][j] = nb[j - Len(B)]
  BY <1>3, <1>6, Zenon
<1>9. NoSharedBlock'
  <2> SUFFICES ASSUME NEW r1 \in Requests, NEW r2 \in Requests,
                      NEW j1 \in DOMAIN req_to_blocks'[r1],
                      NEW j2 \in DOMAIN req_to_blocks'[r2],
                      req_to_blocks'[r1][j1] = req_to_blocks'[r2][j2],
                      req_to_blocks'[r1][j1] \in Blocks
               PROVE  r1 = r2 /\ j1 = j2
    BY Zenon DEF NoSharedBlock
  <2> DEFINE old(q, j) == /\ j \in DOMAIN req_to_blocks[q]
                          /\ req_to_blocks'[q][j] = req_to_blocks[q][j]
             new(q, j) == q = r /\ j \in Int /\ j - Len(B) \in 1..n
                            /\ req_to_blocks'[q][j] = nb[j - Len(B)]
  <2>1. (old(r1, j1) \/ new(r1, j1)) /\ (old(r2, j2) \/ new(r2, j2))
    BY <1>8, Zenon
  <2>2. CASE old(r1, j1) /\ old(r2, j2)
    <3>1. /\ j1 \in DOMAIN req_to_blocks[r1] /\ j2 \in DOMAIN req_to_blocks[r2]
          /\ req_to_blocks[r1][j1] = req_to_blocks[r2][j2]
          /\ req_to_blocks[r1][j1] \in Blocks
      BY <2>2, Zenon
    <3>2. NoSharedBlock
      BY Zenon DEF PoolConsistent
    <3> HIDE DEF old, new
    <3> QED BY <3>1, <3>2, Zenon DEF NoSharedBlock
  <2>3. CASE new(r1, j1) /\ new(r2, j2)
    <3>1. j1 - Len(B) = j2 - Len(B)
      BY <2>3, <1>0, Zenon
    <3> QED BY <2>3, <3>1, <1>3
  <2>4. CASE old(r1, j1) /\ new(r2, j2)
    BY <2>4, <1>0, <1>7, Zenon
  <2>5. CASE new(r1, j1) /\ old(r2, j2)
    BY <2>5, <1>0, <1>7, Zenon
  <2> QED BY <2>1, <2>2, <2>3, <2>4, <2>5, Zenon
<1>10. \A q \in Requests : Elems(req_to_blocks'[q]) =
         IF q = r THEN Elems(B) \cup Elems(nb) ELSE Elems(req_to_blocks[q])
  BY <1>3, <1>6, Zenon
<1>11. RefCountsExact'
  <2> SUFFICES ASSUME NEW b \in Blocks
               PROVE  /\ ref_cnt'[b] \in {0, 1}
                      /\ ref_cnt'[b] = 0 <=> b \in free'
                      /\ ref_cnt'[b] = 1 <=> \E q \in Requests : b \in Elems(req_to_blocks'[q])
    BY Zenon DEF RefCountsExact
  <2>1. /\ ref_cnt[b] \in {0, 1}
        /\ ref_cnt[b] = 0 <=> b \in free
        /\ ref_cnt[b] = 1 <=> \E q \in Requests : b \in Elems(req_to_blocks[q])
    BY Zenon DEF PoolConsistent, RefCountsExact
  <2>2. CASE b \in Elems(nb)
    <3>1. b \in free /\ ref_cnt[b] = 0
      BY <2>1, <2>2, <1>0, Zenon
    <3>2. ref_cnt'[b] = 1 /\ b \notin free'
      BY <2>2, <3>1 DEF allocate_new_blocks
    <3> QED BY <2>2, <3>2, <1>10
  <2>3. CASE b \notin Elems(nb)
    <3>1. ref_cnt'[b] = ref_cnt[b] /\ (b \in free' <=> b \in free)
      BY <2>3, Zenon DEF allocate_new_blocks
    <3>2. \A q \in Requests : b \in Elems(req_to_blocks'[q]) <=> b \in Elems(req_to_blocks[q])
      BY <2>3, <1>10, Zenon
    <3> QED BY <2>1, <3>1, <3>2, Zenon
  <2> QED BY <2>2, <2>3, Zenon
<1> QED BY <1>4, <1>9, <1>11, Zenon DEF PoolConsistent

\* With every block held once, free_blocks takes exactly the listed blocks of
\* the request to zero references and into the free queue.
LEMMA FreeBlocksFacts ==
  ASSUME KVTypeOK, PoolConsistent, NEW r \in Requests,
         NEW J \in SUBSET (DOMAIN req_to_blocks[r]), free_blocks(r, J)
  PROVE  /\ ref_cnt' \in [Blocks -> Int]
         /\ free' \in SUBSET Blocks
         /\ \A b \in Blocks :
              IF \E j \in J : req_to_blocks[r][j] = b
              THEN ref_cnt'[b] = 0 /\ b \in free'
              ELSE ref_cnt'[b] = ref_cnt[b] /\ (b \in free' <=> b \in free)
<1> DEFINE H(b) == {j \in J : req_to_blocks[r][j] = b}
<1>1. \A b \in Blocks : (\E j \in J : req_to_blocks[r][j] = b) =>
        Occurrences(r, J, b) = 1 /\ ref_cnt[b] = 1
  <2> SUFFICES ASSUME NEW b \in Blocks, NEW j \in J, req_to_blocks[r][j] = b
               PROVE  Occurrences(r, J, b) = 1 /\ ref_cnt[b] = 1
    BY Zenon
  <2>1. H(b) = {j}
    BY DEF PoolConsistent, NoSharedBlock
  <2>2. Cardinality(H(b)) = 1
    BY <2>1, FS_Singleton, Zenon
  <2>3. b \in Elems(req_to_blocks[r])
    BY Zenon DEF Elems
  <2> QED BY <2>2, <2>3, Zenon DEF Occurrences, PoolConsistent, RefCountsExact
<1>2. \A b \in Blocks : ~(\E j \in J : req_to_blocks[r][j] = b) => Occurrences(r, J, b) = 0
  <2> SUFFICES ASSUME NEW b \in Blocks, ~(\E j \in J : req_to_blocks[r][j] = b)
               PROVE  Occurrences(r, J, b) = 0
    BY Zenon
  <2>1. H(b) = {}
    BY Zenon
  <2> QED BY <2>1, FS_EmptySet, Zenon DEF Occurrences
<1>3. \A b \in Blocks : ref_cnt[b] \in Int
  BY Zenon DEF KVTypeOK
<1>4. ref_cnt' = [b \in Blocks |-> ref_cnt[b] - Occurrences(r, J, b)]
  BY Zenon DEF free_blocks
<1>5. \A b \in Blocks : IF \E j \in J : req_to_blocks[r][j] = b THEN ref_cnt'[b] = 0
                                                                ELSE ref_cnt'[b] = ref_cnt[b]
  BY <1>1, <1>2, <1>3, <1>4
<1>6. free' = free \cup {b \in Blocks : ref_cnt'[b] = 0 /\ \E j \in J : req_to_blocks[r][j] = b}
  BY <1>4, Zenon DEF free_blocks
<1>7. ref_cnt' \in [Blocks -> Int]
  <2>1. \A b \in Blocks : ref_cnt'[b] \in Int
    BY <1>3, <1>5
  <2> QED BY <1>4, <2>1, Zenon
<1> QED BY <1>5, <1>6, <1>7, Zenon DEF KVTypeOK

\* Dropping entries J of request r from its table while freeing them: what the
\* release of a request and the reclaim of an entry have in common.
LEMMA DropKeepsPool ==
  ASSUME KVTypeOK, PoolConsistent, NEW r \in Requests,
         NEW J \in SUBSET (DOMAIN req_to_blocks[r]), free_blocks(r, J),
         NEW T \in Seq(Entries), req_to_blocks' = [req_to_blocks EXCEPT ![r] = T],
         \A j \in DOMAIN T : T[j] \in Blocks =>
            j \in (DOMAIN req_to_blocks[r]) \ J /\ T[j] = req_to_blocks[r][j],
         \A j \in (DOMAIN req_to_blocks[r]) \ J :
            req_to_blocks[r][j] \in Blocks => j \in DOMAIN T /\ T[j] = req_to_blocks[r][j]
  PROVE  KVTypeOK' /\ PoolConsistent'
<1> DEFINE Freed(b) == \E j \in J : req_to_blocks[r][j] = b
<1>1. /\ ref_cnt' \in [Blocks -> Int]
      /\ free' \in SUBSET Blocks
      /\ \A b \in Blocks : IF Freed(b) THEN ref_cnt'[b] = 0 /\ b \in free'
                                       ELSE ref_cnt'[b] = ref_cnt[b] /\ (b \in free' <=> b \in free)
  BY FreeBlocksFacts, Zenon
<1>2. /\ req_to_blocks' \in [Requests -> Seq(Entries)]
      /\ req_to_blocks'[r] = T
      /\ \A q \in Requests : q # r => req_to_blocks'[q] = req_to_blocks[q]
  BY Zenon DEF KVTypeOK
<1>3. KVTypeOK'
  BY <1>1, <1>2, Zenon DEF KVTypeOK
<1>4. \A q \in Requests : \A j \in DOMAIN req_to_blocks'[q] :
        req_to_blocks'[q][j] \in Blocks =>
          j \in DOMAIN req_to_blocks[q] /\ req_to_blocks'[q][j] = req_to_blocks[q][j]
  BY <1>2, Zenon
<1>5. NoSharedBlock'
  BY <1>4 DEF PoolConsistent, NoSharedBlock

\* A freed block had its only entry among J, so nobody holds it any more.
<1>6. \A b \in Blocks : (\E q \in Requests : b \in Elems(req_to_blocks'[q])) <=>
        (~Freed(b) /\ \E q \in Requests : b \in Elems(req_to_blocks[q]))
  <2> TAKE b \in Blocks
  <2>1. ASSUME NEW q \in Requests, b \in Elems(req_to_blocks'[q])
        PROVE  ~Freed(b) /\ b \in Elems(req_to_blocks[q])
    <3>1. PICK j \in DOMAIN req_to_blocks'[q] : req_to_blocks'[q][j] = b
      BY <2>1, Zenon DEF Elems
    <3>2. j \in DOMAIN req_to_blocks[q] /\ req_to_blocks[q][j] = b /\ (q = r => j \notin J)
      BY <3>1, <1>2, <1>4, Zenon
    <3>3. ~Freed(b)
      BY <3>2 DEF PoolConsistent, NoSharedBlock
    <3> QED BY <3>2, <3>3, Zenon DEF Elems
  <2>2. ASSUME ~Freed(b), NEW q \in Requests, b \in Elems(req_to_blocks[q])
        PROVE  b \in Elems(req_to_blocks'[q])
    <3>1. PICK j \in DOMAIN req_to_blocks[q] : req_to_blocks[q][j] = b
      BY <2>2, Zenon DEF Elems
    <3>2. j \in DOMAIN req_to_blocks'[q] /\ req_to_blocks'[q][j] = b
      BY <2>2, <3>1, <1>2, Zenon
    <3> QED BY <3>2, Zenon DEF Elems
  <2> QED BY <2>1, <2>2, Zenon
<1>7. RefCountsExact'
  <2> SUFFICES ASSUME NEW b \in Blocks
               PROVE  /\ ref_cnt'[b] \in {0, 1}
                      /\ ref_cnt'[b] = 0 <=> b \in free'
                      /\ ref_cnt'[b] = 1 <=> \E q \in Requests : b \in Elems(req_to_blocks'[q])
    BY Zenon DEF RefCountsExact
  <2>1. /\ ref_cnt[b] \in {0, 1}
        /\ ref_cnt[b] = 0 <=> b \in free
        /\ ref_cnt[b] = 1 <=> \E q \in Requests : b \in Elems(req_to_blocks[q])
    BY Zenon DEF PoolConsistent, RefCountsExact
  <2>2. CASE Freed(b)
    BY <2>2, <1>1, <1>6
  <2>3. CASE ~Freed(b)
    <3>1. ref_cnt'[b] = ref_cnt[b] /\ (b \in free' <=> b \in free)
      BY <2>3, <1>1, Zenon
    <3>2. (\E q \in Requests : b \in Elems(req_to_blocks'[q])) <=>
            \E q \in Requests : b \in Elems(req_to_blocks[q])
      BY <2>3, <1>6, Zenon
    <3> QED BY <2>1, <3>1, <3>2, Zenon
  <2> QED BY <2>2, <2>3, Zenon
<1> QED BY <1>3, <1>5, <1>7, Zenon DEF PoolConsistent

\* KVCacheManager.free gives back every block of a request.
LEMMA FreeKeepsPool ==
  ASSUME KVTypeOK, PoolConsistent, NEW r \in Requests, kv_free(r)
  PROVE  KVTypeOK' /\ PoolConsistent'
<1>1. << >> \in Seq(Entries) /\ DOMAIN << >> = {}
  OBVIOUS
<1>2. /\ free_blocks(r, DOMAIN req_to_blocks[r])
      /\ req_to_blocks' = [req_to_blocks EXCEPT ![r] = << >>]
  BY Zenon DEF kv_free
<1> QED BY <1>1, <1>2, DropKeepsPool, Zenon

\* skive_reclaim gives back the block of one entry, which becomes null.
LEMMA ReclaimKeepsPool ==
  ASSUME KVTypeOK, PoolConsistent, NEW r \in Requests, NEW j \in DOMAIN req_to_blocks[r],
         free_blocks(r, {j}), NEW T, T = [i \in DOMAIN req_to_blocks[r] |->
                                     IF i = j THEN NullBlock ELSE req_to_blocks[r][i]],
         req_to_blocks' = [req_to_blocks EXCEPT ![r] = T]
  PROVE  KVTypeOK' /\ PoolConsistent'
<1>1. req_to_blocks[r] \in Seq(Entries)
  BY Zenon DEF KVTypeOK
<1>2. PICK n \in Nat : req_to_blocks[r] \in [1..n -> Entries]
  BY <1>1, SeqDef
<1>3. T \in [1..n -> Entries]
  BY <1>2, Zenon DEF Entries
<1>4. T \in Seq(Entries)
  BY <1>3, SeqDef, SMTT(30)
<1>5. NullBlock \notin Blocks
  BY KVAssumption, Zenon
<1>6. {j} \in SUBSET (DOMAIN req_to_blocks[r]) /\ DOMAIN T = DOMAIN req_to_blocks[r]
  BY Zenon
<1>7. \A i \in DOMAIN T : T[i] = IF i = j THEN NullBlock ELSE req_to_blocks[r][i]
  BY Zenon
<1> QED BY <1>4, <1>5, <1>6, <1>7, DropKeepsPool, SMTT(30)

\* Repointing entries of a row to the null block leaves a row of the same length.
LEMMA NullOutType ==
  ASSUME NEW s \in Seq(Entries), NEW J
  PROVE  NullOut(s, NullBlock, J) \in Seq(Entries)
<1>1. PICK n \in Nat : s \in [1..n -> Entries]
  BY SeqDef
<1>2. NullOut(s, NullBlock, J) \in [1..n -> Entries]
  BY <1>1, Zenon DEF NullOut, Entries
<1> QED BY <1>2, SeqDef

\* Sequences with the same indices have the same length.
LEMMA SameLength ==
  ASSUME NEW m \in Nat, NEW n \in Nat, 1..m = 1..n
  PROVE  m = n
<1>1. ~(m < n)
  <2> SUFFICES ASSUME m < n PROVE FALSE
    BY Zenon
  <2>1. n \in 1..n /\ n \notin 1..m
    OBVIOUS
  <2> QED BY <2>1, Zenon
<1>2. ~(n < m)
  <2> SUFFICES ASSUME n < m PROVE FALSE
    BY Zenon
  <2>1. m \in 1..m /\ m \notin 1..n
    OBVIOUS
  <2> QED BY <2>1, Zenon
<1> QED BY <1>1, <1>2

\* An eviction keeps the length of the row.
LEMMA NullOutFacts ==
  ASSUME NEW s \in Seq(Entries), NEW J
  PROVE  /\ NullOut(s, NullBlock, J) \in Seq(Entries)
         /\ Len(NullOut(s, NullBlock, J)) = Len(s)
         /\ DOMAIN NullOut(s, NullBlock, J) = DOMAIN s
         /\ \A j \in DOMAIN s : NullOut(s, NullBlock, J)[j] = IF j \in J THEN NullBlock ELSE s[j]
         /\ NullOut(s, NullBlock, J) = <<>> <=> s = <<>>
<1> DEFINE t == NullOut(s, NullBlock, J)
<1>1. t \in Seq(Entries)
  BY NullOutType, Zenon
<1>2. DOMAIN t = DOMAIN s /\ \A j \in DOMAIN s : t[j] = IF j \in J THEN NullBlock ELSE s[j]
  BY Zenon DEF NullOut
<1> HIDE DEF t
<1>3. Len(t) \in Nat /\ DOMAIN t = 1..Len(t) /\ DOMAIN s = 1..Len(s) /\ Len(s) \in Nat
  BY <1>1, LenProperties, Zenon
<1>4. Len(t) = Len(s)
  BY <1>2, <1>3, SameLength, Zenon
<1>5. t = <<>> <=> s = <<>>
  BY <1>1, <1>4, EmptySeq, Zenon
<1> QED BY <1>1, <1>2, <1>4, <1>5, Zenon DEF t

\* Appending real blocks to a row nulls nothing; its last entry is a new block, or
\* the old last one.
LEMMA ExtendRow ==
  ASSUME NEW s \in Seq(Entries), NEW t \in Seq(Blocks)
  PROVE  /\ Len(s) \in Nat /\ Len(t) \in Nat /\ Len(s \o t) = Len(s) + Len(t)
         /\ s \o t \in Seq(Entries)
         /\ \A j \in DOMAIN (s \o t) :
              IF j \in DOMAIN s THEN (s \o t)[j] = s[j]
                                ELSE (s \o t)[j] \in Blocks /\ (s \o t)[j] # NullBlock
         /\ t = <<>> => s \o t = s
         /\ t # <<>> => (s \o t)[Len(s \o t)] # NullBlock
<1>1. t \in Seq(Entries)
  BY SeqMonotonic, Zenon DEF Entries
<1>2. /\ Len(s) \in Nat /\ Len(t) \in Nat /\ s \o t \in Seq(Entries)
      /\ DOMAIN s = 1..Len(s) /\ DOMAIN t = 1..Len(t)
      /\ DOMAIN (s \o t) = 1..(Len(s) + Len(t))
      /\ \A j \in 1..Len(s) : (s \o t)[j] = s[j]
      /\ \A j \in DOMAIN (s \o t) :
           \/ j \in 1..Len(s)
           \/ j - Len(s) \in 1..Len(t) /\ (s \o t)[j] = t[j - Len(s)]
  BY <1>1, ConcatFacts
<1>3. Len(s \o t) = Len(s) + Len(t)
  BY <1>1, ConcatProperties, Zenon
<1>4. \A i \in 1..Len(t) : t[i] \in Blocks /\ t[i] # NullBlock
  BY <1>2, ElementOfSeq, KVAssumption
<1>5. \A j \in DOMAIN (s \o t) :
        IF j \in DOMAIN s THEN (s \o t)[j] = s[j]
                          ELSE (s \o t)[j] \in Blocks /\ (s \o t)[j] # NullBlock
  BY <1>2, <1>4, Zenon
<1>6. t = <<>> => s \o t = s
  BY ConcatEmptySeq, Zenon
<1>7. t # <<>> => (s \o t)[Len(s \o t)] # NullBlock
  <2> SUFFICES ASSUME t # <<>>
               PROVE  (s \o t)[Len(s \o t)] # NullBlock
    BY Zenon
  <2>1. Len(t) # 0
    BY EmptySeq, Zenon
  <2>2. Len(s) + Len(t) \in DOMAIN (s \o t) /\ Len(s) + Len(t) \notin DOMAIN s
    BY <1>2, <2>1
  <2> QED BY <1>3, <1>5, <2>2, Zenon
<1> QED BY <1>2, <1>3, <1>5, <1>6, <1>7, Zenon

\* The new blocks of a request are blocks of the pool.
LEMMA NumBlocksType ==
  ASSUME IInv, NEW r \in Requests, NEW n \in Int
  PROVE  get_num_blocks_to_allocate(r, n) \in Nat
<1>1. Len(req_to_blocks[r]) \in Nat
  BY LenProperties, Zenon DEF IInv, TypeOK, KVTypeOK
<1>2. CeilDiv(n, BlockSize) \in Int
  BY DivFacts, KVAssumption DEF CeilDiv
<1> QED BY <1>1, <1>2 DEF get_num_blocks_to_allocate

\* What running_allocate does to the tables.
LEMMA RunningAllocateFacts ==
  ASSUME IInv, running_allocate
  PROVE  /\ cur \in Requests
         /\ \E nb \in Seq(Blocks) :
              /\ Len(nb) = BlocksFor(cur, num_new_tokens)
              /\ Elems(nb) \subseteq free
              /\ req_to_blocks' = [req_to_blocks EXCEPT ![cur] = req_to_blocks[cur] \o nb]
              /\ req_to_new_blocks' = [req_to_new_blocks EXCEPT ![cur] = nb]
<1>1. cur \in Requests /\ num_computed_tokens[cur] + num_new_tokens \in Int
  BY DEF running_allocate, IInv, TypeOK, LoopTypeOK, ReqTypeOK
<1>2. PICK nb \in get_new_blocks(BlocksFor(cur, num_new_tokens)) :
        /\ allocate_new_blocks(cur, nb)
        /\ req_to_new_blocks' = [req_to_new_blocks EXCEPT ![cur] = nb]
  BY Zenon DEF running_allocate
<1>3. BlocksFor(cur, num_new_tokens) \in Nat
  BY <1>1, NumBlocksType, Zenon DEF BlocksFor
<1>4. nb \in Seq(Blocks) /\ Len(nb) = BlocksFor(cur, num_new_tokens) /\ Elems(nb) \subseteq free
  BY <1>3, NewBlocksFacts, Zenon DEF IInv, TypeOK
<1> QED BY <1>1, <1>2, <1>4, Zenon DEF allocate_new_blocks

\* What waiting_admit does to the tables: the request held nothing before.
LEMMA WaitingAdmitFacts ==
  ASSUME IInv, QInv, waiting_admit
  PROVE  \E r \in Requests, nb \in Seq(Blocks) :
           /\ status[r] \in {"WAITING", "PREEMPTED"}
           /\ status' = [status EXCEPT ![r] = "RUNNING"]
           /\ Len(nb) = get_num_blocks_to_allocate(r, WaitingTokens(r))
           /\ Elems(nb) \subseteq free
           /\ req_to_blocks[r] = <<>>
           /\ req_to_blocks' = [req_to_blocks EXCEPT ![r] = nb]
           /\ req_to_new_blocks' = [req_to_new_blocks EXCEPT ![r] = nb]
           /\ num_scheduled_tokens' = [num_scheduled_tokens EXCEPT ![r] = WaitingTokens(r)]
           /\ num_computed_tokens' = [num_computed_tokens EXCEPT ![r] = 0]
           /\ scheduled_new_reqs' \cup scheduled_resumed_reqs'
                = scheduled_new_reqs \cup scheduled_resumed_reqs \cup {r}
<1>1. PICK r \in Requests :
        /\ IsNext(r)
        /\ \E nb \in get_new_blocks(get_num_blocks_to_allocate(r, WaitingTokens(r))) :
             /\ allocate_new_blocks(r, nb)
             /\ req_to_new_blocks' = [req_to_new_blocks EXCEPT ![r] = req_to_blocks'[r]]
        /\ IF status[r] = "WAITING"
           THEN /\ scheduled_new_reqs' = scheduled_new_reqs \cup {r}
                /\ UNCHANGED scheduled_resumed_reqs
           ELSE /\ scheduled_resumed_reqs' = scheduled_resumed_reqs \cup {r}
                /\ UNCHANGED scheduled_new_reqs
        /\ status' = [status EXCEPT ![r] = "RUNNING"]
        /\ num_computed_tokens' = [num_computed_tokens EXCEPT ![r] = 0]
        /\ num_scheduled_tokens' = [num_scheduled_tokens EXCEPT ![r] = WaitingTokens(r)]
  BY Zenon DEF waiting_admit
<1>2. PICK nb \in get_new_blocks(get_num_blocks_to_allocate(r, WaitingTokens(r))) :
        /\ allocate_new_blocks(r, nb)
        /\ req_to_new_blocks' = [req_to_new_blocks EXCEPT ![r] = req_to_blocks'[r]]
  BY <1>1, Zenon
<1>3. status[r] \in {"WAITING", "PREEMPTED"}
  BY <1>1, Zenon DEF IsNext, QInv, QueuesMatchStatus
<1>4. req_to_blocks[r] = <<>>
  BY <1>3, Zenon DEF QInv, QueuesMatchStatus
<1>5. WaitingTokens(r) \in Int
  BY SchedulerAssumption DEF WaitingTokens, Minimum, Chunk, IInv, TypeOK, ReqTypeOK, LoopTypeOK
<1>6. get_num_blocks_to_allocate(r, WaitingTokens(r)) \in Nat
  BY <1>5, NumBlocksType, Zenon
<1>7. /\ nb \in Seq(Blocks) /\ Len(nb) = get_num_blocks_to_allocate(r, WaitingTokens(r))
      /\ Elems(nb) \subseteq free
  BY <1>6, NewBlocksFacts, Zenon DEF IInv, TypeOK
<1>8. <<>> \o nb = nb
  BY <1>7, ConcatEmptySeq, Zenon
<1>9. req_to_blocks' = [req_to_blocks EXCEPT ![r] = nb] /\ req_to_blocks'[r] = nb
  BY <1>2, <1>4, <1>8, Zenon DEF allocate_new_blocks, IInv, TypeOK, KVTypeOK
<1> QED BY <1>1, <1>2, <1>3, <1>4, <1>7, <1>9, Zenon

-----------------------------------------------------------------------------
(* Types *)

\* Taking an element off a queue leaves a queue.
LEMMA WithoutType ==
  ASSUME NEW S, NEW s \in Seq(S), NEW x
  PROVE  Without(s, x) \in Seq(S)
<1>1. CASE \E k \in DOMAIN s : s[k] = x
  <2> DEFINE k == CHOOSE k \in DOMAIN s : s[k] = x
  <2>1. k \in DOMAIN s
    BY <1>1, Zenon
  <2>2. k \in 1..Len(s) /\ Len(s) \in Nat
    BY <2>1, LenProperties, Zenon
  <2>3. SubSeq(s, 1, k - 1) \in Seq(S) /\ SubSeq(s, k + 1, Len(s)) \in Seq(S)
    <3>1. \A i \in 1..(k - 1) : s[i] \in S
      BY <2>2
    <3>2. \A i \in (k + 1)..Len(s) : s[i] \in S
      BY <2>2
    <3> HIDE DEF k
    <3> QED BY <2>2, <3>1, <3>2, SubSeqProperties, SMTT(30)
  <2>4. SubSeq(s, 1, k - 1) \o SubSeq(s, k + 1, Len(s)) \in Seq(S)
    BY <2>3, ConcatProperties, Zenon
  <2> QED BY <1>1, <2>4, Zenon DEF Without
<1>2. CASE ~\E k \in DOMAIN s : s[k] = x
  BY <1>2, Zenon DEF Without
<1> QED BY <1>1, <1>2, Zenon

\* A step that leaves the KV-cache bookkeeping alone keeps it consistent.
LEMMA PoolUnchanged ==
  ASSUME KVTypeOK, PoolConsistent, UNCHANGED kvVars
  PROVE  KVTypeOK' /\ PoolConsistent'
BY DEF kvVars, KVTypeOK, PoolConsistent, NoSharedBlock, RefCountsExact

\* The types of a group of variables survive a step that leaves them alone.
LEMMA TypesUnchanged ==
  /\ ReqTypeOK /\ UNCHANGED reqVars => ReqTypeOK'
  /\ QueueTypeOK /\ UNCHANGED queueVars => QueueTypeOK'
  /\ LoopTypeOK /\ UNCHANGED loopVars /\ pc' \in Phases /\ pc' # "alloc" => LoopTypeOK'
  /\ LoopTypeOK /\ UNCHANGED <<loopVars, pc>> => LoopTypeOK'
  /\ OutTypeOK /\ UNCHANGED outVars => OutTypeOK'
  /\ WorkerTypeOK /\ UNCHANGED workerVars => WorkerTypeOK'
  /\ EngineTypeOK /\ UNCHANGED engineVars => EngineTypeOK'
<1>1. ReqTypeOK /\ UNCHANGED reqVars => ReqTypeOK'
  BY Zenon DEF ReqTypeOK, reqVars
<1>2. QueueTypeOK /\ UNCHANGED queueVars => QueueTypeOK'
  BY Zenon DEF QueueTypeOK, queueVars
<1>3. LoopTypeOK /\ UNCHANGED loopVars /\ pc' \in Phases /\ pc' # "alloc" => LoopTypeOK'
  BY Zenon DEF LoopTypeOK, loopVars
<1>4. LoopTypeOK /\ UNCHANGED <<loopVars, pc>> => LoopTypeOK'
  BY Zenon DEF LoopTypeOK, loopVars
<1>5. OutTypeOK /\ UNCHANGED outVars => OutTypeOK'
  BY Zenon DEF OutTypeOK, outVars
<1>6. WorkerTypeOK /\ UNCHANGED workerVars => WorkerTypeOK'
  BY Zenon DEF WorkerTypeOK, workerVars
<1>7. EngineTypeOK /\ UNCHANGED engineVars => EngineTypeOK'
  BY Zenon DEF EngineTypeOK, engineVars
<1> QED BY <1>1, <1>2, <1>3, <1>4, <1>5, <1>6, <1>7, Zenon

\* The initial state satisfies the invariant.
LEMMA InitInvariant == Init => IInv
<1> SUFFICES ASSUME Init PROVE IInv
  BY Zenon
<1>1. KVTypeOK
  BY DEF Init, KVInit, KVTypeOK
<1>2. PoolConsistent
  BY DEF Init, KVInit, PoolConsistent, NoSharedBlock, RefCountsExact, Elems
<1>3. ReqTypeOK
  BY DEF Init, SchedInit, ReqTypeOK, Statuses
<1>4. QueueTypeOK
  BY DEF Init, SchedInit, QueueTypeOK
<1>5. LoopTypeOK
  <2>1. preempted \in BOOLEAN
    BY Zenon DEF Init, SchedInit
  <2> QED BY <2>1 DEF Init, SchedInit, LoopTypeOK, Phases
<1>6. OutTypeOK
  BY DEF Init, SchedInit, OutTypeOK
<1>7. WorkerTypeOK
  BY WorkerAssumption DEF Init, WorkerInit, WorkerTypeOK
<1>8. EngineTypeOK
  BY DEF Init, EngineTypeOK
<1> QED BY <1>1, <1>2, <1>3, <1>4, <1>5, <1>6, <1>7, <1>8, Zenon DEF IInv, TypeOK

-----------------------------------------------------------------------------
(* Client calls *)

\* A request that leaves the scheduler gives back its blocks once.
LEMMA FreeRequestFacts ==
  ASSUME IInv, NEW r \in Requests, free_request(r)
  PROVE  /\ KVTypeOK' /\ PoolConsistent' /\ ReqTypeOK'
         /\ waiting' \in Seq(Requests) /\ running' \in Seq(Requests)
         /\ finished_req_ids' \in SUBSET Requests
<1>1. KVTypeOK' /\ PoolConsistent'
  BY FreeKeepsPool, Zenon DEF IInv, TypeOK, free_request
<1>2. ReqTypeOK'
  BY DEF IInv, TypeOK, ReqTypeOK, free_request, Statuses
<1>3. waiting' \in Seq(Requests) /\ running' \in Seq(Requests)
  BY WithoutType, Zenon DEF IInv, TypeOK, QueueTypeOK, free_request
<1>4. finished_req_ids' \in SUBSET Requests
  BY Zenon DEF IInv, TypeOK, QueueTypeOK, free_request
<1> QED BY <1>1, <1>2, <1>3, <1>4, Zenon

\* A preempted request gives back its blocks once and waits at the front.
LEMMA PreemptFacts ==
  ASSUME IInv, NEW v \in Requests, preempt_request(v)
  PROVE  /\ KVTypeOK' /\ PoolConsistent'
         /\ status' \in [Requests -> Statuses]
         /\ num_computed_tokens' \in [Requests -> Int]
         /\ waiting' \in Seq(Requests)
<1>1. KVTypeOK' /\ PoolConsistent'
  BY FreeKeepsPool, Zenon DEF IInv, TypeOK, preempt_request
<1>2. status' \in [Requests -> Statuses] /\ num_computed_tokens' \in [Requests -> Int]
  BY DEF IInv, TypeOK, ReqTypeOK, preempt_request, Statuses, Live
<1>3. waiting' \in Seq(Requests)
  <2>1. <<v>> \in Seq(Requests) /\ waiting \in Seq(Requests)
    BY DEF IInv, TypeOK, QueueTypeOK
  <2> QED BY <2>1, ConcatProperties, Zenon DEF preempt_request
<1> QED BY <1>1, <1>2, <1>3, Zenon

\* add_request: a new request holds nothing.
LEMMA AddRequestKeeps ==
  ASSUME IInv, NEW r \in Requests, AddRequest(r)
  PROVE  IInv'
<1> USE DEF IInv, TypeOK, AddRequest, add_request
<1>1. KVTypeOK' /\ PoolConsistent'
  BY PoolUnchanged, Zenon
<1>2. ReqTypeOK'
  <2>1. PromptLen[r] \in Int
    BY SchedulerAssumption
  <2>2. status' \in [Requests -> Statuses]
    BY Zenon DEF ReqTypeOK, Statuses, Live
  <2>3. num_tokens' \in [Requests -> Int]
    BY <2>1, Zenon DEF ReqTypeOK
  <2> QED BY <2>2, <2>3, Zenon DEF ReqTypeOK
<1>3. QueueTypeOK'
  BY DEF QueueTypeOK
<1>4. LoopTypeOK' /\ OutTypeOK' /\ WorkerTypeOK' /\ EngineTypeOK'
  BY TypesUnchanged, Zenon
<1> QED BY <1>1, <1>2, <1>3, <1>4, Zenon

\* An abort frees the request's blocks, whatever the phase it arrives in.
LEMMA AbortKeeps ==
  ASSUME IInv, NEW r \in Requests, Abort(r)
  PROVE  IInv'
<1> USE DEF IInv, TypeOK, Abort, finish_requests
<1>1. free_request(r)
  BY Zenon
<1>2. KVTypeOK' /\ PoolConsistent' /\ ReqTypeOK'
  BY <1>1, FreeRequestFacts, Zenon
<1>3. QueueTypeOK'
  BY <1>1, FreeRequestFacts, Zenon DEF QueueTypeOK
<1>4. LoopTypeOK' /\ OutTypeOK' /\ WorkerTypeOK' /\ EngineTypeOK'
  BY TypesUnchanged, Zenon
<1> QED BY <1>2, <1>3, <1>4, Zenon

\* pause_scheduler and resume_scheduler only change the pause state.
LEMMA PauseKeeps ==
  ASSUME IInv, PauseScheduler \/ ResumeScheduler
  PROVE  IInv'
<1> USE DEF IInv, TypeOK, PauseScheduler, ResumeScheduler, set_pause_state
<1>1. KVTypeOK' /\ PoolConsistent'
  BY PoolUnchanged, Zenon
<1>2. QueueTypeOK'
  BY Zenon DEF QueueTypeOK
<1>3. ReqTypeOK' /\ LoopTypeOK' /\ OutTypeOK' /\ WorkerTypeOK' /\ EngineTypeOK'
  BY TypesUnchanged, Zenon
<1> QED BY <1>1, <1>2, <1>3, Zenon

\* ResetPrefixCache only changes the phase.
LEMMA ResetPrefixCacheKeeps ==
  ASSUME IInv, ResetPrefixCache
  PROVE  IInv'
<1> USE DEF IInv, TypeOK, ResetPrefixCache
<1>1. KVTypeOK' /\ PoolConsistent'
  BY PoolUnchanged, Zenon
<1>2. LoopTypeOK'
  BY TypesUnchanged, Zenon DEF Phases
<1>3. ReqTypeOK' /\ QueueTypeOK' /\ OutTypeOK' /\ WorkerTypeOK' /\ EngineTypeOK'
  BY TypesUnchanged, Zenon
<1> QED BY <1>1, <1>2, <1>3, Zenon

\* One preemption of a forced reset gives back the blocks of the last running request.
LEMMA ResetPreemptKeeps ==
  ASSUME IInv, ResetPreempt
  PROVE  IInv'
<1> USE DEF IInv, TypeOK, ResetPreempt, reset_preempt
<1>1. PICK v \in Requests :
        /\ preempt_request(v)
        /\ running' = SubSeq(running, 1, Len(running) - 1)
        /\ async_tokens_to_discard' =
             [async_tokens_to_discard EXCEPT ![v] = num_output_placeholders[v]]
        /\ num_output_placeholders' = [num_output_placeholders EXCEPT ![v] = 0]
  BY Zenon
<1>2. /\ KVTypeOK' /\ PoolConsistent'
      /\ status' \in [Requests -> Statuses]
      /\ num_computed_tokens' \in [Requests -> Int]
      /\ waiting' \in Seq(Requests)
  BY <1>1, PreemptFacts, Zenon
<1>3. ReqTypeOK'
  <2>1. num_output_placeholders[v] \in Int
    BY Zenon DEF ReqTypeOK
  <2>2. async_tokens_to_discard' \in [Requests -> Int]
    BY <1>1, <2>1, Zenon DEF ReqTypeOK
  <2>3. num_output_placeholders' \in [Requests -> Int]
    BY <1>1 DEF ReqTypeOK
  <2> QED BY <1>2, <2>2, <2>3, Zenon DEF ReqTypeOK
<1>4. QueueTypeOK'
  BY <1>1, <1>2 DEF QueueTypeOK
<1>5. LoopTypeOK' /\ OutTypeOK' /\ WorkerTypeOK' /\ EngineTypeOK'
  BY TypesUnchanged, Zenon
<1> QED BY <1>2, <1>3, <1>4, <1>5, Zenon

\* The end of a forced reset forgets the previous step.
LEMMA ResetDoneKeeps ==
  ASSUME IInv, ResetDone
  PROVE  IInv'
<1> USE DEF IInv, TypeOK, ResetDone, reset_done
<1>1. KVTypeOK' /\ PoolConsistent'
  BY PoolUnchanged, Zenon
<1>2. QueueTypeOK'
  BY Zenon DEF QueueTypeOK
<1>3. LoopTypeOK'
  BY TypesUnchanged, Zenon DEF Phases
<1>4. ReqTypeOK' /\ OutTypeOK' /\ WorkerTypeOK' /\ EngineTypeOK'
  BY TypesUnchanged, Zenon
<1> QED BY <1>1, <1>2, <1>3, <1>4, Zenon

-----------------------------------------------------------------------------
(* schedule() *)

\* The number of missing blocks is a natural number.
LEMMA BlocksToAllocateType ==
  ASSUME KVTypeOK, NEW r \in Requests, NEW n \in Int
  PROVE  get_num_blocks_to_allocate(r, n) \in Nat
<1>1. Len(req_to_blocks[r]) \in Int
  BY LenProperties DEF KVTypeOK
<1>2. CeilDiv(n, BlockSize) \in Int
  BY KVAssumption DEF CeilDiv
<1> QED BY <1>1, <1>2 DEF get_num_blocks_to_allocate

\* The token counts schedule() works with are integers.
LEMMA TokenCountTypes ==
  ASSUME IInv, NEW r \in Requests
  PROVE  NumNewTokens(r) \in Int /\ WaitingTokens(r) \in Int
<1>1. /\ num_tokens[r] \in Int /\ num_output_placeholders[r] \in Int
      /\ num_computed_tokens[r] \in Int /\ token_budget \in Int /\ LongPrefill \in Int
  BY SchedulerAssumption DEF IInv, TypeOK, ReqTypeOK, LoopTypeOK
<1>2. \A n \in Int : Chunk(n) \in Int
  BY <1>1, Zenon DEF Chunk
<1>3. /\ Chunk(num_tokens[r] + num_output_placeholders[r] - num_computed_tokens[r]) \in Int
      /\ Chunk(num_tokens[r]) \in Int
  BY <1>1, <1>2
<1> QED BY <1>1, <1>3, Zenon DEF NumNewTokens, WaitingTokens, Minimum

\* schedule() starts with a fresh token budget.
LEMMA StartScheduleKeeps ==
  ASSUME IInv, start_schedule, Quiet
  PROVE  IInv'
<1> USE DEF IInv, TypeOK, start_schedule, Quiet
<1>1. KVTypeOK' /\ PoolConsistent'
  BY PoolUnchanged, Zenon
<1>2. LoopTypeOK'
  BY SchedulerAssumption DEF LoopTypeOK, Phases
<1>3. ReqTypeOK' /\ QueueTypeOK' /\ OutTypeOK' /\ WorkerTypeOK' /\ EngineTypeOK'
  BY TypesUnchanged, Zenon
<1> QED BY <1>1, <1>2, <1>3, Zenon

\* A running request that gets no token is passed over.
LEMMA RunningSkipKeeps ==
  ASSUME IInv, running_skip, Quiet
  PROVE  IInv'
<1> USE DEF IInv, TypeOK, running_skip, Quiet
<1>1. KVTypeOK' /\ PoolConsistent'
  BY PoolUnchanged, Zenon
<1>2. LoopTypeOK'
  BY DEF LoopTypeOK
<1>3. ReqTypeOK' /\ QueueTypeOK' /\ OutTypeOK' /\ WorkerTypeOK' /\ EngineTypeOK'
  BY TypesUnchanged, Zenon
<1> QED BY <1>1, <1>2, <1>3, Zenon

\* A running request is picked and its token count computed.
LEMMA RunningPickKeeps ==
  ASSUME IInv, running_pick, Quiet
  PROVE  IInv'
<1> USE DEF IInv, TypeOK, Quiet
<1>1. KVTypeOK' /\ PoolConsistent'
  BY PoolUnchanged, Zenon DEF running_pick
<1>2. LoopTypeOK'
  <2>1. running[req_index] \in Requests
    BY DEF running_pick, InRunningLoop, QueueTypeOK
  <2>2. NumNewTokens(running[req_index]) \in Int
    BY <2>1, TokenCountTypes, Zenon
  <2>3. cur' \in Requests /\ num_new_tokens' \in Int
    BY <2>1, <2>2, Zenon DEF running_pick
  <2> QED BY <2>3, Zenon DEF LoopTypeOK, Phases, running_pick
<1>3. ReqTypeOK' /\ QueueTypeOK' /\ OutTypeOK' /\ WorkerTypeOK' /\ EngineTypeOK'
  BY TypesUnchanged, Zenon DEF running_pick
<1> QED BY <1>1, <1>2, <1>3, Zenon

\* allocate_slots for a running request takes blocks out of the free queue.
LEMMA RunningAllocateKeeps ==
  ASSUME IInv, running_allocate, Quiet
  PROVE  IInv'
<1> USE DEF IInv, TypeOK, Quiet
<1> DEFINE n == BlocksFor(cur, num_new_tokens)
<1>1. cur \in Requests /\ num_new_tokens \in Int /\ num_computed_tokens[cur] \in Int
  BY Zenon DEF running_allocate, LoopTypeOK, ReqTypeOK
<1>2. n \in Nat
  BY <1>1, BlocksToAllocateType DEF BlocksFor
<1>3. PICK nb \in get_new_blocks(n) :
        /\ allocate_new_blocks(cur, nb)
        /\ req_to_new_blocks' = [req_to_new_blocks EXCEPT ![cur] = nb]
  BY Zenon DEF running_allocate
<1>4. KVTypeOK' /\ PoolConsistent'
  BY <1>1, <1>2, <1>3, AllocateKeepsPool, Zenon
<1>5. OutTypeOK'
  <2>1. nb \in Seq(Entries)
    BY <1>2, NewBlocksFacts, Zenon
  <2>2. req_to_new_blocks' \in [Requests -> Seq(Entries)]
    BY <1>3, <2>1, Zenon DEF OutTypeOK
  <2> QED BY <1>1, <2>2, Zenon DEF OutTypeOK, running_allocate
<1>6. LoopTypeOK'
  BY <1>1, SMTT(30) DEF LoopTypeOK, Phases, running_allocate
<1>7. ReqTypeOK' /\ QueueTypeOK' /\ WorkerTypeOK' /\ EngineTypeOK'
  BY TypesUnchanged, Zenon DEF running_allocate
<1> QED BY <1>4, <1>5, <1>6, <1>7, Zenon

\* A preemption in schedule() gives back the victim's blocks and undoes its scheduling.
LEMMA RunningPreemptKeeps ==
  ASSUME IInv, running_preempt, Quiet
  PROVE  IInv'
<1> USE DEF IInv, TypeOK, Quiet
<1>1. PICK v \in Requests :
        /\ preempt_request(v)
        /\ running' = Without(running, v)
        /\ preempted' = TRUE
        /\ IF Unschedule(v)
           THEN /\ scheduled_running_reqs' = scheduled_running_reqs \ {v}
                /\ token_budget' = token_budget + num_scheduled_tokens[v]
                /\ num_scheduled_tokens' = [num_scheduled_tokens EXCEPT ![v] = 0]
                /\ req_to_new_blocks' = [req_to_new_blocks EXCEPT ![v] = <<>>]
                /\ req_index' = req_index - 1
           ELSE UNCHANGED <<scheduled_running_reqs, token_budget, num_scheduled_tokens,
                            req_to_new_blocks, req_index>>
        /\ IF v = cur
           THEN pc' = "finish" /\ cur' = NoRequest /\ num_new_tokens' = 0
           ELSE UNCHANGED <<pc, cur, num_new_tokens>>
  BY Zenon DEF running_preempt
<1>2. /\ KVTypeOK' /\ PoolConsistent'
      /\ status' \in [Requests -> Statuses]
      /\ num_computed_tokens' \in [Requests -> Int]
      /\ waiting' \in Seq(Requests)
  BY <1>1, PreemptFacts, Zenon
<1>3. ReqTypeOK'
  BY <1>2, Zenon DEF ReqTypeOK, running_preempt
<1>4. QueueTypeOK'
  <2>1. running' \in Seq(Requests)
    BY <1>1, WithoutType, Zenon DEF QueueTypeOK
  <2> QED BY <1>2, <2>1, Zenon DEF QueueTypeOK, running_preempt
<1>5. OutTypeOK'
  <2>1. UNCHANGED <<scheduled_new_reqs, scheduled_resumed_reqs, finished_out>>
    BY Zenon DEF running_preempt
  <2>2. CASE Unschedule(v)
    <3>1. <<>> \in Seq(Entries)
      OBVIOUS
    <3>2. req_to_new_blocks' \in [Requests -> Seq(Entries)]
      BY <1>1, <2>2, <3>1, Zenon DEF OutTypeOK
    <3>3. num_scheduled_tokens' \in [Requests -> Int]
      BY <1>1, <2>2, SMTT(30) DEF OutTypeOK
    <3>4. scheduled_running_reqs' \in SUBSET Requests
      BY <1>1, <2>2, Zenon DEF OutTypeOK
    <3> QED BY <2>1, <3>2, <3>3, <3>4, Zenon DEF OutTypeOK
  <2>3. CASE ~Unschedule(v)
    BY <1>1, <2>1, <2>3, Zenon DEF OutTypeOK
  <2> QED BY <2>2, <2>3, Zenon
<1>6. LoopTypeOK'
  <2>1. preempted' \in BOOLEAN
    BY <1>1, Zenon
  <2>2. num_scheduled_tokens[v] \in Int /\ token_budget \in Int /\ req_index \in Int
    BY Zenon DEF OutTypeOK, LoopTypeOK
  <2>3. token_budget' \in Int /\ req_index' \in Int
    BY <1>1, <2>2, SMTT(30)
  <2>4. /\ pc' \in Phases /\ cur' \in Requests \cup {NoRequest} /\ num_new_tokens' \in Int
        /\ pc' = "alloc" => cur' \in Requests
    BY <1>1 DEF LoopTypeOK, Phases
  <2> QED BY <2>1, <2>3, <2>4, Zenon DEF LoopTypeOK
<1>7. WorkerTypeOK' /\ EngineTypeOK'
  BY TypesUnchanged, Zenon
<1> QED BY <1>2, <1>3, <1>4, <1>5, <1>6, <1>7, Zenon

\* The running loop ends.
LEMMA RunningDoneKeeps ==
  ASSUME IInv, running_done, Quiet
  PROVE  IInv'
<1> USE DEF IInv, TypeOK, running_done, Quiet
<1>1. KVTypeOK' /\ PoolConsistent'
  BY PoolUnchanged, Zenon
<1>2. pc' \in Phases /\ pc' # "alloc"
  BY Zenon DEF Phases
<1>3. LoopTypeOK'
  BY <1>2, TypesUnchanged, Zenon
<1>4. ReqTypeOK' /\ QueueTypeOK' /\ OutTypeOK' /\ WorkerTypeOK' /\ EngineTypeOK'
  BY TypesUnchanged, Zenon
<1> QED BY <1>1, <1>3, <1>4, Zenon

\* allocate_slots for a waiting request, which starts or resumes.
LEMMA WaitingAdmitKeeps ==
  ASSUME IInv, waiting_admit, Quiet
  PROVE  IInv'
<1> USE DEF IInv, TypeOK, Quiet
<1>1. PICK r \in Requests :
        /\ \E nb \in get_new_blocks(get_num_blocks_to_allocate(r, WaitingTokens(r))) :
             /\ allocate_new_blocks(r, nb)
             /\ req_to_new_blocks' = [req_to_new_blocks EXCEPT ![r] = req_to_blocks'[r]]
        /\ waiting' = Without(waiting, r)
        /\ running' = Append(running, r)
        /\ IF status[r] = "WAITING"
           THEN /\ scheduled_new_reqs' = scheduled_new_reqs \cup {r}
                /\ UNCHANGED scheduled_resumed_reqs
           ELSE /\ scheduled_resumed_reqs' = scheduled_resumed_reqs \cup {r}
                /\ UNCHANGED scheduled_new_reqs
        /\ status' = [status EXCEPT ![r] = "RUNNING"]
        /\ num_computed_tokens' = [num_computed_tokens EXCEPT ![r] = 0]
        /\ num_scheduled_tokens' = [num_scheduled_tokens EXCEPT ![r] = WaitingTokens(r)]
        /\ token_budget' = token_budget - WaitingTokens(r)
  BY Zenon DEF waiting_admit
<1> DEFINE n == get_num_blocks_to_allocate(r, WaitingTokens(r))
<1>2. WaitingTokens(r) \in Int
  BY TokenCountTypes, Zenon
<1>3. n \in Nat
  BY <1>2, BlocksToAllocateType, Zenon
<1>4. PICK nb \in get_new_blocks(n) :
        /\ allocate_new_blocks(r, nb)
        /\ req_to_new_blocks' = [req_to_new_blocks EXCEPT ![r] = req_to_blocks'[r]]
  BY <1>1, Zenon
<1>5. KVTypeOK' /\ PoolConsistent'
  BY <1>3, <1>4, AllocateKeepsPool, Zenon
<1>6. OutTypeOK'
  <2>1. req_to_blocks'[r] \in Seq(Entries)
    BY <1>5, Zenon DEF KVTypeOK
  <2>2. req_to_new_blocks' \in [Requests -> Seq(Entries)]
    BY <1>4, <2>1, Zenon DEF OutTypeOK
  <2>3. num_scheduled_tokens' \in [Requests -> Int]
    BY <1>1, <1>2, Zenon DEF OutTypeOK
  <2>4. scheduled_new_reqs' \in SUBSET Requests /\ scheduled_resumed_reqs' \in SUBSET Requests
    BY <1>1, Zenon DEF OutTypeOK
  <2>5. UNCHANGED <<scheduled_running_reqs, finished_out>>
    BY Zenon DEF waiting_admit
  <2> QED BY <2>2, <2>3, <2>4, <2>5, Zenon DEF OutTypeOK
<1>7. ReqTypeOK'
  <2>1. status' \in [Requests -> Statuses]
    BY <1>1, Zenon DEF ReqTypeOK, Statuses, Live
  <2>2. num_computed_tokens' \in [Requests -> Int]
    BY <1>1 DEF ReqTypeOK
  <2> QED BY <2>1, <2>2, Zenon DEF ReqTypeOK, waiting_admit
<1>8. QueueTypeOK'
  <2>1. waiting' \in Seq(Requests)
    BY <1>1, WithoutType, Zenon DEF QueueTypeOK
  <2>2. running' \in Seq(Requests)
    BY <1>1 DEF QueueTypeOK
  <2> QED BY <2>1, <2>2, Zenon DEF QueueTypeOK, waiting_admit
<1>9. LoopTypeOK'
  <2>1. token_budget' \in Int
    BY <1>1, <1>2, SMTT(30) DEF LoopTypeOK
  <2> QED BY <2>1, Zenon DEF LoopTypeOK, waiting_admit
<1>10. WorkerTypeOK' /\ EngineTypeOK'
  BY TypesUnchanged, Zenon
<1> QED BY <1>5, <1>6, <1>7, <1>8, <1>9, <1>10, Zenon

\* The waiting loop ends.
LEMMA WaitingDoneKeeps ==
  ASSUME IInv, waiting_done, Quiet
  PROVE  IInv'
<1> USE DEF IInv, TypeOK, waiting_done, Quiet
<1>1. KVTypeOK' /\ PoolConsistent'
  BY PoolUnchanged, Zenon
<1>2. LoopTypeOK'
  BY TypesUnchanged, Zenon DEF Phases
<1>3. ReqTypeOK' /\ QueueTypeOK' /\ OutTypeOK' /\ WorkerTypeOK' /\ EngineTypeOK'
  BY TypesUnchanged, Zenon
<1> QED BY <1>1, <1>2, <1>3, Zenon

\* The end of schedule(): counters advance, the batch enters the queue.
LEMMA FinishScheduleKeeps ==
  ASSUME IInv, FinishSchedule
  PROVE  IInv'
<1> USE DEF IInv, TypeOK
<1>1. KVTypeOK' /\ PoolConsistent'
  BY PoolUnchanged, Zenon DEF FinishSchedule, finish_schedule
<1>2. ReqTypeOK'
  <2>1. \A r \in Requests : num_computed_tokens[r] + num_scheduled_tokens[r] \in Int
    BY DEF ReqTypeOK, OutTypeOK
  <2>2. num_computed_tokens' \in [Requests -> Int]
    BY <2>1, Zenon DEF FinishSchedule, finish_schedule
  <2>3. num_output_placeholders' \in [Requests -> Int]
    BY DEF FinishSchedule, finish_schedule, ReqTypeOK
  <2> QED BY <2>2, <2>3, Zenon DEF FinishSchedule, finish_schedule, ReqTypeOK
<1>3. Scheduled \in SUBSET Requests /\ Sampled \in SUBSET Requests
  BY Zenon DEF Scheduled, Sampled
<1>4. QueueTypeOK'
  BY <1>3, Zenon DEF FinishSchedule, finish_schedule, QueueTypeOK
<1>5. OutTypeOK'
  BY Zenon DEF FinishSchedule, finish_schedule, OutTypeOK, QueueTypeOK
<1>6. LoopTypeOK'
  <2>1. UNCHANGED loopVars /\ pc' = "execute"
    BY Zenon DEF FinishSchedule, finish_schedule
  <2> QED BY <2>1, TypesUnchanged, Zenon DEF Phases
<1>7. EngineTypeOK'
  BY <1>3 DEF FinishSchedule, EngineTypeOK
<1>8. WorkerTypeOK'
  BY TypesUnchanged, Zenon DEF FinishSchedule
<1> QED BY <1>1, <1>2, <1>4, <1>5, <1>6, <1>7, <1>8, Zenon

-----------------------------------------------------------------------------
(* execute_model and SKIVE's hook *)

\* _update_states rebuilds the worker's rows from sequences of entries.
LEMMA UpdateStatesKeeps ==
  ASSUME IInv, update_states, UNCHANGED engineVars
  PROVE  IInv'
<1> USE DEF IInv, TypeOK
<1>1. KVTypeOK' /\ PoolConsistent'
  BY PoolUnchanged, Zenon DEF update_states
<1>2. WorkerTypeOK'
  <2>1. \A r \in Requests : /\ block_ids[r] \in Seq(Entries) /\ row[r] \in Seq(Entries)
                            /\ req_to_new_blocks[r] \in Seq(Entries)
    BY Zenon DEF WorkerTypeOK, OutTypeOK
  <2>2. \A r \in Requests : /\ block_ids[r] \o req_to_new_blocks[r] \in Seq(Entries)
                            /\ row[r] \o req_to_new_blocks[r] \in Seq(Entries)
    BY <2>1, ConcatProperties, Zenon
  <2>3. \A r \in Requests : UpdatedBlockIds(r) \in Seq(Entries)
    BY <2>1, <2>2, SMTT(30) DEF UpdatedBlockIds
  <2>4. \A r \in Requests : UpdatedRow(r) \in Seq(Entries)
    BY <2>2, <2>3 DEF UpdatedRow
  <2>5. block_ids' \in [Requests -> Seq(Entries)] /\ row' \in [Requests -> Seq(Entries)]
    BY <2>3, <2>4, Zenon DEF update_states
  <2> QED BY <2>5, Zenon DEF WorkerTypeOK, update_states
<1>3. LoopTypeOK'
  <2>1. UNCHANGED loopVars /\ pc' \in Phases /\ pc' # "alloc"
    BY Zenon DEF update_states, Phases
  <2> QED BY <2>1, TypesUnchanged, Zenon
<1>4. ReqTypeOK' /\ QueueTypeOK' /\ OutTypeOK' /\ EngineTypeOK'
  BY TypesUnchanged, Zenon DEF update_states
<1> QED BY <1>1, <1>2, <1>3, <1>4, Zenon

\* skive_post_step counts steps modulo the interval and selects rows.
LEMMA SkiveCheckKeeps ==
  ASSUME IInv, skive_check, UNCHANGED engineVars
  PROVE  IInv'
<1> USE DEF IInv, TypeOK
<1>1. KVTypeOK' /\ PoolConsistent'
  BY PoolUnchanged, Zenon DEF skive_check
<1>2. WorkerTypeOK'
  <2>1. skive_step' \in 0..(EvictEvery - 1)
    BY WorkerAssumption DEF skive_check, WorkerTypeOK
  <2>2. over_rows' \in SUBSET Requests
    BY Zenon DEF skive_check, OverBudget
  <2> QED BY <2>1, <2>2, Zenon DEF skive_check, WorkerTypeOK
<1>3. LoopTypeOK'
  <2>1. UNCHANGED loopVars /\ pc' = "end"
    BY Zenon DEF skive_check
  <2> QED BY <2>1, TypesUnchanged, Zenon DEF Phases
<1>4. ReqTypeOK' /\ QueueTypeOK' /\ OutTypeOK' /\ EngineTypeOK'
  BY TypesUnchanged, Zenon DEF skive_check
<1> QED BY <1>1, <1>2, <1>3, <1>4, Zenon

\* An eviction nulls entries of a row and records them.
LEMMA EvictKeeps ==
  ASSUME IInv, NEW r \in Requests, evict_request_blocks(r), UNCHANGED engineVars
  PROVE  IInv'
<1> USE DEF IInv, TypeOK
<1>1. KVTypeOK' /\ PoolConsistent'
  BY PoolUnchanged, Zenon DEF evict_request_blocks
<1>2. WorkerTypeOK'
  <2>1. row[r] \in Seq(Entries) /\ DOMAIN row[r] \subseteq Nat
    BY DEF WorkerTypeOK
  <2>2. PICK J \in SUBSET candidates(row[r], NullBlock, SinkOf(r), Local) :
          /\ row' = [row EXCEPT ![r] = NullOut(@, NullBlock, J)]
          /\ pending' = pending \cup Records(r, J)
    BY Zenon DEF evict_request_blocks
  <2>3. J \subseteq Nat
    BY <2>1, Zenon DEF candidates, real_indices
  <2>4. Records(r, J) \subseteq Requests \X Nat
    BY <2>3, Zenon DEF Records
  <2>5. NullOut(row[r], NullBlock, J) \in Seq(Entries)
    BY <2>1, NullOutType, Zenon
  <2>6. row' \in [Requests -> Seq(Entries)]
    BY <2>2, <2>5, Zenon DEF WorkerTypeOK
  <2>7. pending' \in SUBSET (Requests \X Nat)
    BY <2>2, <2>4, Zenon DEF WorkerTypeOK
  <2> QED BY <2>6, <2>7, Zenon DEF evict_request_blocks, WorkerTypeOK
<1>3. ReqTypeOK' /\ QueueTypeOK' /\ LoopTypeOK' /\ OutTypeOK' /\ EngineTypeOK'
  BY TypesUnchanged, Zenon DEF evict_request_blocks
<1> QED BY <1>1, <1>2, <1>3, Zenon

\* The end of the worker's half of the step.
LEMMA EndExecuteKeeps ==
  ASSUME IInv, EndExecute
  PROVE  IInv'
<1> USE DEF IInv, TypeOK
<1>1. KVTypeOK' /\ PoolConsistent'
  BY PoolUnchanged, Zenon DEF EndExecute
<1>2. OutTypeOK'
  BY DEF OutTypeOK, EndExecute, ClearScheduleLocals
<1>3. LoopTypeOK'
  <2>1. preempted' \in BOOLEAN
    BY Zenon DEF EndExecute, ClearScheduleLocals
  <2>2. pc' \in Phases /\ pc' # "alloc"
    BY Zenon DEF EndExecute, Phases
  <2> QED BY <2>1, <2>2 DEF LoopTypeOK, EndExecute, ClearScheduleLocals
<1>4. ReqTypeOK' /\ QueueTypeOK' /\ WorkerTypeOK' /\ EngineTypeOK'
  BY TypesUnchanged, Zenon DEF EndExecute
<1> QED BY <1>1, <1>2, <1>3, <1>4, Zenon

-----------------------------------------------------------------------------
(* Outputs and the reclaim *)

\* The engine waits for a batch in flight.
LEMMA AwaitOutputKeeps ==
  ASSUME IInv, AwaitOutput
  PROVE  IInv'
<1> USE DEF IInv, TypeOK, AwaitOutput
<1>1. KVTypeOK' /\ PoolConsistent'
  BY PoolUnchanged, Zenon
<1>2. LoopTypeOK'
  BY TypesUnchanged, Zenon DEF Phases
<1>3. ReqTypeOK' /\ QueueTypeOK' /\ OutTypeOK' /\ WorkerTypeOK' /\ EngineTypeOK'
  BY TypesUnchanged, Zenon
<1> QED BY <1>1, <1>2, <1>3, Zenon

\* The oldest batch of the queue is taken.
LEMMA TakeOutputKeeps ==
  ASSUME IInv, TakeOutput
  PROVE  IInv'
<1> USE DEF IInv, TypeOK, TakeOutput
<1>1. KVTypeOK' /\ PoolConsistent'
  BY PoolUnchanged, Zenon
<1>2. LoopTypeOK'
  BY TypesUnchanged, Zenon DEF Phases
<1>3. EngineTypeOK'
  BY HeadTailProperties, Zenon DEF EngineTypeOK
<1>4. ReqTypeOK' /\ QueueTypeOK' /\ OutTypeOK' /\ WorkerTypeOK'
  BY TypesUnchanged, Zenon
<1> QED BY <1>1, <1>2, <1>3, <1>4, Zenon

\* update_from_output drops the token, appends it, or finishes the request.
LEMMA UpdateFromOutputKeeps ==
  ASSUME IInv, NEW r \in Requests, UpdateFromOutput(r)
  PROVE  IInv'
<1> USE DEF IInv, TypeOK
<1>1. PICK stop \in BOOLEAN : update_from_output(r, stop)
  BY Zenon DEF UpdateFromOutput
<1>2. KVTypeOK' /\ PoolConsistent' /\ ReqTypeOK' /\ QueueTypeOK'
  <2>1. CASE UNCHANGED <<kvVars, reqVars, queueVars>>
    BY <2>1, PoolUnchanged, TypesUnchanged, Zenon
  <2>2. CASE free_request(r) /\ UNCHANGED <<pause_state, prev_step_scheduled_req_ids>>
    <3>1. QueueTypeOK'
      BY <2>2, FreeRequestFacts, Zenon DEF QueueTypeOK
    <3> QED BY <2>2, <3>1, FreeRequestFacts, Zenon
  <2>3. CASE /\ async_tokens_to_discard' = [async_tokens_to_discard EXCEPT ![r] = @ - 1]
             /\ UNCHANGED <<kvVars, status, num_tokens, num_computed_tokens,
                            num_output_placeholders, queueVars>>
    <3>1. ReqTypeOK'
      BY <2>3 DEF ReqTypeOK
    <3> QED BY <2>3, <3>1, PoolUnchanged, TypesUnchanged, Zenon
  <2>4. CASE /\ num_tokens' = [num_tokens EXCEPT ![r] = @ + 1]
             /\ num_output_placeholders' =
                  [num_output_placeholders EXCEPT ![r] = IF Async THEN @ - 1 ELSE @]
             /\ UNCHANGED <<kvVars, status, num_computed_tokens, async_tokens_to_discard,
                            queueVars>>
    <3>1. num_tokens' \in [Requests -> Int] /\ num_output_placeholders' \in [Requests -> Int]
      BY <2>4 DEF ReqTypeOK
    <3>2. ReqTypeOK'
      BY <2>4, <3>1, Zenon DEF ReqTypeOK
    <3> QED BY <2>4, <3>2, PoolUnchanged, TypesUnchanged, Zenon
  <2> QED BY <1>1, <2>1, <2>2, <2>3, <2>4, Zenon DEF update_from_output
<1>3. EngineTypeOK'
  BY Zenon DEF UpdateFromOutput, EngineTypeOK
<1>4. LoopTypeOK' /\ OutTypeOK' /\ WorkerTypeOK'
  BY TypesUnchanged, Zenon DEF UpdateFromOutput
<1> QED BY <1>2, <1>3, <1>4, Zenon

\* The pending evictions are handed to skive_reclaim.
LEMMA PopPendingKeeps ==
  ASSUME IInv, PopPending
  PROVE  IInv'
<1> USE DEF IInv, TypeOK, PopPending
<1>1. KVTypeOK' /\ PoolConsistent'
  BY PoolUnchanged, Zenon
<1>2. WorkerTypeOK' /\ EngineTypeOK'
  BY Zenon DEF WorkerTypeOK, EngineTypeOK
<1>3. LoopTypeOK'
  <2>1. pc' \in Phases /\ pc' # "alloc"
    BY Zenon DEF Phases
  <2> QED BY <2>1, TypesUnchanged, Zenon
<1>4. ReqTypeOK' /\ QueueTypeOK' /\ OutTypeOK'
  BY TypesUnchanged, Zenon
<1> QED BY <1>1, <1>2, <1>3, <1>4, Zenon

\* skive_reclaim frees the block of an entry once, and nulls the entry.
LEMMA ReclaimKeeps ==
  ASSUME IInv, NEW item \in popped, skive_reclaim(item[1], item[2])
  PROVE  IInv'
<1> USE DEF IInv, TypeOK
<1> DEFINE r == item[1]
           j == item[2]
<1>1. r \in Requests /\ j \in Nat
  BY Zenon DEF EngineTypeOK
<1>2. KVTypeOK' /\ PoolConsistent'
  <2>1. CASE Reclaimable(r, j) /\ FreeEntry(r, j)
    <3> DEFINE T == [i \in DOMAIN req_to_blocks[r] |->
                       IF i = j THEN NullBlock ELSE req_to_blocks[r][i]]
    <3>1. j \in DOMAIN req_to_blocks[r] /\ free_blocks(r, {j})
      BY <2>1, Zenon DEF Reclaimable, FreeEntry
    <3>2. req_to_blocks' = [req_to_blocks EXCEPT ![r] = T]
      BY <1>1, <2>1, Zenon DEF FreeEntry, NullOut, KVTypeOK
    <3> HIDE DEF r, j
    <3> QED BY <1>1, <3>1, <3>2, ReclaimKeepsPool, Zenon
  <2>2. CASE UNCHANGED kvVars
    BY <2>2, PoolUnchanged, Zenon
  <2> QED BY <2>1, <2>2, Zenon DEF skive_reclaim
<1>3. UNCHANGED <<schedVars, workerVars, batch_queue, to_update>>
  BY Zenon DEF skive_reclaim
<1>4. EngineTypeOK'
  <2>1. popped' = popped \ {<<r, j>>}
    BY Zenon DEF skive_reclaim
  <2> QED BY <1>3, <2>1, Zenon DEF EngineTypeOK
<1>5. ReqTypeOK' /\ QueueTypeOK' /\ LoopTypeOK' /\ OutTypeOK' /\ WorkerTypeOK'
  BY <1>3, TypesUnchanged, Zenon DEF schedVars
<1> QED BY <1>2, <1>4, <1>5, Zenon

\* The engine step ends.
LEMMA EndStepKeeps ==
  ASSUME IInv, EndStep
  PROVE  IInv'
<1> USE DEF IInv, TypeOK, EndStep
<1>1. KVTypeOK' /\ PoolConsistent'
  BY PoolUnchanged, Zenon
<1>2. LoopTypeOK'
  BY TypesUnchanged, Zenon DEF Phases
<1>3. ReqTypeOK' /\ QueueTypeOK' /\ OutTypeOK' /\ WorkerTypeOK' /\ EngineTypeOK'
  BY TypesUnchanged, Zenon
<1> QED BY <1>1, <1>2, <1>3, Zenon

\* A step that changes nothing.
LEMMA StutterKeeps ==
  ASSUME IInv, UNCHANGED vars
  PROVE  IInv'
<1> USE DEF IInv, TypeOK, vars, schedVars
<1>1. KVTypeOK' /\ PoolConsistent'
  BY PoolUnchanged, Zenon
<1>2. ReqTypeOK' /\ QueueTypeOK' /\ LoopTypeOK' /\ OutTypeOK' /\ WorkerTypeOK' /\ EngineTypeOK'
  BY TypesUnchanged, Zenon
<1> QED BY <1>1, <1>2, Zenon

-----------------------------------------------------------------------------
(* The invariant is inductive *)

\* Every step of the engine and of its clients preserves the invariant.
LEMMA NextKeeps ==
  ASSUME IInv, [Next]_vars
  PROVE  IInv'
<1>1. CASE ScheduleStep
  BY <1>1, StartScheduleKeeps, RunningSkipKeeps, RunningPickKeeps, RunningAllocateKeeps,
     RunningPreemptKeeps, RunningDoneKeeps, WaitingAdmitKeeps, WaitingDoneKeeps,
     FinishScheduleKeeps, Zenon DEF ScheduleStep
<1>2. CASE ExecuteStep
  BY <1>2, UpdateStatesKeeps, SkiveCheckKeeps, EvictKeeps, EndExecuteKeeps, Zenon
     DEF ExecuteStep
<1>3. CASE OutputStep
  BY <1>3, AwaitOutputKeeps, TakeOutputKeeps, UpdateFromOutputKeeps, PopPendingKeeps,
     ReclaimKeeps, EndStepKeeps, Zenon DEF OutputStep
<1>4. CASE ResetPreempt \/ ResetDone
  BY <1>4, ResetPreemptKeeps, ResetDoneKeeps, Zenon
<1>5. CASE ClientStep
  BY <1>5, AddRequestKeeps, AbortKeeps, PauseKeeps, ResetPrefixCacheKeeps, Zenon DEF ClientStep
<1>6. CASE WaitForInput \/ UNCHANGED vars
  BY <1>6, StutterKeeps, Zenon DEF WaitForInput
<1> QED BY <1>1, <1>2, <1>3, <1>4, <1>5, <1>6, Zenon DEF Next, EngineStep

-----------------------------------------------------------------------------
(* Queues as sequences *)

\* Taking x off a queue without repetitions removes exactly x.
LEMMA WithoutFacts ==
  ASSUME NEW S, NEW s \in Seq(S), NoDuplicates(s), NEW x
  PROVE  Elems(Without(s, x)) = Elems(s) \ {x} /\ NoDuplicates(Without(s, x))
<1>1. CASE \E k \in DOMAIN s : s[k] = x
  <2> DEFINE k == CHOOSE k \in DOMAIN s : s[k] = x
             t == Without(s, x)
             u == SubSeq(s, 1, k - 1)
             w == SubSeq(s, k + 1, Len(s))
  <2>1. k \in DOMAIN s /\ s[k] = x
    BY <1>1, Zenon
  <2>2. k \in 1..Len(s) /\ Len(s) \in Nat /\ DOMAIN s = 1..Len(s)
    BY <2>1, LenProperties, Zenon
  <2>3. t = u \o w
    BY <1>1, Zenon DEF Without
  <2> HIDE DEF k
  <2>4. /\ u \in Seq(S) /\ Len(u) = k - 1
        /\ \A i \in 1..(k - 1) : u[i] = s[i]
    BY <2>2, SubSeqProperties, SMTT(30)
  <2>5. /\ w \in Seq(S) /\ Len(w) = Len(s) - k
        /\ \A i \in 1..(Len(s) - k) : w[i] = s[k + i]
    <3>1. \A i \in (k + 1)..Len(s) : s[i] \in S
      BY <2>2
    <3>2. /\ w \in Seq(S)
          /\ Len(w) = IF k + 1 <= Len(s) THEN Len(s) - (k + 1) + 1 ELSE 0
          /\ \A i \in 1..(Len(s) - (k + 1) + 1) : w[i] = s[(k + 1) + i - 1]
      BY <2>2, <3>1, SubSeqProperties
    <3> HIDE DEF w
    <3>3. Len(w) = Len(s) - k
      <4>1. CASE k + 1 <= Len(s)
        BY <2>2, <3>2, <4>1, SMTT(30)
      <4>2. CASE k = Len(s)
        BY <2>2, <3>2, <4>2, SMTT(30)
      <4>3. k \in Int /\ Len(s) \in Int /\ k <= Len(s)
        BY <2>2
      <4>4. k + 1 <= Len(s) \/ k = Len(s)
        BY <4>3
      <4> QED BY <4>1, <4>2, <4>4, Zenon
    <3>4. ASSUME NEW i \in 1..(Len(s) - k) PROVE w[i] = s[k + i]
      <4>1. i \in 1..(Len(s) - (k + 1) + 1) /\ (k + 1) + i - 1 = k + i
        BY <2>2
      <4> QED BY <3>2, <4>1, Zenon
    <3> QED BY <3>2, <3>3, <3>4, Zenon
  <2> HIDE DEF u, w
  <2>6. /\ Len(t) = Len(s) - 1
        /\ DOMAIN t = 1..(Len(s) - 1)
        /\ \A i \in 1..(Len(s) - 1) : t[i] = IF i < k THEN s[i] ELSE s[i + 1]
    <3>1. /\ DOMAIN t = 1..(Len(u) + Len(w))
          /\ \A i \in 1..Len(u) : t[i] = u[i]
          /\ \A i \in 1..Len(w) : t[Len(u) + i] = w[i]
      BY <2>3, <2>4, <2>5, ConcatFacts, SMTT(30)
    <3>0. /\ Len(u) = k - 1 /\ Len(w) = Len(s) - k
          /\ k \in Int /\ Len(s) \in Int /\ 1 <= k /\ k <= Len(s)
      BY <2>2, <2>4, <2>5
    <3>2. Len(u) + Len(w) = Len(s) - 1
      BY <3>0
    <3>3. ASSUME NEW i \in 1..(Len(s) - 1), i < k PROVE t[i] = s[i]
      <4>1. i \in 1..Len(u)
        BY <3>0, <3>3
      <4> QED BY <2>4, <3>0, <3>1, <4>1, Zenon
    <3>4. ASSUME NEW i \in 1..(Len(s) - 1), ~(i < k) PROVE t[i] = s[i + 1]
      <4>1. i - (k - 1) \in 1..Len(w) /\ i = Len(u) + (i - (k - 1))
        BY <3>0, <3>4
      <4>2. t[i] = w[i - (k - 1)]
        BY <3>1, <4>1, Zenon
      <4>3. w[i - (k - 1)] = s[k + (i - (k - 1))]
        BY <4>1, <2>5, Zenon
      <4>4. k + (i - (k - 1)) = i + 1
        BY <2>2
      <4> QED BY <4>2, <4>3, <4>4, Zenon
    <3>5. t \in Seq(S)
      BY <2>3, <2>4, <2>5, ConcatProperties, Zenon
    <3>6. Len(t) = Len(s) - 1
      BY <3>1, <3>2, <3>5, <2>3, <2>4, <2>5, ConcatProperties, SMTT(30)
    <3> QED BY <3>1, <3>2, <3>3, <3>4, <3>6, Zenon
  <2> HIDE DEF t
  <2>7. ASSUME NEW y, y \in Elems(t) PROVE y \in Elems(s) \ {x}
    <3>1. PICK i \in 1..(Len(s) - 1) : y = t[i]
      BY <2>6, <2>7, Zenon DEF Elems
    <3> DEFINE m == IF i < k THEN i ELSE i + 1
    <3>2. m \in DOMAIN s /\ m # k /\ y = s[m]
      BY <3>1, <2>2, <2>6
    <3> HIDE DEF m
    <3> QED BY <3>2, <2>1, Zenon DEF Elems, NoDuplicates
  <2>8. ASSUME NEW y, y \in Elems(s) \ {x} PROVE y \in Elems(t)
    <3>1. PICK m \in 1..Len(s) : y = s[m]
      BY <2>2, <2>8, Zenon DEF Elems
    <3>2. m # k
      BY <3>1, <2>1, <2>8, Zenon
    <3> DEFINE i == IF m < k THEN m ELSE m - 1
    <3>3. i \in 1..(Len(s) - 1) /\ t[i] = s[m]
      BY <3>2, <2>2, <2>6, SMTT(30)
    <3> HIDE DEF i
    <3> QED BY <3>1, <3>3, <2>6, Zenon DEF Elems
  <2>9. NoDuplicates(t)
    <3> SUFFICES ASSUME NEW i \in 1..(Len(s) - 1), NEW l \in 1..(Len(s) - 1), t[i] = t[l]
                 PROVE  i = l
      BY <2>6, Zenon DEF NoDuplicates
    <3> DEFINE m(a) == IF a < k THEN a ELSE a + 1
    <3>1. m(i) \in DOMAIN s /\ m(l) \in DOMAIN s /\ t[i] = s[m(i)] /\ t[l] = s[m(l)]
      BY <2>2, <2>6
    <3>2. m(i) = m(l)
      <4> HIDE DEF m
      <4> QED BY <3>1, Zenon DEF NoDuplicates
    <3> QED BY <3>2, <2>2
  <2>10. Elems(t) = Elems(s) \ {x}
    BY <2>7, <2>8, Zenon
  <2> QED BY <2>9, <2>10, Zenon DEF t
<1>2. CASE ~\E k \in DOMAIN s : s[k] = x
  BY <1>2, Zenon DEF Without, Elems
<1> QED BY <1>1, <1>2, Zenon

\* Appending a newcomer to a queue.
LEMMA AppendFacts ==
  ASSUME NEW S, NEW s \in Seq(S), NoDuplicates(s), NEW x \in S, x \notin Elems(s)
  PROVE  Elems(Append(s, x)) = Elems(s) \cup {x} /\ NoDuplicates(Append(s, x))
<1> DEFINE t == Append(s, x)
<1>1. /\ Len(s) \in Nat /\ DOMAIN s = 1..Len(s) /\ DOMAIN t = 1..(Len(s) + 1)
      /\ \A i \in 1..Len(s) : t[i] = s[i]
      /\ t[Len(s) + 1] = x
  BY AppendProperties, LenProperties, SMTT(30)
<1> HIDE DEF t
<1>2. Elems(t) = Elems(s) \cup {x}
  BY <1>1 DEF Elems
<1>3. NoDuplicates(t)
  BY <1>1 DEF NoDuplicates, Elems
<1> QED BY <1>2, <1>3, Zenon DEF t

\* Putting a newcomer at the front of a queue.
LEMMA PrependFacts ==
  ASSUME NEW S, NEW s \in Seq(S), NoDuplicates(s), NEW x \in S, x \notin Elems(s)
  PROVE  Elems(<<x>> \o s) = Elems(s) \cup {x} /\ NoDuplicates(<<x>> \o s)
<1> DEFINE t == <<x>> \o s
<1>1. <<x>> \in Seq(S) /\ Len(<<x>>) = 1 /\ <<x>>[1] = x
  OBVIOUS
<1>2. /\ Len(s) \in Nat /\ DOMAIN s = 1..Len(s) /\ DOMAIN t = 1..(1 + Len(s))
      /\ t[1] = x
      /\ \A i \in 1..Len(s) : t[1 + i] = s[i]
  BY <1>1, ConcatFacts
<1> HIDE DEF t
<1>3. \A j \in 2..(1 + Len(s)) : j - 1 \in 1..Len(s) /\ t[j] = s[j - 1]
  <2> TAKE j \in 2..(1 + Len(s))
  <2>1. j - 1 \in 1..Len(s) /\ 1 + (j - 1) = j
    BY <1>2
  <2> QED BY <1>2, <2>1, Zenon
<1>4. Elems(t) = Elems(s) \cup {x}
  <2>1. ASSUME NEW y, y \in Elems(t) PROVE y \in Elems(s) \cup {x}
    <3>1. PICK j \in 1..(1 + Len(s)) : y = t[j]
      BY <1>2, <2>1, Zenon DEF Elems
    <3>2. CASE j = 1
      BY <1>2, <3>1, <3>2, Zenon
    <3>3. CASE j \in 2..(1 + Len(s))
      <4>1. j - 1 \in DOMAIN s /\ y = s[j - 1]
        BY <1>2, <1>3, <3>1, <3>3, Zenon
      <4> QED BY <4>1, Zenon DEF Elems
    <3>4. j = 1 \/ j \in 2..(1 + Len(s))
      BY <1>2, <3>1, SMTT(30)
    <3> QED BY <3>2, <3>3, <3>4, Zenon
  <2>2. ASSUME NEW y, y \in Elems(s) \cup {x} PROVE y \in Elems(t)
    BY <1>2, <2>2 DEF Elems
  <2> QED BY <2>1, <2>2, Zenon
<1>5. NoDuplicates(t)
  <2> SUFFICES ASSUME NEW i \in 1..(1 + Len(s)), NEW k \in 1..(1 + Len(s)), t[i] = t[k]
               PROVE  i = k
    BY <1>2, Zenon DEF NoDuplicates
  <2>1. \A j \in 2..(1 + Len(s)) : j - 1 \in DOMAIN s /\ t[j] = s[j - 1]
    BY <1>2, <1>3, Zenon
  <2>2. \A j \in 2..(1 + Len(s)) : t[j] # x
    BY <2>1, Zenon DEF Elems
  <2>3. (i = 1 \/ i \in 2..(1 + Len(s))) /\ (k = 1 \/ k \in 2..(1 + Len(s)))
    BY <1>2, SMTT(30)
  <2>4. CASE i \in 2..(1 + Len(s)) /\ k \in 2..(1 + Len(s))
    <3>1. i - 1 \in DOMAIN s /\ k - 1 \in DOMAIN s /\ s[i - 1] = s[k - 1]
      BY <2>1, <2>4, Zenon
    <3>2. i - 1 = k - 1
      BY <3>1, Zenon DEF NoDuplicates
    <3> QED BY <3>2, <1>2
  <2> QED BY <1>2, <2>2, <2>3, <2>4, Zenon
<1> QED BY <1>4, <1>5, Zenon DEF t

-----------------------------------------------------------------------------
(* The queues and the requests' statuses *)

\* A request that leaves the scheduler leaves both queues and holds no block.
LEMMA FreeRequestQueues ==
  ASSUME TypeOK, QueuesMatchStatus, NEW r \in Requests, free_request(r)
  PROVE  QueuesMatchStatus'
<1>1. /\ status' = [status EXCEPT ![r] = "FINISHED"] /\ status \in [Requests -> Statuses]
      /\ req_to_blocks' = [req_to_blocks EXCEPT ![r] = <<>>]
      /\ req_to_blocks \in [Requests -> Seq(Entries)]
  BY Zenon DEF TypeOK, ReqTypeOK, KVTypeOK, free_request, kv_free
<1>2. /\ running' = Without(running, r) /\ waiting' = Without(waiting, r)
      /\ running \in Seq(Requests) /\ waiting \in Seq(Requests)
      /\ NoDuplicates(running) /\ NoDuplicates(waiting)
  BY Zenon DEF TypeOK, QueueTypeOK, QueuesMatchStatus, free_request
<1>3. /\ Elems(running') = Elems(running) \ {r} /\ NoDuplicates(running')
      /\ Elems(waiting') = Elems(waiting) \ {r} /\ NoDuplicates(waiting')
  BY <1>2, WithoutFacts, Zenon
<1> QED BY <1>1, <1>3, Zenon DEF QueuesMatchStatus

\* A preempted request moves from the running to the waiting queue and holds no
\* block; removed is the running queue without it.
LEMMA PreemptQueues ==
  ASSUME TypeOK, QueuesMatchStatus, NEW v \in Elems(running), preempt_request(v),
         Elems(running') = Elems(running) \ {v}, NoDuplicates(running')
  PROVE  QueuesMatchStatus'
<1>1. v \in Requests /\ status[v] = "RUNNING" /\ v \notin Elems(waiting)
  BY Zenon DEF QueuesMatchStatus
<1>2. /\ status' = [status EXCEPT ![v] = "PREEMPTED"] /\ status \in [Requests -> Statuses]
      /\ req_to_blocks' = [req_to_blocks EXCEPT ![v] = <<>>]
      /\ req_to_blocks \in [Requests -> Seq(Entries)]
  BY Zenon DEF TypeOK, ReqTypeOK, KVTypeOK, preempt_request, kv_free
<1>3. waiting' = <<v>> \o waiting /\ waiting \in Seq(Requests) /\ NoDuplicates(waiting)
  BY Zenon DEF TypeOK, QueueTypeOK, QueuesMatchStatus, preempt_request
<1>4. Elems(waiting') = Elems(waiting) \cup {v} /\ NoDuplicates(waiting')
  BY <1>1, <1>3, PrependFacts
<1> QED BY <1>1, <1>2, <1>4 DEF QueuesMatchStatus

\* A step that leaves statuses, queues and tables alone, and does not start an
\* allocation, keeps the agreement.
LEMMA QueuesUnchanged ==
  ASSUME QInv, UNCHANGED <<status, waiting, running, req_to_blocks>>,
         pc' # "alloc" \/ UNCHANGED <<pc, cur>>
  PROVE  QInv'
BY Zenon DEF QInv, QueuesMatchStatus

\* Clients: a new request joins the waiting queue, an aborted one leaves.
LEMMA ClientKeepsQueues ==
  ASSUME IInv, QInv, ClientStep
  PROVE  QInv'
<1>1. ASSUME NEW r \in Requests, AddRequest(r) PROVE QInv'
  <2>1. /\ status[r] = "NONE" /\ status' = [status EXCEPT ![r] = "WAITING"]
        /\ status \in [Requests -> Statuses]
        /\ waiting' = Append(waiting, r) /\ waiting \in Seq(Requests)
        /\ UNCHANGED <<running, req_to_blocks>> /\ pc' # "alloc"
    BY <1>1, Zenon DEF AddRequest, add_request, kvVars, IInv, TypeOK, ReqTypeOK, QueueTypeOK
  <2>2. r \notin Elems(waiting) /\ NoDuplicates(waiting)
    BY <2>1, Zenon DEF QInv, QueuesMatchStatus
  <2>3. Elems(waiting') = Elems(waiting) \cup {r} /\ NoDuplicates(waiting')
    BY <2>1, <2>2, AppendFacts
  <2> QED BY <2>1, <2>3, Zenon DEF QInv, QueuesMatchStatus
<1>2. ASSUME NEW r \in Requests, Abort(r) PROVE QInv'
  <2>1. free_request(r) /\ pc' # "alloc"
    BY <1>2, Zenon DEF Abort, finish_requests
  <2> QED BY <2>1, FreeRequestQueues, Zenon DEF IInv, QInv
<1>3. CASE PauseScheduler \/ ResumeScheduler
  BY <1>3, QueuesUnchanged, Zenon
     DEF PauseScheduler, ResumeScheduler, set_pause_state, kvVars, reqVars, loopVars
<1>4. CASE ResetPrefixCache
  <2>1. UNCHANGED <<status, waiting, running, req_to_blocks>> /\ pc' # "alloc"
    BY <1>4, Zenon DEF ResetPrefixCache, kvVars, reqVars, queueVars
  <2> QED BY <2>1, QueuesUnchanged, Zenon
<1> QED BY <1>1, <1>2, <1>3, <1>4, Zenon DEF ClientStep

\* schedule(): preemption and admission move requests between the queues, and
\* only running requests are given blocks.
LEMMA ScheduleKeepsQueues ==
  ASSUME IInv, QInv, ScheduleStep
  PROVE  QInv'
<1>1. CASE start_schedule \/ running_skip \/ running_done \/ waiting_done \/ finish_schedule
  <2>1. UNCHANGED <<status, waiting, running, req_to_blocks>> /\ pc' # "alloc"
    BY <1>1, Zenon DEF start_schedule, running_skip, InRunningLoop, running_done, waiting_done,
                finish_schedule, kvVars, reqVars, queueVars
  <2> QED BY <2>1, QueuesUnchanged, Zenon
<1>2. CASE running_pick
  <2>1. UNCHANGED <<status, waiting, running, req_to_blocks>>
    BY <1>2, Zenon DEF running_pick, kvVars, reqVars, queueVars
  <2>2. cur' = running[req_index] /\ req_index \in DOMAIN running
    BY <1>2, Zenon DEF running_pick, InRunningLoop
  <2>3. cur' \in Elems(running')
    BY <2>1, <2>2, Zenon DEF Elems
  <2> QED BY <2>1, <2>3, Zenon DEF QInv, QueuesMatchStatus
<1>3. CASE running_allocate
  <2>1. /\ UNCHANGED <<status, waiting, running>> /\ pc' # "alloc"
        /\ \A q \in Requests : q # cur => req_to_blocks'[q] = req_to_blocks[q]
    BY <1>3, Zenon
       DEF running_allocate, allocate_new_blocks, reqVars, queueVars, IInv, TypeOK, KVTypeOK
  <2>2. status[cur] = "RUNNING"
    BY <1>3, Zenon DEF running_allocate, QInv, QueuesMatchStatus
  <2> QED BY <2>1, <2>2, Zenon DEF QInv, QueuesMatchStatus
<1>4. CASE running_preempt
  <2>1. PICK v \in Requests :
          /\ v \in Elems(running) /\ preempt_request(v) /\ running' = Without(running, v)
          /\ IF v = cur THEN pc' = "finish" ELSE UNCHANGED <<pc, cur>>
    BY <1>4, Zenon DEF running_preempt, IsVictim
  <2>2. Elems(running') = Elems(running) \ {v} /\ NoDuplicates(running')
    BY <2>1, WithoutFacts, Zenon DEF IInv, TypeOK, QueueTypeOK, QInv, QueuesMatchStatus
  <2>3. QueuesMatchStatus'
    BY <2>1, <2>2, PreemptQueues, Zenon DEF IInv, QInv
  <2>4. pc' = "alloc" => cur' \in Elems(running')
    BY <2>1, <2>2, Zenon DEF QInv
  <2> QED BY <2>3, <2>4, Zenon DEF QInv
<1>5. CASE waiting_admit
  <2>1. PICK r \in Requests :
          /\ r \in Elems(waiting)
          /\ \E nb : req_to_blocks' = [req_to_blocks EXCEPT ![r] = @ \o nb]
          /\ waiting' = Without(waiting, r)
          /\ running' = Append(running, r)
          /\ status' = [status EXCEPT ![r] = "RUNNING"]
    BY <1>5, Zenon DEF waiting_admit, IsNext, allocate_new_blocks
  <2>2. /\ status \in [Requests -> Statuses] /\ req_to_blocks \in [Requests -> Seq(Entries)]
        /\ waiting \in Seq(Requests) /\ running \in Seq(Requests)
    BY Zenon DEF IInv, TypeOK, ReqTypeOK, KVTypeOK, QueueTypeOK
  <2>3. NoDuplicates(waiting) /\ NoDuplicates(running) /\ r \notin Elems(running)
    BY <2>1, Zenon DEF QInv, QueuesMatchStatus
  <2>4. Elems(waiting') = Elems(waiting) \ {r} /\ NoDuplicates(waiting')
    BY <2>1, <2>2, <2>3, WithoutFacts, Zenon
  <2>5. Elems(running') = Elems(running) \cup {r} /\ NoDuplicates(running')
    BY <2>1, <2>2, <2>3, AppendFacts, SMTT(30)
  <2>6. \A q \in Requests : q # r => req_to_blocks'[q] = req_to_blocks[q] /\ status'[q] = status[q]
    BY <2>1, <2>2, Zenon
  <2>7. status'[r] = "RUNNING" /\ pc' # "alloc"
    BY <1>5, <2>1, <2>2, Zenon DEF waiting_admit, InWaitingLoop
  <2> QED BY <2>4, <2>5, <2>6, <2>7, SMTT(30) DEF QInv, QueuesMatchStatus
<1> QED BY <1>1, <1>2, <1>3, <1>4, <1>5, Zenon DEF ScheduleStep, FinishSchedule

\* The worker's half of a step does not touch the scheduler's queues.
LEMMA ExecuteKeepsQueues ==
  ASSUME QInv, ExecuteStep
  PROVE  QInv'
<1>1. CASE update_states \/ skive_check \/ EndExecute
  <2>1. UNCHANGED <<status, waiting, running, req_to_blocks>> /\ pc' # "alloc"
    BY <1>1, Zenon DEF update_states, skive_check, EndExecute, kvVars, reqVars, queueVars
  <2> QED BY <2>1, QueuesUnchanged, Zenon
<1>2. ASSUME NEW r \in Requests, evict_request_blocks(r) PROVE QInv'
  <2>1. UNCHANGED <<status, waiting, running, req_to_blocks>> /\ pc' # "alloc"
    BY <1>2, Zenon DEF evict_request_blocks, kvVars, reqVars, queueVars
  <2> QED BY <2>1, QueuesUnchanged, Zenon
<1> QED BY <1>1, <1>2, Zenon DEF ExecuteStep

\* Outputs may finish requests; the reclaim only touches tables of running ones.
LEMMA OutputKeepsQueues ==
  ASSUME IInv, QInv, OutputStep
  PROVE  QInv'
<1>1. CASE AwaitOutput \/ TakeOutput \/ PopPending \/ EndStep
  <2>1. UNCHANGED <<status, waiting, running, req_to_blocks>> /\ pc' # "alloc"
    BY <1>1, Zenon DEF AwaitOutput, TakeOutput, PopPending, EndStep, kvVars, reqVars, queueVars
  <2> QED BY <2>1, QueuesUnchanged, Zenon
<1>2. ASSUME NEW r \in Requests, UpdateFromOutput(r) PROVE QInv'
  <2>1. pc' # "alloc"
    BY <1>2, Zenon DEF UpdateFromOutput
  <2>2. free_request(r) \/ UNCHANGED <<status, waiting, running, req_to_blocks>>
    BY <1>2, Zenon DEF UpdateFromOutput, update_from_output, kvVars, reqVars, queueVars
  <2>3. CASE free_request(r)
    BY <2>1, <2>3, FreeRequestQueues, Zenon DEF IInv, QInv
  <2>4. CASE UNCHANGED <<status, waiting, running, req_to_blocks>>
    BY <2>1, <2>4, QueuesUnchanged, Zenon
  <2> QED BY <2>2, <2>3, <2>4, Zenon
<1>3. ASSUME NEW item \in popped, skive_reclaim(item[1], item[2]) PROVE QInv'
  <2> DEFINE r == item[1]
             j == item[2]
  <2>1. r \in Requests /\ req_to_blocks \in [Requests -> Seq(Entries)]
    BY Zenon DEF IInv, TypeOK, KVTypeOK, EngineTypeOK
  <2>2. UNCHANGED <<status, waiting, running>> /\ pc' # "alloc"
    BY <1>3, Zenon DEF skive_reclaim, schedVars, reqVars, queueVars
  <2>3. CASE UNCHANGED req_to_blocks
    BY <2>2, <2>3, QueuesUnchanged, Zenon
  <2>4. CASE Reclaimable(r, j) /\ FreeEntry(r, j)
    <3>1. status[r] = "RUNNING"
      <4>1. req_to_blocks[r] # <<>>
        BY <2>4 DEF Reclaimable
      <4>2. \A q \in Requests : status[q] # "RUNNING" => req_to_blocks[q] = <<>>
        BY Zenon DEF QInv, QueuesMatchStatus
      <4> HIDE DEF r
      <4> QED BY <2>1, <4>1, <4>2, Zenon
    <3>2. \A q \in Requests : q # r => req_to_blocks'[q] = req_to_blocks[q]
      BY <2>1, <2>4, Zenon DEF FreeEntry
    <3> QED BY <2>2, <3>1, <3>2, Zenon DEF QInv, QueuesMatchStatus
  <2> QED BY <1>3, <2>3, <2>4, Zenon DEF skive_reclaim, kvVars
<1> QED BY <1>1, <1>2, <1>3, Zenon DEF OutputStep

\* A forced reset preempts the running requests from the last to the first.
LEMMA ResetKeepsQueues ==
  ASSUME IInv, QInv, ResetPreempt \/ ResetDone
  PROVE  QInv'
<1>1. CASE ResetPreempt
  <2>1. PICK v \in Requests :
          /\ v = running[Len(running)] /\ preempt_request(v)
          /\ running' = SubSeq(running, 1, Len(running) - 1)
    BY <1>1, Zenon DEF ResetPreempt, reset_preempt
  <2>2. running # <<>> /\ pc' # "alloc"
    BY <1>1, Zenon DEF ResetPreempt, reset_preempt
  <2>3. running \in Seq(Requests) /\ NoDuplicates(running)
    BY Zenon DEF IInv, TypeOK, QueueTypeOK, QInv, QueuesMatchStatus
  <2>4. v \in Elems(running) /\ Elems(running') = Elems(running) \ {v} /\ NoDuplicates(running')
    BY <2>1, <2>2, <2>3, PopFacts, Zenon
  <2> QED BY <2>1, <2>2, <2>4, PreemptQueues, Zenon DEF IInv, QInv
<1>2. CASE ResetDone
  <2>1. UNCHANGED <<status, waiting, running, req_to_blocks>> /\ pc' # "alloc"
    BY <1>2, Zenon DEF ResetDone, reset_done, kvVars, reqVars
  <2> QED BY <2>1, QueuesUnchanged, Zenon
<1> QED BY <1>1, <1>2, Zenon

\* Every step keeps the agreement of the queues.
LEMMA QueuesKeep ==
  ASSUME IInv, QInv, [Next]_vars
  PROVE  QInv'
<1>1. CASE WaitForInput \/ UNCHANGED vars
  BY <1>1, QueuesUnchanged, Zenon
     DEF WaitForInput, vars, schedVars, kvVars, reqVars, queueVars, loopVars
<1> QED BY <1>1, ClientKeepsQueues, ScheduleKeepsQueues, ExecuteKeepsQueues,
           OutputKeepsQueues, ResetKeepsQueues, Zenon DEF Next, EngineStep

\* No request is queued at the start.
LEMMA InitQueues == Init => QInv
BY DEF Init, SchedInit, KVInit, QInv, QueuesMatchStatus, Elems, NoDuplicates

-----------------------------------------------------------------------------
(* What schedule() may give a request *)

\* Under FCFS the victim, the last running request, is not scheduled yet: the
\* request that needs the blocks comes before it or is it.
LEMMA VictimNotScheduled ==
  ASSUME IInv, SInv, pc = "alloc", NEW v \in Requests, IsVictim(v), ~Unschedule(v)
  PROVE  v \notin Lists
<1>1. scheduled_new_reqs = {} /\ scheduled_resumed_reqs = {}
  BY Zenon DEF SInv, ListInv
<1>2. CASE Policy = "priority"
  BY <1>1, <1>2, Zenon DEF Unschedule, Lists
<1>3. CASE Policy # "priority"
  <2>1. v = running[Len(running)]
    BY <1>3, Zenon DEF IsVictim
  <2>2. req_index \in DOMAIN running
    BY <1>3, Zenon DEF SInv, IndexInv
  <2>3. running \in Seq(Requests)
    BY Zenon DEF IInv, TypeOK, QueueTypeOK
  <2>4. Len(running) \in Nat /\ DOMAIN running = 1..Len(running)
    BY <2>3, LenProperties, Zenon
  <2>5. Len(running) \in DOMAIN running /\ ~(Len(running) < req_index)
    BY <2>2, <2>4
  <2>6. v \notin scheduled_running_reqs
    BY <2>1, <2>5, ZenonT(30) DEF SInv, IndexInv
  <2> QED BY <1>1, <2>6, Zenon DEF Lists
<1> QED BY <1>2, <1>3, Zenon

\* What a request is given is positive and within the budget and its known tokens.
LEMMA NewTokensBound ==
  ASSUME IInv, NEW r \in Requests, token_budget > 0
  PROVE  /\ NumNewTokens(r) \in Int /\ WaitingTokens(r) \in Int
         /\ (/\ NumNewTokens(r) # 0
             /\ 0 <= num_tokens[r] + num_output_placeholders[r] - num_computed_tokens[r])
            => /\ 0 < NumNewTokens(r) /\ NumNewTokens(r) <= token_budget
               /\ num_computed_tokens[r] + NumNewTokens(r)
                    <= num_tokens[r] + num_output_placeholders[r]
         /\ 0 < num_tokens[r]
            => /\ 0 < WaitingTokens(r) /\ WaitingTokens(r) <= token_budget
               /\ WaitingTokens(r) <= num_tokens[r]
<1>1. /\ num_tokens[r] \in Int /\ num_output_placeholders[r] \in Int
      /\ num_computed_tokens[r] \in Int /\ token_budget \in Int /\ LongPrefill \in Nat
  BY SchedulerAssumption, ZenonT(30) DEF IInv, TypeOK, ReqTypeOK, LoopTypeOK
<1> QED BY <1>1, SMTT(30) DEF NumNewTokens, WaitingTokens, Chunk, Minimum
=============================================================================
