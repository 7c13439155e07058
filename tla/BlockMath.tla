----------------------------- MODULE BlockMath -----------------------------
(* Arithmetic and sequence helpers shared by the modules. *)
EXTENDS Integers, Sequences, FiniteSets

\* vllm.utils.math_utils.cdiv
CeilDiv(a, b) == (a + b - 1) \div b

Minimum(a, b) == IF a <= b THEN a ELSE b

Maximum(a, b) == IF a <= b THEN b ELSE a

\* The values of a sequence.
Elems(s) == {s[j] : j \in DOMAIN s}

\* No value occurs twice in s.
NoDuplicates(s) == \A i, k \in DOMAIN s : s[i] = s[k] => i = k

\* s without its element x (which occurs at most once).
Without(s, x) ==
  IF \E k \in DOMAIN s : s[k] = x
  THEN LET k == CHOOSE k \in DOMAIN s : s[k] = x
       IN  SubSeq(s, 1, k - 1) \o SubSeq(s, k + 1, Len(s))
  ELSE s
=============================================================================
