------------------------------ MODULE MCSkive ------------------------------
(* Small instances of the engine for TLC. *)
EXTENDS SkiveEngine, TLC

CONSTANTS r1, r2

\* r1 has the longer prompt: it starts over budget.
MCPromptLen == [r \in Requests |-> IF r = r1 THEN 5 ELSE 2]
MCMaxTokens == [r \in Requests |-> 5]
MCFewTokens == [r \in Requests |-> 3]

\* r2 is more urgent than the others, whatever the order of arrival.
MCRank == [r \in Requests |-> IF r = r2 THEN 1 ELSE IF r = r1 THEN 2 ELSE 3]

BlockSymmetry == Permutations(Blocks)
=============================================================================
