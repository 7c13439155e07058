----------------------------- MODULE MCFrontEnd -----------------------------
(* A call of generate() with two completions, of three tokens and of one. *)
EXTENDS FrontEnd

CONSTANTS g1, e

MCn == [g \in Calls |-> 2]
MCExternal == [g \in Calls |-> e]
MCLength == [r \in Requests |-> IF r[2] = 1 THEN 3 ELSE 1]
=============================================================================
