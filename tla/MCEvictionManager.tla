------------------------- MODULE MCEvictionManager -------------------------
(* A small instance of EvictionManager: scores tell three values apart. *)
EXTENDS EvictionManager

MCScores == 0..2
=============================================================================
