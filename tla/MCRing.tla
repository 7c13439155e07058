------------------------------- MODULE MCRing -------------------------------
(* The message queue for TLC: the second object is too large for a chunk.    *)
EXTENDS MessageQueue

MCBig == {1}
=============================================================================
