--------------------------- MODULE MCChaosRestart ---------------------------
(* Topologies of up to three nodes; the cooldown is longer than the delays,  *)
(* as in the examples of the book.                                           *)
EXTENDS ChaosRestart
=============================================================================
