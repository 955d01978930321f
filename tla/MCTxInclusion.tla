---------------------------- MODULE MCTxInclusion ----------------------------
(* Up to three accounts; limits below and at their number; a rate and block  *)
(* intervals that plan nothing, less than the accounts, and more.            *)
EXTENDS TxInclusion
=============================================================================
