------------------------------ MODULE MCCfgSync ------------------------------
(* Three nodes; one or two addresses per container.                         *)
EXTENDS CfgSync
=============================================================================
