---------------------------- MODULE MCK8sDeploy ----------------------------
(* Two nodes, so that port forwards fail between and within the pairs; a     *)
(* few polls for the end of the namespace.                                   *)
EXTENDS K8sDeploy
=============================================================================
