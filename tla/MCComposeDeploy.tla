--------------------------- MODULE MCComposeDeploy ---------------------------
(* The deployer's own number of attempts to start the block feed.             *)
EXTENDS ComposeDeploy
=============================================================================
