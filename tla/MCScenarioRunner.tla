-------------------------- MODULE MCScenarioRunner --------------------------
(* Up to three workloads and two expectations, with every kind of context.  *)
EXTENDS ScenarioRunner
=============================================================================
