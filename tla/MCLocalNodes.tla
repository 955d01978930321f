---------------------------- MODULE MCLocalNodes ----------------------------
(* Two configurations in the topology, up to four processes, a blank name   *)
(* and the labels 1 (also the label of index 1) and 7.                      *)
EXTENDS LocalNodes

MCName == {Blank, 1, 7}
=============================================================================
