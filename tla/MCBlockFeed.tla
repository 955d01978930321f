---------------------------- MODULE MCBlockFeed ----------------------------
(* A chain of two blocks over the genesis block with a fork at height 1,    *)
(* one capture task, and a channel smaller than the number of blocks.       *)
EXTENDS BlockFeed

MCBlock == {"g", "a1", "a2", "b2"}
MCParent == [b \in MCBlock |-> CASE b = "g" -> "zero"
                                 [] b = "a1" -> "g"
                                 [] b \in {"a2", "b2"} -> "a1"]
MCHeight == [b \in MCBlock |-> CASE b = "g" -> 0
                                 [] b = "a1" -> 1
                                 [] b \in {"a2", "b2"} -> 2]
\* One transaction pays two tracked accounts, one block has two transactions,
\* and the other branch has one of them too and one that is not tracked.
MCBlockTxs == [b \in MCBlock |-> CASE b = "a1" -> <<{"x", "y"}>>
                                   [] b = "a2" -> <<{"x"}, {"y"}>>
                                   [] b = "b2" -> <<{"x"}, {"z"}>>
                                   [] OTHER -> <<>>]
MCTracked == [c \in {"c1"} |-> {"x", "y"}]
=============================================================================
