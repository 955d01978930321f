---------------------------- MODULE MCLocalDeploy ----------------------------
(* Up to four nodes in each layout.                                         *)
EXTENDS LocalDeploy

\* With five nodes in a chain the counts can be met by a network in two parts, the
\* ends of the chain and a triangle of the others: that is why the bound is four.
ASSUME CountsMayMislead ==
    LET split == {{0, 4}, {1, 2}, {2, 3}, {1, 3}}
    IN  /\ \A i \in Node(5) : Cardinality({l \in split : i \in l}) >= ExpectedPeerCounts("Chain", 5)[i]
        /\ ~Connected(Node(5), split)
=============================================================================
