------------------------ MODULE MCConsensusLiveness ------------------------
(* A run with a hint and heights just outside of, at and inside the         *)
(* allowance, and far ahead; one without a hint, with heights below the     *)
(* least progress and a gap larger than the largest allowance; and one      *)
(* whose allowance is above the maximum.                                    *)
EXTENDS ConsensusLiveness

MCSetting == {[hint |-> 33, lag |-> 2, heights |-> {29, 30, 33, 80}],
              [hint |-> 0, lag |-> 2, heights |-> {0, 4, 54, 60}],
              [hint |-> 33, lag |-> 6, heights |-> {5, 80}]}
=============================================================================
