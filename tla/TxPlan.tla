------------------------------- MODULE TxPlan -------------------------------
(* How many transactions the transaction workload plans.                     *)
EXTENDS Integers

CONSTANT NoLimit      \* the user_limit None

Smaller(a, b) == IF a < b THEN a ELSE b

\* limited_user_count and apply_user_limit.
LimitedUsers(limit, available) ==
    IF limit = NoLimit THEN available ELSE Smaller(limit, available)

\* submission_plan: the blocks that fit in the run, times the rate, but at most
\* one transaction per account.  An interval hint of 0 stands for None.  The
\* quotient is exact here; the code computes it in floating point, where one that
\* is whole may come out a little lower and be floored to one less.
PlannedCount(run, rate, hint, available) ==
    Smaller((run * rate) \div (IF hint = 0 THEN run ELSE hint), available)
=============================================================================
