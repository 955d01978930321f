----------------------------- MODULE TxInclusion -----------------------------
(***************************************************************************)
(* The transaction workload and its inclusion expectation.  The workload   *)
(* plans one transaction per wallet account (an account pays its genesis   *)
(* note to itself), and submits them one by one, each to one node after    *)
(* the other until one accepts it.  The expectation counts, from the block *)
(* feed, the transactions that pay one of the planned accounts, and        *)
(* compares the count with half of the plan.                               *)
(*                                                                         *)
(* Nodes and chain are external: a node may accept a transaction although  *)
(* its answer is lost, may forget one (a restart empties its mempool), and *)
(* the branches of a fork may each include it.  The feed shows every block *)
(* once, parents first (BlockFeed).                                        *)
(***************************************************************************)
EXTENDS Integers, FiniteSets, TxPlan

CONSTANTS
    MaxWallets,      \* bound: number of wallet accounts, all funded at genesis
    UserLimit,       \* values of user_limit
    Rate,            \* values of txs_per_block
    RUN_DURATION,    \* run duration, in ticks
    IntervalHint,    \* values of block_interval_hint in ticks; 0 stands for None
    NumClients,      \* clients of the run context
    Branches,        \* how many branches may include a transaction
    SUBMIT_RETRIES,  \* rounds over all clients (5)
    MaxLosses,       \* bound: how often a mempool forgets a transaction
    CATCHUP_POLLS    \* polls of the counter before evaluate gives up (60)

ASSUME PlanAssumption ==
    /\ MaxWallets \in Nat /\ UserLimit \subseteq (Nat \ {0}) \cup {NoLimit}
    /\ Rate \subseteq Nat \ {0} /\ RUN_DURATION \in Nat \ {0} /\ IntervalHint \subseteq Nat
    /\ NumClients \in Nat /\ Branches \in Nat \ {0} /\ SUBMIT_RETRIES \in Nat \ {0}
    /\ MaxLosses \in Nat /\ CATCHUP_POLLS \in Nat

VARIABLES
    wallets,     \* number of wallet accounts
    userLimit, rate, hint,   \* the parameters of workload and metrics
    pc,          \* where the run is: workload and expectation take turns
    current,     \* the account whose transaction is submitted
    round,       \* attempt: rounds over the clients that are over
    tried,       \* clients that failed in this round
    accepted,    \* transactions that some node took at some time
    pool,        \* transactions that some node holds
    losses,      \* how often a transaction was forgotten
    included,    \* included[t]: branches whose blocks with t reached the capture
    observed,    \* the counter of the capture task
    captured,    \* capture_state.expected, or 0 before start_capture
    polls        \* polls of evaluate so far

params == <<wallets, userLimit, rate, hint>>
chainVars == <<pool, losses, included>>
vars == <<params, pc, current, round, tried, accepted, chainVars, observed, captured, polls>>

Tx == 1..MaxWallets      \* a transaction is named by its account

-----------------------------------------------------------------------------
(* The plan                                                                *)

\* Workload::init keeps the first accounts up to the limit.
PlannedTxs ==
    1..PlannedCount(RUN_DURATION, rate, hint, LimitedUsers(userLimit, wallets))

\* build_capture_plan: the expectation computes its plan by itself, and tracks
\* the first accounts of the wallet.
ExpectedCount == PlannedCount(RUN_DURATION, rate, hint, LimitedUsers(userLimit, wallets))
Tracked == 1..Smaller(captured, wallets)

\* required: half of the expected count, rounded up.
Required == (captured + 1) \div 2

-----------------------------------------------------------------------------
(* start_capture, start                                                    *)

\* The expectation subscribes and plans; after that the workload is started.
StartCapture ==
    /\ pc = "capture"
    /\ wallets > 0 /\ ExpectedCount > 0
    /\ captured' = ExpectedCount
    /\ pc' = "submit"
    /\ current' = 1
    /\ UNCHANGED <<params, round, tried, accepted, chainVars, observed, polls>>

\* No accounts, or a run too short for a single transaction.
CaptureFails ==
    /\ pc = "capture"
    /\ wallets = 0 \/ ExpectedCount = 0
    /\ pc' = "captureError"
    /\ UNCHANGED <<params, current, round, tried, accepted, chainVars, observed, captured, polls>>

-----------------------------------------------------------------------------
(* submit_transaction_via_cluster                                          *)

\* The transaction of current is dealt with: sleep and go on, or finish.
NextTx ==
    /\ current' = current + 1
    /\ round' = 0
    /\ tried' = 0
    /\ pc' = IF current + 1 \in PlannedTxs THEN "submit" ELSE "submitted"

SubmitOk ==
    /\ pc = "submit" /\ tried < NumClients
    /\ accepted' = accepted \cup {current}
    /\ pool' = pool \cup {current}
    /\ NextTx
    /\ UNCHANGED <<params, losses, included, observed, captured, polls>>

\* A client fails.  Its node may have taken the transaction all the same.
SubmitFails ==
    /\ pc = "submit" /\ tried < NumClients
    /\ tried' = tried + 1
    /\ \/ UNCHANGED <<accepted, pool>>
       \/ accepted' = accepted \cup {current} /\ pool' = pool \cup {current}
    /\ UNCHANGED <<params, pc, current, round, losses, included, observed, captured, polls>>

\* Mutant: the rounds are not counted.
RoundEnds_forever ==
    /\ pc = "submit" /\ tried = NumClients
    /\ tried' = 0
    /\ UNCHANGED <<params, pc, current, round, accepted, chainVars, observed, captured, polls>>

\* All clients failed: sleep and begin another round, or give up.
RoundEnds ==
    /\ pc = "submit" /\ tried = NumClients
    /\ IF round + 1 = SUBMIT_RETRIES
       THEN pc' = "workloadError" /\ UNCHANGED <<round, tried>>
       ELSE round' = round + 1 /\ tried' = 0 /\ UNCHANGED pc
    /\ UNCHANGED <<params, current, accepted, chainVars, observed, captured, polls>>

\* The runner aborts the workload at the end of the run.
Aborted ==
    /\ pc = "submit"
    /\ pc' = "submitted"
    /\ UNCHANGED <<params, current, round, tried, accepted, chainVars, observed, captured, polls>>

-----------------------------------------------------------------------------
(* Chain and feed                                                          *)

\* capture_tx_outputs: one for a transaction that pays a tracked account.
Observe(t) == observed' = observed + IF t \in Tracked THEN 1 ELSE 0

\* The capture task receives a block of one more branch that includes t.
BlockObserved(t) ==
    /\ pc \in {"submit", "submitted", "evaluate"}
    /\ t \in pool
    /\ included[t] < Branches
    /\ included' = [included EXCEPT ![t] = @ + 1]
    /\ Observe(t)
    /\ UNCHANGED <<params, pc, current, round, tried, accepted, pool, losses, captured, polls>>

\* The nodes that hold t lose it, unless a block has it.
Forgotten(t) ==
    /\ pc \in {"submit", "submitted", "evaluate"}
    /\ t \in pool /\ included[t] = 0
    /\ losses < MaxLosses
    /\ losses' = losses + 1
    /\ pool' = pool \ {t}
    /\ UNCHANGED <<params, pc, current, round, tried, accepted, included, observed, captured, polls>>

-----------------------------------------------------------------------------
(* evaluate                                                                *)

Evaluate ==
    /\ pc = "submitted"
    /\ pc' = IF captured = 0 THEN "notCaptured" ELSE "evaluate"
    /\ UNCHANGED <<params, current, round, tried, accepted, chainVars, observed, captured, polls>>

Poll ==
    /\ pc = "evaluate"
    /\ observed < Required
    /\ polls < CATCHUP_POLLS
    /\ polls' = polls + 1
    /\ UNCHANGED <<params, pc, current, round, tried, accepted, chainVars, observed, captured>>

\* Mutant: the counter is compared with the plan rounded down.
Verdict_roundsDown ==
    /\ pc = "evaluate"
    /\ observed >= captured \div 2 \/ polls = CATCHUP_POLLS
    /\ pc' = IF observed >= captured \div 2 THEN "ok" ELSE "insufficient"
    /\ UNCHANGED <<params, current, round, tried, accepted, chainVars, observed, captured, polls>>

Verdict ==
    /\ pc = "evaluate"
    /\ observed >= Required \/ polls = CATCHUP_POLLS
    /\ pc' = IF observed >= Required THEN "ok" ELSE "insufficient"
    /\ UNCHANGED <<params, current, round, tried, accepted, chainVars, observed, captured, polls>>

-----------------------------------------------------------------------------
Init ==
    /\ wallets \in 0..MaxWallets
    /\ userLimit \in UserLimit /\ rate \in Rate /\ hint \in IntervalHint
    /\ pc = "capture"
    /\ current = 0 /\ round = 0 /\ tried = 0
    /\ accepted = {} /\ pool = {} /\ losses = 0
    /\ included = [t \in Tx |-> 0]
    /\ observed = 0 /\ captured = 0 /\ polls = 0

Run ==
    \/ StartCapture \/ CaptureFails
    \/ SubmitOk \/ SubmitFails \/ RoundEnds
    \/ Evaluate \/ Poll \/ Verdict

Next ==
    \/ Run
    \/ Aborted
    \/ \E t \in Tx : BlockObserved(t) \/ Forgotten(t)

Spec == Init /\ [][Next]_vars

\* Requests return and sleeps end; nothing says that a node ever accepts or
\* includes a transaction.
FairSpec == Spec /\ WF_vars(Run)

-----------------------------------------------------------------------------
(* Properties                                                              *)

Ended == {"captureError", "workloadError", "notCaptured", "ok", "insufficient"}

\* The types of the variables; an account of the wallet for every transaction.
TypeOK ==
    /\ pc \in {"capture", "submit", "submitted", "evaluate"} \cup Ended
    /\ current \in 0..(wallets + 1) /\ round \in 0..(SUBMIT_RETRIES - 1)
    /\ tried \in 0..NumClients
    /\ accepted \subseteq 1..wallets /\ pool \subseteq accepted
    /\ included \in [Tx -> 0..Branches] /\ observed \in Nat
    /\ captured \in 0..wallets /\ polls \in 0..CATCHUP_POLLS

IncludedTxs == {t \in Tx : included[t] > 0}

\* The expectation is satisfied only if at least half of the planned transactions
\* were included in blocks, or if the blocks of a fork brought the capture some
\* transaction twice, which it counts twice.
PassMeansIncluded ==
    pc = "ok" => \/ 2 * Cardinality(IncludedTxs) >= Cardinality(PlannedTxs)
                 \/ \E t \in Tx : included[t] > 1

\* It fails only if fewer than half of them were included in the blocks that
\* reached the capture, from the first submission on.
FailMeansMissing ==
    pc \in {"insufficient", "notCaptured"} =>
        2 * Cardinality(IncludedTxs) < Cardinality(PlannedTxs)

\* The workload goes on to the next transaction only when a node took the one
\* before, so that one that nobody takes is an error and no silent gap.
NoSilentGap ==
    pc = "submit" => \A t \in PlannedTxs : t < current => t \in accepted

\* The types of the variables; the verdict follows the chain, and no transaction of
\* the plan is passed over.
Safety == TypeOK /\ PassMeansIncluded /\ FailMeansMissing /\ NoSilentGap

\* Workload and expectation come to an end although nodes never accept.
RunEnds == <>(pc \in Ended)
=============================================================================
