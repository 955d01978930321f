-------------------------- MODULE ConsensusLiveness --------------------------
(***************************************************************************)
(* The consensus_liveness expectation.  It asks the nodes one after the    *)
(* other for their height, each up to REQUEST_RETRIES times, and judges    *)
(* the samples against a target.  The nodes go on producing blocks while   *)
(* it asks, so the samples are heights of different moments.               *)
(***************************************************************************)
EXTENDS Integers, FiniteSets, FiniteSetsExt

CONSTANTS
    NumNodes,        \* the run context has clients for up to this many nodes
    Setting,         \* kinds of run: its expected_blocks (hint), the expectation's
                     \* lag_allowance (lag), the heights that nodes may have
    LAG_ALLOWANCE_MAX,   \* MAX_LAG_ALLOWANCE (5)
    MIN_PROGRESS_BLOCKS, \* (5)
    REQUEST_RETRIES      \* (15)

ASSUME HeightAssumption ==
    /\ \A s \in Setting : /\ s.hint \in Nat /\ s.lag \in Nat
                           /\ s.heights \subseteq Nat /\ s.heights # {}
    /\ LAG_ALLOWANCE_MAX \in Nat /\ MIN_PROGRESS_BLOCKS \in Nat \ {0}
    /\ NumNodes \in Nat /\ REQUEST_RETRIES \in Nat \ {0}

VARIABLES
    setting,   \* the setting of this run
    count,     \* how many clients the context has
    height,    \* height[n]: the height of node n now
    initially, \* initially[n]: its height when the evaluation began
    pc,        \* where evaluate() is
    idx,       \* the node that is asked
    attempt,   \* failed attempts at that node
    hangs,     \* the request to that node never comes back
    samples,   \* the samples so far: a function of the nodes that answered
    issues,    \* the issues so far: the kind and the node
    lag,       \* lag_allowance used by report()
    target     \* target used by report()

vars == <<setting, count, height, initially, pc, idx, attempt, hangs, samples, issues, lag, target>>

Node == 0..(NumNodes - 1)
Sampled == DOMAIN samples
TargetHint == setting.hint
LagAllowance == setting.lag
HeightSet == setting.heights
Network == NumNodes   \* the "node" named in an issue about the whole network
Issue == [kind : {"request", "height"}, node : Node \cup {Network}]
Ended == {"ok", "missing", "violations", "panic"}

-----------------------------------------------------------------------------
(* The nodes                                                               *)

\* A node extends its chain or takes over a longer one.
NodeGrows ==
    /\ pc \notin Ended
    /\ \E n \in Node, h \in HeightSet :
          /\ h > height[n]
          /\ height' = [height EXCEPT ![n] = h]
    /\ UNCHANGED <<setting, count, hangs, initially, pc, idx, attempt, samples, issues, lag, target>>

-----------------------------------------------------------------------------
(* evaluate and collect_results                                            *)

\* ensure_participants, and the first node to ask.
Evaluate ==
    /\ pc = "start"
    /\ pc' = IF count = 0 THEN "missing" ELSE "collect"
    /\ initially' = height
    /\ UNCHANGED <<setting, count, hangs, height, idx, attempt, samples, issues, lag, target>>

NextNode ==
    /\ idx' = idx + 1
    /\ attempt' = 0

\* The node that is asked accepts the request and never answers it.  The ApiClient
\* sets no timeout, and so the evaluation waits with it.
RequestHangs ==
    /\ pc = "collect" /\ idx < count /\ ~hangs
    /\ hangs' = TRUE
    /\ UNCHANGED <<setting, count, height, initially, pc, idx, attempt, samples, issues, lag,
                   target>>

\* The request comes back: with an answer, or with an error.
RequestReturns == pc = "collect" /\ idx < count /\ ~hangs

FetchOk ==
    /\ RequestReturns
    /\ samples' = [n \in Sampled \cup {idx} |-> IF n = idx THEN height[n] ELSE samples[n]]
    /\ NextNode
    /\ UNCHANGED <<setting, count, hangs, height, initially, pc, issues, lag, target>>

\* Mutant: the node's last failure is not recorded.
FetchFails_forgets ==
    /\ RequestReturns
    /\ IF attempt + 1 = REQUEST_RETRIES
       THEN NextNode
       ELSE attempt' = attempt + 1 /\ UNCHANGED idx
    /\ UNCHANGED <<setting, count, hangs, height, initially, pc, samples, issues, lag, target>>

\* Mutant: the node is asked until it answers.
FetchFails_forever ==
    /\ RequestReturns
    /\ attempt' = (attempt + 1) % REQUEST_RETRIES
    /\ UNCHANGED <<setting, count, hangs, height, initially, pc, idx, samples, issues, lag, target>>

\* A request fails: try again after a delay, or note the issue and go on.
FetchFails ==
    /\ RequestReturns
    /\ IF attempt + 1 = REQUEST_RETRIES
       THEN /\ issues' = issues \cup {[kind |-> "request", node |-> idx]}
            /\ NextNode
       ELSE attempt' = attempt + 1 /\ UNCHANGED <<issues, idx>>
    /\ UNCHANGED <<setting, count, hangs, height, initially, pc, samples, lag, target>>

-----------------------------------------------------------------------------
(* report                                                                  *)

MaxSample == Max({samples[n] : n \in Sampled})

\* Mutant: the target is always the highest sample.
Target_ofLeader == MaxSample

\* The target: the hint, unless it is zero or nobody reached it.
Target == IF TargetHint = 0 \/ TargetHint > MaxSample THEN MaxSample ELSE TargetHint

\* effective_lag_allowance: (target / 10).clamp(lag_allowance, MAX_LAG_ALLOWANCE).
EffectiveLag(t) ==
    IF t \div 10 < LagAllowance THEN LagAllowance
    ELSE IF t \div 10 > LAG_ALLOWANCE_MAX THEN LAG_ALLOWANCE_MAX
    ELSE t \div 10

\* clamp panics when its bounds are the wrong way round.
ClampPanics == LagAllowance > LAG_ALLOWANCE_MAX

HeightIssues ==
    LET late == {n \in Sampled : samples[n] + EffectiveLag(Target) < Target}
        network == IF MaxSample < MIN_PROGRESS_BLOCKS THEN {Network} ELSE {}
    IN {[kind |-> "height", node |-> n] : n \in late \cup network}

Report ==
    /\ pc = "collect" /\ idx = count
    /\ IF Sampled = {} THEN pc' = "missing" /\ UNCHANGED <<issues, lag, target>>
       ELSE IF ClampPanics THEN pc' = "panic" /\ UNCHANGED <<issues, lag, target>>
       ELSE /\ issues' = issues \cup HeightIssues
            /\ target' = Target
            /\ lag' = EffectiveLag(Target)
            /\ pc' = IF issues' = {} THEN "ok" ELSE "violations"
    /\ UNCHANGED <<setting, count, hangs, height, initially, idx, attempt, samples>>

-----------------------------------------------------------------------------
Init ==
    /\ setting \in Setting
    /\ count \in 0..NumNodes
    /\ height \in [Node -> HeightSet]
    /\ initially = height
    /\ pc = "start"
    /\ idx = 0
    /\ attempt = 0
    /\ hangs = FALSE
    /\ samples = [n \in {} |-> 0]
    /\ issues = {}
    /\ lag = 0
    /\ target = 0

Evaluation == Evaluate \/ FetchOk \/ FetchFails \/ Report

Next == NodeGrows \/ RequestHangs \/ Evaluation

Spec == Init /\ [][Next]_vars

\* Sleeps end, and a request returns unless it hangs.
FairSpec == Spec /\ WF_vars(Evaluation)

-----------------------------------------------------------------------------
(* Properties                                                              *)

Asked == 0..(count - 1)

\* The types of the variables.
TypeOK ==
    /\ setting \in Setting /\ count \in 0..NumNodes
    /\ hangs \in BOOLEAN
    /\ height \in [Node -> HeightSet] /\ initially \in [Node -> HeightSet]
    /\ pc \in {"start", "collect"} \cup Ended
    /\ idx \in 0..count /\ attempt \in 0..(REQUEST_RETRIES - 1)
    /\ Sampled \subseteq Asked /\ \A n \in Sampled : samples[n] \in HeightSet
    /\ issues \subseteq Issue
    /\ lag \in Nat /\ target \in Nat

\* Some sample reached the hint, the number of blocks that the run should produce.
HintReached == TargetHint > 0 /\ \E m \in Sampled : samples[m] >= TargetHint

\* The expectation is satisfied only if every node of the run answered, somebody
\* made progress, and, once a node has reached the hint, every node has by now
\* come within the largest allowance of it.  If none has reached it the hint
\* counts for nothing: then no node is further than the allowance behind the
\* samples of the others, however low these are.
PassIsSound ==
    pc = "ok" =>
        /\ Sampled = Asked
        /\ \E n \in Asked : height[n] >= MIN_PROGRESS_BLOCKS
        /\ IF HintReached
           THEN \A n \in Asked : height[n] + LAG_ALLOWANCE_MAX >= TargetHint
           ELSE \A n, m \in Asked : height[n] + LAG_ALLOWANCE_MAX >= samples[m]

\* The invariant of the expectation.
Safety == TypeOK /\ PassIsSound

\* If every node had reached the hinted height when the
\* evaluation began, and each one answers, then the expectation is satisfied,
\* however far apart the nodes move while they are asked one by one.
ReachedHintPasses ==
    /\ TargetHint >= MIN_PROGRESS_BLOCKS
    /\ \A n \in Asked : initially[n] >= TargetHint
    => (pc = "violations" => \E i \in issues : i.kind = "request")

\* The evaluation comes to a verdict, however often its requests fail, unless it
\* waits forever for a node that took a request and never answers it.
EvaluationEnds == <>(pc \in Ended) \/ <>[](pc = "collect" /\ hangs)

\* If no chain grew while the nodes were asked, a node is reported only when it
\* is more than the effective allowance, which is at least the expectation's
\* own, behind another one.
FailMeansBehind ==
    pc = "violations" /\ height = initially =>
        \A i \in issues : i.kind = "height" /\ i.node # Network =>
            /\ lag >= LagAllowance
            /\ \E m \in Asked : height[m] > height[i.node] + lag

\* No false alarm: nodes that had all reached the hinted height and answer are
\* never reported, and without growth only a node that is really behind is.
NoFalseAlarm == ReachedHintPasses /\ FailMeansBehind
=============================================================================
