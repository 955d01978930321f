--------------------------- MODULE WorkflowProofs ---------------------------
(***************************************************************************)
(* Proofs about the workloads and expectations of testing-framework/       *)
(* workflows, for every value of their constants:                          *)
(*                                                                         *)
(*  - the verdict of consensus_liveness is sound and raises no false alarm *)
(*    (ConsensusLiveness, which this module extends);                      *)
(*  - the chaos restart workload respects its cooldowns (ChaosRestart, as  *)
(*    the instance Chaos);                                                 *)
(*  - the transaction workload passes over no transaction, and the verdict *)
(*    of its inclusion expectation follows the chain (TxInclusion, as the  *)
(*    instance Tx).                                                        *)
(*                                                                         *)
(* The three specifications do not share state.  A theorem about an        *)
(* instance has the assumption of the instantiated module as hypothesis.   *)
(***************************************************************************)
EXTENDS ConsensusLiveness, FiniteSetTheorems, TLAPS

-----------------------------------------------------------------------------
(* ConsensusLiveness: the inductive invariant                              *)

\* Issues for the nodes of N that did not answer.
RequestIssues(N) == {[kind |-> "request", node |-> n] : n \in N}

\* A sample is a height its node had between the beginning of the evaluation
\* and now.
SamplesInv ==
    /\ \A n \in Node : initially[n] <= height[n]
    /\ \A n \in Sampled : initially[n] <= samples[n] /\ samples[n] <= height[n]

\* Every node before idx was either sampled or is reported, and nothing else is.
CollectInv ==
    /\ pc \in {"start", "collect"} =>
          Sampled \subseteq 0..(idx - 1) /\ issues = RequestIssues((0..(idx - 1)) \ Sampled)
    /\ pc = "start" => idx = 0

\* Some node has the highest sample.
LeaderInv ==
    Sampled # {} => \E m \in Sampled : \A n \in Sampled : samples[m] >= samples[n]

\* The verdict is what report() computes from the samples of all nodes.
VerdictInv ==
    pc \in {"ok", "violations"} =>
        /\ Sampled # {} /\ ~ClampPanics
        /\ target = Target /\ lag = EffectiveLag(Target)
        /\ issues = RequestIssues(Asked \ Sampled) \cup HeightIssues
        /\ pc = "ok" <=> issues = {}

IInv == TypeOK /\ SamplesInv /\ CollectInv /\ LeaderInv /\ VerdictInv

-----------------------------------------------------------------------------
(* ConsensusLiveness: the operators of report()                            *)

\* The facts about a setting that the proofs use.
LEMMA SettingFacts ==
    ASSUME setting \in Setting
    PROVE  TargetHint \in Nat /\ LagAllowance \in Nat /\ HeightSet \subseteq Nat
BY HeightAssumption DEF TargetHint, LagAllowance, HeightSet

\* Samples are natural numbers and their nodes are nodes of the run.
LEMMA SampleFacts ==
    ASSUME TypeOK
    PROVE  /\ \A n \in Sampled : n \in Node /\ samples[n] \in Nat
           /\ \A n \in Node : height[n] \in Nat /\ initially[n] \in Nat
           /\ Asked \subseteq Node /\ Sampled \subseteq Asked
           /\ count \in Nat /\ idx \in Nat
<1>1. HeightSet \subseteq Nat
  BY SettingFacts DEF TypeOK
<1>2. count \in 0..NumNodes /\ idx \in 0..count
  BY DEF TypeOK
<1>3. Asked \subseteq Node
  BY <1>2, HeightAssumption DEF Asked, Node
<1>4. \A n \in Node : height[n] \in Nat /\ initially[n] \in Nat
  BY <1>1 DEF TypeOK
<1>5. Sampled \subseteq Asked /\ \A n \in Sampled : samples[n] \in Nat
  BY <1>1 DEF TypeOK
<1>6. count \in Nat /\ idx \in Nat
  BY <1>2, HeightAssumption
<1> QED
  BY <1>3, <1>4, <1>5, <1>6

\* MaxSample is a sample, and none is higher.
LEMMA MaxSampleIsHighest ==
    ASSUME TypeOK, LeaderInv, Sampled # {}
    PROVE  /\ \E m \in Sampled : MaxSample = samples[m]
           /\ \A n \in Sampled : MaxSample >= samples[n]
           /\ MaxSample \in Nat
<1> DEFINE S == {samples[n] : n \in Sampled}
<1>1. PICK m \in Sampled : \A n \in Sampled : samples[m] >= samples[n]
  BY DEF LeaderInv
<1>2. samples[m] \in S /\ \A y \in S : samples[m] >= y
  BY <1>1
<1>3. MaxSample \in S /\ \A y \in S : MaxSample >= y
  <2> HIDE DEF S
  <2> QED BY <1>2 DEF MaxSample, Max, S
<1> QED
  BY <1>3, SampleFacts

\* The target is the hint or the highest sample, and never above that sample.
LEMMA TargetFacts ==
    ASSUME TypeOK, LeaderInv, Sampled # {}
    PROVE  /\ Target \in Nat /\ Target <= MaxSample
           /\ Target = MaxSample \/ (Target = TargetHint /\ TargetHint > 0)
           /\ TargetHint > 0 => Target <= TargetHint
BY MaxSampleIsHighest, SettingFacts DEF Target, TypeOK

\* Unless clamp panics the allowance lies between its two bounds.
LEMMA LagFacts ==
    ASSUME setting \in Setting, NEW t \in Nat, ~ClampPanics
    PROVE  /\ EffectiveLag(t) \in Nat
           /\ LagAllowance <= EffectiveLag(t) /\ EffectiveLag(t) <= LAG_ALLOWANCE_MAX
<1>1. t \div 10 \in Nat
  OBVIOUS
<1> QED
  BY <1>1, SettingFacts, HeightAssumption DEF EffectiveLag, ClampPanics

\* Height issues name a late node or the network.
LEMMA HeightIssueFacts ==
    /\ \A n : [kind |-> "height", node |-> n] \in HeightIssues <=>
                 \/ n \in Sampled /\ samples[n] + EffectiveLag(Target) < Target
                 \/ n = Network /\ MaxSample < MIN_PROGRESS_BLOCKS
    /\ \A i \in HeightIssues : /\ i = [kind |-> "height", node |-> i.node]
                               /\ i.kind = "height"
<1> DEFINE late == {n \in Sampled : samples[n] + EffectiveLag(Target) < Target}
           network == IF MaxSample < MIN_PROGRESS_BLOCKS THEN {Network} ELSE {}
<1>1. \A n : n \in late \cup network <=>
                \/ n \in Sampled /\ samples[n] + EffectiveLag(Target) < Target
                \/ n = Network /\ MaxSample < MIN_PROGRESS_BLOCKS
  OBVIOUS
<1>2. HeightIssues = {[kind |-> "height", node |-> n] : n \in late \cup network}
  BY DEF HeightIssues
<1> HIDE DEF late, network
<1>3. \A n : [kind |-> "height", node |-> n] \in HeightIssues <=> n \in late \cup network
  <2>1. ASSUME NEW n, [kind |-> "height", node |-> n] \in HeightIssues
        PROVE  n \in late \cup network
    <3>1. PICK k \in late \cup network :
             [kind |-> "height", node |-> n] = [kind |-> "height", node |-> k]
      BY <1>2, <2>1
    <3>2. [kind |-> "height", node |-> n].node = [kind |-> "height", node |-> k].node
      BY <3>1
    <3> QED
      BY <3>2
  <2> QED
    BY <1>2, <2>1
<1> QED
  BY <1>1, <1>2, <1>3

\* Request issues are of another kind.
LEMMA RequestIssueFacts ==
    ASSUME NEW N
    PROVE  /\ \A i \in RequestIssues(N) : i.kind = "request" /\ i.node \in N
           /\ \A n \in N : [kind |-> "request", node |-> n] \in RequestIssues(N)
BY DEF RequestIssues

-----------------------------------------------------------------------------
(* ConsensusLiveness: the invariant implies the properties                 *)

LEMMA IInvPass == IInv => PassIsSound
<1> SUFFICES ASSUME IInv, pc = "ok" PROVE PassIsSound
  BY DEF PassIsSound
<1> USE DEF IInv
<1>1. /\ Sampled # {} /\ ~ClampPanics /\ issues = {}
      /\ RequestIssues(Asked \ Sampled) = {} /\ HeightIssues = {}
  BY DEF VerdictInv
<1>2. Sampled = Asked
  BY <1>1, SampleFacts, RequestIssueFacts
<1>3. /\ MaxSample >= MIN_PROGRESS_BLOCKS
      /\ \A n \in Sampled : samples[n] + EffectiveLag(Target) >= Target
  <2>1. MaxSample \in Nat /\ Target \in Nat /\ EffectiveLag(Target) \in Nat
    BY <1>1, MaxSampleIsHighest, TargetFacts, LagFacts DEF TypeOK
  <2> QED
    BY <1>1, <2>1, HeightIssueFacts, SampleFacts, HeightAssumption
<1>4. \A n \in Asked : height[n] \in Nat /\ samples[n] \in Nat /\ samples[n] <= height[n]
  BY <1>2, SampleFacts DEF SamplesInv
<1>5. \E n \in Asked : height[n] >= MIN_PROGRESS_BLOCKS
  <2>1. PICK m \in Sampled : MaxSample = samples[m]
    BY <1>1, MaxSampleIsHighest
  <2> QED
    BY <1>2, <1>3, <1>4, <2>1, HeightAssumption
<1>6. IF HintReached
      THEN \A n \in Asked : height[n] + LAG_ALLOWANCE_MAX >= TargetHint
      ELSE \A n, m \in Asked : height[n] + LAG_ALLOWANCE_MAX >= samples[m]
  <2>1. /\ Target \in Nat /\ EffectiveLag(Target) \in Nat
        /\ EffectiveLag(Target) <= LAG_ALLOWANCE_MAX
    BY <1>1, TargetFacts, LagFacts DEF TypeOK
  <2>2. \A n \in Asked : height[n] + LAG_ALLOWANCE_MAX >= Target
    BY <1>2, <1>3, <1>4, <2>1, HeightAssumption
  <2>3. MaxSample \in Nat /\ \A m \in Asked : MaxSample >= samples[m]
    BY <1>1, <1>2, MaxSampleIsHighest
  <2>4. PICK l \in Sampled : MaxSample = samples[l]
    BY <1>1, MaxSampleIsHighest
  <2>5. TargetHint \in Nat
    BY SettingFacts DEF TypeOK
  <2>6. CASE HintReached
    <3>1. PICK m \in Asked : samples[m] >= TargetHint /\ TargetHint > 0
      BY <1>2, <2>6 DEF HintReached
    <3>2. Target = TargetHint
      BY <1>4, <2>3, <2>5, <3>1 DEF Target
    <3> QED BY <2>2, <2>6, <3>2
  <2>7. CASE ~HintReached
    <3>1. Target = MaxSample
      BY <2>3, <2>4, <2>5, <2>7 DEF HintReached, Target
    <3>2. ASSUME NEW n \in Asked, NEW m \in Asked
          PROVE  height[n] + LAG_ALLOWANCE_MAX >= samples[m]
      BY <1>4, <2>2, <2>3, <3>1, HeightAssumption
    <3> QED BY <2>7, <3>2
  <2> QED BY <2>6, <2>7
<1> QED
  BY <1>2, <1>5, <1>6 DEF PassIsSound

LEMMA IInvReached == IInv => ReachedHintPasses
<1> SUFFICES ASSUME IInv, TargetHint >= MIN_PROGRESS_BLOCKS,
                    \A n \in Asked : initially[n] >= TargetHint,
                    pc = "violations",
                    \A i \in issues : i.kind # "request"
             PROVE  FALSE
  BY DEF ReachedHintPasses
<1> USE DEF IInv
<1>1. /\ Sampled # {} /\ ~ClampPanics /\ issues # {}
      /\ issues = RequestIssues(Asked \ Sampled) \cup HeightIssues
  BY DEF VerdictInv
<1>2. PICK i \in HeightIssues : TRUE
  BY <1>1, RequestIssueFacts
<1>3. TargetHint \in Nat /\ TargetHint > 0
  BY SettingFacts, HeightAssumption DEF TypeOK
<1>4. /\ Target \in Nat /\ EffectiveLag(Target) \in Nat /\ MaxSample \in Nat
      /\ Target <= TargetHint
  BY <1>1, <1>3, TargetFacts, MaxSampleIsHighest, LagFacts DEF TypeOK
<1>5. \A n \in Sampled : samples[n] \in Nat /\ samples[n] >= TargetHint
  <2> SUFFICES ASSUME NEW n \in Sampled
               PROVE  samples[n] \in Nat /\ samples[n] >= TargetHint
    OBVIOUS
  <2>1. initially[n] >= TargetHint /\ initially[n] <= samples[n]
    BY SampleFacts DEF SamplesInv
  <2> QED
    BY <2>1, <1>3, SampleFacts
<1>6. MaxSample >= TargetHint
  BY <1>1, <1>5, MaxSampleIsHighest
<1>7. CASE i.node \in Sampled /\ samples[i.node] + EffectiveLag(Target) < Target
  BY <1>3, <1>4, <1>5, <1>7
<1>8. CASE i.node = Network /\ MaxSample < MIN_PROGRESS_BLOCKS
  BY <1>3, <1>4, <1>6, <1>8, HeightAssumption
<1> QED
  BY <1>2, <1>7, <1>8, HeightIssueFacts

LEMMA IInvBehind == IInv => FailMeansBehind
<1> SUFFICES ASSUME IInv, pc = "violations", height = initially,
                    NEW i \in issues, i.kind = "height", i.node # Network
             PROVE  /\ lag >= LagAllowance
                    /\ \E m \in Asked : height[m] > height[i.node] + lag
  BY DEF FailMeansBehind
<1> USE DEF IInv
<1>1. /\ Sampled # {} /\ ~ClampPanics
      /\ target = Target /\ lag = EffectiveLag(Target)
      /\ issues = RequestIssues(Asked \ Sampled) \cup HeightIssues
  BY DEF VerdictInv
<1>2. i.node \in Sampled /\ samples[i.node] + lag < Target
  BY <1>1, HeightIssueFacts, RequestIssueFacts
<1>3. \A n \in Sampled : samples[n] = height[n] /\ height[n] \in Nat
  BY SampleFacts DEF SamplesInv
<1>4. /\ Target \in Nat /\ lag \in Nat /\ MaxSample \in Nat /\ Target <= MaxSample
      /\ lag >= LagAllowance
  BY <1>1, TargetFacts, MaxSampleIsHighest, LagFacts, SettingFacts DEF TypeOK
<1>5. PICK m \in Sampled : MaxSample = samples[m]
  BY <1>1, MaxSampleIsHighest
<1>6. height[m] > height[i.node] + lag
  BY <1>2, <1>3, <1>4, <1>5
<1> QED
  BY <1>4, <1>6, SampleFacts

-----------------------------------------------------------------------------
(* ConsensusLiveness: the invariant is inductive                           *)

\* What report() computes depends only on the setting and the samples.
LEMMA ReportDepends ==
    ASSUME setting' = setting, samples' = samples
    PROVE  /\ Sampled' = Sampled /\ Target' = Target /\ (ClampPanics' <=> ClampPanics)
           /\ EffectiveLag(Target)' = EffectiveLag(Target)
           /\ HeightIssues' = HeightIssues /\ MaxSample' = MaxSample
<1>1. Sampled' = Sampled /\ MaxSample' = MaxSample
  BY DEF Sampled, MaxSample
<1>2. Target' = Target /\ (ClampPanics' <=> ClampPanics)
  BY <1>1 DEF Target, TargetHint, ClampPanics, LagAllowance
<1>3. EffectiveLag(Target)' = EffectiveLag(Target)
  BY <1>2 DEF EffectiveLag, LagAllowance
<1> QED
  BY <1>1, <1>2, <1>3 DEF HeightIssues

LEMMA InitInv == Init => IInv
<1> SUFFICES ASSUME Init PROVE IInv
  OBVIOUS
<1> USE DEF Init
<1>1. Sampled = {}
  BY DEF Sampled
<1>2. TypeOK
  <2>1. hangs \in BOOLEAN
    OBVIOUS
  <2>2. idx \in 0..count /\ attempt \in 0..(REQUEST_RETRIES - 1) /\ lag \in Nat /\ target \in Nat
    BY HeightAssumption
  <2> QED BY <1>1, <2>1, <2>2 DEF TypeOK, Ended
<1>3. SamplesInv
  <2>1. \A n \in Node : height[n] \in Nat
    BY SettingFacts
  <2> QED BY <1>1, <2>1 DEF SamplesInv
<1>4. CollectInv
  BY <1>1 DEF CollectInv, RequestIssues
<1> QED
  BY <1>1, <1>2, <1>3, <1>4 DEF IInv, LeaderInv, VerdictInv

\* Chains that grow leave the samples below their heights.
LEMMA NodeGrowsKeepsInv == IInv /\ NodeGrows => IInv'
<1> SUFFICES ASSUME IInv, NodeGrows PROVE IInv'
  OBVIOUS
<1> USE DEF IInv, NodeGrows
<1>1. PICK n \in Node, h \in HeightSet : h > height[n] /\ height' = [height EXCEPT ![n] = h]
  OBVIOUS
<1>2. /\ setting' = setting /\ samples' = samples /\ Sampled' = Sampled
      /\ HeightSet' = HeightSet /\ Asked' = Asked
  BY DEF Sampled, HeightSet, Asked
<1>3. TypeOK'
  <2>1. height' \in [Node -> HeightSet]
    BY <1>1 DEF TypeOK
  <2> QED BY <1>2, <2>1 DEF TypeOK
<1>4. SamplesInv'
  <2>1. h \in Nat
    BY SettingFacts DEF TypeOK
  <2>2. \A k \in Node : height'[k] \in Nat /\ height[k] <= height'[k]
    BY <1>1, <2>1, SampleFacts DEF TypeOK
  <2>3. \A k \in Node : initially'[k] <= height'[k]
    BY <2>2, SampleFacts DEF SamplesInv
  <2>4. \A k \in Sampled : initially'[k] <= samples'[k] /\ samples'[k] <= height'[k]
    BY <2>2, <1>2, SampleFacts DEF SamplesInv
  <2> QED BY <1>2, <2>3, <2>4 DEF SamplesInv
<1>5. CollectInv' /\ LeaderInv'
  BY <1>2 DEF CollectInv, LeaderInv
<1>6. VerdictInv'
  BY DEF VerdictInv, Ended
<1> QED
  BY <1>3, <1>4, <1>5, <1>6

\* A request that hangs changes nothing that was collected.
LEMMA RequestHangsKeepsInv == IInv /\ RequestHangs => IInv'
<1> SUFFICES ASSUME IInv, RequestHangs PROVE IInv'
  OBVIOUS
<1> USE DEF IInv, RequestHangs
<1>1. /\ setting' = setting /\ samples' = samples /\ Sampled' = Sampled
      /\ HeightSet' = HeightSet /\ Asked' = Asked
  BY DEF Sampled, HeightSet, Asked
<1>2. TypeOK' /\ SamplesInv'
  BY <1>1 DEF TypeOK, SamplesInv
<1>3. CollectInv' /\ LeaderInv' /\ VerdictInv'
  BY <1>1 DEF CollectInv, LeaderInv, VerdictInv
<1> QED
  BY <1>2, <1>3

\* The evaluation begins without samples and issues.
LEMMA EvaluateKeepsInv == IInv /\ Evaluate => IInv'
<1> SUFFICES ASSUME IInv, Evaluate PROVE IInv'
  OBVIOUS
<1> USE DEF IInv, Evaluate
<1>1. /\ setting' = setting /\ samples' = samples /\ Sampled' = Sampled
      /\ HeightSet' = HeightSet /\ Asked' = Asked
  BY DEF Sampled, HeightSet, Asked
<1>2. Sampled = {}
  BY SampleFacts DEF CollectInv
<1>3. TypeOK'
  BY <1>1 DEF TypeOK, Ended
<1>4. SamplesInv'
  BY <1>1, <1>2, SampleFacts DEF SamplesInv
<1>5. CollectInv' /\ LeaderInv' /\ VerdictInv'
  BY <1>1, <1>2 DEF CollectInv, LeaderInv, VerdictInv
<1> QED
  BY <1>3, <1>4, <1>5

\* A new sample is the height of its node, and it is the highest or not.
LEMMA FetchOkKeepsInv == IInv /\ FetchOk => IInv'
<1> SUFFICES ASSUME IInv, FetchOk PROVE IInv'
  OBVIOUS
<1> USE DEF IInv, FetchOk, RequestReturns, NextNode
<1>1. setting' = setting /\ HeightSet' = HeightSet /\ Asked' = Asked
  BY DEF HeightSet, Asked
<1>2. /\ Sampled' = Sampled \cup {idx} /\ samples'[idx] = height[idx]
      /\ \A n \in Sampled : n # idx => samples'[n] = samples[n]
  BY DEF Sampled
<1>3. /\ idx \notin Sampled /\ idx \in Node /\ idx \in Asked
      /\ Sampled \subseteq 0..(idx - 1)
  <2>1. Sampled \subseteq 0..(idx - 1)
    BY DEF CollectInv
  <2>2. idx \in Asked
    BY SampleFacts DEF Asked
  <2> QED BY <2>1, <2>2, SampleFacts
<1>4. TypeOK'
  <2>1. height[idx] \in HeightSet
    BY <1>3 DEF TypeOK
  <2>2. \A n \in Sampled' : samples'[n] \in HeightSet
    BY <1>2, <2>1 DEF TypeOK
  <2>3. Sampled' \subseteq Asked
    BY <1>2, <1>3, SampleFacts
  <2>4. idx' \in 0..count /\ attempt' \in 0..(REQUEST_RETRIES - 1)
    BY SampleFacts, HeightAssumption
  <2> QED BY <1>1, <2>2, <2>3, <2>4 DEF TypeOK
<1>5. SamplesInv'
  BY <1>2, <1>3, SampleFacts DEF SamplesInv
<1>6. CollectInv'
  <2>1. idx' = idx + 1 /\ 0..(idx' - 1) = 0..(idx - 1) \cup {idx}
    BY SampleFacts
  <2>2. (0..(idx' - 1)) \ Sampled' = (0..(idx - 1)) \ Sampled
    BY <1>2, <2>1, SampleFacts
  <2>3. issues' = RequestIssues((0..(idx' - 1)) \ Sampled')
    BY <2>2 DEF CollectInv
  <2>4. Sampled' \subseteq 0..(idx' - 1)
    BY <1>2, <1>3, <2>1
  <2> QED BY <2>3, <2>4 DEF CollectInv
<1>7. LeaderInv'
  <2>1. CASE Sampled = {}
    BY <1>2, <1>3, <2>1, SampleFacts DEF LeaderInv
  <2>2. CASE Sampled # {}
    <3>1. PICK m \in Sampled : \A n \in Sampled : samples[m] >= samples[n]
      BY <2>2 DEF LeaderInv
    <3>2. samples[m] \in Nat /\ height[idx] \in Nat
      BY <1>3, SampleFacts
    <3>3. \A n \in Sampled : samples[n] \in Nat /\ samples'[n] = samples[n]
      BY <1>2, <1>3, SampleFacts
    <3>4. CASE samples[m] >= height[idx]
      BY <1>2, <3>1, <3>2, <3>3, <3>4 DEF LeaderInv
    <3>5. CASE height[idx] >= samples[m]
      <4>1. \A n \in Sampled' : samples'[idx] >= samples'[n]
        BY <1>2, <3>1, <3>2, <3>3, <3>5
      <4> QED BY <1>2, <4>1 DEF LeaderInv
    <3> QED BY <3>2, <3>4, <3>5
  <2> QED BY <2>1, <2>2
<1>8. VerdictInv'
  BY DEF VerdictInv
<1> QED
  BY <1>4, <1>5, <1>6, <1>7, <1>8

\* The last failed request of a node is recorded when the next node is asked.
LEMMA FetchFailsKeepsInv == IInv /\ FetchFails => IInv'
<1> SUFFICES ASSUME IInv, FetchFails PROVE IInv'
  OBVIOUS
<1> USE DEF IInv, FetchFails, RequestReturns, NextNode
<1>1. /\ setting' = setting /\ samples' = samples /\ Sampled' = Sampled
      /\ HeightSet' = HeightSet /\ Asked' = Asked
  BY DEF Sampled, HeightSet, Asked
<1>2. Sampled \subseteq 0..(idx - 1) /\ issues = RequestIssues((0..(idx - 1)) \ Sampled)
  BY DEF CollectInv
<1>3. TypeOK' /\ CollectInv'
  <2>1. CASE attempt + 1 = REQUEST_RETRIES
    <3>1. idx \in Node
      BY SampleFacts DEF Asked
    <3>2. issues' \subseteq Issue
      BY <2>1, <3>1 DEF TypeOK, Issue
    <3>3. idx' \in 0..count /\ attempt' \in 0..(REQUEST_RETRIES - 1)
      BY <2>1, SampleFacts, HeightAssumption
    <3>4. TypeOK'
      BY <1>1, <3>2, <3>3 DEF TypeOK
    <3>5. 0..(idx' - 1) = 0..(idx - 1) \cup {idx} /\ idx \notin Sampled
      BY <1>2, <2>1, SampleFacts
    <3>6. Sampled' \subseteq 0..(idx' - 1)
      BY <1>1, <1>2, <3>5
    <3>7. (0..(idx' - 1)) \ Sampled' = ((0..(idx - 1)) \ Sampled) \cup {idx}
      BY <1>1, <3>5
    <3>8. issues' = RequestIssues((0..(idx' - 1)) \ Sampled')
      BY <1>2, <2>1, <3>7 DEF RequestIssues
    <3> QED BY <3>4, <3>6, <3>8 DEF CollectInv
  <2>2. CASE attempt + 1 # REQUEST_RETRIES
    <3>1. attempt' \in 0..(REQUEST_RETRIES - 1)
      BY <2>2, HeightAssumption DEF TypeOK
    <3> QED BY <1>1, <2>2, <3>1 DEF TypeOK, CollectInv
  <2> QED BY <2>1, <2>2
<1>4. SamplesInv'
  BY <1>1 DEF SamplesInv
<1>5. LeaderInv' /\ VerdictInv'
  BY <1>1 DEF LeaderInv, VerdictInv
<1> QED
  BY <1>3, <1>4, <1>5

\* The verdict rests on the samples of all nodes.
LEMMA ReportKeepsInv == IInv /\ Report => IInv'
<1> SUFFICES ASSUME IInv, Report PROVE IInv'
  OBVIOUS
<1> USE DEF IInv, Report
<1>1. /\ setting' = setting /\ samples' = samples /\ Sampled' = Sampled
      /\ HeightSet' = HeightSet /\ Asked' = Asked
  BY DEF Sampled, HeightSet, Asked
<1>2. issues = RequestIssues(Asked \ Sampled)
  BY DEF CollectInv, Asked
<1>3. SamplesInv' /\ LeaderInv'
  BY <1>1 DEF SamplesInv, LeaderInv
<1>4. pc' \in Ended /\ CollectInv'
  BY DEF Ended, CollectInv
<1>5. CASE Sampled = {} \/ ClampPanics
  <2>1. pc' \in {"missing", "panic"} /\ UNCHANGED <<issues, lag, target>>
    BY <1>5
  <2>2. TypeOK'
    BY <1>1, <1>4, <2>1 DEF TypeOK
  <2> QED BY <1>3, <1>4, <2>1, <2>2 DEF VerdictInv
<1>6. CASE Sampled # {} /\ ~ClampPanics
  <2>1. /\ issues' = issues \cup HeightIssues
        /\ target' = Target /\ lag' = EffectiveLag(Target)
        /\ pc' = IF issues' = {} THEN "ok" ELSE "violations"
    BY <1>6
  <2>2. Target \in Nat /\ EffectiveLag(Target) \in Nat
    BY <1>6, TargetFacts, LagFacts DEF TypeOK
  <2>3. HeightIssues \subseteq Issue
    <3> SUFFICES ASSUME NEW i \in HeightIssues PROVE i \in Issue
      OBVIOUS
    <3>1. i = [kind |-> "height", node |-> i.node] /\ i.node \in Node \cup {Network}
      BY HeightIssueFacts, SampleFacts
    <3> QED BY <3>1 DEF Issue
  <2>4. TypeOK'
    BY <1>1, <1>4, <2>1, <2>2, <2>3 DEF TypeOK
  <2>5. VerdictInv'
    BY <1>1, <1>2, <1>6, <2>1, ReportDepends DEF VerdictInv
  <2> QED BY <1>3, <1>4, <2>4, <2>5
<1> QED
  BY <1>5, <1>6

\* Steps that change nothing keep the invariant.
LEMMA StutterKeepsInv == IInv /\ UNCHANGED vars => IInv'
<1> SUFFICES ASSUME IInv, UNCHANGED vars PROVE IInv'
  OBVIOUS
<1> USE DEF IInv, vars
<1>1. Sampled' = Sampled /\ HeightSet' = HeightSet /\ Asked' = Asked
  BY DEF Sampled, HeightSet, Asked
<1>2. TypeOK' /\ SamplesInv'
  BY <1>1 DEF TypeOK, SamplesInv
<1>3. CollectInv' /\ LeaderInv'
  BY <1>1 DEF CollectInv, LeaderInv
<1>4. VerdictInv'
  BY <1>1, ReportDepends DEF VerdictInv
<1> QED
  BY <1>2, <1>3, <1>4

-----------------------------------------------------------------------------
(* ConsensusLiveness: the theorems                                         *)

\* The inductive invariant holds in every state of evaluate(), however its
\* requests and the growth of the chains interleave.
THEOREM ConsensusInvariant == Spec => []IInv
<1>1. IInv /\ [Next]_vars => IInv'
  BY NodeGrowsKeepsInv, RequestHangsKeepsInv, EvaluateKeepsInv, FetchOkKeepsInv,
     FetchFailsKeepsInv, ReportKeepsInv, StutterKeepsInv DEF Next, Evaluation
<1> QED
  BY InitInv, <1>1, PTL DEF Spec

\* consensus_liveness passes only if every node answered, somebody made
\* progress, and no node is further than the largest allowance behind the hint,
\* or behind the others when none of them reached the hint.
THEOREM ConsensusSafety == Spec => []Safety
<1>1. IInv => Safety
  BY IInvPass DEF IInv, Safety
<1> QED
  BY ConsensusInvariant, <1>1, PTL

\* consensus_liveness reports no node that reached the hinted height before the
\* evaluation, and without growth only nodes that are behind.
THEOREM NoFalseAlarms == Spec => []NoFalseAlarm
<1>1. IInv => NoFalseAlarm
  BY IInvReached, IInvBehind DEF NoFalseAlarm
<1> QED
  BY ConsensusInvariant, <1>1, PTL

-----------------------------------------------------------------------------
(* ChaosRestart: the inductive invariant                                   *)

CONSTANTS MaxNodes, MIN_DELAY, MAX_DELAY, TARGET_COOLDOWN
VARIABLES nodeCount, includeNodes, nodeControl, chaosPc, timer, cooldowns, chaosTarget, since

Chaos == INSTANCE ChaosRestart WITH pc <- chaosPc, target <- chaosTarget

\* A cooldown and the time since the restart it began with make up the whole
\* target cooldown; from its first delay on the workload has one for each target.
ChaosInv ==
    /\ Chaos!TypeOK
    /\ \A t \in DOMAIN cooldowns : since[t] + cooldowns[t] >= TARGET_COOLDOWN
    /\ chaosPc \in {"delay", "cool", "pick", "restart"} => DOMAIN cooldowns = Chaos!Targets

\* A set of naturals has a least element.
LEMMA LeastNatural ==
    ASSUME NEW S, S \subseteq Nat, S # {}
    PROVE  \E x \in S : \A y \in S : x <= y
<1>1. PICK x \in S : \A y \in S : ~(<<y, x>> \in OpToRel(<, Nat))
  BY WFMin, NatLessThanWellFounded
<1>2. ASSUME NEW y \in S PROVE x <= y
  <2>1. <<y, x>> \in Nat \X Nat
    OBVIOUS
  <2>2. ~(y < x)
    BY <1>1, <2>1 DEF OpToRel
  <2> QED
    BY <2>2
<1> QED
  BY <1>2

\* No sleep of the workload is longer than its longest duration.
LEMMA LongestDuration ==
    ASSUME Chaos!DurationAssumption
    PROVE  \E m \in Nat : /\ Chaos!Max({MIN_DELAY, MAX_DELAY, TARGET_COOLDOWN}) = m
                          /\ MIN_DELAY <= m /\ MAX_DELAY <= m /\ TARGET_COOLDOWN <= m
<1> DEFINE S == {MIN_DELAY, MAX_DELAY, TARGET_COOLDOWN}
<1>1. MIN_DELAY \in Nat /\ MAX_DELAY \in Nat /\ TARGET_COOLDOWN \in Nat
  BY DEF Chaos!DurationAssumption
<1>2. \E x \in S : \A y \in S : x >= y
  <2>1. \E x \in S : x >= MIN_DELAY /\ x >= MAX_DELAY /\ x >= TARGET_COOLDOWN
    BY <1>1
  <2> QED BY <2>1
<1>3. Chaos!Max(S) \in S /\ \A y \in S : Chaos!Max(S) >= y
  <2> HIDE DEF S
  <2> QED BY <1>2 DEF Chaos!Max
<1> QED
  BY <1>1, <1>3

-----------------------------------------------------------------------------
(* ChaosRestart: the invariant is inductive                                *)

LEMMA ChaosInit == ASSUME Chaos!DurationAssumption PROVE Chaos!Init => ChaosInv
<1> SUFFICES ASSUME Chaos!Init PROVE ChaosInv
  OBVIOUS
<1> USE DEF Chaos!Init
<1>1. DOMAIN cooldowns = {} /\ DOMAIN since = {}
  OBVIOUS
<1>2. timer \in 0..Chaos!Max({MIN_DELAY, MAX_DELAY, TARGET_COOLDOWN})
  <2>1. PICK m \in Nat : Chaos!Max({MIN_DELAY, MAX_DELAY, TARGET_COOLDOWN}) = m
    BY LongestDuration
  <2>2. timer \in 0..m
    OBVIOUS
  <2> QED BY <2>1, <2>2
<1>3. Chaos!TypeOK
  BY <1>1, <1>2 DEF Chaos!TypeOK
<1> QED
  BY <1>1, <1>3 DEF ChaosInv

\* Any delay fits.
LEMMA DelayFits ==
    ASSUME Chaos!DurationAssumption, NEW d \in Chaos!Delays
    PROVE  d \in 0..Chaos!Max({MIN_DELAY, MAX_DELAY, TARGET_COOLDOWN})
<1>1. PICK m \in Nat : /\ Chaos!Max({MIN_DELAY, MAX_DELAY, TARGET_COOLDOWN}) = m
                       /\ MIN_DELAY <= m /\ MAX_DELAY <= m /\ TARGET_COOLDOWN <= m
  BY LongestDuration
<1>2. d \in 0..m
  BY <1>1 DEF Chaos!Delays, Chaos!DurationAssumption
<1> QED
  BY <1>1, <1>2

\* Every step preserves the invariant.
LEMMA ChaosStep ==
    ASSUME Chaos!DurationAssumption
    PROVE  ChaosInv /\ [Chaos!Next]_(Chaos!vars) => ChaosInv'
<1> SUFFICES ASSUME ChaosInv, [Chaos!Next]_(Chaos!vars) PROVE ChaosInv'
  OBVIOUS
<1> DEFINE Longest == Chaos!Max({MIN_DELAY, MAX_DELAY, TARGET_COOLDOWN})
<1>a. /\ Chaos!TypeOK
      /\ \A t \in DOMAIN cooldowns : since[t] + cooldowns[t] >= TARGET_COOLDOWN
      /\ chaosPc \in {"delay", "cool", "pick", "restart"} => DOMAIN cooldowns = Chaos!Targets
  BY DEF ChaosInv
<1>b. TARGET_COOLDOWN \in Nat
  BY DEF Chaos!DurationAssumption
<1>c. PICK m \in Nat : /\ Longest = m
                       /\ MIN_DELAY <= m /\ MAX_DELAY <= m /\ TARGET_COOLDOWN <= m
  BY LongestDuration
<1> HIDE DEF Longest
<1>d. ASSUME NEW d \in Chaos!Delays PROVE d \in 0..Longest
  BY DelayFits DEF Longest
<1>e. /\ timer \in 0..Longest /\ DOMAIN since = DOMAIN cooldowns
      /\ DOMAIN cooldowns \subseteq Chaos!Targets
      /\ \A t \in DOMAIN cooldowns : cooldowns[t] \in 0..TARGET_COOLDOWN
                                     /\ since[t] \in 0..TARGET_COOLDOWN
  BY <1>a DEF Chaos!TypeOK, Longest
\* It is enough to look at the timer, the cooldowns and the target.
<1>f. ASSUME UNCHANGED <<nodeCount, includeNodes, nodeControl>>,
             chaosPc' \in {"start", "delay", "cool", "pick", "restart", "err"},
             timer' \in 0..Longest,
             DOMAIN since' = DOMAIN cooldowns',
             DOMAIN cooldowns' \subseteq Chaos!Targets,
             chaosPc' \in {"delay", "cool", "pick", "restart"} =>
                 DOMAIN cooldowns' = Chaos!Targets,
             \A t \in DOMAIN cooldowns' : /\ cooldowns'[t] \in 0..TARGET_COOLDOWN
                                          /\ since'[t] \in 0..TARGET_COOLDOWN
                                          /\ since'[t] + cooldowns'[t] >= TARGET_COOLDOWN,
             chaosPc' = "restart" => chaosTarget' \in Chaos!Targets
      PROVE  ChaosInv'
  <2>1. Chaos!Targets' = Chaos!Targets
    BY <1>f DEF Chaos!Targets
  <2>2. Chaos!TypeOK'
    BY <1>a, <1>f, <2>1 DEF Chaos!TypeOK, Longest
  <2> QED BY <1>f, <2>1, <2>2 DEF ChaosInv
<1>1. CASE Chaos!StartFails
  BY <1>1, <1>a, <1>e, <1>f DEF Chaos!StartFails
<1>2. CASE Chaos!Start
  BY <1>2, <1>b, <1>d, <1>f DEF Chaos!Start
<1>3. CASE Chaos!SleepEnds
  BY <1>3, <1>a, <1>e, <1>f DEF Chaos!SleepEnds
<1>4. CASE Chaos!PickWaits
  <2> DEFINE S == {cooldowns[t] : t \in Chaos!Cooling}
  <2>1. S \subseteq 0..TARGET_COOLDOWN /\ S # {}
    BY <1>4, <1>e DEF Chaos!PickWaits, Chaos!Cooling
  <2>2. \E x \in S : \A y \in S : x <= y
    <3> HIDE DEF S
    <3>1. S \subseteq Nat
      BY <1>b, <2>1
    <3> QED BY <2>1, <3>1, LeastNatural
  <2>3. Chaos!Min(S) \in S
    <3> HIDE DEF S
    <3> QED BY <2>2 DEF Chaos!Min
  <2>4. timer' \in 0..TARGET_COOLDOWN
    BY <1>4, <2>1, <2>3 DEF Chaos!PickWaits
  <2>5. timer' \in 0..Longest
    BY <1>b, <1>c, <2>4
  <2> QED BY <1>4, <1>a, <1>e, <1>f, <2>5 DEF Chaos!PickWaits
<1>5. CASE Chaos!PickTarget
  BY <1>5, <1>a, <1>e, <1>f DEF Chaos!PickTarget
<1>6. CASE Chaos!RestartDone
  <2>1. chaosTarget \in DOMAIN cooldowns /\ DOMAIN cooldowns = Chaos!Targets
    BY <1>6, <1>a DEF Chaos!RestartDone, Chaos!TypeOK
  <2>2. DOMAIN cooldowns' = DOMAIN cooldowns /\ DOMAIN since' = DOMAIN cooldowns'
    BY <1>6, <1>e DEF Chaos!RestartDone
  <2>3. \A t \in DOMAIN cooldowns :
           /\ cooldowns'[t] = IF t = chaosTarget THEN TARGET_COOLDOWN ELSE cooldowns[t]
           /\ since'[t] = IF t = chaosTarget THEN 0 ELSE since[t]
    BY <1>6, <1>e DEF Chaos!RestartDone
  <2>4. \A t \in DOMAIN cooldowns' :
           /\ cooldowns'[t] \in 0..TARGET_COOLDOWN
           /\ since'[t] \in 0..TARGET_COOLDOWN
           /\ since'[t] + cooldowns'[t] >= TARGET_COOLDOWN
    BY <1>a, <1>b, <1>e, <2>2, <2>3
  <2>5. timer' \in 0..Longest
    BY <1>6, <1>d DEF Chaos!RestartDone
  <2> QED BY <1>6, <1>f, <2>1, <2>2, <2>4, <2>5 DEF Chaos!RestartDone
<1>7. CASE Chaos!RestartFails
  BY <1>7, <1>a, <1>e, <1>f DEF Chaos!RestartFails
<1>8. CASE Chaos!Tick
  <2>1. timer' \in 0..Longest
    BY <1>8, <1>c, <1>e DEF Chaos!Tick, Chaos!Less
  <2>2. DOMAIN cooldowns' = DOMAIN cooldowns /\ DOMAIN since' = DOMAIN cooldowns'
    BY <1>8, <1>e DEF Chaos!Tick
  <2>3. \A t \in DOMAIN cooldowns :
           /\ cooldowns'[t] = IF cooldowns[t] = 0 THEN 0 ELSE cooldowns[t] - 1
           /\ since'[t] = IF since[t] < TARGET_COOLDOWN THEN since[t] + 1 ELSE since[t]
    BY <1>8, <1>e DEF Chaos!Tick, Chaos!Less
  <2>4. \A t \in DOMAIN cooldowns' :
           /\ cooldowns'[t] \in 0..TARGET_COOLDOWN
           /\ since'[t] \in 0..TARGET_COOLDOWN
           /\ since'[t] + cooldowns'[t] >= TARGET_COOLDOWN
    BY <1>a, <1>b, <1>e, <2>2, <2>3
  <2>5. chaosPc' = "restart" => chaosTarget' \in Chaos!Targets
    BY <1>8, <1>a DEF Chaos!Tick, Chaos!TypeOK
  <2> QED BY <1>8, <1>a, <1>f, <2>1, <2>2, <2>4, <2>5 DEF Chaos!Tick
<1>9. CASE UNCHANGED Chaos!vars
  <2>1. chaosPc = "restart" => chaosTarget \in Chaos!Targets
    BY <1>a DEF Chaos!TypeOK
  <2>2. chaosPc \in {"start", "delay", "cool", "pick", "restart", "err"}
    BY <1>a DEF Chaos!TypeOK
  <2> QED BY <1>9, <1>a, <1>e, <1>f, <2>1, <2>2 DEF Chaos!vars
<1> QED
  BY <1>1, <1>2, <1>3, <1>4, <1>5, <1>6, <1>7, <1>8, <1>9 DEF Chaos!Next, Chaos!Workload

-----------------------------------------------------------------------------
(* ChaosRestart: the theorems                                              *)

\* The inductive invariant holds in every state of the restart workload.
THEOREM ChaosInvariant ==
    ASSUME Chaos!DurationAssumption
    PROVE  Chaos!Spec => []ChaosInv
<1>1. Chaos!Init => ChaosInv
  BY ChaosInit
<1>2. ChaosInv /\ [Chaos!Next]_(Chaos!vars) => ChaosInv'
  BY ChaosStep
<1> QED
  BY <1>1, <1>2, PTL DEF Chaos!Spec

\* The delays and cooldowns of the restart workload stay within its durations,
\* and it restarts only targets: what pick_target waits for is a cooldown.
THEOREM ChaosTypes ==
    ASSUME Chaos!DurationAssumption
    PROVE  Chaos!Spec => []Chaos!TypeOK
<1>1. ChaosInv => Chaos!TypeOK
  BY DEF ChaosInv
<1>2. Chaos!Spec => []ChaosInv
  BY ChaosInvariant
<1> QED
  BY <1>1, <1>2, PTL

\* pick_target chooses a node only when its last restart ended at least the
\* target cooldown ago.
THEOREM CooldownHolds ==
    ASSUME Chaos!DurationAssumption
    PROVE  Chaos!Spec => Chaos!CooldownKept
<1>1. ChaosInv /\ [Chaos!Next]_(Chaos!vars) =>
         [chaosPc = "pick" /\ chaosPc' = "restart" =>
             since[chaosTarget'] = TARGET_COOLDOWN]_(Chaos!vars)
  <2> SUFFICES ASSUME ChaosInv, Chaos!Next, chaosPc = "pick", chaosPc' = "restart"
               PROVE  since[chaosTarget'] = TARGET_COOLDOWN
    OBVIOUS
  <2>1. Chaos!PickTarget
    BY DEF Chaos!Next, Chaos!Workload, Chaos!Start, Chaos!StartFails, Chaos!SleepEnds,
           Chaos!PickWaits, Chaos!RestartDone, Chaos!RestartFails, Chaos!Tick
  <2>2. chaosTarget' \in DOMAIN cooldowns /\ cooldowns[chaosTarget'] = 0
    BY <2>1 DEF Chaos!PickTarget, ChaosInv
  <2>3. /\ since[chaosTarget'] \in 0..TARGET_COOLDOWN
        /\ since[chaosTarget'] + 0 >= TARGET_COOLDOWN
    BY <2>2 DEF ChaosInv, Chaos!TypeOK
  <2> QED BY <2>3 DEF Chaos!DurationAssumption
<1>2. Chaos!Spec => []ChaosInv
  BY ChaosInvariant
<1> QED
  BY <1>1, <1>2, PTL DEF Chaos!Spec, Chaos!CooldownKept

-----------------------------------------------------------------------------
(* TxInclusion: the inductive invariant                                    *)

CONSTANTS MaxWallets, NoLimit, UserLimit, Rate, RUN_DURATION, IntervalHint, NumClients,
          Branches, SUBMIT_RETRIES, MaxLosses, CATCHUP_POLLS
VARIABLES wallets, userLimit, rate, hint, txPc, current, round, tried, accepted, pool,
          losses, included, observed, captured, polls

Tx == INSTANCE TxInclusion WITH pc <- txPc

\* The types of the variables and of the parameters.
TxTypes ==
    /\ Tx!TypeOK
    /\ wallets \in 0..MaxWallets
    /\ userLimit \in UserLimit /\ rate \in Rate /\ hint \in IntervalHint

\* Workload and expectation have the same plan, and only its transactions are
\* ever submitted.
TxPlanned ==
    /\ txPc \in {"capture", "captureError"} => captured = 0 /\ accepted = {}
    /\ txPc \notin {"capture", "captureError"} => captured = Tx!ExpectedCount /\ captured > 0
    /\ accepted \subseteq 1..captured

\* While the workload submits, everything before the current transaction was
\* accepted.
TxSubmitted ==
    txPc = "submit" => /\ current \in Tx!PlannedTxs
                       /\ \A t \in Tx!PlannedTxs : t < current => t \in accepted

\* The counter has every included transaction once, and more only for a fork.
TxCounted ==
    /\ \A t \in Tx!Tx : included[t] > 0 => t \in accepted
    /\ observed >= Cardinality(Tx!IncludedTxs)
    /\ (\A t \in Tx!Tx : included[t] <= 1) => observed = Cardinality(Tx!IncludedTxs)

\* The verdict compares the counter with half of the plan.
TxJudged ==
    /\ txPc = "ok" => observed >= Tx!Required
    /\ txPc = "insufficient" => observed < Tx!Required
    /\ txPc # "notCaptured"

TxInv == TxTypes /\ TxPlanned /\ TxSubmitted /\ TxCounted /\ TxJudged

-----------------------------------------------------------------------------
(* TxInclusion: the plan                                                   *)

\* The instance counts as the library's theorems do.
LEMMA SameCardinality == ASSUME NEW S PROVE Tx!Cardinality(S) = Cardinality(S)
BY DEF Tx!Cardinality, Cardinality

\* Quotients of naturals are naturals.
LEMMA QuotientIsNat == ASSUME NEW n \in Nat, NEW d \in Nat \ {0} PROVE n \div d \in Nat
OBVIOUS

\* The plan has at most one transaction per account.
LEMMA PlanFacts ==
    ASSUME Tx!PlanAssumption, TxTypes
    PROVE  /\ Tx!ExpectedCount \in 0..wallets /\ wallets \in Nat
           /\ Tx!PlannedTxs = 1..Tx!ExpectedCount
           /\ Cardinality(Tx!PlannedTxs) = Tx!ExpectedCount
<1>1. wallets \in Nat /\ rate \in Nat /\ hint \in Nat /\ RUN_DURATION \in Nat \ {0}
  BY DEF Tx!PlanAssumption, TxTypes
<1>2. Tx!LimitedUsers(userLimit, wallets) \in 0..wallets
  <2>1. userLimit = NoLimit \/ userLimit \in Nat
    BY DEF Tx!PlanAssumption, TxTypes
  <2> QED BY <1>1, <2>1 DEF Tx!LimitedUsers, Tx!Smaller
<1> DEFINE users == Tx!LimitedUsers(userLimit, wallets)
           d == IF hint = 0 THEN RUN_DURATION ELSE hint
           quotient == (RUN_DURATION * rate) \div d
<1>3. quotient \in Nat
  <2>1. RUN_DURATION * rate \in Nat /\ d \in Nat \ {0}
    BY <1>1
  <2> HIDE DEF d
  <2> QED BY <2>1, QuotientIsNat
<1>4. Tx!ExpectedCount = Tx!Smaller(quotient, users)
  BY DEF Tx!ExpectedCount, Tx!PlannedCount
<1>5. Tx!ExpectedCount \in 0..wallets
  <2> HIDE DEF quotient, users
  <2>1. users \in 0..wallets
    BY <1>2 DEF users
  <2> QED BY <1>1, <1>3, <1>4, <2>1 DEF Tx!Smaller
<1>6. Tx!PlannedTxs = 1..Tx!ExpectedCount
  BY DEF Tx!PlannedTxs, Tx!ExpectedCount
<1>7. Cardinality(1..Tx!ExpectedCount) = Tx!ExpectedCount
  <2>1. Tx!ExpectedCount \in Nat
    BY <1>1, <1>5
  <2> HIDE DEF Tx!ExpectedCount
  <2> QED BY <2>1, FS_Interval
<1> QED
  BY <1>1, <1>5, <1>6, <1>7

\* There are finitely many included transactions.
LEMMA IncludedFinite ==
    ASSUME Tx!PlanAssumption
    PROVE  IsFiniteSet(Tx!IncludedTxs) /\ Cardinality(Tx!IncludedTxs) \in Nat
<1>1. IsFiniteSet(Tx!Tx)
  BY FS_Interval DEF Tx!Tx, Tx!PlanAssumption
<1>2. Tx!IncludedTxs \subseteq Tx!Tx
  BY DEF Tx!IncludedTxs
<1> QED
  BY <1>1, <1>2, FS_Subset, FS_CardinalityType

-----------------------------------------------------------------------------
(* TxInclusion: the invariant implies the properties                       *)

LEMMA TxInvSafety == ASSUME Tx!PlanAssumption PROVE TxInv => Tx!Safety
<1> SUFFICES ASSUME TxInv PROVE Tx!Safety
  OBVIOUS
<1> USE DEF TxInv
<1>1. /\ Tx!ExpectedCount \in Nat
      /\ Cardinality(Tx!PlannedTxs) = Tx!ExpectedCount
      /\ Cardinality(Tx!IncludedTxs) \in Nat /\ observed \in Nat
  BY PlanFacts, IncludedFinite DEF TxTypes, Tx!TypeOK
<1>2. \A t \in Tx!Tx : included[t] \in Nat
  BY DEF TxTypes, Tx!TypeOK, Tx!PlanAssumption
<1>3. Tx!PassMeansIncluded
  <2> SUFFICES ASSUME txPc = "ok", \A t \in Tx!Tx : ~(included[t] > 1)
               PROVE  2 * Cardinality(Tx!IncludedTxs) >= Cardinality(Tx!PlannedTxs)
    BY SameCardinality DEF Tx!PassMeansIncluded
  <2>1. observed = Cardinality(Tx!IncludedTxs)
    BY <1>2 DEF TxCounted
  <2>2. captured = Tx!ExpectedCount /\ observed >= (captured + 1) \div 2
    BY DEF TxPlanned, TxJudged, Tx!Required
  <2> HIDE DEF Tx!ExpectedCount, Tx!PlannedTxs, Tx!IncludedTxs
  <2>3. 2 * observed >= captured
    BY <1>1, <2>2
  <2> QED BY <1>1, <2>1, <2>2, <2>3
<1>4. Tx!FailMeansMissing
  <2> SUFFICES ASSUME txPc = "insufficient"
               PROVE  2 * Cardinality(Tx!IncludedTxs) < Cardinality(Tx!PlannedTxs)
    BY SameCardinality DEF Tx!FailMeansMissing, TxJudged
  <2>1. observed >= Cardinality(Tx!IncludedTxs)
    BY DEF TxCounted
  <2>2. captured = Tx!ExpectedCount /\ observed < (captured + 1) \div 2
    BY DEF TxPlanned, TxJudged, Tx!Required
  <2>3. 2 * observed < captured
    BY <1>1, <2>2
  <2> QED BY <1>1, <2>1, <2>2, <2>3
<1>5. Tx!NoSilentGap
  BY DEF TxSubmitted, Tx!NoSilentGap
<1> QED
  BY <1>3, <1>4, <1>5 DEF Tx!Safety, TxTypes

-----------------------------------------------------------------------------
(* TxInclusion: the invariant is inductive                                 *)

LEMMA TxInit == ASSUME Tx!PlanAssumption PROVE Tx!Init => TxInv
<1> SUFFICES ASSUME Tx!Init PROVE TxInv
  OBVIOUS
<1> USE DEF Tx!Init
<1>1. wallets \in Nat /\ wallets \in 0..MaxWallets
  BY DEF Tx!PlanAssumption
<1>2. TxTypes
  <2>1. included \in [Tx!Tx -> 0..Branches]
    BY DEF Tx!PlanAssumption
  <2>2. /\ current \in 0..(wallets + 1) /\ round \in 0..(SUBMIT_RETRIES - 1)
        /\ tried \in 0..NumClients /\ captured \in 0..wallets /\ polls \in 0..CATCHUP_POLLS
    BY <1>1 DEF Tx!PlanAssumption
  <2>3. Tx!TypeOK
    BY <2>1, <2>2 DEF Tx!TypeOK, Tx!Ended
  <2> QED BY <2>3 DEF TxTypes
<1>3. TxPlanned /\ TxSubmitted /\ TxJudged
  BY DEF TxPlanned, TxSubmitted, TxJudged
<1>4. TxCounted
  <2>1. Tx!IncludedTxs = {}
    BY DEF Tx!IncludedTxs
  <2>2. Cardinality(Tx!IncludedTxs) = 0
    BY <2>1, FS_EmptySet
  <2>3. \A t \in Tx!Tx : ~(included[t] > 0)
    OBVIOUS
  <2> QED BY <2>2, <2>3 DEF TxCounted
<1> QED
  BY <1>2, <1>3, <1>4 DEF TxInv

\* The plan depends on the parameters only.
LEMMA PlanUnchanged ==
    ASSUME UNCHANGED Tx!params
    PROVE  Tx!ExpectedCount' = Tx!ExpectedCount /\ Tx!PlannedTxs' = Tx!PlannedTxs
BY DEF Tx!params, Tx!ExpectedCount, Tx!PlannedTxs

\* The counts depend on what is included, accepted and observed.
LEMMA CountUnchanged ==
    ASSUME TxCounted, UNCHANGED <<included, observed>>, accepted \subseteq accepted'
    PROVE  TxCounted'
<1>1. Tx!IncludedTxs' = Tx!IncludedTxs /\ Tx!Tx' = Tx!Tx
  BY DEF Tx!IncludedTxs, Tx!Tx
<1> QED
  BY <1>1 DEF TxCounted

\* The plan is made.
LEMMA TxStartCapture ==
    ASSUME Tx!PlanAssumption, TxInv, Tx!StartCapture \/ Tx!CaptureFails
    PROVE  TxInv'
<1> USE DEF TxInv
<1>1. UNCHANGED <<wallets, userLimit, rate, hint>>
  BY DEF Tx!StartCapture, Tx!CaptureFails, Tx!params
<1>2. Tx!ExpectedCount' = Tx!ExpectedCount /\ Tx!PlannedTxs' = Tx!PlannedTxs
  BY <1>1, PlanUnchanged DEF Tx!params
<1>3. Tx!ExpectedCount \in 0..wallets /\ wallets \in Nat /\ Tx!PlannedTxs = 1..Tx!ExpectedCount
  BY PlanFacts
<1>4. captured = 0 /\ accepted = {}
  BY DEF TxPlanned, Tx!StartCapture, Tx!CaptureFails
<1>5. CASE Tx!StartCapture
  <2>1. /\ captured' = Tx!ExpectedCount /\ Tx!ExpectedCount > 0 /\ txPc' = "submit"
        /\ current' = 1
        /\ UNCHANGED <<round, tried, accepted, pool, losses, included, observed, polls>>
    BY <1>5 DEF Tx!StartCapture, Tx!chainVars
  <2>2. TxTypes'
    <3>1. captured' \in 0..wallets /\ current' \in 0..(wallets + 1)
      BY <1>3, <2>1
    <3> QED BY <1>1, <2>1, <3>1 DEF TxTypes, Tx!TypeOK, Tx!Tx
  <2>3. TxPlanned'
    BY <1>2, <1>4, <2>1 DEF TxPlanned
  <2>4. TxSubmitted'
    <3>1. current' \in Tx!PlannedTxs /\ \A t \in Tx!PlannedTxs : ~(t < current')
      BY <1>3, <2>1
    <3> QED BY <1>2, <3>1 DEF TxSubmitted
  <2>5. TxCounted' /\ TxJudged'
    BY <2>1, CountUnchanged DEF TxJudged
  <2> QED BY <2>2, <2>3, <2>4, <2>5
<1>6. CASE Tx!CaptureFails
  <2>1. /\ txPc' = "captureError"
        /\ UNCHANGED <<current, round, tried, accepted, pool, losses, included, observed,
                       captured, polls>>
    BY <1>6 DEF Tx!CaptureFails, Tx!chainVars
  <2>2. TxTypes'
    BY <1>1, <2>1 DEF TxTypes, Tx!TypeOK, Tx!Tx, Tx!Ended
  <2>3. TxPlanned' /\ TxSubmitted' /\ TxJudged'
    BY <1>4, <2>1 DEF TxPlanned, TxSubmitted, TxJudged
  <2> QED BY <2>1, <2>2, <2>3, CountUnchanged
<1> QED
  BY <1>5, <1>6

\* A client answers or fails; the round ends.
LEMMA TxSubmit ==
    ASSUME Tx!PlanAssumption, TxInv, Tx!SubmitOk \/ Tx!SubmitFails \/ Tx!RoundEnds
    PROVE  TxInv'
<1> USE DEF TxInv
<1>1. /\ UNCHANGED <<wallets, userLimit, rate, hint, losses, included, observed, captured,
                     polls>>
      /\ txPc = "submit"
  BY DEF Tx!SubmitOk, Tx!SubmitFails, Tx!RoundEnds, Tx!params, Tx!chainVars
<1>2. Tx!ExpectedCount' = Tx!ExpectedCount /\ Tx!PlannedTxs' = Tx!PlannedTxs
  BY <1>1, PlanUnchanged DEF Tx!params
<1>3. /\ Tx!ExpectedCount \in 0..wallets /\ wallets \in Nat
      /\ Tx!PlannedTxs = 1..Tx!ExpectedCount
  BY PlanFacts
<1>4. current \in 1..Tx!ExpectedCount /\ captured = Tx!ExpectedCount /\ captured > 0
  BY <1>1, <1>3 DEF TxSubmitted, TxPlanned
<1>5. /\ accepted' \subseteq accepted \cup {current} /\ accepted \subseteq accepted'
      /\ pool' \subseteq accepted'
  <2>1. pool \subseteq accepted
    BY DEF TxTypes, Tx!TypeOK
  <2>2. CASE Tx!SubmitOk
    BY <2>1, <2>2 DEF Tx!SubmitOk
  <2>3. CASE Tx!SubmitFails
    BY <2>1, <2>3 DEF Tx!SubmitFails
  <2>4. CASE Tx!RoundEnds
    BY <2>1, <2>4 DEF Tx!RoundEnds, Tx!chainVars
  <2> QED BY <2>2, <2>3, <2>4
<1>6. /\ txPc' \in {"submit", "submitted", "workloadError"}
      /\ current' \in 0..(wallets + 1)
      /\ round' \in 0..(SUBMIT_RETRIES - 1) /\ tried' \in 0..NumClients
  <2>1. current + 1 \in 0..(wallets + 1) /\ current \in 0..(wallets + 1)
    BY <1>3, <1>4
  <2>2. /\ round \in 0..(SUBMIT_RETRIES - 1) /\ tried \in 0..NumClients
        /\ SUBMIT_RETRIES \in Nat \ {0} /\ NumClients \in Nat
    BY DEF TxTypes, Tx!TypeOK, Tx!PlanAssumption
  <2>3. CASE Tx!SubmitOk
    BY <2>1, <2>2, <2>3 DEF Tx!SubmitOk, Tx!NextTx
  <2>4. CASE Tx!SubmitFails
    BY <1>1, <2>1, <2>2, <2>4 DEF Tx!SubmitFails
  <2>5. CASE Tx!RoundEnds
    BY <1>1, <2>1, <2>2, <2>5 DEF Tx!RoundEnds
  <2> QED BY <2>3, <2>4, <2>5
<1>7. TxTypes'
  <2>1. accepted' \subseteq 1..wallets
    BY <1>3, <1>4, <1>5 DEF TxTypes, Tx!TypeOK
  <2>2. Tx!TypeOK'
    BY <1>1, <1>5, <1>6, <2>1 DEF TxTypes, Tx!TypeOK, Tx!Tx, Tx!Ended
  <2> QED BY <1>1, <2>2 DEF TxTypes
<1>8. TxPlanned'
  <2>1. accepted' \subseteq 1..captured
    BY <1>4, <1>5 DEF TxPlanned
  <2> QED BY <1>1, <1>2, <1>4, <1>6, <2>1 DEF TxPlanned
<1>9. TxSubmitted'
  <2>1. CASE Tx!SubmitOk
    <3>1. /\ current \in accepted' /\ current' = current + 1
          /\ txPc' = "submit" => current' \in Tx!PlannedTxs
      BY <2>1 DEF Tx!SubmitOk, Tx!NextTx
    <3>2. \A t \in Tx!PlannedTxs : t < current + 1 => t = current \/ t < current
      BY <1>3, <1>4
    <3>3. \A t \in Tx!PlannedTxs : t < current => t \in accepted
      BY <1>1 DEF TxSubmitted
    <3>4. \A t \in Tx!PlannedTxs : t < current' => t \in accepted'
      BY <1>5, <3>1, <3>2, <3>3
    <3> QED BY <1>2, <3>1, <3>4 DEF TxSubmitted
  <2>2. CASE Tx!SubmitFails \/ Tx!RoundEnds
    <3>1. current' = current
      BY <2>2 DEF Tx!SubmitFails, Tx!RoundEnds
    <3> QED BY <1>1, <1>2, <1>5, <3>1 DEF TxSubmitted
  <2> QED BY <2>1, <2>2
<1>10. TxCounted' /\ TxJudged'
  BY <1>1, <1>5, <1>6, CountUnchanged DEF TxJudged
<1> QED
  BY <1>7, <1>8, <1>9, <1>10

\* Steps that only move the run on.
LEMMA TxProceed ==
    ASSUME Tx!PlanAssumption, TxInv,
           Tx!Aborted \/ Tx!Evaluate \/ Tx!Poll \/ Tx!Verdict \/ UNCHANGED Tx!vars
    PROVE  TxInv'
<1> USE DEF TxInv
<1>1. UNCHANGED <<wallets, userLimit, rate, hint, current, round, tried, accepted, pool,
                  losses, included, observed, captured>>
  BY DEF Tx!Aborted, Tx!Evaluate, Tx!Poll, Tx!Verdict, Tx!vars, Tx!params, Tx!chainVars
<1>2. Tx!ExpectedCount' = Tx!ExpectedCount /\ Tx!PlannedTxs' = Tx!PlannedTxs
  BY <1>1, PlanUnchanged DEF Tx!params
<1>3. Tx!Required' = Tx!Required
  BY <1>1 DEF Tx!Required
<1>4. polls' \in 0..CATCHUP_POLLS
  BY DEF TxTypes, Tx!TypeOK, Tx!PlanAssumption, Tx!Aborted, Tx!Evaluate, Tx!Poll, Tx!Verdict,
         Tx!vars
<1>5. \/ txPc' = txPc
      \/ txPc = "submit" /\ txPc' = "submitted"
      \/ txPc = "submitted" /\ txPc' = "evaluate"
      \/ txPc = "evaluate" /\ txPc' = "ok" /\ observed >= Tx!Required
      \/ txPc = "evaluate" /\ txPc' = "insufficient" /\ ~(observed >= Tx!Required)
  <2>1. txPc = "submitted" => captured # 0
    <3>1. txPc = "submitted" => captured > 0
      BY DEF TxPlanned
    <3> QED BY <3>1
  <2> QED
    BY <2>1 DEF Tx!Aborted, Tx!Evaluate, Tx!Poll, Tx!Verdict, Tx!vars
<1>6. observed \in Nat /\ Tx!Required \in Nat
  <2>1. captured \in Nat
    BY PlanFacts DEF TxTypes, Tx!TypeOK
  <2> QED BY <2>1 DEF TxTypes, Tx!TypeOK, Tx!Required
<1>7. TxTypes'
  BY <1>1, <1>4, <1>5 DEF TxTypes, Tx!TypeOK, Tx!Tx, Tx!Ended
<1>8. TxPlanned' /\ TxSubmitted'
  BY <1>1, <1>2, <1>5 DEF TxPlanned, TxSubmitted
<1>9. TxJudged'
  BY <1>1, <1>3, <1>5, <1>6 DEF TxJudged
<1> QED
  BY <1>1, <1>7, <1>8, <1>9, CountUnchanged

\* A mempool forgets a transaction that no block has.
LEMMA TxForgotten ==
    ASSUME Tx!PlanAssumption, TxInv, NEW t \in Tx!Tx, Tx!Forgotten(t)
    PROVE  TxInv'
<1> USE DEF TxInv
<1>1. /\ UNCHANGED <<wallets, userLimit, rate, hint, txPc, current, round, tried, accepted,
                     included, observed, captured, polls>>
      /\ pool' \subseteq pool
  BY DEF Tx!Forgotten, Tx!params
<1>2. Tx!ExpectedCount' = Tx!ExpectedCount /\ Tx!PlannedTxs' = Tx!PlannedTxs
  BY <1>1, PlanUnchanged DEF Tx!params
<1>3. TxTypes'
  BY <1>1 DEF TxTypes, Tx!TypeOK, Tx!Tx
<1>4. TxPlanned' /\ TxSubmitted'
  BY <1>1, <1>2 DEF TxPlanned, TxSubmitted
<1>5. TxJudged'
  BY <1>1 DEF TxJudged, Tx!Required
<1> QED
  BY <1>1, <1>3, <1>4, <1>5, CountUnchanged

\* A block with a transaction that was not included before adds one to both
\* counts; otherwise the transaction is now included twice.
LEMMA TxBlockObserved ==
    ASSUME Tx!PlanAssumption, TxInv, NEW t \in Tx!Tx, Tx!BlockObserved(t)
    PROVE  TxInv'
<1> USE DEF TxInv
<1>1. /\ UNCHANGED <<wallets, userLimit, rate, hint, txPc, current, round, tried, accepted,
                     pool, losses, captured, polls>>
      /\ txPc \in {"submit", "submitted", "evaluate"}
      /\ t \in pool /\ included[t] < Branches
      /\ included' = [included EXCEPT ![t] = included[t] + 1]
  BY DEF Tx!BlockObserved, Tx!params
<1>2. Tx!ExpectedCount' = Tx!ExpectedCount /\ Tx!PlannedTxs' = Tx!PlannedTxs
  BY <1>1, PlanUnchanged DEF Tx!params
<1>3. t \in accepted /\ t \in 1..captured /\ observed \in Nat
  BY <1>1 DEF TxTypes, Tx!TypeOK, TxPlanned
<1>4. observed' = observed + 1
  <2>1. captured \in 0..wallets /\ wallets \in Nat
    BY PlanFacts DEF TxTypes, Tx!TypeOK
  <2>2. t \in Tx!Tracked
    BY <1>3, <2>1 DEF Tx!Tracked, Tx!Smaller
  <2> QED BY <2>2 DEF Tx!BlockObserved, Tx!Observe
<1>5. /\ included \in [Tx!Tx -> 0..Branches] /\ Branches \in Nat
      /\ included' \in [Tx!Tx -> 0..Branches]
      /\ included'[t] = included[t] + 1
      /\ \A u \in Tx!Tx : u # t => included'[u] = included[u]
  <2>1. included \in [Tx!Tx -> 0..Branches] /\ Branches \in Nat
    BY DEF TxTypes, Tx!TypeOK, Tx!PlanAssumption
  <2>2. included[t] + 1 \in 0..Branches
    BY <1>1, <2>1
  <2> QED BY <1>1, <2>1, <2>2
<1>6. TxTypes'
  BY <1>1, <1>3, <1>4, <1>5 DEF TxTypes, Tx!TypeOK, Tx!Tx
<1>7. TxPlanned' /\ TxSubmitted' /\ TxJudged'
  BY <1>1, <1>2 DEF TxPlanned, TxSubmitted, TxJudged
<1>8. TxCounted'
  <2> DEFINE I == Tx!IncludedTxs
  <2>1. Tx!IncludedTxs' = I \cup {t}
    <3>1. \A u \in Tx!Tx : included'[u] > 0 <=> (included[u] > 0 \/ u = t)
      BY <1>5
    <3> QED BY <3>1 DEF Tx!IncludedTxs, Tx!Tx
  <2>2. IsFiniteSet(I) /\ Cardinality(I) \in Nat
    BY IncludedFinite
  <2>3. Cardinality(I \cup {t}) = IF t \in I THEN Cardinality(I) ELSE Cardinality(I) + 1
    <3> HIDE DEF I
    <3> QED BY <2>2, FS_AddElement
  <2>4. t \in I <=> included[t] > 0
    BY DEF Tx!IncludedTxs
  <2>5. \A u \in Tx!Tx : included'[u] > 0 => u \in accepted'
    BY <1>1, <1>3, <1>5 DEF TxCounted
  <2>6. observed' >= Cardinality(I \cup {t})
    BY <1>3, <1>4, <2>2, <2>3 DEF TxCounted
  <2>7. ASSUME \A u \in Tx!Tx : included'[u] <= 1
        PROVE  observed' = Cardinality(I \cup {t})
    <3>1. included[t] = 0 /\ \A u \in Tx!Tx : included[u] <= 1
      BY <1>5, <2>7
    <3>2. observed = Cardinality(I)
      BY <3>1 DEF TxCounted
    <3> QED BY <1>4, <2>2, <2>3, <2>4, <3>1, <3>2
  <2>8. Tx!Tx' = Tx!Tx
    BY DEF Tx!Tx
  <2> QED BY <2>1, <2>5, <2>6, <2>7, <2>8 DEF TxCounted
<1> QED
  BY <1>6, <1>7, <1>8

-----------------------------------------------------------------------------
(* TxInclusion: the theorem                                                *)

\* The workload passes over no transaction of its plan, the expectation passes
\* only with half of the plan on the chain or a fork that repeats some, and it
\* fails only when fewer than half of the plan were included.
THEOREM InclusionSafety ==
    ASSUME Tx!PlanAssumption
    PROVE  Tx!Spec => []Tx!Safety
<1>1. Tx!Init => TxInv
  BY TxInit
<1>2. TxInv /\ [Tx!Next]_(Tx!vars) => TxInv'
  <2> SUFFICES ASSUME TxInv, [Tx!Next]_(Tx!vars) PROVE TxInv'
    OBVIOUS
  <2>1. CASE Tx!StartCapture \/ Tx!CaptureFails
    BY <2>1, TxStartCapture
  <2>2. CASE Tx!SubmitOk \/ Tx!SubmitFails \/ Tx!RoundEnds
    BY <2>2, TxSubmit
  <2>3. CASE Tx!Aborted \/ Tx!Evaluate \/ Tx!Poll \/ Tx!Verdict \/ UNCHANGED Tx!vars
    BY <2>3, TxProceed
  <2>4. CASE \E t \in Tx!Tx : Tx!BlockObserved(t) \/ Tx!Forgotten(t)
    BY <2>4, TxBlockObserved, TxForgotten
  <2> QED BY <2>1, <2>2, <2>3, <2>4 DEF Tx!Next, Tx!Run
<1>3. TxInv => Tx!Safety
  BY TxInvSafety
<1> QED
  BY <1>1, <1>2, <1>3, PTL DEF Tx!Spec
=============================================================================
