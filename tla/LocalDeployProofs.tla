------------------------- MODULE LocalDeployProofs -------------------------
(***************************************************************************)
(* Proofs about LocalDeploy for topologies of any size and any number of   *)
(* faults: every node process is accounted for at the end, the block feed  *)
(* never outlives the nodes, and a readiness timeout reports a node that   *)
(* was not ready.                                                          *)
(***************************************************************************)
EXTENDS LocalDeploy, FiniteSetTheorems, TLAPS

Spawning == {"spawn", "waitNode"}

\* Until the topology is complete the nodes before the next one are held, then
\* all are, until they are dropped.
HeldInv ==
    /\ pc \in Spawning => held = 0..(next - 1)
    /\ pc = "waitNode" => next < n
    /\ pc \notin Spawning \cup {"over"} => held = Node(n)
    /\ feed = "on" => pc = "run"

\* A process that runs is held, is waited for, or was abandoned.
RunningInv ==
    /\ Running \subseteq held \cup abandoned \cup (IF pc = "waitNode" THEN {next} ELSE {})
    /\ pc # "over" => abandoned = {}
    /\ pc = "over" => held = {}
    /\ abandoned = {} \/ \E i \in Node(n) : abandoned = {i}

\* The loop sleeps and collects again only if what it has is not enough.
ReportInv ==
    /\ pc \in {"sleep", "collect"} => ~data
    /\ outcome = "unready" => pc = "over" /\ ~data

IInv == TypeOK /\ HeldInv /\ RunningInv /\ ReportInv

-----------------------------------------------------------------------------
\* Every topology has a first node.
LEMMA Sizes == TypeOK => n \in Nat \ {0} /\ 0 \in Node(n)
  BY LocalDeployAssumption DEF TypeOK, Node

\* Two nodes make a link.
LEMMA PairHasTwo == \A i, j : i # j => Cardinality({i, j}) = 2
<1> SUFFICES ASSUME NEW i, NEW j, i # j PROVE Cardinality({i, j}) = 2
  OBVIOUS
<1>1. IsFiniteSet({i}) /\ Cardinality({i}) = 1
  BY FS_Singleton
<1>2. Cardinality({i} \cup {j}) = 2
  BY <1>1, FS_AddElement
<1>3. {i, j} = {i} \cup {j}
  OBVIOUS
<1> QED BY <1>2, <1>3

\* What killing nodes leaves: the other processes, and the links between them.
LEMMA KillEffect ==
    ASSUME TypeOK, NEW nodes \in SUBSET Node(n), Kill(nodes), n' = n
    PROVE  /\ node' \in [Node(n) -> {"none", "starting", "open", "stuck", "dead"}]
           /\ Running' = Running \ nodes
           /\ \A l \in links' : l \subseteq Running' /\ Cardinality(l) = 2
<1>1. node' \in [Node(n) -> {"none", "starting", "open", "stuck", "dead"}]
  BY DEF TypeOK, Kill
<1>2. Running' = Running \ nodes
  BY DEF TypeOK, Kill, Running
<1>3. ASSUME NEW l \in links' PROVE l \subseteq Running' /\ Cardinality(l) = 2
  <2>1. l \in links /\ l \cap nodes = {}
    BY DEF Kill
  <2>2. l \subseteq Running /\ Cardinality(l) = 2
    BY <2>1 DEF TypeOK
  <2> QED BY <2>1, <2>2, <1>2
<1> QED BY <1>1, <1>2, <1>3

\* A process that starts, opens its API or gets stuck is one of those that run.
LEMMA NodeEffect ==
    ASSUME TypeOK, NEW i \in Node(n), NEW state \in {"starting", "open", "stuck"},
           node' = [node EXCEPT ![i] = state], n' = n
    PROVE  /\ node' \in [Node(n) -> {"none", "starting", "open", "stuck", "dead"}]
           /\ Running' = Running \cup {i}
<1>1. node' \in [Node(n) -> {"none", "starting", "open", "stuck", "dead"}]
  BY DEF TypeOK
<1>2. \A k \in Node(n) : node'[k] = IF k = i THEN state ELSE node[k]
  BY DEF TypeOK
<1>3. Running' = Running \cup {i}
  BY <1>2 DEF Running
<1> QED BY <1>1, <1>3

\* The inductive invariant holds at the start.
LEMMA InvInit == Init => IInv
<1> SUFFICES ASSUME Init PROVE IInv
  OBVIOUS
<1>1. n \in Nat \ {0} /\ 0 \in Node(n)
  BY LocalDeployAssumption DEF Init, Node
<1>2. Running = {}
  BY DEF Init, Running
<1>3. TypeOK
  <2>1. next \in 0..n /\ faults \in 0..MaxFaults
    BY <1>1, LocalDeployAssumption DEF Init
  <2> QED BY <1>1, <2>1 DEF Init, TypeOK
<1>4. HeldInv
  BY <1>1 DEF Init, HeldInv, Spawning
<1>5. RunningInv /\ ReportInv
  BY <1>2 DEF Init, RunningInv, ReportInv
<1> QED BY <1>3, <1>4, <1>5 DEF IInv

\* deploy() may end at any stage before there is a runner: it drops the nodes
\* that it holds and abandons at most the one that it waits for.
LEMMA EndsStep ==
    ASSUME IInv, NEW how \in {"spawn", "unready", "feed", "dropped"}, Ends(how),
           pc \notin {"run", "stopping", "over"},
           abandoned' = (IF pc = "waitNode" THEN abandoned \cup {next} ELSE abandoned),
           how = "unready" => ~data
    PROVE  IInv'
<1> USE DEF topology, readiness
<1>1. TypeOK /\ Kill(held) /\ n' = n /\ held \in SUBSET Node(n)
  BY DEF IInv, TypeOK, Ends, DropNodes
<1>2. /\ node' \in [Node(n) -> {"none", "starting", "open", "stuck", "dead"}]
      /\ Running' = Running \ held
      /\ \A l \in links' : l \subseteq Running' /\ Cardinality(l) = 2
  BY <1>1, KillEffect
<1>3. pc = "waitNode" => next \in Node(n)
  BY <1>1, Sizes DEF IInv, TypeOK, HeldInv, Node
<1>4. abandoned = {} /\ abandoned' \subseteq Node(n)
  BY <1>3 DEF IInv, RunningInv
<1>5. TypeOK'
  BY <1>1, <1>2, <1>4 DEF Ends, DropNodes, TypeOK
<1>6. HeldInv'
  BY DEF IInv, HeldInv, Ends, DropNodes, Spawning
<1>7. RunningInv'
  BY <1>1, <1>2, <1>3, <1>4 DEF IInv, RunningInv, Ends, DropNodes
<1>8. ReportInv'
  BY DEF IInv, ReportInv, Ends
<1> QED BY <1>5, <1>6, <1>7, <1>8 DEF IInv

-----------------------------------------------------------------------------
\* The steps of deploy() and of the run preserve the inductive invariant.
LEMMA DeployerStep == IInv /\ (Deployer \/ DeployDropped \/ RunnerDropped) => IInv'
<1> SUFFICES ASSUME IInv, Deployer \/ DeployDropped \/ RunnerDropped PROVE IInv'
  OBVIOUS
<1>a. TypeOK /\ n \in Nat \ {0}
  BY Sizes DEF IInv
<1>b. UNCHANGED <<n, node>> => Running' = Running
  BY DEF Running
<1> USE DEF topology, processes, readiness
<1>1. CASE SpawnNode
  <2>1. next \in Node(n) /\ n' = n
    BY <1>1, <1>a DEF SpawnNode, TypeOK, Node
  <2>2. /\ node' \in [Node(n) -> {"none", "starting", "open", "stuck", "dead"}]
        /\ Running' = Running \cup {next}
    BY <1>1, <1>a, <2>1, NodeEffect DEF SpawnNode
  <2>3. TypeOK'
    BY <1>1, <2>2 DEF SpawnNode, IInv, TypeOK
  <2>4. HeldInv' /\ ReportInv'
    BY <1>1 DEF SpawnNode, IInv, HeldInv, ReportInv, Spawning
  <2>5. RunningInv'
    BY <1>1, <2>2 DEF SpawnNode, IInv, RunningInv
  <2> QED BY <2>3, <2>4, <2>5 DEF IInv
<1>2. CASE SpawnFails
  BY <1>2, EndsStep DEF SpawnFails
<1>3. CASE NodeReady
  <2>1. next < n /\ next \in Node(n)
    BY <1>3, <1>a DEF NodeReady, IInv, TypeOK, HeldInv, Node
  <2>2. Running' = Running
    BY <1>3, <1>b DEF NodeReady
  <2>3. TypeOK'
    BY <1>3, <1>a, <2>1, <2>2 DEF NodeReady, IInv, TypeOK
  <2>4. HeldInv' /\ ReportInv'
    BY <1>3, <1>a DEF NodeReady, IInv, TypeOK, HeldInv, ReportInv, Spawning
  <2>5. RunningInv'
    BY <1>3, <2>2 DEF NodeReady, IInv, RunningInv
  <2> QED BY <2>3, <2>4, <2>5 DEF IInv
<1>4. CASE StartupTimeout
  BY <1>4, EndsStep DEF StartupTimeout
<1>5. CASE SpawnDone
  <2>1. Running' = Running
    BY <1>5, <1>b DEF SpawnDone
  <2>2. TypeOK'
    BY <1>5, <2>1 DEF SpawnDone, IInv, TypeOK
  <2>3. HeldInv' /\ ReportInv'
    BY <1>5 DEF SpawnDone, IInv, HeldInv, ReportInv, Spawning, Node
  <2>4. RunningInv'
    BY <1>5, <2>1 DEF SpawnDone, IInv, RunningInv
  <2> QED BY <2>2, <2>3, <2>4 DEF IInv
<1>6. CASE CollectDone
  <2>1. Running' = Running
    BY <1>6, <1>b DEF CollectDone
  <2>2. TypeOK'
    BY <1>6, <2>1 DEF CollectDone, IInv, TypeOK
  <2>3. HeldInv' /\ ReportInv'
    BY <1>6 DEF CollectDone, IInv, HeldInv, ReportInv, Spawning
  <2>4. RunningInv'
    BY <1>6, <2>1 DEF CollectDone, IInv, RunningInv
  <2> QED BY <2>2, <2>3, <2>4 DEF IInv
<1>7. CASE Poll
  <2>1. Running' = Running
    BY <1>7, <1>b DEF Poll
  <2>2. TypeOK'
    BY <1>7, <2>1 DEF Poll, IInv, TypeOK
  <2>3. HeldInv' /\ ReportInv'
    BY <1>7 DEF Poll, IInv, HeldInv, ReportInv, Spawning
  <2>4. RunningInv'
    BY <1>7, <2>1 DEF Poll, IInv, RunningInv
  <2> QED BY <2>2, <2>3, <2>4 DEF IInv
<1>8. CASE SleepEnds
  <2>1. Running' = Running
    BY <1>8, <1>b DEF SleepEnds
  <2>2. TypeOK'
    BY <1>8, <2>1 DEF SleepEnds, IInv, TypeOK
  <2>3. HeldInv' /\ ReportInv'
    BY <1>8 DEF SleepEnds, IInv, HeldInv, ReportInv, Spawning
  <2>4. RunningInv'
    BY <1>8, <2>1 DEF SleepEnds, IInv, RunningInv
  <2> QED BY <2>2, <2>3, <2>4 DEF IInv
<1>9. CASE ReadinessTimeout
  BY <1>9, EndsStep DEF ReadinessTimeout, IInv, ReportInv
<1>10. CASE FeedStarts
  <2>1. Running' = Running
    BY <1>10, <1>b DEF FeedStarts
  <2>2. TypeOK'
    BY <1>10, <2>1 DEF FeedStarts, IInv, TypeOK
  <2>3. HeldInv' /\ ReportInv'
    BY <1>10 DEF FeedStarts, IInv, HeldInv, ReportInv, Spawning
  <2>4. RunningInv'
    BY <1>10, <2>1 DEF FeedStarts, IInv, RunningInv
  <2> QED BY <2>2, <2>3, <2>4 DEF IInv
<1>11. CASE FeedFails
  BY <1>11, EndsStep DEF FeedFails
<1>12. CASE ContextDropped
  <2>1. Kill(held) /\ n' = n /\ held \in SUBSET Node(n)
    BY <1>12 DEF ContextDropped, DropNodes, IInv, TypeOK
  <2>2. /\ node' \in [Node(n) -> {"none", "starting", "open", "stuck", "dead"}]
        /\ Running' = Running \ held
        /\ \A l \in links' : l \subseteq Running' /\ Cardinality(l) = 2
    BY <1>a, <2>1, KillEffect
  <2>3. TypeOK'
    BY <1>12, <2>2 DEF ContextDropped, DropNodes, IInv, TypeOK
  <2>4. HeldInv' /\ ReportInv'
    BY <1>12 DEF ContextDropped, DropNodes, IInv, HeldInv, ReportInv, Spawning
  <2>5. RunningInv'
    BY <1>12, <2>2 DEF ContextDropped, DropNodes, IInv, RunningInv
  <2> QED BY <2>3, <2>4, <2>5 DEF IInv
<1>13. CASE DeployDropped
  BY <1>13, EndsStep DEF DeployDropped
<1>14. CASE RunnerDropped
  <2>1. Running' = Running
    BY <1>14, <1>b DEF RunnerDropped
  <2>2. TypeOK'
    BY <1>14, <2>1 DEF RunnerDropped, IInv, TypeOK
  <2>3. HeldInv' /\ ReportInv'
    BY <1>14 DEF RunnerDropped, IInv, HeldInv, ReportInv, Spawning
  <2>4. RunningInv'
    BY <1>14, <2>1 DEF RunnerDropped, IInv, RunningInv
  <2> QED BY <2>2, <2>3, <2>4 DEF IInv
<1> QED BY <1>1, <1>2, <1>3, <1>4, <1>5, <1>6, <1>7, <1>8, <1>9, <1>10, <1>11, <1>12, <1>13,
           <1>14 DEF Deployer

\* An answer only changes what the check has collected.
LEMMA AnswerStep == ASSUME IInv, NEW i \in Node(n), Answer(i) PROVE IInv'
<1> USE DEF topology, processes
<1>1. Running' = Running
  BY DEF Answer, Running
<1>2. good' \in BOOLEAN
  BY DEF Answer
<1>3. TypeOK'
  BY <1>1, <1>2 DEF Answer, IInv, TypeOK
<1>4. HeldInv' /\ ReportInv'
  BY DEF Answer, IInv, HeldInv, ReportInv
<1>5. RunningInv'
  BY <1>1 DEF Answer, IInv, RunningInv
<1> QED BY <1>3, <1>4, <1>5 DEF IInv

\* What the processes do adds none that is not accounted for.
LEMMA EnvironmentStep == IInv /\ Environment => IInv'
<1> SUFFICES ASSUME IInv, Environment PROVE IInv'
  OBVIOUS
<1>a. TypeOK
  BY DEF IInv
<1> USE DEF topology, processes, readiness
<1>1. ASSUME UNCHANGED <<topology, pc, processes, readiness, source, feed, outcome>>,
             node' \in [Node(n) -> {"none", "starting", "open", "stuck", "dead"}],
             Running' \subseteq Running,
             \A l \in links' : l \subseteq Running' /\ Cardinality(l) = 2,
             faults' \in 0..MaxFaults
      PROVE  IInv'
  <2>1. TypeOK'
    BY <1>1 DEF IInv, TypeOK
  <2>2. HeldInv' /\ ReportInv'
    BY <1>1 DEF IInv, HeldInv, ReportInv
  <2>3. RunningInv'
    BY <1>1 DEF IInv, RunningInv
  <2> QED BY <2>1, <2>2, <2>3 DEF IInv
<1>2. Fault => faults' \in 0..MaxFaults
  BY <1>a, LocalDeployAssumption DEF Fault, TypeOK
<1>3. ASSUME NEW i \in Node(n), Serve(i) PROVE IInv'
  <2>1. /\ node' \in [Node(n) -> {"none", "starting", "open", "stuck", "dead"}]
        /\ Running' = Running \cup {i} /\ i \in Running
    BY <1>3, <1>a, NodeEffect DEF Serve, Running
  <2> QED BY <1>1, <1>3, <1>a, <2>1 DEF Serve, TypeOK
<1>4. ASSUME NEW i \in Node(n), Crash(i) PROVE IInv'
  <2>1. Kill({i}) /\ {i} \in SUBSET Node(n) /\ n' = n
    BY <1>4 DEF Crash, Fault
  <2>2. /\ node' \in [Node(n) -> {"none", "starting", "open", "stuck", "dead"}]
        /\ Running' = Running \ {i}
        /\ \A l \in links' : l \subseteq Running' /\ Cardinality(l) = 2
    BY <2>1, <1>a, KillEffect
  <2> QED BY <1>1, <1>2, <1>4, <2>2 DEF Crash, Fault
<1>5. ASSUME NEW i \in Node(n), GetStuck(i) PROVE IInv'
  <2>1. /\ node' \in [Node(n) -> {"none", "starting", "open", "stuck", "dead"}]
        /\ Running' = Running \cup {i} /\ i \in Running
    BY <1>5, <1>a, NodeEffect DEF GetStuck, Fault, Running
  <2> QED BY <1>1, <1>2, <1>5, <1>a, <2>1 DEF GetStuck, Fault, TypeOK
<1>6. ASSUME NEW i \in Node(n), NEW j \in Node(n), Connect(i, j) PROVE IInv'
  <2>1. Running' = Running
    BY <1>6 DEF Connect, Running
  <2>2. \A l \in links' : l \subseteq Running /\ Cardinality(l) = 2
    <3>1. i # j /\ {i, j} \subseteq Running /\ links' = links \cup {{i, j}}
      BY <1>6 DEF Connect
    <3>2. Cardinality({i, j}) = 2
      BY <3>1, PairHasTwo
    <3> QED BY <3>1, <3>2, <1>a DEF TypeOK
  <2> QED BY <1>1, <1>6, <1>a, <2>1, <2>2 DEF Connect, TypeOK
<1>7. ASSUME NEW link \in links, Disconnect(link) PROVE IInv'
  <2>1. Running' = Running
    BY <1>7 DEF Disconnect, Fault, Running
  <2> QED BY <1>1, <1>2, <1>7, <1>a, <2>1 DEF Disconnect, Fault, TypeOK
<1> QED BY <1>3, <1>4, <1>5, <1>6, <1>7 DEF Environment

\* A step that changes nothing.
LEMMA StutterStep == IInv /\ UNCHANGED vars => IInv'
  BY DEF vars, topology, processes, readiness, IInv, TypeOK, HeldInv, RunningInv, ReportInv,
         Running

\* The inductive invariant of the local deployer: which nodes are held at which
\* stage, and that every process that runs is held, waited for or abandoned.
THEOREM Invariant == Spec => []IInv
<1>1. IInv /\ [Next]_vars => IInv'
  BY DeployerStep, AnswerStep, EnvironmentStep, StutterStep DEF Next
<1> QED BY InvInit, <1>1, PTL DEF Spec

-----------------------------------------------------------------------------
\* For a topology of any size, however its nodes crash, hang or disconnect:
\* when all is over at most one process is left, the one whose handle was
\* dropped in the middle of its start, and the block feed ran only while all
\* nodes were held.
THEOREM SafetyHolds == Spec => []Safety
<1>1. ASSUME IInv PROVE Safety
  <2>1. Cardinality(abandoned) <= 1
    BY <1>1, FS_EmptySet, FS_Singleton DEF IInv, RunningInv
  <2>2. LeaksExplained
    BY <1>1, <2>1 DEF IInv, RunningInv, LeaksExplained
  <2>3. FeedHasNodes
    BY <1>1 DEF IInv, HeldInv, FeedHasNodes, Spawning
  <2> QED BY <1>1, <2>2, <2>3 DEF IInv, Safety
<1> QED BY <1>1, Invariant, PTL

\* The error of the readiness check reports a node that was not ready: the
\* deadline never throws away a collection that would have been enough.
THEOREM TimeoutIsHonest == Spec => []TimeoutReportsUnready
<1>1. IInv => TimeoutReportsUnready
  BY DEF IInv, ReportInv, TimeoutReportsUnready
<1> QED BY <1>1, Invariant, PTL
=============================================================================
