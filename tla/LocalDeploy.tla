---------------------------- MODULE LocalDeploy ----------------------------
(***************************************************************************)
(* LocalDeployer::deploy and the life of the node processes that it        *)
(* starts: the nodes are spawned one after the other, each is waited for,  *)
(* the network readiness check polls the peer counts of all nodes, and the *)
(* block feed is started from a random node.  What is dropped on the way   *)
(* decides which processes are killed.                                     *)
(*                                                                         *)
(* The processes, their API and their connections are the environment.  A  *)
(* request has no timeout of its own, so that a node that accepts requests *)
(* and never answers ("stuck") is a fault like a crash.  The statuses of a *)
(* collection are kept as whether all of them meet the expected counts.    *)
(***************************************************************************)
EXTENDS Topology

CONSTANTS
    NodeCounts,     \* sizes of the topologies
    MaxFaults       \* bound on crashes, nodes that get stuck and lost links

ASSUME LocalDeployAssumption == NodeCounts \subseteq Nat \ {0} /\ MaxFaults \in Nat

VARIABLES
    n, layout, check, \* the topology and whether its membership is checked
    pc,         \* where deploy(), or the run that follows, is
    next,       \* the index of the node to spawn
    held,       \* nodes that a Node value stands for: dropping it kills them
    abandoned,  \* nodes whose handle was dropped before there was a Node
    node,       \* node[i]: "none", "starting", "open", "stuck" or "dead"
    links,      \* the connections between nodes
    pending,    \* nodes that have not answered the collection yet
    good,       \* the answers of the collection so far meet the counts
    data,       \* the last complete collection does
    source,     \* the node of the block feed
    feed,       \* "none", "on" or "aborted"
    outcome,    \* how deploy() ended
    faults      \* faults so far

topology == <<n, layout, check>>
processes == <<next, held, abandoned>>
readiness == <<pending, good, data>>
vars == <<topology, pc, processes, node, links, readiness, source, feed, outcome, faults>>

Running == {i \in Node(n) : node[i] \in {"starting", "open", "stuck"}}

Peers(i) == {j \in Node(n) : {i, j} \in links /\ i # j}

-----------------------------------------------------------------------------
(* Dropping                                                                *)

\* kill_child of the nodes: their connections go with them.
Kill(nodes) ==
    /\ node' = [i \in Node(n) |-> IF i \in nodes THEN "dead" ELSE node[i]]
    /\ links' = {l \in links : l \cap nodes = {}}

\* Mutant: only a topology that is complete is dropped with its nodes.
DropNodes_onlyComplete ==
    /\ Kill(IF held = Node(n) THEN held ELSE {})
    /\ held' = {}

\* The nodes spawned so far, or the topology, are dropped.
DropNodes ==
    /\ Kill(held)
    /\ held' = {}

\* deploy() ends without a runner: what it owns is dropped.
Ends(how) ==
    /\ DropNodes
    /\ outcome' = how
    /\ pc' = "over"
    /\ UNCHANGED <<topology, next, readiness, source, feed, faults>>

-----------------------------------------------------------------------------
(* Topology::spawn_nodes                                                   *)

\* The process of the next node starts, and spawn_node waits for its API.
SpawnNode ==
    /\ pc = "spawn" /\ next < n
    /\ node' = [node EXCEPT ![next] = "starting"]
    /\ pc' = "waitNode"
    /\ UNCHANGED <<topology, processes, links, readiness, source, feed, outcome, faults>>

\* The directory, the configuration file or the process cannot be made.
SpawnFails ==
    /\ pc = "spawn" /\ next < n
    /\ Ends("spawn") /\ UNCHANGED abandoned

\* wait_for_consensus_readiness gets an answer: there is a Node.
NodeReady ==
    /\ pc = "waitNode" /\ node[next] = "open"
    /\ held' = held \cup {next}
    /\ next' = next + 1
    /\ pc' = "spawn"
    /\ UNCHANGED <<topology, abandoned, node, links, readiness, source, feed, outcome, faults>>

\* STARTUP_TIMEOUT: the NodeHandle is dropped, which kills nothing.
StartupTimeout ==
    /\ pc = "waitNode"
    /\ abandoned' = abandoned \cup {next}
    /\ Ends("spawn")

\* All nodes are there.  A single node, or none to check, is ready.
SpawnDone ==
    /\ pc = "spawn" /\ next = n
    /\ IF check /\ n > 1
         THEN pc' = "collect0" /\ pending' = Node(n) /\ good' = TRUE /\ UNCHANGED source
         ELSE pc' = "feed" /\ source' \in Node(n) /\ UNCHANGED <<pending, good>>
    /\ UNCHANGED <<topology, processes, node, links, data, feed, outcome, faults>>

-----------------------------------------------------------------------------
(* ReadinessCheck::wait                                                    *)

\* Node i answers network_info, or the request fails, as it does when the node is
\* gone.
Answer(i) ==
    /\ pc \in {"collect0", "collect"} /\ i \in pending
    /\ node[i] \in {"open", "dead"}
    /\ \/ good' = FALSE
       \/ /\ node[i] = "open"
          /\ good' = (good /\ Cardinality(Peers(i)) >= ExpectedPeerCounts(layout, n)[i])
    /\ pending' = pending \ {i}
    /\ UNCHANGED <<topology, pc, processes, node, links, data, source, feed, outcome, faults>>

\* The collection is complete.  The first one is awaited outside of the timeout.
CollectDone ==
    /\ pc \in {"collect0", "collect"} /\ pending = {}
    /\ data' = good
    /\ pc' = "poll"
    /\ UNCHANGED <<topology, processes, node, links, pending, good, source, feed, outcome, faults>>

\* Mutant: the loop sleeps before it looks at what it collected.
Poll_sleepFirst ==
    /\ pc = "poll"
    /\ pc' = "sleep"
    /\ UNCHANGED <<topology, processes, node, links, readiness, source, feed, outcome, faults>>

\* is_ready: on to the block feed, or sleep for the poll interval.
Poll ==
    /\ pc = "poll"
    /\ IF data THEN pc' = "feed" /\ source' \in Node(n)
               ELSE pc' = "sleep" /\ UNCHANGED source
    /\ UNCHANGED <<topology, processes, node, links, readiness, feed, outcome, faults>>

SleepEnds ==
    /\ pc = "sleep"
    /\ pc' = "collect" /\ pending' = Node(n) /\ good' = TRUE
    /\ UNCHANGED <<topology, processes, node, links, data, source, feed, outcome, faults>>

\* Mutant: the deadline is looked at between two collections.
ReadinessTimeout_betweenPolls ==
    /\ pc = "sleep"
    /\ Ends("unready") /\ UNCHANGED abandoned

\* The timeout fires at one of the loop's two awaits; a collection that is complete
\* is looked at first.  The topology is dropped with the error.
ReadinessTimeout ==
    /\ pc = "sleep" \/ (pc = "collect" /\ pending # {})
    /\ Ends("unready") /\ UNCHANGED abandoned

-----------------------------------------------------------------------------
(* The block feed and the run                                              *)

\* spawn_block_feed: the first catch-up succeeds, and there is a runner.
FeedStarts ==
    /\ pc = "feed" /\ node[source] = "open"
    /\ feed' = "on" /\ outcome' = "ok" /\ pc' = "run"
    /\ UNCHANGED <<topology, processes, node, links, readiness, source, faults>>

\* The first catch-up fails: the topology is dropped.
FeedFails ==
    /\ pc = "feed" /\ node[source] \in {"open", "dead"}
    /\ Ends("feed") /\ UNCHANGED abandoned

\* The future of deploy() is dropped at an await.
DeployDropped ==
    /\ pc \in {"waitNode", "collect0", "sleep", "collect", "feed"}
    /\ abandoned' = IF pc = "waitNode" THEN abandoned \cup {next} ELSE abandoned
    /\ Ends("dropped")

\* The runner, or the handle that its run returned, is dropped: the guard aborts
\* the block feed.
RunnerDropped ==
    /\ pc = "run"
    /\ feed' = "aborted" /\ pc' = "stopping"
    /\ UNCHANGED <<topology, processes, node, links, readiness, source, outcome, faults>>

\* The last task that has the run context is gone, and the topology with it.
ContextDropped ==
    /\ pc = "stopping"
    /\ DropNodes
    /\ pc' = "over"
    /\ UNCHANGED <<topology, next, abandoned, readiness, source, feed, outcome, faults>>

-----------------------------------------------------------------------------
(* The node processes                                                      *)

\* The API of node i is served.
Serve(i) ==
    /\ node[i] = "starting"
    /\ node' = [node EXCEPT ![i] = "open"]
    /\ UNCHANGED <<topology, pc, processes, links, readiness, source, feed, outcome, faults>>

\* Two nodes connect: one dials its initial peer, or finds the other later.
Connect(i, j) ==
    /\ i # j /\ {i, j} \subseteq Running /\ {i, j} \notin links
    /\ links' = links \cup {{i, j}}
    /\ UNCHANGED <<topology, pc, processes, node, readiness, source, feed, outcome, faults>>

Fault ==
    /\ faults < MaxFaults /\ faults' = faults + 1
    /\ UNCHANGED <<topology, pc, processes, readiness, source, feed, outcome>>

Crash(i) == Fault /\ i \in Running /\ Kill({i})

GetStuck(i) ==
    /\ Fault
    /\ node[i] = "open" /\ node' = [node EXCEPT ![i] = "stuck"] /\ UNCHANGED links

Disconnect(link) == Fault /\ links' = links \ {link} /\ UNCHANGED node

-----------------------------------------------------------------------------
Init ==
    /\ n \in NodeCounts /\ layout \in Layouts /\ check \in BOOLEAN
    /\ pc = "spawn" /\ next = 0 /\ held = {} /\ abandoned = {}
    /\ node = [i \in Node(n) |-> "none"] /\ links = {}
    /\ pending = {} /\ good = TRUE /\ data = FALSE
    /\ source = 0 /\ feed = "none" /\ outcome = "none" /\ faults = 0

Deployer ==
    \/ SpawnNode \/ SpawnFails \/ NodeReady \/ StartupTimeout \/ SpawnDone
    \/ CollectDone \/ Poll \/ SleepEnds \/ ReadinessTimeout
    \/ FeedStarts \/ FeedFails \/ ContextDropped

\* Once all is over, what the remaining processes do is of no concern.
Environment ==
    /\ pc # "over"
    /\ \/ \E i \in Node(n) : Serve(i) \/ Crash(i) \/ GetStuck(i)
       \/ \E i, j \in Node(n) : Connect(i, j)
       \/ \E link \in links : Disconnect(link)

Next ==
    \/ Deployer
    \/ \E i \in Node(n) : Answer(i)
    \/ DeployDropped
    \/ RunnerDropped
    \/ Environment

Spec == Init /\ [][Next]_vars

\* The deployer's task is polled, a node that is not stuck answers, the deadline of
\* the readiness check passes, and whoever has a runner drops it in the end.
FairSpec ==
    /\ Spec
    /\ WF_vars(Deployer) /\ SF_vars(ReadinessTimeout) /\ WF_vars(RunnerDropped)
    /\ WF_vars(\E i \in Node(n) : Answer(i))

-----------------------------------------------------------------------------
(* Properties                                                              *)

TypeOK ==
    /\ n \in NodeCounts /\ layout \in Layouts /\ check \in BOOLEAN
    /\ pc \in {"spawn", "waitNode", "collect0", "poll", "sleep", "collect", "feed",
               "run", "stopping", "over"}
    /\ next \in 0..n /\ held \subseteq Node(n) /\ abandoned \subseteq Node(n)
    /\ node \in [Node(n) -> {"none", "starting", "open", "stuck", "dead"}]
    /\ \A l \in links : l \subseteq Running /\ Cardinality(l) = 2
    /\ pending \subseteq Node(n) /\ good \in BOOLEAN /\ data \in BOOLEAN
    /\ source \in Node(n) /\ feed \in {"none", "on", "aborted"}
    /\ outcome \in {"none", "ok", "spawn", "unready", "feed", "dropped"}
    /\ faults \in 0..MaxFaults

\* However the deployment ended, the processes that are left are those that were
\* abandoned in the middle of their start, and that is at most one.
LeaksExplained ==
    /\ Cardinality(abandoned) <= 1
    /\ pc = "over" => Running \subseteq abandoned

\* The block feed runs only as long as the topology with all its nodes is held.
FeedHasNodes == feed = "on" => held = Node(n)

\* The types of the variables; every process is accounted for at the end; the
\* block feed is aborted before the nodes are dropped.
Safety == TypeOK /\ LeaksExplained /\ FeedHasNodes

\* Counting peers is enough for a small network: as long as nothing failed, the
\* nodes whose readiness was confirmed form one network, whichever connections
\* they made and although their counts were taken at different times.
ReadyMeansConnected ==
    check /\ pc \in {"feed", "run"} /\ faults = 0 => Connected(Node(n), links)

\* The error of the readiness check shows a node that was not ready: the statuses
\* that it reports are never ones that meet the counts.
TimeoutReportsUnready == outcome = "unready" => ~data

\* A deployment ends, in a runner or an error, and its nodes are stopped in the
\* end, unless it waits forever for a node that is stuck: in the first collection
\* of the readiness check or the first request of the block feed.
BringUpEnds ==
    \/ <>[](pc = "over")
    \/ <>[](pc = "collect0" /\ \E i \in pending : node[i] = "stuck")
    \/ <>[](pc = "feed" /\ node[source] = "stuck")
=============================================================================
