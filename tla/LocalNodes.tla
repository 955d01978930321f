----------------------------- MODULE LocalNodes -----------------------------
(***************************************************************************)
(* LocalDynamicNodes: the nodes that a manual cluster, or a workload with  *)
(* node control, starts while the run goes on.  start_node looks at the    *)
(* shared state under its lock, releases it, spawns a process and waits    *)
(* for it, and takes the lock again to register the node.  Between the two *)
(* critical sections other callers start nodes or stop all of them, the    *)
(* readiness wait may time out, and the caller may drop the future (the    *)
(* runner aborts its workloads).                                           *)
(*                                                                         *)
(* A label is the n of "node-n": the index for a node without a name.      *)
(***************************************************************************)
EXTENDS Integers, Sequences, FiniteSets, SequencesExt

CONSTANTS
    Caller,        \* concurrent users of the handle
    Name,          \* names callers pass: Blank or a label
    Blank,         \* the blank name
    Descriptors,   \* how many node configurations the topology has
    MaxStarts      \* bound: how many processes are spawned

ASSUME LabelAssumption ==
    /\ Name \subseteq Nat \cup {Blank} /\ Blank \notin Nat
    /\ Descriptors \in Nat \ {0} /\ MaxStarts \in Nat

VARIABLES
    seedCount,     \* node_count of the seed: 0 for a manual cluster, else
                   \* the number of nodes that were deployed at the start
    nodeCount,     \* state.node_count
    peerPorts,     \* state.peer_ports
    portsByName,   \* state.peer_ports_by_name
    clientsByName, \* state.clients_by_name: the port a client talks to
    nodes,         \* state.nodes: label, port and process of each
    clients,       \* node_clients, shared with the run context: ports
    call,          \* call[c]: what caller c's start_node is doing
    procs,         \* procs[p]: port of process p and whether it runs
    dropped,       \* the cluster was dropped
    abandoned,     \* processes whose start_node failed after the spawn
    overlapped     \* some call began while another one was under way

stateVars == <<nodeCount, peerPorts, portsByName, clientsByName, nodes>>
history == <<abandoned, overlapped>>
vars == <<seedCount, stateVars, clients, call, procs, dropped, history>>

-----------------------------------------------------------------------------
\* The network port of the i-th node configuration of the topology, and the port
\* allocated for the p-th process when its index is beyond them.
DescriptorPort(i) == i
FreshPort(p) == Descriptors + p

\* LocalDynamicSeed::from_topology, or the empty seed of a manual cluster.
SeedPorts == [i \in 1..seedCount |-> DescriptorPort(i - 1)]
SeedPortsByName == [l \in 0..(seedCount - 1) |-> DescriptorPort(l)]
\* NodeClients::from_topology: the nodes that were deployed at the start.
SeedClients == SeedPorts

Label(name, index) == IF name = Blank THEN index ELSE name

Idle == [pc |-> "idle", label |-> 0, index |-> 0, port |-> 0, proc |-> 0]

\* Processes that listen on a port.
Listening(port) == {p \in DOMAIN procs : procs[p].up /\ procs[p].port = port}

\* Insert into a map, replacing what the key had.
Put(map, key, value) ==
    [k \in DOMAIN map \cup {key} |-> IF k = key THEN value ELSE map[k]]

\* A call begins: does it overlap with another?
Enters(c) ==
    /\ ~dropped /\ call[c].pc = "idle"
    /\ overlapped' = (overlapped \/ \E d \in Caller : call[d].pc # "idle")
    /\ UNCHANGED abandoned

-----------------------------------------------------------------------------
(* start_node                                                              *)

\* First critical section: the index, the label, and whether it is taken.  A
\* taken label is an error, and nothing has happened.
StartNode(c, name) ==
    /\ Enters(c)
    /\ LET label == Label(name, nodeCount) IN
       /\ label \notin DOMAIN portsByName
       /\ call' = [call EXCEPT ![c] = [Idle EXCEPT !.pc = "build", !.index = nodeCount,
                                                   !.label = label]]
    /\ UNCHANGED <<seedCount, stateVars, clients, procs, dropped>>

\* build_general_config_for and spawn_node_process: the configuration of the
\* topology for the index if there is one, else one with a fresh port.  A
\* process whose port is taken stops again.
SpawnProcess(c) ==
    /\ call[c].pc = "build"
    /\ Len(procs) < MaxStarts
    /\ LET port == IF call[c].index < Descriptors
                   THEN DescriptorPort(call[c].index)
                   ELSE FreshPort(Len(procs) + 1)
       IN /\ procs' = Append(procs, [port |-> port, up |-> Listening(port) = {}])
          /\ call' = [call EXCEPT ![c].pc = "wait", ![c].port = port,
                                  ![c].proc = Len(procs) + 1]
    /\ UNCHANGED <<seedCount, history, stateVars, clients, dropped>>

\* An unknown peer name, a missing port or a failed spawn: an error before any
\* process runs.
BuildFails(c) ==
    /\ call[c].pc = "build"
    /\ call' = [call EXCEPT ![c] = Idle]
    /\ UNCHANGED <<seedCount, history, stateVars, clients, procs, dropped>>

\* wait_for_consensus_readiness: some process answers on the node's address.  The
\* client goes to the clients of the run context.
BecomesReady(c) ==
    /\ call[c].pc = "wait"
    /\ Listening(call[c].port) # {}
    /\ clients' = Append(clients, call[c].port)
    /\ call' = [call EXCEPT ![c].pc = "register"]
    /\ UNCHANGED <<seedCount, history, stateVars, procs, dropped>>

\* The readiness wait times out, or the future is dropped while it waits: the
\* NodeHandle is dropped, which does not stop its process.
WaitFails(c) ==
    /\ call[c].pc = "wait"
    /\ call' = [call EXCEPT ![c] = Idle]
    /\ abandoned' = abandoned \cup {call[c].proc}
    /\ UNCHANGED <<seedCount, overlapped, stateVars, clients, procs, dropped>>

\* Mutant: a node's port is not pushed to peer_ports.
Register_noPort(c) ==
    /\ call[c].pc = "register"
    /\ UNCHANGED peerPorts
    /\ portsByName' = Put(portsByName, call[c].label, call[c].port)
    /\ clientsByName' = Put(clientsByName, call[c].label, call[c].port)
    /\ nodeCount' = nodeCount + 1
    /\ nodes' = Append(nodes, [label |-> call[c].label, port |-> call[c].port,
                               proc |-> call[c].proc])
    /\ call' = [call EXCEPT ![c] = Idle]
    /\ UNCHANGED <<seedCount, history, clients, procs, dropped>>

\* Second critical section: register_node.
Register(c) ==
    /\ call[c].pc = "register"
    /\ peerPorts' = Append(peerPorts, call[c].port)
    /\ portsByName' = Put(portsByName, call[c].label, call[c].port)
    /\ clientsByName' = Put(clientsByName, call[c].label, call[c].port)
    /\ nodeCount' = nodeCount + 1
    /\ nodes' = Append(nodes, [label |-> call[c].label, port |-> call[c].port,
                               proc |-> call[c].proc])
    /\ call' = [call EXCEPT ![c] = Idle]
    /\ UNCHANGED <<seedCount, history, clients, procs, dropped>>

-----------------------------------------------------------------------------
(* stop_all and the end                                                    *)

Registered == {nodes[i].proc : i \in DOMAIN nodes}

\* Mutant: the clients of the stopped nodes stay in the run context.
StopAll_keepsClients ==
    /\ nodes' = <<>>
    /\ procs' = [p \in DOMAIN procs |->
                    [procs[p] EXCEPT !.up = @ /\ p \notin Registered]]
    /\ peerPorts' = SeedPorts
    /\ portsByName' = SeedPortsByName
    /\ clientsByName' = <<>>
    /\ nodeCount' = seedCount
    /\ UNCHANGED clients

\* Mutant: the nodes are forgotten without being dropped.
StopAll_detaches ==
    /\ nodes' = <<>>
    /\ peerPorts' = SeedPorts
    /\ portsByName' = SeedPortsByName
    /\ clientsByName' = <<>>
    /\ nodeCount' = seedCount
    /\ clients' = <<>>
    /\ UNCHANGED procs

\* stop_all: dropping the nodes kills their processes; the state goes back to
\* the seed; the clients of the run context are cleared.
StopAll ==
    /\ nodes' = <<>>
    /\ procs' = [p \in DOMAIN procs |->
                    [procs[p] EXCEPT !.up = @ /\ p \notin Registered]]
    /\ peerPorts' = SeedPorts
    /\ portsByName' = SeedPortsByName
    /\ clientsByName' = <<>>
    /\ nodeCount' = seedCount
    /\ clients' = <<>>

CallStopAll(c) ==
    /\ Enters(c)
    /\ StopAll
    /\ UNCHANGED <<seedCount, call, dropped>>

\* LocalManualCluster::drop: nobody uses the cluster any more.
DropCluster ==
    /\ ~dropped
    /\ \A c \in Caller : call[c].pc = "idle"
    /\ StopAll
    /\ dropped' = TRUE
    /\ UNCHANGED <<seedCount, call, history>>

-----------------------------------------------------------------------------
Init ==
    /\ seedCount \in {0, Descriptors}
    /\ nodeCount = seedCount
    /\ peerPorts = SeedPorts
    /\ portsByName = SeedPortsByName
    /\ clientsByName = <<>>
    /\ nodes = <<>>
    /\ clients = SeedClients
    /\ call = [c \in Caller |-> Idle]
    /\ procs = <<>>
    /\ dropped = FALSE
    /\ abandoned = {}
    /\ overlapped = FALSE

StartStep(c) == SpawnProcess(c) \/ BuildFails(c) \/ BecomesReady(c) \/ WaitFails(c) \/ Register(c)

Next ==
    \/ \E c \in Caller : \/ \E name \in Name : StartNode(c, name)
                         \/ StartStep(c)
                         \/ CallStopAll(c)
    \/ DropCluster

Spec == Init /\ [][Next]_vars

-----------------------------------------------------------------------------
(* Properties                                                              *)

\* The state describes the registered nodes, whatever the callers interleave: one
\* port per node after the seed's, the count to match, and a client by name only
\* for a label that is taken.
StateDescribesNodes ==
    /\ nodeCount = seedCount + Len(nodes)
    /\ peerPorts = SeedPorts \o [i \in DOMAIN nodes |-> nodes[i].port]
    /\ DOMAIN clientsByName \subseteq DOMAIN portsByName
    /\ \A i \in DOMAIN nodes : nodes[i].label \in DOMAIN clientsByName

\* No two nodes of a handle have the same label or the same network port: what
\* start_node's check of the name is for.
LabelsAreUnique ==
    \A i, j \in DOMAIN nodes :
        nodes[i].label = nodes[j].label \/ nodes[i].port = nodes[j].port => i = j

\* Processes that nobody will stop: neither registered nor waited for.
Leaked == {p \in DOMAIN procs : /\ procs[p].up
                                /\ p \notin Registered
                                /\ \A c \in Caller : call[c].proc # p}

\* However starts, stops and the end interleave, only a start_node that failed
\* after the spawn leaves a process behind.
LeaksAreFailedStarts == Leaked \subseteq abandoned

\* As long as no two calls overlap, across any sequence of starts, failed starts
\* and stops: labels and ports are unique; the name under which a node was
\* started finds its client; between calls the run context has a client for
\* each node, in order; and each node's own process runs unless one was leaked
\* (the answer that made it ready came from the process spawned for it).
NamesFindNodes ==
    ~overlapped =>
        /\ LabelsAreUnique
        /\ \A i \in DOMAIN nodes : clientsByName[nodes[i].label] = nodes[i].port
        /\ (\A c \in Caller : call[c].pc = "idle") =>
              /\ IsSuffix([i \in DOMAIN nodes |-> nodes[i].port], clients)
              /\ Len(clients) \in {Len(nodes), Len(nodes) + seedCount}
        /\ Leaked = {} => \A i \in DOMAIN nodes : procs[nodes[i].proc].up
=============================================================================
