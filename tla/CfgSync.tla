------------------------------- MODULE CfgSync -------------------------------
(***************************************************************************)
(* The configuration server of compose and k8s deployments (ConfigRepo)    *)
(* and its clients.  A node's container asks for its configuration and     *)
(* blocks; the server collects hosts until all have announced themselves   *)
(* or its timeout is over, answers everybody it has collected, and ends.   *)
(* The container script tries again after a refusal, and asks anew when    *)
(* the container is restarted.                                             *)
(*                                                                         *)
(* Nodes are numbered; the number is the index at the end of the host      *)
(* identifier.  A host is a node with the address it has, so a restart     *)
(* that changes the address makes a new host of the same node.             *)
(***************************************************************************)
EXTENDS Integers, Sequences, FiniteSets

CONSTANTS
    NumHosts,       \* n_hosts and n_participants: nodes 0 .. NumHosts - 1
    Address,        \* the addresses a container may have
    MaxAttempts,    \* attempts of the container script (30 in run_nomos.sh)
    MaxRestarts     \* bound: how often containers are restarted

ASSUME CountsAssumption ==
    /\ NumHosts \in Nat \ {0} /\ Address # {}
    /\ MaxAttempts \in Nat \ {0} /\ MaxRestarts \in Nat

VARIABLES
    server,     \* where ConfigRepo::run is
    waiting,    \* waiting_hosts: the hosts whose senders are kept
    batch,      \* the hosts that run() took when it ended its wait
    client,     \* client[n]: what the container of node n is doing
    address,    \* address[n]: the container's current address
    attempts,   \* attempts[n]: failed attempts of the script so far
    config,     \* config[n]: position of the configuration that n got, or -1
    restarts    \* how many restarts there were

vars == <<server, waiting, batch, client, address, attempts, config, restarts>>

Node == 0..(NumHosts - 1)
Host == [node : Node, addr : Address]
\* The host that a node registers.
HostOf(n) == [node |-> n, addr |-> address[n]]

-----------------------------------------------------------------------------
(* The container                                                           *)

\* cfgsync-client posts its request; the handler registers the host, which
\* replaces the sender of an earlier request of the same host, and awaits.
Ask(n) ==
    /\ client[n] = "start"
    /\ client' = [client EXCEPT ![n] = "asking"]
    /\ waiting' = waiting \cup {HostOf(n)}
    /\ UNCHANGED <<server, batch, address, attempts, config, restarts>>

\* The script sleeps and tries again.
Retry(n) ==
    /\ client[n] = "refused"
    /\ client' = [client EXCEPT ![n] = "start"]
    /\ UNCHANGED <<server, waiting, batch, address, attempts, config, restarts>>

\* The container is restarted, by a crash or by a chaos workload: the script
\* begins again.  A connection that was open is gone; the host's sender stays.
Restart(n) ==
    /\ client[n] # "start"
    /\ restarts < MaxRestarts
    /\ restarts' = restarts + 1
    /\ client' = [client EXCEPT ![n] = "start"]
    /\ attempts' = [attempts EXCEPT ![n] = 0]
    /\ config' = [config EXCEPT ![n] = -1]
    /\ \E a \in Address : address' = [address EXCEPT ![n] = a]
    /\ UNCHANGED <<server, waiting, batch>>

-----------------------------------------------------------------------------
(* The server                                                              *)

\* wait_for_hosts sees enough hosts and lets go of the lock.
PollSees ==
    /\ server = "wait"
    /\ Cardinality(waiting) >= NumHosts
    /\ server' = "full"
    /\ UNCHANGED <<waiting, batch, client, address, attempts, config, restarts>>

\* The timeout is over before a poll has seen enough hosts.
TimeoutFires ==
    /\ server = "wait"
    /\ server' = "late"
    /\ UNCHANGED <<waiting, batch, client, address, attempts, config, restarts>>

\* The clients of the batch that still listen get their answer.
Listeners == {n \in Node : client[n] = "asking" /\ HostOf(n) \in waiting}

\* Refused clients count the attempt and give up after the last.
Refuse ==
    /\ attempts' = [n \in Node |-> attempts[n] + IF n \in Listeners THEN 1 ELSE 0]
    /\ client' = [n \in Node |->
                    IF n \notin Listeners THEN client[n]
                    ELSE IF attempts[n] + 1 >= MaxAttempts THEN "gaveup" ELSE "refused"]
    /\ UNCHANGED config

\* Mutant: the hosts are not sorted.
SortedPositions_unsorted(hosts) ==
    {p \in [hosts -> 0..(Cardinality(hosts) - 1)] :
        \A g, h \in hosts : g # h => p[g] # p[h]}

\* The ways sort_hosts may order the hosts: by index, and hosts of one index in
\* any order, since they come from a hash map.  p[h] is the position of h.
SortedPositions(hosts) ==
    {p \in [hosts -> 0..(Cardinality(hosts) - 1)] :
        \A g, h \in hosts : /\ g # h => p[g] # p[h]
                            /\ g.node < h.node => p[g] < p[h]}

\* take_waiting_hosts, and the end of run(): nothing is awaited in between.
Take ==
    /\ batch' = waiting
    /\ waiting' = {}
    /\ server' = "done"

\* All hosts are there: configurations are generated and sent.  There must be as
\* many hosts as participants.
Answer ==
    /\ server = "full"
    /\ Cardinality(waiting) = NumHosts
    /\ Take
    /\ \E p \in SortedPositions(waiting) :
          config' = [n \in Node |-> IF n \in Listeners THEN p[HostOf(n)] ELSE config[n]]
    /\ client' = [n \in Node |-> IF n \in Listeners THEN "running" ELSE client[n]]
    /\ UNCHANGED <<address, attempts, restarts>>

\* try_create_node_configs fails, because there are more hosts than participants
\* or because some part of a configuration cannot be built: everybody gets Error.
AnswerError ==
    /\ server = "full"
    /\ Take
    /\ Refuse
    /\ UNCHANGED <<address, restarts>>

\* Mutant: after its timeout the server just ends, its map untouched.
AnswerTimeout_silent ==
    /\ server = "late"
    /\ server' = "done"
    /\ UNCHANGED <<waiting, batch, client, address, attempts, config, restarts>>

\* Not all hosts came in time: everybody gets Timeout.
AnswerTimeout ==
    /\ server = "late"
    /\ Take
    /\ Refuse
    /\ UNCHANGED <<address, restarts>>

-----------------------------------------------------------------------------
Init ==
    /\ server = "wait"
    /\ waiting = {}
    /\ batch = {}
    /\ client = [n \in Node |-> "start"]
    /\ address \in [Node -> Address]
    /\ attempts = [n \in Node |-> 0]
    /\ config = [n \in Node |-> -1]
    /\ restarts = 0

Server == PollSees \/ TimeoutFires \/ Answer \/ AnswerError \/ AnswerTimeout

Next ==
    \/ Server
    \/ \E n \in Node : Ask(n) \/ Retry(n) \/ Restart(n)

Spec == Init /\ [][Next]_vars

\* The server's task runs, its timer fires, and the script of a container goes
\* on; nothing says that a container is ever restarted.
Fairness ==
    /\ WF_vars(Server)
    /\ \A n \in Node : WF_vars(Ask(n)) /\ WF_vars(Retry(n))

FairSpec == Spec /\ Fairness

-----------------------------------------------------------------------------
(* Properties                                                              *)

\* The types of the variables.
TypeOK ==
    /\ server \in {"wait", "full", "late", "done"}
    /\ waiting \subseteq Host /\ batch \subseteq Host
    /\ client \in [Node -> {"start", "asking", "refused", "running", "gaveup"}]
    /\ address \in [Node -> Address]
    /\ attempts \in [Node -> 0..MaxAttempts]
    /\ config \in [Node -> -1..(NumHosts - 1)]
    /\ restarts \in 0..MaxRestarts

\* Two nodes never run with the same configuration, also when a restarted
\* container came back with another address while the server collected.
ConfigsAreDistinct ==
    \A m, n \in Node : config[m] # -1 /\ config[m] = config[n] => m = n

\* Unless the batch has two hosts of one node, a node runs only after all nodes
\* have announced themselves, and with the configuration of its own index.
ConfigIsOwn ==
    (\A g, h \in batch : g.node = h.node => g = h) =>
        \A n \in Node : config[n] # -1 =>
            /\ config[n] = n
            /\ {h.node : h \in batch} = Node

\* The types of the variables; configurations are distinct, and, unless a node is
\* in the batch twice, each node's own.
Safety == TypeOK /\ ConfigsAreDistinct /\ ConfigIsOwn

\* A host that registered while the server still collects gets an answer.
CollectedAreAnswered ==
    \A n \in Node :
        (client[n] = "asking" /\ server # "done") ~> (client[n] # "asking")

\* Every request for a configuration is answered at some time.
EveryRequestAnswered ==
    \A n \in Node : (client[n] = "asking") ~> (client[n] # "asking")
=============================================================================
