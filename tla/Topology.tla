------------------------------ MODULE Topology ------------------------------
(***************************************************************************)
(* What TopologyBuilder::build generates from a topology configuration, as *)
(* operators: the initial peers of each network layout, the peers that a   *)
(* readiness check expects from them, the notes and declarations of the    *)
(* genesis transaction, the keys of each node, and the wallet accounts.    *)
(*                                                                         *)
(* Nodes are numbered from 0.  A key is the pair of a prefix and what it   *)
(* is derived from (a node's id, or the index of a wallet user); distinct  *)
(* ids are taken to differ in the bytes that the derivation uses.          *)
(***************************************************************************)
EXTENDS Integers, Sequences, FiniteSets, SequencesExt

Node(n) == 0..(n - 1)

-----------------------------------------------------------------------------
(* Network                                                                 *)

Layouts == {"Star", "Chain", "Full"}

\* initial_peers_by_network_layout: the nodes that node i dials when it starts.
InitialPeers(layout, n) ==
    [i \in Node(n) |-> CASE layout = "Star"  -> {0} \ {i}
                         [] layout = "Chain" -> {i - 1} \cap Node(n)
                         [] layout = "Full"  -> 0..(i - 1)]

\* The swarm ports of create_network_configs: allocated one by one, distinct.
ListenPorts(n) == [i \in Node(n) |-> 3000 + i]

\* initial_peer_ports: the ports in the addresses of a node's initial peers.
PeerPorts(layout, n) ==
    [i \in Node(n) |-> {ListenPorts(n)[j] : j \in InitialPeers(layout, n)[i]}]

\* The nodes behind the ports that node i dials, without itself; a port on which
\* nobody listens is skipped.
DialledNodes(listen, peerPorts, i) ==
    {j \in DOMAIN listen : /\ listen[j] \in peerPorts[i]
                           /\ \A k \in 0..(j - 1) : listen[k] # listen[j]} \ {i}

\* Mutant: a connection is expected only by the node that dials.
ExpectedPeers_oneSided(listen, peerPorts) ==
    [i \in DOMAIN peerPorts |-> DialledNodes(listen, peerPorts, i)]

\* find_expected_peer_counts: a connection counts at both of its ends.
ExpectedPeers(listen, peerPorts) ==
    [i \in DOMAIN peerPorts |->
        DialledNodes(listen, peerPorts, i)
            \cup {j \in DOMAIN peerPorts : i \in DialledNodes(listen, peerPorts, j)}]

ExpectedPeerCounts(layout, n) ==
    [i \in Node(n) |-> Cardinality(ExpectedPeers(ListenPorts(n), PeerPorts(layout, n))[i])]

\* A graph on the nodes, given by its links, does not fall into parts.
Connected(nodes, links) ==
    \A part \in SUBSET nodes :
        part # {} /\ (\A link \in links : link \subseteq part \/ link \cap part = {})
            => part = nodes

-----------------------------------------------------------------------------
(* Wallets                                                                 *)

\* WalletAccount::deterministic
Account(index, value) == [key |-> <<"wallet", index>>, value |-> value]

\* WalletConfig::uniform: the funds in equal parts, and one more for the first
\* users until the remainder is used up.  It panics for funds < users.
Uniform(funds, users) ==
    [k \in 1..users |-> Account(k - 1, funds \div users + IF k <= funds % users THEN 1 ELSE 0)]

-----------------------------------------------------------------------------
(* Genesis                                                                 *)

NoNotes == [utxos |-> <<>>, bn |-> <<>>, sdp |-> <<>>, outputIndex |-> 0]

\* push_leader_utxo
PushLeader(g, id) ==
    [g EXCEPT !.utxos = Append(@, [key |-> <<"ld", id>>, value |-> 1000]),
              !.outputIndex = @ + 1]

\* push_service_note: the note remembers the output index it will have.
PushService(g, prefix, id) ==
    LET note == [key |-> <<prefix, id>>, value |-> 1]
    IN  [g EXCEPT !.utxos = Append(@, note),
                  ![prefix] = Append(@, [note |-> note, outputIndex |-> g.outputIndex]),
                  !.outputIndex = @ + 1]

\* Mutant: the leader's note is pushed after the service notes are numbered.
NodeNotes_leaderLast(ids) ==
    LET notes[k \in 0..Len(ids)] ==
            IF k = 0 THEN [NoNotes EXCEPT !.outputIndex = 1]
            ELSE LET services == PushService(PushService(notes[k - 1], "sdp", ids[k]), "bn", ids[k])
                 IN  PushLeader(services, ids[k])
    IN  notes[Len(ids)]

\* create_utxos_for_leader_and_services: notes[k] are those of the first k nodes.
NodeNotes(ids) ==
    LET notes[k \in 0..Len(ids)] ==
            IF k = 0 THEN NoNotes
            ELSE PushService(PushService(PushLeader(notes[k - 1], ids[k]), "bn", ids[k]), "sdp", ids[k])
    IN  notes[Len(ids)]

\* The outputs of the ledger transaction: the nodes' notes, then the wallets'.
GenesisOutputs(ids, accounts) == NodeNotes(ids).utxos \o accounts

\* collect_provider_infos: the first nodes, each with its own blend note.
ProviderInfos(ids, core) ==
    [i \in 1..core |-> [id |-> ids[i], note |-> NodeNotes(ids).bn[i]]]

\* build_genesis_ops: a declaration of each provider, which locks the output that
\* has its note's output index.
Declarations(providers) ==
    [i \in DOMAIN providers |-> [provider |-> providers[i].id,
                                 zkKey |-> <<"zk", providers[i].id>>,
                                 locks |-> providers[i].note]]

\* create_blend_configs: the keys of a node, derived from its id.
BlendKeys(id) == {<<"ed25519", id>>, <<"zk", id>>}

\* create_kms_configs: the keys of a node's blend configuration and those of the
\* wallet accounts it is given.
KmsKeys(ids, accounts) ==
    [i \in DOMAIN ids |-> BlendKeys(ids[i]) \cup {accounts[k].key : k \in DOMAIN accounts}]

\* What the configurations of all nodes share and what each holds.
Genesis(ids, core, accounts) ==
    [ids |-> ids, accounts |-> accounts,
     outputs |-> GenesisOutputs(ids, accounts),
     declarations |-> Declarations(ProviderInfos(ids, core)),
     kms |-> KmsKeys(ids, accounts)]

\* try_create_node_configs of a cfgsync server: all nodes declare themselves, and
\* its create_kms_configs knows of no wallets.
CfgsyncGenesis(ids, accounts) ==
    [Genesis(ids, Len(ids), accounts) EXCEPT !.kms = KmsKeys(ids, <<>>)]

-----------------------------------------------------------------------------
(* TopologyBuilder                                                         *)

\* resolve_ids without given ids: random ones.
FreshIds(n) == [i \in 1..n |-> 100 + i]

\* participant_count, resolve_ids and resolve_ports: what is wrong with a topology
\* of n nodes for which ids and blend ports, or none, were given.
TopologyError(topology, none) ==
    CASE topology.nodes = 0 -> "EmptyParticipants"
      [] topology.nodes # 0 /\ topology.ids # none /\ Len(topology.ids) # topology.nodes
            -> "IdCountMismatch"
      [] topology.nodes # 0 /\ (topology.ids = none \/ Len(topology.ids) = topology.nodes)
            /\ topology.blendPorts # none /\ topology.blendPorts # topology.nodes
            -> "PortCountMismatch"
      [] OTHER -> "none"

ResolvedIds(topology, none) ==
    IF topology.ids = none THEN FreshIds(topology.nodes) ELSE topology.ids
=============================================================================
