-------------------------- MODULE LocalNodesProofs --------------------------
(***************************************************************************)
(* Proofs about LocalNodes for any callers, names, topology and number of  *)
(* starts: what holds of the shared state however the calls interleave,    *)
(* and what holds as long as they do not.                                  *)
(***************************************************************************)
EXTENDS LocalNodes, SequenceTheorems, TLAPS

\* A call that has a process, and one that is under way.
Waiting(c) == call[c].pc \in {"wait", "register"}
Active(c) == call[c].pc # "idle"

Types ==
    /\ seedCount \in Nat /\ nodeCount \in Nat
    /\ peerPorts \in Seq(Nat) /\ clients \in Seq(Nat)
    /\ nodes \in Seq([label : Nat, port : Nat, proc : Nat])
    /\ procs \in Seq([port : Nat, up : BOOLEAN])
    /\ call \in [Caller -> [pc : {"idle", "build", "wait", "register"},
                            label : Nat, index : Nat, port : Nat, proc : Nat]]

\* StateDescribesNodes, port by port.
StateInv ==
    /\ nodeCount = seedCount + Len(nodes)
    /\ Len(peerPorts) = seedCount + Len(nodes)
    /\ \A i \in 1..seedCount : peerPorts[i] = DescriptorPort(i - 1)
    /\ \A i \in 1..Len(nodes) : peerPorts[seedCount + i] = nodes[i].port
    /\ DOMAIN clientsByName \subseteq DOMAIN portsByName
    /\ \A i \in 1..Len(nodes) : nodes[i].label \in DOMAIN clientsByName

\* Every process has one owner: a node, a call that waits for it, or nobody.
ProcsInv ==
    /\ \A i \in 1..Len(nodes) : /\ nodes[i].proc \in 1..Len(procs)
                                /\ procs[nodes[i].proc].port = nodes[i].port
    /\ \A i, j \in 1..Len(nodes) : nodes[i].proc = nodes[j].proc => i = j
    /\ \A c \in Caller : ~Waiting(c) => call[c].proc = 0
    /\ \A c \in Caller : Waiting(c) => /\ call[c].proc \in 1..Len(procs)
                                       /\ procs[call[c].proc].port = call[c].port
                                       /\ \A i \in 1..Len(nodes) : nodes[i].proc # call[c].proc
    /\ \A c, d \in Caller : Waiting(c) /\ Waiting(d) /\ call[c].proc = call[d].proc => c = d

\* The port of the node with this index, if it has this process.
PortOf(index, proc) == IF index < Descriptors THEN DescriptorPort(index) ELSE FreshPort(proc)

\* Between its two critical sections a call that is alone finds the state that
\* it left: its label is free, its index is the count.
AloneInv ==
    /\ \A c, d \in Caller : Active(c) /\ Active(d) => c = d
    /\ \A c \in Caller : Active(c) => call[c].label \notin DOMAIN portsByName
    /\ \A c \in Caller : call[c].pc = "build" => call[c].index = nodeCount
    /\ \A c \in Caller : Waiting(c) => call[c].port = PortOf(nodeCount, call[c].proc)

\* Hence each node has the port of its index, and its label for itself.
NodesInv ==
    /\ \A i \in 1..Len(nodes) : nodes[i].port = PortOf(seedCount + i - 1, nodes[i].proc)
    /\ \A i \in 1..Len(nodes) : clientsByName[nodes[i].label] = nodes[i].port
    /\ \A i, j \in 1..Len(nodes) : nodes[i].label = nodes[j].label => i = j

\* The first k clients end with those of the nodes.
ClientsMatch(k) ==
    /\ k \in {Len(nodes), Len(nodes) + seedCount}
    /\ \A i \in 1..Len(nodes) : clients[k - Len(nodes) + i] = nodes[i].port

\* The clients follow the nodes, but for the node that is being registered.
ClientsInv ==
    /\ (\A c \in Caller : call[c].pc # "register") => ClientsMatch(Len(clients))
    /\ \A c \in Caller : call[c].pc = "register" =>
           /\ ClientsMatch(Len(clients) - 1)
           /\ Len(clients) > 0 /\ clients[Len(clients)] = call[c].port

\* A process that could not have its port was in the way of one that leaked.
UpInv ==
    Leaked = {} => /\ \A i \in 1..Len(nodes) : procs[nodes[i].proc].up
                   /\ \A c \in Caller : Waiting(c) => procs[call[c].proc].up

IInv ==
    /\ Types /\ StateInv /\ ProcsInv /\ LeaksAreFailedStarts
    /\ ~overlapped => AloneInv /\ NodesInv /\ ClientsInv /\ UpInv

-----------------------------------------------------------------------------
\* A function on 1..m is a sequence of length m.
LEMMA FunctionIsSeq ==
    ASSUME NEW S, NEW m \in Nat, NEW f \in [1..m -> S] PROVE f \in Seq(S) /\ Len(f) = m
<1>1. f \in Seq(S)
  BY SeqDef
<1>2. Len(f) \in Nat /\ DOMAIN f = 1..Len(f)
  BY <1>1, LenProperties
<1>3. DOMAIN f = 1..m
  OBVIOUS
<1> QED BY <1>1, <1>2, <1>3

\* A sequence that another one ends with is a suffix of it.
LEMMA EndIsSuffix ==
    ASSUME NEW S, NEW s \in Seq(S), NEW t \in Seq(S), Len(s) <= Len(t),
           \A i \in 1..Len(s) : t[Len(t) - Len(s) + i] = s[i]
    PROVE  IsSuffix(s, t)
<1>1. /\ Len(s) \in Nat /\ Len(t) \in Nat
      /\ \A i \in 1..Len(s) : s[i] \in S
      /\ \A i \in 1..Len(t) : t[i] \in S
  BY LenProperties, ElementOfSeq
<1>2. Reverse(s) \in [1..Len(s) -> S] /\ Reverse(t) \in [1..Len(t) -> S]
  BY <1>1 DEF Reverse
<1>3. Len(Reverse(s)) = Len(s) /\ Len(Reverse(t)) = Len(t)
  BY <1>1, <1>2, FunctionIsSeq
<1>4. \A i \in 1..Len(s) : Reverse(s)[i] \in S /\ Reverse(t)[i] \in S
                             /\ Reverse(s)[i] = Reverse(t)[i]
  <2> SUFFICES ASSUME NEW i \in 1..Len(s)
               PROVE  Reverse(s)[i] \in S /\ Reverse(t)[i] \in S /\ Reverse(s)[i] = Reverse(t)[i]
    OBVIOUS
  <2>1. i \in 1..Len(t) /\ (Len(s) - i) + 1 \in 1..Len(s)
    BY <1>1
  <2>2. Reverse(s)[i] = s[(Len(s) - i) + 1] /\ Reverse(t)[i] = t[(Len(t) - i) + 1]
    BY <2>1 DEF Reverse
  <2>3. Len(t) - Len(s) + ((Len(s) - i) + 1) = (Len(t) - i) + 1
    BY <1>1
  <2>4. t[(Len(t) - i) + 1] = s[(Len(s) - i) + 1]
    BY <2>1, <2>3
  <2> QED BY <1>1, <2>1, <2>2, <2>4
<1> DEFINE a == SubSeq(Reverse(s), 1, Len(s))
           b == SubSeq(Reverse(t), 1, Len(s))
<1>5. /\ a \in Seq(S) /\ Len(a) = Len(s)
      /\ \A i \in 1..Len(s) : a[i] = Reverse(s)[i]
  BY <1>1, <1>4, SubSeqProperties
<1>6. /\ b \in Seq(S) /\ Len(b) = Len(s)
      /\ \A i \in 1..Len(s) : b[i] = Reverse(t)[i]
  BY <1>1, <1>4, SubSeqProperties
<1> HIDE DEF a, b
<1>7. a = b
  <2>1. \A i \in 1..Len(a) : a[i] = b[i]
    BY <1>4, <1>5, <1>6
  <2> QED BY <1>5, <1>6, <2>1, SeqEqual
<1> QED BY <1>3, <1>7 DEF IsSuffix, IsPrefix, a, b

\* What the types say of an element.
LEMMA Elements ==
    ASSUME Types
    PROVE  /\ Len(nodes) \in Nat /\ DOMAIN nodes = 1..Len(nodes)
           /\ \A i \in 1..Len(nodes) : nodes[i] \in [label : Nat, port : Nat, proc : Nat]
           /\ Len(procs) \in Nat /\ DOMAIN procs = 1..Len(procs)
           /\ \A p \in 1..Len(procs) : procs[p] \in [port : Nat, up : BOOLEAN]
           /\ Len(clients) \in Nat /\ Len(peerPorts) \in Nat
           /\ \A c \in Caller : call[c] \in [pc : {"idle", "build", "wait", "register"},
                                             label : Nat, index : Nat, port : Nat, proc : Nat]
<1>1. Len(nodes) \in Nat /\ DOMAIN nodes = 1..Len(nodes)
      /\ \A i \in 1..Len(nodes) : nodes[i] \in [label : Nat, port : Nat, proc : Nat]
  BY LenProperties, ElementOfSeq DEF Types
<1>2. Len(procs) \in Nat /\ DOMAIN procs = 1..Len(procs)
      /\ \A p \in 1..Len(procs) : procs[p] \in [port : Nat, up : BOOLEAN]
  BY LenProperties, ElementOfSeq DEF Types
<1>3. Len(clients) \in Nat /\ Len(peerPorts) \in Nat
  BY LenProperties DEF Types
<1> QED BY <1>1, <1>2, <1>3 DEF Types

\* Nodes with different indices and different processes have different ports.
LEMMA PortsDiffer ==
    ASSUME NEW a \in Nat, NEW b \in Nat, NEW p \in Nat \ {0}, NEW q \in Nat \ {0},
           PortOf(a, p) = PortOf(b, q)
    PROVE  a = b \/ p = q
  BY LabelAssumption DEF PortOf, DescriptorPort, FreshPort

\* The inductive invariant holds at the start.
LEMMA InvInit == Init => IInv
<1> SUFFICES ASSUME Init PROVE IInv
  OBVIOUS
<1>1. seedCount \in Nat
  BY LabelAssumption DEF Init
<1>2. SeedPorts \in Seq(Nat) /\ Len(SeedPorts) = seedCount
      /\ \A i \in 1..seedCount : SeedPorts[i] = DescriptorPort(i - 1)
  BY <1>1 DEF SeedPorts, DescriptorPort
<1>3. Types
  BY <1>1, <1>2 DEF Init, Types, Idle, SeedClients
<1>4. /\ Len(nodes) = 0 /\ Len(procs) = 0 /\ DOMAIN procs = {} /\ DOMAIN clientsByName = {}
      /\ \A c \in Caller : call[c].pc = "idle" /\ call[c].proc = 0
  BY DEF Init, Idle
<1>5. StateInv
  BY <1>1, <1>2, <1>4 DEF Init, StateInv
<1>6. ProcsInv
  BY <1>4 DEF ProcsInv, Waiting
<1>7. LeaksAreFailedStarts
  BY <1>4 DEF LeaksAreFailedStarts, Leaked
<1>8. AloneInv /\ NodesInv /\ UpInv
  BY <1>4 DEF AloneInv, NodesInv, UpInv, Active, Waiting
<1>9. ClientsInv
  BY <1>1, <1>2, <1>4 DEF Init, ClientsInv, ClientsMatch, SeedClients
<1> QED BY <1>3, <1>5, <1>6, <1>7, <1>8, <1>9 DEF IInv

\* The first critical section, for a caller without a process.
LEMMA StartNodeStep ==
    ASSUME IInv, NEW c \in Caller, NEW name \in Name, StartNode(c, name) PROVE IInv'
<1> DEFINE label == Label(name, nodeCount)
           begun == [Idle EXCEPT !.pc = "build", !.index = nodeCount, !.label = label]
<1> USE DEF stateVars
<1>1. /\ UNCHANGED <<seedCount, nodeCount, peerPorts, portsByName, clientsByName, nodes, clients,
                     procs, dropped, abandoned>>
      /\ call[c].pc = "idle" /\ label \notin DOMAIN portsByName
      /\ overlapped' = (overlapped \/ \E d \in Caller : call[d].pc # "idle")
  BY DEF StartNode, Enters
<1>2. label \in Nat
  BY LabelAssumption DEF IInv, Types, Label
<1>3. call' = [call EXCEPT ![c] = begun]
  BY DEF StartNode
<1> HIDE DEF label
<1>b. /\ begun.pc = "build" /\ begun.label = label /\ begun.index = nodeCount /\ begun.proc = 0
      /\ begun \in [pc : {"idle", "build", "wait", "register"},
                    label : Nat, index : Nat, port : Nat, proc : Nat]
  BY <1>2 DEF Idle, IInv, Types
<1> HIDE DEF begun
<1>4. \A d \in Caller : call'[d] = IF d = c THEN begun ELSE call[d]
  BY <1>3 DEF IInv, Types
<1>5. \A d \in Caller : (Waiting(d)' <=> Waiting(d)) /\ call'[d].proc = call[d].proc
  <2>1. ~Waiting(c) /\ call[c].proc = 0
    BY <1>1 DEF Waiting, IInv, ProcsInv
  <2> QED BY <1>b, <1>4, <2>1 DEF Waiting
<1>6. Types'
  BY <1>1, <1>b, <1>3 DEF IInv, Types
<1>7. StateInv'
  BY <1>1 DEF IInv, StateInv
<1>8. ProcsInv'
  <2>1. \A d \in Caller : Waiting(d) => call'[d] = call[d]
    BY <1>1, <1>4 DEF Waiting
  <2> QED BY <1>1, <1>5, <2>1 DEF IInv, ProcsInv
<1>9. Leaked' = Leaked /\ LeaksAreFailedStarts'
  BY <1>1, <1>5 DEF IInv, LeaksAreFailedStarts, Leaked, Registered
<1>10. ASSUME ~overlapped' PROVE (AloneInv /\ NodesInv /\ ClientsInv /\ UpInv)'
  <2>1. ~overlapped /\ \A d \in Caller : call[d].pc = "idle"
    BY <1>1, <1>10
  <2>2. AloneInv'
    BY <1>1, <1>b, <1>4, <2>1 DEF AloneInv, Active, Waiting
  <2>3. NodesInv'
    BY <1>1, <2>1 DEF IInv, NodesInv, PortOf
  <2>4. ClientsInv'
    BY <1>1, <1>b, <1>4, <2>1 DEF IInv, ClientsInv, ClientsMatch
  <2>5. UpInv'
    BY <1>1, <1>4, <1>5, <1>9, <2>1 DEF IInv, UpInv, Waiting
  <2> QED BY <2>2, <2>3, <2>4, <2>5
<1> QED BY <1>6, <1>7, <1>8, <1>9, <1>10 DEF IInv

\* An error before any process runs.
LEMMA BuildFailsStep == ASSUME IInv, NEW c \in Caller, BuildFails(c) PROVE IInv'
<1> USE DEF stateVars, history
<1>1. /\ UNCHANGED <<seedCount, nodeCount, peerPorts, portsByName, clientsByName, nodes, clients,
                     procs, dropped, abandoned, overlapped>>
      /\ call[c].pc = "build" /\ call' = [call EXCEPT ![c] = Idle]
  BY DEF BuildFails
<1>2. \A d \in Caller : call'[d] = IF d = c THEN Idle ELSE call[d]
  BY <1>1 DEF IInv, Types
<1>3. \A d \in Caller : (Waiting(d)' <=> Waiting(d)) /\ call'[d].proc = call[d].proc
  BY <1>1, <1>2 DEF Waiting, IInv, ProcsInv, Idle
<1>4. Types'
  BY <1>1 DEF IInv, Types, Idle
<1>5. StateInv'
  BY <1>1 DEF IInv, StateInv
<1>6. ProcsInv'
  BY <1>1, <1>2, <1>3 DEF IInv, ProcsInv, Waiting
<1>7. Leaked' = Leaked /\ LeaksAreFailedStarts'
  BY <1>1, <1>3 DEF IInv, LeaksAreFailedStarts, Leaked, Registered
<1>8. ASSUME ~overlapped' PROVE (AloneInv /\ NodesInv /\ ClientsInv /\ UpInv)'
  <2>1. AloneInv /\ NodesInv /\ ClientsInv /\ UpInv
    BY <1>1, <1>8 DEF IInv
  <2>2. AloneInv'
    BY <1>1, <1>2, <2>1 DEF AloneInv, Active, Waiting, Idle, PortOf
  <2>3. NodesInv'
    BY <1>1, <2>1 DEF NodesInv, PortOf
  <2>4. ClientsInv'
    BY <1>1, <1>2, <2>1 DEF ClientsInv, ClientsMatch, Idle
  <2>5. UpInv'
    BY <1>1, <1>2, <1>3, <1>7, <2>1 DEF UpInv, Waiting, Idle
  <2> QED BY <2>2, <2>3, <2>4, <2>5
<1> QED BY <1>4, <1>5, <1>6, <1>7, <1>8 DEF IInv

\* A process is spawned.  If its port is taken it stops again; as long as the
\* calls do not overlap, only a process that leaked can have the port.
LEMMA SpawnProcessStep == ASSUME IInv, NEW c \in Caller, SpawnProcess(c) PROVE IInv'
<1> DEFINE new == Len(procs) + 1
           port == PortOf(call[c].index, new)
           process == [port |-> port, up |-> Listening(port) = {}]
<1> USE DEF stateVars, history
<1>1. /\ UNCHANGED <<seedCount, nodeCount, peerPorts, portsByName, clientsByName, nodes, clients,
                     dropped, abandoned, overlapped>>
      /\ call[c].pc = "build"
      /\ procs' = Append(procs, process)
      /\ call' = [call EXCEPT ![c].pc = "wait", ![c].port = port, ![c].proc = new]
  BY DEF SpawnProcess, PortOf
<1>2. /\ Len(nodes) \in Nat /\ Len(procs) \in Nat /\ DOMAIN procs = 1..Len(procs)
      /\ \A i \in 1..Len(nodes) : nodes[i] \in [label : Nat, port : Nat, proc : Nat]
      /\ \A p \in 1..Len(procs) : procs[p] \in [port : Nat, up : BOOLEAN]
      /\ call[c] \in [pc : {"idle", "build", "wait", "register"},
                      label : Nat, index : Nat, port : Nat, proc : Nat]
  BY Elements DEF IInv
<1>3. port \in Nat /\ process \in [port : Nat, up : BOOLEAN]
  BY <1>2, LabelAssumption DEF PortOf, DescriptorPort, FreshPort
<1> HIDE DEF port, process
<1>4. /\ procs' \in Seq([port : Nat, up : BOOLEAN]) /\ Len(procs') = new
      /\ \A p \in 1..Len(procs) : procs'[p] = procs[p]
      /\ procs'[new] = process
  BY <1>1, <1>3, AppendProperties DEF IInv, Types
<1>5. /\ call'[c].pc = "wait" /\ call'[c].label = call[c].label
      /\ call'[c].port = port /\ call'[c].proc = new
      /\ call'[c] \in [pc : {"idle", "build", "wait", "register"},
                       label : Nat, index : Nat, port : Nat, proc : Nat]
      /\ \A d \in Caller : d # c => call'[d] = call[d]
  <2>1. /\ call'[c] = [pc |-> "wait", label |-> call[c].label, index |-> call[c].index,
                       port |-> port, proc |-> new]
        /\ \A d \in Caller : d # c => call'[d] = call[d]
    BY <1>1, <1>2 DEF IInv, Types
  <2>2. new \in Nat /\ call[c].label \in Nat /\ call[c].index \in Nat
    BY <1>2
  <2> HIDE DEF new
  <2> QED BY <2>1, <2>2, <1>3
<1>6. Types'
  <2>1. call' \in [Caller -> [pc : {"idle", "build", "wait", "register"},
                              label : Nat, index : Nat, port : Nat, proc : Nat]]
    BY <1>1, <1>2, <1>5 DEF IInv, Types
  <2> QED BY <1>1, <1>4, <2>1 DEF IInv, Types
<1>7. StateInv'
  BY <1>1 DEF IInv, StateInv
<1>8. ProcsInv'
  <2>1. process.port = port
    BY DEF process
  <2>2. \A i \in 1..Len(nodes) : nodes[i].proc \in 1..Len(procs)
    BY DEF IInv, ProcsInv
  <2>3. \A d \in Caller : d # c /\ Waiting(d) => call[d].proc \in 1..Len(procs)
    BY DEF IInv, ProcsInv
  <2>4. \A d \in Caller : d # c => (Waiting(d)' <=> Waiting(d))
    BY <1>5 DEF Waiting
  <2>5. Waiting(c)' /\ call'[c].proc = new /\ call'[c].port = port
    BY <1>5 DEF Waiting
  <2>6. \A i \in 1..Len(nodes) : /\ nodes[i].proc \in 1..Len(procs')
                                 /\ procs'[nodes[i].proc].port = nodes[i].port
    BY <1>2, <1>4, <2>2, SMTT(30) DEF IInv, ProcsInv
  <2>7. \A d \in Caller : ~Waiting(d)' => call'[d].proc = 0
    BY <1>5, <2>4, <2>5 DEF IInv, ProcsInv
  <2>8. \A d \in Caller : Waiting(d)' =>
            /\ call'[d].proc \in 1..Len(procs')
            /\ procs'[call'[d].proc].port = call'[d].port
            /\ \A i \in 1..Len(nodes) : nodes[i].proc # call'[d].proc
    <3> SUFFICES ASSUME NEW d \in Caller, Waiting(d)'
                 PROVE  /\ call'[d].proc \in 1..Len(procs')
                        /\ procs'[call'[d].proc].port = call'[d].port
                        /\ \A i \in 1..Len(nodes) : nodes[i].proc # call'[d].proc
      OBVIOUS
    <3>1. CASE d = c
      BY <1>2, <1>4, <2>1, <2>2, <2>5, <3>1, SMTT(30)
    <3>2. CASE d # c
      <4>1. /\ call'[d] = call[d] /\ call[d].proc \in 1..Len(procs)
            /\ procs[call[d].proc].port = call[d].port
            /\ \A i \in 1..Len(nodes) : nodes[i].proc # call[d].proc
        BY <3>2, <1>5, <2>4 DEF IInv, ProcsInv
      <4> QED BY <4>1, <1>2, <1>4, SMTT(30)
    <3> QED BY <3>1, <3>2
  <2>9. \A d, e \in Caller : Waiting(d)' /\ Waiting(e)' /\ call'[d].proc = call'[e].proc => d = e
    <3>1. \A d \in Caller : d # c /\ Waiting(d)' => call'[d].proc # new
      BY <1>2, <1>5, <2>3, <2>4
    <3>2. \A d, e \in Caller : d # c /\ e # c /\ Waiting(d)' /\ Waiting(e)'
                                 /\ call'[d].proc = call'[e].proc => d = e
      BY <1>5, <2>4 DEF IInv, ProcsInv
    <3> QED BY <2>5, <3>1, <3>2
  <2> QED BY <1>1, <2>6, <2>7, <2>8, <2>9 DEF IInv, ProcsInv
<1>9. Leaked \subseteq Leaked'
  <2>1. DOMAIN procs' = 1..new
    BY <1>4, LenProperties
  <2>2. \A p \in 1..Len(procs) : p \in DOMAIN procs' /\ p # new /\ procs'[p] = procs[p]
    BY <1>2, <1>4, <2>1
  <2>3. Registered' = Registered
    BY <1>1 DEF Registered
  <2>4. \A p \in 1..Len(procs), d \in Caller : call[d].proc # p => call'[d].proc # p
    BY <1>5, <2>2
  <2> QED BY <1>2, <2>2, <2>3, <2>4 DEF Leaked
<1>10. LeaksAreFailedStarts'
  <2> SUFFICES ASSUME NEW p \in Leaked' PROVE p \in abandoned
    BY <1>1 DEF LeaksAreFailedStarts
  <2>1. p \in 1..new /\ procs'[p].up /\ p \notin Registered /\ \A d \in Caller : call'[d].proc # p
    <3>1. DOMAIN procs' = 1..new /\ Registered' = Registered
      BY <1>1, <1>4, LenProperties DEF Registered
    <3> QED BY <3>1 DEF Leaked
  <2>2. p \in 1..Len(procs)
    <3>1. p # new
      BY <1>5, <2>1
    <3> QED BY <1>2, <2>1, <3>1
  <2>3. call[c].proc = 0
    BY <1>1 DEF IInv, ProcsInv, Waiting
  <2>4. \A d \in Caller : call[d].proc # p
    BY <1>5, <2>1, <2>2, <2>3
  <2>5. p \in Leaked
    BY <1>2, <1>4, <2>1, <2>2, <2>4 DEF Leaked
  <2> QED BY <2>5 DEF IInv, LeaksAreFailedStarts
<1>11. ASSUME ~overlapped' PROVE (AloneInv /\ NodesInv /\ ClientsInv /\ UpInv)'
  <2>1. AloneInv /\ NodesInv /\ ClientsInv /\ UpInv
    BY <1>1, <1>11 DEF IInv
  <2>2. port = PortOf(nodeCount, new)
    BY <1>1, <2>1 DEF AloneInv, port
  <2>3. AloneInv'
    <3>1. \A d \in Caller : /\ Active(d)' <=> Active(d)
                            /\ call'[d].label = call[d].label
                            /\ call'[d].pc = "build" => call[d].pc = "build" /\ call'[d] = call[d]
      BY <1>1, <1>5 DEF Active
    <3>2. \A d \in Caller : Waiting(d)' => /\ d = c
                                           /\ call'[d].port = PortOf(nodeCount, call'[d].proc)
      BY <1>1, <1>5, <2>1, <2>2 DEF AloneInv, Waiting, Active
    <3> QED BY <1>1, <2>1, <3>1, <3>2 DEF AloneInv
  <2>4. NodesInv'
    BY <1>1, <2>1 DEF NodesInv, PortOf
  <2>5. ClientsInv'
    <3>1. \A d \in Caller : call[d].pc # "register" /\ call'[d].pc # "register"
      BY <1>1, <1>5, <2>1 DEF AloneInv, Active
    <3> QED BY <1>1, <2>1, <3>1 DEF ClientsInv, ClientsMatch
  <2>6. \A d \in Caller : d # c => ~Waiting(d) /\ call[d].proc = 0
    BY <1>1, <2>1 DEF AloneInv, Active, Waiting, IInv, ProcsInv
  <2>7. ~process.up => Leaked # {}
    <3> SUFFICES ASSUME ~process.up PROVE Leaked # {}
      OBVIOUS
    <3>1. PICK p \in 1..Len(procs) : procs[p].up /\ procs[p].port = port
      BY <1>2 DEF process, Listening
    <3>2. \A d \in Caller : call[d].proc = 0
      BY <1>1, <2>6 DEF IInv, ProcsInv, Waiting
    <3>3. ASSUME NEW i \in 1..Len(nodes), nodes[i].proc = p PROVE FALSE
      <4>1. nodes[i].port = port /\ nodes[i].port = PortOf(seedCount + i - 1, nodes[i].proc)
        BY <3>1, <3>3, <2>1 DEF IInv, ProcsInv, NodesInv
      <4>2. nodeCount = seedCount + Len(nodes) /\ nodes[i].proc \in 1..Len(procs)
        BY DEF IInv, StateInv, ProcsInv
      <4>3. /\ nodeCount \in Nat /\ seedCount + i - 1 \in Nat /\ seedCount + i - 1 # nodeCount
            /\ new \in Nat \ {0} /\ nodes[i].proc \in Nat \ {0} /\ nodes[i].proc # new
        <5>1. seedCount \in Nat /\ nodeCount \in Nat
          BY DEF IInv, Types
        <5>2. Len(nodes) \in Nat /\ Len(procs) \in Nat
          BY <1>2
        <5>3. seedCount + i - 1 \in Nat /\ seedCount + i - 1 # nodeCount
          BY <4>2, <5>1, <5>2
        <5>4. new \in Nat \ {0} /\ nodes[i].proc \in Nat \ {0} /\ nodes[i].proc # new
          BY <4>2, <5>2
        <5> QED BY <5>1, <5>3, <5>4
      <4> HIDE DEF new
      <4> QED BY <2>2, <4>1, <4>3, PortsDiffer
    <3>4. p \notin Registered
      BY <1>2, <3>3, Elements DEF Registered, IInv
    <3> QED BY <1>2, <3>1, <3>2, <3>4 DEF Leaked
  <2>8. UpInv'
    <3> SUFFICES ASSUME Leaked' = {}
                 PROVE  /\ \A i \in 1..Len(nodes') : procs'[nodes'[i].proc].up
                        /\ \A d \in Caller : Waiting(d)' => procs'[call'[d].proc].up
      BY DEF UpInv
    <3>1. Leaked = {} /\ process.up
      BY <1>9, <2>7
    <3>2. \A i \in 1..Len(nodes) : procs'[nodes[i].proc].up
      BY <1>4, <2>1, <3>1 DEF UpInv, IInv, ProcsInv
    <3>3. \A d \in Caller : Waiting(d)' => d = c
      BY <1>5, <2>6 DEF Waiting
    <3>4. call'[c].proc = new
      BY <1>5
    <3>5. \A d \in Caller : Waiting(d)' => procs'[call'[d].proc].up
      BY <1>4, <3>1, <3>3, <3>4
    <3> QED BY <1>1, <3>2, <3>5
  <2> QED BY <2>3, <2>4, <2>5, <2>8
<1> QED BY <1>6, <1>7, <1>8, <1>10, <1>11 DEF IInv

\* The node answers, and its client is added.
LEMMA BecomesReadyStep == ASSUME IInv, NEW c \in Caller, BecomesReady(c) PROVE IInv'
<1> USE DEF stateVars, history
<1>1. /\ UNCHANGED <<seedCount, nodeCount, peerPorts, portsByName, clientsByName, nodes, procs,
                     dropped, abandoned, overlapped>>
      /\ call[c].pc = "wait"
      /\ clients' = Append(clients, call[c].port)
      /\ call' = [call EXCEPT ![c].pc = "register"]
  BY DEF BecomesReady
<1>2. /\ Len(nodes) \in Nat /\ Len(clients) \in Nat
      /\ call[c] \in [pc : {"idle", "build", "wait", "register"},
                      label : Nat, index : Nat, port : Nat, proc : Nat]
  BY Elements DEF IInv
<1>3. /\ clients' \in Seq(Nat) /\ Len(clients') = Len(clients) + 1
      /\ \A i \in 1..Len(clients) : clients'[i] = clients[i]
      /\ clients'[Len(clients) + 1] = call[c].port
  BY <1>1, <1>2, AppendProperties DEF IInv, Types
<1>4. /\ call'[c].pc = "register" /\ call'[c].label = call[c].label
      /\ call'[c].port = call[c].port /\ call'[c].proc = call[c].proc
      /\ \A d \in Caller : d # c => call'[d] = call[d]
  BY <1>1, <1>2 DEF IInv, Types
<1>5. \A d \in Caller : /\ Waiting(d)' <=> Waiting(d)
                        /\ call'[d].proc = call[d].proc /\ call'[d].port = call[d].port
  BY <1>1, <1>4 DEF Waiting
<1>6. Types'
  <2>1. call' \in [Caller -> [pc : {"idle", "build", "wait", "register"},
                              label : Nat, index : Nat, port : Nat, proc : Nat]]
    BY <1>1 DEF IInv, Types
  <2> QED BY <1>1, <1>3, <2>1 DEF IInv, Types
<1>7. StateInv'
  BY <1>1 DEF IInv, StateInv
<1>8. ProcsInv'
  BY <1>1, <1>5 DEF IInv, ProcsInv
<1>9. Leaked' = Leaked /\ LeaksAreFailedStarts'
  BY <1>1, <1>5 DEF IInv, LeaksAreFailedStarts, Leaked, Registered
<1>10. ASSUME ~overlapped' PROVE (AloneInv /\ NodesInv /\ ClientsInv /\ UpInv)'
  <2>1. AloneInv /\ NodesInv /\ ClientsInv /\ UpInv
    BY <1>1, <1>10 DEF IInv
  <2>2. \A d \in Caller : /\ Active(d)' <=> Active(d)
                          /\ call'[d].label = call[d].label
                          /\ call'[d].pc = "build" => call[d].pc = "build" /\ call'[d] = call[d]
    BY <1>1, <1>4 DEF Active
  <2>3. AloneInv'
    BY <1>1, <1>5, <2>1, <2>2 DEF AloneInv
  <2>4. NodesInv'
    BY <1>1, <2>1 DEF NodesInv
  <2>5. ClientsInv'
    <3>1. \A d \in Caller : call[d].pc # "register" /\ (call'[d].pc = "register" => d = c)
      BY <1>1, <1>4, <2>1 DEF AloneInv, Active
    <3>2. ClientsMatch(Len(clients))
      BY <2>1, <3>1 DEF ClientsInv
    <3>3. Len(clients') - 1 = Len(clients)
      BY <1>2, <1>3
    <3>4. \A i \in 1..Len(nodes) : clients'[Len(clients) - Len(nodes) + i] = nodes[i].port
      <4> SUFFICES ASSUME NEW i \in 1..Len(nodes)
                   PROVE  clients'[Len(clients) - Len(nodes) + i] = nodes[i].port
        OBVIOUS
      <4>1. Len(clients) - Len(nodes) + i \in 1..Len(clients)
        BY <1>2, <3>2 DEF ClientsMatch, IInv, Types
      <4> QED BY <4>1, <1>3, <3>2 DEF ClientsMatch
    <3>5. ClientsMatch(Len(clients) - 1)'
      BY <1>1, <3>2, <3>3, <3>4 DEF ClientsMatch
    <3>6. Len(clients') > 0 /\ clients'[Len(clients')] = call'[c].port
      BY <1>2, <1>3, <1>4
    <3> QED BY <1>4, <3>1, <3>5, <3>6 DEF ClientsInv
  <2>6. UpInv'
    BY <1>1, <1>5, <1>9, <2>1 DEF UpInv
  <2> QED BY <2>3, <2>4, <2>5, <2>6
<1> QED BY <1>6, <1>7, <1>8, <1>9, <1>10 DEF IInv

\* The wait fails: the process becomes one that nobody will stop.
LEMMA WaitFailsStep == ASSUME IInv, NEW c \in Caller, WaitFails(c) PROVE IInv'
<1> USE DEF stateVars
<1>1. /\ UNCHANGED <<seedCount, nodeCount, peerPorts, portsByName, clientsByName, nodes, clients,
                     procs, dropped, overlapped>>
      /\ call[c].pc = "wait" /\ call' = [call EXCEPT ![c] = Idle]
      /\ abandoned' = abandoned \cup {call[c].proc}
  BY DEF WaitFails
<1>2. /\ call'[c].pc = "idle" /\ call'[c].proc = 0
      /\ \A d \in Caller : d # c => call'[d] = call[d]
  BY <1>1 DEF IInv, Types, Idle
<1>3. /\ ~Waiting(c)'
      /\ \A d \in Caller : d # c => (Waiting(d)' <=> Waiting(d))
  BY <1>2 DEF Waiting
<1>4. Types'
  BY <1>1 DEF IInv, Types, Idle
<1>5. StateInv'
  BY <1>1 DEF IInv, StateInv
<1>6. ProcsInv'
  BY <1>1, <1>2, <1>3 DEF IInv, ProcsInv
<1>7. DOMAIN procs = 1..Len(procs)
  BY Elements DEF IInv
<1>8. Leaked \subseteq Leaked' /\ Leaked' \subseteq Leaked \cup {call[c].proc}
  BY <1>1, <1>2, <1>7 DEF Leaked, Registered
<1>9. LeaksAreFailedStarts'
  BY <1>1, <1>8 DEF IInv, LeaksAreFailedStarts
<1>10. ASSUME ~overlapped' PROVE (AloneInv /\ NodesInv /\ ClientsInv /\ UpInv)'
  <2>1. AloneInv /\ NodesInv /\ ClientsInv /\ UpInv
    BY <1>1, <1>10 DEF IInv
  <2>2. AloneInv'
    BY <1>1, <1>2, <1>3, <2>1 DEF AloneInv, Active
  <2>3. NodesInv'
    BY <1>1, <2>1 DEF NodesInv
  <2>4. ClientsInv'
    <3>1. \A d \in Caller : call[d].pc # "register" /\ call'[d].pc # "register"
      BY <1>1, <1>2, <2>1 DEF AloneInv, Active
    <3> QED BY <1>1, <2>1, <3>1 DEF ClientsInv, ClientsMatch
  <2>5. UpInv'
    BY <1>1, <1>2, <1>3, <1>8, <2>1 DEF UpInv
  <2> QED BY <2>2, <2>3, <2>4, <2>5
<1> QED BY <1>4, <1>5, <1>6, <1>9, <1>10 DEF IInv

\* stop_all, when the callers' processes stay what they are.
LEMMA StopAllStep ==
    ASSUME IInv, StopAll, UNCHANGED <<seedCount, call, abandoned>>,
           ~overlapped' => ~overlapped /\ \A c \in Caller : call[c].pc = "idle"
    PROVE  IInv'
<1>1. /\ Len(procs) \in Nat /\ DOMAIN procs = 1..Len(procs) /\ DOMAIN nodes = 1..Len(nodes)
      /\ \A p \in 1..Len(procs) : procs[p] \in [port : Nat, up : BOOLEAN]
  BY Elements DEF IInv
<1>2. /\ SeedPorts \in Seq(Nat) /\ Len(SeedPorts) = seedCount
      /\ \A i \in 1..seedCount : SeedPorts[i] = DescriptorPort(i - 1)
  BY DEF SeedPorts, DescriptorPort, IInv, Types
<1>3. /\ nodes' = <<>> /\ Len(nodes') = 0 /\ peerPorts' = SeedPorts /\ clients' = <<>>
      /\ Len(clients') = 0 /\ nodeCount' = seedCount
      /\ clientsByName' = <<>> /\ DOMAIN clientsByName' = {}
  BY DEF StopAll
<1>4. /\ procs' \in Seq([port : Nat, up : BOOLEAN]) /\ Len(procs') = Len(procs)
      /\ DOMAIN procs' = DOMAIN procs
      /\ \A p \in 1..Len(procs) : /\ procs'[p].port = procs[p].port
                                  /\ procs'[p].up <=> procs[p].up /\ p \notin Registered
  <2>1. procs' = [p \in 1..Len(procs) |-> [procs[p] EXCEPT !.up = @ /\ p \notin Registered]]
    BY <1>1 DEF StopAll
  <2>2. \A p \in 1..Len(procs) :
            [procs[p] EXCEPT !.up = @ /\ p \notin Registered] \in [port : Nat, up : BOOLEAN]
    BY <1>1
  <2>3. procs' \in [1..Len(procs) -> [port : Nat, up : BOOLEAN]]
    BY <2>1, <2>2
  <2>4. procs' \in Seq([port : Nat, up : BOOLEAN]) /\ Len(procs') = Len(procs)
    BY <1>1, <2>3, FunctionIsSeq, ZenonT(30)
  <2>5. \A p \in 1..Len(procs) : /\ procs'[p].port = procs[p].port
                                 /\ procs'[p].up <=> procs[p].up /\ p \notin Registered
    BY <1>1, <2>1
  <2> QED BY <1>1, <2>1, <2>4, <2>5
<1>5. Types'
  BY <1>2, <1>3, <1>4 DEF IInv, Types
<1>6. StateInv'
  BY <1>2, <1>3 DEF IInv, Types, StateInv
<1>7. ProcsInv'
  <2>1. \A c \in Caller : Waiting(c)' <=> Waiting(c)
    BY DEF Waiting
  <2> QED BY <1>3, <1>4, <2>1 DEF IInv, ProcsInv
<1>8. Leaked' = Leaked
  <2>1. Registered' = {}
    BY <1>3 DEF Registered
  <2> QED BY <1>1, <1>4, <2>1 DEF Leaked
<1>9. LeaksAreFailedStarts'
  BY <1>8 DEF IInv, LeaksAreFailedStarts
<1>10. ASSUME ~overlapped' PROVE (AloneInv /\ NodesInv /\ ClientsInv /\ UpInv)'
  <2>1. \A c \in Caller : call'[c].pc = "idle"
    BY <1>10
  <2> QED BY <1>3, <2>1 DEF AloneInv, NodesInv, ClientsInv, ClientsMatch, UpInv, Active, Waiting
<1> QED BY <1>5, <1>6, <1>7, <1>9, <1>10 DEF IInv

\* The second critical section.  A call that was alone registers a label that
\* is free, the port of its index, and a client that is the last one.
LEMMA RegisterStep == ASSUME IInv, NEW c \in Caller, Register(c) PROVE IInv'
<1> DEFINE entry == [label |-> call[c].label, port |-> call[c].port, proc |-> call[c].proc]
           k == Len(nodes) + 1
<1> USE DEF stateVars, history
<1>1. /\ UNCHANGED <<seedCount, clients, procs, dropped, abandoned, overlapped>>
      /\ call[c].pc = "register" /\ call' = [call EXCEPT ![c] = Idle]
      /\ peerPorts' = Append(peerPorts, call[c].port)
      /\ portsByName' = Put(portsByName, call[c].label, call[c].port)
      /\ clientsByName' = Put(clientsByName, call[c].label, call[c].port)
      /\ nodeCount' = nodeCount + 1
      /\ nodes' = Append(nodes, entry)
  BY DEF Register
<1>2. /\ Len(nodes) \in Nat /\ Len(procs) \in Nat /\ Len(peerPorts) \in Nat
      /\ Len(clients) \in Nat /\ seedCount \in Nat /\ nodeCount \in Nat
      /\ DOMAIN procs = 1..Len(procs)
      /\ call[c] \in [pc : {"idle", "build", "wait", "register"},
                      label : Nat, index : Nat, port : Nat, proc : Nat]
  BY Elements DEF IInv, Types
<1>3. /\ entry \in [label : Nat, port : Nat, proc : Nat]
      /\ entry.label = call[c].label /\ entry.port = call[c].port /\ entry.proc = call[c].proc
  BY <1>2
<1> HIDE DEF entry
<1>4. /\ nodes' \in Seq([label : Nat, port : Nat, proc : Nat]) /\ Len(nodes') = k
      /\ \A i \in 1..Len(nodes) : nodes'[i] = nodes[i]
      /\ nodes'[k] = entry
  BY <1>1, <1>3, AppendProperties DEF IInv, Types
<1>5. /\ peerPorts' \in Seq(Nat) /\ Len(peerPorts') = Len(peerPorts) + 1
      /\ \A i \in 1..Len(peerPorts) : peerPorts'[i] = peerPorts[i]
      /\ peerPorts'[Len(peerPorts) + 1] = call[c].port
  BY <1>1, <1>2, AppendProperties DEF IInv, Types
<1>6. /\ call'[c].pc = "idle" /\ call'[c].proc = 0
      /\ \A d \in Caller : d # c => call'[d] = call[d]
  BY <1>1 DEF IInv, Types, Idle
<1>7. /\ ~Waiting(c)' /\ Waiting(c)
      /\ \A d \in Caller : d # c => (Waiting(d)' <=> Waiting(d))
  BY <1>1, <1>6 DEF Waiting
<1>8. /\ DOMAIN portsByName' = DOMAIN portsByName \cup {call[c].label}
      /\ DOMAIN clientsByName' = DOMAIN clientsByName \cup {call[c].label}
      /\ clientsByName'[call[c].label] = call[c].port
      /\ \A l \in DOMAIN clientsByName : l # call[c].label => clientsByName'[l] = clientsByName[l]
  BY <1>1 DEF Put
<1>9. \A i \in 1..k : i \in 1..Len(nodes) \/ i = k
  BY <1>2
<1>10. Types'
  <2>1. call' \in [Caller -> [pc : {"idle", "build", "wait", "register"},
                              label : Nat, index : Nat, port : Nat, proc : Nat]]
    BY <1>1 DEF IInv, Types, Idle
  <2> QED BY <1>1, <1>2, <1>4, <1>5, <2>1 DEF IInv, Types
<1>11. StateInv'
  <2>1. nodeCount' = seedCount' + Len(nodes') /\ Len(peerPorts') = seedCount' + Len(nodes')
    BY <1>1, <1>2, <1>4, <1>5 DEF IInv, StateInv
  <2>2. \A i \in 1..seedCount : peerPorts'[i] = DescriptorPort(i - 1)
    BY <1>2, <1>5 DEF IInv, StateInv
  <2>3. \A i \in 1..k : peerPorts'[seedCount + i] = nodes'[i].port
    <3>1. \A i \in 1..Len(nodes) : seedCount + i \in 1..Len(peerPorts)
      BY <1>2 DEF IInv, StateInv
    <3>2. \A i \in 1..Len(nodes) : peerPorts'[seedCount + i] = nodes'[i].port
      BY <1>4, <1>5, <3>1 DEF IInv, StateInv
    <3>3. seedCount + k = Len(peerPorts) + 1
      BY <1>2 DEF IInv, StateInv
    <3> QED BY <1>3, <1>4, <1>5, <1>9, <3>2, <3>3
  <2>4. \A i \in 1..k : nodes'[i].label \in DOMAIN clientsByName'
    BY <1>3, <1>4, <1>8, <1>9 DEF IInv, StateInv
  <2>5. DOMAIN clientsByName' \subseteq DOMAIN portsByName'
    BY <1>8 DEF IInv, StateInv
  <2> QED BY <1>1, <1>4, <2>1, <2>2, <2>3, <2>4, <2>5 DEF StateInv
<1>12. /\ call[c].proc \in 1..Len(procs) /\ procs[call[c].proc].port = call[c].port
       /\ \A i \in 1..Len(nodes) : nodes[i].proc # call[c].proc
       /\ \A d \in Caller : d # c /\ Waiting(d) => call[d].proc # call[c].proc
  BY <1>7 DEF IInv, ProcsInv
<1>13. ProcsInv'
  <2>1. \A i \in 1..k : /\ nodes'[i].proc \in 1..Len(procs)
                        /\ procs[nodes'[i].proc].port = nodes'[i].port
    BY <1>3, <1>4, <1>9, <1>12, ZenonT(30) DEF IInv, ProcsInv
  <2>2. \A i, j \in 1..k : nodes'[i].proc = nodes'[j].proc => i = j
    <3>1. \A i, j \in 1..Len(nodes) : nodes'[i].proc = nodes'[j].proc => i = j
      BY <1>4 DEF IInv, ProcsInv
    <3>2. \A i \in 1..Len(nodes) : nodes'[i].proc # nodes'[k].proc
      BY <1>3, <1>4, <1>12
    <3> QED BY <1>9, <3>1, <3>2
  <2>3. \A d \in Caller : ~Waiting(d)' => call'[d].proc = 0
    BY <1>6, <1>7 DEF IInv, ProcsInv
  <2>4. \A d \in Caller : Waiting(d)' =>
            /\ d # c /\ call'[d] = call[d] /\ Waiting(d)
            /\ call[d].proc \in 1..Len(procs) /\ procs[call[d].proc].port = call[d].port
            /\ \A i \in 1..Len(nodes) : nodes[i].proc # call[d].proc
    BY <1>6, <1>7 DEF IInv, ProcsInv
  <2>5. \A d \in Caller : Waiting(d)' => \A i \in 1..k : nodes'[i].proc # call[d].proc
    <3> SUFFICES ASSUME NEW d \in Caller, Waiting(d)', NEW i \in 1..k
                 PROVE  nodes'[i].proc # call[d].proc
      OBVIOUS
    <3>1. CASE i = k
      BY <1>3, <1>4, <1>12, <2>4, <3>1
    <3>2. CASE i \in 1..Len(nodes)
      BY <1>4, <2>4, <3>2
    <3> QED BY <1>9, <3>1, <3>2
  <2>6. \A d, e \in Caller : Waiting(d)' /\ Waiting(e)' /\ call'[d].proc = call'[e].proc => d = e
    BY <2>4 DEF IInv, ProcsInv
  <2>7. Len(nodes') = k /\ procs' = procs
    BY <1>1, <1>4
  <2> HIDE DEF k
  <2> QED BY <2>1, <2>2, <2>3, <2>4, <2>5, <2>6, <2>7 DEF ProcsInv
<1>14. Registered' = Registered \cup {call[c].proc}
  <2>1. DOMAIN nodes' = 1..k /\ DOMAIN nodes = 1..Len(nodes)
    BY <1>4, LenProperties, Elements DEF IInv
  <2>2. Registered' = {nodes'[i].proc : i \in 1..k} /\ Registered = {nodes[i].proc : i \in 1..Len(nodes)}
    BY <2>1 DEF Registered
  <2>3. k \in 1..k /\ \A i \in 1..Len(nodes) : i \in 1..k
    BY <1>2
  <2> QED BY <1>3, <1>4, <1>9, <2>2, <2>3
<1>15. Leaked' = Leaked
  <2>1. \A p \in 1..Len(procs) : p # 0
    BY <1>2
  <2>2. ASSUME NEW p \in 1..Len(procs)
        PROVE  (p \notin Registered' /\ \A d \in Caller : call'[d].proc # p)
                 <=> (p \notin Registered /\ \A d \in Caller : call[d].proc # p)
    <3>1. CASE p = call[c].proc
      BY <1>14, <3>1
    <3>2. CASE p # call[c].proc
      <4>1. \A d \in Caller : call'[d].proc # p <=> call[d].proc # p
        BY <1>6, <2>1, <3>2
      <4> QED BY <1>14, <3>2, <4>1
    <3> QED BY <3>1, <3>2
  <2>3. Leaked = {p \in 1..Len(procs) : procs[p].up /\ p \notin Registered
                                          /\ \A d \in Caller : call[d].proc # p}
    BY <1>2 DEF Leaked
  <2>4. Leaked' = {p \in 1..Len(procs) : procs[p].up /\ p \notin Registered'
                                           /\ \A d \in Caller : call'[d].proc # p}
    BY <1>1, <1>2 DEF Leaked
  <2> QED BY <2>2, <2>3, <2>4
<1>16. LeaksAreFailedStarts'
  BY <1>1, <1>15 DEF IInv, LeaksAreFailedStarts
<1>17. ASSUME ~overlapped' PROVE (AloneInv /\ NodesInv /\ ClientsInv /\ UpInv)'
  <2>1. AloneInv /\ NodesInv /\ ClientsInv /\ UpInv
    BY <1>1, <1>17 DEF IInv
  <2>2. \A d \in Caller : call'[d].pc = "idle"
    BY <1>1, <1>6, <2>1 DEF AloneInv, Active
  <2>3. AloneInv'
    BY <2>2 DEF AloneInv, Active, Waiting
  <2>4. call[c].label \notin DOMAIN portsByName /\ call[c].port = PortOf(nodeCount, call[c].proc)
    BY <1>1, <1>7, <2>1 DEF AloneInv, Active
  <2>5. \A i \in 1..Len(nodes) : nodes[i].label \in DOMAIN clientsByName /\ nodes[i].label # call[c].label
    BY <2>4 DEF IInv, StateInv
  <2>6. NodesInv'
    <3>1. \A i \in 1..k : nodes'[i].port = PortOf(seedCount + i - 1, nodes'[i].proc)
      <4>1. seedCount + k - 1 = nodeCount
        BY <1>2 DEF IInv, StateInv
      <4> QED BY <1>3, <1>4, <1>9, <2>1, <2>4, <4>1 DEF NodesInv
    <3>2. \A i \in 1..k : clientsByName'[nodes'[i].label] = nodes'[i].port
      <4>1. clientsByName'[nodes'[k].label] = nodes'[k].port
        BY <1>3, <1>4, <1>8
      <4>2. \A i \in 1..Len(nodes) : clientsByName'[nodes'[i].label] = nodes'[i].port
        <5> SUFFICES ASSUME NEW i \in 1..Len(nodes)
                     PROVE  clientsByName'[nodes'[i].label] = nodes'[i].port
          OBVIOUS
        <5>1. nodes'[i] = nodes[i] /\ clientsByName[nodes[i].label] = nodes[i].port
          BY <1>4, <2>1 DEF NodesInv
        <5>2. clientsByName'[nodes[i].label] = clientsByName[nodes[i].label]
          BY <1>8, <2>5
        <5> QED BY <5>1, <5>2
      <4> QED BY <1>9, <4>1, <4>2
    <3>3. \A i, j \in 1..k : nodes'[i].label = nodes'[j].label => i = j
      <4>1. \A i, j \in 1..Len(nodes) : nodes'[i].label = nodes'[j].label => i = j
        BY <1>4, <2>1 DEF NodesInv
      <4>2. \A i \in 1..Len(nodes) : nodes'[i].label # nodes'[k].label
        BY <1>3, <1>4, <2>5
      <4> QED BY <1>9, <4>1, <4>2
    <3> QED BY <1>1, <1>4, <3>1, <3>2, <3>3 DEF NodesInv
  <2>7. ClientsInv'
    <3>1. /\ ClientsMatch(Len(clients) - 1)
          /\ Len(clients) > 0 /\ clients[Len(clients)] = call[c].port
      BY <1>1, <2>1 DEF ClientsInv
    <3>2. Len(clients) \in {k, k + seedCount}
      BY <1>2, <3>1 DEF ClientsMatch
    <3>3. \A i \in 1..Len(nodes) : clients[Len(clients) - k + i] = nodes'[i].port
      <4>1. \A i \in 1..Len(nodes) : Len(clients) - k + i = Len(clients) - 1 - Len(nodes) + i
        BY <1>2
      <4> QED BY <1>4, <3>1, <4>1 DEF ClientsMatch
    <3>4. clients[Len(clients) - k + k] = nodes'[k].port
      <4>1. Len(clients) \in Nat /\ k \in Nat
        BY <1>2
      <4>2. Len(clients) - k + k = Len(clients)
        BY <4>1
      <4>3. nodes'[k].port = call[c].port
        BY <1>3, <1>4
      <4> QED BY <3>1, <4>2, <4>3
    <3>5. \A i \in 1..k : clients[Len(clients) - k + i] = nodes'[i].port
      BY <1>9, <3>3, <3>4
    <3> QED BY <1>1, <1>4, <2>2, <3>2, <3>5 DEF ClientsInv, ClientsMatch
  <2>8. UpInv'
    <3>1. Leaked' = {} => \A i \in 1..k : procs[nodes'[i].proc].up
      BY <1>3, <1>4, <1>7, <1>9, <1>15, <2>1 DEF UpInv
    <3> QED BY <1>1, <1>4, <2>2, <3>1 DEF UpInv, Waiting
  <2> QED BY <2>3, <2>6, <2>7, <2>8
<1> QED BY <1>10, <1>11, <1>13, <1>16, <1>17 DEF IInv

-----------------------------------------------------------------------------
\* Every step preserves the inductive invariant.
LEMMA InvStep == IInv /\ [Next]_vars => IInv'
<1> SUFFICES ASSUME IInv, [Next]_vars PROVE IInv'
  OBVIOUS
<1>1. ASSUME NEW c \in Caller, NEW name \in Name, StartNode(c, name) PROVE IInv'
  BY <1>1, StartNodeStep
<1>2. ASSUME NEW c \in Caller, StartStep(c) PROVE IInv'
  BY <1>2, SpawnProcessStep, BuildFailsStep, BecomesReadyStep, WaitFailsStep, RegisterStep
     DEF StartStep
<1>3. ASSUME NEW c \in Caller, CallStopAll(c) PROVE IInv'
  <2>1. /\ StopAll /\ UNCHANGED <<seedCount, call, abandoned>>
        /\ ~overlapped' => ~overlapped /\ \A d \in Caller : call[d].pc = "idle"
    BY <1>3 DEF CallStopAll, Enters
  <2> QED BY <2>1, StopAllStep
<1>4. CASE DropCluster
  <2>1. /\ StopAll /\ UNCHANGED <<seedCount, call, abandoned>>
        /\ ~overlapped' => ~overlapped /\ \A d \in Caller : call[d].pc = "idle"
    BY <1>4 DEF DropCluster, history
  <2> QED BY <2>1, StopAllStep
<1>5. CASE UNCHANGED vars
  <2> USE <1>5 DEF vars, stateVars, history
  <2>1. Types' /\ StateInv'
    BY DEF IInv, Types, StateInv
  <2>2. ProcsInv'
    BY DEF IInv, ProcsInv, Waiting
  <2>3. Leaked' = Leaked /\ LeaksAreFailedStarts'
    BY DEF IInv, LeaksAreFailedStarts, Leaked, Registered
  <2>4. ASSUME ~overlapped' PROVE (AloneInv /\ NodesInv /\ ClientsInv /\ UpInv)'
    BY <2>3, <2>4 DEF IInv, AloneInv, NodesInv, ClientsInv, ClientsMatch, UpInv, Active, Waiting
  <2> QED BY <2>1, <2>2, <2>3, <2>4 DEF IInv
<1> QED BY <1>1, <1>2, <1>3, <1>4, <1>5 DEF Next

\* The inductive invariant of the dynamic nodes: how the shared state, the
\* processes and the calls under way fit together, for any interleaving, and
\* more as long as no two calls overlapped.
THEOREM Invariant == Spec => []IInv
  BY InvInit, InvStep, PTL DEF Spec

-----------------------------------------------------------------------------
\* The shared state describes the registered nodes, for any number of callers
\* whose starts and stops interleave: the count, the ports after the seed's in
\* the order of the nodes, and a client by name for every node.
THEOREM StateDescribed == Spec => []StateDescribesNodes
<1>1. ASSUME IInv PROVE StateDescribesNodes
  <2> DEFINE ports == [i \in 1..Len(nodes) |-> nodes[i].port]
  <2>1. /\ Len(nodes) \in Nat /\ DOMAIN nodes = 1..Len(nodes) /\ seedCount \in Nat
        /\ \A i \in 1..Len(nodes) : nodes[i] \in [label : Nat, port : Nat, proc : Nat]
        /\ peerPorts \in Seq(Nat)
    BY <1>1, Elements DEF IInv, Types
  <2>2. ports \in Seq(Nat) /\ Len(ports) = Len(nodes)
    <3>1. ports \in [1..Len(nodes) -> Nat]
      BY <2>1
    <3> HIDE DEF ports
    <3> QED BY <2>1, <3>1, FunctionIsSeq
  <2>3. SeedPorts \in Seq(Nat) /\ Len(SeedPorts) = seedCount
    <3>1. SeedPorts \in [1..seedCount -> Nat]
      BY <2>1 DEF SeedPorts, DescriptorPort
    <3> QED BY <2>1, <3>1, FunctionIsSeq
  <2>4. peerPorts = SeedPorts \o ports
    <3>1. /\ SeedPorts \o ports \in Seq(Nat)
          /\ Len(SeedPorts \o ports) = seedCount + Len(nodes)
          /\ \A i \in 1..(seedCount + Len(nodes)) :
                (SeedPorts \o ports)[i] = IF i <= seedCount THEN SeedPorts[i]
                                                            ELSE ports[i - seedCount]
      <4> HIDE DEF ports
      <4>1. /\ SeedPorts \o ports \in Seq(Nat)
            /\ Len(SeedPorts \o ports) = Len(SeedPorts) + Len(ports)
            /\ \A i \in 1..(Len(SeedPorts) + Len(ports)) :
                  (SeedPorts \o ports)[i] = IF i <= Len(SeedPorts) THEN SeedPorts[i]
                                                                   ELSE ports[i - Len(SeedPorts)]
        BY <2>2, <2>3, ConcatProperties
      <4> QED BY <2>2, <2>3, <4>1
    <3>2. \A i \in 1..seedCount : peerPorts[i] = SeedPorts[i]
      BY <1>1 DEF IInv, StateInv, SeedPorts
    <3>3. \A i \in 1..Len(nodes) : peerPorts[seedCount + i] = ports[i]
      BY <1>1 DEF IInv, StateInv
    <3>4. Len(peerPorts) = seedCount + Len(nodes)
      BY <1>1 DEF IInv, StateInv
    <3> HIDE DEF ports
    <3>5. \A i \in 1..(seedCount + Len(nodes)) : peerPorts[i] = (SeedPorts \o ports)[i]
      <4> SUFFICES ASSUME NEW i \in 1..(seedCount + Len(nodes))
                   PROVE  peerPorts[i] = (SeedPorts \o ports)[i]
        OBVIOUS
      <4>1. CASE i <= seedCount
        BY <2>1, <3>1, <3>2, <4>1
      <4>2. CASE ~(i <= seedCount)
        <5>1. i - seedCount \in 1..Len(nodes) /\ seedCount + (i - seedCount) = i
          BY <2>1, <4>2
        <5>2. peerPorts[i] = ports[i - seedCount]
          BY <3>3, <5>1
        <5> QED BY <3>1, <4>2, <5>2
      <4> QED BY <4>1, <4>2
    <3> QED BY <2>1, <3>1, <3>4, <3>5, SeqEqual
  <2> QED BY <1>1, <2>1, <2>4 DEF IInv, StateInv, StateDescribesNodes
<1> QED BY <1>1, Invariant, PTL

\* However starts, stops and the end interleave, a process that nobody will
\* stop is one whose start_node failed after the spawn.
THEOREM OnlyFailedStartsLeak == Spec => []LeaksAreFailedStarts
<1>1. IInv => LeaksAreFailedStarts
  BY DEF IInv
<1> QED BY <1>1, Invariant, PTL

\* As long as no two calls overlapped, over any sequence of starts, failed
\* starts and stops: labels and ports are unique, a label finds the client of
\* its node, the clients of the run context end with those of the nodes, and a
\* node's own process is the one that runs unless a process was leaked.
THEOREM NamesHold == Spec => []NamesFindNodes
<1>1. ASSUME IInv PROVE NamesFindNodes
  <2> SUFFICES ASSUME ~overlapped
               PROVE  /\ LabelsAreUnique
                      /\ \A i \in DOMAIN nodes : clientsByName[nodes[i].label] = nodes[i].port
                      /\ (\A c \in Caller : call[c].pc = "idle") =>
                            /\ IsSuffix([i \in DOMAIN nodes |-> nodes[i].port], clients)
                            /\ Len(clients) \in {Len(nodes), Len(nodes) + seedCount}
                      /\ Leaked = {} => \A i \in DOMAIN nodes : procs[nodes[i].proc].up
    BY DEF NamesFindNodes
  <2>1. /\ Len(nodes) \in Nat /\ DOMAIN nodes = 1..Len(nodes) /\ seedCount \in Nat
        /\ \A i \in 1..Len(nodes) : nodes[i] \in [label : Nat, port : Nat, proc : Nat]
        /\ clients \in Seq(Nat)
    BY <1>1, Elements DEF IInv, Types
  <2>2. NodesInv /\ ClientsInv /\ UpInv /\ ProcsInv
    BY <1>1 DEF IInv
  <2>3. LabelsAreUnique
    <3>1. ASSUME NEW i \in 1..Len(nodes), NEW j \in 1..Len(nodes), nodes[i].port = nodes[j].port
          PROVE  i = j
      <4>1. /\ nodes[i].port = PortOf(seedCount + i - 1, nodes[i].proc)
            /\ nodes[j].port = PortOf(seedCount + j - 1, nodes[j].proc)
        BY <2>2 DEF NodesInv
      <4>2. /\ nodes[i].proc \in Nat \ {0} /\ nodes[j].proc \in Nat \ {0}
            /\ nodes[i].proc = nodes[j].proc => i = j
        BY <2>1, <2>2 DEF ProcsInv
      <4>3. seedCount + i - 1 \in Nat /\ seedCount + j - 1 \in Nat
        BY <2>1
      <4>4. seedCount + i - 1 = seedCount + j - 1 \/ nodes[i].proc = nodes[j].proc
        BY <3>1, <4>1, <4>2, <4>3, PortsDiffer
      <4> QED BY <2>1, <4>2, <4>4
    <3> QED BY <2>1, <2>2, <3>1 DEF LabelsAreUnique, NodesInv
  <2>4. ASSUME \A c \in Caller : call[c].pc = "idle"
        PROVE  /\ IsSuffix([i \in DOMAIN nodes |-> nodes[i].port], clients)
               /\ Len(clients) \in {Len(nodes), Len(nodes) + seedCount}
    <3> DEFINE ports == [i \in 1..Len(nodes) |-> nodes[i].port]
    <3>1. ClientsMatch(Len(clients))
      BY <2>2, <2>4 DEF ClientsInv
    <3>2. ports \in Seq(Nat) /\ Len(ports) = Len(nodes)
      <4>1. ports \in [1..Len(nodes) -> Nat]
        BY <2>1
      <4> HIDE DEF ports
      <4> QED BY <2>1, <4>1, FunctionIsSeq
    <3>3. Len(clients) \in {Len(nodes), Len(nodes) + seedCount}
      BY <3>1 DEF ClientsMatch
    <3>4. \A i \in 1..Len(nodes) : clients[Len(clients) - Len(nodes) + i] = ports[i]
      BY <3>1 DEF ClientsMatch
    <3>5. IsSuffix(ports, clients)
      <4> HIDE DEF ports
      <4>1. Len(ports) <= Len(clients)
        BY <2>1, <3>2, <3>3
      <4>2. \A i \in 1..Len(ports) : clients[Len(clients) - Len(ports) + i] = ports[i]
        BY <3>2, <3>4
      <4> QED BY <2>1, <3>2, <4>1, <4>2, EndIsSuffix
    <3> QED BY <2>1, <3>3, <3>5
  <2> QED BY <2>1, <2>2, <2>3, <2>4 DEF NodesInv, UpInv
<1> QED BY <1>1, Invariant, PTL
=============================================================================
