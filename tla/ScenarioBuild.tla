---------------------------- MODULE ScenarioBuild ----------------------------
(***************************************************************************)
(* The scenario builder: the calls that shape a scenario, in any order and *)
(* through sub-builders, and build(), which settles the wallets, generates *)
(* the topology, bounds the duration, derives the run metrics and          *)
(* initializes the workloads.                                              *)
(*                                                                         *)
(* A call consumes the builder, so that nothing is concurrent here; what   *)
(* can go wrong is the order of legal calls.  Durations of the builder and *)
(* the metrics are in milliseconds, coefficients in percent.               *)
(***************************************************************************)
EXTENDS Topology, TxPlan, FiniteSetsExt, Functions

CONSTANTS
    None,           \* an absent option
    NodeCounts,     \* arguments of the calls that take a number of nodes
    UserCounts,     \* arguments of the calls that take a number of users
    Funds,          \* arguments of initialize_wallet
    OwnWallets,     \* account lists that a caller may have composed
    GivenIds,       \* node ids that a caller may give
    Durations,      \* run durations
    Delays,         \* durations given to the chaos builder
    SlotTimes,      \* CONSENSUS_SLOT_TIME; 0 also stands for unset or no number
    SlotCoeffs,     \* CONSENSUS_ACTIVE_SLOT_COEFF; 0 likewise
    U64_MAX,        \* the largest amount of funds
    MaxCalls        \* bound on the calls of a scenario

ASSUME CallsAssumption ==
    /\ NodeCounts \subseteq Nat /\ UserCounts \subseteq Nat /\ Funds \subseteq Nat
    /\ Durations \subseteq Nat /\ Delays \subseteq Nat
    /\ SlotTimes \subseteq Nat /\ SlotCoeffs \subseteq Nat
    /\ U64_MAX \in Nat /\ MaxCalls \in Nat \ {0}
    /\ GivenIds \subseteq Seq(Nat)

ASSUME NoneAssumption == None \notin Nat /\ None \notin GivenIds /\ NoLimit = None

\* WalletConfig::new takes any accounts, also two with one key.
ASSUME WalletsAssumption == OwnWallets \subseteq Seq([key : {"wallet"} \X Nat, value : Nat])

DEFAULT_FUNDS_PER_WALLET == 100
MIN_EXPECTATION_BLOCKS == 2

UrlFields == {"metrics_query_url", "metrics_otlp_ingest_url", "grafana_url"}

VARIABLES
    env,      \* what the builder reads from the environment
    pc,       \* "open", "built" and then "served", "configs", "failed" or "panic"
    b,        \* the builder
    sub,      \* the sub-builder that holds it, if any
    calls,    \* calls so far
    asked,    \* ghost: the accounts that the last call about wallets asked for
    result    \* what build() returned

vars == <<env, pc, b, sub, calls, asked, result>>

-----------------------------------------------------------------------------
(* Settings, capabilities and workloads                                    *)

\* default_time_config
SlotDuration == 1000 * (IF env.slot > 0 THEN env.slot ELSE 2)

\* default_for_participants
ActiveSlotCoeff == IF env.coeff \in 1..100 THEN env.coeff ELSE 90

NoCaps == [kind |-> "none"]
NodeControl == [kind |-> "node_control"]
Observability ==
    [kind |-> "observability", metrics_query_url |-> None, metrics_otlp_ingest_url |-> None,
     grafana_url |-> None]

TxWorkload(rate, users) == [kind |-> "tx", rate |-> rate, users |-> users]
TxInclusion(rate, users) == [kind |-> "tx_inclusion", rate |-> rate, users |-> users]
Liveness == [kind |-> "consensus_liveness"]

\* The expectations() of a workload.
ExpectationsOf(w) == IF w.kind = "tx" THEN <<TxInclusion(w.rate, w.users)>> ELSE <<>>

NewTopology(nodes) ==
    [nodes |-> nodes, layout |-> "Star", ids |-> None, blendPorts |-> None, accounts |-> <<>>]

NewBuilder(nodes) ==
    [topology |-> NewTopology(nodes), workloads |-> <<>>, expectations |-> <<>>,
     duration |-> 0, walletUsers |-> None, caps |-> NoCaps]

NoSub == [kind |-> "none"]
Configurator == [kind |-> "topology", nodes |-> 0, star |-> FALSE]

-----------------------------------------------------------------------------
(* Calls on the builder                                                    *)

Open == pc = "open" /\ sub = NoSub

\* A call that leaves the builder new.
Call(new) ==
    /\ Open
    /\ calls < MaxCalls
    /\ b' = new /\ calls' = calls + 1
    /\ UNCHANGED <<env, pc, sub, result>>

\* A call that does not return a builder.
Gone(how) ==
    /\ pc' = how
    /\ UNCHANGED <<env, b, sub, calls, asked, result>>

\* A call whose argument is refused by returning an error or by panicking.
CallEnds(how) == Open /\ calls < MaxCalls /\ Gone(how)

\* with_workload
WithWorkload(builder, w) ==
    [builder EXCEPT !.expectations = @ \o ExpectationsOf(w), !.workloads = Append(@, w)]

ExpectConsensusLiveness ==
    /\ Call([b EXCEPT !.expectations = Append(@, Liveness)])
    /\ UNCHANGED asked

WithRunDuration ==
    /\ \E d \in Durations : Call([b EXCEPT !.duration = d])
    /\ UNCHANGED asked

\* map_topology with one of the topology builder's own calls.
MapTopology ==
    \/ /\ \/ \E n \in NodeCounts : Call([b EXCEPT !.topology.nodes = n])
          \/ \E l \in Layouts : Call([b EXCEPT !.topology.layout = l])
          \/ \E ids \in GivenIds : Call([b EXCEPT !.topology.ids = ids])
          \/ \E n \in NodeCounts : Call([b EXCEPT !.topology.blendPorts = n])
       /\ UNCHANGED asked
    \* A number of users that wallets() set stays in force over this wallet.
    \/ \E w \in OwnWallets :
          /\ Call([b EXCEPT !.topology.accounts = w])
          /\ asked' = IF b.walletUsers = None THEN w ELSE asked

\* Mutant: a number of users that was set earlier stays in force.
SetWallet_keepsUsers(builder, accounts) == [builder EXCEPT !.topology.accounts = accounts]

\* What with_wallet_config does to the builder.
SetWallet(builder, accounts) ==
    [builder EXCEPT !.topology.accounts = accounts, !.walletUsers = None]

WithWalletConfig ==
    \E w \in OwnWallets : Call(SetWallet(b, w)) /\ asked' = w

\* initialize_wallet: no users are ignored, and uniform() insists on a token for
\* every user.
InitializeWallet ==
    \E funds \in Funds, users \in UserCounts :
        \/ users = 0 /\ Call(b) /\ UNCHANGED asked
        \/ users > 0 /\ funds < users /\ CallEnds("panic")
        \/ /\ users > 0 /\ funds >= users
           /\ Call(SetWallet(b, Uniform(funds, users)))
           /\ asked' = Uniform(funds, users)

\* wallets: the accounts are made by build().
Wallets ==
    \E users \in UserCounts :
        /\ Call([b EXCEPT !.walletUsers = users])
        /\ asked' = Uniform(DEFAULT_FUNDS_PER_WALLET * users, users)

EnableNodeControl ==
    /\ b.caps = NoCaps
    /\ Call([b EXCEPT !.caps = NodeControl])
    /\ UNCHANGED asked

\* with_metrics_query_url and its siblings on a builder without capabilities: one
\* URL, or none when the _str form gets a string that is no URL; the try_ form of
\* such a string is an error.
WithFirstUrl ==
    /\ b.caps = NoCaps
    /\ \/ /\ \/ \E f \in UrlFields : Call([b EXCEPT !.caps = [Observability EXCEPT ![f] = "url"]])
             \/ Call([b EXCEPT !.caps = Observability])
          /\ UNCHANGED asked
       \/ CallEnds("failed")

\* The same calls on a builder that has the capability: a string that is no URL
\* leaves it as it is.
WithNextUrl ==
    /\ b.caps.kind = "observability"
    /\ \/ /\ \/ \E f \in UrlFields : Call([b EXCEPT !.caps[f] = "url"])
             \/ Call(b)
          /\ UNCHANGED asked
       \/ CallEnds("failed")

-----------------------------------------------------------------------------
(* Sub-builders                                                            *)

\* A step that leaves the builder alone and the sub-builder new.
SubCall(new) ==
    /\ sub' = new
    /\ UNCHANGED <<env, pc, b, calls, asked, result>>

\* apply() gives the builder back.
Apply(new) ==
    /\ b' = new /\ sub' = NoSub /\ calls' = calls + 1
    /\ UNCHANGED <<env, pc, asked, result>>

\* TopologyConfigurator: nodes, network_star, and apply, which starts over with a
\* new topology builder.
ConfigureTopology ==
    /\ pc = "open" /\ sub.kind = "topology"
    /\ \/ \E n \in NodeCounts : SubCall([sub EXCEPT !.nodes = n])
       \/ SubCall([sub EXCEPT !.star = TRUE])
       \/ Apply([b EXCEPT !.topology =
                    [NewTopology(sub.nodes) EXCEPT !.layout = IF sub.star THEN "Star" ELSE @]])

\* transactions
Transactions ==
    /\ Open /\ calls < MaxCalls
    /\ SubCall([kind |-> "tx", rate |-> 1, users |-> None])

\* A setter that ignores zero.
NonZeroOr(value, old) == IF value = 0 THEN old ELSE value

\* TransactionFlowBuilder: rate, try_rate, rate_per_block, users, try_users, apply.
ConfigureTransactions ==
    /\ pc = "open" /\ sub.kind = "tx"
    /\ \/ \E rate \in UserCounts : SubCall([sub EXCEPT !.rate = NonZeroOr(rate, @)])
       \/ \E users \in UserCounts : SubCall([sub EXCEPT !.users = NonZeroOr(users, @)])
       \/ Gone("failed")
       \/ Apply(WithWorkload(b, TxWorkload(sub.rate, sub.users)))

\* chaos: a builder without node control has no such call.
Chaos ==
    /\ Open /\ calls < MaxCalls
    /\ b.caps = NodeControl
    /\ SubCall([kind |-> "chaos"])

\* ChaosBuilder: apply without a workload, or restart.
ConfigureChaos ==
    /\ pc = "open" /\ sub.kind = "chaos"
    /\ \/ Apply(b)
       \/ SubCall([kind |-> "restart", minDelay |-> 10, maxDelay |-> 30,
                   targetCooldown |-> 60, includeNodes |-> TRUE])

\* Mutant: the delays stay as they were given.
RestartWorkload_noSwap(s) ==
    [kind |-> "restart", minDelay |-> s.minDelay, maxDelay |-> s.maxDelay,
     targetCooldown |-> Max({s.targetCooldown, s.minDelay}), includeNodes |-> TRUE]

\* ChaosRestartBuilder::apply: the delays in order, then a cooldown that is at
\* least the smaller one, and nodes as targets whatever was asked for.
RestartWorkload(s) ==
    LET low == Min({s.minDelay, s.maxDelay})
    IN  [kind |-> "restart", minDelay |-> low, maxDelay |-> Max({s.minDelay, s.maxDelay}),
         targetCooldown |-> Max({s.targetCooldown, low}), includeNodes |-> TRUE]

\* ChaosRestartBuilder
ConfigureRestart ==
    /\ pc = "open" /\ sub.kind = "restart"
    /\ \/ \E f \in {"minDelay", "maxDelay", "targetCooldown"}, d \in Delays :
             SubCall([sub EXCEPT ![f] = NonZeroOr(d, @)])
       \/ \E enabled \in BOOLEAN : SubCall([sub EXCEPT !.includeNodes = enabled])
       \/ Apply(WithWorkload(b, RestartWorkload(sub)))

-----------------------------------------------------------------------------
(* build                                                                   *)

\* enforce_min_duration; a generated topology has a first node.
EnforceMinDuration(requested) == Max({requested, SlotDuration * MIN_EXPECTATION_BLOCKS})

\* calculate_expected_blocks, as the values that it may have: the product in
\* floating point may lie above a whole number that it should be.
ExpectedBlocks(run) ==
    LET blocks == run * ActiveSlotCoeff
        unit   == SlotDuration * 100
    IN  IF blocks % unit # 0 THEN {blocks \div unit + 1}
        ELSE IF ActiveSlotCoeff = 100 THEN {blocks \div unit}
        ELSE {blocks \div unit, blocks \div unit + 1}

\* Mutant: the interval between blocks that are expected.
BlockIntervalHint_mean == (SlotDuration * 100) \div ActiveSlotCoeff

\* block_interval_hint
BlockIntervalHint == (SlotDuration * ActiveSlotCoeff) \div 100

RunMetrics(run) ==
    {[run |-> run, expected |-> e, hint |-> BlockIntervalHint] : e \in ExpectedBlocks(run)}

\* The place of an account's genesis output, the last of those with its key, or 0.
OutputOf(genesis, account) ==
    SelectLastInSeq(genesis.outputs, LAMBDA o : o.key = account.key)

\* The accounts that have an output: matched[k] are those of the first k.
MatchedAccounts(genesis) ==
    LET matched[k \in 0..Len(genesis.accounts)] ==
            IF k = 0 THEN <<>>
            ELSE LET account == genesis.accounts[k]
                     output  == OutputOf(genesis, account)
                 IN  IF output = 0 THEN matched[k - 1]
                     ELSE Append(matched[k - 1], [account |-> account, output |-> output])
    IN  matched[Len(genesis.accounts)]

\* init of the transaction workload: as many of those accounts as are allowed.
WalletInputs(genesis, limit) ==
    LET matched == MatchedAccounts(genesis)
    IN  SubSeq(matched, 1, LimitedUsers(limit, Len(matched)))

InitWorkload(genesis, w) ==
    IF w.kind # "tx" THEN w
    ELSE [kind |-> "tx", rate |-> w.rate, users |-> w.users,
          inputs |-> WalletInputs(genesis, w.users)]

\* The wallet that build() gives the topology.
BuildAccounts ==
    IF b.walletUsers = None THEN b.topology.accounts
    ELSE Uniform(DEFAULT_FUNDS_PER_WALLET * b.walletUsers, b.walletUsers)

BuildGenesis == LET ids == ResolvedIds(b.topology, None) IN Genesis(ids, Len(ids), BuildAccounts)

WalletUsersZero == b.walletUsers = 0

WalletFundsOverflow ==
    b.walletUsers # None /\ DEFAULT_FUNDS_PER_WALLET * b.walletUsers > U64_MAX

\* initialize_workloads fails.
WorkloadInitFails(workloads) ==
    \E k \in DOMAIN workloads : workloads[k].kind = "tx" /\ workloads[k].inputs = <<>>

\* Why build() returns an error.
BuildError ==
    \/ WalletUsersZero
    \/ WalletFundsOverflow
    \/ TopologyError(b.topology, None) # "none"
    \/ WorkloadInitFails([k \in DOMAIN b.workloads |-> InitWorkload(BuildGenesis, b.workloads[k])])

\* No free port is found, or the genesis transaction cannot be signed.
BuildFails == Open /\ Gone("failed")

Build ==
    /\ Open
    /\ ~BuildError
    /\ \E m \in RunMetrics(EnforceMinDuration(b.duration)) :
          result' = [genesis |-> BuildGenesis, metrics |-> m, caps |-> b.caps,
                     workloads |-> [k \in DOMAIN b.workloads |->
                                       InitWorkload(BuildGenesis, b.workloads[k])],
                     expectations |-> b.expectations]
    /\ pc' = "built"
    /\ UNCHANGED <<env, b, sub, calls, asked>>

\* create_general_configs_with_blend_core_subset, which takes no builder: the
\* first nodes declare themselves, and there are no wallets.
CreateGeneralConfigs ==
    /\ Open /\ calls = 0
    /\ \E n \in NodeCounts, core \in NodeCounts :
          \/ (n = 0 \/ core > n) /\ Gone("failed")
          \/ /\ n > 0 /\ core <= n
             /\ result' = [genesis |-> Genesis(FreshIds(n), core, <<>>)]
             /\ pc' = "configs"
             /\ UNCHANGED <<env, b, sub, calls, asked>>

\* The cfgsync server of a compose or k8s deployment, which is given the ids and
\* the wallet of the built topology (apply_topology_overrides), makes the genesis
\* that the nodes will have.
ServeConfigs ==
    /\ pc = "built"
    /\ result' = [result EXCEPT
                     !.genesis = CfgsyncGenesis(result.genesis.ids, result.genesis.accounts)]
    /\ pc' = "served"
    /\ UNCHANGED <<env, b, sub, calls, asked>>

-----------------------------------------------------------------------------
Init ==
    /\ env \in [slot : SlotTimes, coeff : SlotCoeffs]
    /\ pc = "open"
    /\ \/ b \in {NewBuilder(n) : n \in NodeCounts} /\ sub = NoSub   \* with_node_counts
       \/ b = NewBuilder(0) /\ sub = Configurator                   \* topology
    /\ calls = 0
    /\ asked = <<>>
    /\ result = None

Next ==
    \/ ExpectConsensusLiveness \/ WithRunDuration \/ MapTopology
    \/ WithWalletConfig \/ InitializeWallet \/ Wallets
    \/ EnableNodeControl \/ WithFirstUrl \/ WithNextUrl
    \/ ConfigureTopology
    \/ Transactions \/ ConfigureTransactions
    \/ Chaos \/ ConfigureChaos \/ ConfigureRestart
    \/ Build \/ BuildFails \/ CreateGeneralConfigs \/ ServeConfigs

Spec == Init /\ [][Next]_vars

-----------------------------------------------------------------------------
(* Properties                                                              *)

\* The elements of seq that have this kind, in their order.
OfKind(seq, kind) ==
    LET chosen[k \in 0..Len(seq)] ==
            IF k = 0 THEN <<>>
            ELSE IF seq[k].kind = kind THEN Append(chosen[k - 1], seq[k]) ELSE chosen[k - 1]
    IN  chosen[Len(seq)]

\* The sum of the values of a sequence of notes.
Total(seq) ==
    LET sum[k \in 0..Len(seq)] == IF k = 0 THEN 0 ELSE sum[k - 1] + seq[k].value
    IN  sum[Len(seq)]

\* There is a genesis transaction.
Made == {"built", "served", "configs"}

TypeOK ==
    /\ env \in [slot : SlotTimes, coeff : SlotCoeffs]
    /\ pc \in {"open", "built", "served", "configs", "failed", "panic"}
    /\ sub.kind \in {"none", "topology", "tx", "chaos", "restart"}
    /\ calls \in 0..MaxCalls
    /\ b.duration \in Durations \cup {0} /\ b.walletUsers \in UserCounts \cup {None}
    /\ b.topology.nodes \in NodeCounts \cup {0} /\ b.topology.layout \in Layouts
    /\ b.caps.kind \in {"none", "node_control", "observability"}
    /\ pc \notin Made => result = None

\* Every transaction workload is judged by an expectation with its own rate and
\* user limit.
ExpectationsFollowWorkloads ==
    LET flow(seq) == [k \in DOMAIN seq |-> <<seq[k].rate, seq[k].users>>]
    IN  flow(OfKind(b.workloads, "tx")) = flow(OfKind(b.expectations, "tx_inclusion"))

\* Whatever was given, a restart workload has delays in order and above zero, and
\* leaves a node alone for at least the smaller of them.
ChaosIsNormal ==
    \A k \in DOMAIN OfKind(b.workloads, "restart") :
        LET w == OfKind(b.workloads, "restart")[k]
        IN  0 < w.minDelay /\ w.minDelay <= w.maxDelay /\ w.minDelay <= w.targetCooldown

\* The types of the variables; each transaction workload comes with its own
\* expectation; a chaos workload is normalised.
Safety == TypeOK /\ ExpectationsFollowWorkloads /\ ChaosIsNormal

\* The accounts of a built scenario are those that the last call about wallets
\* asked for: wallets(), with_wallet_config() and initialize_wallet() take each
\* other's place in any order, although the first only notes a number of users
\* that build() turns into accounts later.
WalletIsLastRequest == pc = "built" => result.genesis.accounts = asked

\* The output index that a declaration locks is the one at which the blend note of
\* the declaring node ends up in the outputs, no note is locked twice, no two
\* declarations name one key unless the caller gave two nodes one id, the outputs
\* hold the nodes' stake and the wallets' funds and no more, and every node can
\* sign for itself.
SoundGenesis(g) ==
    LET lock  == [i \in DOMAIN g.declarations |-> g.declarations[i].locks.outputIndex]
        zkKey == [i \in DOMAIN g.declarations |-> g.declarations[i].zkKey]
    IN  /\ \A i \in DOMAIN g.declarations :
               /\ g.outputs[lock[i] + 1] = g.declarations[i].locks.note
               /\ g.outputs[lock[i] + 1].key = <<"bn", g.declarations[i].provider>>
        /\ IsInjective(lock)
        /\ IsInjective(g.ids) => IsInjective(zkKey)
        /\ Total(g.outputs) = 1002 * Len(g.ids) + Total(g.accounts)
        /\ \A i \in DOMAIN g.ids : {<<"ed25519", g.ids[i]>>, <<"zk", g.ids[i]>>} \subseteq g.kms[i]

\* Every node can sign for all wallets.
HoldsWallets(g) ==
    \A i \in DOMAIN g.ids : {g.accounts[k].key : k \in DOMAIN g.accounts} \subseteq g.kms[i]

\* The genesis transaction that all nodes share is sound, whether build(),
\* create_general_configs or a cfgsync server made it; the key stores hold the
\* wallets' keys too, except those that cfgsync makes.
GenesisIsSound ==
    pc \in Made =>
        /\ SoundGenesis(result.genesis)
        /\ pc # "served" => HoldsWallets(result.genesis)

\* The number of transactions that a workload will submit, and that an expectation,
\* which counts the wallets again, will look for.
WorkloadPlan(m, w) == PlannedCount(m.run, w.rate, m.hint, Len(w.inputs))
ExpectationPlan(m, accounts, e) ==
    PlannedCount(m.run, e.rate, m.hint, LimitedUsers(e.users, Len(accounts)))

\* The run lasts two slots, and the metrics expect a block and never more blocks
\* than fit into the run at the hinted interval.
MetricsFit(m) ==
    /\ m.run >= 2 * SlotDuration /\ m.run >= b.duration
    /\ 0 < m.expected /\ 0 < m.hint /\ (m.expected - 1) * m.hint <= m.run

\* What a workload spends for an account is an output with the account's key; if
\* no two accounts have one key, it holds the account's funds and is spent for no
\* other account.
InputsFunded(genesis, inputs) ==
    LET key    == [k \in DOMAIN genesis.accounts |-> genesis.accounts[k].key]
        output == [i \in DOMAIN inputs |-> inputs[i].output]
    IN  /\ \A i \in DOMAIN inputs : genesis.outputs[output[i]].key = inputs[i].account.key
        /\ IsInjective(key) =>
              /\ \A i \in DOMAIN inputs : genesis.outputs[output[i]] = inputs[i].account
              /\ IsInjective(output)

\* Every transaction workload plans a transaction, plans as many as its expectation
\* will look for, and spends what the genesis transaction of the nodes has.
PlansAgree(r) ==
    LET txs  == OfKind(r.workloads, "tx")
        exps == OfKind(r.expectations, "tx_inclusion")
    IN  \A k \in DOMAIN txs :
            /\ WorkloadPlan(r.metrics, txs[k]) > 0
            /\ WorkloadPlan(r.metrics, txs[k])
                  = ExpectationPlan(r.metrics, r.genesis.accounts, exps[k])
            /\ InputsFunded(r.genesis, txs[k].inputs)

\* A scenario that was built can run: its metrics fit the run, and its workloads
\* and expectations agree on plans that are not empty and have funds, also on the
\* genesis that cfgsync makes after build() has chosen the inputs.
BuiltMeansRunnable ==
    pc \in {"built", "served"} => MetricsFit(result.metrics) /\ PlansAgree(result)
=============================================================================
