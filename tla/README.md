# A TLA+ model of the Logos blockchain testing framework

This directory models the control logic of the testing framework: the code that
deploys a network of nodes, drives workloads against it, judges expectations and
cleans up. Source paths are relative to `testing-framework/` unless they start
with `book/`. The nodes themselves (consensus, mempool, storage), docker,
Kubernetes, the operating system and the tokio runtime are external: they are
modelled only by how this code sees them.

## Inventory

| Component | State it keeps | Operations | What is hard | Module |
|---|---|---|---|---|
| Scenario runner (`core/src/scenario/runtime/runner.rs`, `context.rs`) | the cleanup guard, a JoinSet of workload tasks, expectations, a timer | capture, spawn, drive until the timer, cooldown, drain, settle, evaluate, clean up, drop | tasks that fail late, panic or never end; a run that is dropped; one guard and two owners | `ScenarioRunner`, `RunContract` |
| Block feed (`runtime/block_feed.rs`) | seen headers, a stack of fetched blocks, a broadcast channel, counters | catch up, ingest, abort | the chain grows and reorganises during the walk; requests fail in the middle; receivers lag | `BlockFeed` |
| Transaction workload and inclusion expectation (`workflows/src/workloads/transaction/`, `util.rs`) | a plan of accounts, a counter of observed outputs | plan, submit with fan-out and retries, capture, evaluate | lost responses, forks, rounding, empty plans | `TxInclusion` |
| Consensus liveness (`workflows/src/expectations/consensus_liveness.rs`) | samples and issues | sample with retries, target, allowance, verdict | samples of different times; nodes that do not answer; bounds of the allowance | `ConsensusLiveness` |
| Chaos restart (`workflows/src/workloads/chaos.rs`) | a cooldown per target | delay, pick, restart | restarts that take long; cooldowns that overlap | `ChaosRestart` |
| Local dynamic nodes, manual cluster (`deployers/local/src/node_control/`, `manual/`) | count, ports, names, clients, node handles behind a mutex | start_node, stop_all, drop | the lock is not held during the spawn; processes outlive failed starts | `LocalNodes` |
| cfgsync (`tools/cfgsync_tf/src/`, `assets/stack/scripts/run_nomos.sh`) | waiting hosts and their reply channels | register, wait, take, generate, answer, time out | a last host that races the timeout; retries and restarts of nodes | `CfgSync` |
| Compose deployer (`deployers/compose/src/`) | a workspace directory, a cfgsync container, a compose project, the feed task | thirteen stages, fail, cleanup guard, preserve | every stage may fail; commands outlive their timeouts; several owners of one resource | `ComposeDeploy` |
| Kubernetes deployer (`deployers/k8s/src/`) | namespace, release, port forwards | install, wait, forward, clean up with fallback | every stage may fail; processes that outlive their callers; a second cleanup attempt beside what is left of the first | `K8sDeploy` |
| Local deployer and topology deployment (`deployers/local/src/runner.rs`, `core/src/topology/deployment.rs`, `core/src/nodes/`) | the nodes spawned so far, then a topology; processes | spawn one by one, wait for each, check readiness, start the feed, drop | a failure or a drop in the middle; a process that has no owner yet | `LocalDeploy` |
| Readiness checks (`core/src/topology/readiness/`) | the statuses collected last | collect, compare, sleep, time out | counts of different moments; a collection outside of the timeout | `LocalDeploy` |
| Scenario builder (`core/src/scenario/definition.rs`, `workflows/src/builder/mod.rs`), run metrics (`runtime/context.rs`) | topology, workloads, expectations, duration, wallets, capabilities | some thirty calls, sub-builders, `build` | the order of legal calls; values that are zero, too large or rounded | `ScenarioBuild` |
| Topology configuration (`configs/src/topology/`, `core/src/topology/config.rs`, `utils.rs`) | none | layouts, expected peers, genesis outputs and declarations, keys, wallet funds | indices that are assumed before they exist | `Topology` |
| API client, metrics, observability, descriptors, templates, environment helpers | none to speak of | requests, text, environment variables | - | not modelled |

How they interact: the builder turns calls into a `Scenario` (a generated topology,
workloads, expectations). A deployer yields a `Runner` with a `RunContext` (clients, block
feed, node control) and a cleanup guard. The runner spawns the workloads on the
context. The transaction workload submits through the clients; its expectation
subscribes to the block feed. The chaos workload restarts nodes through node
control; in a compose deployment a restarted container asks cfgsync for its
configuration again. Consensus liveness asks all clients when the workloads
have stopped. At the end, on an error, or when the run is dropped, the guard stops
the feed and takes the deployment down.

## Modules

Each component has one module with its state as VARIABLES and one action per
step between two points at which others may act: an await, a lock, a command.
The `MC` modules give values to the constants. An operator whose name has a suffix
(`Verdict_roundsDown`) is a variant of the one it is named after, with a plausible
slip; the comment `Mutant:` says which. It is not part of the specification, and
serves to see that the properties notice the slip.

### ScenarioRunner and RunContract

`pc` follows `Runner::run`: `capture` (prepare_expectations), `sleep` (no
workload), `drive` (drive_until_timer), `cool` and `coolsleep` (the wait of a run
with node control), `drain`, `settle`, `evaluate`, then `ok` or `err`. `task[w]`
is a spawned workload; a panic is an error, as `map_join_result` makes it one. A
task that was asked to abort still may finish first. `guard` says who holds the
cleanup guard: the runner, the handle that a successful run returns, or no one
any more. `DropRun` is the drop of the future at any await, which drops the
JoinSet and the runner. A run that returns an error calls `cleanup` and then drops
the runner, whose `Drop` calls it again (`Fail`, `DropRunner`); `Cleaned` is what a
call does to an owner that may have no guard any more.

`RunContract` is what those rely on who use a deployment, the workloads. They begin
only while the run goes on and end when they like. A run that succeeds leaves none of
them behind, and keeps the resources until its handle is dropped. A run that fails, or
is given up, releases the resources, and then every workload that is still at work has
been told to stop. `ContractKept` says that `ScenarioRunner` implements it. A JoinSet
that only forgot its tasks would break it, and no state of the guard shows that.

### BlockFeed

The blocks are a tree given by `Parent` and `Height`. The node stores blocks and
moves its tip to any stored one. `catch_up` is split at its requests: `ConsensusInfo`
reads tip and height, the walk takes a step per block (`WalkSeen`, `WalkGenesis`,
`WalkFetch`, `StorageBlock`), `PopAndIngest` broadcasts a block. `RequestFails`
leaves the catch-up with nothing ingested, and, in the first one, fails the
deployment. A request that never returns is a state in which the scanner stays (see
Fairness). The channel keeps the last `Capacity` records for each receiver. Capture
tasks receive, lag and see the channel closed, once all senders are gone.

### LocalNodes, CfgSync, ConsensusLiveness, ChaosRestart, TxInclusion

`LocalNodes` has one record per caller for its `start_node`, between the two
critical sections. `seedCount` is 0 for a manual cluster and the number of deployed
nodes for node control of a run. `overlapped` remembers whether a call ever began
while another one was under way, and `abandoned` the processes whose `start_node`
failed; the properties speak of them, the code does not. Names are
numbers, so that `node-2` given by a caller and the default label of index 2 are the same label. A process runs until something kills
it, and a process whose port is taken stops.

`CfgSync` keeps `waiting` as a set of hosts (the map's keys): a registration with
the same address replaces the sender, whose connection is gone; with another address
it is a second entry. A configuration is the position of the host
in the sorted batch. `AnswerError` stands for all errors of `try_create_node_configs`:
more hosts than participants, or a part of a configuration that cannot be built.

`ConsensusLiveness` samples the clients one after the other while heights grow.
A `Setting` is a hint, an allowance and the heights nodes may have: a few values on
both sides of the thresholds (the hint, the minimum progress, a tenth of the target).
A request is answered, fails, or never returns (`RequestHangs`): the `ApiClient` has no
timeout.

`ChaosRestart` keeps instants as the ticks that remain until them.

`TxInclusion` derives the plan from accounts, limit, rate, duration and interval,
as `submission_plan` does, and then goes through the submissions. A request may
fail after the node took the transaction. `Branches` bounds how many blocks of
different branches hold the same transaction.

### ComposeDeploy

`pc` is the stage of `deploy`. A stage fails in one of three ways that the code
distinguishes: before there is a stack (the error drops the workspace), through
`StackEnvironment::fail` (logs, then cleanup), or by a plain `?` (the environment
is dropped). A docker command succeeds, fails with part of its effect, or exceeds
its timeout; the child is not killed then, and `DockerFinishes` completes it later.
Image builds and probes have no effect that outlives them and are single steps.
`hangs` says that deployment or cleanup waits for something that never comes; it may
become true in the stages `Untimed`, in which the code sets no timeout: `docker compose
logs` (`docker/commands.rs:113`), `docker rm` (`infrastructure/cfgsync.rs:37`), and
requests to nodes in the HTTP probes, in the first collection of the readiness check
(`core/src/topology/readiness/mod.rs:37`), in the first catch-up of the block feed, and
in the expectations of the run. The probes (`core/src/scenario/http_probe.rs`) look at
their deadline between two requests.
A caller that drops the future of `deploy` is not modelled.

### K8sDeploy

`pc` is the stage of `deploy_with_observability` and then the step of `RunnerCleanup`.
A failure before `helm install` has nothing to clean up; `cleanup_pending` and
`ClusterEnvironment::fail` dump logs and use the guard (`FailStage`, `LogsDumped`); a
plain `?` drops the environment, which stops the port forwards but does not use the
guard (`ReadinessFails`). A cleanup runs on the caller's thread when there is no
runtime there, and on a thread of its own when there is one or the first attempt timed
out. The commands of an attempt that timed out go on (`inflight`). A namespace that is
being deleted may stay so for ever. `hangs` and `Untimed` are as for compose, with `helm
install` (`infrastructure/helm.rs:146`; helm's own `--timeout` bounds what helm waits for
in the cluster, not the command) and the dump of the pods' logs. A namespace that the environment names, and that
may exist before the run, is not modelled.

### Topology and TxPlan

Operators without state. `Topology` has what `TopologyBuilder::build` generates:
the peers that each node dials in the layouts Star, Chain and Full, the peers that
`find_expected_peer_counts` derives from ports, the notes of the genesis
transaction with the output index that each service note assumes, the declarations
that lock them, the keys of each node, and the split of funds over wallets. Three
generators use them: `build`, `create_general_configs`, and the cfgsync server that
compose and Kubernetes nodes get their configurations from (`CfgsyncGenesis`). The key
stores of cfgsync (`tools/cfgsync_tf/src/config/kms.rs`) have no wallet keys. A key is
the pair of a prefix and an id or index: derivations are taken to be injective. Swarm
ports are taken to be distinct, as the operating system hands them out.

`TxPlan` is `submission_plan`, shared by `TxInclusion`, which runs a plan, and
`ScenarioBuild`, which asks whether there is one. The division is exact; the code's is
in floating point.

### ScenarioBuild

Every call of `Builder`, `ScenarioBuilderExt`, `ObservabilityBuilderExt` and
`ChaosBuilderExt` is an action, and `sub` is the sub-builder that owns the builder
between, say, `transactions()` and `apply()`. The `_with` forms, which take a
closure, are such a pair. The type parameter `Caps` is the field `caps`, and a call that
exists for one type only has it in its guard. `wallets` notes a number that `build`
turns into accounts; `with_wallet_config` and `initialize_wallet` set accounts and
forget that number; `map_topology` sets accounts and does not. `asked` is a ghost: the
accounts that the last effective request asked for. `Build` is the whole of `build`:
wallets, topology, minimum duration, metrics, initialisation of the workloads;
`BuildError` collects its errors. `CreateGeneralConfigs` is the second generator of
node configurations, which tools call without a builder. `ServeConfigs` is the third: a
deployer hands ids and wallets of a scenario that was built to cfgsync, which makes the
genesis transaction again; the inputs of the workloads were chosen from the first one.
`GenesisIsSound` and `BuiltMeansRunnable` are about all of them. Wallets are any list of
accounts, also with one key twice. Then the genesis transaction has an output for each,
and the map of `wallet_utxo_map` has the last one for all of them: `InputsFunded` says
that the key always owns the output, and that outputs are distinct and hold the account's
funds if the keys differ.

Floating point shows in one place: `ceil` of a product that should be whole may be
one more (`ExpectedBlocks` is a set of values).

### LocalDeploy

`pc` follows `deploy`: `spawn` and `waitNode` for each node, `collect0` (the
collection before the timeout is armed), `poll`, `sleep`, `collect`, `feed`, `run`,
`stopping`, `over`. Ownership is the point: `held` are the nodes of which there is
a `Node`, whose drop kills the process; between the spawn of a process and its
readiness there is a `NodeHandle`, whose drop kills nothing, and `abandoned` remembers
the nodes that ended there. The answers of a collection come one by one (`Answer`),
each compared with the expected count at its own moment. The nodes serve, connect with
anyone, crash, get stuck (accept requests and never answer) and lose connections.

## Runs

Deadlock checking is off throughout, because all these programs end.

| Run | Shows | Bounds and why they are enough |
|---|---|---|
| `block_feed` | `Safety` (`TypeOK` and `IngestedOnce`), `ParentsFirst`, `SeenIsIngested`, `StatsExact`, `CaptureExact`; `TipObserved`, `CapturesEnd` | four blocks with a fork, two failures, capacity 2, one capture: a failed walk, a reorganisation in both directions and a lagging receiver all occur |
| `scenario_runner` | `Safety` (`TypeOK` and `GuardFollowsRun`), `NoFailureLost`, `QuietWhenJudged`, `EarlyMeansFinished`; `ContractKept`, `RunAndTasksEnd` | up to three workloads (one joined, one failing, one running) and two expectations (before and after a failing one) |
| `local_nodes` | `StateDescribesNodes`, `LeaksAreFailedStarts`; without overlap `NamesFindNodes` | two callers, four starts: configured indices, one beyond them, and one after stop_all; with and without a seed |
| `cfgsync` | `Safety` (`TypeOK`, `ConfigsAreDistinct`, `ConfigIsOwn`); `CollectedAreAnswered` | three hosts with two addresses, two attempts each, three restarts, any error of the generator: a second batch would fill up, and second addresses do fill the first |
| `consensus_liveness` | `Safety` (`TypeOK` and `PassIsSound`), `NoFalseAlarm` (`ReachedHintPasses` and `FailMeansBehind`); `EvaluationEnds` | three nodes, two attempts, three settings: a hint among the heights, no hint, an allowance above the maximum |
| `chaos_restart` | `CooldownKept`, `RestartsGoOn` | three nodes, a cooldown longer than the longest delay |
| `tx_inclusion` | `Safety` (`TypeOK`, `PassMeansIncluded`, `FailMeansMissing`, `NoSilentGap`); `RunEnds` | up to three accounts, two clients, two rounds, one lost transaction, two branches, plans from empty to more than the accounts |
| `compose_deploy` | `Safety` (`TypeOK`, with it that cfgsync is removed at most once, and `LeaksExplained`), `StackIsServed`, `DeployEnds` | the code's five attempts; everything else is finite |
| `k8s_deploy` | `Safety` (`TypeOK`, `LeaksExplained`, `ForwardsStopped`), `PreserveKept`, `DeployEnds` | two nodes (port forwards fail between and within pairs), three polls for the end of the namespace; everything else is finite |
| `local_deploy` | `Safety` (`TypeOK`, `LeaksExplained`, `FeedHasNodes`), `ReadyMeansConnected`, `TimeoutReportsUnready`; `BringUpEnds` | one, two and four nodes in every layout, any connections, one fault. Four is the largest size for which counts suffice: `CountsMayMislead` gives a network of five in two parts that meets the counts of a chain |
| `scenario_build` | `Safety` (`TypeOK`, `ExpectationsFollowWorkloads`, `ChaosIsNormal`), `WalletIsLastRequest`, `GenesisIsSound`, `BuiltMeansRunnable`; `UniformIsFair` is evaluated for up to five users | three calls, sub-builders of any length, zero to two nodes, ids that may be equal, three given wallets (one with a key twice, for different amounts), two settings of the slot time and four of the coefficient: any two calls about wallets with one between them |

The bounds of counters are the constants `MaxFailures`, `MaxStarts`, `MaxAttempts`,
`MaxRestarts`, `MaxLosses`, `MaxWallets`, `MaxNodes`, `NumNodes`, `Branches`,
`MaxFaults`, `MaxCalls`; `U64_MAX` stands for the largest amount of funds. The
timeouts of the code are not counted but may fire whenever they are armed.

### Where code and documentation disagree

`cfgsync_restart` checks what the start script of a node container and the book
state, and ends with a counterexample: a node that asks again after the batch was
served, which the script does after a restart, is never answered.

More were met while modelling. They have no run of their own; the models
contain the behaviour, and the property named states what does hold.

- "node name already exists" (`deployers/local/src/node_control/mod.rs:225`) is not the
  answer when two calls with the same name overlap; both nodes are registered, on the
  same port (`LabelsAreUnique` is part of `NamesFindNodes`, for calls that do not
  overlap).
- "a minimum fraction of planned transactions were included"
  (`transaction/expectation.rs:50`); a transaction in blocks of two branches counts
  twice (the second case of `PassMeansIncluded`).
- The inclusion expectation is to require "At least `N` transactions were included
  on-chain (where N = rate × user count × expected block count)"
  (`book/src/workloads.md:96`, and `:107` "Expected: >= 600 transactions (10 tx/block ×
  60 blocks)"). The code requires half of the plan, rounded up
  (`transaction/expectation.rs:20`, `:110`), and the plan has no more transactions than
  there are accounts (`PlannedCount`, `Verdict`). `PassMeansIncluded` states the code's
  threshold; a run with many blocks and few accounts passes with far fewer than N.
- Consensus liveness is to check that "At least `N` blocks were produced (where N =
  duration / expected_block_time)", against a "minimum threshold (typically 50% of
  theoretical max)" (`book/src/workloads.md:259`, `:261`), and to fail with "Expected: >=
  20 blocks / Observed: 8 blocks" (`:213`). It counts no blocks of the feed, and if no
  node reached the expected number it takes the highest sample for its target
  (`consensus_liveness.rs:180`): nodes that are all at 8 pass. The second case of
  `PassIsSound` says what a pass means then, five blocks and nodes that are level
  (`HintReached` separates the cases).
- "Blend relies on each node declaring a different ZK public key"
  (`configs/src/topology/configs/mod.rs:156`), and keys "are guaranteed to be unique
  because they are in turned derived from node ID" (`blend.rs:34`). The ids that a caller
  gives are checked in number only (`core/src/topology/utils.rs:58`), so that two nodes
  with one id declare one key; `SoundGenesis` promises different keys for different ids.
- "Build preload KMS configs for blend/DA and wallet keys for every node"
  (`core/src/topology/utils.rs:12`) is true of the framework's generators; cfgsync's has
  no wallet keys (`HoldsWallets`), although the wallet service of its nodes is told of
  them (`configs/src/nodes/common.rs:167`).
- "`.wallets(N)  // Before .transactions_with()`" (`book/src/workloads.md:77`); the order
  does not matter, since `build` makes the wallets (`BuiltMeansRunnable`).
- "Must be ≤ wallets(20)" (`book/src/troubleshooting.md:335`); a larger number of users
  is cut down without a word (`LimitedUsers`).
- The interval hint is slot times coefficient (`context.rs:176`, and
  `book/src/examples-advanced.md:274`), while the expected number of blocks
  (`book/src/testing-philosophy.md:165`) makes the mean interval slot over coefficient.
  The hint is never larger, so that plans err on the side of more transactions and every
  scenario that builds has one (`BuiltMeansRunnable` fails for the mean).
- `RunContext::new` is described as "clamping the requested duration" (`context.rs:24`);
  it does not, `build` does (`EnforceMinDuration`).
- "panics if invalid" (`workflows/src/builder/mod.rs:84`, `:101`, `:117`); a string that is
  no URL is ignored with a warning, and the scenario has the capability without a URL
  (`WithFirstUrl`).
- "Override wallet configuration used in genesis" (`core/src/topology/config.rs:149`);
  through `map_topology` it does not override an earlier `wallets()` (`MapTopology`).
- The error of a local deployment, or its dropped future, leaves the process of the node
  that was being waited for (`LeaksExplained` of `LocalDeploy`).
- `run_workloads` "waits until the configured duration elapses (or a workload
  fails)" (`runner.rs:101`); it also returns when all workloads are done
  (`EarlyMeansFinished`).
- "Nodes are stopped automatically when cluster is dropped"
  (`book/src/manual-cluster.md:80`); a node whose readiness wait failed
  (`core/src/nodes/common/node.rs:176`) is not (`LeaksAreFailedStarts`).
- "every node reaches near the highest observed height"
  (`consensus_liveness.rs:13`); with a hint below that height the hint is the target
  (`PassIsSound` has both cases).
- The allowance is "how many blocks behind the leader a node may be"
  (`consensus_liveness.rs:156`); the samples are of different moments, so a node that
  is level with the others may fail (`FailMeansBehind` needs a chain that stands
  still, `ReachedHintPasses` does not).
- `with_lag_allowance` takes any number, but above 5 the `clamp` of
  `consensus_liveness.rs:163` panics (the outcome `panic` of `Report`).
- The delays "bound the sleep between restart attempts" (`chaos.rs:23`); the workload
  also waits while any target is cooling down (`RestartsGoOn`).
- The framework "ensures cleanup so runs do not leak resources"
  (`book/src/scenario-model.md:17`); nothing takes down what a `docker compose up` that
  failed half-way, or that is followed by a failing telemetry handle, has started
  (`LeaksExplained` of `ComposeDeploy` names the causes).
- The same for Kubernetes: a failed `helm install`, and a readiness check that fails
  (`deployers/k8s/src/deployer/orchestrator.rs:237`), leave release and namespace
  (`LeaksExplained` of `K8sDeploy`).
- `namespace_deleted` (`deployers/k8s/src/lifecycle/cleanup.rs:226`) takes a failed poll
  for the end of the namespace (the outcome `unknown` of `PollFails`).
- The preserve flag is to "Keep containers running after test"
  (`book/src/environment-variables.md:194`); dropping the cleanup removes the cfgsync
  container (`Preserve` in `ComposeDeploy`).

### Fairness

- `BlockFeed`: the scanner task is polled (weak fairness), and requests return, at
  most `MaxFailures` of them with an error; an asked-for abort takes effect at some
  await (strong fairness, since the task may be between awaits again and again);
  receivers are polled; the run context is dropped some time.
- `ScenarioRunner`: the run itself is polled and its timers fire; a task that was
  asked to abort reaches an await; `start_capture` and `evaluate` of the expectations
  return (for consensus liveness see below). Workloads are not assumed to end.
- `CfgSync`: the server task and the clients proceed. No node is assumed to restart.
- `ConsensusLiveness`: sleeps end, and a request returns unless it hangs. `EvaluationEnds`
  says that the evaluation ends or waits forever for such a request.
- `TxInclusion`: sleeps end; a submission that does not return is ended by the runner.
- `ChaosRestart`: time passes, a task whose sleep is over is polled, and a restart
  ends (it has a timeout).
- `ComposeDeploy`, `K8sDeploy`: requests, commands and waits end by themselves or by their
  timeouts, unless they hang in one of the stages `Untimed`. `DeployEnds` says that
  deployment and cleanup end, or hang there forever. In `K8sDeploy` these stages come
  before the cleanup, so that a cleanup always ends; in `ComposeDeploy` `docker rm` is
  part of it. Nothing is assumed of a namespace that terminates.
- `LocalDeploy`: the deployment is polled, its timeouts fire (for the readiness check
  strong fairness, since the loop goes through states in which it does not wait), a
  node that is not stuck answers, and who has the runner drops it. No node is assumed
  to come up or to connect. `BringUpEnds` names the two waits without a timeout.

`ScenarioBuild` has no liveness: a caller may stop calling.

## Proofs

The theorems hold for all values of the constants that satisfy the ASSUMEs of the
specifications. A `...Proofs` module extends the specification that it is about. Two
modules have more than one: `WorkflowProofs` extends `ConsensusLiveness` and has
`ChaosRestart` and `TxInclusion` as instances, and `ComposeDeployProofs` extends
`ComposeDeploy` and has `CfgSync`, the server that a compose deployment runs, as an
instance. The assumptions of an instance are hypotheses of the theorems about it, and
its theorems have names of their own (`SyncInvariant`, `SyncSafety`). The invariants that
the runs check are seldom inductive. Each module therefore begins with an inductive
invariant `IInv` (theorem `Invariant`), and the theorems named below follow from it.

**BlockFeed** (any tree of blocks with heights, any capacity, captures and number of
failures): `SafetyHolds`, `ParentBeforeChild`, `SeenMeansIngested`, `StatsAreExact`,
`CapturesAreExact`. Added are: the stack is a branch, each entry the parent of the one
below (`StackIsBranch`); the cursor of the walk is the parent of
the top (`CursorIsBelow`); when the walk is over, the parent of the top has been
ingested (`TopIsReady`); and the seen set is closed under parents
(`SeenIsClosed`). Closure is what makes stopping at the first seen block sound. The
walk never leaves the tree because the number of steps left equals the height of the
cursor. `StatsAreExact` and `CapturesAreExact` compare counters with sums over sets: a
section on sums over finite sets shows that adding an element adds its value, whatever
the order in which the sum is taken. The counter of `BlockStats` is inductive by itself,
once no block is ingested twice. A capture needs `CaptureInv`: its position is within
what was sent, the records that it passed are those from its subscription on, and it has
counted no more than was due, and all of it if it skipped none. That a capture which has
ended went through everything (`DoneInv`) rests on the scanner being gone by then.

**ScenarioRunner** (any set of workloads, any number of expectations):
`SafetyHolds`, `SuccessIsSound`, `JudgedInQuiet`, `EarlyIsFinished`, `KeepsContract`.
Added are: a result that was joined is fine unless the run has failed
(`JoinedAreFine`); from `settle` on every task was joined (`JoinedBeforeJudged`); a
success means no failed expectation (`VerdictMatches`); and where the guard is in
each state (`GuardInv`). `EarlyIsFinished` needs in addition that nobody is told to
abort while the runner waits for its timer (`EarlyInv`): a cancelled task would be
joined like a finished one. `KeepsContract` shows that initial states map to
initial states and every step to a step of `RunContract` or a stutter; a workload is a
user of the contract (`UserOf`), told to stop when its task was asked to abort. A failure
maps to one step that tells all tasks, by the drop of the JoinSet, and releases the
resources.

**LocalNodes** (any callers, names, descriptors and number of starts): `StateDescribed`,
`OnlyFailedStartsLeak`, and, as long as no two calls overlap, `NamesHold`. Whatever
overlaps, every process has at most one owner, a node or a waiting call (`ProcsInv`).
Without overlap a call finds in its second critical section the state that it left in
the first (`AloneInv`); hence each node has the port of its index and a label of its
own (`NodesInv`), the clients follow the nodes but for the one that is being
registered (`ClientsInv`), and a process can lose its port only to a leaked one
(`UpInv`).

**CfgSync** (any number of hosts, addresses, attempts and restarts): `SyncSafety`.
`HandedOutOnce` says that all configurations in use were handed out for one sorting of a
batch with as many hosts as nodes. Distinctness follows at once. That each node has its
own (`SortedByNode`) needs two facts: a batch of that size without a node twice has all
nodes, and an increasing function of `0..N-1` into itself is the identity
(`IncreasingIsIdentity`).

**ConsensusLiveness** (any number of nodes, settings, retries): `ConsensusSafety`,
`NoFalseAlarms`. A sample lies between the height of its node at the beginning and its
height now (`SamplesInv`); every node that was asked is sampled or reported
(`CollectInv`); one sample is the highest (`LeaderInv`), which gives `MaxSample` its
meaning; and the verdict is what `report` computes (`VerdictInv`). `NoFalseAlarms` needs
`MIN_PROGRESS_BLOCKS > 0` (the code has 5): with 0, a hint of 0 would count as reached
while the target is the leader's height.

**ChaosRestart** (any durations): `ChaosTypes`, `CooldownHolds`. The time since a restart
and the cooldown that is left make up the target cooldown (`ChaosInv`).

**TxInclusion** (any accounts, limits, rates, intervals, clients, branches):
`InclusionSafety`. The counter is at least the number of included transactions, and
exactly that unless some transaction was included twice (`TxCounted`); only planned
transactions, which are the tracked ones, are ever accepted (`TxPlanned`).

**ComposeDeploy** (any number of attempts for the feed): `SafetyHolds`, `StackServed`. The
cfgsync handle is the right to remove the container, held by one owner at a time
(`HandleInv`), and a command that outlived its timeout only adds to what its own
failure explains (`InflightInv`). That a stage may hang changes nothing for safety.

**K8sDeploy** (any number of nodes and polls): `SafetyHolds`, and the action property
`PreserveHolds`. The guard is held from the release until a cleanup begins (`StageInv`);
with the flag, no cleanup gets to a command, so none is in flight later (`PreserveInv`).

**LocalDeploy** (topologies of any size, any number of faults): `SafetyHolds`,
`TimeoutIsHonest`. A process that runs is held, waited for or abandoned (`RunningInv`), and
the loop goes on only with statuses that are not enough (`ReportInv`).

**ScenarioBuild** (any numbers of nodes, users and calls, any ids, wallets, durations,
funds, delays, slot times and coefficients): `SafetyHolds`, `LastRequestWins`,
`GenesisHolds`, `BuiltIsRunnable`. The invariant has the shapes of the builder and of its
sub-builders (`Shapes`; a limit of users and a rate are never zero), the pairing of
transaction workloads and expectations (`FlowsInv`), the order of the delays
(`ChaosInv`), and that the accounts `build` would make now are those that were asked for
last (`AskedInv`), which is what `LastRequestWins` comes from. `topology()` may start over
only because its builder has asked for nothing yet, which `AskedInv` says too. The other
theorems are about single steps, `Build`, `CreateGeneralConfigs` and `ServeConfigs`, and
about what they compute. `GenesisHolds`: each node pushes three notes, so that the blend
note of node `i` is output `3i - 2`, counted from zero (`NotesInPlace`), which is where its
declaration looks; the sum of the outputs follows. The lemma is stated for any genesis
with these outputs and declarations, and so serves the three generators (`MadeIsSound`,
`ServedGenesis`). `BuiltIsRunnable`: the hint is at most a slot and at least one
millisecond, so that a run of two slots has an interval and the expected blocks fit
(`HintFits`, `BuildMetricsFit`); every account is found among the outputs (`AllMatched`)
at an output with its key (`OutputHasKey`), hence workload and expectation count the same
wallets; and cfgsync's genesis has the same outputs (`ServedPlansAgree`). Nothing is
assumed of the keys of a wallet.

What the recursive definitions of the model compute (`OfKind`, `Total`, `NodeNotes`,
`MatchedAccounts`, sums over sets) is proved for sequences and sets of any length. They
are recursive functions, for which `Recursion` shows that the function exists, and
`UpTo`, from the least-number principle, that a fact holds along it.

Models changed because of their proofs. The sequences of `Topology` and `ScenarioBuild`
are gone through by recursive functions rather than by folds, and `MatchedAccounts` is an
operator of its own. The ports that `LocalNodes` gives to nodes
beyond the configured ones now lie above those of the descriptors, whatever their number,
as the operating system hands out ports that are free. The assumptions of `LocalDeploy`
and `ConsensusLiveness` exclude empty topologies, for which `participant_count`
(`core/src/topology/config.rs:220`) is an error, and a minimum progress of zero, which is
a constant of the code.

Only model-checked: all liveness properties (fairness and ENABLED are out of the prover's
reach); `ReadyMeansConnected`, which holds for the checked sizes and not for all
(`CountsMayMislead`); and `UniformIsFair`, which TLC evaluates for up to five users. All
other invariants and action properties of the runs are stated by a theorem.

## Not modelled, and what comes next

1. The readiness checks of manual clusters (`deployers/local/src/manual/readiness.rs`, with
   a timeout per request) and of remote endpoints, and `http_probe`: the same loop, with
   other ways to ask.
2. A composition of runner, block feed and a deployment's guard: what is still
   running when `run` returns. `LocalDeploy` has the drop of the runner as one step.

Left out for good: text generation (descriptors, templates, Helm values), reading of
environment variables, HTTP request code, metrics queries, the cryptography of
genesis and keys, shell scripts other than the start of a node container, examples.
