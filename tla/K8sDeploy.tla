----------------------------- MODULE K8sDeploy -----------------------------
(***************************************************************************)
(* The Kubernetes deployer: the stages of deploy(), the helm release and   *)
(* its namespace, the kubectl port-forward processes it falls back to, and *)
(* the RunnerCleanup guard with its two attempts (on the caller's thread,  *)
(* then on a thread of its own), each under a timeout.                     *)
(*                                                                         *)
(* helm, kubectl, the Kubernetes API and the nodes are external.  A        *)
(* request succeeds or fails, possibly after it took effect, or never      *)
(* returns where the code sets no timeout; a command whose caller timed    *)
(* out is not killed and may still finish.                                 *)
(***************************************************************************)
EXTENDS Naturals

CONSTANTS
    MaxNodes,   \* bound: nodes of the topology
    MAX_POLLS   \* NAMESPACE_TERMINATION_POLL_ATTEMPTS (60)

ASSUME K8sAssumption == MaxNodes \in Nat /\ MAX_POLLS \in Nat \ {0}

VARIABLES
    readiness,  \* the deployer's readiness_checks
    preserve,   \* K8S_RUNNER_PRESERVE is set
    nodes,      \* how many nodes the topology has
    pc,         \* the stage of deploy(), of the run, or of a cleanup
    cause,      \* the stage at which deploy() failed, or "none"
    idx,        \* the nodes whose deployment and ports are known
    assets,     \* RunnerAssets with its temporary directory
    namespace,  \* absent, active or terminating
    release,    \* the helm release: none or installed
    guard,      \* RunnerCleanup: none, held, used, or dropped without use
    forwards,   \* kubectl port-forward processes that run
    feed,       \* the block feed task
    attempt,    \* the cleanup attempt: blocking or thread
    polls,      \* polls for the end of the namespace
    inflight,   \* commands that outlived their cleanup attempt
    outcome,    \* what the last cleanup attempt knows
    hangs       \* the stage waits for something that never comes

config == <<readiness, preserve, nodes>>
cluster == <<namespace, release, inflight>>
cleanupVars == <<attempt, polls, outcome>>
vars == <<config, pc, cause, idx, assets, cluster, guard, forwards, feed, cleanupVars, hangs>>

\* deploy() returned an error, or the run is over.
Terminal == {"failed", "ended"}
\* The steps of RunnerCleanup::cleanup_async that wait for something.
CleanupSteps == {"uninstall", "delete", "kubectl", "poll"}
\* The stages that wait without a timeout of their own: helm install and the pods'
\* logs run as long as they like, and a node may take a request and never answer
\* it, in the HTTP probes, which look at their deadline between two requests only,
\* in the first collection of the readiness check, in the first catch-up of the
\* block feed, and in an expectation of the run.
Untimed == {"install", "wait", "forward", "readiness", "feed", "running", "dump"}

-----------------------------------------------------------------------------
(* Up to the release                                                       *)

\* A stage with no effect that outlasts it.
Passes(from, to) ==
    /\ pc = from
    /\ pc' = to
    /\ UNCHANGED <<config, cause, idx, assets, cluster, guard, forwards, feed, cleanupVars>>

\* deploy() returns an error before there is anything in the cluster.
Abandon(stage) ==
    /\ pc = stage
    /\ pc' = "failed"
    /\ cause' = stage
    /\ UNCHANGED <<config, idx, assets, cluster, guard, forwards, feed, cleanupVars>>

ResolveObservability == Passes("resolve", "topology") \/ Abandon("resolve")

EnsureSupportedTopology ==
    \/ nodes > 0 /\ Passes("topology", "client")
    \/ nodes = 0 /\ Abandon("topology")

InitKubeClient == Passes("client", "assets") \/ Abandon("client")

\* The files for helm are rendered into a temporary directory, or it goes again.
PrepareAssets ==
    \/ Abandon("assets")
    \/ /\ pc = "assets"
       /\ pc' = "install"
       /\ assets' = "held"
       /\ UNCHANGED <<config, cause, idx, cluster, guard, forwards, feed, cleanupVars>>

\* helm install --create-namespace --wait; the guard is made afterwards.
InstallStack ==
    /\ pc = "install"
    /\ pc' = "wait"
    /\ namespace' = "active"
    /\ release' = "installed"
    /\ guard' = "held"
    /\ UNCHANGED <<config, cause, idx, assets, inflight, forwards, feed, cleanupVars>>

\* helm install fails, before or after the namespace and the release were made.
InstallFails ==
    /\ pc = "install"
    /\ pc' = "failed"
    /\ cause' = "install"
    /\ assets' = "deleted"
    /\ namespace' \in {"absent", "active"}
    /\ release' \in IF namespace' = "active" THEN {"none", "installed"} ELSE {"none"}
    /\ UNCHANGED <<config, idx, inflight, guard, forwards, feed, cleanupVars>>

-----------------------------------------------------------------------------
(* wait_for_cluster_ready                                                  *)

\* cleanup_pending and ClusterEnvironment::fail begin with the pods' logs.
FailStage(stage) ==
    /\ pc = stage
    /\ pc' = "dump"
    /\ cause' = stage
    /\ UNCHANGED <<config, idx, assets, cluster, guard, feed, cleanupVars>>

\* A node's deployment is ready and its node ports are found.
NodeReady ==
    /\ pc = "wait" /\ idx < nodes
    /\ idx' = idx + 1
    /\ UNCHANGED <<config, pc, cause, assets, cluster, guard, forwards, feed, cleanupVars>>

\* A deployment or a port is not there in time, or cannot be fetched.
NodeNotReady ==
    /\ idx < nodes
    /\ FailStage("wait")
    /\ UNCHANGED forwards

\* All nodes answer on their node ports, or port forwards are needed.
ProbeNodePorts == idx = nodes /\ (Passes("wait", "readiness") \/ Passes("wait", "forward"))

\* port_forward_service: a kubectl process runs and takes connections.
ForwardPort ==
    /\ pc = "forward" /\ forwards < 2 * nodes
    /\ forwards' = forwards + 1
    /\ UNCHANGED <<config, pc, cause, idx, assets, cluster, guard, feed, cleanupVars>>

\* Mutant: only the complete pairs are stopped.
ForwardFails_keepsFirst ==
    /\ forwards < 2 * nodes
    /\ FailStage("forward")
    /\ forwards' = forwards % 2

\* A process cannot be started, exits, or takes no connection: it is killed with
\* the ones before, of which an unpaired one goes when its handle is dropped.
ForwardFails ==
    /\ forwards < 2 * nodes
    /\ FailStage("forward")
    /\ forwards' = 0

\* The nodes answer through the port forwards, or the forwards are killed.
ProbeForwards ==
    /\ pc = "forward" /\ forwards = 2 * nodes
    /\ \/ Passes("forward", "readiness")
       \/ FailStage("forward") /\ forwards' = 0

-----------------------------------------------------------------------------
(* The environment                                                         *)

\* ensure_cluster_readiness passes or is not asked for; setup_cluster returns and
\* its assets go.
EnsureReadiness ==
    /\ pc = "readiness"
    /\ pc' = "clients"
    /\ assets' = "deleted"
    /\ UNCHANGED <<config, cause, idx, cluster, guard, forwards, feed, cleanupVars>>

\* It fails, and the environment is dropped with the error: that kills the port
\* forwards, but a RunnerCleanup that is dropped does nothing.
ReadinessFails ==
    /\ readiness
    /\ pc = "readiness"
    /\ pc' = "failed"
    /\ cause' = "readiness"
    /\ assets' = "deleted"
    /\ guard' = "dropped"
    /\ forwards' = 0
    /\ UNCHANGED <<config, idx, cluster, feed, cleanupVars>>

BuildNodeClients ==
    \/ Passes("clients", "telemetry")
    \/ FailStage("clients") /\ UNCHANGED forwards

BuildTelemetry ==
    \/ Passes("telemetry", "feed")
    \/ FailStage("telemetry") /\ UNCHANGED forwards

SpawnBlockFeed ==
    \/ FailStage("feed") /\ UNCHANGED forwards
    \/ /\ pc = "feed"
       /\ pc' = "running"
       /\ feed' = "running"
       /\ UNCHANGED <<config, cause, idx, assets, cluster, guard, forwards, cleanupVars>>

-----------------------------------------------------------------------------
(* RunnerCleanup                                                           *)

\* A cleanup is over: deploy() returns its error, or the run is over.
Finish(result) ==
    /\ pc' = IF cause = "none" THEN "ended" ELSE "failed"
    /\ assets' = "deleted"
    /\ outcome' = result

\* Mutant: the thread of its own does not look at the flag.
Begin_ignoresPreserve(kind) ==
    /\ attempt' = kind
    /\ IF preserve /\ kind = "blocking"
         THEN Finish("preserved")
         ELSE pc' = "uninstall" /\ UNCHANGED <<assets, outcome>>

\* cleanup_async begins, on a thread of this kind.
Begin(kind) ==
    /\ attempt' = kind
    /\ IF preserve
         THEN Finish("preserved")
         ELSE pc' = "uninstall" /\ UNCHANGED <<assets, outcome>>

\* The logs are dumped and the guard is used; a runtime is there, so cleanup goes
\* to a thread.  ClusterEnvironment::fail kills the port forwards before that,
\* cleanup_pending has none to kill.
LogsDumped ==
    /\ pc = "dump"
    /\ forwards' = IF cause \in {"wait", "forward"} THEN forwards ELSE 0
    /\ guard' = "used"
    /\ Begin("thread")
    /\ UNCHANGED <<config, cause, idx, cluster, feed, polls>>

\* K8sCleanupGuard::cleanup, inside a runtime or outside of one.
RunOver ==
    /\ pc = "running"
    /\ feed' = "aborted"
    /\ forwards' = 0
    /\ guard' = "used"
    /\ \E kind \in {"blocking", "thread"} : Begin(kind)
    /\ UNCHANGED <<config, cause, idx, cluster, polls>>

\* helm uninstall, whose failure is only logged.
Uninstall ==
    /\ pc = "uninstall"
    /\ pc' = "delete"
    /\ release' \in {release, "none"}
    /\ UNCHANGED <<config, cause, idx, assets, namespace, inflight, guard, forwards, feed,
                   cleanupVars>>

\* A deletion that was asked for may have been taken, whatever the answer is.
MayTerminate ==
    namespace' \in {namespace, IF namespace = "active" THEN "terminating" ELSE namespace}

\* The API accepts the deletion of the namespace.
DeleteViaApi ==
    /\ pc = "delete"
    /\ namespace # "absent"
    /\ namespace' = "terminating"
    /\ pc' = "poll"
    /\ polls' = 0
    /\ UNCHANGED <<config, cause, idx, assets, release, inflight, guard, forwards, feed,
                   attempt, outcome>>

\* It refuses, has no such namespace, or does not answer in time.
ApiFails ==
    /\ pc = "delete"
    /\ pc' = "kubectl"
    /\ MayTerminate
    /\ UNCHANGED <<config, cause, idx, assets, release, inflight, guard, forwards, feed,
                   cleanupVars>>

\* kubectl delete --wait returns when the namespace is gone.
DeleteViaCli ==
    /\ pc = "kubectl"
    /\ namespace # "absent"
    /\ namespace' = "absent"
    /\ release' = "none"
    /\ pc' = "poll"
    /\ polls' = 0
    /\ UNCHANGED <<config, cause, idx, assets, inflight, guard, forwards, feed, attempt, outcome>>

CliFails ==
    /\ pc = "kubectl"
    /\ Finish("unknown")
    /\ MayTerminate
    /\ UNCHANGED <<config, cause, idx, release, inflight, guard, forwards, feed, attempt, polls>>

\* Mutant: the wait has no end.
PollPresent_forever ==
    /\ pc = "poll"
    /\ namespace # "absent"
    /\ polls' = (polls + 1) % MAX_POLLS
    /\ UNCHANGED <<pc, assets, outcome, config, cause, idx, cluster, guard, forwards, feed, attempt>>

\* wait_for_namespace_termination: it is still there.
PollPresent ==
    /\ pc = "poll"
    /\ namespace # "absent"
    /\ IF polls + 1 = MAX_POLLS
         THEN Finish("unknown") /\ UNCHANGED polls
         ELSE polls' = polls + 1 /\ UNCHANGED <<pc, assets, outcome>>
    /\ UNCHANGED <<config, cause, idx, cluster, guard, forwards, feed, attempt>>

PollGone ==
    /\ pc = "poll"
    /\ namespace = "absent"
    /\ Finish("gone")
    /\ UNCHANGED <<config, cause, idx, cluster, guard, forwards, feed, attempt, polls>>

\* A poll that fails counts as the end of the namespace.
PollFails ==
    /\ pc = "poll"
    /\ Finish("unknown")
    /\ UNCHANGED <<config, cause, idx, cluster, guard, forwards, feed, attempt, polls>>

\* CLEANUP_TIMEOUT is over, or there was no runtime for the attempt.  A command
\* that runs goes on.  After the caller's thread comes the thread of its own;
\* after that nothing.
AttemptTimesOut ==
    /\ pc \in CleanupSteps
    /\ inflight' \in {inflight, inflight \cup ({pc} \cap {"uninstall", "kubectl"})}
    /\ IF pc \in {"delete", "kubectl"} THEN MayTerminate ELSE UNCHANGED namespace
    /\ IF attempt = "blocking"
         THEN Begin("thread")
         ELSE Finish("unknown") /\ UNCHANGED attempt
    /\ UNCHANGED <<config, cause, idx, release, guard, forwards, feed, polls>>

-----------------------------------------------------------------------------
(* The cluster                                                             *)

\* A namespace that is being deleted is gone at some time, with its release.
NamespaceGone ==
    /\ namespace = "terminating"
    /\ namespace' = "absent"
    /\ release' = "none"
    /\ UNCHANGED <<config, pc, cause, idx, assets, inflight, guard, forwards, feed, cleanupVars>>

\* A command that was left behind takes effect.
CommandFinishes ==
    /\ \/ /\ "uninstall" \in inflight
          /\ inflight' = inflight \ {"uninstall"}
          /\ release' = "none"
          /\ UNCHANGED namespace
       \/ /\ "kubectl" \in inflight
          /\ inflight' = inflight \ {"kubectl"}
          /\ namespace' = "absent"
          /\ release' = "none"
    /\ UNCHANGED <<config, pc, cause, idx, assets, guard, forwards, feed, cleanupVars>>

-----------------------------------------------------------------------------
Init ==
    /\ readiness \in BOOLEAN /\ preserve \in BOOLEAN /\ nodes \in 0..MaxNodes
    /\ pc = "resolve" /\ cause = "none" /\ idx = 0
    /\ assets = "none"
    /\ namespace = "absent" /\ release = "none" /\ inflight = {}
    /\ guard = "none" /\ forwards = 0 /\ feed = "none"
    /\ attempt = "none" /\ polls = 0 /\ outcome = "none" /\ hangs = FALSE

Setup ==
    \/ ResolveObservability \/ EnsureSupportedTopology \/ InitKubeClient \/ PrepareAssets
    \/ InstallStack \/ InstallFails
    \/ NodeReady \/ NodeNotReady \/ ProbeNodePorts
    \/ ForwardPort \/ ForwardFails \/ ProbeForwards
    \/ EnsureReadiness \/ ReadinessFails
    \/ BuildNodeClients \/ BuildTelemetry \/ SpawnBlockFeed

Teardown ==
    \/ LogsDumped \/ RunOver
    \/ Uninstall \/ DeleteViaApi \/ ApiFails \/ DeleteViaCli \/ CliFails
    \/ PollPresent \/ PollGone \/ PollFails \/ AttemptTimesOut

\* deploy(), or a cleanup, goes on.
Proceed == ~hangs /\ UNCHANGED hangs /\ (Setup \/ Teardown)

\* What a stage without a timeout waits for never comes.
Hang ==
    /\ pc \in Untimed /\ ~hangs
    /\ pc = "readiness" => readiness
    /\ hangs' = TRUE
    /\ UNCHANGED <<config, pc, cause, idx, assets, cluster, guard, forwards, feed, cleanupVars>>

Cluster == UNCHANGED hangs /\ (NamespaceGone \/ CommandFinishes)

Next == Proceed \/ Hang \/ Cluster

Spec == Init /\ [][Next]_vars

\* Requests, commands and waits end, by themselves or by their timeouts, unless
\* they hang.  Nothing is assumed of a namespace that is being deleted.
FairSpec == Spec /\ WF_vars(Proceed)

-----------------------------------------------------------------------------
(* Properties                                                              *)

\* The types of the variables.
TypeOK ==
    /\ readiness \in BOOLEAN /\ preserve \in BOOLEAN /\ nodes \in 0..MaxNodes
    /\ idx \in 0..nodes /\ forwards \in 0..(2 * nodes) /\ polls \in 0..(MAX_POLLS - 1)
    /\ assets \in {"none", "held", "deleted"}
    /\ namespace \in {"absent", "active", "terminating"} /\ release \in {"none", "installed"}
    /\ guard \in {"none", "held", "used", "dropped"}
    /\ feed \in {"none", "running", "aborted"} /\ attempt \in {"none", "blocking", "thread"}
    /\ inflight \subseteq {"uninstall", "kubectl"}
    /\ outcome \in {"none", "preserved", "gone", "unknown"} /\ hangs \in BOOLEAN

\* What is left in the cluster when deploy() has failed or the run is over has a
\* reason: the flag to preserve it, a cleanup that could not finish and said so,
\* helm install, for which there is no guard yet, or the readiness check, whose
\* error drops the guard unused.  A cleanup that saw the namespace gone is
\* right, also after a first attempt whose commands still run.
LeaksExplained ==
    pc \in Terminal =>
        /\ namespace # "absent" => \/ outcome \in {"preserved", "unknown"}
                                   \/ cause \in {"install", "readiness"}
        /\ release = "installed" => namespace # "absent"
        /\ guard # "held" /\ feed # "running"

\* Port forwards are there only for a deployment that goes on: every way out,
\* also a failure half-way through the group, has stopped the processes.
ForwardsStopped ==
    forwards > 0 => pc \in {"forward", "readiness", "clients", "telemetry", "feed", "running", "dump"}

\* The types of the variables; what is left in the cluster is explained; no port
\* forward outlives its deployment.
Safety == TypeOK /\ LeaksExplained /\ ForwardsStopped

\* With the preserve flag nothing takes away what helm install has made, in
\* none of the attempts and threads of a cleanup.
PreserveKept ==
    [][preserve => /\ namespace = "active" => namespace' = "active"
                   /\ release = "installed" => release' = "installed"]_vars

\* deploy() returns, and so does the guard of a run, although helm uninstall,
\* kubectl and the namespace may hang, unless it waits forever in one of the
\* stages without a timeout; a cleanup, once it has begun, always ends.
DeployEnds == <>(pc \in Terminal) \/ <>[](hangs /\ pc \in Untimed)
=============================================================================
