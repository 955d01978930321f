--------------------------- MODULE ComposeDeploy ---------------------------
(***************************************************************************)
(* The compose deployer: the stages that deploy() goes through, what each  *)
(* of them leaves on the machine (a workspace directory, the cfgsync       *)
(* container, the compose stack, the block feed task), and who takes it    *)
(* away again when a stage fails and when the run is over.                 *)
(*                                                                         *)
(* docker and the nodes are external.  A command succeeds, fails, possibly *)
(* with part of its effect, or exceeds its timeout; then the caller goes   *)
(* on and the child process, which nobody kills, may still finish.  Where  *)
(* the code sets no timeout, it may also wait forever.                     *)
(***************************************************************************)
EXTENDS Naturals

CONSTANT BLOCK_FEED_MAX_ATTEMPTS

ASSUME AttemptsAssumption == BLOCK_FEED_MAX_ATTEMPTS \in Nat \ {0}

VARIABLES
    readiness,  \* the deployer's readiness_checks
    preserve,   \* COMPOSE_RUNNER_PRESERVE or TESTNET_RUNNER_PRESERVE is set
    pc,         \* the stage of deploy(), of the run, or of a cleanup
    cause,      \* the stage at which deploy() failed, or "none"
    attempt,    \* the attempt to start the block feed
    workspace,  \* the temporary directory with the compose file
    handle,     \* CfgsyncServerHandle: none, live or stopped
    container,  \* the cfgsync container
    stack,      \* the containers of the compose project
    inflight,   \* docker commands that outlived their timeout
    feed,       \* the block feed task
    removals,   \* docker rm commands issued for the cfgsync container
    fault,      \* a command that takes something away failed or timed out
    hangs       \* the stage waits for something that never comes

vars == <<readiness, preserve, pc, cause, attempt, workspace, handle, container,
          stack, inflight, feed, removals, fault, hangs>>

config == <<readiness, preserve>>
docker == <<handle, container, stack, inflight, removals, fault>>

\* Stages after which the environment exists, and a failure of which goes
\* through StackEnvironment::fail.
Guarded == {"ports", "http", "remote", "clients", "feed"}
\* The stages with a stack that somebody uses or is still to take down.
StackStages == Guarded \cup {"grace", "telemetry", "running", "dump", "down"}
\* deploy() returned an error, before or after a cleanup, or the run is over.
Terminal == {"failed", "cleaned", "ended"}
\* The stages that wait without a timeout of their own: for a node that may take
\* a request and never answer it, in the HTTP probes, which look at their deadline
\* between two requests only, in the first collection of the readiness check, in
\* the first catch-up of the block feed, and in an expectation of the run; for
\* docker compose logs; and for docker rm.
Untimed == {"http", "remote", "feed", "running"} \cup {"upLogs", "dump"}
           \cup {"upFailed", "shutdown"}

-----------------------------------------------------------------------------
\* A stage with no effect that outlasts it.
Passes(from, to) ==
    /\ pc = from
    /\ pc' = to
    /\ UNCHANGED <<config, cause, attempt, workspace, docker, feed>>

\* A stage before the first container fails: the TempDir goes with the error.
Abandon(stage) ==
    /\ pc = stage
    /\ pc' = "failed"
    /\ cause' = stage
    /\ workspace' = IF workspace = "held" THEN "deleted" ELSE workspace
    /\ UNCHANGED <<config, attempt, docker, feed>>

\* validate_environment: docker is there, the topology has a node.
ValidateEnvironment == Passes("validate", "observability") \/ Abandon("validate")

ResolveObservability == Passes("observability", "workspace") \/ Abandon("observability")

CreateWorkspace ==
    \/ Abandon("workspace")
    \/ /\ pc = "workspace"
       /\ pc' = "configure"
       /\ workspace' = "held"
       /\ UNCHANGED <<config, cause, attempt, docker, feed>>

\* A port is chosen and cfgsync.yaml is written.
ConfigureCfgsync == Passes("configure", "image") \/ Abandon("configure")

\* The image is there or can be built.
EnsureImage == Passes("image", "render") \/ Abandon("image")

RenderCompose == Passes("render", "cfgsync") \/ Abandon("render")

LaunchCfgsync ==
    /\ pc = "cfgsync"
    /\ pc' = "up"
    /\ container' = "up"
    /\ handle' = "live"
    /\ UNCHANGED <<config, cause, attempt, workspace, stack, inflight, feed, removals, fault>>

\* docker run fails, with or without having created the container, or is not
\* done in time.  There is no handle: no one will remove the container.
LaunchCfgsyncFails ==
    /\ pc = "cfgsync"
    /\ pc' = "failed"
    /\ cause' = "cfgsync"
    /\ workspace' = "deleted"
    /\ \/ container' \in {"absent", "up"} /\ UNCHANGED inflight
       \/ inflight' = inflight \cup {"run"} /\ UNCHANGED container
    /\ UNCHANGED <<config, attempt, handle, stack, feed, removals, fault>>

\* CfgsyncServerHandle::shutdown, also called when a handle is dropped.
ShutdownCfgsync ==
    IF handle = "live"
      THEN /\ handle' = "stopped"
           /\ removals' = removals + 1
           /\ \/ container' = "absent" /\ UNCHANGED fault
              \/ fault' = TRUE /\ UNCHANGED container
      ELSE UNCHANGED <<handle, removals, container, fault>>

ComposeUp ==
    /\ pc = "up"
    /\ pc' = "ports"
    /\ stack' = "up"
    /\ UNCHANGED <<config, cause, attempt, workspace, handle, container, inflight, feed, removals, fault>>

\* docker compose up fails, with none or some of the containers started, or
\* is not done in time.
ComposeUpFails ==
    /\ pc = "up"
    /\ pc' = "upFailed"
    /\ cause' = "up"
    /\ \/ stack' \in {"none", "partial"} /\ UNCHANGED inflight
       \/ inflight' = inflight \cup {"up"} /\ UNCHANGED stack
    /\ UNCHANGED <<config, attempt, workspace, handle, container, feed, removals, fault>>

\* cfgsync is shut down.
ShutdownAfterUp ==
    /\ pc = "upFailed"
    /\ pc' = "upLogs"
    /\ ShutdownCfgsync
    /\ UNCHANGED <<config, cause, attempt, workspace, stack, inflight, feed>>

\* The logs are dumped, cfgsync is shut down once more, and the handle and the
\* workspace are dropped.
PrepareFails ==
    /\ pc = "upLogs"
    /\ pc' = "failed"
    /\ ShutdownCfgsync
    /\ workspace' = "deleted"
    /\ UNCHANGED <<config, cause, attempt, stack, inflight, feed>>

-----------------------------------------------------------------------------
\* Mutant: the error is returned and the environment is dropped.
FailStage_drops(stage) ==
    /\ pc = stage
    /\ pc' = "shutdown"
    /\ cause' = stage
    /\ workspace' = "deleted"
    /\ UNCHANGED <<config, attempt, docker, feed>>

\* StackEnvironment::fail begins by collecting the logs of the stack.
FailStage(stage) ==
    /\ pc = stage
    /\ pc' = "dump"
    /\ cause' = stage
    /\ UNCHANGED <<config, attempt, workspace, docker, feed>>

DiscoverPorts ==
    \/ Passes("ports", IF readiness THEN "http" ELSE "grace")
    \/ FailStage("ports")

\* ReadinessChecker::wait_all
NodesReady == Passes("http", "remote") \/ FailStage("http")
RemoteReady == Passes("remote", "clients") \/ FailStage("remote")

GracePeriod == Passes("grace", "clients")

BuildClients == Passes("clients", "telemetry") \/ FailStage("clients")

Telemetry == Passes("telemetry", "feed")

\* telemetry_handle()? returns without fail: the environment is dropped, and
\* with it the workspace and then the cfgsync handle.  No one takes the stack down.
TelemetryFails ==
    /\ pc = "telemetry"
    /\ pc' = "shutdown"
    /\ cause' = "telemetry"
    /\ workspace' = "deleted"
    /\ UNCHANGED <<config, attempt, docker, feed>>

\* The feed is started and the environment becomes the run's cleanup guard.
StartBlockFeed ==
    /\ pc = "feed"
    /\ pc' = "running"
    /\ feed' = "running"
    /\ UNCHANGED <<config, cause, attempt, workspace, docker>>

FeedAttemptFails ==
    /\ pc = "feed"
    /\ attempt < BLOCK_FEED_MAX_ATTEMPTS
    /\ attempt' = attempt + 1
    /\ UNCHANGED <<config, pc, cause, workspace, docker, feed>>

\* Mutant: the attempts start anew.
FeedFails_retriesAgain ==
    /\ pc = "feed"
    /\ attempt = BLOCK_FEED_MAX_ATTEMPTS
    /\ attempt' = 1
    /\ UNCHANGED <<config, pc, cause, workspace, docker, feed>>

FeedFails == attempt = BLOCK_FEED_MAX_ATTEMPTS /\ FailStage("feed")

-----------------------------------------------------------------------------
(* RunnerCleanup::cleanup, from StackEnvironment::fail and from the guard.   *)

\* should_preserve: the workspace is kept and the cleanup returns, which
\* drops the cfgsync handle.
Preserve ==
    /\ preserve
    /\ pc' = "shutdown"
    /\ workspace' = "kept"
    /\ UNCHANGED <<config, cause, attempt, docker>>

\* Mutant: the workspace is not handed over to the cleanup.
LogsDumped_dropsWorkspace ==
    /\ pc = "dump"
    /\ \/ Preserve
       \/ /\ ~preserve
          /\ pc' = "down"
          /\ workspace' = "deleted"
          /\ UNCHANGED <<config, cause, attempt, docker>>
    /\ UNCHANGED feed

\* The logs are out: the cleanup of a failed deployment.
LogsDumped ==
    /\ pc = "dump"
    /\ \/ Preserve
       \/ /\ ~preserve
          /\ pc' = "down"
          /\ UNCHANGED <<config, cause, attempt, workspace, docker>>
    /\ UNCHANGED feed

\* The runner runs the guard: the block feed first.
RunOver ==
    /\ pc = "running"
    /\ feed' = "aborted"
    /\ \/ Preserve
       \/ /\ ~preserve
          /\ pc' = "down"
          /\ UNCHANGED <<config, cause, attempt, workspace, docker>>

\* docker compose down --volumes, on a thread of its own that is joined.
TeardownCompose ==
    /\ pc = "down"
    /\ pc' = "shutdown"
    /\ \/ stack' = "none" /\ UNCHANGED <<inflight, fault>>
       \/ stack' \in {"partial", "up"} /\ fault' = TRUE /\ UNCHANGED inflight
       \/ inflight' = inflight \cup {"down"} /\ fault' = TRUE /\ UNCHANGED stack
    /\ UNCHANGED <<config, cause, attempt, workspace, handle, container, feed, removals>>

\* The cfgsync container is removed, by a cleanup or because its handle is
\* dropped; a workspace that the cleanup still has is dropped after that.
TeardownEnds ==
    /\ pc = "shutdown"
    /\ pc' = CASE cause = "none" -> "ended"
              [] cause = "telemetry" -> "failed"
              [] OTHER -> "cleaned"
    /\ ShutdownCfgsync
    /\ workspace' = IF workspace = "held" THEN "deleted" ELSE workspace
    /\ UNCHANGED <<config, cause, attempt, stack, inflight, feed>>

\* External: a command that outlived its timeout ends, with its effect or not.
DockerFinishes(c) ==
    /\ c \in inflight
    /\ inflight' = inflight \ {c}
    /\ \/ c = "run" /\ container' \in {"absent", "up"} /\ UNCHANGED stack
       \/ c = "up" /\ stack' \in {"none", "partial", "up"} /\ UNCHANGED container
       \/ c = "down" /\ stack' \in {stack, "partial", "none"} /\ UNCHANGED container
    /\ UNCHANGED <<config, pc, cause, attempt, workspace, handle, feed, removals, fault>>

-----------------------------------------------------------------------------
Init ==
    /\ readiness \in BOOLEAN
    /\ preserve \in BOOLEAN
    /\ pc = "validate"
    /\ cause = "none"
    /\ attempt = 1
    /\ workspace = "none"
    /\ handle = "none"
    /\ container = "absent"
    /\ stack = "none"
    /\ inflight = {}
    /\ feed = "none"
    /\ removals = 0
    /\ fault = FALSE
    /\ hangs = FALSE

\* A stage of deploy(), of the run or of a cleanup.
Step ==
    \/ ValidateEnvironment \/ ResolveObservability \/ CreateWorkspace
    \/ ConfigureCfgsync \/ EnsureImage \/ RenderCompose
    \/ LaunchCfgsync \/ LaunchCfgsyncFails
    \/ ComposeUp \/ ComposeUpFails \/ ShutdownAfterUp \/ PrepareFails
    \/ DiscoverPorts \/ NodesReady \/ RemoteReady \/ GracePeriod
    \/ BuildClients \/ Telemetry \/ TelemetryFails
    \/ StartBlockFeed \/ FeedAttemptFails \/ FeedFails
    \/ LogsDumped \/ RunOver \/ TeardownCompose \/ TeardownEnds

Proceed == ~hangs /\ UNCHANGED hangs /\ Step

\* What a stage without a timeout waits for never comes.
Hang ==
    /\ pc \in Untimed /\ ~hangs
    /\ hangs' = TRUE
    /\ UNCHANGED <<config, pc, cause, attempt, workspace, docker, feed>>

Docker == UNCHANGED hangs /\ \E c \in {"run", "up", "down"} : DockerFinishes(c)

Next == Proceed \/ Hang \/ Docker

Spec == Init /\ [][Next]_vars

\* Commands and waits end, by themselves or by their timeouts, unless they hang.
FairSpec == Spec /\ WF_vars(Proceed)

-----------------------------------------------------------------------------
(* Properties                                                              *)

Stages ==
    {"validate", "observability", "workspace", "configure", "image", "render", "cfgsync",
     "up", "upFailed", "upLogs", "shutdown"} \cup StackStages \cup Terminal

\* The types of the variables; no more than the given attempts for the feed.
TypeOK ==
    /\ readiness \in BOOLEAN /\ preserve \in BOOLEAN
    /\ pc \in Stages /\ cause \in Stages \cup {"none"}
    /\ attempt \in 1..BLOCK_FEED_MAX_ATTEMPTS
    /\ workspace \in {"none", "held", "deleted", "kept"}
    /\ handle \in {"none", "live", "stopped"}
    /\ container \in {"absent", "up"} /\ stack \in {"none", "partial", "up"}
    /\ inflight \subseteq {"run", "up", "down"}
    /\ feed \in {"none", "running", "aborted"}
    /\ removals \in 0..1 /\ fault \in BOOLEAN /\ hangs \in BOOLEAN

\* As long as deploy(), the run or a cleanup works with the stack, its compose
\* file is there, its nodes can fetch their configuration, and the block feed
\* has nodes to read from.
StackIsServed ==
    /\ pc \in StackStages => stack = "up" /\ workspace = "held" /\ container = "up"
    /\ feed = "running" => pc = "running"

\* What deploy() or a run leaves behind without being told to preserve it is
\* explained: by a command of the cleanup that did not succeed, by docker run
\* for the cfgsync container, or, for the stack, by the two failures after which
\* no one takes it down.
LeaksExplained ==
    pc \in Terminal /\ ~preserve /\ ~fault =>
        /\ workspace \in {"none", "deleted"}
        /\ container = "up" => cause = "cfgsync"
        /\ stack # "none" => cause \in {"up", "telemetry"}

\* The invariant of the deployer; with the types, that explicit shutdowns and
\* drops of the cfgsync handle add up to at most one docker rm.
Safety == TypeOK /\ LeaksExplained

\* deploy() returns, and so does a run's guard, whichever commands fail or exceed
\* their timeouts and however often the block feed has to be started, unless it
\* waits forever in one of the stages without a timeout.
DeployEnds == <>(pc \in Terminal) \/ <>[](hangs /\ pc \in Untimed)
=============================================================================
