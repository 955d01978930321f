------------------------ MODULE ComposeDeployProofs ------------------------
(***************************************************************************)
(* Proofs about ComposeDeploy for any number of attempts to start the      *)
(* block feed: what is left on the machine is explained, cfgsync is        *)
(* removed at most once, and a stack that is in use is served.  And about  *)
(* CfgSync, the configuration server that compose runs for its nodes, for  *)
(* every number of hosts, addresses, attempts and restarts: it hands out   *)
(* distinct configurations, and each node its own unless a restarted       *)
(* container registered twice.                                             *)
(***************************************************************************)
EXTENDS ComposeDeploy, FiniteSetTheorems, TLAPS

\* The stages before the first container, without and with a workspace.
NoWorkspace == {"validate", "observability", "workspace"}
HasWorkspace == {"configure", "image", "render", "cfgsync"}

\* Before the first container there is nothing to take away.
NothingYet ==
    /\ pc \in NoWorkspace \cup HasWorkspace =>
           handle = "none" /\ container = "absent" /\ stack = "none" /\ inflight = {}
    /\ pc \in NoWorkspace => workspace = "none"
    /\ pc \in HasWorkspace \cup {"up", "upFailed", "upLogs"} => workspace = "held"

\* The handle is the right to remove the cfgsync container, once.
HandleInv ==
    /\ handle = "live" => container = "up"
    /\ handle = "stopped" => container = "absent" \/ fault
    /\ handle # "stopped" => removals = 0
    /\ pc \in {"up", "upFailed", "shutdown"} \cup StackStages => handle = "live"
    /\ pc = "upLogs" => handle = "stopped"
    /\ pc \in {"upFailed", "upLogs"} => cause = "up"

\* A command that outlived its timeout has changed where deploy() is: it can
\* only add to what its own failure explains.
InflightInv ==
    /\ pc \in {"up"} \cup StackStages => inflight = {}
    /\ "run" \in inflight => pc = "failed" /\ cause = "cfgsync" /\ handle = "none"
    /\ "up" \in inflight => pc \in {"upFailed", "upLogs", "failed"} /\ cause = "up"
    /\ "down" \in inflight => fault

\* The stack while it is started and when it has been taken down, and what a
\* cleanup, or the drop of the environment, has done with it before its last step.
StackInv ==
    /\ pc = "up" => stack = "none"
    /\ pc = "shutdown" => \/ stack = "none" \/ fault \/ preserve
                         \/ cause = "telemetry"
    /\ (pc = "shutdown" /\ workspace = "kept") => preserve

IInv ==
    /\ TypeOK /\ StackIsServed /\ LeaksExplained
    /\ NothingYet /\ HandleInv /\ InflightInv /\ StackInv

-----------------------------------------------------------------------------
\* The inductive invariant holds at the start.
LEMMA InvInit == Init => IInv
<1> SUFFICES ASSUME Init PROVE IInv
  OBVIOUS
<1>1. TypeOK
  <2>1. attempt \in 1..BLOCK_FEED_MAX_ATTEMPTS /\ removals \in 0..1
    BY AttemptsAssumption DEF Init
  <2>2. hangs \in BOOLEAN
    BY DEF Init
  <2> QED BY <2>1, <2>2 DEF Init, TypeOK, Stages
<1>2. StackIsServed /\ LeaksExplained
  BY DEF Init, StackIsServed, LeaksExplained, StackStages, Guarded, Terminal
<1>3. NothingYet /\ HandleInv /\ InflightInv /\ StackInv
  BY DEF Init, NothingYet, NoWorkspace, HasWorkspace, HandleInv, InflightInv, StackInv,
         StackStages, Guarded
<1> QED BY <1>1, <1>2, <1>3 DEF IInv

\* A shutdown of cfgsync, or the drop of its handle, ends with a handle that
\* does nothing more, and a container that is gone unless docker rm failed.
LEMMA ShutdownEffect ==
    ASSUME TypeOK, HandleInv, ShutdownCfgsync
    PROVE  /\ handle' = (IF handle = "live" THEN "stopped" ELSE handle)
           /\ removals' \in 0..1 /\ fault' \in BOOLEAN /\ container' \in {"absent", "up"}
           /\ handle' # "stopped" => removals' = 0
           /\ handle' = "stopped" => container' = "absent" \/ fault'
           /\ fault => fault'
           /\ handle = "none" => container' = container
<1>1. CASE handle = "live" /\ container' = "absent" /\ UNCHANGED fault
  BY <1>1 DEF TypeOK, HandleInv, ShutdownCfgsync
<1>2. CASE handle = "live" /\ fault' = TRUE /\ UNCHANGED container
  BY <1>2 DEF TypeOK, HandleInv, ShutdownCfgsync
<1>3. CASE handle # "live"
  BY <1>3 DEF TypeOK, HandleInv, ShutdownCfgsync
<1> QED BY <1>1, <1>2, <1>3 DEF ShutdownCfgsync

\* A stage that has no effect leads to one with the same resources.
LEMMA PassesStep ==
    ASSUME IInv, NEW from, NEW to, Passes(from, to), hangs' \in BOOLEAN,
           \/ from \in NoWorkspace /\ to \in NoWorkspace
           \/ from \in HasWorkspace /\ to \in HasWorkspace
           \/ from \in StackStages \ {"running"} /\ to \in StackStages
    PROVE  IInv'
<1> USE DEF Passes, config, docker
<1>1. TypeOK'
  BY DEF IInv, TypeOK, Stages, NoWorkspace, HasWorkspace
<1>2. StackIsServed' /\ LeaksExplained'
  BY DEF IInv, StackIsServed, LeaksExplained, NoWorkspace, HasWorkspace, StackStages, Guarded,
         Terminal
<1>3. NothingYet' /\ HandleInv' /\ InflightInv' /\ StackInv'
  BY DEF IInv, NothingYet, HandleInv, InflightInv, StackInv, NoWorkspace, HasWorkspace,
         StackStages, Guarded
<1> QED BY <1>1, <1>2, <1>3 DEF IInv

\* deploy() may give up before the first container.
LEMMA AbandonStep ==
    ASSUME IInv, NEW stage \in NoWorkspace \cup HasWorkspace, Abandon(stage), hangs' \in BOOLEAN
    PROVE  IInv'
<1> USE DEF Abandon, config, docker
<1>1. TypeOK'
  BY DEF IInv, TypeOK, Stages, NoWorkspace, HasWorkspace, Terminal
<1>2. StackIsServed' /\ LeaksExplained'
  BY DEF IInv, StackIsServed, LeaksExplained, NothingYet, NoWorkspace, HasWorkspace,
         StackStages, Guarded, Terminal, TypeOK
<1>3. NothingYet' /\ HandleInv' /\ InflightInv' /\ StackInv'
  BY DEF IInv, NothingYet, HandleInv, InflightInv, StackInv, NoWorkspace, HasWorkspace,
         StackStages, Guarded
<1> QED BY <1>1, <1>2, <1>3 DEF IInv

\* A failed stage hands the stack to StackEnvironment::fail as it is.
LEMMA FailStageStep ==
    ASSUME IInv, NEW stage \in Guarded, FailStage(stage), hangs' \in BOOLEAN PROVE IInv'
<1> USE DEF FailStage, config, docker
<1>1. TypeOK'
  BY DEF IInv, TypeOK, Stages, StackStages, Guarded
<1>2. StackIsServed' /\ LeaksExplained'
  BY DEF IInv, StackIsServed, LeaksExplained, StackStages, Guarded, Terminal
<1>3. NothingYet' /\ HandleInv' /\ InflightInv' /\ StackInv'
  BY DEF IInv, NothingYet, HandleInv, InflightInv, StackInv, NoWorkspace, HasWorkspace,
         StackStages, Guarded
<1> QED BY <1>1, <1>2, <1>3 DEF IInv

\* A cleanup that preserves leaves the stack as it is.
LEMMA PreserveStep ==
    ASSUME IInv, Preserve, pc \in StackStages, feed' \in {"none", "aborted"}, hangs' \in BOOLEAN
    PROVE  IInv'
<1> USE DEF Preserve, config, docker
<1>1. TypeOK'
  BY DEF IInv, TypeOK, Stages
<1>2. StackIsServed' /\ LeaksExplained'
  BY DEF StackIsServed, LeaksExplained, StackStages, Guarded, Terminal
<1>3. NothingYet' /\ HandleInv' /\ InflightInv' /\ StackInv'
  BY DEF IInv, NothingYet, HandleInv, InflightInv, StackInv, NoWorkspace, HasWorkspace,
         StackStages, Guarded
<1> QED BY <1>1, <1>2, <1>3 DEF IInv

-----------------------------------------------------------------------------
\* Every step of deploy(), of the guard and of a cleanup preserves the inductive
\* invariant.
LEMMA OwnStep == IInv /\ Step /\ hangs' \in BOOLEAN => IInv'
<1> SUFFICES ASSUME IInv, Step, hangs' \in BOOLEAN PROVE IInv'
  OBVIOUS
<1> DEFINE Others == StackIsServed /\ LeaksExplained /\ NothingYet /\ HandleInv /\ InflightInv
                     /\ StackInv
<1>a. ASSUME TypeOK', Others' PROVE IInv'
  BY <1>a DEF IInv
<1> USE DEF config, docker
<1>1. CASE ValidateEnvironment
  BY <1>1, PassesStep, AbandonStep DEF ValidateEnvironment, NoWorkspace
<1>2. CASE ResolveObservability
  BY <1>2, PassesStep, AbandonStep DEF ResolveObservability, NoWorkspace
<1>3. CASE CreateWorkspace
  <2>1. CASE Abandon("workspace")
    BY <2>1, AbandonStep DEF NoWorkspace
  <2>2. CASE ~ Abandon("workspace")
    <3>1. TypeOK'
      BY <1>3, <2>2, ZenonT(30) DEF CreateWorkspace, IInv, TypeOK, Stages
    <3>2. Others'
      BY <1>3, <2>2 DEF CreateWorkspace, IInv, StackIsServed, LeaksExplained, NothingYet,
             HandleInv, InflightInv, StackInv, NoWorkspace, HasWorkspace, StackStages, Guarded,
             Terminal
    <3> QED BY <3>1, <3>2, <1>a
  <2> QED BY <2>1, <2>2
<1>4. CASE ConfigureCfgsync
  BY <1>4, PassesStep, AbandonStep DEF ConfigureCfgsync, HasWorkspace
<1>5. CASE EnsureImage
  BY <1>5, PassesStep, AbandonStep DEF EnsureImage, HasWorkspace
<1>6. CASE RenderCompose
  BY <1>6, PassesStep, AbandonStep DEF RenderCompose, HasWorkspace
<1>7. CASE LaunchCfgsync
  <2>1. TypeOK'
    BY <1>7 DEF LaunchCfgsync, IInv, TypeOK, Stages
  <2>2. Others'
    BY <1>7 DEF LaunchCfgsync, IInv, StackIsServed, LeaksExplained, NothingYet, HandleInv,
                InflightInv, StackInv, NoWorkspace, HasWorkspace, StackStages, Guarded, Terminal
  <2> QED BY <2>1, <2>2, <1>a
<1>8. CASE LaunchCfgsyncFails
  <2>1. TypeOK'
    BY <1>8 DEF LaunchCfgsyncFails, IInv, TypeOK, Stages, Terminal
  <2>2. Others'
    BY <1>8 DEF LaunchCfgsyncFails, IInv, StackIsServed, LeaksExplained, NothingYet, HandleInv,
                InflightInv, StackInv, NoWorkspace, HasWorkspace, StackStages, Guarded, Terminal
  <2> QED BY <2>1, <2>2, <1>a
<1>9. CASE ComposeUp
  <2>1. TypeOK'
    BY <1>9 DEF ComposeUp, IInv, TypeOK, Stages, StackStages, Guarded
  <2>2. Others'
    BY <1>9 DEF ComposeUp, IInv, StackIsServed, LeaksExplained, NothingYet, HandleInv,
                InflightInv, StackInv, NoWorkspace, HasWorkspace, StackStages, Guarded, Terminal
  <2> QED BY <2>1, <2>2, <1>a
<1>10. CASE ComposeUpFails
  <2>1. TypeOK'
    <3>1. /\ pc' = "upFailed" /\ cause' = "up"
          /\ UNCHANGED <<readiness, preserve, attempt, workspace, handle, container, removals, fault,
                         feed>>
      BY <1>10 DEF ComposeUpFails
    <3>2. stack' \in {"none", "partial", "up"} /\ inflight' \subseteq {"run", "up", "down"}
      BY <1>10 DEF ComposeUpFails, IInv, TypeOK
    <3>3. pc' \in Stages /\ cause' \in Stages \cup {"none"}
      BY <3>1 DEF Stages
    <3> QED BY <3>1, <3>2, <3>3 DEF IInv, TypeOK
  <2>2. Others'
    BY <1>10
       DEF ComposeUpFails, IInv, StackIsServed, LeaksExplained, NothingYet, HandleInv,
           InflightInv, StackInv, NoWorkspace, HasWorkspace, StackStages, Guarded, Terminal
  <2> QED BY <2>1, <2>2, <1>a
<1>11. CASE ShutdownAfterUp
  <2>1. TypeOK /\ HandleInv /\ ShutdownCfgsync
    BY <1>11 DEF ShutdownAfterUp, IInv
  <2>2. TypeOK'
    BY <1>11, <2>1, ShutdownEffect DEF ShutdownAfterUp, TypeOK, Stages
  <2>3. Others'
    BY <1>11, <2>1, ShutdownEffect
       DEF ShutdownAfterUp, IInv, StackIsServed, LeaksExplained, NothingYet, HandleInv,
           InflightInv, StackInv, NoWorkspace, HasWorkspace, StackStages, Guarded, Terminal
  <2> QED BY <2>2, <2>3, <1>a
<1>12. CASE PrepareFails
  <2>1. TypeOK /\ HandleInv /\ ShutdownCfgsync
    BY <1>12 DEF PrepareFails, IInv
  <2>2. TypeOK'
    BY <1>12, <2>1, ShutdownEffect DEF PrepareFails, TypeOK, Stages, Terminal
  <2>3. Others'
    BY <1>12, <2>1, ShutdownEffect
       DEF PrepareFails, IInv, StackIsServed, LeaksExplained, NothingYet, HandleInv,
           InflightInv, StackInv, NoWorkspace, HasWorkspace, StackStages, Guarded, Terminal
  <2> QED BY <2>2, <2>3, <1>a
<1>13. CASE DiscoverPorts
  BY <1>13, PassesStep, FailStageStep DEF DiscoverPorts, StackStages, Guarded
<1>14. CASE NodesReady
  BY <1>14, PassesStep, FailStageStep DEF NodesReady, StackStages, Guarded
<1>15. CASE RemoteReady
  BY <1>15, PassesStep, FailStageStep DEF RemoteReady, StackStages, Guarded
<1>16. CASE GracePeriod
  BY <1>16, PassesStep DEF GracePeriod, StackStages, Guarded
<1>17. CASE BuildClients
  BY <1>17, PassesStep, FailStageStep DEF BuildClients, StackStages, Guarded
<1>18. CASE Telemetry
  BY <1>18, PassesStep DEF Telemetry, StackStages, Guarded
<1>19. CASE TelemetryFails
  <2>1. TypeOK'
    BY <1>19 DEF TelemetryFails, IInv, TypeOK, Stages, StackStages, Guarded
  <2>2. Others'
    BY <1>19
       DEF TelemetryFails, IInv, StackIsServed, LeaksExplained, NothingYet, HandleInv,
           InflightInv, StackInv, NoWorkspace, HasWorkspace, StackStages, Guarded, Terminal
  <2> QED BY <2>1, <2>2, <1>a
<1>20. CASE StartBlockFeed
  <2>1. TypeOK'
    BY <1>20 DEF StartBlockFeed, IInv, TypeOK, Stages, StackStages
  <2>2. Others'
    BY <1>20 DEF StartBlockFeed, IInv, StackIsServed, LeaksExplained, NothingYet, HandleInv,
                 InflightInv, StackInv, NoWorkspace, HasWorkspace, StackStages, Guarded, Terminal
  <2> QED BY <2>1, <2>2, <1>a
<1>21. CASE FeedAttemptFails
  <2>1. TypeOK'
    BY <1>21, AttemptsAssumption DEF FeedAttemptFails, IInv, TypeOK
  <2>2. Others'
    BY <1>21 DEF FeedAttemptFails, IInv, StackIsServed, LeaksExplained, NothingYet, HandleInv,
                 InflightInv, StackInv
  <2> QED BY <2>1, <2>2, <1>a
<1>22. CASE FeedFails
  BY <1>22, FailStageStep DEF FeedFails, Guarded
<1>23. CASE LogsDumped
  <2>1. CASE preserve
    BY <1>23, <2>1, PreserveStep DEF LogsDumped, IInv, StackIsServed, TypeOK, StackStages
  <2>2. CASE ~preserve
    <3>1. TypeOK'
      <4>1. /\ pc' = "down"
            /\ UNCHANGED <<readiness, preserve, cause, attempt, workspace, handle, container, stack,
                           inflight, removals, fault, feed>>
        BY <1>23, <2>2 DEF LogsDumped, Preserve
      <4>2. pc' \in Stages /\ cause' \in Stages \cup {"none"}
        BY <4>1 DEF IInv, TypeOK, Stages, StackStages
      <4> QED BY <4>1, <4>2 DEF IInv, TypeOK
    <3>2. Others'
      BY <1>23, <2>2 DEF LogsDumped, Preserve, IInv, StackIsServed, LeaksExplained, NothingYet,
             HandleInv, InflightInv, StackInv, NoWorkspace, HasWorkspace, StackStages, Guarded,
             Terminal
    <3> QED BY <3>1, <3>2, <1>a
  <2> QED BY <2>1, <2>2
<1>24. CASE RunOver
  <2>1. CASE preserve
    BY <1>24, <2>1, PreserveStep DEF RunOver, StackStages
  <2>2. CASE ~preserve
    <3>1. TypeOK'
      <4>1. /\ pc' = "down" /\ feed' = "aborted"
            /\ UNCHANGED <<readiness, preserve, cause, attempt, workspace, handle, container, stack,
                           inflight, removals, fault>>
        BY <1>24, <2>2 DEF RunOver, Preserve
      <4>2. pc' \in Stages /\ cause' \in Stages \cup {"none"}
        BY <4>1 DEF IInv, TypeOK, Stages, StackStages
      <4> QED BY <4>1, <4>2 DEF IInv, TypeOK
    <3>2. Others'
      BY <1>24, <2>2 DEF RunOver, Preserve, IInv, StackIsServed, LeaksExplained, NothingYet,
             HandleInv, InflightInv, StackInv, NoWorkspace, HasWorkspace, StackStages, Guarded,
             Terminal
    <3> QED BY <3>1, <3>2, <1>a
  <2> QED BY <2>1, <2>2
<1>25. CASE TeardownCompose
  <2>1. TypeOK'
    <3>1. /\ stack' \in {"none", "partial", "up"} /\ fault' \in BOOLEAN
          /\ inflight' \in {inflight, inflight \cup {"down"}}
      BY <1>25 DEF TeardownCompose, IInv, TypeOK
    <3>2. inflight' \subseteq {"run", "up", "down"}
      BY <3>1 DEF IInv, TypeOK
    <3> QED BY <1>25, <3>1, <3>2 DEF TeardownCompose, IInv, TypeOK, Stages
  <2>2. Others'
    BY <1>25 DEF TeardownCompose, IInv, StackIsServed, LeaksExplained, NothingYet, HandleInv,
                 InflightInv, StackInv, NoWorkspace, HasWorkspace, StackStages, Guarded, Terminal
  <2> QED BY <2>1, <2>2, <1>a
<1>26. CASE TeardownEnds
  <2>1. TypeOK /\ HandleInv /\ ShutdownCfgsync
    BY <1>26 DEF TeardownEnds, IInv
  <2>2. TypeOK'
    BY <1>26, <2>1, ShutdownEffect DEF TeardownEnds, TypeOK, Stages, Terminal
  <2>3. workspace' \in {"none", "deleted", "kept"} /\ (workspace' = "kept" => preserve)
    BY <1>26, <2>1 DEF TeardownEnds, IInv, TypeOK, StackInv
  <2>4. pc' \in Terminal /\ handle' = "stopped" /\ (container' = "absent" \/ fault')
    BY <1>26, <2>1, ShutdownEffect DEF TeardownEnds, HandleInv, Terminal
  <2>5. LeaksExplained'
    BY <1>26, <2>1, <2>3, <2>4, ShutdownEffect DEF TeardownEnds, IInv, LeaksExplained, StackInv
  <2>6. StackIsServed' /\ NothingYet' /\ HandleInv' /\ InflightInv' /\ StackInv'
    BY <1>26, <2>1, <2>4, ShutdownEffect
       DEF TeardownEnds, IInv, StackIsServed, NothingYet, HandleInv, InflightInv, StackInv,
           NoWorkspace, HasWorkspace, StackStages, Guarded, Terminal
  <2> QED BY <2>2, <2>5, <2>6, <1>a
<1> QED BY <1>1, <1>2, <1>3, <1>4, <1>5, <1>6, <1>7, <1>8, <1>9, <1>10, <1>11, <1>12, <1>13,
           <1>14, <1>15, <1>16, <1>17, <1>18, <1>19, <1>20, <1>21, <1>22, <1>23, <1>24, <1>25,
           <1>26
        DEF Step

\* So does a docker command that ends after its timeout.
LEMMA DockerStep ==
    ASSUME IInv, NEW c \in {"run", "up", "down"}, DockerFinishes(c), UNCHANGED hangs PROVE IInv'
<1> USE DEF config
<1>1. inflight' \subseteq inflight
  BY DEF DockerFinishes
<1>2. TypeOK'
  <2>1. inflight' \subseteq {"run", "up", "down"}
    BY <1>1 DEF IInv, TypeOK
  <2>2. container' \in {"absent", "up"} /\ stack' \in {"none", "partial", "up"}
    BY DEF DockerFinishes, IInv, TypeOK
  <2>3. UNCHANGED <<config, pc, cause, attempt, workspace, handle, feed, removals, fault>>
    BY DEF DockerFinishes
  <2> QED BY <2>1, <2>2, <2>3 DEF IInv, TypeOK
<1>3. StackIsServed' /\ LeaksExplained'
  BY DEF DockerFinishes, IInv, StackIsServed, LeaksExplained, InflightInv, StackStages, Guarded,
         Terminal
<1>4. NothingYet' /\ HandleInv' /\ InflightInv' /\ StackInv'
  BY DEF DockerFinishes, IInv, NothingYet, HandleInv, InflightInv, StackInv
<1> QED BY <1>2, <1>3, <1>4 DEF IInv

\* A stage that hangs stays as it is.
LEMMA HangStep == IInv /\ Hang => IInv'
<1> SUFFICES ASSUME IInv, Hang PROVE IInv'
  OBVIOUS
<1> USE DEF Hang, config, docker
<1>1. hangs' \in BOOLEAN
  OBVIOUS
<1>2. TypeOK'
  BY <1>1 DEF IInv, TypeOK
<1>3. StackIsServed' /\ LeaksExplained' /\ NothingYet' /\ HandleInv' /\ InflightInv' /\ StackInv'
  BY DEF IInv, StackIsServed, LeaksExplained, NothingYet, HandleInv, InflightInv, StackInv
<1> QED BY <1>2, <1>3 DEF IInv

\* A step that changes nothing.
LEMMA StutterStep == IInv /\ UNCHANGED vars => IInv'
  BY DEF vars, IInv, TypeOK, StackIsServed, LeaksExplained, NothingYet, HandleInv, InflightInv,
         StackInv

\* The inductive invariant of the compose deployer: which stage holds which of
\* the workspace, the cfgsync container and its handle, the stack and the
\* commands left behind.
THEOREM Invariant == Spec => []IInv
<1>1. IInv /\ [Next]_vars => IInv'
  <2>1. ASSUME IInv, Proceed PROVE IInv'
    <3>1. hangs' \in BOOLEAN
      BY <2>1 DEF Proceed, IInv, TypeOK
    <3> QED BY <2>1, <3>1, OwnStep DEF Proceed
  <2> QED BY <2>1, HangStep, DockerStep, StutterStep DEF Next, Docker
<1> QED BY InvInit, <1>1, PTL DEF Spec

-----------------------------------------------------------------------------
\* Every state is well typed, with at most one docker rm for cfgsync, and what is
\* left when deploy() or the run is over is explained, also after a command
\* that finished late.
THEOREM SafetyHolds == Spec => []Safety
<1>1. IInv => Safety
  BY DEF IInv, Safety
<1> QED BY <1>1, Invariant, PTL

\* As long as somebody works with the stack it is up, with its compose file and
\* with cfgsync, and the block feed runs during the run only.
THEOREM StackServed == Spec => []StackIsServed
<1>1. IInv => StackIsServed
  BY DEF IInv
<1> QED BY <1>1, Invariant, PTL

-----------------------------------------------------------------------------
(* The configuration server                                                *)

\* The cfgsync server that LaunchCfgsync starts, and the containers of the stack.
\* Its constants are those of the instance: the assumption on them is a premise.
CONSTANTS NumHosts, Address, MaxAttempts, MaxRestarts
VARIABLES server, waiting, batch, client, address, attempts, nodeConfig, restarts

Sync == INSTANCE CfgSync WITH config <- nodeConfig

\* The map of the server is finite.
HostsFinite == IsFiniteSet(waiting) /\ IsFiniteSet(batch)

\* A container that may still ask has an attempt left.
AttemptLeft ==
    \A n \in Sync!Node : client[n] \in {"start", "asking", "refused"} => attempts[n] < MaxAttempts

\* The configurations that run with positions p of the batch: each node has that
\* of a host of its own.
HandedOut(p) ==
    \A n \in Sync!Node : nodeConfig[n] # -1 => \E h \in batch : h.node = n /\ nodeConfig[n] = p[h]

\* Nobody has a configuration, or all were handed out for one sorting of a batch
\* with as many hosts as there are nodes.
HandedOutOnce ==
    \/ \A n \in Sync!Node : nodeConfig[n] = -1
    \/ /\ server = "done"
       /\ Sync!Cardinality(batch) = NumHosts
       /\ \E p \in Sync!SortedPositions(batch) : HandedOut(p)

SyncInv == Sync!TypeOK /\ HostsFinite /\ AttemptLeft /\ HandedOutOnce

-----------------------------------------------------------------------------
(* cfgsync: sorting                                                        *)

\* The instance counts as the library's theorems do.
LEMMA SyncCardinality == ASSUME NEW S PROVE Sync!Cardinality(S) = Cardinality(S)
BY DEF Sync!Cardinality, Cardinality

\* A set of naturals has a least element: induction in the form that the
\* proofs below use.
LEMMA LeastNatural ==
    ASSUME NEW S, S \subseteq Nat, S # {}
    PROVE  \E x \in S : \A y \in S : x <= y
<1>1. PICK x \in S : \A y \in S : ~(<<y, x>> \in OpToRel(<, Nat))
  BY WFMin, NatLessThanWellFounded
<1>2. ASSUME NEW y \in S PROVE x <= y
  <2>1. <<y, x>> \in Nat \X Nat
    OBVIOUS
  <2>2. ~(y < x)
    BY <1>1, <2>1 DEF OpToRel
  <2> QED
    BY <2>2
<1> QED
  BY <1>2

\* An increasing function of 0..N-1 into itself is the identity.
LEMMA IncreasingIsIdentity ==
    ASSUME NEW N \in Nat, NEW q \in [0..(N - 1) -> 0..(N - 1)],
           \A i, j \in 0..(N - 1) : i < j => q[i] < q[j]
    PROVE  \A i \in 0..(N - 1) : q[i] = i
<1>1. \A i \in 0..(N - 1) : q[i] >= i
  <2> DEFINE low == {i \in 0..(N - 1) : q[i] < i}
  <2> SUFFICES low = {}
    OBVIOUS
  <2> SUFFICES ASSUME low # {} PROVE FALSE
    OBVIOUS
  <2>1. PICK i \in low : \A j \in low : i <= j
    <3>1. low \subseteq Nat
      OBVIOUS
    <3> HIDE DEF low
    <3> QED BY <3>1, LeastNatural
  <2>2. i \in 1..(N - 1) /\ q[i] < i
    OBVIOUS
  <2>3. i - 1 \in 0..(N - 1) /\ i - 1 \notin low
    BY <2>1, <2>2
  <2>4. q[i - 1] >= i - 1
    BY <2>3
  <2>5. q[i - 1] < q[i]
    BY <2>2, <2>3
  <2> QED
    BY <2>2, <2>3, <2>4, <2>5
<1>2. \A i \in 0..(N - 1) : q[i] <= i
  <2> DEFINE high == {k \in 0..(N - 1) : q[(N - 1) - k] > (N - 1) - k}
  <2>1. high = {}
    <3> SUFFICES ASSUME high # {} PROVE FALSE
      OBVIOUS
    <3>1. PICK k \in high : \A j \in high : k <= j
      <4>1. high \subseteq Nat
        OBVIOUS
      <4> HIDE DEF high
      <4> QED BY <4>1, LeastNatural
    <3> DEFINE i == (N - 1) - k
    <3>2. i \in 0..(N - 1) /\ q[i] > i
      OBVIOUS
    <3>3. i + 1 \in 0..(N - 1)
      BY <3>2
    <3>4. k - 1 \in 0..(N - 1) /\ k - 1 \notin high /\ (N - 1) - (k - 1) = i + 1
      <4>1. k \in 0..(N - 1)
        OBVIOUS
      <4>2. k - 1 \in 0..(N - 1) /\ (N - 1) - (k - 1) = i + 1
        BY <3>3, <4>1
      <4> HIDE DEF high, i
      <4>3. k - 1 \notin high
        BY <3>1, <4>1
      <4> QED BY <4>2, <4>3
    <3>5. q[i + 1] <= i + 1
      BY <3>3, <3>4
    <3>6. q[i] < q[i + 1]
      BY <3>2, <3>3
    <3> QED
      BY <3>2, <3>3, <3>5, <3>6
  <2>2. ASSUME NEW i \in 0..(N - 1) PROVE q[i] <= i
    <3>1. (N - 1) - i \in 0..(N - 1) /\ (N - 1) - ((N - 1) - i) = i
      OBVIOUS
    <3>2. (N - 1) - i \notin high
      BY <2>1
    <3> QED BY <3>1, <3>2
  <2> QED BY <2>2
<1> QED
  BY <1>1, <1>2

\* If a batch with as many hosts as nodes has no node twice, it has all nodes, and
\* sorting gives every host the position of its node.
LEMMA SortedByNode ==
    ASSUME Sync!CountsAssumption, NEW hosts, hosts \subseteq Sync!Host, IsFiniteSet(hosts),
           Sync!Cardinality(hosts) = NumHosts,
           \A g, h \in hosts : g.node = h.node => g = h,
           NEW p \in Sync!SortedPositions(hosts)
    PROVE  /\ {h.node : h \in hosts} = Sync!Node
           /\ \A h \in hosts : p[h] = h.node
<1> DEFINE f == [h \in hosts |-> h.node]
<1>1. f \in Injection(hosts, Sync!Node)
  BY DEF Injection, IsInjective, Sync!Host
<1>2. /\ IsFiniteSet(Sync!Node) /\ Cardinality(Sync!Node) = NumHosts
      /\ Cardinality(hosts) = NumHosts
  BY FS_Interval, SyncCardinality DEF Sync!CountsAssumption, Sync!Node
<1>3. f \in Surjection(hosts, Sync!Node)
  <2> HIDE DEF f
  <2> QED BY <1>1, <1>2, FS_Injection
<1>4. \A n \in Sync!Node : \E h \in hosts : h.node = n
  BY <1>3 DEF Surjection
<1>5. {h.node : h \in hosts} = Sync!Node
  BY <1>4 DEF Sync!Host
<1> DEFINE host == [n \in Sync!Node |-> CHOOSE h \in hosts : h.node = n]
           q == [n \in Sync!Node |-> p[host[n]]]
<1>6. \A n \in Sync!Node : host[n] \in hosts /\ host[n].node = n
  BY <1>4
<1>7. /\ p \in [hosts -> 0..(NumHosts - 1)]
      /\ \A g, h \in hosts : g.node < h.node => p[g] < p[h]
  BY DEF Sync!SortedPositions
<1> HIDE DEF host
<1>8. \A n \in Sync!Node : q[n] = n
  <2>1. q \in [0..(NumHosts - 1) -> 0..(NumHosts - 1)]
    BY <1>6, <1>7 DEF Sync!Node
  <2>2. \A i, j \in 0..(NumHosts - 1) : i < j => q[i] < q[j]
    BY <1>6, <1>7 DEF Sync!Node
  <2> HIDE DEF q
  <2> QED BY <2>1, <2>2, IncreasingIsIdentity DEF Sync!CountsAssumption, Sync!Node
<1>9. ASSUME NEW h \in hosts PROVE p[h] = h.node
  <2>1. h.node \in Sync!Node
    BY DEF Sync!Host
  <2>2. host[h.node] = h
    BY <1>6, <2>1
  <2> QED BY <1>8, <2>1, <2>2
<1> QED
  BY <1>5, <1>9

-----------------------------------------------------------------------------
(* cfgsync: the invariant implies the properties                                    *)

\* Positions of one sorting are distinct.
LEMMA SyncDistinct == ASSUME Sync!CountsAssumption PROVE SyncInv => Sync!ConfigsAreDistinct
<1> SUFFICES ASSUME SyncInv, NEW m \in Sync!Node, NEW n \in Sync!Node,
                    nodeConfig[m] # -1, nodeConfig[m] = nodeConfig[n]
             PROVE  m = n
  BY DEF Sync!ConfigsAreDistinct
<1>1. PICK p \in Sync!SortedPositions(batch) : HandedOut(p)
  BY DEF SyncInv, HandedOutOnce
<1>2. PICK g \in batch : g.node = m /\ nodeConfig[m] = p[g]
  BY <1>1 DEF HandedOut
<1>3. PICK h \in batch : h.node = n /\ nodeConfig[n] = p[h]
  BY <1>1 DEF HandedOut
<1>4. g = h
  BY <1>2, <1>3 DEF Sync!SortedPositions
<1> QED
  BY <1>2, <1>3, <1>4

\* With no node twice they are those of the nodes.
LEMMA SyncOwn == ASSUME Sync!CountsAssumption PROVE SyncInv => Sync!ConfigIsOwn
<1> SUFFICES ASSUME SyncInv, \A g, h \in batch : g.node = h.node => g = h,
                    NEW n \in Sync!Node, nodeConfig[n] # -1
             PROVE  nodeConfig[n] = n /\ {h.node : h \in batch} = Sync!Node
  BY DEF Sync!ConfigIsOwn
<1>1. Sync!Cardinality(batch) = NumHosts /\ IsFiniteSet(batch) /\ batch \subseteq Sync!Host
  BY DEF SyncInv, HandedOutOnce, HostsFinite, Sync!TypeOK
<1>2. PICK p \in Sync!SortedPositions(batch) : HandedOut(p)
  BY DEF SyncInv, HandedOutOnce
<1>3. PICK h \in batch : h.node = n /\ nodeConfig[n] = p[h]
  BY <1>2 DEF HandedOut
<1> QED
  BY <1>1, <1>3, SortedByNode

-----------------------------------------------------------------------------
(* cfgsync: the invariant is inductive                                              *)

\* The server starts with an empty map.
LEMMA SyncInit == ASSUME Sync!CountsAssumption PROVE Sync!Init => SyncInv
<1> SUFFICES ASSUME Sync!Init PROVE SyncInv
  OBVIOUS
<1> USE DEF Sync!Init
<1>1. Sync!TypeOK
  BY DEF Sync!CountsAssumption, Sync!TypeOK
<1>2. HostsFinite
  BY FS_EmptySet DEF HostsFinite
<1>3. AttemptLeft /\ HandedOutOnce
  BY DEF Sync!CountsAssumption, AttemptLeft, HandedOutOnce
<1> QED
  BY <1>1, <1>2, <1>3 DEF SyncInv

\* A request adds one host to the map.
LEMMA AskKeeps ==
    ASSUME Sync!CountsAssumption, NEW n \in Sync!Node PROVE SyncInv /\ Sync!Ask(n) => SyncInv'
<1> SUFFICES ASSUME SyncInv, Sync!Ask(n) PROVE SyncInv'
  OBVIOUS
<1> USE DEF SyncInv, Sync!Ask
<1>1. Sync!TypeOK'
  BY DEF Sync!TypeOK, Sync!HostOf, Sync!Host
<1>2. HostsFinite'
  BY FS_AddElement DEF HostsFinite
<1>3. AttemptLeft'
  BY DEF AttemptLeft, Sync!TypeOK
<1>4. HandedOutOnce'
  BY DEF HandedOutOnce, HandedOut
<1> QED
  BY <1>1, <1>2, <1>3, <1>4

\* The script asks again.
LEMMA RetryKeeps ==
    ASSUME Sync!CountsAssumption, NEW n \in Sync!Node PROVE SyncInv /\ Sync!Retry(n) => SyncInv'
<1> SUFFICES ASSUME SyncInv, Sync!Retry(n) PROVE SyncInv'
  OBVIOUS
<1> USE DEF SyncInv, Sync!Retry
<1>1. Sync!TypeOK' /\ HostsFinite'
  BY DEF Sync!TypeOK, HostsFinite
<1>2. AttemptLeft'
  BY DEF AttemptLeft, Sync!TypeOK
<1>3. HandedOutOnce'
  BY DEF HandedOutOnce, HandedOut
<1> QED
  BY <1>1, <1>2, <1>3

\* A restarted container has no configuration; the others keep theirs.
LEMMA RestartKeeps ==
    ASSUME Sync!CountsAssumption, NEW n \in Sync!Node PROVE SyncInv /\ Sync!Restart(n) => SyncInv'
<1> SUFFICES ASSUME SyncInv, Sync!Restart(n) PROVE SyncInv'
  OBVIOUS
<1> USE DEF SyncInv, Sync!Restart
<1>1. Sync!TypeOK'
  <2>1. restarts' \in 0..MaxRestarts
    BY DEF Sync!CountsAssumption, Sync!TypeOK
  <2>2. address' \in [Sync!Node -> Address]
    BY DEF Sync!TypeOK
  <2>3. client' \in [Sync!Node -> {"start", "asking", "refused", "running", "gaveup"}]
    BY DEF Sync!TypeOK
  <2>4. attempts' \in [Sync!Node -> 0..MaxAttempts]
    BY DEF Sync!CountsAssumption, Sync!TypeOK
  <2>5. nodeConfig' \in [Sync!Node -> -1..(NumHosts - 1)]
    BY DEF Sync!CountsAssumption, Sync!TypeOK
  <2> QED BY <2>1, <2>2, <2>3, <2>4, <2>5 DEF Sync!TypeOK
<1>2. HostsFinite'
  BY DEF HostsFinite
<1>3. AttemptLeft'
  BY DEF Sync!CountsAssumption, AttemptLeft, Sync!TypeOK
<1>4. \A k \in Sync!Node : nodeConfig'[k] = -1 \/ nodeConfig'[k] = nodeConfig[k]
  BY DEF Sync!TypeOK
<1>5. HandedOutOnce'
  BY <1>4 DEF HandedOutOnce, HandedOut
<1> QED
  BY <1>1, <1>2, <1>3, <1>5

\* The server stops to wait.
LEMMA PollKeeps ==
    ASSUME Sync!CountsAssumption
    PROVE  SyncInv /\ (Sync!PollSees \/ Sync!TimeoutFires) => SyncInv'
<1> SUFFICES ASSUME SyncInv, Sync!PollSees \/ Sync!TimeoutFires PROVE SyncInv'
  OBVIOUS
<1>1. /\ UNCHANGED <<waiting, batch, client, address, attempts, nodeConfig, restarts>>
      /\ server = "wait" /\ server' \in {"full", "late"}
  BY DEF Sync!PollSees, Sync!TimeoutFires
<1>2. Sync!TypeOK' /\ HostsFinite'
  BY <1>1 DEF SyncInv, Sync!TypeOK, HostsFinite
<1>3. AttemptLeft' /\ HandedOutOnce'
  BY <1>1 DEF SyncInv, AttemptLeft, HandedOutOnce
<1> QED
  BY <1>2, <1>3 DEF SyncInv

\* A refusal leaves the clients that may ask again an attempt.
LEMMA RefuseFacts ==
    ASSUME Sync!CountsAssumption, Sync!TypeOK, AttemptLeft, Sync!Refuse
    PROVE  /\ client' \in [Sync!Node -> {"start", "asking", "refused", "running", "gaveup"}]
           /\ attempts' \in [Sync!Node -> 0..MaxAttempts]
           /\ AttemptLeft'
<1>1. client' \in [Sync!Node -> {"start", "asking", "refused", "running", "gaveup"}]
  BY DEF Sync!TypeOK, Sync!Refuse
<1>2. \A n \in Sync!Listeners : attempts[n] < MaxAttempts
  BY DEF AttemptLeft, Sync!Listeners
<1>3. \A n \in Sync!Node : attempts'[n] = attempts[n] + IF n \in Sync!Listeners THEN 1 ELSE 0
  BY DEF Sync!Refuse
<1>4. attempts' \in [Sync!Node -> 0..MaxAttempts]
  <2>1. \A n \in Sync!Node : attempts[n] \in 0..MaxAttempts
    BY DEF Sync!TypeOK
  <2>2. \A n \in Sync!Node :
          attempts[n] + (IF n \in Sync!Listeners THEN 1 ELSE 0) \in 0..MaxAttempts
    BY <1>2, <2>1 DEF Sync!CountsAssumption
  <2> QED BY <2>2 DEF Sync!Refuse
<1>5. AttemptLeft'
  <2> SUFFICES ASSUME NEW n \in Sync!Node, client'[n] \in {"start", "asking", "refused"}
               PROVE  attempts'[n] < MaxAttempts
    BY DEF AttemptLeft
  <2>1. attempts[n] \in Nat
    BY DEF Sync!CountsAssumption, Sync!TypeOK
  <2>2. CASE n \in Sync!Listeners
    <3>1. ~(attempts[n] + 1 >= MaxAttempts)
      BY <2>2 DEF Sync!Refuse
    <3> QED BY <1>3, <2>1, <2>2, <3>1 DEF Sync!CountsAssumption
  <2>3. CASE n \notin Sync!Listeners
    <3>1. client'[n] = client[n] /\ attempts'[n] = attempts[n]
      BY <1>3, <2>1, <2>3 DEF Sync!Refuse
    <3> QED BY <3>1 DEF AttemptLeft
  <2> QED BY <2>2, <2>3
<1> QED
  BY <1>1, <1>4, <1>5

\* The end of run(), whatever it answers.
LEMMA TakeFacts ==
    ASSUME Sync!CountsAssumption, SyncInv, Sync!Take
    PROVE  /\ server' = "done" /\ waiting' \subseteq Sync!Host /\ batch' \subseteq Sync!Host
           /\ HostsFinite'
BY FS_EmptySet DEF SyncInv, Sync!Take, Sync!TypeOK, HostsFinite

\* Everybody is refused, after the timeout or because of an error.
LEMMA RefusalKeeps ==
    ASSUME Sync!CountsAssumption
    PROVE  SyncInv /\ (Sync!AnswerTimeout \/ Sync!AnswerError) => SyncInv'
<1> SUFFICES ASSUME SyncInv, Sync!Take, Sync!Refuse, server # "done",
                    UNCHANGED <<address, restarts>>
             PROVE  SyncInv'
  BY DEF Sync!AnswerTimeout, Sync!AnswerError
<1> USE DEF SyncInv
<1>1. Sync!TypeOK'
  BY TakeFacts, RefuseFacts DEF Sync!TypeOK, Sync!Refuse
<1>2. \A n \in Sync!Node : nodeConfig'[n] = -1
  BY DEF HandedOutOnce, Sync!Refuse
<1> QED
  BY <1>1, <1>2, TakeFacts, RefuseFacts DEF HandedOutOnce

\* Configurations are handed out for one sorting of all hosts.
LEMMA AnswerKeeps == ASSUME Sync!CountsAssumption PROVE SyncInv /\ Sync!Answer => SyncInv'
<1> SUFFICES ASSUME SyncInv, Sync!Answer PROVE SyncInv'
  OBVIOUS
<1> USE DEF SyncInv, Sync!Answer
<1>1. \A n \in Sync!Node : nodeConfig[n] = -1
  BY DEF HandedOutOnce
<1>2. PICK p \in Sync!SortedPositions(waiting) :
        nodeConfig' = [n \in Sync!Node |->
                          IF n \in Sync!Listeners THEN p[Sync!HostOf(n)] ELSE nodeConfig[n]]
  OBVIOUS
<1>3. p \in [waiting -> 0..(NumHosts - 1)]
  BY DEF Sync!SortedPositions
<1>4. \A n \in Sync!Listeners : Sync!HostOf(n) \in waiting /\ Sync!HostOf(n).node = n
  BY DEF Sync!Listeners, Sync!HostOf
<1>5. Sync!TypeOK'
  <2>1. client' \in [Sync!Node -> {"start", "asking", "refused", "running", "gaveup"}]
    BY DEF Sync!TypeOK
  <2>2. nodeConfig' \in [Sync!Node -> -1..(NumHosts - 1)]
    <3>1. \A n \in Sync!Listeners : p[Sync!HostOf(n)] \in -1..(NumHosts - 1)
      BY <1>3, <1>4 DEF Sync!CountsAssumption
    <3> QED BY <1>2, <3>1 DEF Sync!TypeOK
  <2> QED BY <2>1, <2>2, TakeFacts DEF Sync!TypeOK
<1>6. AttemptLeft'
  BY DEF AttemptLeft
<1>7. HandedOut(p)'
  BY <1>1, <1>2, <1>4 DEF HandedOut, Sync!Take
<1>8. HandedOutOnce'
  <2>1. batch' = waiting /\ Sync!SortedPositions(batch') = Sync!SortedPositions(waiting)
    BY DEF Sync!Take
  <2>2. Sync!SortedPositions(batch)' = Sync!SortedPositions(waiting)
    BY <2>1 DEF Sync!SortedPositions
  <2> QED BY <1>7, <2>1, <2>2, TakeFacts DEF HandedOutOnce
<1> QED
  BY <1>5, <1>6, <1>8, TakeFacts

-----------------------------------------------------------------------------
(* cfgsync: the theorems                                                   *)

\* The inductive invariant of cfgsync holds however requests, restarts, polls and the
\* timeout of the server interleave.
THEOREM SyncInvariant == ASSUME Sync!CountsAssumption PROVE Sync!Spec => []SyncInv
<1>1. SyncInv /\ [Sync!Next]_(Sync!vars) => SyncInv'
  <2> SUFFICES ASSUME SyncInv, [Sync!Next]_(Sync!vars) PROVE SyncInv'
    OBVIOUS
  <2>1. CASE UNCHANGED Sync!vars
    <3>1. Sync!TypeOK' /\ HostsFinite' /\ AttemptLeft'
      BY <2>1 DEF Sync!vars, SyncInv, Sync!TypeOK, HostsFinite, AttemptLeft
    <3>2. HandedOutOnce'
      BY <2>1 DEF Sync!vars, SyncInv, HandedOutOnce, HandedOut
    <3> QED BY <3>1, <3>2 DEF SyncInv
  <2>2. CASE Sync!Next
    BY <2>2, AskKeeps, RetryKeeps, RestartKeeps, PollKeeps, AnswerKeeps,
       RefusalKeeps DEF Sync!Next, Sync!Server
  <2> QED BY <2>1, <2>2
<1> QED
  BY SyncInit, <1>1, PTL DEF Sync!Spec

\* No two nodes run with one configuration of the server, and unless a container
\* that was restarted is in the batch twice, each runs with its own.
THEOREM SyncSafety == ASSUME Sync!CountsAssumption PROVE Sync!Spec => []Sync!Safety
<1>1. SyncInv => Sync!Safety
  BY SyncDistinct, SyncOwn DEF SyncInv, Sync!Safety
<1> QED
  BY SyncInvariant, <1>1, PTL
=============================================================================
