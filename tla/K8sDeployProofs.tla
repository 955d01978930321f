-------------------------- MODULE K8sDeployProofs --------------------------
(***************************************************************************)
(* Proofs about K8sDeploy for topologies of any size and any number of     *)
(* polls: nothing is left in the cluster without a reason, no port forward *)
(* outlives its deployment, and what is to be preserved is.                *)
(***************************************************************************)
EXTENDS K8sDeploy, TLAPS

\* The stages before helm install has returned, and the ones from then on at
\* which deploy() or the run goes on.
BeforeInstall == {"resolve", "topology", "client", "assets", "install"}
Deployed == {"wait", "forward", "readiness", "clients", "telemetry", "feed", "running"}

\* Before the release there is nothing to clean up; from then on until a
\* cleanup begins the guard is held, and nothing but a cleanup begins one.
StageInv ==
    /\ pc \in BeforeInstall \cup Deployed \cup {"dump"} \cup CleanupSteps \cup Terminal
    /\ pc \in BeforeInstall => namespace = "absent" /\ release = "none" /\ guard = "none"
    /\ guard = "held" => pc \in Deployed \cup {"dump"}
    /\ feed = "running" => pc = "running"

\* A release is in a namespace: the one goes with the other.
ReleaseInNamespace == release = "installed" => namespace # "absent"

\* Only ClusterEnvironment::fail finds port forwards, cleanup_pending none.
ForwardsInv ==
    /\ ForwardsStopped
    /\ pc = "dump" /\ cause \in {"wait", "forward"} => forwards = 0

\* With the flag a cleanup never gets to its first command, so that no command
\* is left behind and no deletion was asked for.
PreserveInv ==
    preserve => /\ pc \notin CleanupSteps
                /\ inflight = {}
                /\ namespace # "terminating"

IInv == TypeOK /\ StageInv /\ ReleaseInNamespace /\ LeaksExplained /\ ForwardsInv /\ PreserveInv

-----------------------------------------------------------------------------
\* The inductive invariant holds at the start.
LEMMA InvInit == Init => IInv
<1> SUFFICES ASSUME Init PROVE IInv
  OBVIOUS
<1>1. TypeOK
  <2>1. hangs \in BOOLEAN
    BY DEF Init
  <2> QED BY <2>1, K8sAssumption DEF Init, TypeOK
<1>2. StageInv /\ ReleaseInNamespace /\ LeaksExplained
  BY DEF Init, StageInv, BeforeInstall, Deployed, ReleaseInNamespace, LeaksExplained, Terminal
<1>3. ForwardsInv /\ PreserveInv
  BY DEF Init, ForwardsInv, ForwardsStopped, PreserveInv, CleanupSteps
<1> QED BY <1>1, <1>2, <1>3 DEF IInv

\* A stage that has no effect leads to one of the same side of helm install.
LEMMA PassesStep ==
    ASSUME IInv, NEW from, NEW to, Passes(from, to), hangs' \in BOOLEAN,
           \/ from \in BeforeInstall /\ to \in BeforeInstall
           \/ from \in Deployed \ {"running"} /\ to \in Deployed \ {"wait"}
    PROVE  IInv'
<1> USE DEF Passes, config, cluster, cleanupVars
<1>1. TypeOK'
  BY DEF IInv, TypeOK
<1>2. StageInv' /\ ReleaseInNamespace' /\ LeaksExplained'
  BY DEF IInv, StageInv, ReleaseInNamespace, LeaksExplained, BeforeInstall, Deployed, Terminal
<1>3. ForwardsInv'
  BY DEF IInv, ForwardsInv, ForwardsStopped, BeforeInstall, Deployed
<1>4. PreserveInv'
  BY DEF IInv, PreserveInv, CleanupSteps, BeforeInstall, Deployed
<1> QED BY <1>1, <1>2, <1>3, <1>4 DEF IInv

\* deploy() may give up before helm install.
LEMMA AbandonStep ==
    ASSUME IInv, NEW stage \in BeforeInstall, Abandon(stage), hangs' \in BOOLEAN PROVE IInv'
<1> USE DEF Abandon, config, cluster, cleanupVars
<1>1. TypeOK'
  BY DEF IInv, TypeOK
<1>2. StageInv' /\ ReleaseInNamespace' /\ LeaksExplained'
  BY DEF IInv, StageInv, ReleaseInNamespace, LeaksExplained, BeforeInstall, Deployed, Terminal
<1>3. ForwardsInv' /\ PreserveInv'
  BY DEF IInv, ForwardsInv, ForwardsStopped, PreserveInv, CleanupSteps, BeforeInstall
<1> QED BY <1>1, <1>2, <1>3 DEF IInv

\* A stage after helm install may fail, if what cleanup_pending leaves to the
\* caller has been stopped.
LEMMA FailStageStep ==
    ASSUME IInv, NEW stage \in Deployed \ {"running"}, FailStage(stage),
           hangs' \in BOOLEAN, forwards' \in {0, forwards}, stage \in {"wait", "forward"} => forwards' = 0
    PROVE  IInv'
<1> USE DEF FailStage, config, cluster, cleanupVars
<1>1. TypeOK'
  BY DEF IInv, TypeOK
<1>2. StageInv' /\ ReleaseInNamespace' /\ LeaksExplained'
  BY DEF IInv, StageInv, ReleaseInNamespace, LeaksExplained, BeforeInstall, Deployed, Terminal
<1>3. ForwardsInv' /\ PreserveInv'
  BY DEF IInv, ForwardsInv, ForwardsStopped, PreserveInv, CleanupSteps, Deployed
<1> QED BY <1>1, <1>2, <1>3 DEF IInv

\* The stages of deploy() preserve the inductive invariant.
LEMMA SetupStep == IInv /\ Setup /\ hangs' \in BOOLEAN => IInv'
<1> SUFFICES ASSUME IInv, Setup, hangs' \in BOOLEAN PROVE IInv'
  OBVIOUS
<1> DEFINE Others == StageInv /\ ReleaseInNamespace /\ LeaksExplained /\ ForwardsInv /\ PreserveInv
<1>a. ASSUME TypeOK', Others' PROVE IInv'
  BY <1>a DEF IInv
<1> USE DEF config, cluster, cleanupVars
<1>1. CASE ResolveObservability
  BY <1>1, PassesStep, AbandonStep DEF ResolveObservability, BeforeInstall
<1>2. CASE EnsureSupportedTopology
  BY <1>2, PassesStep, AbandonStep DEF EnsureSupportedTopology, BeforeInstall
<1>3. CASE InitKubeClient
  BY <1>3, PassesStep, AbandonStep DEF InitKubeClient, BeforeInstall
<1>4. CASE PrepareAssets
  <2>1. CASE Abandon("assets")
    BY <2>1, AbandonStep DEF BeforeInstall
  <2>2. CASE ~ Abandon("assets")
    <3>1. TypeOK'
      BY <1>4, <2>2, ZenonT(30) DEF PrepareAssets, IInv, TypeOK
    <3>2. Others'
      BY <1>4, <2>2 DEF PrepareAssets, IInv, StageInv, ReleaseInNamespace, LeaksExplained,
             ForwardsInv, ForwardsStopped, PreserveInv, BeforeInstall, Deployed, CleanupSteps,
             Terminal
    <3> QED BY <3>1, <3>2, <1>a
  <2> QED BY <2>1, <2>2
<1>5. CASE InstallStack
  <2>1. TypeOK'
    BY <1>5 DEF InstallStack, IInv, TypeOK
  <2>2. Others'
    BY <1>5 DEF InstallStack, IInv, StageInv, ReleaseInNamespace, LeaksExplained, ForwardsInv,
                ForwardsStopped, PreserveInv, BeforeInstall, Deployed, CleanupSteps, Terminal
  <2> QED BY <2>1, <2>2, <1>a
<1>6. CASE InstallFails
  <2>1. TypeOK'
    BY <1>6 DEF InstallFails, IInv, TypeOK
  <2>2. Others'
    BY <1>6 DEF InstallFails, IInv, StageInv, ReleaseInNamespace, LeaksExplained, ForwardsInv,
                ForwardsStopped, PreserveInv, BeforeInstall, Deployed, CleanupSteps, Terminal
  <2> QED BY <2>1, <2>2, <1>a
<1>7. CASE NodeReady
  <2>1. TypeOK'
    BY <1>7, K8sAssumption DEF NodeReady, IInv, TypeOK
  <2>2. Others'
    BY <1>7 DEF NodeReady, IInv, StageInv, ReleaseInNamespace, LeaksExplained, ForwardsInv,
                ForwardsStopped, PreserveInv
  <2> QED BY <2>1, <2>2, <1>a
<1>8. CASE NodeNotReady
  <2>1. forwards = 0
    BY <1>8 DEF NodeNotReady, FailStage, IInv, TypeOK, ForwardsInv, ForwardsStopped
  <2> QED BY <1>8, <2>1, FailStageStep DEF NodeNotReady, Deployed
<1>9. CASE ProbeNodePorts
  BY <1>9, PassesStep DEF ProbeNodePorts, Deployed
<1>10. CASE ForwardPort
  <2>1. TypeOK'
    BY <1>10, K8sAssumption DEF ForwardPort, IInv, TypeOK
  <2>2. Others'
    BY <1>10 DEF ForwardPort, IInv, StageInv, ReleaseInNamespace, LeaksExplained, ForwardsInv,
                 ForwardsStopped, PreserveInv
  <2> QED BY <2>1, <2>2, <1>a
<1>11. CASE ForwardFails
  BY <1>11, FailStageStep DEF ForwardFails, Deployed
<1>12. CASE ProbeForwards
  BY <1>12, PassesStep, FailStageStep DEF ProbeForwards, Deployed
<1>13. CASE EnsureReadiness
  <2>1. TypeOK'
    BY <1>13 DEF EnsureReadiness, IInv, TypeOK
  <2>2. Others'
    BY <1>13 DEF EnsureReadiness, IInv, StageInv, ReleaseInNamespace, LeaksExplained,
                 ForwardsInv, ForwardsStopped, PreserveInv, BeforeInstall, Deployed,
                 CleanupSteps, Terminal
  <2> QED BY <2>1, <2>2, <1>a
<1>14. CASE ReadinessFails
  <2>1. TypeOK'
    BY <1>14 DEF ReadinessFails, IInv, TypeOK
  <2>2. Others'
    BY <1>14 DEF ReadinessFails, IInv, StageInv, ReleaseInNamespace, LeaksExplained,
                 ForwardsInv, ForwardsStopped, PreserveInv, BeforeInstall, Deployed,
                 CleanupSteps, Terminal
  <2> QED BY <2>1, <2>2, <1>a
<1>15. CASE BuildNodeClients
  BY <1>15, PassesStep, FailStageStep DEF BuildNodeClients, Deployed
<1>16. CASE BuildTelemetry
  BY <1>16, PassesStep, FailStageStep DEF BuildTelemetry, Deployed
<1>17. CASE SpawnBlockFeed
  <2>1. CASE FailStage("feed") /\ UNCHANGED forwards
    BY <2>1, FailStageStep DEF Deployed
  <2>2. CASE ~ (FailStage("feed") /\ UNCHANGED forwards)
    <3>1. TypeOK'
      BY <1>17, <2>2, ZenonT(30) DEF SpawnBlockFeed, IInv, TypeOK
    <3>2. Others'
      BY <1>17, <2>2 DEF SpawnBlockFeed, IInv, StageInv, ReleaseInNamespace, LeaksExplained,
             ForwardsInv, ForwardsStopped, PreserveInv, BeforeInstall, Deployed, CleanupSteps,
             Terminal
    <3> QED BY <3>1, <3>2, <1>a
  <2> QED BY <2>1, <2>2
<1> QED BY <1>1, <1>2, <1>3, <1>4, <1>5, <1>6, <1>7, <1>8, <1>9, <1>10, <1>11, <1>12, <1>13,
           <1>14, <1>15, <1>16, <1>17 DEF Setup

\* The steps of a cleanup preserve it.
LEMMA TeardownStep == IInv /\ Teardown /\ hangs' \in BOOLEAN => IInv'
<1> SUFFICES ASSUME IInv, Teardown, hangs' \in BOOLEAN PROVE IInv'
  OBVIOUS
<1> USE K8sAssumption
    DEF config, cluster, cleanupVars, Terminal, CleanupSteps, BeforeInstall, Deployed, IInv,
        TypeOK, StageInv, ReleaseInNamespace, LeaksExplained, ForwardsInv, ForwardsStopped,
        PreserveInv
<1>1. CASE LogsDumped
  BY <1>1 DEF LogsDumped, Begin, Finish
<1>2. CASE RunOver
  BY <1>2 DEF RunOver, Begin, Finish
<1>3. CASE Uninstall
  BY <1>3 DEF Uninstall
<1>4. CASE DeleteViaApi
  BY <1>4 DEF DeleteViaApi
<1>5. CASE ApiFails
  BY <1>5 DEF ApiFails, MayTerminate
<1>6. CASE DeleteViaCli
  BY <1>6 DEF DeleteViaCli
<1>7. CASE CliFails
  BY <1>7 DEF CliFails, MayTerminate, Finish
<1>8. CASE PollPresent
  BY <1>8 DEF PollPresent, Finish
<1>9. CASE PollGone
  BY <1>9 DEF PollGone, Finish
<1>10. CASE PollFails
  BY <1>10 DEF PollFails, Finish
<1>11. CASE AttemptTimesOut
  BY <1>11 DEF AttemptTimesOut, MayTerminate, Begin, Finish
<1> QED BY <1>1, <1>2, <1>3, <1>4, <1>5, <1>6, <1>7, <1>8, <1>9, <1>10, <1>11 DEF Teardown

\* So does what the cluster does by itself.
LEMMA ClusterStep == IInv /\ Cluster => IInv'
<1> SUFFICES ASSUME IInv, NamespaceGone \/ CommandFinishes, UNCHANGED hangs PROVE IInv'
  BY DEF Cluster
<1>1. /\ namespace' \in {namespace, "absent"} /\ release' = "none"
      /\ UNCHANGED <<config, pc, cause, idx, assets, guard, forwards, feed, cleanupVars>>
  BY DEF NamespaceGone, CommandFinishes
<1>2. inflight' \subseteq inflight
  BY DEF NamespaceGone, CommandFinishes
<1> USE DEF config, cleanupVars
<1>3. TypeOK'
  <2>1. inflight' \subseteq {"uninstall", "kubectl"}
    BY <1>2 DEF IInv, TypeOK
  <2> QED BY <1>1, <2>1 DEF IInv, TypeOK
<1>4. StageInv' /\ ReleaseInNamespace' /\ LeaksExplained'
  BY <1>1 DEF IInv, StageInv, ReleaseInNamespace, LeaksExplained, BeforeInstall, Terminal
<1>5. ForwardsInv' /\ PreserveInv'
  BY <1>1, <1>2 DEF IInv, ForwardsInv, ForwardsStopped, PreserveInv
<1> QED BY <1>3, <1>4, <1>5 DEF IInv

\* A stage that hangs stays as it is.
LEMMA HangStep == IInv /\ Hang => IInv'
<1> SUFFICES ASSUME IInv, Hang PROVE IInv'
  OBVIOUS
<1> USE DEF Hang, config, cluster, cleanupVars
<1>1. hangs' \in BOOLEAN
  OBVIOUS
<1>2. TypeOK'
  BY <1>1 DEF IInv, TypeOK
<1>3. StageInv' /\ ReleaseInNamespace' /\ LeaksExplained' /\ ForwardsInv' /\ PreserveInv'
  BY DEF IInv, StageInv, ReleaseInNamespace, LeaksExplained, ForwardsInv, ForwardsStopped,
         PreserveInv
<1> QED BY <1>2, <1>3 DEF IInv

\* A step that changes nothing.
LEMMA StutterStep == IInv /\ UNCHANGED vars => IInv'
  BY DEF vars, config, cluster, cleanupVars, IInv, TypeOK, StageInv, ReleaseInNamespace,
         LeaksExplained, ForwardsInv, ForwardsStopped, PreserveInv

\* The inductive invariant of the Kubernetes deployer: which stage holds which
\* of the release, the namespace, the guard and the port forwards, whatever
\* helm, kubectl and the API do, also after the attempt that called them.
THEOREM Invariant == Spec => []IInv
<1>1. IInv /\ [Next]_vars => IInv'
  <2>1. ASSUME IInv, Proceed PROVE IInv'
    <3>1. hangs' \in BOOLEAN
      BY <2>1 DEF Proceed, IInv, TypeOK
    <3> QED BY <2>1, <3>1, SetupStep, TeardownStep DEF Proceed
  <2> QED BY <2>1, HangStep, ClusterStep, StutterStep DEF Next
<1> QED BY InvInit, <1>1, PTL DEF Spec

-----------------------------------------------------------------------------
\* Every state of the deployer is well typed, what is left in the cluster when
\* deploy() or the run is over has a reason, and no port forward process
\* outlives its deployment.
THEOREM SafetyHolds == Spec => []Safety
<1>1. IInv => Safety
  BY DEF IInv, Safety, ForwardsInv
<1> QED BY <1>1, Invariant, PTL

\* With K8S_RUNNER_PRESERVE no step takes away the namespace or the release that
\* helm install has made: neither of the cleanup attempts, nor a command one
\* of them left behind.
THEOREM PreserveHolds == Spec => PreserveKept
<1> DEFINE Kept == preserve => /\ namespace = "active" => namespace' = "active"
                               /\ release = "installed" => release' = "installed"
<1>1. IInv /\ Next => Kept
  <2> SUFFICES ASSUME IInv, Next, preserve
               PROVE  /\ namespace = "active" => namespace' = "active"
                      /\ release = "installed" => release' = "installed"
    OBVIOUS
  <2> USE DEF config, cluster, cleanupVars, CleanupSteps, IInv, StageInv, PreserveInv
  <2>1. CASE Setup
    BY <2>1 DEF Setup, ResolveObservability, EnsureSupportedTopology, InitKubeClient,
                PrepareAssets, InstallStack, InstallFails, NodeReady, NodeNotReady,
                ProbeNodePorts, ForwardPort, ForwardFails, ProbeForwards, EnsureReadiness,
                ReadinessFails, BuildNodeClients, BuildTelemetry, SpawnBlockFeed, Passes,
                Abandon, FailStage, BeforeInstall
  <2>2. CASE Teardown
    BY <2>2 DEF Teardown, LogsDumped, RunOver, Uninstall, DeleteViaApi, ApiFails,
                DeleteViaCli, CliFails, PollPresent, PollGone, PollFails, AttemptTimesOut
  <2>3. CASE NamespaceGone \/ CommandFinishes
    BY <2>3 DEF NamespaceGone, CommandFinishes
  <2>4. CASE Hang
    BY <2>4 DEF Hang
  <2> QED BY <2>1, <2>2, <2>3, <2>4 DEF Next, Proceed, Cluster
<1>2. IInv /\ [Next]_vars => [Kept]_vars
  BY <1>1
<1> QED BY <1>2, Invariant, PTL DEF Spec, PreserveKept
=============================================================================
