---------------------------- MODULE ChaosRestart ----------------------------
(***************************************************************************)
(* RandomRestartWorkload: after a random delay it waits for cooldowns,     *)
(* picks a target at random, restarts it and notes until when the target   *)
(* has to be left alone.                                                   *)
(*                                                                         *)
(* Time passes in ticks.  Instants are kept as the ticks that remain until *)
(* them, so that the state space is finite without a bound on the run.     *)
(* A sleep may last longer than asked for.                                 *)
(***************************************************************************)
EXTENDS Naturals, FiniteSets, FiniteSetsExt

CONSTANTS
    MaxNodes,         \* the topology has up to this many nodes
    MIN_DELAY, MAX_DELAY, TARGET_COOLDOWN  \* the workload's durations, in ticks

ASSUME DurationAssumption ==
    /\ MaxNodes \in Nat
    /\ MIN_DELAY \in Nat /\ MAX_DELAY \in Nat /\ TARGET_COOLDOWN \in Nat

VARIABLES
    nodeCount,    \* nodes of the topology
    includeNodes, \* the workload's include_nodes
    nodeControl,  \* the context has a node control handle
    pc,           \* where start() is
    timer,        \* ticks until the sleep that start() is in is over
    cooldowns,    \* cooldowns[t]: ticks until t may be restarted again
    target,       \* the target that is restarted
    since         \* since[t]: ticks since the last restart of t ended, at most
                  \* TARGET_COOLDOWN, which also stands for never

vars == <<nodeCount, includeNodes, nodeControl, pc, timer, cooldowns, target, since>>

\* targets: a single node is left alone.
Targets == IF includeNodes /\ nodeCount > 1 THEN 0..(nodeCount - 1) ELSE {}

\* random_delay
Delays == IF MAX_DELAY <= MIN_DELAY THEN {MIN_DELAY} ELSE MIN_DELAY..MAX_DELAY

-----------------------------------------------------------------------------
\* start() has no handle or no target: an error.
StartFails ==
    /\ pc = "start"
    /\ ~nodeControl \/ Targets = {}
    /\ pc' = "err"
    /\ UNCHANGED <<nodeCount, includeNodes, nodeControl, timer, cooldowns, target, since>>

\* The first delay begins.
Start ==
    /\ pc = "start"
    /\ nodeControl /\ Targets # {}
    /\ cooldowns' = [t \in Targets |-> 0]
    /\ since' = [t \in Targets |-> TARGET_COOLDOWN]
    /\ pc' = "delay"
    /\ timer' \in Delays
    /\ UNCHANGED <<nodeCount, includeNodes, nodeControl, target>>

\* A sleep is over: of the delay, or of the wait for a cooldown.
SleepEnds ==
    /\ pc \in {"delay", "cool"}
    /\ timer = 0
    /\ pc' = "pick"
    /\ UNCHANGED <<nodeCount, includeNodes, nodeControl, timer, cooldowns, target, since>>

\* Mutant: an instant that is now is still waited for.
Cooling_includesNow == DOMAIN cooldowns

\* The targets whose cooldown ends in the future.
Cooling == {t \in DOMAIN cooldowns : cooldowns[t] > 0}

\* pick_target waits for the first cooldown that ends.
PickWaits ==
    /\ pc = "pick"
    /\ Cooling # {}
    /\ timer' = Min({cooldowns[t] : t \in Cooling})
    /\ pc' = "cool"
    /\ UNCHANGED <<nodeCount, includeNodes, nodeControl, cooldowns, target, since>>

\* pick_target chooses among the targets that are not cooling down, and
\* restart_node is called.
PickTarget ==
    /\ pc = "pick"
    /\ Cooling = {}
    /\ target' \in {t \in Targets : cooldowns[t] = 0}
    /\ pc' = "restart"
    /\ UNCHANGED <<nodeCount, includeNodes, nodeControl, timer, cooldowns, since>>

Less(n) == IF n = 0 THEN 0 ELSE n - 1

\* Mutant: the cooldown counts from when the target was picked, two ticks ago.
RestartDone_fromPick ==
    /\ pc = "restart"
    /\ cooldowns' = [cooldowns EXCEPT ![target] = Less(Less(TARGET_COOLDOWN))]
    /\ since' = [since EXCEPT ![target] = 0]
    /\ pc' = "delay"
    /\ timer' \in Delays
    /\ UNCHANGED <<nodeCount, includeNodes, nodeControl, target>>

\* Mutant: the cooldown ends one tick late.
RestartDone_tooLong ==
    /\ pc = "restart"
    /\ cooldowns' = [cooldowns EXCEPT ![target] = TARGET_COOLDOWN + 1]
    /\ since' = [since EXCEPT ![target] = 0]
    /\ pc' = "delay"
    /\ timer' \in Delays
    /\ UNCHANGED <<nodeCount, includeNodes, nodeControl, target>>

\* The node was restarted: its cooldown begins, and the next delay.
RestartDone ==
    /\ pc = "restart"
    /\ cooldowns' = [cooldowns EXCEPT ![target] = TARGET_COOLDOWN]
    /\ since' = [since EXCEPT ![target] = 0]
    /\ pc' = "delay"
    /\ timer' \in Delays
    /\ UNCHANGED <<nodeCount, includeNodes, nodeControl, target>>

\* restart_node fails, and with it the workload.
RestartFails ==
    /\ pc = "restart"
    /\ pc' = "err"
    /\ UNCHANGED <<nodeCount, includeNodes, nodeControl, timer, cooldowns, target, since>>

Tick ==
    /\ pc \in {"delay", "cool", "restart"}
    /\ timer' = Less(timer)
    /\ cooldowns' = [t \in DOMAIN cooldowns |-> Less(cooldowns[t])]
    /\ since' = [t \in DOMAIN since |->
                    IF since[t] < TARGET_COOLDOWN THEN since[t] + 1 ELSE since[t]]
    /\ UNCHANGED <<nodeCount, includeNodes, nodeControl, pc, target>>

-----------------------------------------------------------------------------
Init ==
    /\ nodeCount \in 0..MaxNodes
    /\ includeNodes \in BOOLEAN /\ nodeControl \in BOOLEAN
    /\ pc = "start"
    /\ timer = 0
    /\ cooldowns = [t \in {} |-> 0]
    /\ target = 0
    /\ since = [t \in {} |-> 0]

Workload ==
    Start \/ StartFails \/ SleepEnds \/ PickWaits \/ PickTarget \/ RestartDone \/ RestartFails

Next == Workload \/ Tick

Spec == Init /\ [][Next]_vars

\* Time passes while the workload sleeps, a task whose sleep is over is polled,
\* and a restart comes to an end.
FairSpec == Spec /\ WF_vars(Tick) /\ SF_vars(SleepEnds) /\ WF_vars(Workload)

-----------------------------------------------------------------------------
(* Properties                                                              *)

\* The types of the variables.
TypeOK ==
    /\ nodeCount \in 0..MaxNodes /\ includeNodes \in BOOLEAN /\ nodeControl \in BOOLEAN
    /\ pc \in {"start", "delay", "cool", "pick", "restart", "err"}
    /\ timer \in 0..Max({MIN_DELAY, MAX_DELAY, TARGET_COOLDOWN})
    /\ DOMAIN cooldowns \subseteq Targets /\ DOMAIN since = DOMAIN cooldowns
    /\ \A t \in DOMAIN cooldowns : /\ cooldowns[t] \in 0..TARGET_COOLDOWN
                                   /\ since[t] \in 0..TARGET_COOLDOWN
    /\ pc = "restart" => target \in Targets

\* A node is restarted again only when its last restart ended at least the
\* target cooldown ago.
CooldownKept == 
    [][pc = "pick" /\ pc' = "restart" => since[target'] = TARGET_COOLDOWN]_vars

\* The workload goes on restarting nodes, unless a restart fails: waiting for
\* cooldowns comes to an end.
RestartsGoOn == []<>(pc \in {"restart", "err"})
=============================================================================
