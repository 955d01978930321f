--------------------------- MODULE ScenarioRunner ---------------------------
(***************************************************************************)
(* Runner::run: the life of one scenario run after deployment.  The runner *)
(* prepares the expectations one after the other, spawns every workload as *)
(* a task of its own, drives them until the run timer fires, keeps them    *)
(* running through a cooldown, aborts and joins what is left, lets the     *)
(* block feed settle and evaluates every expectation.  The cleanup guard   *)
(* of the deployment belongs to the Runner until the run succeeds and to   *)
(* the RunHandle after that.                                               *)
(*                                                                         *)
(* Durations are abstracted: a timer may fire whenever the runner waits on *)
(* it.  Every value of pc but the final ones is an await of run(), where   *)
(* the caller may also drop the future.                                    *)
(***************************************************************************)
EXTENDS Naturals, FiniteSets

CONSTANTS
    Workload,        \* the workloads a scenario may have
    NumExpectations  \* how many expectations it has

ASSUME ExpectationsAssumption == NumExpectations \in Nat

VARIABLES
    workloads,     \* the scenario's workloads
    nodeControl,   \* the context has a node control handle
    hint,          \* block_interval_hint: "none", "zero" or "some"
    pc,            \* where run() is
    next,          \* index of the next expectation to prepare or evaluate
    failures,      \* the expectations whose evaluation failed
    error,         \* which ScenarioError run() returned
    task,          \* task[w]: the task of workload w
    abortAsked,    \* tasks that were told to abort
    joined,        \* tasks whose result the runner has taken
    timedOut,      \* the run timer fired
    guard,         \* who owns the cleanup guard
    cleanups       \* how often the guard's cleanup ran

scenarioVars == <<workloads, nodeControl, hint>>
taskVars == <<task, abortAsked, joined>>
guardVars == <<guard, cleanups>>
vars == <<scenarioVars, pc, next, failures, error, taskVars, timedOut, guardVars>>

Expectation == 1..NumExpectations
Ended == {"ok", "err", "dropped"}

-----------------------------------------------------------------------------
(* Pieces of run()                                                         *)

Running == {w \in workloads : task[w] = "running"}
\* What the JoinSet still holds.
Unjoined == workloads \ joined

\* cooldown_duration: whether there is a cooldown at all.
HasCooldown == hint = "some" \/ (hint = "none" /\ nodeControl)

\* settle_before_expectations returns at once when it knows no interval and
\* nothing controls the nodes.
AfterWorkloads == IF nodeControl \/ hint # "none" THEN "settle" ELSE "evaluate"

\* Mutant: the guard is run by reference and stays where it is.
Cleaned_keepsGuard(owner, state) ==
    IF state[1] = owner THEN <<owner, state[2] + 1>> ELSE state

\* Runner::cleanup, RunHandle::drop: whoever has the guard in its field takes it
\* out and runs it.  The state is <<guard, cleanups>>.
Cleaned(owner, state) ==
    IF state[1] = owner THEN <<"released", state[2] + 1>> ELSE state

GuardBecomes(state) == guard' = state[1] /\ cleanups' = state[2]

\* Drop for Runner: whatever way run() is left, its Runner is dropped, and that
\* cleans up what the Runner still has.
DropRunner(state) == GuardBecomes(Cleaned("runner", state))

\* Mutant: the tasks are plain spawned tasks, which a drop detaches.
DropJoinSet_detaches(left) == abortAsked' = abortAsked

\* Leaving run_workloads drops its JoinSet, which aborts the tasks left in it
\* without waiting for them.
DropJoinSet(left) == abortAsked' = abortAsked \cup left

\* run() fails: the resources are cleaned up, the error is returned and the
\* Runner is dropped.
Fail(kind) ==
    /\ pc' = "err"
    /\ error' = kind
    /\ DropRunner(Cleaned("runner", guardVars))

-----------------------------------------------------------------------------
(* prepare_expectations                                                    *)

CaptureStarts ==
    /\ pc = "capture"
    /\ next \in Expectation
    /\ next' = next + 1
    /\ UNCHANGED <<scenarioVars, pc, failures, error, taskVars, timedOut, guardVars>>

CaptureFails ==
    /\ pc = "capture"
    /\ next \in Expectation
    /\ Fail("capture")
    /\ UNCHANGED <<scenarioVars, next, failures, taskVars, timedOut>>

\* All expectations capture: spawn_workloads, or a sleep if there is nothing to
\* spawn.
SpawnWorkloads ==
    /\ pc = "capture"
    /\ next \notin Expectation
    /\ task' = [w \in Workload |-> IF w \in workloads THEN "running" ELSE "absent"]
    /\ pc' = IF workloads = {} THEN "sleep" ELSE "drive"
    /\ next' = 1
    /\ UNCHANGED <<scenarioVars, failures, error, abortAsked, joined, timedOut, guardVars>>

-----------------------------------------------------------------------------
(* The workload tasks                                                      *)

\* start() returns, fails or panics; the panic is caught and becomes an error.
\* The task may still get there when it has been told to abort.
TaskFinishes(w) ==
    /\ task[w] = "running"
    /\ \E result \in {"ok", "err"} : task' = [task EXCEPT ![w] = result]
    /\ UNCHANGED <<scenarioVars, pc, next, failures, error, abortAsked, joined, timedOut,
                   guardVars>>

\* An aborted task is dropped at its next await.
TaskCancelled(w) ==
    /\ task[w] = "running"
    /\ w \in abortAsked
    /\ task' = [task EXCEPT ![w] = "cancelled"]
    /\ UNCHANGED <<scenarioVars, pc, next, failures, error, abortAsked, joined, timedOut,
                   guardVars>>

-----------------------------------------------------------------------------
(* run_workloads                                                           *)

\* Mutant: a failure that shows up while the tasks are drained is tolerated
\* like a cancellation.
JoinNext_toleratesLateErrors(w) ==
    /\ pc \in {"drive", "cool", "drain"}
    /\ w \in Unjoined
    /\ task[w] \in {"ok", "err", "cancelled"}
    /\ joined' = joined \cup {w}
    /\ IF task[w] = "err" /\ pc # "drain"
       THEN Fail("workload") /\ DropJoinSet(Unjoined \ {w})
       ELSE UNCHANGED <<pc, error, guardVars, abortAsked>>
    /\ UNCHANGED <<scenarioVars, next, failures, task, timedOut>>

\* join_next() yields a finished task, in drive_until_timer or drain_workloads.
\* Success and cancellation are fine, an error ends the run.
JoinNext(w) ==
    /\ pc \in {"drive", "cool", "drain"}
    /\ w \in Unjoined
    /\ task[w] \in {"ok", "err", "cancelled"}
    /\ joined' = joined \cup {w}
    /\ IF task[w] = "err"
       THEN Fail("workload") /\ DropJoinSet(Unjoined \ {w})
       ELSE UNCHANGED <<pc, error, guardVars, abortAsked>>
    /\ UNCHANGED <<scenarioVars, next, failures, task, timedOut>>

\* Mutant: without a cooldown the remaining tasks are left alone.
EnterDrain_noAbort ==
    /\ pc' = IF Unjoined = {} \/ ~HasCooldown THEN AfterWorkloads ELSE "drain"
    /\ abortAsked' = abortAsked

\* drain_workloads begins: abort_all().  Without tasks it ends at once.
EnterDrain ==
    /\ pc' = IF Unjoined = {} THEN AfterWorkloads ELSE "drain"
    /\ abortAsked' = abortAsked \cup Unjoined

\* drive_until_timer is over for the run duration: go on with the cooldown,
\* asleep when no task is left and driving the tasks otherwise.
AfterDrive ==
    IF HasCooldown
    THEN /\ pc' = IF Unjoined = {} THEN "coolsleep" ELSE "cool"
         /\ UNCHANGED abortAsked
    ELSE EnterDrain

\* Mutant: the runner waits for its workloads instead of a timer.
RunTimer_waitsForTasks ==
    /\ pc = "drive"
    /\ Unjoined = {}
    /\ timedOut' = TRUE
    /\ AfterDrive
    /\ UNCHANGED <<scenarioVars, next, failures, error, task, joined, guardVars>>

\* The run timer fires while tasks are left.
RunTimer ==
    /\ pc = "drive"
    /\ timedOut' = TRUE
    /\ AfterDrive
    /\ UNCHANGED <<scenarioVars, next, failures, error, task, joined, guardVars>>

\* Mutant: the workload phase ends with the first task.
AllJoinedEarly_first ==
    /\ pc = "drive"
    /\ joined # {} \/ Unjoined = {}
    /\ AfterDrive
    /\ UNCHANGED <<scenarioVars, next, failures, error, task, joined, timedOut, guardVars>>

\* Every task was joined before the run timer fired.
AllJoinedEarly ==
    /\ pc = "drive"
    /\ Unjoined = {}
    /\ AfterDrive
    /\ UNCHANGED <<scenarioVars, next, failures, error, task, joined, timedOut, guardVars>>

\* A scenario without workloads sleeps through its duration.
SleepEnds ==
    /\ pc = "sleep"
    /\ timedOut' = TRUE
    /\ pc' = IF HasCooldown THEN "coolsleep" ELSE AfterWorkloads
    /\ UNCHANGED <<scenarioVars, next, failures, error, taskVars, guardVars>>

\* The cooldown is over: its timer fired, or every task was joined.
CooldownEnds ==
    /\ pc \in {"cool", "coolsleep"}
    /\ EnterDrain
    /\ UNCHANGED <<scenarioVars, next, failures, error, task, joined, timedOut, guardVars>>

DrainEnds ==
    /\ pc = "drain"
    /\ Unjoined = {}
    /\ pc' = AfterWorkloads
    /\ UNCHANGED <<scenarioVars, next, failures, error, taskVars, timedOut, guardVars>>

-----------------------------------------------------------------------------
(* Settling, run_expectations and the end                                  *)

SettleEnds ==
    /\ pc = "settle"
    /\ pc' = "evaluate"
    /\ UNCHANGED <<scenarioVars, next, failures, error, taskVars, timedOut, guardVars>>

\* evaluate() of the next expectation succeeds or fails; all are evaluated.
Evaluate ==
    /\ pc = "evaluate"
    /\ next \in Expectation
    /\ next' = next + 1
    /\ failures' \in {failures, failures \cup {next}}
    /\ UNCHANGED <<scenarioVars, pc, error, taskVars, timedOut, guardVars>>

\* into_run_handle: the RunHandle gets what the Runner has.
IntoRunHandle(state) == IF state[1] = "runner" THEN <<"handle", state[2]>> ELSE state

\* run() returns: a RunHandle that owns the guard, or the collected failures.
Finish ==
    /\ pc = "evaluate"
    /\ next \notin Expectation
    /\ IF failures = {}
       THEN /\ pc' = "ok"
            /\ DropRunner(IntoRunHandle(guardVars))
            /\ UNCHANGED error
       ELSE Fail("expectations")
    /\ UNCHANGED <<scenarioVars, next, failures, taskVars, timedOut>>

\* The caller drops the future of run(): the JoinSet goes first, then the Runner.
DropRun ==
    /\ pc \notin Ended
    /\ pc' = "dropped"
    /\ DropJoinSet(Unjoined)
    /\ DropRunner(guardVars)
    /\ UNCHANGED <<scenarioVars, next, failures, error, task, joined, timedOut>>

\* The caller drops the RunHandle.
DropHandle ==
    /\ pc = "ok"
    /\ guard = "handle"
    /\ GuardBecomes(Cleaned("handle", guardVars))
    /\ UNCHANGED <<scenarioVars, pc, next, failures, error, taskVars, timedOut>>

-----------------------------------------------------------------------------
Init ==
    /\ workloads \in SUBSET Workload
    /\ nodeControl \in BOOLEAN
    /\ hint \in {"none", "zero", "some"}
    /\ guard \in {"none", "runner"}
    /\ pc = "capture"
    /\ next = 1
    /\ failures = {}
    /\ error = "none"
    /\ task = [w \in Workload |-> "absent"]
    /\ abortAsked = {}
    /\ joined = {}
    /\ timedOut = FALSE
    /\ cleanups = 0

\* The steps of run() itself, timers included.
RunStep ==
    \/ CaptureStarts \/ CaptureFails \/ SpawnWorkloads
    \/ \E w \in Workload : JoinNext(w)
    \/ RunTimer \/ AllJoinedEarly \/ SleepEnds \/ CooldownEnds \/ DrainEnds
    \/ SettleEnds \/ Evaluate \/ Finish

Next ==
    \/ RunStep
    \/ \E w \in Workload : TaskFinishes(w) \/ TaskCancelled(w)
    \/ DropRun
    \/ DropHandle

Spec == Init /\ [][Next]_vars

\* Timers fire, captures and evaluations return, an aborted task is dropped.
\* Nothing says that a workload ever finishes by itself.
Fairness ==
    /\ WF_vars(RunStep)
    /\ \A w \in Workload : WF_vars(TaskCancelled(w))

FairSpec == Spec /\ Fairness

-----------------------------------------------------------------------------
(* Properties                                                              *)

\* The types of the variables.
TypeOK ==
    /\ workloads \subseteq Workload /\ nodeControl \in BOOLEAN
    /\ hint \in {"none", "zero", "some"}
    /\ pc \in {"capture", "sleep", "drive", "cool", "coolsleep", "drain", "settle",
               "evaluate"} \cup Ended
    /\ next \in 1..(NumExpectations + 1)
    /\ failures \subseteq Expectation
    /\ error \in {"none", "capture", "workload", "expectations"}
    /\ task \in [Workload -> {"absent", "running", "ok", "err", "cancelled"}]
    /\ abortAsked \subseteq Workload /\ joined \subseteq Workload
    /\ timedOut \in BOOLEAN
    /\ guard \in {"none", "runner", "handle", "released"}
    /\ cleanups \in Nat

\* Every expectation was evaluated, also those after one that failed.
AllEvaluated ==
    pc = "ok" \/ (pc = "err" /\ error = "expectations") => next = NumExpectations + 1

\* No failure is lost: a run that succeeds had no workload that failed, not even
\* between the run timer and the abort of its task, and no failing expectation;
\* and a report of failed expectations covers all of them.
NoFailureLost ==
    /\ pc = "ok" => /\ \A w \in workloads : task[w] # "err"
                    /\ failures = {}
    /\ AllEvaluated

\* While the feed settles, while expectations are evaluated and when the run
\* has succeeded, no workload is active any more.
QuietWhenJudged == pc \in {"settle", "evaluate", "ok"} => Running = {}

\* A run with a guard has run it when it failed or was dropped, and keeps it
\* while it goes on and while its handle is alive.
GuardFollowsRun ==
    guard # "none" =>
        /\ pc \in {"err", "dropped"} => guard = "released"
        /\ pc \notin Ended => guard = "runner"
        /\ cleanups = IF guard = "released" THEN 1 ELSE 0

\* The types of the variables, and what becomes of the guard.
Safety == TypeOK /\ GuardFollowsRun

\* How the contract sees a task.
UserOf(w) ==
    CASE task[w] = "absent" -> "idle"
      [] task[w] = "running" -> "active"
      [] OTHER -> "gone"

\* The run keeps the contract on its resources and those who use them
\* (RunContract): they are never taken away under a workload that was not told to
\* stop, whether run() fails in a capture, in a workload or in an expectation, or
\* is dropped, and a success leaves nobody behind.
C == INSTANCE RunContract WITH
        User <- Workload,
        verdict <- IF pc \in Ended THEN pc ELSE "pending",
        resources <- IF guard \in {"runner", "handle"} THEN "held" ELSE guard,
        user <- [w \in Workload |-> UserOf(w)],
        told <- abortAsked
ContractKept == C!Contract

\* A run comes to its end even when its workloads never do, and however it ends,
\* its workload tasks end too: none survives it for ever.
RunAndTasksEnd ==
    /\ <>(pc \in Ended)
    /\ (pc \in Ended) ~> (Running = {})

\* The workload phase lasts until the run timer fires, unless every workload has
\* finished by itself before.
EarlyMeansFinished ==
    pc \in {"cool", "coolsleep", "drain", "settle", "evaluate", "ok"} /\ ~timedOut =>
        \A w \in workloads : task[w] = "ok"
=============================================================================
