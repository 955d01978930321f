------------------------ MODULE ScenarioRunnerProofs ------------------------
(***************************************************************************)
(* Proofs about ScenarioRunner for any set of workloads and any number of  *)
(* expectations, and the proof that it implements RunContract.             *)
(***************************************************************************)
EXTENDS ScenarioRunner, TLAPS

\* A result that was taken is a success or a cancellation, unless it ended the
\* run.
JoinedAreFine == \A w \in joined : task[w] \in {"ok", "cancelled"} \/ pc = "err"

\* From settling on, every task has been joined; a sleeping run has none.
JoinedBeforeJudged ==
    /\ joined \subseteq workloads
    /\ pc \in {"settle", "evaluate", "ok"} => Unjoined = {}
    /\ pc = "sleep" => workloads = {}
    /\ pc = "capture" => joined = {}

\* The verdict matches the evaluations.
VerdictMatches ==
    /\ pc = "ok" => failures = {}
    /\ AllEvaluated

\* GuardFollowsRun, and a scenario without a guard never runs one.
GuardInv ==
    /\ GuardFollowsRun
    /\ guard = "none" => cleanups = 0
    /\ guard = "handle" => pc = "ok"
    /\ pc = "ok" => guard # "runner"

IInv == TypeOK /\ JoinedAreFine /\ JoinedBeforeJudged /\ VerdictMatches /\ GuardInv

-----------------------------------------------------------------------------
\* When a run that goes on drops its Runner, with or without having cleaned up
\* before, the guard is released, once.
LEMMA DropReleases ==
    ASSUME GuardInv, cleanups \in Nat, pc \notin Ended,
           guard \in {"none", "runner", "handle", "released"},
           NEW state \in {guardVars, Cleaned("runner", guardVars)}, DropRunner(state)
    PROVE  /\ guard # "none" => guard' = "released" /\ cleanups' = 1
           /\ guard = "none" => guard' = "none" /\ cleanups' = 0
<1>1. guard \in {"none", "runner"} /\ cleanups = 0
  BY DEF GuardInv, GuardFollowsRun
<1>2. CASE guard = "none"
  BY <1>1, <1>2 DEF DropRunner, GuardBecomes, Cleaned, guardVars
<1>3. CASE guard = "runner"
  <2>1. Cleaned("runner", guardVars) = <<"released", 1>>
    BY <1>1, <1>3 DEF Cleaned, guardVars
  <2>2. Cleaned("runner", <<"released", 1>>) = <<"released", 1>>
    BY DEF Cleaned
  <2> QED BY <1>3, <2>1, <2>2 DEF DropRunner, GuardBecomes
<1> QED BY <1>1, <1>2, <1>3

\* The inductive invariant holds at the start.
LEMMA InvInit == Init => IInv
<1> SUFFICES ASSUME Init PROVE IInv
  OBVIOUS
<1>1. TypeOK
  <2>1. next \in 1..(NumExpectations + 1)
    BY ExpectationsAssumption DEF Init
  <2>2. task \in [Workload -> {"absent", "running", "ok", "err", "cancelled"}]
    BY DEF Init
  <2> QED BY <2>1, <2>2 DEF Init, TypeOK, Ended
<1>2. JoinedAreFine /\ JoinedBeforeJudged
  BY DEF Init, JoinedAreFine, JoinedBeforeJudged
<1>3. VerdictMatches /\ GuardInv
  BY DEF Init, VerdictMatches, AllEvaluated, GuardInv, GuardFollowsRun, Ended
<1> QED BY <1>1, <1>2, <1>3 DEF IInv

\* A step that fails the run and leaves the tasks' results alone preserves the
\* invariant.
LEMMA FailKeepsInv ==
    ASSUME IInv, pc \notin Ended, NEW kind \in {"capture", "workload", "expectations"},
           Fail(kind), UNCHANGED <<scenarioVars, next, failures, task, timedOut>>,
           joined' \subseteq workloads, abortAsked' \subseteq Workload,
           kind = "expectations" => next = NumExpectations + 1
    PROVE  IInv'
<1>1. /\ guard # "none" => guard' = "released" /\ cleanups' = 1
      /\ guard = "none" => guard' = "none" /\ cleanups' = 0
  BY DropReleases DEF IInv, TypeOK, Fail
<1>2. TypeOK'
  BY <1>1 DEF IInv, TypeOK, Fail, scenarioVars, Ended, Expectation
<1>3. JoinedAreFine' /\ JoinedBeforeJudged'
  BY DEF JoinedAreFine, JoinedBeforeJudged, Fail, scenarioVars
<1>4. VerdictMatches'
  BY DEF VerdictMatches, AllEvaluated, Fail
<1>5. GuardInv'
  BY <1>1 DEF GuardInv, GuardFollowsRun, Fail, Ended, IInv
<1> QED BY <1>2, <1>3, <1>4, <1>5 DEF IInv

\* Every step preserves the inductive invariant.
LEMMA InvStep == IInv /\ [Next]_vars => IInv'
<1> SUFFICES ASSUME IInv, [Next]_vars PROVE IInv'
  OBVIOUS
<1> USE ExpectationsAssumption
    DEF scenarioVars, taskVars, guardVars, vars, Expectation, Ended, Unjoined
<1>1. CASE CaptureStarts
  BY <1>1 DEF CaptureStarts, IInv, TypeOK, JoinedAreFine, JoinedBeforeJudged,
              VerdictMatches, AllEvaluated, GuardInv, GuardFollowsRun
<1>2. CASE CaptureFails
  BY <1>2, FailKeepsInv DEF CaptureFails, IInv, TypeOK, JoinedBeforeJudged
<1>3. CASE SpawnWorkloads
  <2>1. TypeOK'
    BY <1>3 DEF SpawnWorkloads, IInv, TypeOK
  <2>2. JoinedAreFine' /\ JoinedBeforeJudged' /\ VerdictMatches' /\ GuardInv'
    BY <1>3 DEF SpawnWorkloads, IInv, JoinedAreFine, JoinedBeforeJudged,
                VerdictMatches, AllEvaluated, GuardInv, GuardFollowsRun
  <2> QED BY <2>1, <2>2 DEF IInv
<1>4. ASSUME NEW w \in Workload, TaskFinishes(w) \/ TaskCancelled(w) PROVE IInv'
  <2>1. /\ UNCHANGED <<workloads, nodeControl, hint, pc, next, failures, error, abortAsked,
                       joined, timedOut, guard, cleanups>>
        /\ task[w] = "running"
        /\ \E r \in {"ok", "err", "cancelled"} : task' = [task EXCEPT ![w] = r]
    BY <1>4 DEF TaskFinishes, TaskCancelled
  <2>2. TypeOK'
    BY <2>1 DEF IInv, TypeOK
  <2>3. JoinedAreFine'
    BY <2>1 DEF IInv, TypeOK, JoinedAreFine
  <2>4. JoinedBeforeJudged' /\ VerdictMatches' /\ GuardInv'
    BY <2>1 DEF IInv, JoinedBeforeJudged, VerdictMatches, AllEvaluated, GuardInv,
                GuardFollowsRun
  <2> QED BY <2>2, <2>3, <2>4 DEF IInv
<1>5. ASSUME NEW w \in Workload, JoinNext(w) PROVE IInv'
  <2>1. CASE task[w] = "err"
    BY <1>5, <2>1, FailKeepsInv DEF JoinNext, DropJoinSet, IInv, TypeOK, JoinedBeforeJudged
  <2>2. CASE task[w] # "err"
    <3>1. /\ UNCHANGED <<workloads, nodeControl, hint, pc, next, failures, error, task,
                         abortAsked, timedOut, guard, cleanups>>
          /\ joined' = joined \cup {w} /\ w \in workloads
          /\ pc \in {"drive", "cool", "drain"}
          /\ task[w] \in {"ok", "cancelled"}
      BY <1>5, <2>2 DEF JoinNext
    <3>2. TypeOK' /\ JoinedAreFine' /\ JoinedBeforeJudged'
      BY <3>1 DEF IInv, TypeOK, JoinedAreFine, JoinedBeforeJudged
    <3>3. VerdictMatches' /\ GuardInv'
      BY <3>1 DEF IInv, VerdictMatches, AllEvaluated, GuardInv, GuardFollowsRun
    <3> QED BY <3>2, <3>3 DEF IInv
  <2> QED BY <2>1, <2>2
<1>6. CASE RunTimer \/ AllJoinedEarly \/ SleepEnds \/ CooldownEnds \/ DrainEnds \/ SettleEnds
  <2>1. /\ UNCHANGED <<workloads, nodeControl, hint, next, failures, error, task, joined,
                       guard, cleanups>>
        /\ timedOut' \in BOOLEAN
        /\ abortAsked' \subseteq Workload
        /\ pc \in {"drive", "sleep", "cool", "coolsleep", "drain", "settle"}
        /\ pc' \in {"coolsleep", "cool", "drain", "settle", "evaluate"}
        /\ pc' \in {"settle", "evaluate"} => Unjoined = {}
    BY <1>6 DEF RunTimer, AllJoinedEarly, SleepEnds, CooldownEnds, DrainEnds, SettleEnds,
                AfterDrive, EnterDrain, AfterWorkloads, IInv, TypeOK, JoinedBeforeJudged
  <2>2. TypeOK' /\ JoinedAreFine' /\ JoinedBeforeJudged'
    BY <2>1 DEF IInv, TypeOK, JoinedAreFine, JoinedBeforeJudged
  <2>3. VerdictMatches' /\ GuardInv'
    BY <2>1 DEF IInv, VerdictMatches, AllEvaluated, GuardInv, GuardFollowsRun
  <2> QED BY <2>2, <2>3 DEF IInv
<1>7. CASE Evaluate
  <2>1. TypeOK' /\ JoinedAreFine' /\ JoinedBeforeJudged'
    BY <1>7 DEF Evaluate, IInv, TypeOK, JoinedAreFine, JoinedBeforeJudged
  <2>2. VerdictMatches' /\ GuardInv'
    BY <1>7 DEF Evaluate, IInv, VerdictMatches, AllEvaluated, GuardInv, GuardFollowsRun
  <2> QED BY <2>1, <2>2 DEF IInv
<1>8. CASE Finish
  <2>0. next = NumExpectations + 1
    BY <1>8 DEF Finish, IInv, TypeOK
  <2>1. CASE failures # {}
    BY <1>8, <2>0, <2>1, FailKeepsInv DEF Finish, IInv, TypeOK, JoinedBeforeJudged
  <2>2. CASE failures = {}
    <3>0. /\ pc' = "ok" /\ UNCHANGED cleanups
          /\ guard' = IF guard = "runner" THEN "handle" ELSE guard
      BY <1>8, <2>2 DEF Finish, DropRunner, GuardBecomes, Cleaned, IntoRunHandle
    <3>1. TypeOK' /\ JoinedAreFine' /\ JoinedBeforeJudged'
      BY <1>8, <2>2, <3>0 DEF Finish, IInv, TypeOK, JoinedAreFine, JoinedBeforeJudged
    <3>2. VerdictMatches' /\ GuardInv'
      BY <1>8, <2>0, <2>2, <3>0
         DEF Finish, IInv, TypeOK, VerdictMatches, AllEvaluated, GuardInv, GuardFollowsRun
    <3> QED BY <3>1, <3>2 DEF IInv
  <2> QED BY <2>1, <2>2
<1>9. CASE DropRun
  <2>1. /\ guard # "none" => guard' = "released" /\ cleanups' = 1
        /\ guard = "none" => guard' = "none" /\ cleanups' = 0
    BY <1>9, DropReleases DEF DropRun, IInv, TypeOK
  <2>2. TypeOK' /\ JoinedBeforeJudged'
    BY <1>9, <2>1 DEF DropRun, DropJoinSet, IInv, TypeOK, JoinedBeforeJudged
  <2>3. JoinedAreFine'
    BY <1>9 DEF DropRun, IInv, JoinedAreFine
  <2>4. VerdictMatches' /\ GuardInv'
    BY <1>9, <2>1 DEF DropRun, IInv, VerdictMatches, AllEvaluated, GuardInv, GuardFollowsRun
  <2> QED BY <2>2, <2>3, <2>4 DEF IInv
<1>10. CASE DropHandle
  <2>1. guard' = "released" /\ cleanups' = 1
    BY <1>10 DEF DropHandle, GuardBecomes, Cleaned, IInv, GuardInv, GuardFollowsRun
  <2>2. TypeOK' /\ JoinedAreFine' /\ JoinedBeforeJudged'
    BY <1>10, <2>1 DEF DropHandle, IInv, TypeOK, JoinedAreFine, JoinedBeforeJudged
  <2>3. VerdictMatches' /\ GuardInv'
    BY <1>10, <2>1 DEF DropHandle, IInv, VerdictMatches, AllEvaluated, GuardInv,
                       GuardFollowsRun
  <2> QED BY <2>2, <2>3 DEF IInv
<1>11. CASE UNCHANGED vars
  BY <1>11 DEF IInv, TypeOK, JoinedAreFine, JoinedBeforeJudged, VerdictMatches,
               AllEvaluated, GuardInv, GuardFollowsRun
<1> QED
  BY <1>1, <1>2, <1>3, <1>4, <1>5, <1>6, <1>7, <1>8, <1>9, <1>10, <1>11 DEF Next, RunStep

-----------------------------------------------------------------------------
\* The inductive invariant is an invariant of the run.
THEOREM Invariant == Spec => []IInv
<1>1. Init => IInv
  BY InvInit
<1>2. IInv /\ [Next]_vars => IInv'
  BY InvStep
<1> QED BY <1>1, <1>2, PTL DEF Spec

\* A run that succeeds lost no failure of a workload or an expectation.
THEOREM SuccessIsSound == Spec => []NoFailureLost
<1>1. IInv => NoFailureLost
  BY DEF IInv, JoinedAreFine, JoinedBeforeJudged, VerdictMatches, NoFailureLost, Unjoined
<1> QED BY <1>1, Invariant, PTL

\* No workload is active while the run is judged.
THEOREM JudgedInQuiet == Spec => []QuietWhenJudged
<1>1. IInv => QuietWhenJudged
  BY DEF IInv, JoinedAreFine, JoinedBeforeJudged, QuietWhenJudged, Unjoined, Running
<1> QED BY <1>1, Invariant, PTL

\* The cleanup guard runs exactly once, and when it should.
THEOREM SafetyHolds == Spec => []Safety
<1>1. IInv => Safety
  BY DEF IInv, GuardInv, Safety
<1> QED BY <1>1, Invariant, PTL

\* What the contract needs beyond the invariant: nobody runs before the tasks are
\* spawned or in a scenario that sleeps, and only workloads ever run.
UsersInv ==
    /\ pc = "capture" => \A w \in Workload : task[w] = "absent"
    /\ \A w \in Workload : task[w] = "running" => w \in workloads

\* Every step preserves it.
LEMMA UsersStep == IInv /\ UsersInv /\ [Next]_vars => UsersInv'
<1> SUFFICES ASSUME IInv, UsersInv, [Next]_vars PROVE UsersInv'
  OBVIOUS
<1> USE DEF scenarioVars, taskVars, guardVars, vars, UsersInv
<1>1. CASE CaptureStarts \/ CaptureFails \/ SpawnWorkloads
  BY <1>1 DEF CaptureStarts, CaptureFails, SpawnWorkloads, Fail
<1>2. ASSUME NEW w \in Workload, TaskFinishes(w) \/ TaskCancelled(w) PROVE UsersInv'
  <2>1. /\ UNCHANGED <<workloads, pc>> /\ task[w] = "running"
        /\ \E r \in {"ok", "err", "cancelled"} : task' = [task EXCEPT ![w] = r]
    BY <1>2 DEF TaskFinishes, TaskCancelled
  <2>2. \A v \in Workload : task'[v] = "running" => task[v] = "running"
    BY <2>1 DEF IInv, TypeOK
  <2> QED BY <2>1, <2>2
<1>3. ASSUME NEW w \in Workload, JoinNext(w) PROVE UsersInv'
  BY <1>3 DEF JoinNext, Fail
<1>4. CASE RunTimer \/ AllJoinedEarly \/ SleepEnds \/ CooldownEnds \/ DrainEnds \/ SettleEnds
  BY <1>4 DEF RunTimer, AllJoinedEarly, SleepEnds, CooldownEnds, DrainEnds, SettleEnds,
              AfterDrive, EnterDrain, AfterWorkloads
<1>5. CASE Evaluate \/ Finish \/ DropRun \/ DropHandle
  BY <1>5 DEF Evaluate, Finish, Fail, DropRun, DropHandle
<1>6. CASE UNCHANGED vars
  BY <1>6
<1> QED BY <1>1, <1>2, <1>3, <1>4, <1>5, <1>6 DEF Next, RunStep

\* The run implements the contract on its resources and their users.
THEOREM KeepsContract == Spec => ContractKept
<1> USE DEF scenarioVars, taskVars, guardVars, vars, Ended
<1> DEFINE Seen == [w \in Workload |-> UserOf(w)]
<1>1. Init => C!CInit /\ UsersInv
  BY DEF Init, C!CInit, UserOf, UsersInv
<1>2. IInv /\ UsersInv /\ [Next]_vars => [C!CNext]_(C!cvars)
  <2> SUFFICES ASSUME IInv, UsersInv, [Next]_vars PROVE [C!CNext]_(C!cvars)
    OBVIOUS
  <2>1. ASSUME pc \notin Ended, pc' \in {"err", "dropped"}, UNCHANGED task,
               NEW state \in {guardVars, Cleaned("runner", guardVars)}, DropRunner(state),
               abortAsked \subseteq abortAsked', Running \subseteq abortAsked'
        PROVE  C!FailOrGiveUp
    <3>1. /\ guard # "none" => guard' = "released"
          /\ guard = "none" => guard' = "none"
      BY <2>1, DropReleases DEF IInv, TypeOK
    <3>2. guard \in {"none", "runner"}
      BY <2>1 DEF IInv, GuardInv, GuardFollowsRun, TypeOK
    <3>3. C!Active \subseteq Running
      BY DEF C!Active, UserOf, Running, UsersInv
    <3>4. UNCHANGED Seen
      BY <2>1 DEF UserOf
    <3> QED BY <2>1, <3>1, <3>2, <3>3, <3>4 DEF C!FailOrGiveUp, C!Release
  <2>2. CASE CaptureFails
    <3>1. Running = {}
      BY <2>2 DEF CaptureFails, UsersInv, Running, IInv, TypeOK
    <3> QED BY <2>1, <2>2, <3>1 DEF CaptureFails, Fail, C!CNext
  <2>3. CASE DropRun
    <3>1. Running \subseteq abortAsked'
      BY <2>3 DEF DropRun, DropJoinSet, Running, Unjoined, IInv, JoinedAreFine
    <3> QED BY <2>1, <2>3, <3>1 DEF DropRun, DropJoinSet, C!CNext
  <2>4. ASSUME NEW w \in Workload, JoinNext(w) PROVE [C!CNext]_(C!cvars)
    <3>1. CASE task[w] = "err"
      <4>1. Running \subseteq abortAsked'
        BY <2>4, <3>1 DEF JoinNext, DropJoinSet, Running, Unjoined, IInv, JoinedAreFine
      <4> QED BY <2>1, <2>4, <3>1, <4>1 DEF JoinNext, Fail, DropJoinSet, C!CNext
    <3>2. CASE task[w] # "err"
      BY <2>4, <3>2 DEF JoinNext, UserOf, C!cvars
    <3> QED BY <3>1, <3>2
  <2>5. CASE Finish
    <3>1. Running = {}
      BY <2>5 DEF Finish, Running, Unjoined, IInv, JoinedBeforeJudged, JoinedAreFine
    <3>2. CASE failures = {}
      <4>1. pc' = "ok" /\ guard' = IF guard = "runner" THEN "handle" ELSE guard
        BY <2>5, <3>2 DEF Finish, DropRunner, GuardBecomes, Cleaned, IntoRunHandle
      <4>2. C!Active = {}
        BY <3>1 DEF C!Active, UserOf, Running, UsersInv
      <4>3. UNCHANGED <<Seen, abortAsked>> /\ pc \notin Ended
        BY <2>5 DEF Finish, UserOf
      <4> QED BY <4>1, <4>2, <4>3 DEF C!Succeed, C!CNext
    <3>3. CASE failures # {}
      BY <2>1, <2>5, <3>1, <3>3 DEF Finish, Fail, C!CNext
    <3> QED BY <3>2, <3>3
  <2>6. CASE DropHandle
    BY <2>6 DEF DropHandle, GuardBecomes, Cleaned, UserOf, C!DropHandle, C!Release, C!CNext
  <2>7. CASE SpawnWorkloads
    <3>1. \A w \in workloads : w \in Workload /\ Seen[w] = "idle"
      BY <2>7 DEF SpawnWorkloads, UserOf, UsersInv, IInv, TypeOK
    <3>2. Seen' = [w \in Workload |-> IF w \in workloads THEN "active" ELSE Seen[w]]
      BY <2>7 DEF SpawnWorkloads, UserOf, UsersInv
    <3>3. pc = "capture" /\ pc' \notin Ended /\ UNCHANGED <<guard, abortAsked>>
      BY <2>7 DEF SpawnWorkloads
    <3>4. guard # "released"
      BY <3>3 DEF IInv, GuardInv, GuardFollowsRun
    <3>5. workloads \in SUBSET Workload
      BY DEF IInv, TypeOK
    <3> QED BY <3>1, <3>2, <3>3, <3>4, <3>5 DEF C!Begin, C!CNext
  <2>8. CASE CaptureStarts \/ Evaluate \/ SettleEnds \/ DrainEnds \/ SleepEnds
    BY <2>8 DEF CaptureStarts, Evaluate, SettleEnds, DrainEnds, SleepEnds, AfterWorkloads,
                UserOf, C!cvars
  <2>9. CASE RunTimer \/ AllJoinedEarly \/ CooldownEnds
    <3>1. /\ UNCHANGED <<task, guard>> /\ abortAsked \subseteq abortAsked'
          /\ pc \notin Ended /\ pc' \notin Ended
      BY <2>9 DEF RunTimer, AllJoinedEarly, CooldownEnds, AfterDrive, EnterDrain,
                  AfterWorkloads
    <3> QED BY <3>1 DEF UserOf, C!TellToStop, C!CNext
  <2>10. ASSUME NEW w \in Workload, TaskFinishes(w) \/ TaskCancelled(w)
         PROVE  [C!CNext]_(C!cvars)
    <3>1. /\ UNCHANGED <<pc, guard, abortAsked>> /\ task[w] = "running"
          /\ \E r \in {"ok", "err", "cancelled"} : task' = [task EXCEPT ![w] = r]
      BY <2>10 DEF TaskFinishes, TaskCancelled
    <3>2. Seen[w] = "active" /\ Seen' = [Seen EXCEPT ![w] = "gone"]
      BY <3>1 DEF UserOf, IInv, TypeOK
    <3> QED BY <3>1, <3>2 DEF C!End, C!CNext
  <2>11. CASE UNCHANGED vars
    BY <2>11 DEF UserOf, C!cvars
  <2> QED
    BY <2>2, <2>3, <2>4, <2>5, <2>6, <2>7, <2>8, <2>9, <2>10, <2>11 DEF Next, RunStep
<1> QED BY <1>1, <1>2, UsersStep, Invariant, PTL DEF Spec, ContractKept, C!Contract

-----------------------------------------------------------------------------
(* When the workload phase may end early                                   *)

\* While run_workloads waits for its timer nobody was told to abort, and so no
\* task was cancelled.
EarlyInv ==
    /\ pc \in {"capture", "drive"} =>
          abortAsked = {} /\ \A w \in Workload : task[w] # "cancelled"
    /\ EarlyMeansFinished

\* Every step preserves it.
LEMMA EarlyStep == IInv /\ EarlyInv /\ [Next]_vars => EarlyInv'
<1> SUFFICES ASSUME IInv, EarlyInv, [Next]_vars PROVE EarlyInv'
  OBVIOUS
<1> USE DEF scenarioVars, taskVars, guardVars, vars, Unjoined, EarlyInv, EarlyMeansFinished
<1>1. CASE CaptureStarts \/ CaptureFails
  BY <1>1 DEF CaptureStarts, CaptureFails, Fail
<1>2. CASE SpawnWorkloads
  BY <1>2 DEF SpawnWorkloads
<1>3. ASSUME NEW w \in Workload, TaskFinishes(w) PROVE EarlyInv'
  <2>1. /\ UNCHANGED <<workloads, pc, abortAsked, timedOut>> /\ task[w] = "running"
        /\ \E r \in {"ok", "err"} : task' = [task EXCEPT ![w] = r]
    BY <1>3 DEF TaskFinishes
  <2>2. \A v \in Workload : v # w => task'[v] = task[v]
    BY <2>1 DEF IInv, TypeOK
  <2>3. task'[w] # "cancelled"
    BY <2>1 DEF IInv, TypeOK
  <2>4. workloads \subseteq Workload
    BY DEF IInv, TypeOK
  <2> QED BY <2>1, <2>2, <2>3, <2>4
<1>4. ASSUME NEW w \in Workload, TaskCancelled(w) PROVE EarlyInv'
  <2>1. /\ UNCHANGED <<workloads, pc, abortAsked, timedOut>> /\ task[w] = "running"
        /\ w \in abortAsked /\ task' = [task EXCEPT ![w] = "cancelled"]
    BY <1>4 DEF TaskCancelled
  <2>2. pc \notin {"capture", "drive"}
    BY <2>1
  <2>3. \A v \in Workload : v # w => task'[v] = task[v]
    BY <2>1 DEF IInv, TypeOK
  <2>4. workloads \subseteq Workload
    BY DEF IInv, TypeOK
  <2> QED BY <2>1, <2>2, <2>3, <2>4
<1>5. ASSUME NEW w \in Workload, JoinNext(w) PROVE EarlyInv'
  BY <1>5 DEF JoinNext, Fail
<1>6. CASE RunTimer \/ SleepEnds
  BY <1>6 DEF RunTimer, SleepEnds, AfterDrive, EnterDrain, AfterWorkloads
<1>7. CASE AllJoinedEarly
  <2>1. \A w \in workloads : w \in joined /\ w \in Workload
    BY <1>7 DEF AllJoinedEarly, IInv, TypeOK
  <2>2. \A w \in workloads : task[w] = "ok"
    BY <1>7, <2>1 DEF AllJoinedEarly, IInv, JoinedAreFine
  <2>3. UNCHANGED <<workloads, task>> /\ pc' \notin {"capture", "drive"}
    BY <1>7 DEF AllJoinedEarly, AfterDrive, EnterDrain, AfterWorkloads
  <2> QED BY <2>2, <2>3
<1>8. CASE CooldownEnds \/ DrainEnds \/ SettleEnds
  BY <1>8 DEF CooldownEnds, DrainEnds, SettleEnds, EnterDrain, AfterWorkloads
<1>9. CASE Evaluate \/ Finish \/ DropRun \/ DropHandle
  BY <1>9 DEF Evaluate, Finish, Fail, DropRun, DropHandle
<1>10. CASE UNCHANGED vars
  BY <1>10
<1> QED
  BY <1>1, <1>2, <1>3, <1>4, <1>5, <1>6, <1>7, <1>8, <1>9, <1>10 DEF Next, RunStep

\* run_workloads ends before its timer only when every workload has returned
\* successfully.
THEOREM EarlyIsFinished == Spec => []EarlyMeansFinished
<1>1. Init => EarlyInv
  BY DEF Init, EarlyInv, EarlyMeansFinished
<1>2. EarlyInv => EarlyMeansFinished
  BY DEF EarlyInv
<1> QED BY <1>1, <1>2, EarlyStep, Invariant, PTL DEF Spec
=============================================================================
