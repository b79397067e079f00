-------------------------- MODULE ActionSafetyProofs --------------------------
(***************************************************************************)
(* What is proved of ActionRuns for every number of previews, runs, steps   *)
(* and faults: types; the log agrees with the steps; every effect has a log *)
(* row that names its targets; "done" is said of nothing else than a change *)
(* that took effect; a run is worked on by the task that claimed it; every  *)
(* step is one of CheckedChange, or none of them; and which answers of the  *)
(* verification cost a change its promise.                                  *)
(***************************************************************************)
EXTENDS ActionRuns, FiniteSetTheorems, TLAPS

(***************************************************************************)
(* Types.                                                                   *)
(***************************************************************************)

\* The part of a run in which the task works on the step at its index.
Stepping == {"starting", "checking", "calling", "verifying", "recording", "failing", "judged"}

\* The types of the tasks, and what keeps the index and the remembered outcomes within
\* them.
TaskTypes ==
  /\ task \in [Runs -> Task]
  /\ \A r \in Runs : /\ task[r].stage \in Stepping => task[r].index \in Steps
                     /\ task[r].stage = "judged" => task[r].memo[task[r].index] \in Outcomes

\* The types of everything else.
StoreTypes ==
  /\ view \in [Previews -> View]
  /\ boot \in Boot
  /\ run \in [Runs -> Run]
  /\ step \in [Runs -> [Steps -> StepStatuses]]
  /\ log \in [Runs -> [Steps -> Log]]
  /\ effect \in [Previews -> [Steps -> Nat]]
  /\ late \subseteq Previews \X Steps
  /\ told \in [Runs -> SUBSET (Steps \X Verdicts)]
  /\ lost \subseteq Runs
  /\ faults \in Nat

\* A task works for a preview.
NamedRuns == \A r \in Runs : task[r].stage # "none" => run[r].preview \in Previews

TypeInv == TaskTypes /\ StoreTypes /\ NamedRuns

\* The task of one run is now at a stage and an index and remembers memo; the tasks of
\* other runs are as they were.
TaskIs(r, stage, index, memo) ==
  /\ task' \in [Runs -> Task]
  /\ task'[r].stage = stage /\ task'[r].index = index /\ task'[r].memo = memo
  /\ \A q \in Runs \ {r} : task'[q] = task[q]

\* A fresh task has its type.
LEMMA FreshTask == NoTask \in Task /\ NoTask.stage = "none"
  BY ActionsAssumption DEF NoTask, Task, Stages, Errors, Outcomes, Steps

\* One task is replaced by another.
LEMMA OneTask ==
  ASSUME task \in [Runs -> Task], NEW r \in Runs, NEW t \in Task,
         task' = [task EXCEPT ![r] = t]
  PROVE  TaskIs(r, t.stage, t.index, t.memo)
  BY DEF TaskIs

\* The ways in which the code moves a task on.
LEMMA TaskMoves ==
  ASSUME task \in [Runs -> Task], NEW r \in Runs
  PROVE  /\ \A s \in Stages : Goes(r, s) => TaskIs(r, s, task[r].index, task[r].memo)
         /\ Closes(r, "stopped") => TaskIs(r, "closing", task[r].index, task[r].memo)
         /\ \A e \in Errors : Fails(r, e) => TaskIs(r, "failing", task[r].index, task[r].memo)
         /\ task' = [task EXCEPT ![r] = NoTask] => TaskIs(r, "none", 1, NoTask.memo)
<1>1. task[r] \in Task
  OBVIOUS
<1>2. ASSUME NEW s \in Stages, Goes(r, s)
      PROVE  TaskIs(r, s, task[r].index, task[r].memo)
  <2> DEFINE t == [task[r] EXCEPT !.stage = s]
  <2>1. t \in Task /\ t.stage = s /\ t.index = task[r].index /\ t.memo = task[r].memo
    BY <1>1 DEF Task, Stages
  <2>2. task' = [task EXCEPT ![r] = t]
    BY <1>2 DEF Goes
  <2> HIDE DEF t
  <2> QED
    BY <2>1, <2>2, OneTask
<1>3. ASSUME Closes(r, "stopped")
      PROVE  TaskIs(r, "closing", task[r].index, task[r].memo)
  <2> DEFINE t == [task[r] EXCEPT !.stage = "closing", !.outcome = "stopped"]
  <2>1. t \in Task /\ t.stage = "closing" /\ t.index = task[r].index /\ t.memo = task[r].memo
    BY <1>1 DEF Task, Stages
  <2>2. task' = [task EXCEPT ![r] = t]
    BY <1>3 DEF Closes
  <2> HIDE DEF t
  <2> QED
    BY <2>1, <2>2, OneTask
<1>4. ASSUME NEW e \in Errors, Fails(r, e)
      PROVE  TaskIs(r, "failing", task[r].index, task[r].memo)
  <2> DEFINE t == [task[r] EXCEPT !.stage = "failing", !.error = e]
  <2>1. t \in Task /\ t.stage = "failing" /\ t.index = task[r].index /\ t.memo = task[r].memo
    BY <1>1 DEF Task, Stages
  <2>2. task' = [task EXCEPT ![r] = t]
    BY <1>4 DEF Fails
  <2> HIDE DEF t
  <2> QED
    BY <2>1, <2>2, OneTask
<1>5. ASSUME task' = [task EXCEPT ![r] = NoTask]
      PROVE  TaskIs(r, "none", 1, NoTask.memo)
  <2>1. NoTask.index = 1
    BY DEF NoTask
  <2> QED
    BY <1>5, <2>1, FreshTask, OneTask
<1> QED
  BY <1>2, <1>3, <1>4, <1>5

\* _failed_step leaves its verdict where the report finds it.
LEMMA JudgeMoves ==
  ASSUME TypeInv, NEW r \in Runs, JudgeStep(r)
  PROVE  \E status \in judged(task[r].error, effect[run[r].preview][task[r].index] > 0) :
           /\ status \in Outcomes
           /\ TaskIs(r, "judged", task[r].index,
                     [task[r].memo EXCEPT ![task[r].index] = status])
<1> DEFINE i == task[r].index
<1>1. task[r] \in Task /\ i \in Steps
  BY DEF TypeInv, TaskTypes, JudgeStep, At, Stepping
<1>2. PICK status \in judged(task[r].error, effect[run[r].preview][i] > 0) :
        task' = [task EXCEPT ![r].stage = "judged", ![r].memo[i] = status]
  BY DEF JudgeStep
<1>3. status \in Outcomes
  BY <1>2 DEF judged, Outcomes
<1>4. [task[r].memo EXCEPT ![i] = status] \in [Steps -> {"none"} \cup Outcomes]
  BY <1>1, <1>3 DEF Task
<1> DEFINE t == [task[r] EXCEPT !.stage = "judged",
                                !.memo = [task[r].memo EXCEPT ![i] = status]]
<1>5. t \in Task /\ t.stage = "judged" /\ t.index = i
      /\ t.memo = [task[r].memo EXCEPT ![i] = status]
  BY <1>1, <1>4 DEF Task, Stages
<1>6. task' = [task EXCEPT ![r] = t]
  BY <1>2
<1>7. TaskIs(r, "judged", i, [task[r].memo EXCEPT ![i] = status])
  <2>1. task \in [Runs -> Task]
    BY DEF TypeInv, TaskTypes
  <2> HIDE DEF t
  <2> QED
    BY <2>1, <1>5, <1>6, OneTask
<1> QED
  BY <1>2, <1>3, <1>7

\* finish_step: the row and its log entry are settled together and the task moves on or
\* closes the run, or nothing is stored and the report calls the step unconfirmed.
LEMMA FinishMoves ==
  ASSUME TypeInv, NEW r \in Runs, task[r].index \in Steps, NEW status \in Outcomes,
         FinishStep(r, status)
  PROVE  \/ /\ owns(r) /\ step[r][task[r].index] = "running"
            /\ step' = [step EXCEPT ![r][task[r].index] = status]
            /\ log' = [log EXCEPT ![r][task[r].index].outcome = status]
            /\ \/ status = "completed"
                  /\ TaskIs(r, "between", task[r].index + 1, task[r].memo)
               \/ status # "completed" /\ TaskIs(r, "closing", task[r].index, task[r].memo)
            /\ UNCHANGED lost
         \/ /\ UNCHANGED <<step, log>>
            /\ TaskIs(r, "closing", task[r].index,
                      [task[r].memo EXCEPT ![task[r].index] = "uncertain"])
            /\ lost' \in {lost, lost \cup {r}}
<1> DEFINE i == task[r].index
<1>1. task \in [Runs -> Task] /\ task[r] \in Task
  BY DEF TypeInv, TaskTypes
<1>2. CASE /\ owns(r) /\ step[r][i] = "running"
           /\ step' = [step EXCEPT ![r][i] = status]
           /\ log' = [log EXCEPT ![r][i].outcome = status]
           /\ task' = [task EXCEPT
                         ![r].stage = IF status = "completed" THEN "between" ELSE "closing",
                         ![r].index = IF status = "completed" THEN @ + 1 ELSE @,
                         ![r].outcome = IF status = "completed" THEN @ ELSE "failed"]
           /\ UNCHANGED <<lost, faults>>
  <2> DEFINE next == IF status = "completed" THEN i + 1 ELSE i
             stage == IF status = "completed" THEN "between" ELSE "closing"
             outcome == IF status = "completed" THEN task[r].outcome ELSE "failed"
             t == [task[r] EXCEPT !.stage = stage, !.index = next, !.outcome = outcome]
  <2>1. next \in 1..(N + 1) /\ stage \in Stages
        /\ outcome \in {"completed", "failed", "stopped"}
    BY <1>1, ActionsAssumption DEF Task, Steps, Stages
  <2>2. task' = [task EXCEPT ![r] = t]
    BY <1>1, <1>2
  <2> HIDE DEF next, stage, outcome
  <2>3. t \in Task /\ t.stage = stage /\ t.index = next /\ t.memo = task[r].memo
    BY <1>1, <2>1 DEF Task
  <2> HIDE DEF t
  <2>4. TaskIs(r, stage, next, task[r].memo)
    BY <1>1, <2>2, <2>3, OneTask
  <2> QED
    BY <1>2, <2>4 DEF next, stage
<1>3. CASE /\ \/ ~(owns(r) /\ step[r][i] = "running") /\ UNCHANGED <<lost, faults>>
              \/ Fault /\ lost' = lost \cup {r}
           /\ task' = [task EXCEPT ![r].memo[i] = "uncertain", ![r].stage = "closing",
                                   ![r].outcome = "failed"]
           /\ UNCHANGED <<step, log>>
  <2> DEFINE memo == [task[r].memo EXCEPT ![i] = "uncertain"]
             t == [task[r] EXCEPT !.memo = memo, !.stage = "closing", !.outcome = "failed"]
  <2>1. memo \in [Steps -> {"none"} \cup Outcomes]
    BY <1>1 DEF Task, Outcomes
  <2>2. task' = [task EXCEPT ![r] = t]
    BY <1>1, <1>3
  <2> HIDE DEF memo
  <2>3. t \in Task /\ t.stage = "closing" /\ t.index = i /\ t.memo = memo
    BY <1>1, <2>1 DEF Task, Stages
  <2> HIDE DEF t
  <2>4. TaskIs(r, "closing", i, memo)
    BY <1>1, <2>2, <2>3, OneTask
  <2> QED
    BY <1>3, <2>4 DEF memo
<1> QED
  BY <1>2, <1>3 DEF FinishStep

\* A task that was moved on has its type when its index still names a step.
LEMMA MovedTask ==
  ASSUME TaskTypes, NEW r \in Runs, NEW stage, NEW index, NEW memo,
         TaskIs(r, stage, index, memo),
         stage \in Stepping => index \in Steps,
         stage = "judged" => memo[index] \in Outcomes
  PROVE  TaskTypes'
<1>1. task' \in [Runs -> Task]
  BY DEF TaskIs
<1>2. ASSUME NEW q \in Runs
      PROVE  /\ task'[q].stage \in Stepping => task'[q].index \in Steps
             /\ task'[q].stage = "judged" => task'[q].memo[task'[q].index] \in Outcomes
  <2>1. CASE q = r
    BY <2>1 DEF TaskIs
  <2>2. CASE q # r
    BY <2>2 DEF TaskIs, TaskTypes
  <2> QED
    BY <2>1, <2>2
<1> QED
  BY <1>1, <1>2 DEF TaskTypes

\* Every step of a task keeps the types of the tasks.
LEMMA TaskStepTasks ==
  ASSUME TypeInv, NEW r \in Runs, TaskStep(r)
  PROVE  TaskTypes'
<1> DEFINE i == task[r].index
           memo == task[r].memo
<1>1. TaskTypes /\ task \in [Runs -> Task] /\ task[r] \in Task
  BY DEF TypeInv, TaskTypes
<1>2. ASSUME NEW s \in Stages \ Stepping, Goes(r, s) PROVE TaskTypes'
  BY <1>1, <1>2, TaskMoves, MovedTask DEF Stepping
<1>3. ASSUME NEW s \in Stepping \ {"judged"}, i \in Steps, Goes(r, s) PROVE TaskTypes'
  <2>1. TaskIs(r, s, i, memo)
    BY <1>1, <1>3, TaskMoves DEF Stages, Stepping
  <2> QED
    BY <1>1, <1>3, <2>1, MovedTask
<1>4. ASSUME NEW e \in Errors, i \in Steps, Fails(r, e) PROVE TaskTypes'
  <2>1. TaskIs(r, "failing", i, memo)
    BY <1>1, <1>4, TaskMoves
  <2> QED
    BY <1>1, <1>4, <2>1, MovedTask
<1>5. ASSUME Closes(r, "stopped") PROVE TaskTypes'
  BY <1>1, <1>5, TaskMoves, MovedTask DEF Stepping
<1>6. ASSUME task' = [task EXCEPT ![r] = NoTask] PROVE TaskTypes'
  BY <1>1, <1>6, TaskMoves, MovedTask DEF Stepping
<1>7. task[r].stage \in Stepping => i \in Steps
  BY <1>1 DEF TaskTypes
<1>8. \A s \in {"progress", "between", "closing", "aborting", "reporting"} :
        s \in Stages \ Stepping
  BY DEF Stages, Stepping
<1>9. \A s \in {"starting", "checking", "calling", "verifying", "recording", "failing"} :
        s \in Stepping \ {"judged"}
  BY DEF Stepping
<1>10. {"refused", "unsure"} \subseteq Errors
  BY DEF Errors
<1>11. ASSUME NEW status \in Outcomes, i \in Steps, FinishStep(r, status) PROVE TaskTypes'
  BY <1>1, <1>11, FinishMoves, MovedTask DEF Stepping
<1> HIDE DEF i, memo
<1>12. CASE Claim(r)
  BY <1>2, <1>6, <1>8, <1>12 DEF Claim
<1>13. CASE ClaimRaises(r)
  BY <1>6, <1>13 DEF ClaimRaises
<1>14. CASE ShowProgress(r)
  BY <1>2, <1>8, <1>14 DEF ShowProgress
<1>15. CASE NextStep(r)
  <2>1. i <= N => i \in Steps
    BY <1>1, ActionsAssumption DEF i, Task, Steps
  <2> QED
    BY <1>2, <1>3, <1>5, <1>8, <1>9, <1>15, <2>1 DEF NextStep, i
<1>16. CASE StartStep(r)
  BY <1>2, <1>3, <1>5, <1>7, <1>8, <1>9, <1>16 DEF StartStep, At, Stepping
<1>17. CASE CheckStep(r)
  BY <1>3, <1>4, <1>7, <1>9, <1>10, <1>17 DEF CheckStep, At, Stepping
<1>18. CASE Call(r)
  BY <1>3, <1>4, <1>7, <1>9, <1>10, <1>18 DEF Call, At, Stepping
<1>19. CASE Verify(r)
  BY <1>3, <1>4, <1>7, <1>9, <1>19 DEF Verify, At, Stepping
<1>20. CASE RecordCompleted(r)
  BY <1>7, <1>11, <1>20 DEF RecordCompleted, At, Stepping, Outcomes
<1>21. CASE JudgeStep(r)
  <2>1. PICK status \in Outcomes : TaskIs(r, "judged", i, [memo EXCEPT ![i] = status])
    BY <1>21, JudgeMoves DEF i, memo
  <2>2. i \in Steps /\ [memo EXCEPT ![i] = status][i] \in Outcomes
    BY <1>1, <1>7, <1>21 DEF JudgeStep, At, Stepping, memo, Task
  <2> QED
    BY <1>1, <2>1, <2>2, MovedTask
<1>22. CASE RecordFailed(r)
  <2>1. i \in Steps /\ memo[i] \in Outcomes
    BY <1>1, <1>7, <1>22 DEF RecordFailed, At, Stepping, TaskTypes, memo, i
  <2> QED
    BY <1>11, <1>22, <2>1 DEF RecordFailed, memo, i
<1>23. CASE CloseRun(r)
  BY <1>2, <1>8, <1>23 DEF CloseRun
<1>24. CASE AbortRun(r)
  BY <1>2, <1>8, <1>24 DEF AbortRun
<1>25. CASE PostReport(r)
  BY <1>6, <1>25 DEF PostReport
<1> QED
  BY <1>12, <1>13, <1>14, <1>15, <1>16, <1>17, <1>18, <1>19, <1>20, <1>21, <1>22, <1>23,
     <1>24, <1>25 DEF TaskStep

\* The counters of a fault go up within the naturals.
LEMMA FaultType == ASSUME faults \in Nat, Fault PROVE faults' \in Nat
  BY DEF Fault

\* A report adds verdicts only.
LEMMA TellsTypes ==
  ASSUME told \in [Runs -> SUBSET (Steps \X Verdicts)], NEW r \in Runs, NEW statuses,
         Tells(r, statuses)
  PROVE  told' \in [Runs -> SUBSET (Steps \X Verdicts)]
<1>1. \A status : verdict(status) \in Verdicts
  BY DEF verdict, Verdicts
<1>2. {<<i, verdict(statuses[i])>> : i \in Steps} \subseteq Steps \X Verdicts
  BY <1>1
<1> QED
  BY <1>2 DEF Tells

\* One step's status is written.
LEMMA StepWritten ==
  ASSUME step \in [Runs -> [Steps -> StepStatuses]], NEW r \in Runs, NEW i \in Steps,
         NEW status \in StepStatuses, step' = [step EXCEPT ![r][i] = status]
  PROVE  /\ step' \in [Runs -> [Steps -> StepStatuses]]
         /\ step'[r][i] = status
         /\ \A q \in Runs, j \in Steps : q # r \/ j # i => step'[q][j] = step[q][j]
  OBVIOUS

\* One entry of the log is written.
LEMMA LogWritten ==
  ASSUME log \in [Runs -> [Steps -> Log]], NEW r \in Runs, NEW i \in Steps,
         NEW entry \in Log, log' = [log EXCEPT ![r][i] = entry]
  PROVE  /\ log' \in [Runs -> [Steps -> Log]]
         /\ log'[r][i] = entry
         /\ \A q \in Runs, j \in Steps : q # r \/ j # i => log'[q][j] = log[q][j]
  OBVIOUS

\* One more effect of a step.
LEMMA EffectCounted ==
  ASSUME effect \in [Previews -> [Steps -> Nat]], NEW p \in Previews, NEW i \in Steps,
         effect' = [effect EXCEPT ![p][i] = effect[p][i] + 1]
  PROVE  /\ effect' \in [Previews -> [Steps -> Nat]]
         /\ effect'[p][i] = effect[p][i] + 1
         /\ \A o \in Previews, j \in Steps : o # p \/ j # i => effect'[o][j] = effect[o][j]
<1>1. effect[p][i] + 1 \in Nat
  OBVIOUS
<1> QED
  BY <1>1

\* finish_run writes a settled status, or nothing.
LEMMA FinishRunTypes ==
  ASSUME run \in [Runs -> Run], NEW r \in Runs, NEW status \in Settled,
         finish_run(r, status)
  PROVE  /\ run' \in [Runs -> Run]
         /\ \A q \in Runs \ {r} : run'[q] = run[q]
         /\ run'[r].preview = run[r].preview
         /\ owns(r) => run'[r].status = status /\ ~run'[r].leased
         /\ ~owns(r) => run'[r] = run[r]
<1>1. CASE owns(r)
  <2>1. run' = [run EXCEPT ![r].status = status, ![r].leased = FALSE]
    BY <1>1 DEF finish_run
  <2> QED
    BY <1>1, <2>1 DEF Run
<1>2. CASE ~owns(r)
  BY <1>2 DEF finish_run
<1> QED
  BY <1>1, <1>2

\* Every step of a task keeps the types of everything else.
LEMMA TaskStepStore ==
  ASSUME TypeInv, NEW r \in Runs, TaskStep(r)
  PROVE  StoreTypes'
<1> DEFINE i == task[r].index
<1>1. TaskTypes /\ StoreTypes /\ task[r] \in Task
  BY DEF TypeInv, TaskTypes
<1>2. task[r].stage \in Stepping => i \in Steps
  BY <1>1 DEF TaskTypes
<1> USE DEF StoreTypes
<1>3. CASE Claim(r)
  <2>1. run' \in [Runs -> Run]
    BY <1>1, <1>3 DEF Claim, Run
  <2> QED
    BY <1>1, <1>3, <2>1 DEF Claim
<1>4. CASE ClaimRaises(r)
  BY <1>1, <1>4, FaultType DEF ClaimRaises
<1>5. CASE ShowProgress(r)
  BY <1>1, <1>5, FaultType DEF ShowProgress
<1>6. CASE NextStep(r)
  BY <1>1, <1>6, FaultType DEF NextStep
<1>7. CASE StartStep(r)
  <2>1. i \in Steps
    BY <1>2, <1>7 DEF StartStep, At, Stepping
  <2>2. step' \in [Runs -> [Steps -> StepStatuses]]
    <3>1. step' = [step EXCEPT ![r][i] = "running"] \/ step' = step
      BY <1>7 DEF StartStep
    <3> QED
      BY <1>1, <2>1, <3>1, StepWritten DEF StepStatuses
  <2>3. log' \in [Runs -> [Steps -> Log]]
    <3>1. [outcome |-> "started", final |-> i \notin Bound] \in Log
      BY DEF Log
    <3>2. \/ log' = [log EXCEPT ![r][i] = [outcome |-> "started", final |-> i \notin Bound]]
          \/ log' = log
      BY <1>7 DEF StartStep
    <3> QED
      BY <1>1, <2>1, <3>1, <3>2, LogWritten
  <2> QED
    BY <1>1, <1>7, <2>2, <2>3, FaultType DEF StartStep
<1>8. CASE CheckStep(r)
  <2>1. i \in Steps
    BY <1>2, <1>8 DEF CheckStep, At, Stepping
  <2>2. \A entry \in Log : set_step_values(entry) \in Log
    BY DEF set_step_values, Log
  <2>3. log' \in [Runs -> [Steps -> Log]]
    <3>1. log[r][i] \in Log
      BY <1>1, <2>1
    <3>2. log' = [log EXCEPT ![r][i] = set_step_values(log[r][i])] \/ log' = log
      BY <1>8 DEF CheckStep
    <3> QED
      BY <1>1, <2>1, <2>2, <3>1, <3>2, LogWritten
  <2> QED
    BY <1>1, <1>8, <2>3 DEF CheckStep
<1>9. CASE Call(r)
  <2>1. i \in Steps /\ run[r].preview \in Previews
    BY <1>2, <1>9 DEF Call, At, Stepping, TypeInv, NamedRuns
  <2>2. effect' \in [Previews -> [Steps -> Nat]]
    <3>1. \/ effect' = [effect EXCEPT ![run[r].preview][i] = effect[run[r].preview][i] + 1]
          \/ effect' = effect
      BY <1>9 DEF Call, world
    <3> QED
      BY <1>1, <2>1, <3>1, EffectCounted
  <2>3. late' \subseteq Previews \X Steps
    BY <1>1, <1>9, <2>1 DEF Call, world
  <2> QED
    BY <1>1, <1>9, <2>2, <2>3 DEF Call
<1>10. CASE Verify(r)
  BY <1>1, <1>10 DEF Verify
<1>11. ASSUME NEW status \in Outcomes, i \in Steps, FinishStep(r, status),
              UNCHANGED <<view, boot, run, effect, late, told>>
       PROVE  StoreTypes'
  <2>1. step' \in [Runs -> [Steps -> StepStatuses]]
    <3>1. step' = [step EXCEPT ![r][i] = status] \/ step' = step
      BY <1>11 DEF FinishStep
    <3> QED
      BY <1>1, <1>11, <3>1, StepWritten DEF StepStatuses
  <2>2. log' \in [Runs -> [Steps -> Log]]
    <3>1. log[r][i] \in Log
      BY <1>1, <1>11
    <3>2. [log[r][i] EXCEPT !.outcome = status] \in Log
      BY <1>11, <3>1 DEF Log
    <3>3. log' = [log EXCEPT ![r][i] = [log[r][i] EXCEPT !.outcome = status]] \/ log' = log
      BY <1>11 DEF FinishStep
    <3> QED
      BY <1>1, <1>11, <3>2, <3>3, LogWritten
  <2>3. lost' \subseteq Runs /\ faults' \in Nat
    BY <1>1, <1>11, FaultType DEF FinishStep
  <2> QED
    BY <1>1, <1>11, <2>1, <2>2, <2>3
<1>12. CASE RecordCompleted(r)
  BY <1>2, <1>11, <1>12 DEF RecordCompleted, At, Stepping, Outcomes
<1>13. CASE JudgeStep(r)
  BY <1>1, <1>13 DEF JudgeStep
<1>14. CASE RecordFailed(r)
  <2>1. i \in Steps /\ task[r].memo[i] \in Outcomes
    BY <1>1, <1>2, <1>14 DEF RecordFailed, At, Stepping, TaskTypes
  <2> QED
    BY <1>11, <1>14, <2>1 DEF RecordFailed
<1>15. CASE CloseRun(r)
  <2>1. task[r].outcome \in Settled
    BY <1>1 DEF Task, Settled
  <2>2. run' \in [Runs -> Run]
    BY <1>1, <1>15, <2>1, FinishRunTypes DEF CloseRun
  <2> QED
    BY <1>1, <1>15, <2>2, FaultType DEF CloseRun
<1>16. CASE AbortRun(r)
  <2>1. run' \in [Runs -> Run]
    BY <1>1, <1>16, FinishRunTypes DEF AbortRun, Settled
  <2> QED
    BY <1>1, <1>16, <2>1, FaultType DEF AbortRun
<1>17. CASE PostReport(r)
  <2>1. told' \in [Runs -> SUBSET (Steps \X Verdicts)]
    BY <1>1, <1>17, TellsTypes DEF PostReport
  <2> QED
    BY <1>1, <1>17, <2>1 DEF PostReport
<1> QED
  BY <1>3, <1>4, <1>5, <1>6, <1>7, <1>8, <1>9, <1>10, <1>12, <1>13, <1>14, <1>15, <1>16,
     <1>17 DEF TaskStep

\* A step of a task leaves the tasks and the rows of other runs alone, and the run keeps
\* its preview.
LEMMA TaskStepOthers ==
  ASSUME TypeInv, NEW r \in Runs, TaskStep(r)
  PROVE  /\ task[r].stage # "none"
         /\ \A q \in Runs \ {r} : task'[q] = task[q] /\ run'[q] = run[q]
         /\ run'[r].preview = run[r].preview
<1>1. /\ task \in [Runs -> Task] /\ task[r] \in Task /\ run \in [Runs -> Run]
      /\ step \in [Runs -> [Steps -> StepStatuses]] /\ log \in [Runs -> [Steps -> Log]]
  BY DEF TypeInv, TaskTypes, StoreTypes
<1>2. ASSUME NEW status, NEW i, FinishStep(r, status)
      PROVE  \A q \in Runs \ {r} : task'[q] = task[q]
  BY <1>1, <1>2 DEF FinishStep
<1>3. ASSUME NEW status \in Settled, finish_run(r, status)
      PROVE  (\A q \in Runs \ {r} : run'[q] = run[q]) /\ run'[r].preview = run[r].preview
  BY <1>1, <1>3, FinishRunTypes
<1>4. \A e : Fails(r, e) => \A q \in Runs \ {r} : task'[q] = task[q]
  BY <1>1 DEF Fails
<1>5. \A s : Goes(r, s) => \A q \in Runs \ {r} : task'[q] = task[q]
  BY <1>1 DEF Goes
<1>6. \A o : Closes(r, o) => \A q \in Runs \ {r} : task'[q] = task[q]
  BY <1>1 DEF Closes
<1>7. CASE Claim(r)
  BY <1>1, <1>5, <1>7 DEF Claim, At, Run
<1>8. CASE ClaimRaises(r) \/ PostReport(r)
  BY <1>1, <1>8 DEF ClaimRaises, PostReport, At
<1>9. CASE ShowProgress(r) \/ NextStep(r) \/ StartStep(r)
  BY <1>5, <1>6, <1>9 DEF ShowProgress, NextStep, StartStep, At
<1>10. CASE CheckStep(r) \/ Call(r) \/ Verify(r)
  BY <1>4, <1>5, <1>10 DEF CheckStep, Call, Verify, At
<1>11. CASE RecordCompleted(r) \/ RecordFailed(r)
  BY <1>2, <1>11 DEF RecordCompleted, RecordFailed, At
<1>12. CASE JudgeStep(r)
  BY <1>1, <1>12 DEF JudgeStep, At
<1>13. CASE CloseRun(r)
  <2>1. task[r].outcome \in Settled
    BY <1>1 DEF Task, Settled
  <2> QED
    BY <1>3, <1>5, <1>13, <2>1 DEF CloseRun, At
<1>14. CASE AbortRun(r)
  BY <1>3, <1>5, <1>14 DEF AbortRun, At, Settled
<1> QED
  BY <1>7, <1>8, <1>9, <1>10, <1>11, <1>12, <1>13, <1>14 DEF TaskStep

\* Steps of a task keep the invariant.
LEMMA TaskStepInv == ASSUME TypeInv, NEW r \in Runs, TaskStep(r) PROVE TypeInv'
<1>1. NamedRuns'
  <2> SUFFICES ASSUME NEW q \in Runs, task'[q].stage # "none"
               PROVE  run'[q].preview \in Previews
    BY DEF NamedRuns
  <2>1. NamedRuns
    BY DEF TypeInv
  <2>2. CASE q = r
    BY <2>1, <2>2, TaskStepOthers DEF NamedRuns
  <2>3. CASE q # r
    BY <2>1, <2>3, TaskStepOthers DEF NamedRuns
  <2> QED
    BY <2>2, <2>3
<1> QED
  BY <1>1, TaskStepTasks, TaskStepStore DEF TypeInv

\* The first state of all.
LEMMA InitTypeInv == ASSUME Init PROVE TypeInv
<1>1. TaskTypes
  BY FreshTask DEF Init, TaskTypes, NoTask, Stepping
<1>2. NamedRuns
  BY FreshTask DEF Init, NamedRuns
<1>3. view \in [Previews -> View] /\ run \in [Runs -> Run]
  BY DEF Init, View, Run, NoView, NoRun
<1>4. step \in [Runs -> [Steps -> StepStatuses]] /\ log \in [Runs -> [Steps -> Log]]
  BY DEF Init, StepStatuses, Log, NoLog
<1> QED
  BY <1>1, <1>2, <1>3, <1>4 DEF Init, TypeInv, StoreTypes, Boot

\* What members do with the buttons keeps the invariant.
LEMMA MemberStepInv == ASSUME TypeInv, MemberStep PROVE TypeInv'
<1>1. TaskTypes /\ StoreTypes /\ NamedRuns
  BY DEF TypeInv
<1>2. ASSUME NEW p \in Previews, Offer(p) \/ Confirm(p) \/ Withdraw(p) \/ Expire(p)
      PROVE  TypeInv'
  <2>1. UNCHANGED <<boot, run, step, log, task, effect, late, told, lost, faults>>
    BY <1>2 DEF Offer, Confirm, Withdraw, Expire
  <2>2. view' \in [Previews -> View]
    <3>1. view \in [Previews -> View]
      BY <1>1 DEF StoreTypes
    <3>2. [NoView EXCEPT !.state = "open"] \in View
      BY DEF NoView, View
    <3>3. CASE Offer(p)
      BY <3>1, <3>2, <3>3 DEF Offer
    <3>4. CASE Confirm(p)
      BY <3>1, <3>4 DEF Confirm, View
    <3>5. CASE Withdraw(p)
      BY <3>1, <3>5 DEF Withdraw, View
    <3>6. CASE Expire(p)
      BY <3>1, <3>6 DEF Expire, View
    <3> QED
      BY <1>2, <3>3, <3>4, <3>5, <3>6
  <2> QED
    BY <1>1, <2>1, <2>2 DEF TypeInv, TaskTypes, StoreTypes, NamedRuns
<1>3. ASSUME NEW r \in Runs, RequestStop(r)
      PROVE  TypeInv'
  <2>1. UNCHANGED <<view, boot, step, log, task, effect, late, told, lost, faults>>
    BY <1>3 DEF RequestStop
  <2>2. run' \in [Runs -> Run] /\ \A q \in Runs : run'[q].preview = run[q].preview
    <3>1. run \in [Runs -> Run]
      BY <1>1 DEF StoreTypes
    <3> QED
      BY <1>3, <3>1 DEF RequestStop, Run
  <2> QED
    BY <1>1, <2>1, <2>2 DEF TypeInv, TaskTypes, StoreTypes, NamedRuns
<1> QED
  BY <1>2, <1>3 DEF MemberStep

\* Taking on a confirmed preview keeps the invariant.
LEMMA SubmitStepInv == ASSUME TypeInv, NEW p \in Previews, SubmitStep(p) PROVE TypeInv'
<1>1. TaskTypes /\ StoreTypes /\ NamedRuns
  BY DEF TypeInv
<1>2. view' \in [Previews -> View]
  <2>1. view \in [Previews -> View] /\ view' = [view EXCEPT ![p].submitting = FALSE]
    BY <1>1 DEF StoreTypes, SubmitStep, Submit, SubmitFails
  <2> QED
    BY <2>1 DEF View
<1>3. CASE SubmitFails(p)
  BY <1>1, <1>2, <1>3 DEF SubmitFails, TypeInv, TaskTypes, StoreTypes, NamedRuns
<1>4. ASSUME NEW r \in Runs, Submit(p, r) PROVE TypeInv'
  <2>1. run \in [Runs -> Run] /\ task \in [Runs -> Task]
    BY <1>1 DEF StoreTypes, TaskTypes
  <2>2. run' \in [Runs -> Run] /\ run'[r].preview = p
        /\ \A q \in Runs \ {r} : run'[q] = run[q]
    BY <1>4, <2>1 DEF Submit, NoRun, Run
  <2> DEFINE t == [NoTask EXCEPT !.stage = "queued"]
  <2>3. t \in Task /\ t.stage = "queued"
    BY FreshTask DEF Task, Stages
  <2>4. task' = [task EXCEPT ![r] = t]
    BY <1>4 DEF Submit
  <2> HIDE DEF t
  <2>5. TaskIs(r, "queued", t.index, t.memo)
    BY <2>1, <2>3, <2>4, OneTask
  <2>6. TaskTypes'
    BY <1>1, <2>5, MovedTask DEF Stepping
  <2>7. StoreTypes'
    BY <1>1, <1>2, <1>4, <2>2 DEF Submit, StoreTypes
  <2>8. NamedRuns'
    <3>1. ASSUME NEW q \in Runs, task'[q].stage # "none" PROVE run'[q].preview \in Previews
      <4>1. CASE q = r
        BY <2>2, <4>1
      <4>2. CASE q # r
        BY <1>1, <2>2, <2>5, <3>1, <4>2 DEF NamedRuns, TaskIs
      <4> QED
        BY <4>1, <4>2
    <3> QED
      BY <3>1 DEF NamedRuns
  <2> QED
    BY <2>6, <2>7, <2>8 DEF TypeInv
<1> QED
  BY <1>3, <1>4 DEF SubmitStep

\* recover keeps the invariant.
LEMMA RecoverStepInv == ASSUME TypeInv, RecoverStep PROVE TypeInv'
<1>1. TaskTypes /\ StoreTypes /\ NamedRuns
  BY DEF TypeInv
<1>2. CASE InterruptIncomplete
  <2> DEFINE found == {r \in Runs : incomplete(r)}
  <2>1. run \in [Runs -> Run] /\ step \in [Runs -> [Steps -> StepStatuses]]
        /\ log \in [Runs -> [Steps -> Log]]
    BY <1>1 DEF StoreTypes
  <2>2. run' \in [Runs -> Run] /\ \A r \in Runs : run'[r].preview = run[r].preview
    <3>1. run' = [r \in Runs |-> IF r \in found
                   THEN [run[r] EXCEPT !.status = "interrupted", !.leased = FALSE]
                   ELSE run[r]]
      BY <1>2 DEF InterruptIncomplete
    <3> HIDE DEF found
    <3>2. \A r \in Runs : [run[r] EXCEPT !.status = "interrupted", !.leased = FALSE] \in Run
      BY <2>1 DEF Run, Settled
    <3> QED
      BY <2>1, <3>1, <3>2 DEF Run
  <2>3. step' \in [Runs -> [Steps -> StepStatuses]]
    BY <1>2, <2>1 DEF InterruptIncomplete, StepStatuses
  <2>4. log' \in [Runs -> [Steps -> Log]]
    <3>1. \A entry \in Log : interrupted_log(entry) \in Log
      BY DEF interrupted_log, Log
    <3>2. log' = [r \in Runs |-> [i \in Steps |->
                  IF r \in found THEN interrupted_log(log[r][i]) ELSE log[r][i]]]
      BY <1>2 DEF InterruptIncomplete
    <3> HIDE DEF found
    <3> QED
      BY <2>1, <3>1, <3>2
  <2>5. boot' \in Boot
    BY <1>1, <1>2 DEF InterruptIncomplete, StoreTypes, Boot
  <2>6. UNCHANGED <<view, task, effect, late, told, lost, faults>>
    BY <1>2 DEF InterruptIncomplete
  <2> QED
    BY <1>1, <2>2, <2>3, <2>4, <2>5, <2>6 DEF TypeInv, TaskTypes, StoreTypes, NamedRuns
<1>3. CASE RecoverRaises
  <2>1. UNCHANGED <<view, run, step, log, task, effect, late, told>>
    BY <1>3 DEF RecoverRaises
  <2>2. boot' \in Boot
    BY <1>3 DEF RecoverRaises, after_recovery_error, Boot
  <2>3. lost' \subseteq Runs /\ faults' \in Nat
    BY <1>1, <1>3, FaultType DEF RecoverRaises, StoreTypes
  <2> QED
    BY <1>1, <2>1, <2>2, <2>3 DEF TypeInv, TaskTypes, StoreTypes, NamedRuns
<1>4. CASE Ready
  BY <1>1, <1>4 DEF Ready, TypeInv, TaskTypes, StoreTypes, NamedRuns, Boot
<1>5. ASSUME NEW r \in Runs, ReportInterrupted(r) PROVE TypeInv'
  <2>1. told' \in [Runs -> SUBSET (Steps \X Verdicts)]
    <3>1. told \in [Runs -> SUBSET (Steps \X Verdicts)]
      BY <1>1 DEF StoreTypes
    <3> QED
      BY <1>5, <3>1, TellsTypes DEF ReportInterrupted
  <2>2. boot' \in Boot
    <3> DEFINE left == boot.todo \ {r}
               mark == {r}
    <3>1. boot \in Boot
      BY <1>1 DEF StoreTypes
    <3>2. left \in SUBSET Runs /\ mark \in SUBSET Runs
      BY <3>1 DEF Boot
    <3>3. \/ boot' = [boot EXCEPT !.todo = left, !.marking = mark]
          \/ boot' = [boot EXCEPT !.todo = left]
      BY <1>5 DEF ReportInterrupted
    <3> HIDE DEF left, mark
    <3> QED
      BY <3>1, <3>2, <3>3 DEF Boot
  <2>3. UNCHANGED <<view, run, step, log, task, effect, late, lost, faults>>
    BY <1>5 DEF ReportInterrupted
  <2> QED
    BY <1>1, <2>1, <2>2, <2>3 DEF TypeInv, TaskTypes, StoreTypes, NamedRuns
<1>6. ASSUME NEW r \in Runs, MarkReported(r) PROVE TypeInv'
  <2>1. run' \in [Runs -> Run] /\ \A q \in Runs : run'[q].preview = run[q].preview
    <3>1. run \in [Runs -> Run]
      BY <1>1 DEF StoreTypes
    <3> DEFINE b == run[r].reported \/ run[r].status = "interrupted"
               row == [run[r] EXCEPT !.reported = b]
    <3>2. row \in Run /\ row.preview = run[r].preview
      <4>1. b \in BOOLEAN
        BY <3>1 DEF Run
      <4> HIDE DEF b
      <4> QED
        BY <3>1, <4>1 DEF Run
    <3>3. run' = [run EXCEPT ![r] = row]
      BY <1>6 DEF MarkReported
    <3> HIDE DEF row
    <3> QED
      BY <3>1, <3>2, <3>3
  <2>2. boot' \in Boot
    BY <1>1, <1>6 DEF MarkReported, StoreTypes, Boot
  <2>3. UNCHANGED <<view, step, log, task, effect, late, told, lost, faults>>
    BY <1>6 DEF MarkReported
  <2> QED
    BY <1>1, <2>1, <2>2, <2>3 DEF TypeInv, TaskTypes, StoreTypes, NamedRuns
<1> QED
  BY <1>2, <1>3, <1>4, <1>5, <1>6 DEF RecoverStep

\* The outside world and the process keep the invariant.
LEMMA WorldStepInv ==
  ASSUME TypeInv,
         Crash \/ Shutdown \/ Restart \/ (\E p \in Previews, i \in Steps : Settle(p, i))
  PROVE  TypeInv'
<1>1. TaskTypes /\ StoreTypes /\ NamedRuns /\ task \in [Runs -> Task]
  BY DEF TypeInv, TaskTypes
<1>2. ASSUME view' = [p \in Previews |->
                       IF view[p].state = "none" THEN view[p]
                         ELSE [view[p] EXCEPT !.expired = TRUE, !.submitting = FALSE]]
      PROVE  view' \in [Previews -> View]
  <2>1. \A v \in View : [v EXCEPT !.expired = TRUE, !.submitting = FALSE] \in View
    BY DEF View
  <2> QED
    BY <1>1, <1>2, <2>1 DEF StoreTypes
<1>3. ASSUME task' = [r \in Runs |-> NoTask], UNCHANGED run
      PROVE  TaskTypes' /\ NamedRuns'
  <2>1. \A r \in Runs : task'[r].stage = "none"
    BY <1>3, FreshTask
  <2>2. task' \in [Runs -> Task]
    BY <1>3, FreshTask
  <2> QED
    BY <2>1, <2>2 DEF TaskTypes, NamedRuns, Stepping
<1>4. CASE Crash
  <2>1. StoreTypes'
    BY <1>1, <1>2, <1>4, FaultType DEF Crash, StoreTypes, Boot
  <2> QED
    BY <1>3, <1>4, <2>1 DEF Crash, TypeInv
<1>5. CASE Shutdown
  <2>1. StoreTypes'
    BY <1>1, <1>2, <1>5, FaultType DEF Shutdown, StoreTypes, Boot
  <2>2. \A t \in Task : /\ [t EXCEPT !.stage = "reporting"] \in Task
                        /\ [t EXCEPT !.stage = "reporting"].stage = "reporting"
    BY DEF Task, Stages
  <2>3. task' = [r \in Runs |-> IF task[r].stage \in Running
                               THEN [task[r] EXCEPT !.stage = "reporting"] ELSE NoTask]
    BY <1>5 DEF Shutdown
  <2>4. task' \in [Runs -> Task]
    BY <1>1, <2>2, <2>3, FreshTask
  <2>5. \A r \in Runs : /\ task'[r].stage \in {"none", "reporting"}
                        /\ task'[r].stage # "none" => task[r].stage \in Running
    BY <1>1, <2>2, <2>3, FreshTask
  <2>6. TaskTypes'
    BY <2>4, <2>5 DEF TaskTypes, Stepping
  <2>7. NamedRuns'
    BY <1>1, <1>5, <2>5 DEF Shutdown, NamedRuns, Running
  <2> QED
    BY <2>1, <2>6, <2>7 DEF TypeInv
<1>6. CASE Restart
  <2>1. StoreTypes'
    BY <1>1, <1>6 DEF Restart, StoreTypes, Boot
  <2> QED
    BY <1>3, <1>6, <2>1 DEF Restart, TypeInv
<1>7. ASSUME NEW p \in Previews, NEW i \in Steps, Settle(p, i) PROVE TypeInv'
  <2>1. effect' \in [Previews -> [Steps -> Nat]]
    <3>1. effect \in [Previews -> [Steps -> Nat]]
      BY <1>1 DEF StoreTypes
    <3>2. effect' = [effect EXCEPT ![p][i] = effect[p][i] + 1] \/ effect' = effect
      BY <1>7 DEF Settle
    <3> QED
      BY <3>1, <3>2, EffectCounted
  <2>2. late' \subseteq Previews \X Steps
    BY <1>1, <1>7 DEF Settle, StoreTypes
  <2>3. UNCHANGED <<view, boot, run, step, log, task, told, lost, faults>>
    BY <1>7 DEF Settle
  <2> QED
    BY <1>1, <2>1, <2>2, <2>3 DEF TypeInv, TaskTypes, StoreTypes, NamedRuns
<1> QED
  BY <1>4, <1>5, <1>6, <1>7

\* Every step of the system keeps the invariant.
LEMMA NextTypeInv == ASSUME TypeInv, [Next]_vars PROVE TypeInv'
<1>1. CASE UNCHANGED vars
  BY <1>1 DEF vars, TypeInv, TaskTypes, StoreTypes, NamedRuns
<1>2. CASE Next
  BY <1>2, MemberStepInv, RecoverStepInv, WorldStepInv, SubmitStepInv, TaskStepInv DEF Next
<1> QED
  BY <1>1, <1>2

\* Every variable keeps its type whatever is clicked, fails, crashes or is retried: the
\* index of a task never runs past the steps and every status is one the report knows.
THEOREM RunTypesCorrect == Spec => []TypeOK
<1>1. Init => TypeInv
  BY InitTypeInv
<1>2. TypeInv /\ [Next]_vars => TypeInv'
  BY NextTypeInv
<1>3. TypeInv => TypeOK
  BY DEF TypeInv, TaskTypes, StoreTypes, TypeOK
<1> QED
  BY <1>1, <1>2, <1>3, PTL DEF Spec

(***************************************************************************)
(* The log follows the steps.                                               *)
(***************************************************************************)

\* The actions that write a step or its log entry.
Writes ==
  \/ InterruptIncomplete
  \/ \E r \in Runs : \/ StartStep(r) \/ CheckStep(r)
                     \/ RecordCompleted(r) \/ RecordFailed(r)

\* Nothing else does.
LEMMA OthersDoNotWrite == ASSUME Next, ~Writes PROVE UNCHANGED <<step, log>>
<1>1. CASE MemberStep
  BY <1>1 DEF MemberStep, Offer, Confirm, Withdraw, Expire, RequestStop
<1>2. CASE RecoverStep
  BY <1>2 DEF Writes, RecoverStep, RecoverRaises, Ready, ReportInterrupted, MarkReported
<1>3. CASE Crash \/ Shutdown \/ Restart
  BY <1>3 DEF Crash, Shutdown, Restart
<1>4. CASE \E p \in Previews : SubmitStep(p)
  BY <1>4 DEF SubmitStep, Submit, SubmitFails
<1>5. ASSUME NEW r \in Runs, TaskStep(r) PROVE UNCHANGED <<step, log>>
  <2>1. CASE Claim(r) \/ ClaimRaises(r) \/ ShowProgress(r) \/ NextStep(r)
    BY <2>1 DEF Claim, ClaimRaises, ShowProgress, NextStep
  <2>2. CASE Call(r) \/ Verify(r) \/ JudgeStep(r)
    BY <2>2 DEF Call, Verify, JudgeStep
  <2>3. CASE CloseRun(r) \/ AbortRun(r) \/ PostReport(r)
    BY <2>3 DEF CloseRun, AbortRun, PostReport
  <2> QED
    BY <1>5, <2>1, <2>2, <2>3 DEF TaskStep, Writes
<1>6. CASE \E p \in Previews, i \in Steps : Settle(p, i)
  BY <1>6 DEF Settle
<1> QED
  BY <1>1, <1>2, <1>3, <1>4, <1>5, <1>6 DEF Next

\* How a log entry follows the status of its step.
Follows(outcome, status) ==
  outcome = CASE status = "queued" -> "none" [] status = "running" -> "started"
              [] OTHER -> status

LEMMA FollowsEverywhere ==
  LogFollowsSteps <=> \A r \in Runs, i \in Steps : Follows(log[r][i].outcome, step[r][i])
  BY DEF LogFollowsSteps, Follows

\* StartStep writes a fresh entry over an empty one, or nothing.
LEMMA StartStepWrites ==
  ASSUME TypeInv, NEW r \in Runs, StartStep(r)
  PROVE  \/ UNCHANGED <<step, log>>
         \/ LET i == task[r].index
            IN  /\ i \in Steps /\ owns(r)
                /\ step[r][i] = "queued" /\ step'[r][i] = "running"
                /\ log'[r][i] = [outcome |-> "started", final |-> i \notin Bound]
                /\ \A q \in Runs, j \in Steps :
                     q # r \/ j # i => step'[q][j] = step[q][j] /\ log'[q][j] = log[q][j]
<1> DEFINE i == task[r].index
           entry == [outcome |-> "started", final |-> i \notin Bound]
<1>1. i \in Steps
  BY DEF TypeInv, TaskTypes, StartStep, At, Stepping
<1>2. step \in [Runs -> [Steps -> StepStatuses]] /\ log \in [Runs -> [Steps -> Log]]
  BY DEF TypeInv, StoreTypes
<1>3. SUFFICES ASSUME ~UNCHANGED <<step, log>>
               PROVE  /\ i \in Steps /\ owns(r)
                      /\ step[r][i] = "queued" /\ step'[r][i] = "running"
                      /\ log'[r][i] = entry
                      /\ \A q \in Runs, j \in Steps :
                           q # r \/ j # i
                           => step'[q][j] = step[q][j] /\ log'[q][j] = log[q][j]
  OBVIOUS
<1>4. /\ may_start_step(r, i)
      /\ step' = [step EXCEPT ![r][i] = "running"]
      /\ log' = [log EXCEPT ![r][i] = entry]
  BY <1>3 DEF StartStep
<1>5. entry \in Log
  BY DEF Log
<1> HIDE DEF entry, i
<1>6. step'[r][i] = "running"
      /\ \A q \in Runs, j \in Steps : q # r \/ j # i => step'[q][j] = step[q][j]
  BY <1>1, <1>2, <1>4, StepWritten DEF StepStatuses
<1>7. log'[r][i] = entry
      /\ \A q \in Runs, j \in Steps : q # r \/ j # i => log'[q][j] = log[q][j]
  BY <1>1, <1>2, <1>4, <1>5, LogWritten
<1> QED
  BY <1>1, <1>4, <1>6, <1>7 DEF may_start_step

\* CheckStep completes an entry that was begun, or writes nothing.
LEMMA CheckStepWrites ==
  ASSUME TypeInv, NEW r \in Runs, CheckStep(r)
  PROVE  /\ UNCHANGED step
         /\ \/ UNCHANGED log
            \/ LET i == task[r].index
               IN  /\ i \in Steps /\ step[r][i] = "running"
                   /\ log'[r][i] = set_step_values(log[r][i])
                   /\ \A q \in Runs, j \in Steps : q # r \/ j # i => log'[q][j] = log[q][j]
<1> DEFINE i == task[r].index
<1>1. i \in Steps
  BY DEF TypeInv, TaskTypes, CheckStep, At, Stepping
<1>2. log \in [Runs -> [Steps -> Log]] /\ log[r][i] \in Log
  BY <1>1 DEF TypeInv, StoreTypes
<1>3. SUFFICES ASSUME ~UNCHANGED log
               PROVE  /\ UNCHANGED step
                      /\ i \in Steps /\ step[r][i] = "running"
                      /\ log'[r][i] = set_step_values(log[r][i])
                      /\ \A q \in Runs, j \in Steps :
                           q # r \/ j # i => log'[q][j] = log[q][j]
  BY DEF CheckStep
<1>4. /\ step[r][i] = "running" /\ UNCHANGED step
      /\ log' = [log EXCEPT ![r][i] = set_step_values(log[r][i])]
  BY <1>3 DEF CheckStep
<1>5. set_step_values(log[r][i]) \in Log
  BY <1>2 DEF set_step_values, Log
<1> QED
  BY <1>1, <1>2, <1>4, <1>5, LogWritten

\* finish_step writes the row and the entry, or neither.
LEMMA FinishStepWrites ==
  ASSUME TypeInv, NEW r \in Runs, task[r].index \in Steps, NEW status \in Outcomes,
         FinishStep(r, status)
  PROVE  \/ UNCHANGED <<step, log>>
         \/ LET i == task[r].index
            IN  /\ step'[r][i] = status
                /\ log'[r][i].outcome = status /\ log'[r][i].final = log[r][i].final
                /\ \A q \in Runs, j \in Steps :
                     q # r \/ j # i => step'[q][j] = step[q][j] /\ log'[q][j] = log[q][j]
<1> DEFINE i == task[r].index
           entry == [log[r][i] EXCEPT !.outcome = status]
<1>1. i \in Steps
  OBVIOUS
<1>2. step \in [Runs -> [Steps -> StepStatuses]] /\ log \in [Runs -> [Steps -> Log]]
      /\ log[r][i] \in Log
  BY <1>1 DEF TypeInv, StoreTypes
<1>3. \/ UNCHANGED <<step, log>>
      \/ step' = [step EXCEPT ![r][i] = status] /\ log' = [log EXCEPT ![r][i] = entry]
  BY DEF FinishStep
<1>4. entry \in Log /\ entry.outcome = status /\ entry.final = log[r][i].final
  BY <1>2 DEF Log
<1> HIDE DEF entry, i
<1>5. CASE step' = [step EXCEPT ![r][i] = status] /\ log' = [log EXCEPT ![r][i] = entry]
  <2>1. step'[r][i] = status
        /\ \A q \in Runs, j \in Steps : q # r \/ j # i => step'[q][j] = step[q][j]
    BY <1>1, <1>2, <1>5, StepWritten DEF StepStatuses
  <2>2. log'[r][i] = entry
        /\ \A q \in Runs, j \in Steps : q # r \/ j # i => log'[q][j] = log[q][j]
    BY <1>1, <1>2, <1>4, <1>5, LogWritten
  <2> QED
    BY <1>4, <2>1, <2>2 DEF i
<1> QED
  BY <1>3, <1>5

\* What RecordCompleted and RecordFailed hand to finish_step.
LEMMA Recorded ==
  ASSUME TypeInv, NEW r \in Runs, RecordCompleted(r) \/ RecordFailed(r)
  PROVE  /\ task[r].index \in Steps
         /\ \E status \in Outcomes :
              /\ FinishStep(r, status)
              /\ \/ task[r].stage = "recording" /\ status = "completed"
                 \/ status = task[r].memo[task[r].index]
  BY DEF TypeInv, TaskTypes, RecordCompleted, RecordFailed, At, Stepping, Outcomes

\* Every step of the system keeps log and steps in agreement.
LEMMA NextLogFollows ==
  ASSUME TypeInv, LogFollowsSteps, [Next]_vars
  PROVE  LogFollowsSteps'
<1>1. /\ step \in [Runs -> [Steps -> StepStatuses]] /\ log \in [Runs -> [Steps -> Log]]
      /\ \A r \in Runs, i \in Steps : Follows(log[r][i].outcome, step[r][i])
  BY FollowsEverywhere DEF TypeInv, StoreTypes
<1>2. SUFFICES ASSUME NEW q \in Runs, NEW j \in Steps
               PROVE  Follows(log'[q][j].outcome, step'[q][j])
  BY DEF LogFollowsSteps, Follows
<1>3. CASE UNCHANGED <<step, log>>
  BY <1>1, <1>3
<1>4. CASE InterruptIncomplete
  <2>1. /\ \/ step'[q][j] = step[q][j] /\ log'[q][j] = log[q][j]
           \/ /\ step'[q][j] = IF step[q][j] = "running" THEN "interrupted" ELSE step[q][j]
              /\ log'[q][j] = interrupted_log(log[q][j])
    BY <1>4 DEF InterruptIncomplete
  <2>2. Follows(log[q][j].outcome, step[q][j])
        /\ step[q][j] \in StepStatuses /\ log[q][j] \in Log
    BY <1>1
  <2>3. log[q][j].outcome = "started" <=> step[q][j] = "running"
    BY <2>2 DEF Follows, StepStatuses, Outcomes
  <2>4. interrupted_log(log[q][j]).outcome =
          IF log[q][j].outcome = "started" THEN "interrupted" ELSE log[q][j].outcome
    BY <2>2 DEF interrupted_log, Log
  <2> QED
    BY <2>1, <2>2, <2>3, <2>4 DEF Follows
<1>5. ASSUME NEW r \in Runs, NEW i \in Steps,
             Follows(log'[r][i].outcome, step'[r][i]),
             q # r \/ j # i => step'[q][j] = step[q][j] /\ log'[q][j].outcome = log[q][j].outcome
      PROVE  Follows(log'[q][j].outcome, step'[q][j])
  <2>1. CASE q = r /\ j = i
    BY <1>5, <2>1
  <2>2. CASE q # r \/ j # i
    BY <1>1, <1>5, <2>2
  <2> QED
    BY <2>1, <2>2
<1>6. ASSUME NEW r \in Runs, StartStep(r) PROVE Follows(log'[q][j].outcome, step'[q][j])
  <2>1. Follows("started", "running")
    BY DEF Follows
  <2>2. CASE UNCHANGED <<step, log>>
    BY <1>3, <2>2
  <2>3. CASE ~UNCHANGED <<step, log>>
    <3> DEFINE i == task[r].index
    <3>1. /\ i \in Steps /\ step'[r][i] = "running"
          /\ log'[r][i] = [outcome |-> "started", final |-> i \notin Bound]
          /\ \A o \in Runs, k \in Steps :
               o # r \/ k # i => step'[o][k] = step[o][k] /\ log'[o][k] = log[o][k]
      BY <1>6, <2>3, StartStepWrites
    <3>2. Follows(log'[r][i].outcome, step'[r][i])
      BY <2>1, <3>1
    <3> HIDE DEF i
    <3> QED
      BY <1>5, <3>1, <3>2
  <2> QED
    BY <2>2, <2>3
<1>7. ASSUME NEW r \in Runs, CheckStep(r) PROVE Follows(log'[q][j].outcome, step'[q][j])
  <2> DEFINE i == task[r].index
  <2>1. \A entry \in Log : set_step_values(entry).outcome = entry.outcome
    BY DEF set_step_values, Log
  <2>2. CASE UNCHANGED log
    BY <1>3, <1>7, <2>2, CheckStepWrites
  <2>3. CASE ~UNCHANGED log
    <3>1. /\ UNCHANGED step /\ i \in Steps
          /\ log'[r][i] = set_step_values(log[r][i])
          /\ \A o \in Runs, k \in Steps : o # r \/ k # i => log'[o][k] = log[o][k]
      BY <1>7, <2>3, CheckStepWrites
    <3>2. log'[r][i].outcome = log[r][i].outcome
      BY <1>1, <2>1, <3>1
    <3> QED
      BY <1>1, <1>5, <3>1, <3>2
  <2> QED
    BY <2>2, <2>3
<1>8. ASSUME NEW r \in Runs, RecordCompleted(r) \/ RecordFailed(r)
      PROVE  Follows(log'[q][j].outcome, step'[q][j])
  <2>1. PICK status \in Outcomes : task[r].index \in Steps /\ FinishStep(r, status)
    BY <1>8, Recorded
  <2>2. Follows(status, status)
    BY <2>1 DEF Follows, Outcomes
  <2>3. CASE UNCHANGED <<step, log>>
    BY <1>3, <2>3
  <2>4. CASE ~UNCHANGED <<step, log>>
    BY <1>5, <2>1, <2>2, <2>4, FinishStepWrites
  <2> QED
    BY <2>3, <2>4
<1> QED
  BY <1>3, <1>4, <1>6, <1>7, <1>8, OthersDoNotWrite DEF Writes, vars

\* The audit log and the run agree on every step in every state, whatever crashes and
\* whichever of finish_step, set_step_values and interrupt_incomplete wrote last.
THEOREM LogAgrees == Spec => []LogFollowsSteps
<1>1. Init => LogFollowsSteps
  BY DEF Init, LogFollowsSteps, NoLog
<1>2. TypeInv /\ LogFollowsSteps /\ [Next]_vars => LogFollowsSteps'
  BY NextLogFollows
<1> QED
  BY <1>1, <1>2, InitTypeInv, NextTypeInv, PTL DEF Spec

(***************************************************************************)
(* "Done" is said of changes that took effect.                              *)
(***************************************************************************)

\* Runs that were never stored have no preview: a run's preview is set once.
UnstoredUnnamed == \A r \in Runs : run[r].status = "absent" => run[r].preview = NoPreview

\* Step i of the preview of run r took effect.
Took(r, i) == run[r].preview \in Previews /\ effect[run[r].preview][i] > 0

\* Wherever a step is called completed, and wherever the task is past its call without an
\* error, it took effect.
DoneInv ==
  /\ \A r \in Runs, i \in Steps :
       <<i, "done">> \in told[r] \/ step[r][i] = "completed" \/ task[r].memo[i] = "completed"
         => Took(r, i)
  /\ \A r \in Runs : task[r].stage \in {"verifying", "recording"} => Took(r, task[r].index)

\* Only submit names a run's preview, and no step forgets a stored run.
LEMMA NamesKept ==
  ASSUME TypeInv, UnstoredUnnamed, Next
  PROVE  /\ UnstoredUnnamed'
         /\ \A r \in Runs : run[r].preview \in Previews => run'[r].preview = run[r].preview
<1>1. /\ run \in [Runs -> Run] /\ task \in [Runs -> Task]
      /\ \A r \in Runs : run[r].status = "absent" => run[r].preview = NoPreview
  BY DEF TypeInv, StoreTypes, TaskTypes, UnstoredUnnamed
<1> SUFFICES ASSUME NEW q \in Runs
             PROVE  /\ run'[q].status = "absent" => run'[q].preview = NoPreview
                    /\ run[q].preview \in Previews => run'[q].preview = run[q].preview
  BY DEF UnstoredUnnamed
<1>2. SUFFICES \/ run'[q].status # "absent" /\ run[q].preview = NoPreview
               \/ /\ run'[q].preview = run[q].preview
                  /\ run'[q].status = "absent" => run[q].status = "absent"
  BY <1>1, ActionsAssumption
<1>3. CASE UNCHANGED run
  BY <1>3
<1>4. ASSUME NEW r \in Runs, RequestStop(r) \/ MarkReported(r)
      PROVE  run'[q].preview = run[q].preview /\ run'[q].status = run[q].status
  BY <1>1, <1>4 DEF RequestStop, MarkReported, Run
<1>5. ASSUME NEW p \in Previews, NEW r \in Runs, Submit(p, r)
      PROVE  \/ run'[q] = run[q]
             \/ run'[q].status = "queued" /\ run[q].status = "absent"
  BY <1>1, <1>5 DEF Submit, NoRun
<1>6. CASE InterruptIncomplete
  BY <1>1, <1>6 DEF InterruptIncomplete, Run
<1>7. ASSUME NEW r \in Runs, Claim(r)
      PROVE  /\ run'[q].preview = run[q].preview
             /\ run'[q].status = "absent" => run[q].status = "absent"
  BY <1>1, <1>7 DEF Claim, Run
<1>8. ASSUME NEW r \in Runs, CloseRun(r) \/ AbortRun(r)
      PROVE  /\ run'[q].preview = run[q].preview
             /\ run'[q].status = "absent" => run[q].status = "absent"
  <2>1. PICK status \in Settled : finish_run(r, status) \/ UNCHANGED run
    BY <1>1, <1>8 DEF CloseRun, AbortRun, Task, Settled
  <2>2. run'[q] = run[q] \/ (run'[q].preview = run[q].preview /\ run'[q].status = status)
    BY <1>1, <2>1, FinishRunTypes
  <2> QED
    BY <2>2 DEF Settled
<1>9. CASE MemberStep
  BY <1>3, <1>4, <1>9 DEF MemberStep, Offer, Confirm, Withdraw, Expire
<1>10. CASE RecoverStep
  BY <1>3, <1>4, <1>6, <1>10 DEF RecoverStep, RecoverRaises, Ready, ReportInterrupted
<1>11. CASE Crash \/ Shutdown \/ Restart \/ (\E p \in Previews, i \in Steps : Settle(p, i))
  BY <1>3, <1>11 DEF Crash, Shutdown, Restart, Settle
<1>12. CASE \E p \in Previews : SubmitStep(p)
  BY <1>1, <1>3, <1>5, <1>12 DEF SubmitStep, SubmitFails
<1>13. ASSUME NEW r \in Runs, TaskStep(r)
       PROVE  /\ run'[q].preview = run[q].preview
              /\ run'[q].status = "absent" => run[q].status = "absent"
  <2>1. CASE ClaimRaises(r) \/ ShowProgress(r) \/ NextStep(r) \/ StartStep(r) \/ PostReport(r)
    BY <2>1 DEF ClaimRaises, ShowProgress, NextStep, StartStep, PostReport
  <2>2. CASE CheckStep(r) \/ Call(r) \/ Verify(r) \/ JudgeStep(r) \/ RecordCompleted(r)
             \/ RecordFailed(r)
    BY <2>2 DEF CheckStep, Call, Verify, JudgeStep, RecordCompleted, RecordFailed
  <2> QED
    BY <1>7, <1>8, <1>13, <2>1, <2>2 DEF TaskStep
<1> QED
  BY <1>9, <1>10, <1>11, <1>12, <1>13 DEF Next

\* The actions that change what took effect.
LEMMA OthersDoNotAct ==
  ASSUME Next, ~(\E r \in Runs : Call(r)), ~(\E p \in Previews, i \in Steps : Settle(p, i))
  PROVE  UNCHANGED world
<1>1. CASE MemberStep
  BY <1>1 DEF MemberStep, Offer, Confirm, Withdraw, Expire, RequestStop, world
<1>2. CASE RecoverStep
  BY <1>2 DEF RecoverStep, InterruptIncomplete, RecoverRaises, Ready, ReportInterrupted,
              MarkReported, world
<1>3. CASE Crash \/ Shutdown \/ Restart
  BY <1>3 DEF Crash, Shutdown, Restart, world
<1>4. CASE \E p \in Previews : SubmitStep(p)
  BY <1>4 DEF SubmitStep, Submit, SubmitFails, world
<1>5. ASSUME NEW r \in Runs, TaskStep(r) PROVE UNCHANGED world
  <2>1. CASE Claim(r) \/ ClaimRaises(r) \/ ShowProgress(r) \/ NextStep(r) \/ StartStep(r)
    BY <2>1 DEF Claim, ClaimRaises, ShowProgress, NextStep, StartStep, world
  <2>2. CASE CheckStep(r) \/ Verify(r) \/ JudgeStep(r) \/ RecordCompleted(r)
             \/ RecordFailed(r)
    BY <2>2 DEF CheckStep, Verify, JudgeStep, RecordCompleted, RecordFailed, world
  <2>3. CASE CloseRun(r) \/ AbortRun(r) \/ PostReport(r)
    BY <2>3 DEF CloseRun, AbortRun, PostReport, world
  <2> QED
    BY <1>5, <2>1, <2>2, <2>3 DEF TaskStep
<1> QED
  BY <1>1, <1>2, <1>3, <1>4, <1>5 DEF Next

\* Nothing takes an effect back.
LEMMA EffectStays ==
  ASSUME TypeInv, Next, NEW p \in Previews, NEW i \in Steps, effect[p][i] > 0
  PROVE  effect'[p][i] > 0
<1>1. effect \in [Previews -> [Steps -> Nat]]
  BY DEF TypeInv, StoreTypes
<1>2. ASSUME NEW o \in Previews, NEW j \in Steps,
             effect' = [effect EXCEPT ![o][j] = effect[o][j] + 1]
      PROVE  effect'[p][i] > 0
  BY <1>1, <1>2, EffectCounted
<1>3. ASSUME NEW r \in Runs, Call(r) PROVE effect'[p][i] > 0
  <2>1. run[r].preview \in Previews /\ task[r].index \in Steps
    BY <1>3 DEF Call, At, Stepping, TypeInv, TaskTypes, NamedRuns
  <2> QED
    BY <1>2, <1>3, <2>1 DEF Call, world
<1>4. ASSUME NEW o \in Previews, NEW j \in Steps, Settle(o, j) PROVE effect'[p][i] > 0
  BY <1>2, <1>4 DEF Settle
<1> QED
  BY <1>3, <1>4, OthersDoNotAct DEF world

LEMMA TookStays ==
  ASSUME TypeInv, UnstoredUnnamed, Next, NEW r \in Runs, NEW i \in Steps, Took(r, i)
  PROVE  Took(r, i)'
  BY NamesKept, EffectStays DEF Took

\* A report says "done" of steps it calls completed.
LEMMA ToldDone ==
  ASSUME TypeInv, DoneInv, Next, NEW q \in Runs, NEW j \in Steps, <<j, "done">> \in told'[q]
  PROVE  Took(q, j)
<1>1. told \in [Runs -> SUBSET (Steps \X Verdicts)]
  BY DEF TypeInv, StoreTypes
<1>2. ASSUME told'[q] = told[q] PROVE Took(q, j)
  BY <1>2 DEF DoneInv
<1>3. ASSUME NEW r \in Runs, NEW statuses, Tells(r, statuses),
             q = r => (statuses[j] = "completed" => Took(q, j))
      PROVE  Took(q, j)
  <2>1. CASE q # r
    BY <1>1, <1>2, <1>3, <2>1 DEF Tells
  <2>2. CASE q = r
    <3>1. told'[q] = told[q] \cup {<<i, verdict(statuses[i])>> : i \in Steps}
      BY <1>1, <1>3, <2>2 DEF Tells
    <3>2. CASE <<j, "done">> \in told[q]
      BY <3>2 DEF DoneInv
    <3>3. CASE <<j, "done">> \notin told[q]
      <4>1. PICK i \in Steps : <<j, "done">> = <<i, verdict(statuses[i])>>
        BY <3>1, <3>3
      <4>2. verdict(statuses[j]) = "done"
        BY <4>1
      <4>3. statuses[j] = "completed"
        BY <4>2 DEF verdict
      <4> QED
        BY <1>3, <2>2, <4>3
    <3> QED
      BY <3>2, <3>3
  <2> QED
    BY <2>1, <2>2
<1>4. CASE UNCHANGED told
  BY <1>2, <1>4
<1>5. ASSUME NEW r \in Runs, ReportInterrupted(r) PROVE Took(q, j)
  <2>1. q = r => (step[r][j] = "completed" => Took(q, j))
    BY DEF DoneInv
  <2> QED
    BY <1>3, <1>4, <1>5, <2>1 DEF ReportInterrupted
<1>6. ASSUME NEW r \in Runs, PostReport(r) PROVE Took(q, j)
  <2> DEFINE said == [i \in Steps |-> IF task[r].memo[i] = "none" THEN step[r][i]
                                                                  ELSE task[r].memo[i]]
  <2>1. q = r => (said[j] = "completed" => Took(q, j))
    BY DEF DoneInv
  <2>2. Tells(r, said) \/ UNCHANGED told
    BY <1>6 DEF PostReport
  <2> HIDE DEF said
  <2> QED
    BY <1>3, <1>4, <2>1, <2>2
<1>7. CASE MemberStep
  BY <1>4, <1>7 DEF MemberStep, Offer, Confirm, Withdraw, Expire, RequestStop
<1>8. CASE RecoverStep
  BY <1>4, <1>5, <1>8 DEF RecoverStep, InterruptIncomplete, RecoverRaises, Ready, MarkReported
<1>9. CASE Crash \/ Shutdown \/ Restart \/ (\E p \in Previews, i \in Steps : Settle(p, i))
  BY <1>4, <1>9 DEF Crash, Shutdown, Restart, Settle
<1>10. CASE \E p \in Previews : SubmitStep(p)
  BY <1>4, <1>10 DEF SubmitStep, Submit, SubmitFails
<1>11. ASSUME NEW r \in Runs, TaskStep(r) PROVE Took(q, j)
  <2>1. CASE Claim(r) \/ ClaimRaises(r) \/ ShowProgress(r) \/ NextStep(r) \/ StartStep(r)
    BY <1>4, <2>1 DEF Claim, ClaimRaises, ShowProgress, NextStep, StartStep
  <2>2. CASE CheckStep(r) \/ Call(r) \/ Verify(r) \/ JudgeStep(r) \/ RecordCompleted(r)
             \/ RecordFailed(r) \/ CloseRun(r) \/ AbortRun(r)
    BY <1>4, <2>2 DEF CheckStep, Call, Verify, JudgeStep, RecordCompleted, RecordFailed,
                      CloseRun, AbortRun
  <2> QED
    BY <1>6, <1>11, <2>1, <2>2 DEF TaskStep
<1> QED
  BY <1>7, <1>8, <1>9, <1>10, <1>11 DEF Next

\* finish_step is told "completed" of steps that took effect.
LEMMA StepDone ==
  ASSUME TypeInv, DoneInv, Next, NEW q \in Runs, NEW j \in Steps, step'[q][j] = "completed"
  PROVE  Took(q, j)
<1>1. ASSUME step'[q][j] = step[q][j] PROVE Took(q, j)
  BY <1>1 DEF DoneInv
<1>2. CASE UNCHANGED step
  BY <1>1, <1>2
<1>3. CASE InterruptIncomplete
  BY <1>1, <1>3 DEF InterruptIncomplete
<1>4. ASSUME NEW r \in Runs, StartStep(r) PROVE Took(q, j)
  BY <1>1, <1>4, StartStepWrites
<1>5. ASSUME NEW r \in Runs, RecordCompleted(r) \/ RecordFailed(r) PROVE Took(q, j)
  <2> DEFINE i == task[r].index
  <2>1. PICK status \in Outcomes :
          /\ i \in Steps /\ FinishStep(r, status)
          /\ (task[r].stage = "recording" /\ status = "completed") \/ status = task[r].memo[i]
    BY <1>5, Recorded
  <2>2. status = "completed" => Took(r, i)
    BY <2>1 DEF DoneInv
  <2>3. \/ UNCHANGED <<step, log>>
        \/ /\ step'[r][i] = status
           /\ \A o \in Runs, k \in Steps : o # r \/ k # i => step'[o][k] = step[o][k]
    BY <2>1, FinishStepWrites
  <2> HIDE DEF i
  <2> QED
    BY <1>1, <2>2, <2>3
<1>6. ASSUME NEW r \in Runs, CheckStep(r) PROVE Took(q, j)
  BY <1>2, <1>6, CheckStepWrites
<1> QED
  BY <1>2, <1>3, <1>4, <1>5, <1>6, OthersDoNotWrite DEF Writes

\* What a task remembers, and the stages past its call, after a step of that task.
LEMMA TaskDone ==
  ASSUME TypeInv, DoneInv, NEW r \in Runs, TaskStep(r)
  PROVE  /\ \A j \in Steps : task'[r].memo[j] = "completed" => Took(r, j)
         /\ task'[r].stage \in {"verifying", "recording"}
              => \E k \in Steps : task'[r].index = k /\ (Took(r, k) \/ Took(r, k)')
<1> DEFINE i == task[r].index
           memo == task[r].memo
           Good(s, m) == /\ s \notin {"verifying", "recording"}
                         /\ \A j \in Steps : m[j] = "completed" => Took(r, j)
           Goal == /\ \A j \in Steps : task'[r].memo[j] = "completed" => Took(r, j)
                   /\ task'[r].stage \in {"verifying", "recording"}
                        => \E k \in Steps : task'[r].index = k /\ (Took(r, k) \/ Took(r, k)')
<1>1. /\ task \in [Runs -> Task] /\ task[r] \in Task
      /\ task[r].stage \in Stepping => i \in Steps
      /\ memo \in [Steps -> {"none"} \cup Outcomes]
  BY DEF TypeInv, TaskTypes, Task
<1>2. \A j \in Steps : memo[j] = "completed" => Took(r, j)
  BY DEF DoneInv
<1>3. ASSUME NEW s, NEW k, NEW m, TaskIs(r, s, k, m), Good(s, m) PROVE Goal
  BY <1>3 DEF TaskIs
<1>4. ASSUME NEW s \in Stages \ {"verifying", "recording"}, Goes(r, s) PROVE Goal
  <2>1. TaskIs(r, s, i, memo) /\ Good(s, memo)
    BY <1>1, <1>2, <1>4, TaskMoves
  <2> QED
    BY <1>3, <2>1
<1>5. ASSUME NEW e \in Errors, Fails(r, e) PROVE Goal
  <2>1. TaskIs(r, "failing", i, memo) /\ Good("failing", memo)
    BY <1>1, <1>2, <1>5, TaskMoves
  <2> QED
    BY <1>3, <2>1
<1>6. ASSUME Closes(r, "stopped") PROVE Goal
  <2>1. TaskIs(r, "closing", i, memo) /\ Good("closing", memo)
    BY <1>1, <1>2, <1>6, TaskMoves
  <2> QED
    BY <1>3, <2>1
<1>7. ASSUME task' = [task EXCEPT ![r] = NoTask] PROVE Goal
  <2>1. TaskIs(r, "none", 1, NoTask.memo)
    BY <1>1, <1>7, TaskMoves
  <2>2. \A j \in Steps : NoTask.memo[j] = "none"
    BY DEF NoTask
  <2>3. Good("none", NoTask.memo)
    BY <2>2
  <2> QED
    BY <1>3, <2>1, <2>3
<1>8. ASSUME NEW s \in {"verifying", "recording"}, NEW k \in Steps, k = i, Goes(r, s),
             Took(r, k) \/ Took(r, k)'
      PROVE  Goal
  <2>1. TaskIs(r, s, i, memo)
    BY <1>1, <1>8, TaskMoves DEF Stages
  <2>2. task'[r].stage = s /\ task'[r].index = k /\ task'[r].memo = memo
    BY <1>8, <2>1 DEF TaskIs
  <2> HIDE DEF i, memo
  <2> QED
    BY <1>2, <1>8, <2>2
<1>9. ASSUME NEW status \in Outcomes, i \in Steps, FinishStep(r, status) PROVE Goal
  <2>1. \/ TaskIs(r, "between", i + 1, memo) \/ TaskIs(r, "closing", i, memo)
        \/ TaskIs(r, "closing", i, [memo EXCEPT ![i] = "uncertain"])
    BY <1>9, FinishMoves
  <2>2. Good("between", memo) /\ Good("closing", memo)
    BY <1>2
  <2>3. Good("closing", [memo EXCEPT ![i] = "uncertain"])
    BY <1>1, <1>2
  <2> HIDE DEF Good, Goal
  <2> QED
    BY <1>3, <2>1, <2>2, <2>3
<1>10. {"progress", "between", "starting", "checking", "calling", "closing", "aborting",
        "reporting"} \subseteq Stages \ {"verifying", "recording"}
       /\ {"refused", "unsure"} \subseteq Errors
  BY DEF Stages, Errors
<1> SUFFICES Goal
  BY DEF Goal
<1> HIDE DEF Good, Goal, i, memo
<1>11. CASE Claim(r)
  BY <1>4, <1>7, <1>10, <1>11 DEF Claim
<1>12. CASE ClaimRaises(r) \/ PostReport(r)
  BY <1>7, <1>12 DEF ClaimRaises, PostReport
<1>13. CASE ShowProgress(r) \/ NextStep(r)
  BY <1>4, <1>6, <1>10, <1>13 DEF ShowProgress, NextStep
<1>14. CASE StartStep(r)
  BY <1>4, <1>6, <1>10, <1>14 DEF StartStep
<1>15. CASE CheckStep(r)
  BY <1>4, <1>5, <1>10, <1>15 DEF CheckStep
<1>16. CASE Call(r)
  <2>1. i \in Steps /\ run[r].preview \in Previews /\ UNCHANGED run
    BY <1>1, <1>16 DEF Call, At, Stepping, TypeInv, NamedRuns
  <2>2. CASE /\ effect' = [effect EXCEPT ![run[r].preview][i] = effect[run[r].preview][i] + 1]
             /\ Goes(r, "verifying")
    <3>1. effect \in [Previews -> [Steps -> Nat]]
      BY DEF TypeInv, StoreTypes
    <3>2. effect'[run[r].preview][i] > 0
      BY <2>1, <2>2, <3>1, EffectCounted
    <3>3. PICK k \in Steps : k = i
      BY <2>1
    <3>4. Took(r, k)'
      BY <2>1, <3>2, <3>3 DEF Took
    <3> QED
      BY <1>5, <1>8, <1>10, <2>2, <3>3, <3>4
  <2>3. CASE \E e \in Errors : Fails(r, e)
    BY <1>5, <2>3
  <2> QED
    BY <1>10, <1>16, <2>2, <2>3 DEF Call, i
<1>17. CASE Verify(r)
  <2>1. PICK k \in Steps : k = i /\ Took(r, k)
    BY <1>1, <1>17 DEF Verify, At, Stepping, DoneInv, i
  <2> QED
    BY <1>5, <1>8, <1>17, <2>1 DEF Verify
<1>18. CASE RecordCompleted(r) \/ RecordFailed(r)
  BY <1>9, <1>18, Recorded DEF i
<1>19. CASE JudgeStep(r)
  <2>1. PICK status \in judged(task[r].error, effect[run[r].preview][i] > 0) :
          TaskIs(r, "judged", i, [memo EXCEPT ![i] = status])
    BY <1>19, JudgeMoves DEF i, memo
  <2>2. i \in Steps /\ run[r].preview \in Previews
    BY <1>1, <1>19 DEF JudgeStep, At, Stepping, TypeInv, NamedRuns
  <2>3. status = "completed" => Took(r, i)
    BY <2>1, <2>2 DEF judged, Took
  <2>4. Good("judged", [memo EXCEPT ![i] = status])
    BY <1>1, <1>2, <2>2, <2>3 DEF Good
  <2> QED
    BY <1>3, <2>1, <2>4
<1>20. CASE CloseRun(r) \/ AbortRun(r)
  BY <1>4, <1>10, <1>20 DEF CloseRun, AbortRun
<1> QED
  BY <1>11, <1>12, <1>13, <1>14, <1>15, <1>16, <1>17, <1>18, <1>19, <1>20 DEF TaskStep, Goal

\* The tasks of other runs, and every task when no task takes a step.
LEMMA TaskKept ==
  ASSUME TypeInv, Next, NEW q \in Runs, ~TaskStep(q)
  PROVE  \/ task'[q] = task[q]
         \/ task'[q].memo = NoTask.memo /\ task'[q].stage \in {"none", "queued"}
         \/ task'[q].memo = task[q].memo /\ task'[q].stage = "reporting"
<1>1. task \in [Runs -> Task]
  BY DEF TypeInv, TaskTypes
<1>2. CASE UNCHANGED task
  BY <1>2
<1>3. CASE task' = [r \in Runs |-> NoTask]
  BY <1>3, FreshTask
<1>4. CASE Shutdown
  BY <1>1, <1>4, FreshTask DEF Shutdown, Task
<1>5. ASSUME NEW p \in Previews, NEW r \in Runs, Submit(p, r)
      PROVE  \/ task'[q] = task[q]
             \/ task'[q].memo = NoTask.memo /\ task'[q].stage = "queued"
  <2> DEFINE t == [NoTask EXCEPT !.stage = "queued"]
  <2>1. t.memo = NoTask.memo /\ t.stage = "queued"
    BY DEF NoTask
  <2>2. task' = [task EXCEPT ![r] = t]
    BY <1>5 DEF Submit
  <2> HIDE DEF t
  <2> QED
    BY <1>1, <2>1, <2>2
<1>6. CASE MemberStep
  BY <1>2, <1>6 DEF MemberStep, Offer, Confirm, Withdraw, Expire, RequestStop
<1>7. CASE RecoverStep
  BY <1>2, <1>7 DEF RecoverStep, InterruptIncomplete, RecoverRaises, Ready,
                    ReportInterrupted, MarkReported
<1>8. CASE Crash \/ Restart
  BY <1>3, <1>8 DEF Crash, Restart
<1>9. CASE \E p \in Previews : SubmitStep(p)
  BY <1>2, <1>5, <1>9 DEF SubmitStep, SubmitFails
<1>10. CASE \E r \in Runs : TaskStep(r)
  BY <1>10, TaskStepOthers
<1>11. CASE \E p \in Previews, i \in Steps : Settle(p, i)
  BY <1>2, <1>11 DEF Settle
<1> QED
  BY <1>4, <1>6, <1>7, <1>8, <1>9, <1>10, <1>11 DEF Next

\* Every step of the system keeps DoneInv.
LEMMA NextDone ==
  ASSUME TypeInv, UnstoredUnnamed, DoneInv, [Next]_vars
  PROVE  DoneInv'
<1>1. CASE UNCHANGED vars
  BY <1>1 DEF vars, DoneInv, Took
<1>2. CASE Next
  <2>1. \A q \in Runs, j \in Steps : Took(q, j) => Took(q, j)'
    BY <1>2, TookStays
  <2>2. ASSUME NEW q \in Runs
        PROVE  /\ \A j \in Steps : task'[q].memo[j] = "completed" => Took(q, j)
               /\ task'[q].stage \in {"verifying", "recording"}
                    => \E k \in Steps : task'[q].index = k /\ (Took(q, k) \/ Took(q, k)')
    <3>1. CASE TaskStep(q)
      BY <3>1, TaskDone
    <3>2. CASE ~TaskStep(q)
      <4>1. task[q].stage \in {"verifying", "recording"}
              => task[q].index \in Steps /\ Took(q, task[q].index)
        BY DEF DoneInv, TypeInv, TaskTypes, Stepping
      <4>2. \A j \in Steps : task[q].memo[j] = "completed" => Took(q, j)
        BY DEF DoneInv
      <4>3. \A j \in Steps : NoTask.memo[j] # "completed"
        BY DEF NoTask
      <4>4. CASE task'[q] = task[q]
        <5>1. task[q].stage \in {"verifying", "recording"}
                => \E k \in Steps : task[q].index = k /\ Took(q, k)
          BY <4>1
        <5> QED
          BY <4>2, <4>4, <5>1
      <4>5. CASE task'[q].memo = NoTask.memo /\ task'[q].stage \in {"none", "queued"}
        BY <4>3, <4>5
      <4>6. CASE task'[q].memo = task[q].memo /\ task'[q].stage = "reporting"
        BY <4>2, <4>6
      <4> QED
        BY <1>2, <3>2, <4>4, <4>5, <4>6, TaskKept
    <3> QED
      BY <3>1, <3>2
  <2>3. ASSUME NEW q \in Runs, NEW j \in Steps,
               <<j, "done">> \in told'[q] \/ step'[q][j] = "completed"
                 \/ task'[q].memo[j] = "completed"
        PROVE  Took(q, j)'
    BY <1>2, <2>1, <2>2, <2>3, ToldDone, StepDone
  <2>4. ASSUME NEW q \in Runs, task'[q].stage \in {"verifying", "recording"}
        PROVE  Took(q, task[q].index)'
    <3>1. PICK k \in Steps : task'[q].index = k /\ (Took(q, k) \/ Took(q, k)')
      BY <2>2, <2>4
    <3>2. Took(q, k)'
      BY <2>1, <3>1
    <3> QED
      BY <3>1, <3>2 DEF Took
  <2> QED
    BY <2>3, <2>4 DEF DoneInv
<1> QED
  BY <1>1, <1>2

\* What a member is told was done took effect: in the report of the task, which lays its
\* memory over the rows, and in the report of the next start, which has only the rows.
THEOREM DoneIsTrue == Spec => []DoneMeansDone
<1>1. Init => UnstoredUnnamed /\ DoneInv
  BY DEF Init, UnstoredUnnamed, DoneInv, NoRun, NoTask
<1>2. TypeInv /\ UnstoredUnnamed /\ [Next]_vars => UnstoredUnnamed'
  BY NamesKept DEF vars, UnstoredUnnamed
<1>3. TypeInv /\ UnstoredUnnamed /\ DoneInv /\ [Next]_vars => DoneInv'
  BY NextDone
<1>4. DoneInv => DoneMeansDone
  BY DEF DoneInv, DoneMeansDone, Took
<1> QED
  BY <1>1, <1>2, <1>3, <1>4, InitTypeInv, NextTypeInv, PTL DEF Spec

(***************************************************************************)
(* Every effect has a log row.                                              *)
(***************************************************************************)

\* The log has begun step i of run r, and names its final targets.
Begun(r, i) == log[r][i].outcome # "none"
Logged(r, i) == Begun(r, i) /\ log[r][i].final

\* The row is there before the call: from start_step on for targets known in advance, from
\* set_step_values on for the others.
LoggedInv ==
  /\ EveryEffectIsLogged
  /\ \A r \in Runs : LET i == task[r].index
                     IN  /\ task[r].stage = "checking"
                              => i \in Steps /\ Begun(r, i) /\ (i \notin Bound => Logged(r, i))
                         /\ task[r].stage = "calling" => i \in Steps /\ Logged(r, i)

\* A row that was begun stays begun, and final targets stay final: start_step never begins
\* a step again.
LEMMA RowsStay ==
  ASSUME TypeInv, LogFollowsSteps, Next, NEW q \in Runs, NEW j \in Steps, Begun(q, j)
  PROVE  /\ log'[q][j].outcome # "none"
         /\ log[q][j].final => log'[q][j].final
<1>1. log \in [Runs -> [Steps -> Log]] /\ log[q][j] \in Log /\ log[q][j].outcome # "none"
  BY DEF TypeInv, StoreTypes, Begun
<1>2. CASE log'[q][j] = log[q][j]
  BY <1>1, <1>2
<1>3. CASE InterruptIncomplete
  <2>1. log'[q][j] = log[q][j] \/ log'[q][j] = interrupted_log(log[q][j])
    BY <1>3 DEF InterruptIncomplete
  <2>2. /\ interrupted_log(log[q][j]).outcome # "none"
        /\ interrupted_log(log[q][j]).final = log[q][j].final
    BY <1>1 DEF interrupted_log, Log
  <2> QED
    BY <1>1, <2>1, <2>2
<1>4. ASSUME NEW r \in Runs, StartStep(r) PROVE log'[q][j] = log[q][j]
  <2>1. step[q][j] # "queued"
    BY <1>1 DEF LogFollowsSteps
  <2> QED
    BY <1>4, <2>1, StartStepWrites
<1>5. ASSUME NEW r \in Runs, CheckStep(r)
      PROVE  log'[q][j] = log[q][j] \/ log'[q][j] = set_step_values(log[q][j])
  BY <1>5, CheckStepWrites
<1>6. /\ set_step_values(log[q][j]).outcome # "none"
      /\ log[q][j].final => set_step_values(log[q][j]).final
  BY <1>1 DEF set_step_values, Log
<1>7. ASSUME NEW r \in Runs, RecordCompleted(r) \/ RecordFailed(r)
      PROVE  log'[q][j] = log[q][j]
             \/ (log'[q][j].outcome # "none" /\ log'[q][j].final = log[q][j].final)
  <2> DEFINE i == task[r].index
  <2>1. PICK status \in Outcomes : i \in Steps /\ FinishStep(r, status)
    BY <1>7, Recorded
  <2>2. \/ UNCHANGED <<step, log>>
        \/ /\ log'[r][i].outcome = status /\ log'[r][i].final = log[r][i].final
           /\ \A o \in Runs, k \in Steps : o # r \/ k # i => log'[o][k] = log[o][k]
    BY <2>1, FinishStepWrites
  <2>3. status # "none"
    BY DEF Outcomes
  <2> HIDE DEF i
  <2> QED
    BY <2>2, <2>3
<1> QED
  BY <1>2, <1>3, <1>4, <1>5, <1>6, <1>7, <1>1, OthersDoNotWrite DEF Writes

\* Only a call at its step, or a request it left behind, has an effect.
LEMMA EffectsComeFromCalls ==
  ASSUME TypeInv, Next, NEW p \in Previews, NEW i \in Steps,
         effect'[p][i] > 0 \/ <<p, i>> \in late'
  PROVE  \/ effect[p][i] > 0 \/ <<p, i>> \in late
         \/ \E r \in Runs : Call(r) /\ run[r].preview = p /\ task[r].index = i
<1>1. effect \in [Previews -> [Steps -> Nat]]
  BY DEF TypeInv, StoreTypes
<1>2. CASE UNCHANGED world
  BY <1>2 DEF world
<1>3. ASSUME NEW r \in Runs, Call(r), ~(run[r].preview = p /\ task[r].index = i)
      PROVE  effect'[p][i] = effect[p][i] /\ (<<p, i>> \in late' => <<p, i>> \in late)
  <2>1. run[r].preview \in Previews /\ task[r].index \in Steps
    BY <1>3 DEF Call, At, Stepping, TypeInv, TaskTypes, NamedRuns
  <2>2. effect'[p][i] = effect[p][i]
    BY <1>1, <1>3, <2>1, EffectCounted DEF Call, world
  <2>3. <<p, i>> \in late' => <<p, i>> \in late
    BY <1>3 DEF Call, world
  <2> QED
    BY <2>2, <2>3
<1>4. ASSUME NEW o \in Previews, NEW j \in Steps, Settle(o, j)
      PROVE  effect[p][i] > 0 \/ <<p, i>> \in late
  <2>1. <<o, j>> \in late /\ late' \subseteq late
    BY <1>4 DEF Settle
  <2>2. CASE o = p /\ j = i
    BY <2>1, <2>2
  <2>3. CASE o # p \/ j # i
    <3>1. effect'[p][i] = effect[p][i]
      BY <1>1, <1>4, <2>3, EffectCounted DEF Settle
    <3> QED
      BY <2>1, <3>1
  <2> QED
    BY <2>2, <2>3
<1> QED
  BY <1>2, <1>3, <1>4, OthersDoNotAct

\* The task of a run reaches the check and the call with its row written.
LEMMA TaskLogged ==
  ASSUME TypeInv, LogFollowsSteps, LoggedInv, NEW r \in Runs, TaskStep(r)
  PROVE  task'[r].stage \in {"checking", "calling"}
           => \E k \in Steps : /\ task'[r].index = k /\ log'[r][k].outcome # "none"
                               /\ task'[r].stage = "calling" \/ k \notin Bound
                                    => log'[r][k].final
<1> DEFINE i == task[r].index
           Goal == task'[r].stage \in {"checking", "calling"}
                     => \E k \in Steps : /\ task'[r].index = k /\ log'[r][k].outcome # "none"
                                         /\ task'[r].stage = "calling" \/ k \notin Bound
                                              => log'[r][k].final
<1>1. /\ task \in [Runs -> Task] /\ task[r] \in Task
      /\ task[r].stage \in Stepping => i \in Steps
  BY DEF TypeInv, TaskTypes
<1>2. ASSUME NEW s, NEW k, NEW m, TaskIs(r, s, k, m), s \notin {"checking", "calling"}
      PROVE  Goal
  BY <1>2 DEF TaskIs
<1>3. ASSUME NEW s \in Stages \ {"checking", "calling"}, Goes(r, s) PROVE Goal
  BY <1>1, <1>2, <1>3, TaskMoves
<1>4. ASSUME NEW e \in Errors, Fails(r, e) PROVE Goal
  BY <1>1, <1>2, <1>4, TaskMoves
<1>5. ASSUME Closes(r, "stopped") PROVE Goal
  BY <1>1, <1>2, <1>5, TaskMoves
<1>6. ASSUME task' = [task EXCEPT ![r] = NoTask] PROVE Goal
  <2>1. TaskIs(r, "none", 1, NoTask.memo)
    BY <1>1, <1>6, TaskMoves
  <2> QED
    BY <1>2, <2>1
<1>7. ASSUME NEW s \in {"checking", "calling"}, i \in Steps, Goes(r, s),
             log'[r][i].outcome # "none",
             s = "calling" \/ i \notin Bound => log'[r][i].final
      PROVE  Goal
  <2>1. TaskIs(r, s, i, task[r].memo)
    BY <1>1, <1>7, TaskMoves DEF Stages
  <2>2. task'[r].stage = s /\ task'[r].index = i
    BY <2>1 DEF TaskIs
  <2> HIDE DEF i
  <2> QED
    BY <1>7, <2>2
<1>8. ASSUME NEW status \in Outcomes, i \in Steps, FinishStep(r, status) PROVE Goal
  <2>1. \E k, m : TaskIs(r, "between", k, m) \/ TaskIs(r, "closing", k, m)
    BY <1>8, FinishMoves
  <2> HIDE DEF Goal
  <2> QED
    BY <1>2, <2>1
<1>9. {"progress", "between", "starting", "verifying", "recording", "closing", "aborting",
       "reporting"} \subseteq Stages \ {"checking", "calling"}
      /\ {"refused", "unsure"} \subseteq Errors
  BY DEF Stages, Errors
<1> SUFFICES Goal
  BY DEF Goal
<1> HIDE DEF Goal, i
<1>10. CASE Claim(r)
  BY <1>3, <1>6, <1>9, <1>10 DEF Claim
<1>11. CASE ClaimRaises(r) \/ PostReport(r)
  BY <1>6, <1>11 DEF ClaimRaises, PostReport
<1>12. CASE ShowProgress(r) \/ NextStep(r)
  BY <1>3, <1>5, <1>9, <1>12 DEF ShowProgress, NextStep
<1>13. CASE StartStep(r)
  <2>1. CASE UNCHANGED <<step, log>>
    <3>1. i \in Steps /\ step \in [Runs -> [Steps -> StepStatuses]]
      BY <1>1, <1>13 DEF StartStep, At, Stepping, TypeInv, StoreTypes
    <3>2. ~(step[r][i] = "queued" /\ step' = [step EXCEPT ![r][i] = "running"])
      BY <2>1, <3>1
    <3> QED
      BY <1>3, <1>5, <1>9, <1>13, <3>2 DEF StartStep, may_start_step, i
  <2>2. CASE ~UNCHANGED <<step, log>>
    <3>1. /\ i \in Steps
          /\ log'[r][i] = [outcome |-> "started", final |-> i \notin Bound]
      BY <1>13, <2>2, StartStepWrites DEF i
    <3>2. Goes(r, "checking")
      BY <1>13, <2>2 DEF StartStep
    <3>3. log'[r][i].outcome # "none"
      BY <3>1
    <3>4. i \notin Bound => log'[r][i].final
      <4> SUFFICES ASSUME i \notin Bound PROVE log'[r][i].final
        OBVIOUS
      <4> DEFINE known == i \notin Bound
      <4>1. known
        OBVIOUS
      <4>2. log'[r][i] = [outcome |-> "started", final |-> known]
        BY <3>1
      <4> HIDE DEF known
      <4>3. log'[r][i].final = known
        BY <4>2
      <4> QED
        BY <4>1, <4>3
    <3> QED
      BY <1>7, <3>1, <3>2, <3>3, <3>4
  <2> QED
    BY <2>1, <2>2
<1>14. CASE CheckStep(r)
  <2>1. /\ i \in Steps /\ log[r][i].outcome # "none"
        /\ i \notin Bound => log[r][i].final
        /\ log[r][i] \in Log
    BY <1>1, <1>14 DEF CheckStep, At, Stepping, LoggedInv, Begun, Logged, i, TypeInv, StoreTypes
  <2>2. CASE UNCHANGED log /\ i \notin Bound
    BY <1>4, <1>7, <1>9, <1>14, <2>1, <2>2 DEF CheckStep
  <2>3. CASE \E e \in Errors : Fails(r, e)
    BY <1>4, <2>3
  <2>4. CASE /\ step[r][i] = "running" /\ Goes(r, "calling")
             /\ log' = [log EXCEPT ![r][i] = set_step_values(@)]
    <3>1. log[r][i].outcome = "started"
      BY <2>1, <2>4 DEF LogFollowsSteps
    <3>2. log'[r][i] = set_step_values(log[r][i])
      BY <2>1, <2>4 DEF TypeInv, StoreTypes
    <3>3. log'[r][i].outcome # "none" /\ log'[r][i].final
      BY <2>1, <3>1, <3>2 DEF set_step_values, Log
    <3> QED
      BY <1>7, <2>1, <2>4, <3>3
  <2> QED
    BY <1>9, <1>14, <2>2, <2>3, <2>4 DEF CheckStep, i
<1>15. CASE Call(r)
  BY <1>3, <1>4, <1>9, <1>15 DEF Call
<1>16. CASE Verify(r)
  BY <1>3, <1>4, <1>9, <1>16 DEF Verify
<1>17. CASE RecordCompleted(r) \/ RecordFailed(r)
  BY <1>8, <1>17, Recorded DEF i
<1>18. CASE JudgeStep(r)
  <2>1. \E k, m : TaskIs(r, "judged", k, m)
    BY <1>18, JudgeMoves
  <2> QED
    BY <1>2, <2>1
<1>19. CASE CloseRun(r) \/ AbortRun(r)
  BY <1>3, <1>9, <1>19 DEF CloseRun, AbortRun
<1> QED
  BY <1>10, <1>11, <1>12, <1>13, <1>14, <1>15, <1>16, <1>17, <1>18, <1>19 DEF TaskStep

\* Every step of the system keeps LoggedInv.
LEMMA NextLogged ==
  ASSUME TypeInv, LogFollowsSteps, UnstoredUnnamed, LoggedInv, [Next]_vars
  PROVE  LoggedInv'
<1>1. CASE UNCHANGED vars
  BY <1>1 DEF vars, LoggedInv, EveryEffectIsLogged, Begun, Logged
<1>2. CASE Next
  <2>1. ASSUME NEW p \in Previews, NEW i \in Steps,
               effect'[p][i] > 0 \/ <<p, i>> \in late'
        PROVE  \E r \in Runs : /\ run'[r].preview = p
                               /\ log'[r][i].outcome # "none" /\ log'[r][i].final
    <3>1. PICK r \in Runs : run[r].preview = p /\ Logged(r, i)
      <4>1. CASE effect[p][i] > 0 \/ <<p, i>> \in late
        BY <4>1 DEF LoggedInv, EveryEffectIsLogged, Logged, Begun
      <4>2. ASSUME NEW r \in Runs, Call(r), run[r].preview = p, task[r].index = i
            PROVE  Logged(r, i)
        BY <4>2 DEF LoggedInv, Call, At
      <4> QED
        BY <1>2, <2>1, <4>1, <4>2, EffectsComeFromCalls
    <3>2. run'[r].preview = p
      BY <1>2, <3>1, NamesKept
    <3> QED
      BY <1>2, <3>1, <3>2, RowsStay DEF Logged
  <2>2. EveryEffectIsLogged'
    BY <2>1 DEF EveryEffectIsLogged
  <2>3. ASSUME NEW r \in Runs, task'[r].stage \in {"checking", "calling"}
        PROVE  \E k \in Steps : /\ task'[r].index = k /\ log'[r][k].outcome # "none"
                                /\ task'[r].stage = "calling" \/ k \notin Bound
                                     => log'[r][k].final
    <3>1. CASE TaskStep(r)
      BY <2>3, <3>1, TaskLogged
    <3>2. CASE ~TaskStep(r)
      <4>1. task'[r] = task[r]
        BY <1>2, <2>3, <3>2, TaskKept
      <4>2. PICK k \in Steps : /\ task[r].index = k /\ Begun(r, k)
                               /\ task[r].stage = "calling" \/ k \notin Bound
                                    => log[r][k].final
        BY <2>3, <4>1 DEF LoggedInv, Logged
      <4> QED
        BY <1>2, <4>1, <4>2, RowsStay
    <3> QED
      BY <3>1, <3>2
  <2>4. ASSUME NEW r \in Runs
        PROVE  (LET i == task[r].index
                IN  /\ task[r].stage = "checking"
                         => i \in Steps /\ Begun(r, i) /\ (i \notin Bound => Logged(r, i))
                    /\ task[r].stage = "calling" => i \in Steps /\ Logged(r, i))'
    BY <2>3 DEF Begun, Logged
  <2> QED
    BY <2>2, <2>4 DEF LoggedInv
<1> QED
  BY <1>1, <1>2

\* "Persist each transition before an external change is attempted": in every state,
\* whatever took effect or may still take effect has a log row with its final targets.
THEOREM EffectsAreLogged == Spec => []EveryEffectIsLogged
<1>1. Init => UnstoredUnnamed /\ LoggedInv /\ LogFollowsSteps
  BY DEF Init, UnstoredUnnamed, LoggedInv, EveryEffectIsLogged, NoRun, NoTask,
         LogFollowsSteps, NoLog
<1>2. TypeInv /\ UnstoredUnnamed /\ [Next]_vars => UnstoredUnnamed'
  BY NamesKept DEF vars, UnstoredUnnamed
<1>3. TypeInv /\ LogFollowsSteps /\ UnstoredUnnamed /\ LoggedInv /\ [Next]_vars => LoggedInv'
  BY NextLogged
<1>4. TypeInv /\ LogFollowsSteps /\ [Next]_vars => LogFollowsSteps'
  BY NextLogFollows
<1>5. LoggedInv => EveryEffectIsLogged
  BY DEF LoggedInv
<1> QED
  BY <1>1, <1>2, <1>3, <1>4, <1>5, InitTypeInv, NextTypeInv, PTL DEF Spec

(***************************************************************************)
(* Runs and tasks match.                                                    *)
(***************************************************************************)

Unfinished(r) == run[r].status \in {"queued", "running"}

\* No task lives before recovery is over, or works while the process shuts down; a task
\* waits for a run that is queued and works on one it owns; a run that no task will write
\* any more is finished once recovery has dealt with it, unless the store failed on it.
RunMatches(r) ==
  /\ boot.stage \in {"starting", "reporting"} => task[r].stage = "none"
  /\ boot.stage = "stopping" => task[r].stage \in {"none", "reporting"}
  /\ task[r].stage = "queued" => run[r].status = "queued" /\ ~run[r].leased
  /\ task[r].stage \in Running \ {"reporting"} => owns(r)
  /\ /\ boot.stage \in {"reporting", "ready"} /\ r \notin lost
     /\ task[r].stage \in {"none", "reporting"}
     => ~Unfinished(r)

MatchInv == \A r \in Runs : RunMatches(r)

\* A run keeps matching when nothing about it changes.
LEMMA MatchKept ==
  ASSUME NEW q \in Runs, RunMatches(q), UNCHANGED boot,
         task'[q].stage = task[q].stage, run'[q].status = run[q].status,
         run'[q].leased = run[q].leased, lost \subseteq lost'
  PROVE  RunMatches(q)'
  BY DEF RunMatches, owns, Unfinished

\* A task that works on its run owns it after a step that keeps it at work, and has settled
\* it, or lost it, when it comes to report.
LEMMA TaskStepMatches ==
  ASSUME TypeInv, NEW r \in Runs, RunMatches(r), TaskStep(r)
  PROVE  RunMatches(r)'
<1> DEFINE Works == \/ task'[r].stage \in Running \ {"reporting"} /\ owns(r)'
                    \/ /\ task'[r].stage \in {"none", "reporting"}
                       /\ \/ boot.stage = "stopping" /\ task'[r].stage = "none"
                          \/ r \in lost' \/ ~Unfinished(r)'
<1>1. /\ task \in [Runs -> Task] /\ task[r] \in Task /\ run \in [Runs -> Run]
      /\ run[r] \in Run
  BY DEF TypeInv, TaskTypes, StoreTypes
<1>2. /\ task[r].stage # "none"
      /\ boot.stage \in {"ready", "stopping"} /\ UNCHANGED boot
      /\ boot.stage = "stopping" => task[r].stage = "reporting"
  <2>1. UNCHANGED boot
    <3>1. CASE Claim(r) \/ ClaimRaises(r) \/ ShowProgress(r) \/ NextStep(r) \/ StartStep(r)
      BY <3>1 DEF Claim, ClaimRaises, ShowProgress, NextStep, StartStep
    <3>2. CASE CheckStep(r) \/ Call(r) \/ Verify(r) \/ JudgeStep(r)
      BY <3>2 DEF CheckStep, Call, Verify, JudgeStep
    <3>3. CASE RecordCompleted(r) \/ RecordFailed(r) \/ CloseRun(r) \/ AbortRun(r)
               \/ PostReport(r)
      BY <3>3 DEF RecordCompleted, RecordFailed, CloseRun, AbortRun, PostReport
    <3> QED
      BY <3>1, <3>2, <3>3 DEF TaskStep
  <2>2. boot.stage \in {"starting", "reporting", "ready", "stopping"}
    BY DEF TypeInv, StoreTypes, Boot
  <2> QED
    BY <2>1, <2>2, TaskStepOthers DEF RunMatches
<1>3. SUFFICES /\ Works
               /\ boot.stage = "stopping" => task'[r].stage = "none"
  BY <1>2 DEF RunMatches, Running, Unfinished, Works
<1>4. ASSUME NEW s \in Stages, Goes(r, s) PROVE task'[r].stage = s
  BY <1>1, <1>4, TaskMoves DEF TaskIs
<1>5. ASSUME NEW e \in Errors, Fails(r, e) PROVE task'[r].stage = "failing"
  BY <1>1, <1>5, TaskMoves DEF TaskIs
<1>6. ASSUME Closes(r, "stopped") PROVE task'[r].stage = "closing"
  BY <1>1, <1>6, TaskMoves DEF TaskIs
<1>7. ASSUME task' = [task EXCEPT ![r] = NoTask] PROVE task'[r].stage = "none"
  BY <1>1, <1>7, TaskMoves DEF TaskIs
<1>8. ASSUME UNCHANGED run, owns(r), boot.stage = "ready",
             task'[r].stage \in Running \ {"reporting"}
      PROVE  Works /\ boot.stage # "stopping"
  BY <1>8 DEF owns
<1>9. /\ task[r].stage \in Running \ {"reporting"} => owns(r)
      /\ task[r].stage # "reporting" => boot.stage = "ready"
  BY <1>2 DEF RunMatches
<1>10. /\ {"progress", "between", "starting", "checking", "calling", "verifying",
           "recording", "failing", "judged", "closing", "aborting"}
            \subseteq Running \ {"reporting"}
       /\ Running \subseteq Stages
       /\ {"refused", "unsure"} \subseteq Errors
  BY DEF Running, Stages, Errors
<1>11. ASSUME task[r].stage \in Running \ {"reporting"}, UNCHANGED run,
              task'[r].stage \in Running \ {"reporting"}
       PROVE  Works /\ (boot.stage = "stopping" => task'[r].stage = "none")
  BY <1>8, <1>9, <1>11
<1> HIDE DEF Works
<1>12. CASE Claim(r)
  <2>1. run[r].status = "queued" /\ ~run[r].leased
    BY <1>12 DEF Claim, At, RunMatches
  <2>2. run' = [run EXCEPT ![r].status = "running", ![r].leased = TRUE] /\ Goes(r, "progress")
    BY <1>12, <2>1 DEF Claim
  <2>3. owns(r)'
    BY <1>1, <2>2 DEF owns, Run
  <2>4. task'[r].stage = "progress"
    BY <1>4, <1>10, <2>2
  <2>5. boot.stage = "ready"
    BY <1>9, <1>12 DEF Claim, At
  <2> QED
    BY <1>10, <2>3, <2>4, <2>5 DEF Works
<1>13. CASE ClaimRaises(r)
  <2>1. task'[r].stage = "none" /\ r \in lost'
    BY <1>7, <1>13 DEF ClaimRaises
  <2> QED
    BY <2>1 DEF Works
<1>14. CASE ShowProgress(r) \/ NextStep(r)
  <2>1. /\ task[r].stage \in Running \ {"reporting"} /\ UNCHANGED run
        /\ task'[r].stage \in Running \ {"reporting"}
    BY <1>4, <1>6, <1>10, <1>14 DEF ShowProgress, NextStep, At
  <2> QED
    BY <1>11, <2>1
<1>15. CASE StartStep(r) \/ CheckStep(r)
  <2>1. /\ task[r].stage \in Running \ {"reporting"} /\ UNCHANGED run
        /\ task'[r].stage \in Running \ {"reporting"}
    BY <1>4, <1>5, <1>6, <1>10, <1>15 DEF StartStep, CheckStep, At
  <2> QED
    BY <1>11, <2>1
<1>16. CASE Call(r) \/ Verify(r)
  <2>1. /\ task[r].stage \in Running \ {"reporting"} /\ UNCHANGED run
        /\ task'[r].stage \in Running \ {"reporting"}
    BY <1>4, <1>5, <1>10, <1>16 DEF Call, Verify, At
  <2> QED
    BY <1>11, <2>1
<1>17. CASE RecordCompleted(r) \/ RecordFailed(r)
  <2>1. PICK status \in Outcomes : task[r].index \in Steps /\ FinishStep(r, status)
    BY <1>17, Recorded
  <2>2. task'[r].stage \in {"between", "closing"}
    BY <2>1, FinishMoves DEF TaskIs
  <2>3. task[r].stage \in Running \ {"reporting"} /\ UNCHANGED run
    BY <1>10, <1>17 DEF RecordCompleted, RecordFailed, At
  <2> QED
    BY <1>10, <1>11, <2>2, <2>3
<1>18. CASE JudgeStep(r)
  <2>1. task'[r].stage = "judged"
    BY <1>18, JudgeMoves DEF TaskIs
  <2>2. task[r].stage \in Running \ {"reporting"} /\ UNCHANGED run
    BY <1>10, <1>18 DEF JudgeStep, At
  <2> QED
    BY <1>10, <1>11, <2>1, <2>2
<1>19. ASSUME NEW status \in Settled, finish_run(r, status), Goes(r, "reporting"),
              task[r].stage \in Running \ {"reporting"}
       PROVE  Works /\ boot.stage # "stopping"
  <2>1. run'[r].status = status /\ boot.stage = "ready"
    BY <1>1, <1>9, <1>19, FinishRunTypes
  <2>2. task'[r].stage = "reporting"
    BY <1>4, <1>19 DEF Stages
  <2>3. ~Unfinished(r)'
    BY <2>1 DEF Unfinished, Settled
  <2> QED
    BY <2>1, <2>2, <2>3 DEF Works
<1>20. CASE CloseRun(r)
  <2>1. task[r].stage \in Running \ {"reporting"} /\ task[r].outcome \in Settled
    BY <1>1, <1>10, <1>20 DEF CloseRun, At, Task, Settled
  <2>2. CASE UNCHANGED run /\ Goes(r, "aborting")
    BY <1>4, <1>10, <1>11, <2>1, <2>2
  <2> QED
    BY <1>19, <1>20, <2>1, <2>2 DEF CloseRun
<1>21. CASE AbortRun(r)
  <2>1. task[r].stage \in Running \ {"reporting"} /\ Goes(r, "reporting")
    BY <1>10, <1>21 DEF AbortRun, At
  <2>2. CASE finish_run(r, "failed")
    BY <1>19, <2>1, <2>2 DEF Settled
  <2>3. CASE r \in lost'
    <3>1. task'[r].stage = "reporting" /\ boot.stage = "ready"
      BY <1>4, <1>9, <2>1 DEF Stages
    <3> QED
      BY <2>3, <3>1 DEF Works
  <2> QED
    BY <1>21, <2>2, <2>3 DEF AbortRun
<1>22. CASE PostReport(r)
  <2>1. task'[r].stage = "none" /\ UNCHANGED <<run, lost>> /\ task[r].stage = "reporting"
    BY <1>7, <1>22 DEF PostReport, At
  <2>2. boot.stage = "ready" => r \in lost \/ ~Unfinished(r)
    BY <2>1 DEF RunMatches
  <2> QED
    BY <1>2, <2>1, <2>2 DEF Works, Unfinished
<1> QED
  BY <1>12, <1>13, <1>14, <1>15, <1>16, <1>17, <1>18, <1>20, <1>21, <1>22 DEF TaskStep

\* A step of a task leaves recovery alone, and takes no run off the lost ones.
LEMMA TaskStepBoot ==
  ASSUME NEW r \in Runs, TaskStep(r)
  PROVE  UNCHANGED boot /\ lost \subseteq lost'
<1>1. CASE Claim(r) \/ ClaimRaises(r) \/ ShowProgress(r) \/ NextStep(r) \/ StartStep(r)
  BY <1>1 DEF Claim, ClaimRaises, ShowProgress, NextStep, StartStep
<1>2. CASE CheckStep(r) \/ Call(r) \/ Verify(r) \/ JudgeStep(r)
  BY <1>2 DEF CheckStep, Call, Verify, JudgeStep
<1>3. CASE RecordCompleted(r) \/ RecordFailed(r)
  BY <1>3 DEF RecordCompleted, RecordFailed, FinishStep
<1>4. CASE CloseRun(r) \/ AbortRun(r) \/ PostReport(r)
  BY <1>4 DEF CloseRun, AbortRun, PostReport
<1> QED
  BY <1>1, <1>2, <1>3, <1>4 DEF TaskStep

\* Every step of the system keeps runs and tasks matched.
LEMMA NextMatches ==
  ASSUME TypeInv, MatchInv, [Next]_vars
  PROVE  MatchInv'
<1> SUFFICES ASSUME NEW q \in Runs PROVE RunMatches(q)'
  BY DEF MatchInv
<1>1. /\ task \in [Runs -> Task] /\ run \in [Runs -> Run] /\ run[q] \in Run
      /\ boot \in Boot /\ RunMatches(q)
  BY DEF TypeInv, TaskTypes, StoreTypes, MatchInv
<1>2. CASE UNCHANGED <<boot, run, task, lost>>
  BY <1>1, <1>2, MatchKept
<1>3. ASSUME NEW r \in Runs, RequestStop(r) PROVE RunMatches(q)'
  <2>1. /\ run'[q].status = run[q].status /\ run'[q].leased = run[q].leased
        /\ UNCHANGED <<boot, task, lost>>
    BY <1>1, <1>3 DEF RequestStop, Run
  <2> QED
    BY <1>1, <2>1, MatchKept
<1>4. ASSUME NEW p \in Previews, NEW r \in Runs, Submit(p, r) PROVE RunMatches(q)'
  <2>1. boot.stage = "ready" /\ UNCHANGED <<boot, lost>>
    BY <1>4 DEF Submit, recovered
  <2>2. CASE q # r
    <3>1. run'[q] = run[q] /\ task'[q] = task[q]
      BY <1>1, <1>4, <2>2 DEF Submit
    <3> QED
      BY <1>1, <2>1, <3>1, MatchKept
  <2>3. CASE q = r
    <3>1. run'[q].status = "queued" /\ ~run'[q].leased
      BY <1>1, <1>4, <2>3 DEF Submit, NoRun
    <3> DEFINE t == [NoTask EXCEPT !.stage = "queued"]
    <3>2. t.stage = "queued"
      BY DEF NoTask
    <3>3. task' = [task EXCEPT ![r] = t]
      BY <1>4 DEF Submit
    <3> HIDE DEF t
    <3>4. task'[q].stage = "queued"
      BY <1>1, <2>3, <3>2, <3>3
    <3> QED
      BY <2>1, <3>1, <3>4 DEF RunMatches, Running
  <2> QED
    BY <2>2, <2>3
<1>5. ASSUME NEW r \in Runs, TaskStep(r) PROVE RunMatches(q)'
  <2>1. CASE q = r
    BY <1>1, <1>5, <2>1, TaskStepMatches
  <2>2. CASE q # r
    <3>1. task'[q] = task[q] /\ run'[q] = run[q] /\ UNCHANGED boot /\ lost \subseteq lost'
      BY <1>5, <2>2, TaskStepOthers, TaskStepBoot
    <3> QED
      BY <1>1, <3>1, MatchKept
  <2> QED
    BY <2>1, <2>2
<1>6. CASE InterruptIncomplete
  <2>1. boot'.stage = "reporting"
    BY <1>1, <1>6 DEF InterruptIncomplete, Boot
  <2>2. task'[q].stage = "none"
    BY <1>1, <1>6 DEF InterruptIncomplete, RunMatches
  <2>3. run'[q].status \notin {"queued", "running"}
    BY <1>1, <1>6 DEF InterruptIncomplete, incomplete, Run
  <2> QED
    BY <2>1, <2>2, <2>3 DEF RunMatches, Running, Unfinished
<1>7. CASE RecoverRaises
  <2>1. boot'.stage = "ready" /\ UNCHANGED <<run, task>>
    BY <1>7 DEF RecoverRaises, after_recovery_error
  <2>2. task[q].stage = "none"
    BY <1>1, <1>7 DEF RecoverRaises, RunMatches
  <2>3. Unfinished(q) => q \in lost'
    BY <1>7 DEF RecoverRaises, Unfinished, incomplete
  <2> QED
    BY <2>1, <2>2, <2>3 DEF RunMatches, Running, Unfinished
<1>8. CASE Ready
  <2>1. boot.stage = "reporting" /\ boot'.stage = "ready" /\ UNCHANGED <<run, task, lost>>
    BY <1>1, <1>8 DEF Ready, Boot
  <2> QED
    BY <1>1, <2>1 DEF RunMatches, Running, Unfinished
<1>9. ASSUME NEW r \in Runs, ReportInterrupted(r) \/ MarkReported(r) PROVE RunMatches(q)'
  <2>1. boot'.stage = boot.stage /\ UNCHANGED <<task, lost>>
    BY <1>1, <1>9 DEF ReportInterrupted, MarkReported, Boot
  <2>2. run'[q].status = run[q].status /\ run'[q].leased = run[q].leased
    BY <1>1, <1>9 DEF ReportInterrupted, MarkReported, Run
  <2> QED
    BY <1>1, <2>1, <2>2 DEF RunMatches, owns, Unfinished
<1>10. CASE Crash \/ Restart
  <2>1. boot'.stage = "starting"
    <3>1. CASE boot' = [stage |-> "starting", todo |-> {}, marking |-> {}]
      BY <3>1
    <3>2. CASE boot' = [boot EXCEPT !.stage = "starting"]
      BY <1>1, <3>2 DEF Boot
    <3> QED
      BY <1>10, <3>1, <3>2 DEF Crash, Restart
  <2>2. task' = [r \in Runs |-> NoTask]
    BY <1>10 DEF Crash, Restart
  <2>3. task'[q].stage = "none"
    BY <2>2, FreshTask
  <2> QED
    BY <2>1, <2>3 DEF RunMatches, Running
<1>11. CASE Shutdown
  <2>1. boot'.stage = "stopping"
    BY <1>11 DEF Shutdown
  <2>2. task'[q].stage \in {"none", "reporting"}
    BY <1>1, <1>11, FreshTask DEF Shutdown, Task
  <2> QED
    BY <2>1, <2>2 DEF RunMatches, Running
<1>12. CASE MemberStep
  BY <1>2, <1>3, <1>12 DEF MemberStep, Offer, Confirm, Withdraw, Expire
<1>13. CASE \E p \in Previews : SubmitStep(p)
  BY <1>2, <1>4, <1>13 DEF SubmitStep, SubmitFails
<1>14. CASE \E p \in Previews, i \in Steps : Settle(p, i)
  BY <1>2, <1>14 DEF Settle
<1> QED
  BY <1>2, <1>5, <1>6, <1>7, <1>8, <1>9, <1>10, <1>11, <1>12, <1>13, <1>14
  DEF Next, RecoverStep, vars

\* A run is worked on by exactly the task that claimed it, and after recovery no unfinished
\* run is without a task: interrupt_incomplete runs while no task lives, submit waits for
\* it, and every way out of _execute settles the run or fails at the store.
THEOREM TasksMatchRuns == Spec => []TasksAndRunsMatch
<1>1. Init => MatchInv
  BY DEF Init, MatchInv, RunMatches, NoRun, NoTask, Running
<1>2. TypeInv /\ MatchInv /\ [Next]_vars => MatchInv'
  BY NextMatches
<1>3. MatchInv => TasksAndRunsMatch
  <2> SUFFICES ASSUME MatchInv, NEW r \in Runs
               PROVE  /\ task[r].stage \in Running \ {"reporting"} => owns(r)
                      /\ boot.stage = "ready" /\ run[r].status \in {"queued", "running"}
                         /\ r \notin lost => task[r].stage # "none"
    BY DEF TasksAndRunsMatch
  <2>1. RunMatches(r)
    BY DEF MatchInv
  <2> QED
    BY <2>1 DEF RunMatches, Unfinished
<1> QED
  BY <1>1, <1>2, <1>3, InitTypeInv, NextTypeInv, PTL DEF Spec

(***************************************************************************)
(* A confirmed preview keeps the promise of CheckedChange.                  *)
(***************************************************************************)

\* The preview was confirmed, and its one submission is over.
Confirmed(p) == view[p].state = "confirmed" /\ ~view[p].submitting

\* One run works for a preview: the one its only submission stored.
OneRunEach ==
  /\ \A q, r \in Runs :
       run[q].preview \in Previews /\ run[q].preview = run[r].preview => q = r
  /\ \A r \in Runs : /\ run[r].status # "absent" => run[r].preview \in Previews
                     /\ run[r].preview \in Previews => Confirmed(run[r].preview)
  /\ \A p \in Previews : /\ view[p].state = "none" => ~view[p].expired
                         /\ view[p].submitting => view[p].state = "confirmed"

\* Steps begin in order, each once all earlier ones are completed, and the task's index is
\* the first that is not.
InOrder(r) ==
  /\ run[r].status = "absent" => \A i \in Steps : step[r][i] = "queued"
  /\ \A i, j \in Steps : step[r][i] # "queued" /\ j < i => step[r][j] = "completed"
  /\ \A j \in Steps : j < task[r].index => step[r][j] = "completed"

\* Run r has not called step i yet.
Uncalled(r, i) ==
  \/ step[r][i] = "queued"
  \/ task[r].index = i /\ task[r].stage \in {"checking", "calling"}

\* A change takes effect once, and a request that was cut off is the only one for it.
CalledOnce ==
  /\ \A p \in Previews, i \in Steps :
       effect[p][i] <= 1 /\ (<<p, i>> \in late => effect[p][i] = 0)
  /\ \A r \in Runs, i \in Steps :
       run[r].preview \in Previews /\ Uncalled(r, i)
         => effect[run[r].preview][i] = 0 /\ <<run[r].preview, i>> \notin late

PromiseInv == OneRunEach /\ (\A r \in Runs : InOrder(r)) /\ CalledOnce

\* What the earlier theorems found to be invariant.
RunInv == TypeInv /\ LogFollowsSteps /\ UnstoredUnnamed /\ DoneInv /\ LoggedInv

\* A run is stored for a preview by submit, and keeps that preview ever after.
LEMMA RunMoves ==
  ASSUME TypeInv, Next, NEW q \in Runs
  PROVE  \/ /\ run'[q].preview = run[q].preview
            /\ run'[q].status = "absent" <=> run[q].status = "absent"
         \/ \E p \in Previews : Submit(p, q)
<1>1. /\ run \in [Runs -> Run] /\ run[q] \in Run /\ task \in [Runs -> Task]
  BY DEF TypeInv, StoreTypes, TaskTypes
<1> DEFINE Stays == /\ run'[q].preview = run[q].preview
                    /\ run'[q].status = "absent" <=> run[q].status = "absent"
<1>2. CASE run'[q] = run[q]
  BY <1>2
<1>3. CASE UNCHANGED run
  BY <1>3
<1>4. ASSUME NEW r \in Runs, RequestStop(r) \/ MarkReported(r) PROVE Stays
  BY <1>1, <1>4 DEF RequestStop, MarkReported, Run
<1>5. ASSUME NEW p \in Previews, NEW r \in Runs, Submit(p, r)
      PROVE  run'[q] = run[q] \/ r = q
  BY <1>1, <1>5 DEF Submit
<1>6. CASE InterruptIncomplete
  BY <1>1, <1>6 DEF InterruptIncomplete, incomplete, Run
<1>7. ASSUME NEW r \in Runs, Claim(r) PROVE Stays
  BY <1>1, <1>7 DEF Claim, Run
<1>8. ASSUME NEW r \in Runs, CloseRun(r) \/ AbortRun(r) PROVE Stays
  <2>1. PICK status \in Settled : finish_run(r, status) \/ UNCHANGED run
    BY <1>1, <1>8 DEF CloseRun, AbortRun, Task, Settled
  <2>2. CASE finish_run(r, status)
    <3>1. /\ q # r => run'[q] = run[q]
          /\ q = r => run'[q].preview = run[q].preview
          /\ q = r /\ owns(q) => run'[q].status = status
          /\ q = r /\ ~owns(q) => run'[q] = run[q]
      BY <1>1, <2>1, <2>2, FinishRunTypes
    <3> QED
      BY <3>1 DEF owns, Settled
  <2> QED
    BY <2>1, <2>2
<1>9. CASE MemberStep
  BY <1>3, <1>4, <1>9 DEF MemberStep, Offer, Confirm, Withdraw, Expire
<1>10. CASE RecoverStep
  BY <1>3, <1>4, <1>6, <1>10 DEF RecoverStep, RecoverRaises, Ready, ReportInterrupted
<1>11. CASE Crash \/ Shutdown \/ Restart \/ (\E p \in Previews, i \in Steps : Settle(p, i))
  BY <1>3, <1>11 DEF Crash, Shutdown, Restart, Settle
<1>12. CASE \E p \in Previews : SubmitStep(p)
  BY <1>3, <1>5, <1>12 DEF SubmitStep, SubmitFails
<1>13. CASE \E r \in Runs : TaskStep(r)
  BY <1>3, <1>7, <1>8, <1>13
  DEF TaskStep, ClaimRaises, ShowProgress, NextStep, StartStep, CheckStep, Call, Verify,
      RecordCompleted, JudgeStep, RecordFailed, PostReport
<1> QED
  BY <1>9, <1>10, <1>11, <1>12, <1>13 DEF Next

\* A step is begun by start_step, and one that is running is settled; nothing else.
LEMMA StepMoves ==
  ASSUME TypeInv, Next, NEW q \in Runs, NEW j \in Steps
  PROVE  \/ step'[q][j] = step[q][j]
         \/ step[q][j] = "running" /\ step'[q][j] # "queued"
         \/ /\ StartStep(q) /\ owns(q) /\ task[q].index = j
            /\ step[q][j] = "queued" /\ step'[q][j] = "running"
<1>1. step \in [Runs -> [Steps -> StepStatuses]]
  BY DEF TypeInv, StoreTypes
<1>2. CASE ~Writes
  BY <1>2, OthersDoNotWrite
<1>3. CASE InterruptIncomplete
  BY <1>1, <1>3 DEF InterruptIncomplete
<1>4. ASSUME NEW r \in Runs, StartStep(r)
      PROVE  \/ step'[q][j] = step[q][j]
             \/ /\ r = q /\ owns(q) /\ task[q].index = j
                /\ step[q][j] = "queued" /\ step'[q][j] = "running"
  BY <1>4, StartStepWrites
<1>5. ASSUME NEW r \in Runs, CheckStep(r) PROVE step'[q][j] = step[q][j]
  BY <1>5, CheckStepWrites
<1>6. ASSUME NEW r \in Runs, RecordCompleted(r) \/ RecordFailed(r)
      PROVE  \/ step'[q][j] = step[q][j]
             \/ step[q][j] = "running" /\ step'[q][j] # "queued"
  <2>1. PICK status \in Outcomes : task[r].index \in Steps /\ FinishStep(r, status)
    BY <1>6, Recorded
  <2>2. \/ UNCHANGED step
        \/ /\ step[r][task[r].index] = "running"
           /\ step' = [step EXCEPT ![r][task[r].index] = status]
    BY <2>1 DEF FinishStep
  <2> QED
    BY <1>1, <2>1, <2>2 DEF Outcomes
<1> QED
  BY <1>2, <1>3, <1>4, <1>5, <1>6 DEF Writes

\* finish_step moves the task past a step it has completed, and nothing moves it otherwise.
LEMMA TaskIndexMoves ==
  ASSUME TypeInv, NEW r \in Runs, TaskStep(r)
  PROVE  \/ task'[r].index = task[r].index
         \/ task'[r].index = 1 /\ task'[r].stage = "none"
         \/ /\ task[r].index \in Steps /\ task'[r].index = task[r].index + 1
            /\ step'[r][task[r].index] = "completed"
<1>1. task \in [Runs -> Task] /\ step \in [Runs -> [Steps -> StepStatuses]]
  BY DEF TypeInv, TaskTypes, StoreTypes
<1>2. ASSUME NEW s \in Stages, Goes(r, s) PROVE task'[r].index = task[r].index
  BY <1>1, <1>2, TaskMoves DEF TaskIs
<1>3. ASSUME NEW e \in Errors, Fails(r, e) PROVE task'[r].index = task[r].index
  BY <1>1, <1>3, TaskMoves DEF TaskIs
<1>4. ASSUME Closes(r, "stopped") PROVE task'[r].index = task[r].index
  BY <1>1, <1>4, TaskMoves DEF TaskIs
<1>5. ASSUME task' = [task EXCEPT ![r] = NoTask]
      PROVE  task'[r].index = 1 /\ task'[r].stage = "none"
  BY <1>1, <1>5, TaskMoves DEF TaskIs
<1>6. /\ {"progress", "between", "starting", "checking", "calling", "verifying", "recording",
          "closing", "aborting", "reporting"} \subseteq Stages
      /\ {"refused", "unsure"} \subseteq Errors
  BY DEF Stages, Errors
<1>7. CASE Claim(r) \/ ClaimRaises(r) \/ PostReport(r)
  BY <1>2, <1>5, <1>6, <1>7 DEF Claim, ClaimRaises, PostReport
<1>8. CASE ShowProgress(r) \/ NextStep(r) \/ StartStep(r)
  BY <1>2, <1>4, <1>6, <1>8 DEF ShowProgress, NextStep, StartStep
<1>9. CASE CheckStep(r) \/ Call(r) \/ Verify(r)
  BY <1>2, <1>3, <1>6, <1>9 DEF CheckStep, Call, Verify
<1>10. CASE RecordCompleted(r) \/ RecordFailed(r)
  <2>1. PICK status \in Outcomes : task[r].index \in Steps /\ FinishStep(r, status)
    BY <1>10, Recorded
  <2>2. \/ task'[r].index = task[r].index
        \/ /\ task'[r].index = task[r].index + 1 /\ status = "completed"
           /\ step' = [step EXCEPT ![r][task[r].index] = status]
    BY <2>1, FinishMoves DEF TaskIs
  <2> QED
    BY <1>1, <2>1, <2>2
<1>11. CASE JudgeStep(r)
  BY <1>11, JudgeMoves DEF TaskIs
<1>12. CASE CloseRun(r) \/ AbortRun(r)
  BY <1>2, <1>6, <1>12 DEF CloseRun, AbortRun
<1> QED
  BY <1>7, <1>8, <1>9, <1>10, <1>11, <1>12 DEF TaskStep

\* Every other step leaves a task's index alone, or starts it at the first step.
LEMMA IndexMoves ==
  ASSUME TypeInv, Next, NEW q \in Runs
  PROVE  \/ task'[q].index = task[q].index
         \/ task'[q].index = 1
         \/ /\ task[q].index \in Steps /\ task'[q].index = task[q].index + 1
            /\ step'[q][task[q].index] = "completed"
<1>1. task \in [Runs -> Task] /\ NoTask.index = 1
  BY DEF TypeInv, TaskTypes, NoTask
<1>2. CASE UNCHANGED task
  BY <1>2
<1>3. CASE task' = [r \in Runs |-> NoTask]
  BY <1>1, <1>3
<1>4. CASE Shutdown
  BY <1>1, <1>4 DEF Shutdown, Task
<1>5. ASSUME NEW p \in Previews, NEW r \in Runs, Submit(p, r)
      PROVE  task'[q] = task[q] \/ task'[q].index = 1
  <2> DEFINE t == [NoTask EXCEPT !.stage = "queued"]
  <2>1. t.index = 1
    BY DEF NoTask
  <2>2. task' = [task EXCEPT ![r] = t]
    BY <1>5 DEF Submit
  <2> HIDE DEF t
  <2> QED
    BY <1>1, <2>1, <2>2
<1>6. CASE MemberStep
  BY <1>2, <1>6 DEF MemberStep, Offer, Confirm, Withdraw, Expire, RequestStop
<1>7. CASE RecoverStep
  BY <1>2, <1>7 DEF RecoverStep, InterruptIncomplete, RecoverRaises, Ready,
                    ReportInterrupted, MarkReported
<1>8. CASE Crash \/ Restart
  BY <1>3, <1>8 DEF Crash, Restart
<1>9. CASE \E p \in Previews : SubmitStep(p)
  BY <1>2, <1>5, <1>9 DEF SubmitStep, SubmitFails
<1>10. ASSUME NEW r \in Runs, TaskStep(r), r # q PROVE task'[q] = task[q]
  BY <1>10, TaskStepOthers
<1>11. CASE \E p \in Previews, i \in Steps : Settle(p, i)
  BY <1>2, <1>11 DEF Settle
<1> QED
  BY <1>4, <1>6, <1>7, <1>8, <1>9, <1>10, <1>11, TaskIndexMoves DEF Next

\* Steps keep their order: start_step begins the step at the index, before which every
\* step is completed, and no later step has begun.
LEMMA NextInOrder ==
  ASSUME TypeInv, Next, NEW r \in Runs, InOrder(r)
  PROVE  InOrder(r)'
<1>1. N \in Nat /\ task[r].index \in 1..(N + 1)
  BY ActionsAssumption DEF TypeInv, TaskTypes, Task
<1>2. ASSUME NEW j \in Steps, step[r][j] = "completed" PROVE step'[r][j] = "completed"
  BY <1>2, StepMoves
<1>3. run'[r].status = "absent" => \A i \in Steps : step'[r][i] = "queued"
  <2> SUFFICES ASSUME run'[r].status = "absent", NEW i \in Steps
               PROVE  step'[r][i] = "queued"
    OBVIOUS
  <2>1. CASE \E p \in Previews : Submit(p, r)
    <3>1. run[r].status = "absent" /\ UNCHANGED step
      BY <2>1 DEF Submit
    <3> QED
      BY <3>1 DEF InOrder
  <2>2. CASE run[r].status = "absent"
    <3>1. step[r][i] = "queued" /\ ~owns(r)
      BY <2>2 DEF InOrder, owns
    <3> QED
      BY <3>1, StepMoves
  <2> QED
    BY <2>1, <2>2, RunMoves
<1>4. ASSUME NEW i \in Steps, NEW j \in Steps, step'[r][i] # "queued", j < i
      PROVE  step'[r][j] = "completed"
  <2>1. CASE step[r][i] # "queued"
    BY <1>2, <1>4, <2>1 DEF InOrder
  <2>2. CASE step[r][i] = "queued"
    <3>1. task[r].index = i
      BY <1>4, <2>2, StepMoves
    <3> QED
      BY <1>2, <1>4, <3>1 DEF InOrder
  <2> QED
    BY <2>1, <2>2
<1>5. ASSUME NEW j \in Steps, j < task'[r].index PROVE step'[r][j] = "completed"
  <2>1. CASE task'[r].index = task[r].index
    BY <1>2, <1>5, <2>1 DEF InOrder
  <2>2. CASE task'[r].index = 1
    BY <1>1, <1>5, <2>2 DEF Steps
  <2>3. CASE /\ task[r].index \in Steps /\ task'[r].index = task[r].index + 1
             /\ step'[r][task[r].index] = "completed"
    <3>1. j < task[r].index \/ j = task[r].index
      BY <1>1, <1>5, <2>3 DEF Steps
    <3> QED
      BY <1>2, <2>3, <3>1 DEF InOrder
  <2> QED
    BY <2>1, <2>2, <2>3, IndexMoves
<1> QED
  BY <1>3, <1>4, <1>5 DEF InOrder

\* The buttons of a preview that is in use stay as they are.
LEMMA ViewMoves ==
  ASSUME TypeInv, OneRunEach, Next, NEW p \in Previews
  PROVE  /\ Confirmed(p) => view'[p].state = "confirmed" /\ ~view'[p].submitting
         /\ view'[p].state = "none" => ~view'[p].expired
         /\ view'[p].submitting => view'[p].state = "confirmed"
<1>1. view \in [Previews -> View] /\ view[p] \in View
  BY DEF TypeInv, StoreTypes
<1>2. /\ view[p].state = "none" => ~view[p].expired
      /\ view[p].submitting => view[p].state = "confirmed"
  BY DEF OneRunEach
<1> DEFINE Moved == /\ Confirmed(p) => view'[p].state = "confirmed" /\ ~view'[p].submitting
                    /\ view'[p].state = "none" => ~view'[p].expired
                    /\ view'[p].submitting => view'[p].state = "confirmed"
<1>3. ASSUME view'[p] = view[p] PROVE Moved
  BY <1>2, <1>3 DEF Confirmed
<1>4. ASSUME NEW o \in Previews, Offer(o) PROVE Moved
  BY <1>1, <1>2, <1>3, <1>4 DEF Offer, NoView, Confirmed
<1>5. ASSUME NEW o \in Previews, Confirm(o) \/ Withdraw(o) \/ Expire(o) PROVE Moved
  BY <1>1, <1>2, <1>3, <1>5 DEF Confirm, Withdraw, Expire, may_claim, View, Confirmed
<1>6. ASSUME NEW o \in Previews, SubmitStep(o) PROVE Moved
  BY <1>1, <1>2, <1>3, <1>6 DEF SubmitStep, SubmitFails, Submit, View, Confirmed
<1>7. CASE Crash \/ Shutdown
  <2>1. view'[p] = IF view[p].state = "none" THEN view[p]
                   ELSE [view[p] EXCEPT !.expired = TRUE, !.submitting = FALSE]
    BY <1>7 DEF Crash, Shutdown
  <2> QED
    BY <1>1, <1>2, <1>3, <2>1 DEF View, Confirmed
<1>8. ASSUME NEW r \in Runs, RequestStop(r) PROVE Moved
  BY <1>3, <1>8 DEF RequestStop
<1>9. CASE MemberStep
  BY <1>4, <1>5, <1>8, <1>9 DEF MemberStep
<1>10. CASE RecoverStep \/ Restart \/ (\E o \in Previews, i \in Steps : Settle(o, i))
  BY <1>3, <1>10 DEF RecoverStep, InterruptIncomplete, RecoverRaises, Ready,
                     ReportInterrupted, MarkReported, Restart, Settle
<1>11. CASE \E r \in Runs : TaskStep(r)
  BY <1>3, <1>11
  DEF TaskStep, Claim, ClaimRaises, ShowProgress, NextStep, StartStep, CheckStep, Call,
      Verify, RecordCompleted, JudgeStep, RecordFailed, CloseRun, AbortRun, PostReport
<1> QED
  BY <1>6, <1>7, <1>9, <1>10, <1>11 DEF Next

\* submit uses the one submission of a preview that no run works for yet.
LEMMA SubmitNames ==
  ASSUME TypeInv, UnstoredUnnamed, OneRunEach, NEW p \in Previews, NEW r \in Runs,
         Submit(p, r)
  PROVE  /\ \A q \in Runs : run[q].preview # p
         /\ run[r].preview = NoPreview /\ run'[r].preview = p
         /\ run'[r].status = "queued"
         /\ ~run'[r].stop
         /\ \A q \in Runs \ {r} : run'[q] = run[q]
         /\ view'[p].state = "confirmed" /\ ~view'[p].submitting
<1>1. view \in [Previews -> View] /\ view[p] \in View /\ run \in [Runs -> Run]
  BY DEF TypeInv, StoreTypes
<1>2. /\ view[p].submitting /\ run[r].status = "absent"
      /\ view' = [view EXCEPT ![p].submitting = FALSE]
      /\ run' = [run EXCEPT ![r] = [NoRun EXCEPT !.status = "queued", !.preview = p]]
  BY DEF Submit
<1>3. \A q \in Runs : run[q].preview # p
  BY <1>2 DEF OneRunEach, Confirmed
<1>4. run[r].preview = NoPreview
  BY <1>2 DEF UnstoredUnnamed
<1>5. view[p].state = "confirmed"
  BY <1>2 DEF OneRunEach
<1> QED
  BY <1>1, <1>2, <1>3, <1>4, <1>5 DEF NoRun, View

\* One run per preview, and only for previews that were confirmed.
LEMMA NextOneRun ==
  ASSUME TypeInv, UnstoredUnnamed, OneRunEach, Next
  PROVE  OneRunEach'
<1>1. NoPreview \notin Previews
  BY ActionsAssumption
<1>2. ASSUME NEW q \in Runs
      PROVE  \/ /\ run'[q].preview = run[q].preview
                /\ run'[q].status = "absent" <=> run[q].status = "absent"
             \/ \E p \in Previews : Submit(p, q)
  BY <1>2, RunMoves
<1>3. ASSUME NEW q \in Runs, NEW r \in Runs, run'[q].preview \in Previews,
             run'[q].preview = run'[r].preview
      PROVE  q = r
  <2>1. CASE \E p \in Previews : Submit(p, q)
    <3>1. PICK p \in Previews : Submit(p, q)
      BY <2>1
    <3>2. /\ \A s \in Runs : run[s].preview # p
          /\ \A s \in Runs \ {q} : run'[s] = run[s]
          /\ run'[q].preview = p
      BY <3>1, SubmitNames
    <3> QED
      BY <1>3, <3>2
  <2>2. CASE \E p \in Previews : Submit(p, r)
    <3>1. PICK p \in Previews : Submit(p, r)
      BY <2>2
    <3>2. /\ \A s \in Runs : run[s].preview # p
          /\ \A s \in Runs \ {r} : run'[s] = run[s]
          /\ run'[r].preview = p
      BY <3>1, SubmitNames
    <3> QED
      BY <1>3, <3>2
  <2>3. CASE run'[q].preview = run[q].preview /\ run'[r].preview = run[r].preview
    BY <1>3, <2>3 DEF OneRunEach
  <2> QED
    BY <1>2, <2>1, <2>2, <2>3
<1>4. ASSUME NEW r \in Runs
      PROVE  /\ run'[r].status # "absent" => run'[r].preview \in Previews
             /\ run'[r].preview \in Previews
                  => /\ view'[run'[r].preview].state = "confirmed"
                     /\ ~view'[run'[r].preview].submitting
  <2>1. CASE \E p \in Previews : Submit(p, r)
    <3>1. PICK p \in Previews : Submit(p, r)
      BY <2>1
    <3> QED
      BY <3>1, SubmitNames
  <2>2. CASE /\ run'[r].preview = run[r].preview
             /\ run'[r].status = "absent" <=> run[r].status = "absent"
    <3>1. run'[r].status # "absent" => run'[r].preview \in Previews
      BY <2>2 DEF OneRunEach
    <3>2. ASSUME run'[r].preview \in Previews
          PROVE  /\ view'[run'[r].preview].state = "confirmed"
                 /\ ~view'[run'[r].preview].submitting
      <4>1. PICK p \in Previews : p = run[r].preview /\ p = run'[r].preview
        BY <2>2, <3>2
      <4>2. Confirmed(p)
        BY <4>1 DEF OneRunEach
      <4>3. view'[p].state = "confirmed" /\ ~view'[p].submitting
        BY <4>2, ViewMoves
      <4> QED
        BY <4>1, <4>3
    <3> QED
      BY <3>1, <3>2
  <2> QED
    BY <1>2, <2>1, <2>2
<1>5. \A p \in Previews : /\ view'[p].state = "none" => ~view'[p].expired
                          /\ view'[p].submitting => view'[p].state = "confirmed"
  BY ViewMoves
<1> QED
  BY <1>3, <1>4, <1>5 DEF OneRunEach, Confirmed

\* A step that is uncalled was uncalled before.
LEMMA UncalledBefore ==
  ASSUME TypeInv, Next, NEW r \in Runs, NEW i \in Steps,
         Uncalled(r, i)' , ~(\E p \in Previews : Submit(p, r))
  PROVE  Uncalled(r, i)
<1>1. step'[r][i] = "queued" \/ (task'[r].index = i /\ task'[r].stage \in {"checking", "calling"})
  BY DEF Uncalled
<1>2. CASE step'[r][i] = "queued"
  <2>1. step[r][i] = "queued"
    BY <1>2, StepMoves
  <2> QED
    BY <2>1 DEF Uncalled
<1>3. CASE task'[r].index = i /\ task'[r].stage \in {"checking", "calling"} /\ ~TaskStep(r)
  <2>1. task'[r] = task[r]
    BY <1>3, TaskKept
  <2> QED
    BY <1>3, <2>1 DEF Uncalled
<1>4. CASE task'[r].index = i /\ task'[r].stage \in {"checking", "calling"} /\ TaskStep(r)
  <2>1. task \in [Runs -> Task]
    BY DEF TypeInv, TaskTypes
  <2>2. ASSUME NEW s \in Stages, Goes(r, s)
        PROVE  task'[r].stage = s /\ task'[r].index = task[r].index
    BY <2>1, <2>2, TaskMoves DEF TaskIs
  <2>3. ASSUME NEW e \in Errors, Fails(r, e) PROVE task'[r].stage = "failing"
    BY <2>1, <2>3, TaskMoves DEF TaskIs
  <2>4. ASSUME Closes(r, "stopped") PROVE task'[r].stage = "closing"
    BY <2>1, <2>4, TaskMoves DEF TaskIs
  <2>5. ASSUME task' = [task EXCEPT ![r] = NoTask] PROVE task'[r].stage = "none"
    BY <2>1, <2>5, TaskMoves DEF TaskIs
  <2>6. /\ {"progress", "between", "starting", "checking", "calling", "verifying",
            "recording", "closing", "aborting", "reporting"} \subseteq Stages
        /\ {"refused", "unsure"} \subseteq Errors
    BY DEF Stages, Errors
  <2>7. ~(Claim(r) \/ ClaimRaises(r) \/ PostReport(r))
    BY <1>4, <2>2, <2>5, <2>6 DEF Claim, ClaimRaises, PostReport
  <2>8. ~(ShowProgress(r) \/ NextStep(r))
    BY <1>4, <2>2, <2>4, <2>6 DEF ShowProgress, NextStep
  <2>9. ~(Call(r) \/ Verify(r))
    BY <1>4, <2>2, <2>3, <2>6 DEF Call, Verify
  <2>10. ~JudgeStep(r)
    BY <1>4, JudgeMoves DEF TaskIs
  <2>11. ~(CloseRun(r) \/ AbortRun(r))
    BY <1>4, <2>2, <2>6 DEF CloseRun, AbortRun
  <2>12. ~(RecordCompleted(r) \/ RecordFailed(r))
    <3>1. ASSUME RecordCompleted(r) \/ RecordFailed(r)
          PROVE  task'[r].stage \in {"between", "closing"}
      <4>1. PICK status \in Outcomes : task[r].index \in Steps /\ FinishStep(r, status)
        BY <3>1, Recorded
      <4> QED
        BY <4>1, FinishMoves DEF TaskIs
    <3> QED
      BY <1>4, <3>1
  <2>13. CASE StartStep(r)
    <3>1. may_start_step(r, task[r].index) /\ Goes(r, "checking")
      BY <1>4, <2>2, <2>4, <2>6, <2>13 DEF StartStep
    <3>2. step[r][i] = "queued"
      BY <1>4, <2>2, <2>6, <3>1 DEF may_start_step
    <3> QED
      BY <3>2 DEF Uncalled
  <2>14. CASE CheckStep(r)
    <3>1. task[r].stage = "checking" /\ Goes(r, "calling")
      BY <1>4, <2>3, <2>6, <2>14 DEF CheckStep, At
    <3>2. task[r].index = i
      BY <1>4, <2>2, <2>6, <3>1
    <3> QED
      BY <3>1, <3>2 DEF Uncalled
  <2> QED
    BY <1>4, <2>7, <2>8, <2>9, <2>10, <2>11, <2>12, <2>13, <2>14 DEF TaskStep
<1> QED
  BY <1>1, <1>2, <1>3, <1>4

\* The task whose call may take effect now: its step was begun and not called yet.
LEMMA Calling ==
  ASSUME RunInv, OneRunEach, CalledOnce, NEW r \in Runs, Call(r)
  PROVE  LET p == run[r].preview  i == task[r].index
         IN  /\ p \in Previews /\ i \in Steps /\ Begun(r, i) /\ step[r][i] # "queued"
             /\ effect[p][i] = 0 /\ <<p, i>> \notin late
<1> DEFINE i == task[r].index
<1>1. /\ task[r].stage = "calling" /\ run[r].preview \in Previews
      /\ i \in Steps /\ Begun(r, i)
  BY DEF Call, At, RunInv, TypeInv, NamedRuns, LoggedInv, Logged
<1>2. step[r][i] # "queued"
  BY <1>1 DEF RunInv, LogFollowsSteps, Begun
<1>3. Uncalled(r, i)
  BY <1>1 DEF Uncalled
<1> HIDE DEF i
<1>4. effect[run[r].preview][i] = 0 /\ <<run[r].preview, i>> \notin late
  BY <1>1, <1>3 DEF CalledOnce
<1> QED
  BY <1>1, <1>2, <1>4 DEF i

\* What may happen to one change of one preview in a step.
LEMMA WorldMoves ==
  ASSUME RunInv, OneRunEach, CalledOnce, Next, NEW p \in Previews, NEW i \in Steps
  PROVE  \/ effect'[p][i] = effect[p][i] /\ (<<p, i>> \in late' <=> <<p, i>> \in late)
         \/ /\ <<p, i>> \in late /\ <<p, i>> \notin late'
            /\ effect'[p][i] \in {effect[p][i], effect[p][i] + 1}
         \/ \E r \in Runs :
              /\ Call(r) /\ run[r].preview = p /\ task[r].index = i
              /\ effect[p][i] = 0 /\ <<p, i>> \notin late
              /\ \/ effect'[p][i] = 1 /\ <<p, i>> \notin late'
                 \/ effect'[p][i] = 0
<1>1. effect \in [Previews -> [Steps -> Nat]] /\ TypeInv
  BY DEF RunInv, TypeInv, StoreTypes
<1>2. CASE UNCHANGED world
  BY <1>2 DEF world
<1>3. ASSUME NEW o \in Previews, NEW j \in Steps, Settle(o, j)
      PROVE  \/ effect'[p][i] = effect[p][i] /\ (<<p, i>> \in late' <=> <<p, i>> \in late)
             \/ /\ <<p, i>> \in late /\ <<p, i>> \notin late'
                /\ effect'[p][i] \in {effect[p][i], effect[p][i] + 1}
  BY <1>1, <1>3 DEF Settle
<1>4. ASSUME NEW r \in Runs, Call(r)
      PROVE  \/ effect'[p][i] = effect[p][i] /\ (<<p, i>> \in late' <=> <<p, i>> \in late)
             \/ /\ run[r].preview = p /\ task[r].index = i
                /\ effect[p][i] = 0 /\ <<p, i>> \notin late
                /\ \/ effect'[p][i] = 1 /\ <<p, i>> \notin late'
                   \/ effect'[p][i] = 0
  <2> DEFINE o == run[r].preview  j == task[r].index
  <2>1. o \in Previews /\ j \in Steps /\ effect[o][j] = 0 /\ <<o, j>> \notin late
    BY <1>4, Calling
  <2>2. \/ effect' = [effect EXCEPT ![o][j] = @ + 1] /\ UNCHANGED late
        \/ UNCHANGED world
        \/ late' = late \cup {<<o, j>>} /\ UNCHANGED effect
    BY <1>4 DEF Call
  <2> HIDE DEF o, j
  <2>3. \/ effect'[p][i] = effect[p][i] /\ (<<p, i>> \in late' <=> <<p, i>> \in late)
        \/ /\ o = p /\ j = i
           /\ \/ effect'[p][i] = 1 /\ <<p, i>> \notin late'
              \/ effect'[p][i] = 0
    BY <1>1, <2>1, <2>2 DEF world
  <2> QED
    BY <2>1, <2>3 DEF o, j
<1> QED
  BY <1>1, <1>2, <1>3, <1>4, OthersDoNotAct

\* A step is called at most once: the task leaves it for good, and no other run works for
\* its preview.
LEMMA NextCalledOnce ==
  ASSUME RunInv, OneRunEach, CalledOnce, Next
  PROVE  CalledOnce'
<1>1. effect \in [Previews -> [Steps -> Nat]] /\ TypeInv /\ UnstoredUnnamed
  BY DEF RunInv, TypeInv, StoreTypes
<1>2. ASSUME NEW p \in Previews, NEW i \in Steps
      PROVE  effect'[p][i] <= 1 /\ (<<p, i>> \in late' => effect'[p][i] = 0)
  <2>1. effect[p][i] \in Nat /\ effect[p][i] <= 1 /\ (<<p, i>> \in late => effect[p][i] = 0)
    BY <1>1 DEF CalledOnce
  <2> QED
    BY <2>1, WorldMoves
<1>3. ASSUME NEW r \in Runs, NEW i \in Steps, run'[r].preview \in Previews, Uncalled(r, i)'
      PROVE  effect'[run'[r].preview][i] = 0 /\ <<run'[r].preview, i>> \notin late'
  <2>1. PICK p \in Previews : p = run'[r].preview
    BY <1>3
  <2>2. CASE \E o \in Previews : Submit(o, r)
    <3>1. PICK o \in Previews : Submit(o, r)
      BY <2>2
    <3>2. /\ o = p /\ (\A q \in Runs : run[q].preview # p)
          /\ effect' = effect /\ late' = late
      <4>1. effect' = effect /\ late' = late
        BY <3>1 DEF Submit
      <4>2. run'[r].preview = o /\ (\A q \in Runs : run[q].preview # o)
        BY <1>1, <3>1, SubmitNames
      <4> QED
        BY <2>1, <4>1, <4>2
    <3>3. ~(effect[p][i] > 0 \/ <<p, i>> \in late)
      BY <3>2 DEF RunInv, LoggedInv, EveryEffectIsLogged
    <3>4. effect[p][i] \in Nat
      BY <1>1
    <3> QED
      BY <2>1, <3>2, <3>3, <3>4
  <2>3. CASE ~(\E o \in Previews : Submit(o, r))
    <3>1. run[r].preview = p
      BY <1>1, <2>1, <2>3, RunMoves
    <3>2. Uncalled(r, i)
      BY <1>1, <1>3, <2>3, UncalledBefore
    <3>3. effect[p][i] = 0 /\ <<p, i>> \notin late
      BY <2>1, <3>1, <3>2 DEF CalledOnce
    <3>4. ASSUME NEW q \in Runs, Call(q), run[q].preview = p, task[q].index = i
          PROVE  FALSE
      <4>1. q = r
        BY <3>1, <3>4, <2>1 DEF OneRunEach
      <4>2. step[r][i] # "queued" /\ task[r].stage = "calling"
        BY <3>4, <4>1, Calling DEF Call, At
      <4>3. UNCHANGED step
        BY <3>4 DEF Call
      <4>4. task'[r].stage \in {"verifying", "failing"}
        <5>1. task \in [Runs -> Task]
          BY <1>1 DEF TypeInv, TaskTypes
        <5>2. Goes(r, "verifying") \/ \E e \in Errors : Fails(r, e)
          BY <3>4, <4>1 DEF Call, Errors
        <5> QED
          BY <5>1, <5>2, TaskMoves DEF TaskIs, Stages
      <4> QED
        BY <1>3, <4>2, <4>3, <4>4 DEF Uncalled
    <3>5. effect'[p][i] = effect[p][i] /\ (<<p, i>> \in late' <=> <<p, i>> \in late)
      BY <3>3, <3>4, WorldMoves
    <3> QED
      BY <2>1, <3>3, <3>5
  <2> QED
    BY <2>2, <2>3
<1> QED
  BY <1>2, <1>3 DEF CalledOnce

(***************************************************************************)
(* The steps of a run that have begun are the first ones.                   *)
(***************************************************************************)

\* A set of numbers up to k that holds, with a number, all the smaller ones, is an interval.
LEMMA Initial ==
  ASSUME NEW k \in Nat, NEW S \in SUBSET (1..k),
         \A i \in S : \A j \in 1..k : j < i => j \in S
  PROVE  /\ Cardinality(S) \in 0..k
         /\ S = 1..Cardinality(S)
<1> DEFINE n == Cardinality(S)
<1>1. IsFiniteSet(1..k) /\ Cardinality(1..k) = k
  BY FS_Interval
<1>2. IsFiniteSet(S) /\ n <= k
  BY <1>1, FS_Subset
<1>3. n \in Nat
  BY <1>2, FS_CardinalityType
<1>4. ASSUME NEW i \in S PROVE i \in 1..n
  <2>1. i \in 1..k
    OBVIOUS
  <2>2. 1..i \in SUBSET S
    <3>1. ASSUME NEW j \in 1..i PROVE j \in S
      BY <2>1
    <3> QED
      BY <3>1
  <2>3. Cardinality(1..i) = i
    BY <2>1, FS_Interval
  <2>4. Cardinality(1..i) <= n
    BY <1>2, <2>2, FS_Subset
  <2> QED
    BY <1>3, <2>1, <2>3, <2>4
<1>5. S \in SUBSET (1..n)
  BY <1>4
<1>6. IsFiniteSet(1..n) /\ Cardinality(1..n) = n
  BY <1>3, FS_Interval
<1>7. 1..n = S
  BY <1>5, <1>6, FS_Subset
<1> QED
  BY <1>2, <1>3, <1>7

\* A row is in the log once its step has left the queue.
LEMMA BegunIsUnqueued ==
  ASSUME LogFollowsSteps, TypeInv, NEW r \in Runs, NEW i \in Steps
  PROVE  Begun(r, i) <=> step[r][i] # "queued"
<1>1. step[r][i] # "none"
  BY DEF TypeInv, StoreTypes, StepStatuses, Outcomes
<1> QED
  BY <1>1 DEF LogFollowsSteps, Begun

\* The changes of a preview that have begun, as CheckedChange counts them.
Counted == \A r \in Runs, p \in Previews :
             run[r].preview = p => /\ begun[p] \in 0..N
                                   /\ \A i \in Steps : Begun(r, i) <=> i <= begun[p]

LEMMA BegunSteps == RunInv /\ PromiseInv => Counted
<1> SUFFICES ASSUME RunInv, PromiseInv, NEW r \in Runs, NEW p \in Previews,
                    run[r].preview = p
             PROVE  /\ begun[p] \in 0..N
                    /\ \A i \in Steps : Begun(r, i) <=> i <= begun[p]
  BY DEF Counted
<1> DEFINE S == {i \in Steps : Begun(r, i)}
<1>1. begun[p] = Cardinality(S)
  <2>1. begun[p] = Cardinality(
          {i \in Steps : \E q \in Runs : run[q].preview = p /\ log[q][i].outcome # "none"})
    BY DEF begun
  <2>2. {i \in Steps : \E q \in Runs : run[q].preview = p /\ log[q][i].outcome # "none"} = S
    BY DEF PromiseInv, OneRunEach, Begun
  <2> QED
    BY <2>1, <2>2
<1>2. N \in Nat
  BY ActionsAssumption
<1>3. S \in SUBSET (1..N)
  BY DEF Steps
<1>4. ASSUME NEW i \in S, NEW j \in 1..N, j < i PROVE j \in S
  <2>1. step[r][i] # "queued" /\ i \in Steps /\ j \in Steps
    BY BegunIsUnqueued DEF RunInv, Steps
  <2>2. step[r][j] = "completed"
    BY <1>4, <2>1 DEF PromiseInv, InOrder
  <2> QED
    BY <2>1, <2>2, BegunIsUnqueued DEF RunInv
<1> HIDE DEF S
<1>5. Cardinality(S) \in 0..N /\ S = 1..Cardinality(S)
  BY <1>2, <1>3, <1>4, Initial
<1>6. ASSUME NEW i \in Steps PROVE Begun(r, i) <=> i \in S
  BY DEF S
<1>7. ASSUME NEW i \in Steps PROVE i \in 1..Cardinality(S) <=> i <= Cardinality(S)
  BY <1>2, <1>5 DEF Steps
<1> QED
  BY <1>1, <1>5, <1>6, <1>7

(***************************************************************************)
(* Every step is a step of CheckedChange or leaves its variables alone.     *)
(***************************************************************************)

\* The phase of a preview depends on its buttons.
LEMMA PhaseKept ==
  ASSUME \A p \in Previews : /\ view'[p].state = view[p].state
                             /\ view'[p].expired = view[p].expired
  PROVE  UNCHANGED phase
BY DEF phase

\* Run r lets no further change begin.
Over(r) == run[r].status \in Settled \/ run[r].stop

LEMMA ClosedKept ==
  ASSUME \A p \in Previews : (\E r \in Runs : run'[r].preview = p /\ Over(r)')
                             <=> (\E r \in Runs : run[r].preview = p /\ Over(r))
  PROVE  UNCHANGED closed
BY DEF closed, Over

\* Which changes have begun depends on which steps are queued.
LEMMA BegunKept ==
  ASSUME RunInv, PromiseInv, Next, RunInv',
         \A q \in Runs, j \in Steps : step'[q][j] = "queued" <=> step[q][j] = "queued"
  PROVE  UNCHANGED begun
<1>1. ASSUME NEW r \in Runs, NEW i \in Steps
      PROVE  /\ log[r][i].outcome # "none" <=> step[r][i] # "queued"
             /\ log'[r][i].outcome # "none" <=> step'[r][i] # "queued"
  <2>1. /\ step \in [Runs -> [Steps -> StepStatuses]]
        /\ step' \in [Runs -> [Steps -> StepStatuses]]
    BY DEF RunInv, TypeInv, StoreTypes
  <2>2. step[r][i] # "none" /\ step'[r][i] # "none"
    BY <2>1 DEF StepStatuses, Outcomes
  <2>3. log[r][i].outcome # "none" <=> step[r][i] # "queued"
    BY <2>2 DEF RunInv, LogFollowsSteps
  <2>4. log'[r][i].outcome # "none" <=> step'[r][i] # "queued"
    BY <2>2 DEF RunInv, LogFollowsSteps
  <2> QED
    BY <2>3, <2>4
<1>2. ASSUME NEW r \in Runs, NEW i \in Steps, NEW p \in Previews
      PROVE  run'[r].preview = p /\ log'[r][i].outcome # "none"
               <=> run[r].preview = p /\ log[r][i].outcome # "none"
  <2>1. CASE run'[r].preview = run[r].preview
    BY <1>1, <2>1
  <2>2. CASE \E o \in Previews : Submit(o, r)
    <3>1. run[r].status = "absent"
      BY <2>2 DEF Submit
    <3>2. step[r][i] = "queued"
      BY <3>1 DEF PromiseInv, InOrder
    <3> QED
      BY <1>1, <3>2
  <2> QED
    BY <2>1, <2>2, RunMoves DEF RunInv
<1>3. ASSUME NEW p \in Previews
      PROVE  {i \in Steps : \E r \in Runs : run'[r].preview = p /\ log'[r][i].outcome # "none"}
             = {i \in Steps : \E r \in Runs : run[r].preview = p /\ log[r][i].outcome # "none"}
  BY <1>2
<1> QED
  BY <1>3 DEF begun

\* What the buttons of a preview in a state say of its phase.
PhaseOf(state, expired) ==
  IF state = "confirmed" THEN "approved"
  ELSE IF state = "cancelled" \/ expired THEN "withdrawn"
  ELSE "offered"

LEMMA PhaseCases ==
  ASSUME NEW s, NEW e \in BOOLEAN
  PROVE  /\ s = "confirmed" => PhaseOf(s, e) = "approved"
         /\ s = "open" /\ ~e => PhaseOf(s, e) = "offered"
         /\ s # "confirmed" /\ (s = "cancelled" \/ e) => PhaseOf(s, e) = "withdrawn"
BY DEF PhaseOf

LEMMA PhaseIs ==
  ASSUME TypeInv, TypeInv', NEW p \in Previews
  PROVE  /\ view[p].state = "confirmed" => phase[p] = "approved"
         /\ view[p].state = "open" /\ ~view[p].expired => phase[p] = "offered"
         /\ view[p].state # "confirmed" /\ (view[p].state = "cancelled" \/ view[p].expired)
              => phase[p] = "withdrawn"
         /\ view'[p].state = "confirmed" => phase'[p] = "approved"
         /\ view'[p].state # "confirmed" /\ (view'[p].state = "cancelled" \/ view'[p].expired)
              => phase'[p] = "withdrawn"
         /\ view'[p].state = view[p].state /\ view'[p].expired = view[p].expired
              => phase'[p] = phase[p]
<1>1. phase[p] = PhaseOf(view[p].state, view[p].expired)
  BY DEF phase, PhaseOf
<1>2. phase'[p] = PhaseOf(view'[p].state, view'[p].expired)
  BY DEF phase, PhaseOf
<1>3. view[p].expired \in BOOLEAN
  BY DEF TypeInv, StoreTypes, View
<1>4. view'[p].expired \in BOOLEAN
  BY DEF TypeInv, StoreTypes, View
<1> QED
  BY <1>1, <1>2, <1>3, <1>4, PhaseCases

LEMMA PhaseFunction ==
  /\ phase = [p \in Previews |-> phase[p]]
  /\ phase' = [p \in Previews |-> phase'[p]]
BY DEF phase

\* A confirmation is the approval.
LEMMA ConfirmApproves ==
  ASSUME TypeInv, TypeInv', NEW p \in Previews, Confirm(p), UNCHANGED <<begun, closed>>
  PROVE  Promise!Approve(p)
<1>1. view \in [Previews -> View] /\ view[p] \in View
  BY DEF TypeInv, StoreTypes
<1>2. /\ view[p].state = "open" /\ ~view[p].expired
      /\ \A q \in Previews : q # p => view'[q] = view[q]
      /\ view'[p].state = "confirmed"
  BY <1>1 DEF Confirm, may_claim, View
<1>3. phase[p] = "offered" /\ phase'[p] = "approved"
  BY <1>2, PhaseIs
<1>4. \A q \in Previews : q # p => phase'[q] = phase[q]
  BY <1>2, PhaseIs
<1>5. phase' = [phase EXCEPT ![p] = "approved"]
  BY <1>3, <1>4, PhaseFunction
<1>6. UNCHANGED effect
  BY DEF Confirm
<1> QED
  BY <1>3, <1>5, <1>6 DEF Promise!Approve

\* Cancelling, expiry, and a process that ends withdraw the previews nobody has used.
LEMMA EndingWithdraws ==
  ASSUME TypeInv, TypeInv', UNCHANGED <<begun, closed>>,
         \/ \E p \in Previews : Withdraw(p) \/ Expire(p)
         \/ Crash \/ Shutdown
  PROVE  \E ps \in SUBSET Previews : Promise!Withdraw(ps)
<1>1. view \in [Previews -> View]
  BY DEF TypeInv, StoreTypes
<1>2. ASSUME NEW ps \in SUBSET Previews, UNCHANGED effect,
             \A p \in ps : phase[p] = "offered" /\ phase'[p] = "withdrawn",
             \A p \in Previews \ ps : phase'[p] = phase[p]
      PROVE  \E ws \in SUBSET Previews : Promise!Withdraw(ws)
  <2>1. phase' = [p \in Previews |-> IF p \in ps THEN "withdrawn" ELSE phase[p]]
    BY <1>2, PhaseFunction
  <2>2. Promise!Withdraw(ps)
    BY <1>2, <2>1 DEF Promise!Withdraw
  <2> QED
    BY <2>2
<1>3. ASSUME NEW p \in Previews, Withdraw(p) \/ Expire(p)
      PROVE  \E ps \in SUBSET Previews : Promise!Withdraw(ps)
  <2>1. /\ view[p].state = "open" /\ ~view[p].expired /\ UNCHANGED effect
        /\ \A q \in Previews : q # p => view'[q] = view[q]
        /\ \/ view'[p].state = "cancelled"
           \/ view'[p].state = "open" /\ view'[p].expired
    BY <1>1, <1>3 DEF Withdraw, Expire, may_claim, View
  <2>2. phase[p] = "offered" /\ phase'[p] = "withdrawn"
    BY <2>1, PhaseIs
  <2>3. \A q \in Previews \ {p} : phase'[q] = phase[q]
    BY <2>1, PhaseIs
  <2> QED
    BY <1>2, <2>1, <2>2, <2>3
<1>4. CASE Crash \/ Shutdown
  <2> DEFINE ps == {p \in Previews : view[p].state = "open" /\ ~view[p].expired}
  <2>1. UNCHANGED effect
    BY <1>4 DEF Crash, Shutdown
  <2>2. \A p \in Previews :
          view'[p] = IF view[p].state = "none" THEN view[p]
                     ELSE [view[p] EXCEPT !.expired = TRUE, !.submitting = FALSE]
    BY <1>4 DEF Crash, Shutdown
  <2>3. ASSUME NEW p \in Previews
        PROVE  /\ view'[p].state = view[p].state
               /\ view[p].state \in {"none", "open", "confirmed", "cancelled"}
               /\ view[p].state # "none" => view'[p].expired
               /\ view[p].state = "none" => view'[p] = view[p]
    <3>1. view[p] \in View
      BY <1>1
    <3> QED
      BY <2>2, <3>1 DEF View
  <2>4. ASSUME NEW p \in ps PROVE phase[p] = "offered" /\ phase'[p] = "withdrawn"
    BY <2>3, PhaseIs
  <2>5. ASSUME NEW p \in Previews \ ps PROVE phase'[p] = phase[p]
    <3>1. CASE view[p].state = "none"
      BY <2>3, <3>1, PhaseIs
    <3>2. CASE view[p].state = "confirmed"
      BY <2>3, <3>2, PhaseIs
    <3>3. CASE view[p].state = "cancelled" \/ (view[p].state = "open" /\ view[p].expired)
      BY <2>3, <3>3, PhaseIs
    <3> QED
      BY <2>3, <3>1, <3>2, <3>3
  <2> HIDE DEF ps
  <2>6. ps \in SUBSET Previews
    BY DEF ps
  <2> QED
    BY <1>2, <2>1, <2>4, <2>5, <2>6
<1> QED
  BY <1>3, <1>4

\* A stop and the end of a run close their previews, which were confirmed.
LEMMA EndingCloses ==
  ASSUME RunInv, RunInv', PromiseInv, NEW rs \in SUBSET Runs,
         UNCHANGED <<phase, begun, effect>>,
         \A r \in Runs : run'[r].preview = run[r].preview,
         \A r \in rs : run[r].preview \in Previews /\ Over(r)',
         \A r \in Runs \ rs : Over(r)' <=> Over(r)
  PROVE  \E ps \in SUBSET Previews : Promise!Close(ps)
<1> DEFINE ps == {run[r].preview : r \in rs}
<1>1. ps \in SUBSET Previews
  OBVIOUS
<1>2. ASSUME NEW p \in ps PROVE phase[p] = "approved"
  BY PhaseIs DEF RunInv, PromiseInv, OneRunEach, Confirmed
<1>3. ASSUME NEW p \in Previews
      PROVE  closed'[p] = (closed[p] \/ p \in ps)
  <2>1. closed[p] = \E r \in Runs : run[r].preview = p /\ Over(r)
    BY DEF closed, Over
  <2>2. closed'[p] = \E r \in Runs : run'[r].preview = p /\ Over(r)'
    BY DEF closed, Over
  <2>3. CASE p \in ps
    <3>1. PICK r \in rs : run[r].preview = p
      BY <2>3
    <3>2. \E q \in Runs : run'[q].preview = p /\ Over(q)'
      BY <3>1
    <3> QED
      BY <2>2, <2>3, <3>2
  <2>4. CASE p \notin ps
    <3>1. \A r \in Runs : run[r].preview = p => r \notin rs
      BY <2>4
    <3> HIDE DEF ps
    <3>2. (\E r \in Runs : run'[r].preview = p /\ Over(r)')
            <=> (\E r \in Runs : run[r].preview = p /\ Over(r))
      BY <3>1
    <3> QED
      BY <2>1, <2>2, <2>4, <3>2
  <2> QED
    BY <2>3, <2>4
<1> HIDE DEF ps
<1>4. closed' = [p \in Previews |-> closed'[p]]
  BY DEF closed
<1>5. closed' = [p \in Previews |-> closed[p] \/ p \in ps]
  BY <1>3, <1>4
<1>6. Promise!Close(ps)
  BY <1>2, <1>5 DEF Promise!Close
<1> QED
  BY <1>1, <1>6

\* A completed step took effect exactly once.
LEMMA CompletedTook ==
  ASSUME RunInv, PromiseInv, NEW r \in Runs, NEW i \in Steps, step[r][i] = "completed"
  PROVE  run[r].preview \in Previews /\ effect[run[r].preview][i] = 1
<1>1. run[r].preview \in Previews /\ effect[run[r].preview][i] > 0
  BY DEF RunInv, DoneInv, Took
<1>2. effect[run[r].preview][i] \in Nat /\ effect[run[r].preview][i] <= 1
  BY <1>1 DEF RunInv, TypeInv, StoreTypes, PromiseInv, CalledOnce
<1> QED
  BY <1>1, <1>2

\* start_step begins the next change, or nothing.
LEMMA StartBegins ==
  ASSUME RunInv, RunInv', PromiseInv, PromiseInv', Next, NEW r \in Runs, StartStep(r)
  PROVE  \/ UNCHANGED <<phase, begun, effect, closed>>
         \/ \E p \in Previews : Promise!Begin(p)
<1>1. /\ UNCHANGED <<view, run, effect>>
      /\ step' = step \/ may_start_step(r, task[r].index)
  BY DEF StartStep
<1>2. UNCHANGED <<phase, closed>>
  BY <1>1, PhaseKept, ClosedKept DEF Over
<1>3. CASE step' = step
  BY <1>1, <1>2, <1>3, BegunKept
<1>4. CASE step' # step
  <2> DEFINE i == task[r].index  p == run[r].preview
  <2>1. /\ i \in Steps /\ owns(r) /\ ~run[r].stop
        /\ step[r][i] = "queued" /\ step'[r][i] = "running"
        /\ log'[r][i].outcome = "started"
        /\ \A q \in Runs, j \in Steps : q # r \/ j # i => log'[q][j] = log[q][j]
    <3>1. \/ UNCHANGED <<step, log>>
          \/ /\ i \in Steps /\ owns(r)
             /\ step[r][i] = "queued" /\ step'[r][i] = "running"
             /\ log'[r][i] = [outcome |-> "started", final |-> i \notin Bound]
             /\ \A q \in Runs, j \in Steps :
                  q # r \/ j # i => step'[q][j] = step[q][j] /\ log'[q][j] = log[q][j]
      BY StartStepWrites DEF RunInv
    <3>2. ~run[r].stop
      BY <1>1, <1>4 DEF may_start_step
    <3>3. log'[r][i] = [outcome |-> "started", final |-> i \notin Bound]
            => log'[r][i].outcome = "started"
      OBVIOUS
    <3> HIDE DEF i
    <3> QED
      BY <1>4, <3>1, <3>2, <3>3
  <2> HIDE DEF i
  <2>2. p \in Previews
    BY <2>1 DEF PromiseInv, OneRunEach, owns
  <2>3. \A q \in Runs : run[q].preview = p => q = r
    BY <2>2 DEF PromiseInv, OneRunEach
  <2>4. phase[p] = "approved"
    BY <2>2, PhaseIs DEF RunInv, PromiseInv, OneRunEach, Confirmed
  <2>5. ~closed[p]
    BY <2>1, <2>2, <2>3 DEF closed, owns, Settled
  <2>6. \A j \in Steps : log'[r][j].outcome # "none" <=> log[r][j].outcome # "none" \/ j = i
    BY <2>1
  <2>7. ~Begun(r, i)
    BY <2>1, BegunIsUnqueued DEF RunInv
  <2>8. begun[p] \in 0..N /\ \A j \in Steps : Begun(r, j) <=> j <= begun[p]
    BY <2>2, BegunSteps DEF Counted
  <2>9. begun'[p] \in 0..N /\ \A j \in Steps : log'[r][j].outcome # "none" <=> j <= begun'[p]
    <3>1. PICK o \in Previews : o = p
      BY <2>2
    <3>2. run'[r].preview = o
      BY <1>1, <3>1
    <3>3. Counted'
      BY BegunSteps, PTL
    <3>4. begun'[o] \in 0..N /\ \A j \in Steps : Begun(r, j)' <=> j <= begun'[o]
      BY <3>2, <3>3 DEF Counted
    <3> QED
      BY <3>1, <3>4 DEF Begun
  <2>10. begun'[p] = begun[p] + 1 /\ begun[p] < N
    <3> DEFINE b == begun[p]  c == begun'[p]
    <3>1. /\ b \in 0..N /\ c \in 0..N /\ i \in 1..N /\ N \in Nat
          /\ \A j \in 1..N : j <= c <=> j <= b \/ j = i
          /\ ~(i <= b)
      BY <2>1, <2>6, <2>7, <2>8, <2>9, ActionsAssumption DEF Steps, Begun
    <3> HIDE DEF b, c
    <3>2. b + 1 \in 1..N /\ i <= c
      BY <3>1
    <3>3. b + 1 <= c
      BY <3>1, <3>2
    <3>4. ~(b + 2 <= c)
      BY <3>1, <3>2, <3>3
    <3> QED
      BY <3>1, <3>2, <3>3, <3>4 DEF b, c
  <2>11. ASSUME NEW o \in Previews, o # p PROVE begun'[o] = begun[o]
    <3>1. ASSUME NEW j \in Steps
          PROVE  (\E q \in Runs : run'[q].preview = o /\ log'[q][j].outcome # "none")
                   <=> (\E q \in Runs : run[q].preview = o /\ log[q][j].outcome # "none")
      BY <1>1, <2>1, <2>11
    <3> QED
      BY <3>1 DEF begun
  <2>12. begun' = [begun EXCEPT ![p] = @ + 1]
    <3>1. begun = [o \in Previews |-> begun[o]] /\ begun' = [o \in Previews |-> begun'[o]]
      BY DEF begun
    <3> QED
      BY <2>10, <2>11, <3>1
  <2>13. ASSUME NEW j \in 1..begun[p] PROVE effect[p][j] = 1
    <3>1. j \in Steps /\ Begun(r, j)
      BY <2>8, ActionsAssumption DEF Steps
    <3>2. j # i /\ step[r][j] # "queued"
      BY <2>7, <3>1, BegunIsUnqueued DEF RunInv
    <3>3. j < i
      <4>1. ~(i < j)
        BY <2>1, <3>1, <3>2 DEF PromiseInv, InOrder
      <4> QED
        BY <2>1, <3>1, <3>2, <4>1, ActionsAssumption DEF Steps
    <3>4. step[r][j] = "completed"
      BY <3>1, <3>3 DEF PromiseInv, InOrder, i
    <3> QED
      BY <3>1, <3>4, CompletedTook
  <2>14. Promise!Begin(p)
    BY <1>1, <1>2, <2>4, <2>5, <2>10, <2>12, <2>13 DEF Promise!Begin
  <2> QED
    BY <2>2, <2>14
<1> QED
  BY <1>3, <1>4

\* A call, or a request it left behind, takes effect for the last change that has begun.
LEMMA EffectIsTaken ==
  ASSUME RunInv, RunInv', PromiseInv, PromiseInv', Next,
         \/ \E r \in Runs : Call(r)
         \/ \E p \in Previews, i \in Steps : Settle(p, i)
  PROVE  \/ UNCHANGED <<phase, begun, effect, closed>>
         \/ \E p \in Previews : Promise!TakeEffect(p)
<1>1. UNCHANGED <<view, run, step>>
  BY DEF Call, Settle
<1>2. UNCHANGED <<phase, closed>>
  BY <1>1, PhaseKept, ClosedKept DEF Over
<1>3. UNCHANGED begun
  BY <1>1, BegunKept
<1>4. effect \in [Previews -> [Steps -> Nat]]
  BY DEF RunInv, TypeInv, StoreTypes
<1>5. CASE effect' # effect
  <2>1. PICK p \in Previews, i \in Steps :
          /\ effect[p][i] = 0 /\ effect' = [effect EXCEPT ![p][i] = effect[p][i] + 1]
          /\ \E r \in Runs : run[r].preview = p /\ Begun(r, i)
    <3>1. ASSUME NEW r \in Runs, Call(r)
          PROVE  \E p \in Previews, i \in Steps :
                   /\ effect[p][i] = 0 /\ effect' = [effect EXCEPT ![p][i] = effect[p][i] + 1]
                   /\ \E q \in Runs : run[q].preview = p /\ Begun(q, i)
      <4> DEFINE p == run[r].preview  i == task[r].index
      <4>1. p \in Previews /\ i \in Steps /\ Begun(r, i) /\ effect[p][i] = 0
        BY <3>1, Calling DEF PromiseInv
      <4>2. effect' = [effect EXCEPT ![p][i] = effect[p][i] + 1]
        BY <1>4, <1>5, <3>1, <4>1 DEF Call, world
      <4> QED
        BY <4>1, <4>2
    <3>2. ASSUME NEW p \in Previews, NEW i \in Steps, Settle(p, i)
          PROVE  \E o \in Previews, j \in Steps :
                   /\ effect[o][j] = 0 /\ effect' = [effect EXCEPT ![o][j] = effect[o][j] + 1]
                   /\ \E q \in Runs : run[q].preview = o /\ Begun(q, j)
      <4>1. <<p, i>> \in late /\ effect' = [effect EXCEPT ![p][i] = effect[p][i] + 1]
        BY <1>4, <1>5, <3>2 DEF Settle
      <4>2. effect[p][i] = 0
        BY <4>1 DEF PromiseInv, CalledOnce
      <4>3. \E q \in Runs : run[q].preview = p /\ Begun(q, i)
        BY <4>1 DEF RunInv, LoggedInv, EveryEffectIsLogged, Begun
      <4> QED
        BY <4>1, <4>2, <4>3
    <3> QED
      BY <3>1, <3>2
  <2>2. PICK r \in Runs : run[r].preview = p /\ Begun(r, i)
    BY <2>1
  <2>3. begun[p] \in 0..N /\ \A j \in Steps : Begun(r, j) <=> j <= begun[p]
    BY <2>2, BegunSteps DEF Counted
  <2>4. begun[p] = i
    <3>1. N \in Nat /\ i \in 1..N /\ i <= begun[p]
      BY <2>2, <2>3, ActionsAssumption DEF Steps
    <3>2. CASE i < begun[p]
      <4>1. PICK k \in Steps : k = begun[p]
        BY <2>3, <3>1, <3>2 DEF Steps
      <4>2. step[r][k] # "queued" /\ i < k
        BY <2>3, <3>1, <3>2, <4>1, BegunIsUnqueued DEF RunInv, Steps
      <4>3. step[r][i] = "completed"
        BY <4>2 DEF PromiseInv, InOrder
      <4> QED
        BY <2>1, <2>2, <4>3, CompletedTook
    <3> QED
      BY <2>3, <3>1, <3>2
  <2>5. effect' = [effect EXCEPT ![p][begun[p]] = 1] /\ begun[p] > 0
    BY <2>1, <2>4, ActionsAssumption DEF Steps
  <2>6. Promise!TakeEffect(p)
    BY <1>2, <1>3, <2>1, <2>4, <2>5 DEF Promise!TakeEffect
  <2> QED
    BY <2>6
<1> QED
  BY <1>2, <1>3, <1>5

\* Nothing begins in a step that is not start_step.
LEMMA NothingBegins ==
  ASSUME RunInv, RunInv', PromiseInv, Next, ~(\E r \in Runs : StartStep(r))
  PROVE  UNCHANGED begun
<1>1. ASSUME NEW q \in Runs, NEW j \in Steps
      PROVE  step'[q][j] = "queued" <=> step[q][j] = "queued"
  BY <1>1, StepMoves DEF RunInv
<1> QED
  BY <1>1, BegunKept

\* The Stop button, the end of a task and the next start's interrupt_incomplete close
\* runs, or find them as they were.
LEMMA StoppingCloses ==
  ASSUME RunInv, RunInv', PromiseInv, Next,
         \/ InterruptIncomplete
         \/ \E r \in Runs : RequestStop(r) \/ CloseRun(r) \/ AbortRun(r)
  PROVE  \/ UNCHANGED <<phase, begun, effect, closed>>
         \/ \E ps \in SUBSET Previews : Promise!Close(ps)
<1>1. run \in [Runs -> Run] /\ task \in [Runs -> Task] /\ TypeInv
  BY DEF RunInv, TypeInv, StoreTypes, TaskTypes
<1>2. UNCHANGED <<view, effect>>
  BY DEF InterruptIncomplete, RequestStop, CloseRun, AbortRun
<1>3. UNCHANGED phase
  BY <1>2, PhaseKept
<1>4. UNCHANGED begun
  <2>1. CASE InterruptIncomplete
    <3>1. step \in [Runs -> [Steps -> StepStatuses]]
      BY <1>1 DEF TypeInv, StoreTypes
    <3>2. \A q \in Runs, j \in Steps : step'[q][j] = "queued" <=> step[q][j] = "queued"
      BY <2>1, <3>1 DEF InterruptIncomplete
    <3> QED
      BY <3>2, BegunKept
  <2>2. CASE \E r \in Runs : RequestStop(r) \/ CloseRun(r) \/ AbortRun(r)
    <3>1. UNCHANGED step
      BY <2>2 DEF RequestStop, CloseRun, AbortRun
    <3> QED
      BY <3>1, BegunKept
  <2> QED
    BY <2>1, <2>2
<1>5. CASE UNCHANGED run
  BY <1>2, <1>3, <1>4, <1>5, ClosedKept DEF Over
<1>6. ASSUME NEW r \in Runs, \A q \in Runs \ {r} : run'[q] = run[q],
             run'[r].preview = run[r].preview, run[r].status # "absent", Over(r)'
      PROVE  \E ps \in SUBSET Previews : Promise!Close(ps)
  <2>1. run[r].preview \in Previews
    BY <1>6 DEF PromiseInv, OneRunEach
  <2>2. {r} \in SUBSET Runs
    OBVIOUS
  <2>3. \A q \in Runs : run'[q].preview = run[q].preview
    BY <1>6
  <2>4. \A q \in {r} : run[q].preview \in Previews /\ Over(q)'
    BY <1>6, <2>1
  <2>5. \A q \in Runs \ {r} : Over(q)' <=> Over(q)
    BY <1>6 DEF Over
  <2> QED
    BY <1>2, <1>3, <1>4, <2>2, <2>3, <2>4, <2>5, EndingCloses
<1>7. ASSUME NEW r \in Runs, RequestStop(r)
      PROVE  \E ps \in SUBSET Previews : Promise!Close(ps)
  <2>1. /\ \A q \in Runs \ {r} : run'[q] = run[q]
        /\ run'[r].preview = run[r].preview /\ run[r].status # "absent" /\ run'[r].stop
    BY <1>1, <1>7 DEF RequestStop, Run
  <2> QED
    BY <1>6, <2>1 DEF Over
<1>8. ASSUME NEW r \in Runs, NEW status \in Settled, finish_run(r, status)
      PROVE  UNCHANGED run \/ \E ps \in SUBSET Previews : Promise!Close(ps)
  <2>1. CASE owns(r)
    <3>1. /\ \A q \in Runs \ {r} : run'[q] = run[q]
          /\ run'[r].preview = run[r].preview /\ run'[r].status = status
          /\ run[r].status # "absent"
      BY <1>1, <1>8, <2>1, FinishRunTypes DEF owns
    <3> QED
      BY <1>6, <3>1 DEF Over
  <2>2. CASE ~owns(r)
    BY <1>8, <2>2 DEF finish_run
  <2> QED
    BY <2>1, <2>2
<1>9. ASSUME NEW r \in Runs, CloseRun(r) \/ AbortRun(r)
      PROVE  UNCHANGED run \/ \E ps \in SUBSET Previews : Promise!Close(ps)
  <2>1. task[r].outcome \in Settled /\ "failed" \in Settled
    BY <1>1 DEF Task, Settled
  <2> QED
    BY <1>8, <1>9, <2>1 DEF CloseRun, AbortRun
<1>10. CASE InterruptIncomplete
  <2> DEFINE rs == {r \in Runs : incomplete(r)}
  <2>1. \A r \in Runs : run'[r] = IF r \in rs
          THEN [run[r] EXCEPT !.status = "interrupted", !.leased = FALSE] ELSE run[r]
    BY <1>10 DEF InterruptIncomplete
  <2>2. \A r \in rs : run[r].preview \in Previews /\ run[r] \in Run
    BY <1>1 DEF incomplete, PromiseInv, OneRunEach
  <2>3. rs \in SUBSET Runs
    OBVIOUS
  <2> HIDE DEF rs
  <2>4. \A r \in Runs : run'[r].preview = run[r].preview
    BY <2>1, <2>2 DEF Run
  <2>5. \A r \in rs : run[r].preview \in Previews /\ Over(r)'
    BY <2>1, <2>2, <2>3 DEF Run, Over, Settled
  <2>6. \A r \in Runs \ rs : Over(r)' <=> Over(r)
    BY <2>1 DEF Over
  <2> QED
    BY <1>2, <1>3, <1>4, <2>3, <2>4, <2>5, <2>6, EndingCloses
<1> QED
  BY <1>5, <1>7, <1>9, <1>10

\* Showing a preview approves nothing.
LEMMA OfferKeeps ==
  ASSUME TypeInv, TypeInv', OneRunEach, NEW p \in Previews, Offer(p)
  PROVE  UNCHANGED phase
<1>1. /\ view \in [Previews -> View]
      /\ view[p].state = "none" /\ view[p].expired = FALSE
      /\ view' = [view EXCEPT ![p] = [NoView EXCEPT !.state = "open"]]
  BY DEF TypeInv, StoreTypes, OneRunEach, Offer, View
<1>2. /\ view'[p].state = "open" /\ view'[p].expired = FALSE
      /\ \A q \in Previews : q # p => view'[q] = view[q]
  BY <1>1 DEF NoView
<1>3. phase[p] = "offered" /\ phase'[p] = "offered"
  BY <1>1, <1>2 DEF phase
<1>4. \A q \in Previews : q # p => phase'[q] = phase[q]
  BY <1>2, PhaseIs
<1> QED
  BY <1>3, <1>4, PhaseFunction

\* Taking on a confirmed preview ends nothing.
LEMMA SubmitKeeps ==
  ASSUME RunInv, PromiseInv, NEW p \in Previews, SubmitStep(p)
  PROVE  UNCHANGED <<phase, effect, closed>>
<1>1. view \in [Previews -> View] /\ TypeInv /\ UnstoredUnnamed /\ OneRunEach
  BY DEF RunInv, TypeInv, StoreTypes, PromiseInv
<1>2. view' = [view EXCEPT ![p].submitting = FALSE] /\ UNCHANGED effect
  BY DEF SubmitStep, SubmitFails, Submit
<1>3. UNCHANGED phase
  <2>1. \A q \in Previews : /\ view'[q].state = view[q].state
                            /\ view'[q].expired = view[q].expired
    BY <1>1, <1>2 DEF View
  <2> QED
    BY <2>1, PhaseKept
<1>4. CASE SubmitFails(p)
  <2>1. UNCHANGED run
    BY <1>4 DEF SubmitFails
  <2> QED
    BY <1>2, <1>3, <2>1, ClosedKept DEF Over
<1>5. ASSUME NEW r \in Runs, Submit(p, r) PROVE UNCHANGED closed
  <2>1. /\ run[r].preview = NoPreview /\ NoPreview \notin Previews
        /\ run'[r].status = "queued" /\ ~run'[r].stop
        /\ \A q \in Runs \ {r} : run'[q] = run[q]
    BY <1>1, <1>5, SubmitNames, ActionsAssumption
  <2>2. ~Over(r)'
    BY <2>1 DEF Over, Settled
  <2>3. ASSUME NEW o \in Previews
        PROVE  (\E q \in Runs : run'[q].preview = o /\ Over(q)')
                 <=> (\E q \in Runs : run[q].preview = o /\ Over(q))
    <3>1. \A q \in Runs : (run'[q].preview = o /\ Over(q)') <=> (run[q].preview = o /\ Over(q))
      <4>1. ASSUME NEW q \in Runs
            PROVE (run'[q].preview = o /\ Over(q)') <=> (run[q].preview = o /\ Over(q))
        <5>1. CASE q = r
          BY <2>1, <2>2, <5>1
        <5>2. CASE q # r
          BY <2>1, <5>2 DEF Over
        <5> QED
          BY <5>1, <5>2
      <4> QED
        BY <4>1
    <3> QED
      BY <3>1
  <2> QED
    BY <2>3, ClosedKept
<1> QED
  BY <1>2, <1>3, <1>4, <1>5 DEF SubmitStep

\* What else a task, recovery and a restart do changes nothing a member relies on.
LEMMA WorkingKeeps ==
  ASSUME RunInv, PromiseInv, RecoverStep \/ Restart \/ (\E r \in Runs : TaskStep(r)),
         ~InterruptIncomplete, ~(\E r \in Runs : CloseRun(r) \/ AbortRun(r) \/ Call(r))
  PROVE  UNCHANGED <<phase, effect, closed>>
<1>1. run \in [Runs -> Run]
  BY DEF RunInv, TypeInv, StoreTypes
<1>2. UNCHANGED <<view, effect>>
  BY DEF RecoverStep, RecoverRaises, Ready, ReportInterrupted, MarkReported, Restart,
         TaskStep, Claim, ClaimRaises, ShowProgress, NextStep, StartStep, CheckStep, Verify,
         RecordCompleted, JudgeStep, RecordFailed, PostReport
<1>3. ASSUME NEW q \in Runs
      PROVE  run'[q].preview = run[q].preview /\ (Over(q)' <=> Over(q))
  <2>1. CASE UNCHANGED run
    BY <2>1 DEF Over
  <2>2. ASSUME NEW r \in Runs, Claim(r) \/ MarkReported(r)
        PROVE  /\ run'[q].preview = run[q].preview /\ run'[q].stop = run[q].stop
               /\ run'[q].status \in Settled <=> run[q].status \in Settled
    BY <1>1, <2>2 DEF Claim, MarkReported, Run, Settled
  <2> QED
    BY <2>1, <2>2
    DEF RecoverStep, RecoverRaises, Ready, ReportInterrupted, Restart, Over,
        TaskStep, ClaimRaises, ShowProgress, NextStep, StartStep, CheckStep, Verify,
        RecordCompleted, JudgeStep, RecordFailed, PostReport
<1> QED
  BY <1>2, <1>3, PhaseKept, ClosedKept

\* Every step of the system is one of CheckedChange, or none.
LEMMA NextImplements ==
  ASSUME RunInv, RunInv', PromiseInv, PromiseInv', [Next]_vars
  PROVE  [Promise!Next]_(Promise!vars)
<1>1. SUFFICES ASSUME Next
               PROVE  \/ UNCHANGED <<phase, begun, effect, closed>>
                      \/ \E p \in Previews : \/ Promise!Approve(p) \/ Promise!Begin(p)
                                             \/ Promise!TakeEffect(p)
                      \/ \E ps \in SUBSET Previews : Promise!Withdraw(ps) \/ Promise!Close(ps)
  <2>1. CASE UNCHANGED vars
    <3>1. UNCHANGED <<view, run, log, effect>>
      BY <2>1 DEF vars
    <3>2. UNCHANGED <<phase, begun, closed>>
      BY <3>1 DEF phase, begun, closed
    <3> QED
      BY <3>1, <3>2 DEF Promise!vars
  <2> QED
    BY <2>1 DEF Promise!Next, Promise!vars
<1>2. CASE \E r \in Runs : StartStep(r)
  BY <1>1, <1>2, StartBegins
<1>3. CASE (\E r \in Runs : Call(r)) \/ (\E p \in Previews, i \in Steps : Settle(p, i))
  BY <1>1, <1>3, EffectIsTaken
<1>4. CASE InterruptIncomplete \/ \E r \in Runs : RequestStop(r) \/ CloseRun(r) \/ AbortRun(r)
  BY <1>1, <1>4, StoppingCloses
<1>5. CASE ~(\E r \in Runs : StartStep(r))
  <2>1. UNCHANGED begun
    BY <1>1, <1>5, NothingBegins
  <2>2. TypeInv /\ TypeInv' /\ OneRunEach
    BY DEF RunInv, PromiseInv
  <2>3. ASSUME NEW p \in Previews, Offer(p) PROVE UNCHANGED <<phase, begun, effect, closed>>
    <3>1. UNCHANGED <<run, effect>>
      BY <2>3 DEF Offer
    <3> QED
      BY <2>1, <2>2, <2>3, <3>1, OfferKeeps, ClosedKept DEF Over
  <2>4. ASSUME NEW p \in Previews, Confirm(p) PROVE Promise!Approve(p)
    <3>1. UNCHANGED run
      BY <2>4 DEF Confirm
    <3>2. UNCHANGED closed
      BY <3>1, ClosedKept DEF Over
    <3> QED
      BY <2>1, <2>2, <2>4, <3>2, ConfirmApproves
  <2>5. ASSUME \/ \E p \in Previews : Withdraw(p) \/ Expire(p)
               \/ Crash \/ Shutdown
        PROVE  \E ps \in SUBSET Previews : Promise!Withdraw(ps)
    <3>1. UNCHANGED run
      BY <2>5 DEF Withdraw, Expire, Crash, Shutdown
    <3>2. UNCHANGED closed
      BY <3>1, ClosedKept DEF Over
    <3> QED
      BY <2>1, <2>2, <2>5, <3>2, EndingWithdraws
  <2>6. CASE MemberStep
    BY <1>1, <1>4, <2>3, <2>4, <2>5, <2>6 DEF MemberStep
  <2>7. CASE \E p \in Previews : SubmitStep(p)
    BY <2>1, <2>7, SubmitKeeps
  <2>8. CASE RecoverStep \/ Restart \/ (\E r \in Runs : TaskStep(r))
    BY <1>1, <1>3, <1>4, <2>1, <2>8, WorkingKeeps
  <2> QED
    BY <1>1, <1>3, <2>5, <2>6, <2>7, <2>8 DEF Next
<1> QED
  BY <1>1, <1>2, <1>3, <1>4, <1>5

\* The first state is CheckedChange's.
LEMMA InitImplements == Init => RunInv /\ PromiseInv /\ Promise!Init
<1> SUFFICES ASSUME Init PROVE RunInv /\ PromiseInv /\ Promise!Init
  OBVIOUS
<1>1. TypeInv
  BY InitTypeInv
<1>2. UnstoredUnnamed /\ LoggedInv /\ LogFollowsSteps
  BY DEF Init, UnstoredUnnamed, LoggedInv, EveryEffectIsLogged, NoRun, NoTask,
         LogFollowsSteps, NoLog
<1>3. DoneInv
  BY DEF Init, DoneInv, NoTask
<1>4. PromiseInv
  <2>1. OneRunEach
    BY ActionsAssumption DEF Init, OneRunEach, NoRun, NoView
  <2>2. ASSUME NEW r \in Runs PROVE InOrder(r)
    BY ActionsAssumption DEF Init, InOrder, NoTask, Steps
  <2>3. CalledOnce
    BY ActionsAssumption DEF Init, CalledOnce, NoRun
  <2> QED
    BY <2>1, <2>2, <2>3 DEF PromiseInv
<1>5. phase = [p \in Previews |-> "offered"] /\ closed = [p \in Previews |-> FALSE]
  BY DEF Init, phase, closed, NoView, NoRun, Settled
<1>6. begun = [p \in Previews |-> 0]
  <2>1. ASSUME NEW p \in Previews
        PROVE  {i \in Steps : \E r \in Runs : run[r].preview = p /\ log[r][i].outcome # "none"}
                 = {}
    BY DEF Init, NoLog
  <2> QED
    BY <2>1, FS_EmptySet DEF begun
<1>7. effect = [p \in Previews |-> [i \in 1..N |-> 0]]
  BY DEF Init, Steps
<1> QED
  BY <1>1, <1>2, <1>3, <1>4, <1>5, <1>6, <1>7 DEF RunInv, Promise!Init

\* What the theorems above found of the store and of the previews stays true.
LEMMA NextRunInv == RunInv /\ [Next]_vars => RunInv'
<1>1. TypeInv /\ UnstoredUnnamed /\ [Next]_vars => UnstoredUnnamed'
  BY NamesKept DEF vars, UnstoredUnnamed
<1> QED
  BY <1>1, NextTypeInv, NextLogFollows, NextDone, NextLogged DEF RunInv

LEMMA NextPromiseInv ==
  ASSUME RunInv, PromiseInv, [Next]_vars
  PROVE  PromiseInv'
<1>1. CASE UNCHANGED vars
  BY <1>1 DEF vars, PromiseInv, OneRunEach, Confirmed, InOrder, CalledOnce, Uncalled
<1>2. CASE Next
  <2>1. TypeInv /\ UnstoredUnnamed /\ OneRunEach /\ CalledOnce /\ \A r \in Runs : InOrder(r)
    BY DEF RunInv, PromiseInv
  <2>2. OneRunEach'
    BY <1>2, <2>1, NextOneRun
  <2>3. CalledOnce'
    BY <1>2, <2>1, NextCalledOnce
  <2>4. ASSUME NEW r \in Runs PROVE InOrder(r)'
    BY <1>2, <2>1, NextInOrder
  <2> QED
    BY <2>2, <2>3, <2>4 DEF PromiseInv
<1> QED
  BY <1>1, <1>2

\* A preview's changes happen as CheckedChange says, whatever is clicked, expires, crashes
\* or answers late: confirmed first, begun in order, each only when all earlier ones took
\* effect, each at most once, and none begun after a stop or the end of the run.
THEOREM PromiseKept == Spec => ImplementsCheckedChange
<1>1. RunInv /\ [Next]_vars => RunInv'
  BY NextRunInv
<1>2. RunInv /\ PromiseInv /\ [Next]_vars => PromiseInv'
  BY NextPromiseInv
<1>3. RunInv /\ RunInv' /\ PromiseInv /\ PromiseInv' /\ [Next]_vars
        => [Promise!Next]_(Promise!vars)
  BY NextImplements
<1> QED
  BY <1>1, <1>2, <1>3, InitImplements, PTL DEF Spec, ImplementsCheckedChange, Promise!Spec

(***************************************************************************)
(* "Not done" is said of changes that did not take effect, unless a change  *)
(* is refused after it was made, by its own call or by verify.              *)
(***************************************************************************)

\* What is done, or may still be done, is not refused: a call is refused only when it left the
\* world alone, and the verify callback of a step that answered raises nothing but a doubt.
Trusting == \A r \in Runs :
  task'[r].stage = "failing" /\ task'[r].error # "unsure" =>
    ~At(r, "verifying") /\ (At(r, "calling") => UNCHANGED world)

Refusals == {"refused", "forbidden"}
Blamed   == {"failed", "permission"}
Leaving  == {"closing", "aborting", "reporting"}

\* Step i of the preview of run r took no effect, and no request for it is under way.
Untouched(r, i) ==
  run[r].preview \in Previews =>
    effect[run[r].preview][i] = 0 /\ <<run[r].preview, i>> \notin late

\* A step that is blamed, by its row, by its task or in a report, is untouched, and so is
\* the step whose refusal is about to be judged; and no task calls it again.
RefusedInv ==
  \A r \in Runs :
    /\ r \in boot.todo => run[r].status # "absent"
    /\ told[r] # {} => task[r].stage = "none" /\ run[r].status # "absent"
    /\ \A i \in Steps :
         /\ step[r][i] \in Blamed => task[r].stage \in Leaving \cup {"none"}
         /\ task[r].memo[i] \in Blamed =>
              task[r].stage \in Leaving \/ (task[r].stage = "judged" /\ task[r].index = i)
         /\ \/ <<i, "not done">> \in told[r]
            \/ step[r][i] \in Blamed \/ task[r].memo[i] \in Blamed
            \/ task[r].stage = "failing" /\ task[r].error \in Refusals /\ task[r].index = i
            => Untouched(r, i)

\* The tasks of runs that neither take a step nor are submitted.
LEMMA TaskQuiet ==
  ASSUME TypeInv, Next, NEW q \in Runs, ~TaskStep(q), ~(\E p \in Previews : Submit(p, q))
  PROVE  \/ task'[q] = task[q]
         \/ task'[q] = NoTask
         \/ /\ task[q].stage \in Running /\ task'[q].stage = "reporting"
            /\ task'[q].memo = task[q].memo
<1>1. task \in [Runs -> Task]
  BY DEF TypeInv, TaskTypes
<1>2. CASE UNCHANGED task
  BY <1>2
<1>3. CASE task' = [r \in Runs |-> NoTask]
  BY <1>3
<1>4. CASE Shutdown
  BY <1>1, <1>4 DEF Shutdown, Task
<1>5. ASSUME NEW p \in Previews, NEW r \in Runs, Submit(p, r)
      PROVE  task'[q] = task[q]
  BY <1>1, <1>5 DEF Submit
<1>6. CASE MemberStep
  BY <1>2, <1>6 DEF MemberStep, Offer, Confirm, Withdraw, Expire, RequestStop
<1>7. CASE RecoverStep
  BY <1>2, <1>7 DEF RecoverStep, InterruptIncomplete, RecoverRaises, Ready,
                    ReportInterrupted, MarkReported
<1>8. CASE Crash \/ Restart
  BY <1>3, <1>8 DEF Crash, Restart
<1>9. CASE \E p \in Previews : SubmitStep(p)
  BY <1>2, <1>5, <1>9 DEF SubmitStep, SubmitFails
<1>10. CASE \E r \in Runs : TaskStep(r)
  BY <1>10, TaskStepOthers
<1>11. CASE \E p \in Previews, i \in Steps : Settle(p, i)
  BY <1>2, <1>11 DEF Settle
<1> QED
  BY <1>4, <1>6, <1>7, <1>8, <1>9, <1>10, <1>11 DEF Next

\* Only a call touches a step, and no other run calls the steps of this one's preview.
LEMMA UntouchedStays ==
  ASSUME RunInv, OneRunEach, CalledOnce, Next, NEW r \in Runs, NEW i \in Steps, Untouched(r, i),
         task[r].stage = "calling" => task[r].index # i,
         ~(\E p \in Previews : Submit(p, r))
  PROVE  Untouched(r, i)'
<1> SUFFICES ASSUME run'[r].preview \in Previews
             PROVE  effect'[run'[r].preview][i] = 0 /\ <<run'[r].preview, i>> \notin late'
  BY DEF Untouched
<1>1. TypeInv
  BY DEF RunInv
<1>2. PICK p \in Previews : p = run'[r].preview /\ p = run[r].preview
  BY <1>1, RunMoves
<1>3. effect[p][i] = 0 /\ <<p, i>> \notin late
  BY <1>2 DEF Untouched
<1>4. ASSUME NEW q \in Runs, Call(q), run[q].preview = p, task[q].index = i  PROVE FALSE
  <2>1. q = r
    BY <1>2, <1>4 DEF OneRunEach
  <2> QED
    BY <1>4, <2>1 DEF Call, At
<1>5. effect'[p][i] = 0 /\ <<p, i>> \notin late'
  BY <1>3, <1>4, WorldMoves
<1> QED
  BY <1>2, <1>5

\* A failure of a task carries its error.
LEMMA FailsWith ==
  ASSUME task \in [Runs -> Task], NEW r \in Runs, NEW e \in Errors, Fails(r, e)
  PROVE  TaskIs(r, "failing", task[r].index, task[r].memo) /\ task'[r].error = e
<1>1. task'[r].error = e
  BY DEF Fails, Task
<1> QED
  BY <1>1, TaskMoves

\* What a step of a task makes of the blame: it is laid where a refusal was judged, and the
\* task leaves the run with it.
LEMMA TaskBlames ==
  ASSUME RunInv, OneRunEach, CalledOnce, RefusedInv, Trusting, NEW r \in Runs, TaskStep(r)
  PROVE  /\ \A j \in Steps :
              /\ step'[r][j] \in Blamed =>
                   /\ task'[r].stage \in Leaving \cup {"none"}
                   /\ step[r][j] \in Blamed \/ task[r].memo[j] \in Blamed
              /\ task'[r].memo[j] \in Blamed =>
                   /\ task'[r].stage \in Leaving \/ (task'[r].stage = "judged" /\ task'[r].index = j)
                   /\ \/ task[r].memo[j] \in Blamed
                      \/ /\ task[r].stage = "failing" /\ task[r].error \in Refusals
                         /\ j = task[r].index
         /\ \A j \in Steps :
              task'[r].stage = "failing" /\ task'[r].error \in Refusals /\ task'[r].index = j
                => Untouched(r, j)'
<1> DEFINE i == task[r].index
           memo == task[r].memo
           Rows == \A j \in Steps : step'[r][j] \in Blamed =>
                     /\ task'[r].stage \in Leaving \cup {"none"}
                     /\ step[r][j] \in Blamed \/ memo[j] \in Blamed
           Memos == \A j \in Steps : task'[r].memo[j] \in Blamed =>
                      /\ task'[r].stage \in Leaving \/ (task'[r].stage = "judged" /\ task'[r].index = j)
                      /\ \/ memo[j] \in Blamed
                         \/ task[r].stage = "failing" /\ task[r].error \in Refusals /\ j = i
           Judging == \A j \in Steps :
             task'[r].stage = "failing" /\ task'[r].error \in Refusals /\ task'[r].index = j
               => Untouched(r, j)'
<1> SUFFICES Rows /\ Memos /\ Judging
  OBVIOUS
<1>1. /\ TypeInv /\ task \in [Runs -> Task] /\ task[r] \in Task
      /\ task[r].stage \in Stepping => i \in Steps
      /\ memo \in [Steps -> {"none"} \cup Outcomes]
      /\ step \in [Runs -> [Steps -> StepStatuses]]
  BY DEF RunInv, TypeInv, TaskTypes, StoreTypes, Task
<1>2. \A j \in Steps :
        /\ step[r][j] \in Blamed => task[r].stage \in Leaving \cup {"none"}
        /\ memo[j] \in Blamed => task[r].stage \in Leaving \/ (task[r].stage = "judged" /\ i = j)
  BY DEF RefusedInv
<1>3. \A j \in Steps : NoTask.memo[j] \notin Blamed
  BY DEF NoTask, Blamed
<1>4. /\ {"progress", "between", "starting", "checking", "calling", "verifying", "recording",
          "closing", "aborting", "reporting"} \subseteq Stages
      /\ {"refused", "unsure"} \subseteq Errors
  BY DEF Stages, Errors
<1> HIDE DEF i, memo
\* Before the task judges or leaves, nothing is blamed.
<1>5. ASSUME task[r].stage \notin Leaving \cup {"none", "judged", "failing"},
             \A j \in Steps : step'[r][j] = step[r][j] \/ step'[r][j] = "running",
             task'[r].memo = memo \/ task'[r].memo = NoTask.memo
      PROVE  Rows /\ Memos
  BY <1>2, <1>3, <1>5 DEF Blamed
<1>6. ASSUME NEW s \in Stages \ {"failing"}, Goes(r, s)
      PROVE  task'[r].memo = memo /\ Judging /\ task'[r].stage = s
  BY <1>1, <1>6, TaskMoves DEF TaskIs, memo
<1>7. ASSUME Closes(r, "stopped")
      PROVE  task'[r].memo = memo /\ Judging /\ task'[r].stage = "closing"
  BY <1>1, <1>7, TaskMoves DEF TaskIs, memo
<1>8. ASSUME task' = [task EXCEPT ![r] = NoTask]
      PROVE  task'[r].memo = NoTask.memo /\ Judging /\ task'[r].stage = "none"
  BY <1>1, <1>8, TaskMoves DEF TaskIs
<1>9. ASSUME NEW e \in Errors, Fails(r, e),
             e \in Refusals => i \in Steps /\ Untouched(r, i) /\ UNCHANGED <<run, effect, late>>
      PROVE  task'[r].memo = memo /\ Judging
  <2>1. /\ task'[r].memo = memo /\ task'[r].index = i /\ task'[r].error = e
    BY <1>1, <1>9, FailsWith DEF TaskIs, i, memo
  <2> QED
    BY <1>9, <2>1 DEF Untouched
<1>10. CASE Claim(r) \/ ClaimRaises(r) \/ ShowProgress(r) \/ NextStep(r)
  <2>1. task[r].stage \notin Leaving \cup {"none", "judged", "failing"} /\ UNCHANGED step
    BY <1>10 DEF Claim, ClaimRaises, ShowProgress, NextStep, At, Leaving
  <2>2. (task'[r].memo = memo \/ task'[r].memo = NoTask.memo) /\ Judging
    <3>1. CASE Claim(r)
      BY <1>4, <1>6, <1>8, <3>1 DEF Claim
    <3>2. CASE ClaimRaises(r)
      BY <1>8, <3>2 DEF ClaimRaises
    <3>3. CASE ShowProgress(r)
      BY <1>4, <1>6, <3>3 DEF ShowProgress
    <3>4. CASE NextStep(r)
      BY <1>4, <1>6, <1>7, <3>4 DEF NextStep
    <3> QED
      BY <1>10, <3>1, <3>2, <3>3, <3>4
  <2> QED
    BY <1>5, <2>1, <2>2
<1>11. CASE StartStep(r)
  <2>1. task[r].stage \notin Leaving \cup {"none", "judged", "failing"}
    BY <1>11 DEF StartStep, At, Leaving
  <2>2. \A j \in Steps : step'[r][j] = step[r][j] \/ step'[r][j] = "running"
    BY <1>1, <1>11, StartStepWrites
  <2>3. task'[r].memo = memo /\ Judging
    BY <1>4, <1>6, <1>7, <1>11 DEF StartStep
  <2> QED
    BY <1>5, <2>1, <2>2, <2>3
<1>12. CASE CheckStep(r)
  <2>1. task[r].stage = "checking" /\ i \in Steps /\ UNCHANGED <<step, run, effect, late>>
    BY <1>1, <1>12 DEF CheckStep, At, Stepping
  <2>2. Uncalled(r, i)
    BY <2>1 DEF Uncalled, i
  <2>3. Untouched(r, i)
    BY <2>1, <2>2 DEF Untouched, CalledOnce
  <2>4. task'[r].memo = memo /\ Judging
    <3>1. Goes(r, "calling") \/ \E e \in Errors : Fails(r, e)
      BY <1>4, <1>12 DEF CheckStep
    <3> QED
      BY <1>4, <1>6, <1>9, <2>1, <2>3, <3>1
  <2> QED
    BY <1>5, <2>1, <2>4 DEF Leaving
<1>13. CASE Call(r)
  <2>1. task[r].stage = "calling" /\ i \in Steps /\ UNCHANGED <<step, run>>
    BY <1>1, <1>13 DEF Call, At, Stepping
  <2>2. effect[run[r].preview][i] = 0 /\ <<run[r].preview, i>> \notin late
    BY <1>13, Calling DEF i
  <2>3. Untouched(r, i)
    BY <2>2 DEF Untouched
  <2>4. Goes(r, "verifying") \/ \E e \in Errors : Fails(r, e)
    BY <1>13 DEF Call, Errors
  <2>5. task'[r].memo = memo /\ Judging
    <3>1. ASSUME NEW e \in Errors, Fails(r, e), e \in Refusals
          PROVE  UNCHANGED <<effect, late>>
      <4>1. task'[r].error = e /\ task'[r].stage = "failing"
        BY <1>1, <3>1, FailsWith DEF TaskIs
      <4> QED
        BY <2>1, <3>1, <4>1 DEF Trusting, At, Refusals, world
    <3> QED
      BY <1>4, <1>6, <1>9, <2>1, <2>3, <2>4, <3>1
  <2> QED
    BY <1>5, <2>1, <2>5 DEF Leaving
<1>14. CASE Verify(r)
  <2>1. task[r].stage = "verifying" /\ UNCHANGED step
    BY <1>14 DEF Verify, At
  <2>2. task'[r].stage = "failing" => task'[r].error \notin Refusals
    BY <2>1 DEF Trusting, At, Refusals
  <2>3. task'[r].memo = memo
    <3>1. Goes(r, "recording") \/ \E e \in Errors : Fails(r, e)
      BY <1>14 DEF Verify
    <3> QED
      BY <1>1, <1>4, <3>1, TaskMoves DEF TaskIs, memo
  <2> QED
    BY <1>5, <2>1, <2>2, <2>3 DEF Leaving
<1>15. CASE RecordCompleted(r) \/ RecordFailed(r)
  <2>1. PICK status \in Outcomes :
          /\ i \in Steps /\ FinishStep(r, status)
          /\ (task[r].stage = "recording" /\ status = "completed") \/ status = memo[i]
    BY <1>1, <1>15, Recorded DEF i, memo
  <2>2. task[r].stage \in {"recording", "judged"}
    BY <1>15 DEF RecordCompleted, RecordFailed, At
  <2>3. \A j \in Steps : step[r][j] \notin Blamed /\ (memo[j] \in Blamed => j = i /\ status = memo[i])
    BY <1>2, <2>1, <2>2 DEF Leaving
  <2>4. \/ /\ step' = [step EXCEPT ![r][i] = status]
           /\ \/ status = "completed" /\ TaskIs(r, "between", i + 1, memo)
              \/ status # "completed" /\ TaskIs(r, "closing", i, memo)
        \/ UNCHANGED step /\ TaskIs(r, "closing", i, [memo EXCEPT ![i] = "uncertain"])
    BY <1>1, <2>1, FinishMoves DEF i, memo
  <2>5. CASE /\ step' = [step EXCEPT ![r][i] = status]
             /\ \/ status = "completed" /\ TaskIs(r, "between", i + 1, memo)
                \/ status # "completed" /\ TaskIs(r, "closing", i, memo)
    <3>1. \A j \in Steps : step'[r][j] = IF j = i THEN status ELSE step[r][j]
      BY <1>1, <2>1, <2>5
    <3>2. status \in Blamed => status = memo[i]
      BY <2>1 DEF Blamed
    <3>3. task'[r].memo = memo /\ (status = "completed" \/ task'[r].stage = "closing")
          /\ task'[r].stage \in {"between", "closing"}
      BY <2>5 DEF TaskIs
    <3>4. Rows
      BY <2>1, <2>3, <3>1, <3>2, <3>3 DEF Blamed, Leaving
    <3>5. Memos
      BY <2>3, <3>3 DEF Blamed, Leaving
    <3> QED
      BY <3>3, <3>4, <3>5
  <2>6. CASE UNCHANGED step /\ TaskIs(r, "closing", i, [memo EXCEPT ![i] = "uncertain"])
    <3>1. task'[r].memo = [memo EXCEPT ![i] = "uncertain"] /\ task'[r].stage = "closing"
      BY <2>6 DEF TaskIs
    <3>2. \A j \in Steps : task'[r].memo[j] \in Blamed => memo[j] \in Blamed
      BY <1>1, <3>1 DEF Blamed
    <3> QED
      BY <2>3, <2>6, <3>1, <3>2 DEF Leaving
  <2> QED
    BY <2>4, <2>5, <2>6
<1>16. CASE JudgeStep(r)
  <2>1. task[r].stage = "failing" /\ i \in Steps /\ UNCHANGED step
    BY <1>1, <1>16 DEF JudgeStep, At, Stepping
  <2>2. PICK status \in judged(task[r].error, effect[run[r].preview][i] > 0) :
          TaskIs(r, "judged", i, [memo EXCEPT ![i] = status])
    BY <1>1, <1>16, JudgeMoves DEF i, memo
  <2>3. status \in Blamed => task[r].error \in Refusals
    BY <2>2 DEF judged, Blamed, Refusals
  <2>4. /\ task'[r].stage = "judged" /\ task'[r].index = i
        /\ task'[r].memo = [memo EXCEPT ![i] = status]
    BY <2>2 DEF TaskIs
  <2>5. \A j \in Steps : step[r][j] \notin Blamed /\ memo[j] \notin Blamed
    BY <1>2, <2>1 DEF Leaving
  <2>6. \A j \in Steps : task'[r].memo[j] \in Blamed => j = i /\ status \in Blamed
    BY <1>1, <2>1, <2>4, <2>5
  <2> QED
    BY <2>1, <2>3, <2>4, <2>5, <2>6
<1>17. CASE CloseRun(r) \/ AbortRun(r)
  <2>1. UNCHANGED step
    BY <1>17 DEF CloseRun, AbortRun
  <2>2. \E s \in {"reporting", "aborting"} : Goes(r, s)
    BY <1>17 DEF CloseRun, AbortRun
  <2>3. task'[r].memo = memo /\ Judging /\ task'[r].stage \in Leaving
    BY <1>4, <1>6, <2>2 DEF Leaving
  <2> QED
    BY <1>17, <1>2, <2>1, <2>3
<1>18. CASE PostReport(r)
  <2>1. UNCHANGED step /\ task' = [task EXCEPT ![r] = NoTask]
    BY <1>18 DEF PostReport
  <2> QED
    BY <1>3, <1>8, <2>1
<1> QED
  BY <1>10, <1>11, <1>12, <1>13, <1>14, <1>15, <1>16, <1>17, <1>18 DEF TaskStep

\* A report says "not done" of steps that are untouched, and comes when no task works for
\* its run any more.
LEMMA ToldNotDone ==
  ASSUME RunInv, CalledOnce, MatchInv, RefusedInv, Next, NEW q \in Runs
  PROVE  /\ told'[q] # {} => \/ told[q] # {}
                             \/ task'[q].stage = "none" /\ run'[q] = run[q] /\ run[q].status # "absent"
         /\ \A j \in Steps : <<j, "not done">> \in told'[q] => Untouched(q, j)
<1> DEFINE Goal == /\ told'[q] # {} =>
                        \/ told[q] # {}
                        \/ task'[q].stage = "none" /\ run'[q] = run[q] /\ run[q].status # "absent"
                   /\ \A j \in Steps : <<j, "not done">> \in told'[q] => Untouched(q, j)
<1> SUFFICES Goal
  OBVIOUS
<1>1. /\ told \in [Runs -> SUBSET (Steps \X Verdicts)] /\ TypeInv
      /\ task \in [Runs -> Task] /\ step \in [Runs -> [Steps -> StepStatuses]]
      /\ \A r \in Runs : task[r].memo \in [Steps -> {"none"} \cup Outcomes]
  BY DEF RunInv, TypeInv, StoreTypes, TaskTypes, Task
<1>2. ASSUME told'[q] = told[q] PROVE Goal
  BY <1>2 DEF RefusedInv
<1>3. CASE UNCHANGED told
  BY <1>2, <1>3
<1>4. \A j \in Steps : step[q][j] \in Blamed \cup {"queued"} => Untouched(q, j)
  BY DEF RefusedInv, CalledOnce, Uncalled, Untouched
<1>5. ASSUME NEW status \in StepStatuses, verdict(status) = "not done"
      PROVE  status \in Blamed \cup {"queued"}
  BY <1>5 DEF verdict, StepStatuses, Outcomes, Blamed
<1>6. ASSUME NEW r \in Runs, NEW statuses \in [Steps -> StepStatuses], Tells(r, statuses),
             q = r => /\ task'[q].stage = "none" /\ run'[q] = run[q] /\ run[q].status # "absent"
                      /\ \A j \in Steps :
                           statuses[j] \in Blamed \cup {"queued"} => Untouched(q, j)
      PROVE  Goal
  <2>1. CASE q # r
    BY <1>1, <1>2, <1>6, <2>1 DEF Tells
  <2>2. CASE q = r
    <3>1. told'[q] = told[q] \cup {<<i, verdict(statuses[i])>> : i \in Steps}
      BY <1>1, <1>6, <2>2 DEF Tells
    <3>2. ASSUME NEW j \in Steps, <<j, "not done">> \in told'[q]  PROVE Untouched(q, j)
      <4>1. CASE <<j, "not done">> \in told[q]
        BY <4>1 DEF RefusedInv
      <4>2. CASE <<j, "not done">> \notin told[q]
        <5>1. PICK i \in Steps : <<j, "not done">> = <<i, verdict(statuses[i])>>
          BY <3>1, <3>2, <4>2
        <5>2. verdict(statuses[j]) = "not done" /\ statuses[j] \in StepStatuses
          BY <1>6, <5>1
        <5> QED
          BY <1>5, <1>6, <2>2, <5>2
      <4> QED
        BY <4>1, <4>2
    <3> QED
      BY <1>6, <2>2, <3>2
  <2> QED
    BY <2>1, <2>2
<1>7. ASSUME NEW r \in Runs, ReportInterrupted(r) PROVE Goal
  <2>1. task'[r].stage = "none" /\ run'[r] = run[r] /\ run[r].status # "absent"
    <3>1. UNCHANGED <<task, run>> /\ boot.stage = "reporting" /\ r \in boot.todo
      BY <1>7 DEF ReportInterrupted
    <3> QED
      BY <3>1 DEF MatchInv, RunMatches, RefusedInv
  <2>2. Tells(r, step[r]) \/ UNCHANGED told
    BY <1>7 DEF ReportInterrupted
  <2> QED
    BY <1>1, <1>3, <1>4, <1>6, <2>1, <2>2
<1>8. ASSUME NEW r \in Runs, PostReport(r) PROVE Goal
  <2> DEFINE said == [i \in Steps |-> IF task[r].memo[i] = "none" THEN step[r][i]
                                                                  ELSE task[r].memo[i]]
  <2>1. said \in [Steps -> StepStatuses]
    BY <1>1 DEF StepStatuses
  <2>2. Tells(r, said) \/ UNCHANGED told
    BY <1>8 DEF PostReport
  <2>3. task'[r].stage = "none" /\ run'[r] = run[r] /\ run[r].status # "absent"
    <3>1. task' = [task EXCEPT ![r] = NoTask] /\ UNCHANGED run /\ task[r].stage = "reporting"
      BY <1>8 DEF PostReport, At
    <3>2. run[r].preview \in Previews
      BY <1>1, <3>1 DEF TypeInv, NamedRuns
    <3>3. run[r].status # "absent"
      BY <3>2, ActionsAssumption DEF RunInv, UnstoredUnnamed
    <3> QED
      BY <1>1, <3>1, <3>3, FreshTask
  <2>4. q = r => \A j \in Steps : said[j] \in Blamed \cup {"queued"} => Untouched(q, j)
    <3> SUFFICES ASSUME q = r, NEW j \in Steps, said[j] \in Blamed \cup {"queued"}
                 PROVE  Untouched(q, j)
      OBVIOUS
    <3>1. CASE task[r].memo[j] = "none"
      BY <1>4, <3>1
    <3>2. CASE task[r].memo[j] # "none"
      <4>1. task[r].memo[j] \in Blamed
        BY <1>1, <3>2 DEF Outcomes
      <4> QED
        BY <4>1 DEF RefusedInv
    <3> QED
      BY <3>1, <3>2
  <2> HIDE DEF said
  <2> QED
    BY <1>3, <1>6, <2>1, <2>2, <2>3, <2>4
<1> HIDE DEF Goal
<1>9. CASE MemberStep
  BY <1>3, <1>9 DEF MemberStep, Offer, Confirm, Withdraw, Expire, RequestStop
<1>10. CASE RecoverStep
  BY <1>3, <1>7, <1>10 DEF RecoverStep, InterruptIncomplete, RecoverRaises, Ready, MarkReported
<1>11. CASE Crash \/ Shutdown \/ Restart \/ (\E p \in Previews, i \in Steps : Settle(p, i))
  BY <1>3, <1>11 DEF Crash, Shutdown, Restart, Settle
<1>12. CASE \E p \in Previews : SubmitStep(p)
  BY <1>3, <1>12 DEF SubmitStep, Submit, SubmitFails
<1>13. ASSUME NEW r \in Runs, TaskStep(r) PROVE Goal
  <2>1. CASE Claim(r) \/ ClaimRaises(r) \/ ShowProgress(r) \/ NextStep(r) \/ StartStep(r)
    BY <1>3, <2>1 DEF Claim, ClaimRaises, ShowProgress, NextStep, StartStep
  <2>2. CASE CheckStep(r) \/ Call(r) \/ Verify(r) \/ JudgeStep(r) \/ RecordCompleted(r)
             \/ RecordFailed(r) \/ CloseRun(r) \/ AbortRun(r)
    BY <1>3, <2>2 DEF CheckStep, Call, Verify, JudgeStep, RecordCompleted, RecordFailed,
                      CloseRun, AbortRun
  <2> QED
    BY <1>8, <1>13, <2>1, <2>2 DEF TaskStep
<1> QED
  BY <1>9, <1>10, <1>11, <1>12, <1>13 DEF Next

\* Recovery reports runs that were stored.
LEMMA TodoStored ==
  ASSUME TypeInv, RefusedInv, Next, NEW q \in Runs, q \in boot'.todo
  PROVE  run'[q].status # "absent"
<1>1. run \in [Runs -> Run] /\ boot \in Boot
  BY DEF TypeInv, StoreTypes
<1>2. CASE q \in boot.todo
  <2>1. run[q].status # "absent"
    BY <1>2 DEF RefusedInv
  <2> QED
    BY <2>1, RunMoves DEF Submit
<1>3. CASE q \notin boot.todo
  <2>1. CASE InterruptIncomplete
    BY <1>1, <2>1 DEF InterruptIncomplete, Boot
  <2>2. CASE ~InterruptIncomplete
    <3>1. boot'.todo \subseteq boot.todo
      <4>1. CASE UNCHANGED boot
        BY <4>1
      <4>8. ASSUME NEW stage, boot' = [stage |-> stage, todo |-> {}, marking |-> {}]
            PROVE  boot'.todo \subseteq boot.todo
        BY <4>8
      <4>2. CASE MemberStep
        BY <4>1, <4>2 DEF MemberStep, Offer, Confirm, Withdraw, Expire, RequestStop
      <4>3. CASE RecoverStep
        <5>1. CASE RecoverRaises
          BY <4>8, <5>1 DEF RecoverRaises
        <5>2. CASE Ready
          BY <1>1, <5>2 DEF Ready, Boot
        <5>3. ASSUME NEW r \in Runs, ReportInterrupted(r)  PROVE boot'.todo \subseteq boot.todo
          BY <1>1, <5>3 DEF ReportInterrupted, Boot
        <5>4. ASSUME NEW r \in Runs, MarkReported(r)  PROVE boot'.todo \subseteq boot.todo
          BY <1>1, <5>4 DEF MarkReported, Boot
        <5> QED
          BY <2>2, <4>3, <5>1, <5>2, <5>3, <5>4 DEF RecoverStep
      <4>4. CASE Crash \/ Shutdown \/ Restart
        <5>1. CASE Crash
          BY <4>8, <5>1 DEF Crash
        <5>2. CASE Shutdown
          BY <4>8, <5>2 DEF Shutdown
        <5>3. CASE Restart
          BY <1>1, <5>3 DEF Restart, Boot
        <5> QED
          BY <4>4, <5>1, <5>2, <5>3
      <4>5. CASE \E p \in Previews, i \in Steps : Settle(p, i)
        BY <4>1, <4>5 DEF Settle
      <4>6. CASE \E p \in Previews : SubmitStep(p)
        BY <4>1, <4>6 DEF SubmitStep, Submit, SubmitFails
      <4>7. CASE \E r \in Runs : TaskStep(r)
        BY <4>7, TaskStepBoot
      <4> QED
        BY <4>2, <4>3, <4>4, <4>5, <4>6, <4>7 DEF Next
    <3> QED
      BY <1>3, <3>1
  <2> QED
    BY <2>1, <2>2
<1> QED
  BY <1>2, <1>3

\* Every step of the system keeps RefusedInv while verify can be trusted.
LEMMA NextRefused ==
  ASSUME RunInv, OneRunEach, CalledOnce, \A r \in Runs : InOrder(r), MatchInv, RefusedInv,
         Trusting, Next
  PROVE  RefusedInv'
<1>1. TypeInv /\ UnstoredUnnamed /\ task \in [Runs -> Task]
  BY DEF RunInv, TypeInv, TaskTypes
<1> SUFFICES ASSUME NEW r \in Runs
             PROVE  /\ r \in boot'.todo => run'[r].status # "absent"
                    /\ told'[r] # {} => task'[r].stage = "none" /\ run'[r].status # "absent"
                    /\ \A i \in Steps :
                         /\ step'[r][i] \in Blamed => task'[r].stage \in Leaving \cup {"none"}
                         /\ task'[r].memo[i] \in Blamed =>
                              \/ task'[r].stage \in Leaving
                              \/ task'[r].stage = "judged" /\ task'[r].index = i
                         /\ \/ <<i, "not done">> \in told'[r]
                            \/ step'[r][i] \in Blamed \/ task'[r].memo[i] \in Blamed
                            \/ /\ task'[r].stage = "failing" /\ task'[r].error \in Refusals
                               /\ task'[r].index = i
                            => Untouched(r, i)'
  BY DEF RefusedInv
<1>2. r \in boot'.todo => run'[r].status # "absent"
  BY <1>1, TodoStored
\* A run that is submitted now was never worked on, and nothing was told of it.
<1>3. CASE \E p \in Previews : Submit(p, r)
  <2>1. PICK p \in Previews : Submit(p, r)
    BY <1>3
  <2>2. run[r].status = "absent" /\ UNCHANGED <<told, step>>
    BY <2>1 DEF Submit
  <2>3. told'[r] = {} /\ \A i \in Steps : step'[r][i] = "queued"
    BY <2>2 DEF RefusedInv, InOrder
  <2> DEFINE t == [NoTask EXCEPT !.stage = "queued"]
  <2>4. t.memo = NoTask.memo /\ t.stage = "queued"
    BY DEF NoTask
  <2>5. task' = [task EXCEPT ![r] = t]
    BY <2>1 DEF Submit
  <2> HIDE DEF t
  <2>6. task'[r].memo = NoTask.memo /\ task'[r].stage = "queued"
    BY <1>1, <2>4, <2>5
  <2>7. \A i \in Steps : task'[r].memo[i] = "none"
    BY <2>6 DEF NoTask
  <2> QED
    BY <1>2, <2>3, <2>6, <2>7 DEF Blamed
<1>4. CASE ~(\E p \in Previews : Submit(p, r))
  <2>1. ASSUME NEW i \in Steps, Untouched(r, i), task[r].stage = "calling" => task[r].index # i
        PROVE  Untouched(r, i)'
    BY <1>4, <2>1, UntouchedStays
  <2>2. run[r].status # "absent" => run'[r].status # "absent"
    BY <1>1, <1>4, RunMoves
  <2>3. told'[r] # {} => task'[r].stage = "none" /\ run'[r].status # "absent"
    <3>1. CASE told[r] # {}
      <4>1. task[r].stage = "none" /\ run[r].status # "absent"
        BY <3>1 DEF RefusedInv
      <4>2. ~TaskStep(r)
        BY <1>1, <4>1, TaskStepOthers
      <4>3. "none" \notin Running /\ NoTask.stage = "none"
        BY FreshTask DEF Running
      <4>4. task'[r].stage = "none"
        BY <1>1, <1>4, <4>1, <4>2, <4>3, TaskQuiet
      <4> QED
        BY <2>2, <4>1, <4>4
    <3>2. CASE told[r] = {}
      BY <3>2, ToldNotDone
    <3> QED
      BY <3>1, <3>2
  <2>4. ASSUME NEW i \in Steps, <<i, "not done">> \in told'[r]  PROVE Untouched(r, i)'
    <3>1. Untouched(r, i)
      BY <2>4, ToldNotDone
    <3>2. task[r].stage # "calling"
      <4>1. task'[r].stage = "none" /\ told'[r] # {}
        BY <2>3, <2>4
      <4>2. CASE told[r] # {}
        BY <4>2 DEF RefusedInv
      <4>3. CASE told[r] = {}
        <5>1. ASSUME Call(r) PROVE FALSE
          BY <4>1, <4>3, <5>1 DEF Call
        <5>2. ASSUME NEW q \in Runs, ReportInterrupted(q), q = r  PROVE task[r].stage # "calling"
          BY <4>1, <5>2 DEF ReportInterrupted
        <5>3. ASSUME NEW q \in Runs, PostReport(q), q = r  PROVE task[r].stage # "calling"
          BY <5>3 DEF PostReport, At
        <5>4. ASSUME NEW q \in Runs, ReportInterrupted(q) \/ PostReport(q), q # r
              PROVE  told'[r] = told[r]
          <6>1. told \in [Runs -> SUBSET (Steps \X Verdicts)]
            BY <1>1 DEF TypeInv, StoreTypes
          <6> QED
            BY <5>4, <6>1 DEF ReportInterrupted, PostReport, Tells
        <5>5. CASE UNCHANGED told
          BY <4>1, <4>3, <5>5
        <5>6. CASE MemberStep
          BY <5>5, <5>6 DEF MemberStep, Offer, Confirm, Withdraw, Expire, RequestStop
        <5>7. CASE RecoverStep
          BY <4>1, <4>3, <5>2, <5>4, <5>5, <5>7
          DEF RecoverStep, InterruptIncomplete, RecoverRaises, Ready, MarkReported
        <5>8. CASE Crash \/ Shutdown \/ Restart \/ (\E p \in Previews, j \in Steps : Settle(p, j))
          BY <5>5, <5>8 DEF Crash, Shutdown, Restart, Settle
        <5>9. CASE \E p \in Previews : SubmitStep(p)
          BY <5>5, <5>9 DEF SubmitStep, Submit, SubmitFails
        <5>10. CASE \E q \in Runs : TaskStep(q)
          <6>1. PICK q \in Runs : TaskStep(q)
            BY <5>10
          <6>2. CASE PostReport(q)
            BY <4>1, <4>3, <5>3, <5>4, <6>2
          <6>3. CASE Claim(q) \/ ClaimRaises(q) \/ ShowProgress(q) \/ NextStep(q) \/ StartStep(q)
            BY <5>5, <6>3 DEF Claim, ClaimRaises, ShowProgress, NextStep, StartStep
          <6>4. CASE CheckStep(q) \/ Call(q) \/ Verify(q) \/ JudgeStep(q) \/ RecordCompleted(q)
                     \/ RecordFailed(q) \/ CloseRun(q) \/ AbortRun(q)
            BY <5>5, <6>4 DEF CheckStep, Call, Verify, JudgeStep, RecordCompleted, RecordFailed,
                              CloseRun, AbortRun
          <6> QED
            BY <6>1, <6>2, <6>3, <6>4 DEF TaskStep
        <5> QED
          BY <5>6, <5>7, <5>8, <5>9, <5>10 DEF Next
      <4> QED
        BY <4>2, <4>3
    <3> QED
      BY <2>1, <3>1, <3>2
  <2>5. CASE TaskStep(r)
    <3>1. ASSUME NEW i \in Steps, step'[r][i] \in Blamed \/ task'[r].memo[i] \in Blamed
          PROVE  Untouched(r, i)'
      <4>1. Untouched(r, i) /\ task[r].stage # "calling"
        <5>1. CASE step[r][i] \in Blamed
          BY <5>1 DEF RefusedInv, Leaving
        <5>2. CASE task[r].memo[i] \in Blamed
          BY <5>2 DEF RefusedInv, Leaving
        <5>3. CASE task[r].stage = "failing" /\ task[r].error \in Refusals /\ i = task[r].index
          BY <5>3 DEF RefusedInv
        <5> QED
          BY <2>5, <3>1, <5>1, <5>2, <5>3, TaskBlames
      <4> QED
        BY <2>1, <4>1
    <3>2. /\ \A i \in Steps :
               /\ step'[r][i] \in Blamed => task'[r].stage \in Leaving \cup {"none"}
               /\ task'[r].memo[i] \in Blamed =>
                    \/ task'[r].stage \in Leaving
                    \/ task'[r].stage = "judged" /\ task'[r].index = i
               /\ task'[r].stage = "failing" /\ task'[r].error \in Refusals /\ task'[r].index = i
                    => Untouched(r, i)'
      BY <2>5, TaskBlames
    <3> QED
      BY ONLY <1>2, <2>3, <2>4, <3>1, <3>2
  <2>6. CASE ~TaskStep(r)
    <3>1. \A i \in Steps : step'[r][i] \in Blamed => step[r][i] \in Blamed
      <4> SUFFICES ASSUME NEW i \in Steps, step'[r][i] \in Blamed, step[r][i] \notin Blamed
                   PROVE  FALSE
        OBVIOUS
      <4>1. step \in [Runs -> [Steps -> StepStatuses]]
        BY <1>1 DEF TypeInv, StoreTypes
      <4>2. CASE ~Writes
        BY <4>2, OthersDoNotWrite
      <4>3. CASE InterruptIncomplete
        BY <4>1, <4>3 DEF InterruptIncomplete, Blamed
      <4>4. ASSUME NEW q \in Runs, StartStep(q) PROVE FALSE
        BY <1>1, <4>4, StartStepWrites DEF Blamed
      <4>5. ASSUME NEW q \in Runs, CheckStep(q) PROVE FALSE
        BY <1>1, <4>5, CheckStepWrites
      <4>6. ASSUME NEW q \in Runs, RecordCompleted(q) \/ RecordFailed(q) PROVE FALSE
        <5>1. q # r
          BY <2>6, <4>6 DEF TaskStep
        <5>2. PICK status \in Outcomes : task[q].index \in Steps /\ FinishStep(q, status)
          BY <1>1, <4>6, Recorded
        <5>3. step'[r][i] = step[r][i]
          BY <1>1, <5>1, <5>2, FinishStepWrites
        <5> QED
          BY <5>3
      <4> QED
        BY <4>2, <4>3, <4>4, <4>5, <4>6 DEF Writes
    <3>2. CASE task'[r] = task[r]
      <4>1. \A i \in Steps : step[r][i] \in Blamed \/ task[r].memo[i] \in Blamed => Untouched(r, i)'
        <5> SUFFICES ASSUME NEW i \in Steps, step[r][i] \in Blamed \/ task[r].memo[i] \in Blamed
                     PROVE  Untouched(r, i)'
          OBVIOUS
        <5>1. Untouched(r, i) /\ task[r].stage # "calling"
          BY DEF RefusedInv, Leaving
        <5> QED
          BY <2>1, <5>1
      <4>2. ASSUME NEW i \in Steps, task[r].stage = "failing", task[r].error \in Refusals,
                   task[r].index = i
            PROVE  Untouched(r, i)'
        <5>1. Untouched(r, i) /\ task[r].stage # "calling"
          BY <4>2 DEF RefusedInv
        <5> QED
          BY <2>1, <5>1
      <4> QED
        BY <1>2, <2>3, <2>4, <3>1, <3>2, <4>1, <4>2 DEF RefusedInv
    <3>3. CASE task'[r] = NoTask
      <4>1. task'[r].stage = "none" /\ \A i \in Steps : task'[r].memo[i] \notin Blamed
        BY <3>3, FreshTask DEF NoTask, Blamed
      <4>2. ASSUME NEW i \in Steps, step[r][i] \in Blamed  PROVE Untouched(r, i)'
        BY <2>1, <4>2 DEF RefusedInv, Leaving
      <4> QED
        BY <1>2, <2>3, <2>4, <3>1, <4>1, <4>2
    <3>4. CASE /\ task[r].stage \in Running /\ task'[r].stage = "reporting"
               /\ task'[r].memo = task[r].memo
      <4>1. ASSUME NEW i \in Steps, step[r][i] \in Blamed \/ task[r].memo[i] \in Blamed
            PROVE  Untouched(r, i)'
        <5>1. Untouched(r, i) /\ task[r].stage # "calling"
          BY <4>1 DEF RefusedInv, Leaving
        <5> QED
          BY <2>1, <5>1
      <4> QED
        BY <1>2, <2>3, <2>4, <3>1, <3>4, <4>1 DEF Leaving
    <3> QED
      BY <1>1, <1>4, <2>6, <3>2, <3>3, <3>4, TaskQuiet
  <2> QED
    BY <2>5, <2>6
<1> QED
  BY <1>3, <1>4


\* Where nothing is refused after it took effect, "not done" is only said of changes that did
\* not take effect and that no late answer can still make, with "done" beside it or not. This
\* is why a run finds NothingChangedMeansNothing violated: a refusal raised before the call
\* comes when nothing was done for the step, so one raised by the call (a deletion done in
\* part, an answer lost) or by verify is to blame.
THEOREM NotDoneUnlessRefusedAfterEffect ==
  Spec /\ [][Trusting]_vars
    => []/\ \A r \in Runs, i \in Steps : <<i, "not done">> \in told[r] => Untouched(r, i)
         /\ NothingChangedMeansNothing
<1> DEFINE Said == \A r \in Runs, i \in Steps : <<i, "not done">> \in told[r] => Untouched(r, i)
           Inv == RunInv /\ PromiseInv /\ MatchInv /\ RefusedInv
<1>1. Init => Inv
  <2>1. Init => RefusedInv
    BY DEF Init, RefusedInv, NoTask, Blamed
  <2>2. Init => MatchInv
    BY DEF Init, MatchInv, RunMatches, NoRun, NoTask, Running
  <2> QED
    BY <2>1, <2>2, InitImplements
<1>2. Inv /\ [Next]_vars /\ [Trusting]_vars => Inv'
  <2> SUFFICES ASSUME Inv, [Next]_vars, [Trusting]_vars  PROVE Inv'
    OBVIOUS
  <2>1. RunInv' /\ PromiseInv'
    BY NextRunInv, NextPromiseInv
  <2>2. TypeInv /\ OneRunEach /\ CalledOnce /\ (\A r \in Runs : InOrder(r))
    BY DEF RunInv, PromiseInv
  <2>3. MatchInv'
    BY <2>2, NextMatches
  <2>4. CASE UNCHANGED vars
    <3>1. RefusedInv'
      BY <2>4 DEF vars, RefusedInv, Untouched
    <3> QED
      BY <2>1, <2>3, <3>1
  <2>5. CASE ~UNCHANGED vars
    <3>1. RefusedInv'
      BY <2>2, <2>5, NextRefused
    <3> QED
      BY <2>1, <2>3, <3>1
  <2> QED
    BY <2>4, <2>5
<1>3. Inv => Said /\ NothingChangedMeansNothing
  <2> SUFFICES ASSUME Inv, NEW r \in Runs, NEW i \in Steps, <<i, "not done">> \in told[r]
               PROVE  Untouched(r, i) /\ effect[run[r].preview][i] = 0
    BY DEF NothingChangedMeansNothing
  <2>1. Untouched(r, i) /\ run[r].status # "absent"
    BY DEF RefusedInv
  <2>2. run[r].preview \in Previews
    BY <2>1 DEF PromiseInv, OneRunEach
  <2> QED
    BY <2>1, <2>2 DEF Untouched
<1> HIDE DEF Inv
<1>4. Spec => Init /\ [][Next]_vars
  BY DEF Spec
<1> QED
  BY <1>1, <1>2, <1>3, <1>4, PTL
=============================================================================
