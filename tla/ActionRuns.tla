------------------------------ MODULE ActionRuns ------------------------------
(***************************************************************************)
(* Confirmed changes: the preview with its buttons                          *)
(* (agent/actions/preview.py), the task that carries the confirmed steps    *)
(* out (runner.py), the tables that record them (store.py), the report      *)
(* (report.py), and the restart that finds what the last process left.      *)
(*                                                                          *)
(* What a step does outside (Discord, another store) is external: calling   *)
(* it may take effect or not, now or late, and may answer or fail.          *)
(* Abstracted: everything about a step but whether its targets come from    *)
(* earlier results; wording; private results; clicks by anyone but the      *)
(* owner, which only get an answer.                                         *)
(***************************************************************************)
EXTENDS Integers, FiniteSets

CONSTANTS
  Previews,    \* previews members are shown
  Runs,        \* run identifiers
  NoPreview,   \* the preview of a run that does not exist
  N,           \* steps of a preview
  Bound,       \* steps with a bind callback: targets known from earlier results
  MaxFaults    \* bound: crashes, outages and failed store calls

ASSUME ActionsAssumption ==
  /\ N \in Nat \ {0}
  /\ Bound \subseteq 1..N
  /\ NoPreview \notin Previews
  /\ MaxFaults \in Nat

VARIABLES
  view,     \* the preview's buttons, in memory
  boot,     \* recover(): its stage, the runs left to report, the run just reported
  run,      \* action_runs
  step,     \* action_steps.status
  log,      \* action_log: outcome, and whether targets_json is final
  task,     \* the _execute task of each run, in memory
  effect,   \* outside world: how often a previewed step took effect
  late,     \* outside world: requests that were cut off and may still take effect
  told,     \* history: what the member was told of each step
  lost,     \* history: runs whose state a failed store call left behind
  faults

vars == <<view, boot, run, step, log, task, effect, late, told, lost, faults>>
world == <<effect, late>>

Steps    == 1..N
Settled  == {"completed", "failed", "stopped", "interrupted"}
Outcomes == {"completed", "failed", "uncertain", "permission"}
StepStatuses == {"queued", "running", "interrupted"} \cup Outcomes
Errors   == {"refused", "forbidden", "unsure"}
Verdicts == {"done", "not done", "unconfirmed"}

Stages == {"none", "queued", "progress", "between", "starting", "checking", "calling",
           "verifying", "recording", "failing", "judged", "closing", "aborting", "reporting"}
Running == Stages \ {"none", "queued"}

View == [state : {"none", "open", "confirmed", "cancelled"}, expired : BOOLEAN,
         submitting : BOOLEAN]
Boot == [stage : {"starting", "reporting", "ready", "stopping"}, todo : SUBSET Runs,
         marking : SUBSET Runs]
Run  == [status : {"absent", "queued", "running"} \cup Settled,
         preview : Previews \cup {NoPreview}, stop : BOOLEAN, leased : BOOLEAN,
         reported : BOOLEAN]
Log  == [outcome : {"none", "started", "interrupted"} \cup Outcomes, final : BOOLEAN]
Task == [stage : Stages, index : 1..(N + 1), outcome : {"completed", "failed", "stopped"},
         error : Errors, memo : [Steps -> {"none"} \cup Outcomes]]

NoView == [state |-> "none", expired |-> FALSE, submitting |-> FALSE]
NoRun  == [status |-> "absent", preview |-> NoPreview, stop |-> FALSE,
           leased |-> FALSE, reported |-> FALSE]
NoLog  == [outcome |-> "none", final |-> FALSE]
NoTask == [stage |-> "none", index |-> 1, outcome |-> "completed", error |-> "refused",
           memo |-> [i \in Steps |-> "none"]]

Init ==
  /\ view = [p \in Previews |-> NoView]
  /\ boot = [stage |-> "starting", todo |-> {}, marking |-> {}]
  /\ run = [r \in Runs |-> NoRun]
  /\ step = [r \in Runs |-> [i \in Steps |-> "queued"]]
  /\ log = [r \in Runs |-> [i \in Steps |-> NoLog]]
  /\ task = [r \in Runs |-> NoTask]
  /\ effect = [p \in Previews |-> [i \in Steps |-> 0]]
  /\ late = {}
  /\ told = [r \in Runs |-> {}]
  /\ lost = {}
  /\ faults = 0

Fault == faults < MaxFaults /\ faults' = faults + 1

-----------------------------------------------------------------------------
(* preview.py *)

\* Mutant: a second click on Confirm is accepted.
may_claim_twice(v) == v.state \in {"open", "confirmed"} /\ ~v.expired /\ ~v.submitting

\* _claim, under the view's lock: neither expired nor used.
may_claim(v) == v.state = "open" /\ ~v.expired

Offer(p) ==
  /\ view[p].state = "none"
  /\ view' = [view EXCEPT ![p] = [NoView EXCEPT !.state = "open"]]
  /\ UNCHANGED <<boot, run, step, log, task, effect, late, told, lost, faults>>

Confirm(p) ==
  /\ may_claim(view[p])
  /\ view' = [view EXCEPT ![p].state = "confirmed", ![p].submitting = TRUE]
  /\ UNCHANGED <<boot, run, step, log, task, effect, late, told, lost, faults>>

\* The Cancel button, or a reply of the owner to the preview (invalidate).
Withdraw(p) ==
  /\ may_claim(view[p])
  /\ view' = [view EXCEPT ![p].state = "cancelled"]
  /\ UNCHANGED <<boot, run, step, log, task, effect, late, told, lost, faults>>

\* on_timeout; once the preview is used it only changes what later clicks are told.
Expire(p) ==
  /\ view[p].state = "open" /\ ~view[p].expired
  /\ view' = [view EXCEPT ![p].expired = TRUE]
  /\ UNCHANGED <<boot, run, step, log, task, effect, late, told, lost, faults>>

-----------------------------------------------------------------------------
(* runner.py: submit and stop *)

\* Mutant: submit does not wait for recover.
recovered_always == TRUE
recovered == boot.stage = "ready"

\* submit: create_run stores the run and its steps, and a task is started.
Submit(p, r) ==
  /\ view[p].submitting /\ recovered
  /\ run[r].status = "absent"
  /\ view' = [view EXCEPT ![p].submitting = FALSE]
  /\ run' = [run EXCEPT ![r] = [NoRun EXCEPT !.status = "queued", !.preview = p]]
  /\ task' = [task EXCEPT ![r] = [NoTask EXCEPT !.stage = "queued"]]
  /\ UNCHANGED <<boot, step, log, effect, late, told, lost, faults>>

\* check_bundle or create_run raises: the member is told, the preview stays used.
SubmitFails(p) ==
  /\ view[p].submitting /\ recovered
  /\ view' = [view EXCEPT ![p].submitting = FALSE]
  /\ UNCHANGED <<boot, run, step, log, task, effect, late, told, lost, faults>>

\* The Stop button, while the task shows it.
RequestStop(r) ==
  /\ task[r].stage \in Running
  /\ run[r].status = "running" /\ ~run[r].stop
  /\ run' = [run EXCEPT ![r].stop = TRUE]
  /\ UNCHANGED <<view, boot, step, log, task, effect, late, told, lost, faults>>

-----------------------------------------------------------------------------
(* runner.py: one _execute task over store.py *)

At(r, stage) == task[r].stage = stage
Goes(r, stage) == task' = [task EXCEPT ![r].stage = stage]
Closes(r, outcome) ==
  task' = [task EXCEPT ![r].stage = "closing", ![r].outcome = outcome]
Fails(r, error) == task' = [task EXCEPT ![r].stage = "failing", ![r].error = error]

\* What every write of the task checks: the run is running under this task's lease.
owns(r) == run[r].status = "running" /\ run[r].leased

Claim(r) ==
  /\ At(r, "queued")
  /\ IF run[r].status = "queued" /\ ~run[r].leased
       THEN /\ run' = [run EXCEPT ![r].status = "running", ![r].leased = TRUE]
            /\ Goes(r, "progress")
       ELSE task' = [task EXCEPT ![r] = NoTask] /\ UNCHANGED run
  /\ UNCHANGED <<view, boot, step, log, effect, late, told, lost, faults>>

\* claim raises outside the try of _execute: nothing settles or reports the run.
ClaimRaises(r) ==
  /\ At(r, "queued") /\ Fault
  /\ task' = [task EXCEPT ![r] = NoTask]
  /\ lost' = lost \cup {r}
  /\ UNCHANGED <<view, boot, run, step, log, effect, late, told>>

ShowProgress(r) ==
  /\ At(r, "progress")
  /\ \/ Goes(r, "between") /\ UNCHANGED faults
     \/ Goes(r, "aborting") /\ Fault
  /\ UNCHANGED <<view, boot, run, step, log, effect, late, told, lost>>

\* The head of the loop over the steps reads stop_requested.
NextStep(r) ==
  /\ At(r, "between")
  /\ \/ /\ task[r].index > N /\ Goes(r, "closing") /\ UNCHANGED faults
     \/ /\ task[r].index <= N /\ run[r].stop /\ Closes(r, "stopped") /\ UNCHANGED faults
     \/ /\ task[r].index <= N /\ ~run[r].stop /\ Goes(r, "starting") /\ UNCHANGED faults
     \/ /\ task[r].index <= N /\ Goes(r, "aborting") /\ Fault
  /\ UNCHANGED <<view, boot, run, step, log, effect, late, told, lost>>

\* Mutant: start_step relies on the stop check the loop has just made.
may_start_step_unstopped(r, i) == owns(r) /\ step[r][i] = "queued"

may_start_step(r, i) == owns(r) /\ ~run[r].stop /\ step[r][i] = "queued"

StartStep(r) ==
  LET i == task[r].index
  IN  /\ At(r, "starting")
      /\ \/ /\ may_start_step(r, i)
            /\ step' = [step EXCEPT ![r][i] = "running"]
            /\ log' = [log EXCEPT ![r][i] = [outcome |-> "started", final |-> i \notin Bound]]
            /\ Goes(r, "checking") /\ UNCHANGED faults
         \/ /\ ~may_start_step(r, i)
            /\ Closes(r, "stopped")
            /\ UNCHANGED <<step, log, faults>>
         \/ Goes(r, "aborting") /\ Fault /\ UNCHANGED <<step, log>>
      /\ UNCHANGED <<view, boot, run, effect, late, told, lost>>

\* Mutant: the log keeps the targets of the preview.
set_step_values_unlogged(entry) == entry

\* set_step_values: the log row names the targets while the step has only started.
set_step_values(entry) ==
  IF entry.outcome = "started" THEN [entry EXCEPT !.final = TRUE] ELSE entry

\* Access, evidence and visibility; bind with set_step_values; recheck.
CheckStep(r) ==
  LET i == task[r].index
  IN  /\ At(r, "checking")
      /\ \/ \E e \in Errors : Fails(r, e) /\ UNCHANGED log
         \/ i \notin Bound /\ Goes(r, "calling") /\ UNCHANGED log
         \/ /\ i \in Bound /\ owns(r) /\ step[r][i] = "running"
            /\ log' = [log EXCEPT ![r][i] = set_step_values(@)]
            /\ Goes(r, "calling") \/ Fails(r, "refused")
      /\ UNCHANGED <<view, boot, run, step, effect, late, told, lost, faults>>

\* The change itself: it answers, or it fails with the effect there, still to come or never
\* to come.  A timeout, a broken connection or a 5xx is unsure; what was refused in the end
\* may have been done in part (delete_selection) or have lost its answer all the same.
Call(r) ==
  LET p == run[r].preview  i == task[r].index
  IN  /\ At(r, "calling")
      /\ \/ /\ effect' = [effect EXCEPT ![p][i] = @ + 1] /\ UNCHANGED late
            /\ Goes(r, "verifying") \/ \E e \in Errors : Fails(r, e)
         \/ \E e \in Errors : Fails(r, e) /\ UNCHANGED world
         \/ /\ late' = late \cup {<<p, i>>} /\ UNCHANGED effect
            /\ \E e \in Errors : Fails(r, e)
      /\ UNCHANGED <<view, boot, run, step, log, told, lost, faults>>

\* verify: satisfied or not asked for; it may also deny the change or raise.
Verify(r) ==
  /\ At(r, "verifying")
  /\ Goes(r, "recording") \/ \E e \in Errors : Fails(r, e)
  /\ UNCHANGED <<view, boot, run, step, log, effect, late, told, lost, faults>>

\* finish_step; when it refuses or raises, the report says "uncertain" and the row
\* stays as it was.
FinishStep(r, status) ==
  LET i == task[r].index
  IN  \/ /\ owns(r) /\ step[r][i] = "running"
         /\ step' = [step EXCEPT ![r][i] = status]
         /\ log' = [log EXCEPT ![r][i].outcome = status]
         /\ task' = [task EXCEPT
                       ![r].stage = IF status = "completed" THEN "between" ELSE "closing",
                       ![r].index = IF status = "completed" THEN @ + 1 ELSE @,
                       ![r].outcome = IF status = "completed" THEN @ ELSE "failed"]
         /\ UNCHANGED <<lost, faults>>
      \/ /\ \/ ~(owns(r) /\ step[r][i] = "running") /\ UNCHANGED <<lost, faults>>
            \/ Fault /\ lost' = lost \cup {r}
         /\ task' = [task EXCEPT ![r].memo[i] = "uncertain", ![r].stage = "closing",
                                 ![r].outcome = "failed"]
         /\ UNCHANGED <<step, log>>

RecordCompleted(r) ==
  /\ At(r, "recording")
  /\ FinishStep(r, "completed")
  /\ UNCHANGED <<view, boot, run, effect, late, told>>

\* Mutant: an unsure step counts as done unless verify denies it.
judged_optimistic(error, there) ==
  CASE error = "forbidden" -> {"permission"}
    [] error = "refused"   -> {"failed"}
    [] OTHER               -> {"uncertain", "completed"}

\* _failed_step: verify, asked once more, may turn an unsure step into a completed one.
\* It is taken at its word: it says so only of a change that is there.
judged(error, there) ==
  CASE error = "forbidden" -> {"permission"}
    [] error = "refused"   -> {"failed"}
    [] OTHER               -> {"uncertain"} \cup (IF there THEN {"completed"} ELSE {})

JudgeStep(r) ==
  /\ At(r, "failing")
  /\ \E status \in judged(task[r].error, effect[run[r].preview][task[r].index] > 0) :
       task' = [task EXCEPT ![r].stage = "judged", ![r].memo[task[r].index] = status]
  /\ UNCHANGED <<view, boot, run, step, log, effect, late, told, lost, faults>>

RecordFailed(r) ==
  /\ At(r, "judged")
  /\ FinishStep(r, task[r].memo[task[r].index])
  /\ UNCHANGED <<view, boot, run, effect, late, told>>

finish_run(r, status) ==
  run' = IF owns(r) THEN [run EXCEPT ![r].status = status, ![r].leased = FALSE] ELSE run

CloseRun(r) ==
  /\ At(r, "closing")
  /\ \/ finish_run(r, task[r].outcome) /\ Goes(r, "reporting") /\ UNCHANGED faults
     \/ Fault /\ Goes(r, "aborting") /\ UNCHANGED run
  /\ UNCHANGED <<view, boot, step, log, effect, late, told, lost>>

\* except Exception: the run is failed, unless that raises too; then only a restart
\* settles it.
AbortRun(r) ==
  /\ At(r, "aborting")
  /\ Goes(r, "reporting")
  /\ \/ finish_run(r, "failed") /\ UNCHANGED <<lost, faults>>
     \/ Fault /\ lost' = lost \cup {r} /\ UNCHANGED run
  /\ UNCHANGED <<view, boot, step, log, effect, late, told>>

\* format_run_report; the permission a step lacked is one way of not being done.
verdict(status) ==
  CASE status = "completed"                              -> "done"
    [] status \in {"uncertain", "interrupted", "running"} -> "unconfirmed"
    [] OTHER                                              -> "not done"

Tells(r, statuses) ==
  told' = [told EXCEPT ![r] = @ \cup {<<i, verdict(statuses[i])>> : i \in Steps}]

\* _post_report, in the finally clause: the rows with what the task remembers laid
\* over them.  The row may be unreadable, the channel gone, or the posts themselves
\* say enough: then nothing is told.
PostReport(r) ==
  /\ At(r, "reporting")
  /\ \/ Tells(r, [i \in Steps |-> IF task[r].memo[i] = "none" THEN step[r][i]
                                                              ELSE task[r].memo[i]])
     \/ UNCHANGED told
  /\ task' = [task EXCEPT ![r] = NoTask]
  /\ UNCHANGED <<view, boot, run, step, log, effect, late, lost, faults>>

-----------------------------------------------------------------------------
(* runner.py: recover, once per start *)

\* Mutant: only claimed runs are looked for.
incomplete_running(r) == run[r].status = "running"
incomplete(r) == run[r].status \in {"queued", "running"}

\* Mutant: recover without its finally clause.
after_recovery_error_stuck == "stuck"
after_recovery_error == "ready"

\* Mutant: the log is left as it was.
interrupted_log_kept(entry) == entry
interrupted_log(entry) ==
  IF entry.outcome = "started" THEN [entry EXCEPT !.outcome = "interrupted"] ELSE entry

InterruptIncomplete ==
  LET found == {r \in Runs : incomplete(r)}
  IN  /\ boot.stage = "starting"
      /\ run' = [r \in Runs |-> IF r \in found
                   THEN [run[r] EXCEPT !.status = "interrupted", !.leased = FALSE]
                   ELSE run[r]]
      /\ step' = [r \in Runs |-> [i \in Steps |->
                   IF r \in found /\ step[r][i] = "running" THEN "interrupted"
                                                            ELSE step[r][i]]]
      /\ log' = [r \in Runs |-> [i \in Steps |->
                  IF r \in found THEN interrupted_log(log[r][i]) ELSE log[r][i]]]
      /\ boot' = [boot EXCEPT !.stage = "reporting",
                    !.todo = {r \in Runs : run'[r].status = "interrupted" /\ ~run[r].reported}]
      /\ UNCHANGED <<view, task, effect, late, told, lost, faults>>

\* The store raises: recover gives up and lets new runs start all the same.
RecoverRaises ==
  /\ boot.stage \in {"starting", "reporting"} /\ Fault
  /\ boot' = [stage |-> after_recovery_error, todo |-> {}, marking |-> {}]
  /\ lost' = lost \cup {r \in Runs : incomplete(r)}
  /\ UNCHANGED <<view, run, step, log, task, effect, late, told>>

\* One interrupted run is reported in its channel, or skipped until the next start.
ReportInterrupted(r) ==
  /\ boot.stage = "reporting" /\ boot.marking = {} /\ r \in boot.todo
  /\ \/ Tells(r, step[r]) /\ boot' = [boot EXCEPT !.todo = @ \ {r}, !.marking = {r}]
     \/ UNCHANGED told /\ boot' = [boot EXCEPT !.todo = @ \ {r}]
  /\ UNCHANGED <<view, run, step, log, task, effect, late, lost, faults>>

MarkReported(r) ==
  /\ boot.marking = {r}
  /\ run' = [run EXCEPT ![r].reported = @ \/ run[r].status = "interrupted"]
  /\ boot' = [boot EXCEPT !.marking = {}]
  /\ UNCHANGED <<view, step, log, task, effect, late, told, lost, faults>>

Ready ==
  /\ boot.stage = "reporting" /\ boot.todo = {} /\ boot.marking = {}
  /\ boot' = [boot EXCEPT !.stage = "ready"]
  /\ UNCHANGED <<view, run, step, log, task, effect, late, told, lost, faults>>

-----------------------------------------------------------------------------
(* The outside world and the process *)

\* A request that was cut off is carried out after all, or never.
Settle(p, i) ==
  /\ <<p, i>> \in late
  /\ late' = late \ {<<p, i>>}
  /\ effect' = [effect EXCEPT ![p][i] = @ + 1] \/ UNCHANGED effect
  /\ UNCHANGED <<view, boot, run, step, log, task, told, lost, faults>>

\* The process dies and starts again; buttons shown before answer nobody any more.
Crash ==
  /\ Fault
  /\ view' = [p \in Previews |->
                IF view[p].state = "none" THEN view[p]
                  ELSE [view[p] EXCEPT !.expired = TRUE, !.submitting = FALSE]]
  /\ task' = [r \in Runs |-> NoTask]
  /\ boot' = [stage |-> "starting", todo |-> {}, marking |-> {}]
  /\ UNCHANGED <<run, step, log, effect, late, told, lost>>

\* cog_unload cancels the tasks.  A claimed run goes straight to its finally clause and
\* posts the report; its status is left to the next start.
Shutdown ==
  /\ boot.stage # "stopping" /\ Fault
  /\ view' = [p \in Previews |->
                IF view[p].state = "none" THEN view[p]
                  ELSE [view[p] EXCEPT !.expired = TRUE, !.submitting = FALSE]]
  /\ boot' = [stage |-> "stopping", todo |-> {}, marking |-> {}]
  /\ task' = [r \in Runs |-> IF task[r].stage \in Running
                               THEN [task[r] EXCEPT !.stage = "reporting"] ELSE NoTask]
  /\ UNCHANGED <<run, step, log, effect, late, told, lost>>

\* The process that was shut down is started again.
Restart ==
  /\ boot.stage = "stopping"
  /\ boot' = [boot EXCEPT !.stage = "starting"]
  /\ task' = [r \in Runs |-> NoTask]
  /\ UNCHANGED <<view, run, step, log, effect, late, told, lost, faults>>

MemberStep ==
  \/ \E p \in Previews : Offer(p) \/ Confirm(p) \/ Withdraw(p) \/ Expire(p)
  \/ \E r \in Runs : RequestStop(r)

SubmitStep(p) == SubmitFails(p) \/ \E r \in Runs : Submit(p, r)

TaskStep(r) ==
  \/ Claim(r) \/ ClaimRaises(r) \/ ShowProgress(r) \/ NextStep(r) \/ StartStep(r)
  \/ CheckStep(r) \/ Call(r) \/ Verify(r) \/ RecordCompleted(r) \/ JudgeStep(r)
  \/ RecordFailed(r) \/ CloseRun(r) \/ AbortRun(r) \/ PostReport(r)

RecoverStep ==
  \/ InterruptIncomplete \/ RecoverRaises \/ Ready
  \/ \E r \in Runs : ReportInterrupted(r) \/ MarkReported(r)

Next ==
  \/ MemberStep \/ RecoverStep \/ Crash \/ Shutdown \/ Restart
  \/ \E p \in Previews : SubmitStep(p)
  \/ \E r \in Runs : TaskStep(r)
  \/ \E p \in Previews, i \in Steps : Settle(p, i)

Spec == Init /\ [][Next]_vars

\* The event loop goes on with every task, each await has a timeout of its own, and
\* a bot that was shut down is started again.
Fairness ==
  /\ WF_vars(RecoverStep) /\ WF_vars(Restart)
  /\ \A p \in Previews : WF_vars(SubmitStep(p))
  /\ \A r \in Runs : WF_vars(TaskStep(r))

FairSpec == Spec /\ Fairness

-----------------------------------------------------------------------------
(* Properties *)

TypeOK ==
  /\ view \in [Previews -> View]
  /\ boot \in Boot
  /\ run \in [Runs -> Run]
  /\ step \in [Runs -> [Steps -> StepStatuses]]
  /\ log \in [Runs -> [Steps -> Log]]
  /\ task \in [Runs -> Task]
  /\ effect \in [Previews -> [Steps -> Nat]]
  /\ late \subseteq Previews \X Steps
  /\ told \in [Runs -> SUBSET (Steps \X Verdicts)]
  /\ lost \subseteq Runs
  /\ faults \in Nat

\* The promise of CheckedChange, with a run's log rows as the changes that begun.
begun == [p \in Previews |-> Cardinality(
            {i \in Steps : \E r \in Runs : run[r].preview = p /\ log[r][i].outcome # "none"})]
phase == [p \in Previews |->
            IF view[p].state = "confirmed" THEN "approved"
            ELSE IF view[p].state = "cancelled" \/ view[p].expired THEN "withdrawn"
            ELSE "offered"]
closed == [p \in Previews |->
             \E r \in Runs : /\ run[r].preview = p
                             /\ run[r].status \in Settled \/ run[r].stop]

Promise == INSTANCE CheckedChange WITH taken <- effect

\* Double clicks, expiry, stops, crashes and restarts included, a preview's changes
\* happen as CheckedChange says: confirmed first, in order, at most once each, and none
\* begun after a stop or the end of the run.
ImplementsCheckedChange == Promise!Spec

\* "Persist each transition before an external change is attempted": whatever took
\* effect, or still may, has a log row that names its final targets.
EveryEffectIsLogged ==
  \A p \in Previews, i \in Steps :
    effect[p][i] > 0 \/ <<p, i>> \in late
      => \E r \in Runs : /\ run[r].preview = p
                         /\ log[r][i].outcome # "none" /\ log[r][i].final

\* A run is worked on by exactly the task that claimed it: recovery never takes a run
\* from a live task, and once recovery is over no unfinished run is without a task,
\* unless the store failed on it.
TasksAndRunsMatch ==
  \A r \in Runs :
    /\ task[r].stage \in Running \ {"reporting"} => owns(r)
    /\ boot.stage = "ready" /\ run[r].status \in {"queued", "running"} /\ r \notin lost
         => task[r].stage # "none"

\* The audit log and the run agree on every step, also across a restart.
LogFollowsSteps ==
  \A r \in Runs, i \in Steps :
    log[r][i].outcome = CASE step[r][i] = "queued"  -> "none"
                          [] step[r][i] = "running" -> "started"
                          [] OTHER                  -> step[r][i]

\* What a member is told was done took effect, in the report of the run as in the
\* report after a restart.
DoneMeansDone ==
  \A r \in Runs, i \in Steps : <<i, "done">> \in told[r] => effect[run[r].preview][i] > 0

\* A report that says "Nothing changed. Not done: ..." names only changes that did not
\* take effect.
NothingChangedMeansNothing ==
  \A r \in Runs, i \in Steps :
    /\ <<i, "not done">> \in told[r]
    /\ \A j \in Steps : <<j, "done">> \notin told[r]
    => effect[run[r].preview][i] = 0

\* No confirmation hangs: the preview is submitted or given up, also when recovery fails, and
\* every run that was stored ends with a status a member can be told, across restarts and
\* whatever the steps do, unless the store failed while it was being written.
EveryConfirmationEnds ==
  /\ \A p \in Previews : view[p].submitting ~> ~view[p].submitting
  /\ \A r \in Runs : run[r].status # "absent" ~> run[r].status \in Settled \/ r \in lost
=============================================================================
