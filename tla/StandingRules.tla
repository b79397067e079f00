---------------------------- MODULE StandingRules ----------------------------
(***************************************************************************)
(* The agent's saved requests, reminders and watchers while the bot runs:  *)
(* the poll that claims due rules, the task that runs each claimed rule,    *)
(* the members who edit, pause, resume, cancel or stop them at any moment,  *)
(* and the process that may die between any two steps                       *)
(* (agent/scheduled/runner.py over agent/scheduled/store.py).               *)
(*                                                                          *)
(* A step is what the code does between two awaits that others can get in   *)
(* between: one transaction, or one outside effect.                         *)
(***************************************************************************)
EXTENDS StandingStore, FiniteSets

CONSTANTS
  Rules,       \* rule identifiers
  Kind,        \* [Rules -> {"reminder", "request", "watcher"}]
  Requester,   \* [Rules -> the member who saved the rule]
  Clash,       \* pairs of rules whose messages would land too close together
  Channel,     \* the rule's channel, as a delivery target
  MaxDue,      \* MAX_DUE_PER_KIND, rows one poll takes from a table
  MaxTime,     \* bound: the clock stops here
  MaxEdits,    \* bound: member operations
  MaxFaults    \* bound: crashes, outages and failed store calls

ASSUME RulesAssumption ==
  /\ Rules # {}
  /\ Kind \in [Rules -> {"reminder", "request", "watcher"}]
  /\ DOMAIN Requester = Rules
  /\ Clash \subseteq Rules \X Rules
  /\ \A r, s \in Rules : <<r, s>> \in Clash => <<s, r>> \in Clash
  /\ Channel \notin Members
  /\ MaxDue \in Nat \ {0}
  /\ {MaxTime, MaxEdits, MaxFaults} \subseteq Nat

VARIABLES
  row,      \* the database: one row per rule
  now,      \* the clock the code reads with time.time()
  poll,     \* the _main task: its stage, the table it polls, the rows it read
  work,     \* the _execute task of each lease owner
  draft,    \* the preview a member may still confirm, by rule
  edits, faults,          \* how much of the bounds is used
  sent,     \* history: deliveries of an occurrence since a member asked for it
  unsaved,  \* history: runs since then whose end could not be saved at all
  halted    \* history: paused, cancelled or stopped by its last recipient, and
            \* not resumed or saved again by its member

vars == <<row, now, poll, work, draft, edits, faults, sent, unsaved, halted>>

Tables     == {"saved_requests", "watchers"}
table(r)   == IF Kind[r] = "watcher" THEN "watchers" ELSE "saved_requests"
Targets    == Members \cup {Channel}
targets(r) == IF r.members = {} THEN {Channel} ELSE r.members

Snapshot == [rule : Rules, snap : Row]
Result   == [status : {"active", "paused", "completed", "next"}, ran : BOOLEAN]
NoResult == [status |-> "next", ran |-> FALSE]

\* Stages of _execute, in the order the code goes through them.
Stages  == {"free", "claimed", "waiting", "running", "cleared", "finishing",
            "failing", "releasing"}
Leased  == Stages \ {"free", "releasing"}
NoRule  == CHOOSE r \in Rules : TRUE
Free    == [stage |-> "free", rule |-> NoRule, snap |-> AbsentRow, locked |-> FALSE,
            todo |-> {}, target |-> Channel, reached |-> FALSE, result |-> NoResult]
Task    == [stage : Stages, rule : Rules, snap : Row, locked : BOOLEAN,
            todo : SUBSET Targets, target : Targets, reached : BOOLEAN, result : Result]

NoDraft == [open |-> FALSE, base |-> AbsentRow, sched |-> AbsentRow.sched,
            due |-> NoTime, members |-> {}]
Draft   == [open : BOOLEAN, base : Row, sched : Schedules, due : Nat,
            members : SUBSET Members]

Init ==
  /\ row = [r \in Rules |-> AbsentRow]
  /\ now = 1
  /\ poll = [stage |-> "starting", table |-> "saved_requests", batch |-> {}]
  /\ work = [w \in Owners |-> Free]
  /\ draft = [r \in Rules |-> NoDraft]
  /\ edits = 0 /\ faults = 0
  /\ sent = [r \in Rules |-> [t \in Targets |-> 0]]
  /\ unsaved = [r \in Rules |-> 0]
  /\ halted = [r \in Rules |-> FALSE]

AskedAgain(r) == /\ sent' = [sent EXCEPT ![r] = [t \in Targets |-> 0]]
                 /\ unsaved' = [unsaved EXCEPT ![r] = 0]

Edit  == edits < MaxEdits /\ edits' = edits + 1
Fault == faults < MaxFaults /\ faults' = faults + 1

-----------------------------------------------------------------------------
(* Members, through scheduled/tools.py and the buttons on reminder DMs *)

\* require_destination_spacing: active rules of the requester that clash. A rule
\* without a due time, or whose schedule has ended, reserves nothing.
Reserves(rw) == rw.due # NoTime /\ ~schedule_expired(rw.sched, rw.due, rw.done)
\* Mutant: rules that are running are left out of the comparison.
SpacedFromIdle(r, rw) ==
  Reserves(rw) => \A s \in Rules \ {r} :
    <<r, s>> \in Clash /\ row[s].status = "active" /\ row[s].lease = NoOwner
      => ~Reserves(row[s])

Spaced(r, rw) ==
  Reserves(rw) => \A s \in Rules \ {r} :
    <<r, s>> \in Clash /\ row[s].status = "active" => ~Reserves(row[s])

\* prepare_save: the preview keeps the version it read and the first due time.
PrepareSave(r, s, ms) ==
  /\ Edit
  /\ row[r].status # "cancelled"
  /\ ms # {} => Kind[r] = "reminder"
  /\ next_occurrence(s, now, 0) # NoTime
  /\ draft' = [draft EXCEPT ![r] = [open |-> TRUE, base |-> row[r], sched |-> s,
                                    due |-> next_occurrence(s, now, 0), members |-> ms]]
  /\ UNCHANGED <<row, now, poll, work, faults, sent, unsaved, halted>>

\* The confirmed preview: create_standing or replace_standing; refused when the
\* rule changed or its messages would crowd another rule of the member.
ConfirmSave(r) ==
  LET d   == draft[r]
      new == IF d.base.status = "absent"
               THEN create_standing(d.sched, d.due, d.members)
               ELSE replace_standing(row[r], d.sched, d.due, d.members)
  IN  /\ d.open
      /\ draft' = [draft EXCEPT ![r] = NoDraft]
      /\ IF /\ IF d.base.status = "absent" THEN row[r].status = "absent"
                 ELSE may_replace_standing(row[r], d.base.version)
            /\ Spaced(r, new)
           THEN /\ row' = [row EXCEPT ![r] = new]
                /\ halted' = [halted EXCEPT ![r] = FALSE]
                /\ AskedAgain(r)
           ELSE UNCHANGED <<row, halted, sent, unsaved>>
      /\ UNCHANGED <<now, poll, work, edits, faults>>

\* prepare_manage, confirmed: pause, resume or cancel.  Its recheck, which wants a
\* paused rule to resume and an active one to pause, is a read of its own: the row may
\* have changed again, and the statement takes either.
SetStanding(r, status) ==
  /\ Edit
  /\ may_set_standing_status(row[r])
  /\ status = "active" => Spaced(r, row[r])
  /\ row' = [row EXCEPT ![r] = set_standing_status(row[r], status)]
  /\ halted' = [halted EXCEPT ![r] = status # "active"]
  /\ IF status = "active" THEN AskedAgain(r) ELSE UNCHANGED <<sent, unsaved>>
  /\ UNCHANGED <<now, poll, work, draft, faults>>

\* ReminderStopButton: a recipient other than the requester stops a repeating DM.
StopReminder(r, m) ==
  /\ Edit
  /\ Kind[r] = "reminder" /\ m # Requester[r]
  /\ may_stop_reminder_recipient(row[r], m)
  /\ row' = [row EXCEPT ![r] = stop_reminder_recipient(row[r], m)]
  /\ halted' = [halted EXCEPT ![r] = @ \/ row[r].members = {m}]
  /\ UNCHANGED <<now, poll, work, draft, faults, sent, unsaved>>

-----------------------------------------------------------------------------
(* The _main task *)

\* recover_standing_leases, once per start, before the first poll.
Recover ==
  /\ poll.stage = "starting"
  /\ row' = [r \in Rules |-> recover_standing_lease(row[r])]
  /\ poll' = [poll EXCEPT !.stage = "expire"]
  /\ UNCHANGED <<now, work, draft, edits, faults, sent, unsaved, halted>>

\* expire_standing over the table whose turn it is.
ExpireStanding ==
  /\ poll.stage = "expire"
  /\ row' = [r \in Rules |-> IF table(r) = poll.table THEN expire_standing(row[r], now)
                                                    ELSE row[r]]
  /\ poll' = [poll EXCEPT !.stage = "read"]
  /\ UNCHANGED <<now, work, draft, edits, faults, sent, unsaved, halted>>

\* due_standing: the first MaxDue due rows by due time.
ReadDue ==
  LET due == {r \in Rules : table(r) = poll.table /\ due_standing(row[r], now)}
  IN  /\ poll.stage = "read"
      /\ \E first \in SUBSET due :
           /\ Cardinality(first) = IF Cardinality(due) < MaxDue THEN Cardinality(due)
                                                                ELSE MaxDue
           /\ \A r \in first, s \in due \ first : row[r].due <= row[s].due
           /\ poll' = [poll EXCEPT !.stage = "claim",
                                   !.batch = {[rule |-> r, snap |-> row[r]] : r \in first}]
      /\ UNCHANGED <<row, now, work, draft, edits, faults, sent, unsaved, halted>>

\* claim_standing with the version that was read; a claimed rule gets a task that
\* keeps the row as it was read.
ClaimStanding(item, w) ==
  LET r == item.rule
  IN  /\ poll.stage = "claim" /\ item \in poll.batch
      /\ work[w].stage = "free" /\ \A s \in Rules : row[s].lease # w
      /\ poll' = [poll EXCEPT !.batch = @ \ {item}]
      /\ IF may_claim_standing(row[r], item.snap.version, now)
           THEN /\ row' = [row EXCEPT ![r] = claim_standing(row[r], w)]
                /\ work' = [work EXCEPT ![w] = [Free EXCEPT !.stage = "claimed", !.rule = r,
                                                            !.snap = item.snap]]
           ELSE UNCHANGED <<row, work>>
      /\ UNCHANGED <<now, draft, edits, faults, sent, unsaved, halted>>

\* The batch is done: the other table is next, POLL_SECONDS later the first again.
EndPoll ==
  /\ poll.stage = "claim" /\ poll.batch = {}
  /\ poll' = [poll EXCEPT !.stage = "expire", !.table = CHOOSE t \in Tables : t # @]
  /\ UNCHANGED <<row, now, work, draft, edits, faults, sent, unsaved, halted>>

\* A store call of tick raises: _main logs it and starts over with the next poll; the
\* rest of the batch and the other table wait for it.
PollRaises ==
  /\ poll.stage \in {"expire", "read", "claim"}
  /\ poll.stage = "claim" => poll.batch # {}
  /\ Fault
  /\ poll' = [stage |-> "expire", table |-> "saved_requests", batch |-> {}]
  /\ UNCHANGED <<row, now, work, draft, edits, sent, unsaved, halted>>

\* Before its loop _main catches nothing: a store call that raises, or the lookup of the
\* channel of a rule just paused, ends the poll until the process starts again.
RecoverRaises ==
  /\ poll.stage = "starting"
  /\ Fault
  /\ poll' = [poll EXCEPT !.stage = "dead"]
  /\ \/ UNCHANGED row
     \/ /\ \E r \in Rules : row[r].lease # NoOwner
        /\ row' = [r \in Rules |-> recover_standing_lease(row[r])]
  /\ UNCHANGED <<now, work, draft, edits, sent, unsaved, halted>>

-----------------------------------------------------------------------------
(* One _execute task *)

Expired(w) == schedule_expired(work[w].snap.sched, now, work[w].snap.done)

\* Leaving async with lock and the task; the mutant forgets the lock.
TaskEndsLocked(w) == work' = [work EXCEPT ![w].stage = "free"]
TaskEnds(w) == work' = [work EXCEPT ![w] = Free]

Goes(w, stage) == work' = [work EXCEPT ![w].stage = stage]
Ends(w, status, ran) ==
  work' = [work EXCEPT ![w].stage = "finishing", ![w].todo = {}, ![w].target = Channel,
             ![w].reached = FALSE, ![w].result = [status |-> status, ran |-> ran]]

\* _execute_rule up to the member lock: the schedule ended, the destination is
\* gone, access is lost, or the run waits for the member's other runs.
CheckRule(w) ==
  /\ work[w].stage = "claimed"
  /\ \/ Expired(w) /\ Ends(w, "completed", FALSE)
     \/ ~Expired(w) /\ (Goes(w, "waiting") \/ Ends(w, "paused", FALSE))
  /\ UNCHANGED <<row, now, poll, draft, edits, faults, sent, unsaved, halted>>

\* Discord answers with a timeout or a 5xx: the lease is put back, the rule stays due.
DestinationUnavailable(w) ==
  /\ work[w].stage = "claimed" /\ ~Expired(w)
  /\ Fault
  /\ IF row[work[w].rule].lease = w
       THEN row' = [row EXCEPT ![work[w].rule] = release_standing(@)]
       ELSE UNCHANGED row
  /\ TaskEnds(w)
  /\ UNCHANGED <<now, poll, draft, edits, sent, unsaved, halted>>

\* Anything else that raises there leaves it to _execute to pause the rule.
RuleRaises(w) ==
  /\ work[w].stage = "claimed" /\ ~Expired(w)
  /\ Fault
  /\ work' = [work EXCEPT ![w].stage = "failing",
                          ![w].result = [NoResult EXCEPT !.status = "paused"]]
  /\ UNCHANGED <<row, now, poll, draft, edits, sent, unsaved, halted>>

LockFree(m) == \A v \in Owners : work[v].locked => Requester[work[v].rule] # m

\* async with lock; then the schedule is checked again.
TakeMemberLock(w) ==
  /\ work[w].stage = "waiting"
  /\ LockFree(Requester[work[w].rule])
  /\ IF Expired(w)
       THEN work' = [work EXCEPT ![w].stage = "finishing", ![w].locked = TRUE,
                       ![w].result = [NoResult EXCEPT !.status = "completed"]]
       ELSE work' = [work EXCEPT ![w].stage = "running", ![w].locked = TRUE,
                                 ![w].todo = targets(work[w].snap)]
  /\ UNCHANGED <<row, now, poll, draft, edits, faults, sent, unsaved, halted>>

\* recipient_allowed reads the row again before each DM; a channel post, an answer
\* or an alert is not checked again.
Allowed(w, t) ==
  LET rw == row[work[w].rule]
  IN  t = Channel \/ (/\ rw.status = "active" /\ t \in rw.members
                      /\ ~schedule_expired(rw.sched, now, rw.done))

ClearTarget(w, t) ==
  /\ work[w].stage = "running" /\ t \in work[w].todo
  /\ work' = IF Allowed(w, t)
               THEN [work EXCEPT ![w].todo = @ \ {t}, ![w].target = t, ![w].stage = "cleared"]
               ELSE [work EXCEPT ![w].todo = @ \ {t}]
  /\ UNCHANGED <<row, now, poll, draft, edits, faults, sent, unsaved, halted>>

\* The message goes out; a DM may also bounce.
Deliver(w) ==
  LET r == work[w].rule  t == work[w].target
  IN  /\ work[w].stage = "cleared"
      /\ \/ /\ sent' = [sent EXCEPT ![r][t] = @ + 1]
            /\ work' = [work EXCEPT ![w].stage = "running", ![w].target = Channel,
                                    ![w].reached = TRUE]
         \/ /\ t # Channel /\ UNCHANGED sent
            /\ work' = [work EXCEPT ![w].stage = "running", ![w].target = Channel]
      /\ UNCHANGED <<row, now, poll, draft, edits, faults, unsaved, halted>>

\* A request or watcher that ends without a message: nothing to alert about.
Quiet(w) ==
  /\ work[w].stage = "running" /\ Kind[work[w].rule] = "watcher"
  /\ work[w].todo = {Channel}
  /\ Ends(w, "next", TRUE)
  /\ UNCHANGED <<row, now, poll, draft, edits, faults, sent, unsaved, halted>>

\* Every target was tried. A reminder reads its row once more: it completes when the
\* rule was stopped meanwhile, and fails when nobody could be reached.
RunEnds(w) ==
  LET rw == row[work[w].rule]
      dm == work[w].snap.members # {}
      stopped == \/ rw.status # "active" \/ rw.members = {}
                 \/ schedule_expired(rw.sched, now, rw.done)
  IN  /\ work[w].stage = "running" /\ work[w].todo = {}
      /\ CASE dm /\ stopped                       -> Ends(w, "completed", TRUE)
           [] dm /\ ~stopped /\ ~work[w].reached  -> Ends(w, "paused", FALSE)
           [] dm /\ ~stopped /\ work[w].reached   -> Ends(w, "next", TRUE)
           [] OTHER ->
                \/ Ends(w, "next", TRUE)
                \/ Kind[work[w].rule] = "watcher" /\ Ends(w, "completed", TRUE)
      /\ UNCHANGED <<row, now, poll, draft, edits, faults, sent, unsaved, halted>>

\* Access lost, an undeliverable DM or any other failure, before or after a message.
RunFails(w) ==
  /\ work[w].stage \in {"running", "cleared"}
  /\ Fault
  /\ Ends(w, "paused", FALSE)
  /\ UNCHANGED <<row, now, poll, draft, edits, sent, unsaved, halted>>

\* AgentUnavailableError: the run is skipped and the rule stays active.
ModelUnavailable(w) ==
  /\ work[w].stage = "running" /\ Kind[work[w].rule] # "reminder"
  /\ work[w].todo = {Channel}
  /\ Fault
  /\ Ends(w, "active", FALSE)
  /\ UNCHANGED <<row, now, poll, draft, edits, sent, unsaved, halted>>

\* _finish: the next due time, and the status finish_standing is asked to set.
next_standing(w) ==
  LET snap == work[w].snap
      res  == work[w].result
      done == snap.done + (IF res.ran THEN 1 ELSE 0)
      next == next_occurrence(snap.sched, now, done)
      due  == IF res.status = "active" /\ next = NoTime THEN snap.due ELSE next
      status == IF res.status # "next" THEN res.status
                ELSE IF due # NoTime THEN "active" ELSE "completed"
      over == status = "completed" \/ schedule_expired(snap.sched, now, done)
  IN  [status |-> IF over THEN "completed" ELSE status, due |-> IF over THEN NoTime ELSE due]

Finish(w) ==
  LET r == work[w].rule
      res == work[w].result
      n == next_standing(w)
  IN  /\ work[w].stage \in {"finishing", "failing"}
      /\ IF row[r].lease = w
           THEN /\ row' = [row EXCEPT ![r] =
                             finish_standing(@, n.due, n.status, res.ran)]
                /\ IF row[r].due # row'[r].due THEN AskedAgain(r)
                                               ELSE UNCHANGED <<sent, unsaved>>
           ELSE UNCHANGED <<row, sent, unsaved>>
      /\ IF work[w].stage = "finishing" THEN TaskEnds(w) ELSE Goes(w, "releasing")
      /\ UNCHANGED <<now, poll, draft, edits, faults, halted>>

\* finish_standing raises: _execute pauses the rule instead, then releases it anyway.
FinishRaises(w) ==
  /\ work[w].stage \in {"finishing", "failing"}
  /\ Fault
  /\ work' = [work EXCEPT ![w].stage = IF @ = "finishing" THEN "failing" ELSE "releasing",
                          ![w].locked = FALSE,
                          ![w].result = [NoResult EXCEPT !.status = "paused"]]
  /\ unsaved' = IF work[w].stage = "failing" THEN [unsaved EXCEPT ![work[w].rule] = @ + 1]
                                             ELSE unsaved
  /\ UNCHANGED <<row, now, poll, draft, edits, sent, halted>>

\* The finally clause of _execute: release_standing, which may raise as well.
Release(w) ==
  LET r == work[w].rule
  IN  /\ work[w].stage = "releasing"
      /\ TaskEnds(w)
      /\ \/ /\ row' = IF row[r].lease = w THEN [row EXCEPT ![r] = release_standing(@)] ELSE row
            /\ UNCHANGED faults
         \/ Fault /\ UNCHANGED row
      /\ UNCHANGED <<now, poll, draft, edits, sent, unsaved, halted>>

-----------------------------------------------------------------------------
(* The clock and the process *)

Tick ==
  /\ now < MaxTime
  /\ now' = now + 1
  /\ UNCHANGED <<row, poll, work, draft, edits, faults, sent, unsaved, halted>>

\* The process dies and starts again: the tasks, the poll and the previews are gone.
Crash ==
  /\ Fault
  /\ poll' = [stage |-> "starting", table |-> "saved_requests", batch |-> {}]
  /\ work' = [w \in Owners |-> Free]
  /\ draft' = [r \in Rules |-> NoDraft]
  /\ UNCHANGED <<row, now, edits, sent, unsaved, halted>>

MemberStep ==
  \E r \in Rules :
    \/ \E s \in Schedules, ms \in SUBSET Members : PrepareSave(r, s, ms)
    \/ ConfirmSave(r)
    \/ \E status \in {"active", "paused", "cancelled"} : SetStanding(r, status)
    \/ \E m \in Members : StopReminder(r, m)

PollStep ==
  \/ Recover \/ ExpireStanding \/ ReadDue \/ EndPoll
  \/ \E item \in poll.batch, w \in Owners : ClaimStanding(item, w)

TaskStep(w) ==
  \/ CheckRule(w) \/ DestinationUnavailable(w) \/ RuleRaises(w) \/ TakeMemberLock(w)
  \/ \E t \in Targets : ClearTarget(w, t)
  \/ Deliver(w) \/ Quiet(w) \/ RunEnds(w) \/ RunFails(w) \/ ModelUnavailable(w)
  \/ Finish(w) \/ FinishRaises(w) \/ Release(w)

Next ==
  \/ MemberStep \/ PollStep \/ PollRaises \/ RecoverRaises
  \/ \E w \in Owners : TaskStep(w)
  \/ Tick \/ Crash

Spec == Init /\ [][Next]_vars

-----------------------------------------------------------------------------
(* Properties *)

TypeOK ==
  /\ row \in [Rules -> Row]
  /\ now \in Nat /\ edits \in Nat /\ faults \in Nat
  /\ poll \in [stage : {"starting", "expire", "read", "claim", "dead"}, table : Tables,
               batch : SUBSET Snapshot]
  /\ work \in [Owners -> Task]
  /\ draft \in [Rules -> Draft]
  /\ sent \in [Rules -> [Targets -> Nat]]
  /\ unsaved \in [Rules -> Nat]
  /\ halted \in [Rules -> BOOLEAN]

\* A rule never has two runs at once: not after a pause and resume during its run, a
\* release that comes late, or a restart (runner.py's lease, taken in claim_standing).
SameRuleNeverOverlaps ==
  \A v, w \in Owners :
    v # w /\ work[v].stage \in Leased /\ work[w].stage \in Leased
      => work[v].rule # work[w].rule

\* A run works on the rule the member last confirmed: the task keeps the row it read
\* before claiming, and nothing may replace the schedule or the count under it; only
\* recipients may leave.
RunsWhatIsSaved ==
  \A w \in Owners :
    LET t == work[w]
    IN  t.stage \in Leased =>
          /\ t.snap.sched = row[t.rule].sched /\ t.snap.done = row[t.rule].done
          /\ row[t.rule].members \subseteq t.snap.members

\* The version alone tells whether a rule changed: whoever kept a copy of a row (the
\* poll's batch, an open preview) and finds its version again holds the same row.
VersionNamesRow ==
  /\ \A item \in poll.batch :
       item.snap.version = row[item.rule].version => item.snap = row[item.rule]
  /\ \A r \in Rules :
       draft[r].open /\ draft[r].base.version = row[r].version => draft[r].base = row[r]

\* Nobody gets an occurrence twice unless a member resumed or saved the rule again: a
\* crash, a failed run or an outage after the message never repeats it by itself.  The
\* exception is a run whose end could not be stored twice in a row: _execute then
\* releases the lease and the rule is due as before.
DeliveredOnce ==
  \A r \in Rules, t \in Targets : sent[r][t] <= 1 + unsaved[r]

\* A rule its member paused or cancelled, or its last recipient stopped, does not
\* become active again until its member resumes or saves it: not when the run that was
\* under way finishes, not when a restart finds its lease.
HaltedRuleStaysHalted == \A r \in Rules : halted[r] => row[r].status # "active"

\* Two active rules of a member whose messages would come too close never both hold
\* a place in the schedule, whatever saves, resumes and runs happen side by side.
ActiveRulesKeepApart ==
  \A r, s \in Rules :
    r # s /\ <<r, s>> \in Clash /\ row[r].status = "active" /\ row[s].status = "active"
      => ~(Reserves(row[r]) /\ Reserves(row[s]))

\* What the pause notices promise with "Ask me to resume it.": an active rule that is
\* not running and has not ended has a time at which it runs next.
ActiveRuleHasNextRun ==
  \A r \in Rules :
    row[r].status = "active" /\ row[r].lease = NoOwner
      /\ ~schedule_expired(row[r].sched, now, row[r].done)
      => row[r].due # NoTime

\* What the event loop owes: the poll goes on, every task goes on, and the member
\* lock, a FIFO asyncio.Lock, is given to everyone who waits for it.
Fairness ==
  /\ WF_vars(PollStep)
  /\ \A w \in Owners : WF_vars(TaskStep(w)) /\ SF_vars(TakeMemberLock(w))

FairSpec == Spec /\ Fairness

\* Every run ends and frees its member's lock, also when runs of one member queue up.
EveryRunEnds ==
  \A w \in Owners : work[w].stage # "free" ~> work[w].stage = "free"

\* A rule that is due is claimed, or stops being due because a member changed it: no
\* rule is passed over for ever by the batch limit, stale versions, failed polls or
\* restarts.  The exception is a poll that died before its loop (RecoverRaises).
DueRuleIsTaken ==
  \A r \in Rules :
    due_standing(row[r], now) ~> ~due_standing(row[r], now) \/ poll.stage = "dead"
=============================================================================
