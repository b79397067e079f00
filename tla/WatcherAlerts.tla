----------------------------- MODULE WatcherAlerts -----------------------------
(***************************************************************************)
(* One watcher: a condition over data that is read again and again, and the *)
(* alert when the condition starts to hold (agent/scheduled: requests.py,   *)
(* watchers.py, runner.py, store.py).  StandingRules has the rows, leases   *)
(* and polls of every rule; this module has what a check reads, asks and    *)
(* remembers, and what the member's edits do to it.                         *)
(*                                                                          *)
(* Abstracted: the data is one value, a condition is the values it holds    *)
(* for, and the model's verdict is right.  While a check has the lease the  *)
(* row's rule, result and holding stay: replace_standing wants no lease.    *)
(***************************************************************************)
EXTENDS Naturals

CONSTANTS
  Values, Conditions,  \* the data, and the sets of values that are watched for
  NoValue,             \* last_result before the first check
  MaxEdits, MaxFaults  \* bounds: edits by the member, failed checks and restarts

ASSUME WatcherAssumption ==
  /\ Conditions \subseteq SUBSET Values /\ NoValue \notin Values
  /\ MaxEdits \in Nat /\ MaxFaults \in Nat

VARIABLES
  data,           \* what a lookup would find
  watcher,        \* the row
  check,          \* the task of the run
  told,           \* was the member alerted since the condition was last seen not to hold
  replaced,       \* did the member put another rule on the row
  edits, faults

watcherVars == <<data, watcher, check, told, replaced, edits, faults>>

NoCheck == [stage |-> "none", saw |-> NoValue]

WatcherInit ==
  /\ data \in Values
  /\ watcher \in [status : {"active"}, condition : Conditions, repeat : BOOLEAN,
                  last_result : {NoValue}, holding : {FALSE}, leased : {FALSE}]
  /\ check = NoCheck
  /\ told = "no" /\ replaced = FALSE /\ edits = 0 /\ faults = 0

Edit  == edits < MaxEdits /\ edits' = edits + 1
Fault == faults < MaxFaults /\ faults' = faults + 1

DataChanges ==
  /\ data' \in Values \ {data}
  /\ UNCHANGED <<watcher, check, told, replaced, edits, faults>>

\* claim_standing; whether it is due is left to StandingRules.
ClaimCheck ==
  /\ watcher.status = "active" /\ ~watcher.leased
  /\ watcher' = [watcher EXCEPT !.leased = TRUE]
  /\ check' = [stage |-> "read", saw |-> NoValue]
  /\ UNCHANGED <<data, told, replaced, edits, faults>>

\* read_current
ReadCurrent ==
  /\ check.stage = "read"
  /\ check' = [stage |-> "judge", saw |-> data]
  /\ UNCHANGED <<data, watcher, told, replaced, edits, faults>>

\* Mutant: the lease stays.
finished_held(status, result, h) ==
  [watcher EXCEPT !.status = IF watcher.status = "active" THEN status ELSE @,
                  !.last_result = result, !.holding = h]
\* finish_standing, of a check that went well: a pause or a cancellation meanwhile stays.
finished(status, result, h) == [finished_held(status, result, h) EXCEPT !.leased = FALSE]
\* The same, when the run failed: result and holding are those of the row.
failed(status) == finished(status, watcher.last_result, watcher.holding)

same_result == check.saw = watcher.last_result
holds       == check.saw \in watcher.condition

starts      == holds /\ ~watcher.holding

\* check_watcher: nothing new, nothing that starts, or an alert to send.
Unchanged ==
  /\ check.stage = "judge" /\ same_result
  /\ watcher' = finished("active", check.saw, watcher.holding) /\ check' = NoCheck
  /\ UNCHANGED <<data, told, replaced, edits, faults>>

Judge ==
  /\ check.stage = "judge" /\ ~same_result
  /\ told' = (IF holds THEN told ELSE "no")
  /\ IF starts THEN check' = [check EXCEPT !.stage = "alert"] /\ UNCHANGED watcher
       ELSE watcher' = finished("active", check.saw, holds) /\ check' = NoCheck
  /\ UNCHANGED <<data, replaced, edits, faults>>

\* The lookup or the verdict fails: paused; without a model the next check tries again.
CheckFails ==
  /\ Fault /\ check' = NoCheck
  /\ \/ check.stage = "read" /\ watcher' = failed("paused")
     \/ check.stage = "judge" /\ ~same_result /\ watcher' \in {failed("paused"), failed("active")}
  /\ UNCHANGED <<data, told, replaced, edits>>

\* send_alert, then what ScheduledResult says.
Alert ==
  /\ check.stage = "alert"
  /\ told' = "yes" /\ check' = [check EXCEPT !.stage = "sent"]
  /\ UNCHANGED <<data, watcher, replaced, edits, faults>>

\* Mutant: what was seen is kept although the member was not told.
alert_failed_kept == finished("paused", check.saw, TRUE)
alert_failed      == failed("paused")

\* Discord refuses the alert, or a later part of it.
AlertFails ==
  /\ check.stage = "alert" /\ Fault
  /\ told' \in {told, "cut"}
  /\ watcher' = alert_failed /\ check' = NoCheck
  /\ UNCHANGED <<data, replaced, edits>>

after_alert == finished(IF watcher.repeat THEN "active" ELSE "completed", check.saw, TRUE)

FinishAlert ==
  /\ check.stage = "sent"
  /\ watcher' = after_alert /\ check' = NoCheck
  /\ UNCHANGED <<data, told, replaced, edits, faults>>

\* The alert is out and storing it fails; _execute pauses the row.
StoringFails ==
  /\ check.stage = "sent" /\ Fault
  /\ told' = "cut"
  /\ watcher' = failed("paused") /\ check' = NoCheck
  /\ UNCHANGED <<data, replaced, edits>>

\* The process dies and recover_standing_leases pauses the row.
RestartCheck ==
  /\ watcher.leased /\ Fault
  /\ watcher' = [watcher EXCEPT !.status = "paused", !.leased = FALSE] /\ check' = NoCheck
  /\ told' = (IF check.stage = "sent" THEN "cut" ELSE told)
  /\ UNCHANGED <<data, replaced, edits>>

-----------------------------------------------------------------------------
(* The member *)

\* set_standing_status
SetStatus(status) ==
  /\ watcher.status \in {"active", "paused"} /\ watcher.status # status /\ Edit
  /\ watcher' = [watcher EXCEPT !.status = status]
  /\ UNCHANGED <<data, check, told, replaced, faults>>

\* replace_standing: a new rule on the same row, also on one that is completed; what the
\* old rule saw stays.
Replace ==
  /\ watcher.status # "cancelled" /\ ~watcher.leased /\ Edit
  /\ \E c \in Conditions, repeat \in BOOLEAN :
       watcher' = [watcher EXCEPT !.status = "active", !.condition = c, !.repeat = repeat]
  /\ told' = "no" /\ replaced' = TRUE
  /\ UNCHANGED <<data, check, faults>>

WatcherNext ==
  \/ DataChanges \/ ClaimCheck \/ ReadCurrent \/ Unchanged \/ Judge \/ CheckFails \/ Alert
  \/ AlertFails \/ FinishAlert \/ StoringFails \/ RestartCheck
  \/ \E status \in {"active", "paused", "cancelled"} : SetStatus(status)
  \/ Replace

WatcherSpec == WatcherInit /\ [][WatcherNext]_watcherVars

-----------------------------------------------------------------------------
(* Properties *)

WatcherTypeOK ==
  /\ data \in Values
  /\ watcher \in [status : {"active", "paused", "completed", "cancelled"}, condition : Conditions,
                  repeat : BOOLEAN, last_result : Values \cup {NoValue}, holding : BOOLEAN,
                  leased : BOOLEAN]
  /\ check \in [stage : {"none", "read", "judge", "alert", "sent"}, saw : Values \cup {NoValue}]
  /\ watcher.leased = (check # NoCheck)
  /\ told \in {"no", "cut", "yes"} /\ replaced \in BOOLEAN
  /\ edits \in 0..MaxEdits /\ faults \in 0..MaxFaults

\* What is stored as holding was told: as long as a watcher keeps its rule, no failure,
\* restart or pause makes it remember a condition whose alert the member did not get.
HoldingWasTold == watcher.holding /\ ~replaced => told # "no"

\* A condition that goes on holding is news once: it is told again only where the first
\* alert was cut off before it was stored.
AlertsAreNews == check.stage = "alert" /\ check'.stage = "sent" => told # "yes"

\* A check that sees the condition hold ends with the member told, now or before.  (A rule
\* that was put on the row of another may take over that one's result, and stay silent.)
SeenIsTold == (Unchanged \/ Judge) /\ holds /\ ~watcher'.leased /\ ~replaced => told' # "no"

\* A condition that holds is told once: no check passes over it, every alert is news, and none
\* is remembered that was not told, whatever failed, was edited or restarted in between.
AlertsTellNews == [][AlertsAreNews /\ SeenIsTold /\ HoldingWasTold']_watcherVars
=============================================================================
