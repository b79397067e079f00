---------------------------- MODULE StandingStore ----------------------------
(***************************************************************************)
(* One row of the saved_requests and watchers tables, and what each        *)
(* statement of agent/scheduled/store.py makes of it.  Every writing method *)
(* of ScheduledStore runs in one BEGIN IMMEDIATE transaction, so a method   *)
(* is a pair: may_<method> is its WHERE clause and early returns, <method>  *)
(* the row it writes.  The modules that use a row decide when the methods   *)
(* are called and what else happens in between.                             *)
(*                                                                          *)
(* Abstracted: text, destinations and identifiers; timestamps other than    *)
(* the due time; notice_sent, which only spares a second outage notice;     *)
(* watcher results.                                                         *)
(***************************************************************************)
EXTENDS Integers

CONSTANTS
  Owners,      \* lease owners: the uuid each claim draws
  NoOwner,     \* the NULL of lease_owner
  Members,     \* recipients of reminder DMs
  Schedules    \* the schedules a member may choose

NoTime  == 0   \* NULL next_run_at / next_check_at, and a schedule without end_utc
NoLimit == 0   \* a schedule without "runs"

ASSUME OwnersAssumption == NoOwner \notin Owners

\* kind, first instant (at_utc or anchor_utc), period, end_utc and runs.
\* Weekly and monthly rules are repeating rules here: next_occurrences treats
\* them alike except for the arithmetic that finds the next instant.
ASSUME SchedulesAssumption ==
  /\ Schedules # {}
  /\ Schedules \subseteq [kind : {"once", "repeat"}, at : Nat \ {0},
                          every : Nat \ {0}, end : Nat, runs : Nat]

Statuses == {"absent", "active", "paused", "cancelled", "completed"}

Row == [status : Statuses, due : Nat, version : Nat, lease : Owners \cup {NoOwner},
        sched : Schedules, done : Nat, members : SUBSET Members]

AbsentRow == [status |-> "absent", due |-> NoTime, version |-> 0, lease |-> NoOwner,
              sched |-> CHOOSE s \in Schedules : TRUE, done |-> 0, members |-> {}]

-----------------------------------------------------------------------------
(* time_rules.py *)

schedule_expired(s, now, done) ==
  \/ s.end # NoTime /\ now > s.end
  \/ s.runs # NoLimit /\ done >= s.runs

\* The first instant strictly after "after", or NoTime when a one-off passed.
unbounded_occurrence(s, after) ==
  IF after < s.at           THEN s.at
  ELSE IF s.kind = "once"   THEN NoTime
  ELSE s.at + ((after - s.at) \div s.every + 1) * s.every

next_occurrence(s, after, done) ==
  LET t == unbounded_occurrence(s, after)
  IN  IF schedule_expired(s, after, done) \/ (s.end # NoTime /\ t > s.end)
        THEN NoTime ELSE t

-----------------------------------------------------------------------------
(* store.py *)

create_standing(s, due, members) ==
  [AbsentRow EXCEPT !.status = "active", !.due = due, !.sched = s, !.members = members]

\* Mutant: a status change that keeps the version.
set_standing_status_unversioned(row, status) == [row EXCEPT !.status = status]

may_set_standing_status(row) == row.status \in {"active", "paused"}
set_standing_status(row, status) ==
  [row EXCEPT !.status = status, !.version = @ + 1]

\* Mutant: replaces a rule under its run.
may_replace_standing_leased(row, expected_version) ==
  row.version = expected_version /\ row.status \notin {"absent", "cancelled"}

may_replace_standing(row, expected_version) ==
  /\ row.version = expected_version
  /\ row.status \notin {"absent", "cancelled"}
  /\ row.lease = NoOwner
replace_standing(row, s, due, members) ==
  [row EXCEPT !.sched = s, !.done = 0, !.members = members, !.due = due,
              !.status = "active", !.version = @ + 1]

\* Mutant: leased rules are due as well.
due_standing_leased(row, now) ==
  row.status = "active" /\ row.due # NoTime /\ row.due <= now

\* The WHERE clause due_standing selects with and claim_standing checks again.
due_standing(row, now) ==
  row.status = "active" /\ row.due # NoTime /\ row.due <= now /\ row.lease = NoOwner

\* Mutant: a run that is late is never claimed.
may_claim_standing_on_time(row, version, now) ==
  row.version = version /\ due_standing(row, now) /\ row.due = now

may_claim_standing(row, version, now) == row.version = version /\ due_standing(row, now)
claim_standing(row, owner) == [row EXCEPT !.lease = owner, !.version = @ + 1]

expire_standing(row, now) ==
  IF /\ row.status \in {"active", "paused"}
     /\ row.lease = NoOwner
     /\ schedule_expired(row.sched, now, row.done)
    THEN [row EXCEPT !.status = "completed", !.due = NoTime, !.version = @ + 1]
    ELSE row

\* Mutants: a restart retries the run, or marks it the way action runs are marked.
recover_standing_lease_retrying(row) ==
  IF row.lease = NoOwner THEN row
    ELSE [row EXCEPT !.lease = NoOwner, !.version = @ + 1]
recover_standing_lease_interrupted(row) ==
  IF row.lease = NoOwner THEN row
    ELSE [row EXCEPT !.status = "interrupted", !.lease = NoOwner, !.version = @ + 1]

\* Whatever its status, a row that was leased when the process died is paused.
recover_standing_lease(row) ==
  IF row.lease = NoOwner THEN row
    ELSE [row EXCEPT !.status = "paused", !.lease = NoOwner, !.version = @ + 1]

\* Mutant: the end of the run overwrites a pause or cancel.
finish_standing_overwriting(row, next_at, status, ran) ==
  [row EXCEPT !.due = next_at, !.status = status, !.lease = NoOwner,
              !.version = @ + 1, !.done = IF ran THEN @ + 1 ELSE @]

finish_standing(row, next_at, status, ran) ==
  [row EXCEPT !.due = IF row.status = "completed" THEN NoTime ELSE next_at,
              !.status = IF @ \in {"paused", "cancelled", "completed"} THEN @ ELSE status,
              !.lease = NoOwner, !.version = @ + 1,
              !.done = IF ran THEN @ + 1 ELSE @]

release_standing(row) == [row EXCEPT !.lease = NoOwner, !.version = @ + 1]

may_stop_reminder_recipient(row, m) == row.sched.kind # "once" /\ m \in row.members
stop_reminder_recipient(row, m) ==
  LET empty == row.members = {m}
  IN  [row EXCEPT !.members = @ \ {m}, !.version = @ + 1,
                  !.status = IF empty THEN "completed" ELSE @,
                  !.due = IF empty THEN NoTime ELSE @]
=============================================================================
