------------------------- MODULE StandingRulesProofs -------------------------
(* Proofs about StandingRules for every number of rules, members, lease owners, *)
(* schedules, faults and edits.                                                 *)
EXTENDS StandingRules, TLAPS

\* The time rules return an instant or NoTime, never a negative number or a fraction.
LEMMA OccurrenceType ==
  ASSUME NEW s \in Schedules, NEW after \in Nat, NEW done \in Nat
  PROVE  next_occurrence(s, after, done) \in Nat
<1> DEFINE late == after - s.at
           runs == late \div s.every
<1>1. s.at \in Nat \ {0} /\ s.every \in Nat \ {0}
  BY SchedulesAssumption
<1>2. after >= s.at => runs \in Nat
  <2> SUFFICES ASSUME after >= s.at PROVE runs \in Nat
    OBVIOUS
  <2>1. late \in Nat
    BY <1>1
  <2> HIDE DEF late
  <2> QED
    BY <1>1, <2>1
<1>3. ASSUME runs \in Nat PROVE s.at + (runs + 1) * s.every \in Nat
  <2> HIDE DEF runs
  <2> QED
    BY <1>1, <1>3
<1>4. unbounded_occurrence(s, after) \in Nat
  BY <1>1, <1>2, <1>3 DEF unbounded_occurrence, NoTime
<1> QED
  BY <1>4 DEF next_occurrence, NoTime

\* A row nobody saved is a row.
LEMMA AbsentRowType == AbsentRow \in Row
<1>1. (CHOOSE s \in Schedules : TRUE) \in Schedules
  BY SchedulesAssumption
<1> QED
  BY <1>1 DEF AbsentRow, Row, Statuses, NoTime

\* A row keeps its type when one column is set.
LEMMA ColumnTypes ==
  ASSUME NEW rw \in Row
  PROVE  /\ \A x \in Statuses : [rw EXCEPT !.status = x] \in Row
         /\ \A x \in Nat : [rw EXCEPT !.due = x] \in Row
         /\ \A x \in Nat : [rw EXCEPT !.version = x] \in Row
         /\ \A x \in Owners \cup {NoOwner} : [rw EXCEPT !.lease = x] \in Row
         /\ \A x \in Schedules : [rw EXCEPT !.sched = x] \in Row
         /\ \A x \in Nat : [rw EXCEPT !.done = x] \in Row
         /\ \A x \in SUBSET Members : [rw EXCEPT !.members = x] \in Row
BY DEF Row

\* Every statement of the store leaves a row of the table's type.
LEMMA StoreTypes ==
  ASSUME NEW rw \in Row
  PROVE  /\ \A s \in Schedules, due \in Nat, ms \in SUBSET Members :
              create_standing(s, due, ms) \in Row /\ replace_standing(rw, s, due, ms) \in Row
         /\ \A w \in Owners : claim_standing(rw, w) \in Row
         /\ \A t \in Nat : expire_standing(rw, t) \in Row
         /\ recover_standing_lease(rw) \in Row
         /\ release_standing(rw) \in Row
         /\ \A m \in Members : stop_reminder_recipient(rw, m) \in Row
         /\ \A st \in Statuses : set_standing_status(rw, st) \in Row
         /\ \A due \in Nat, st \in Statuses, ran \in BOOLEAN :
              finish_standing(rw, due, st, ran) \in Row
<1>1. /\ rw.version + 1 \in Nat /\ rw.done + 1 \in Nat /\ rw.done \in Nat /\ rw.due \in Nat
      /\ rw.status \in Statuses /\ rw.members \in SUBSET Members
  BY DEF Row
<1>2. {"active", "paused", "cancelled", "completed"} \subseteq Statuses /\ NoTime \in Nat
  BY DEF Statuses, NoTime
<1>3. ASSUME NEW s \in Schedules, NEW due \in Nat, NEW ms \in SUBSET Members
      PROVE  create_standing(s, due, ms) \in Row /\ replace_standing(rw, s, due, ms) \in Row
  <2>1. create_standing(s, due, ms) \in Row
    BY AbsentRowType, ColumnTypes, <1>2 DEF create_standing
  <2>2. replace_standing(rw, s, due, ms) \in Row
    BY ColumnTypes, <1>1, <1>2 DEF replace_standing
  <2> QED
    BY <2>1, <2>2
<1>4. ASSUME NEW w \in Owners PROVE claim_standing(rw, w) \in Row
  BY ColumnTypes, <1>1 DEF claim_standing
<1>5. ASSUME NEW t \in Nat PROVE expire_standing(rw, t) \in Row
  BY ColumnTypes, <1>1, <1>2 DEF expire_standing
<1>6. recover_standing_lease(rw) \in Row /\ release_standing(rw) \in Row
  BY ColumnTypes, <1>1, <1>2 DEF recover_standing_lease, release_standing
<1>7. ASSUME NEW m \in Members PROVE stop_reminder_recipient(rw, m) \in Row
  BY ColumnTypes, <1>1, <1>2 DEF stop_reminder_recipient
<1>8. ASSUME NEW st \in Statuses PROVE set_standing_status(rw, st) \in Row
  BY ColumnTypes, <1>1 DEF set_standing_status
<1>9. ASSUME NEW due \in Nat, NEW st \in Statuses, NEW ran \in BOOLEAN
      PROVE  finish_standing(rw, due, st, ran) \in Row
  <2>1. /\ (IF rw.status = "completed" THEN NoTime ELSE due) \in Nat
        /\ (IF rw.status \in {"paused", "cancelled", "completed"} THEN rw.status ELSE st)
             \in Statuses
        /\ (IF ran THEN rw.done + 1 ELSE rw.done) \in Nat
    BY <1>1, <1>2
  <2> QED
    BY ColumnTypes, <1>1, <2>1 DEF finish_standing
<1> QED
  BY <1>3, <1>4, <1>5, <1>6, <1>7, <1>8, <1>9

-----------------------------------------------------------------------------
(* Types of the whole state *)

Tasks == [Owners -> Task]

\* The task table keeps its type when one field of one task is set.
LEMMA FieldTypes ==
  ASSUME NEW wk \in Tasks, NEW w \in Owners
  PROVE  /\ \A x \in Stages : [wk EXCEPT ![w].stage = x] \in Tasks
         /\ \A x \in Rules : [wk EXCEPT ![w].rule = x] \in Tasks
         /\ \A x \in Row : [wk EXCEPT ![w].snap = x] \in Tasks
         /\ \A x \in BOOLEAN : [wk EXCEPT ![w].locked = x] \in Tasks
         /\ \A x \in SUBSET Targets : [wk EXCEPT ![w].todo = x] \in Tasks
         /\ \A x \in Targets : [wk EXCEPT ![w].target = x] \in Tasks
         /\ \A x \in BOOLEAN : [wk EXCEPT ![w].reached = x] \in Tasks
         /\ \A x \in Result : [wk EXCEPT ![w].result = x] \in Tasks
         /\ \A x \in Task : [wk EXCEPT ![w] = x] \in Tasks
<1>1. wk[w] \in Task
  BY DEF Tasks
<1>2. /\ \A x \in Stages : [wk[w] EXCEPT !.stage = x] \in Task
      /\ \A x \in Rules : [wk[w] EXCEPT !.rule = x] \in Task
      /\ \A x \in Row : [wk[w] EXCEPT !.snap = x] \in Task
      /\ \A x \in BOOLEAN : [wk[w] EXCEPT !.locked = x] \in Task
      /\ \A x \in SUBSET Targets : [wk[w] EXCEPT !.todo = x] \in Task
      /\ \A x \in Targets : [wk[w] EXCEPT !.target = x] \in Task
      /\ \A x \in BOOLEAN : [wk[w] EXCEPT !.reached = x] \in Task
      /\ \A x \in Result : [wk[w] EXCEPT !.result = x] \in Task
  BY <1>1 DEF Task
<1>3. \A x \in Task : [wk EXCEPT ![w] = x] \in Tasks
  BY DEF Tasks
<1> QED
  BY <1>2, <1>3

\* The values tasks and previews start with have the types of tasks and previews.
LEMMA ConstantTypes ==
  /\ NoRule \in Rules /\ Channel \in Targets /\ NoResult \in Result
  /\ Free \in Task /\ NoDraft \in Draft
<1>1. NoRule \in Rules
  BY RulesAssumption DEF NoRule
<1>2. Channel \in Targets /\ NoResult \in Result
  BY DEF Targets, NoResult, Result
<1>3. Free \in Task
  BY <1>1, <1>2, AbsentRowType DEF Free, Task, Stages
<1>4. AbsentRow.sched \in Schedules
  BY AbsentRowType DEF Row
<1>5. NoDraft \in Draft
  BY <1>4, AbsentRowType DEF NoDraft, Draft, NoTime
<1> QED
  BY <1>1, <1>2, <1>3, <1>5

\* The empty database and the idle runner have their types.
LEMMA TypeInit == Init => TypeOK
<1> SUFFICES ASSUME Init PROVE TypeOK
  OBVIOUS
<1>1. row \in [Rules -> Row] /\ work \in [Owners -> Task] /\ draft \in [Rules -> Draft]
  BY AbsentRowType, ConstantTypes DEF Init
<1>2. poll \in [stage : {"starting", "expire", "read", "claim", "dead"}, table : Tables,
                batch : SUBSET Snapshot]
  BY DEF Init, Tables
<1>3. sent \in [Rules -> [Targets -> Nat]] /\ unsaved \in [Rules -> Nat]
      /\ halted \in [Rules -> BOOLEAN] /\ now \in Nat /\ edits \in Nat /\ faults \in Nat
  BY DEF Init
<1> QED
  BY <1>1, <1>2, <1>3 DEF TypeOK

\* Leaving a run keeps the type of the tasks, and so does every step within one.
LEMMA TaskMoveTypes ==
  ASSUME TypeOK, NEW w \in Owners
  PROVE  /\ TaskEnds(w) => work' \in Tasks
         /\ \A stage \in Stages : Goes(w, stage) => work' \in Tasks
         /\ \A st \in {"active", "paused", "completed", "next"}, ran \in BOOLEAN :
              Ends(w, st, ran) => work' \in Tasks
<1>1. work \in Tasks
  BY DEF TypeOK, Tasks
<1>2. [work EXCEPT ![w] = Free] \in Tasks
  BY <1>1, FieldTypes, ConstantTypes
<1>3. \A stage \in Stages : [work EXCEPT ![w].stage = stage] \in Tasks
  BY <1>1, FieldTypes
<1>4. ASSUME NEW st \in {"active", "paused", "completed", "next"}, NEW ran \in BOOLEAN,
             Ends(w, st, ran)
      PROVE  work' \in Tasks
  <2>1. [status |-> st, ran |-> ran] \in Result
    BY DEF Result
  <2>2. "finishing" \in Stages /\ {} \in SUBSET Targets /\ FALSE \in BOOLEAN
    BY DEF Stages
  <2> QED
    BY <1>1, <1>4, <2>1, <2>2, FieldTypes, ConstantTypes DEF Ends
<1> QED
  BY <1>2, <1>3, <1>4 DEF TaskEnds, Goes

\* What a run is finished with.
LEMMA NextStandingType ==
  ASSUME TypeOK, NEW w \in Owners
  PROVE  /\ next_standing(w).due \in Nat
         /\ next_standing(w).status \in {"active", "paused", "completed"}
<1>1. work[w].snap \in Row /\ work[w].result \in Result /\ now \in Nat
  BY DEF TypeOK, Task
<1>2. work[w].snap.sched \in Schedules /\ work[w].snap.done \in Nat /\ work[w].snap.due \in Nat
  BY <1>1 DEF Row
<1> DEFINE done == work[w].snap.done + (IF work[w].result.ran THEN 1 ELSE 0)
<1>3. done \in Nat
  BY <1>2
<1> HIDE DEF done
<1>4. next_occurrence(work[w].snap.sched, now, done) \in Nat
  BY <1>1, <1>2, <1>3, OccurrenceType
<1>5. work[w].result.status \in {"active", "paused", "completed", "next"}
  BY <1>1 DEF Result
<1> QED
  BY <1>2, <1>4, <1>5 DEF next_standing, NoTime, done

\* Every step keeps the type of the state: one step of the proof per action.
LEMMA TypeNext == TypeOK /\ [Next]_vars => TypeOK'
<1> SUFFICES ASSUME TypeOK, [Next]_vars PROVE TypeOK'
  OBVIOUS
<1> DEFINE Rows == [Rules -> Row]
<1>1. /\ row \in Rows /\ work \in Tasks /\ now \in Nat /\ edits \in Nat /\ faults \in Nat
      /\ sent \in [Rules -> [Targets -> Nat]] /\ unsaved \in [Rules -> Nat]
      /\ halted \in [Rules -> BOOLEAN] /\ draft \in [Rules -> Draft]
      /\ poll \in [stage : {"starting", "expire", "read", "claim", "dead"}, table : Tables,
                   batch : SUBSET Snapshot]
  BY DEF TypeOK, Tasks
<1>2. ASSUME NEW r \in Rules, AskedAgain(r)
      PROVE  sent' \in [Rules -> [Targets -> Nat]] /\ unsaved' \in [Rules -> Nat]
  BY <1>1, <1>2 DEF AskedAgain
<1>3. /\ Edit => edits' \in Nat
      /\ Fault => faults' \in Nat
  BY <1>1 DEF Edit, Fault
<1>4. ASSUME NEW r \in Rules, NEW s \in Schedules, NEW ms \in SUBSET Members,
             PrepareSave(r, s, ms)
      PROVE  TypeOK'
  <2> DEFINE due == next_occurrence(s, now, 0)
             d == [open |-> TRUE, base |-> row[r], sched |-> s, due |-> due, members |-> ms]
  <2>1. due \in Nat
    BY <1>1, OccurrenceType
  <2> HIDE DEF due
  <2>2. d \in Draft
    BY <1>1, <2>1 DEF Draft
  <2>3. draft' = [draft EXCEPT ![r] = d]
    BY <1>4 DEF PrepareSave, due
  <2> QED
    BY <1>1, <1>3, <1>4, <2>2, <2>3 DEF PrepareSave, TypeOK, Tasks
<1>5. ASSUME NEW r \in Rules, ConfirmSave(r) PROVE TypeOK'
  <2>1. draft[r].sched \in Schedules /\ draft[r].due \in Nat /\ draft[r].members \in SUBSET Members
    BY <1>1 DEF Draft
  <2>2. /\ create_standing(draft[r].sched, draft[r].due, draft[r].members) \in Row
        /\ replace_standing(row[r], draft[r].sched, draft[r].due, draft[r].members) \in Row
    BY <1>1, <2>1, StoreTypes
  <2>3. draft' \in [Rules -> Draft]
    BY <1>1, <1>5, ConstantTypes DEF ConfirmSave
  <2>4. CASE UNCHANGED <<row, halted, sent, unsaved>>
    BY <1>1, <1>5, <2>3, <2>4 DEF ConfirmSave, TypeOK, Tasks
  <2>5. CASE /\ row' = [row EXCEPT ![r] =
                  IF draft[r].base.status = "absent"
                    THEN create_standing(draft[r].sched, draft[r].due, draft[r].members)
                    ELSE replace_standing(row[r], draft[r].sched, draft[r].due, draft[r].members)]
             /\ halted' = [halted EXCEPT ![r] = FALSE]
             /\ AskedAgain(r)
    <3>1. row' \in Rows /\ halted' \in [Rules -> BOOLEAN]
      BY <1>1, <2>2, <2>5
    <3> QED
      BY <1>1, <1>2, <1>5, <2>3, <2>5, <3>1 DEF ConfirmSave, TypeOK, Tasks
  <2> QED
    BY <1>5, <2>4, <2>5 DEF ConfirmSave
<1>6. ASSUME NEW r \in Rules, NEW st \in {"active", "paused", "cancelled"}, SetStanding(r, st)
      PROVE  TypeOK'
  <2>1. set_standing_status(row[r], st) \in Row
    BY <1>1, StoreTypes DEF Statuses
  <2>2. row' \in Rows /\ halted' \in [Rules -> BOOLEAN]
    BY <1>1, <1>6, <2>1 DEF SetStanding
  <2>3. sent' \in [Rules -> [Targets -> Nat]] /\ unsaved' \in [Rules -> Nat]
    BY <1>1, <1>2, <1>6 DEF SetStanding
  <2> QED
    BY <1>1, <1>3, <1>6, <2>2, <2>3 DEF SetStanding, TypeOK, Tasks
<1>7. ASSUME NEW r \in Rules, NEW m \in Members, StopReminder(r, m) PROVE TypeOK'
  <2>1. stop_reminder_recipient(row[r], m) \in Row
    BY <1>1, StoreTypes
  <2>2. row' \in Rows
    BY <1>1, <1>7, <2>1 DEF StopReminder
  <2>3. halted' \in [Rules -> BOOLEAN]
    BY <1>1, <1>7 DEF StopReminder
  <2> QED
    BY <1>1, <1>3, <1>7, <2>2, <2>3 DEF StopReminder, TypeOK, Tasks
<1>8. CASE Recover
  <2>1. row' \in Rows
    BY <1>1, <1>8, StoreTypes DEF Recover
  <2>2. poll' \in [stage : {"starting", "expire", "read", "claim", "dead"}, table : Tables,
                   batch : SUBSET Snapshot]
    BY <1>1, <1>8 DEF Recover
  <2> QED
    BY <1>1, <1>8, <2>1, <2>2 DEF Recover, TypeOK, Tasks
<1>9. CASE ExpireStanding
  <2>1. row' \in Rows
    BY <1>1, <1>9, StoreTypes DEF ExpireStanding
  <2>2. poll' \in [stage : {"starting", "expire", "read", "claim", "dead"}, table : Tables,
                   batch : SUBSET Snapshot]
    BY <1>1, <1>9 DEF ExpireStanding
  <2> QED
    BY <1>1, <1>9, <2>1, <2>2 DEF ExpireStanding, TypeOK, Tasks
<1>10. CASE ReadDue
  <2>1. PICK first \in SUBSET Rules :
          poll' = [poll EXCEPT !.stage = "claim",
                               !.batch = {[rule |-> r, snap |-> row[r]] : r \in first}]
    BY <1>10 DEF ReadDue
  <2>2. {[rule |-> r, snap |-> row[r]] : r \in first} \in SUBSET Snapshot
    BY <1>1 DEF Snapshot
  <2> QED
    BY <1>1, <1>10, <2>1, <2>2 DEF ReadDue, TypeOK, Tasks
<1>11. ASSUME NEW item \in poll.batch, NEW w \in Owners, ClaimStanding(item, w) PROVE TypeOK'
  <2>1. item.rule \in Rules /\ item.snap \in Row
    BY <1>1 DEF Snapshot
  <2>2. claim_standing(row[item.rule], w) \in Row
    BY <1>1, <2>1, StoreTypes
  <2>3. [Free EXCEPT !.stage = "claimed", !.rule = item.rule, !.snap = item.snap] \in Task
    <3> DEFINE a == [Free EXCEPT !.stage = "claimed"]
               b == [a EXCEPT !.rule = item.rule]
    <3>1. a \in Task
      BY ConstantTypes DEF Task, Stages
    <3>2. b \in Task
      BY <2>1, <3>1 DEF Task
    <3>3. [b EXCEPT !.snap = item.snap] \in Task
      BY <2>1, <3>2 DEF Task
    <3> QED
      BY <3>3
  <2>4. row' \in Rows
    BY <1>1, <1>11, <2>1, <2>2 DEF ClaimStanding
  <2>5. work' \in Tasks
    <3>1. CASE UNCHANGED work
      BY <1>1, <3>1
    <3>2. CASE work' = [work EXCEPT ![w] = [Free EXCEPT !.stage = "claimed",
                                              !.rule = item.rule, !.snap = item.snap]]
      BY <1>1, <2>3, <3>2, FieldTypes
    <3> QED
      BY <1>11, <3>1, <3>2 DEF ClaimStanding
  <2>6. poll' \in [stage : {"starting", "expire", "read", "claim", "dead"}, table : Tables,
                   batch : SUBSET Snapshot]
    BY <1>1, <1>11 DEF ClaimStanding
  <2> QED
    BY <1>1, <1>11, <2>4, <2>5, <2>6 DEF ClaimStanding, TypeOK, Tasks
<1>12. CASE EndPoll
  <2>1. (CHOOSE t \in Tables : t # poll.table) \in Tables
    <3>1. \E t \in Tables : t # poll.table
      BY DEF Tables
    <3> QED
      BY <3>1
  <2> QED
    BY <1>1, <1>12, <2>1 DEF EndPoll, TypeOK, Tasks
<1>13. ASSUME NEW w \in Owners, CheckRule(w) PROVE TypeOK'
  <2>1. work' \in Tasks
    BY <1>13, TaskMoveTypes DEF CheckRule, Stages
  <2> QED
    BY <1>1, <1>13, <2>1 DEF CheckRule, TypeOK, Tasks
<1>14. ASSUME NEW w \in Owners, DestinationUnavailable(w) PROVE TypeOK'
  <2>1. work[w].rule \in Rules
    BY <1>1 DEF Tasks, Task
  <2>2. row' \in Rows
    BY <1>1, <1>14, <2>1, StoreTypes DEF DestinationUnavailable
  <2>3. work' \in Tasks
    BY <1>14, TaskMoveTypes DEF DestinationUnavailable
  <2> QED
    BY <1>1, <1>3, <1>14, <2>2, <2>3 DEF DestinationUnavailable, TypeOK, Tasks
<1>15. ASSUME NEW w \in Owners, TakeMemberLock(w) PROVE TypeOK'
  <2>1. /\ [NoResult EXCEPT !.status = "completed"] \in Result
        /\ {"finishing", "running"} \subseteq Stages
    BY DEF NoResult, Result, Stages
  <2>2. targets(work[w].snap) \in SUBSET Targets
    <3>1. work[w].snap.members \in SUBSET Members
      BY <1>1 DEF Tasks, Task, Row
    <3> QED
      BY <3>1 DEF targets, Targets
  <2>3. work' \in Tasks
    BY <1>1, <1>15, <2>1, <2>2, FieldTypes DEF TakeMemberLock
  <2> QED
    BY <1>1, <1>15, <2>3 DEF TakeMemberLock, TypeOK, Tasks
<1>16. ASSUME NEW w \in Owners, NEW t \in Targets, ClearTarget(w, t) PROVE TypeOK'
  <2>1. "cleared" \in Stages /\ work[w].todo \ {t} \in SUBSET Targets
    BY <1>1 DEF Stages, Tasks, Task
  <2>2. work' \in Tasks
    BY <1>1, <1>16, <2>1, FieldTypes DEF ClearTarget
  <2> QED
    BY <1>1, <1>16, <2>2 DEF ClearTarget, TypeOK, Tasks
<1>17. ASSUME NEW w \in Owners, Deliver(w) PROVE TypeOK'
  <2>1. work[w].rule \in Rules /\ work[w].target \in Targets
    BY <1>1 DEF Tasks, Task
  <2>2. sent' \in [Rules -> [Targets -> Nat]]
    <3>1. CASE UNCHANGED sent
      BY <1>1, <3>1
    <3>2. CASE sent' = [sent EXCEPT ![work[w].rule][work[w].target] = @ + 1]
      <4>1. sent[work[w].rule] \in [Targets -> Nat]
        BY <1>1, <2>1
      <4>2. [sent[work[w].rule] EXCEPT ![work[w].target] = @ + 1] \in [Targets -> Nat]
        BY <2>1, <4>1
      <4> QED
        BY <1>1, <2>1, <3>2, <4>2
    <3> QED
      BY <1>17, <3>1, <3>2 DEF Deliver
  <2>3. work' \in Tasks
    <3>1. "running" \in Stages /\ TRUE \in BOOLEAN
      BY DEF Stages
    <3> QED
      BY <1>1, <1>17, <3>1, FieldTypes, ConstantTypes DEF Deliver
  <2> QED
    BY <1>1, <1>17, <2>2, <2>3 DEF Deliver, TypeOK, Tasks
<1>18. ASSUME NEW w \in Owners, Quiet(w) PROVE TypeOK'
  <2>1. work' \in Tasks
    BY <1>18, TaskMoveTypes DEF Quiet
  <2> QED
    BY <1>1, <1>18, <2>1 DEF Quiet, TypeOK, Tasks
<1>19. ASSUME NEW w \in Owners, RunEnds(w) PROVE TypeOK'
  <2>1. \/ Ends(w, "completed", TRUE) \/ Ends(w, "paused", FALSE) \/ Ends(w, "next", TRUE)
    BY <1>19 DEF RunEnds
  <2>2. work' \in Tasks
    BY <2>1, TaskMoveTypes
  <2> QED
    BY <1>1, <1>19, <2>2 DEF RunEnds, TypeOK, Tasks
<1>20. ASSUME NEW w \in Owners, RunFails(w) PROVE TypeOK'
  <2>1. work' \in Tasks
    BY <1>20, TaskMoveTypes DEF RunFails
  <2> QED
    BY <1>1, <1>3, <1>20, <2>1 DEF RunFails, TypeOK, Tasks
<1>21. ASSUME NEW w \in Owners, ModelUnavailable(w) PROVE TypeOK'
  <2>1. work' \in Tasks
    BY <1>21, TaskMoveTypes DEF ModelUnavailable
  <2> QED
    BY <1>1, <1>3, <1>21, <2>1 DEF ModelUnavailable, TypeOK, Tasks
<1>22. ASSUME NEW w \in Owners, Finish(w) PROVE TypeOK'
  <2> DEFINE r == work[w].rule
             n == next_standing(w)
  <2>1. r \in Rules /\ work[w].result.ran \in BOOLEAN
    BY <1>1 DEF Tasks, Task, Result
  <2>2. n.due \in Nat /\ n.status \in Statuses
    BY NextStandingType DEF Statuses
  <2>3. finish_standing(row[r], n.due, n.status, work[w].result.ran) \in Row
    BY <1>1, <2>1, <2>2, StoreTypes
  <2>4. row' \in Rows
    BY <1>1, <1>22, <2>1, <2>3 DEF Finish
  <2>5. sent' \in [Rules -> [Targets -> Nat]] /\ unsaved' \in [Rules -> Nat]
    BY <1>1, <1>2, <1>22, <2>1 DEF Finish
  <2>6. work' \in Tasks
    BY <1>22, TaskMoveTypes DEF Finish, Stages
  <2> QED
    BY <1>1, <1>22, <2>4, <2>5, <2>6 DEF Finish, TypeOK, Tasks
<1>23. ASSUME NEW w \in Owners, FinishRaises(w) PROVE TypeOK'
  <2>1. work[w].rule \in Rules
    BY <1>1 DEF Tasks, Task
  <2>2. unsaved' \in [Rules -> Nat]
    BY <1>1, <1>23, <2>1 DEF FinishRaises
  <2>3. /\ [NoResult EXCEPT !.status = "paused"] \in Result /\ FALSE \in BOOLEAN
        /\ (IF work[w].stage = "finishing" THEN "failing" ELSE "releasing") \in Stages
    BY DEF NoResult, Result, Stages
  <2>4. work' \in Tasks
    BY <1>1, <1>23, <2>3, FieldTypes DEF FinishRaises
  <2> QED
    BY <1>1, <1>3, <1>23, <2>2, <2>4 DEF FinishRaises, TypeOK, Tasks
<1>24. ASSUME NEW w \in Owners, Release(w) PROVE TypeOK'
  <2>1. work[w].rule \in Rules
    BY <1>1 DEF Tasks, Task
  <2>2. row' \in Rows
    BY <1>1, <1>24, <2>1, StoreTypes DEF Release
  <2>3. work' \in Tasks /\ faults' \in Nat
    BY <1>1, <1>3, <1>24, TaskMoveTypes DEF Release
  <2> QED
    BY <1>1, <1>24, <2>2, <2>3 DEF Release, TypeOK, Tasks
<1>25. CASE Tick
  BY <1>1, <1>25 DEF Tick, TypeOK, Tasks
<1>26. CASE Crash
  <2>1. work' \in Tasks /\ draft' \in [Rules -> Draft]
    BY <1>26, ConstantTypes DEF Crash, Tasks
  <2>2. poll' \in [stage : {"starting", "expire", "read", "claim", "dead"}, table : Tables,
                   batch : SUBSET Snapshot]
    BY <1>26 DEF Crash, Tables
  <2> QED
    BY <1>1, <1>3, <1>26, <2>1, <2>2 DEF Crash, TypeOK, Tasks
<1>27. CASE UNCHANGED vars
  BY <1>27 DEF vars, TypeOK
<1>28. CASE PollRaises
  <2>1. poll' \in [stage : {"starting", "expire", "read", "claim", "dead"}, table : Tables,
                   batch : SUBSET Snapshot]
    BY <1>28 DEF PollRaises, Tables
  <2> QED
    BY <1>1, <1>3, <1>28, <2>1 DEF PollRaises, TypeOK, Tasks
<1>29. CASE RecoverRaises
  <2>1. row' \in Rows
    BY <1>1, <1>29, StoreTypes DEF RecoverRaises
  <2>2. poll' \in [stage : {"starting", "expire", "read", "claim", "dead"}, table : Tables,
                   batch : SUBSET Snapshot]
    BY <1>1, <1>29 DEF RecoverRaises
  <2> QED
    BY <1>1, <1>3, <1>29, <2>1, <2>2 DEF RecoverRaises, TypeOK, Tasks
<1>30. ASSUME NEW w \in Owners, RuleRaises(w) PROVE TypeOK'
  <2>1. [NoResult EXCEPT !.status = "paused"] \in Result /\ "failing" \in Stages
    BY DEF NoResult, Result, Stages
  <2>2. work' \in Tasks
    BY <1>1, <1>30, <2>1, FieldTypes DEF RuleRaises
  <2> QED
    BY <1>1, <1>3, <1>30, <2>2 DEF RuleRaises, TypeOK, Tasks
<1> QED
  BY <1>4, <1>5, <1>6, <1>7, <1>8, <1>9, <1>10, <1>11, <1>12, <1>13, <1>14, <1>15, <1>16,
     <1>17, <1>18, <1>19, <1>20, <1>21, <1>22, <1>23, <1>24, <1>25, <1>26, <1>27, <1>28,
     <1>29, <1>30
     DEF Next, MemberStep, PollStep, TaskStep

\* The state of the rules, the poll and the runs always has its type.
THEOREM TypeCorrect == Spec => []TypeOK
BY TypeInit, TypeNext, PTL DEF Spec

-----------------------------------------------------------------------------
(* One run per rule *)

\* A run that has not ended holds the lease of its rule.
LeaseHeld == \A w \in Owners : work[w].stage \in Leased => row[work[w].rule].lease = w

\* Before the leases are recovered nothing runs.
StartsIdle == poll.stage = "starting" => \A w \in Owners : work[w].stage = "free"

\* A rule nobody saved yet is not leased.
AbsentIsFree == \A r \in Rules : row[r].status = "absent" => row[r].lease = NoOwner

LeaseInv == TypeOK /\ LeaseHeld /\ StartsIdle /\ AbsentIsFree

\* At the first start no rule is leased and nothing runs.
LEMMA LeaseInit == Init => LeaseInv
<1> SUFFICES ASSUME Init PROVE LeaseInv
  OBVIOUS
<1>1. \A w \in Owners : work[w].stage = "free"
  BY DEF Init, Free
<1>2. \A r \in Rules : row[r].lease = NoOwner
  BY DEF Init, AbsentRow
<1> QED
  BY <1>1, <1>2, TypeInit DEF LeaseInv, LeaseHeld, StartsIdle, AbsentIsFree, Leased, Stages

\* What each statement of the store does to the lease and to an absent status.
LEMMA StoreLeases ==
  ASSUME NEW rw \in Row
  PROVE  /\ \A st \in Statuses : /\ set_standing_status(rw, st).lease = rw.lease
                                 /\ set_standing_status(rw, st).status = st
         /\ \A s \in Schedules, due \in Nat, ms \in SUBSET Members :
              /\ create_standing(s, due, ms).lease = NoOwner
              /\ create_standing(s, due, ms).status = "active"
              /\ replace_standing(rw, s, due, ms).lease = rw.lease
              /\ replace_standing(rw, s, due, ms).status = "active"
         /\ \A w \in Owners : /\ claim_standing(rw, w).lease = w
                              /\ claim_standing(rw, w).status = rw.status
         /\ \A t \in Nat : /\ expire_standing(rw, t).lease = rw.lease
                           /\ expire_standing(rw, t).status \in {rw.status, "completed"}
         /\ recover_standing_lease(rw).lease = NoOwner
         /\ recover_standing_lease(rw).status = IF rw.lease = NoOwner THEN rw.status
                                                                      ELSE "paused"
         /\ release_standing(rw).lease = NoOwner
         /\ release_standing(rw).status = rw.status
         /\ \A m \in Members :
              /\ stop_reminder_recipient(rw, m).lease = rw.lease
              /\ stop_reminder_recipient(rw, m).status = IF rw.members = {m} THEN "completed"
                                                                             ELSE rw.status
         /\ \A due \in Nat, st \in Statuses, ran \in BOOLEAN :
              /\ finish_standing(rw, due, st, ran).lease = NoOwner
              /\ finish_standing(rw, due, st, ran).status =
                   IF rw.status \in {"paused", "cancelled", "completed"} THEN rw.status ELSE st
<1>1. \A s \in Schedules, due \in Nat, ms \in SUBSET Members :
        /\ create_standing(s, due, ms).lease = NoOwner
        /\ create_standing(s, due, ms).status = "active"
  BY DEF create_standing, AbsentRow
<1>2. \A s \in Schedules, due \in Nat, ms \in SUBSET Members :
        /\ replace_standing(rw, s, due, ms).lease = rw.lease
        /\ replace_standing(rw, s, due, ms).status = "active"
  BY DEF replace_standing, Row
<1>3. /\ \A st \in Statuses : /\ set_standing_status(rw, st).lease = rw.lease
                              /\ set_standing_status(rw, st).status = st
      /\ \A w \in Owners : /\ claim_standing(rw, w).lease = w
                           /\ claim_standing(rw, w).status = rw.status
  BY DEF set_standing_status, claim_standing, Row
<1>4. \A t \in Nat : /\ expire_standing(rw, t).lease = rw.lease
                     /\ expire_standing(rw, t).status \in {rw.status, "completed"}
  BY DEF expire_standing, Row
<1>5. /\ recover_standing_lease(rw).lease = NoOwner
      /\ recover_standing_lease(rw).status = IF rw.lease = NoOwner THEN rw.status ELSE "paused"
      /\ release_standing(rw).lease = NoOwner
      /\ release_standing(rw).status = rw.status
  BY DEF recover_standing_lease, release_standing, Row
<1>6. \A m \in Members :
        /\ stop_reminder_recipient(rw, m).lease = rw.lease
        /\ stop_reminder_recipient(rw, m).status = IF rw.members = {m} THEN "completed"
                                                                       ELSE rw.status
  BY DEF stop_reminder_recipient, Row
<1>7. \A due \in Nat, st \in Statuses, ran \in BOOLEAN :
        /\ finish_standing(rw, due, st, ran).lease = NoOwner
        /\ finish_standing(rw, due, st, ran).status =
             IF rw.status \in {"paused", "cancelled", "completed"} THEN rw.status ELSE st
  BY DEF finish_standing, Row
<1> QED
  BY <1>1, <1>2, <1>3, <1>4, <1>5, <1>6, <1>7

\* A step that leaves the leases alone and starts no run keeps the invariant.
LEMMA LeaseKept ==
  ASSUME LeaseInv, TypeOK',
         \A r \in Rules : /\ row'[r].lease = row[r].lease
                          /\ row'[r].status = "absent" => row[r].status = "absent",
         poll'.stage = "starting" => poll.stage = "starting",
         \A v \in Owners :
           /\ work[v].stage = "free" => work'[v].stage = "free"
           /\ work'[v].stage \in Leased => work[v].stage \in Leased
                                           /\ work'[v].rule = work[v].rule
  PROVE  LeaseInv'
<1>1. \A v \in Owners : work[v].rule \in Rules
  BY DEF LeaseInv, TypeOK, Task
<1>2. LeaseHeld'
  BY <1>1 DEF LeaseInv, LeaseHeld
<1>3. StartsIdle' /\ AbsentIsFree'
  BY DEF LeaseInv, StartsIdle, AbsentIsFree
<1> QED
  BY <1>2, <1>3 DEF LeaseInv

\* A step that frees one rule, whose run is the only one it may end.
LEMMA LeaseFreed ==
  ASSUME LeaseInv, TypeOK', NEW w \in Owners, UNCHANGED poll,
         work[w].stage # "free",
         work'[w].stage \notin Leased,
         \A v \in Owners \ {w} : work'[v] = work[v],
         \A r \in Rules : \/ row'[r] = row[r]
                          \/ /\ r = work[w].rule /\ row[r].lease = w
                             /\ row'[r].lease = NoOwner
                             /\ row'[r].status = "absent" => row[r].status = "absent"
  PROVE  LeaseInv'
<1>1. \A v \in Owners : work[v].rule \in Rules
  BY DEF LeaseInv, TypeOK, Task
<1>2. LeaseHeld'
  BY <1>1 DEF LeaseInv, LeaseHeld
<1>3. StartsIdle' /\ AbsentIsFree'
  BY DEF LeaseInv, StartsIdle, AbsentIsFree
<1> QED
  BY <1>2, <1>3 DEF LeaseInv

\* What a step within a run, or out of it, does to the stages and rules of the tasks.
LEMMA TaskMoves ==
  ASSUME work \in Tasks, NEW w \in Owners
  PROVE  /\ \A stage \in Stages : Goes(w, stage) =>
              /\ work'[w].stage = stage /\ work'[w].rule = work[w].rule
              /\ \A v \in Owners \ {w} : work'[v] = work[v]
         /\ \A st \in {"active", "paused", "completed", "next"}, ran \in BOOLEAN :
              Ends(w, st, ran) =>
                /\ work'[w].stage = "finishing" /\ work'[w].rule = work[w].rule
                /\ \A v \in Owners \ {w} : work'[v] = work[v]
         /\ TaskEnds(w) =>
              /\ work'[w].stage = "free"
              /\ \A v \in Owners \ {w} : work'[v] = work[v]
<1>1. work[w] \in Task
  BY DEF Tasks
<1>2. ASSUME NEW stage \in Stages, Goes(w, stage)
      PROVE  /\ work'[w].stage = stage /\ work'[w].rule = work[w].rule
             /\ \A v \in Owners \ {w} : work'[v] = work[v]
  BY <1>1, <1>2 DEF Goes, Tasks, Task
<1>3. ASSUME NEW st \in {"active", "paused", "completed", "next"}, NEW ran \in BOOLEAN,
             Ends(w, st, ran)
      PROVE  /\ work'[w].stage = "finishing" /\ work'[w].rule = work[w].rule
             /\ \A v \in Owners \ {w} : work'[v] = work[v]
  BY <1>1, <1>3 DEF Ends, Tasks, Task
<1>4. TaskEnds(w) => /\ work'[w].stage = "free"
                     /\ \A v \in Owners \ {w} : work'[v] = work[v]
  BY DEF TaskEnds, Tasks, Free
<1> QED
  BY <1>2, <1>3, <1>4

\* A step of one run that stays in the run and touches no row.
LEMMA RunGoesOn ==
  ASSUME LeaseInv, TypeOK', NEW w \in Owners, UNCHANGED <<row, poll>>,
         work[w].stage \in Leased, work'[w].stage # "free",
         work'[w].rule = work[w].rule,
         \A v \in Owners \ {w} : work'[v] = work[v]
  PROVE  LeaseInv'
BY LeaseKept DEF Leased, Stages

\* Every step keeps leases and runs together: one step of the proof per action.
LEMMA LeaseNext == LeaseInv /\ [Next]_vars => LeaseInv'
<1> SUFFICES ASSUME LeaseInv, [Next]_vars PROVE LeaseInv'
  OBVIOUS
<1>1. TypeOK /\ TypeOK'
  BY TypeNext DEF LeaseInv
<1>2. /\ row \in [Rules -> Row] /\ work \in Tasks /\ now \in Nat
      /\ \A w \in Owners : work[w].rule \in Rules /\ work[w].stage \in Stages
  BY <1>1 DEF TypeOK, Tasks, Task
<1>3. "free" \in Stages \ Leased /\ "releasing" \in Stages \ Leased
  BY DEF Stages, Leased
<1>4. ASSUME NEW r \in Rules, NEW s \in Schedules, NEW ms \in SUBSET Members,
             PrepareSave(r, s, ms)
      PROVE  LeaseInv'
  BY <1>1, <1>4, LeaseKept DEF PrepareSave
<1>5. ASSUME NEW r \in Rules, ConfirmSave(r) PROVE LeaseInv'
  <2> DEFINE d == draft[r]
  <2>1. d.sched \in Schedules /\ d.due \in Nat /\ d.members \in SUBSET Members
    BY <1>1 DEF TypeOK, Draft
  <2>2. UNCHANGED <<poll, work>>
    BY <1>5 DEF ConfirmSave
  <2>3. CASE UNCHANGED row
    BY <1>1, <2>2, <2>3, LeaseKept
  <2>4. CASE /\ d.base.status = "absent" /\ row[r].status = "absent"
             /\ row' = [row EXCEPT ![r] = create_standing(d.sched, d.due, d.members)]
    <3>1. row'[r].lease = NoOwner /\ row'[r].status = "active"
      BY <1>2, <2>1, <2>4, StoreLeases
    <3>2. row[r].lease = NoOwner
      BY <2>4 DEF LeaseInv, AbsentIsFree
    <3>3. \A s \in Rules : s # r => row'[s] = row[s]
      BY <1>2, <2>4
    <3> QED
      BY <1>1, <2>2, <3>1, <3>2, <3>3, LeaseKept
  <2>5. CASE row' = [row EXCEPT ![r] = replace_standing(row[r], d.sched, d.due, d.members)]
    <3>1. row'[r].lease = row[r].lease /\ row'[r].status = "active"
      BY <1>2, <2>1, <2>5, StoreLeases
    <3>2. \A s \in Rules : s # r => row'[s] = row[s]
      BY <1>2, <2>5
    <3> QED
      BY <1>1, <2>2, <3>1, <3>2, LeaseKept
  <2> QED
    BY <1>5, <2>3, <2>4, <2>5 DEF ConfirmSave
<1>6. ASSUME NEW r \in Rules, NEW st \in {"active", "paused", "cancelled"}, SetStanding(r, st)
      PROVE  LeaseInv'
  <2>1. row'[r].lease = row[r].lease /\ row'[r].status # "absent"
    BY <1>2, <1>6, StoreLeases DEF SetStanding, Statuses
  <2>2. \A s \in Rules : s # r => row'[s] = row[s]
    BY <1>2, <1>6 DEF SetStanding
  <2> QED
    BY <1>1, <1>6, <2>1, <2>2, LeaseKept DEF SetStanding
<1>7. ASSUME NEW r \in Rules, NEW m \in Members, StopReminder(r, m) PROVE LeaseInv'
  <2>1. /\ row'[r].lease = row[r].lease
        /\ row'[r].status = "absent" => row[r].status = "absent"
    BY <1>2, <1>7, StoreLeases DEF StopReminder
  <2>2. \A s \in Rules : s # r => row'[s] = row[s]
    BY <1>2, <1>7 DEF StopReminder
  <2> QED
    BY <1>1, <1>7, <2>1, <2>2, LeaseKept DEF StopReminder
<1>8. CASE Recover
  <2>1. \A r \in Rules : /\ row'[r].lease = NoOwner
                         /\ row'[r].status = "absent" => row[r].status = "absent"
    BY <1>2, <1>8, StoreLeases DEF Recover
  <2>2. \A w \in Owners : work'[w].stage = "free"
    BY <1>8 DEF Recover, LeaseInv, StartsIdle
  <2> QED
    BY <1>1, <1>3, <2>1, <2>2 DEF LeaseInv, LeaseHeld, StartsIdle, AbsentIsFree
<1>9. CASE ExpireStanding
  <2>1. \A r \in Rules : /\ row'[r].lease = row[r].lease
                         /\ row'[r].status = "absent" => row[r].status = "absent"
    BY <1>2, <1>9, StoreLeases DEF ExpireStanding
  <2> QED
    BY <1>1, <1>9, <2>1, LeaseKept DEF ExpireStanding, TypeOK
<1>10. CASE ReadDue
  <2>1. poll'.stage = "claim" /\ UNCHANGED <<row, work>>
    BY <1>1, <1>10 DEF ReadDue, TypeOK
  <2> QED
    BY <1>1, <2>1, LeaseKept
<1>11. ASSUME NEW item \in poll.batch, NEW w \in Owners, ClaimStanding(item, w) PROVE LeaseInv'
  <2> DEFINE r == item.rule
  <2>1. r \in Rules
    BY <1>1 DEF TypeOK, Snapshot
  <2>2. poll'.stage = "claim"
    BY <1>1, <1>11 DEF ClaimStanding, TypeOK
  <2>3. CASE UNCHANGED <<row, work>>
    BY <1>1, <2>2, <2>3, LeaseKept
  <2>4. CASE /\ may_claim_standing(row[r], item.snap.version, now)
             /\ row' = [row EXCEPT ![r] = claim_standing(row[r], w)]
             /\ work' = [work EXCEPT ![w] = [Free EXCEPT !.stage = "claimed", !.rule = r,
                                                         !.snap = item.snap]]
    <3>1. row[r].lease = NoOwner /\ row[r].status = "active"
      BY <2>4 DEF may_claim_standing, due_standing
    <3>2. row'[r].lease = w /\ row'[r].status = "active"
      BY <1>2, <2>1, <2>4, <3>1, StoreLeases
    <3>3. \A s \in Rules : s # r => row'[s] = row[s]
      BY <1>2, <2>1, <2>4
    <3>4. work'[w].rule = r
      BY <1>2, <2>4 DEF Tasks, Free
    <3>5. \A v \in Owners : v # w => work'[v] = work[v]
      BY <1>2, <2>4 DEF Tasks
    <3>6. LeaseHeld'
      BY <3>1, <3>2, <3>3, <3>4, <3>5, <1>2, OwnersAssumption DEF LeaseInv, LeaseHeld
    <3> QED
      BY <1>1, <2>2, <3>2, <3>3, <3>6 DEF LeaseInv, StartsIdle, AbsentIsFree
  <2> QED
    BY <1>11, <2>3, <2>4 DEF ClaimStanding
<1>12. CASE EndPoll
  <2>1. poll'.stage = "expire" /\ UNCHANGED <<row, work>>
    BY <1>1, <1>12 DEF EndPoll, TypeOK
  <2> QED
    BY <1>1, <2>1, LeaseKept
<1>13. ASSUME NEW w \in Owners, CheckRule(w) PROVE LeaseInv'
  <2>1. Ends(w, "completed", FALSE) \/ Goes(w, "waiting") \/ Ends(w, "paused", FALSE)
    BY <1>13 DEF CheckRule
  <2>2. /\ work'[w].stage \in {"finishing", "waiting"} /\ work'[w].rule = work[w].rule
        /\ \A v \in Owners \ {w} : work'[v] = work[v]
    BY <1>2, <2>1, TaskMoves DEF Stages
  <2> QED
    BY <1>1, <1>13, <2>2, RunGoesOn DEF CheckRule, Leased, Stages
<1>14. ASSUME NEW w \in Owners, DestinationUnavailable(w) PROVE LeaseInv'
  <2> DEFINE r == work[w].rule
  <2>1. work'[w].stage = "free" /\ \A v \in Owners \ {w} : work'[v] = work[v]
    BY <1>2, <1>14, TaskMoves DEF DestinationUnavailable
  <2>2. \/ /\ row' = [row EXCEPT ![r] = release_standing(row[r])]
           /\ row[r].lease = w
        \/ UNCHANGED row
    BY <1>14 DEF DestinationUnavailable
  <2>3. \A s \in Rules : \/ row'[s] = row[s]
                         \/ /\ s = r /\ row[s].lease = w /\ row'[s].lease = NoOwner
                            /\ row'[s].status = "absent" => row[s].status = "absent"
    BY <1>2, <2>2, StoreLeases
  <2> QED
    BY <1>1, <1>3, <1>14, <2>1, <2>3, LeaseFreed DEF DestinationUnavailable
<1>15. ASSUME NEW w \in Owners, TakeMemberLock(w) PROVE LeaseInv'
  <2>1. /\ work'[w].stage \in {"finishing", "running"} /\ work'[w].rule = work[w].rule
        /\ \A v \in Owners \ {w} : work'[v] = work[v]
    BY <1>2, <1>15 DEF TakeMemberLock, Tasks, Task
  <2> QED
    BY <1>1, <1>15, <2>1, RunGoesOn DEF TakeMemberLock, Leased, Stages
<1>16. ASSUME NEW w \in Owners, NEW t \in Targets, ClearTarget(w, t) PROVE LeaseInv'
  <2>1. /\ work'[w].stage \in {"running", "cleared"} /\ work'[w].rule = work[w].rule
        /\ \A v \in Owners \ {w} : work'[v] = work[v]
    BY <1>2, <1>16 DEF ClearTarget, Tasks, Task
  <2> QED
    BY <1>1, <1>16, <2>1, RunGoesOn DEF ClearTarget, Leased, Stages
<1>17. ASSUME NEW w \in Owners, Deliver(w) PROVE LeaseInv'
  <2>1. /\ work'[w].stage = "running" /\ work'[w].rule = work[w].rule
        /\ \A v \in Owners \ {w} : work'[v] = work[v]
    BY <1>2, <1>17 DEF Deliver, Tasks, Task
  <2> QED
    BY <1>1, <1>17, <2>1, RunGoesOn DEF Deliver, Leased, Stages
<1>18. ASSUME NEW w \in Owners, Quiet(w) \/ RunEnds(w) \/ RunFails(w) \/ ModelUnavailable(w)
       PROVE  LeaseInv'
  <2>1. work[w].stage \in {"running", "cleared"} /\ UNCHANGED <<row, poll>>
    BY <1>18 DEF Quiet, RunEnds, RunFails, ModelUnavailable
  <2>2. PICK st \in {"active", "paused", "completed", "next"}, ran \in BOOLEAN :
          Ends(w, st, ran)
    BY <1>18 DEF Quiet, RunEnds, RunFails, ModelUnavailable
  <2>3. /\ work'[w].stage = "finishing" /\ work'[w].rule = work[w].rule
        /\ \A v \in Owners \ {w} : work'[v] = work[v]
    BY <1>2, <2>2, TaskMoves
  <2> QED
    BY <1>1, <2>1, <2>3, RunGoesOn DEF Leased, Stages
<1>19. ASSUME NEW w \in Owners, Finish(w) PROVE LeaseInv'
  <2> DEFINE r == work[w].rule
             n == next_standing(w)
  <2>1. work'[w].stage \in {"free", "releasing"} /\ \A v \in Owners \ {w} : work'[v] = work[v]
    BY <1>2, <1>3, <1>19, TaskMoves DEF Finish
  <2>2. n.due \in Nat /\ n.status \in Statuses /\ n.status # "absent"
        /\ work[w].result.ran \in BOOLEAN
    BY <1>1, NextStandingType DEF Statuses, TypeOK, Task, Result
  <2>3. \/ UNCHANGED row
        \/ /\ row[r].lease = w
           /\ row' = [row EXCEPT ![r] =
                        finish_standing(row[r], n.due, n.status, work[w].result.ran)]
    BY <1>19 DEF Finish
  <2>4. \A s \in Rules : \/ row'[s] = row[s]
                         \/ /\ s = r /\ row[s].lease = w /\ row'[s].lease = NoOwner
                            /\ row'[s].status = "absent" => row[s].status = "absent"
    BY <1>2, <2>2, <2>3, StoreLeases
  <2>5. work[w].stage # "free" /\ UNCHANGED poll
    BY <1>19 DEF Finish
  <2> QED
    BY <1>1, <1>3, <2>1, <2>4, <2>5, LeaseFreed
<1>20. ASSUME NEW w \in Owners, FinishRaises(w) PROVE LeaseInv'
  <2>1. /\ work'[w].stage \in {"failing", "releasing"} /\ work'[w].rule = work[w].rule
        /\ \A v \in Owners \ {w} : work'[v] = work[v]
    BY <1>2, <1>20 DEF FinishRaises, Tasks, Task
  <2> QED
    BY <1>1, <1>20, <2>1, RunGoesOn DEF FinishRaises, Leased, Stages
<1>21. ASSUME NEW w \in Owners, Release(w) PROVE LeaseInv'
  <2> DEFINE r == work[w].rule
  <2>1. work'[w].stage = "free" /\ \A v \in Owners \ {w} : work'[v] = work[v]
    BY <1>2, <1>21, TaskMoves DEF Release
  <2>2. \/ UNCHANGED row
        \/ row[r].lease = w /\ row' = [row EXCEPT ![r] = release_standing(row[r])]
    BY <1>21 DEF Release
  <2>3. \A s \in Rules : \/ row'[s] = row[s]
                         \/ /\ s = r /\ row[s].lease = w /\ row'[s].lease = NoOwner
                            /\ row'[s].status = "absent" => row[s].status = "absent"
    BY <1>2, <2>2, StoreLeases
  <2> QED
    BY <1>1, <1>3, <1>21, <2>1, <2>3, LeaseFreed DEF Release
<1>22. CASE Tick
  BY <1>1, <1>22, LeaseKept DEF Tick
<1>23. CASE Crash
  <2>1. \A w \in Owners : work'[w].stage = "free"
    BY <1>23 DEF Crash, Free
  <2> QED
    BY <1>1, <1>3, <1>23, <2>1 DEF Crash, LeaseInv, LeaseHeld, StartsIdle, AbsentIsFree
<1>24. CASE UNCHANGED vars
  BY <1>1, <1>24, LeaseKept DEF vars
<1>25. CASE PollRaises
  <2>1. poll'.stage = "expire" /\ UNCHANGED <<row, work>>
    BY <1>25 DEF PollRaises
  <2> QED
    BY <1>1, <2>1, LeaseKept
<1>26. CASE RecoverRaises
  <2>1. \A r \in Rules : row'[r] = row[r] \/ row'[r] = recover_standing_lease(row[r])
    BY <1>2, <1>26 DEF RecoverRaises
  <2>2. \A r \in Rules : /\ row'[r].lease \in {row[r].lease, NoOwner}
                         /\ row'[r].status = "absent" => row[r].status = "absent"
    BY <1>2, <2>1, StoreLeases
  <2>3. poll'.stage = "dead" /\ \A w \in Owners : work'[w].stage = "free"
    BY <1>1, <1>26 DEF RecoverRaises, LeaseInv, StartsIdle, TypeOK
  <2> QED
    BY <1>1, <1>3, <2>2, <2>3 DEF LeaseInv, LeaseHeld, StartsIdle, AbsentIsFree
<1>27. ASSUME NEW w \in Owners, RuleRaises(w) PROVE LeaseInv'
  <2>1. /\ work'[w].stage = "failing" /\ work'[w].rule = work[w].rule
        /\ \A v \in Owners \ {w} : work'[v] = work[v]
    BY <1>2, <1>27 DEF RuleRaises, Tasks, Task
  <2> QED
    BY <1>1, <1>27, <2>1, RunGoesOn DEF RuleRaises, Leased, Stages
<1> QED
  BY <1>4, <1>5, <1>6, <1>7, <1>8, <1>9, <1>10, <1>11, <1>12, <1>13, <1>14, <1>15, <1>16,
     <1>17, <1>18, <1>19, <1>20, <1>21, <1>22, <1>23, <1>24, <1>25, <1>26, <1>27
     DEF Next, MemberStep, PollStep, TaskStep

\* No rule ever has two runs at once: a run that has not ended holds the lease of its
\* rule, a lease has one owner, and only a rule without a lease is claimed.
THEOREM NeverOverlaps == Spec => []SameRuleNeverOverlaps
<1>1. LeaseInv => SameRuleNeverOverlaps
  BY DEF LeaseInv, LeaseHeld, SameRuleNeverOverlaps
<1> QED
  BY LeaseInit, LeaseNext, <1>1, PTL DEF Spec

-----------------------------------------------------------------------------
(* A halted rule stays halted *)

Halting == {"paused", "cancelled", "completed"}

\* The strengthening: a halted rule is paused, cancelled or completed, so that the end
\* of its run, which would make any other status active, leaves it alone.
HaltInv == TypeOK /\ \A r \in Rules : halted[r] => row[r].status \in Halting

\* A step that halts nothing anew and leaves every halted rule where it is.
LEMMA HaltKept ==
  ASSUME HaltInv, TypeOK', UNCHANGED halted,
         \A r \in Rules : row[r].status \in Halting => row'[r].status \in Halting
  PROVE  HaltInv'
BY DEF HaltInv

\* Every step keeps halted rules paused, cancelled or completed.
LEMMA HaltNext == HaltInv /\ [Next]_vars => HaltInv'
<1> SUFFICES ASSUME HaltInv, [Next]_vars PROVE HaltInv'
  OBVIOUS
<1>1. TypeOK /\ TypeOK'
  BY TypeNext DEF HaltInv
<1>2. /\ row \in [Rules -> Row] /\ work \in Tasks /\ now \in Nat
      /\ halted \in [Rules -> BOOLEAN] /\ \A w \in Owners : work[w].rule \in Rules
  BY <1>1 DEF TypeOK, Tasks, Task
<1>3. ASSUME UNCHANGED <<row, halted>> PROVE HaltInv'
  BY <1>1, <1>3, HaltKept
<1>4. ASSUME NEW r \in Rules, ConfirmSave(r) PROVE HaltInv'
  <2>1. CASE UNCHANGED <<row, halted>>
    BY <1>3, <2>1
  <2>2. CASE /\ halted' = [halted EXCEPT ![r] = FALSE]
             /\ \E new : row' = [row EXCEPT ![r] = new]
    BY <1>1, <1>2, <2>2 DEF HaltInv
  <2> QED
    BY <1>4, <2>1, <2>2 DEF ConfirmSave
<1>5. ASSUME NEW r \in Rules, NEW st \in {"active", "paused", "cancelled"}, SetStanding(r, st)
      PROVE  HaltInv'
  <2>1. row'[r].status = st /\ \A s \in Rules : s # r => row'[s] = row[s]
    BY <1>2, <1>5, StoreLeases DEF SetStanding, Statuses
  <2>2. halted' = [halted EXCEPT ![r] = (st # "active")]
    BY <1>5 DEF SetStanding
  <2> QED
    BY <1>1, <1>2, <2>1, <2>2 DEF HaltInv, Halting
<1>6. ASSUME NEW r \in Rules, NEW m \in Members, StopReminder(r, m) PROVE HaltInv'
  <2>1. row'[r].status = IF row[r].members = {m} THEN "completed" ELSE row[r].status
    BY <1>2, <1>6, StoreLeases DEF StopReminder
  <2>2. \A s \in Rules : s # r => row'[s] = row[s]
    BY <1>2, <1>6 DEF StopReminder
  <2>3. halted' = [halted EXCEPT ![r] = halted[r] \/ row[r].members = {m}]
    BY <1>6 DEF StopReminder
  <2> QED
    BY <1>1, <1>2, <2>1, <2>2, <2>3 DEF HaltInv, Halting
<1>7. CASE Recover
  <2>1. \A r \in Rules : row[r].status \in Halting => row'[r].status \in Halting
    BY <1>2, <1>7, StoreLeases DEF Recover, Halting
  <2> QED
    BY <1>1, <1>7, <2>1, HaltKept DEF Recover
<1>8. CASE ExpireStanding
  <2>1. \A r \in Rules : row[r].status \in Halting => row'[r].status \in Halting
    BY <1>2, <1>8, StoreLeases DEF ExpireStanding, Halting
  <2> QED
    BY <1>1, <1>8, <2>1, HaltKept DEF ExpireStanding
<1>9. ASSUME NEW item \in poll.batch, NEW w \in Owners, ClaimStanding(item, w) PROVE HaltInv'
  <2>1. item.rule \in Rules
    BY <1>1 DEF TypeOK, Snapshot
  <2>2. \/ UNCHANGED row
        \/ row' = [row EXCEPT ![item.rule] = claim_standing(row[item.rule], w)]
    BY <1>9 DEF ClaimStanding
  <2>3. \A r \in Rules : row'[r].status = row[r].status
    BY <1>2, <2>1, <2>2, StoreLeases
  <2> QED
    BY <1>1, <1>9, <2>3, HaltKept DEF ClaimStanding
<1>10. ASSUME NEW w \in Owners, DestinationUnavailable(w) \/ Release(w) PROVE HaltInv'
  <2>1. \/ UNCHANGED row
        \/ row' = [row EXCEPT ![work[w].rule] = release_standing(row[work[w].rule])]
    BY <1>10 DEF DestinationUnavailable, Release
  <2>2. \A r \in Rules : row'[r].status = row[r].status
    BY <1>2, <2>1, StoreLeases
  <2> QED
    BY <1>1, <1>10, <2>2, HaltKept DEF DestinationUnavailable, Release
<1>11. ASSUME NEW w \in Owners, Finish(w) PROVE HaltInv'
  <2> DEFINE r == work[w].rule
             n == next_standing(w)
  <2>1. n.due \in Nat /\ n.status \in Statuses /\ work[w].result.ran \in BOOLEAN
    BY <1>1, NextStandingType DEF Statuses, TypeOK, Task, Result
  <2>2. \/ UNCHANGED row
        \/ row' = [row EXCEPT ![r] =
                     finish_standing(row[r], n.due, n.status, work[w].result.ran)]
    BY <1>11 DEF Finish
  <2>3. \A s \in Rules : row[s].status \in Halting => row'[s].status \in Halting
    BY <1>2, <2>1, <2>2, StoreLeases DEF Halting
  <2> QED
    BY <1>1, <1>11, <2>3, HaltKept DEF Finish
<1>12. ASSUME NEW w \in Owners,
              \/ CheckRule(w) \/ TakeMemberLock(w) \/ (\E t \in Targets : ClearTarget(w, t))
              \/ Deliver(w) \/ Quiet(w) \/ RunEnds(w) \/ RunFails(w) \/ ModelUnavailable(w)
              \/ FinishRaises(w) \/ RuleRaises(w)
       PROVE  HaltInv'
  BY <1>3, <1>12 DEF CheckRule, RuleRaises, TakeMemberLock, ClearTarget, Deliver, Quiet, RunEnds,
                     RunFails, ModelUnavailable, FinishRaises
<1>13. ASSUME \/ \E r \in Rules, s \in Schedules, ms \in SUBSET Members : PrepareSave(r, s, ms)
              \/ ReadDue \/ EndPoll \/ PollRaises \/ Tick \/ Crash \/ UNCHANGED vars
       PROVE  HaltInv'
  BY <1>3, <1>13 DEF PrepareSave, ReadDue, EndPoll, PollRaises, Tick, Crash, vars
<1>14. CASE RecoverRaises
  <2>1. \A r \in Rules : row'[r] = row[r] \/ row'[r] = recover_standing_lease(row[r])
    BY <1>2, <1>14 DEF RecoverRaises
  <2>2. \A r \in Rules : row[r].status \in Halting => row'[r].status \in Halting
    BY <1>2, <2>1, StoreLeases DEF Halting
  <2> QED
    BY <1>1, <1>14, <2>2, HaltKept DEF RecoverRaises
<1> QED
  BY <1>4, <1>5, <1>6, <1>7, <1>8, <1>9, <1>10, <1>11, <1>12, <1>13, <1>14
     DEF Next, MemberStep, PollStep, TaskStep

\* A rule its member paused or cancelled, or its last recipient stopped, is not active
\* until its member resumes or saves it again, whatever runs and restarts do meanwhile.
THEOREM HaltedStays == Spec => []HaltedRuleStaysHalted
<1>1. Init => HaltInv
  BY TypeInit DEF Init, HaltInv
<1>2. HaltInv => HaltedRuleStaysHalted
  BY DEF HaltInv, HaltedRuleStaysHalted, Halting
<1> QED
  BY <1>1, <1>2, HaltNext, PTL DEF Spec

-----------------------------------------------------------------------------
(* The version of a row is all that the poll and the previews check before they *)
(* act on a row they read earlier.  It suffices, and therefore a run works on    *)
(* the rule as its member last saved it.                                        *)


\* What a row may become in a step: another version of itself, saved before and after.
Moved(a, b) ==
  \/ b = a
  \/ a.status # "absent" /\ b.status # "absent" /\ b.version = a.version + 1

\* c was read from a row that is now rw.
Copy(rw, c) == c.version <= rw.version /\ (c.version = rw.version => c = rw)

\* What a run relies on in its rule.
Sane(a, b) == b.sched = a.sched /\ b.done = a.done /\ b.members \subseteq a.members

\* Every statement on a saved row counts its version up, and the one that saves a rule
\* for the first time finds none.
LEMMA StoreVersions ==
  ASSUME NEW rw \in Row
  PROVE  /\ \A s \in Schedules, due \in Nat, ms \in SUBSET Members :
              replace_standing(rw, s, due, ms).version = rw.version + 1
         /\ \A st \in Statuses : set_standing_status(rw, st).version = rw.version + 1
         /\ \A w \in Owners : claim_standing(rw, w).version = rw.version + 1
         /\ \A t \in Nat : \/ expire_standing(rw, t) = rw
                           \/ /\ expire_standing(rw, t).version = rw.version + 1
                              /\ expire_standing(rw, t).status = "completed"
                              /\ rw.status # "absent" /\ rw.lease = NoOwner
         /\ \/ recover_standing_lease(rw) = rw /\ rw.lease = NoOwner
            \/ /\ recover_standing_lease(rw).version = rw.version + 1
               /\ rw.lease # NoOwner
         /\ release_standing(rw).version = rw.version + 1
         /\ \A m \in Members : stop_reminder_recipient(rw, m).version = rw.version + 1
         /\ \A due \in Nat, st \in Statuses, ran \in BOOLEAN :
              finish_standing(rw, due, st, ran).version = rw.version + 1
<1>1. \A s \in Schedules, due \in Nat, ms \in SUBSET Members :
        replace_standing(rw, s, due, ms).version = rw.version + 1
  BY DEF replace_standing, Row
<1>2. /\ \A st \in Statuses : set_standing_status(rw, st).version = rw.version + 1
      /\ \A w \in Owners : claim_standing(rw, w).version = rw.version + 1
      /\ release_standing(rw).version = rw.version + 1
  BY DEF set_standing_status, claim_standing, release_standing, Row
<1>3. ASSUME NEW t \in Nat
      PROVE  \/ expire_standing(rw, t) = rw
             \/ /\ expire_standing(rw, t).version = rw.version + 1
                /\ expire_standing(rw, t).status = "completed"
                /\ rw.status # "absent" /\ rw.lease = NoOwner
  BY DEF expire_standing, Row
<1>4. \/ recover_standing_lease(rw) = rw /\ rw.lease = NoOwner
      \/ /\ recover_standing_lease(rw).version = rw.version + 1
         /\ rw.lease # NoOwner
  BY DEF recover_standing_lease, Row
<1>5. \A m \in Members : stop_reminder_recipient(rw, m).version = rw.version + 1
  BY DEF stop_reminder_recipient, Row
<1>6. \A due \in Nat, st \in Statuses, ran \in BOOLEAN :
        finish_standing(rw, due, st, ran).version = rw.version + 1
  BY DEF finish_standing, Row
<1> QED
  BY <1>1, <1>2, <1>3, <1>4, <1>5, <1>6

\* A copy of a row stays a copy when the row moves on.
LEMMA CopyKept ==
  ASSUME NEW a \in Row, NEW b \in Row, NEW c \in Row, Copy(a, c), Moved(a, b)
  PROVE  Copy(b, c)
BY DEF Copy, Moved, Row

\* A step of a run touches no row but that of its rule, and only to give up its lease.
LEMMA TaskRows ==
  ASSUME TypeOK, NEW w \in Owners, TaskStep(w)
  PROVE  \A r \in Rules :
           \/ row'[r] = row[r]
           \/ /\ row[r].lease = w /\ row'[r].lease = NoOwner
              /\ row'[r].version = row[r].version + 1
              /\ row'[r].status = "absent" => row[r].status = "absent"
<1> DEFINE r == work[w].rule
           n == next_standing(w)
           new == finish_standing(row[r], n.due, n.status, work[w].result.ran)
<1>1. row \in [Rules -> Row] /\ r \in Rules
  BY DEF TypeOK, Task
<1>2. /\ n.due \in Nat /\ n.status \in Statuses /\ n.status # "absent"
      /\ work[w].result.ran \in BOOLEAN
  BY NextStandingType DEF Statuses, TypeOK, Task, Result
<1>3. \/ UNCHANGED row
      \/ row[r].lease = w /\ row' = [row EXCEPT ![r] = release_standing(row[r])]
      \/ row[r].lease = w /\ row' = [row EXCEPT ![r] = new]
  BY DEF TaskStep, CheckRule, DestinationUnavailable, RuleRaises, TakeMemberLock, ClearTarget,
         Deliver, Quiet, RunEnds, RunFails, ModelUnavailable, Finish, FinishRaises, Release
<1>4. CASE UNCHANGED row
  BY <1>4
<1>5. CASE row[r].lease = w /\ row' = [row EXCEPT ![r] = release_standing(row[r])]
  <2>1. /\ release_standing(row[r]).lease = NoOwner
        /\ release_standing(row[r]).version = row[r].version + 1
        /\ release_standing(row[r]).status = row[r].status
    BY <1>1, StoreLeases, StoreVersions
  <2> QED
    BY <1>1, <1>5, <2>1
<1>6. CASE row[r].lease = w /\ row' = [row EXCEPT ![r] = new]
  <2>1. /\ new.lease = NoOwner /\ new.version = row[r].version + 1
        /\ new.status = "absent" => row[r].status = "absent"
    BY <1>1, <1>2, StoreLeases, StoreVersions
  <2> HIDE DEF new
  <2> QED
    BY <1>1, <1>6, <2>1
<1> QED
  BY <1>3, <1>4, <1>5, <1>6

\* A run that has not ended keeps its rule and the row it read.
LEMMA TaskKeepsSnap ==
  ASSUME TypeOK, NEW w \in Owners, TaskStep(w)
  PROVE  \A v \in Owners :
           work'[v].stage \in Leased => /\ work[v].stage \in Leased
                                        /\ work'[v].rule = work[v].rule
                                        /\ work'[v].snap = work[v].snap
<1> DEFINE Kept == /\ work'[w].rule = work[w].rule /\ work'[w].snap = work[w].snap
                   /\ \A v \in Owners \ {w} : work'[v] = work[v]
           Left == /\ work'[w].stage \notin Leased
                   /\ \A v \in Owners \ {w} : work'[v] = work[v]
<1>1. work \in Tasks /\ work[w] \in Task
  BY DEF TypeOK, Tasks
<1>2. \A stage \in Stages : Goes(w, stage) => Kept
  BY <1>1 DEF Goes, Tasks, Task
<1>3. \A st \in {"active", "paused", "completed", "next"}, ran \in BOOLEAN :
        Ends(w, st, ran) => Kept
  BY <1>1 DEF Ends, Tasks, Task
<1>4. TaskEnds(w) => Left
  BY <1>1 DEF TaskEnds, Tasks, Free, Leased, Stages
<1>5. Goes(w, "releasing") => Left
  BY <1>1 DEF Goes, Tasks, Task, Leased, Stages
<1>6. ASSUME work[w].stage \in Leased, Kept \/ Left
      PROVE  \A v \in Owners :
               work'[v].stage \in Leased => /\ work[v].stage \in Leased
                                            /\ work'[v].rule = work[v].rule
                                            /\ work'[v].snap = work[v].snap
  BY <1>6
<1>7. CASE CheckRule(w)
  <2>1. Kept
    BY <1>2, <1>3, <1>7 DEF CheckRule, Stages
  <2> QED
    BY <1>6, <1>7, <2>1 DEF CheckRule, Leased, Stages
<1>8. CASE DestinationUnavailable(w)
  BY <1>4, <1>6, <1>8 DEF DestinationUnavailable, Leased, Stages
<1>9. CASE RuleRaises(w)
  <2>1. Kept
    BY <1>1, <1>9 DEF RuleRaises, Tasks, Task
  <2> QED
    BY <1>6, <1>9, <2>1 DEF RuleRaises, Leased, Stages
<1>10. CASE TakeMemberLock(w)
  <2>1. Kept
    BY <1>1, <1>10 DEF TakeMemberLock, Tasks, Task
  <2> QED
    BY <1>6, <1>10, <2>1 DEF TakeMemberLock, Leased, Stages
<1>11. ASSUME NEW t \in Targets, ClearTarget(w, t) PROVE Kept
  BY <1>1, <1>11 DEF ClearTarget, Tasks, Task
<1>12. CASE \E t \in Targets : ClearTarget(w, t)
  BY <1>6, <1>11, <1>12 DEF ClearTarget, Leased, Stages
<1>13. CASE Deliver(w)
  <2>1. Kept
    BY <1>1, <1>13 DEF Deliver, Tasks, Task
  <2> QED
    BY <1>6, <1>13, <2>1 DEF Deliver, Leased, Stages
<1>14. CASE Quiet(w) \/ RunEnds(w) \/ RunFails(w) \/ ModelUnavailable(w)
  <2>1. work[w].stage \in Leased
    BY <1>14 DEF Quiet, RunEnds, RunFails, ModelUnavailable, Leased, Stages
  <2>2. \E st \in {"active", "paused", "completed", "next"}, ran \in BOOLEAN : Ends(w, st, ran)
    BY <1>14 DEF Quiet, RunEnds, RunFails, ModelUnavailable
  <2> QED
    BY <1>3, <1>6, <2>1, <2>2
<1>15. CASE Finish(w)
  BY <1>4, <1>5, <1>6, <1>15 DEF Finish, Leased, Stages
<1>16. CASE FinishRaises(w)
  <2>1. Kept
    BY <1>1, <1>16 DEF FinishRaises, Tasks, Task
  <2> QED
    BY <1>6, <1>16, <2>1 DEF FinishRaises, Leased, Stages
<1>17. CASE Release(w)
  <2>1. Left /\ work[w].stage = "releasing"
    BY <1>4, <1>17 DEF Release
  <2> QED
    BY <2>1
<1> QED
  BY <1>7, <1>8, <1>9, <1>10, <1>12, <1>13, <1>14, <1>15, <1>16, <1>17 DEF TaskStep

\* A step of a run moves rows on, and leaves the poll's batch and the previews alone.
LEMMA TaskMovesRows ==
  ASSUME TypeOK, NEW w \in Owners, TaskStep(w),
         \A r \in Rules : row[r].status = "absent" => row[r].lease = NoOwner
  PROVE  (\A r \in Rules : Moved(row[r], row'[r])) /\ UNCHANGED <<poll, draft>>
<1>1. UNCHANGED <<poll, draft>>
  BY DEF TaskStep, CheckRule, DestinationUnavailable, RuleRaises, TakeMemberLock, ClearTarget,
         Deliver, Quiet, RunEnds, RunFails, ModelUnavailable, Finish, FinishRaises, Release
<1> QED
  BY <1>1, TaskRows, OwnersAssumption DEF Moved

-----------------------------------------------------------------------------
(* The version names the row *)

\* A rule nobody saved is the empty row: no statement finds it.
AbsentRows == \A r \in Rules : row[r].status = "absent" => row[r] = AbsentRow

\* The poll holds copies of rows it found active, a preview a copy of its rule.
BatchCopies == \A item \in poll.batch :
                 item.snap.status = "active" /\ Copy(row[item.rule], item.snap)
DraftCopies == \A r \in Rules : draft[r].open => Copy(row[r], draft[r].base)

VersionInv == TypeOK /\ AbsentRows /\ BatchCopies /\ DraftCopies

\* At the first start there are no rows and no copies of any.
LEMMA VersionInit == Init => VersionInv
<1> SUFFICES ASSUME Init PROVE VersionInv
  OBVIOUS
<1>1. AbsentRows /\ BatchCopies /\ DraftCopies
  BY DEF Init, AbsentRows, BatchCopies, DraftCopies, NoDraft
<1> QED
  BY <1>1, TypeInit DEF VersionInv

\* A step that moves rows on and reads none.
LEMMA VersionKept ==
  ASSUME VersionInv, TypeOK',
         \A r \in Rules : Moved(row[r], row'[r]),
         poll'.batch \subseteq poll.batch,
         \A r \in Rules : draft'[r].open => draft'[r] = draft[r]
  PROVE  VersionInv'
<1>1. /\ \A r \in Rules : row[r] \in Row /\ row'[r] \in Row /\ draft[r].base \in Row
      /\ \A item \in poll.batch : item.rule \in Rules /\ item.snap \in Row
  BY DEF VersionInv, TypeOK, Draft, Snapshot
<1>2. AbsentRows'
  BY DEF VersionInv, AbsentRows, Moved
<1>3. BatchCopies'
  BY <1>1, CopyKept DEF VersionInv, BatchCopies
<1>4. DraftCopies'
  BY <1>1, CopyKept DEF VersionInv, DraftCopies
<1> QED
  BY <1>2, <1>3, <1>4 DEF VersionInv

\* Every step keeps the copies true: one step of the proof per action.
LEMMA VersionNext == VersionInv /\ LeaseInv /\ [Next]_vars => VersionInv'
<1> SUFFICES ASSUME VersionInv, LeaseInv, [Next]_vars PROVE VersionInv'
  OBVIOUS
<1>1. TypeOK /\ TypeOK'
  BY TypeNext DEF VersionInv
<1>2. /\ row \in [Rules -> Row] /\ row' \in [Rules -> Row] /\ now \in Nat
      /\ draft \in [Rules -> Draft]
      /\ \A item \in poll.batch : item.rule \in Rules /\ item.snap \in Row
  BY <1>1 DEF TypeOK, Snapshot
<1>3. \A a \in Row : Moved(a, a)
  BY DEF Moved
<1>4. ASSUME NEW r \in Rules, NEW s \in Schedules, NEW ms \in SUBSET Members,
             PrepareSave(r, s, ms)
      PROVE  VersionInv'
  <2>1. /\ UNCHANGED <<row, poll>> /\ draft'[r].base = row[r]
        /\ \A q \in Rules : q # r => draft'[q] = draft[q]
    BY <1>2, <1>4 DEF PrepareSave
  <2>2. Copy(row[r], row[r])
    BY <1>2 DEF Copy, Row
  <2>3. DraftCopies'
    BY <2>1, <2>2 DEF VersionInv, DraftCopies
  <2> QED
    BY <1>1, <2>1, <2>3 DEF VersionInv, AbsentRows, BatchCopies
<1>5. ASSUME NEW r \in Rules, ConfirmSave(r) PROVE VersionInv'
  <2> DEFINE d == draft[r]
  <2>1. d.sched \in Schedules /\ d.due \in Nat /\ d.members \in SUBSET Members
    BY <1>2 DEF Draft
  <2>2. /\ UNCHANGED poll /\ draft' = [draft EXCEPT ![r] = NoDraft]
    BY <1>5 DEF ConfirmSave
  <2>3. \A q \in Rules : draft'[q].open => draft'[q] = draft[q] /\ q # r
    BY <1>2, <2>2 DEF NoDraft
  <2>4. CASE UNCHANGED row
    BY <1>1, <1>2, <1>3, <2>2, <2>3, <2>4, VersionKept
  <2>5. CASE /\ row[r].status # "absent"
             /\ row' = [row EXCEPT ![r] = replace_standing(row[r], d.sched, d.due, d.members)]
    <3>1. /\ replace_standing(row[r], d.sched, d.due, d.members).version = row[r].version + 1
          /\ replace_standing(row[r], d.sched, d.due, d.members).status = "active"
      BY <1>2, <2>1, StoreVersions, StoreLeases
    <3>2. \A q \in Rules : Moved(row[q], row'[q])
      BY <1>2, <1>3, <2>5, <3>1 DEF Moved
    <3> QED
      BY <1>1, <2>2, <2>3, <3>2, VersionKept
  <2>6. CASE /\ row[r].status = "absent"
             /\ row' = [row EXCEPT ![r] = create_standing(d.sched, d.due, d.members)]
    <3>1. create_standing(d.sched, d.due, d.members).status = "active"
      BY <1>2, <2>1, StoreLeases
    <3>2. \A q \in Rules : q # r => row'[q] = row[q]
      BY <1>2, <2>6
    <3>3. AbsentRows'
      BY <1>2, <2>6, <3>1, <3>2 DEF VersionInv, AbsentRows
    <3>4. ASSUME NEW item \in poll.batch PROVE item.rule # r
      <4>1. row[r] = AbsentRow /\ AbsentRow.version = 0 /\ AbsentRow.status = "absent"
        BY <2>6 DEF VersionInv, AbsentRows, AbsentRow
      <4>2. item.snap.version \in Nat
        BY <1>2 DEF Row
      <4> QED
        BY <4>1, <4>2 DEF VersionInv, BatchCopies, Copy
    <3>5. BatchCopies'
      BY <1>2, <2>2, <3>2, <3>4 DEF VersionInv, BatchCopies
    <3>6. DraftCopies'
      BY <2>3, <3>2 DEF VersionInv, DraftCopies
    <3> QED
      BY <1>1, <3>3, <3>5, <3>6 DEF VersionInv
  <2> QED
    BY <1>5, <2>4, <2>5, <2>6 DEF ConfirmSave, may_replace_standing
<1>6. ASSUME NEW r \in Rules, NEW st \in {"active", "paused", "cancelled"}, SetStanding(r, st)
      PROVE  VersionInv'
  <2>1. /\ row[r].status # "absent" /\ UNCHANGED <<poll, draft>>
        /\ row' = [row EXCEPT ![r] = set_standing_status(row[r], st)]
    BY <1>6 DEF SetStanding, may_set_standing_status
  <2>2. /\ set_standing_status(row[r], st).version = row[r].version + 1
        /\ set_standing_status(row[r], st).status = st
    BY <1>2, StoreVersions, StoreLeases DEF Statuses
  <2>3. \A q \in Rules : Moved(row[q], row'[q])
    BY <1>2, <1>3, <2>1, <2>2 DEF Moved
  <2> QED
    BY <1>1, <2>1, <2>3, VersionKept
<1>7. ASSUME NEW r \in Rules, NEW m \in Members, StopReminder(r, m) PROVE VersionInv'
  <2>1. /\ m \in row[r].members /\ UNCHANGED <<poll, draft>>
        /\ row' = [row EXCEPT ![r] = stop_reminder_recipient(row[r], m)]
    BY <1>7 DEF StopReminder, may_stop_reminder_recipient
  <2>2. row[r].status # "absent"
    <3>1. AbsentRow.members = {}
      BY DEF AbsentRow
    <3> QED
      BY <2>1, <3>1 DEF VersionInv, AbsentRows
  <2>3. /\ stop_reminder_recipient(row[r], m).version = row[r].version + 1
        /\ stop_reminder_recipient(row[r], m).status \in {"completed", row[r].status}
    BY <1>2, StoreVersions, StoreLeases
  <2>4. \A q \in Rules : Moved(row[q], row'[q])
    BY <1>2, <1>3, <2>1, <2>2, <2>3 DEF Moved
  <2> QED
    BY <1>1, <2>1, <2>4, VersionKept
<1>8. CASE Recover \/ RecoverRaises
  <2>1. /\ poll'.batch = poll.batch /\ UNCHANGED draft
        /\ \A q \in Rules : row'[q] = row[q] \/ row'[q] = recover_standing_lease(row[q])
    BY <1>1, <1>2, <1>8 DEF Recover, RecoverRaises, TypeOK
  <2>2. \A q \in Rules :
          \/ recover_standing_lease(row[q]) = row[q]
          \/ /\ recover_standing_lease(row[q]).version = row[q].version + 1
             /\ recover_standing_lease(row[q]).status = "paused" /\ row[q].lease # NoOwner
    BY <1>2, StoreVersions, StoreLeases
  <2>3. \A q \in Rules : Moved(row[q], row'[q])
    BY <2>1, <2>2 DEF Moved, LeaseInv, AbsentIsFree
  <2> QED
    BY <1>1, <2>1, <2>3, VersionKept
<1>9. CASE ExpireStanding
  <2>1. /\ poll'.batch = poll.batch /\ UNCHANGED draft
        /\ \A q \in Rules : row'[q] = row[q] \/ row'[q] = expire_standing(row[q], now)
    BY <1>1, <1>2, <1>9 DEF ExpireStanding, TypeOK
  <2>2. \A q \in Rules : Moved(row[q], row'[q])
    BY <1>2, <2>1, StoreVersions DEF Moved
  <2> QED
    BY <1>1, <2>1, <2>2, VersionKept
<1>10. CASE ReadDue
  <2>1. PICK first \in SUBSET {r \in Rules : due_standing(row[r], now)} :
          poll'.batch = {[rule |-> r, snap |-> row[r]] : r \in first}
    BY <1>1, <1>10 DEF ReadDue, TypeOK
  <2>2. UNCHANGED <<row, draft>>
    BY <1>10 DEF ReadDue
  <2>3. \A r \in Rules : Copy(row[r], row[r])
    BY <1>2 DEF Copy, Row
  <2>4. BatchCopies'
    BY <2>1, <2>2, <2>3 DEF BatchCopies, due_standing
  <2> QED
    BY <1>1, <2>2, <2>4 DEF VersionInv, AbsentRows, DraftCopies
<1>11. ASSUME NEW item \in poll.batch, NEW w \in Owners, ClaimStanding(item, w)
       PROVE  VersionInv'
  <2> DEFINE r == item.rule
  <2>1. r \in Rules
    BY <1>2
  <2>2. poll'.batch \subseteq poll.batch /\ UNCHANGED draft
    BY <1>1, <1>11 DEF ClaimStanding, TypeOK
  <2>3. \/ UNCHANGED row
        \/ row[r].status = "active" /\ row' = [row EXCEPT ![r] = claim_standing(row[r], w)]
    BY <1>11 DEF ClaimStanding, may_claim_standing, due_standing
  <2>4. /\ claim_standing(row[r], w).version = row[r].version + 1
        /\ claim_standing(row[r], w).status = row[r].status
    BY <1>2, <2>1, StoreVersions, StoreLeases
  <2>5. \A q \in Rules : Moved(row[q], row'[q])
    BY <1>2, <1>3, <2>1, <2>3, <2>4 DEF Moved
  <2> QED
    BY <1>1, <2>2, <2>5, VersionKept
<1>12. CASE EndPoll \/ PollRaises
  <2>1. UNCHANGED <<row, draft>>
    BY <1>12 DEF EndPoll, PollRaises
  <2>2. poll'.batch = poll.batch \/ poll'.batch = {}
    <3>1. EndPoll => poll'.batch = poll.batch
      BY <1>1 DEF EndPoll, TypeOK
    <3>2. PollRaises => poll'.batch = {}
      BY DEF PollRaises
    <3> QED
      BY <1>12, <3>1, <3>2
  <2> QED
    BY <1>1, <1>2, <1>3, <2>1, <2>2, VersionKept
<1>13. ASSUME NEW w \in Owners, TaskStep(w) PROVE VersionInv'
  BY <1>1, <1>13, TaskMovesRows, VersionKept DEF LeaseInv, AbsentIsFree
<1>14. CASE Tick \/ UNCHANGED vars
  BY <1>1, <1>2, <1>3, <1>14, VersionKept DEF Tick, vars
<1>15. CASE Crash
  <2>1. /\ UNCHANGED row /\ poll'.batch = {}
        /\ \A r \in Rules : ~draft'[r].open
    BY <1>15 DEF Crash, NoDraft
  <2> QED
    BY <1>1, <1>2, <1>3, <2>1, VersionKept
<1> QED
  BY <1>4, <1>5, <1>6, <1>7, <1>8, <1>9, <1>10, <1>11, <1>12, <1>13, <1>14, <1>15
     DEF Next, MemberStep, PollStep

\* Whoever finds the version it read finds the row it read: the poll before it claims, a
\* preview before it replaces a rule.
THEOREM VersionSuffices == Spec => []VersionNamesRow
<1>1. VersionInv => VersionNamesRow
  BY DEF VersionInv, BatchCopies, DraftCopies, Copy, VersionNamesRow
<1> QED
  BY <1>1, LeaseInit, LeaseNext, VersionInit, VersionNext, PTL DEF Spec

-----------------------------------------------------------------------------
(* A run works on what is saved *)

\* What each statement that keeps a lease does to what the run relies on.
LEMMA StoreSane ==
  ASSUME NEW rw \in Row
  PROVE  /\ Sane(rw, rw)
         /\ \A st \in Statuses : Sane(rw, set_standing_status(rw, st))
         /\ \A m \in Members : Sane(rw, stop_reminder_recipient(rw, m))
         /\ \A w \in Owners : Sane(rw, claim_standing(rw, w))
         /\ \A t \in Nat : Sane(rw, expire_standing(rw, t))
<1>1. Sane(rw, rw)
  BY DEF Sane
<1>2. \A st \in Statuses : Sane(rw, set_standing_status(rw, st))
  BY DEF Sane, set_standing_status, Row
<1>3. \A m \in Members : Sane(rw, stop_reminder_recipient(rw, m))
  BY DEF Sane, stop_reminder_recipient, Row
<1>4. /\ \A w \in Owners : Sane(rw, claim_standing(rw, w))
      /\ \A t \in Nat : Sane(rw, expire_standing(rw, t))
  BY DEF Sane, claim_standing, expire_standing, Row
<1> QED
  BY <1>1, <1>2, <1>3, <1>4

\* A step that starts no run and keeps what a leased rule's run relies on.
LEMMA RunsKept ==
  ASSUME LeaseInv, LeaseInv', RunsWhatIsSaved,
         \A r \in Rules : row[r].lease # NoOwner /\ row'[r].lease = row[r].lease
                            => Sane(row[r], row'[r]),
         \A v \in Owners :
           work'[v].stage \in Leased => /\ work[v].stage \in Leased
                                        /\ work'[v].rule = work[v].rule
                                        /\ work'[v].snap = work[v].snap
  PROVE  RunsWhatIsSaved'
<1> SUFFICES ASSUME NEW v \in Owners, work'[v].stage \in Leased
             PROVE  /\ work'[v].snap.sched = row'[work'[v].rule].sched
                    /\ work'[v].snap.done = row'[work'[v].rule].done
                    /\ row'[work'[v].rule].members \subseteq work'[v].snap.members
  BY DEF RunsWhatIsSaved
<1> DEFINE r == work[v].rule
<1>1. /\ work[v].stage \in Leased /\ work'[v].rule = r /\ work'[v].snap = work[v].snap
      /\ r \in Rules
  BY DEF LeaseInv, TypeOK, Task
<1>2. row[r].lease = v /\ row'[r].lease = v
  BY <1>1 DEF LeaseInv, LeaseHeld
<1>3. Sane(row[r], row'[r])
  BY <1>1, <1>2, OwnersAssumption
<1> QED
  BY <1>1, <1>3 DEF RunsWhatIsSaved, Sane

\* Every step keeps the runs true to their rules: one step of the proof per action.
LEMMA RunsNext ==
  LeaseInv /\ VersionInv /\ RunsWhatIsSaved /\ [Next]_vars => RunsWhatIsSaved'
<1> SUFFICES ASSUME LeaseInv, VersionInv, RunsWhatIsSaved, [Next]_vars
             PROVE  RunsWhatIsSaved'
  OBVIOUS
<1>1. TypeOK /\ TypeOK' /\ LeaseInv'
  BY TypeNext, LeaseNext DEF LeaseInv
<1>2. /\ row \in [Rules -> Row] /\ now \in Nat /\ work \in Tasks
      /\ \A item \in poll.batch : item.rule \in Rules /\ item.snap \in Row
  BY <1>1 DEF TypeOK, Snapshot, Tasks
<1>3. \A r \in Rules : Sane(row[r], row[r])
  BY <1>2, StoreSane
<1>4. ASSUME UNCHANGED <<row, work>> PROVE RunsWhatIsSaved'
  BY <1>4 DEF RunsWhatIsSaved
<1>5. ASSUME NEW r \in Rules, ConfirmSave(r) PROVE RunsWhatIsSaved'
  <2>1. UNCHANGED work /\ (UNCHANGED row \/ (/\ row[r].lease = NoOwner
                                           /\ \E new : row' = [row EXCEPT ![r] = new]))
    BY <1>5 DEF ConfirmSave, may_replace_standing, LeaseInv, AbsentIsFree
  <2>2. \A q \in Rules : row[q].lease # NoOwner => row'[q] = row[q]
    BY <1>2, <2>1
  <2> QED
    BY <1>1, <1>3, <2>1, <2>2, RunsKept
<1>6. ASSUME NEW r \in Rules, NEW st \in {"active", "paused", "cancelled"}, SetStanding(r, st)
      PROVE  RunsWhatIsSaved'
  <2>1. UNCHANGED work /\ row' = [row EXCEPT ![r] = set_standing_status(row[r], st)]
    BY <1>6 DEF SetStanding
  <2>2. Sane(row[r], set_standing_status(row[r], st))
    BY <1>2, StoreSane DEF Statuses
  <2>3. \A q \in Rules : Sane(row[q], row'[q])
    BY <1>2, <1>3, <2>1, <2>2
  <2> QED
    BY <1>1, <2>1, <2>3, RunsKept
<1>7. ASSUME NEW r \in Rules, NEW m \in Members, StopReminder(r, m) PROVE RunsWhatIsSaved'
  <2>1. UNCHANGED work /\ row' = [row EXCEPT ![r] = stop_reminder_recipient(row[r], m)]
    BY <1>7 DEF StopReminder
  <2>2. Sane(row[r], stop_reminder_recipient(row[r], m))
    BY <1>2, StoreSane
  <2>3. \A q \in Rules : Sane(row[q], row'[q])
    BY <1>2, <1>3, <2>1, <2>2
  <2> QED
    BY <1>1, <2>1, <2>3, RunsKept
<1>8. CASE Recover \/ RecoverRaises
  <2>1. /\ UNCHANGED work
        /\ \A q \in Rules : row'[q] = row[q] \/ row'[q] = recover_standing_lease(row[q])
    BY <1>2, <1>8 DEF Recover, RecoverRaises
  <2>2. \A q \in Rules : row'[q] = row[q] \/ row'[q].lease = NoOwner
    BY <1>2, <2>1, StoreLeases
  <2> QED
    BY <1>1, <1>3, <2>1, <2>2, RunsKept
<1>9. CASE ExpireStanding
  <2>1. /\ UNCHANGED work
        /\ \A q \in Rules : row'[q] = row[q] \/ row'[q] = expire_standing(row[q], now)
    BY <1>2, <1>9 DEF ExpireStanding
  <2>2. \A q \in Rules : Sane(row[q], row'[q])
    BY <1>2, <1>3, <2>1, StoreSane
  <2> QED
    BY <1>1, <2>1, <2>2, RunsKept
<1>10. ASSUME NEW item \in poll.batch, NEW w \in Owners, ClaimStanding(item, w)
       PROVE  RunsWhatIsSaved'
  <2> DEFINE r == item.rule
  <2>1. CASE UNCHANGED <<row, work>>
    BY <1>4, <2>1
  <2>2. CASE /\ may_claim_standing(row[r], item.snap.version, now)
             /\ row' = [row EXCEPT ![r] = claim_standing(row[r], w)]
             /\ work' = [work EXCEPT ![w] = [Free EXCEPT !.stage = "claimed", !.rule = r,
                                                         !.snap = item.snap]]
    <3>1. item.snap = row[r] /\ row[r].lease = NoOwner
      BY <2>2 DEF may_claim_standing, due_standing, VersionInv, BatchCopies, Copy
    <3>2. Sane(row[r], claim_standing(row[r], w))
      BY <1>2, StoreSane
    <3>3. work'[w].rule = r /\ work'[w].snap = row[r]
      BY <1>2, <2>2, <3>1 DEF Tasks, Free
    <3>4. /\ \A v \in Owners : v # w => work'[v] = work[v]
          /\ \A q \in Rules : q # r => row'[q] = row[q]
          /\ row'[r] = claim_standing(row[r], w)
      BY <1>2, <2>2 DEF Tasks
    <3>5. ASSUME NEW v \in Owners, v # w, work'[v].stage \in Leased
          PROVE  work[v].rule \in Rules /\ work[v].rule # r /\ work[v].stage \in Leased
      BY <1>2, <3>1, <3>4, <3>5, OwnersAssumption DEF LeaseInv, LeaseHeld, Tasks, Task
    <3> QED
      BY <3>2, <3>3, <3>4, <3>5 DEF RunsWhatIsSaved, Sane
  <2> QED
    BY <1>10, <2>1, <2>2 DEF ClaimStanding
<1>11. ASSUME NEW w \in Owners, TaskStep(w) PROVE RunsWhatIsSaved'
  <2>1. \A r \in Rules : row'[r] = row[r] \/ row'[r].lease = NoOwner
    BY <1>1, <1>11, TaskRows
  <2> QED
    BY <1>1, <1>3, <1>11, <2>1, TaskKeepsSnap, RunsKept
<1>12. ASSUME \/ \E r \in Rules, s \in Schedules, ms \in SUBSET Members : PrepareSave(r, s, ms)
              \/ ReadDue \/ EndPoll \/ PollRaises \/ Tick \/ UNCHANGED vars
       PROVE  RunsWhatIsSaved'
  BY <1>4, <1>12 DEF PrepareSave, ReadDue, EndPoll, PollRaises, Tick, vars
<1>13. CASE Crash
  BY <1>13 DEF Crash, Free, RunsWhatIsSaved, Leased, Stages
<1> QED
  BY <1>5, <1>6, <1>7, <1>8, <1>9, <1>10, <1>11, <1>12, <1>13
     DEF Next, MemberStep, PollStep

\* A run works on the schedule and the count its rule has now, and on no fewer
\* recipients: nothing replaces a rule under its run, whatever was claimed when.
THEOREM RunsTheSavedRule == Spec => []RunsWhatIsSaved
<1>1. Init => RunsWhatIsSaved
  BY DEF Init, Free, RunsWhatIsSaved, Leased, Stages
<1> QED
  BY <1>1, LeaseInit, LeaseNext, VersionInit, VersionNext, RunsNext, PTL DEF Spec
=============================================================================
