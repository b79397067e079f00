------------------------ MODULE StandingDeliveryProofs ------------------------
(* What reaches the members: two rules whose messages would come too close never *)
(* both hold a place in the schedule, and nobody gets an occurrence twice.  Both  *)
(* rest on the leases and versions proved before, and on the due time of a rule. *)
EXTENDS StandingRulesProofs

-----------------------------------------------------------------------------
(* Active rules keep apart *)

\* The instant the time rules return is later than the one they were asked about, and a
\* rule that is due then has not ended.
LEMMA OccurrenceAhead ==
  ASSUME NEW s \in Schedules, NEW after \in Nat, NEW done \in Nat,
         next_occurrence(s, after, done) # NoTime
  PROVE  /\ next_occurrence(s, after, done) > after
         /\ ~schedule_expired(s, next_occurrence(s, after, done), done)
<1> DEFINE late == after - s.at
           t == unbounded_occurrence(s, after)
<1>1. s.at \in Nat \ {0} /\ s.every \in Nat \ {0} /\ s.end \in Nat /\ s.runs \in Nat
  BY SchedulesAssumption
<1>2. /\ t # NoTime /\ t = next_occurrence(s, after, done)
      /\ ~schedule_expired(s, after, done) /\ ~(s.end # NoTime /\ t > s.end)
  BY DEF next_occurrence
<1>3. ~schedule_expired(s, t, done)
  BY <1>2 DEF schedule_expired
<1>4. CASE after < s.at
  BY <1>1, <1>2, <1>3, <1>4 DEF unbounded_occurrence
<1>5. CASE after >= s.at
  <2>1. late \in Nat
    BY <1>1, <1>5
  <2>2. t = s.at + (late \div s.every + 1) * s.every
    BY <1>1, <1>2, <1>5 DEF unbounded_occurrence
  <2>3. \A x \in Nat, y \in Nat \ {0} : (x \div y + 1) * y > x /\ (x \div y + 1) * y \in Nat
    OBVIOUS
  <2>4. (late \div s.every + 1) * s.every > late /\ (late \div s.every + 1) * s.every \in Nat
    <3> HIDE DEF late
    <3> QED
      BY <1>1, <2>1, <2>3
  <2>5. t > after
    <3> DEFINE ahead == (late \div s.every + 1) * s.every
    <3>1. ahead > late /\ ahead \in Nat /\ t = s.at + ahead
      BY <2>2, <2>4
    <3> HIDE DEF ahead, t
    <3> QED
      BY <1>1, <3>1
  <2> QED
    BY <1>2, <1>3, <2>5
<1> QED
  BY <1>1, <1>4, <1>5

\* A rule with a due time has not ended at that time.
Fresh(rw) == rw.due # NoTime => ~schedule_expired(rw.sched, rw.due, rw.done)

\* A rule under a run that is active, or that a member may make active, has a due time.
Timed(rw) == rw.lease # NoOwner /\ rw.status \in {"active", "paused"} => rw.due # NoTime

\* The strengthening: what takes no place in the schedule now cannot take one later
\* without require_destination_spacing looking at it again.
RowsFresh   == \A r \in Rules : Fresh(row[r]) /\ Timed(row[r])
RunsFresh   == \A w \in Owners :
                 work[w].stage \in Leased => work[w].snap.due # NoTime /\ Fresh(work[w].snap)
DraftsFresh == \A r \in Rules :
                 draft[r].open => /\ draft[r].due # NoTime
                                  /\ ~schedule_expired(draft[r].sched, draft[r].due, 0)

ApartInv == RowsFresh /\ RunsFresh /\ DraftsFresh /\ ActiveRulesKeepApart

\* b takes a place in the schedule only if a does.
NoMore(a, b) ==
  /\ Fresh(b) /\ Timed(b)
  /\ b.status = "active" /\ Reserves(b) => a.status = "active" /\ Reserves(a)

\* A rule with a due time reserves a place.
LEMMA FreshReserves ==
  ASSUME NEW rw \in Row, Fresh(rw), rw.due # NoTime
  PROVE  Reserves(rw)
BY DEF Fresh, Reserves

\* What the statements other than saving, resuming and finishing do to a rule's place.
LEMMA StoreNoMore ==
  ASSUME NEW rw \in Row, Fresh(rw), Timed(rw)
  PROVE  /\ NoMore(rw, rw)
         /\ \A st \in {"paused", "cancelled"} :
              may_set_standing_status(rw) => NoMore(rw, set_standing_status(rw, st))
         /\ \A w \in Owners, t \in Nat :
              due_standing(rw, t) => NoMore(rw, claim_standing(rw, w))
         /\ \A t \in Nat : NoMore(rw, expire_standing(rw, t))
         /\ NoMore(rw, recover_standing_lease(rw))
         /\ NoMore(rw, release_standing(rw))
         /\ \A m \in Members : NoMore(rw, stop_reminder_recipient(rw, m))
<1>1. NoMore(rw, rw)
  BY DEF NoMore
<1>2. \A st \in {"paused", "cancelled"} :
        may_set_standing_status(rw) => NoMore(rw, set_standing_status(rw, st))
  BY DEF NoMore, Fresh, Timed, set_standing_status, may_set_standing_status, Row
<1>3. \A w \in Owners, t \in Nat : due_standing(rw, t) => NoMore(rw, claim_standing(rw, w))
  BY DEF NoMore, Fresh, Timed, Reserves, claim_standing, due_standing, Row
<1>4. \A t \in Nat : NoMore(rw, expire_standing(rw, t))
  BY <1>1 DEF NoMore, Fresh, Timed, Reserves, expire_standing, Row
<1>5. NoMore(rw, recover_standing_lease(rw))
  BY <1>1 DEF NoMore, Fresh, Timed, Reserves, recover_standing_lease, Row
<1>6. NoMore(rw, release_standing(rw))
  BY DEF NoMore, Fresh, Timed, Reserves, release_standing, Row
<1>7. \A m \in Members : NoMore(rw, stop_reminder_recipient(rw, m))
  BY DEF NoMore, Fresh, Timed, Reserves, stop_reminder_recipient, Row
<1> QED
  BY <1>1, <1>2, <1>3, <1>4, <1>5, <1>6, <1>7

\* The end of a run takes a place only in the stead of the one its rule held.
LEMMA FinishNoMore ==
  ASSUME TypeOK, RowsFresh, RunsFresh, RunsWhatIsSaved, LeaseHeld, AbsentIsFree,
         NEW w \in Owners, work[w].stage \in Leased
  PROVE  LET rw == row[work[w].rule]
             n  == next_standing(w)
         IN  NoMore(rw, finish_standing(rw, n.due, n.status, work[w].result.ran))
<1> DEFINE rw == row[work[w].rule]
           snap == work[w].snap
           ran == work[w].result.ran
           done == snap.done + (IF ran THEN 1 ELSE 0)
           n == next_standing(w)
           new == finish_standing(rw, n.due, n.status, ran)
<1>1. /\ rw \in Row /\ snap \in Row /\ now \in Nat /\ ran \in BOOLEAN
      /\ work[w].result.status \in {"active", "paused", "completed", "next"}
      /\ work[w].rule \in Rules
  BY DEF TypeOK, Task, Result
<1>2. /\ snap.sched \in Schedules /\ snap.done \in Nat /\ snap.due \in Nat /\ done \in Nat
      /\ rw.done \in Nat /\ rw.due \in Nat
  BY <1>1 DEF Row
<1>3. n.due \in Nat /\ n.status \in {"active", "paused", "completed"}
  BY NextStandingType
<1>4. rw.sched = snap.sched /\ rw.done = snap.done
  BY DEF RunsWhatIsSaved
<1>5. /\ new.sched = snap.sched /\ new.done = done /\ new.lease = NoOwner
      /\ new.due = IF rw.status = "completed" THEN NoTime ELSE n.due
      /\ new.status = IF rw.status \in {"paused", "cancelled", "completed"} THEN rw.status
                                                                           ELSE n.status
  BY <1>1, <1>2, <1>4 DEF finish_standing, Row
<1>6. n.due # NoTime => ~schedule_expired(snap.sched, n.due, done)
  <2> SUFFICES ASSUME n.due # NoTime PROVE ~schedule_expired(snap.sched, n.due, done)
    OBVIOUS
  <2> DEFINE next == next_occurrence(snap.sched, now, done)
  <2>1. ~schedule_expired(snap.sched, now, done) /\ n.due \in {next, snap.due}
        /\ (n.due # next => n.due = snap.due)
    BY DEF next_standing
  <2>2. CASE n.due = next
    <3>1. next # NoTime
      BY <2>2
    <3>2. ~schedule_expired(snap.sched, next, done)
      BY <1>1, <1>2, <3>1, OccurrenceAhead
    <3> QED
      BY <2>2, <3>2
  <2>3. CASE n.due = snap.due
    <3>1. ~schedule_expired(snap.sched, snap.due, snap.done)
      BY DEF RunsFresh, Fresh
    <3> QED
      BY <2>1, <2>3, <3>1 DEF schedule_expired
  <2> QED
    BY <2>1, <2>2, <2>3
<1>7. Fresh(new) /\ Timed(new)
  BY <1>5, <1>6 DEF Fresh, Timed
<1>8. new.status = "active" => rw.status = "active" /\ Reserves(rw)
  <2>1. rw.lease = w /\ w # NoOwner
    BY OwnersAssumption DEF LeaseHeld
  <2>2. new.status = "active" => rw.status = "active"
    BY <1>1, <1>5, <2>1 DEF AbsentIsFree, Row, Statuses
  <2>3. rw.status = "active" => Reserves(rw)
    BY <1>1, <2>1, FreshReserves DEF RowsFresh, Timed
  <2> QED
    BY <2>2, <2>3
<1> QED
  BY <1>7, <1>8 DEF NoMore

\* A step that gives no rule a place it did not have keeps rules apart.
LEMMA ApartRows ==
  ASSUME ActiveRulesKeepApart, \A r \in Rules : NoMore(row[r], row'[r])
  PROVE  RowsFresh' /\ ActiveRulesKeepApart'
<1>1. RowsFresh'
  BY DEF RowsFresh, NoMore
<1>2. ActiveRulesKeepApart'
  BY DEF ActiveRulesKeepApart, NoMore
<1> QED
  BY <1>1, <1>2

\* A step that gives one rule a place, after looking at the rules it clashes with.
LEMMA ApartPlaced ==
  ASSUME RowsFresh, ActiveRulesKeepApart, row \in [Rules -> Row],
         NEW r \in Rules, NEW new \in Row, row' = [row EXCEPT ![r] = new],
         Spaced(r, new), Fresh(new), Timed(new)
  PROVE  RowsFresh' /\ ActiveRulesKeepApart'
<1>1. row'[r] = new /\ \A s \in Rules : s # r => row'[s] = row[s]
  OBVIOUS
<1>2. RowsFresh'
  BY <1>1 DEF RowsFresh
<1>3. ActiveRulesKeepApart'
  <2> SUFFICES ASSUME NEW p \in Rules, NEW q \in Rules, p # q, <<p, q>> \in Clash,
                      row'[p].status = "active", row'[q].status = "active",
                      Reserves(row'[p]), Reserves(row'[q])
               PROVE  FALSE
    BY DEF ActiveRulesKeepApart
  <2>1. <<q, p>> \in Clash
    BY RulesAssumption
  <2>2. CASE p = r
    BY <1>1, <2>2 DEF Spaced
  <2>3. CASE q = r
    BY <1>1, <2>1, <2>3 DEF Spaced
  <2>4. CASE p # r /\ q # r
    BY <1>1, <2>4 DEF ActiveRulesKeepApart
  <2> QED
    BY <2>2, <2>3, <2>4
<1> QED
  BY <1>2, <1>3

\* A step in which no run starts keeps the copies the runs hold.
LEMMA RunsFreshKept ==
  ASSUME RunsFresh,
         \A v \in Owners :
           work'[v].stage \in Leased => /\ work[v].stage \in Leased
                                        /\ work'[v].snap = work[v].snap
  PROVE  RunsFresh'
BY DEF RunsFresh

\* A step that opens no preview keeps the ones that are open.
LEMMA DraftsFreshKept ==
  ASSUME DraftsFresh, \A r \in Rules : draft'[r].open => draft'[r] = draft[r]
  PROVE  DraftsFresh'
BY DEF DraftsFresh

\* Every step keeps the rules apart: one step of the proof per action.
LEMMA ApartNext ==
  LeaseInv /\ VersionInv /\ RunsWhatIsSaved /\ ApartInv /\ [Next]_vars => ApartInv'
<1> SUFFICES ASSUME LeaseInv, VersionInv, RunsWhatIsSaved, ApartInv, [Next]_vars
             PROVE  ApartInv'
  OBVIOUS
<1>1. /\ TypeOK /\ TypeOK' /\ LeaseHeld /\ AbsentIsFree
      /\ RowsFresh /\ RunsFresh /\ DraftsFresh /\ ActiveRulesKeepApart
  BY TypeNext DEF LeaseInv, ApartInv
<1>2. /\ row \in [Rules -> Row] /\ now \in Nat /\ work \in Tasks
      /\ draft \in [Rules -> Draft]
      /\ \A item \in poll.batch : item.rule \in Rules /\ item.snap \in Row
  BY <1>1 DEF TypeOK, Snapshot, Tasks
<1>3. \A r \in Rules : Fresh(row[r]) /\ Timed(row[r]) /\ NoMore(row[r], row[r])
  BY <1>1, <1>2, StoreNoMore DEF RowsFresh
<1>4. ASSUME UNCHANGED <<work, draft>>, \A r \in Rules : NoMore(row[r], row'[r])
      PROVE  ApartInv'
  BY <1>1, <1>4, ApartRows DEF ApartInv, RunsFresh, DraftsFresh
<1>5. ASSUME NEW r \in Rules, NEW s \in Schedules, NEW ms \in SUBSET Members,
             PrepareSave(r, s, ms)
      PROVE  ApartInv'
  <2> DEFINE due == next_occurrence(s, now, 0)
  <2>1. /\ UNCHANGED <<row, work>> /\ due # NoTime
        /\ draft'[r].sched = s /\ draft'[r].due = due
        /\ \A q \in Rules : q # r => draft'[q] = draft[q]
    BY <1>2, <1>5 DEF PrepareSave
  <2>2. ~schedule_expired(s, due, 0)
    BY <1>2, <2>1, OccurrenceAhead
  <2>3. DraftsFresh'
    BY <1>1, <2>1, <2>2 DEF DraftsFresh
  <2> QED
    BY <1>1, <2>1, <2>3 DEF ApartInv, RowsFresh, RunsFresh, ActiveRulesKeepApart
<1>6. ASSUME NEW r \in Rules, ConfirmSave(r) PROVE ApartInv'
  <2> DEFINE d == draft[r]
             new == IF d.base.status = "absent"
                      THEN create_standing(d.sched, d.due, d.members)
                      ELSE replace_standing(row[r], d.sched, d.due, d.members)
  <2>1. d.sched \in Schedules /\ d.due \in Nat /\ d.members \in SUBSET Members /\ d.open
    BY <1>2, <1>6 DEF Draft, ConfirmSave
  <2>2. UNCHANGED work /\ draft' = [draft EXCEPT ![r] = NoDraft]
    BY <1>6 DEF ConfirmSave
  <2>3. DraftsFresh'
    BY <1>1, <1>2, <2>2, DraftsFreshKept DEF NoDraft
  <2>4. RunsFresh'
    BY <1>1, <2>2 DEF RunsFresh
  <2>5. CASE UNCHANGED row
    BY <1>1, <2>3, <2>4, <2>5 DEF ApartInv, RowsFresh, ActiveRulesKeepApart
  <2>6. CASE Spaced(r, new) /\ row' = [row EXCEPT ![r] = new]
    <3>1. new \in Row
      BY <1>2, <2>1, StoreTypes
    <3>2. new.sched = d.sched /\ new.due = d.due /\ new.done = 0
      BY <1>2 DEF create_standing, replace_standing, AbsentRow, Row
    <3> HIDE DEF new
    <3>3. Fresh(new) /\ Timed(new)
      BY <1>1, <2>1, <3>2 DEF Fresh, Timed, DraftsFresh
    <3>4. RowsFresh' /\ ActiveRulesKeepApart'
      BY <1>1, <1>2, <2>6, <3>1, <3>3, ApartPlaced
    <3> QED
      BY <2>3, <2>4, <3>4 DEF ApartInv
  <2> QED
    BY <1>6, <2>5, <2>6 DEF ConfirmSave
<1>7. ASSUME NEW r \in Rules, NEW st \in {"paused", "cancelled"}, SetStanding(r, st)
      PROVE  ApartInv'
  <2>1. /\ UNCHANGED <<work, draft>> /\ may_set_standing_status(row[r])
        /\ row' = [row EXCEPT ![r] = set_standing_status(row[r], st)]
    BY <1>7 DEF SetStanding
  <2>2. NoMore(row[r], set_standing_status(row[r], st))
    BY <1>2, <1>3, <2>1, StoreNoMore
  <2>3. \A q \in Rules : NoMore(row[q], row'[q])
    BY <1>2, <1>3, <2>1, <2>2
  <2> QED
    BY <1>4, <2>1, <2>3
<1>8. ASSUME NEW r \in Rules, SetStanding(r, "active") PROVE ApartInv'
  <2> DEFINE new == set_standing_status(row[r], "active")
  <2>1. /\ UNCHANGED <<work, draft>> /\ row' = [row EXCEPT ![r] = new]
        /\ Spaced(r, row[r]) /\ may_set_standing_status(row[r])
    BY <1>8 DEF SetStanding
  <2>2. new \in Row
    BY <1>2, StoreTypes DEF Statuses
  <2>3. /\ new.sched = row[r].sched /\ new.due = row[r].due /\ new.done = row[r].done
        /\ new.lease = row[r].lease
    BY <1>2 DEF set_standing_status, Row
  <2> HIDE DEF new
  <2>4. Fresh(new) /\ Timed(new) /\ Spaced(r, new)
    BY <1>3, <2>1, <2>3 DEF Fresh, Timed, Spaced, Reserves, may_set_standing_status
  <2>5. RowsFresh' /\ ActiveRulesKeepApart'
    BY <1>1, <1>2, <2>1, <2>2, <2>4, ApartPlaced
  <2> QED
    BY <1>1, <2>1, <2>5 DEF ApartInv, RunsFresh, DraftsFresh
<1>9. ASSUME NEW r \in Rules, NEW m \in Members, StopReminder(r, m) PROVE ApartInv'
  <2>1. /\ UNCHANGED <<work, draft>>
        /\ row' = [row EXCEPT ![r] = stop_reminder_recipient(row[r], m)]
    BY <1>9 DEF StopReminder
  <2>2. NoMore(row[r], stop_reminder_recipient(row[r], m))
    BY <1>2, <1>3, StoreNoMore
  <2>3. \A q \in Rules : NoMore(row[q], row'[q])
    BY <1>2, <1>3, <2>1, <2>2
  <2> QED
    BY <1>4, <2>1, <2>3
<1>10. CASE Recover \/ RecoverRaises \/ ExpireStanding
  <2>1. /\ UNCHANGED <<work, draft>>
        /\ \A q \in Rules : \/ row'[q] = row[q]
                             \/ row'[q] = recover_standing_lease(row[q])
                             \/ row'[q] = expire_standing(row[q], now)
    BY <1>2, <1>10 DEF Recover, RecoverRaises, ExpireStanding
  <2>2. \A q \in Rules : NoMore(row[q], row'[q])
    BY <1>2, <1>3, <2>1, StoreNoMore
  <2> QED
    BY <1>4, <2>1, <2>2
<1>11. ASSUME NEW item \in poll.batch, NEW w \in Owners, ClaimStanding(item, w)
       PROVE  ApartInv'
  <2> DEFINE r == item.rule
  <2>1. CASE UNCHANGED <<row, work>>
    BY <1>3, <1>4, <1>11, <2>1 DEF ClaimStanding
  <2>2. CASE /\ may_claim_standing(row[r], item.snap.version, now)
             /\ row' = [row EXCEPT ![r] = claim_standing(row[r], w)]
             /\ work' = [work EXCEPT ![w] = [Free EXCEPT !.stage = "claimed", !.rule = r,
                                                         !.snap = item.snap]]
    <3>1. due_standing(row[r], now) /\ item.snap = row[r]
      BY <2>2 DEF may_claim_standing, VersionInv, BatchCopies, Copy
    <3>2. NoMore(row[r], claim_standing(row[r], w))
      BY <1>2, <1>3, <3>1, StoreNoMore
    <3>3. \A q \in Rules : NoMore(row[q], row'[q])
      BY <1>2, <1>3, <2>2, <3>2
    <3>4. work'[w].snap = row[r] /\ \A v \in Owners : v # w => work'[v] = work[v]
      BY <1>2, <2>2, <3>1 DEF Tasks, Free
    <3>5. RunsFresh'
      BY <1>1, <1>2, <1>3, <3>1, <3>4 DEF RunsFresh, due_standing
    <3>6. DraftsFresh'
      BY <1>1, <1>11 DEF ClaimStanding, DraftsFresh
    <3> QED
      BY <1>1, <3>3, <3>5, <3>6, ApartRows DEF ApartInv
  <2> QED
    BY <1>11, <2>1, <2>2 DEF ClaimStanding
<1>12. ASSUME NEW w \in Owners, TaskStep(w) PROVE ApartInv'
  <2> DEFINE r == work[w].rule
             n == next_standing(w)
             new == finish_standing(row[r], n.due, n.status, work[w].result.ran)
  <2>1. UNCHANGED draft
    BY <1>1, <1>12, TaskMovesRows DEF AbsentIsFree
  <2>2. RunsFresh' /\ DraftsFresh'
    BY <1>1, <1>12, <2>1, TaskKeepsSnap, RunsFreshKept, DraftsFreshKept
  <2>3. r \in Rules
    BY <1>2 DEF Tasks, Task
  <2>4. \/ UNCHANGED row
        \/ row' = [row EXCEPT ![r] = release_standing(row[r])]
        \/ row' = [row EXCEPT ![r] = new] /\ work[w].stage \in Leased
    BY <1>12 DEF TaskStep, CheckRule, DestinationUnavailable, RuleRaises, TakeMemberLock,
                 ClearTarget, Deliver, Quiet, RunEnds, RunFails, ModelUnavailable, Finish,
                 FinishRaises, Release, Leased, Stages
  <2>5. NoMore(row[r], release_standing(row[r]))
    BY <1>2, <1>3, <2>3, StoreNoMore
  <2>6. work[w].stage \in Leased => NoMore(row[r], new)
    BY <1>1, FinishNoMore
  <2> HIDE DEF new
  <2>7. \A q \in Rules : NoMore(row[q], row'[q])
    BY <1>2, <1>3, <2>3, <2>4, <2>5, <2>6
  <2> QED
    BY <1>1, <2>2, <2>7, ApartRows DEF ApartInv
<1>13. CASE ReadDue \/ EndPoll \/ PollRaises \/ Tick \/ UNCHANGED vars
  BY <1>3, <1>4, <1>13 DEF ReadDue, EndPoll, PollRaises, Tick, vars
<1>14. CASE Crash
  <2>1. /\ UNCHANGED row
        /\ \A v \in Owners : work'[v].stage = "free"
        /\ \A r \in Rules : ~draft'[r].open
    BY <1>14 DEF Crash, Free, NoDraft
  <2> QED
    BY <1>1, <2>1 DEF ApartInv, RowsFresh, RunsFresh, DraftsFresh, ActiveRulesKeepApart,
                      Leased
<1> QED
  BY <1>5, <1>6, <1>7, <1>8, <1>9, <1>10, <1>11, <1>12, <1>13, <1>14
     DEF Next, MemberStep, PollStep

\* At the first start no rule has a place, and nothing runs.
LEMMA ApartInit == Init => ApartInv
BY DEF Init, Free, AbsentRow, NoDraft, ApartInv, RowsFresh, RunsFresh, DraftsFresh,
       ActiveRulesKeepApart, Fresh, Timed, Leased, Stages

\* Two rules of a member whose messages would come too close never both hold a place:
\* what require_destination_spacing let pass when one of them was saved or resumed stays
\* true through every run, claim, restart and end of the other.
THEOREM RulesKeepApart == Spec => []ActiveRulesKeepApart
<1>1. Init => RunsWhatIsSaved
  BY DEF Init, Free, RunsWhatIsSaved, Leased, Stages
<1>2. ApartInv => ActiveRulesKeepApart
  BY DEF ApartInv
<1> QED
  BY <1>1, <1>2, ApartInit, LeaseInit, LeaseNext, VersionInit, VersionNext, RunsNext, ApartNext,
     PTL DEF Spec


-----------------------------------------------------------------------------
(* Nobody gets an occurrence twice *)

\* Every delivery of the occurrence so far belongs to a run whose end could not be saved.
Settled(r) == \A t \in Targets : sent[r][t] <= unsaved[r]

\* The poll may take the rule, now or later.
Ready(rw) == rw.status = "active" /\ rw.due # NoTime /\ rw.lease = NoOwner

\* The run has not sent its occurrence to t.
Pending(w, t) ==
  \/ work[w].stage \in {"claimed", "waiting"}
  \/ t \in work[w].todo
  \/ work[w].stage = "cleared" /\ work[w].target = t
  \/ t \notin targets(work[w].snap)

\* What a run owes: its rule was due when it was claimed, each target has its turn once,
\* and what is pending is unsent.
RunAccounted(w) ==
  work[w].stage \in Leased =>
    /\ row[work[w].rule].due <= now
    /\ work[w].todo \subseteq targets(work[w].snap)
    /\ work[w].stage = "cleared" => work[w].target \in targets(work[w].snap) \ work[w].todo
    /\ \A t \in Targets : Pending(w, t) => sent[work[w].rule][t] <= unsaved[work[w].rule]

\* How a run may end with its rule due as before: skipped before anything was sent, or
\* counted in "unsaved" and released.
EndAccounted(w) ==
  /\ work[w].stage = "finishing" /\ work[w].result.status = "active" => Settled(work[w].rule)
  /\ work[w].stage = "failing" => work[w].result.status = "paused"
  /\ work[w].stage = "releasing" /\ row[work[w].rule].lease = w => Settled(work[w].rule)

\* The strengthening of DeliveredOnce: a rule that can be taken has nothing outstanding.
DeliverInv ==
  /\ \A r \in Rules : Ready(row[r]) => Settled(r)
  /\ \A w \in Owners : RunAccounted(w) /\ EndAccounted(w)
  /\ DeliveredOnce

\* A step that leaves the deliveries of a rule no less settled than they were.
Lenient(r) ==
  \A t \in Targets :
    /\ sent[r][t] <= unsaved[r] => sent'[r][t] <= unsaved'[r]
    /\ sent[r][t] <= 1 + unsaved[r] => sent'[r][t] <= 1 + unsaved'[r]

\* Asking again settles a rule and leaves the others as they were.
LEMMA AskedAgainSettles ==
  ASSUME TypeOK, NEW r \in Rules, AskedAgain(r)
  PROVE  Settled(r)' /\ \A q \in Rules : Lenient(q)
<1>1. /\ sent' = [sent EXCEPT ![r] = [t \in Targets |-> 0]]
      /\ unsaved' = [unsaved EXCEPT ![r] = 0]
      /\ sent \in [Rules -> [Targets -> Nat]] /\ unsaved \in [Rules -> Nat]
  BY DEF AskedAgain, TypeOK
<1>2. \A t \in Targets : sent'[r][t] = 0 /\ unsaved'[r] = 0
  BY <1>1
<1>3. \A q \in Rules : q # r => sent'[q] = sent[q] /\ unsaved'[q] = unsaved[q]
  BY <1>1
<1>4. Settled(r)'
  BY <1>2 DEF Settled
<1>5. Lenient(r)
  BY <1>2 DEF Lenient
<1>6. \A q \in Rules : q # r => Lenient(q)
  BY <1>3 DEF Lenient
<1> QED
  BY <1>4, <1>5, <1>6

\* Leaving the deliveries alone leaves them as settled as they were.
LEMMA UnchangedLenient ==
  ASSUME UNCHANGED <<sent, unsaved>>
  PROVE  \A q \in Rules : Lenient(q)
BY DEF Lenient

\* A settled rule stays settled.
LEMMA LenientSettled ==
  ASSUME NEW r \in Rules, Lenient(r), Settled(r)
  PROVE  Settled(r)'
BY DEF Lenient, Settled

\* A run that does not move stays accounted for when its rule is left to it.
LEMMA IdleAccounted ==
  ASSUME TypeOK, TypeOK', LeaseHeld, DeliverInv, NEW v \in Owners,
         work'[v] = work[v], now' >= now,
         row[work[v].rule].lease = v =>
           Lenient(work[v].rule) /\ row'[work[v].rule].due <= row[work[v].rule].due,
         row'[work[v].rule].lease = v => row[work[v].rule].lease = v
  PROVE  RunAccounted(v)' /\ EndAccounted(v)'
<1> DEFINE r == work[v].rule
<1>1. /\ r \in Rules /\ work'[v].rule = r /\ now \in Nat /\ now' \in Nat
      /\ row[r] \in Row /\ row'[r] \in Row
  BY DEF TypeOK, Task
<1>2. row[r].due \in Nat /\ row'[r].due \in Nat
  BY <1>1 DEF Row
<1>3. RunAccounted(v) /\ EndAccounted(v)
  BY DEF DeliverInv
<1>4. \A t \in Targets : Pending(v, t)' <=> Pending(v, t)
  BY DEF Pending
<1>5. RunAccounted(v)'
  <2> SUFFICES ASSUME work[v].stage \in Leased
               PROVE  RunAccounted(v)'
    BY DEF RunAccounted
  <2>1. row[r].lease = v
    BY DEF LeaseHeld
  <2>2. row'[r].due <= now'
    BY <1>1, <1>2, <1>3, <2>1 DEF RunAccounted
  <2>3. \A t \in Targets : Pending(v, t)' => sent'[r][t] <= unsaved'[r]
    BY <1>3, <1>4, <2>1 DEF RunAccounted, Lenient
  <2> QED
    BY <1>1, <1>3, <2>2, <2>3 DEF RunAccounted
<1>6. EndAccounted(v)'
  <2>1. row[r].lease = v /\ Settled(r) => Settled(r)'
    BY <1>1, LenientSettled
  <2>2. work[v].stage = "finishing" => row[r].lease = v
    BY DEF LeaseHeld, Leased, Stages
  <2> QED
    BY <1>1, <1>3, <2>1, <2>2 DEF EndAccounted, Settled
<1> QED
  BY <1>5, <1>6

\* A step that moves no run.
LEMMA DeliverKept ==
  ASSUME TypeOK, TypeOK', LeaseHeld, DeliverInv, UNCHANGED work, now' >= now,
         \A r \in Rules : /\ Lenient(r)
                          /\ Ready(row'[r]) => Ready(row[r]) \/ Settled(r)'
                          /\ row'[r].lease \in {row[r].lease, NoOwner}
                          /\ row[r].lease # NoOwner => row'[r].due <= row[r].due
  PROVE  DeliverInv'
<1>1. \A r \in Rules : Ready(row'[r]) => Settled(r)'
  BY LenientSettled DEF DeliverInv
<1>2. ASSUME NEW v \in Owners PROVE RunAccounted(v)' /\ EndAccounted(v)'
  <2>1. work[v].rule \in Rules
    BY DEF TypeOK, Task
  <2> QED
    BY <2>1, OwnersAssumption, IdleAccounted
<1>3. DeliveredOnce'
  BY DEF DeliverInv, DeliveredOnce, Lenient
<1> QED
  BY <1>1, <1>2, <1>3 DEF DeliverInv

\* A step of the run that holds a lease, or of one that has lost it, in which only the
\* rule under that lease may change.
LEMMA OneRunMoves ==
  ASSUME TypeOK, TypeOK', LeaseHeld, DeliverInv, NEW w \in Owners, UNCHANGED now,
         \A v \in Owners \ {w} : work'[v] = work[v],
         RunAccounted(w)', EndAccounted(w)',
         \A r \in Rules :
           IF row[r].lease = w
             THEN /\ row'[r].lease \in {w, NoOwner}
                  /\ Ready(row'[r]) => Settled(r)'
                  /\ \A t \in Targets : sent'[r][t] <= 1 + unsaved'[r]
             ELSE row'[r] = row[r] /\ Lenient(r)
  PROVE  DeliverInv'
<1>1. \A r \in Rules : Ready(row'[r]) => Settled(r)'
  BY LenientSettled DEF DeliverInv
<1>2. ASSUME NEW v \in Owners \ {w} PROVE RunAccounted(v)' /\ EndAccounted(v)'
  <2>1. /\ work[v].rule \in Rules /\ now \in Nat
        /\ \A r \in Rules : row[r] \in Row /\ row[r].due \in Nat
    BY DEF TypeOK, Task, Row
  <2>2. now' >= now /\ \A r \in Rules : row'[r] = row[r] => row'[r].due <= row[r].due
    BY <2>1
  <2>3. /\ row[work[v].rule].lease = v => /\ Lenient(work[v].rule)
                                          /\ row'[work[v].rule].due <= row[work[v].rule].due
        /\ row'[work[v].rule].lease = v => row[work[v].rule].lease = v
    BY <2>1, <2>2, OwnersAssumption
  <2> QED
    BY <2>2, <2>3, IdleAccounted
<1>3. DeliveredOnce'
  BY DEF DeliverInv, DeliveredOnce, Lenient
<1> QED
  BY <1>1, <1>2, <1>3 DEF DeliverInv

\* A step of a run that holds its lease and sends nothing.
LEMMA RunGoesOnUnsent ==
  ASSUME TypeOK, TypeOK', LeaseHeld, DeliverInv, NEW w \in Owners,
         work[w].stage \in Leased, UNCHANGED <<row, now, sent, unsaved>>,
         \A v \in Owners \ {w} : work'[v] = work[v],
         work'[w].rule = work[w].rule, work'[w].snap = work[w].snap,
         work'[w].todo \subseteq targets(work[w].snap),
         work'[w].stage = "cleared" =>
           work'[w].target \in targets(work[w].snap) \ work'[w].todo,
         \A t \in Targets : Pending(w, t)' => Pending(w, t),
         work'[w].stage = "finishing" /\ work'[w].result.status = "active" =>
           Settled(work[w].rule),
         work'[w].stage = "failing" => work'[w].result.status = "paused",
         work'[w].stage # "releasing"
  PROVE  DeliverInv'
<1>1. RunAccounted(w)
  BY DEF DeliverInv
<1>2. RunAccounted(w)'
  BY <1>1 DEF RunAccounted
<1>3. EndAccounted(w)'
  BY DEF EndAccounted, Settled
<1>4. \A r \in Rules :
        IF row[r].lease = w
          THEN /\ row'[r].lease \in {w, NoOwner}
               /\ Ready(row'[r]) => Settled(r)'
               /\ \A t \in Targets : sent'[r][t] <= 1 + unsaved'[r]
          ELSE row'[r] = row[r] /\ Lenient(r)
  BY OwnersAssumption, UnchangedLenient DEF Ready, DeliverInv, DeliveredOnce
<1> QED
  BY <1>2, <1>3, <1>4, OneRunMoves

\* The steps of a run between its claim and its end, but for the message itself.
LEMMA DeliverRunStep ==
  ASSUME TypeOK, TypeOK', LeaseHeld, DeliverInv, NEW w \in Owners,
         \/ CheckRule(w) \/ RuleRaises(w) \/ TakeMemberLock(w)
         \/ \E t \in Targets : ClearTarget(w, t)
         \/ Quiet(w) \/ RunEnds(w) \/ RunFails(w) \/ ModelUnavailable(w)
  PROVE  DeliverInv'
<1> DEFINE snap == work[w].snap
<1>1. /\ work \in Tasks /\ work[w] \in Task /\ RunAccounted(w)
      /\ UNCHANGED <<row, now, sent, unsaved>>
  BY DEF TypeOK, Tasks, DeliverInv, CheckRule, RuleRaises, TakeMemberLock, ClearTarget, Quiet,
         RunEnds, RunFails, ModelUnavailable
<1>2. /\ work[w].stage \in Leased /\ work[w].todo \subseteq targets(snap)
      /\ work[w].stage = "cleared" => work[w].target \in targets(snap) \ work[w].todo
  BY <1>1 DEF RunAccounted, CheckRule, RuleRaises, TakeMemberLock, ClearTarget, Quiet, RunEnds,
              RunFails, ModelUnavailable, Leased, Stages
<1>3. ASSUME NEW st \in {"active", "paused", "completed", "next"}, NEW ran \in BOOLEAN,
             Ends(w, st, ran), st = "active" => Settled(work[w].rule)
      PROVE  DeliverInv'
  <2>1. /\ work'[w].stage = "finishing" /\ work'[w].rule = work[w].rule
        /\ work'[w].snap = snap /\ work'[w].todo = {}
        /\ work'[w].result.status = st
        /\ \A v \in Owners \ {w} : work'[v] = work[v]
    BY <1>1, <1>3 DEF Ends, Tasks, Task
  <2>2. \A t \in Targets : Pending(w, t)' => Pending(w, t)
    BY <2>1 DEF Pending
  <2> QED
    BY <1>1, <1>2, <1>3, <2>1, <2>2, RunGoesOnUnsent
<1>4. CASE CheckRule(w)
  <2>1. CASE Goes(w, "waiting")
    <3>1. /\ work'[w] = [work[w] EXCEPT !.stage = "waiting"]
          /\ \A v \in Owners \ {w} : work'[v] = work[v]
      BY <1>1, <2>1 DEF Goes, Tasks
    <3>2. /\ work'[w].stage = "waiting" /\ work'[w].rule = work[w].rule
          /\ work'[w].snap = snap /\ work'[w].todo = work[w].todo
      BY <1>1, <3>1 DEF Task
    <3>3. \A t \in Targets : Pending(w, t)
      BY <1>4 DEF CheckRule, Pending
    <3> QED
      BY <1>1, <1>2, <3>1, <3>2, <3>3, RunGoesOnUnsent
  <2> QED
    BY <1>3, <1>4, <2>1 DEF CheckRule
<1>5. CASE RuleRaises(w)
  <2>1. /\ work'[w].stage = "failing" /\ work'[w].rule = work[w].rule
        /\ work'[w].snap = snap /\ work'[w].todo = work[w].todo
        /\ work'[w].result.status = "paused"
        /\ \A v \in Owners \ {w} : work'[v] = work[v]
    BY <1>1, <1>5 DEF RuleRaises, Tasks, Task, NoResult
  <2>2. \A t \in Targets : Pending(w, t)
    BY <1>5 DEF RuleRaises, Pending
  <2> QED
    BY <1>1, <1>2, <2>1, <2>2, RunGoesOnUnsent
<1>6. CASE TakeMemberLock(w)
  <2>1. /\ work'[w].stage \in {"finishing", "running"} /\ work'[w].rule = work[w].rule
        /\ work'[w].snap = snap /\ work'[w].todo \in {work[w].todo, targets(snap)}
        /\ work'[w].stage = "finishing" => work'[w].result.status = "completed"
        /\ \A v \in Owners \ {w} : work'[v] = work[v]
    BY <1>1, <1>6 DEF TakeMemberLock, Tasks, Task, NoResult
  <2>2. \A t \in Targets : Pending(w, t)
    BY <1>6 DEF TakeMemberLock, Pending
  <2> QED
    BY <1>1, <1>2, <2>1, <2>2, RunGoesOnUnsent
<1>7. ASSUME NEW t \in Targets, ClearTarget(w, t) PROVE DeliverInv'
  <2>1. /\ work'[w].stage \in {"running", "cleared"} /\ work'[w].rule = work[w].rule
        /\ work'[w].snap = snap /\ work'[w].todo = work[w].todo \ {t}
        /\ work'[w].stage = "cleared" => work'[w].target = t
        /\ \A v \in Owners \ {w} : work'[v] = work[v]
        /\ t \in work[w].todo
    BY <1>1, <1>7 DEF ClearTarget, Tasks, Task
  <2>2. \A u \in Targets : Pending(w, u)' => Pending(w, u)
    BY <2>1 DEF Pending
  <2> QED
    BY <1>1, <1>2, <2>1, <2>2, RunGoesOnUnsent
<1>8. CASE Quiet(w)
  BY <1>3, <1>8 DEF Quiet
<1>9. CASE RunEnds(w)
  BY <1>3, <1>9 DEF RunEnds
<1>10. CASE RunFails(w)
  BY <1>3, <1>10 DEF RunFails
<1>11. CASE ModelUnavailable(w)
  <2>1. work[w].todo = {Channel} /\ Ends(w, "active", FALSE)
    BY <1>11 DEF ModelUnavailable
  <2>2. targets(snap) = {Channel}
    BY <1>1, <1>2, <2>1, RulesAssumption DEF targets, Task, Row
  <2>3. \A t \in Targets : Pending(w, t)
    BY <2>1, <2>2 DEF Pending
  <2>4. Settled(work[w].rule)
    BY <1>1, <1>2, <2>3 DEF RunAccounted, Settled
  <2> QED
    BY <1>3, <2>1, <2>4
<1> QED
  BY <1>4, <1>5, <1>6, <1>7, <1>8, <1>9, <1>10, <1>11

\* The message goes out, or bounces: the target had its turn.
LEMMA DeliverMessage ==
  ASSUME TypeOK, TypeOK', LeaseHeld, DeliverInv, NEW w \in Owners, Deliver(w)
  PROVE  DeliverInv'
<1> DEFINE r == work[w].rule
           t == work[w].target
           snap == work[w].snap
<1>1. /\ work \in Tasks /\ work[w] \in Task /\ r \in Rules /\ t \in Targets
      /\ sent \in [Rules -> [Targets -> Nat]] /\ unsaved \in [Rules -> Nat]
      /\ UNCHANGED <<row, now, unsaved>>
  BY DEF TypeOK, Tasks, Task, Deliver
<1>2. /\ work[w].stage = "cleared" /\ row[r].lease = w /\ row[r].due <= now
      /\ work[w].todo \subseteq targets(snap) /\ t \in targets(snap) \ work[w].todo
      /\ \A u \in Targets : Pending(w, u) => sent[r][u] <= unsaved[r]
  BY DEF Deliver, DeliverInv, RunAccounted, LeaseHeld, Leased, Stages
<1>3. /\ work'[w].stage = "running" /\ work'[w].rule = r /\ work'[w].snap = snap
      /\ work'[w].todo = work[w].todo
      /\ \A v \in Owners \ {w} : work'[v] = work[v]
  BY <1>1 DEF Deliver, Tasks, Task
<1>4. sent' = [sent EXCEPT ![r][t] = sent[r][t] + 1] \/ sent' = sent
  BY DEF Deliver
<1>5. /\ \A u \in Targets \ {t} : sent'[r][u] = sent[r][u]
      /\ sent'[r][t] \in {sent[r][t], sent[r][t] + 1}
      /\ \A q \in Rules \ {r} : sent'[q] = sent[q]
  BY <1>1, <1>4
<1>6. \A u \in Targets : Pending(w, u)' => Pending(w, u) /\ u # t
  BY <1>2, <1>3 DEF Pending
<1>7. RunAccounted(w)'
  BY <1>1, <1>2, <1>3, <1>5, <1>6 DEF RunAccounted
<1>8. EndAccounted(w)'
  BY <1>3 DEF EndAccounted
<1>9. sent[r][t] <= unsaved[r]
  BY <1>1, <1>2 DEF Pending
<1>10. \A u \in Targets : sent'[r][u] <= 1 + unsaved'[r]
  BY <1>1, <1>5, <1>9 DEF DeliverInv, DeliveredOnce
<1>11. \A q \in Rules :
         IF row[q].lease = w
           THEN /\ row'[q].lease \in {w, NoOwner}
                /\ Ready(row'[q]) => Settled(q)'
                /\ \A u \in Targets : sent'[q][u] <= 1 + unsaved'[q]
           ELSE row'[q] = row[q] /\ Lenient(q)
  <2> TAKE q \in Rules
  <2>1. CASE q = r
    BY <1>1, <1>2, <1>10, <2>1, OwnersAssumption DEF Ready
  <2>2. CASE q # r
    BY <1>1, <1>5, <2>2, OwnersAssumption DEF Ready, Lenient, DeliverInv, DeliveredOnce
  <2> QED
    BY <2>1, <2>2
<1> QED
  BY <1>1, <1>3, <1>7, <1>8, <1>11, OneRunMoves

\* A run ends with its rule due as before only when it settled the rule.
LEMMA FinishSettles ==
  ASSUME TypeOK, LeaseInv, RunsFresh, DeliverInv, NEW w \in Owners, Finish(w),
         row[work[w].rule].lease = w,
         row'[work[w].rule].due = row[work[w].rule].due, Ready(row'[work[w].rule])
  PROVE  Settled(work[w].rule)
<1> DEFINE r == work[w].rule
           snap == work[w].snap
           n == next_standing(w)
           done == snap.done + (IF work[w].result.ran THEN 1 ELSE 0)
           next == next_occurrence(snap.sched, now, done)
<1>1. /\ row \in [Rules -> Row] /\ r \in Rules /\ snap \in Row /\ now \in Nat
      /\ work[w].result \in Result
  BY DEF TypeOK, Task
<1>2. /\ snap.sched \in Schedules /\ snap.done \in Nat /\ done \in Nat
      /\ row[r].due \in Nat
  BY <1>1 DEF Row
<1>3. /\ work[w].stage \in {"finishing", "failing"}
      /\ row' = [row EXCEPT ![r] =
                   finish_standing(row[r], n.due, n.status, work[w].result.ran)]
  BY DEF Finish
<1>4. /\ row'[r].due = IF row[r].status = "completed" THEN NoTime ELSE n.due
      /\ row'[r].due # NoTime
  BY <1>1, <1>3 DEF finish_standing, Row, Ready
<1>5. n.due = row[r].due /\ n.due # NoTime
  BY <1>4
<1>6. row[r].due <= now
  BY <1>3 DEF DeliverInv, RunAccounted, Leased, Stages
<1>7. next # NoTime => next > now
  BY <1>1, <1>2, OccurrenceAhead
<1>8. n.due # next
  BY <1>1, <1>2, <1>5, <1>6, <1>7
<1>9. work[w].result.status = "active"
  BY <1>5, <1>8 DEF next_standing
<1> QED
  BY <1>3, <1>9 DEF DeliverInv, EndAccounted

\* The steps that end a run, or fail to.
LEMMA DeliverEndStep ==
  ASSUME TypeOK, TypeOK', LeaseInv, RunsFresh, DeliverInv, NEW w \in Owners,
         DestinationUnavailable(w) \/ Finish(w) \/ FinishRaises(w) \/ Release(w)
  PROVE  DeliverInv'
<1>0. PICK r \in Rules : r = work[w].rule
  BY DEF TypeOK, Task
<1> DEFINE Given(q) == /\ row'[q].lease \in {w, NoOwner}
                       /\ Ready(row'[q]) => Settled(q)'
                       /\ \A t \in Targets : sent'[q][t] <= 1 + unsaved'[q]
           Left(q) == IF row[q].lease = w THEN Given(q) ELSE row'[q] = row[q] /\ Lenient(q)
<1>1. /\ work \in Tasks /\ work[w] \in Task /\ r \in Rules /\ LeaseHeld
      /\ row \in [Rules -> Row]
      /\ sent \in [Rules -> [Targets -> Nat]] /\ unsaved \in [Rules -> Nat]
      /\ RunAccounted(w) /\ EndAccounted(w) /\ DeliveredOnce
  BY DEF TypeOK, Tasks, Task, LeaseInv, DeliverInv
<1>2. UNCHANGED now
  BY DEF DestinationUnavailable, Finish, FinishRaises, Release
<1>3. \A q \in Rules : UNCHANGED <<sent, unsaved>> /\ row'[q] = row[q] => Left(q)
  BY <1>0, <1>1, OwnersAssumption DEF Ready, Lenient, DeliveredOnce
<1> HIDE DEF Left
<1>4. work'[w].stage = "free" => RunAccounted(w)' /\ EndAccounted(w)'
  BY DEF RunAccounted, EndAccounted, Leased
<1>5. TaskEnds(w) => /\ work'[w].stage = "free"
                     /\ \A v \in Owners \ {w} : work'[v] = work[v]
  BY <1>0, <1>1, TaskMoves
<1>6. ASSUME TaskEnds(w), UNCHANGED <<sent, unsaved>>,
             \/ UNCHANGED row
             \/ /\ row[r].lease = w /\ Settled(r)
                /\ row' = [row EXCEPT ![r] = release_standing(row[r])]
      PROVE  DeliverInv'
  <2>1. Left(r)
    <3>1. CASE UNCHANGED row
      BY <1>0, <1>1, <1>3, <1>6, <3>1
    <3>2. CASE /\ row[r].lease = w /\ Settled(r)
               /\ row' = [row EXCEPT ![r] = release_standing(row[r])]
      <4>1. row'[r].lease = NoOwner
        BY <1>0, <1>1, <3>2, StoreLeases
      <4>2. Settled(r)'
        BY <1>6, <3>2 DEF Settled
      <4>3. \A t \in Targets : sent'[r][t] <= 1 + unsaved'[r]
        BY <1>0, <1>1, <1>6 DEF DeliveredOnce
      <4> QED
        BY <3>2, <4>1, <4>2, <4>3 DEF Left
    <3> QED
      BY <1>6, <3>1, <3>2
  <2>2. \A q \in Rules : q # r => Left(q)
    BY <1>0, <1>1, <1>3, <1>6
  <2>3. \A q \in Rules : Left(q)
    BY <2>1, <2>2
  <2> QED
    BY <1>0, <1>1, <1>2, <1>4, <1>5, <1>6, <2>3, OneRunMoves DEF Left
<1>7. CASE DestinationUnavailable(w)
  <2>1. \A t \in Targets : Pending(w, t)
    BY <1>7 DEF DestinationUnavailable, Pending
  <2>2. Settled(r)
    BY <1>0, <1>1, <1>7, <2>1 DEF DestinationUnavailable, RunAccounted, Settled, Leased, Stages
  <2> QED
    BY <1>0, <1>6, <1>7, <2>2 DEF DestinationUnavailable
<1>8. CASE Release(w)
  BY <1>0, <1>1, <1>6, <1>8 DEF Release, EndAccounted
<1>9. CASE FinishRaises(w)
  <2>1. /\ work'[w].stage = IF work[w].stage = "finishing" THEN "failing" ELSE "releasing"
        /\ work'[w].rule = r /\ work'[w].snap = work[w].snap /\ work'[w].todo = work[w].todo
        /\ work'[w].result.status = "paused"
        /\ \A v \in Owners \ {w} : work'[v] = work[v]
        /\ work[w].stage \in {"finishing", "failing"} /\ UNCHANGED <<row, sent>>
    BY <1>0, <1>1, <1>9 DEF FinishRaises, Tasks, Task, NoResult
  <2>2. CASE work[w].stage = "finishing"
    <3>1. UNCHANGED unsaved
      BY <1>9, <2>2 DEF FinishRaises
    <3>2. \A t \in Targets : Pending(w, t)' => Pending(w, t)
      BY <2>1, <2>2 DEF Pending
    <3>3. work[w].stage \in Leased
      BY <2>2 DEF Leased, Stages
    <3> QED
      BY <1>0, <1>1, <1>2, <2>1, <2>2, <3>1, <3>2, <3>3, RunGoesOnUnsent DEF RunAccounted
  <2>3. CASE work[w].stage = "failing"
    <3>1. unsaved' = [unsaved EXCEPT ![r] = unsaved[r] + 1]
      BY <1>0, <1>9, <2>3 DEF FinishRaises
    <3>2. Settled(r)'
      BY <1>0, <1>1, <2>1, <3>1 DEF Settled, DeliveredOnce
    <3>3. work'[w].stage = "releasing"
      BY <2>1, <2>3
    <3>4. RunAccounted(w)' /\ EndAccounted(w)'
      BY <2>1, <3>2, <3>3 DEF RunAccounted, EndAccounted, Leased, Settled
    <3>5. row[r].lease = w
      BY <1>0, <1>1, <2>3 DEF LeaseHeld, Leased, Stages
    <3>6. /\ unsaved'[r] = unsaved[r] + 1
          /\ \A q \in Rules \ {r} : unsaved'[q] = unsaved[q]
      BY <1>0, <1>1, <3>1
    <3>7. Left(r)
      <4>1. \A t \in Targets : sent'[r][t] <= 1 + unsaved'[r]
        BY <1>0, <1>1, <2>1, <3>6 DEF DeliveredOnce
      <4>2. row'[r].lease = w
        BY <2>1, <3>5
      <4> QED
        BY <3>2, <3>5, <4>1, <4>2 DEF Left
    <3>8. \A q \in Rules : q # r => Left(q)
      BY <1>0, <1>1, <2>1, <3>6, OwnersAssumption DEF Ready, Lenient, DeliveredOnce, Left
    <3>9. \A q \in Rules : Left(q)
      BY <3>7, <3>8
    <3> QED
      BY <1>0, <1>1, <1>2, <2>1, <3>4, <3>9, OneRunMoves DEF Left
  <2> QED
    BY <2>1, <2>2, <2>3
<1>10. CASE Finish(w)
  <2> DEFINE n == next_standing(w)
             new == finish_standing(row[r], n.due, n.status, work[w].result.ran)
  <2>1. /\ work'[w].stage \in {"free", "releasing"} /\ \A v \in Owners \ {w} : work'[v] = work[v]
        /\ work'[w].stage = "releasing" => work'[w].rule = r
    BY <1>0, <1>1, <1>10, TaskMoves DEF Finish, Stages
  <2>2. /\ n.due \in Nat /\ n.status \in Statuses /\ work[w].result.ran \in BOOLEAN
    BY <1>0, <1>1, NextStandingType DEF Statuses, Task, Result
  <2>3. row[r].lease = w
    BY <1>0, <1>1, <1>10 DEF Finish, LeaseHeld, Leased, Stages
  <2>4. row' = [row EXCEPT ![r] = new]
    BY <1>0, <1>10, <2>3 DEF Finish
  <2>5. row'[r].lease = NoOwner /\ \A q \in Rules \ {r} : row'[q] = row[q]
    BY <1>0, <1>1, <2>2, <2>4, StoreLeases
  <2>6. RunAccounted(w)' /\ EndAccounted(w)'
    BY <2>1, <2>5, OwnersAssumption DEF RunAccounted, EndAccounted, Leased
  <2>7. \/ row[r].due # row'[r].due /\ AskedAgain(r)
        \/ row[r].due = row'[r].due /\ UNCHANGED <<sent, unsaved>>
    BY <1>0, <1>10, <2>3 DEF Finish
  <2> HIDE DEF new
  <2>8. Ready(row'[r]) => Settled(r)'
    <3>1. CASE AskedAgain(r)
      BY <1>0, <1>1, <3>1, AskedAgainSettles
    <3>2. CASE row[r].due = row'[r].due /\ UNCHANGED <<sent, unsaved>>
      BY <1>0, <1>10, <2>3, <3>2, FinishSettles DEF Settled
    <3> QED
      BY <2>7, <3>1, <3>2
  <2>9. \A q \in Rules : Lenient(q)
    BY <1>0, <1>1, <2>7, AskedAgainSettles, UnchangedLenient
  <2>10. \A q \in Rules : \A t \in Targets : sent'[q][t] <= 1 + unsaved'[q]
    BY <1>0, <1>1, <2>9 DEF Lenient, DeliveredOnce
  <2>11. Left(r)
    BY <1>0, <1>1, <2>3, <2>5, <2>8, <2>10 DEF Left
  <2>12. \A q \in Rules : q # r => Left(q)
    BY <1>0, <1>1, <2>5, <2>9, <2>10, OwnersAssumption DEF Ready, Left
  <2>13. \A q \in Rules : Left(q)
    BY <2>11, <2>12
  <2> QED
    BY <1>0, <1>1, <1>2, <2>1, <2>6, <2>13, OneRunMoves DEF Left
<1> QED
  BY <1>7, <1>8, <1>9, <1>10

\* Every step accounts for what was sent: one step of the proof per action.
LEMMA DeliverNext ==
  LeaseInv /\ VersionInv /\ ApartInv /\ DeliverInv /\ [Next]_vars => DeliverInv'
<1> SUFFICES ASSUME LeaseInv, VersionInv, ApartInv, DeliverInv, [Next]_vars
             PROVE  DeliverInv'
  OBVIOUS
<1>1. /\ TypeOK /\ TypeOK' /\ LeaseHeld /\ AbsentIsFree /\ RunsFresh
  BY TypeNext DEF LeaseInv, ApartInv
<1>2. /\ row \in [Rules -> Row] /\ now \in Nat /\ work \in Tasks
      /\ \A item \in poll.batch : item.rule \in Rules /\ item.snap \in Row
      /\ \A r \in Rules : row[r].due \in Nat
  BY <1>1 DEF TypeOK, Snapshot, Tasks, Row
<1> DEFINE RowOK(r) == /\ Ready(row'[r]) => Ready(row[r]) \/ Settled(r)'
                       /\ row'[r].lease \in {row[r].lease, NoOwner}
                       /\ row[r].lease # NoOwner => row'[r].due <= row[r].due
<1>3. \A r \in Rules : row'[r] = row[r] => RowOK(r)
  BY <1>2
<1>4. ASSUME UNCHANGED <<work, now>>, \A r \in Rules : Lenient(r) /\ RowOK(r)
      PROVE  DeliverInv'
  <2>1. now' >= now
    BY <1>2, <1>4
  <2> QED
    BY <1>1, <1>4, <2>1, DeliverKept
<1> HIDE DEF RowOK
<1>5. ASSUME NEW r \in Rules, ConfirmSave(r) PROVE DeliverInv'
  <2> DEFINE d == draft[r]
             new == IF d.base.status = "absent"
                      THEN create_standing(d.sched, d.due, d.members)
                      ELSE replace_standing(row[r], d.sched, d.due, d.members)
  <2>1. CASE UNCHANGED <<row, sent, unsaved>>
    BY <1>3, <1>4, <1>5, <2>1, UnchangedLenient DEF ConfirmSave
  <2>2. CASE /\ row' = [row EXCEPT ![r] = new] /\ AskedAgain(r) /\ row[r].lease = NoOwner
    <3>1. d.sched \in Schedules /\ d.due \in Nat /\ d.members \in SUBSET Members
      BY <1>1 DEF TypeOK, Draft
    <3>2. new.lease = NoOwner
      BY <1>2, <2>2, <3>1, StoreLeases
    <3> HIDE DEF new
    <3>3. Settled(r)' /\ \A q \in Rules : Lenient(q)
      BY <1>1, <2>2, AskedAgainSettles
    <3>4. RowOK(r)
      BY <1>2, <2>2, <3>2, <3>3 DEF RowOK
    <3>5. \A q \in Rules : RowOK(q)
      BY <1>2, <1>3, <2>2, <3>4
    <3> QED
      BY <1>4, <1>5, <3>3, <3>5 DEF ConfirmSave
  <2> QED
    BY <1>1, <1>5, <2>1, <2>2 DEF ConfirmSave, may_replace_standing, AbsentIsFree
<1>6. ASSUME NEW r \in Rules, NEW st \in {"active", "paused", "cancelled"}, SetStanding(r, st)
      PROVE  DeliverInv'
  <2> DEFINE new == set_standing_status(row[r], st)
  <2>1. /\ UNCHANGED <<work, now>> /\ row' = [row EXCEPT ![r] = new]
        /\ IF st = "active" THEN AskedAgain(r) ELSE UNCHANGED <<sent, unsaved>>
    BY <1>6 DEF SetStanding
  <2>2. new.status = st /\ new.lease = row[r].lease /\ new.due = row[r].due
    BY <1>2 DEF set_standing_status, Row
  <2> HIDE DEF new
  <2>3. (st = "active" => Settled(r)') /\ \A q \in Rules : Lenient(q)
    BY <1>1, <2>1, AskedAgainSettles, UnchangedLenient
  <2>4. RowOK(r)
    BY <1>2, <2>1, <2>2, <2>3 DEF RowOK, Ready
  <2>5. \A q \in Rules : RowOK(q)
    BY <1>2, <1>3, <2>1, <2>4
  <2> QED
    BY <1>4, <2>1, <2>3, <2>5
<1>7. ASSUME NEW r \in Rules, NEW m \in Members, StopReminder(r, m) PROVE DeliverInv'
  <2> DEFINE new == stop_reminder_recipient(row[r], m)
  <2>1. /\ UNCHANGED <<work, now, sent, unsaved>> /\ row' = [row EXCEPT ![r] = new]
    BY <1>7 DEF StopReminder
  <2>2. /\ new.lease = row[r].lease /\ new.due \in {row[r].due, NoTime}
        /\ new.status = "active" => row[r].status = "active" /\ new.due = row[r].due
    BY <1>2 DEF stop_reminder_recipient, Row
  <2> HIDE DEF new
  <2>3. RowOK(r)
    BY <1>2, <2>1, <2>2 DEF RowOK, Ready, NoTime
  <2>4. \A q \in Rules : RowOK(q)
    BY <1>2, <1>3, <2>1, <2>3
  <2> QED
    BY <1>4, <2>1, <2>4, UnchangedLenient
<1>8. CASE Recover \/ RecoverRaises
  <2>1. /\ UNCHANGED <<work, now, sent, unsaved>>
        /\ \A q \in Rules : row'[q] = row[q] \/ row'[q] = recover_standing_lease(row[q])
    BY <1>2, <1>8 DEF Recover, RecoverRaises
  <2>2. \A q \in Rules :
          LET new == recover_standing_lease(row[q])
          IN  new = row[q] \/ (/\ new.status = "paused" /\ new.lease = NoOwner
                               /\ new.due = row[q].due)
    BY <1>2 DEF recover_standing_lease, Row
  <2>3. \A q \in Rules : RowOK(q)
    BY <1>2, <1>3, <2>1, <2>2 DEF RowOK, Ready
  <2> QED
    BY <1>4, <2>1, <2>3, UnchangedLenient
<1>9. CASE ExpireStanding
  <2>1. /\ UNCHANGED <<work, now, sent, unsaved>>
        /\ \A q \in Rules : row'[q] = row[q] \/ row'[q] = expire_standing(row[q], now)
    BY <1>2, <1>9 DEF ExpireStanding
  <2>2. \A q \in Rules :
          LET new == expire_standing(row[q], now)
          IN  new = row[q] \/ (/\ new.status = "completed" /\ new.lease = row[q].lease
                               /\ row[q].lease = NoOwner)
    BY <1>2 DEF expire_standing, Row
  <2>3. \A q \in Rules : RowOK(q)
    BY <1>2, <1>3, <2>1, <2>2 DEF RowOK, Ready
  <2> QED
    BY <1>4, <2>1, <2>3, UnchangedLenient
<1>10. ASSUME NEW item \in poll.batch, NEW w \in Owners, ClaimStanding(item, w)
       PROVE  DeliverInv'
  <2>0. PICK r \in Rules : r = item.rule
    BY <1>2
  <2>1. UNCHANGED <<now, sent, unsaved>> /\ \A s \in Rules : row[s].lease # w
    BY <1>10 DEF ClaimStanding
  <2>2. CASE UNCHANGED <<row, work>>
    BY <1>3, <1>4, <2>1, <2>2, UnchangedLenient
  <2>3. CASE /\ may_claim_standing(row[r], item.snap.version, now)
             /\ row' = [row EXCEPT ![r] = claim_standing(row[r], w)]
             /\ work' = [work EXCEPT ![w] = [Free EXCEPT !.stage = "claimed", !.rule = r,
                                                         !.snap = item.snap]]
    <3>1. Ready(row[r]) /\ row[r].due <= now
      BY <2>3 DEF may_claim_standing, due_standing, Ready
    <3>2. Settled(r)
      BY <3>1 DEF DeliverInv
    <3>3. /\ work'[w].stage = "claimed" /\ work'[w].rule = r /\ work'[w].todo = {}
          /\ \A v \in Owners : v # w => work'[v] = work[v]
      BY <1>2, <2>3 DEF Tasks, Free
    <3>4. /\ row'[r].lease = w /\ row'[r].due = row[r].due
          /\ \A q \in Rules : q # r => row'[q] = row[q]
      BY <1>2, <2>3 DEF claim_standing, Row
    <3>5. RunAccounted(w)' /\ EndAccounted(w)'
      BY <2>1, <3>1, <3>2, <3>3, <3>4 DEF RunAccounted, EndAccounted, Settled
    <3>6. ASSUME NEW v \in Owners, v # w PROVE RunAccounted(v)' /\ EndAccounted(v)'
      <4>1. work[v].rule \in Rules /\ now' >= now
        BY <1>2, <2>1 DEF Tasks, Task
      <4>2. \A q \in Rules : row'[q].due <= row[q].due
        BY <1>2, <3>4
      <4>3. row'[work[v].rule].lease = v => row[work[v].rule].lease = v
        BY <3>4, <3>6, <4>1
      <4> QED
        BY <1>1, <2>1, <3>3, <3>6, <4>1, <4>2, <4>3, IdleAccounted, UnchangedLenient
    <3>7. \A q \in Rules : Ready(row'[q]) => Settled(q)'
      BY <2>1, <3>4, OwnersAssumption DEF DeliverInv, Ready, Settled
    <3>8. DeliveredOnce'
      BY <2>1 DEF DeliverInv, DeliveredOnce
    <3> QED
      BY <3>5, <3>6, <3>7, <3>8 DEF DeliverInv
  <2> QED
    BY <1>10, <2>0, <2>2, <2>3 DEF ClaimStanding
<1>11. ASSUME NEW w \in Owners, TaskStep(w) PROVE DeliverInv'
  BY <1>1, <1>11, DeliverRunStep, DeliverMessage, DeliverEndStep DEF TaskStep
<1>12. ASSUME \/ \E r \in Rules, s \in Schedules, ms \in SUBSET Members : PrepareSave(r, s, ms)
              \/ ReadDue \/ EndPoll \/ PollRaises \/ UNCHANGED vars
       PROVE  DeliverInv'
  <2>1. UNCHANGED <<row, work, now, sent, unsaved>>
    BY <1>12 DEF PrepareSave, ReadDue, EndPoll, PollRaises, vars
  <2> QED
    BY <1>3, <1>4, <2>1, UnchangedLenient
<1>13. CASE Tick
  <2>1. now' >= now /\ UNCHANGED <<row, work, sent, unsaved>>
    BY <1>2, <1>13 DEF Tick
  <2>2. \A r \in Rules : RowOK(r)
    BY <1>3, <2>1
  <2> QED
    BY <1>1, <2>1, <2>2, DeliverKept, UnchangedLenient DEF RowOK
<1>14. CASE Crash
  <2>1. UNCHANGED <<row, sent, unsaved>> /\ \A w \in Owners : work'[w].stage = "free"
    BY <1>14 DEF Crash, Free
  <2>2. \A w \in Owners : RunAccounted(w)' /\ EndAccounted(w)'
    BY <2>1 DEF RunAccounted, EndAccounted, Leased
  <2> QED
    BY <2>1, <2>2 DEF DeliverInv, DeliveredOnce, Settled
<1> QED
  BY <1>5, <1>6, <1>7, <1>8, <1>9, <1>10, <1>11, <1>12, <1>13, <1>14
     DEF Next, MemberStep, PollStep

\* Nobody gets an occurrence twice by any order of runs, failures, outages, restarts and
\* changes, unless a member resumed or saved the rule again, or the end of the run that
\* sent it could be stored neither as it was nor as a pause.
THEOREM SentOnce == Spec => []DeliveredOnce
<1>1. Init => RunsWhatIsSaved
  BY DEF Init, Free, RunsWhatIsSaved, Leased, Stages
<1>2. Init => DeliverInv
  BY DEF Init, Free, AbsentRow, DeliverInv, RunAccounted, EndAccounted, DeliveredOnce, Ready,
         Leased, Stages
<1>3. DeliverInv => DeliveredOnce
  BY DEF DeliverInv
<1> QED
  BY <1>1, <1>2, <1>3, ApartInit, LeaseInit, LeaseNext, VersionInit, VersionNext, RunsNext,
     ApartNext, DeliverNext, PTL DEF Spec

-----------------------------------------------------------------------------
(* An active rule without a next run: the only step that makes one *)

\* The poll will never take it: active, and without a time.
Stranded(rw) == rw.status = "active" /\ rw.due = NoTime

\* A member resumes a paused rule that has no time.
ResumesTimeless(r) ==
  /\ row[r].status = "paused" /\ row[r].due = NoTime
  /\ row'[r] = set_standing_status(row[r], "active")

\* What is about to become a rule's time, or was when its run began, is one.
TimedInv ==
  /\ \A item \in poll.batch : item.snap.due # NoTime
  /\ \A w \in Owners : work[w].stage \in Leased => work[w].snap.due # NoTime
  /\ \A r \in Rules : draft[r].open => draft[r].due # NoTime

\* Nothing is read, runs or is previewed at the first start.
LEMMA TimedInit == Init => TimedInv
BY DEF Init, TimedInv, Free, NoDraft, Leased, Stages

\* What the store's statements do to a row that is active afterwards.
LEMMA StoreTimes ==
  ASSUME NEW rw \in Row
  PROVE  /\ \A s \in Schedules, due \in Nat, ms \in SUBSET Members :
              create_standing(s, due, ms).due = due /\ replace_standing(rw, s, due, ms).due = due
         /\ \A st \in Statuses : set_standing_status(rw, st).due = rw.due
         /\ \A w \in Owners : claim_standing(rw, w).due = rw.due
         /\ \A t \in Nat : expire_standing(rw, t).status = "active" => expire_standing(rw, t) = rw
         /\ recover_standing_lease(rw).status = "active" => recover_standing_lease(rw) = rw
         /\ release_standing(rw).due = rw.due
         /\ \A m \in Members :
              stop_reminder_recipient(rw, m).status = "active" =>
                stop_reminder_recipient(rw, m).due = rw.due
         /\ \A due \in Nat, st \in Statuses, ran \in BOOLEAN :
              finish_standing(rw, due, st, ran).status = "active" =>
                finish_standing(rw, due, st, ran).due = due /\ st = "active"
<1>1. \A s \in Schedules, due \in Nat, ms \in SUBSET Members :
        create_standing(s, due, ms).due = due /\ replace_standing(rw, s, due, ms).due = due
  BY DEF create_standing, AbsentRow, replace_standing, Row
<1>2. /\ \A st \in Statuses : set_standing_status(rw, st).due = rw.due
      /\ \A w \in Owners : claim_standing(rw, w).due = rw.due
      /\ release_standing(rw).due = rw.due
  BY DEF set_standing_status, claim_standing, release_standing, Row
<1>3. \A t \in Nat : expire_standing(rw, t).status = "active" => expire_standing(rw, t) = rw
  BY DEF expire_standing, Row
<1>4. recover_standing_lease(rw).status = "active" => recover_standing_lease(rw) = rw
  BY DEF recover_standing_lease, Row
<1>5. \A m \in Members :
        stop_reminder_recipient(rw, m).status = "active" =>
          stop_reminder_recipient(rw, m).due = rw.due
  BY DEF stop_reminder_recipient, Row
<1>6. \A due \in Nat, st \in Statuses, ran \in BOOLEAN :
        finish_standing(rw, due, st, ran).status = "active" =>
          finish_standing(rw, due, st, ran).due = due /\ st = "active"
  BY DEF finish_standing, Row
<1> QED
  BY <1>1, <1>2, <1>3, <1>4, <1>5, <1>6

\* A run that leaves its rule active gives it a time: the next instant, or the time of
\* the run that the model could not answer.
LEMMA NextStandingTimed ==
  ASSUME TypeOK, NEW w \in Owners, work[w].snap.due # NoTime,
         next_standing(w).status = "active"
  PROVE  next_standing(w).due # NoTime
BY DEF next_standing

\* Every step keeps the times that are about to be used.
LEMMA TimedNext == TypeOK /\ TimedInv /\ [Next]_vars => TimedInv'
<1> SUFFICES ASSUME TypeOK, TimedInv, [Next]_vars  PROVE TimedInv'
  OBVIOUS
<1>1. /\ work \in Tasks /\ row \in [Rules -> Row] /\ draft \in [Rules -> Draft]
      /\ \A item \in poll.batch : item.rule \in Rules /\ item.snap \in Row
  BY DEF TypeOK, Tasks, Snapshot
<1>2. ASSUME NEW r \in Rules, NEW s \in Schedules, NEW ms \in SUBSET Members,
             PrepareSave(r, s, ms)
      PROVE  TimedInv'
  <2>1. \A q \in Rules : q # r => draft'[q] = draft[q]
    BY <1>1, <1>2 DEF PrepareSave
  <2>2. draft'[r].due # NoTime
    BY <1>1, <1>2 DEF PrepareSave
  <2>3. UNCHANGED <<poll, work>>
    BY <1>2 DEF PrepareSave
  <2> QED
    BY <2>1, <2>2, <2>3 DEF TimedInv
<1>3. ASSUME NEW r \in Rules, ConfirmSave(r)  PROVE TimedInv'
  <2>1. \A q \in Rules : q # r => draft'[q] = draft[q]
    BY <1>1, <1>3 DEF ConfirmSave
  <2>2. ~draft'[r].open
    BY <1>1, <1>3 DEF ConfirmSave, NoDraft
  <2>3. UNCHANGED <<poll, work>>
    BY <1>3 DEF ConfirmSave
  <2> QED
    BY <2>1, <2>2, <2>3 DEF TimedInv
<1>4. ASSUME UNCHANGED <<work, draft>>, poll'.batch \subseteq poll.batch  PROVE TimedInv'
  BY <1>4 DEF TimedInv
<1>5. ASSUME \/ \E r \in Rules, st \in {"active", "paused", "cancelled"} : SetStanding(r, st)
             \/ \E r \in Rules, m \in Members : StopReminder(r, m)
             \/ Recover \/ ExpireStanding \/ EndPoll \/ PollRaises \/ RecoverRaises \/ Tick
             \/ UNCHANGED vars
      PROVE  TimedInv'
  <2>1. UNCHANGED <<work, draft>>
    BY <1>5 DEF SetStanding, StopReminder, Recover, ExpireStanding, EndPoll, PollRaises, RecoverRaises, Tick, vars
  <2>2. poll'.batch \subseteq poll.batch
    <3>1. CASE Recover
      BY <3>1 DEF Recover, TypeOK
    <3>2. CASE ExpireStanding
      BY <3>2 DEF ExpireStanding, TypeOK
    <3>3. CASE EndPoll
      BY <3>3 DEF EndPoll, TypeOK
    <3>4. CASE PollRaises
      BY <3>4 DEF PollRaises
    <3>5. CASE RecoverRaises
      BY <3>5 DEF RecoverRaises, TypeOK
    <3> QED
      BY <1>5, <3>1, <3>2, <3>3, <3>4, <3>5 DEF SetStanding, StopReminder, Tick, vars
  <2> QED
    BY <1>4, <2>1, <2>2
<1>6. CASE ReadDue
  <2>1. PICK first \in SUBSET {r \in Rules : table(r) = poll.table /\ due_standing(row[r], now)} :
          poll' = [poll EXCEPT !.stage = "claim",
                               !.batch = {[rule |-> r, snap |-> row[r]] : r \in first}]
    BY <1>6 DEF ReadDue
  <2>2. poll'.batch = {[rule |-> r, snap |-> row[r]] : r \in first}
    BY <2>1 DEF TypeOK
  <2>3. \A item \in poll'.batch : item.snap.due # NoTime
    BY <2>2 DEF due_standing
  <2>4. UNCHANGED <<work, draft>>
    BY <1>6 DEF ReadDue
  <2> QED
    BY <2>3, <2>4 DEF TimedInv
<1>7. ASSUME NEW item \in poll.batch, NEW w \in Owners, ClaimStanding(item, w)  PROVE TimedInv'
  <2>1. poll'.batch \subseteq poll.batch /\ UNCHANGED draft
    BY <1>7 DEF ClaimStanding, TypeOK
  <2>2. CASE UNCHANGED work
    BY <1>4, <2>1, <2>2
  <2>3. CASE work' = [work EXCEPT ![w] = [Free EXCEPT !.stage = "claimed", !.rule = item.rule,
                                                      !.snap = item.snap]]
    <3>1. work'[w].snap = item.snap /\ \A v \in Owners : v # w => work'[v] = work[v]
      BY <1>1, <2>3 DEF Tasks, Free
    <3> QED
      BY <2>1, <3>1 DEF TimedInv
  <2> QED
    BY <1>7, <2>2, <2>3 DEF ClaimStanding
<1>8. ASSUME NEW w \in Owners, TaskStep(w)  PROVE TimedInv'
  <2>1. UNCHANGED <<poll, draft>>
    BY <1>8 DEF TaskStep, CheckRule, DestinationUnavailable, RuleRaises, TakeMemberLock, ClearTarget,
       Deliver, Quiet, RunEnds, RunFails, ModelUnavailable, Finish, FinishRaises, Release
  <2> QED
    BY <1>8, <2>1, TaskKeepsSnap DEF TimedInv
<1>9. CASE Crash
  BY <1>9 DEF Crash, TimedInv, Free, NoDraft, Leased, Stages
<1> QED
  BY <1>2, <1>3, <1>5, <1>6, <1>7, <1>8, <1>9 DEF Next, MemberStep, PollStep

\* A step that strands a rule is the resumption of a rule without a time.
LEMMA StrandingStep ==
  ASSUME TypeOK, TimedInv, [Next]_vars, NEW r \in Rules, Stranded(row[r])', ~Stranded(row[r])
  PROVE  ResumesTimeless(r)
<1>1. /\ work \in Tasks /\ row \in [Rules -> Row] /\ draft \in [Rules -> Draft] /\ now \in Nat
      /\ \A item \in poll.batch : item.rule \in Rules /\ item.snap \in Row
      /\ \A w \in Owners : work[w].rule \in Rules /\ work[w].result.ran \in BOOLEAN
  BY DEF TypeOK, Tasks, Task, Snapshot, Result
<1>2. row'[r].status = "active" /\ row'[r].due = NoTime
  BY DEF Stranded
<1>3. row'[r] # row[r] /\ (row[r].status = "active" => row[r].due # NoTime)
  BY <1>2 DEF Stranded
<1>4. ASSUME NEW q \in Rules, ConfirmSave(q)  PROVE FALSE
  <2>1. draft[q].open /\ draft[q].due # NoTime
    BY <1>4 DEF ConfirmSave, TimedInv
  <2>2. draft[q].sched \in Schedules /\ draft[q].due \in Nat /\ draft[q].members \in SUBSET Members
    BY <1>1 DEF Draft
  <2>3. PICK new \in {create_standing(draft[q].sched, draft[q].due, draft[q].members),
                      replace_standing(row[q], draft[q].sched, draft[q].due, draft[q].members)} :
          row' = [row EXCEPT ![q] = new]
    BY <1>3, <1>4 DEF ConfirmSave
  <2>4. new.due = draft[q].due
    BY <1>1, <2>2, <2>3, StoreTimes
  <2> QED
    BY <1>1, <1>2, <1>3, <2>1, <2>3, <2>4
<1>5. ASSUME NEW q \in Rules, NEW st \in {"active", "paused", "cancelled"}, SetStanding(q, st)
      PROVE  ResumesTimeless(r)
  <2>1. row' = [row EXCEPT ![q] = set_standing_status(row[q], st)] /\ may_set_standing_status(row[q])
    BY <1>5 DEF SetStanding
  <2>2. q = r
    BY <1>1, <1>3, <2>1
  <2>3. row'[r] = set_standing_status(row[r], st)
    BY <1>1, <2>1, <2>2
  <2>4. st = "active" /\ row[r].due = NoTime
    BY <1>1, <1>2, <2>3, StoreTimes, StoreLeases DEF Statuses
  <2> QED
    BY <1>3, <2>1, <2>2, <2>3, <2>4 DEF ResumesTimeless, may_set_standing_status
<1>6. ASSUME NEW q \in Rules, NEW m \in Members, StopReminder(q, m)  PROVE FALSE
  <2>1. row' = [row EXCEPT ![q] = stop_reminder_recipient(row[q], m)]
    BY <1>6 DEF StopReminder
  <2>2. q = r
    BY <1>1, <1>3, <2>1
  <2>3. row'[r] = stop_reminder_recipient(row[r], m)
    BY <1>1, <2>1, <2>2
  <2>4. row[r].due = NoTime /\ row[r].status = "active"
    BY <1>1, <1>2, <2>3, StoreTimes, StoreLeases
  <2> QED
    BY <1>3, <2>4
<1>7. ASSUME row'[r] = recover_standing_lease(row[r]) \/ row'[r] = expire_standing(row[r], now)  PROVE FALSE
  BY <1>1, <1>2, <1>3, <1>7, StoreTimes
<1>8. CASE Recover \/ RecoverRaises \/ ExpireStanding
  <2>1. \/ row'[r] = row[r] \/ row'[r] = recover_standing_lease(row[r])
        \/ row'[r] = expire_standing(row[r], now)
    BY <1>8 DEF Recover, RecoverRaises, ExpireStanding
  <2> QED
    BY <1>3, <1>7, <2>1
<1>9. ASSUME NEW item \in poll.batch, NEW w \in Owners, ClaimStanding(item, w)  PROVE FALSE
  <2>1. row' = [row EXCEPT ![item.rule] = claim_standing(row[item.rule], w)]
    BY <1>3, <1>9 DEF ClaimStanding
  <2>2. item.rule = r
    BY <1>1, <1>3, <2>1
  <2>3. row'[r] = claim_standing(row[r], w)
    BY <1>1, <2>1, <2>2
  <2>4. row'[r].status = row[r].status /\ row'[r].due = row[r].due
    BY <1>1, <2>3, StoreTimes, StoreLeases
  <2> QED
    BY <1>2, <1>3, <2>4
<1>10. ASSUME NEW w \in Owners, DestinationUnavailable(w) \/ Release(w)  PROVE FALSE
  <2>1. row' = [row EXCEPT ![work[w].rule] = release_standing(row[work[w].rule])]
    BY <1>3, <1>10 DEF DestinationUnavailable, Release
  <2>2. work[w].rule = r
    BY <1>1, <1>3, <2>1
  <2>3. row'[r] = release_standing(row[r])
    BY <1>1, <2>1, <2>2
  <2>4. row'[r].status = row[r].status /\ row'[r].due = row[r].due
    BY <1>1, <2>3, StoreTimes, StoreLeases
  <2> QED
    BY <1>2, <1>3, <2>4
<1>11. ASSUME NEW w \in Owners, Finish(w)  PROVE FALSE
  <2> DEFINE n == next_standing(w)
  <2>1. n.due \in Nat /\ n.status \in Statuses
    BY NextStandingType DEF Statuses
  <2>2. row' = [row EXCEPT ![work[w].rule] =
                  finish_standing(row[work[w].rule], n.due, n.status, work[w].result.ran)]
    BY <1>3, <1>11 DEF Finish
  <2>3. work[w].rule = r
    BY <1>1, <1>3, <2>2
  <2>4. row'[r] = finish_standing(row[r], n.due, n.status, work[w].result.ran)
    BY <1>1, <2>2, <2>3
  <2>5. work[w].stage \in Leased
    BY <1>11 DEF Finish, Leased, Stages
  <2>6. n.status = "active" => n.due # NoTime
    BY <2>5, NextStandingTimed DEF TimedInv
  <2> HIDE DEF n
  <2>7. row'[r].due = n.due /\ n.status = "active"
    BY <1>1, <1>2, <2>1, <2>4, StoreTimes
  <2> QED
    BY <1>2, <2>6, <2>7
<1>12. ASSUME \/ \E q \in Rules, s \in Schedules, ms \in SUBSET Members : PrepareSave(q, s, ms)
              \/ ReadDue \/ EndPoll \/ PollRaises \/ Tick \/ Crash \/ UNCHANGED vars
       PROVE  FALSE
  BY <1>3, <1>12 DEF PrepareSave, ReadDue, EndPoll, PollRaises, Tick, Crash, vars
<1>13. ASSUME NEW w \in Owners,
              \/ CheckRule(w) \/ TakeMemberLock(w) \/ (\E t \in Targets : ClearTarget(w, t))
              \/ Deliver(w) \/ Quiet(w) \/ RunEnds(w) \/ RunFails(w) \/ ModelUnavailable(w)
              \/ FinishRaises(w) \/ RuleRaises(w)
       PROVE  FALSE
  BY <1>3, <1>13 DEF CheckRule, RuleRaises, TakeMemberLock, ClearTarget, Deliver, Quiet, RunEnds,
                     RunFails, ModelUnavailable, FinishRaises
<1> QED
  BY <1>4, <1>5, <1>6, <1>8, <1>9, <1>10, <1>11, <1>12, <1>13 DEF Next, MemberStep, PollStep, TaskStep

\* A rule becomes active without a next run in one way only: a paused rule has lost its
\* time at the end of a run (finish_standing writes the next time, which is None for a
\* one-off, and keeps the pause), and its member resumes it (set_standing_status leaves
\* the time alone).  No failure, outage, restart, stop button or save does it.
THEOREM OnlyResumingStrands ==
  Spec => [][\A r \in Rules : Stranded(row[r])' /\ ~Stranded(row[r]) => ResumesTimeless(r)]_vars
<1>1. ASSUME TypeOK, TimedInv, [Next]_vars
      PROVE  [\A r \in Rules : Stranded(row[r])' /\ ~Stranded(row[r]) => ResumesTimeless(r)]_vars
  BY <1>1, StrandingStep
<1> QED
  BY <1>1, TypeInit, TypeNext, TimedInit, TimedNext, PTL DEF Spec

\* So the promise of the pause notices holds of every rule that is not resumed without a
\* time, whatever else happens to it.
THEOREM NextRunUnlessResumed ==
  Spec /\ [][\A r \in Rules : ~ResumesTimeless(r)]_vars => []ActiveRuleHasNextRun
<1> DEFINE NoneStranded == \A r \in Rules : ~Stranded(row[r])
           NoResume == \A r \in Rules : ~ResumesTimeless(r)
<1>1. Init => NoneStranded
  BY DEF Init, AbsentRow, Stranded
<1>2. ASSUME TypeOK, TimedInv, NoneStranded, [Next]_vars, [NoResume]_vars
      PROVE  NoneStranded'
  <2>1. CASE UNCHANGED vars
    BY <1>2, <2>1 DEF vars, Stranded
  <2>2. CASE NoResume
    BY <1>2, <2>2, StrandingStep
  <2> QED
    BY <1>2, <2>1, <2>2
<1>3. NoneStranded => ActiveRuleHasNextRun
  BY DEF ActiveRuleHasNextRun, Stranded
<1> HIDE DEF NoneStranded
<1> QED
  BY <1>1, <1>2, <1>3, TypeInit, TypeNext, TimedInit, TimedNext, PTL DEF Spec
=============================================================================
