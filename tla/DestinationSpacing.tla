-------------------------- MODULE DestinationSpacing --------------------------
(***************************************************************************)
(* "At most one message a minute to the same member's DMs or channel": how  *)
(* agent/scheduled/destination_limits.py decides, when a member saves or    *)
(* resumes a rule, whether its times keep apart from the times of the       *)
(* member's other active rules, and what becomes of that promise while      *)
(* rules run, run late, are skipped, paused and resumed.                    *)
(*                                                                          *)
(* Time is counted in steps of the clock.  Weekly and monthly rules are     *)
(* instants that repeat every Cycle, as the code treats them with its cycle *)
(* of 400 years.  Abstracted: timezones and the end of the calendar in the  *)
(* year 9999; everything about a rule but its schedule, count, due time,    *)
(* status and destinations.                                                 *)
(***************************************************************************)
EXTENDS Integers, FiniteSets

CONSTANTS
  Rules,      \* the rules of one member
  Schedules,  \* the schedules they may have
  Dest,       \* [Rules -> sets of destinations]
  Gap,        \* MIN_DESTINATION_INTERVAL_SECONDS
  Cycle,      \* _CALENDAR_CYCLE
  Irregular,  \* bound: the schedules whose runs may be late, paused or skipped
  MaxLate,    \* bound: how late a run starts, and a preview is confirmed
  MaxMissed,  \* bound: pauses and skipped runs
  MaxTime,    \* bound: the clock stops here
  Horizon     \* bound: how far the reference definition looks ahead

NoTime  == 0   \* NULL next_run_at, and a schedule without end_utc
NoLimit == 0   \* a schedule without "runs"

ASSUME SpacingAssumption ==
  /\ {Gap, Cycle} \subseteq Nat \ {0}
  /\ Irregular \subseteq Schedules
  /\ {MaxLate, MaxMissed, MaxTime, Horizon} \subseteq Nat

\* validate_end: a one-off has no end, a repeating rule at most one kind of end.
ASSUME SchedulesAssumption ==
  \A s \in Schedules :
    /\ s.kind \in {"once", "interval", "calendar"}
    /\ s.at \in Nat \ {0} /\ s.every \in Nat \ {0} /\ s.days \subseteq 0..(Cycle - 1)
    /\ s.kind = "calendar" => s.days # {}
    /\ s.end \in Nat /\ s.runs \in Nat
    /\ s.end = NoTime \/ s.runs = NoLimit
    /\ s.kind = "once" => s.end = NoTime /\ s.runs = NoLimit

VARIABLES
  row,     \* the rules: status, schedule, next_run_at, runs_completed
  now,     \* the clock
  missed   \* how much of the bound is used

vars == <<row, now, missed>>

NoSchedule == CHOOSE s \in Schedules : TRUE
Absent == [status |-> "absent", sched |-> NoSchedule, due |-> NoTime, done |-> 0]

-----------------------------------------------------------------------------
(* time_rules.py *)

schedule_expired(s, at, done) ==
  \/ s.end # NoTime /\ at > s.end
  \/ s.runs # NoLimit /\ done >= s.runs

\* The instants of a schedule, its end left aside.
Occurs(s, t) ==
  CASE s.kind = "once"     -> t = s.at
    [] s.kind = "interval" -> t >= s.at /\ (t - s.at) % s.every = 0
    [] OTHER               -> t % Cycle \in s.days

\* The first instant strictly after "after", or NoTime.  A calendar rule comes round
\* within a cycle, an interval within its period once it has begun.
next_occurrence(s, after, done) ==
  LET later == {t \in (after + 1)..(after + s.at + s.every + Cycle) :
                  Occurs(s, t) /\ (s.end # NoTime => t <= s.end)}
  IN  IF schedule_expired(s, after, done) \/ later = {} THEN NoTime
        ELSE CHOOSE t \in later : \A u \in later : t <= u

-----------------------------------------------------------------------------
(* destination_limits.py: arithmetic progressions *)

Least(a, b) == IF a < b THEN a ELSE b
Most(a, b) == IF a > b THEN a ELSE b
ceil(value, divisor) == -((-value) \div divisor)

\* math.gcd and pow(value, -1, modulus).
gcd(a, b) == CHOOSE d \in 1..a : /\ a % d = 0 /\ b % d = 0
                                 /\ \A e \in (d + 1)..a : a % e # 0 \/ b % e # 0
inverse(value, modulus) == CHOOSE x \in 0..(modulus - 1) : (value * x) % modulus = 1

\* Progression: its points are first + k * step for k in 0..last, or for all k.
Point(t)           == [first |-> t, step |-> 0, bounded |-> TRUE, last |-> 0]
Endless(t, every)  == [first |-> t, step |-> every, bounded |-> FALSE, last |-> 0]
Until(t, every, k) == [first |-> t, step |-> every, bounded |-> TRUE, last |-> k]

close(a, b) == (IF a < b THEN b - a ELSE a - b) < Gap

\* Mutant: only the point before is looked at.
near_point_before(point, seq) ==
  LET index == Most(0, (point - seq.first) \div seq.step)
  IN  close(point, seq.first + (IF seq.bounded THEN Least(index, seq.last) ELSE index)
                                 * seq.step)

\* The nearest points of the sequence are the one before the point and the one after.
near_point(point, seq) ==
  LET index == Most(0, (point - seq.first) \div seq.step)
      start == IF seq.bounded THEN Least(index, seq.last) ELSE index
  IN  \E k \in {start, start + 1} :
        (seq.bounded => k <= seq.last) /\ close(point, seq.first + k * seq.step)

\* Two endless or bounded sequences: for each difference below the gap that the steps
\* allow, the pairs (i, j) with that difference are themselves a progression.
sequences_conflict(left, right) ==
  LET divisor      == gcd(left.step, right.step)
      left_stride  == right.step \div divisor
      right_stride == left.step \div divisor
      difference   == left.first - right.first
      multiples    == ceil(1 - Gap - difference, divisor)..((Gap - 1 - difference) \div divisor)
      i(m) == IF left_stride > 1
                THEN (m * inverse(right_stride, left_stride)) % left_stride ELSE 0
      j(m) == (i(m) * left.step - m * divisor) \div right.step
      lower(m) == Most(ceil(-i(m), left_stride), ceil(-j(m), right_stride))
  IN  \E m \in multiples :
        /\ left.bounded => lower(m) <= (left.last - i(m)) \div left_stride
        /\ right.bounded => lower(m) <= (right.last - j(m)) \div right_stride

progressions_conflict(left, right) ==
  /\ ~(left.bounded /\ left.last < 0) /\ ~(right.bounded /\ right.last < 0)
  /\ CASE left.step = 0 /\ right.step = 0 -> close(left.first, right.first)
       [] left.step = 0 /\ right.step # 0 -> near_point(left.first, right)
       [] left.step # 0 /\ right.step = 0 -> near_point(right.first, left)
       [] OTHER                           -> sequences_conflict(left, right)

-----------------------------------------------------------------------------
(* destination_limits.py: schedules *)

\* A one-off, or an interval with the runs it has left.
progression(rw) ==
  LET s == rw.sched
  IN  CASE s.kind = "once"     -> Point(rw.due)
        [] s.runs # NoLimit    -> Until(rw.due, s.every, s.runs - rw.done - 1)
        [] s.end # NoTime      -> Until(rw.due, s.every, (s.end - rw.due) \div s.every)
        [] OTHER               -> Endless(rw.due, s.every)

\* The instants before "until", with the number each has among the runs to come.
calendar_times(rw, until) ==
  LET s == rw.sched
      all == {t \in rw.due..(until - 1) : Occurs(s, t) /\ (s.end # NoTime => t <= s.end)}
      number(t) == Cardinality({u \in all : u <= t})
  IN  {[at |-> t, ordinal |-> number(t)] : t \in
         {u \in all : s.runs # NoLimit => number(u) <= s.runs - rw.done}}

cycle_start(first) == (first \div Cycle + 1) * Cycle

\* Mutant: the repetitions left are counted per instant instead of per cycle.
repeats_by_runs_uncycled(left, ordinal, per_cycle) == left - ordinal
repeats_by_runs(left, ordinal, per_cycle) == (left - ordinal) \div per_cycle

\* Each instant of one full cycle repeats every Cycle, as often as the rule still runs.
repeated(rw, item, per_cycle) ==
  LET s == rw.sched
  IN  CASE s.runs # NoLimit -> Until(item.at, Cycle,
                                 repeats_by_runs(s.runs - rw.done, item.ordinal, per_cycle))
        [] s.end # NoTime   -> Until(item.at, Cycle, (s.end - item.at) \div Cycle)
        [] OTHER            -> Endless(item.at, Cycle)

calendar_interval_conflict(rw, interval) ==
  LET start == cycle_start(rw.due)
      full  == start + Cycle
      stop  == IF interval.bounded
                 THEN Least(full, interval.first + interval.step * interval.last + Gap)
                 ELSE full
      times == calendar_times(rw, stop)
      cycle == {item \in times : item.at >= start}
  IN  \/ \E item \in times \ cycle : progressions_conflict(Point(item.at), interval)
      \/ \E item \in cycle :
           progressions_conflict(repeated(rw, item, Cardinality(cycle)), interval)

\* Mutant: a full cycle after the earlier of the two due times.
calendars_until_early(a, b) == cycle_start(Least(a, b)) + Cycle
calendars_until(a, b) == cycle_start(Most(a, b)) + Cycle

\* The code walks both lists in order; with a full cycle of both that finds any pair.
calendars_conflict(left, right) ==
  LET until == calendars_until(left.due, right.due)
  IN  \E a \in calendar_times(left, until), b \in calendar_times(right, until) :
        close(a.at, b.at)

reserves(rw) == rw.due # NoTime /\ ~schedule_expired(rw.sched, rw.due, rw.done)
linear(rw) == rw.sched.kind \in {"once", "interval"}

schedules_conflict(left, right) ==
  /\ reserves(left) /\ reserves(right)
  /\ CASE linear(left) /\ linear(right)  ->
            progressions_conflict(progression(left), progression(right))
       [] linear(left) /\ ~linear(right) -> calendar_interval_conflict(right, progression(left))
       [] ~linear(left) /\ linear(right) -> calendar_interval_conflict(left, progression(right))
       [] OTHER                          -> calendars_conflict(left, right)

\* require_destination_spacing for rule r as rw, with the member's active rules.
require_destination_spacing(r, rw) ==
  /\ rw.sched.kind = "interval" => rw.sched.every >= Gap
  /\ \A s \in Rules \ {r} :
       row[s].status = "active" /\ Dest[r] \cap Dest[s] # {}
         => ~schedules_conflict(rw, row[s])

-----------------------------------------------------------------------------
(* Members and the runner *)

Init ==
  /\ row = [r \in Rules |-> Absent]
  /\ now = 1
  /\ missed = 0

late(s) == IF s \in Irregular THEN MaxLate ELSE 0
Missed(r) == row[r].sched \in Irregular /\ missed < MaxMissed /\ missed' = missed + 1

New(s, due) == [status |-> "active", sched |-> s, due |-> due, done |-> 0]

\* create_standing or replace_standing, with the first time found when the preview was
\* made; nothing is saved when the rule's times crowd another rule.
Save(r, s) ==
  \E asked \in Most(1, now - late(s))..now :
    LET due == next_occurrence(s, asked, 0)
    IN  /\ due # NoTime /\ (s.end # NoTime => due < s.end)
        /\ require_destination_spacing(r, New(s, due))
        /\ row' = [row EXCEPT ![r] = New(s, due)]
        /\ UNCHANGED <<now, missed>>

Pause(r) ==
  /\ row[r].status = "active" /\ Missed(r)
  /\ row' = [row EXCEPT ![r].status = "paused"]
  /\ UNCHANGED now

\* set_standing_status: the due time and the count stay as they were.
Resume(r) ==
  /\ row[r].status = "paused"
  /\ require_destination_spacing(r, row[r])
  /\ row' = [row EXCEPT ![r].status = "active"]
  /\ UNCHANGED <<now, missed>>

Due(r) == /\ row[r].status = "active" /\ row[r].due \in 1..now
          /\ ~schedule_expired(row[r].sched, now, row[r].done)

\* Mutant: what "no later time" is stored as.
next_due_unset(s, at, done) ==
  IF next_occurrence(s, at, done) = NoTime THEN -1 ELSE next_occurrence(s, at, done)
next_due(s, at, done) == next_occurrence(s, at, done)

\* A run that was carried out, finish_standing: the count and the next time after now.
Run(r) ==
  LET next == next_due(row[r].sched, now, row[r].done + 1)
  IN  /\ Due(r)
      /\ row' = [row EXCEPT ![r].due = next, ![r].done = @ + 1,
                            ![r].status = IF next = NoTime THEN "completed" ELSE "active"]
      /\ UNCHANGED <<now, missed>>

\* A run that was skipped, the model being unavailable: it does not count, and a rule
\* without a later time stays due.
Skip(r) ==
  LET next == next_due(row[r].sched, now, row[r].done)
  IN  /\ Due(r) /\ Missed(r)
      /\ row' = [row EXCEPT ![r].due = IF next = NoTime THEN @ ELSE next]
      /\ UNCHANGED now

\* expire_standing, or a run that finds its schedule over.
Expire(r) ==
  /\ row[r].status = "active"
  /\ schedule_expired(row[r].sched, now, row[r].done)
  /\ row' = [row EXCEPT ![r].due = NoTime, ![r].status = "completed"]
  /\ UNCHANGED <<now, missed>>

Tick ==
  /\ now < MaxTime
  /\ \A r \in Rules : Due(r) => now < row[r].due + late(row[r].sched)
  /\ now' = now + 1
  /\ UNCHANGED <<row, missed>>

Next ==
  \/ \E r \in Rules :
       \/ \E s \in Schedules : Save(r, s)
       \/ Pause(r) \/ Resume(r) \/ Run(r) \/ Skip(r) \/ Expire(r)
  \/ Tick

Spec == Init /\ [][Next]_vars

-----------------------------------------------------------------------------
(* Properties *)

TypeOK ==
  /\ row \in [Rules -> [status : {"absent", "active", "paused", "completed"},
                        sched : Schedules, due : Nat, done : Nat]]
  /\ now \in Nat /\ missed \in Nat

\* Reference definition: the times at which a rule that is never late still runs.
planned(rw) ==
  LET s     == rw.sched
      ahead == {t \in rw.due..Horizon : Occurs(s, t) /\ (s.end # NoTime => t <= s.end)}
  IN  IF rw.due = NoTime THEN {}
      ELSE {t \in ahead : s.runs # NoLimit =>
                            Cardinality({u \in ahead : u <= t}) <= s.runs - rw.done}

Crowd(left, right) == \E a \in planned(left), b \in planned(right) : close(a, b)

\* "At most one message a minute to the same member's DMs or channel, across all your
\* reminders, requests and watchers": the times at which active rules of a member will
\* run stay apart at each destination, whatever was saved, resumed, run or missed.
PlannedTimesKeepApart ==
  \A r, s \in Rules :
    r # s /\ row[r].status = "active" /\ row[s].status = "active" /\ Dest[r] \cap Dest[s] # {}
      => ~Crowd(row[r], row[s])

\* The reference definition sees far enough for the schedules: each is over before the
\* horizon, or comes round every "span" and is due for the first time a span before it.
HorizonSees(span) ==
  \A s \in Schedules :
    \/ s.kind = "once" /\ s.at + Gap <= Horizon
    \/ s.end # NoTime /\ s.end + Gap <= Horizon
    \/ /\ s.kind # "once" /\ span % (IF s.kind = "interval" THEN s.every ELSE Cycle) = 0
       /\ \A t \in 1..MaxTime : next_occurrence(s, t, 0) + span + Gap <= Horizon

\* A rule is refused only when some two of the times would really come too close: the
\* arithmetic is exact, also for rules that have run a few times.
RefusalsHaveAReason ==
  \A r, q \in Rules, s \in Schedules :
    LET new == New(s, next_occurrence(s, now, 0))
    IN  r # q /\ row[q].status = "active" /\ schedules_conflict(new, row[q])
          => Crowd(new, row[q])
=============================================================================
