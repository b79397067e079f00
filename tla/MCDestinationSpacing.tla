------------------------- MODULE MCDestinationSpacing -------------------------
(* Small instances of DestinationSpacing for TLC. *)
EXTENDS DestinationSpacing

CONSTANTS r1, r2

Base == [kind |-> "once", at |-> 1, every |-> 1, days |-> {}, end |-> NoTime,
         runs |-> NoLimit]
Once(at)            == [Base EXCEPT !.at = at]
Interval(at, every) == [Base EXCEPT !.kind = "interval", !.at = at, !.every = every]
Calendar(days)      == [Base EXCEPT !.kind = "calendar", !.days = days]
Runs(s, n)          == [s EXCEPT !.runs = n]
EndsAt(s, t)        == [s EXCEPT !.end = t]

\* Steps with and without a common divisor, with each other and with the cycle.
Unlimited == {Once(3), Interval(2, 4), Interval(4, 8), Interval(3, 6),
              Interval(2, 3), Calendar({2}), Calendar({0, 4}),
              EndsAt(Interval(1, 3), 8), EndsAt(Calendar({3, 6}), 14)}
Limited == {Once(7), Once(28), Interval(2, 4), Runs(Interval(4, 3), 2), Runs(Interval(1, 6), 3),
            Calendar({5}), Runs(Calendar({1, 4}), 5), Runs(Calendar({7}), 2),
            EndsAt(Interval(3, 5), 13)}
Mixed == Unlimited \cup Limited

\* 24 is a common multiple of the periods of all schedules that do not end, and of the cycle.
ASSUME FarEnough == HorizonSees(24)

OneDM == [r \in Rules |-> IF r = r1 THEN {"dm", "channel"} ELSE {"dm"}]
=============================================================================
