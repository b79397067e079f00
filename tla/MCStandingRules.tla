--------------------------- MODULE MCStandingRules ---------------------------
(* Small instances of StandingRules for TLC. *)
EXTENDS StandingRules, TLC

CONSTANTS r1, r2, ann, bob

Repeat  == [kind |-> "repeat", at |-> 2, every |-> 1, end |-> NoTime, runs |-> NoLimit]
Twice   == [kind |-> "repeat", at |-> 2, every |-> 1, end |-> NoTime, runs |-> 2]
Ending  == [kind |-> "repeat", at |-> 2, every |-> 2, end |-> 3, runs |-> NoLimit]
Once    == [kind |-> "once", at |-> 2, every |-> 1, end |-> NoTime, runs |-> NoLimit]

MixedSchedules    == {Once, Twice, Ending}
OnceOnly          == {Once}

AllReminders == [r \in Rules |-> "reminder"]
AllRequests  == [r \in Rules |-> "request"]
RequestAndWatcher == [r \in Rules |-> IF r = r1 THEN "request" ELSE "watcher"]
AllAnn == [r \in Rules |-> ann]
TwoClash == {<<r1, r2>>, <<r2, r1>>}
NoClash  == {}

OwnerSymmetry == Permutations(Owners)
=============================================================================
