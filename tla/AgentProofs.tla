------------------------------ MODULE AgentProofs ------------------------------
(***************************************************************************)
(* Safety proofs of what becomes of a message to the agent: the request,    *)
(* its conversation, the steps of its plan, and the answer it ends in.      *)
(***************************************************************************)
EXTENDS AgentJobsProofs, AgentRequests, ReplyDelivery, PlanSteps

-----------------------------------------------------------------------------
(* PlanSteps: who runs beside whom, what is looked up, and what goes on.     *)

StepPlaces == Active \cup {"pending", "started", "back", "out"}

PlanShapes ==
  /\ plan \in Plans
  /\ stage \in [DOMAIN plan -> StepPlaces] /\ outcome \in [DOMAIN plan -> Outcomes]
  /\ sharing \in [DOMAIN plan -> DOMAIN plan \cup {NoStepYet, Earlier}]
  /\ reads \in [PlanKeys -> DOMAIN plan \cup {NoStepYet, Earlier}]
  /\ done \in [PlanKeys -> Nat] /\ bad \in [PlanKeys -> Nat] /\ lookups \in Nat
  /\ \A s \in DOMAIN plan :
       /\ outcome[s] # "none" <=> stage[s] \in {"back", "out"}
       /\ stage[s] = "sharing" => sharing[s] # NoStepYet

\* What a step needs has left its round before the step begins.
NeedsAreOut ==
  \A s \in DOMAIN plan : stage[s] # "pending" => \A d \in plan[s].needs : stage[d] = "out"

\* A change has its round to itself, and no read could have run before it.
RoundsAreSafe ==
  \A s \in InRound : plan[s].change =>
    \A t \in DOMAIN plan \ {s} :
      /\ t \notin InRound
      /\ plan[t].change \/ stage[t] = "out" \/ \E d \in plan[t].needs : stage[d] # "out"

\* The owner of a lookup is about to make it or has its result, and whoever is about to make
\* one that is shared owns it.
OwnersLook ==
  /\ \A k \in PlanKeys : \A s \in DOMAIN plan : reads[k] = s =>
       /\ plan[s].key = k /\ ~plan[s].change /\ plan[s].shares
       /\ stage[s] \in {"reserving", "looking"} \/ outcome[s] = "good"
  /\ \A s \in DOMAIN plan : stage[s] \in {"reserving", "looking"} /\ ~plan[s].change /\ plan[s].shares =>
       reads[plan[s].key] = s

\* A key whose reads are shared, and one whose result is at hand.
ReadOnly(k) == \A p \in Plans : \A s \in DOMAIN p : p[s].key = k => ~p[s].change /\ p[s].shares
AtHand(k)   == reads[k] = Earlier \/ \E s \in DOMAIN plan : reads[k] = s /\ outcome[s] = "good"

\* Every lookup of a key whose reads are shared went wrong, but for the one whose result is at hand.
LookupsAreCounted ==
  \A k \in PlanKeys : ReadOnly(k) =>
    done[k] <= 1 + bad[k] /\ (~AtHand(k) => done[k] <= bad[k])

PlanInv ==
  /\ PlanShapes /\ NeedsAreOut /\ RoundsAreSafe /\ FailurePassesOn /\ OwnersLook
  /\ LookupsAreCounted /\ lookups <= MaxLookups

\* A set of step numbers has its least in it.
LEMMA LeastIsIn ==
  ASSUME NEW S \in SUBSET Nat, S # {}
  PROVE  Min(S) \in S
<1> DEFINE Upto == {S \cap 0..k : k \in S}
<1>1. \A k \in S : S \cap 0..k \in FiniteSubsetsOf(S)
  <2> TAKE k \in S
  <2>1. IsFiniteSet(0..k)
    BY FS_Interval
  <2> QED
    BY <2>1, FS_Subset DEF FiniteSubsetsOf
<1>2. IsWellFoundedOn(StrictSubsetOrdering(S), FiniteSubsetsOf(S))
  BY FS_StrictSubsetOrderingWellFounded
<1>3. PICK k \in S : \A y \in S : <<S \cap 0..y, S \cap 0..k>> \notin StrictSubsetOrdering(S)
  <2>1. Upto # {} /\ Upto \subseteq FiniteSubsetsOf(S)
    BY <1>1
  <2> HIDE DEF Upto
  <2>2. \E x \in Upto : \A z \in Upto : <<z, x>> \notin StrictSubsetOrdering(S)
    BY <1>2, <2>1, WFMin
  <2> QED
    BY <2>2 DEF Upto
<1>4. \A y \in S : k =< y
  <2> SUFFICES ASSUME NEW y \in S, y < k PROVE FALSE
    OBVIOUS
  <2>1. S \cap 0..y \subseteq S \cap 0..k /\ k \in S \cap 0..k /\ k \notin S \cap 0..y
    OBVIOUS
  <2> QED
    BY <1>3, <2>1 DEF StrictSubsetOrdering
<1> QED
  BY <1>4 DEF Min

\* What the assumption says of the plan that runs.
LEMMA PlanIsOne ==
  ASSUME PlanShapes
  PROVE  /\ DOMAIN plan \subseteq Nat \ {0}
         /\ \A s \in DOMAIN plan :
              /\ plan[s].needs \subseteq DOMAIN plan /\ s \notin plan[s].needs
              /\ plan[s].change \in BOOLEAN
              /\ plan[s].key \in PlanKeys
         /\ NoStepYet \notin DOMAIN plan /\ Earlier \notin DOMAIN plan /\ NoStepYet # Earlier
<1>1. plan \in Plans
  BY DEF PlanShapes
<1>2. /\ DOMAIN plan \subseteq Nat \ {0}
      /\ \A s \in DOMAIN plan :
           plan[s].needs \subseteq DOMAIN plan \cap (1..(s - 1)) /\ plan[s].change \in BOOLEAN
  BY <1>1, PlanAssumption DEF PlanAssumption
<1>3. \A s \in DOMAIN plan : plan[s].key \in PlanKeys
  BY <1>1 DEF PlanKeys
<1>4. \A s \in DOMAIN plan : s \notin plan[s].needs
  BY <1>2
<1> QED
  BY <1>2, <1>3, <1>4 DEF NoStepYet, Earlier

\* A plan that begins, the first of a request or the next one, finds what was read before.
LEMMA PlanBegins ==
  ASSUME plan' \in Plans, stage' = All(plan', "pending"), outcome' = All(plan', "none"),
         sharing' = All(plan', NoStepYet), reads' \in [PlanKeys -> {NoStepYet, Earlier}],
         done' \in [PlanKeys -> Nat], bad' \in [PlanKeys -> Nat], lookups' \in Nat,
         lookups' <= MaxLookups,
         \A k \in PlanKeys : ReadOnly(k) =>
           done'[k] <= 1 + bad'[k] /\ (reads'[k] = NoStepYet => done'[k] <= bad'[k])
  PROVE  PlanInv'
<1>1. \A s \in DOMAIN plan' : stage'[s] = "pending" /\ outcome'[s] = "none"
  BY DEF All
<1>2. stage' \in [DOMAIN plan' -> StepPlaces] /\ outcome' \in [DOMAIN plan' -> Outcomes]
  BY DEF All, StepPlaces, Outcomes
<1>3. sharing' \in [DOMAIN plan' -> DOMAIN plan' \cup {NoStepYet, Earlier}]
  BY DEF All
<1>4. reads' \in [PlanKeys -> DOMAIN plan' \cup {NoStepYet, Earlier}]
  OBVIOUS
<1>5. PlanShapes'
  BY <1>1, <1>2, <1>3, <1>4 DEF PlanShapes
<1>6. NoStepYet \notin DOMAIN plan' /\ Earlier \notin DOMAIN plan'
  BY PlanAssumption DEF PlanAssumption, NoStepYet, Earlier
<1>7. NeedsAreOut' /\ RoundsAreSafe' /\ FailurePassesOn' /\ OwnersLook'
  BY <1>1, <1>6 DEF NeedsAreOut, RoundsAreSafe, InRound, FailurePassesOn, OwnersLook
<1>8. LookupsAreCounted'
  BY <1>4 DEF LookupsAreCounted, AtHand
<1> QED
  BY <1>5, <1>7, <1>8 DEF PlanInv

LEMMA PlanStarts == PlanInit => PlanInv
<1> SUFFICES ASSUME PlanInit PROVE PlanInv
  OBVIOUS
<1> USE DEF PlanInit
<1>1. \A s \in DOMAIN plan : stage[s] = "pending" /\ outcome[s] = "none"
  BY DEF All
<1>2. /\ stage \in [DOMAIN plan -> StepPlaces] /\ outcome \in [DOMAIN plan -> Outcomes]
      /\ sharing \in [DOMAIN plan -> DOMAIN plan \cup {NoStepYet, Earlier}]
  BY DEF All, StepPlaces, Outcomes
<1>3. PlanShapes
  BY <1>1, <1>2 DEF PlanShapes
<1>4. NeedsAreOut /\ RoundsAreSafe /\ FailurePassesOn
  BY <1>1 DEF NeedsAreOut, RoundsAreSafe, InRound, FailurePassesOn
<1>5. OwnersLook /\ LookupsAreCounted
  BY <1>1, <1>3, PlanIsOne DEF OwnersLook, LookupsAreCounted
<1> QED
  BY <1>3, <1>4, <1>5, PlanAssumption DEF PlanInv, PlanAssumption

\* One step of the plan moves within its round, or comes back with what it came to.
Within(s) ==
  /\ stage[s] \in Active \cup {"started"} /\ ended = "no" /\ plan' = plan
  /\ stage' \in [DOMAIN plan -> StepPlaces] /\ outcome' \in [DOMAIN plan -> Outcomes]
  /\ \A t \in DOMAIN plan \ {s} : stage'[t] = stage[t] /\ outcome'[t] = outcome[t]
  /\ \/ stage'[s] \in Active /\ outcome'[s] = "none"
     \/ stage'[s] = "back" /\ outcome'[s] # "none"
  /\ stage'[s] \in Active \/ outcome'[s] = "good" =>
       \A d \in plan[s].needs : outcome[d] # "failed"

\* The round goes on as it was.
LEMMA RoundKept ==
  ASSUME PlanInv, NEW s \in DOMAIN plan, Within(s)
  PROVE  /\ NeedsAreOut' /\ RoundsAreSafe' /\ FailurePassesOn'
         /\ \A t \in DOMAIN plan : outcome'[t] # "none" <=> stage'[t] \in {"back", "out"}
<1>0. /\ PlanShapes /\ NeedsAreOut /\ RoundsAreSafe /\ FailurePassesOn /\ plan' = plan
      /\ \A t \in DOMAIN plan : plan[t].needs \subseteq DOMAIN plan
      /\ \A t \in DOMAIN plan \ {s} : stage'[t] = stage[t] /\ outcome'[t] = outcome[t]
  BY PlanIsOne DEF PlanInv, Within
<1>1. /\ stage[s] \notin {"pending", "out"} /\ stage'[s] \notin {"pending", "out"}
      /\ s \in InRound
  BY DEF Within, Active, InRound
<1>2. \A t \in DOMAIN plan : /\ stage'[t] = "out" <=> stage[t] = "out"
                             /\ stage'[t] = "pending" <=> stage[t] = "pending"
  BY <1>0, <1>1
<1>3. InRound' = InRound
  BY <1>0, <1>2 DEF InRound
<1>4. NeedsAreOut'
  BY <1>0, <1>2 DEF NeedsAreOut
<1>5. RoundsAreSafe'
  BY <1>0, <1>2, <1>3 DEF RoundsAreSafe, InRound
<1>6. FailurePassesOn'
  <2> SUFFICES ASSUME NEW t \in DOMAIN plan, NEW d \in plan[t].needs,
                      stage'[t] # "pending", outcome'[d] = "failed"
               PROVE  stage'[t] \notin Active /\ outcome'[t] # "good"
    BY <1>0 DEF FailurePassesOn
  <2>1. d \in DOMAIN plan /\ stage[d] = "out" /\ d # s
    BY <1>0, <1>1, <1>2 DEF NeedsAreOut
  <2>2. outcome[d] = "failed"
    BY <1>0, <2>1
  <2>3. CASE t = s
    BY <2>2, <2>3 DEF Within
  <2>4. CASE t # s
    BY <1>0, <1>2, <2>2, <2>4 DEF FailurePassesOn
  <2> QED
    BY <2>3, <2>4
<1>7. \A t \in DOMAIN plan : outcome'[t] # "none" <=> stage'[t] \in {"back", "out"}
  BY <1>0 DEF PlanShapes, Within, Active
<1> QED
  BY <1>4, <1>5, <1>6, <1>7

\* What one step does to the lookups: nothing, it becomes the owner of one that is at nobody's
\* hands, it gives its own up, or it makes it.
ReadsKept(s) ==
  /\ UNCHANGED <<reads, done, bad>>
  /\ \/ stage'[s] \in {"reserving", "looking"} /\ stage[s] \in {"reserving", "looking"}
     \/ stage[s] \notin {"reserving", "looking"} /\ stage'[s] \notin {"reserving", "looking"}
     \/ stage[s] = "checking" /\ stage'[s] = "reserving" /\ ~(~plan[s].change /\ plan[s].shares)
ReadTaken(s) ==
  /\ stage[s] = "checking" /\ stage'[s] = "reserving" /\ ~plan[s].change /\ plan[s].shares
  /\ reads[plan[s].key] = NoStepYet /\ reads' = [reads EXCEPT ![plan[s].key] = s]
  /\ UNCHANGED <<done, bad>>
ReadDropped(s) ==
  /\ stage[s] \in {"reserving", "looking"} /\ stage'[s] = "back" /\ outcome'[s] # "good"
  /\ reads' = Drop(s)
  /\ \/ UNCHANGED <<done, bad>>
     \/ /\ done' = [done EXCEPT ![plan[s].key] = @ + 1]
        /\ bad' = [bad EXCEPT ![plan[s].key] = @ + 1]
ReadMade(s) ==
  /\ stage[s] = "looking" /\ stage'[s] = "back" /\ outcome'[s] = "good" /\ UNCHANGED <<reads, bad>>
  /\ done' = [done EXCEPT ![plan[s].key] = @ + 1]

\* A key whose reads are shared belongs to such reads.
LEMMA ReadOnlyStep ==
  ASSUME PlanShapes, NEW s \in DOMAIN plan, ReadOnly(plan[s].key)
  PROVE  ~plan[s].change /\ plan[s].shares
BY DEF PlanShapes, ReadOnly

\* The lookups stay owned and counted, whatever the step does.
LEMMA LookupsKept ==
  ASSUME PlanInv, NEW s \in DOMAIN plan, Within(s),
         ReadsKept(s) \/ ReadTaken(s) \/ ReadDropped(s) \/ ReadMade(s)
  PROVE  /\ OwnersLook' /\ LookupsAreCounted'
         /\ reads' \in [PlanKeys -> DOMAIN plan \cup {NoStepYet, Earlier}]
         /\ done' \in [PlanKeys -> Nat] /\ bad' \in [PlanKeys -> Nat]
<1>0. /\ PlanShapes /\ OwnersLook /\ LookupsAreCounted /\ plan' = plan
      /\ reads \in [PlanKeys -> DOMAIN plan \cup {NoStepYet, Earlier}]
      /\ done \in [PlanKeys -> Nat] /\ bad \in [PlanKeys -> Nat]
      /\ \A t \in DOMAIN plan \ {s} : stage'[t] = stage[t] /\ outcome'[t] = outcome[t]
      /\ \A t \in DOMAIN plan : plan[t].key \in PlanKeys
      /\ NoStepYet \notin DOMAIN plan /\ Earlier \notin DOMAIN plan /\ NoStepYet # Earlier
      /\ outcome[s] = "none"
  BY PlanIsOne DEF PlanInv, PlanShapes, Within, Active
<1>1. \A k \in PlanKeys : reads[k] = s => ~AtHand(k)
  BY <1>0 DEF AtHand
<1>2. \A k \in PlanKeys : reads[k] # s /\ reads'[k] = reads[k] => (AtHand(k)' <=> AtHand(k))
  BY <1>0 DEF AtHand
<1>3. CASE ReadsKept(s)
  <2>1. \A k \in PlanKeys : reads[k] = s => stage'[s] \in {"reserving", "looking"}
    BY <1>0, <1>3 DEF ReadsKept, OwnersLook
  <2>2. OwnersLook'
    BY <1>0, <1>3, <2>1 DEF ReadsKept, OwnersLook
  <2>3. outcome'[s] = "none" \/ \A k \in PlanKeys : reads[k] # s
    BY <2>1, <1>0 DEF Within
  <2>4. \A k \in PlanKeys : AtHand(k)' <=> AtHand(k)
    <3>1. ASSUME NEW k \in PlanKeys, reads[k] = s PROVE ~AtHand(k)'
      BY <1>0, <1>3, <2>3, <3>1 DEF AtHand, ReadsKept
    <3> QED
      BY <1>1, <1>2, <1>3, <3>1 DEF ReadsKept
  <2>5. LookupsAreCounted'
    BY <1>0, <1>3, <2>4 DEF ReadsKept, LookupsAreCounted
  <2> QED
    BY <1>0, <1>3, <2>2, <2>5 DEF ReadsKept
<1>4. CASE ReadTaken(s)
  <2>1. /\ reads' \in [PlanKeys -> DOMAIN plan \cup {NoStepYet, Earlier}]
        /\ reads'[plan[s].key] = s
        /\ \A k \in PlanKeys \ {plan[s].key} : reads'[k] = reads[k]
        /\ outcome'[s] = "none" /\ stage'[s] = "reserving" /\ reads[plan[s].key] = NoStepYet
        /\ ~plan[s].change /\ plan[s].shares
    BY <1>0, <1>4 DEF ReadTaken, Within
  <2>2. \A k \in PlanKeys : reads[k] # s
    BY <1>0, <1>4 DEF ReadTaken, OwnersLook
  <2>3. OwnersLook'
    <3>1. ASSUME NEW k \in PlanKeys, NEW t \in DOMAIN plan, reads'[k] = t
          PROVE  /\ plan[t].key = k /\ ~plan[t].change /\ plan[t].shares
                 /\ stage'[t] \in {"reserving", "looking"} \/ outcome'[t] = "good"
      BY <1>0, <2>1, <2>2, <3>1 DEF OwnersLook
    <3>2. ASSUME NEW t \in DOMAIN plan, stage'[t] \in {"reserving", "looking"},
                 ~plan[t].change /\ plan[t].shares
          PROVE  reads'[plan[t].key] = t
      BY <1>0, <2>1, <3>2 DEF OwnersLook
    <3> QED
      BY <1>0, <3>1, <3>2 DEF OwnersLook
  <2>4. ~AtHand(plan[s].key)
    BY <1>0, <2>1 DEF AtHand
  <2>5. LookupsAreCounted'
    BY <1>0, <1>2, <1>4, <2>1, <2>2, <2>4 DEF LookupsAreCounted, ReadTaken
  <2> QED
    BY <1>0, <1>4, <2>1, <2>3, <2>5 DEF ReadTaken
<1>5. CASE ReadDropped(s)
  <2>1. /\ reads' \in [PlanKeys -> DOMAIN plan \cup {NoStepYet, Earlier}]
        /\ \A k \in PlanKeys : reads'[k] = IF reads[k] = s THEN NoStepYet ELSE reads[k]
        /\ stage'[s] = "back"
    BY <1>0, <1>5 DEF ReadDropped, Drop
  <2>2. OwnersLook'
    <3>1. ASSUME NEW k \in PlanKeys, NEW t \in DOMAIN plan, reads'[k] = t
          PROVE  /\ plan[t].key = k /\ ~plan[t].change /\ plan[t].shares
                 /\ stage'[t] \in {"reserving", "looking"} \/ outcome'[t] = "good"
      BY <1>0, <2>1, <3>1 DEF OwnersLook
    <3>2. ASSUME NEW t \in DOMAIN plan, stage'[t] \in {"reserving", "looking"},
                 ~plan[t].change /\ plan[t].shares
          PROVE  reads'[plan[t].key] = t
      BY <1>0, <2>1, <3>2 DEF OwnersLook
    <3> QED
      BY <1>0, <3>1, <3>2 DEF OwnersLook
  <2>3. /\ done' \in [PlanKeys -> Nat] /\ bad' \in [PlanKeys -> Nat]
        /\ \A k \in PlanKeys : /\ done[k] <= 1 + bad[k] => done'[k] <= 1 + bad'[k]
                               /\ done[k] <= bad[k] => done'[k] <= bad'[k]
    BY <1>0, <1>5 DEF ReadDropped
  <2>4. \A k \in PlanKeys : ~AtHand(k)' => ~AtHand(k)
    <3> SUFFICES ASSUME NEW k \in PlanKeys, AtHand(k) PROVE AtHand(k)'
      OBVIOUS
    <3>1. reads[k] # s
      BY <1>1
    <3> QED
      BY <1>2, <2>1, <3>1
  <2>5. LookupsAreCounted'
    BY <1>0, <2>3, <2>4 DEF LookupsAreCounted
  <2> QED
    BY <2>1, <2>2, <2>3, <2>5
<1>6. CASE ReadMade(s)
  <2>1. OwnersLook'
    BY <1>0, <1>6 DEF ReadMade, OwnersLook
  <2>2. /\ done' \in [PlanKeys -> Nat] /\ done'[plan[s].key] = done[plan[s].key] + 1
        /\ \A k \in PlanKeys \ {plan[s].key} : done'[k] = done[k]
    BY <1>0, <1>6 DEF ReadMade
  <2>3. ReadOnly(plan[s].key) => reads[plan[s].key] = s
    BY <1>0, <1>6, ReadOnlyStep DEF ReadMade, OwnersLook
  <2>4. ReadOnly(plan[s].key) => done[plan[s].key] <= bad[plan[s].key] /\ AtHand(plan[s].key)'
    BY <1>0, <1>1, <1>6, <2>3 DEF LookupsAreCounted, ReadMade, AtHand
  <2>5. \A k \in PlanKeys \ {plan[s].key} : reads[k] # s
    BY <1>0 DEF OwnersLook
  <2>6. LookupsAreCounted'
    BY <1>0, <1>2, <1>6, <2>2, <2>4, <2>5 DEF LookupsAreCounted, ReadMade
  <2> QED
    BY <1>0, <1>6, <2>1, <2>2, <2>6 DEF ReadMade
<1> QED
  BY <1>3, <1>4, <1>5, <1>6

\* A step that goes on, or comes back, moves within its round.
LEMMA GoesWithin ==
  ASSUME PlanInv, NEW s \in DOMAIN plan, NEW at \in Active \cup {"started"}, StepAt(s, at),
         NEW where \in Active, StepGoes(s, where),
         at = "started" => ~blocked(s)
  PROVE  Within(s) /\ stage'[s] = where /\ stage[s] = at
<1>1. PlanShapes /\ FailurePassesOn /\ stage[s] = at /\ ended = "no"
  BY DEF PlanInv, StepAt
<1>2. /\ stage' \in [DOMAIN plan -> StepPlaces] /\ stage'[s] = where
      /\ outcome' = outcome /\ plan' = plan
      /\ \A t \in DOMAIN plan \ {s} : stage'[t] = stage[t]
  BY <1>1 DEF StepGoes, PlanShapes, StepPlaces
<1>3. outcome[s] = "none"
  BY <1>1 DEF PlanShapes, Active
<1>4. \A d \in plan[s].needs : outcome[d] # "failed"
  BY <1>1 DEF FailurePassesOn, blocked, Active
<1> QED
  BY <1>1, <1>2, <1>3, <1>4 DEF Within, PlanShapes

LEMMA ComesWithin ==
  ASSUME PlanInv, NEW s \in DOMAIN plan, NEW at \in Active \cup {"started"}, StepAt(s, at),
         NEW what \in Outcomes \ {"none"}, Comes(s, what),
         what = "good" => at \in Active
  PROVE  Within(s) /\ stage'[s] = "back" /\ outcome'[s] = what /\ stage[s] = at
<1>1. PlanShapes /\ FailurePassesOn /\ stage[s] = at /\ ended = "no"
  BY DEF PlanInv, StepAt
<1>2. /\ stage' \in [DOMAIN plan -> StepPlaces] /\ stage'[s] = "back"
      /\ outcome' \in [DOMAIN plan -> Outcomes] /\ outcome'[s] = what /\ plan' = plan
      /\ \A t \in DOMAIN plan \ {s} : stage'[t] = stage[t] /\ outcome'[t] = outcome[t]
  BY <1>1 DEF Comes, PlanShapes, StepPlaces
<1>3. what = "good" => \A d \in plan[s].needs : outcome[d] # "failed"
  BY <1>1 DEF FailurePassesOn, Active
<1>4. "back" \notin Active
  BY DEF Active
<1> QED
  BY <1>1, <1>2, <1>3, <1>4 DEF Within

\* What the sharer of a lookup is told is something.
LEMMA SharedIsTold ==
  ASSUME PlanShapes, NEW s \in DOMAIN plan, stage[s] = "sharing"
  PROVE  shared(s) \in Outcomes
<1>1. sharing[s] \in DOMAIN plan \cup {Earlier}
  BY DEF PlanShapes
<1> QED
  BY <1>1 DEF shared, PlanShapes, Outcomes

\* Every step is one of those.
LEMMA StepsAct ==
  ASSUME PlanInv, NEW s \in DOMAIN plan, StepActs(s)
  PROVE  /\ Within(s) /\ (ReadsKept(s) \/ ReadTaken(s) \/ ReadDropped(s) \/ ReadMade(s))
         /\ lookups' \in Nat /\ lookups' <= MaxLookups
         /\ sharing' \in [DOMAIN plan -> DOMAIN plan \cup {NoStepYet, Earlier}]
         /\ \A t \in DOMAIN plan : stage'[t] = "sharing" => sharing'[t] # NoStepYet
<1>0. /\ PlanShapes /\ lookups \in Nat /\ lookups <= MaxLookups
      /\ sharing \in [DOMAIN plan -> DOMAIN plan \cup {NoStepYet, Earlier}]
      /\ \A t \in DOMAIN plan : stage[t] = "sharing" => sharing[t] # NoStepYet
      /\ {"checking", "sharing", "reserving", "looking"} \subseteq Active
      /\ {"good", "flagged", "failed", "lost", "cut"} \subseteq Outcomes \ {"none"}
  BY DEF PlanInv, PlanShapes, Active, Outcomes
<1>1. ASSUME Within(s), UNCHANGED sharing, stage'[s] # "sharing"
      PROVE  /\ sharing' \in [DOMAIN plan -> DOMAIN plan \cup {NoStepYet, Earlier}]
             /\ \A t \in DOMAIN plan : stage'[t] = "sharing" => sharing'[t] # NoStepYet
  BY <1>0, <1>1 DEF Within
<1>2. ASSUME NEW at \in {"started", "checking", "sharing"}, NEW what \in Outcomes \ {"none"},
             StepAt(s, at), Comes(s, what), what = "good" => at \in Active,
             UNCHANGED <<reads, lookups, done, bad>>
      PROVE  /\ Within(s) /\ ReadsKept(s) /\ UNCHANGED <<sharing, lookups>> /\ stage'[s] = "back"
  <2>1. Within(s) /\ stage'[s] = "back" /\ stage[s] = at
    BY <1>0, <1>2, ComesWithin
  <2> QED
    BY <1>2, <2>1 DEF ReadsKept, Comes
<1>3. CASE NotRun(s)
  <2>1. Within(s) /\ ReadsKept(s) /\ UNCHANGED <<sharing, lookups>> /\ stage'[s] = "back"
    BY <1>0, <1>2, <1>3 DEF NotRun
  <2> QED
    BY <1>0, <1>1, <2>1
<1>4. CASE EnterStep(s)
  <2>1. Within(s) /\ stage'[s] = "checking" /\ stage[s] = "started"
    BY <1>0, <1>4, GoesWithin DEF EnterStep
  <2>2. UNCHANGED <<sharing, reads, lookups, done, bad>>
    BY <1>4 DEF EnterStep
  <2> QED
    BY <1>0, <1>1, <2>1, <2>2 DEF ReadsKept
<1>5. CASE StepCheckFails(s)
  <2>1. PICK what \in {"failed", "lost"} : Comes(s, what)
    BY <1>5 DEF StepCheckFails
  <2>2. Within(s) /\ ReadsKept(s) /\ UNCHANGED <<sharing, lookups>> /\ stage'[s] = "back"
    BY <1>0, <1>2, <1>5, <2>1 DEF StepCheckFails
  <2> QED
    BY <1>0, <1>1, <2>2
<1>6. CASE CheckPasses(s)
  <2>0. StepAt(s, "checking") /\ UNCHANGED <<lookups, done, bad>>
    BY <1>6 DEF CheckPasses
  <2>1. CASE ~(registers(s) /\ reads[plan[s].key] # NoStepYet)
    <3>1. StepGoes(s, "reserving") /\ UNCHANGED sharing
      BY <1>6, <2>1 DEF CheckPasses
    <3>2. Within(s) /\ stage'[s] = "reserving" /\ stage[s] = "checking"
      BY <1>0, <2>0, <3>1, GoesWithin
    <3>3. ReadsKept(s) \/ ReadTaken(s)
      BY <1>6, <2>0, <2>1, <3>2 DEF CheckPasses, registers, ReadsKept, ReadTaken
    <3> QED
      BY <1>0, <1>1, <2>0, <3>1, <3>2, <3>3
  <2>2. CASE registers(s) /\ reads[plan[s].key] # NoStepYet
    <3>1. /\ StepGoes(s, "sharing") /\ sharing' = [sharing EXCEPT ![s] = reads[plan[s].key]]
          /\ UNCHANGED reads
      BY <1>6, <2>2 DEF CheckPasses
    <3>2. Within(s) /\ stage'[s] = "sharing" /\ stage[s] = "checking"
      BY <1>0, <2>0, <3>1, GoesWithin
    <3>3. ReadsKept(s)
      BY <2>0, <3>1, <3>2 DEF ReadsKept
    <3>4. reads[plan[s].key] \in DOMAIN plan \cup {Earlier}
      BY <1>0, <2>2, PlanIsOne DEF PlanShapes
    <3>5. /\ sharing' \in [DOMAIN plan -> DOMAIN plan \cup {NoStepYet, Earlier}]
          /\ sharing'[s] = reads[plan[s].key]
          /\ \A t \in DOMAIN plan \ {s} : sharing'[t] = sharing[t]
      BY <1>0, <3>1, <3>4
    <3>6. reads[plan[s].key] # NoStepYet
      BY <2>2
    <3> QED
      BY <1>0, <2>0, <3>2, <3>3, <3>5, <3>6 DEF Within
  <2> QED
    BY <2>1, <2>2
<1>7. CASE Share(s)
  <2>1. shared(s) \in Outcomes \ {"none"}
    BY <1>0, <1>7, SharedIsTold DEF Share, StepAt
  <2>2. Within(s) /\ ReadsKept(s) /\ UNCHANGED <<sharing, lookups>> /\ stage'[s] = "back"
    BY <1>0, <1>2, <1>7, <2>1 DEF Share
  <2> QED
    BY <1>0, <1>1, <2>2
<1>8. CASE ShareLost(s)
  <2>1. Within(s) /\ ReadsKept(s) /\ UNCHANGED <<sharing, lookups>> /\ stage'[s] = "back"
    BY <1>0, <1>2, <1>8 DEF ShareLost
  <2> QED
    BY <1>0, <1>1, <2>1
<1>9. CASE Reserve(s)
  <2>0. StepAt(s, "reserving") /\ UNCHANGED <<done, bad>>
    BY <1>9 DEF Reserve
  <2>1. CASE room
    <3>1. StepGoes(s, "looking") /\ lookups' = lookups + 1 /\ UNCHANGED <<reads, sharing>>
      BY <1>9, <2>1 DEF Reserve
    <3>2. Within(s) /\ stage'[s] = "looking" /\ stage[s] = "reserving"
      BY <1>0, <2>0, <3>1, GoesWithin
    <3>3. lookups' \in Nat /\ lookups' <= MaxLookups
      BY <1>0, <2>1, <3>1, PlanAssumption DEF room, PlanAssumption
    <3> QED
      BY <1>0, <1>1, <2>0, <3>1, <3>2, <3>3 DEF ReadsKept
  <2>2. CASE ~room
    <3>1. Comes(s, "failed") /\ reads' = Drop(s) /\ UNCHANGED lookups
      BY <1>9, <2>2 DEF Reserve
    <3>2. Within(s) /\ stage'[s] = "back" /\ outcome'[s] = "failed" /\ stage[s] = "reserving"
      BY <1>0, <2>0, <3>1, ComesWithin
    <3> QED
      BY <1>0, <1>1, <2>0, <3>1, <3>2 DEF ReadDropped, Comes
  <2> QED
    BY <2>1, <2>2
<1>10. CASE LookUp(s)
  <2>1. PICK what \in {"good", "flagged", "failed", "lost"} :
          /\ StepAt(s, "looking") /\ Comes(s, what) /\ reads' = kept_reads(s, what)
          /\ IF what = "good" THEN Calm /\ UNCHANGED bad
             ELSE Trouble /\ bad' = [bad EXCEPT ![plan[s].key] = @ + 1]
          /\ done' = [done EXCEPT ![plan[s].key] = @ + 1]
          /\ UNCHANGED lookups
    BY <1>10 DEF LookUp
  <2>2. Within(s) /\ stage'[s] = "back" /\ outcome'[s] = what /\ stage[s] = "looking"
    BY <1>0, <2>1, ComesWithin
  <2>3. ReadMade(s) \/ ReadDropped(s)
    BY <2>1, <2>2 DEF ReadMade, ReadDropped, kept_reads
  <2> QED
    BY <1>0, <1>1, <2>1, <2>2, <2>3 DEF Comes
<1> QED
  BY <1>3, <1>4, <1>5, <1>6, <1>7, <1>8, <1>9, <1>10 DEF StepActs

\* A round begins with the reads that can run, or with one change when there are none.
LEMMA RoundBegins ==
  ASSUME PlanInv, BeginRound
  PROVE  PlanInv'
<1> DEFINE ready == {s \in DOMAIN plan : stage[s] = "pending"
                                           /\ \A d \in plan[s].needs : stage[d] = "out"}
           begun == in_parallel(ready)
<1>0. /\ PlanShapes /\ NeedsAreOut /\ FailurePassesOn /\ OwnersLook /\ LookupsAreCounted
      /\ \A s \in DOMAIN plan : plan[s].needs \subseteq DOMAIN plan /\ s \notin plan[s].needs
                                  /\ plan[s].change \in BOOLEAN
      /\ DOMAIN plan \subseteq Nat
  BY PlanIsOne DEF PlanInv
<1>1. /\ InRound = {} /\ ready # {}
      /\ stage' = [s \in DOMAIN plan |-> IF s \in begun THEN "started" ELSE stage[s]]
      /\ UNCHANGED <<plan, outcome, sharing, reads, lookups, done, bad>>
  BY DEF BeginRound
<1>2. /\ begun \subseteq ready
      /\ (\A s \in begun : ~plan[s].change)
           \/ ((\A s \in ready : plan[s].change) /\ (\A s, t \in begun : s = t))
  <2> DEFINE asking == {s \in ready : ~plan[s].change}
  <2>1. CASE asking # {}
    <3>1. begun = asking
      BY <2>1 DEF in_parallel
    <3> QED
      BY <3>1
  <2>2. CASE asking = {}
    <3>1. begun = {Min(ready)}
      BY <2>2 DEF in_parallel
    <3>2. Min(ready) \in ready
      BY <1>0, <1>1, LeastIsIn
    <3> QED
      BY <2>2, <3>1, <3>2
  <2> QED
    BY <2>1, <2>2
<1> HIDE DEF begun
<1>3. /\ stage' \in [DOMAIN plan -> StepPlaces]
      /\ \A s \in DOMAIN plan : stage'[s] = IF s \in begun THEN "started" ELSE stage[s]
  BY <1>0, <1>1 DEF PlanShapes, StepPlaces
<1>4. \A s \in begun : s \in DOMAIN plan /\ stage[s] = "pending" /\ \A d \in plan[s].needs : stage[d] = "out"
  BY <1>2
<1>5. \A s \in DOMAIN plan : stage[s] \in {"pending", "out"}
  BY <1>1 DEF InRound
<1>6. \A s \in DOMAIN plan : s \in InRound' <=> s \in begun
  BY <1>1, <1>3, <1>5 DEF InRound
<1>7. PlanShapes'
  BY <1>0, <1>1, <1>3, <1>4 DEF PlanShapes
<1>8. \A s \in DOMAIN plan : stage'[s] = "out" <=> stage[s] = "out"
  BY <1>3, <1>4
<1>9. NeedsAreOut'
  BY <1>0, <1>1, <1>3, <1>4, <1>8 DEF NeedsAreOut
<1>10. RoundsAreSafe'
  <2> SUFFICES ASSUME NEW s \in begun, plan[s].change, NEW t \in DOMAIN plan \ {s}
               PROVE  /\ t \notin InRound'
                      /\ \/ plan[t].change \/ stage'[t] = "out"
                         \/ \E d \in plan[t].needs : stage'[d] # "out"
    BY <1>1, <1>4, <1>6 DEF RoundsAreSafe, InRound
  <2>1. (\A u \in ready : plan[u].change) /\ t \notin begun
    BY <1>2
  <2>2. t \notin ready \/ plan[t].change
    BY <2>1
  <2> QED
    BY <1>0, <1>3, <1>5, <1>6, <1>8, <2>1, <2>2
<1>11. FailurePassesOn'
  <2> SUFFICES ASSUME NEW s \in DOMAIN plan, NEW d \in plan[s].needs,
                      stage'[s] # "pending", outcome[d] = "failed"
               PROVE  stage'[s] \notin Active /\ outcome[s] # "good"
    BY <1>1 DEF FailurePassesOn
  <2>1. CASE s \in begun
    BY <1>0, <1>3, <1>4, <2>1 DEF Active, PlanShapes
  <2>2. CASE s \notin begun
    BY <1>0, <1>3, <2>2 DEF FailurePassesOn
  <2> QED
    BY <2>1, <2>2
<1>12. OwnersLook'
  BY <1>0, <1>1, <1>3, <1>4 DEF OwnersLook
<1>13. LookupsAreCounted' /\ lookups' <= MaxLookups
  BY <1>0, <1>1 DEF LookupsAreCounted, AtHand, PlanInv
<1> QED
  BY <1>7, <1>9, <1>10, <1>11, <1>12, <1>13 DEF PlanInv

\* A round ends, by itself or with the request; who was about to look up drops the lookup.
LEMMA RoundEnds ==
  ASSUME PlanInv, UNCHANGED <<plan, sharing, lookups, done, bad>>,
         stage' = [s \in DOMAIN plan |-> IF s \in InRound THEN "out" ELSE stage[s]],
         outcome' = [s \in DOMAIN plan |-> IF s \in InRound /\ stage[s] # "back" THEN "cut"
                                           ELSE outcome[s]],
         reads' = [k \in PlanKeys |-> IF reads[k] \in InRound /\ stage[reads[k]] # "back"
                                      THEN NoStepYet ELSE reads[k]]
  PROVE  PlanInv'
<1>0. /\ PlanShapes /\ NeedsAreOut /\ FailurePassesOn /\ OwnersLook /\ LookupsAreCounted
      /\ NoStepYet \notin DOMAIN plan /\ Earlier \notin DOMAIN plan /\ NoStepYet # Earlier
      /\ \A s \in DOMAIN plan : plan[s].needs \subseteq DOMAIN plan
      /\ \A s : s \in InRound <=> s \in DOMAIN plan /\ stage[s] \notin {"pending", "out"}
  BY PlanIsOne DEF PlanInv, InRound
<1>1. /\ stage' \in [DOMAIN plan -> StepPlaces] /\ outcome' \in [DOMAIN plan -> Outcomes]
      /\ \A s \in DOMAIN plan :
           /\ stage'[s] = IF stage[s] \in {"pending", "out"} THEN stage[s] ELSE "out"
           /\ outcome'[s] = IF stage[s] \in {"pending", "out", "back"} THEN outcome[s] ELSE "cut"
  BY <1>0 DEF PlanShapes, StepPlaces, Outcomes
<1>2. /\ reads' \in [PlanKeys -> DOMAIN plan \cup {NoStepYet, Earlier}]
      /\ \A k \in PlanKeys :
           \/ reads'[k] = NoStepYet
           \/ /\ reads'[k] = reads[k]
              /\ reads[k] \in DOMAIN plan => stage[reads[k]] \in {"pending", "out", "back"}
  BY <1>0 DEF PlanShapes
<1>3. PlanShapes'
  BY <1>0, <1>1, <1>2 DEF PlanShapes
<1>4. InRound' = {} /\ RoundsAreSafe'
  BY <1>1 DEF InRound, RoundsAreSafe
<1>5. NeedsAreOut'
  BY <1>0, <1>1 DEF NeedsAreOut
<1>6. FailurePassesOn'
  <2> SUFFICES ASSUME NEW s \in DOMAIN plan, NEW d \in plan[s].needs,
                      stage'[s] # "pending", outcome'[d] = "failed"
               PROVE  stage'[s] \notin Active /\ outcome'[s] # "good"
    BY DEF FailurePassesOn
  <2>1. stage[s] # "pending" /\ outcome[d] = "failed" /\ stage'[s] = "out"
    BY <1>0, <1>1
  <2>2. outcome[s] # "good"
    BY <1>0, <2>1 DEF FailurePassesOn
  <2> QED
    BY <1>1, <2>1, <2>2 DEF Active
<1>7. \A k \in PlanKeys : \A s \in DOMAIN plan : reads'[k] = s =>
        reads[k] = s /\ outcome[s] = "good" /\ outcome'[s] = "good"
  BY <1>0, <1>1, <1>2 DEF OwnersLook
<1>8. OwnersLook'
  BY <1>0, <1>1, <1>7 DEF OwnersLook
<1>9. \A k \in PlanKeys : AtHand(k) => AtHand(k)'
  <2> SUFFICES ASSUME NEW k \in PlanKeys, AtHand(k) PROVE AtHand(k)'
    OBVIOUS
  <2>1. CASE reads[k] = Earlier
    <3>1. reads[k] \notin InRound
      BY <1>0, <2>1
    <3> QED
      BY <2>1, <3>1 DEF AtHand
  <2>2. ASSUME NEW s \in DOMAIN plan, reads[k] = s, outcome[s] = "good" PROVE AtHand(k)'
    <3>1. stage[s] \in {"back", "out"}
      BY <1>0, <2>2 DEF PlanShapes
    <3>2. reads'[k] = s /\ outcome'[s] = "good"
      BY <1>0, <1>1, <2>2, <3>1
    <3> QED
      BY <3>2 DEF AtHand
  <2> QED
    BY <2>1, <2>2 DEF AtHand
<1>10. LookupsAreCounted' /\ lookups' <= MaxLookups
  BY <1>0, <1>9 DEF LookupsAreCounted, PlanInv
<1> QED
  BY <1>3, <1>4, <1>5, <1>6, <1>8, <1>10 DEF PlanInv

\* Every step of the rounds, a cancellation and the next plan keep the invariant.
LEMMA PlanKept == PlanInv /\ [PlanNext]_planVars => PlanInv'
<1> SUFFICES ASSUME PlanInv, [PlanNext]_planVars PROVE PlanInv'
  OBVIOUS
<1>0. PlanShapes /\ LookupsAreCounted /\ lookups <= MaxLookups
  BY DEF PlanInv
<1>1. CASE UNCHANGED planVars
  BY <1>1 DEF planVars, PlanInv, PlanShapes, NeedsAreOut, RoundsAreSafe, InRound, FailurePassesOn,
     OwnersLook, LookupsAreCounted, AtHand
<1>2. CASE BeginRound
  BY <1>2, RoundBegins
<1>3. CASE EndRound
  <2>1. /\ UNCHANGED <<plan, sharing, lookups, done, bad, outcome, reads>>
        /\ stage' = [s \in DOMAIN plan |-> IF s \in InRound THEN "out" ELSE stage[s]]
        /\ \A s \in InRound : stage[s] = "back"
    BY <1>3 DEF EndRound
  <2>2. outcome' = [s \in DOMAIN plan |-> IF s \in InRound /\ stage[s] # "back" THEN "cut"
                                          ELSE outcome[s]]
    BY <1>0, <2>1 DEF PlanShapes
  <2>3. reads' = [k \in PlanKeys |-> IF reads[k] \in InRound /\ stage[reads[k]] # "back"
                                     THEN NoStepYet ELSE reads[k]]
    BY <1>0, <2>1 DEF PlanShapes
  <2> QED
    BY <2>1, <2>2, <2>3, RoundEnds
<1>4. ASSUME NEW s \in DOMAIN plan, StepActs(s) PROVE PlanInv'
  <2>1. /\ Within(s) /\ (ReadsKept(s) \/ ReadTaken(s) \/ ReadDropped(s) \/ ReadMade(s))
        /\ lookups' \in Nat /\ lookups' <= MaxLookups
        /\ sharing' \in [DOMAIN plan -> DOMAIN plan \cup {NoStepYet, Earlier}]
        /\ \A t \in DOMAIN plan : stage'[t] = "sharing" => sharing'[t] # NoStepYet
    BY <1>4, StepsAct
  <2>2. /\ NeedsAreOut' /\ RoundsAreSafe' /\ FailurePassesOn'
        /\ \A t \in DOMAIN plan : outcome'[t] # "none" <=> stage'[t] \in {"back", "out"}
    BY <2>1, RoundKept
  <2>3. /\ OwnersLook' /\ LookupsAreCounted'
        /\ reads' \in [PlanKeys -> DOMAIN plan \cup {NoStepYet, Earlier}]
        /\ done' \in [PlanKeys -> Nat] /\ bad' \in [PlanKeys -> Nat]
    BY <2>1, LookupsKept
  <2>4. PlanShapes'
    BY <1>0, <2>1, <2>2, <2>3 DEF PlanShapes, Within
  <2> QED
    BY <2>1, <2>2, <2>3, <2>4 DEF PlanInv
<1>5. CASE CancelRequest
  BY <1>5, RoundEnds DEF CancelRequest
<1>6. CASE NextPlan
  <2>1. /\ plan' \in Plans /\ stage' = All(plan', "pending") /\ outcome' = All(plan', "none")
        /\ sharing' = All(plan', NoStepYet) /\ reads' = carried_over
        /\ UNCHANGED <<lookups, done, bad>>
    BY <1>6 DEF NextPlan
  <2>2. /\ reads' \in [PlanKeys -> {NoStepYet, Earlier}]
        /\ \A k \in PlanKeys : reads'[k] = NoStepYet => reads[k] = NoStepYet
    BY <2>1, PlanIsOne, <1>0 DEF carried_over
  <2>3. \A k \in PlanKeys : reads[k] = NoStepYet => ~AtHand(k)
    BY <1>0, PlanIsOne DEF AtHand
  <2>4. \A k \in PlanKeys : ReadOnly(k) =>
          done'[k] <= 1 + bad'[k] /\ (reads'[k] = NoStepYet => done'[k] <= bad'[k])
    BY <1>0, <2>1, <2>2, <2>3 DEF LookupsAreCounted
  <2>5. /\ done' \in [PlanKeys -> Nat] /\ bad' \in [PlanKeys -> Nat] /\ lookups' \in Nat
        /\ lookups' <= MaxLookups
    BY <1>0, <2>1 DEF PlanShapes
  <2> QED
    BY <2>1, <2>2, <2>4, <2>5, PlanBegins
<1> QED
  BY <1>1, <1>2, <1>3, <1>4, <1>5, <1>6 DEF PlanNext, PlanGoesOn

\* The steps of a request's plans neither repeat each other's lookups nor overtake what they
\* need, for every plan, number of slots and limit: changes run alone and last, a key whose
\* reads are shared is looked up once and once more for every lookup that went wrong, and no
\* step runs on an error.
THEOREM StepsAsPlanned == PlanSpec => []StepsRunAsPlanned
<1>1. PlanInv => StepsRunAsPlanned
  <2> SUFFICES ASSUME PlanInv PROVE StepsRunAsPlanned
    OBVIOUS
  <2>1. ChangesStandAlone
    <3> SUFFICES ASSUME NEW s \in DOMAIN plan, plan[s].change, stage[s] \in Active,
                        NEW t \in DOMAIN plan \ {s}
                 PROVE  /\ stage[t] \notin Active \cup {"started", "back"}
                        /\ \/ plan[t].change \/ stage[t] = "out"
                           \/ \E d \in plan[t].needs : stage[d] # "out"
      BY DEF ChangesStandAlone
    <3>1. s \in InRound
      BY DEF InRound, Active
    <3>2. /\ t \notin InRound
          /\ plan[t].change \/ stage[t] = "out" \/ \E d \in plan[t].needs : stage[d] # "out"
      BY <3>1 DEF PlanInv, RoundsAreSafe
    <3>3. stage[t] \in {"pending", "out"}
      BY <3>2 DEF InRound
    <3> QED
      BY <3>2, <3>3 DEF Active
  <2>2. ReadsAreShared
    BY DEF ReadsAreShared, PlanInv, LookupsAreCounted, ReadOnly
  <2> QED
    BY <2>1, <2>2 DEF PlanInv, StepsRunAsPlanned
<1> QED
  BY <1>1, PlanStarts, PlanKept, PTL DEF PlanSpec

-----------------------------------------------------------------------------
(* AgentRequests: requests wait for four locks; what is loaded, saved and answered stays
   together, caller by caller. *)

\* The state has its shape, and who has come so far has a conversation.
RequestShapes ==
  /\ loaded \in Seq(Objects) /\ copies \in [Messages -> 0..MaxCopies]
  /\ turns \in [Objects -> SUBSET Turns] /\ replies \in [Objects -> SUBSET Messages]
  /\ work \in [Callers -> [stage : Stages, conv : Objects \cup {NoObject}]]
  /\ disk \in [Messages -> [rev : Nat, turns : SUBSET Turns, replies : SUBSET Messages,
                            aged : BOOLEAN]]
  /\ revs \in [Messages -> Nat]
  /\ writer \in Callers \cup {Nobody}
  /\ \A c \in Callers :
       /\ work[c].conv = NoObject <=> At(c, {"none", "lookup", "ready", "over"})
       /\ c \in Changes => At(c, {"none", "changing", "outcome", "saving", "writing", "over"})
       /\ c \in Events => ~At(c, {"changing", "outcome"})

\* An object that has not been made is nowhere.
CopiesAreFresh ==
  \A o \in Objects : o.copy > copies[o.root] =>
    /\ turns[o] = {} /\ replies[o] = {} /\ o \notin ToSet(loaded)
    /\ \A c \in Callers : work[c].conv # o

\* The locks: one caller in a conversation, and one request of a member.
LocksHeld ==
  /\ \A c, d \in Callers :
       c # d /\ At(c, InConversation) /\ At(d, InConversation) => work[c].conv # work[d].conv
  /\ \A d, e \in Events :
       d # e /\ At(d, InMember) /\ At(e, InMember) => Author[MessageOf[d]] # Author[MessageOf[e]]

\* Who has or writes a conversation has it loaded.
StaysLoaded ==
  \A c \in Callers : (c \in Events /\ At(c, Pending)) \/ At(c, {"writing"})
    => work[c].conv \in ToSet(loaded)

\* A snapshot is read and written under the lock, and what is read stays as it is on disk.
StoreIsLocked ==
  /\ \A c \in Callers : At(c, {"reading", "writing"}) => writer = c
  /\ \A e \in Callers : At(e, {"reading"}) =>
       /\ work[e].conv \notin ToSet(loaded)
       /\ \A c \in Callers \ {e} : work[c].conv # work[e].conv
       /\ disk[work[e].conv.root].turns \subseteq turns[work[e].conv]

\* A message that was answered: no announcement of it comes or is under way to get in line.
Said(m) ==
  /\ \E d \in Events : MessageOf[d] = m /\ At(d, {"sent", "saving", "writing", "over"})
  /\ \A e \in Events : MessageOf[e] = m => ~At(e, {"lookup", "reading", "ready"})

\* A conversation has contents, or anyone but its first message, only when that was answered.
OnlyOfAnswered ==
  /\ \A o \in Objects : turns[o] # {} \/ replies[o] # {} => Said(o.root)
  /\ \A r \in Messages : disk[r].turns # {} \/ disk[r].replies # {} => Said(r)
  /\ \A c \in Callers :
       /\ work[c].conv # NoObject
       /\ c \in Changes \/ At(c, {"reading", "sent", "saving", "writing"})
                    \/ MessageOf[c] # work[c].conv.root
       => Said(work[c].conv.root)

\* Whoever is being answered was not answered before.
NotYetAnswered ==
  \A e \in Events : At(e, {"answering"}) => Answer(MessageOf[e]) \notin turns[work[e].conv]

\* The table holds finitely many snapshots.
TableIsFinite == IsFiniteSet(Snapshots)

RequestInv ==
  /\ RequestShapes /\ CopiesAreFresh /\ LocksHeld /\ StaysLoaded /\ StoreIsLocked
  /\ OnlyOfAnswered /\ NotYetAnswered /\ MemoryHoldsSnapshot
  /\ TableIsFinite

\* The ways a look at the disk ends, and the ways into a conversation.
SnapshotFound(e, r) ==
  /\ ReadSnapshot(e) /\ ReplyTo[MessageOf[e]] \in disk[r].replies
  /\ Copied({r}) /\ Enters(e, "reading", NewCopy(r)) /\ writer' = e
NoSnapshotFound(e) ==
  /\ ReadSnapshot(e) /\ (Goes(e, "ready") \/ Ends(e))
  /\ UNCHANGED <<copies, turns, replies, writer>>
EnterKnown(e, o) ==
  /\ Enter(e) /\ o \in ToSet(pruned) /\ Enters(e, "conversation", o)
  /\ ReplyTo[MessageOf[e]] \in replies[o] \/ o.root = MessageOf[e]
  /\ loaded' = pruned /\ UNCHANGED copies
EnterNew(e) ==
  LET m == MessageOf[e]
  IN  /\ Enter(e) /\ (\A o \in ToSet(pruned) : o.root # m) /\ may_add(pruned)
      /\ copies[m] < MaxCopies /\ copies' = [copies EXCEPT ![m] = @ + 1]
      /\ loaded' = added(pruned, NewCopy(m)) /\ Enters(e, "conversation", NewCopy(m))
EnterNot(e) ==
  /\ Enter(e) /\ Ends(e) /\ UNCHANGED copies
  /\ UNCHANGED loaded \/ loaded' = pruned

Past  == {"sent", "saving", "writing", "over"}
Early == {"lookup", "reading", "ready"}

\* One caller goes on; nobody else does.
Moves(c, to, o) ==
  /\ work' \in [Callers -> [stage : Stages, conv : Objects \cup {NoObject}]]
  /\ work'[c].stage = to /\ work'[c].conv = o
  /\ \A d \in Callers : d # c => work'[d] = work[d]

\* What is loaded may lose what nobody works in, and gains some.
Loads(S) ==
  /\ loaded' \in Seq(Objects)
  /\ ToSet(loaded') \subseteq ToSet(loaded) \cup S
  /\ S \subseteq ToSet(loaded')
  /\ \A p \in ToSet(loaded) : is_active(p) => p \in ToSet(loaded')

LEMMA CallersAre ==
  /\ Events \subseteq Callers /\ Changes \subseteq Callers /\ Events \cap Changes = {}
  /\ Nobody \notin Callers /\ NoObject \notin Objects
  /\ MessageOf \in [Events -> Messages] /\ Changes \subseteq Messages
  /\ \A c \in Callers : c \in Events \/ c \in Changes
BY RequestsAssumption DEF Callers, NoObject, Objects

LEMMA GoesMoves ==
  ASSUME RequestShapes, NEW c \in Callers, NEW to \in Stages, Goes(c, to)
  PROVE  Moves(c, to, work[c].conv)
<1>1. work[c] \in [stage : Stages, conv : Objects \cup {NoObject}]
  BY DEF RequestShapes
<1>2. /\ DOMAIN work = Callers
      /\ work' = [work EXCEPT ![c].stage = to]
  BY DEF RequestShapes, Goes
<1>3. /\ work'[c] = [work[c] EXCEPT !.stage = to]
      /\ \A d \in Callers : d # c => work'[d] = work[d]
      /\ work' = [d \in Callers |-> work'[d]]
  BY <1>2
<1>4. work'[c].stage = to /\ work'[c].conv = work[c].conv
             /\ work'[c] \in [stage : Stages, conv : Objects \cup {NoObject}]
  BY <1>1, <1>3
<1>5. \A d \in Callers : work'[d] \in [stage : Stages, conv : Objects \cup {NoObject}]
  BY <1>3, <1>4 DEF RequestShapes
<1> QED
  BY <1>3, <1>4, <1>5 DEF Moves

LEMMA EntersMoves ==
  ASSUME RequestShapes, NEW c \in Callers, NEW to \in Stages, NEW o \in Objects \cup {NoObject},
         Enters(c, to, o)
  PROVE  Moves(c, to, o)
BY DEF RequestShapes, Enters, Moves

LEMMA EndsMoves ==
  ASSUME RequestShapes, NEW c \in Callers, Ends(c)
  PROVE  Moves(c, "over", NoObject)
BY EntersMoves DEF Ends, Stages

LEMMA PrunedIs ==
  ASSUME RequestShapes
  PROVE  /\ pruned \in Seq(Objects)
         /\ ToSet(pruned) \subseteq ToSet(loaded)
         /\ \A p \in ToSet(loaded) : is_active(p) => p \in ToSet(pruned)
BY PickedIs DEF RequestShapes, pruned

LEMMA PrunedLoads ==
  ASSUME RequestShapes, loaded' = pruned
  PROVE  Loads({})
BY PrunedIs DEF Loads

LEMMA SameLoads ==
  ASSUME RequestShapes, loaded' = loaded
  PROVE  Loads({})
BY DEF Loads, RequestShapes

LEMMA SetOf ==
  ASSUME NEW S, NEW s \in Seq(S)
  PROVE  ToSet(s) \subseteq S /\ ToSet(s) = {s[i] : i \in 1..Len(s)}
BY DEF ToSet

LEMMA AppendSet ==
  ASSUME NEW S, NEW s \in Seq(S), NEW x \in S
  PROVE  Append(s, x) \in Seq(S) /\ ToSet(Append(s, x)) = ToSet(s) \cup {x}
<1>1. /\ Append(s, x) \in Seq(S) /\ Len(Append(s, x)) = Len(s) + 1 /\ Len(s) \in Nat
      /\ Append(s, x)[Len(s) + 1] = x
      /\ \A i \in 1..Len(s) : Append(s, x)[i] = s[i]
  OBVIOUS
<1>2. 1..(Len(s) + 1) = (1..Len(s)) \cup {Len(s) + 1}
  BY <1>1
<1> DEFINE t == Append(s, x)
<1>3. ToSet(t) = {t[i] : i \in 1..(Len(s) + 1)} /\ ToSet(s) = {s[i] : i \in 1..Len(s)}
  BY <1>1, SetOf
<1> HIDE DEF t
<1>4. {t[i] : i \in 1..(Len(s) + 1)} = {t[i] : i \in 1..Len(s)} \cup {t[Len(s) + 1]}
  BY <1>2
<1>5. {t[i] : i \in 1..Len(s)} = {s[i] : i \in 1..Len(s)} /\ t[Len(s) + 1] = x
  BY <1>1 DEF t
<1> QED
  BY <1>1, <1>3, <1>4, <1>5 DEF t

LEMMA AddedSet ==
  ASSUME RequestShapes, NEW o \in Objects, may_add(pruned), loaded' = added(pruned, o)
  PROVE  Loads({o}) /\ ToSet(loaded') \subseteq ToSet(pruned) \cup {o}
<1>1. /\ pruned \in Seq(Objects) /\ ToSet(pruned) \subseteq ToSet(loaded)
      /\ \A p \in ToSet(loaded) : is_active(p) => p \in ToSet(pruned)
  BY PrunedIs
<1> DEFINE os == pruned
           rest == IF full(os) THEN Without(os, Head(idle(os))) ELSE os
<1>2. rest \in Seq(Objects) /\ ToSet(rest) \subseteq ToSet(os)
      /\ \A p \in ToSet(os) : is_active(p) => p \in ToSet(rest)
  <2> HIDE DEF os
  <2>1. CASE ~full(os)
    BY <1>1, <2>1 DEF os
  <2>2. CASE full(os)
    <3>1. idle(os) # <<>>
      BY <2>2 DEF may_add, os
    <3>2. os \in Seq(Objects)
      BY <1>1 DEF os
    <3>3. idle(os) \in Seq(Objects)
                 /\ ToSet(idle(os)) = {p \in ToSet(os) : p \in {q \in ToSet(os) : ~is_active(q)}}
      BY <3>2, PickedIs DEF idle
    <3>4. Head(idle(os)) \in ToSet(idle(os))
      <4> DEFINE t == idle(os)
      <4> HIDE DEF t
      <4>1. t \in Seq(Objects) /\ t # <<>>
        BY <3>1, <3>3 DEF t
      <4>2. Head(t) = t[1] /\ 1 \in 1..Len(t)
        BY <4>1
      <4>3. Head(t) \in ToSet(t)
        BY <4>1, <4>2, SetOf
      <4> QED
        BY <4>3 DEF t
    <3> DEFINE h == Head(idle(os))
    <3> HIDE DEF h
    <3>5. ~is_active(h)
      BY <3>3, <3>4 DEF h
    <3>6. rest = Picked(os, ToSet(os) \ {h})
      BY <2>2 DEF Without, h
    <3>7. /\ Picked(os, ToSet(os) \ {h}) \in Seq(Objects)
          /\ ToSet(Picked(os, ToSet(os) \ {h})) = {p \in ToSet(os) : p \in ToSet(os) \ {h}}
      BY <3>2, PickedIs
    <3> HIDE DEF rest
    <3> QED
      BY <3>5, <3>6, <3>7
  <2> QED
    BY <2>1, <2>2
<1>3. loaded' = Append(rest, o)
  BY DEF added
<1> HIDE DEF rest, os
<1>4. loaded' \in Seq(Objects) /\ ToSet(loaded') = ToSet(rest) \cup {o}
  BY <1>2, <1>3, AppendSet
<1> QED
  BY <1>1, <1>2, <1>4 DEF Loads, os

LEMMA AddedLoads ==
  ASSUME RequestShapes, NEW o \in Objects, may_add(pruned), loaded' = added(pruned, o)
  PROVE  Loads({o})
BY AddedSet

LEMMA TouchedLoads ==
  ASSUME RequestShapes, NEW o \in Objects, Touched(o)
  PROVE  Loads({o}) /\ ToSet(loaded') = ToSet(loaded) \cup {o}
<1> DEFINE k == Picked(loaded, ToSet(loaded) \ {o})
<1>1. loaded' = Append(k, o)
  BY DEF Touched, Without
<1>2. k \in Seq(Objects) /\ ToSet(k) = {p \in ToSet(loaded) : p \in ToSet(loaded) \ {o}}
  BY PickedIs DEF RequestShapes
<1> HIDE DEF k
<1>3. loaded' \in Seq(Objects) /\ ToSet(loaded') = ToSet(k) \cup {o}
  BY <1>1, <1>2, AppendSet
<1> QED
  BY <1>2, <1>3 DEF Loads

\* What was answered stays so.
LEMMA SaidStays ==
  ASSUME \A c \in Events : /\ At(c, Past) => At(c, Past)'
                           /\ At(c, Early)' => At(c, Early) \/ ~Said(MessageOf[c])
  PROVE  \A m \in Messages : Said(m) => Said(m)'
BY DEF Said, Past, Early

\* What is used anywhere has been made; what is made next is not.
LEMMA MadeAre ==
  ASSUME RequestShapes, CopiesAreFresh
  PROVE  /\ \A p \in ToSet(loaded) : p \in Objects /\ p.copy <= copies[p.root]
         /\ \A c \in Callers : work[c].conv # NoObject
              => work[c].conv \in Objects /\ work[c].conv.copy <= copies[work[c].conv.root]
<1>1. \A p \in Objects : /\ p.copy \in Nat /\ p.root \in Messages /\ copies[p.root] \in Nat
                         /\ p.copy > copies[p.root] \/ p.copy <= copies[p.root]
  BY RequestsAssumption DEF Objects, RequestShapes
<1>2. \A p \in ToSet(loaded) : p \in Objects
  BY SetOf DEF RequestShapes
<1>3. \A c \in Callers : work[c].conv # NoObject => work[c].conv \in Objects
  BY DEF RequestShapes
<1> QED
  BY <1>1, <1>2, <1>3 DEF CopiesAreFresh

LEMMA NewIsFresh ==
  ASSUME RequestShapes, CopiesAreFresh, NEW m \in Messages, copies[m] < MaxCopies
  PROVE  /\ NewCopy(m) \in Objects /\ NewCopy(m).root = m
         /\ NewCopy(m).copy = copies[m] + 1
         /\ turns[NewCopy(m)] = {} /\ replies[NewCopy(m)] = {} /\ NewCopy(m) \notin ToSet(loaded)
         /\ \A c \in Callers : work[c].conv # NewCopy(m)
<1>1. copies[m] \in Nat /\ MaxCopies \in Nat
  BY RequestsAssumption DEF RequestShapes
<1>2. NewCopy(m) \in Objects /\ NewCopy(m).root = m /\ NewCopy(m).copy = copies[m] + 1
  BY <1>1 DEF NewCopy, Objects
<1>3. NewCopy(m).copy > copies[NewCopy(m).root]
  BY <1>1, <1>2
<1> QED
  BY <1>2, <1>3 DEF CopiesAreFresh

\* What keeps each part of the invariant when one caller c goes on to a stage with the
\* conversation o, and the conversations S are loaded.
LEMMA ShapesStay ==
  ASSUME RequestShapes, NEW c \in Callers, NEW to, NEW o, Moves(c, to, o),
         loaded' \in Seq(Objects), copies' \in [Messages -> 0..MaxCopies],
         turns' \in [Objects -> SUBSET Turns], replies' \in [Objects -> SUBSET Messages],
         disk' \in [Messages -> [rev : Nat, turns : SUBSET Turns, replies : SUBSET Messages,
                                 aged : BOOLEAN]],
         revs' \in [Messages -> Nat], writer' \in Callers \cup {Nobody},
         o = NoObject <=> to \in {"none", "lookup", "ready", "over"},
         c \in Changes => to \in {"none", "changing", "outcome", "saving", "writing", "over"},
         c \in Events => to \notin {"changing", "outcome"}
  PROVE  RequestShapes'
<1>1. \A d \in Callers :
        /\ work'[d].conv = NoObject <=> work'[d].stage \in {"none", "lookup", "ready", "over"}
        /\ d \in Changes => work'[d].stage \in {"none", "changing", "outcome", "saving", "writing", "over"}
        /\ d \in Events => work'[d].stage \notin {"changing", "outcome"}
  BY DEF RequestShapes, Moves, At
<1>2. work' \in [Callers -> [stage : Stages, conv : Objects \cup {NoObject}]]
  BY DEF Moves
<1> QED
  BY <1>1, <1>2 DEF RequestShapes, At

LEMMA FreshStays ==
  ASSUME RequestShapes, CopiesAreFresh, NEW c \in Callers, NEW to, NEW o, Moves(c, to, o),
         NEW S, Loads(S), \A m \in Messages : copies[m] <= copies'[m],
         copies' \in [Messages -> 0..MaxCopies],
         \A p \in Objects : p \in S \/ p = o => p.copy <= copies'[p.root],
         \A p \in Objects : p.copy > copies'[p.root] => turns'[p] = turns[p]
                      /\ replies'[p] = replies[p]
  PROVE  CopiesAreFresh'
<1> SUFFICES ASSUME NEW p \in Objects, p.copy > copies'[p.root]
             PROVE  /\ turns'[p] = {} /\ replies'[p] = {} /\ p \notin ToSet(loaded')
                    /\ \A d \in Callers : work'[d].conv # p
  BY DEF CopiesAreFresh
<1>1. p.copy \in Nat /\ p.root \in Messages /\ copies[p.root] \in Nat /\ copies'[p.root] \in Nat
  BY RequestsAssumption DEF Objects, RequestShapes
<1>2. p.copy > copies[p.root] /\ p \notin S /\ p # o
  BY <1>1
<1>3. /\ turns[p] = {} /\ replies[p] = {} /\ p \notin ToSet(loaded)
      /\ \A d \in Callers : work[d].conv # p
  BY <1>2 DEF CopiesAreFresh
<1>4. \A d \in Callers : work'[d].conv # p
  BY <1>2, <1>3 DEF Moves
<1> QED
  BY <1>2, <1>3, <1>4 DEF Loads

LEMMA LocksStay ==
  ASSUME LocksHeld, NEW c \in Callers, NEW to, NEW o, Moves(c, to, o),
         to \in InConversation =>
           (At(c, InConversation) /\ work[c].conv = o) \/ ConversationFree(o),
         c \in Events /\ to \in InMember => At(c, InMember) \/ MemberFree(Author[MessageOf[c]])
  PROVE  LocksHeld'
<1>0. Events \subseteq Callers
  BY CallersAre
<1>1. ASSUME NEW a \in Callers, NEW b \in Callers, a # b,
             At(a, InConversation)', At(b, InConversation)'
      PROVE  work'[a].conv # work'[b].conv
  BY <1>1 DEF LocksHeld, Moves, At, ConversationFree
<1>2. ASSUME NEW a \in Events, NEW b \in Events, a # b, At(a, InMember)', At(b, InMember)'
      PROVE  Author[MessageOf[a]] # Author[MessageOf[b]]
  BY <1>0, <1>2 DEF LocksHeld, Moves, At, MemberFree
<1> QED
  BY <1>1, <1>2 DEF LocksHeld

LEMMA LoadedStays ==
  ASSUME StaysLoaded, NEW c \in Callers, NEW to, NEW o, Moves(c, to, o), NEW S, Loads(S),
         (c \in Events /\ to \in Pending) \/ to = "writing" => o \in ToSet(loaded')
  PROVE  StaysLoaded'
<1> SUFFICES ASSUME NEW a \in Callers, (a \in Events /\ At(a, Pending)') \/ At(a, {"writing"})'
             PROVE  work'[a].conv \in ToSet(loaded')
  BY DEF StaysLoaded
<1>1. CASE a = c
  BY <1>1 DEF Moves, At
<1>2. CASE a # c
  <2>1. work'[a] = work[a]
    BY <1>2 DEF Moves
  <2>2. (a \in Events /\ At(a, Pending)) \/ At(a, {"writing"})
    BY <2>1 DEF At
  <2>3. work[a].conv \in ToSet(loaded)
    BY <2>2 DEF StaysLoaded
  <2>4. is_active(work[a].conv)
    BY <2>2, CallersAre DEF is_active, At, InConversation, Pending
  <2> QED
    BY <2>1, <2>3, <2>4 DEF Loads
<1> QED
  BY <1>1, <1>2

LEMMA StoreStays ==
  ASSUME StoreIsLocked, NEW c \in Callers, NEW to, NEW o, Moves(c, to, o), NEW S, Loads(S),
         to \in {"reading", "writing"} => writer' = c,
         \A a \in Callers : a # c /\ At(a, {"reading", "writing"}) => writer' = a,
         \A a \in Callers : a # c /\ At(a, {"reading"}) =>
           /\ o # work[a].conv /\ work[a].conv \notin S
           /\ disk'[work[a].conv.root].turns \subseteq turns'[work[a].conv],
         to = "reading" =>
           /\ o \notin ToSet(loaded')
           /\ \A a \in Callers : a # c => work[a].conv # o
           /\ disk'[o.root].turns \subseteq turns'[o]
  PROVE  StoreIsLocked'
<1>1. \A a \in Callers : At(a, {"reading", "writing"})' => writer' = a
  BY DEF Moves, At
<1>2. ASSUME NEW a \in Callers, At(a, {"reading"})'
      PROVE  /\ work'[a].conv \notin ToSet(loaded')
             /\ \A b \in Callers \ {a} : work'[b].conv # work'[a].conv
             /\ disk'[work'[a].conv.root].turns \subseteq turns'[work'[a].conv]
  <2>1. CASE a = c
    BY <1>2, <2>1 DEF Moves, At
  <2>2. CASE a # c
    <3>1. work'[a] = work[a] /\ At(a, {"reading"})
      BY <1>2, <2>2 DEF Moves, At
    <3>2. /\ work[a].conv \notin ToSet(loaded)
          /\ \A b \in Callers \ {a} : work[b].conv # work[a].conv
      BY <3>1 DEF StoreIsLocked
    <3>3. \A b \in Callers \ {a} : work'[b].conv # work[a].conv
      BY <2>2, <3>1, <3>2 DEF Moves
    <3> QED
      BY <2>2, <3>1, <3>2, <3>3 DEF Loads
  <2> QED
    BY <2>1, <2>2
<1> QED
  BY <1>1, <1>2 DEF StoreIsLocked

LEMMA OnlyStays ==
  ASSUME OnlyOfAnswered, RequestShapes, NEW c \in Callers, NEW to, NEW o, Moves(c, to, o),
         \A q \in Messages : Said(q) => Said(q)',
         \A p \in Objects : turns'[p] # {} \/ replies'[p] # {}
           => turns[p] # {} \/ replies[p] # {} \/ Said(p.root)',
         \A r \in Messages : disk'[r].turns # {} \/ disk'[r].replies # {}
           => disk[r].turns # {} \/ disk[r].replies # {} \/ Said(r)',
         \A q \in Messages :
           /\ o # NoObject /\ q = o.root
           /\ c \in Changes \/ to \in {"reading", "sent", "saving", "writing"} \/ MessageOf[c] # q
           => Said(q)'
  PROVE  OnlyOfAnswered'
<1>0. \A p \in Objects : p.root \in Messages
  BY DEF Objects
<1>1. \A p \in Objects : turns'[p] # {} \/ replies'[p] # {} => Said(p.root)'
  BY <1>0 DEF OnlyOfAnswered
<1>2. \A r \in Messages : disk'[r].turns # {} \/ disk'[r].replies # {} => Said(r)'
  BY DEF OnlyOfAnswered
<1>3. ASSUME NEW a \in Callers, work'[a].conv # NoObject,
             a \in Changes \/ At(a, {"reading", "sent", "saving", "writing"})'
                           \/ MessageOf[a] # work'[a].conv.root
      PROVE  Said(work[a].conv.root)'
  <2> DEFINE q == work'[a].conv.root
  <2>0. work'[a].conv \in Objects /\ q \in Messages
    BY <1>0, <1>3 DEF Moves
  <2>1. CASE a = c
    BY <1>3, <2>0, <2>1 DEF Moves, At
  <2>2. CASE a # c
    <3>1. work'[a] = work[a]
      BY <2>2 DEF Moves
    <3>2. Said(work[a].conv.root)
      BY <1>3, <3>1 DEF OnlyOfAnswered, At
    <3> QED
      BY <2>0, <3>1, <3>2
  <2> QED
    BY <2>1, <2>2
<1> QED
  BY <1>1, <1>2, <1>3 DEF OnlyOfAnswered

LEMMA NotYetStays ==
  ASSUME NotYetAnswered, NEW c \in Callers, NEW to, NEW o, Moves(c, to, o),
         c \in Events /\ to = "answering" => Answer(MessageOf[c]) \notin turns'[o],
         \A a \in Events : a # c /\ At(a, {"answering"}) =>
           (Answer(MessageOf[a]) \in turns'[work[a].conv]
                        => Answer(MessageOf[a]) \in turns[work[a].conv])
  PROVE  NotYetAnswered'
BY CallersAre DEF NotYetAnswered, Moves, At

LEMMA MemoryStays ==
  ASSUME MemoryHoldsSnapshot, NEW S, Loads(S),
         \A p \in ToSet(loaded') : disk'[p.root].turns \subseteq turns'[p],
         \A p \in S : \A q \in ToSet(loaded') : p.root = q.root => p = q
  PROVE  MemoryHoldsSnapshot'
BY DEF MemoryHoldsSnapshot, Loads

\* A message comes: it is a request, or looked up.
LEMMA ArriveKeeps ==
  ASSUME RequestInv, NEW e \in Events, Arrive(e)
  PROVE  RequestInv'
<1>0. RequestShapes /\ CopiesAreFresh /\ LocksHeld /\ StaysLoaded /\ StoreIsLocked
             /\ OnlyOfAnswered /\ NotYetAnswered /\ MemoryHoldsSnapshot /\ TableIsFinite
  BY DEF RequestInv
<1>1. PICK to \in Stages, o \in Objects \cup {NoObject} :
        /\ Moves(e, to, o)
        /\ o = NoObject /\ (to = "ready" \/ to = "lookup")
  <2>1. work[e].conv = NoObject
    BY <1>0, CallersAre DEF Arrive, RequestShapes, At
  <2>2. PICK to \in {"ready", "lookup"} : Goes(e, to)
    BY DEF Arrive
  <2>3. to \in Stages
    BY DEF Stages
  <2>4. Moves(e, to, NoObject)
    BY <1>0, <2>1, <2>2, <2>3, CallersAre, GoesMoves
  <2> QED
    BY <2>3, <2>4
<1>2. Loads({})
  BY <1>0, PrunedLoads DEF Arrive
<1>3. UNCHANGED <<copies, turns, replies, aged, disk, revs, writer, silences, stops>>
  BY DEF Arrive
<1>4. \A q \in Messages : Said(q) => Said(q)'
  <2>1. ~Said(MessageOf[e])
    BY DEF Arrive, Said, At, Announced, Repeats
  <2>2. \A d \in Events : /\ At(d, Past) => At(d, Past)'
                          /\ At(d, Early)' => At(d, Early) \/ ~Said(MessageOf[d])
    BY <1>1, <2>1, CallersAre DEF At, Past, Early, Moves, Arrive
  <2> QED
    BY <2>2, SaidStays
<1>10. RequestShapes'
  <2>1. /\ loaded' \in Seq(Objects) /\ copies' \in [Messages -> 0..MaxCopies]
        /\ turns' \in [Objects -> SUBSET Turns] /\ replies' \in [Objects -> SUBSET Messages]
        /\ disk' \in [Messages -> [rev : Nat, turns : SUBSET Turns,
                     replies : SUBSET Messages, aged : BOOLEAN]]
        /\ revs' \in [Messages -> Nat] /\ writer' \in Callers \cup {Nobody}
    BY <1>0, <1>1, <1>2, <1>3, CallersAre
       DEF RequestShapes, Loads, At, Stages, Arrive
  <2>2. /\ o = NoObject <=> to \in {"none", "lookup", "ready", "over"}
        /\ e \in Changes => to \in {"none", "changing", "outcome", "saving", "writing", "over"}
        /\ e \in Events => to \notin {"changing", "outcome"}
    BY <1>0, <1>1, <1>2, <1>3, CallersAre
       DEF RequestShapes, Loads, At, Stages, Arrive
  <2> QED
    BY <1>0, <1>1, <1>2, CallersAre, <2>1, <2>2, ShapesStay
<1>11. CopiesAreFresh'
  <2>1. /\ \A q \in Messages : copies[q] <= copies'[q]
        /\ copies' \in [Messages -> 0..MaxCopies]
    BY <1>0, <1>1, <1>2, <1>3, CallersAre, MadeAre
       DEF CopiesAreFresh, RequestShapes, Objects
  <2>2. \A x \in Objects : x \in {} \/ x = o => x.copy <= copies'[x.root]
    BY <1>0, <1>1, <1>2, <1>3, CallersAre, MadeAre
       DEF CopiesAreFresh, RequestShapes, Objects
  <2>3. \A x \in Objects : x.copy > copies'[x.root] => turns'[x] = turns[x]
               /\ replies'[x] = replies[x]
    BY <1>0, <1>1, <1>2, <1>3, CallersAre, MadeAre
       DEF CopiesAreFresh, RequestShapes, Objects
  <2> QED
    BY <1>0, <1>1, <1>2, CallersAre, <2>1, <2>2, <2>3, FreshStays
<1>12. LocksHeld'
  <2>1. /\ to \in InConversation =>
             (At(e, InConversation) /\ work[e].conv = o) \/ ConversationFree(o)
        /\ e \in Events /\ to \in InMember => At(e, InMember) \/ MemberFree(Author[MessageOf[e]])
    BY <1>0, <1>1, <1>2, <1>3, CallersAre
       DEF RequestShapes, At, InConversation, InMember, Arrive
  <2> QED
    BY <1>0, <1>1, <1>2, CallersAre, <2>1, LocksStay
<1>13. StaysLoaded'
  <2>1. (e \in Events /\ to \in Pending) \/ to = "writing" => o \in ToSet(loaded')
    BY <1>0, <1>1, <1>2, <1>3, CallersAre
       DEF RequestShapes, StaysLoaded, Loads, is_active, At, Pending, InConversation, Arrive
  <2> QED
    BY <1>0, <1>1, <1>2, CallersAre, <2>1, LoadedStays
<1>14. StoreIsLocked'
  <2>1. /\ to \in {"reading", "writing"} => writer' = e
        /\ \A a \in Callers : a # e /\ At(a, {"reading", "writing"}) => writer' = a
    BY <1>0, <1>1, <1>2, <1>3, CallersAre, MadeAre
       DEF RequestShapes, StoreIsLocked, At, CopiesAreFresh, Arrive
  <2>2. \A a \in Callers : a # e /\ At(a, {"reading"}) =>
          /\ o # work[a].conv /\ work[a].conv \notin {}
          /\ disk'[work[a].conv.root].turns \subseteq turns'[work[a].conv]
    BY <1>0, <1>1, <1>2, <1>3, CallersAre, MadeAre
       DEF RequestShapes, StoreIsLocked, At, CopiesAreFresh, Arrive
  <2>3. to = "reading" =>
          /\ o \notin ToSet(loaded')
          /\ \A a \in Callers : a # e => work[a].conv # o
          /\ disk'[o.root].turns \subseteq turns'[o]
    BY <1>0, <1>1, <1>2, <1>3, CallersAre, MadeAre
       DEF RequestShapes, StoreIsLocked, At, CopiesAreFresh, Arrive
  <2> QED
    BY <1>0, <1>1, <1>2, CallersAre, <2>1, <2>2, <2>3, StoreStays
<1>15. OnlyOfAnswered'
  <2>1. \A x \in Objects : turns'[x] # {} \/ replies'[x] # {}
          => turns[x] # {} \/ replies[x] # {} \/ Said(x.root)'
    BY <1>0, <1>1, <1>2, <1>3, CallersAre, <1>4
       DEF RequestShapes, OnlyOfAnswered, At, Arrive
  <2>2. \A y \in Messages : disk'[y].turns # {} \/ disk'[y].replies # {}
          => disk[y].turns # {} \/ disk[y].replies # {} \/ Said(y)'
    BY <1>0, <1>1, <1>2, <1>3, CallersAre, <1>4
       DEF RequestShapes, OnlyOfAnswered, At, Arrive
  <2>3. ASSUME NEW q \in Messages, o # NoObject, q = o.root,
               e \in Changes \/ to \in {"reading", "sent", "saving", "writing"}
                            \/ MessageOf[e] # q
        PROVE  Said(q)'
    BY <1>0, <1>1, <1>2, <1>3, CallersAre, <1>4, <2>3
       DEF RequestShapes, OnlyOfAnswered, At, Arrive
  <2> QED
    BY <1>0, <1>1, <1>2, <1>4, CallersAre, <2>1, <2>2, <2>3, OnlyStays
<1>16. NotYetAnswered'
  <2>1. /\ e \in Events /\ to = "answering" => Answer(MessageOf[e]) \notin turns'[o]
        /\ \A a \in Events : a # e /\ At(a, {"answering"}) =>
             (Answer(MessageOf[a]) \in turns'[work[a].conv]
                          => Answer(MessageOf[a]) \in turns[work[a].conv])
    BY <1>0, <1>1, <1>2, <1>3, CallersAre
       DEF RequestShapes, NotYetAnswered, At
  <2> QED
    BY <1>0, <1>1, <1>2, CallersAre, <2>1, NotYetStays
<1>17. MemoryHoldsSnapshot'
  <2>1. \A x \in ToSet(loaded') : disk'[x.root].turns \subseteq turns'[x]
    BY <1>0, <1>1, <1>2, <1>3, CallersAre
       DEF RequestShapes, MemoryHoldsSnapshot, Loads
  <2>2. \A x \in {} : \A q \in ToSet(loaded') : x.root = q.root => x = q
    BY <1>0, <1>1, <1>2, <1>3, CallersAre
       DEF RequestShapes, MemoryHoldsSnapshot, Loads
  <2> QED
    BY <1>0, <1>1, <1>2, CallersAre, <2>1, <2>2, MemoryStays
<1>18. TableIsFinite'
  BY <1>0, <1>3 DEF TableIsFinite, Snapshots
<1> QED
  BY <1>10, <1>11, <1>12, <1>13, <1>14, <1>15, <1>16, <1>17, <1>18 DEF RequestInv

\* The snapshot a reply belongs to is read.
LEMMA SnapshotFoundKeeps ==
  ASSUME RequestInv, NEW e \in Events, NEW r \in Messages, SnapshotFound(e, r)
  PROVE  RequestInv'
<1>0. RequestShapes /\ CopiesAreFresh /\ LocksHeld /\ StaysLoaded /\ StoreIsLocked
             /\ OnlyOfAnswered /\ NotYetAnswered /\ MemoryHoldsSnapshot /\ TableIsFinite
  BY DEF RequestInv
<1>c. copies[r] < MaxCopies
  BY DEF SnapshotFound, Copied
<1>p. PICK new \in Objects : new = NewCopy(r)
  BY <1>0, NewIsFresh, <1>c
<1>q. /\ new.root = r /\ new.copy = copies[r] + 1 /\ turns[new] = {} /\ replies[new] = {}
      /\ new \notin ToSet(loaded) /\ \A d \in Callers : work[d].conv # new
  BY <1>0, <1>p, NewIsFresh, <1>c
<1>1. Moves(e, "reading", new)
  BY <1>0, <1>p, CallersAre, EntersMoves DEF SnapshotFound, Stages
<1>2. Loads({})
  BY <1>0, PrunedLoads DEF SnapshotFound, ReadSnapshot
<1>3. UNCHANGED <<aged, disk, revs, silences, stops>> /\ writer = Nobody /\ writer' = e
  BY DEF SnapshotFound, ReadSnapshot
<1>4. \A q \in Messages : Said(q) => Said(q)'
  <2>1. \A d \in Events : /\ At(d, Past) => At(d, Past)'
                          /\ At(d, Early)' => At(d, Early) \/ ~Said(MessageOf[d])
    BY <1>1, CallersAre DEF At, Past, Early, Moves, SnapshotFound, ReadSnapshot
  <2> QED
    BY <2>1, SaidStays
<1>5. Said(r)
  BY <1>0 DEF SnapshotFound, OnlyOfAnswered
<1>6. /\ copies' \in [Messages -> 0..MaxCopies] /\ copies'[r] = copies[r] + 1
      /\ \A q \in Messages : q # r => copies'[q] = copies[q]
  <2>1. copies[r] \in Nat /\ MaxCopies \in Nat
    BY <1>0, RequestsAssumption DEF RequestShapes
  <2>2. copies[r] + 1 \in 0..MaxCopies
    BY <1>c, <2>1
  <2> QED
    BY <1>0, <2>2 DEF SnapshotFound, Copied, RequestShapes
<1>7. \A q \in Messages : copies[q] \in Nat
  BY <1>0 DEF RequestShapes
<1>8. /\ turns' \in [Objects -> SUBSET Turns] /\ replies' \in [Objects -> SUBSET Messages]
      /\ turns'[new] = disk[r].turns /\ replies'[new] = disk[r].replies
      /\ \A p \in Objects : p # new => turns'[p] = turns[p] /\ replies'[p] = replies[p]
  <2>1. /\ turns' = [o \in Objects |-> IF o \in {new} THEN disk[o.root].turns ELSE turns[o]]
        /\ replies' = [o \in Objects |-> IF o \in {new} THEN disk[o.root].replies ELSE replies[o]]
    BY <1>p DEF SnapshotFound, Copied
  <2>2. \A o \in Objects : o.root \in Messages
    BY DEF Objects
  <2> QED
    BY <1>0, <1>q, <2>1, <2>2 DEF RequestShapes
<1>9. \A p \in ToSet(loaded) : p \in Objects /\ p # new
  BY <1>0, <1>q, SetOf DEF RequestShapes
<1>10. RequestShapes'
  <2>1. /\ loaded' \in Seq(Objects) /\ copies' \in [Messages -> 0..MaxCopies]
        /\ turns' \in [Objects -> SUBSET Turns] /\ replies' \in [Objects -> SUBSET Messages]
        /\ disk' \in [Messages -> [rev : Nat, turns : SUBSET Turns,
                     replies : SUBSET Messages, aged : BOOLEAN]]
        /\ revs' \in [Messages -> Nat] /\ writer' \in Callers \cup {Nobody}
    BY <1>0, <1>2, <1>3, <1>6, <1>8, CallersAre DEF RequestShapes, Loads
  <2>2. /\ new = NoObject <=> "reading" \in {"none", "lookup", "ready", "over"}
        /\ e \in Changes => "reading" \in {"none", "changing", "outcome", "saving", "writing", "over"}
        /\ e \in Events => "reading" \notin {"changing", "outcome"}
    BY CallersAre
  <2> QED
    BY <1>0, <1>1, <1>2, CallersAre, <2>1, <2>2, ShapesStay
<1>11. CopiesAreFresh'
  <2>1. /\ \A q \in Messages : copies[q] <= copies'[q]
        /\ copies' \in [Messages -> 0..MaxCopies]
    BY <1>6, <1>7
  <2>2. \A x \in Objects : x \in {} \/ x = new => x.copy <= copies'[x.root]
    BY <1>6, <1>7, <1>q
  <2>3. \A x \in Objects : x.copy > copies'[x.root] => turns'[x] = turns[x]
               /\ replies'[x] = replies[x]
    <3>1. new.copy <= copies'[new.root]
      BY <1>6, <1>7, <1>q
    <3>2. \A p \in Objects : p = new => ~(p.copy > copies'[p.root])
      BY <1>6, <1>7, <1>q
    <3> QED
      BY <1>8, <3>2
  <2> QED
    BY <1>0, <1>1, <1>2, CallersAre, <2>1, <2>2, <2>3, FreshStays
<1>12. LocksHeld'
  <2>1. /\ "reading" \in InConversation =>
             (At(e, InConversation) /\ work[e].conv = new) \/ ConversationFree(new)
        /\ e \in Events /\ "reading" \in InMember => At(e, InMember)
                     \/ MemberFree(Author[MessageOf[e]])
    BY <1>0, <1>1, <1>2, <1>3, CallersAre
       DEF RequestShapes, At, InConversation, InMember, SnapshotFound
  <2> QED
    BY <1>0, <1>1, <1>2, CallersAre, <2>1, LocksStay
<1>13. StaysLoaded'
  <2>1. (e \in Events /\ "reading" \in Pending) \/ "reading" = "writing" => new \in ToSet(loaded')
    BY <1>0, <1>1, <1>2, <1>3, CallersAre
       DEF RequestShapes, StaysLoaded, Loads, is_active, At, Pending, InConversation,
          InConversation
  <2> QED
    BY <1>0, <1>1, <1>2, CallersAre, <2>1, LoadedStays
<1>14. StoreIsLocked'
  <2>1. /\ "reading" \in {"reading", "writing"} => writer' = e
        /\ \A a \in Callers : a # e /\ At(a, {"reading", "writing"}) => writer' = a
    BY <1>0, <1>3, CallersAre DEF StoreIsLocked, At
  <2>2. \A a \in Callers : a # e /\ At(a, {"reading"}) =>
          /\ new # work[a].conv /\ work[a].conv \notin {}
          /\ disk'[work[a].conv.root].turns \subseteq turns'[work[a].conv]
    <3> SUFFICES ASSUME NEW a \in Callers, a # e, At(a, {"reading"}) PROVE FALSE
      OBVIOUS
    <3>1. writer = a
      BY <1>0 DEF StoreIsLocked, At
    <3> QED
      BY <1>3, <3>1, CallersAre
  <2>3. "reading" = "reading" =>
          /\ new \notin ToSet(loaded')
          /\ \A a \in Callers : a # e => work[a].conv # new
          /\ disk'[new.root].turns \subseteq turns'[new]
    BY <1>2, <1>3, <1>8, <1>9, <1>q DEF Loads
  <2> QED
    BY <1>0, <1>1, <1>2, CallersAre, <2>1, <2>2, <2>3, StoreStays
<1>15. OnlyOfAnswered'
  <2>1. \A x \in Objects : turns'[x] # {} \/ replies'[x] # {}
          => turns[x] # {} \/ replies[x] # {} \/ Said(x.root)'
    BY <1>4, <1>5, <1>8, <1>q
  <2>2. \A y \in Messages : disk'[y].turns # {} \/ disk'[y].replies # {}
          => disk[y].turns # {} \/ disk[y].replies # {} \/ Said(y)'
    BY <1>3
  <2>3. ASSUME NEW q \in Messages, new # NoObject, q = new.root,
               e \in Changes \/ "reading" \in {"reading", "sent", "saving", "writing"}
                            \/ MessageOf[e] # q
        PROVE  Said(q)'
    BY <1>4, <1>5, <1>q, <2>3
  <2> QED
    BY <1>0, <1>1, <1>2, <1>4, CallersAre, <2>1, <2>2, <2>3, OnlyStays
<1>16. NotYetAnswered'
  <2>1. /\ e \in Events /\ "reading" = "answering" => Answer(MessageOf[e]) \notin turns'[new]
        /\ \A a \in Events : a # e /\ At(a, {"answering"}) =>
             (Answer(MessageOf[a]) \in turns'[work[a].conv]
                          => Answer(MessageOf[a]) \in turns[work[a].conv])
    <3> SUFFICES ASSUME NEW a \in Events, a # e, At(a, {"answering"})
                 PROVE  turns'[work[a].conv] = turns[work[a].conv]
      OBVIOUS
    <3>1. work[a].conv \in Objects /\ work[a].conv # new
      BY <1>0, <1>q, CallersAre DEF RequestShapes, At
    <3> QED
      BY <1>8, <3>1
  <2> QED
    BY <1>0, <1>1, <1>2, CallersAre, <2>1, NotYetStays
<1>17. MemoryHoldsSnapshot'
  <2>1. \A x \in ToSet(loaded') : disk'[x.root].turns \subseteq turns'[x]
    BY <1>0, <1>2, <1>3, <1>8, <1>9 DEF MemoryHoldsSnapshot, Loads
  <2>2. \A x \in {} : \A q \in ToSet(loaded') : x.root = q.root => x = q
    BY <1>0, <1>1, <1>2, <1>3, CallersAre
       DEF RequestShapes, MemoryHoldsSnapshot, Loads
  <2> QED
    BY <1>0, <1>1, <1>2, CallersAre, <2>1, <2>2, MemoryStays
<1>18. TableIsFinite'
  BY <1>0, <1>3 DEF TableIsFinite, Snapshots
<1> QED
  BY <1>10, <1>11, <1>12, <1>13, <1>14, <1>15, <1>16, <1>17, <1>18 DEF RequestInv

\* No snapshot is read.
LEMMA NoSnapshotFoundKeeps ==
  ASSUME RequestInv, NEW e \in Events, NoSnapshotFound(e)
  PROVE  RequestInv'
<1>0. RequestShapes /\ CopiesAreFresh /\ LocksHeld /\ StaysLoaded /\ StoreIsLocked
             /\ OnlyOfAnswered /\ NotYetAnswered /\ MemoryHoldsSnapshot /\ TableIsFinite
  BY DEF RequestInv
<1>1. PICK to \in Stages, o \in Objects \cup {NoObject} :
        /\ Moves(e, to, o)
        /\ o = NoObject /\ (to = "ready" \/ to = "over")
  <2>1. CASE Goes(e, "ready")
    <3>1. Moves(e, "ready", work[e].conv)
      BY <1>0, <2>1, CallersAre, GoesMoves DEF Stages
    <3>2. work[e].conv = NoObject
      BY <1>0, CallersAre DEF NoSnapshotFound, ReadSnapshot, At, RequestShapes
    <3> QED
      BY <3>1, <3>2 DEF Stages
  <2>2. CASE Ends(e)
    <3>1. Moves(e, "over", NoObject)
      BY <1>0, <2>2, CallersAre, EndsMoves
    <3> QED
      BY <3>1 DEF Stages
  <2> QED
    BY <2>1, <2>2 DEF NoSnapshotFound
<1>2. Loads({})
  BY <1>0, PrunedLoads DEF NoSnapshotFound, ReadSnapshot
<1>3. UNCHANGED <<copies, turns, replies, aged, disk, revs, writer, silences, stops>>
  BY DEF NoSnapshotFound, ReadSnapshot
<1>4. \A q \in Messages : Said(q) => Said(q)'
  <2>1. \A d \in Events : /\ At(d, Past) => At(d, Past)'
                          /\ At(d, Early)' => At(d, Early) \/ ~Said(MessageOf[d])
    BY <1>1, CallersAre DEF At, Past, Early, Moves, NoSnapshotFound, ReadSnapshot
  <2> QED
    BY <2>1, SaidStays
<1>10. RequestShapes'
  <2>1. /\ loaded' \in Seq(Objects) /\ copies' \in [Messages -> 0..MaxCopies]
        /\ turns' \in [Objects -> SUBSET Turns] /\ replies' \in [Objects -> SUBSET Messages]
        /\ disk' \in [Messages -> [rev : Nat, turns : SUBSET Turns,
                     replies : SUBSET Messages, aged : BOOLEAN]]
        /\ revs' \in [Messages -> Nat] /\ writer' \in Callers \cup {Nobody}
    BY <1>0, <1>1, <1>2, <1>3, CallersAre
       DEF RequestShapes, Loads, At, Stages, NoSnapshotFound
  <2>2. /\ o = NoObject <=> to \in {"none", "lookup", "ready", "over"}
        /\ e \in Changes => to \in {"none", "changing", "outcome", "saving", "writing", "over"}
        /\ e \in Events => to \notin {"changing", "outcome"}
    BY <1>0, <1>1, <1>2, <1>3, CallersAre
       DEF RequestShapes, Loads, At, Stages, NoSnapshotFound
  <2> QED
    BY <1>0, <1>1, <1>2, CallersAre, <2>1, <2>2, ShapesStay
<1>11. CopiesAreFresh'
  <2>1. /\ \A q \in Messages : copies[q] <= copies'[q]
        /\ copies' \in [Messages -> 0..MaxCopies]
    BY <1>0, <1>1, <1>2, <1>3, CallersAre, MadeAre
       DEF CopiesAreFresh, RequestShapes, Objects
  <2>2. \A x \in Objects : x \in {} \/ x = o => x.copy <= copies'[x.root]
    BY <1>0, <1>1, <1>2, <1>3, CallersAre, MadeAre
       DEF CopiesAreFresh, RequestShapes, Objects
  <2>3. \A x \in Objects : x.copy > copies'[x.root] => turns'[x] = turns[x]
               /\ replies'[x] = replies[x]
    BY <1>0, <1>1, <1>2, <1>3, CallersAre, MadeAre
       DEF CopiesAreFresh, RequestShapes, Objects
  <2> QED
    BY <1>0, <1>1, <1>2, CallersAre, <2>1, <2>2, <2>3, FreshStays
<1>12. LocksHeld'
  <2>1. /\ to \in InConversation =>
             (At(e, InConversation) /\ work[e].conv = o) \/ ConversationFree(o)
        /\ e \in Events /\ to \in InMember => At(e, InMember) \/ MemberFree(Author[MessageOf[e]])
    BY <1>0, <1>1, <1>2, <1>3, CallersAre
       DEF RequestShapes, At, InConversation, InMember, NoSnapshotFound
  <2> QED
    BY <1>0, <1>1, <1>2, CallersAre, <2>1, LocksStay
<1>13. StaysLoaded'
  <2>1. (e \in Events /\ to \in Pending) \/ to = "writing" => o \in ToSet(loaded')
    BY <1>0, <1>1, <1>2, <1>3, CallersAre
       DEF RequestShapes, StaysLoaded, Loads, is_active, At, Pending, InConversation,
          NoSnapshotFound
  <2> QED
    BY <1>0, <1>1, <1>2, CallersAre, <2>1, LoadedStays
<1>14. StoreIsLocked'
  <2>1. /\ to \in {"reading", "writing"} => writer' = e
        /\ \A a \in Callers : a # e /\ At(a, {"reading", "writing"}) => writer' = a
    BY <1>0, <1>1, <1>2, <1>3, CallersAre, MadeAre
       DEF RequestShapes, StoreIsLocked, At, CopiesAreFresh, NoSnapshotFound
  <2>2. \A a \in Callers : a # e /\ At(a, {"reading"}) =>
          /\ o # work[a].conv /\ work[a].conv \notin {}
          /\ disk'[work[a].conv.root].turns \subseteq turns'[work[a].conv]
    BY <1>0, <1>1, <1>2, <1>3, CallersAre, MadeAre
       DEF RequestShapes, StoreIsLocked, At, CopiesAreFresh, NoSnapshotFound
  <2>3. to = "reading" =>
          /\ o \notin ToSet(loaded')
          /\ \A a \in Callers : a # e => work[a].conv # o
          /\ disk'[o.root].turns \subseteq turns'[o]
    BY <1>0, <1>1, <1>2, <1>3, CallersAre, MadeAre
       DEF RequestShapes, StoreIsLocked, At, CopiesAreFresh, NoSnapshotFound
  <2> QED
    BY <1>0, <1>1, <1>2, CallersAre, <2>1, <2>2, <2>3, StoreStays
<1>15. OnlyOfAnswered'
  <2>1. \A x \in Objects : turns'[x] # {} \/ replies'[x] # {}
          => turns[x] # {} \/ replies[x] # {} \/ Said(x.root)'
    BY <1>0, <1>1, <1>2, <1>3, CallersAre, <1>4
       DEF RequestShapes, OnlyOfAnswered, At, NoSnapshotFound
  <2>2. \A y \in Messages : disk'[y].turns # {} \/ disk'[y].replies # {}
          => disk[y].turns # {} \/ disk[y].replies # {} \/ Said(y)'
    BY <1>0, <1>1, <1>2, <1>3, CallersAre, <1>4
       DEF RequestShapes, OnlyOfAnswered, At, NoSnapshotFound
  <2>3. ASSUME NEW q \in Messages, o # NoObject, q = o.root,
               e \in Changes \/ to \in {"reading", "sent", "saving", "writing"}
                            \/ MessageOf[e] # q
        PROVE  Said(q)'
    BY <1>0, <1>1, <1>2, <1>3, CallersAre, <1>4, <2>3
       DEF RequestShapes, OnlyOfAnswered, At, NoSnapshotFound
  <2> QED
    BY <1>0, <1>1, <1>2, <1>4, CallersAre, <2>1, <2>2, <2>3, OnlyStays
<1>16. NotYetAnswered'
  <2>1. /\ e \in Events /\ to = "answering" => Answer(MessageOf[e]) \notin turns'[o]
        /\ \A a \in Events : a # e /\ At(a, {"answering"}) =>
             (Answer(MessageOf[a]) \in turns'[work[a].conv]
                          => Answer(MessageOf[a]) \in turns[work[a].conv])
    BY <1>0, <1>1, <1>2, <1>3, CallersAre
       DEF RequestShapes, NotYetAnswered, At
  <2> QED
    BY <1>0, <1>1, <1>2, CallersAre, <2>1, NotYetStays
<1>17. MemoryHoldsSnapshot'
  <2>1. \A x \in ToSet(loaded') : disk'[x.root].turns \subseteq turns'[x]
    BY <1>0, <1>1, <1>2, <1>3, CallersAre
       DEF RequestShapes, MemoryHoldsSnapshot, Loads
  <2>2. \A x \in {} : \A q \in ToSet(loaded') : x.root = q.root => x = q
    BY <1>0, <1>1, <1>2, <1>3, CallersAre
       DEF RequestShapes, MemoryHoldsSnapshot, Loads
  <2> QED
    BY <1>0, <1>1, <1>2, CallersAre, <2>1, <2>2, MemoryStays
<1>18. TableIsFinite'
  BY <1>0, <1>3 DEF TableIsFinite, Snapshots
<1> QED
  BY <1>10, <1>11, <1>12, <1>13, <1>14, <1>15, <1>16, <1>17, <1>18 DEF RequestInv

\* What was read is installed, or the reply goes unanswered.
LEMMA RestoreKeeps ==
  ASSUME RequestInv, NEW e \in Events, Restore(e)
  PROVE  RequestInv'
<1>0. RequestShapes /\ CopiesAreFresh /\ LocksHeld /\ StaysLoaded /\ StoreIsLocked
             /\ OnlyOfAnswered /\ NotYetAnswered /\ MemoryHoldsSnapshot /\ TableIsFinite
  BY DEF RequestInv
<1>p. PICK own \in Objects : own = work[e].conv
  BY <1>0, CallersAre DEF Restore, At, RequestShapes
<1>b. PICK to \in {"ready", "over"}, S \in {{}, {own}} :
        Moves(e, to, NoObject) /\ Loads(S) /\ (S = {own} => may_restore(own))
  <2>1. CASE may_restore(own)
    <3>1. Moves(e, "ready", NoObject)
      BY <1>0, <1>p, <2>1, CallersAre, EntersMoves DEF Restore, Stages
    <3>2. Loads({own})
      BY <1>0, <1>p, <2>1, AddedLoads DEF Restore, may_restore
    <3> QED
      BY <2>1, <3>1, <3>2
  <2>2. CASE ~may_restore(own)
    <3>1. Moves(e, "over", NoObject)
      BY <1>0, <1>p, <2>2, CallersAre, EndsMoves DEF Restore
    <3>2. Loads({})
      BY <1>0, <1>p, <2>2, PrunedLoads DEF Restore
    <3> QED
      BY <3>1, <3>2
  <2> QED
    BY <2>1, <2>2
<1>1. Moves(e, to, NoObject)
  BY <1>b
<1>2. Loads(S)
  BY <1>b
<1>3. UNCHANGED <<copies, turns, replies, aged, disk, silences, stops>>
  BY DEF Restore
<1>4. \A q \in Messages : Said(q) => Said(q)'
  <2>1. \A d \in Events : /\ At(d, Past) => At(d, Past)'
                          /\ At(d, Early)' => At(d, Early) \/ ~Said(MessageOf[d])
    BY <1>1, CallersAre DEF At, Past, Early, Moves, Restore
  <2> QED
    BY <2>1, SaidStays
<1>5. /\ S \subseteq {own} /\ own \notin ToSet(loaded)
      /\ disk[own.root].turns \subseteq turns[own]
      /\ \A a \in Callers \ {e} : work[a].conv # own
      /\ S = {own} => \A p \in ToSet(loaded) : p.root # own.root
  BY <1>0, <1>p, <1>b, CallersAre DEF Restore, StoreIsLocked, At, may_restore
<1>10. RequestShapes'
  <2>1. /\ loaded' \in Seq(Objects) /\ copies' \in [Messages -> 0..MaxCopies]
        /\ turns' \in [Objects -> SUBSET Turns] /\ replies' \in [Objects -> SUBSET Messages]
        /\ disk' \in [Messages -> [rev : Nat, turns : SUBSET Turns,
                     replies : SUBSET Messages, aged : BOOLEAN]]
        /\ revs' \in [Messages -> Nat] /\ writer' \in Callers \cup {Nobody}
    <3>1. revs' \in [Messages -> Nat] /\ writer' \in Callers \cup {Nobody}
      BY <1>0, <1>p DEF Restore, RequestShapes, Objects
    <3> QED
      BY <1>0, <1>2, <1>3, <3>1 DEF RequestShapes, Loads
  <2>2. /\ NoObject = NoObject <=> to \in {"none", "lookup", "ready", "over"}
        /\ e \in Changes => to \in {"none", "changing", "outcome", "saving", "writing", "over"}
        /\ e \in Events => to \notin {"changing", "outcome"}
    BY <1>0, <1>1, <1>2, <1>3, CallersAre
       DEF RequestShapes, Loads, At, Stages
  <2> QED
    BY <1>0, <1>1, <1>2, CallersAre, <2>1, <2>2, ShapesStay
<1>11. CopiesAreFresh'
  <2>1. /\ \A q \in Messages : copies[q] <= copies'[q]
        /\ copies' \in [Messages -> 0..MaxCopies]
    BY <1>0, <1>1, <1>2, <1>3, CallersAre, MadeAre
       DEF CopiesAreFresh, RequestShapes, Objects
  <2>2. \A x \in Objects : x \in S \/ x = NoObject => x.copy <= copies'[x.root]
    <3>1. own.copy <= copies[own.root]
      BY <1>0, <1>p, CallersAre, MadeAre
    <3> QED
      BY <1>3, <1>5, <3>1, CallersAre
  <2>3. \A x \in Objects : x.copy > copies'[x.root] => turns'[x] = turns[x]
               /\ replies'[x] = replies[x]
    BY <1>0, <1>1, <1>2, <1>3, CallersAre, MadeAre
       DEF CopiesAreFresh, RequestShapes, Objects
  <2> QED
    BY <1>0, <1>1, <1>2, CallersAre, <2>1, <2>2, <2>3, FreshStays
<1>12. LocksHeld'
  <2>1. /\ to \in InConversation =>
             (At(e, InConversation) /\ work[e].conv = NoObject) \/ ConversationFree(NoObject)
        /\ e \in Events /\ to \in InMember => At(e, InMember) \/ MemberFree(Author[MessageOf[e]])
    BY <1>0, <1>1, <1>2, <1>3, CallersAre
       DEF RequestShapes, At, InConversation, InMember, Restore
  <2> QED
    BY <1>0, <1>1, <1>2, CallersAre, <2>1, LocksStay
<1>13. StaysLoaded'
  <2>1. (e \in Events /\ to \in Pending) \/ to = "writing" => NoObject \in ToSet(loaded')
    BY <1>0, <1>1, <1>2, <1>3, CallersAre
       DEF RequestShapes, StaysLoaded, Loads, is_active, At, Pending, InConversation, Restore
  <2> QED
    BY <1>0, <1>1, <1>2, CallersAre, <2>1, LoadedStays
<1>14. StoreIsLocked'
  <2>1. /\ to \in {"reading", "writing"} => writer' = e
        /\ \A a \in Callers : a # e /\ At(a, {"reading", "writing"}) => writer' = a
    BY <1>0, <1>1, <1>2, <1>3, CallersAre, MadeAre
       DEF RequestShapes, StoreIsLocked, At, CopiesAreFresh, Restore
  <2>2. \A a \in Callers : a # e /\ At(a, {"reading"}) =>
          /\ NoObject # work[a].conv /\ work[a].conv \notin S
          /\ disk'[work[a].conv.root].turns \subseteq turns'[work[a].conv]
    BY <1>0, <1>1, <1>2, <1>3, CallersAre, <1>5, MadeAre
       DEF RequestShapes, StoreIsLocked, At, CopiesAreFresh, Restore
  <2>3. to = "reading" =>
          /\ NoObject \notin ToSet(loaded')
          /\ \A a \in Callers : a # e => work[a].conv # NoObject
          /\ disk'[NoObject.root].turns \subseteq turns'[NoObject]
    BY <1>0, <1>1, <1>2, <1>3, CallersAre, <1>b, MadeAre
       DEF RequestShapes, StoreIsLocked, At, CopiesAreFresh
  <2> QED
    BY <1>0, <1>1, <1>2, CallersAre, <2>1, <2>2, <2>3, StoreStays
<1>15. OnlyOfAnswered'
  <2>1. \A x \in Objects : turns'[x] # {} \/ replies'[x] # {}
          => turns[x] # {} \/ replies[x] # {} \/ Said(x.root)'
    BY <1>0, <1>1, <1>2, <1>3, CallersAre, <1>4
       DEF RequestShapes, OnlyOfAnswered, At, Restore
  <2>2. \A y \in Messages : disk'[y].turns # {} \/ disk'[y].replies # {}
          => disk[y].turns # {} \/ disk[y].replies # {} \/ Said(y)'
    BY <1>0, <1>1, <1>2, <1>3, CallersAre, <1>4
       DEF RequestShapes, OnlyOfAnswered, At, Restore
  <2>3. ASSUME NEW q \in Messages, NoObject # NoObject, q = NoObject.root,
               e \in Changes \/ to \in {"reading", "sent", "saving", "writing"}
                            \/ MessageOf[e] # q
        PROVE  Said(q)'
    BY <1>0, <1>1, <1>2, <1>3, CallersAre, <1>4, <2>3
       DEF RequestShapes, OnlyOfAnswered, At, Restore
  <2> QED
    BY <1>0, <1>1, <1>2, <1>4, CallersAre, <2>1, <2>2, <2>3, OnlyStays
<1>16. NotYetAnswered'
  <2>1. /\ e \in Events /\ to = "answering" => Answer(MessageOf[e]) \notin turns'[NoObject]
        /\ \A a \in Events : a # e /\ At(a, {"answering"}) =>
             (Answer(MessageOf[a]) \in turns'[work[a].conv]
                          => Answer(MessageOf[a]) \in turns[work[a].conv])
    BY <1>0, <1>1, <1>2, <1>3, CallersAre
       DEF RequestShapes, NotYetAnswered, At
  <2> QED
    BY <1>0, <1>1, <1>2, CallersAre, <2>1, NotYetStays
<1>17. MemoryHoldsSnapshot'
  <2>1. \A x \in ToSet(loaded') : disk'[x.root].turns \subseteq turns'[x]
    BY <1>0, <1>2, <1>3, <1>5 DEF MemoryHoldsSnapshot, Loads
  <2>2. \A x \in S : \A q \in ToSet(loaded') : x.root = q.root => x = q
    BY <1>0, <1>2, <1>5 DEF MemoryHoldsSnapshot, Loads
  <2> QED
    BY <1>0, <1>1, <1>2, CallersAre, <2>1, <2>2, MemoryStays
<1>18. TableIsFinite'
  BY <1>0, <1>3 DEF TableIsFinite, Snapshots
<1> QED
  BY <1>10, <1>11, <1>12, <1>13, <1>14, <1>15, <1>16, <1>17, <1>18 DEF RequestInv

\* A request gets in line for a loaded conversation.
LEMMA EnterKnownKeeps ==
  ASSUME RequestInv, NEW e \in Events, NEW p \in Objects, EnterKnown(e, p)
  PROVE  RequestInv'
<1>0. RequestShapes /\ CopiesAreFresh /\ LocksHeld /\ StaysLoaded /\ StoreIsLocked
             /\ OnlyOfAnswered /\ NotYetAnswered /\ MemoryHoldsSnapshot /\ TableIsFinite
  BY DEF RequestInv
<1>1. Moves(e, "conversation", p)
  BY <1>0, CallersAre, EntersMoves DEF EnterKnown, Stages
<1>2. Loads({})
  BY <1>0, PrunedLoads DEF EnterKnown
<1>3. UNCHANGED <<copies, turns, replies, aged, disk, revs, writer, silences, stops>>
  BY DEF EnterKnown, Enter
<1>4. \A q \in Messages : Said(q) => Said(q)'
  <2>1. \A d \in Events : /\ At(d, Past) => At(d, Past)'
                          /\ At(d, Early)' => At(d, Early) \/ ~Said(MessageOf[d])
    BY <1>1, CallersAre DEF At, Past, Early, Moves, EnterKnown, Enter
  <2> QED
    BY <2>1, SaidStays
<1>5. p \in ToSet(loaded) /\ p \in ToSet(loaded') /\ p.root \in Messages
  BY <1>0, PrunedIs DEF EnterKnown, Objects
<1>6. At(e, {"ready"})
  BY DEF EnterKnown, Enter
<1>10. RequestShapes'
  <2>1. /\ loaded' \in Seq(Objects) /\ copies' \in [Messages -> 0..MaxCopies]
        /\ turns' \in [Objects -> SUBSET Turns] /\ replies' \in [Objects -> SUBSET Messages]
        /\ disk' \in [Messages -> [rev : Nat, turns : SUBSET Turns,
                     replies : SUBSET Messages, aged : BOOLEAN]]
        /\ revs' \in [Messages -> Nat] /\ writer' \in Callers \cup {Nobody}
    BY <1>0, <1>1, <1>2, <1>3, CallersAre, <1>5, <1>6
       DEF RequestShapes, Loads, At, Stages, EnterKnown
  <2>2. /\ p = NoObject <=> "conversation" \in {"none", "lookup", "ready", "over"}
        /\ e \in Changes => "conversation" \in {"none", "changing", "outcome", "saving", "writing", "over"}
        /\ e \in Events => "conversation" \notin {"changing", "outcome"}
    BY <1>0, <1>1, <1>2, <1>3, CallersAre, <1>5, <1>6
       DEF RequestShapes, Loads, At, Stages, EnterKnown
  <2> QED
    BY <1>0, <1>1, <1>2, CallersAre, <2>1, <2>2, ShapesStay
<1>11. CopiesAreFresh'
  <2>1. /\ \A q \in Messages : copies[q] <= copies'[q]
        /\ copies' \in [Messages -> 0..MaxCopies]
    BY <1>0, <1>1, <1>2, <1>3, CallersAre, <1>5, <1>6, MadeAre
       DEF CopiesAreFresh, RequestShapes, Objects, EnterKnown
  <2>2. \A x \in Objects : x \in {} \/ x = p => x.copy <= copies'[x.root]
    BY <1>0, <1>3, <1>5, MadeAre
  <2>3. \A x \in Objects : x.copy > copies'[x.root] => turns'[x] = turns[x]
               /\ replies'[x] = replies[x]
    BY <1>0, <1>1, <1>2, <1>3, CallersAre, <1>5, <1>6, MadeAre
       DEF CopiesAreFresh, RequestShapes, Objects, EnterKnown
  <2> QED
    BY <1>0, <1>1, <1>2, CallersAre, <2>1, <2>2, <2>3, FreshStays
<1>12. LocksHeld'
  <2>1. /\ "conversation" \in InConversation =>
             (At(e, InConversation) /\ work[e].conv = p) \/ ConversationFree(p)
        /\ e \in Events /\ "conversation" \in InMember => At(e, InMember)
                     \/ MemberFree(Author[MessageOf[e]])
    BY <1>0, <1>1, <1>2, <1>3, CallersAre, <1>5, <1>6
       DEF RequestShapes, At, InConversation, InMember, EnterKnown
  <2> QED
    BY <1>0, <1>1, <1>2, CallersAre, <2>1, LocksStay
<1>13. StaysLoaded'
  <2>1. (e \in Events /\ "conversation" \in Pending) \/ "conversation" = "writing"
               => p \in ToSet(loaded')
    BY <1>5
  <2> QED
    BY <1>0, <1>1, <1>2, CallersAre, <2>1, LoadedStays
<1>14. StoreIsLocked'
  <2>1. /\ "conversation" \in {"reading", "writing"} => writer' = e
        /\ \A a \in Callers : a # e /\ At(a, {"reading", "writing"}) => writer' = a
    BY <1>0, <1>1, <1>2, <1>3, CallersAre, <1>5, <1>6, MadeAre
       DEF RequestShapes, StoreIsLocked, At, CopiesAreFresh, EnterKnown
  <2>2. \A a \in Callers : a # e /\ At(a, {"reading"}) =>
          /\ p # work[a].conv /\ work[a].conv \notin {}
          /\ disk'[work[a].conv.root].turns \subseteq turns'[work[a].conv]
    BY <1>0, <1>1, <1>2, <1>3, CallersAre, <1>5, <1>6, MadeAre
       DEF RequestShapes, StoreIsLocked, At, CopiesAreFresh, EnterKnown
  <2>3. "conversation" = "reading" =>
          /\ p \notin ToSet(loaded')
          /\ \A a \in Callers : a # e => work[a].conv # p
          /\ disk'[p.root].turns \subseteq turns'[p]
    BY <1>0, <1>1, <1>2, <1>3, CallersAre, <1>5, <1>6, MadeAre
       DEF RequestShapes, StoreIsLocked, At, CopiesAreFresh, EnterKnown
  <2> QED
    BY <1>0, <1>1, <1>2, CallersAre, <2>1, <2>2, <2>3, StoreStays
<1>15. OnlyOfAnswered'
  <2>1. \A x \in Objects : turns'[x] # {} \/ replies'[x] # {}
          => turns[x] # {} \/ replies[x] # {} \/ Said(x.root)'
    BY <1>0, <1>1, <1>2, <1>3, CallersAre, <1>4, <1>5, <1>6
       DEF RequestShapes, OnlyOfAnswered, At, EnterKnown
  <2>2. \A y \in Messages : disk'[y].turns # {} \/ disk'[y].replies # {}
          => disk[y].turns # {} \/ disk[y].replies # {} \/ Said(y)'
    BY <1>0, <1>1, <1>2, <1>3, CallersAre, <1>4, <1>5, <1>6
       DEF RequestShapes, OnlyOfAnswered, At, EnterKnown
  <2>3. ASSUME NEW q \in Messages, p # NoObject, q = p.root,
               e \in Changes \/ "conversation" \in {"reading", "sent", "saving", "writing"}
                            \/ MessageOf[e] # q
        PROVE  Said(q)'
    <3>1. ReplyTo[MessageOf[e]] \in replies[p]
      BY <2>3, CallersAre DEF EnterKnown
    <3>2. Said(p.root)
      BY <1>0, <3>1 DEF OnlyOfAnswered
    <3> QED
      BY <1>4, <1>5, <2>3, <3>2
  <2> QED
    BY <1>0, <1>1, <1>2, <1>4, CallersAre, <2>1, <2>2, <2>3, OnlyStays
<1>16. NotYetAnswered'
  <2>1. /\ e \in Events /\ "conversation" = "answering" => Answer(MessageOf[e]) \notin turns'[p]
        /\ \A a \in Events : a # e /\ At(a, {"answering"}) =>
             (Answer(MessageOf[a]) \in turns'[work[a].conv]
                          => Answer(MessageOf[a]) \in turns[work[a].conv])
    BY <1>0, <1>1, <1>2, <1>3, CallersAre
       DEF RequestShapes, NotYetAnswered, At
  <2> QED
    BY <1>0, <1>1, <1>2, CallersAre, <2>1, NotYetStays
<1>17. MemoryHoldsSnapshot'
  <2>1. \A x \in ToSet(loaded') : disk'[x.root].turns \subseteq turns'[x]
    BY <1>0, <1>1, <1>2, <1>3, CallersAre
       DEF RequestShapes, MemoryHoldsSnapshot, Loads
  <2>2. \A x \in {} : \A q \in ToSet(loaded') : x.root = q.root => x = q
    BY <1>0, <1>1, <1>2, <1>3, CallersAre
       DEF RequestShapes, MemoryHoldsSnapshot, Loads
  <2> QED
    BY <1>0, <1>1, <1>2, CallersAre, <2>1, <2>2, MemoryStays
<1>18. TableIsFinite'
  BY <1>0, <1>3 DEF TableIsFinite, Snapshots
<1> QED
  BY <1>10, <1>11, <1>12, <1>13, <1>14, <1>15, <1>16, <1>17, <1>18 DEF RequestInv

\* A request begins a conversation.
LEMMA EnterNewKeeps ==
  ASSUME RequestInv, NEW e \in Events, EnterNew(e)
  PROVE  RequestInv'
<1>0. RequestShapes /\ CopiesAreFresh /\ LocksHeld /\ StaysLoaded /\ StoreIsLocked
             /\ OnlyOfAnswered /\ NotYetAnswered /\ MemoryHoldsSnapshot /\ TableIsFinite
  BY DEF RequestInv
<1>c. MessageOf[e] \in Messages
  BY CallersAre
<1>m. PICK m \in Messages : m = MessageOf[e]
  BY <1>c
<1>d. copies[m] < MaxCopies
  BY <1>m DEF EnterNew
<1>p. PICK new \in Objects : new = NewCopy(m)
  BY <1>0, NewIsFresh, <1>d
<1>q. /\ new.root = m /\ new.copy = copies[m] + 1 /\ turns[new] = {} /\ replies[new] = {}
      /\ new \notin ToSet(loaded) /\ \A d \in Callers : work[d].conv # new
  BY <1>0, <1>p, NewIsFresh, <1>d
<1>1. Moves(e, "conversation", new)
  BY <1>0, <1>m, <1>p, CallersAre, EntersMoves DEF EnterNew, Stages
<1>2. Loads({new})
  BY <1>0, <1>m, <1>p, AddedLoads DEF EnterNew
<1>3. UNCHANGED <<turns, replies, aged, disk, revs, writer, silences, stops>>
  BY DEF EnterNew, Enter
<1>4. \A q \in Messages : Said(q) => Said(q)'
  <2>1. \A d \in Events : /\ At(d, Past) => At(d, Past)'
                          /\ At(d, Early)' => At(d, Early) \/ ~Said(MessageOf[d])
    BY <1>1, CallersAre DEF At, Past, Early, Moves, EnterNew, Enter
  <2> QED
    BY <2>1, SaidStays
<1>5. At(e, {"ready"}) /\ disk[m].turns = {}
  <2>1. At(e, {"ready"})
    BY DEF EnterNew, Enter
  <2>2. ~Said(m)
    BY <1>m, <2>1 DEF Said, At
  <2> QED
    BY <1>0, <2>1, <2>2 DEF OnlyOfAnswered
<1>6. /\ copies' \in [Messages -> 0..MaxCopies] /\ copies'[m] = copies[m] + 1
      /\ \A q \in Messages : q # m => copies'[q] = copies[q]
  <2>1. copies[m] \in Nat /\ MaxCopies \in Nat
    BY <1>0, RequestsAssumption DEF RequestShapes
  <2>2. copies[m] + 1 \in 0..MaxCopies
    BY <1>d, <2>1
  <2> QED
    BY <1>0, <1>m, <2>2 DEF EnterNew, RequestShapes
<1>7. \A q \in Messages : copies[q] \in Nat
  BY <1>0 DEF RequestShapes
<1>8. \A p \in ToSet(loaded') : p = new \/ (p \in ToSet(loaded) /\ p.root # m)
  <2>1. \A p \in ToSet(loaded') : p = new \/ p \in ToSet(pruned)
    BY <1>0, <1>m, <1>p, AddedSet DEF EnterNew
  <2>2. \A p \in ToSet(pruned) : p \in ToSet(loaded) /\ p.root # m
    BY <1>0, <1>m, PrunedIs DEF EnterNew
  <2> QED
    BY <2>1, <2>2
<1>10. RequestShapes'
  <2>1. /\ loaded' \in Seq(Objects) /\ copies' \in [Messages -> 0..MaxCopies]
        /\ turns' \in [Objects -> SUBSET Turns] /\ replies' \in [Objects -> SUBSET Messages]
        /\ disk' \in [Messages -> [rev : Nat, turns : SUBSET Turns,
                     replies : SUBSET Messages, aged : BOOLEAN]]
        /\ revs' \in [Messages -> Nat] /\ writer' \in Callers \cup {Nobody}
    BY <1>0, <1>2, <1>3, <1>6, CallersAre DEF RequestShapes, Loads
  <2>2. /\ new = NoObject <=> "conversation" \in {"none", "lookup", "ready", "over"}
        /\ e \in Changes => "conversation" \in {"none", "changing", "outcome", "saving", "writing", "over"}
        /\ e \in Events => "conversation" \notin {"changing", "outcome"}
    BY CallersAre
  <2> QED
    BY <1>0, <1>1, <1>2, CallersAre, <2>1, <2>2, ShapesStay
<1>11. CopiesAreFresh'
  <2>1. /\ \A q \in Messages : copies[q] <= copies'[q]
        /\ copies' \in [Messages -> 0..MaxCopies]
    BY <1>6, <1>7
  <2>2. \A x \in Objects : x \in {new} \/ x = new => x.copy <= copies'[x.root]
    BY <1>6, <1>7, <1>q
  <2>3. \A x \in Objects : x.copy > copies'[x.root] => turns'[x] = turns[x]
               /\ replies'[x] = replies[x]
    BY <1>3
  <2> QED
    BY <1>0, <1>1, <1>2, CallersAre, <2>1, <2>2, <2>3, FreshStays
<1>12. LocksHeld'
  <2>1. /\ "conversation" \in InConversation =>
             (At(e, InConversation) /\ work[e].conv = new) \/ ConversationFree(new)
        /\ e \in Events /\ "conversation" \in InMember => At(e, InMember)
                     \/ MemberFree(Author[MessageOf[e]])
    BY <1>0, <1>1, <1>2, <1>3, CallersAre
       DEF RequestShapes, At, InConversation, InMember, EnterNew
  <2> QED
    BY <1>0, <1>1, <1>2, CallersAre, <2>1, LocksStay
<1>13. StaysLoaded'
  <2>1. (e \in Events /\ "conversation" \in Pending) \/ "conversation" = "writing"
               => new \in ToSet(loaded')
    BY <1>2 DEF Loads
  <2> QED
    BY <1>0, <1>1, <1>2, CallersAre, <2>1, LoadedStays
<1>14. StoreIsLocked'
  <2>1. /\ "conversation" \in {"reading", "writing"} => writer' = e
        /\ \A a \in Callers : a # e /\ At(a, {"reading", "writing"}) => writer' = a
    BY <1>0, <1>3, <1>5 DEF StoreIsLocked, At
  <2>2. \A a \in Callers : a # e /\ At(a, {"reading"}) =>
          /\ new # work[a].conv /\ work[a].conv \notin {new}
          /\ disk'[work[a].conv.root].turns \subseteq turns'[work[a].conv]
    BY <1>0, <1>3, <1>q DEF StoreIsLocked, At
  <2>3. "conversation" = "reading" =>
          /\ new \notin ToSet(loaded')
          /\ \A a \in Callers : a # e => work[a].conv # new
          /\ disk'[new.root].turns \subseteq turns'[new]
    BY <1>0, <1>1, <1>2, <1>3, CallersAre, MadeAre
       DEF RequestShapes, StoreIsLocked, At, CopiesAreFresh
  <2> QED
    BY <1>0, <1>1, <1>2, CallersAre, <2>1, <2>2, <2>3, StoreStays
<1>15. OnlyOfAnswered'
  <2>1. \A x \in Objects : turns'[x] # {} \/ replies'[x] # {}
          => turns[x] # {} \/ replies[x] # {} \/ Said(x.root)'
    BY <1>3
  <2>2. \A y \in Messages : disk'[y].turns # {} \/ disk'[y].replies # {}
          => disk[y].turns # {} \/ disk[y].replies # {} \/ Said(y)'
    BY <1>3
  <2>3. ASSUME NEW q \in Messages, new # NoObject, q = new.root,
               e \in Changes \/ "conversation" \in {"reading", "sent", "saving", "writing"}
                            \/ MessageOf[e] # q
        PROVE  Said(q)'
    BY <1>m, <1>q, <2>3, CallersAre
  <2> QED
    BY <1>0, <1>1, <1>2, <1>4, CallersAre, <2>1, <2>2, <2>3, OnlyStays
<1>16. NotYetAnswered'
  <2>1. /\ e \in Events /\ "conversation" = "answering" => Answer(MessageOf[e]) \notin turns'[new]
        /\ \A a \in Events : a # e /\ At(a, {"answering"}) =>
             (Answer(MessageOf[a]) \in turns'[work[a].conv]
                          => Answer(MessageOf[a]) \in turns[work[a].conv])
    BY <1>3
  <2> QED
    BY <1>0, <1>1, <1>2, CallersAre, <2>1, NotYetStays
<1>17. MemoryHoldsSnapshot'
  <2>1. \A x \in ToSet(loaded') : disk'[x.root].turns \subseteq turns'[x]
    <3> SUFFICES ASSUME NEW p \in ToSet(loaded') PROVE disk[p.root].turns \subseteq turns[p]
      BY <1>3
    <3>1. CASE p = new
      BY <1>5, <1>q, <3>1
    <3>2. CASE p \in ToSet(loaded)
      BY <1>0, <3>2 DEF MemoryHoldsSnapshot
    <3> QED
      BY <1>8, <3>1, <3>2
  <2>2. \A x \in {new} : \A q \in ToSet(loaded') : x.root = q.root => x = q
    BY <1>8, <1>q
  <2> QED
    BY <1>0, <1>1, <1>2, CallersAre, <2>1, <2>2, MemoryStays
<1>18. TableIsFinite'
  BY <1>0, <1>3 DEF TableIsFinite, Snapshots
<1> QED
  BY <1>10, <1>11, <1>12, <1>13, <1>14, <1>15, <1>16, <1>17, <1>18 DEF RequestInv

\* A request is turned away.
LEMMA EnterNotKeeps ==
  ASSUME RequestInv, NEW e \in Events, EnterNot(e)
  PROVE  RequestInv'
<1>0. RequestShapes /\ CopiesAreFresh /\ LocksHeld /\ StaysLoaded /\ StoreIsLocked
             /\ OnlyOfAnswered /\ NotYetAnswered /\ MemoryHoldsSnapshot /\ TableIsFinite
  BY DEF RequestInv
<1>1. Moves(e, "over", NoObject)
  BY <1>0, CallersAre, EndsMoves DEF EnterNot
<1>2. Loads({})
  BY <1>0, PrunedLoads, SameLoads DEF EnterNot
<1>3. UNCHANGED <<copies, turns, replies, aged, disk, revs, writer, silences, stops>>
  BY DEF EnterNot, Enter
<1>4. \A q \in Messages : Said(q) => Said(q)'
  <2>1. \A d \in Events : /\ At(d, Past) => At(d, Past)'
                          /\ At(d, Early)' => At(d, Early) \/ ~Said(MessageOf[d])
    BY <1>1, CallersAre DEF At, Past, Early, Moves, EnterNot, Enter
  <2> QED
    BY <2>1, SaidStays
<1>10. RequestShapes'
  <2>1. /\ loaded' \in Seq(Objects) /\ copies' \in [Messages -> 0..MaxCopies]
        /\ turns' \in [Objects -> SUBSET Turns] /\ replies' \in [Objects -> SUBSET Messages]
        /\ disk' \in [Messages -> [rev : Nat, turns : SUBSET Turns,
                     replies : SUBSET Messages, aged : BOOLEAN]]
        /\ revs' \in [Messages -> Nat] /\ writer' \in Callers \cup {Nobody}
    BY <1>0, <1>1, <1>2, <1>3, CallersAre
       DEF RequestShapes, Loads, At, Stages, EnterNot, Enter
  <2>2. /\ NoObject = NoObject <=> "over" \in {"none", "lookup", "ready", "over"}
        /\ e \in Changes => "over" \in {"none", "changing", "outcome", "saving", "writing", "over"}
        /\ e \in Events => "over" \notin {"changing", "outcome"}
    BY <1>0, <1>1, <1>2, <1>3, CallersAre
       DEF RequestShapes, Loads, At, Stages, EnterNot, Enter
  <2> QED
    BY <1>0, <1>1, <1>2, CallersAre, <2>1, <2>2, ShapesStay
<1>11. CopiesAreFresh'
  <2>1. /\ \A q \in Messages : copies[q] <= copies'[q]
        /\ copies' \in [Messages -> 0..MaxCopies]
    BY <1>0, <1>1, <1>2, <1>3, CallersAre, MadeAre
       DEF CopiesAreFresh, RequestShapes, Objects
  <2>2. \A x \in Objects : x \in {} \/ x = NoObject => x.copy <= copies'[x.root]
    BY <1>0, <1>1, <1>2, <1>3, CallersAre, MadeAre
       DEF CopiesAreFresh, RequestShapes, Objects
  <2>3. \A x \in Objects : x.copy > copies'[x.root] => turns'[x] = turns[x]
               /\ replies'[x] = replies[x]
    BY <1>0, <1>1, <1>2, <1>3, CallersAre, MadeAre
       DEF CopiesAreFresh, RequestShapes, Objects
  <2> QED
    BY <1>0, <1>1, <1>2, CallersAre, <2>1, <2>2, <2>3, FreshStays
<1>12. LocksHeld'
  <2>1. /\ "over" \in InConversation =>
             (At(e, InConversation) /\ work[e].conv = NoObject) \/ ConversationFree(NoObject)
        /\ e \in Events /\ "over" \in InMember => At(e, InMember)
                     \/ MemberFree(Author[MessageOf[e]])
    BY <1>0, <1>1, <1>2, <1>3, CallersAre
       DEF RequestShapes, At, InConversation, InMember, EnterNot, Enter
  <2> QED
    BY <1>0, <1>1, <1>2, CallersAre, <2>1, LocksStay
<1>13. StaysLoaded'
  <2>1. (e \in Events /\ "over" \in Pending) \/ "over" = "writing" => NoObject \in ToSet(loaded')
    BY <1>0, <1>1, <1>2, <1>3, CallersAre
       DEF RequestShapes, StaysLoaded, Loads, is_active, At, Pending, InConversation, EnterNot,
          Enter
  <2> QED
    BY <1>0, <1>1, <1>2, CallersAre, <2>1, LoadedStays
<1>14. StoreIsLocked'
  <2>1. /\ "over" \in {"reading", "writing"} => writer' = e
        /\ \A a \in Callers : a # e /\ At(a, {"reading", "writing"}) => writer' = a
    BY <1>0, <1>1, <1>2, <1>3, CallersAre, MadeAre
       DEF RequestShapes, StoreIsLocked, At, CopiesAreFresh, EnterNot, Enter
  <2>2. \A a \in Callers : a # e /\ At(a, {"reading"}) =>
          /\ NoObject # work[a].conv /\ work[a].conv \notin {}
          /\ disk'[work[a].conv.root].turns \subseteq turns'[work[a].conv]
    BY <1>0, <1>1, <1>2, <1>3, CallersAre, MadeAre
       DEF RequestShapes, StoreIsLocked, At, CopiesAreFresh, EnterNot, Enter
  <2>3. "over" = "reading" =>
          /\ NoObject \notin ToSet(loaded')
          /\ \A a \in Callers : a # e => work[a].conv # NoObject
          /\ disk'[NoObject.root].turns \subseteq turns'[NoObject]
    BY <1>0, <1>1, <1>2, <1>3, CallersAre, MadeAre
       DEF RequestShapes, StoreIsLocked, At, CopiesAreFresh, EnterNot, Enter
  <2> QED
    BY <1>0, <1>1, <1>2, CallersAre, <2>1, <2>2, <2>3, StoreStays
<1>15. OnlyOfAnswered'
  <2>1. \A x \in Objects : turns'[x] # {} \/ replies'[x] # {}
          => turns[x] # {} \/ replies[x] # {} \/ Said(x.root)'
    BY <1>0, <1>1, <1>2, <1>3, CallersAre, <1>4
       DEF RequestShapes, OnlyOfAnswered, At, EnterNot, Enter
  <2>2. \A y \in Messages : disk'[y].turns # {} \/ disk'[y].replies # {}
          => disk[y].turns # {} \/ disk[y].replies # {} \/ Said(y)'
    BY <1>0, <1>1, <1>2, <1>3, CallersAre, <1>4
       DEF RequestShapes, OnlyOfAnswered, At, EnterNot, Enter
  <2>3. ASSUME NEW q \in Messages, NoObject # NoObject, q = NoObject.root,
               e \in Changes \/ "over" \in {"reading", "sent", "saving", "writing"}
                            \/ MessageOf[e] # q
        PROVE  Said(q)'
    BY <1>0, <1>1, <1>2, <1>3, CallersAre, <1>4, <2>3
       DEF RequestShapes, OnlyOfAnswered, At, EnterNot, Enter
  <2> QED
    BY <1>0, <1>1, <1>2, <1>4, CallersAre, <2>1, <2>2, <2>3, OnlyStays
<1>16. NotYetAnswered'
  <2>1. /\ e \in Events /\ "over" = "answering" => Answer(MessageOf[e]) \notin turns'[NoObject]
        /\ \A a \in Events : a # e /\ At(a, {"answering"}) =>
             (Answer(MessageOf[a]) \in turns'[work[a].conv]
                          => Answer(MessageOf[a]) \in turns[work[a].conv])
    BY <1>0, <1>1, <1>2, <1>3, CallersAre
       DEF RequestShapes, NotYetAnswered, At
  <2> QED
    BY <1>0, <1>1, <1>2, CallersAre, <2>1, NotYetStays
<1>17. MemoryHoldsSnapshot'
  <2>1. \A x \in ToSet(loaded') : disk'[x.root].turns \subseteq turns'[x]
    BY <1>0, <1>1, <1>2, <1>3, CallersAre
       DEF RequestShapes, MemoryHoldsSnapshot, Loads
  <2>2. \A x \in {} : \A q \in ToSet(loaded') : x.root = q.root => x = q
    BY <1>0, <1>1, <1>2, <1>3, CallersAre
       DEF RequestShapes, MemoryHoldsSnapshot, Loads
  <2> QED
    BY <1>0, <1>1, <1>2, CallersAre, <2>1, <2>2, MemoryStays
<1>18. TableIsFinite'
  BY <1>0, <1>3 DEF TableIsFinite, Snapshots
<1> QED
  BY <1>10, <1>11, <1>12, <1>13, <1>14, <1>15, <1>16, <1>17, <1>18 DEF RequestInv

\* A request takes its conversation.
LEMMA EnterConversationKeeps ==
  ASSUME RequestInv, NEW e \in Events, EnterConversation(e)
  PROVE  RequestInv'
<1>0. RequestShapes /\ CopiesAreFresh /\ LocksHeld /\ StaysLoaded /\ StoreIsLocked
             /\ OnlyOfAnswered /\ NotYetAnswered /\ MemoryHoldsSnapshot /\ TableIsFinite
  BY DEF RequestInv
<1>1. Moves(e, "member", work[e].conv)
  BY <1>0, CallersAre, GoesMoves DEF EnterConversation, Stages
<1>2. Loads({})
  BY <1>0, SameLoads DEF EnterConversation
<1>3. UNCHANGED <<copies, turns, replies, aged, disk, revs, writer, silences, stops>>
  BY DEF EnterConversation
<1>4. \A q \in Messages : Said(q) => Said(q)'
  <2>1. \A d \in Events : /\ At(d, Past) => At(d, Past)'
                          /\ At(d, Early)' => At(d, Early) \/ ~Said(MessageOf[d])
    BY <1>1, CallersAre DEF At, Past, Early, Moves, EnterConversation
  <2> QED
    BY <2>1, SaidStays
<1>10. RequestShapes'
  <2>1. /\ loaded' \in Seq(Objects) /\ copies' \in [Messages -> 0..MaxCopies]
        /\ turns' \in [Objects -> SUBSET Turns] /\ replies' \in [Objects -> SUBSET Messages]
        /\ disk' \in [Messages -> [rev : Nat, turns : SUBSET Turns,
                     replies : SUBSET Messages, aged : BOOLEAN]]
        /\ revs' \in [Messages -> Nat] /\ writer' \in Callers \cup {Nobody}
    BY <1>0, <1>1, <1>2, <1>3, CallersAre
       DEF RequestShapes, Loads, At, Stages, EnterConversation
  <2>2. /\ work[e].conv = NoObject <=> "member" \in {"none", "lookup", "ready", "over"}
        /\ e \in Changes => "member" \in {"none", "changing", "outcome", "saving", "writing", "over"}
        /\ e \in Events => "member" \notin {"changing", "outcome"}
    BY <1>0, <1>1, <1>2, <1>3, CallersAre
       DEF RequestShapes, Loads, At, Stages, EnterConversation
  <2> QED
    BY <1>0, <1>1, <1>2, CallersAre, <2>1, <2>2, ShapesStay
<1>11. CopiesAreFresh'
  <2>1. /\ \A q \in Messages : copies[q] <= copies'[q]
        /\ copies' \in [Messages -> 0..MaxCopies]
    BY <1>0, <1>1, <1>2, <1>3, CallersAre, MadeAre
       DEF CopiesAreFresh, RequestShapes, Objects
  <2>2. \A x \in Objects : x \in {} \/ x = work[e].conv => x.copy <= copies'[x.root]
    BY <1>0, <1>1, <1>2, <1>3, CallersAre, MadeAre
       DEF CopiesAreFresh, RequestShapes, Objects
  <2>3. \A x \in Objects : x.copy > copies'[x.root] => turns'[x] = turns[x]
               /\ replies'[x] = replies[x]
    BY <1>0, <1>1, <1>2, <1>3, CallersAre, MadeAre
       DEF CopiesAreFresh, RequestShapes, Objects
  <2> QED
    BY <1>0, <1>1, <1>2, CallersAre, <2>1, <2>2, <2>3, FreshStays
<1>12. LocksHeld'
  <2>1. /\ "member" \in InConversation =>
             (At(e, InConversation) /\ work[e].conv = work[e].conv)
                          \/ ConversationFree(work[e].conv)
        /\ e \in Events /\ "member" \in InMember => At(e, InMember)
                     \/ MemberFree(Author[MessageOf[e]])
    BY <1>0, <1>1, <1>2, <1>3, CallersAre
       DEF RequestShapes, At, InConversation, InMember, EnterConversation, ConversationFree
  <2> QED
    BY <1>0, <1>1, <1>2, CallersAre, <2>1, LocksStay
<1>13. StaysLoaded'
  <2>1. (e \in Events /\ "member" \in Pending) \/ "member" = "writing"
               => work[e].conv \in ToSet(loaded')
    BY <1>0, <1>1, <1>2, <1>3, CallersAre
       DEF RequestShapes, StaysLoaded, Loads, is_active, At, Pending, InConversation,
          EnterConversation
  <2> QED
    BY <1>0, <1>1, <1>2, CallersAre, <2>1, LoadedStays
<1>14. StoreIsLocked'
  <2>1. /\ "member" \in {"reading", "writing"} => writer' = e
        /\ \A a \in Callers : a # e /\ At(a, {"reading", "writing"}) => writer' = a
    BY <1>0, <1>1, <1>2, <1>3, CallersAre, MadeAre
       DEF RequestShapes, StoreIsLocked, At, CopiesAreFresh
  <2>2. \A a \in Callers : a # e /\ At(a, {"reading"}) =>
          /\ work[e].conv # work[a].conv /\ work[a].conv \notin {}
          /\ disk'[work[a].conv.root].turns \subseteq turns'[work[a].conv]
    BY <1>0, <1>1, <1>2, <1>3, CallersAre, MadeAre
       DEF RequestShapes, StoreIsLocked, At, CopiesAreFresh
  <2>3. "member" = "reading" =>
          /\ work[e].conv \notin ToSet(loaded')
          /\ \A a \in Callers : a # e => work[a].conv # work[e].conv
          /\ disk'[work[e].conv.root].turns \subseteq turns'[work[e].conv]
    BY <1>0, <1>1, <1>2, <1>3, CallersAre, MadeAre
       DEF RequestShapes, StoreIsLocked, At, CopiesAreFresh
  <2> QED
    BY <1>0, <1>1, <1>2, CallersAre, <2>1, <2>2, <2>3, StoreStays
<1>15. OnlyOfAnswered'
  <2>1. \A x \in Objects : turns'[x] # {} \/ replies'[x] # {}
          => turns[x] # {} \/ replies[x] # {} \/ Said(x.root)'
    BY <1>0, <1>1, <1>2, <1>3, CallersAre, <1>4
       DEF RequestShapes, OnlyOfAnswered, At, EnterConversation
  <2>2. \A y \in Messages : disk'[y].turns # {} \/ disk'[y].replies # {}
          => disk[y].turns # {} \/ disk[y].replies # {} \/ Said(y)'
    BY <1>0, <1>1, <1>2, <1>3, CallersAre, <1>4
       DEF RequestShapes, OnlyOfAnswered, At, EnterConversation
  <2>3. ASSUME NEW q \in Messages, work[e].conv # NoObject, q = work[e].conv.root,
               e \in Changes \/ "member" \in {"reading", "sent", "saving", "writing"}
                            \/ MessageOf[e] # q
        PROVE  Said(q)'
    BY <1>0, <1>1, <1>2, <1>3, CallersAre, <1>4, <2>3
       DEF RequestShapes, OnlyOfAnswered, At, EnterConversation
  <2> QED
    BY <1>0, <1>1, <1>2, <1>4, CallersAre, <2>1, <2>2, <2>3, OnlyStays
<1>16. NotYetAnswered'
  <2>1. /\ e \in Events /\ "member" = "answering"
               => Answer(MessageOf[e]) \notin turns'[work[e].conv]
        /\ \A a \in Events : a # e /\ At(a, {"answering"}) =>
             (Answer(MessageOf[a]) \in turns'[work[a].conv]
                          => Answer(MessageOf[a]) \in turns[work[a].conv])
    BY <1>0, <1>1, <1>2, <1>3, CallersAre
       DEF RequestShapes, NotYetAnswered, At
  <2> QED
    BY <1>0, <1>1, <1>2, CallersAre, <2>1, NotYetStays
<1>17. MemoryHoldsSnapshot'
  <2>1. \A x \in ToSet(loaded') : disk'[x.root].turns \subseteq turns'[x]
    BY <1>0, <1>1, <1>2, <1>3, CallersAre
       DEF RequestShapes, MemoryHoldsSnapshot, Loads
  <2>2. \A x \in {} : \A q \in ToSet(loaded') : x.root = q.root => x = q
    BY <1>0, <1>1, <1>2, <1>3, CallersAre
       DEF RequestShapes, MemoryHoldsSnapshot, Loads
  <2> QED
    BY <1>0, <1>1, <1>2, CallersAre, <2>1, <2>2, MemoryStays
<1>18. TableIsFinite'
  BY <1>0, <1>3 DEF TableIsFinite, Snapshots
<1> QED
  BY <1>10, <1>11, <1>12, <1>13, <1>14, <1>15, <1>16, <1>17, <1>18 DEF RequestInv

\* A request takes its member.
LEMMA EnterMemberKeeps ==
  ASSUME RequestInv, NEW e \in Events, EnterMember(e)
  PROVE  RequestInv'
<1>0. RequestShapes /\ CopiesAreFresh /\ LocksHeld /\ StaysLoaded /\ StoreIsLocked
             /\ OnlyOfAnswered /\ NotYetAnswered /\ MemoryHoldsSnapshot /\ TableIsFinite
  BY DEF RequestInv
<1>1. Moves(e, "slot", work[e].conv)
  BY <1>0, CallersAre, GoesMoves DEF EnterMember, Stages
<1>2. Loads({})
  BY <1>0, SameLoads DEF EnterMember
<1>3. UNCHANGED <<copies, turns, replies, aged, disk, revs, writer, silences, stops>>
  BY DEF EnterMember
<1>4. \A q \in Messages : Said(q) => Said(q)'
  <2>1. \A d \in Events : /\ At(d, Past) => At(d, Past)'
                          /\ At(d, Early)' => At(d, Early) \/ ~Said(MessageOf[d])
    BY <1>1, CallersAre DEF At, Past, Early, Moves, EnterMember
  <2> QED
    BY <2>1, SaidStays
<1>10. RequestShapes'
  <2>1. /\ loaded' \in Seq(Objects) /\ copies' \in [Messages -> 0..MaxCopies]
        /\ turns' \in [Objects -> SUBSET Turns] /\ replies' \in [Objects -> SUBSET Messages]
        /\ disk' \in [Messages -> [rev : Nat, turns : SUBSET Turns,
                     replies : SUBSET Messages, aged : BOOLEAN]]
        /\ revs' \in [Messages -> Nat] /\ writer' \in Callers \cup {Nobody}
    BY <1>0, <1>1, <1>2, <1>3, CallersAre
       DEF RequestShapes, Loads, At, Stages, EnterMember
  <2>2. /\ work[e].conv = NoObject <=> "slot" \in {"none", "lookup", "ready", "over"}
        /\ e \in Changes => "slot" \in {"none", "changing", "outcome", "saving", "writing", "over"}
        /\ e \in Events => "slot" \notin {"changing", "outcome"}
    BY <1>0, <1>1, <1>2, <1>3, CallersAre
       DEF RequestShapes, Loads, At, Stages, EnterMember
  <2> QED
    BY <1>0, <1>1, <1>2, CallersAre, <2>1, <2>2, ShapesStay
<1>11. CopiesAreFresh'
  <2>1. /\ \A q \in Messages : copies[q] <= copies'[q]
        /\ copies' \in [Messages -> 0..MaxCopies]
    BY <1>0, <1>1, <1>2, <1>3, CallersAre, MadeAre
       DEF CopiesAreFresh, RequestShapes, Objects
  <2>2. \A x \in Objects : x \in {} \/ x = work[e].conv => x.copy <= copies'[x.root]
    BY <1>0, <1>1, <1>2, <1>3, CallersAre, MadeAre
       DEF CopiesAreFresh, RequestShapes, Objects
  <2>3. \A x \in Objects : x.copy > copies'[x.root] => turns'[x] = turns[x]
               /\ replies'[x] = replies[x]
    BY <1>0, <1>1, <1>2, <1>3, CallersAre, MadeAre
       DEF CopiesAreFresh, RequestShapes, Objects
  <2> QED
    BY <1>0, <1>1, <1>2, CallersAre, <2>1, <2>2, <2>3, FreshStays
<1>12. LocksHeld'
  <2>1. /\ "slot" \in InConversation =>
             (At(e, InConversation) /\ work[e].conv = work[e].conv)
                          \/ ConversationFree(work[e].conv)
        /\ e \in Events /\ "slot" \in InMember => At(e, InMember)
                     \/ MemberFree(Author[MessageOf[e]])
    BY <1>0, <1>1, <1>2, <1>3, CallersAre
       DEF RequestShapes, At, InConversation, InMember, EnterMember
  <2> QED
    BY <1>0, <1>1, <1>2, CallersAre, <2>1, LocksStay
<1>13. StaysLoaded'
  <2>1. (e \in Events /\ "slot" \in Pending) \/ "slot" = "writing"
               => work[e].conv \in ToSet(loaded')
    BY <1>0, <1>1, <1>2, <1>3, CallersAre
       DEF RequestShapes, StaysLoaded, Loads, is_active, At, Pending, InConversation,
          EnterMember
  <2> QED
    BY <1>0, <1>1, <1>2, CallersAre, <2>1, LoadedStays
<1>14. StoreIsLocked'
  <2>1. /\ "slot" \in {"reading", "writing"} => writer' = e
        /\ \A a \in Callers : a # e /\ At(a, {"reading", "writing"}) => writer' = a
    BY <1>0, <1>1, <1>2, <1>3, CallersAre, MadeAre
       DEF RequestShapes, StoreIsLocked, At, CopiesAreFresh
  <2>2. \A a \in Callers : a # e /\ At(a, {"reading"}) =>
          /\ work[e].conv # work[a].conv /\ work[a].conv \notin {}
          /\ disk'[work[a].conv.root].turns \subseteq turns'[work[a].conv]
    BY <1>0, <1>1, <1>2, <1>3, CallersAre, MadeAre
       DEF RequestShapes, StoreIsLocked, At, CopiesAreFresh
  <2>3. "slot" = "reading" =>
          /\ work[e].conv \notin ToSet(loaded')
          /\ \A a \in Callers : a # e => work[a].conv # work[e].conv
          /\ disk'[work[e].conv.root].turns \subseteq turns'[work[e].conv]
    BY <1>0, <1>1, <1>2, <1>3, CallersAre, MadeAre
       DEF RequestShapes, StoreIsLocked, At, CopiesAreFresh
  <2> QED
    BY <1>0, <1>1, <1>2, CallersAre, <2>1, <2>2, <2>3, StoreStays
<1>15. OnlyOfAnswered'
  <2>1. \A x \in Objects : turns'[x] # {} \/ replies'[x] # {}
          => turns[x] # {} \/ replies[x] # {} \/ Said(x.root)'
    BY <1>0, <1>1, <1>2, <1>3, CallersAre, <1>4
       DEF RequestShapes, OnlyOfAnswered, At, EnterMember
  <2>2. \A y \in Messages : disk'[y].turns # {} \/ disk'[y].replies # {}
          => disk[y].turns # {} \/ disk[y].replies # {} \/ Said(y)'
    BY <1>0, <1>1, <1>2, <1>3, CallersAre, <1>4
       DEF RequestShapes, OnlyOfAnswered, At, EnterMember
  <2>3. ASSUME NEW q \in Messages, work[e].conv # NoObject, q = work[e].conv.root,
               e \in Changes \/ "slot" \in {"reading", "sent", "saving", "writing"}
                            \/ MessageOf[e] # q
        PROVE  Said(q)'
    BY <1>0, <1>1, <1>2, <1>3, CallersAre, <1>4, <2>3
       DEF RequestShapes, OnlyOfAnswered, At, EnterMember
  <2> QED
    BY <1>0, <1>1, <1>2, <1>4, CallersAre, <2>1, <2>2, <2>3, OnlyStays
<1>16. NotYetAnswered'
  <2>1. /\ e \in Events /\ "slot" = "answering"
               => Answer(MessageOf[e]) \notin turns'[work[e].conv]
        /\ \A a \in Events : a # e /\ At(a, {"answering"}) =>
             (Answer(MessageOf[a]) \in turns'[work[a].conv]
                          => Answer(MessageOf[a]) \in turns[work[a].conv])
    BY <1>0, <1>1, <1>2, <1>3, CallersAre
       DEF RequestShapes, NotYetAnswered, At
  <2> QED
    BY <1>0, <1>1, <1>2, CallersAre, <2>1, NotYetStays
<1>17. MemoryHoldsSnapshot'
  <2>1. \A x \in ToSet(loaded') : disk'[x.root].turns \subseteq turns'[x]
    BY <1>0, <1>1, <1>2, <1>3, CallersAre
       DEF RequestShapes, MemoryHoldsSnapshot, Loads
  <2>2. \A x \in {} : \A q \in ToSet(loaded') : x.root = q.root => x = q
    BY <1>0, <1>1, <1>2, <1>3, CallersAre
       DEF RequestShapes, MemoryHoldsSnapshot, Loads
  <2> QED
    BY <1>0, <1>1, <1>2, CallersAre, <2>1, <2>2, MemoryStays
<1>18. TableIsFinite'
  BY <1>0, <1>3 DEF TableIsFinite, Snapshots
<1> QED
  BY <1>10, <1>11, <1>12, <1>13, <1>14, <1>15, <1>16, <1>17, <1>18 DEF RequestInv

\* A request is answered, or was answered before.
LEMMA EnterSlotKeeps ==
  ASSUME RequestInv, NEW e \in Events, EnterSlot(e)
  PROVE  RequestInv'
<1>0. RequestShapes /\ CopiesAreFresh /\ LocksHeld /\ StaysLoaded /\ StoreIsLocked
             /\ OnlyOfAnswered /\ NotYetAnswered /\ MemoryHoldsSnapshot /\ TableIsFinite
  BY DEF RequestInv
<1>1. PICK to \in Stages, o \in Objects \cup {NoObject} :
        /\ Moves(e, to, o)
        /\ \/ (to = "over" /\ o = NoObject)
           \/ (to = "answering" /\ o = work[e].conv /\ ~answered(e))
  <2>1. CASE answered(e)
    <3>1. Moves(e, "over", NoObject)
      BY <1>0, <2>1, CallersAre, EndsMoves DEF EnterSlot
    <3> QED
      BY <2>1, <3>1 DEF Stages, EnterSlot
  <2>2. CASE ~answered(e)
    <3>1. Moves(e, "answering", work[e].conv)
      BY <1>0, <2>2, CallersAre, GoesMoves DEF EnterSlot, Stages
    <3> QED
      BY <1>0, <2>2, <3>1, CallersAre DEF RequestShapes, Stages
  <2> QED
    BY <2>1, <2>2
<1>2. Loads({})
  BY <1>0, SameLoads DEF EnterSlot
<1>3. UNCHANGED <<copies, turns, replies, aged, disk, revs, writer, silences, stops>>
  BY DEF EnterSlot
<1>4. \A q \in Messages : Said(q) => Said(q)'
  <2>1. \A d \in Events : /\ At(d, Past) => At(d, Past)'
                          /\ At(d, Early)' => At(d, Early) \/ ~Said(MessageOf[d])
    BY <1>1, CallersAre DEF At, Past, Early, Moves, EnterSlot
  <2> QED
    BY <2>1, SaidStays
<1>10. RequestShapes'
  <2>1. /\ loaded' \in Seq(Objects) /\ copies' \in [Messages -> 0..MaxCopies]
        /\ turns' \in [Objects -> SUBSET Turns] /\ replies' \in [Objects -> SUBSET Messages]
        /\ disk' \in [Messages -> [rev : Nat, turns : SUBSET Turns,
                     replies : SUBSET Messages, aged : BOOLEAN]]
        /\ revs' \in [Messages -> Nat] /\ writer' \in Callers \cup {Nobody}
    BY <1>0, <1>1, <1>2, <1>3, CallersAre
       DEF RequestShapes, Loads, At, Stages, EnterSlot
  <2>2. /\ o = NoObject <=> to \in {"none", "lookup", "ready", "over"}
        /\ e \in Changes => to \in {"none", "changing", "outcome", "saving", "writing", "over"}
        /\ e \in Events => to \notin {"changing", "outcome"}
    BY <1>0, <1>1, <1>2, <1>3, CallersAre
       DEF RequestShapes, Loads, At, Stages, EnterSlot
  <2> QED
    BY <1>0, <1>1, <1>2, CallersAre, <2>1, <2>2, ShapesStay
<1>11. CopiesAreFresh'
  <2>1. /\ \A q \in Messages : copies[q] <= copies'[q]
        /\ copies' \in [Messages -> 0..MaxCopies]
    BY <1>0, <1>1, <1>2, <1>3, CallersAre, MadeAre
       DEF CopiesAreFresh, RequestShapes, Objects
  <2>2. \A x \in Objects : x \in {} \/ x = o => x.copy <= copies'[x.root]
    BY <1>0, <1>1, <1>2, <1>3, CallersAre, MadeAre
       DEF CopiesAreFresh, RequestShapes, Objects
  <2>3. \A x \in Objects : x.copy > copies'[x.root] => turns'[x] = turns[x]
               /\ replies'[x] = replies[x]
    BY <1>0, <1>1, <1>2, <1>3, CallersAre, MadeAre
       DEF CopiesAreFresh, RequestShapes, Objects
  <2> QED
    BY <1>0, <1>1, <1>2, CallersAre, <2>1, <2>2, <2>3, FreshStays
<1>12. LocksHeld'
  <2>1. /\ to \in InConversation =>
             (At(e, InConversation) /\ work[e].conv = o) \/ ConversationFree(o)
        /\ e \in Events /\ to \in InMember => At(e, InMember) \/ MemberFree(Author[MessageOf[e]])
    BY <1>0, <1>1, <1>2, <1>3, CallersAre
       DEF RequestShapes, At, InConversation, InMember, EnterSlot
  <2> QED
    BY <1>0, <1>1, <1>2, CallersAre, <2>1, LocksStay
<1>13. StaysLoaded'
  <2>1. (e \in Events /\ to \in Pending) \/ to = "writing" => o \in ToSet(loaded')
    BY <1>0, <1>1, <1>2, <1>3, CallersAre
       DEF RequestShapes, StaysLoaded, Loads, is_active, At, Pending, InConversation, EnterSlot
  <2> QED
    BY <1>0, <1>1, <1>2, CallersAre, <2>1, LoadedStays
<1>14. StoreIsLocked'
  <2>1. /\ to \in {"reading", "writing"} => writer' = e
        /\ \A a \in Callers : a # e /\ At(a, {"reading", "writing"}) => writer' = a
    BY <1>0, <1>1, <1>2, <1>3, CallersAre, MadeAre
       DEF RequestShapes, StoreIsLocked, At, CopiesAreFresh
  <2>2. \A a \in Callers : a # e /\ At(a, {"reading"}) =>
          /\ o # work[a].conv /\ work[a].conv \notin {}
          /\ disk'[work[a].conv.root].turns \subseteq turns'[work[a].conv]
    <3> SUFFICES ASSUME NEW a \in Callers, a # e, At(a, {"reading"})
                 PROVE  o # work[a].conv
                              /\ disk[work[a].conv.root].turns \subseteq turns[work[a].conv]
      BY <1>3
    <3>1. /\ work[a].conv \in Objects /\ work[e].conv # work[a].conv
          /\ disk[work[a].conv.root].turns \subseteq turns[work[a].conv]
      BY <1>0, CallersAre DEF StoreIsLocked, RequestShapes, At
    <3> QED
      BY <1>1, <3>1, CallersAre
  <2>3. to = "reading" =>
          /\ o \notin ToSet(loaded')
          /\ \A a \in Callers : a # e => work[a].conv # o
          /\ disk'[o.root].turns \subseteq turns'[o]
    BY <1>0, <1>1, <1>2, <1>3, CallersAre, MadeAre
       DEF RequestShapes, StoreIsLocked, At, CopiesAreFresh
  <2> QED
    BY <1>0, <1>1, <1>2, CallersAre, <2>1, <2>2, <2>3, StoreStays
<1>15. OnlyOfAnswered'
  <2>1. \A x \in Objects : turns'[x] # {} \/ replies'[x] # {}
          => turns[x] # {} \/ replies[x] # {} \/ Said(x.root)'
    BY <1>0, <1>1, <1>2, <1>3, CallersAre, <1>4
       DEF RequestShapes, OnlyOfAnswered, At, EnterSlot
  <2>2. \A y \in Messages : disk'[y].turns # {} \/ disk'[y].replies # {}
          => disk[y].turns # {} \/ disk[y].replies # {} \/ Said(y)'
    BY <1>0, <1>1, <1>2, <1>3, CallersAre, <1>4
       DEF RequestShapes, OnlyOfAnswered, At, EnterSlot
  <2>3. ASSUME NEW q \in Messages, o # NoObject, q = o.root,
               e \in Changes \/ to \in {"reading", "sent", "saving", "writing"}
                            \/ MessageOf[e] # q
        PROVE  Said(q)'
    BY <1>0, <1>1, <1>2, <1>3, CallersAre, <1>4, <2>3
       DEF RequestShapes, OnlyOfAnswered, At, EnterSlot
  <2> QED
    BY <1>0, <1>1, <1>2, <1>4, CallersAre, <2>1, <2>2, <2>3, OnlyStays
<1>16. NotYetAnswered'
  <2>1. /\ e \in Events /\ to = "answering" => Answer(MessageOf[e]) \notin turns'[o]
        /\ \A a \in Events : a # e /\ At(a, {"answering"}) =>
             (Answer(MessageOf[a]) \in turns'[work[a].conv]
                          => Answer(MessageOf[a]) \in turns[work[a].conv])
    BY <1>0, <1>1, <1>2, <1>3, CallersAre
       DEF RequestShapes, NotYetAnswered, At, EnterSlot, answered
  <2> QED
    BY <1>0, <1>1, <1>2, CallersAre, <2>1, NotYetStays
<1>17. MemoryHoldsSnapshot'
  <2>1. \A x \in ToSet(loaded') : disk'[x.root].turns \subseteq turns'[x]
    BY <1>0, <1>1, <1>2, <1>3, CallersAre
       DEF RequestShapes, MemoryHoldsSnapshot, Loads
  <2>2. \A x \in {} : \A q \in ToSet(loaded') : x.root = q.root => x = q
    BY <1>0, <1>1, <1>2, <1>3, CallersAre
       DEF RequestShapes, MemoryHoldsSnapshot, Loads
  <2> QED
    BY <1>0, <1>1, <1>2, CallersAre, <2>1, <2>2, MemoryStays
<1>18. TableIsFinite'
  BY <1>0, <1>3 DEF TableIsFinite, Snapshots
<1> QED
  BY <1>10, <1>11, <1>12, <1>13, <1>14, <1>15, <1>16, <1>17, <1>18 DEF RequestInv

\* A request ends early.
LEMMA GiveUpKeeps ==
  ASSUME RequestInv, NEW e \in Events, GiveUp(e)
  PROVE  RequestInv'
<1>0. RequestShapes /\ CopiesAreFresh /\ LocksHeld /\ StaysLoaded /\ StoreIsLocked
             /\ OnlyOfAnswered /\ NotYetAnswered /\ MemoryHoldsSnapshot /\ TableIsFinite
  BY DEF RequestInv
<1>1. Moves(e, "over", NoObject)
  BY <1>0, CallersAre, EndsMoves DEF GiveUp
<1>2. Loads({})
  BY <1>0, SameLoads DEF GiveUp
<1>3. UNCHANGED <<copies, turns, replies, aged, disk, revs, writer, silences>>
  BY DEF GiveUp
<1>4. \A q \in Messages : Said(q) => Said(q)'
  <2>1. \A d \in Events : /\ At(d, Past) => At(d, Past)'
                          /\ At(d, Early)' => At(d, Early) \/ ~Said(MessageOf[d])
    BY <1>1, CallersAre DEF At, Past, Early, Moves, GiveUp
  <2> QED
    BY <2>1, SaidStays
<1>10. RequestShapes'
  <2>1. /\ loaded' \in Seq(Objects) /\ copies' \in [Messages -> 0..MaxCopies]
        /\ turns' \in [Objects -> SUBSET Turns] /\ replies' \in [Objects -> SUBSET Messages]
        /\ disk' \in [Messages -> [rev : Nat, turns : SUBSET Turns,
                     replies : SUBSET Messages, aged : BOOLEAN]]
        /\ revs' \in [Messages -> Nat] /\ writer' \in Callers \cup {Nobody}
    BY <1>0, <1>1, <1>2, <1>3, CallersAre
       DEF RequestShapes, Loads, At, Stages, GiveUp
  <2>2. /\ NoObject = NoObject <=> "over" \in {"none", "lookup", "ready", "over"}
        /\ e \in Changes => "over" \in {"none", "changing", "outcome", "saving", "writing", "over"}
        /\ e \in Events => "over" \notin {"changing", "outcome"}
    BY <1>0, <1>1, <1>2, <1>3, CallersAre
       DEF RequestShapes, Loads, At, Stages, GiveUp
  <2> QED
    BY <1>0, <1>1, <1>2, CallersAre, <2>1, <2>2, ShapesStay
<1>11. CopiesAreFresh'
  <2>1. /\ \A q \in Messages : copies[q] <= copies'[q]
        /\ copies' \in [Messages -> 0..MaxCopies]
    BY <1>0, <1>1, <1>2, <1>3, CallersAre, MadeAre
       DEF CopiesAreFresh, RequestShapes, Objects
  <2>2. \A x \in Objects : x \in {} \/ x = NoObject => x.copy <= copies'[x.root]
    BY <1>0, <1>1, <1>2, <1>3, CallersAre, MadeAre
       DEF CopiesAreFresh, RequestShapes, Objects
  <2>3. \A x \in Objects : x.copy > copies'[x.root] => turns'[x] = turns[x]
               /\ replies'[x] = replies[x]
    BY <1>0, <1>1, <1>2, <1>3, CallersAre, MadeAre
       DEF CopiesAreFresh, RequestShapes, Objects
  <2> QED
    BY <1>0, <1>1, <1>2, CallersAre, <2>1, <2>2, <2>3, FreshStays
<1>12. LocksHeld'
  <2>1. /\ "over" \in InConversation =>
             (At(e, InConversation) /\ work[e].conv = NoObject) \/ ConversationFree(NoObject)
        /\ e \in Events /\ "over" \in InMember => At(e, InMember)
                     \/ MemberFree(Author[MessageOf[e]])
    BY <1>0, <1>1, <1>2, <1>3, CallersAre
       DEF RequestShapes, At, InConversation, InMember, GiveUp
  <2> QED
    BY <1>0, <1>1, <1>2, CallersAre, <2>1, LocksStay
<1>13. StaysLoaded'
  <2>1. (e \in Events /\ "over" \in Pending) \/ "over" = "writing" => NoObject \in ToSet(loaded')
    BY <1>0, <1>1, <1>2, <1>3, CallersAre
       DEF RequestShapes, StaysLoaded, Loads, is_active, At, Pending, InConversation, GiveUp
  <2> QED
    BY <1>0, <1>1, <1>2, CallersAre, <2>1, LoadedStays
<1>14. StoreIsLocked'
  <2>1. /\ "over" \in {"reading", "writing"} => writer' = e
        /\ \A a \in Callers : a # e /\ At(a, {"reading", "writing"}) => writer' = a
    BY <1>0, <1>1, <1>2, <1>3, CallersAre, MadeAre
       DEF RequestShapes, StoreIsLocked, At, CopiesAreFresh, GiveUp
  <2>2. \A a \in Callers : a # e /\ At(a, {"reading"}) =>
          /\ NoObject # work[a].conv /\ work[a].conv \notin {}
          /\ disk'[work[a].conv.root].turns \subseteq turns'[work[a].conv]
    BY <1>0, <1>1, <1>2, <1>3, CallersAre, MadeAre
       DEF RequestShapes, StoreIsLocked, At, CopiesAreFresh, GiveUp
  <2>3. "over" = "reading" =>
          /\ NoObject \notin ToSet(loaded')
          /\ \A a \in Callers : a # e => work[a].conv # NoObject
          /\ disk'[NoObject.root].turns \subseteq turns'[NoObject]
    BY <1>0, <1>1, <1>2, <1>3, CallersAre, MadeAre
       DEF RequestShapes, StoreIsLocked, At, CopiesAreFresh, GiveUp
  <2> QED
    BY <1>0, <1>1, <1>2, CallersAre, <2>1, <2>2, <2>3, StoreStays
<1>15. OnlyOfAnswered'
  <2>1. \A x \in Objects : turns'[x] # {} \/ replies'[x] # {}
          => turns[x] # {} \/ replies[x] # {} \/ Said(x.root)'
    BY <1>0, <1>1, <1>2, <1>3, CallersAre, <1>4
       DEF RequestShapes, OnlyOfAnswered, At, GiveUp
  <2>2. \A y \in Messages : disk'[y].turns # {} \/ disk'[y].replies # {}
          => disk[y].turns # {} \/ disk[y].replies # {} \/ Said(y)'
    BY <1>0, <1>1, <1>2, <1>3, CallersAre, <1>4
       DEF RequestShapes, OnlyOfAnswered, At, GiveUp
  <2>3. ASSUME NEW q \in Messages, NoObject # NoObject, q = NoObject.root,
               e \in Changes \/ "over" \in {"reading", "sent", "saving", "writing"}
                            \/ MessageOf[e] # q
        PROVE  Said(q)'
    BY <1>0, <1>1, <1>2, <1>3, CallersAre, <1>4, <2>3
       DEF RequestShapes, OnlyOfAnswered, At, GiveUp
  <2> QED
    BY <1>0, <1>1, <1>2, <1>4, CallersAre, <2>1, <2>2, <2>3, OnlyStays
<1>16. NotYetAnswered'
  <2>1. /\ e \in Events /\ "over" = "answering" => Answer(MessageOf[e]) \notin turns'[NoObject]
        /\ \A a \in Events : a # e /\ At(a, {"answering"}) =>
             (Answer(MessageOf[a]) \in turns'[work[a].conv]
                          => Answer(MessageOf[a]) \in turns[work[a].conv])
    BY <1>0, <1>1, <1>2, <1>3, CallersAre
       DEF RequestShapes, NotYetAnswered, At
  <2> QED
    BY <1>0, <1>1, <1>2, CallersAre, <2>1, NotYetStays
<1>17. MemoryHoldsSnapshot'
  <2>1. \A x \in ToSet(loaded') : disk'[x.root].turns \subseteq turns'[x]
    BY <1>0, <1>1, <1>2, <1>3, CallersAre
       DEF RequestShapes, MemoryHoldsSnapshot, Loads
  <2>2. \A x \in {} : \A q \in ToSet(loaded') : x.root = q.root => x = q
    BY <1>0, <1>1, <1>2, <1>3, CallersAre
       DEF RequestShapes, MemoryHoldsSnapshot, Loads
  <2> QED
    BY <1>0, <1>1, <1>2, CallersAre, <2>1, <2>2, MemoryStays
<1>18. TableIsFinite'
  BY <1>0, <1>3 DEF TableIsFinite, Snapshots
<1> QED
  BY <1>10, <1>11, <1>12, <1>13, <1>14, <1>15, <1>16, <1>17, <1>18 DEF RequestInv

\* The answer goes out.
LEMMA SendKeeps ==
  ASSUME RequestInv, NEW e \in Events, Send(e)
  PROVE  RequestInv'
<1>0. RequestShapes /\ CopiesAreFresh /\ LocksHeld /\ StaysLoaded /\ StoreIsLocked
             /\ OnlyOfAnswered /\ NotYetAnswered /\ MemoryHoldsSnapshot /\ TableIsFinite
  BY DEF RequestInv
<1>1. Moves(e, "sent", work[e].conv)
  BY <1>0, CallersAre, GoesMoves DEF Send, Stages
<1>2. Loads({work[e].conv})
  BY <1>0, TouchedLoads, CallersAre DEF Send, RequestShapes, At
<1>3. UNCHANGED <<copies, turns, disk, revs, writer, silences, stops>>
  BY DEF Send
<1>4. \A q \in Messages : Said(q) => Said(q)'
  <2>1. \A d \in Events : /\ At(d, Past) => At(d, Past)'
                          /\ At(d, Early)' => At(d, Early) \/ ~Said(MessageOf[d])
    BY <1>1, CallersAre DEF At, Past, Early, Moves, Send
  <2> QED
    BY <2>1, SaidStays
<1>p. PICK own \in Objects : own = work[e].conv
  BY <1>0, CallersAre DEF Send, At, RequestShapes
<1>5. /\ own \in Objects /\ own \in ToSet(loaded) /\ ToSet(loaded') = ToSet(loaded)
      /\ own.root \in Messages
  <2>1. own \in Objects /\ own \in ToSet(loaded) /\ own.root \in Messages
    BY <1>0, <1>p, CallersAre DEF Send, At, RequestShapes, StaysLoaded, Objects, Pending,
       InConversation
  <2>2. ToSet(loaded') = ToSet(loaded) \cup {own}
    BY <1>0, <1>p, <2>1, TouchedLoads DEF Send
  <2> QED
    BY <2>1, <2>2
<1>6. /\ replies' \in [Objects -> SUBSET Messages]
      /\ \A p \in Objects : p # own => replies'[p] = replies[p]
  BY <1>0, <1>p, <1>5, CallersAre DEF Send, RequestShapes
<1>7. Said(own.root)'
  <2>1. CASE Said(own.root)
    BY <1>4, <1>5, <2>1
  <2>2. CASE ~Said(own.root)
    <3>1. MessageOf[e] = own.root
      BY <1>0, <1>p, <2>2, CallersAre, <1>5 DEF OnlyOfAnswered, RequestShapes
    <3>2. At(e, {"sent", "saving", "writing", "over"})'
      BY <1>1 DEF Moves, At
    <3>3. ASSUME NEW d \in Events, MessageOf[d] = own.root PROVE ~At(d, {"lookup", "reading", "ready"})'
      <4>1. CASE d = e
        BY <1>1, <4>1 DEF Moves, At
      <4>2. CASE d # e
        BY <1>1, <3>1, <3>3, <4>2, CallersAre DEF Moves, At, Send, Alone, Repeats
      <4> QED
        BY <4>1, <4>2
    <3> QED
      BY <3>1, <3>2, <3>3 DEF Said
  <2> QED
    BY <2>1, <2>2
<1>10. RequestShapes'
  <2>1. /\ loaded' \in Seq(Objects) /\ copies' \in [Messages -> 0..MaxCopies]
        /\ turns' \in [Objects -> SUBSET Turns] /\ replies' \in [Objects -> SUBSET Messages]
        /\ disk' \in [Messages -> [rev : Nat, turns : SUBSET Turns,
                     replies : SUBSET Messages, aged : BOOLEAN]]
        /\ revs' \in [Messages -> Nat] /\ writer' \in Callers \cup {Nobody}
    BY <1>0, <1>1, <1>2, <1>3, CallersAre, <1>6
       DEF RequestShapes, Loads, At, Stages, Send
  <2>2. /\ work[e].conv = NoObject <=> "sent" \in {"none", "lookup", "ready", "over"}
        /\ e \in Changes => "sent" \in {"none", "changing", "outcome", "saving", "writing", "over"}
        /\ e \in Events => "sent" \notin {"changing", "outcome"}
    BY <1>0, <1>1, <1>2, <1>3, CallersAre, <1>6
       DEF RequestShapes, Loads, At, Stages, Send
  <2> QED
    BY <1>0, <1>1, <1>2, CallersAre, <2>1, <2>2, ShapesStay
<1>11. CopiesAreFresh'
  <2>1. /\ \A q \in Messages : copies[q] <= copies'[q]
        /\ copies' \in [Messages -> 0..MaxCopies]
    BY <1>0, <1>1, <1>2, <1>3, CallersAre, <1>p, <1>5, <1>6, MadeAre
       DEF CopiesAreFresh, RequestShapes, Objects, Send
  <2>2. \A x \in Objects : x \in {work[e].conv} \/ x = work[e].conv => x.copy <= copies'[x.root]
    BY <1>0, <1>1, <1>2, <1>3, CallersAre, <1>p, <1>5, <1>6, MadeAre
       DEF CopiesAreFresh, RequestShapes, Objects, Send
  <2>3. \A x \in Objects : x.copy > copies'[x.root] => turns'[x] = turns[x]
               /\ replies'[x] = replies[x]
    BY <1>0, <1>1, <1>2, <1>3, CallersAre, <1>p, <1>5, <1>6, MadeAre
       DEF CopiesAreFresh, RequestShapes, Objects, Send
  <2> QED
    BY <1>0, <1>1, <1>2, CallersAre, <2>1, <2>2, <2>3, FreshStays
<1>12. LocksHeld'
  <2>1. /\ "sent" \in InConversation =>
             (At(e, InConversation) /\ work[e].conv = work[e].conv)
                          \/ ConversationFree(work[e].conv)
        /\ e \in Events /\ "sent" \in InMember => At(e, InMember)
                     \/ MemberFree(Author[MessageOf[e]])
    BY <1>0, <1>1, <1>2, <1>3, CallersAre, <1>6
       DEF RequestShapes, At, InConversation, InMember, Send
  <2> QED
    BY <1>0, <1>1, <1>2, CallersAre, <2>1, LocksStay
<1>13. StaysLoaded'
  <2>1. (e \in Events /\ "sent" \in Pending) \/ "sent" = "writing"
               => work[e].conv \in ToSet(loaded')
    BY <1>0, <1>1, <1>2, <1>3, CallersAre, <1>6
       DEF RequestShapes, StaysLoaded, Loads, is_active, At, Pending, InConversation, Send
  <2> QED
    BY <1>0, <1>1, <1>2, CallersAre, <2>1, LoadedStays
<1>14. StoreIsLocked'
  <2>1. /\ "sent" \in {"reading", "writing"} => writer' = e
        /\ \A a \in Callers : a # e /\ At(a, {"reading", "writing"}) => writer' = a
    BY <1>0, <1>1, <1>2, <1>3, CallersAre, <1>6, MadeAre
       DEF RequestShapes, StoreIsLocked, At, CopiesAreFresh, Send
  <2>2. \A a \in Callers : a # e /\ At(a, {"reading"}) =>
          /\ work[e].conv # work[a].conv /\ work[a].conv \notin {work[e].conv}
          /\ disk'[work[a].conv.root].turns \subseteq turns'[work[a].conv]
    BY <1>0, <1>1, <1>2, <1>3, CallersAre, <1>6, MadeAre
       DEF RequestShapes, StoreIsLocked, At, CopiesAreFresh, Send
  <2>3. "sent" = "reading" =>
          /\ work[e].conv \notin ToSet(loaded')
          /\ \A a \in Callers : a # e => work[a].conv # work[e].conv
          /\ disk'[work[e].conv.root].turns \subseteq turns'[work[e].conv]
    BY <1>0, <1>1, <1>2, <1>3, CallersAre, <1>6, MadeAre
       DEF RequestShapes, StoreIsLocked, At, CopiesAreFresh, Send
  <2> QED
    BY <1>0, <1>1, <1>2, CallersAre, <2>1, <2>2, <2>3, StoreStays
<1>15. OnlyOfAnswered'
  <2>1. \A x \in Objects : turns'[x] # {} \/ replies'[x] # {}
          => turns[x] # {} \/ replies[x] # {} \/ Said(x.root)'
    BY <1>0, <1>3, <1>6, <1>7, <1>5 DEF RequestShapes
  <2>2. \A y \in Messages : disk'[y].turns # {} \/ disk'[y].replies # {}
          => disk[y].turns # {} \/ disk[y].replies # {} \/ Said(y)'
    BY <1>0, <1>1, <1>2, <1>3, CallersAre, <1>4, <1>6
       DEF RequestShapes, OnlyOfAnswered, At, Send
  <2>3. ASSUME NEW q \in Messages, work[e].conv # NoObject, q = work[e].conv.root,
               e \in Changes \/ "sent" \in {"reading", "sent", "saving", "writing"}
                            \/ MessageOf[e] # q
        PROVE  Said(q)'
    BY <1>7, <1>p, <2>3
  <2> QED
    BY <1>0, <1>1, <1>2, <1>4, CallersAre, <2>1, <2>2, <2>3, OnlyStays
<1>16. NotYetAnswered'
  <2>1. /\ e \in Events /\ "sent" = "answering"
               => Answer(MessageOf[e]) \notin turns'[work[e].conv]
        /\ \A a \in Events : a # e /\ At(a, {"answering"}) =>
             (Answer(MessageOf[a]) \in turns'[work[a].conv]
                          => Answer(MessageOf[a]) \in turns[work[a].conv])
    BY <1>0, <1>1, <1>2, <1>3, CallersAre
       DEF RequestShapes, NotYetAnswered, At
  <2> QED
    BY <1>0, <1>1, <1>2, CallersAre, <2>1, NotYetStays
<1>17. MemoryHoldsSnapshot'
  <2>1. \A x \in ToSet(loaded') : disk'[x.root].turns \subseteq turns'[x]
    BY <1>0, <1>3, <1>5 DEF MemoryHoldsSnapshot
  <2>2. \A x \in {work[e].conv} : \A q \in ToSet(loaded') : x.root = q.root => x = q
    BY <1>0, <1>p, <1>5 DEF MemoryHoldsSnapshot
  <2> QED
    BY <1>0, <1>1, <1>2, CallersAre, <2>1, <2>2, MemoryStays
<1>18. TableIsFinite'
  BY <1>0, <1>3 DEF TableIsFinite, Snapshots
<1> QED
  BY <1>10, <1>11, <1>12, <1>13, <1>14, <1>15, <1>16, <1>17, <1>18 DEF RequestInv

\* The turn is recorded; a change may follow.
LEMMA RecordTurnKeeps ==
  ASSUME RequestInv, NEW e \in Events, RecordTurn(e)
  PROVE  RequestInv'
<1>0. RequestShapes /\ CopiesAreFresh /\ LocksHeld /\ StaysLoaded /\ StoreIsLocked
             /\ OnlyOfAnswered /\ NotYetAnswered /\ MemoryHoldsSnapshot /\ TableIsFinite
  BY DEF RequestInv
<1>m. PICK m \in Messages : m = MessageOf[e]
  BY CallersAre
<1>p. PICK own \in Objects : own = work[e].conv
  BY <1>0, CallersAre DEF RecordTurn, At, RequestShapes
<1>a. /\ At(e, {"sent"}) /\ e \in Callers /\ e \notin Changes
      /\ \A d \in Callers : work[d] \in [stage : Stages, conv : Objects \cup {NoObject}]
  BY <1>0, CallersAre DEF RecordTurn, RequestShapes
<1>c. e # m
  BY <1>m, RequestsAssumption
<1>b. work' = [c \in Callers |->
                 IF c = e THEN [work[c] EXCEPT !.stage = "saving"]
                 ELSE IF c = m /\ At(m, {"none"}) THEN [stage |-> "changing", conv |-> own]
                 ELSE work[c]]
  BY <1>c, <1>m, <1>p DEF RecordTurn
<1>d. /\ work'[e] = [work[e] EXCEPT !.stage = "saving"]
      /\ \A c \in Callers : c # e => work'[c] = work[c]
           \/ (c = m /\ At(m, {"none"}) /\ work'[c] = [stage |-> "changing", conv |-> own])
  BY <1>a, <1>b, <1>c
<1>e. work'[e].stage = "saving" /\ work'[e].conv = own
  BY <1>a, <1>d, <1>p
<1>f. work' \in [Callers -> [stage : Stages, conv : Objects \cup {NoObject}]]
  <2>1. \A c \in Callers : work'[c] \in [stage : Stages, conv : Objects \cup {NoObject}]
    <3>1. work'[e] \in [stage : Stages, conv : Objects \cup {NoObject}]
      BY <1>a, <1>d DEF Stages
    <3>2. [stage |-> "changing", conv |-> own] \in [stage : Stages, conv : Objects \cup {NoObject}]
      BY <1>p DEF Stages
    <3> QED
      BY <1>a, <1>d, <3>1, <3>2
  <2>2. work' = [c \in Callers |-> work'[c]]
    BY <1>b
  <2> QED
    BY <2>1, <2>2
\* Whoever moves besides e was nowhere, and waits for the report of a change.
<1>1. \A c \in Callers : c # e =>
        \/ work'[c].stage = work[c].stage /\ work'[c].conv = work[c].conv
        \/ /\ c \in Changes /\ c \notin Events /\ work[c].stage = "none"
           /\ work'[c].stage = "changing" /\ work'[c].conv = own
  <2>1. m \notin Events
    BY RequestsAssumption
  <2> QED
    BY <1>d, <2>1, CallersAre DEF At
<1>2. Loads({})
  BY <1>0, SameLoads DEF RecordTurn
<1>3. UNCHANGED <<loaded, copies, replies, disk, revs, writer, silences, stops>>
  BY DEF RecordTurn
<1>4. \A q \in Messages : Said(q) => Said(q)'
  <2>1. \A d \in Events : /\ At(d, Past) => At(d, Past)'
                          /\ At(d, Early)' => At(d, Early) \/ ~Said(MessageOf[d])
    BY <1>1, <1>e, CallersAre DEF At, Past, Early
  <2> QED
    BY <2>1, SaidStays
<1>5. /\ turns' \in [Objects -> SUBSET Turns] /\ turns'[own] = turns[own] \cup {Answer(m)}
      /\ \A p \in Objects : p # own => turns'[p] = turns[p]
  <2>1. Answer(m) \in Turns
    BY DEF Answer, Turns
  <2> QED
    BY <1>0, <1>m, <1>p, <2>1 DEF RecordTurn, RequestShapes
<1>6. Said(own.root) /\ own.root \in Messages /\ own.copy <= copies[own.root]
  BY <1>0, <1>a, <1>p, CallersAre, MadeAre DEF OnlyOfAnswered, Objects, At
<1>10. RequestShapes'
  <2>1. \A c \in Callers : work'[c].conv = NoObject
               <=> work'[c].stage \in {"none", "lookup", "ready", "over"}
    <3>1. own # NoObject
      BY CallersAre
    <3>2. \A c \in Callers : work[c].conv = NoObject
                 <=> work[c].stage \in {"none", "lookup", "ready", "over"}
      BY <1>0 DEF RequestShapes, At
    <3> QED
      BY <1>1, <1>e, <3>1, <3>2
  <2>2. \A c \in Callers :
          /\ c \in Changes => work'[c].stage \in {"none", "changing", "outcome", "saving", "writing", "over"}
          /\ c \in Events => work'[c].stage \notin {"changing", "outcome"}
    <3>1. \A c \in Callers :
            /\ c \in Changes => work[c].stage \in {"none", "changing", "outcome", "saving", "writing", "over"}
            /\ c \in Events => work[c].stage \notin {"changing", "outcome"}
      BY <1>0 DEF RequestShapes, At
    <3> QED
      BY <1>1, <1>e, <3>1
  <2> QED
    BY <1>0, <1>2, <1>3, <1>5, <1>f, <2>1, <2>2 DEF RequestShapes, Loads, At
<1>11. CopiesAreFresh'
  <2> SUFFICES ASSUME NEW p \in Objects, p.copy > copies[p.root]
               PROVE  turns'[p] = {} /\ \A c \in Callers : work'[c].conv # p
    BY <1>0, <1>3 DEF CopiesAreFresh
  <2>1. own.copy \in Nat /\ copies[own.root] \in Nat
    BY <1>0, <1>6, RequestsAssumption DEF RequestShapes, Objects
  <2>2. p # own
    BY <1>6, <2>1
  <2> QED
    BY <1>0, <1>1, <1>5, <1>e, <2>2 DEF CopiesAreFresh
<1>12. LocksHeld'
  <2>1. \A c \in Callers : At(c, InConversation)' => At(c, InConversation)
               /\ work'[c].conv = work[c].conv
    BY <1>1, <1>a, <1>e, <1>p DEF At, InConversation
  <2>2. \A c \in Events : At(c, InMember)' => At(c, InMember)
    BY <1>1, <1>a, <1>e, CallersAre DEF At, InMember
  <2> QED
    BY <1>0, <2>1, <2>2 DEF LocksHeld
<1>13. StaysLoaded'
  <2>1. \A c \in Callers : (c \in Events /\ At(c, Pending)') \/ At(c, {"writing"})'
          => ((c \in Events /\ At(c, Pending)) \/ At(c, {"writing"}))
                       /\ work'[c].conv = work[c].conv
    BY <1>1, <1>a, <1>e, <1>p, CallersAre DEF At, InConversation, Pending
  <2> QED
    BY <1>0, <1>3, <2>1 DEF StaysLoaded
<1>14. StoreIsLocked'
  <2>1. \A c \in Callers : At(c, {"reading", "writing"})' => At(c, {"reading", "writing"})
    BY <1>1, <1>e DEF At
  <2>2. ASSUME NEW c \in Callers, At(c, {"reading"})'
        PROVE  /\ work'[c].conv \notin ToSet(loaded)
               /\ \A d \in Callers \ {c} : work'[d].conv # work'[c].conv
               /\ disk[work'[c].conv.root].turns \subseteq turns'[work'[c].conv]
    <3>1. At(c, {"reading"}) /\ work'[c].conv = work[c].conv /\ c # e
      BY <1>1, <1>e, <2>2 DEF At
    <3>2. /\ work[c].conv \in Objects /\ work[c].conv # own
          /\ work[c].conv \notin ToSet(loaded)
          /\ \A d \in Callers \ {c} : work[d].conv # work[c].conv
          /\ disk[work[c].conv.root].turns \subseteq turns[work[c].conv]
      BY <1>0, <1>a, <1>p, <3>1 DEF StoreIsLocked, RequestShapes, At
    <3> QED
      BY <1>1, <1>5, <1>e, <3>1, <3>2
  <2> QED
    BY <1>0, <1>3, <2>1, <2>2 DEF StoreIsLocked
<1>15. OnlyOfAnswered'
  <2>1. \A p \in Objects : turns'[p] # {} \/ replies'[p] # {} => Said(p.root)'
    <3>1. \A p \in Objects : p.root \in Messages
      BY DEF Objects
    <3> QED
      BY <1>0, <1>3, <1>4, <1>5, <1>6, <3>1 DEF OnlyOfAnswered
  <2>2. \A q \in Messages : disk'[q].turns # {} \/ disk'[q].replies # {} => Said(q)'
    BY <1>0, <1>3, <1>4 DEF OnlyOfAnswered
  <2>3. ASSUME NEW c \in Callers, work'[c].conv # NoObject,
               c \in Changes \/ At(c, {"reading", "sent", "saving", "writing"})'
                             \/ MessageOf[c] # work'[c].conv.root
        PROVE  Said(work[c].conv.root)'
    <3> DEFINE q == work'[c].conv.root
    <3>0. work'[c].conv \in Objects /\ q \in Messages
      BY <1>f, <2>3 DEF Objects
    <3>1. CASE c = e
      BY <1>4, <1>6, <1>e, <3>1
    <3>2. CASE c # e /\ work'[c].stage = work[c].stage /\ work'[c].conv = work[c].conv
      <4>1. Said(work[c].conv.root)
        BY <1>0, <2>3, <3>2 DEF OnlyOfAnswered, At
      <4> QED
        BY <1>4, <3>0, <3>2, <4>1
    <3>3. CASE work'[c].conv = own
      BY <1>4, <1>6, <3>3
    <3> QED
      BY <1>1, <3>1, <3>2, <3>3
  <2> QED
    BY <2>1, <2>2, <2>3 DEF OnlyOfAnswered
<1>16. NotYetAnswered'
  <2> SUFFICES ASSUME NEW d \in Events, At(d, {"answering"})'
               PROVE  Answer(MessageOf[d]) \notin turns'[work'[d].conv]
    BY DEF NotYetAnswered
  <2>1. d # e /\ d \in Callers /\ At(d, {"answering"}) /\ work'[d].conv = work[d].conv
    BY <1>1, <1>e, CallersAre DEF At
  <2>2. work[d].conv # own
    BY <1>0, <1>a, <1>p, <2>1 DEF LocksHeld, At, InConversation
  <2>3. work[d].conv \in Objects
    BY <1>0, <2>1 DEF RequestShapes, At
  <2> QED
    BY <1>0, <1>5, <2>1, <2>2, <2>3 DEF NotYetAnswered
<1>17. MemoryHoldsSnapshot'
  <2>1. \A p \in ToSet(loaded) : p \in Objects /\ turns[p] \subseteq turns'[p]
    BY <1>0, <1>5, SetOf DEF RequestShapes
  <2> QED
    BY <1>0, <1>3, <2>1 DEF MemoryHoldsSnapshot
<1>18. TableIsFinite'
  BY <1>0, <1>3 DEF TableIsFinite, Snapshots
<1> QED
  BY <1>10, <1>11, <1>12, <1>13, <1>14, <1>15, <1>16, <1>17, <1>18 DEF RequestInv

\* The report of a change looks for its conversation.
LEMMA StartOutcomeKeeps ==
  ASSUME RequestInv, NEW m \in Changes, StartOutcome(m)
  PROVE  RequestInv'
<1>0. RequestShapes /\ CopiesAreFresh /\ LocksHeld /\ StaysLoaded /\ StoreIsLocked
             /\ OnlyOfAnswered /\ NotYetAnswered /\ MemoryHoldsSnapshot /\ TableIsFinite
  BY DEF RequestInv
<1>1. PICK to \in Stages, o \in Objects \cup {NoObject} :
        /\ Moves(m, to, o)
        /\ \/ (to = "over" /\ o = NoObject)
           \/ (to = "outcome" /\ o \in ToSet(loaded) /\ o.root = work[m].conv.root)
  <2> DEFINE now == {p \in ToSet(pruned) : p.root = work[m].conv.root}
  <2>1. CASE now = {}
    <3>1. Moves(m, "over", NoObject)
      BY <1>0, <2>1, CallersAre, EndsMoves DEF StartOutcome
    <3> QED
      BY <2>1, <3>1 DEF Stages, StartOutcome
  <2>2. CASE now # {}
    <3>1. PICK p \in now : Enters(m, "outcome", p)
      BY <2>2 DEF StartOutcome
    <3>2. p \in ToSet(loaded) /\ p \in Objects
      BY <1>0, <3>1, PrunedIs, SetOf DEF RequestShapes
    <3>3. Moves(m, "outcome", p)
      BY <1>0, <3>1, <3>2, CallersAre, EntersMoves DEF Stages
    <3> QED
      BY <3>1, <3>2, <3>3 DEF Stages
  <2> QED
    BY <2>1, <2>2
<1>2. Loads({})
  BY <1>0, PrunedLoads DEF StartOutcome
<1>3. UNCHANGED <<copies, turns, replies, aged, disk, revs, writer, silences, stops>>
  BY DEF StartOutcome
<1>4. \A q \in Messages : Said(q) => Said(q)'
  <2>1. \A d \in Events : /\ At(d, Past) => At(d, Past)'
                          /\ At(d, Early)' => At(d, Early) \/ ~Said(MessageOf[d])
    BY <1>1, CallersAre DEF At, Past, Early, Moves, StartOutcome
  <2> QED
    BY <2>1, SaidStays
<1>10. RequestShapes'
  <2>1. /\ loaded' \in Seq(Objects) /\ copies' \in [Messages -> 0..MaxCopies]
        /\ turns' \in [Objects -> SUBSET Turns] /\ replies' \in [Objects -> SUBSET Messages]
        /\ disk' \in [Messages -> [rev : Nat, turns : SUBSET Turns,
                     replies : SUBSET Messages, aged : BOOLEAN]]
        /\ revs' \in [Messages -> Nat] /\ writer' \in Callers \cup {Nobody}
    BY <1>0, <1>1, <1>2, <1>3, CallersAre
       DEF RequestShapes, Loads, At, Stages, StartOutcome
  <2>2. /\ o = NoObject <=> to \in {"none", "lookup", "ready", "over"}
        /\ m \in Changes => to \in {"none", "changing", "outcome", "saving", "writing", "over"}
        /\ m \in Events => to \notin {"changing", "outcome"}
    <3>1. m \notin Events /\ ToSet(loaded) \subseteq Objects /\ NoObject \notin Objects
      BY <1>0, CallersAre, SetOf DEF RequestShapes
    <3> QED
      BY <1>1, <3>1
  <2> QED
    BY <1>0, <1>1, <1>2, CallersAre, <2>1, <2>2, ShapesStay
<1>11. CopiesAreFresh'
  <2>1. /\ \A q \in Messages : copies[q] <= copies'[q]
        /\ copies' \in [Messages -> 0..MaxCopies]
    BY <1>0, <1>1, <1>2, <1>3, CallersAre, MadeAre
       DEF CopiesAreFresh, RequestShapes, Objects
  <2>2. \A x \in Objects : x \in {} \/ x = o => x.copy <= copies'[x.root]
    BY <1>0, <1>1, <1>2, <1>3, CallersAre, MadeAre
       DEF CopiesAreFresh, RequestShapes, Objects
  <2>3. \A x \in Objects : x.copy > copies'[x.root] => turns'[x] = turns[x]
               /\ replies'[x] = replies[x]
    BY <1>0, <1>1, <1>2, <1>3, CallersAre, MadeAre
       DEF CopiesAreFresh, RequestShapes, Objects
  <2> QED
    BY <1>0, <1>1, <1>2, CallersAre, <2>1, <2>2, <2>3, FreshStays
<1>12. LocksHeld'
  <2>1. /\ to \in InConversation =>
             (At(m, InConversation) /\ work[m].conv = o) \/ ConversationFree(o)
        /\ m \in Events /\ to \in InMember => At(m, InMember) \/ MemberFree(Author[MessageOf[m]])
    BY <1>0, <1>1, <1>2, <1>3, CallersAre
       DEF RequestShapes, At, InConversation, InMember, StartOutcome
  <2> QED
    BY <1>0, <1>1, <1>2, CallersAre, <2>1, LocksStay
<1>13. StaysLoaded'
  <2>1. (m \in Events /\ to \in Pending) \/ to = "writing" => o \in ToSet(loaded')
    BY <1>0, <1>1, <1>2, <1>3, CallersAre
       DEF RequestShapes, StaysLoaded, Loads, is_active, At, Pending, InConversation,
          StartOutcome
  <2> QED
    BY <1>0, <1>1, <1>2, CallersAre, <2>1, LoadedStays
<1>14. StoreIsLocked'
  <2>1. /\ to \in {"reading", "writing"} => writer' = m
        /\ \A a \in Callers : a # m /\ At(a, {"reading", "writing"}) => writer' = a
    BY <1>0, <1>1, <1>2, <1>3, CallersAre, MadeAre
       DEF RequestShapes, StoreIsLocked, At, CopiesAreFresh, StartOutcome
  <2>2. \A a \in Callers : a # m /\ At(a, {"reading"}) =>
          /\ o # work[a].conv /\ work[a].conv \notin {}
          /\ disk'[work[a].conv.root].turns \subseteq turns'[work[a].conv]
    BY ZenonT(60), <1>0, <1>1, <1>2, <1>3, CallersAre, MadeAre
       DEF RequestShapes, StoreIsLocked, At, CopiesAreFresh, StartOutcome
  <2>3. to = "reading" =>
          /\ o \notin ToSet(loaded')
          /\ \A a \in Callers : a # m => work[a].conv # o
          /\ disk'[o.root].turns \subseteq turns'[o]
    BY <1>0, <1>1, <1>2, <1>3, CallersAre, MadeAre
       DEF RequestShapes, StoreIsLocked, At, CopiesAreFresh, StartOutcome
  <2> QED
    BY <1>0, <1>1, <1>2, CallersAre, <2>1, <2>2, <2>3, StoreStays
<1>15. OnlyOfAnswered'
  <2>1. \A x \in Objects : turns'[x] # {} \/ replies'[x] # {}
          => turns[x] # {} \/ replies[x] # {} \/ Said(x.root)'
    BY <1>0, <1>1, <1>2, <1>3, CallersAre, <1>4
       DEF RequestShapes, OnlyOfAnswered, At, StartOutcome
  <2>2. \A y \in Messages : disk'[y].turns # {} \/ disk'[y].replies # {}
          => disk[y].turns # {} \/ disk[y].replies # {} \/ Said(y)'
    BY <1>0, <1>1, <1>2, <1>3, CallersAre, <1>4
       DEF RequestShapes, OnlyOfAnswered, At, StartOutcome
  <2>3. ASSUME NEW q \in Messages, o # NoObject, q = o.root,
               m \in Changes \/ to \in {"reading", "sent", "saving", "writing"}
                            \/ MessageOf[m] # q
        PROVE  Said(q)'
    BY <1>0, <1>1, <1>2, <1>3, CallersAre, <1>4, <2>3
       DEF RequestShapes, OnlyOfAnswered, At, StartOutcome
  <2> QED
    BY <1>0, <1>1, <1>2, <1>4, CallersAre, <2>1, <2>2, <2>3, OnlyStays
<1>16. NotYetAnswered'
  <2>1. /\ m \in Events /\ to = "answering" => Answer(MessageOf[m]) \notin turns'[o]
        /\ \A a \in Events : a # m /\ At(a, {"answering"}) =>
             (Answer(MessageOf[a]) \in turns'[work[a].conv]
                          => Answer(MessageOf[a]) \in turns[work[a].conv])
    BY <1>0, <1>1, <1>2, <1>3, CallersAre
       DEF RequestShapes, NotYetAnswered, At
  <2> QED
    BY <1>0, <1>1, <1>2, CallersAre, <2>1, NotYetStays
<1>17. MemoryHoldsSnapshot'
  <2>1. \A x \in ToSet(loaded') : disk'[x.root].turns \subseteq turns'[x]
    BY <1>0, <1>1, <1>2, <1>3, CallersAre
       DEF RequestShapes, MemoryHoldsSnapshot, Loads
  <2>2. \A x \in {} : \A q \in ToSet(loaded') : x.root = q.root => x = q
    BY <1>0, <1>1, <1>2, <1>3, CallersAre
       DEF RequestShapes, MemoryHoldsSnapshot, Loads
  <2> QED
    BY <1>0, <1>1, <1>2, CallersAre, <2>1, <2>2, MemoryStays
<1>18. TableIsFinite'
  BY <1>0, <1>3 DEF TableIsFinite, Snapshots
<1> QED
  BY <1>10, <1>11, <1>12, <1>13, <1>14, <1>15, <1>16, <1>17, <1>18 DEF RequestInv

\* The outcome is recorded.
LEMMA AddOutcomeKeeps ==
  ASSUME RequestInv, NEW m \in Changes, AddOutcome(m)
  PROVE  RequestInv'
<1>0. RequestShapes /\ CopiesAreFresh /\ LocksHeld /\ StaysLoaded /\ StoreIsLocked
             /\ OnlyOfAnswered /\ NotYetAnswered /\ MemoryHoldsSnapshot /\ TableIsFinite
  BY DEF RequestInv
<1>1. PICK to \in Stages, o \in Objects \cup {NoObject} :
        /\ Moves(m, to, o)
        /\ \/ (to = "over" /\ o = NoObject)
           \/ (to = "saving" /\ o = work[m].conv)
  <2>1. CASE Goes(m, "saving")
    <3>1. Moves(m, "saving", work[m].conv)
      BY <1>0, <2>1, CallersAre, GoesMoves DEF Stages
    <3> QED
      BY <1>0, <3>1, CallersAre DEF Stages, RequestShapes
  <2>2. CASE Ends(m)
    <3>1. Moves(m, "over", NoObject)
      BY <1>0, <2>2, CallersAre, EndsMoves
    <3> QED
      BY <3>1 DEF Stages
  <2> QED
    BY <2>1, <2>2 DEF AddOutcome
<1>2. Loads({})
  <2>1. CASE UNCHANGED loaded
    BY <1>0, <2>1, SameLoads
  <2>2. CASE work[m].conv \in ToSet(loaded) /\ Touched(work[m].conv)
    <3>1. work[m].conv \in Objects
      BY <1>0, <2>2, SetOf DEF RequestShapes
    <3>2. loaded' \in Seq(Objects) /\ ToSet(loaded') = ToSet(loaded) \cup {work[m].conv}
      BY <1>0, <2>2, <3>1, TouchedLoads DEF Loads
    <3> QED
      BY <2>2, <3>2 DEF Loads
  <2> QED
    BY <2>1, <2>2 DEF AddOutcome
<1>3. UNCHANGED <<copies, replies, disk, revs, writer, silences, stops>>
  BY DEF AddOutcome
<1>4. \A q \in Messages : Said(q) => Said(q)'
  <2>1. \A d \in Events : /\ At(d, Past) => At(d, Past)'
                          /\ At(d, Early)' => At(d, Early) \/ ~Said(MessageOf[d])
    BY <1>1, CallersAre DEF At, Past, Early, Moves, AddOutcome
  <2> QED
    BY <2>1, SaidStays
<1>p. PICK own \in Objects : own = work[m].conv
  BY <1>0, CallersAre DEF AddOutcome, At, RequestShapes
<1>5. /\ turns' \in [Objects -> SUBSET Turns] /\ turns'[own] = turns[own] \cup {Outcome(m)}
      /\ \A p \in Objects : p # own => turns'[p] = turns[p]
  <2>1. Outcome(m) \in Turns
    BY CallersAre DEF Outcome, Turns
  <2> QED
    BY <1>0, <1>p, <2>1 DEF AddOutcome, RequestShapes
<1>6. /\ Said(own.root) /\ own.root \in Messages /\ own.copy <= copies[own.root]
      /\ \A q : Answer(q) # Outcome(m)
  BY <1>0, <1>p, CallersAre, MadeAre DEF OnlyOfAnswered, Objects, Answer, Outcome
<1>10. RequestShapes'
  <2>1. /\ loaded' \in Seq(Objects) /\ copies' \in [Messages -> 0..MaxCopies]
        /\ turns' \in [Objects -> SUBSET Turns] /\ replies' \in [Objects -> SUBSET Messages]
        /\ disk' \in [Messages -> [rev : Nat, turns : SUBSET Turns,
                     replies : SUBSET Messages, aged : BOOLEAN]]
        /\ revs' \in [Messages -> Nat] /\ writer' \in Callers \cup {Nobody}
    BY <1>0, <1>1, <1>2, <1>3, CallersAre, <1>5
       DEF RequestShapes, Loads, At, Stages, AddOutcome
  <2>2. /\ o = NoObject <=> to \in {"none", "lookup", "ready", "over"}
        /\ m \in Changes => to \in {"none", "changing", "outcome", "saving", "writing", "over"}
        /\ m \in Events => to \notin {"changing", "outcome"}
    BY <1>0, <1>1, <1>2, <1>3, CallersAre, <1>5
       DEF RequestShapes, Loads, At, Stages, AddOutcome
  <2> QED
    BY <1>0, <1>1, <1>2, CallersAre, <2>1, <2>2, ShapesStay
<1>11. CopiesAreFresh'
  <2>1. /\ \A q \in Messages : copies[q] <= copies'[q]
        /\ copies' \in [Messages -> 0..MaxCopies]
    BY <1>0, <1>1, <1>2, <1>3, CallersAre, MadeAre
       DEF CopiesAreFresh, RequestShapes, Objects
  <2>2. \A x \in Objects : x \in {} \/ x = o => x.copy <= copies'[x.root]
    BY <1>0, <1>1, <1>2, <1>3, CallersAre, MadeAre
       DEF CopiesAreFresh, RequestShapes, Objects
  <2>3. \A x \in Objects : x.copy > copies'[x.root] => turns'[x] = turns[x]
               /\ replies'[x] = replies[x]
    <3> SUFFICES ASSUME NEW p \in Objects, p.copy > copies[p.root] PROVE p # own
      BY <1>3, <1>5
    <3>1. own.copy \in Nat /\ copies[own.root] \in Nat
      BY <1>0, <1>6, RequestsAssumption DEF RequestShapes, Objects
    <3> QED
      BY <1>6, <3>1
  <2> QED
    BY <1>0, <1>1, <1>2, CallersAre, <2>1, <2>2, <2>3, FreshStays
<1>12. LocksHeld'
  <2>1. /\ to \in InConversation =>
             (At(m, InConversation) /\ work[m].conv = o) \/ ConversationFree(o)
        /\ m \in Events /\ to \in InMember => At(m, InMember) \/ MemberFree(Author[MessageOf[m]])
    BY <1>0, <1>1, <1>2, <1>3, CallersAre
       DEF RequestShapes, At, InConversation, InMember, AddOutcome, ConversationFree
  <2> QED
    BY <1>0, <1>1, <1>2, CallersAre, <2>1, LocksStay
<1>13. StaysLoaded'
  <2>1. (m \in Events /\ to \in Pending) \/ to = "writing" => o \in ToSet(loaded')
    BY <1>0, <1>1, <1>2, <1>3, CallersAre, <1>5
       DEF RequestShapes, StaysLoaded, Loads, is_active, At, Pending, InConversation, AddOutcome
  <2> QED
    BY <1>0, <1>1, <1>2, CallersAre, <2>1, LoadedStays
<1>14. StoreIsLocked'
  <2>1. /\ to \in {"reading", "writing"} => writer' = m
        /\ \A a \in Callers : a # m /\ At(a, {"reading", "writing"}) => writer' = a
    BY <1>0, <1>1, <1>2, <1>3, CallersAre, <1>5, MadeAre
       DEF RequestShapes, StoreIsLocked, At, CopiesAreFresh, AddOutcome
  <2>2. \A a \in Callers : a # m /\ At(a, {"reading"}) =>
          /\ o # work[a].conv /\ work[a].conv \notin {}
          /\ disk'[work[a].conv.root].turns \subseteq turns'[work[a].conv]
    <3> SUFFICES ASSUME NEW a \in Callers, a # m, At(a, {"reading"})
                 PROVE  /\ o # work[a].conv
                        /\ disk[work[a].conv.root].turns \subseteq turns'[work[a].conv]
      BY <1>3
    <3>1. /\ work[a].conv \in Objects /\ work[a].conv # own
          /\ disk[work[a].conv.root].turns \subseteq turns[work[a].conv]
      BY <1>0, <1>p, CallersAre DEF StoreIsLocked, RequestShapes, At
    <3> QED
      BY <1>1, <1>5, <1>p, <3>1, CallersAre
  <2>3. to = "reading" =>
          /\ o \notin ToSet(loaded')
          /\ \A a \in Callers : a # m => work[a].conv # o
          /\ disk'[o.root].turns \subseteq turns'[o]
    BY <1>0, <1>1, <1>2, <1>3, CallersAre, <1>5, MadeAre
       DEF RequestShapes, StoreIsLocked, At, CopiesAreFresh, AddOutcome
  <2> QED
    BY <1>0, <1>1, <1>2, CallersAre, <2>1, <2>2, <2>3, StoreStays
<1>15. OnlyOfAnswered'
  <2>1. \A x \in Objects : turns'[x] # {} \/ replies'[x] # {}
          => turns[x] # {} \/ replies[x] # {} \/ Said(x.root)'
    BY <1>3, <1>4, <1>5, <1>6
  <2>2. \A y \in Messages : disk'[y].turns # {} \/ disk'[y].replies # {}
          => disk[y].turns # {} \/ disk[y].replies # {} \/ Said(y)'
    BY <1>0, <1>1, <1>2, <1>3, CallersAre, <1>4, <1>5
       DEF RequestShapes, OnlyOfAnswered, At, AddOutcome
  <2>3. ASSUME NEW q \in Messages, o # NoObject, q = o.root,
               m \in Changes \/ to \in {"reading", "sent", "saving", "writing"}
                            \/ MessageOf[m] # q
        PROVE  Said(q)'
    BY <1>1, <1>4, <1>6, <1>p, <2>3
  <2> QED
    BY <1>0, <1>1, <1>2, <1>4, CallersAre, <2>1, <2>2, <2>3, OnlyStays
<1>16. NotYetAnswered'
  <2>1. /\ m \in Events /\ to = "answering" => Answer(MessageOf[m]) \notin turns'[o]
        /\ \A a \in Events : a # m /\ At(a, {"answering"}) =>
             (Answer(MessageOf[a]) \in turns'[work[a].conv]
                          => Answer(MessageOf[a]) \in turns[work[a].conv])
    <3>1. ASSUME NEW a \in Events, At(a, {"answering"}), Answer(MessageOf[a]) \in turns'[work[a].conv]
          PROVE  Answer(MessageOf[a]) \in turns[work[a].conv]
      <4>1. work[a].conv \in Objects
        BY <1>0, <3>1, CallersAre DEF RequestShapes, At
      <4>2. Answer(MessageOf[a]) # Outcome(m)
        BY <1>6
      <4> QED
        BY <1>5, <3>1, <4>1, <4>2
    <3> QED
      BY <1>1, <3>1
  <2> QED
    BY <1>0, <1>1, <1>2, CallersAre, <2>1, NotYetStays
<1>17. MemoryHoldsSnapshot'
  <2>1. \A x \in ToSet(loaded') : disk'[x.root].turns \subseteq turns'[x]
    <3>1. \A p \in ToSet(loaded) : p \in Objects /\ turns[p] \subseteq turns'[p]
      BY <1>0, <1>5, SetOf DEF RequestShapes
    <3> QED
      BY <1>0, <1>2, <1>3, <3>1 DEF MemoryHoldsSnapshot, Loads
  <2>2. \A x \in {} : \A q \in ToSet(loaded') : x.root = q.root => x = q
    BY <1>0, <1>1, <1>2, <1>3, CallersAre
       DEF RequestShapes, MemoryHoldsSnapshot, Loads
  <2> QED
    BY <1>0, <1>1, <1>2, CallersAre, <2>1, <2>2, MemoryStays
<1>18. TableIsFinite'
  BY <1>0, <1>3 DEF TableIsFinite, Snapshots
<1> QED
  BY <1>10, <1>11, <1>12, <1>13, <1>14, <1>15, <1>16, <1>17, <1>18 DEF RequestInv

\* A save begins, or is left out.
LEMMA BeginSaveKeeps ==
  ASSUME RequestInv, NEW c \in Callers, BeginSave(c)
  PROVE  RequestInv'
<1>0. RequestShapes /\ CopiesAreFresh /\ LocksHeld /\ StaysLoaded /\ StoreIsLocked
             /\ OnlyOfAnswered /\ NotYetAnswered /\ MemoryHoldsSnapshot /\ TableIsFinite
  BY DEF RequestInv
<1>1. PICK to \in Stages, o \in Objects \cup {NoObject} :
        /\ Moves(c, to, o)
        /\ \/ (to = "over" /\ o = NoObject /\ writer' = writer)
           \/ (to = "writing" /\ o = work[c].conv /\ is_loaded(o) /\ writer' = c)
  <2>1. CASE ~is_loaded(work[c].conv)
    <3>1. Moves(c, "over", NoObject)
      BY <1>0, <2>1, CallersAre, EndsMoves DEF BeginSave
    <3> QED
      BY <2>1, <3>1 DEF Stages, BeginSave
  <2>2. CASE is_loaded(work[c].conv)
    <3>1. Moves(c, "writing", work[c].conv)
      BY <1>0, <2>2, CallersAre, GoesMoves DEF BeginSave, Stages
    <3> QED
      BY <1>0, <2>2, <3>1, CallersAre DEF RequestShapes, Stages, BeginSave
  <2> QED
    BY <2>1, <2>2
<1>2. Loads({})
  BY <1>0, PrunedLoads, SameLoads DEF BeginSave
<1>3. UNCHANGED <<copies, turns, replies, aged, disk, revs, silences, stops>>
  BY DEF BeginSave
<1>4. \A q \in Messages : Said(q) => Said(q)'
  <2>1. \A d \in Events : /\ At(d, Past) => At(d, Past)'
                          /\ At(d, Early)' => At(d, Early) \/ ~Said(MessageOf[d])
    BY <1>1, CallersAre DEF At, Past, Early, Moves, BeginSave
  <2> QED
    BY <2>1, SaidStays
<1>10. RequestShapes'
  <2>1. /\ loaded' \in Seq(Objects) /\ copies' \in [Messages -> 0..MaxCopies]
        /\ turns' \in [Objects -> SUBSET Turns] /\ replies' \in [Objects -> SUBSET Messages]
        /\ disk' \in [Messages -> [rev : Nat, turns : SUBSET Turns,
                     replies : SUBSET Messages, aged : BOOLEAN]]
        /\ revs' \in [Messages -> Nat] /\ writer' \in Callers \cup {Nobody}
    BY <1>0, <1>1, <1>2, <1>3, CallersAre
       DEF RequestShapes, Loads, At, Stages, BeginSave
  <2>2. /\ o = NoObject <=> to \in {"none", "lookup", "ready", "over"}
        /\ c \in Changes => to \in {"none", "changing", "outcome", "saving", "writing", "over"}
        /\ c \in Events => to \notin {"changing", "outcome"}
    BY <1>0, <1>1, <1>2, <1>3, CallersAre
       DEF RequestShapes, Loads, At, Stages, BeginSave
  <2> QED
    BY <1>0, <1>1, <1>2, <2>1, <2>2, ShapesStay
<1>11. CopiesAreFresh'
  <2>1. /\ \A q \in Messages : copies[q] <= copies'[q]
        /\ copies' \in [Messages -> 0..MaxCopies]
    BY <1>0, <1>1, <1>2, <1>3, CallersAre, MadeAre
       DEF CopiesAreFresh, RequestShapes, Objects
  <2>2. \A x \in Objects : x \in {} \/ x = o => x.copy <= copies'[x.root]
    BY <1>0, <1>1, <1>2, <1>3, CallersAre, MadeAre
       DEF CopiesAreFresh, RequestShapes, Objects
  <2>3. \A x \in Objects : x.copy > copies'[x.root] => turns'[x] = turns[x]
               /\ replies'[x] = replies[x]
    BY <1>0, <1>1, <1>2, <1>3, CallersAre, MadeAre
       DEF CopiesAreFresh, RequestShapes, Objects
  <2> QED
    BY <1>0, <1>1, <1>2, <2>1, <2>2, <2>3, FreshStays
<1>12. LocksHeld'
  <2>1. /\ to \in InConversation =>
             (At(c, InConversation) /\ work[c].conv = o) \/ ConversationFree(o)
        /\ c \in Events /\ to \in InMember => At(c, InMember) \/ MemberFree(Author[MessageOf[c]])
    BY <1>0, <1>1, <1>2, <1>3, CallersAre
       DEF RequestShapes, At, InConversation, InMember, BeginSave
  <2> QED
    BY <1>0, <1>1, <1>2, <2>1, LocksStay
<1>13. StaysLoaded'
  <2>1. (c \in Events /\ to \in Pending) \/ to = "writing" => o \in ToSet(loaded')
    BY <1>0, <1>1, <1>2, <1>3, CallersAre
       DEF RequestShapes, StaysLoaded, Loads, is_active, At, Pending, InConversation,
          BeginSave, is_loaded
  <2> QED
    BY <1>0, <1>1, <1>2, <2>1, LoadedStays
<1>14. StoreIsLocked'
  <2>1. /\ to \in {"reading", "writing"} => writer' = c
        /\ \A a \in Callers : a # c /\ At(a, {"reading", "writing"}) => writer' = a
    BY <1>0, <1>1, <1>2, <1>3, CallersAre, MadeAre
       DEF RequestShapes, StoreIsLocked, At, CopiesAreFresh, BeginSave
  <2>2. \A a \in Callers : a # c /\ At(a, {"reading"}) =>
          /\ o # work[a].conv /\ work[a].conv \notin {}
          /\ disk'[work[a].conv.root].turns \subseteq turns'[work[a].conv]
    BY <1>0, <1>3, CallersAre DEF BeginSave, StoreIsLocked, At
  <2>3. to = "reading" =>
          /\ o \notin ToSet(loaded')
          /\ \A a \in Callers : a # c => work[a].conv # o
          /\ disk'[o.root].turns \subseteq turns'[o]
    BY <1>0, <1>1, <1>2, <1>3, CallersAre, MadeAre
       DEF RequestShapes, StoreIsLocked, At, CopiesAreFresh, BeginSave
  <2> QED
    BY <1>0, <1>1, <1>2, <2>1, <2>2, <2>3, StoreStays
<1>15. OnlyOfAnswered'
  <2>1. \A x \in Objects : turns'[x] # {} \/ replies'[x] # {}
          => turns[x] # {} \/ replies[x] # {} \/ Said(x.root)'
    BY <1>0, <1>1, <1>2, <1>3, CallersAre, <1>4
       DEF RequestShapes, OnlyOfAnswered, At, BeginSave
  <2>2. \A y \in Messages : disk'[y].turns # {} \/ disk'[y].replies # {}
          => disk[y].turns # {} \/ disk[y].replies # {} \/ Said(y)'
    BY <1>0, <1>1, <1>2, <1>3, CallersAre, <1>4
       DEF RequestShapes, OnlyOfAnswered, At, BeginSave
  <2>3. ASSUME NEW q \in Messages, o # NoObject, q = o.root,
               c \in Changes \/ to \in {"reading", "sent", "saving", "writing"}
                            \/ MessageOf[c] # q
        PROVE  Said(q)'
    BY <1>0, <1>1, <1>2, <1>3, CallersAre, <1>4, <2>3
       DEF RequestShapes, OnlyOfAnswered, At, BeginSave
  <2> QED
    BY <1>0, <1>1, <1>2, <1>4, <2>1, <2>2, <2>3, OnlyStays
<1>16. NotYetAnswered'
  <2>1. /\ c \in Events /\ to = "answering" => Answer(MessageOf[c]) \notin turns'[o]
        /\ \A a \in Events : a # c /\ At(a, {"answering"}) =>
             (Answer(MessageOf[a]) \in turns'[work[a].conv]
                          => Answer(MessageOf[a]) \in turns[work[a].conv])
    BY <1>0, <1>1, <1>2, <1>3, CallersAre
       DEF RequestShapes, NotYetAnswered, At
  <2> QED
    BY <1>0, <1>1, <1>2, <2>1, NotYetStays
<1>17. MemoryHoldsSnapshot'
  <2>1. \A x \in ToSet(loaded') : disk'[x.root].turns \subseteq turns'[x]
    BY <1>0, <1>1, <1>2, <1>3, CallersAre
       DEF RequestShapes, MemoryHoldsSnapshot, Loads
  <2>2. \A x \in {} : \A q \in ToSet(loaded') : x.root = q.root => x = q
    BY <1>0, <1>1, <1>2, <1>3, CallersAre
       DEF RequestShapes, MemoryHoldsSnapshot, Loads
  <2> QED
    BY <1>0, <1>1, <1>2, <2>1, <2>2, MemoryStays
<1>18. TableIsFinite'
  BY <1>0, <1>3 DEF TableIsFinite, Snapshots
<1> QED
  BY <1>10, <1>11, <1>12, <1>13, <1>14, <1>15, <1>16, <1>17, <1>18 DEF RequestInv

\* A snapshot is written, or the save is refused.
LEMMA EndSaveKeeps ==
  ASSUME RequestInv, NEW c \in Callers, EndSave(c)
  PROVE  RequestInv'
<1>0. RequestShapes /\ CopiesAreFresh /\ LocksHeld /\ StaysLoaded /\ StoreIsLocked
             /\ OnlyOfAnswered /\ NotYetAnswered /\ MemoryHoldsSnapshot /\ TableIsFinite
  BY DEF RequestInv
<1>1. Moves(c, "over", NoObject)
  BY <1>0, CallersAre, EndsMoves DEF EndSave
<1>2. Loads({})
  BY <1>0, SameLoads DEF EndSave
<1>3. UNCHANGED <<copies, turns, replies, aged, silences, stops>>
  BY DEF EndSave
<1>4. \A q \in Messages : Said(q) => Said(q)'
  <2>1. \A d \in Events : /\ At(d, Past) => At(d, Past)'
                          /\ At(d, Early)' => At(d, Early) \/ ~Said(MessageOf[d])
    BY <1>1, CallersAre DEF At, Past, Early, Moves, EndSave
  <2> QED
    BY <2>1, SaidStays
<1>p. PICK own \in Objects : own = work[c].conv
  BY <1>0, CallersAre DEF EndSave, At, RequestShapes
<1>5. /\ own \in Objects /\ own \in ToSet(loaded) /\ writer = c /\ writer' = Nobody
      /\ own.root \in Messages
  BY <1>0, <1>p DEF EndSave, At, RequestShapes, StaysLoaded, StoreIsLocked, Objects
<1>6. /\ DOMAIN disk' = Messages /\ disk' = [q \in Messages |-> disk'[q]]
      /\ revs' \in [Messages -> Nat]
      /\ \A q \in Messages : \/ disk'[q] = disk[q] \/ disk'[q] = NoSnapshot
                             \/ /\ q = own.root
                                /\ disk'[q] = [rev |-> disk[q].rev + 1, turns |-> turns[own],
                                               replies |-> replies[own], aged |-> FALSE]
  <2>1. CASE UNCHANGED <<disk, revs>>
    BY <1>0, <2>1 DEF RequestShapes
  <2>2. CASE ~UNCHANGED <<disk, revs>>
    <3>1. PICK victims :
            /\ disk' = [q \in Messages |->
                 CASE q = own.root -> [rev |-> disk[own.root].rev + 1, turns |-> turns[own],
                                       replies |-> replies[own], aged |-> FALSE]
                   [] q \in victims \ {own.root} -> NoSnapshot
                   [] OTHER -> disk[q]]
            /\ revs' = [q \in Messages |->
                 CASE q = own.root -> disk[own.root].rev + 1
                   [] q \in loaded_roots \ {own.root} -> revs[q]
                   [] OTHER -> 0]
      BY <1>p, <2>2 DEF EndSave
    <3>2. \A q \in Messages : disk[q].rev + 1 \in Nat /\ revs[q] \in Nat
      BY <1>0 DEF RequestShapes
    <3>3. revs' \in [Messages -> Nat]
      BY <1>5, <3>1, <3>2
    <3>4. /\ DOMAIN disk' = Messages /\ disk' = [q \in Messages |-> disk'[q]]
          /\ disk'[own.root] = [rev |-> disk[own.root].rev + 1, turns |-> turns[own],
                                replies |-> replies[own], aged |-> FALSE]
          /\ \A q \in Messages : q # own.root => disk'[q] = disk[q] \/ disk'[q] = NoSnapshot
      BY <1>5, <3>1
    <3> QED
      BY <1>5, <3>3, <3>4
  <2> QED
    BY <2>1, <2>2
<1>7. \A p \in ToSet(loaded) : p.root = own.root => p = own
  BY <1>0, <1>5 DEF MemoryHoldsSnapshot
<1>10. RequestShapes'
  <2>1. /\ loaded' \in Seq(Objects) /\ copies' \in [Messages -> 0..MaxCopies]
        /\ turns' \in [Objects -> SUBSET Turns] /\ replies' \in [Objects -> SUBSET Messages]
        /\ disk' \in [Messages -> [rev : Nat, turns : SUBSET Turns,
                     replies : SUBSET Messages, aged : BOOLEAN]]
        /\ revs' \in [Messages -> Nat] /\ writer' \in Callers \cup {Nobody}
    <3>1. \A q \in Messages : disk'[q] \in [rev : Nat, turns : SUBSET Turns,
                 replies : SUBSET Messages,
                                            aged : BOOLEAN]
      <4>1. \A q \in Messages : disk[q] \in [rev : Nat, turns : SUBSET Turns,
                   replies : SUBSET Messages,
                                             aged : BOOLEAN]
        BY <1>0 DEF RequestShapes
      <4>2. turns[own] \in SUBSET Turns /\ replies[own] \in SUBSET Messages
        BY <1>0, <1>5 DEF RequestShapes
      <4>3. \A q \in Messages : disk[q].rev + 1 \in Nat
        BY <4>1
      <4>4. NoSnapshot \in [rev : Nat, turns : SUBSET Turns, replies : SUBSET Messages,
                   aged : BOOLEAN]
        BY DEF NoSnapshot
      <4>5. \A q \in Messages :
              [rev |-> disk[q].rev + 1, turns |-> turns[own], replies |-> replies[own],
                           aged |-> FALSE]
                \in [rev : Nat, turns : SUBSET Turns, replies : SUBSET Messages, aged : BOOLEAN]
        BY <4>2, <4>3
      <4> SUFFICES ASSUME NEW q \in Messages
                   PROVE  disk'[q] \in [rev : Nat, turns : SUBSET Turns,
                                replies : SUBSET Messages,
                                        aged : BOOLEAN]
        OBVIOUS
      <4>6. CASE disk'[q] = disk[q]
        BY <4>1, <4>6
      <4>7. CASE disk'[q] = NoSnapshot
        BY <4>4, <4>7
      <4>8. CASE disk'[q] = [rev |-> disk[q].rev + 1, turns |-> turns[own],
                             replies |-> replies[own], aged |-> FALSE]
        BY <4>5, <4>8
      <4> QED
        BY <1>6, <4>6, <4>7, <4>8
    <3>2. disk' \in [Messages -> [rev : Nat, turns : SUBSET Turns, replies : SUBSET Messages,
                                  aged : BOOLEAN]]
      BY <1>6, <3>1
    <3> QED
      BY <1>0, <1>2, <1>3, <1>5, <1>6, <3>2 DEF RequestShapes, Loads
  <2>2. /\ NoObject = NoObject <=> "over" \in {"none", "lookup", "ready", "over"}
        /\ c \in Changes => "over" \in {"none", "changing", "outcome", "saving", "writing", "over"}
        /\ c \in Events => "over" \notin {"changing", "outcome"}
    BY <1>0, <1>1, <1>2, <1>3, CallersAre
       DEF RequestShapes, Loads, At, Stages, EndSave
  <2> QED
    BY <1>0, <1>1, <1>2, <2>1, <2>2, ShapesStay
<1>11. CopiesAreFresh'
  <2>1. /\ \A q \in Messages : copies[q] <= copies'[q]
        /\ copies' \in [Messages -> 0..MaxCopies]
    BY <1>0, <1>1, <1>2, <1>3, CallersAre, MadeAre
       DEF CopiesAreFresh, RequestShapes, Objects
  <2>2. \A x \in Objects : x \in {} \/ x = NoObject => x.copy <= copies'[x.root]
    BY <1>0, <1>1, <1>2, <1>3, CallersAre, MadeAre
       DEF CopiesAreFresh, RequestShapes, Objects
  <2>3. \A x \in Objects : x.copy > copies'[x.root] => turns'[x] = turns[x]
               /\ replies'[x] = replies[x]
    BY <1>0, <1>1, <1>2, <1>3, CallersAre, MadeAre
       DEF CopiesAreFresh, RequestShapes, Objects
  <2> QED
    BY <1>0, <1>1, <1>2, <2>1, <2>2, <2>3, FreshStays
<1>12. LocksHeld'
  <2>1. /\ "over" \in InConversation =>
             (At(c, InConversation) /\ work[c].conv = NoObject) \/ ConversationFree(NoObject)
        /\ c \in Events /\ "over" \in InMember => At(c, InMember)
                     \/ MemberFree(Author[MessageOf[c]])
    BY <1>0, <1>1, <1>2, <1>3, CallersAre
       DEF RequestShapes, At, InConversation, InMember, EndSave
  <2> QED
    BY <1>0, <1>1, <1>2, <2>1, LocksStay
<1>13. StaysLoaded'
  <2>1. (c \in Events /\ "over" \in Pending) \/ "over" = "writing" => NoObject \in ToSet(loaded')
    BY <1>0, <1>1, <1>2, <1>3, CallersAre
       DEF RequestShapes, StaysLoaded, Loads, is_active, At, Pending, InConversation, EndSave
  <2> QED
    BY <1>0, <1>1, <1>2, <2>1, LoadedStays
<1>14. StoreIsLocked'
  <2>1. /\ "over" \in {"reading", "writing"} => writer' = c
        /\ \A a \in Callers : a # c /\ At(a, {"reading", "writing"}) => writer' = a
    BY <1>0, <1>1, <1>2, <1>3, CallersAre, MadeAre
       DEF RequestShapes, StoreIsLocked, At, CopiesAreFresh, EndSave
  <2>2. \A a \in Callers : a # c /\ At(a, {"reading"}) =>
          /\ NoObject # work[a].conv /\ work[a].conv \notin {}
          /\ disk'[work[a].conv.root].turns \subseteq turns'[work[a].conv]
    BY <1>0, <1>1, <1>2, <1>3, CallersAre, MadeAre
       DEF RequestShapes, StoreIsLocked, At, CopiesAreFresh, EndSave
  <2>3. "over" = "reading" =>
          /\ NoObject \notin ToSet(loaded')
          /\ \A a \in Callers : a # c => work[a].conv # NoObject
          /\ disk'[NoObject.root].turns \subseteq turns'[NoObject]
    BY <1>0, <1>1, <1>2, <1>3, CallersAre, MadeAre
       DEF RequestShapes, StoreIsLocked, At, CopiesAreFresh, EndSave
  <2> QED
    BY <1>0, <1>1, <1>2, <2>1, <2>2, <2>3, StoreStays
<1>15. OnlyOfAnswered'
  <2>1. \A x \in Objects : turns'[x] # {} \/ replies'[x] # {}
          => turns[x] # {} \/ replies[x] # {} \/ Said(x.root)'
    BY <1>0, <1>1, <1>2, <1>3, CallersAre, <1>4
       DEF RequestShapes, OnlyOfAnswered, At, EndSave
  <2>2. \A y \in Messages : disk'[y].turns # {} \/ disk'[y].replies # {}
          => disk[y].turns # {} \/ disk[y].replies # {} \/ Said(y)'
    <3> SUFFICES ASSUME NEW r \in Messages, disk'[r].turns # {} \/ disk'[r].replies # {}
                 PROVE  disk[r].turns # {} \/ disk[r].replies # {} \/ Said(r)'
      OBVIOUS
    <3>1. Said(own.root)
      BY <1>0, <1>p, <1>5 DEF OnlyOfAnswered, EndSave, At, RequestShapes
    <3>2. CASE disk'[r] = disk[r]
      BY <3>2
    <3>3. CASE disk'[r] = NoSnapshot
      BY <3>3 DEF NoSnapshot
    <3>4. CASE r = own.root
      BY <1>4, <3>1, <3>4
    <3> QED
      BY <1>6, <3>2, <3>3, <3>4
  <2>3. ASSUME NEW q \in Messages, NoObject # NoObject, q = NoObject.root,
               c \in Changes \/ "over" \in {"reading", "sent", "saving", "writing"}
                            \/ MessageOf[c] # q
        PROVE  Said(q)'
    BY <1>0, <1>1, <1>2, <1>3, CallersAre, <1>4, <2>3
       DEF RequestShapes, OnlyOfAnswered, At, EndSave
  <2> QED
    BY <1>0, <1>1, <1>2, <1>4, <2>1, <2>2, <2>3, OnlyStays
<1>16. NotYetAnswered'
  <2>1. /\ c \in Events /\ "over" = "answering" => Answer(MessageOf[c]) \notin turns'[NoObject]
        /\ \A a \in Events : a # c /\ At(a, {"answering"}) =>
             (Answer(MessageOf[a]) \in turns'[work[a].conv]
                          => Answer(MessageOf[a]) \in turns[work[a].conv])
    BY <1>0, <1>1, <1>2, <1>3, CallersAre
       DEF RequestShapes, NotYetAnswered, At
  <2> QED
    BY <1>0, <1>1, <1>2, <2>1, NotYetStays
<1>17. MemoryHoldsSnapshot'
  <2>1. \A x \in ToSet(loaded') : disk'[x.root].turns \subseteq turns'[x]
    <3> SUFFICES ASSUME NEW p \in ToSet(loaded) PROVE disk'[p.root].turns \subseteq turns[p]
      BY <1>2, <1>3 DEF Loads
    <3>1. disk[p.root].turns \subseteq turns[p] /\ p.root \in Messages
      BY <1>0, MadeAre DEF MemoryHoldsSnapshot, Objects
    <3>2. CASE disk'[p.root] = disk[p.root]
      BY <3>1, <3>2
    <3>3. CASE disk'[p.root] = NoSnapshot
      BY <3>3 DEF NoSnapshot
    <3>4. CASE p.root = own.root /\ disk'[p.root].turns = turns[own]
      BY <1>7, <3>4
    <3> QED
      BY <1>6, <3>1, <3>2, <3>3, <3>4
  <2>2. \A x \in {} : \A q \in ToSet(loaded') : x.root = q.root => x = q
    BY <1>0, <1>1, <1>2, <1>3, CallersAre
       DEF RequestShapes, MemoryHoldsSnapshot, Loads
  <2> QED
    BY <1>0, <1>1, <1>2, <2>1, <2>2, MemoryStays
<1>18. TableIsFinite'
  <2>1. Snapshots' \subseteq Snapshots \cup {own.root}
    BY <1>6 DEF Snapshots, NoSnapshot
  <2>2. IsFiniteSet(Snapshots \cup {own.root})
    BY <1>0, FS_AddElement DEF TableIsFinite
  <2> QED
    BY <2>1, <2>2, FS_Subset DEF TableIsFinite
<1> QED
  BY <1>10, <1>11, <1>12, <1>13, <1>14, <1>15, <1>16, <1>17, <1>18 DEF RequestInv

\* The database fails.
LEMMA StoreFailsKeeps ==
  ASSUME RequestInv, NEW c \in Callers, StoreFails(c)
  PROVE  RequestInv'
<1>0. RequestShapes /\ CopiesAreFresh /\ LocksHeld /\ StaysLoaded /\ StoreIsLocked
             /\ OnlyOfAnswered /\ NotYetAnswered /\ MemoryHoldsSnapshot /\ TableIsFinite
  BY DEF RequestInv
<1>1. Moves(c, "over", NoObject)
  BY <1>0, CallersAre, EndsMoves DEF StoreFails
<1>2. Loads({})
  BY <1>0, SameLoads DEF StoreFails
<1>3. UNCHANGED <<copies, turns, replies, aged, disk, revs, silences>>
  BY DEF StoreFails
<1>4. \A q \in Messages : Said(q) => Said(q)'
  <2>1. \A d \in Events : /\ At(d, Past) => At(d, Past)'
                          /\ At(d, Early)' => At(d, Early) \/ ~Said(MessageOf[d])
    BY <1>1, CallersAre DEF At, Past, Early, Moves, StoreFails
  <2> QED
    BY <2>1, SaidStays
<1>10. RequestShapes'
  <2>1. /\ loaded' \in Seq(Objects) /\ copies' \in [Messages -> 0..MaxCopies]
        /\ turns' \in [Objects -> SUBSET Turns] /\ replies' \in [Objects -> SUBSET Messages]
        /\ disk' \in [Messages -> [rev : Nat, turns : SUBSET Turns,
                     replies : SUBSET Messages, aged : BOOLEAN]]
        /\ revs' \in [Messages -> Nat] /\ writer' \in Callers \cup {Nobody}
    BY <1>0, <1>1, <1>2, <1>3, CallersAre
       DEF RequestShapes, Loads, At, Stages, StoreFails, Unlocked
  <2>2. /\ NoObject = NoObject <=> "over" \in {"none", "lookup", "ready", "over"}
        /\ c \in Changes => "over" \in {"none", "changing", "outcome", "saving", "writing", "over"}
        /\ c \in Events => "over" \notin {"changing", "outcome"}
    BY <1>0, <1>1, <1>2, <1>3, CallersAre
       DEF RequestShapes, Loads, At, Stages, StoreFails, Unlocked
  <2> QED
    BY <1>0, <1>1, <1>2, <2>1, <2>2, ShapesStay
<1>11. CopiesAreFresh'
  <2>1. /\ \A q \in Messages : copies[q] <= copies'[q]
        /\ copies' \in [Messages -> 0..MaxCopies]
    BY <1>0, <1>1, <1>2, <1>3, CallersAre, MadeAre
       DEF CopiesAreFresh, RequestShapes, Objects
  <2>2. \A x \in Objects : x \in {} \/ x = NoObject => x.copy <= copies'[x.root]
    BY <1>0, <1>1, <1>2, <1>3, CallersAre, MadeAre
       DEF CopiesAreFresh, RequestShapes, Objects
  <2>3. \A x \in Objects : x.copy > copies'[x.root] => turns'[x] = turns[x]
               /\ replies'[x] = replies[x]
    BY <1>0, <1>1, <1>2, <1>3, CallersAre, MadeAre
       DEF CopiesAreFresh, RequestShapes, Objects
  <2> QED
    BY <1>0, <1>1, <1>2, <2>1, <2>2, <2>3, FreshStays
<1>12. LocksHeld'
  <2>1. /\ "over" \in InConversation =>
             (At(c, InConversation) /\ work[c].conv = NoObject) \/ ConversationFree(NoObject)
        /\ c \in Events /\ "over" \in InMember => At(c, InMember)
                     \/ MemberFree(Author[MessageOf[c]])
    BY <1>0, <1>1, <1>2, <1>3, CallersAre
       DEF RequestShapes, At, InConversation, InMember, StoreFails, Unlocked
  <2> QED
    BY <1>0, <1>1, <1>2, <2>1, LocksStay
<1>13. StaysLoaded'
  <2>1. (c \in Events /\ "over" \in Pending) \/ "over" = "writing" => NoObject \in ToSet(loaded')
    BY <1>0, <1>1, <1>2, <1>3, CallersAre
       DEF RequestShapes, StaysLoaded, Loads, is_active, At, Pending, InConversation,
          StoreFails, Unlocked
  <2> QED
    BY <1>0, <1>1, <1>2, <2>1, LoadedStays
<1>14. StoreIsLocked'
  <2>1. /\ "over" \in {"reading", "writing"} => writer' = c
        /\ \A a \in Callers : a # c /\ At(a, {"reading", "writing"}) => writer' = a
    BY <1>0, <1>1, <1>2, <1>3, CallersAre, MadeAre
       DEF RequestShapes, StoreIsLocked, At, CopiesAreFresh, StoreFails, Unlocked
  <2>2. \A a \in Callers : a # c /\ At(a, {"reading"}) =>
          /\ NoObject # work[a].conv /\ work[a].conv \notin {}
          /\ disk'[work[a].conv.root].turns \subseteq turns'[work[a].conv]
    BY <1>0, <1>1, <1>2, <1>3, CallersAre, MadeAre
       DEF RequestShapes, StoreIsLocked, At, CopiesAreFresh, StoreFails, Unlocked
  <2>3. "over" = "reading" =>
          /\ NoObject \notin ToSet(loaded')
          /\ \A a \in Callers : a # c => work[a].conv # NoObject
          /\ disk'[NoObject.root].turns \subseteq turns'[NoObject]
    BY <1>0, <1>1, <1>2, <1>3, CallersAre, MadeAre
       DEF RequestShapes, StoreIsLocked, At, CopiesAreFresh, StoreFails, Unlocked
  <2> QED
    BY <1>0, <1>1, <1>2, <2>1, <2>2, <2>3, StoreStays
<1>15. OnlyOfAnswered'
  <2>1. \A x \in Objects : turns'[x] # {} \/ replies'[x] # {}
          => turns[x] # {} \/ replies[x] # {} \/ Said(x.root)'
    BY <1>0, <1>1, <1>2, <1>3, CallersAre, <1>4
       DEF RequestShapes, OnlyOfAnswered, At, StoreFails, Unlocked
  <2>2. \A y \in Messages : disk'[y].turns # {} \/ disk'[y].replies # {}
          => disk[y].turns # {} \/ disk[y].replies # {} \/ Said(y)'
    BY <1>0, <1>1, <1>2, <1>3, CallersAre, <1>4
       DEF RequestShapes, OnlyOfAnswered, At, StoreFails, Unlocked
  <2>3. ASSUME NEW q \in Messages, NoObject # NoObject, q = NoObject.root,
               c \in Changes \/ "over" \in {"reading", "sent", "saving", "writing"}
                            \/ MessageOf[c] # q
        PROVE  Said(q)'
    BY <1>0, <1>1, <1>2, <1>3, CallersAre, <1>4, <2>3
       DEF RequestShapes, OnlyOfAnswered, At, StoreFails, Unlocked
  <2> QED
    BY <1>0, <1>1, <1>2, <1>4, <2>1, <2>2, <2>3, OnlyStays
<1>16. NotYetAnswered'
  <2>1. /\ c \in Events /\ "over" = "answering" => Answer(MessageOf[c]) \notin turns'[NoObject]
        /\ \A a \in Events : a # c /\ At(a, {"answering"}) =>
             (Answer(MessageOf[a]) \in turns'[work[a].conv]
                          => Answer(MessageOf[a]) \in turns[work[a].conv])
    BY <1>0, <1>1, <1>2, <1>3, CallersAre
       DEF RequestShapes, NotYetAnswered, At
  <2> QED
    BY <1>0, <1>1, <1>2, <2>1, NotYetStays
<1>17. MemoryHoldsSnapshot'
  <2>1. \A x \in ToSet(loaded') : disk'[x.root].turns \subseteq turns'[x]
    BY <1>0, <1>1, <1>2, <1>3, CallersAre
       DEF RequestShapes, MemoryHoldsSnapshot, Loads
  <2>2. \A x \in {} : \A q \in ToSet(loaded') : x.root = q.root => x = q
    BY <1>0, <1>1, <1>2, <1>3, CallersAre
       DEF RequestShapes, MemoryHoldsSnapshot, Loads
  <2> QED
    BY <1>0, <1>1, <1>2, <2>1, <2>2, MemoryStays
<1>18. TableIsFinite'
  BY <1>0, <1>3 DEF TableIsFinite, Snapshots
<1> QED
  BY <1>10, <1>11, <1>12, <1>13, <1>14, <1>15, <1>16, <1>17, <1>18 DEF RequestInv

\* Expired snapshots are removed.
LEMMA PruneDiskKeeps ==
  ASSUME RequestInv, PruneDisk
  PROVE  RequestInv'
<1>0. RequestShapes /\ CopiesAreFresh /\ LocksHeld /\ StaysLoaded /\ StoreIsLocked
             /\ OnlyOfAnswered /\ NotYetAnswered /\ MemoryHoldsSnapshot /\ TableIsFinite
  BY DEF RequestInv
<1>1. /\ UNCHANGED <<loaded, copies, turns, replies, work, revs, writer>>
      /\ disk' \in [Messages -> [rev : Nat, turns : SUBSET Turns, replies : SUBSET Messages,
                                 aged : BOOLEAN]]
      /\ \A y \in Messages : /\ disk'[y].turns \subseteq disk[y].turns
                             /\ disk'[y].replies \subseteq disk[y].replies
                             /\ disk'[y].rev > 0 => disk'[y].rev = disk[y].rev
  <2>1. UNCHANGED <<loaded, copies, turns, replies, work, revs, writer>>
    BY DEF PruneDisk
  <2>2. PICK expired : disk' = [y \in Messages |-> IF y \in expired THEN NoSnapshot ELSE disk[y]]
    BY DEF PruneDisk
  <2>3. /\ NoSnapshot \in [rev : Nat, turns : SUBSET Turns, replies : SUBSET Messages,
               aged : BOOLEAN]
        /\ NoSnapshot.turns = {} /\ NoSnapshot.replies = {} /\ NoSnapshot.rev = 0
    BY DEF NoSnapshot
  <2> QED
    BY <1>0, <2>1, <2>2, <2>3 DEF RequestShapes
<1>2. \A q \in Messages : Said(q) => Said(q)'
  BY <1>1 DEF Said, At
<1>3. \A p \in Objects : p.root \in Messages
  BY DEF Objects
<1>4. /\ \A p \in ToSet(loaded) : p \in Objects
      /\ \A c \in Callers : At(c, {"reading"}) => work[c].conv \in Objects
  BY <1>0, SetOf DEF RequestShapes, At
<1>10. RequestShapes'
  BY <1>0, <1>1 DEF RequestShapes, At
<1>11. CopiesAreFresh'
  BY <1>0, <1>1 DEF CopiesAreFresh
<1>12. LocksHeld'
  BY <1>0, <1>1 DEF LocksHeld, At
<1>13. StaysLoaded'
  BY <1>0, <1>1 DEF StaysLoaded, At
<1>14. StoreIsLocked'
  <2>1. \A c \in Callers : At(c, {"reading"})
               => disk'[work[c].conv.root].turns \subseteq turns[work[c].conv]
    BY <1>0, <1>1, <1>3, <1>4 DEF StoreIsLocked
  <2> QED
    BY <1>0, <1>1, <2>1 DEF StoreIsLocked, At
<1>15. OnlyOfAnswered'
  <2>1. \A p \in Objects : turns'[p] # {} \/ replies'[p] # {} => Said(p.root)'
    BY <1>0, <1>1, <1>2, <1>3 DEF OnlyOfAnswered
  <2>2. \A y \in Messages : disk'[y].turns # {} \/ disk'[y].replies # {} => Said(y)'
    BY <1>0, <1>1, <1>2 DEF OnlyOfAnswered
  <2>3. ASSUME NEW c \in Callers, work[c].conv # NoObject,
               c \in Changes \/ At(c, {"reading", "sent", "saving", "writing"})
                             \/ MessageOf[c] # work[c].conv.root
        PROVE  Said(work[c].conv.root)'
    <3>1. Said(work[c].conv.root) /\ work[c].conv.root \in Messages
      BY <1>0, <1>3, <2>3 DEF OnlyOfAnswered, RequestShapes
    <3> QED
      BY <1>1, <1>2, <3>1
  <2> QED
    BY <1>1, <2>1, <2>2, <2>3 DEF OnlyOfAnswered, At
<1>16. NotYetAnswered'
  BY <1>0, <1>1 DEF NotYetAnswered, At
<1>17. MemoryHoldsSnapshot'
  BY <1>0, <1>1, <1>3, <1>4 DEF MemoryHoldsSnapshot
<1>18. TableIsFinite'
  <2>1. Snapshots' \subseteq Snapshots
    BY <1>1 DEF Snapshots
  <2> QED
    BY <1>0, <2>1, FS_Subset DEF TableIsFinite
<1> QED
  BY <1>10, <1>11, <1>12, <1>13, <1>14, <1>15, <1>16, <1>17, <1>18 DEF RequestInv

\* Six hours pass without a turn.
LEMMA SilenceKeeps ==
  ASSUME RequestInv, NEW r \in Messages, Silence(r)
  PROVE  RequestInv'
<1>0. RequestShapes /\ CopiesAreFresh /\ LocksHeld /\ StaysLoaded /\ StoreIsLocked
             /\ OnlyOfAnswered /\ NotYetAnswered /\ MemoryHoldsSnapshot /\ TableIsFinite
  BY DEF RequestInv
<1>1. /\ UNCHANGED <<loaded, copies, turns, replies, work, revs, writer>>
      /\ disk' \in [Messages -> [rev : Nat, turns : SUBSET Turns, replies : SUBSET Messages,
                                 aged : BOOLEAN]]
      /\ \A y \in Messages : /\ disk'[y].turns \subseteq disk[y].turns
                             /\ disk'[y].replies \subseteq disk[y].replies
                             /\ disk'[y].rev > 0 => disk'[y].rev = disk[y].rev
  <2>1. UNCHANGED <<loaded, copies, turns, replies, work, revs, writer>>
    BY DEF Silence
  <2>2. disk[r] \in [rev : Nat, turns : SUBSET Turns, replies : SUBSET Messages, aged : BOOLEAN]
    BY <1>0 DEF RequestShapes
  <2>3. PICK old \in BOOLEAN : disk' = [disk EXCEPT ![r].aged = old]
    <3>1. (disk[r].aged \/ disk[r].rev > 0) \in BOOLEAN
      OBVIOUS
    <3>2. disk' = [disk EXCEPT ![r].aged = (disk[r].aged \/ disk[r].rev > 0)]
      BY DEF Silence
    <3> QED
      BY <3>1, <3>2
  <2>4. /\ disk'[r] = [disk[r] EXCEPT !.aged = old]
        /\ \A y \in Messages : y # r => disk'[y] = disk[y]
        /\ disk' = [y \in Messages |-> disk'[y]]
    BY <1>0, <2>3 DEF RequestShapes
  <2>5. /\ disk'[r] \in [rev : Nat, turns : SUBSET Turns, replies : SUBSET Messages,
               aged : BOOLEAN]
        /\ disk'[r].turns = disk[r].turns /\ disk'[r].replies = disk[r].replies
        /\ disk'[r].rev = disk[r].rev
    BY <2>2, <2>3, <2>4
  <2>6. \A y \in Messages : disk'[y] \in [rev : Nat, turns : SUBSET Turns,
               replies : SUBSET Messages,
                                          aged : BOOLEAN]
    BY <1>0, <2>4, <2>5 DEF RequestShapes
  <2> QED
    BY <2>1, <2>4, <2>5, <2>6
<1>2. \A q \in Messages : Said(q) => Said(q)'
  BY <1>1 DEF Said, At
<1>3. \A p \in Objects : p.root \in Messages
  BY DEF Objects
<1>4. /\ \A p \in ToSet(loaded) : p \in Objects
      /\ \A c \in Callers : At(c, {"reading"}) => work[c].conv \in Objects
  BY <1>0, SetOf DEF RequestShapes, At
<1>10. RequestShapes'
  BY <1>0, <1>1 DEF RequestShapes, At
<1>11. CopiesAreFresh'
  BY <1>0, <1>1 DEF CopiesAreFresh
<1>12. LocksHeld'
  BY <1>0, <1>1 DEF LocksHeld, At
<1>13. StaysLoaded'
  BY <1>0, <1>1 DEF StaysLoaded, At
<1>14. StoreIsLocked'
  <2>1. \A c \in Callers : At(c, {"reading"})
               => disk'[work[c].conv.root].turns \subseteq turns[work[c].conv]
    BY <1>0, <1>1, <1>3, <1>4 DEF StoreIsLocked
  <2> QED
    BY <1>0, <1>1, <2>1 DEF StoreIsLocked, At
<1>15. OnlyOfAnswered'
  <2>1. \A p \in Objects : turns'[p] # {} \/ replies'[p] # {} => Said(p.root)'
    BY <1>0, <1>1, <1>2, <1>3 DEF OnlyOfAnswered
  <2>2. \A y \in Messages : disk'[y].turns # {} \/ disk'[y].replies # {} => Said(y)'
    BY <1>0, <1>1, <1>2 DEF OnlyOfAnswered
  <2>3. ASSUME NEW c \in Callers, work[c].conv # NoObject,
               c \in Changes \/ At(c, {"reading", "sent", "saving", "writing"})
                             \/ MessageOf[c] # work[c].conv.root
        PROVE  Said(work[c].conv.root)'
    <3>1. Said(work[c].conv.root) /\ work[c].conv.root \in Messages
      BY <1>0, <1>3, <2>3 DEF OnlyOfAnswered, RequestShapes
    <3> QED
      BY <1>1, <1>2, <3>1
  <2> QED
    BY <1>1, <2>1, <2>2, <2>3 DEF OnlyOfAnswered, At
<1>16. NotYetAnswered'
  BY <1>0, <1>1 DEF NotYetAnswered, At
<1>17. MemoryHoldsSnapshot'
  BY <1>0, <1>1, <1>3, <1>4 DEF MemoryHoldsSnapshot
<1>18. TableIsFinite'
  <2>1. Snapshots' \subseteq Snapshots
    BY <1>1 DEF Snapshots
  <2> QED
    BY <1>0, <2>1, FS_Subset DEF TableIsFinite
<1> QED
  BY <1>10, <1>11, <1>12, <1>13, <1>14, <1>15, <1>16, <1>17, <1>18 DEF RequestInv

\* The process starts again.
LEMMA RestartKeeps ==
  ASSUME RequestInv, Restart
  PROVE  RequestInv'
<1>0. RequestShapes /\ CopiesAreFresh /\ LocksHeld /\ StaysLoaded /\ StoreIsLocked
             /\ OnlyOfAnswered /\ NotYetAnswered /\ MemoryHoldsSnapshot /\ TableIsFinite
  BY DEF RequestInv
<1>a. PICK most, roots, order :
        /\ most \in Nat /\ roots \in SUBSET Messages /\ order \in [1..most -> roots]
        /\ \A y \in roots : ~disk[y].aged
        /\ ToSet(order) \subseteq roots /\ Copied(ToSet(order))
        /\ loaded' = [i \in 1..most |-> NewCopy(order[i])]
        /\ revs' = [y \in Messages |-> IF y \in ToSet(order) THEN disk[y].rev ELSE 0]
  <2> DEFINE live == {y \in Snapshots : ~disk[y].aged}
             most == IF Cardinality(live) > MaxConversations THEN MaxConversations
                       ELSE Cardinality(live)
  <2>1. Cardinality(live) \in Nat /\ MaxConversations \in Nat
    <3>1. live \subseteq Snapshots
      OBVIOUS
    <3>2. IsFiniteSet(live)
      BY <1>0, <3>1, FS_Subset DEF TableIsFinite
    <3> HIDE DEF live
    <3> QED
      BY <3>2, FS_CardinalityType, RequestsAssumption
  <2>2. PICK order \in [1..most -> live] :
          /\ Copied(ToSet(order))
          /\ loaded' = [i \in 1..most |-> NewCopy(order[i])]
          /\ revs' = [y \in Messages |-> IF y \in ToSet(order) THEN disk[y].rev ELSE 0]
    BY DEF Restart
  <2>3. most \in Nat
    <3> HIDE DEF live
    <3> QED
      BY <2>1
  <2>4. live \in SUBSET Messages /\ \A y \in live : ~disk[y].aged
    BY DEF Snapshots
  <2> HIDE DEF live, most
  <2>5. ToSet(order) \subseteq live
    BY <2>2, <2>3 DEF ToSet
  <2> QED
    BY <2>2, <2>3, <2>4, <2>5
<1> DEFINE rs == ToSet(order)
<1>b. /\ rs \subseteq Messages /\ rs = {order[i] : i \in 1..most}
      /\ \A y \in rs : copies[y] < MaxCopies /\ ~disk[y].aged
  BY <1>a DEF Copied, ToSet
<1>c. /\ copies' = [y \in Messages |-> IF y \in rs THEN copies[y] + 1 ELSE copies[y]]
      /\ turns' = [o \in Objects |-> IF o \in {NewCopy(y) : y \in rs} THEN disk[o.root].turns ELSE turns[o]]
      /\ replies' = [o \in Objects |-> IF o \in {NewCopy(y) : y \in rs} THEN disk[o.root].replies ELSE replies[o]]
  BY <1>a DEF Copied
<1> HIDE DEF rs
<1>d. \A y \in rs : /\ NewCopy(y) \in Objects /\ NewCopy(y).root = y
             /\ NewCopy(y).copy = copies[y] + 1
                    /\ \A c \in Callers : work[c].conv # NewCopy(y)
  BY <1>0, <1>b, NewIsFresh
<1>1. /\ work' \in [Callers -> [stage : Stages, conv : Objects \cup {NoObject}]]
      /\ \A c \in Callers : /\ work'[c].conv = NoObject
                            /\ work'[c].stage = IF At(c, {"none"}) THEN "none" ELSE "over"
  BY DEF Restart, Fresh, Stages
<1>2. /\ loaded' \in Seq(Objects)
      /\ \A p \in ToSet(loaded') : p \in Objects /\ \E y \in rs : p = NewCopy(y)
  <2>1. \A i \in 1..most : NewCopy(order[i]) \in Objects /\ order[i] \in rs
    BY <1>b, <1>d
  <2>2. loaded' \in Seq(Objects)
    BY <1>a, <2>1
  <2>3. ToSet(loaded') = {loaded'[i] : i \in 1..Len(loaded')} /\ Len(loaded') = most
    <3>1. most \in Nat /\ loaded' = [i \in 1..most |-> NewCopy(order[i])]
      BY <1>a
    <3>2. Len(loaded') = most
      BY ONLY <3>1
    <3>3. ToSet(loaded') = {loaded'[i] : i \in 1..Len(loaded')}
      BY ONLY <2>2, SetOf
    <3> QED
      BY <3>2, <3>3
  <2> QED
    BY <1>a, <2>1, <2>2, <2>3
<1>3. /\ writer' = Nobody
      /\ disk' = [y \in Messages |-> IF disk[y].aged THEN NoSnapshot ELSE disk[y]]
  BY DEF Restart
<1>4. \A q \in Messages : Said(q) => Said(q)'
  <2>1. \A d \in Events : /\ At(d, Past) => At(d, Past)'
                          /\ At(d, Early)' => At(d, Early) \/ ~Said(MessageOf[d])
    BY <1>1, CallersAre DEF At, Past, Early
  <2> QED
    BY <2>1, SaidStays
<1>5. \A y \in Messages : copies[y] \in Nat /\ copies[y] <= copies'[y]
             /\ copies'[y] \in 0..MaxCopies
  <2>1. \A y \in Messages : copies[y] \in 0..MaxCopies /\ MaxCopies \in Nat
    BY <1>0, RequestsAssumption DEF RequestShapes
  <2>2. \A y \in Messages : copies'[y] = IF y \in rs THEN copies[y] + 1 ELSE copies[y]
    BY <1>c
  <2> QED
    BY <1>b, <2>1, <2>2
<1>6. \A p \in Objects : /\ p.root \in Messages
                         /\ turns'[p] = turns[p] \/ turns'[p] = disk[p.root].turns
                         /\ replies'[p] = replies[p] \/ replies'[p] = disk[p.root].replies
  BY <1>c DEF Objects
<1>7. \A y \in rs : turns'[NewCopy(y)] = disk[y].turns
  BY <1>c, <1>d
<1>10. RequestShapes'
  <2>1. /\ copies' \in [Messages -> 0..MaxCopies]
        /\ turns' \in [Objects -> SUBSET Turns] /\ replies' \in [Objects -> SUBSET Messages]
    <3>1. \A y \in Messages : disk[y].turns \in SUBSET Turns
                 /\ disk[y].replies \in SUBSET Messages
      BY <1>0 DEF RequestShapes
    <3>2. \A p \in Objects : turns'[p] \in SUBSET Turns /\ replies'[p] \in SUBSET Messages
      BY <1>0, <1>6, <3>1 DEF RequestShapes
    <3> QED
      BY <1>c, <1>5, <3>2
  <2>2. disk' \in [Messages -> [rev : Nat, turns : SUBSET Turns, replies : SUBSET Messages,
               aged : BOOLEAN]]
    <3>1. NoSnapshot \in [rev : Nat, turns : SUBSET Turns, replies : SUBSET Messages,
                 aged : BOOLEAN]
      BY DEF NoSnapshot
    <3> QED
      BY <1>0, <1>3, <3>1 DEF RequestShapes
  <2>3. revs' \in [Messages -> Nat]
    <3>1. \A y \in Messages : disk[y].rev \in Nat
      BY <1>0 DEF RequestShapes
    <3>2. revs' = [y \in Messages |-> IF y \in rs THEN disk[y].rev ELSE 0]
      BY <1>a DEF rs
    <3> QED
      BY <3>1, <3>2
  <2> QED
    BY <1>1, <1>2, <1>3, <2>1, <2>2, <2>3 DEF RequestShapes, At
<1>11. CopiesAreFresh'
  <2> SUFFICES ASSUME NEW p \in Objects, p.copy > copies'[p.root]
               PROVE  /\ turns'[p] = {} /\ replies'[p] = {} /\ p \notin ToSet(loaded')
                      /\ \A c \in Callers : work'[c].conv # p
    BY DEF CopiesAreFresh
  <2>0. p.copy \in Nat /\ p.root \in Messages
    BY RequestsAssumption DEF Objects
  <2>1. p.copy > copies[p.root] /\ copies'[p.root] \in Nat
    BY <1>5, <2>0
  <2>2. turns[p] = {} /\ replies[p] = {}
    BY <1>0, <2>1 DEF CopiesAreFresh
  <2>3. \A y \in rs : p # NewCopy(y)
    <3>1. \A y \in rs : copies'[y] = copies[y] + 1
      BY <1>b, <1>c
    <3>2. ASSUME NEW y \in rs, p = NewCopy(y) PROVE FALSE
      <4>1. p.root = y /\ p.copy = copies[y] + 1
        BY <1>d, <3>2
      <4> QED
        BY <2>1, <3>1, <4>1
    <3> QED
      BY <3>2
  <2>4. turns'[p] = turns[p] /\ replies'[p] = replies[p]
    BY <1>c, <2>3
  <2> QED
    BY <1>1, <1>2, <2>2, <2>3, <2>4, CallersAre
<1>12. LocksHeld'
  BY <1>1, CallersAre DEF LocksHeld, At, InConversation, InMember
<1>13. StaysLoaded'
  BY <1>1 DEF StaysLoaded, At, Pending, InConversation
<1>14. StoreIsLocked'
  BY <1>1 DEF StoreIsLocked, At
<1>15. OnlyOfAnswered'
  <2>1. \A y \in Messages : disk[y].turns # {} \/ disk[y].replies # {} => Said(y)'
    BY <1>0, <1>4 DEF OnlyOfAnswered
  <2>2. \A y \in Messages : disk'[y].turns # {} \/ disk'[y].replies # {} => Said(y)'
    BY <1>3, <2>1 DEF NoSnapshot
  <2>3. \A p \in Objects : turns[p] # {} \/ replies[p] # {} => Said(p.root)'
    BY <1>0, <1>4, <1>6 DEF OnlyOfAnswered
  <2>4. \A p \in Objects : turns'[p] # {} \/ replies'[p] # {} => Said(p.root)'
    BY <1>6, <2>1, <2>3
  <2> QED
    BY <1>1, <2>2, <2>4 DEF OnlyOfAnswered
<1>16. NotYetAnswered'
  BY <1>1, CallersAre DEF NotYetAnswered, At
<1>17. MemoryHoldsSnapshot'
  <2>1. ASSUME NEW p \in ToSet(loaded') PROVE disk'[p.root].turns \subseteq turns'[p]
    <3>1. PICK y \in rs : p = NewCopy(y)
      BY <1>2, <2>1
    <3>2. p.root = y /\ turns'[p] = disk[y].turns /\ y \in Messages
      BY <1>b, <1>d, <1>7, <3>1
    <3>3. disk'[y] = disk[y]
      BY <1>3, <1>b, <3>2
    <3> QED
      BY <3>2, <3>3
  <2>2. \A p, q \in ToSet(loaded') : p.root = q.root => p = q
    BY <1>2, <1>d
  <2> QED
    BY <2>1, <2>2 DEF MemoryHoldsSnapshot
<1>18. TableIsFinite'
  <2>1. Snapshots' \subseteq Snapshots
    BY <1>3 DEF Snapshots, NoSnapshot
  <2> QED
    BY <1>0, <2>1, FS_Subset DEF TableIsFinite
<1> QED
  BY <1>10, <1>11, <1>12, <1>13, <1>14, <1>15, <1>16, <1>17, <1>18 DEF RequestInv


LEMMA ReadSnapshotKeeps ==
  ASSUME RequestInv, NEW e \in Events, ReadSnapshot(e)
  PROVE  RequestInv'
<1>1. CASE NoSnapshotFound(e)
  BY <1>1, NoSnapshotFoundKeeps
<1>2. CASE ~NoSnapshotFound(e)
  <2>1. PICK r \in Messages : SnapshotFound(e, r)
    BY <1>2 DEF ReadSnapshot, SnapshotFound, NoSnapshotFound, Snapshots
  <2> QED
    BY <2>1, SnapshotFoundKeeps
<1> QED
  BY <1>1, <1>2

LEMMA EnterKeeps ==
  ASSUME RequestInv, NEW e \in Events, Enter(e)
  PROVE  RequestInv'
<1>0. ToSet(pruned) \subseteq Objects
  BY PrunedIs, SetOf DEF RequestInv
<1> DEFINE m == MessageOf[e]
           rooted == {o \in ToSet(pruned) : o.root = m}
<1>1. CASE Cardinality(requests) >= MaxRequests
  <2>1. EnterNot(e)
    BY <1>1 DEF Enter, EnterNot
  <2> QED
    BY <2>1, EnterNotKeeps
<1>2. CASE ~(Cardinality(requests) >= MaxRequests)
  <2>1. CASE \E o \in find(m) \cup rooted : Enters(e, "conversation", o) /\ loaded' = pruned
               /\ UNCHANGED copies
    <3>1. PICK p \in Objects : EnterKnown(e, p)
      BY <1>0, <2>1 DEF EnterKnown, find
    <3> QED
      BY <3>1, EnterKnownKeeps
  <2>2. CASE /\ rooted = {} /\ may_add(pruned) /\ copies[m] < MaxCopies
             /\ copies' = [copies EXCEPT ![m] = @ + 1]
             /\ loaded' = added(pruned, NewCopy(m)) /\ Enters(e, "conversation", NewCopy(m))
    <3>1. EnterNew(e)
      BY <2>2 DEF EnterNew
    <3> QED
      BY <3>1, EnterNewKeeps
  <2>3. CASE loaded' = pruned /\ Ends(e) /\ UNCHANGED copies
    <3>1. EnterNot(e)
      BY <2>3 DEF EnterNot
    <3> QED
      BY <3>1, EnterNotKeeps
  <2> QED
    BY <1>2, <2>1, <2>2, <2>3 DEF Enter
<1> QED
  BY <1>1, <1>2

LEMMA RequestStarts == RequestInit => RequestInv
<1> SUFFICES ASSUME RequestInit PROVE RequestInv
  OBVIOUS
<1> USE DEF RequestInit
<1>0. ToSet(<<>>) = {}
  BY DEF ToSet
<1>1. \A c \in Callers : work[c] = Fresh /\ work[c].stage = "none" /\ work[c].conv = NoObject
  BY DEF Fresh
<1>2. \A m \in Messages : disk[m].turns = {} /\ disk[m].replies = {} /\ disk[m].rev = 0
  BY DEF NoSnapshot
<1>3. RequestShapes
  <2>1. /\ loaded \in Seq(Objects) /\ turns \in [Objects -> SUBSET Turns]
        /\ replies \in [Objects -> SUBSET Messages]
        /\ revs \in [Messages -> Nat] /\ writer \in Callers \cup {Nobody}
    OBVIOUS
  <2>2. copies \in [Messages -> 0..MaxCopies]
    BY RequestsAssumption
  <2>3. /\ work \in [Callers -> [stage : Stages, conv : Objects \cup {NoObject}]]
        /\ disk \in [Messages -> [rev : Nat, turns : SUBSET Turns, replies : SUBSET Messages,
                                  aged : BOOLEAN]]
    BY DEF Fresh, Stages, NoSnapshot
  <2> QED
    BY <1>1, <2>1, <2>2, <2>3 DEF RequestShapes, At
<1>4. CopiesAreFresh
  BY <1>0, <1>1, CallersAre DEF CopiesAreFresh
<1>5. LocksHeld /\ StaysLoaded
  BY <1>1, CallersAre DEF LocksHeld, StaysLoaded, At, InConversation, InMember, Pending
<1>6. StoreIsLocked /\ NotYetAnswered
  BY <1>1, CallersAre DEF StoreIsLocked, NotYetAnswered, At
<1>7. OnlyOfAnswered
  BY <1>1, <1>2 DEF OnlyOfAnswered
<1>8. MemoryHoldsSnapshot
  BY <1>0 DEF MemoryHoldsSnapshot
<1>9. TableIsFinite
  <2>1. Snapshots = {}
    BY <1>2 DEF Snapshots
  <2> QED
    BY <2>1, FS_EmptySet DEF TableIsFinite
<1> QED
  BY <1>3, <1>4, <1>5, <1>6, <1>7, <1>8, <1>9 DEF RequestInv

LEMMA RequestKept == RequestInv /\ [RequestNext]_requestVars => RequestInv'
<1> SUFFICES ASSUME RequestInv, [RequestNext]_requestVars PROVE RequestInv'
  OBVIOUS
<1>1. CASE UNCHANGED requestVars
  <2> USE <1>1 DEF requestVars
  <2>1. RequestShapes' /\ CopiesAreFresh'
    BY DEF RequestInv, RequestShapes, CopiesAreFresh, At
  <2>2. LocksHeld' /\ StaysLoaded' /\ StoreIsLocked'
    BY DEF RequestInv, LocksHeld, StaysLoaded, StoreIsLocked, At
  <2>3. \A m : Said(m)' = Said(m)
    BY DEF Said, At
  <2>4. OnlyOfAnswered'
    BY <2>3 DEF RequestInv, OnlyOfAnswered, At
  <2>5. NotYetAnswered' /\ MemoryHoldsSnapshot' /\ TableIsFinite'
    BY DEF RequestInv, NotYetAnswered, MemoryHoldsSnapshot, TableIsFinite, Snapshots, At
  <2> QED
    BY <2>1, <2>2, <2>4, <2>5 DEF RequestInv
<1>2. ASSUME NEW e \in Events, Arrive(e) \/ GiveUp(e) PROVE RequestInv'
  BY <1>2, ArriveKeeps, GiveUpKeeps
<1>3. ASSUME NEW e \in Events, RequestStep(e) PROVE RequestInv'
  BY <1>3, CallersAre, ReadSnapshotKeeps, RestoreKeeps, EnterKeeps, EnterConversationKeeps,
     EnterMemberKeeps, EnterSlotKeeps, SendKeeps, RecordTurnKeeps, BeginSaveKeeps, EndSaveKeeps
     DEF RequestStep
<1>4. ASSUME NEW m \in Changes, OutcomeStep(m) PROVE RequestInv'
  BY <1>4, CallersAre, StartOutcomeKeeps, AddOutcomeKeeps, BeginSaveKeeps, EndSaveKeeps
     DEF OutcomeStep
<1>5. ASSUME NEW c \in Callers, StoreFails(c) PROVE RequestInv'
  BY <1>5, StoreFailsKeeps
<1>6. CASE PruneDisk \/ (\E r \in Messages : Silence(r)) \/ Restart
  BY <1>6, PruneDiskKeeps, SilenceKeeps, RestartKeeps
<1> QED
  BY <1>1, <1>2, <1>3, <1>4, <1>5, <1>6 DEF RequestNext

LEMMA OrderKept == RequestInv => OneAtATime /\ RequestKeepsConversation /\ MemoryHoldsSnapshot
<1> SUFFICES ASSUME RequestInv PROVE OneAtATime /\ RequestKeepsConversation /\ MemoryHoldsSnapshot
  OBVIOUS
<1>0. LocksHeld /\ StaysLoaded /\ MemoryHoldsSnapshot
  BY DEF RequestInv
<1>1. \A e \in Events : At(e, Pending) => work[e].conv \in ToSet(loaded)
  BY <1>0, CallersAre DEF StaysLoaded
<1>2. ASSUME NEW d \in Events, NEW e \in Events, d # e, At(d, InSlot), At(e, InSlot)
      PROVE  Author[MessageOf[d]] # Author[MessageOf[e]] /\ work[d].conv.root # work[e].conv.root
  <2>1. /\ At(d, InMember) /\ At(e, InMember)
        /\ At(d, InConversation) /\ At(e, InConversation) /\ At(d, Pending) /\ At(e, Pending)
    BY <1>2 DEF At, InSlot, InMember, InConversation, Pending
  <2>2. work[d].conv # work[e].conv /\ Author[MessageOf[d]] # Author[MessageOf[e]]
    BY <1>0, <1>2, <2>1, CallersAre DEF LocksHeld
  <2> QED
    BY <1>0, <1>1, <2>1, <2>2 DEF MemoryHoldsSnapshot
<1> QED
  BY <1>0, <1>1, <1>2 DEF OneAtATime, RequestKeepsConversation, is_loaded

\* Only a save changes the turns of a snapshot that stays, and whoever saves has all of them.
LEMMA SavesAddTurns == RequestInv /\ RequestNext => SavedTurnsStay
<1> SUFFICES ASSUME RequestInv, RequestNext, NEW r \in Messages, disk'[r].rev > 0
             PROVE  disk[r].turns \subseteq disk'[r].turns
  BY DEF SavedTurnsStay
<1>0. RequestShapes /\ StaysLoaded /\ MemoryHoldsSnapshot
  BY DEF RequestInv
<1>1. ASSUME NEW c \in Callers, EndSave(c) PROVE disk[r].turns \subseteq disk'[r].turns
  <2> DEFINE o == work[c].conv
  <2>1. o \in ToSet(loaded)
    BY <1>0, <1>1 DEF EndSave, StaysLoaded, At
  <2>2. disk[o.root].turns \subseteq turns[o]
    BY <1>0, <2>1 DEF MemoryHoldsSnapshot
  <2>3. CASE UNCHANGED disk
    BY <2>3
  <2>4. CASE ~UNCHANGED disk
    <3>1. PICK victims :
            disk' = [q \in Messages |->
              CASE q = o.root -> [rev |-> disk[o.root].rev + 1, turns |-> turns[o],
                                  replies |-> replies[o], aged |-> FALSE]
                [] q \in victims \ {o.root} -> NoSnapshot
                [] OTHER -> disk[q]]
      BY <1>1, <2>4 DEF EndSave
    <3> HIDE DEF o
    <3>2. /\ r = o.root => disk'[r].turns = turns[o]
          /\ r # o.root => disk'[r] = disk[r] \/ disk'[r] = NoSnapshot
      BY <3>1
    <3>3. NoSnapshot.rev = 0
      BY DEF NoSnapshot
    <3> QED
      BY <2>2, <3>2, <3>3
  <2> QED
    BY <2>3, <2>4
<1>2. CASE PruneDisk
  BY <1>2 DEF PruneDisk, NoSnapshot
<1>3. CASE Restart
  BY <1>3 DEF Restart, NoSnapshot
<1>4. ASSUME NEW q \in Messages, Silence(q) PROVE disk[r].turns \subseteq disk'[r].turns
  <2>1. PICK old : disk' = [disk EXCEPT ![q].aged = old]
    BY <1>4 DEF Silence
  <2>2. disk[r] \in [rev : Nat, turns : SUBSET Turns, replies : SUBSET Messages, aged : BOOLEAN]
    BY <1>0 DEF RequestShapes
  <2>3. disk'[r] = IF r = q THEN [disk[r] EXCEPT !.aged = old] ELSE disk[r]
    BY <1>0, <2>1 DEF RequestShapes
  <2>4. disk'[r].turns = disk[r].turns
    BY <2>2, <2>3
  <2> QED
    BY <2>4
<1>5. CASE UNCHANGED disk
  BY <1>5
<1>6. ASSUME NEW e \in Events, Arrive(e) \/ GiveUp(e) PROVE UNCHANGED disk
  BY <1>6 DEF Arrive, GiveUp
<1>7. ASSUME NEW e \in Events, RequestStep(e), ~EndSave(e) PROVE UNCHANGED disk
  BY <1>7 DEF RequestStep, ReadSnapshot, Restore, Enter, EnterConversation, EnterMember,
     EnterSlot,
     Send, RecordTurn, BeginSave
<1>8. ASSUME NEW m \in Changes, OutcomeStep(m), ~EndSave(m) PROVE UNCHANGED disk
  BY <1>8 DEF OutcomeStep, StartOutcome, AddOutcome, BeginSave
<1>9. ASSUME NEW c \in Callers, StoreFails(c) PROVE UNCHANGED disk
  BY <1>9 DEF StoreFails
<1> QED
  BY <1>1, <1>2, <1>3, <1>4, <1>5, <1>6, <1>7, <1>8, <1>9, CallersAre DEF RequestNext

\* For every number of members, messages and conversations, and however the four locks, the
\* checkpoints, the clean-ups and restarts overlap: one request of a member or conversation
\* runs at a time and keeps its conversation, memory has what the table has, a saved turn
\* stays until its snapshot goes, and no recorded answer is given again (on_message, state.py,
\* persistence.py).
THEOREM RequestsKeepOrder == RequestSpec => RequestsInOrder
<1>1. ASSUME RequestInv, [RequestNext]_requestVars,
             (OneAtATime /\ RequestKeepsConversation /\ MemoryHoldsSnapshot)'
      PROVE  [/\ (OneAtATime /\ RequestKeepsConversation /\ MemoryHoldsSnapshot)'
              /\ SavedTurnsStay /\ NotAnsweredAgain]_requestVars
  <2>1. NotAnsweredAgain
    BY <1>1 DEF RequestInv, NotYetAnswered, NotAnsweredAgain
  <2> QED
    BY <1>1, <2>1, SavesAddTurns
<1>2. RequestInv => OneAtATime /\ RequestKeepsConversation /\ MemoryHoldsSnapshot
  BY OrderKept
<1> QED
  BY <1>1, <1>2, RequestStarts, RequestKept, PTL DEF RequestSpec, RequestsInOrder

-----------------------------------------------------------------------------
(* ReplyDelivery: an answer is there once, in order, and recorded as it is there *)

\* The parts of an answer whose text has f parts, in a segment s, and what is attempted of
\* it, which begins with the GIF if there is one.
Text(f, i)        == IF i <= f THEN Part(1, i) ELSE Part(2, i - f)
SaidPart(f, s, i)     == IF s = 0 THEN Part(0, 1) ELSE Text(f, i)
Tried(f, g, i)    == IF g THEN IF i = 1 THEN Part(0, 1) ELSE Text(f, i - 1) ELSE Text(f, i)
SentUpTo(f, s, n)  == [i \in 1..n |-> SaidPart(f, s, i)]
TriedUpTo(f, g, n) == [i \in 1..n |-> Tried(f, g, i)]

Places == [segment : 0..2, index : Nat]

\* What is there so far grows by its next part.
LEMMA SentIs ==
  ASSUME NEW f \in Nat \ {0}, NEW s \in 0..2, NEW n \in Nat
  PROVE  /\ SentUpTo(f, s, n) \in Seq(Places) /\ Len(SentUpTo(f, s, n)) = n
         /\ \A i \in 1..n : SentUpTo(f, s, n)[i] = SaidPart(f, s, i)
<1>1. \A i \in Nat \ {0} : SaidPart(f, s, i) \in Places
  BY DEF SaidPart, Text, Part, Places
<1>2. SentUpTo(f, s, n) \in Seq(Places) /\ Len(SentUpTo(f, s, n)) = n
  BY <1>1 DEF SentUpTo
<1>3. \A i \in 1..n : SentUpTo(f, s, n)[i] = SaidPart(f, s, i)
  BY DEF SentUpTo
<1> QED BY <1>2, <1>3

LEMMA SentGrows ==
  ASSUME NEW f \in Nat \ {0}, NEW s \in 0..2, NEW n \in Nat
  PROVE  /\ SentUpTo(f, s, n) \in Seq(Places) /\ Len(SentUpTo(f, s, n)) = n
         /\ SentUpTo(f, s, 0) = <<>>
         /\ SentUpTo(f, 1, n) = SentUpTo(f, 2, n)
         /\ Append(SentUpTo(f, s, n), SaidPart(f, s, n + 1)) = SentUpTo(f, s, n + 1)
         /\ s # 0 \/ n = 0 => SaidPart(f, s, n + 1) \notin ToSet(SentUpTo(f, s, n))
<1>1. \A i \in Nat \ {0} : SaidPart(f, s, i) \in Places
  BY DEF SaidPart, Text, Part, Places
<1>2. SentUpTo(f, s, n) \in Seq(Places) /\ Len(SentUpTo(f, s, n)) = n
  BY <1>1 DEF SentUpTo
<1>3. SentUpTo(f, s, n + 1) \in Seq(Places) /\ Len(SentUpTo(f, s, n + 1)) = n + 1
  BY <1>1 DEF SentUpTo
<1>4. SentUpTo(f, s, 0) = <<>>
  BY DEF SentUpTo
<1>5. SentUpTo(f, 1, n) = SentUpTo(f, 2, n)
  BY DEF SentUpTo, SaidPart
<1>6. Append(SentUpTo(f, s, n), SaidPart(f, s, n + 1)) = SentUpTo(f, s, n + 1)
  <2>1. /\ Append(SentUpTo(f, s, n), SaidPart(f, s, n + 1)) \in Seq(Places)
        /\ Len(Append(SentUpTo(f, s, n), SaidPart(f, s, n + 1))) = n + 1
    BY <1>1, <1>2
  <2>2. \A i \in 1..(n + 1) : Append(SentUpTo(f, s, n), SaidPart(f, s, n + 1))[i]
                                = SentUpTo(f, s, n + 1)[i]
    BY <1>2 DEF SentUpTo
  <2> HIDE DEF SentUpTo, SaidPart
  <2> QED BY <2>1, <2>2, <1>3
<1>7. ToSet(SentUpTo(f, s, n)) = {SaidPart(f, s, i) : i \in 1..n}
  BY <1>2 DEF ToSet, SentUpTo
<1>8. s # 0 \/ n = 0 => SaidPart(f, s, n + 1) \notin ToSet(SentUpTo(f, s, n))
  <2>1. ASSUME s # 0, NEW i \in 1..n  PROVE SaidPart(f, s, n + 1) # SaidPart(f, s, i)
    <3>1. CASE n + 1 <= f
      BY <2>1, <3>1 DEF SaidPart, Text, Part
    <3>2. CASE n + 1 > f /\ i <= f
      BY <2>1, <3>2 DEF SaidPart, Text, Part
    <3>3. CASE i > f
      BY <2>1, <3>3 DEF SaidPart, Text, Part
    <3> QED BY <3>1, <3>2, <3>3
  <2>2. n = 0 => 1..n = {}
    OBVIOUS
  <2> QED BY <1>7, <2>1, <2>2
<1> QED BY <1>2, <1>4, <1>5, <1>6, <1>8

LEMMA TriedGrows ==
  ASSUME NEW f \in Nat \ {0}, NEW g \in BOOLEAN, NEW n \in Nat
  PROVE  /\ TriedUpTo(f, g, n) \in Seq(Places) /\ Len(TriedUpTo(f, g, n)) = n
         /\ \A i \in 1..n : TriedUpTo(f, g, n)[i] = Tried(f, g, i)
         /\ TriedUpTo(f, g, 0) = <<>>
         /\ Append(TriedUpTo(f, g, n), Tried(f, g, n + 1)) = TriedUpTo(f, g, n + 1)
<1>1. \A i \in Nat \ {0} : Tried(f, g, i) \in Places
  BY DEF Tried, Text, Part, Places
<1>2. \A k \in Nat : /\ TriedUpTo(f, g, k) \in Seq(Places) /\ Len(TriedUpTo(f, g, k)) = k
                     /\ \A i \in 1..k : TriedUpTo(f, g, k)[i] = Tried(f, g, i)
  <2> TAKE k \in Nat
  <2>1. TriedUpTo(f, g, k) \in Seq(Places) /\ Len(TriedUpTo(f, g, k)) = k
    BY <1>1 DEF TriedUpTo
  <2>2. \A i \in 1..k : TriedUpTo(f, g, k)[i] = Tried(f, g, i)
    BY DEF TriedUpTo
  <2> QED BY <2>1, <2>2
<1>3. TriedUpTo(f, g, 0) = <<>>
  BY DEF TriedUpTo
<1> HIDE DEF TriedUpTo, Tried
<1>4. Append(TriedUpTo(f, g, n), Tried(f, g, n + 1)) = TriedUpTo(f, g, n + 1)
  <2>1. /\ Append(TriedUpTo(f, g, n), Tried(f, g, n + 1)) \in Seq(Places)
        /\ Len(Append(TriedUpTo(f, g, n), Tried(f, g, n + 1))) = n + 1
    BY <1>1, <1>2
  <2>2. \A i \in 1..(n + 1) : Append(TriedUpTo(f, g, n), Tried(f, g, n + 1))[i] = Tried(f, g, i)
    BY <1>2
  <2>3. n + 1 \in Nat
    OBVIOUS
  <2> QED BY <2>1, <2>2, <2>3, <1>2
<1> QED BY <1>2, <1>3, <1>4

LEMMA SameParts ==
  ASSUME NEW u \in Seq(Places), NEW v \in Seq(Places), Len(u) = Len(v),
         \A i \in 1..Len(u) : u[i] = v[i]
  PROVE  u = v
OBVIOUS

\* What follows it at its places makes it longer.
LEMMA TriedJoins ==
  ASSUME NEW f \in Nat \ {0}, NEW g \in BOOLEAN, NEW n \in Nat, NEW m \in Nat,
         NEW t \in Seq(Places), Len(t) = m, \A i \in 1..m : t[i] = Tried(f, g, n + i)
  PROVE  TriedUpTo(f, g, n) \o t = TriedUpTo(f, g, n + m)
<1> DEFINE a == TriedUpTo(f, g, n)
           b == TriedUpTo(f, g, n + m)
           T(i) == Tried(f, g, i)
<1>1. a \in Seq(Places) /\ Len(a) = n /\ \A i \in 1..n : a[i] = T(i)
  BY TriedGrows
<1>2. b \in Seq(Places) /\ Len(b) = n + m /\ \A i \in 1..(n + m) : b[i] = T(i)
  <2>1. PICK k \in Nat : k = n + m
    OBVIOUS
  <2>2. /\ TriedUpTo(f, g, k) \in Seq(Places) /\ Len(TriedUpTo(f, g, k)) = k
        /\ \A i \in 1..k : TriedUpTo(f, g, k)[i] = Tried(f, g, i)
    BY TriedGrows
  <2> QED BY <2>1, <2>2
<1>3. \A i \in 1..m : t[i] = T(n + i)
  OBVIOUS
<1> HIDE DEF a, b, T
<1>4. a \o t \in Seq(Places) /\ Len(a \o t) = n + m
  BY <1>1
<1>5. \A i \in 1..(n + m) : (a \o t)[i] = b[i]
  <2>1. \A i \in 1..n : (a \o t)[i] = b[i]
    BY <1>1, <1>2
  <2>2. \A i \in 1..m : (a \o t)[n + i] = t[i]
    <3>1. \A u, v \in Seq(Places) : \A i \in 1..Len(v) : (u \o v)[Len(u) + i] = v[i]
      OBVIOUS
    <3> QED BY <1>1, <3>1
  <2>3. \A i \in 1..m : b[n + i] = T(n + i)
    BY <1>2
  <2>4. ASSUME NEW i \in 1..(n + m)  PROVE (a \o t)[i] = b[i]
    <3> DEFINE j == i - n
    <3>1. i \in 1..n \/ (j \in 1..m /\ i = n + j)
      OBVIOUS
    <3> HIDE DEF j
    <3>2. CASE j \in 1..m /\ i = n + j
      BY ONLY <3>2, <1>3, <2>2, <2>3
    <3> QED BY <2>1, <3>1, <3>2
  <2> QED BY <2>4
<1>7. a \o t = b
  BY ONLY <1>2, <1>4, <1>5, SameParts
<1> QED BY <1>7 DEF a, b

\* What has its reply: so many parts, and these; and what was attempted and generated.
SegmentSize  == IF segment = 0 THEN 1 ELSE IF segment = 1 THEN shape.first ELSE shape.second
Replied      == IF segment = 2 THEN shape.first + index ELSE index
Before       == IF shape.gif /\ segment # 0 THEN 1 ELSE 0
Whole        == shape.first + shape.second
Planned      == Before + (IF segment = 0 THEN 1 ELSE IF segment = 1 THEN shape.first ELSE Whole)
Shown(n)     == SentUpTo(shape.first, segment, n)
Attempts(n)     == TriedUpTo(shape.first, shape.gif, n)

DeliveryRecords == [attempted : Seq(Places), generated : Seq(Places), replies : Seq(Places),
                    texts : Seq(Places), complete : BOOLEAN, unknown : BOOLEAN, uncertain : Places]

\* Where the loop over the parts stands.
LoopIsAt ==
  /\ shape \in Shapes /\ phase \in Phases /\ segment \in 0..2 /\ index \in Nat
  /\ delivery \in DeliveryRecords
  /\ segment = 0 => shape.gif
  /\ segment = 2 => shape.second > 0
  /\ index <= SegmentSize
  /\ phase = "begin" => index = 0
  /\ phase \in {"send", "waiting", "asking", "refused", "doubtful"} => index < SegmentSize
  /\ phase = "refused" => segment # 0
  /\ phase = "sent" => index = SegmentSize /\ (segment = 1 => shape.second = 0)

\* The replies, and the parts attempted, follow the answer.
FollowsAnswer ==
  /\ delivery.replies = Shown(Replied) /\ delivery.texts = delivery.replies
  /\ delivery.attempted \in {Attempts(Before + Replied), Attempts(Before + Replied + 1)}
  /\ phase \in {"begin", "send", "sent"} => delivery.attempted = Attempts(Before + Replied)
  /\ phase \in {"waiting", "asking", "refused", "doubtful"} \/ delivery.unknown =>
       delivery.attempted = Attempts(Before + Replied + 1)

\* Every part attempted was generated at its place, and the generated parts are complete
\* once a part may be asked for again.
GeneratedFirst ==
  /\ phase = "begin" => delivery.generated = Attempts(Before + Replied)
  /\ phase \in {"send", "waiting", "asking", "sent"} => delivery.generated = Attempts(Planned)
  /\ Len(delivery.attempted) <= Len(delivery.generated)
  /\ \A i \in 1..Len(delivery.attempted) : delivery.generated[i] = delivery.attempted[i]
  /\ delivery.unknown /\ phase # "asking" =>
       Len(delivery.generated) = Before + (IF segment = 0 THEN 1 ELSE Whole)

\* The channel shows the replies, and beyond them at most the uncertain part.
ChannelShows ==
  /\ phase \in {"asking", "doubtful"} => delivery.unknown
  /\ phase \in {"begin", "send", "waiting", "refused", "sent"} => ~delivery.unknown
  /\ ~delivery.unknown => /\ delivery.uncertain = NoPart
                          /\ posted = Shown(Replied) /\ onTheWay = NoPart
  /\ delivery.unknown => /\ index < SegmentSize /\ delivery.uncertain = next
                         /\ \/ posted = Shown(Replied) /\ onTheWay \in {NoPart, next}
                            \/ posted = Shown(Replied + 1) /\ onTheWay = NoPart

\* A delivery is complete once its last part has its reply.
CompleteAtTheEnd ==
  /\ phase \in {"refused", "doubtful", "stopped"} => ~delivery.complete
  /\ phase = "over" /\ delivery.complete =>
       ~delivery.unknown /\ index = SegmentSize /\ (segment = 1 => shape.second = 0)

\* The record is the delivery, or what a later request made of it.
RecordFollows ==
  /\ phase # "over" => record = NoDelivery /\ notice = "none"
  /\ phase = "over" =>
       \/ delivery.attempted = <<>> /\ record = NoDelivery
       \/ delivery.attempted # <<>> /\ record = delivery
       \/ /\ delivery.attempted # <<>> /\ delivery.unknown /\ fits(delivery)
          /\ record = Confirmed(delivery) /\ posted = Shown(Replied + 1)
  /\ notice = "unfinished" => delivery.replies = <<>> /\ ~delivery.unknown

DeliverInv == /\ LoopIsAt /\ FollowsAnswer /\ GeneratedFirst /\ ChannelShows
              /\ CompleteAtTheEnd /\ RecordFollows

\* The part that is next, as the channel and the record know it.
LEMMA NextIs ==
  ASSUME LoopIsAt, index < SegmentSize
  PROVE  /\ next \in Places /\ next # NoPart
         /\ next = SaidPart(shape.first, segment, Replied + 1)
         /\ next = Tried(shape.first, shape.gif, Before + Replied + 1)
<1>1. shape.first \in Nat \ {0} /\ shape.second \in Nat /\ shape.gif \in BOOLEAN
  BY DeliveryAssumption DEF LoopIsAt
<1>2. index \in Nat /\ segment \in 0..2
  BY DEF LoopIsAt
<1>3. next \in Places /\ next # NoPart
  BY <1>2 DEF next, Part, NoPart, Places
<1>4. next = SaidPart(shape.first, segment, Replied + 1)
  BY <1>1, <1>2 DEF next, SaidPart, Text, Replied, SegmentSize
<1>5. next = Tried(shape.first, shape.gif, Before + Replied + 1)
  BY <1>1, <1>2 DEF next, Tried, Text, Replied, Before, SegmentSize, LoopIsAt
<1> QED BY <1>3, <1>4, <1>5

\* How the sequences of the invariant grow.
LEMMA SequencesAre ==
  ASSUME LoopIsAt
  PROVE  /\ Replied \in Nat /\ Before \in Nat /\ Planned \in Nat /\ SegmentSize \in Nat
         /\ shape.first \in Nat \ {0} /\ shape.second \in Nat /\ shape.gif \in BOOLEAN
         /\ \A n \in Nat : Shown(n) \in Seq(Places) /\ Len(Shown(n)) = n
         /\ \A n \in Nat : /\ Attempts(n) \in Seq(Places) /\ Len(Attempts(n)) = n
                           /\ \A i \in 1..n : Attempts(n)[i] = Tried(shape.first, shape.gif, i)
         /\ Shown(0) = <<>> /\ Attempts(0) = <<>>
<1>1. shape.first \in Nat \ {0} /\ shape.second \in Nat /\ shape.gif \in BOOLEAN
  BY DeliveryAssumption DEF LoopIsAt
<1>2. index \in Nat /\ segment \in 0..2
  BY DEF LoopIsAt
<1>3. Replied \in Nat /\ Before \in Nat /\ Planned \in Nat /\ SegmentSize \in Nat
  BY <1>1, <1>2 DEF Replied, Before, Planned, SegmentSize, Whole
<1>4. \A n \in Nat : Shown(n) \in Seq(Places) /\ Len(Shown(n)) = n
  <2> TAKE n \in Nat
  <2>1. PICK f \in Nat \ {0}, s \in 0..2 : f = shape.first /\ s = segment
    BY <1>1, <1>2
  <2>2. SentUpTo(f, s, n) \in Seq(Places) /\ Len(SentUpTo(f, s, n)) = n
    BY SentGrows
  <2> QED BY <2>1, <2>2 DEF Shown
<1>5. \A n \in Nat : /\ Attempts(n) \in Seq(Places) /\ Len(Attempts(n)) = n
                     /\ \A i \in 1..n : Attempts(n)[i] = Tried(shape.first, shape.gif, i)
  <2> TAKE n \in Nat
  <2> QED BY <1>1, TriedGrows DEF Attempts
<1>6. Shown(0) = <<>> /\ Attempts(0) = <<>>
  BY <1>1, <1>2, SentGrows, TriedGrows DEF Shown, Attempts
<1> QED BY <1>1, <1>3, <1>4, <1>5, <1>6

\* With the next part, the replies and the attempts are one longer.
LEMMA OneMore ==
  ASSUME LoopIsAt, index < SegmentSize
  PROVE  /\ Append(Shown(Replied), next) = Shown(Replied + 1)
         /\ Append(Attempts(Before + Replied), next) = Attempts(Before + Replied + 1)
         /\ next \notin ToSet(Shown(Replied))
<1>1. shape.first \in Nat \ {0} /\ shape.gif \in BOOLEAN /\ Replied \in Nat /\ Before \in Nat
  BY SequencesAre
<1>2. segment \in 0..2 /\ (segment # 0 \/ Replied = 0)
  BY DEF LoopIsAt, SegmentSize, Replied
<1>3. Before + Replied \in Nat
  BY <1>1
<1>4. Append(Shown(Replied), next) = Shown(Replied + 1) /\ next \notin ToSet(Shown(Replied))
  <2>1. PICK f \in Nat \ {0}, s \in 0..2, n \in Nat : f = shape.first /\ s = segment /\ n = Replied
    BY <1>1, <1>2
  <2>2. /\ Append(SentUpTo(f, s, n), SaidPart(f, s, n + 1)) = SentUpTo(f, s, n + 1)
        /\ s # 0 \/ n = 0 => SaidPart(f, s, n + 1) \notin ToSet(SentUpTo(f, s, n))
    BY SentGrows
  <2>3. next = SaidPart(f, s, n + 1)
    BY <2>1, NextIs
  <2> QED BY <1>2, <2>1, <2>2, <2>3 DEF Shown
<1>5. Append(Attempts(Before + Replied), next) = Attempts(Before + Replied + 1)
  <2>1. PICK f \in Nat \ {0}, g \in BOOLEAN, n \in Nat :
           f = shape.first /\ g = shape.gif /\ n = Before + Replied
    BY <1>1, <1>3
  <2>2. Append(TriedUpTo(f, g, n), Tried(f, g, n + 1)) = TriedUpTo(f, g, n + 1)
    BY TriedGrows
  <2>3. next = Tried(f, g, n + 1)
    BY <2>1, NextIs
  <2> QED BY <2>1, <2>2, <2>3 DEF Attempts
<1> QED BY <1>4, <1>5

\* A segment that begins adds its parts at their places.
LEMMA SegmentAdds ==
  ASSUME LoopIsAt, index = 0
  PROVE  /\ PartsOf(segment) \in Seq(Places)
         /\ Attempts(Before + Replied) \o PartsOf(segment) = Attempts(Planned)
<1>1. shape.first \in Nat \ {0} /\ shape.second \in Nat /\ shape.gif \in BOOLEAN
      /\ Replied \in Nat /\ Before \in Nat
  BY SequencesAre
<1>2. segment \in 0..2 /\ (segment = 0 => shape.gif)
  BY DEF LoopIsAt
<1>3. PartsOf(segment) \in Seq(Places) /\ Len(PartsOf(segment)) = SegmentSize
  <2>1. SegmentSize \in Nat /\ PartsOf(segment) = [i \in 1..SegmentSize |-> Part(segment, i)]
    BY <1>1, <1>2 DEF PartsOf, SegmentSize
  <2>2. \A i \in 1..SegmentSize : Part(segment, i) \in Places
    BY <1>2, <2>1 DEF Part, Places
  <2> QED BY <2>1, <2>2
<1>4. Planned = Before + Replied + SegmentSize
  BY <1>1, <1>2 DEF Planned, Replied, SegmentSize, Whole
<1>5. ASSUME NEW i \in 1..SegmentSize
      PROVE  PartsOf(segment)[i] = Tried(shape.first, shape.gif, Before + Replied + i)
  <2>1. PartsOf(segment)[i] = Part(segment, i)
    BY <1>1, <1>2, <1>5 DEF PartsOf, SegmentSize
  <2>2. Part(segment, i) = Tried(shape.first, shape.gif, Before + Replied + i)
    BY <1>1, <1>2, <1>5 DEF Tried, Text, SegmentSize, Before, Replied
  <2> QED BY <2>1, <2>2
<1>6. SegmentSize \in Nat /\ Before + Replied \in Nat
  BY <1>1, <1>2 DEF SegmentSize
<1>7. Attempts(Before + Replied) \o PartsOf(segment) = Attempts(Before + Replied + SegmentSize)
  <2>1. PICK f \in Nat \ {0}, g \in BOOLEAN, n \in Nat, m \in Nat, t \in Seq(Places) :
           /\ f = shape.first /\ g = shape.gif /\ n = Before + Replied /\ m = SegmentSize
           /\ t = PartsOf(segment)
    BY <1>1, <1>3, <1>6
  <2>2. Len(t) = m /\ \A i \in 1..m : t[i] = Tried(f, g, n + i)
    BY <1>3, <1>5, <2>1
  <2>3. TriedUpTo(f, g, n) \o t = TriedUpTo(f, g, n + m)
    BY <2>2, TriedJoins
  <2> QED BY <2>1, <2>3 DEF Attempts
<1> QED BY <1>3, <1>4, <1>7

\* What was attempted has room in what was planned, and agrees with it.
LEMMA AttemptsAgree ==
  ASSUME LoopIsAt, NEW a \in {Before + Replied, Before + Replied + 1},
         a = Before + Replied + 1 => index < SegmentSize
  PROVE  /\ Len(Attempts(a)) <= Len(Attempts(Planned))
         /\ \A i \in 1..Len(Attempts(a)) : Attempts(Planned)[i] = Attempts(a)[i]
<1>1. /\ shape.first \in Nat \ {0} /\ shape.second \in Nat /\ shape.gif \in BOOLEAN
      /\ Replied \in Nat /\ Before \in Nat /\ Planned \in Nat
  BY SequencesAre
<1>2. segment \in 0..2 /\ index \in Nat /\ index <= SegmentSize
  BY DEF LoopIsAt
<1>3. a \in Nat /\ a <= Planned
  BY <1>1, <1>2 DEF Planned, Before, Replied, SegmentSize, Whole
<1>4. /\ Len(Attempts(a)) = a /\ Len(Attempts(Planned)) = Planned
      /\ \A i \in 1..a : Attempts(a)[i] = Tried(shape.first, shape.gif, i)
      /\ \A i \in 1..Planned : Attempts(Planned)[i] = Tried(shape.first, shape.gif, i)
  BY <1>1, <1>3, SequencesAre
<1>5. \A i \in 1..a : i \in 1..Planned
  BY <1>1, <1>3
<1> QED BY <1>3, <1>4, <1>5

\* What is generated agrees with what was attempted.
Agree(d) == /\ Len(d.attempted) <= Len(d.generated)
            /\ \A i \in 1..Len(d.attempted) : d.generated[i] = d.attempted[i]

\* A failure leaves the parts never tried, and the answer incomplete.
LEMMA PendingKeeps ==
  ASSUME LoopIsAt, NEW d \in DeliveryRecords, Agree(d)
  PROVE  /\ pending(d) \in DeliveryRecords /\ Agree(pending(d)) /\ ~pending(d).complete
         /\ pending(d).attempted = d.attempted /\ pending(d).replies = d.replies
         /\ pending(d).texts = d.texts /\ pending(d).unknown = d.unknown
         /\ pending(d).uncertain = d.uncertain
         /\ d.generated = Attempts(Planned) =>
              Len(pending(d).generated) = Before + (IF segment = 0 THEN 1 ELSE Whole)
<1>1. /\ shape.first \in Nat \ {0} /\ shape.second \in Nat /\ segment \in 0..2
      /\ segment = 2 => shape.second > 0
      /\ Before \in Nat /\ Planned \in Nat /\ Len(Attempts(Planned)) = Planned
  BY SequencesAre DEF LoopIsAt
<1>2. d.generated \in Seq(Places) /\ d.attempted \in Seq(Places)
  BY DEF DeliveryRecords
<1>3. PartsOf(2) \in Seq(Places) /\ Len(PartsOf(2)) = shape.second
  <2>1. PartsOf(2) = [i \in 1..shape.second |-> Part(2, i)]
    BY DEF PartsOf
  <2>2. \A i \in 1..shape.second : Part(2, i) \in Places
    BY <1>1 DEF Part, Places
  <2> QED BY <1>1, <2>1, <2>2
<1>4. CASE segment = 1 /\ shape.second > 0
  <2>1. pending(d) = [d EXCEPT !.generated = @ \o PartsOf(2), !.complete = FALSE]
    BY <1>4 DEF pending
  <2>2. /\ pending(d) \in DeliveryRecords /\ ~pending(d).complete
        /\ pending(d).generated = d.generated \o PartsOf(2)
        /\ pending(d).attempted = d.attempted /\ pending(d).replies = d.replies
        /\ pending(d).texts = d.texts /\ pending(d).unknown = d.unknown
        /\ pending(d).uncertain = d.uncertain
    <3>1. d.generated \o PartsOf(2) \in Seq(Places)
      BY <1>2, <1>3
    <3> QED BY <2>1, <3>1 DEF DeliveryRecords
  <2>3. /\ Len(d.generated \o PartsOf(2)) = Len(d.generated) + shape.second
        /\ \A i \in 1..Len(d.generated) : (d.generated \o PartsOf(2))[i] = d.generated[i]
    <3> DEFINE g == d.generated  p == PartsOf(2)
    <3>1. g \in Seq(Places) /\ p \in Seq(Places) /\ Len(p) = shape.second
      BY <1>2, <1>3
    <3> HIDE DEF g, p
    <3>2. Len(g \o p) = Len(g) + Len(p) /\ \A i \in 1..Len(g) : (g \o p)[i] = g[i]
      BY ONLY <3>1, ConcatIs
    <3> QED BY <3>1, <3>2 DEF g, p
  <2>4. Agree(pending(d))
    <3>1. \A i \in 1..Len(d.attempted) : i \in 1..Len(d.generated)
      BY <1>2 DEF Agree
    <3>2. Len(d.attempted) <= Len(d.generated) + shape.second
      BY <1>1, <1>2 DEF Agree
    <3> QED BY <2>2, <2>3, <3>1, <3>2 DEF Agree
  <2>5. Planned + shape.second = Before + Whole
    BY <1>1, <1>4 DEF Planned, Whole
  <2> QED BY <1>1, <1>4, <2>2, <2>3, <2>4, <2>5
<1>5. CASE ~(segment = 1 /\ shape.second > 0)
  <2>1. pending(d) = [d EXCEPT !.complete = FALSE]
    BY <1>5 DEF pending
  <2>2. /\ pending(d) \in DeliveryRecords /\ ~pending(d).complete
        /\ pending(d).generated = d.generated
        /\ pending(d).attempted = d.attempted /\ pending(d).replies = d.replies
        /\ pending(d).texts = d.texts /\ pending(d).unknown = d.unknown
        /\ pending(d).uncertain = d.uncertain
    BY <2>1 DEF DeliveryRecords
  <2>3. Planned = Before + (IF segment = 0 THEN 1 ELSE Whole)
    BY <1>1, <1>5 DEF Planned, Whole
  <2> QED BY <1>1, <2>2, <2>3 DEF Agree
<1> QED BY <1>4, <1>5

\* While the place in the answer stays, so does what it says of the sequences.
LEMMA PlaceStays ==
  ASSUME UNCHANGED <<shape, segment, index>>
  PROVE  /\ UNCHANGED <<SegmentSize, Replied, Before, Whole, Planned, next>>
         /\ Shown(Replied)' = Shown(Replied) /\ Shown(Replied + 1)' = Shown(Replied + 1)
         /\ Attempts(Before + Replied)' = Attempts(Before + Replied)
         /\ Attempts(Before + Replied + 1)' = Attempts(Before + Replied + 1)
         /\ Attempts(Planned)' = Attempts(Planned)
BY DEF SegmentSize, Replied, Before, Whole, Planned, next, Shown, Attempts

LEMMA DeliverStarts == DeliverInit => DeliverInv
<1> SUFFICES ASSUME DeliverInit  PROVE DeliverInv
  OBVIOUS
<1>1. shape.first \in Nat \ {0} /\ shape.second \in Nat /\ shape.gif \in BOOLEAN
  BY DeliveryAssumption DEF DeliverInit
<1>2. delivery \in DeliveryRecords
  BY DEF DeliverInit, NoDelivery, NoPart, Part, Places, DeliveryRecords
<1>3. LoopIsAt
  BY <1>1, <1>2 DEF DeliverInit, LoopIsAt, Phases, SegmentSize
<1>4. Replied = 0 /\ Before = 0
  BY <1>1 DEF DeliverInit, Replied, Before
<1>5. Shown(Replied) = <<>> /\ Attempts(Before + Replied) = <<>>
  BY <1>3, <1>4, SequencesAre
<1>6. FollowsAnswer
  BY <1>5 DEF DeliverInit, FollowsAnswer, NoDelivery
<1>7. GeneratedFirst
  BY <1>5 DEF DeliverInit, GeneratedFirst, NoDelivery
<1>8. ChannelShows /\ CompleteAtTheEnd /\ RecordFollows
  BY <1>5 DEF DeliverInit, ChannelShows, CompleteAtTheEnd, RecordFollows, NoDelivery
<1> QED BY <1>3, <1>6, <1>7, <1>8 DEF DeliverInv

\* A segment begins: its parts are generated.
LEMMA BeginSegmentKeeps == DeliverInv /\ BeginSegment => DeliverInv'
<1> SUFFICES ASSUME DeliverInv, BeginSegment  PROVE DeliverInv'
  OBVIOUS
<1>0. LoopIsAt /\ FollowsAnswer /\ GeneratedFirst /\ ChannelShows /\ CompleteAtTheEnd /\ RecordFollows
  BY DEF DeliverInv
<1>1. phase = "begin" /\ phase' = "send" /\ UNCHANGED <<shape, segment, index>>
      /\ UNCHANGED <<record, posted, onTheWay, notice>>
  BY DEF BeginSegment
<1>2. index = 0 /\ 0 < SegmentSize
  BY <1>0, <1>1, SequencesAre DEF LoopIsAt, SegmentSize
<1>3. delivery.generated = Attempts(Before + Replied)
  BY <1>0, <1>1 DEF GeneratedFirst
<1>4. delivery.generated \o PartsOf(segment) = Attempts(Planned)
  BY <1>0, <1>2, <1>3, SegmentAdds
<1>5. Attempts(Planned) \in Seq(Places)
  BY <1>0, SequencesAre
<1>6. /\ delivery' \in DeliveryRecords /\ delivery'.generated = Attempts(Planned)
      /\ delivery'.attempted = delivery.attempted /\ delivery'.replies = delivery.replies
      /\ delivery'.texts = delivery.texts /\ delivery'.unknown = delivery.unknown
      /\ delivery'.uncertain = delivery.uncertain
  BY <1>0, <1>4, <1>5 DEF BeginSegment, LoopIsAt, DeliveryRecords
<1>7. LoopIsAt'
  BY <1>0, <1>1, <1>2, <1>6, PlaceStays DEF LoopIsAt, Phases
<1>8. delivery.attempted = Attempts(Before + Replied) /\ ~delivery.unknown
  BY <1>0, <1>1 DEF FollowsAnswer, ChannelShows
<1>9. FollowsAnswer'
  BY <1>0, <1>1, <1>6, <1>8, PlaceStays DEF FollowsAnswer
<1>10. Agree(delivery')
  BY <1>0, <1>6, <1>8, SequencesAre, AttemptsAgree DEF Agree
<1>11. GeneratedFirst'
  BY <1>1, <1>6, <1>8, <1>10, PlaceStays DEF GeneratedFirst, Agree
<1>12. ChannelShows'
  BY <1>0, <1>1, <1>6, <1>8, PlaceStays DEF ChannelShows
<1>13. CompleteAtTheEnd' /\ RecordFollows'
  BY <1>0, <1>1 DEF CompleteAtTheEnd, RecordFollows
<1> QED BY <1>7, <1>9, <1>11, <1>12, <1>13 DEF DeliverInv

\* A part is attempted.
LEMMA AttemptKeeps == DeliverInv /\ Attempt => DeliverInv'
<1> SUFFICES ASSUME DeliverInv, Attempt  PROVE DeliverInv'
  OBVIOUS
<1>0. LoopIsAt /\ FollowsAnswer /\ GeneratedFirst /\ ChannelShows /\ CompleteAtTheEnd /\ RecordFollows
  BY DEF DeliverInv
<1>1. phase = "send" /\ phase' = "waiting" /\ UNCHANGED <<shape, segment, index>>
      /\ UNCHANGED <<record, posted, onTheWay, notice>>
  BY DEF Attempt
<1>2. index < SegmentSize /\ delivery.generated = Attempts(Planned) /\ ~delivery.unknown
      /\ delivery.attempted = Attempts(Before + Replied)
  BY <1>0, <1>1 DEF LoopIsAt, GeneratedFirst, FollowsAnswer, ChannelShows
<1>3. Append(delivery.attempted, next) = Attempts(Before + Replied + 1)
  BY <1>0, <1>2, OneMore
<1>4. Attempts(Before + Replied + 1) \in Seq(Places)
  <2>1. Before + Replied + 1 \in Nat
    BY <1>0, SequencesAre
  <2> QED BY <1>0, <2>1, SequencesAre
<1>6. /\ delivery' \in DeliveryRecords /\ delivery'.generated = Attempts(Planned)
      /\ delivery'.attempted = Attempts(Before + Replied + 1) /\ delivery'.replies = delivery.replies
      /\ delivery'.texts = delivery.texts /\ delivery'.unknown = delivery.unknown
      /\ delivery'.uncertain = delivery.uncertain
  BY <1>0, <1>2, <1>3, <1>4 DEF Attempt, LoopIsAt, DeliveryRecords
<1>7. LoopIsAt'
  BY <1>0, <1>1, <1>2, <1>6, PlaceStays DEF LoopIsAt, Phases
<1>9. FollowsAnswer'
  BY <1>0, <1>1, <1>6, PlaceStays DEF FollowsAnswer
<1>10. Agree(delivery')
  BY <1>0, <1>2, <1>6, SequencesAre, AttemptsAgree DEF Agree
<1>11. GeneratedFirst'
  BY <1>1, <1>2, <1>6, <1>10, PlaceStays DEF GeneratedFirst, Agree
<1>12. ChannelShows'
  BY <1>0, <1>1, <1>2, <1>6, PlaceStays DEF ChannelShows
<1>13. CompleteAtTheEnd' /\ RecordFollows'
  BY <1>0, <1>1 DEF CompleteAtTheEnd, RecordFollows
<1> QED BY <1>7, <1>9, <1>11, <1>12, <1>13 DEF DeliverInv

\* A part has its reply: the loop goes on, the next segment begins, or the answer is there.
LEMMA LoopGoesOn ==
  ASSUME DeliverInv, phase \in {"waiting", "asking"}, posted' = Shown(Replied + 1), onTheWay' = NoPart,
         UNCHANGED <<shape, record, notice>>,
         NEW d, d \in DeliveryRecords, d.replies = Shown(Replied + 1), d.texts = d.replies,
         d.attempted = Attempts(Before + Replied + 1), d.generated = Attempts(Planned), ~d.unknown,
         d.uncertain = NoPart, follows(d)
  PROVE  DeliverInv'
<1>0. LoopIsAt /\ RecordFollows /\ index < SegmentSize
  BY DEF DeliverInv, LoopIsAt
<1>1. /\ shape.first \in Nat \ {0} /\ shape.second \in Nat /\ shape.gif \in BOOLEAN
      /\ Replied \in Nat /\ Before \in Nat /\ Planned \in Nat
      /\ segment \in 0..2 /\ index \in Nat /\ Len(PartsOf(segment)) = SegmentSize
  <2>1. segment \in 0..2 /\ index \in Nat
    BY <1>0 DEF LoopIsAt
  <2>2. shape.first \in Nat \ {0} /\ shape.second \in Nat
    BY <1>0, SequencesAre
  <2>3. Len(PartsOf(segment)) = SegmentSize
    BY <2>1, <2>2 DEF PartsOf, SegmentSize
  <2> QED BY <1>0, <2>1, <2>3, SequencesAre
<1>2. Agree(d)
  BY <1>0, AttemptsAgree DEF Agree
<1>3. record = NoDelivery /\ notice = "none" /\ record' = NoDelivery /\ notice' = "none"
  BY <1>0 DEF RecordFollows
<1>4. CASE /\ index + 1 < Len(PartsOf(segment))
           /\ phase' = "send" /\ delivery' = d /\ UNCHANGED segment /\ index' = index + 1
  <2>1. SegmentSize' = SegmentSize /\ Replied' = Replied + 1 /\ Before' = Before /\ Planned' = Planned
    <3>1. shape' = shape /\ segment' = segment /\ index' = index + 1
      BY <1>4
    <3>2. index \in Nat /\ shape.first \in Nat
      BY <1>1
    <3>3. Before' = Before /\ Whole' = Whole /\ SegmentSize' = SegmentSize
      BY ONLY <3>1 DEF Before, Whole, SegmentSize
    <3>4. Planned' = Planned
      BY ONLY <3>1, <3>3 DEF Planned
    <3>5. Replied' = Replied + 1
      BY ONLY <3>1, <3>2 DEF Replied
    <3> QED BY <3>3, <3>4, <3>5
  <2>2. LoopIsAt'
    BY <1>0, <1>1, <1>4, <2>1 DEF LoopIsAt, Phases
  <2>3. Shown(Replied)' = Shown(Replied + 1)
    BY <1>4, <2>1 DEF Shown
  <2>4. Attempts(Before + Replied)' = Attempts(Before + Replied + 1) /\ Attempts(Planned)' = Attempts(Planned)
    BY <1>1, <2>1 DEF Attempts
  <2>5. FollowsAnswer'
    BY <1>4, <2>3, <2>4 DEF FollowsAnswer
  <2>6. GeneratedFirst'
    BY <1>2, <1>4, <2>4 DEF GeneratedFirst, Agree
  <2>7. ChannelShows'
    BY <1>4, <2>3 DEF ChannelShows
  <2>8. CompleteAtTheEnd' /\ RecordFollows'
    BY <1>3, <1>4 DEF CompleteAtTheEnd, RecordFollows
  <2> QED BY <2>2, <2>5, <2>6, <2>7, <2>8 DEF DeliverInv
<1>5. CASE /\ ~(index + 1 < Len(PartsOf(segment))) /\ segment = 1 /\ shape.second > 0
           /\ phase' = "begin" /\ segment' = 2 /\ index' = 0
           /\ delivery' = [d EXCEPT !.complete = TRUE]
  <2>0. /\ delivery' \in DeliveryRecords /\ delivery'.generated = d.generated
        /\ delivery'.attempted = d.attempted /\ delivery'.replies = d.replies
        /\ delivery'.texts = d.texts /\ delivery'.unknown = d.unknown
        /\ delivery'.uncertain = d.uncertain
    BY <1>5 DEF DeliveryRecords
  <2>1. index + 1 = shape.first /\ Replied = index
    BY <1>0, <1>1, <1>5 DEF SegmentSize, Replied
  <2>2. Replied' = Replied + 1 /\ Before' = Before /\ Planned = Before + Replied + 1
    BY <1>1, <1>5, <2>1 DEF Replied, Before, Planned
  <2>3. LoopIsAt'
    BY <1>0, <1>1, <1>5, <2>0 DEF LoopIsAt, Phases, SegmentSize
  <2>4. Shown(Replied)' = Shown(Replied + 1)
    <3>1. PICK f \in Nat \ {0}, n \in Nat : f = shape.first /\ n = Replied + 1
      BY <1>1
    <3>2. SentUpTo(f, 1, n) = SentUpTo(f, 2, n)
      BY SentGrows
    <3> QED BY <1>5, <2>2, <3>1, <3>2 DEF Shown
  <2>5. Attempts(Before + Replied)' = Attempts(Before + Replied + 1) /\ Attempts(Planned) = Attempts(Before + Replied + 1)
    BY <1>1, <2>2 DEF Attempts
  <2>6. FollowsAnswer'
    BY <1>5, <2>0, <2>4, <2>5 DEF FollowsAnswer
  <2>7. GeneratedFirst'
    BY <1>2, <1>5, <2>0, <2>5 DEF GeneratedFirst, Agree
  <2>8. ChannelShows'
    BY <1>5, <2>0, <2>4 DEF ChannelShows
  <2>9. CompleteAtTheEnd' /\ RecordFollows'
    BY <1>3, <1>5 DEF CompleteAtTheEnd, RecordFollows
  <2> QED BY <2>3, <2>6, <2>7, <2>8, <2>9 DEF DeliverInv
<1>6. CASE /\ ~(index + 1 < Len(PartsOf(segment))) /\ ~(segment = 1 /\ shape.second > 0)
           /\ phase' = "sent" /\ UNCHANGED segment /\ index' = index + 1
           /\ delivery' = [d EXCEPT !.complete = TRUE]
  <2>0. /\ delivery' \in DeliveryRecords /\ delivery'.generated = d.generated
        /\ delivery'.attempted = d.attempted /\ delivery'.replies = d.replies
        /\ delivery'.texts = d.texts /\ delivery'.unknown = d.unknown
        /\ delivery'.uncertain = d.uncertain
    BY <1>6 DEF DeliveryRecords
  <2>1. SegmentSize' = SegmentSize /\ Replied' = Replied + 1 /\ Before' = Before /\ Planned' = Planned
    BY <1>1, <1>6 DEF SegmentSize, Replied, Before, Planned, Whole
  <2>2. LoopIsAt'
    BY SMTT(30), <1>0, <1>1, <1>6, <2>0, <2>1 DEF LoopIsAt, Phases, SegmentSize
  <2>3. Shown(Replied)' = Shown(Replied + 1)
    BY <1>6, <2>1 DEF Shown
  <2>4. Attempts(Before + Replied)' = Attempts(Before + Replied + 1) /\ Attempts(Planned)' = Attempts(Planned)
    BY <1>1, <2>1 DEF Attempts
  <2>5. FollowsAnswer'
    BY <1>6, <2>0, <2>3, <2>4 DEF FollowsAnswer
  <2>6. GeneratedFirst'
    BY <1>2, <1>6, <2>0, <2>4 DEF GeneratedFirst, Agree
  <2>7. ChannelShows'
    BY <1>6, <2>0, <2>3 DEF ChannelShows
  <2>8. CompleteAtTheEnd' /\ RecordFollows'
    BY <1>3, <1>6 DEF CompleteAtTheEnd, RecordFollows
  <2> QED BY <2>2, <2>5, <2>6, <2>7, <2>8 DEF DeliverInv
<1> QED BY <1>4, <1>5, <1>6 DEF follows

LEMMA RepliesKeep == DeliverInv /\ (Accepted \/ Found) => DeliverInv'
<1> SUFFICES ASSUME DeliverInv, Accepted \/ Found  PROVE DeliverInv'
  OBVIOUS
<1>0. LoopIsAt /\ FollowsAnswer /\ GeneratedFirst /\ ChannelShows
  BY DEF DeliverInv
<1>1. phase \in {"waiting", "asking"}
  BY DEF Accepted, Found
<1>2. index < SegmentSize
  BY <1>0, <1>1 DEF LoopIsAt
<1>3. /\ next \in Places /\ next # NoPart
      /\ Append(Shown(Replied), next) = Shown(Replied + 1) /\ next \notin ToSet(Shown(Replied))
  BY <1>0, <1>2, NextIs, OneMore
<1>4. Shown(Replied + 1) \in Seq(Places)
  <2>1. Replied + 1 \in Nat
    BY <1>0, SequencesAre
  <2> QED BY <1>0, <2>1, SequencesAre
<1>5. /\ delivery \in DeliveryRecords /\ delivery.replies = Shown(Replied) /\ delivery.texts = Shown(Replied)
      /\ delivery.attempted = Attempts(Before + Replied + 1) /\ delivery.generated = Attempts(Planned)
  BY <1>0, <1>1 DEF LoopIsAt, FollowsAnswer, GeneratedFirst
<1>6. CASE Accepted
  <2>1. phase = "waiting" /\ posted' = Append(posted, next) /\ follows(received(delivery, next))
        /\ UNCHANGED <<shape, record, onTheWay, notice>>
    BY <1>6 DEF Accepted
  <2>2. ~delivery.unknown /\ delivery.uncertain = NoPart /\ posted = Shown(Replied) /\ onTheWay = NoPart
    BY <1>0, <2>1 DEF ChannelShows
  <2>3. /\ received(delivery, next) \in DeliveryRecords
        /\ received(delivery, next).replies = Shown(Replied + 1)
        /\ received(delivery, next).texts = received(delivery, next).replies
        /\ received(delivery, next).attempted = Attempts(Before + Replied + 1)
        /\ received(delivery, next).generated = Attempts(Planned)
        /\ ~received(delivery, next).unknown
        /\ received(delivery, next).uncertain = NoPart
    BY <1>3, <1>4, <1>5, <2>2 DEF received, DeliveryRecords
  <2> QED BY <1>3, <2>1, <2>2, <2>3, LoopGoesOn
<1>7. CASE Found
  <2> DEFINE clear == [delivery EXCEPT !.unknown = FALSE, !.uncertain = NoPart]
  <2>1. phase = "asking" /\ next \in ToSet(posted) /\ follows(received(clear, next))
        /\ UNCHANGED <<shape, record, posted, onTheWay, notice>>
    BY <1>7 DEF Found, seen
  <2>2. posted = Shown(Replied + 1) /\ onTheWay = NoPart
    BY <1>0, <1>3, <2>1 DEF ChannelShows
  <2>3. /\ clear \in DeliveryRecords /\ ~clear.unknown /\ clear.uncertain = NoPart
        /\ clear.replies = Shown(Replied) /\ clear.texts = Shown(Replied)
        /\ clear.attempted = Attempts(Before + Replied + 1) /\ clear.generated = Attempts(Planned)
    <3>1. NoPart \in Places
      BY DEF NoPart, Part, Places
    <3>2. clear \in DeliveryRecords
      BY <1>5, <3>1 DEF DeliveryRecords
    <3> QED BY <1>5, <3>2 DEF DeliveryRecords
  <2> HIDE DEF clear
  <2>4. /\ received(clear, next) \in DeliveryRecords
        /\ received(clear, next).replies = Shown(Replied + 1)
        /\ received(clear, next).texts = received(clear, next).replies
        /\ received(clear, next).attempted = Attempts(Before + Replied + 1)
        /\ received(clear, next).generated = Attempts(Planned)
        /\ ~received(clear, next).unknown
        /\ received(clear, next).uncertain = NoPart
    BY <1>3, <1>4, <2>3 DEF received, DeliveryRecords
  <2> QED BY <2>1, <2>2, <2>4, LoopGoesOn
<1> QED BY <1>6, <1>7

\* A step that leaves the place in the answer, the replies and what was attempted alone, and
\* ends in phase p with the delivery d.
LEMMA FailureKeeps ==
  ASSUME DeliverInv, UNCHANGED <<shape, segment, index, record, notice>>, phase # "over",
         NEW d, d \in DeliveryRecords, Agree(d), delivery' = d,
         phase' \in {"asking", "refused", "doubtful", "stopped"},
         phase' \in {"asking", "refused", "doubtful"} => index < SegmentSize,
         phase' = "refused" => segment # 0,
         d.replies = delivery.replies, d.texts = delivery.texts,
         d.attempted = delivery.attempted,
         phase' \in {"asking", "refused", "doubtful"} \/ d.unknown =>
           d.attempted = Attempts(Before + Replied + 1),
         phase' = "asking" => d.generated = Attempts(Planned),
         phase' # "asking" => ~d.complete,
         d.unknown /\ phase' # "asking" =>
           Len(d.generated) = Before + (IF segment = 0 THEN 1 ELSE Whole),
         phase' \in {"asking", "doubtful"} => d.unknown, phase' = "refused" => ~d.unknown,
         d.unknown => index < SegmentSize /\ d.uncertain = next,
         ~d.unknown => d.uncertain = NoPart /\ posted' = Shown(Replied) /\ onTheWay' = NoPart,
         d.unknown => \/ posted' = Shown(Replied) /\ onTheWay' \in {NoPart, next}
                      \/ posted' = Shown(Replied + 1) /\ onTheWay' = NoPart
  PROVE  DeliverInv'
<1>0. LoopIsAt /\ FollowsAnswer /\ RecordFollows
  BY DEF DeliverInv
<1>1. LoopIsAt'
  BY <1>0, PlaceStays DEF LoopIsAt, Phases
<1>2. FollowsAnswer'
  BY <1>0, PlaceStays DEF FollowsAnswer
<1>3. GeneratedFirst'
  BY PlaceStays DEF GeneratedFirst, Agree
<1>4. ChannelShows'
  BY PlaceStays DEF ChannelShows
<1>5. CompleteAtTheEnd'
  BY DEF CompleteAtTheEnd
<1>6. RecordFollows'
  BY <1>0 DEF RecordFollows
<1> QED BY <1>1, <1>2, <1>3, <1>4, <1>5, <1>6 DEF DeliverInv

\* A response is lost: the part is in the channel, on its way or nowhere.
LEMMA LostLeaves ==
  ASSUME DeliverInv, phase = "waiting", Lost
  PROVE  /\ uncertain(delivery) \in DeliveryRecords /\ Agree(uncertain(delivery))
         /\ uncertain(delivery).replies = delivery.replies
         /\ uncertain(delivery).texts = delivery.texts
         /\ uncertain(delivery).attempted = delivery.attempted
         /\ delivery.attempted = Attempts(Before + Replied + 1)
         /\ uncertain(delivery).generated = Attempts(Planned)
         /\ uncertain(delivery).unknown /\ uncertain(delivery).uncertain = next
         /\ index < SegmentSize
         /\ \/ posted' = Shown(Replied) /\ onTheWay' \in {NoPart, next}
            \/ posted' = Shown(Replied + 1) /\ onTheWay' = NoPart
<1>0. LoopIsAt /\ FollowsAnswer /\ GeneratedFirst /\ ChannelShows
  BY DEF DeliverInv
<1>1. index < SegmentSize /\ delivery \in DeliveryRecords
  BY <1>0 DEF LoopIsAt
<1>2. next \in Places /\ Append(Shown(Replied), next) = Shown(Replied + 1)
  BY <1>0, <1>1, NextIs, OneMore
<1>3. posted = Shown(Replied) /\ onTheWay = NoPart
  BY <1>0 DEF ChannelShows
<1>4. \/ posted' = Shown(Replied) /\ onTheWay' \in {NoPart, next}
      \/ posted' = Shown(Replied + 1) /\ onTheWay' = NoPart
  BY <1>2, <1>3 DEF Lost
<1>5. /\ uncertain(delivery) \in DeliveryRecords
      /\ uncertain(delivery).replies = delivery.replies
      /\ uncertain(delivery).texts = delivery.texts
      /\ uncertain(delivery).attempted = delivery.attempted
      /\ uncertain(delivery).generated = delivery.generated
      /\ uncertain(delivery).unknown /\ uncertain(delivery).uncertain = next
  BY <1>1, <1>2 DEF uncertain, DeliveryRecords
<1>6. delivery.attempted = Attempts(Before + Replied + 1) /\ delivery.generated = Attempts(Planned)
  BY <1>0 DEF FollowsAnswer, GeneratedFirst
<1>7. Agree(uncertain(delivery))
  BY <1>0, <1>5 DEF Agree, GeneratedFirst
<1> QED BY <1>1, <1>4, <1>5, <1>6, <1>7

LEMMA UncertainKeeps == DeliverInv /\ Uncertain => DeliverInv'
<1> SUFFICES ASSUME DeliverInv, Uncertain  PROVE DeliverInv'
  OBVIOUS
<1>1. /\ phase = "waiting" /\ Lost /\ delivery' = uncertain(delivery) /\ phase' = "asking"
      /\ UNCHANGED <<shape, segment, index, record, notice>>
  BY DEF Uncertain
<1> QED BY <1>1, LostLeaves, FailureKeeps

LEMMA NotFoundKeeps == DeliverInv /\ NotFound => DeliverInv'
<1> SUFFICES ASSUME DeliverInv, NotFound  PROVE DeliverInv'
  OBVIOUS
<1>1. /\ phase = "asking" /\ delivery' = pending(delivery) /\ phase' = "doubtful"
      /\ UNCHANGED <<shape, segment, index, record, posted, onTheWay, notice>>
  BY DEF NotFound
<1>2. LoopIsAt /\ FollowsAnswer /\ GeneratedFirst /\ ChannelShows
  BY DEF DeliverInv
<1>3. delivery \in DeliveryRecords /\ Agree(delivery) /\ index < SegmentSize /\ delivery.unknown
      /\ delivery.generated = Attempts(Planned) /\ delivery.attempted = Attempts(Before + Replied + 1)
      /\ delivery.uncertain = next
      /\ \/ posted = Shown(Replied) /\ onTheWay \in {NoPart, next}
         \/ posted = Shown(Replied + 1) /\ onTheWay = NoPart
  BY <1>1, <1>2 DEF LoopIsAt, FollowsAnswer, GeneratedFirst, ChannelShows, Agree
<1> QED BY <1>1, <1>2, <1>3, PendingKeeps, FailureKeeps

LEMMA TimesOutKeeps == DeliverInv /\ TimesOut => DeliverInv'
<1> SUFFICES ASSUME DeliverInv, TimesOut  PROVE DeliverInv'
  OBVIOUS
<1>1. phase' = "stopped" /\ UNCHANGED <<shape, segment, index, record, notice>>
  BY DEF TimesOut
<1>2. LoopIsAt /\ FollowsAnswer /\ GeneratedFirst /\ ChannelShows
  BY DEF DeliverInv
<1>3. CASE phase = "waiting" /\ Lost /\ delivery' = pending(uncertain(delivery))
  <2>1. /\ uncertain(delivery) \in DeliveryRecords /\ Agree(uncertain(delivery))
        /\ uncertain(delivery).generated = Attempts(Planned)
    BY <1>3, LostLeaves
  <2>2. /\ pending(uncertain(delivery)) \in DeliveryRecords /\ Agree(pending(uncertain(delivery)))
        /\ ~pending(uncertain(delivery)).complete
        /\ pending(uncertain(delivery)).attempted = uncertain(delivery).attempted
        /\ pending(uncertain(delivery)).replies = uncertain(delivery).replies
        /\ pending(uncertain(delivery)).texts = uncertain(delivery).texts
        /\ pending(uncertain(delivery)).unknown = uncertain(delivery).unknown
        /\ pending(uncertain(delivery)).uncertain = uncertain(delivery).uncertain
        /\ Len(pending(uncertain(delivery)).generated) = Before + (IF segment = 0 THEN 1 ELSE Whole)
    BY <1>2, <2>1, PendingKeeps
  <2> QED BY <1>1, <1>3, <2>2, LostLeaves, FailureKeeps
<1>4. CASE /\ phase \in {"begin", "send", "asking"} /\ delivery' = pending(delivery)
           /\ UNCHANGED <<posted, onTheWay>>
  <2>1. delivery \in DeliveryRecords /\ Agree(delivery)
    BY <1>2 DEF LoopIsAt, GeneratedFirst, Agree
  <2>2. delivery.unknown => /\ phase = "asking" /\ index < SegmentSize
                            /\ delivery.generated = Attempts(Planned)
                            /\ delivery.attempted = Attempts(Before + Replied + 1)
                            /\ delivery.uncertain = next
                            /\ \/ posted = Shown(Replied) /\ onTheWay \in {NoPart, next}
                               \/ posted = Shown(Replied + 1) /\ onTheWay = NoPart
    BY <1>2, <1>4 DEF FollowsAnswer, GeneratedFirst, ChannelShows
  <2>3. ~delivery.unknown => delivery.uncertain = NoPart /\ posted = Shown(Replied) /\ onTheWay = NoPart
    BY <1>2 DEF ChannelShows
  <2>4. /\ pending(delivery) \in DeliveryRecords /\ Agree(pending(delivery)) /\ ~pending(delivery).complete
        /\ pending(delivery).attempted = delivery.attempted
        /\ pending(delivery).replies = delivery.replies /\ pending(delivery).texts = delivery.texts
        /\ pending(delivery).unknown = delivery.unknown
        /\ pending(delivery).uncertain = delivery.uncertain
        /\ delivery.generated = Attempts(Planned) =>
             Len(pending(delivery).generated) = Before + (IF segment = 0 THEN 1 ELSE Whole)
    BY <1>2, <2>1, PendingKeeps
  <2> QED BY <1>1, <1>4, <2>2, <2>3, <2>4, FailureKeeps
<1> QED BY <1>3, <1>4 DEF TimesOut

LEMMA RefusedKeeps == DeliverInv /\ Refused => DeliverInv'
<1> SUFFICES ASSUME DeliverInv, Refused  PROVE DeliverInv'
  OBVIOUS
<1>1. /\ phase = "waiting" /\ delivery' = pending(delivery) /\ phase' = "refused" /\ segment # 0
      /\ UNCHANGED <<shape, segment, index, record, posted, onTheWay, notice>>
  BY DEF Refused, falls_back
<1>2. LoopIsAt /\ FollowsAnswer /\ GeneratedFirst /\ ChannelShows
  BY DEF DeliverInv
<1>3. delivery \in DeliveryRecords /\ Agree(delivery) /\ index < SegmentSize /\ ~delivery.unknown
      /\ delivery.attempted = Attempts(Before + Replied + 1)
      /\ delivery.uncertain = NoPart /\ posted = Shown(Replied) /\ onTheWay = NoPart
  BY <1>1, <1>2 DEF LoopIsAt, FollowsAnswer, GeneratedFirst, ChannelShows, Agree
<1> QED BY <1>1, <1>2, <1>3, PendingKeeps, FailureKeeps

\* The text begins in place of the GIF.
LEMMA FallBackKeeps == DeliverInv /\ FallBack => DeliverInv'
<1> SUFFICES ASSUME DeliverInv, FallBack  PROVE DeliverInv'
  OBVIOUS
<1>1. /\ segment = 0 /\ phase = "waiting" /\ segment' = 1 /\ phase' = "begin"
      /\ UNCHANGED <<shape, index, delivery, record, posted, onTheWay, notice>>
  BY DEF FallBack, falls_back
<1>2. LoopIsAt /\ FollowsAnswer /\ GeneratedFirst /\ ChannelShows /\ RecordFollows
  BY DEF DeliverInv
<1>3. /\ shape.first \in Nat \ {0} /\ shape.second \in Nat /\ shape.gif
      /\ index = 0
  BY <1>1, <1>2, SequencesAre DEF LoopIsAt, SegmentSize
<1>4. Replied = 0 /\ Before = 0 /\ Planned = 1 /\ Replied' = 0 /\ Before' = 1
  BY <1>1, <1>3 DEF Replied, Before, Planned
<1>5. /\ delivery.attempted = Attempts(1) /\ delivery.generated = Attempts(1)
      /\ delivery.replies = Shown(0) /\ delivery.texts = Shown(0)
      /\ ~delivery.unknown /\ delivery.uncertain = NoPart
      /\ posted = Shown(0) /\ onTheWay = NoPart
  BY <1>1, <1>2, <1>4 DEF FollowsAnswer, GeneratedFirst, ChannelShows
<1>6. LoopIsAt'
  BY <1>1, <1>2, <1>3 DEF LoopIsAt, Phases, SegmentSize
<1>7. Shown(0) = <<>> /\ Shown(Replied)' = <<>>
  BY <1>2, <1>4, <1>6, SequencesAre DEF Shown, SentUpTo
<1>8. Attempts(Before + Replied)' = Attempts(1)
  BY <1>1, <1>4 DEF Attempts
<1>9. FollowsAnswer'
  BY <1>1, <1>5, <1>7, <1>8 DEF FollowsAnswer
<1>10. GeneratedFirst'
  BY <1>1, <1>2, <1>5, <1>8 DEF GeneratedFirst
<1>11. ChannelShows'
  BY <1>1, <1>5, <1>7 DEF ChannelShows
<1>12. CompleteAtTheEnd' /\ RecordFollows'
  BY <1>1, <1>2 DEF CompleteAtTheEnd, RecordFollows
<1> QED BY <1>6, <1>9, <1>10, <1>11, <1>12 DEF DeliverInv

\* The turn is recorded.
LEMMA RecordKeeps == DeliverInv /\ Record => DeliverInv'
<1> SUFFICES ASSUME DeliverInv, Record  PROVE DeliverInv'
  OBVIOUS
<1>1. /\ phase \in {"sent", "refused", "doubtful", "stopped"} /\ phase' = "over"
      /\ UNCHANGED <<shape, segment, index, delivery, posted, onTheWay>>
      /\ record' = (IF delivery.attempted # <<>> THEN delivery ELSE record)
      /\ notice' \in {notice, recovery(delivery)}
  BY DEF Record
<1>2. LoopIsAt /\ FollowsAnswer /\ GeneratedFirst /\ ChannelShows /\ CompleteAtTheEnd /\ RecordFollows
  BY DEF DeliverInv
<1>3. LoopIsAt'
  BY <1>1, <1>2, PlaceStays DEF LoopIsAt, Phases
<1>4. FollowsAnswer'
  BY <1>1, <1>2, PlaceStays DEF FollowsAnswer
<1>5. GeneratedFirst'
  BY <1>1, <1>2, PlaceStays DEF GeneratedFirst
<1>6. ChannelShows'
  BY <1>1, <1>2, PlaceStays DEF ChannelShows
<1>7. CompleteAtTheEnd'
  <2>1. delivery.complete => phase = "sent"
    BY <1>1, <1>2 DEF CompleteAtTheEnd
  <2>2. phase = "sent" => ~delivery.unknown /\ index = SegmentSize /\ (segment = 1 => shape.second = 0)
    BY <1>2 DEF LoopIsAt, ChannelShows
  <2> QED BY <1>1, <2>1, <2>2, PlaceStays DEF CompleteAtTheEnd
<1>8. notice' = "unfinished" => delivery.replies = <<>> /\ ~delivery.unknown
  BY <1>1, <1>2 DEF RecordFollows, recovery
<1>9. RecordFollows'
  BY <1>1, <1>2, <1>8 DEF RecordFollows
<1> QED BY <1>3, <1>4, <1>5, <1>6, <1>7, <1>9 DEF DeliverInv

\* A part on its way arrives: it is the uncertain one.
LEMMA ArrivesLateKeeps == DeliverInv /\ ArrivesLate => DeliverInv'
<1> SUFFICES ASSUME DeliverInv, ArrivesLate  PROVE DeliverInv'
  OBVIOUS
<1>1. /\ onTheWay # NoPart /\ posted' = Append(posted, onTheWay) /\ onTheWay' = NoPart
      /\ UNCHANGED <<shape, phase, segment, index, delivery, record, notice>>
  BY DEF ArrivesLate
<1>2. LoopIsAt /\ FollowsAnswer /\ GeneratedFirst /\ ChannelShows /\ CompleteAtTheEnd /\ RecordFollows
  BY DEF DeliverInv
<1>3. delivery.unknown /\ index < SegmentSize /\ posted = Shown(Replied) /\ onTheWay = next
      /\ delivery.uncertain = next
  BY <1>1, <1>2 DEF ChannelShows
<1>4. posted' = Shown(Replied + 1)
  BY <1>1, <1>2, <1>3, OneMore
<1>5. LoopIsAt'
  BY <1>1, <1>2, PlaceStays DEF LoopIsAt
<1>6. FollowsAnswer'
  BY <1>1, <1>2, PlaceStays DEF FollowsAnswer
<1>7. GeneratedFirst'
  BY <1>1, <1>2, PlaceStays DEF GeneratedFirst
<1>8. ChannelShows'
  BY <1>1, <1>2, <1>3, <1>4, PlaceStays DEF ChannelShows
<1>9. CompleteAtTheEnd'
  BY <1>1, <1>2, PlaceStays DEF CompleteAtTheEnd
<1>10. RecordFollows'
  BY <1>1, <1>2, <1>4, PlaceStays DEF RecordFollows, fits, is_complete, Confirmed, part_index
<1> QED BY <1>5, <1>6, <1>7, <1>8, <1>9, <1>10 DEF DeliverInv

\* A later request confirms the part it finds.
LEMMA FollowUpKeeps == DeliverInv /\ FollowUp => DeliverInv'
<1> SUFFICES ASSUME DeliverInv, FollowUp  PROVE DeliverInv'
  OBVIOUS
<1>1. /\ phase = "over" /\ UNCHANGED <<shape, phase, segment, index, delivery, posted, onTheWay, notice>>
      /\ \/ record' = record
         \/ /\ record.unknown /\ record.uncertain \in ToSet(posted)
            /\ fits(record) /\ record' = Confirmed(record)
  BY DEF FollowUp
<1>2. LoopIsAt /\ FollowsAnswer /\ GeneratedFirst /\ ChannelShows /\ CompleteAtTheEnd /\ RecordFollows
  BY DEF DeliverInv
<1>5. LoopIsAt'
  BY <1>1, <1>2, PlaceStays DEF LoopIsAt
<1>6. FollowsAnswer'
  BY <1>1, <1>2, PlaceStays DEF FollowsAnswer
<1>7. GeneratedFirst'
  BY <1>1, <1>2, PlaceStays DEF GeneratedFirst
<1>8. ChannelShows'
  BY <1>1, <1>2, PlaceStays DEF ChannelShows
<1>9. CompleteAtTheEnd'
  BY <1>1, <1>2, PlaceStays DEF CompleteAtTheEnd
<1>10. CASE record' = record
  <2>1. RecordFollows'
    BY <1>1, <1>2, <1>10, PlaceStays DEF RecordFollows, fits, is_complete, Confirmed, part_index
  <2> QED BY <1>5, <1>6, <1>7, <1>8, <1>9, <2>1 DEF DeliverInv
<1>11. CASE /\ record.unknown /\ record.uncertain \in ToSet(posted)
            /\ fits(record) /\ record' = Confirmed(record)
  <2>1. ~NoDelivery.unknown
    BY DEF NoDelivery
  <2>2. ASSUME record = Confirmed(delivery)  PROVE FALSE
    <3>1. ~Confirmed(delivery).unknown
      BY <1>2 DEF Confirmed, LoopIsAt, DeliveryRecords
    <3> QED BY <1>11, <2>2, <3>1
  <2>3. record = delivery /\ delivery.attempted # <<>>
    BY <1>1, <1>2, <1>11, <2>1, <2>2 DEF RecordFollows
  <2>4. delivery.unknown /\ index < SegmentSize /\ delivery.uncertain = next
    BY <1>2, <1>11, <2>3 DEF ChannelShows
  <2>5. next \notin ToSet(Shown(Replied))
    BY <1>2, <2>4, OneMore
  <2>6. posted = Shown(Replied + 1)
    BY <1>2, <1>11, <2>3, <2>4, <2>5 DEF ChannelShows
  <2>7. fits(delivery)' /\ Confirmed(delivery)' = Confirmed(delivery) /\ fits(delivery)
    BY <1>1, <1>11, <2>3 DEF fits, is_complete, Confirmed, part_index
  <2>8. RecordFollows'
    BY <1>1, <1>2, <1>11, <2>3, <2>4, <2>6, <2>7, PlaceStays DEF RecordFollows
  <2> QED BY <1>5, <1>6, <1>7, <1>8, <1>9, <2>8 DEF DeliverInv
<1> QED BY <1>1, <1>10, <1>11

LEMMA DeliveriesKept == DeliverInv /\ [DeliverNext]_deliverVars => DeliverInv'
<1> SUFFICES ASSUME DeliverInv, [DeliverNext]_deliverVars  PROVE DeliverInv'
  OBVIOUS
<1>1. CASE UNCHANGED deliverVars
  <2>1. LoopIsAt /\ FollowsAnswer /\ GeneratedFirst /\ ChannelShows /\ CompleteAtTheEnd /\ RecordFollows
    BY DEF DeliverInv
  <2>2. UNCHANGED <<shape, phase, segment, index, delivery, record, posted, onTheWay, notice>>
    BY <1>1 DEF deliverVars
  <2>3. LoopIsAt'
    BY <2>1, <2>2, PlaceStays DEF LoopIsAt
  <2>4. FollowsAnswer' /\ GeneratedFirst'
    BY <2>1, <2>2, PlaceStays DEF FollowsAnswer, GeneratedFirst
  <2>5. ChannelShows' /\ CompleteAtTheEnd'
    BY <2>1, <2>2, PlaceStays DEF ChannelShows, CompleteAtTheEnd
  <2>6. RecordFollows'
    BY <2>1, <2>2, PlaceStays DEF RecordFollows, fits, is_complete, Confirmed, part_index
  <2> QED BY <2>3, <2>4, <2>5, <2>6 DEF DeliverInv
<1>2. CASE DeliverNext
  BY <1>2, BeginSegmentKeeps, AttemptKeeps, RepliesKeep, UncertainKeeps, NotFoundKeeps, TimesOutKeeps,
     RefusedKeeps, FallBackKeeps, RecordKeeps, ArrivesLateKeeps, FollowUpKeeps DEF DeliverNext
<1> QED BY <1>1, <1>2

\* What the channel shows is the GIF or the beginning of the text.
LEMMA ShownIs ==
  ASSUME LoopIsAt, NEW n \in Nat, n = Replied \/ (n = Replied + 1 /\ index < SegmentSize)
  PROVE  /\ segment = 0 => n <= 1 /\ Shown(1) = PartsOf(0) /\ \A p \in ToSet(Shown(n)) : p = Part(0, 1)
         /\ segment # 0 => /\ n <= Whole /\ IsPrefix(Shown(n), PartsOf(1) \o PartsOf(2))
                           /\ \A p \in ToSet(Shown(n)) : p.segment # 0
<1>1. /\ shape.first \in Nat \ {0} /\ shape.second \in Nat /\ Replied \in Nat
      /\ segment \in 0..2 /\ index \in Nat /\ index <= SegmentSize
  BY SequencesAre DEF LoopIsAt
<1>2. PICK f \in Nat \ {0}, g \in Nat, s \in 0..2 : f = shape.first /\ g = shape.second /\ s = segment
  BY <1>1
<1>3. /\ SentUpTo(f, s, n) \in Seq(Places) /\ Len(SentUpTo(f, s, n)) = n
      /\ \A i \in 1..n : SentUpTo(f, s, n)[i] = SaidPart(f, s, i)
  BY SentIs
<1>4. Shown(n) = SentUpTo(f, s, n)
  BY <1>2 DEF Shown
<1>5. ToSet(Shown(n)) = {SaidPart(f, s, i) : i \in 1..n}
  BY <1>3, <1>4 DEF ToSet
<1>6. CASE segment = 0
  <2>1. n <= 1
    BY <1>1, <1>6 DEF Replied, SegmentSize
  <2>2. Shown(1) = PartsOf(0)
    BY <1>6 DEF Shown, SentUpTo, SaidPart, PartsOf
  <2>3. \A p \in ToSet(Shown(n)) : p = Part(0, 1)
    BY <1>2, <1>5, <1>6 DEF SaidPart
  <2> QED BY <1>6, <2>1, <2>2, <2>3
<1>7. CASE segment # 0
  <2>1. n <= f + g
    BY <1>1, <1>2, <1>7 DEF Replied, SegmentSize, LoopIsAt
  <2>2. \A i \in 1..n : SaidPart(f, s, i) = Text(f, i) /\ Text(f, i).segment # 0
    BY <1>2, <1>7 DEF SaidPart, Text, Part
  <2>3. \A p \in ToSet(Shown(n)) : p.segment # 0
    BY <1>5, <2>2
  <2> DEFINE a == PartsOf(1)
             b == PartsOf(2)
             t == Shown(n)
  <2>4. a \in Seq(Places) /\ Len(a) = f /\ \A i \in 1..f : a[i] = Part(1, i)
    <3>1. a = [i \in 1..f |-> Part(1, i)]
      BY <1>2 DEF PartsOf
    <3>2. \A i \in 1..f : Part(1, i) \in Places
      BY DEF Part, Places
    <3> QED BY <3>1, <3>2
  <2>5. b \in Seq(Places) /\ Len(b) = g /\ \A i \in 1..g : b[i] = Part(2, i)
    <3>1. b = [i \in 1..g |-> Part(2, i)]
      BY <1>2 DEF PartsOf
    <3>2. \A i \in 1..g : Part(2, i) \in Places
      BY DEF Part, Places
    <3> QED BY <3>1, <3>2
  <2>6. t \in Seq(Places) /\ Len(t) = n /\ \A i \in 1..n : t[i] = Text(f, i)
    BY <1>3, <1>4, <2>2
  <2> HIDE DEF a, b, t
  <2>7. a \o b \in Seq(Places) /\ Len(a \o b) = f + g
    BY <2>4, <2>5
  <2>8. ASSUME NEW i \in 1..n  PROVE t[i] = (a \o b)[i]
    <3>1. CASE i <= f
      <4>1. (a \o b)[i] = a[i]
        BY <2>4, <2>5, <3>1
      <4> QED BY <2>4, <2>6, <3>1, <4>1 DEF Text
    <3>2. CASE i > f
      <4> DEFINE j == i - f
      <4>1. j \in 1..g /\ i = f + j
        BY <2>1, <3>2
      <4>2. Text(f, i) = Part(2, j)
        BY <3>2 DEF Text
      <4> HIDE DEF j
      <4>3. \A u, v \in Seq(Places) : \A k \in 1..Len(v) : (u \o v)[Len(u) + k] = v[k]
        OBVIOUS
      <4>4. (a \o b)[f + j] = b[j]
        BY ONLY <2>4, <2>5, <4>1, <4>3
      <4>5. t[i] = Text(f, i) /\ b[j] = Part(2, j)
        BY <2>5, <2>6, <4>1
      <4> QED BY ONLY <4>1, <4>2, <4>4, <4>5
    <3>3. i <= f \/ i > f
      OBVIOUS
    <3> QED BY ONLY <3>1, <3>2, <3>3
  <2>9. SubSeq(t, 1, n) = SubSeq(a \o b, 1, n)
    <3>1. \A u \in Seq(Places) : n <= Len(u) =>
            /\ SubSeq(u, 1, n) \in Seq(Places) /\ Len(SubSeq(u, 1, n)) = n
            /\ \A i \in 1..n : SubSeq(u, 1, n)[i] = u[i]
      OBVIOUS
    <3>2. n <= Len(t) /\ n <= Len(a \o b)
      BY <1>2, <2>1, <2>6, <2>7
    <3>3. \A i \in 1..n : SubSeq(t, 1, n)[i] = SubSeq(a \o b, 1, n)[i]
      BY <2>6, <2>7, <2>8, <3>1, <3>2
    <3> QED BY <2>6, <2>7, <3>1, <3>2, <3>3, SameParts
  <2>10. IsPrefix(t, a \o b)
    BY <2>1, <2>6, <2>7, <2>9 DEF IsPrefix
  <2> QED BY <1>2, <1>7, <2>1, <2>3, <2>10 DEF a, b, t, Whole
<1> QED BY <1>6, <1>7

LEMMA AnswerIsInFull == DeliverInv => OneAnswerInFull
<1> SUFFICES ASSUME DeliverInv  PROVE OneAnswerInFull
  OBVIOUS
<1>0. LoopIsAt /\ FollowsAnswer /\ GeneratedFirst /\ ChannelShows /\ CompleteAtTheEnd /\ RecordFollows
  BY DEF DeliverInv
<1>1. /\ Replied \in Nat /\ Before \in Nat /\ SegmentSize \in Nat /\ segment \in 0..2
      /\ shape.first \in Nat \ {0} /\ shape.second \in Nat /\ index \in Nat /\ index <= SegmentSize
      /\ \A n \in Nat : Shown(n) \in Seq(Places) /\ Len(Shown(n)) = n
      /\ \A n \in Nat : Len(Attempts(n)) = n
  BY <1>0, SequencesAre DEF LoopIsAt
<1>2. PICK n \in Nat : /\ n = Replied \/ (n = Replied + 1 /\ index < SegmentSize)
                       /\ posted = Shown(n)
                       /\ onTheWay # NoPart => index < SegmentSize /\ onTheWay = next
                       /\ ~delivery.unknown => n = Replied /\ onTheWay = NoPart
  BY <1>0, <1>1 DEF ChannelShows
<1>3. next = Part(segment, index + 1)
  BY DEF next
<1>4. OneVisibleResponse
  <2>1. ASSUME Part(0, 1) \in ToSet(posted) \cup {onTheWay}  PROVE \A p \in ToSet(posted) : p.segment = 0
    <3>1. Part(0, 1) \in ToSet(posted) \/ next = Part(0, 1)
      BY <1>2, <2>1 DEF NoPart, Part
    <3>2. segment = 0
      BY <1>0, <1>2, <1>3, <3>1, ShownIs DEF Part
    <3> QED BY <1>0, <1>2, <3>2, ShownIs DEF Part
  <2>2. notice = "unfinished" => posted = <<>> /\ onTheWay = NoPart
    BY <1>0, <1>2 DEF RecordFollows, FollowsAnswer
  <2> QED BY <2>1, <2>2 DEF OneVisibleResponse
<1>5. PartsInOrder
  <2>1. CASE segment = 0
    <3>1. n = 0 \/ n = 1
      BY <1>0, <1>2, <2>1, ShownIs
    <3>2. CASE n = 1
      BY <1>0, <1>2, <2>1, <3>2, ShownIs DEF PartsInOrder
    <3>3. CASE n = 0
      <4>1. posted = <<>>
        BY <1>0, <1>2, <3>3, SequencesAre
      <4> DEFINE t == PartsOf(1) \o PartsOf(2)
      <4>2. PartsOf(1) \in Seq(Places) /\ PartsOf(2) \in Seq(Places)
        <5>1. \A i \in Nat : Part(1, i) \in Places /\ Part(2, i) \in Places
          BY DEF Part, Places
        <5>2. /\ PartsOf(1) = [i \in 1..shape.first |-> Part(1, i)]
              /\ PartsOf(2) = [i \in 1..shape.second |-> Part(2, i)]
          BY DEF PartsOf
        <5>3. PICK f \in Nat, g \in Nat : f = shape.first /\ g = shape.second
          BY <1>1
        <5>4. [i \in 1..f |-> Part(1, i)] \in Seq(Places) /\ [i \in 1..g |-> Part(2, i)] \in Seq(Places)
          BY <5>1
        <5> QED BY <5>2, <5>3, <5>4
      <4>3. t \in Seq(Places)
        BY <4>2
      <4> HIDE DEF t
      <4>4. IsPrefix(<<>>, t)
        BY <4>3 DEF IsPrefix
      <4> QED BY <4>1, <4>4 DEF PartsInOrder, t
    <3> QED BY <3>1, <3>2, <3>3
  <2>2. CASE segment # 0
    BY <1>0, <1>2, <2>2, ShownIs DEF PartsInOrder
  <2> QED BY <2>1, <2>2
<1>6. ASSUME phase = "over"
      PROVE  PartsAccountedFor /\ RecordSaysWhatWasSent
  <2>0. Attempts(0) = <<>> /\ Shown(0) = <<>>
    BY <1>0, SequencesAre
  <2>1. CASE delivery.attempted = <<>> /\ record = NoDelivery
    <3>1. Replied = 0 /\ ~delivery.unknown
      BY <1>0, <1>1, <2>1 DEF FollowsAnswer
    <3>2. posted = <<>> /\ onTheWay = NoPart
      BY <1>2, <2>0, <3>1
    <3> QED BY <2>1, <3>2 DEF PartsAccountedFor, RecordSaysWhatWasSent, NoDelivery, ToSet
  <2>2. CASE record = delivery
    <3>1. record.replies = Shown(Replied) /\ record.texts = record.replies
      BY <1>0, <2>2 DEF FollowsAnswer
    <3>2. CASE ~delivery.unknown
      <4>1. posted = Shown(Replied) /\ onTheWay = NoPart
        BY <1>0, <3>2 DEF ChannelShows
      <4>2. PartsAccountedFor
        BY <3>1, <4>1 DEF PartsAccountedFor
      <4>3. ASSUME record.complete
            PROVE  posted = <<Part(0, 1)>> \/ Len(posted) = shape.first + shape.second
        <5>1. index = SegmentSize /\ (segment = 1 => shape.second = 0)
          BY <1>0, <1>6, <2>2, <4>3 DEF CompleteAtTheEnd
        <5>2. CASE segment = 0
          <6>1. Replied = 1
            BY <5>1, <5>2 DEF SegmentSize, Replied
          <6>2. PartsOf(0) = <<Part(0, 1)>>
            BY DEF PartsOf
          <6> QED BY <1>0, <1>1, <4>1, <5>2, <6>1, <6>2, ShownIs
        <5>3. CASE segment # 0
          BY <1>1, <4>1, <5>1, <5>3 DEF SegmentSize, Replied
        <5> QED BY <5>2, <5>3
      <4> QED BY <3>1, <4>2, <4>3 DEF RecordSaysWhatWasSent
    <3>3. CASE delivery.unknown
      <4>1. /\ index < SegmentSize /\ record.uncertain = next
            /\ \/ posted = Shown(Replied) /\ onTheWay \in {NoPart, next}
               \/ posted = Shown(Replied + 1) /\ onTheWay = NoPart
        BY <1>0, <2>2, <3>3 DEF ChannelShows
      <4>2. ToSet(Shown(Replied + 1)) = ToSet(Shown(Replied)) \cup {next}
        <5>1. Append(Shown(Replied), next) = Shown(Replied + 1) /\ next \in Places
          BY <1>0, <4>1, OneMore, NextIs
        <5>2. \A u \in Seq(Places) : \A x \in Places : ToSet(Append(u, x)) = ToSet(u) \cup {x}
          <6> TAKE u \in Seq(Places)
          <6> TAKE x \in Places
          <6> DEFINE v == Append(u, x)
          <6>1. /\ v \in Seq(Places) /\ Len(v) = Len(u) + 1 /\ v[Len(u) + 1] = x
                /\ \A i \in 1..Len(u) : v[i] = u[i]
            OBVIOUS
          <6>2. Len(u) \in Nat /\ 1..(Len(u) + 1) = (1..Len(u)) \cup {Len(u) + 1}
            OBVIOUS
          <6> HIDE DEF v
          <6>3. ToSet(v) = {v[i] : i \in 1..Len(u)} \cup {v[Len(u) + 1]}
            BY <6>1, <6>2 DEF ToSet
          <6>4. ToSet(v) = ToSet(u) \cup {x}
            BY <6>1, <6>3 DEF ToSet
          <6> QED BY <6>4 DEF v
        <5>3. Shown(Replied) \in Seq(Places)
          BY <1>1
        <5> QED BY <5>1, <5>2, <5>3
      <4> QED BY <2>2, <3>1, <3>3, <4>1, <4>2 DEF PartsAccountedFor, RecordSaysWhatWasSent
    <3> QED BY <3>2, <3>3
  <2>3. CASE /\ delivery.attempted # <<>> /\ delivery.unknown /\ fits(delivery)
             /\ record = Confirmed(delivery) /\ posted = Shown(Replied + 1)
    <3>1. /\ index < SegmentSize /\ delivery.uncertain = next
          /\ delivery.attempted = Attempts(Before + Replied + 1) /\ onTheWay = NoPart
          /\ Len(delivery.generated) = Before + (IF segment = 0 THEN 1 ELSE Whole)
      <4>1. Shown(Replied) # Shown(Replied + 1)
        BY <1>1
      <4> QED BY <1>0, <1>6, <2>3, <4>1 DEF ChannelShows, FollowsAnswer, GeneratedFirst
    <3>2. delivery.generated[Len(delivery.attempted)] = next
      <4>1. PICK k \in Nat : k = Before + Replied + 1 /\ k \in 1..k
        BY <1>1
      <4>2. Len(Attempts(k)) = k /\ Attempts(k)[k] = Tried(shape.first, shape.gif, k)
        BY <1>0, <4>1, SequencesAre
      <4>3. delivery.generated[k] = delivery.attempted[k]
        BY <1>0, <3>1, <4>1, <4>2 DEF GeneratedFirst
      <4>4. next = Tried(shape.first, shape.gif, k)
        BY <1>0, <3>1, <4>1, NextIs
      <4> QED BY <3>1, <4>1, <4>2, <4>3, <4>4
    <3>3. Append(Shown(Replied), next) = Shown(Replied + 1)
      BY <1>0, <3>1, OneMore
    <3>4. delivery \in DeliveryRecords /\ delivery.replies = Shown(Replied) /\ delivery.texts = Shown(Replied)
      BY <1>0 DEF LoopIsAt, FollowsAnswer
    <3>5. /\ record.replies = Shown(Replied + 1) /\ record.texts = Shown(Replied + 1)
          /\ record.complete = is_complete(delivery) /\ ~record.unknown
      BY <2>3, <3>1, <3>2, <3>3, <3>4 DEF Confirmed, part_index, DeliveryRecords
    <3>6. PartsAccountedFor
      BY <2>3, <3>1, <3>5 DEF PartsAccountedFor
    <3>7. ASSUME record.complete
          PROVE  posted = <<Part(0, 1)>> \/ Len(posted) = shape.first + shape.second
      <4>1. Len(delivery.attempted) = Len(delivery.generated) /\ Len(delivery.replies) + 1 = Len(delivery.attempted)
        BY <2>3, <3>5, <3>7 DEF is_complete, fits
      <4>2. Len(delivery.attempted) = Before + Replied + 1 /\ Len(delivery.replies) = Replied
        BY <1>1, <3>1, <3>4
      <4>3. PICK w \in Nat : w = IF segment = 0 THEN 1 ELSE Whole
        BY <1>1 DEF Whole
      <4>6. Len(delivery.generated) = Before + w
        BY <3>1, <4>3
      <4>7. Replied + 1 = w
        <5>1. Before \in Nat /\ Replied \in Nat
          BY <1>1
        <5>2. /\ Before + Replied + 1 = Before + w
              /\ Replied + 1 = Before + Replied + 1
          BY ONLY <4>1, <4>2, <4>6
        <5>3. w \in Nat
          BY <4>3
        <5> QED BY ONLY <5>1, <5>2, <5>3
      <4>4. CASE segment = 0
        <5>1. PartsOf(0) = <<Part(0, 1)>>
          BY DEF PartsOf
        <5>2. posted = Shown(1)
          BY <2>3, <4>3, <4>4, <4>7
        <5> QED BY <1>0, <1>1, <4>4, <5>1, <5>2, ShownIs
      <4>5. CASE segment # 0
        BY <1>1, <2>3, <4>3, <4>5, <4>7 DEF Whole
      <4> QED BY <4>4, <4>5
    <3> QED BY <3>5, <3>6, <3>7 DEF RecordSaysWhatWasSent
  <2> QED BY <1>0, <1>6, <2>1, <2>2, <2>3 DEF RecordFollows
<1>7. PartsAccountedFor /\ RecordSaysWhatWasSent
  BY <1>6 DEF PartsAccountedFor, RecordSaysWhatWasSent
<1> QED BY <1>4, <1>5, <1>7 DEF OneAnswerInFull

\* An answer stands in the channel once, in its order and with no part left out in between,
\* never beside its GIF or a notice in its place, and its turn is recorded as it stands
\* there (delivery.py, conversation/state.py): for answers of any length, whatever responses
\* of Discord are lost and however late a part appears.
THEOREM AnswersInFull == DeliverSpec => []OneAnswerInFull
<1>1. DeliverInit => DeliverInv
  BY DeliverStarts
<1>2. DeliverInv /\ [DeliverNext]_deliverVars => DeliverInv'
  BY DeliveriesKept
<1>3. DeliverInv => OneAnswerInFull
  BY AnswerIsInFull
<1> QED BY <1>1, <1>2, <1>3, PTL DEF DeliverSpec

-----------------------------------------------------------------------------
(* ReplyDelivery: an answer that was cut off and cannot be continued.        *)

\* The GIF of the answer was refused and the text took its place.
RefusedGif == shape.gif /\ segment # 0

\* An uncertain delivery of a turn that is over is the record's own, and it does not fit
\* exactly when a GIF was refused before it and no part is missing from its attempts.
LEMMA UnfitIs ==
  ASSUME DeliverInv, phase = "over", record.unknown
  PROVE  fits(record) <=> ~(RefusedGif /\ is_complete(record))
<1>1. LoopIsAt /\ FollowsAnswer /\ GeneratedFirst /\ ChannelShows /\ RecordFollows
  BY DEF DeliverInv
<1>2. record = delivery
  <2>1. ~NoDelivery.unknown
    BY DEF NoDelivery
  <2>2. ~Confirmed(delivery).unknown
    BY <1>1 DEF Confirmed, LoopIsAt, DeliveryRecords
  <2> QED BY <1>1, <2>1, <2>2 DEF RecordFollows
<1>3. /\ delivery.attempted = Attempts(Before + Replied + 1)
      /\ delivery.replies = Shown(Replied)
  BY <1>1, <1>2 DEF FollowsAnswer
<1>4. /\ Replied \in Nat /\ Before \in Nat /\ shape.gif \in BOOLEAN
      /\ \A n \in Nat : Len(Shown(n)) = n /\ Len(Attempts(n)) = n
  BY <1>1, SequencesAre
<1>5. Len(delivery.attempted) = Before + Replied + 1 /\ Len(delivery.replies) = Replied
  <2>1. Before + Replied + 1 \in Nat
    BY <1>4
  <2> QED BY <1>3, <1>4, <2>1
<1>6. Len(delivery.replies) + 1 = Len(delivery.attempted) <=> ~RefusedGif
  BY <1>4, <1>5 DEF Before, RefusedGif
<1> QED BY <1>2, <1>6 DEF fits

\* A later request fails only over a turn whose GIF was refused.
FailsAfterRefusal == followUp = "failed" => phase = "over" /\ RefusedGif

UnfitAfterRefusal ==
  phase = "over" /\ record.unknown => (fits(record) <=> ~(RefusedGif /\ is_complete(record)))

\* A later request fails over an answer, whatever was lost, only if its GIF was refused by
\* Discord and the uncertain part is the last one of the text that took its place: only then
\* do the counts of attempts and replies, which reconcile_unknown_delivery compares, differ
\* by more than the part that it found (conversation/state.py).  Every other uncertain
\* delivery is confirmed, for answers of any length.
THEOREM FailsOnlyAfterRefusedGif == DeliverSpec => [](FailsAfterRefusal /\ UnfitAfterRefusal)
<1>1. DeliverInit => FailsAfterRefusal
  BY DEF DeliverInit, FailsAfterRefusal
<1>2. ASSUME DeliverInv, FailsAfterRefusal, [DeliverNext]_deliverVars
      PROVE  FailsAfterRefusal'
  <2>1. CASE FollowUp
    <3>1. phase = "over" /\ UNCHANGED <<shape, segment, phase>>
      BY <2>1 DEF FollowUp
    <3>2. CASE followUp' = "failed"
      <4>1. record.unknown /\ ~fits(record)
        BY <2>1, <3>2 DEF FollowUp
      <4> QED BY <1>2, <3>1, <4>1, UnfitIs DEF FailsAfterRefusal, RefusedGif
    <3> QED BY <3>2 DEF FailsAfterRefusal
  <2>2. CASE ~FollowUp
    <3>1. UNCHANGED followUp /\ (phase = "over" => UNCHANGED <<shape, segment, phase>>)
      BY <1>2, <2>2 DEF DeliverNext, deliverVars, BeginSegment, Attempt, Accepted, Uncertain, Found, NotFound,
         TimesOut, Refused, FallBack, Record, ArrivesLate, falls_back
    <3> QED BY <1>2, <3>1 DEF FailsAfterRefusal, RefusedGif
  <2> QED BY <2>1, <2>2
<1>3. DeliverInv => UnfitAfterRefusal
  BY UnfitIs DEF UnfitAfterRefusal
<1> QED BY <1>1, <1>2, <1>3, DeliverStarts, DeliveriesKept, PTL DEF DeliverSpec

-----------------------------------------------------------------------------
(* AgentRequests: a conversation is loaded once. *)

NoneTwice(s) == \A i, k \in 1..Len(s) : s[i] = s[k] => i = k

RequestCounts == aged \subseteq Objects /\ silences \in 0..MaxSilences /\ stops \in 0..MaxStops
RequestTypes == RequestInv /\ NoneTwice(loaded) /\ RequestCounts

LEMMA PickedOnce ==
  ASSUME NEW S, NEW s \in Seq(S), NoneTwice(s), NEW K
  PROVE  Picked(s, K) \in Seq(S) /\ NoneTwice(Picked(s, K)) /\ ToSet(Picked(s, K)) = {x \in ToSet(s) : x \in K}
<1>1. \A i, j \in 1..Len(s) : s[i] = s[j] => i = j
  BY DEF NoneTwice
<1>2. \A i, j \in 1..Len(Picked(s, K)) : Picked(s, K)[i] = Picked(s, K)[j] => i = j
  BY <1>1, PickedInjective
<1> QED
  BY <1>2, PickedIs DEF NoneTwice

LEMMA AppendOnce ==
  ASSUME NEW S, NEW s \in Seq(S), NoneTwice(s), NEW x \in S, x \notin ToSet(s)
  PROVE  Append(s, x) \in Seq(S) /\ NoneTwice(Append(s, x))
<1> DEFINE t == Append(s, x)
<1>1. t \in Seq(S) /\ Len(t) = Len(s) + 1 /\ Len(s) \in Nat /\ t[Len(s) + 1] = x
      /\ \A i \in 1..Len(s) : t[i] = s[i]
  OBVIOUS
<1>2. \A i \in 1..Len(s) : s[i] # x
  BY DEF ToSet
<1> HIDE DEF t
<1>3. \A i, k \in 1..Len(t) : t[i] = t[k] => i = k
  <2> TAKE i, k \in 1..Len(t)
  <2>1. (i \in 1..Len(s) \/ i = Len(s) + 1) /\ (k \in 1..Len(s) \/ k = Len(s) + 1)
    BY <1>1
  <2> QED
    BY <1>1, <1>2, <2>1 DEF NoneTwice
<1> QED
  BY <1>1, <1>3 DEF NoneTwice, t

LEMMA OnceCounted ==
  ASSUME NEW S, NEW s \in Seq(S), NoneTwice(s)
  PROVE  Cardinality(ToSet(s)) = Len(s)
<1> DEFINE n == Len(s)
<1>0. n \in Nat
  OBVIOUS
<1>1. IsFiniteSet(1..n) /\ Cardinality(1..n) = n
  <2> HIDE DEF n
  <2> QED
    BY <1>0, FS_Interval
<1>2. s \in [1..n -> ToSet(s)] /\ \A y \in ToSet(s) : \E i \in 1..n : s[i] = y
  BY DEF ToSet
<1>3. s \in Bijection(1..n, ToSet(s))
  BY <1>2 DEF NoneTwice, Bijection, Injection, IsInjective, Surjection
<1> HIDE DEF n
<1>4. Cardinality(ToSet(s)) = n
  BY <1>1, <1>3, FS_Bijection DEF ExistsBijection
<1> QED
  BY <1>4 DEF n

\* What a step may do to the table of loaded conversations.
LoadsOne ==
  \/ loaded' = loaded \/ loaded' = pruned
  \/ \E o \in Objects : o \notin ToSet(loaded) /\ may_add(pruned) /\ loaded' = added(pruned, o)
  \/ \E o \in Objects : Touched(o)

LEMMA LoadedOnce ==
  ASSUME RequestShapes, NoneTwice(loaded), LoadsOne
  PROVE  NoneTwice(loaded')
<1>0. loaded \in Seq(Objects)
  BY DEF RequestShapes
<1>1. pruned \in Seq(Objects) /\ NoneTwice(pruned) /\ ToSet(pruned) \subseteq ToSet(loaded)
  BY <1>0, PickedOnce DEF pruned
<1>2. CASE loaded' = loaded \/ loaded' = pruned
  BY <1>1, <1>2
<1>3. ASSUME NEW o \in Objects, o \notin ToSet(loaded), loaded' = added(pruned, o)
      PROVE  NoneTwice(loaded')
  <2> DEFINE os == pruned
             rest == IF full(os) THEN Without(os, Head(idle(os))) ELSE os
  <2>1. rest \in Seq(Objects) /\ NoneTwice(rest) /\ ToSet(rest) \subseteq ToSet(os)
    <3> HIDE DEF os
    <3> QED
      BY <1>1, PickedOnce DEF os, Without
  <2>2. loaded' = Append(rest, o)
    BY <1>3 DEF added
  <2> HIDE DEF rest, os
  <2>3. o \notin ToSet(rest)
    BY <1>1, <1>3, <2>1 DEF os
  <2> QED
    BY <2>1, <2>2, <2>3, AppendOnce
<1>4. ASSUME NEW o \in Objects, Touched(o) PROVE NoneTwice(loaded')
  <2> DEFINE rest == Picked(loaded, ToSet(loaded) \ {o})
  <2>1. rest \in Seq(Objects) /\ NoneTwice(rest) /\ ToSet(rest) = {x \in ToSet(loaded) : x \in ToSet(loaded) \ {o}}
    BY <1>0, PickedOnce
  <2>2. loaded' = Append(rest, o)
    BY <1>4 DEF Touched, Without
  <2> HIDE DEF rest
  <2>3. o \notin ToSet(rest)
    BY <2>1
  <2> QED
    BY <2>1, <2>2, <2>3, AppendOnce
<1> QED
  BY <1>2, <1>3, <1>4 DEF LoadsOne

\* What is loaded anew was not loaded before.
LEMMA ActionsLoadOne ==
  ASSUME RequestInv, RequestNext, ~Restart
  PROVE  LoadsOne
<1>0. RequestShapes /\ CopiesAreFresh /\ StoreIsLocked
  BY DEF RequestInv
<1>a. \A c \in Callers : ~At(c, {"none", "lookup", "ready", "over"}) => work[c].conv \in Objects
  BY <1>0 DEF RequestShapes
<1>1. ASSUME NEW e \in Events, Restore(e) PROVE LoadsOne
  <2>1. e \in Callers /\ At(e, {"reading"})
    BY <1>1, CallersAre DEF Restore
  <2>2. work[e].conv \in Objects /\ work[e].conv \notin ToSet(loaded)
    BY <1>0, <1>a, <2>1 DEF StoreIsLocked, At
  <2> QED
    BY <1>1, <2>2 DEF Restore, may_restore, LoadsOne
<1>2. ASSUME NEW e \in Events, Enter(e) PROVE LoadsOne
  <2>1. MessageOf[e] \in Messages
    BY CallersAre
  <2>2. copies[MessageOf[e]] < MaxCopies => NewCopy(MessageOf[e]) \in Objects /\ NewCopy(MessageOf[e]) \notin ToSet(loaded)
    BY <1>0, <2>1, NewIsFresh
  <2> QED
    BY <1>2, <2>2 DEF Enter, LoadsOne
<1>3. ASSUME NEW e \in Events, Send(e) PROVE LoadsOne
  <2>1. work[e].conv \in Objects
    BY <1>a, <1>3, CallersAre DEF Send, At
  <2> QED
    BY <1>3, <2>1 DEF Send, LoadsOne
<1>4. ASSUME NEW m \in Changes, AddOutcome(m) PROVE LoadsOne
  <2>1. work[m].conv \in Objects
    BY <1>a, <1>4, CallersAre DEF AddOutcome, At
  <2> QED
    BY <1>4, <2>1 DEF AddOutcome, LoadsOne
<1>5. ASSUME NEW e \in Events, Arrive(e) \/ GiveUp(e) \/ ReadSnapshot(e) \/ EnterConversation(e)
                               \/ EnterMember(e) \/ EnterSlot(e) \/ RecordTurn(e)
      PROVE  loaded' = loaded \/ loaded' = pruned
  BY <1>5 DEF Arrive, GiveUp, ReadSnapshot, EnterConversation, EnterMember, EnterSlot, RecordTurn
<1>6. ASSUME NEW c, BeginSave(c) \/ EndSave(c) \/ StartOutcome(c) \/ StoreFails(c)
      PROVE  loaded' = loaded \/ loaded' = pruned
  BY <1>6 DEF BeginSave, EndSave, StartOutcome, StoreFails
<1>7. CASE PruneDisk \/ \E r \in Messages : Silence(r)
  BY <1>7 DEF PruneDisk, Silence, LoadsOne
<1>8. LoadsOne \/ loaded' = loaded \/ loaded' = pruned
  BY <1>1, <1>2, <1>3, <1>4, <1>5, <1>6, <1>7 DEF RequestNext, RequestStep, OutcomeStep
<1> QED
  BY <1>8 DEF LoadsOne

\* A process that starts again loads different snapshots.
LEMMA RestartLoadsOnce ==
  ASSUME RequestInv, Restart
  PROVE  NoneTwice(loaded')
<1> DEFINE live == {r \in Snapshots : ~disk[r].aged}
           most == IF Cardinality(live) > MaxConversations THEN MaxConversations ELSE Cardinality(live)
<1>1. IsFiniteSet(live) /\ live \subseteq Messages
  BY FS_Subset DEF RequestInv, TableIsFinite, Snapshots
<1>2. most \in Nat
  <2> HIDE DEF live
  <2> QED
    BY <1>1, FS_CardinalityType, RequestsAssumption
<1>3. PICK order \in [1..most -> live] :
        Cardinality(ToSet(order)) = most /\ loaded' = [i \in 1..most |-> NewCopy(order[i])]
  BY DEF Restart
<1> HIDE DEF live, most
<1>4. order \in Surjection(1..most, ToSet(order))
  BY <1>3 DEF Surjection, ToSet
<1>5. IsFiniteSet(1..most) /\ Cardinality(1..most) = most
  BY <1>2, FS_Interval
<1>6. order \in Injection(1..most, ToSet(order))
  BY <1>3, <1>4, <1>5, FS_SurjSameCardinalityImpliesInj
<1>7. \A i, k \in 1..most : order[i] = order[k] => i = k
  BY <1>6 DEF Injection, IsInjective
<1>8. \A i, k \in 1..most : NewCopy(order[i]) = NewCopy(order[k]) => order[i] = order[k]
  BY DEF NewCopy
<1>9. /\ Len(loaded') = most
      /\ \A i \in 1..most : loaded'[i] = NewCopy(order[i])
  BY <1>2, <1>3
<1>10. \A i, k \in 1..Len(loaded') : loaded'[i] = loaded'[k] => i = k
  BY <1>7, <1>8, <1>9
<1> QED
  BY <1>10 DEF NoneTwice

LEMMA RequestTypesStart == RequestInit => RequestTypes
<1> SUFFICES ASSUME RequestInit PROVE RequestTypes
  OBVIOUS
<1>1. loaded = <<>> /\ aged = {} /\ silences = 0 /\ stops = 0
  BY DEF RequestInit
<1>2. NoneTwice(loaded)
  BY <1>1 DEF NoneTwice
<1>3. RequestCounts
  BY <1>1, RequestsAssumption DEF RequestCounts
<1> QED
  BY <1>2, <1>3, RequestStarts DEF RequestTypes

LEMMA RequestCountsKept ==
  ASSUME RequestInv, RequestCounts, RequestNext
  PROVE  RequestCounts'
<1>0. ToSet(loaded) \subseteq Objects
  BY SetOf DEF RequestInv, RequestShapes
<1>1. aged' \subseteq aged \cup ToSet(loaded)
  <2>1. ASSUME NEW e, Arrive(e) \/ RequestStep(e) \/ GiveUp(e) \/ OutcomeStep(e) \/ StoreFails(e)
        PROVE  aged' \subseteq aged
    BY <2>1 DEF Arrive, RequestStep, GiveUp, OutcomeStep, StoreFails, ReadSnapshot, Restore, Enter,
       EnterConversation, EnterMember, EnterSlot, Send, Touched, RecordTurn, BeginSave, EndSave, StartOutcome, AddOutcome
  <2>2. CASE PruneDisk \/ Restart \/ \E r \in Messages : Silence(r)
    BY <2>2 DEF PruneDisk, Restart, Silence
  <2> QED
    BY <2>1, <2>2 DEF RequestNext
<1>2. /\ UNCHANGED silences \/ (silences < MaxSilences /\ silences' = silences + 1)
      /\ UNCHANGED stops \/ Stop
  <2>1. ASSUME NEW e, Arrive(e) \/ RequestStep(e) \/ GiveUp(e) \/ OutcomeStep(e) \/ StoreFails(e)
        PROVE  UNCHANGED silences /\ (UNCHANGED stops \/ Stop)
    BY <2>1 DEF Arrive, RequestStep, GiveUp, OutcomeStep, StoreFails, ReadSnapshot, Restore, Enter,
       EnterConversation, EnterMember, EnterSlot, Send, RecordTurn, BeginSave, EndSave, StartOutcome, AddOutcome
  <2>2. CASE PruneDisk \/ Restart \/ \E r \in Messages : Silence(r)
    BY <2>2 DEF PruneDisk, Restart, Silence
  <2> QED
    BY <2>1, <2>2 DEF RequestNext
<1>3. silences' \in 0..MaxSilences /\ stops' \in 0..MaxStops
  BY <1>2, RequestsAssumption DEF RequestCounts, Stop
<1> QED
  BY <1>0, <1>1, <1>3 DEF RequestCounts

LEMMA RequestTypesKept == RequestTypes /\ [RequestNext]_requestVars => RequestTypes'
<1> SUFFICES ASSUME RequestTypes, [RequestNext]_requestVars PROVE RequestTypes'
  OBVIOUS
<1>1. RequestInv'
  BY RequestKept DEF RequestTypes
<1>2. CASE UNCHANGED requestVars
  BY <1>1, <1>2 DEF RequestTypes, RequestCounts, requestVars
<1>3. CASE RequestNext
  <2>1. NoneTwice(loaded')
    BY <1>3, ActionsLoadOne, LoadedOnce, RestartLoadsOnce DEF RequestTypes, RequestInv
  <2>2. RequestCounts'
    BY <1>3, RequestCountsKept DEF RequestTypes
  <2> QED
    BY <1>1, <2>1, <2>2 DEF RequestTypes
<1> QED
  BY <1>2, <1>3

LEMMA RequestTypesAre == RequestTypes => RequestTypeOK
<1> SUFFICES ASSUME RequestTypes PROVE RequestTypeOK
  OBVIOUS
<1>1. loaded \in Seq(Objects) /\ NoneTwice(loaded)
  BY DEF RequestTypes, RequestInv, RequestShapes
<1>2. ToSet(loaded) \subseteq Objects /\ Cardinality(ToSet(loaded)) = Len(loaded)
  BY <1>1, SetOf, OnceCounted
<1> QED
  BY <1>2 DEF RequestTypes, RequestInv, RequestShapes, RequestCounts, RequestTypeOK

-----------------------------------------------------------------------------
(* ReplyDelivery: every part that is sent, recorded or on its way is one of the answer. *)

PartsFit ==
  /\ delivery \in Deliveries /\ record \in Deliveries
  /\ posted \in Seq(AllParts) /\ onTheWay \in AllParts \cup {NoPart}
DeliverCounts ==
  /\ notice \in {"none", "failure", "unfinished"}
  /\ followUps \in 0..MaxFollowUps /\ followUp \in {"none", "answered", "failed"}
DeliverTypes == DeliverInv /\ PartsFit /\ DeliverCounts

LEMMA PartsAre ==
  ASSUME LoopIsAt, NEW s \in 0..2
  PROVE  PartsOf(s) \in Seq(AllParts)
<1>1. shape.first \in Nat \ {0} /\ shape.second \in Nat
  BY SequencesAre
<1> DEFINE n == CASE s = 0 -> 1 [] s = 1 -> shape.first [] s = 2 -> shape.second
<1>2. n \in Nat
  BY <1>1
<1>3. \A i \in 1..n : Part(s, i) \in AllParts
  <2> TAKE i \in 1..n
  <2>1. CASE s = 0
    <3>1. i = 1
      BY <2>1
    <3> QED
      BY <2>1, <3>1 DEF AllParts
  <2>2. CASE s \in {1, 2}
    <3>1. i \in 1..(shape.first + shape.second)
      BY <1>1, <2>2
    <3> HIDE DEF n
    <3> QED
      BY <2>2, <3>1 DEF AllParts
  <2> QED
    BY <2>1, <2>2
<1>4. PartsOf(s) = [i \in 1..n |-> Part(s, i)]
  BY DEF PartsOf
<1> HIDE DEF n
<1> QED
  BY <1>2, <1>3, <1>4

LEMMA NextIsPart ==
  ASSUME LoopIsAt, index < SegmentSize
  PROVE  next \in AllParts
<1>1. shape.first \in Nat \ {0} /\ shape.second \in Nat /\ index \in Nat /\ segment \in 0..2
  BY SequencesAre DEF LoopIsAt
<1>2. CASE segment = 0
  <2>1. index + 1 = 1
    BY <1>1, <1>2 DEF SegmentSize
  <2> QED
    BY <1>2, <2>1 DEF next, AllParts
<1>3. CASE segment \in {1, 2}
  <2>1. index + 1 \in 1..(shape.first + shape.second)
    BY <1>1, <1>3 DEF SegmentSize
  <2> QED
    BY <1>3, <2>1 DEF next, AllParts
<1> QED
  BY <1>1, <1>2, <1>3

\* What is kept of a delivery grows by parts of the answer.
LEMMA DeliveryGrows ==
  ASSUME NEW d \in Deliveries, NEW ps \in Seq(AllParts), NEW p \in AllParts
  PROVE  /\ d.generated \o ps \in Seq(AllParts)
         /\ Append(d.attempted, p) \in Seq(AllParts) /\ Append(d.replies, p) \in Seq(AllParts)
         /\ Append(d.texts, p) \in Seq(AllParts)
<1>1. /\ d.generated \in Seq(AllParts) /\ d.attempted \in Seq(AllParts)
      /\ d.replies \in Seq(AllParts) /\ d.texts \in Seq(AllParts)
  BY DEF Deliveries
<1> QED
  BY ONLY <1>1, ps \in Seq(AllParts), p \in AllParts

LEMMA PendingFits ==
  ASSUME LoopIsAt, NEW d \in Deliveries
  PROVE  pending(d) \in Deliveries
<1>1. PartsOf(2) \in Seq(AllParts) /\ Part(0, 1) \in AllParts
  BY PartsAre DEF AllParts
<1>2. d.generated \o PartsOf(2) \in Seq(AllParts)
  BY <1>1, DeliveryGrows
<1> DEFINE g == d.generated \o PartsOf(2)
<1>3. pending(d) \in {[d EXCEPT !.generated = g, !.complete = FALSE], [d EXCEPT !.complete = FALSE]}
  BY DEF pending
<1> HIDE DEF g
<1> QED
  BY ONLY <1>2, <1>3, d \in Deliveries DEF Deliveries, g

LEMMA FollowsFits ==
  ASSUME NEW d \in Deliveries, follows(d)
  PROVE  delivery' \in Deliveries
BY DEF follows, Deliveries

LEMMA ReceivedFits ==
  ASSUME NEW d \in Deliveries, NEW p \in AllParts
  PROVE  received(d, p) \in Deliveries
<1> DEFINE r == Append(d.replies, p)
           t == Append(d.texts, p)
<1>1. <<>> \in Seq(AllParts)
  OBVIOUS
<1>2. r \in Seq(AllParts) /\ t \in Seq(AllParts)
  BY <1>1, DeliveryGrows
<1>3. received(d, p) = [d EXCEPT !.replies = r, !.texts = t]
  BY DEF received
<1> HIDE DEF r, t
<1> QED
  BY ONLY <1>2, <1>3, d \in Deliveries DEF Deliveries

\* What is there after the request's own steps.
LEMMA SendingFits ==
  ASSUME DeliverInv, PartsFit,
         BeginSegment \/ Attempt \/ Accepted \/ Uncertain \/ Found \/ NotFound \/ TimesOut \/ Refused
  PROVE  /\ delivery' \in Deliveries /\ posted' \in Seq(AllParts) /\ onTheWay' \in AllParts \cup {NoPart}
         /\ UNCHANGED <<shape, record>>
<1>0. /\ LoopIsAt /\ delivery \in Deliveries /\ posted \in Seq(AllParts) /\ onTheWay \in AllParts \cup {NoPart}
      /\ phase \in {"send", "waiting", "asking"} => next \in AllParts
  BY NextIsPart DEF DeliverInv, LoopIsAt, PartsFit
<1>a. pending(delivery) \in Deliveries
  BY <1>0, PendingFits
<1>b. next \in AllParts => uncertain(delivery) \in Deliveries
  BY <1>0 DEF uncertain, Deliveries
<1>c. next \in AllParts => pending(uncertain(delivery)) \in Deliveries
  BY <1>0, <1>b, PendingFits
<1>d. ASSUME Lost, next \in AllParts PROVE posted' \in Seq(AllParts) /\ onTheWay' \in AllParts \cup {NoPart}
  BY <1>0, <1>d DEF Lost
<1>1. CASE BeginSegment
  <2>1. PartsOf(segment) \in Seq(AllParts)
    BY <1>0, PartsAre DEF LoopIsAt
  <2> DEFINE g == delivery.generated \o PartsOf(segment)
  <2>a. Part(0, 1) \in AllParts
    BY DEF AllParts
  <2>b. g \in Seq(AllParts) /\ delivery' = [delivery EXCEPT !.complete = FALSE, !.generated = g]
    BY <1>0, <1>1, <2>1, <2>a, DeliveryGrows DEF BeginSegment
  <2> HIDE DEF g
  <2>2. delivery' \in Deliveries
    BY ONLY <1>0, <2>b DEF Deliveries
  <2> QED
    BY <1>0, <1>1, <2>2 DEF BeginSegment
<1>2. CASE Attempt
  <2> DEFINE g == Append(delivery.attempted, next)
  <2>a. <<>> \in Seq(AllParts)
    OBVIOUS
  <2>b. g \in Seq(AllParts) /\ delivery' = [delivery EXCEPT !.attempted = g]
    BY <1>0, <1>2, <2>a, DeliveryGrows DEF Attempt
  <2> HIDE DEF g
  <2>1. delivery' \in Deliveries
    BY ONLY <1>0, <2>b DEF Deliveries
  <2> QED
    BY <1>0, <1>2, <2>1 DEF Attempt
<1>3. CASE Accepted
  <2>1. received(delivery, next) \in Deliveries
    BY <1>0, <1>3, ReceivedFits DEF Accepted
  <2> QED
    BY <1>0, <1>3, <2>1, FollowsFits DEF Accepted
<1>4. CASE Uncertain
  BY <1>0, <1>4, <1>b, <1>d DEF Uncertain
<1>5. CASE Found
  <2>1. [delivery EXCEPT !.unknown = FALSE, !.uncertain = NoPart] \in Deliveries
    BY <1>0 DEF Deliveries
  <2>2. received([delivery EXCEPT !.unknown = FALSE, !.uncertain = NoPart], next) \in Deliveries
    BY <1>0, <1>5, <2>1, ReceivedFits DEF Found
  <2> QED
    BY <1>0, <1>5, <2>2, FollowsFits DEF Found
<1>6. CASE NotFound \/ Refused
  BY <1>0, <1>6, <1>a DEF NotFound, Refused
<1>7. CASE TimesOut
  BY <1>0, <1>7, <1>a, <1>c, <1>d DEF TimesOut
<1> QED
  BY <1>1, <1>2, <1>3, <1>4, <1>5, <1>6, <1>7

\* A later request confirms a part that was generated.
LEMMA ConfirmedFits ==
  ASSUME DeliverInv, PartsFit, phase = "over", record.unknown
  PROVE  Confirmed(record) \in Deliveries
<1>0. LoopIsAt /\ GeneratedFirst /\ ChannelShows /\ RecordFollows /\ record \in Deliveries /\ delivery \in Deliveries
  BY DEF DeliverInv, PartsFit
<1>1. record = delivery /\ delivery.attempted # <<>>
  <2>1. ~NoDelivery.unknown /\ ~Confirmed(delivery).unknown
    BY <1>0 DEF NoDelivery, Confirmed, Deliveries
  <2> QED
    BY <1>0, <2>1 DEF RecordFollows
<1>2. delivery.uncertain \in AllParts
  BY <1>0, <1>1, NextIsPart DEF ChannelShows
<1>3. /\ Len(delivery.attempted) \in 1..Len(delivery.generated)
      /\ delivery.generated \in Seq(AllParts) /\ delivery.attempted \in Seq(AllParts)
  BY <1>0, <1>1 DEF GeneratedFirst, Deliveries
<1>4. delivery.generated[part_index(delivery)] \in AllParts
  BY <1>3 DEF part_index
<1>5. is_complete(delivery) \in BOOLEAN
  BY DEF is_complete
<1> DEFINE r == Append(record.replies, record.uncertain)
           t == Append(record.texts, record.generated[part_index(record)])
           done_now == is_complete(record)
<1>6. r \in Seq(AllParts) /\ t \in Seq(AllParts)
  <2>1. <<>> \in Seq(AllParts)
    OBVIOUS
  <2> QED
    BY <1>0, <1>1, <1>2, <1>4, <2>1, DeliveryGrows
<1>7. Confirmed(record) = [record EXCEPT !.replies = r, !.texts = t, !.complete = done_now, !.unknown = FALSE,
                             !.uncertain = NoPart]
  BY DEF Confirmed
<1>8. done_now \in BOOLEAN
  BY <1>1, <1>5
<1> HIDE DEF r, t, done_now
<1> QED
  BY ONLY <1>0, <1>6, <1>7, <1>8 DEF Deliveries

LEMMA DeliverTypesStart == DeliverInit => DeliverTypes
<1> SUFFICES ASSUME DeliverInit PROVE DeliverTypes
  OBVIOUS
<1>1. NoDelivery \in Deliveries
  <2>1. <<>> \in Seq(AllParts)
    OBVIOUS
  <2> QED
    BY <2>1 DEF NoDelivery, Deliveries
<1>2. PartsFit
  BY <1>1 DEF DeliverInit, PartsFit
<1>3. DeliverCounts
  BY DeliveryAssumption DEF DeliverInit, DeliverCounts
<1> QED
  BY <1>2, <1>3, DeliverStarts DEF DeliverTypes

LEMMA PartsFitKept ==
  ASSUME DeliverInv, PartsFit, DeliverNext
  PROVE  PartsFit'
<1>0. /\ delivery \in Deliveries /\ record \in Deliveries /\ posted \in Seq(AllParts)
      /\ onTheWay \in AllParts \cup {NoPart}
  BY DEF PartsFit
<1>1. shape' = shape => Deliveries' = Deliveries /\ AllParts' = AllParts
  BY DEF Deliveries, AllParts
<1>2. CASE BeginSegment \/ Attempt \/ Accepted \/ Uncertain \/ Found \/ NotFound \/ TimesOut \/ Refused
  <2>1. /\ delivery' \in Deliveries /\ posted' \in Seq(AllParts) /\ onTheWay' \in AllParts \cup {NoPart}
        /\ UNCHANGED <<shape, record>>
    BY <1>2, SendingFits
  <2> QED
    BY <1>0, <1>1, <2>1 DEF PartsFit
<1>3. CASE FallBack
  BY <1>0, <1>1, <1>3 DEF FallBack, PartsFit
<1>4. CASE Record
  BY <1>0, <1>1, <1>4 DEF Record, PartsFit
<1>5. CASE ArrivesLate
  <2>1. Append(posted, onTheWay) \in Seq(AllParts)
    BY <1>0, <1>5 DEF ArrivesLate
  <2> QED
    BY <1>0, <1>1, <1>5, <2>1 DEF ArrivesLate, PartsFit
<1>6. CASE FollowUp
  <2>1. record' \in Deliveries
    BY <1>0, <1>6, ConfirmedFits DEF FollowUp
  <2> QED
    BY <1>0, <1>1, <1>6, <2>1 DEF FollowUp, PartsFit
<1> QED
  BY <1>2, <1>3, <1>4, <1>5, <1>6 DEF DeliverNext

LEMMA DeliverCountsKept ==
  ASSUME DeliverCounts, DeliverNext
  PROVE  DeliverCounts'
<1>1. CASE UNCHANGED <<notice, followUps, followUp>>
  BY <1>1 DEF DeliverCounts
<1>2. CASE Record
  BY <1>2 DEF Record, recovery, DeliverCounts
<1>3. CASE FollowUp
  BY <1>3, DeliveryAssumption DEF FollowUp, DeliverCounts
<1> QED
  BY <1>1, <1>2, <1>3 DEF DeliverNext, BeginSegment, Attempt, Accepted, Uncertain, Found, NotFound, TimesOut,
     Refused, FallBack, ArrivesLate

LEMMA DeliverTypesKept == DeliverTypes /\ [DeliverNext]_deliverVars => DeliverTypes'
<1> SUFFICES ASSUME DeliverTypes, [DeliverNext]_deliverVars PROVE DeliverTypes'
  OBVIOUS
<1>1. DeliverInv'
  BY DeliveriesKept DEF DeliverTypes
<1>2. CASE UNCHANGED deliverVars
  BY <1>1, <1>2 DEF deliverVars, DeliverTypes, PartsFit, DeliverCounts, Deliveries, AllParts
<1>3. CASE DeliverNext
  BY <1>1, <1>3, PartsFitKept, DeliverCountsKept DEF DeliverTypes
<1> QED
  BY <1>2, <1>3

LEMMA DeliverTypesAre == DeliverTypes => DeliverTypeOK
BY DEF DeliverTypes, DeliverInv, LoopIsAt, PartsFit, DeliverCounts, DeliverTypeOK

-----------------------------------------------------------------------------
(* PlanSteps: who waits for a lookup waits for a read of the same key. *)

SharersWait ==
  \A s \in DOMAIN plan : sharing[s] \in DOMAIN plan =>
    LET t == sharing[s] IN plan[t].key = plan[s].key /\ ~plan[t].change /\ plan[t].shares
BadAreMade == \A k \in PlanKeys : bad[k] <= done[k]
PlanTypes == PlanInv /\ SharersWait /\ BadAreMade

\* What a step does to who waits for whom, and to the lookups made.
SharesOne ==
  \/ UNCHANGED sharing
  \/ \E s \in DOMAIN plan : sharing' = [sharing EXCEPT ![s] = reads[plan[s].key]]
LooksOne ==
  \/ UNCHANGED <<done, bad>>
  \/ \E s \in DOMAIN plan : /\ done' = [done EXCEPT ![plan[s].key] = @ + 1]
                            /\ UNCHANGED bad \/ bad' = [bad EXCEPT ![plan[s].key] = @ + 1]

LEMMA StepsShareOne ==
  ASSUME PlanNext, ~NextPlan
  PROVE  SharesOne /\ LooksOne /\ UNCHANGED plan
<1>1. ASSUME NEW s \in DOMAIN plan, StepActs(s) PROVE SharesOne /\ LooksOne /\ UNCHANGED plan
  <2>1. CASE LookUp(s)
    BY <2>1 DEF LookUp, Comes, SharesOne, LooksOne
  <2>2. CASE CheckPasses(s)
    BY <2>2 DEF CheckPasses, StepGoes, SharesOne, LooksOne
  <2>3. CASE NotRun(s) \/ EnterStep(s) \/ StepCheckFails(s) \/ Share(s) \/ ShareLost(s) \/ Reserve(s)
    BY <2>3 DEF NotRun, EnterStep, StepCheckFails, Share, ShareLost, Reserve, Comes, StepGoes, SharesOne, LooksOne
  <2> QED
    BY <1>1, <2>1, <2>2, <2>3 DEF StepActs
<1>2. CASE BeginRound \/ EndRound \/ CancelRequest
  BY <1>2 DEF BeginRound, EndRound, CancelRequest, SharesOne, LooksOne
<1> QED
  BY <1>1, <1>2 DEF PlanNext, PlanGoesOn

LEMMA SharersKept ==
  ASSUME PlanInv, SharersWait, UNCHANGED plan, SharesOne
  PROVE  SharersWait'
<1>0. PlanShapes /\ OwnersLook
  BY DEF PlanInv
<1>1. CASE UNCHANGED sharing
  BY <1>1 DEF SharersWait
<1>2. ASSUME NEW s \in DOMAIN plan, sharing' = [sharing EXCEPT ![s] = reads[plan[s].key]]
      PROVE  SharersWait'
  <2>1. plan[s].key \in PlanKeys
    BY <1>0, PlanIsOne
  <2>2. \A t \in DOMAIN plan : sharing'[t] = IF t = s THEN reads[plan[s].key] ELSE sharing[t]
    BY <1>0, <1>2 DEF PlanShapes
  <2>3. reads[plan[s].key] \in DOMAIN plan =>
          LET t == reads[plan[s].key] IN plan[t].key = plan[s].key /\ ~plan[t].change /\ plan[t].shares
    BY <1>0, <2>1 DEF OwnersLook
  <2> QED
    BY <2>2, <2>3 DEF SharersWait
<1> QED
  BY <1>1, <1>2 DEF SharesOne

LEMMA BadKept ==
  ASSUME PlanInv, BadAreMade, LooksOne
  PROVE  BadAreMade'
<1>0. done \in [PlanKeys -> Nat] /\ bad \in [PlanKeys -> Nat]
  BY DEF PlanInv, PlanShapes
<1>1. CASE UNCHANGED <<done, bad>>
  BY <1>1 DEF BadAreMade
<1>2. ASSUME NEW s \in DOMAIN plan, done' = [done EXCEPT ![plan[s].key] = @ + 1],
             UNCHANGED bad \/ bad' = [bad EXCEPT ![plan[s].key] = @ + 1]
      PROVE  BadAreMade'
  <2> SUFFICES ASSUME NEW k \in PlanKeys PROVE bad'[k] <= done'[k]
    BY DEF BadAreMade
  <2>1. bad[k] \in Nat /\ done[k] \in Nat /\ bad[k] <= done[k]
    BY <1>0 DEF BadAreMade
  <2>2. CASE k = plan[s].key
    BY <1>0, <1>2, <2>1, <2>2
  <2>3. CASE k # plan[s].key
    BY <1>0, <1>2, <2>1, <2>3
  <2> QED
    BY <2>2, <2>3
<1> QED
  BY <1>1, <1>2 DEF LooksOne

LEMMA PlanTypesStart == PlanInit => PlanTypes
<1> SUFFICES ASSUME PlanInit PROVE PlanTypes
  OBVIOUS
<1>1. PlanInv
  BY PlanStarts
<1>2. SharersWait
  BY <1>1, PlanIsOne DEF PlanInv, PlanInit, All, SharersWait
<1>3. BadAreMade
  BY DEF PlanInit, BadAreMade
<1> QED
  BY <1>1, <1>2, <1>3 DEF PlanTypes

LEMMA PlanTypesKept == PlanTypes /\ [PlanNext]_planVars => PlanTypes'
<1> SUFFICES ASSUME PlanTypes, [PlanNext]_planVars PROVE PlanTypes'
  OBVIOUS
<1>0. PlanInv /\ SharersWait /\ BadAreMade
  BY DEF PlanTypes
<1>1. PlanInv'
  BY <1>0, PlanKept
<1>2. CASE UNCHANGED planVars
  BY <1>0, <1>1, <1>2 DEF planVars, PlanTypes, SharersWait, BadAreMade
<1>3. CASE PlanNext /\ ~NextPlan
  BY <1>0, <1>1, <1>3, StepsShareOne, SharersKept, BadKept DEF PlanTypes
<1>4. CASE NextPlan
  <2>1. PlanShapes' /\ sharing' = All(plan', NoStepYet) /\ UNCHANGED <<done, bad>>
    BY <1>1, <1>4 DEF NextPlan, PlanInv
  <2>2. NoStepYet \notin DOMAIN plan'
    BY <1>4, PlanAssumption DEF NextPlan, NoStepYet
  <2> QED
    BY <1>0, <1>1, <2>1, <2>2 DEF PlanTypes, SharersWait, BadAreMade, All
<1> QED
  BY <1>2, <1>3, <1>4

LEMMA PlanTypesAre == PlanTypes => PlanTypeOK
BY DEF PlanTypes, SharersWait, BadAreMade, PlanInv, PlanShapes, StepPlaces, PlanTypeOK

-----------------------------------------------------------------------------
(* What each component's types say of it, for every behaviour of it. *)
\* A conversation is loaded once, whatever is looked up, restored, made, touched or dropped
\* beside each other, and who works in one has it (ConversationStore).
THEOREM RequestTypesCorrect == RequestSpec => []RequestTypeOK
BY RequestTypesStart, RequestTypesKept, RequestTypesAre, PTL DEF RequestSpec

\* Every part that is attempted, recorded, posted or on its way is a part of the answer.
THEOREM DeliverTypesCorrect == DeliverSpec => []DeliverTypeOK
BY DeliverTypesStart, DeliverTypesKept, DeliverTypesAre, PTL DEF DeliverSpec

\* Whoever waits for another's lookup waits for a read of the same key, and no more lookups
\* went wrong than were made (PlanRunner._run_one).
THEOREM PlanTypesCorrect == PlanSpec => []PlanTypeOK
BY PlanTypesStart, PlanTypesKept, PlanTypesAre, PTL DEF PlanSpec
=============================================================================
