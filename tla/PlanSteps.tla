------------------------------- MODULE PlanSteps -------------------------------
(***************************************************************************)
(* The steps of a request's plans (agent/plan/executor.py,                 *)
(* engine/steps.py): steps run in rounds, reads together and a change      *)
(* alone, at most Slots at a time; equal reads share one lookup, except    *)
(* those that must be fresh; a step whose dependency failed is not run;    *)
(* lookups are counted over the whole request.                             *)
(*                                                                         *)
(* Abstracted: a plan gives each step its dependencies, its key            *)
(* (capability and arguments), whether it changes something and whether it *)
(* shares its lookup; a result is good, an error (failed), or one whose    *)
(* flags say that the lookup failed (flagged).  The limits on evidence,    *)
(* context and time are left out, and so are the further pages of a        *)
(* search, which are counted like lookups.                                 *)
(***************************************************************************)
EXTENDS Integers, FiniteSets, FiniteSetsExt

CONSTANTS
  Plans,                \* functions 1..n -> [needs, key, change, shares]
  Slots, MaxLookups,    \* max_concurrency, MAX_TOOL_CALLS
  MaxPlans, MaxTroubles \* plans of a request; steps that fail or raise

ASSUME PlanAssumption ==
  /\ Slots \in Nat \ {0} /\ MaxLookups \in Nat /\ MaxPlans \in Nat /\ MaxTroubles \in Nat
  /\ \A p \in Plans : DOMAIN p \subseteq Nat \ {0}
  /\ \A p \in Plans : \A s \in DOMAIN p :
       p[s].needs \subseteq DOMAIN p \cap (1..(s - 1)) /\ p[s].change \in BOOLEAN /\ p[s].shares \in BOOLEAN

VARIABLES
  plan,      \* the plan that runs
  stage,     \* per step: where it is
  outcome,   \* per step: what its task, and the future it owns, came to
  sharing,   \* per step: the step whose future it waits for, or Nobody's
  reads,     \* per key: the step that owns its lookup, Earlier for one of an earlier plan
  lookups,   \* tool_calls
  done, bad, \* per key: lookups made, and those of them that went wrong
  ended,     \* "no", "finished", "lost" (access is lost), "cancelled"
  planCount, troubles

planVars == <<plan, stage, outcome, sharing, reads, lookups, done, bad, ended, planCount, troubles>>

PlanKeys == UNION {{p[s].key : s \in DOMAIN p} : p \in Plans}
NoStepYet == 0
Earlier   == -1
Active    == {"checking", "sharing", "reserving", "looking"}
Outcomes  == {"none", "good", "flagged", "failed", "lost", "cut"}
All(p, value) == [s \in DOMAIN p |-> value]

PlanInit ==
  /\ plan \in Plans
  /\ stage = All(plan, "pending") /\ outcome = All(plan, "none") /\ sharing = All(plan, NoStepYet)
  /\ reads = [k \in PlanKeys |-> NoStepYet] /\ lookups = 0
  /\ done = [k \in PlanKeys |-> 0] /\ bad = [k \in PlanKeys |-> 0]
  /\ ended = "no" /\ planCount = 1 /\ troubles = 0

StepAt(s, where) == ended = "no" /\ stage[s] = where
InRound      == {s \in DOMAIN plan : stage[s] \notin {"pending", "out"}}
StepGoes(s, where) == stage' = [stage EXCEPT ![s] = where] /\ UNCHANGED <<plan, outcome, ended, planCount>>
Comes(s, what) ==
  /\ stage' = [stage EXCEPT ![s] = "back"] /\ outcome' = [outcome EXCEPT ![s] = what]
  /\ UNCHANGED <<plan, sharing, ended, planCount>>
Calm    == UNCHANGED troubles
Trouble == troubles < MaxTroubles /\ troubles' = troubles + 1

-----------------------------------------------------------------------------
(* execute_plan *)

in_parallel(ready) ==
  LET asking == {s \in ready : ~plan[s].change}
  IN  IF asking # {} THEN asking ELSE {Min(ready)}

BeginRound ==
  LET ready == {s \in DOMAIN plan : stage[s] = "pending" /\ \A d \in plan[s].needs : stage[d] = "out"}
  IN  /\ ended = "no" /\ InRound = {} /\ ready # {}
      /\ stage' = [s \in DOMAIN plan |-> IF s \in in_parallel(ready) THEN "started" ELSE stage[s]]
      /\ UNCHANGED <<plan, outcome, sharing, reads, lookups, done, bad, ended, planCount, troubles>>

blocked(s)       == \E d \in plan[s].needs : outcome[d] = "failed"

\* A dependency failed, the plan check refused the step, or its reference finds nothing.
NotRun(s) ==
  /\ StepAt(s, "started") /\ Comes(s, "failed") /\ (IF blocked(s) THEN Calm ELSE Trouble)
  /\ UNCHANGED <<reads, lookups, done, bad>>

EnterStep(s) ==
  /\ StepAt(s, "started") /\ ~blocked(s)
  /\ Cardinality({t \in DOMAIN plan : stage[t] \in Active}) < Slots
  /\ StepGoes(s, "checking") /\ Calm /\ UNCHANGED <<sharing, reads, lookups, done, bad>>

\* What was raised by the first step of the round in order is raised for the plan.
EndRound ==
  LET raised == {s \in InRound : outcome[s] \in {"lost", "cut"}}
  IN  /\ ended = "no" /\ InRound # {} /\ \A s \in InRound : stage[s] = "back"
      /\ stage' = [s \in DOMAIN plan |-> IF s \in InRound THEN "out" ELSE stage[s]]
      /\ ended' = IF raised # {} THEN IF outcome[Min(raised)] = "lost" THEN "lost" ELSE "cancelled"
                  ELSE IF \A s \in DOMAIN plan : stage'[s] = "out" THEN "finished" ELSE "no"
      /\ UNCHANGED <<plan, outcome, sharing, reads, lookups, done, bad, planCount, troubles>>

-----------------------------------------------------------------------------
(* PlanRunner._run_one *)

Drop(s) == [k \in PlanKeys |-> IF reads[k] = s THEN NoStepYet ELSE reads[k]]

\* _check_step refuses the step, or access is lost meanwhile.
StepCheckFails(s) ==
  /\ StepAt(s, "checking") /\ Trouble /\ \E what \in {"failed", "lost"} : Comes(s, what)
  /\ UNCHANGED <<reads, lookups, done, bad>>

\* Mutant: no future is registered.
unregistered(s) == FALSE
\* read_clash, read_current_war and reads that must be fresh are looked up by each step.
registers(s)    == ~plan[s].change /\ plan[s].shares

CheckPasses(s) ==
  LET key == plan[s].key
  IN  /\ StepAt(s, "checking") /\ Calm /\ UNCHANGED <<lookups, done, bad>>
      /\ IF registers(s) /\ reads[key] # NoStepYet
         THEN /\ StepGoes(s, "sharing") /\ sharing' = [sharing EXCEPT ![s] = reads[key]]
              /\ UNCHANGED reads
         ELSE /\ StepGoes(s, "reserving") /\ UNCHANGED sharing
              /\ reads' = IF registers(s) THEN [reads EXCEPT ![key] = s] ELSE reads

\* Mutant: the future of an owner that raised is left alone.
shared_left(s) == IF sharing[s] = Earlier THEN "good"
                  ELSE IF outcome[sharing[s]] = "lost" THEN "none" ELSE outcome[sharing[s]]
\* The sharer gets the owner's result; a cancelled future raises CancelledError.
shared(s) == IF sharing[s] = Earlier THEN "good"
             ELSE IF outcome[sharing[s]] = "lost" THEN "cut" ELSE outcome[sharing[s]]
Share(s)     == StepAt(s, "sharing") /\ shared(s) # "none" /\ Comes(s, shared(s)) /\ Calm
                  /\ UNCHANGED <<reads, lookups, done, bad>>
ShareLost(s) == StepAt(s, "sharing") /\ Trouble /\ Comes(s, "lost") /\ UNCHANGED <<reads, lookups, done, bad>>

room == lookups < MaxLookups

Reserve(s) ==
  /\ StepAt(s, "reserving") /\ Calm /\ UNCHANGED <<done, bad>>
  /\ IF room THEN StepGoes(s, "looking") /\ lookups' = lookups + 1 /\ UNCHANGED <<reads, sharing>>
     ELSE Comes(s, "failed") /\ reads' = Drop(s) /\ UNCHANGED lookups

kept_reads(s, what)        == IF what = "good" THEN reads ELSE Drop(s)

LookUp(s) ==
  \E what \in {"good", "flagged", "failed", "lost"} :
    /\ StepAt(s, "looking") /\ Comes(s, what) /\ reads' = kept_reads(s, what)
    /\ IF what = "good" THEN Calm /\ UNCHANGED bad
       ELSE Trouble /\ bad' = [bad EXCEPT ![plan[s].key] = @ + 1]
    /\ done' = [done EXCEPT ![plan[s].key] = @ + 1]
    /\ UNCHANGED lookups

\* The request is cancelled; owners drop their futures.
CancelRequest ==
  /\ ended = "no" /\ InRound # {} /\ Trouble /\ ended' = "cancelled"
  /\ stage' = [s \in DOMAIN plan |-> IF s \in InRound THEN "out" ELSE stage[s]]
  /\ outcome' = [s \in DOMAIN plan |-> IF s \in InRound /\ stage[s] # "back" THEN "cut" ELSE outcome[s]]
  /\ reads' = [k \in PlanKeys |-> IF reads[k] \in InRound /\ stage[reads[k]] # "back"
                                  THEN NoStepYet ELSE reads[k]]
  /\ UNCHANGED <<plan, sharing, lookups, done, bad, planCount>>

carried_over == [k \in PlanKeys |-> IF reads[k] = NoStepYet THEN NoStepYet ELSE Earlier]

\* The model answers the results with another plan of the same request.
NextPlan ==
  /\ ended \in {"finished", "lost"} /\ planCount < MaxPlans
  /\ plan' \in Plans /\ planCount' = planCount + 1 /\ ended' = "no"
  /\ stage' = All(plan', "pending") /\ outcome' = All(plan', "none")
  /\ sharing' = All(plan', NoStepYet)
  /\ reads' = carried_over
  /\ UNCHANGED <<lookups, done, bad, troubles>>

StepActs(s) == NotRun(s) \/ EnterStep(s) \/ StepCheckFails(s) \/ CheckPasses(s) \/ Share(s) \/ ShareLost(s)
                 \/ Reserve(s) \/ LookUp(s)
PlanGoesOn == BeginRound \/ EndRound \/ \E s \in DOMAIN plan : StepActs(s)
PlanNext   == PlanGoesOn \/ CancelRequest \/ NextPlan

PlanSpec     == PlanInit /\ [][PlanNext]_planVars
PlanFairSpec == PlanSpec /\ WF_planVars(PlanGoesOn)

-----------------------------------------------------------------------------
(* Properties *)

\* The state has its shape; who waits for another's lookup waits for a read of the same key.
PlanTypeOK ==
  /\ \A s \in DOMAIN plan :
       /\ outcome[s] \in Outcomes /\ (stage[s] = "pending" => outcome[s] = "none")
       /\ stage[s] \in Active \cup {"pending", "started", "back", "out"}
       /\ sharing[s] \in DOMAIN plan =>
            LET t == sharing[s] IN plan[t].key = plan[s].key /\ ~plan[t].change /\ plan[t].shares
  /\ \A k \in PlanKeys : reads[k] \in DOMAIN plan \cup {NoStepYet, Earlier} /\ bad[k] <= done[k]

\* A change is prepared alone, after the reads that could run before it.
ChangesStandAlone ==
  \A s \in DOMAIN plan : plan[s].change /\ stage[s] \in Active =>
    \A t \in DOMAIN plan \ {s} :
      /\ stage[t] \notin Active \cup {"started", "back"}
      /\ plan[t].change \/ stage[t] = "out" \/ \E d \in plan[t].needs : stage[d] # "out"

\* A key whose reads are shared is looked up once in a request, and once more for every lookup
\* of it that went wrong, however many steps and plans ask for it; all lookups together, those
\* that are not shared too, stay in the limit.
ReadsAreShared ==
  /\ \A k \in PlanKeys :
       (\A p \in Plans : \A s \in DOMAIN p : p[s].key = k => ~p[s].change /\ p[s].shares) => done[k] <= 1 + bad[k]
  /\ lookups <= MaxLookups

\* No step runs on an error: what needs a step that came to one fails as well.
FailurePassesOn ==
  \A s \in DOMAIN plan : \A d \in plan[s].needs :
    stage[s] # "pending" /\ outcome[d] = "failed" => stage[s] \notin Active /\ outcome[s] # "good"

\* The steps of a plan that run at the same time neither repeat each other's reads nor
\* overtake what they need.
StepsRunAsPlanned == ChangesStandAlone /\ ReadsAreShared /\ FailurePassesOn

\* A plan that was begun comes to an end: no step waits for a lookup that nobody makes.
EveryPlanEnds == []<>(ended # "no" \/ \A s \in DOMAIN plan : stage[s] = "pending")
=============================================================================
