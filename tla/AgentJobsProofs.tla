---------------------------- MODULE AgentJobsProofs ----------------------------
(***************************************************************************)
(* Safety proofs of what the agent does without being asked again:          *)
(* watchers, reminders and research jobs; and what is kept of a sequence.   *)
(***************************************************************************)
EXTENDS WatcherAlerts, ReminderStops, ResearchJobs, FiniteSetTheorems, WellFoundedInduction, TLAPS

-----------------------------------------------------------------------------
(* WatcherAlerts: what is told, what is remembered and what is held back.    *)

\* What a check has read so far goes with its stage.
ReadGoesWithStage ==
  /\ check.stage \in {"none", "read"} => check.saw = NoValue
  /\ check.stage \in {"judge", "alert", "sent"} => check.saw \in Values

\* An alert is for a condition that holds and is not stored as holding.
AlertIsDue ==
  /\ check.stage = "alert" => holds /\ ~watcher.holding
  /\ check.stage = "sent" => holds /\ told = "yes"

\* What was told is stored as holding, or about to be.
ToldIsHeld == told = "yes" => check.stage = "sent" \/ watcher.holding

\* The row's result and its holding agree, as long as the rule is the first one.
ResultTellsHolding ==
  ~replaced /\ watcher.last_result # NoValue =>
    (watcher.holding <=> watcher.last_result \in watcher.condition)

WatcherInv ==
  /\ WatcherTypeOK /\ ReadGoesWithStage /\ AlertIsDue /\ ToldIsHeld /\ ResultTellsHolding
  /\ HoldingWasTold

\* The rows a watcher can have.
WatcherRows ==
  [status : {"active", "paused", "completed", "cancelled"}, condition : Conditions,
   repeat : BOOLEAN, last_result : Values \cup {NoValue}, holding : BOOLEAN, leased : BOOLEAN]
WatcherChecks ==
  [stage : {"none", "read", "judge", "alert", "sent"}, saw : Values \cup {NoValue}]

\* The invariant holds before the first check.
LEMMA WatcherStarts == WatcherInit => WatcherInv
<1> USE WatcherAssumption
<1> SUFFICES ASSUME WatcherInit PROVE WatcherInv
  OBVIOUS
<1>1. /\ watcher.status = "active" /\ ~watcher.holding /\ ~watcher.leased
      /\ watcher.last_result = NoValue /\ watcher \in WatcherRows
  BY DEF WatcherInit, WatcherRows
<1>2. check = NoCheck /\ check.stage = "none" /\ check.saw = NoValue
  BY DEF WatcherInit, NoCheck
<1>3. check \in WatcherChecks
  BY <1>2 DEF NoCheck, WatcherChecks
<1>4. told = "no" /\ replaced = FALSE /\ edits = 0 /\ faults = 0 /\ data \in Values
  BY DEF WatcherInit
<1>5. WatcherTypeOK
  <2>1. watcher.leased = (check # NoCheck)
    <3>1. watcher.leased = FALSE
      BY <1>1 DEF WatcherRows
    <3> QED
      BY <3>1, <1>2
  <2>2. told \in {"no", "cut", "yes"} /\ edits \in 0..MaxEdits /\ faults \in 0..MaxFaults
    BY <1>4 DEF WatcherAssumption
  <2>4. replaced \in BOOLEAN
    BY <1>4
  <2>3. watcher \in WatcherRows /\ check \in WatcherChecks /\ data \in Values
    BY <1>1, <1>3, <1>4
  <2> HIDE <1>1, <1>2, <1>3
  <2> QED
    BY <2>1, <2>2, <2>3, <2>4 DEF WatcherTypeOK, WatcherRows, WatcherChecks
<1> QED
  BY <1>1, <1>2, <1>4, <1>5
  DEF WatcherInv, ReadGoesWithStage, AlertIsDue, ToldIsHeld, ResultTellsHolding,
      HoldingWasTold

\* What a finished check leaves in the row.
LEMMA RowFinished ==
  ASSUME watcher \in WatcherRows,
         NEW status \in {"active", "paused", "completed"},
         NEW result \in Values \cup {NoValue}, NEW h \in BOOLEAN,
         watcher' = finished(status, result, h)
  PROVE  /\ watcher' \in WatcherRows /\ ~watcher'.leased
         /\ watcher'.last_result = result /\ watcher'.holding = h
         /\ watcher'.condition = watcher.condition
BY DEF WatcherRows, finished, finished_held

\* Every step of a check, a restart and the member keep the invariant.
LEMMA WatcherKept == WatcherInv /\ [WatcherNext]_watcherVars => WatcherInv'
<1> USE WatcherAssumption
<1> SUFFICES ASSUME WatcherInv, [WatcherNext]_watcherVars PROVE WatcherInv'
  OBVIOUS
<1> USE DEF WatcherInv
<1>0. watcher \in WatcherRows /\ check \in WatcherChecks
  BY DEF WatcherTypeOK, WatcherRows, WatcherChecks
<1>1. CASE UNCHANGED watcherVars
  BY <1>1 DEF watcherVars, WatcherTypeOK, ReadGoesWithStage, AlertIsDue, ToldIsHeld,
     ResultTellsHolding, HoldingWasTold, holds, NoCheck
<1>2. CASE DataChanges
  BY <1>2 DEF DataChanges, WatcherTypeOK, ReadGoesWithStage, AlertIsDue, ToldIsHeld,
     ResultTellsHolding, HoldingWasTold, holds, NoCheck
<1>3. CASE ClaimCheck
  <2>1. /\ watcher' \in WatcherRows /\ watcher'.leased
        /\ watcher'.last_result = watcher.last_result /\ watcher'.holding = watcher.holding
        /\ watcher'.condition = watcher.condition
    BY <1>0, <1>3 DEF ClaimCheck, WatcherRows
  <2>2. check' \in WatcherChecks /\ check'.stage = "read" /\ check'.saw = NoValue
    BY <1>3 DEF ClaimCheck, WatcherChecks
  <2>3. check.stage = "none"
    BY <1>0, <1>3 DEF ClaimCheck, WatcherTypeOK, NoCheck
  <2>4. check' # NoCheck /\ watcher'.leased = TRUE
    BY <2>1, <2>2 DEF NoCheck, WatcherRows
  <2>5. WatcherTypeOK'
    BY <2>1, <2>2, <2>4, <1>3 DEF ClaimCheck, WatcherTypeOK, WatcherRows, WatcherChecks
  <2> QED
    BY <2>1, <2>2, <2>3, <2>5, <1>3 DEF ClaimCheck, ReadGoesWithStage, AlertIsDue, ToldIsHeld,
       ResultTellsHolding, HoldingWasTold, holds
<1>4. CASE ReadCurrent
  BY <1>4 DEF ReadCurrent, WatcherTypeOK, ReadGoesWithStage, AlertIsDue, ToldIsHeld,
     ResultTellsHolding, HoldingWasTold, holds, NoCheck
<1>5. CASE Unchanged
  <2>1. /\ watcher' \in WatcherRows /\ ~watcher'.leased
        /\ watcher'.last_result = watcher.last_result /\ watcher'.holding = watcher.holding
        /\ watcher'.condition = watcher.condition
    BY <1>0, <1>5, RowFinished DEF Unchanged, same_result, WatcherRows
  <2> QED
    BY <2>1, <1>5 DEF Unchanged, WatcherTypeOK, WatcherRows, ReadGoesWithStage, AlertIsDue,
       ToldIsHeld, ResultTellsHolding, HoldingWasTold, holds, NoCheck
<1>6. CASE Judge
  <2>1. CASE starts
    BY <2>1, <1>6 DEF Judge, starts, WatcherTypeOK, ReadGoesWithStage, AlertIsDue,
       ToldIsHeld, ResultTellsHolding, HoldingWasTold, holds, NoCheck
  <2>2. CASE ~starts
    <3>1. /\ watcher' \in WatcherRows /\ ~watcher'.leased
          /\ watcher'.last_result = check.saw /\ watcher'.holding = holds
          /\ watcher'.condition = watcher.condition
      BY <2>2, <1>0, <1>6, RowFinished, holds \in BOOLEAN
      DEF Judge, WatcherChecks, holds
    <3> QED
      BY <3>1, <2>2, <1>6 DEF Judge, starts, WatcherTypeOK, WatcherRows, ReadGoesWithStage,
         AlertIsDue, ToldIsHeld, ResultTellsHolding, HoldingWasTold, holds, NoCheck
  <2> QED
    BY <2>1, <2>2
<1>7. ASSUME NEW status \in {"active", "paused"}, watcher' = failed(status)
      PROVE  /\ watcher' \in WatcherRows /\ ~watcher'.leased
             /\ watcher'.last_result = watcher.last_result
             /\ watcher'.holding = watcher.holding
             /\ watcher'.condition = watcher.condition
  <2>1. watcher.last_result \in Values \cup {NoValue} /\ watcher.holding \in BOOLEAN
    BY <1>0 DEF WatcherRows
  <2> QED
    BY <2>1, <1>0, <1>7, RowFinished DEF failed
<1>8. CASE CheckFails
  <2>1. /\ watcher' \in WatcherRows /\ ~watcher'.leased
        /\ watcher'.last_result = watcher.last_result /\ watcher'.holding = watcher.holding
        /\ watcher'.condition = watcher.condition
    BY <1>7, <1>8 DEF CheckFails
  <2> QED
    BY <2>1, <1>8 DEF CheckFails, Fault, WatcherTypeOK, WatcherRows, ReadGoesWithStage,
       AlertIsDue, ToldIsHeld, ResultTellsHolding, HoldingWasTold, holds, NoCheck
<1>9. CASE Alert
  BY <1>9 DEF Alert, WatcherTypeOK, ReadGoesWithStage, AlertIsDue, ToldIsHeld,
     ResultTellsHolding, HoldingWasTold, holds, NoCheck
<1>10. CASE AlertFails
  <2>1. /\ watcher' \in WatcherRows /\ ~watcher'.leased
        /\ watcher'.last_result = watcher.last_result /\ watcher'.holding = watcher.holding
        /\ watcher'.condition = watcher.condition
    BY <1>7, <1>10 DEF AlertFails, alert_failed
  <2> QED
    BY <2>1, <1>10 DEF AlertFails, Fault, WatcherTypeOK, WatcherRows, ReadGoesWithStage,
       AlertIsDue, ToldIsHeld, ResultTellsHolding, HoldingWasTold, holds, NoCheck
<1>11. CASE FinishAlert
  <2>1. /\ watcher' \in WatcherRows /\ ~watcher'.leased
        /\ watcher'.last_result = check.saw /\ watcher'.holding = TRUE
        /\ watcher'.condition = watcher.condition
    BY <1>0, <1>11, RowFinished DEF FinishAlert, after_alert, WatcherChecks
  <2> QED
    BY <2>1, <1>11 DEF FinishAlert, WatcherTypeOK, WatcherRows, ReadGoesWithStage,
       AlertIsDue, ToldIsHeld, ResultTellsHolding, HoldingWasTold, holds, NoCheck
<1>12. CASE StoringFails
  <2>1. /\ watcher' \in WatcherRows /\ ~watcher'.leased
        /\ watcher'.last_result = watcher.last_result /\ watcher'.holding = watcher.holding
        /\ watcher'.condition = watcher.condition
    BY <1>7, <1>12 DEF StoringFails
  <2> QED
    BY <2>1, <1>12 DEF StoringFails, Fault, WatcherTypeOK, WatcherRows, ReadGoesWithStage,
       AlertIsDue, ToldIsHeld, ResultTellsHolding, HoldingWasTold, holds, NoCheck
<1>13. CASE RestartCheck
  <2>1. /\ watcher' \in WatcherRows /\ ~watcher'.leased
        /\ watcher'.last_result = watcher.last_result /\ watcher'.holding = watcher.holding
        /\ watcher'.condition = watcher.condition
    BY <1>0, <1>13 DEF RestartCheck, WatcherRows
  <2>3. check' = NoCheck /\ check'.stage = "none" /\ check'.saw = NoValue
    BY <1>13 DEF RestartCheck, NoCheck
  <2>2. WatcherTypeOK'
    <3>1. watcher'.leased = (check' # NoCheck)
      BY <2>1, <2>3 DEF WatcherRows
    <3>2. check' \in WatcherChecks
      BY <2>3 DEF NoCheck, WatcherChecks
    <3> QED
      BY <2>1, <3>1, <3>2, <1>13
      DEF RestartCheck, Fault, WatcherTypeOK, WatcherRows, WatcherChecks
  <2>4. told' \in {told, "cut"} /\ (told' = "yes" => check.stage # "sent")
    BY <1>13 DEF RestartCheck
  <2> QED
    BY <2>1, <2>2, <2>3, <2>4, <1>13 DEF RestartCheck, ReadGoesWithStage, AlertIsDue,
       ToldIsHeld, ResultTellsHolding, HoldingWasTold
<1>14. ASSUME NEW status \in {"active", "paused", "cancelled"}, SetStatus(status)
       PROVE  WatcherInv'
  <2>1. /\ watcher' \in WatcherRows /\ watcher'.leased = watcher.leased
        /\ watcher'.last_result = watcher.last_result /\ watcher'.holding = watcher.holding
        /\ watcher'.condition = watcher.condition
    BY <1>0, <1>14 DEF SetStatus, WatcherRows
  <2> QED
    BY <2>1, <1>14 DEF SetStatus, Edit, WatcherTypeOK, WatcherRows, ReadGoesWithStage,
       AlertIsDue, ToldIsHeld, ResultTellsHolding, HoldingWasTold, holds, NoCheck
<1>15. CASE Replace
  <2>1. /\ watcher' \in WatcherRows /\ watcher'.leased = watcher.leased /\ ~watcher.leased
        /\ watcher'.holding = watcher.holding
    BY <1>0, <1>15 DEF Replace, WatcherRows
  <2>2. check = NoCheck
    BY <2>1 DEF WatcherTypeOK
  <2> QED
    BY <2>1, <2>2, <1>15 DEF Replace, Edit, WatcherTypeOK, WatcherRows, ReadGoesWithStage,
       AlertIsDue, ToldIsHeld, ResultTellsHolding, HoldingWasTold, holds, NoCheck
<1> QED
  BY <1>1, <1>2, <1>3, <1>4, <1>5, <1>6, <1>8, <1>9, <1>10, <1>11, <1>12, <1>13, <1>14, <1>15
  DEF WatcherNext

\* A condition that starts to hold is told once and never passed over, whatever fails, is
\* edited or restarted in between: an alert is sent only where the row holds nothing that
\* was told, and a check that stays silent on a condition that holds was told before.
THEOREM AlertsToldOnce == WatcherSpec => AlertsTellNews
<1>1. WatcherInv /\ [WatcherNext]_watcherVars =>
        [AlertsAreNews /\ SeenIsTold /\ HoldingWasTold']_watcherVars
  <2> SUFFICES ASSUME WatcherInv, [WatcherNext]_watcherVars, ~UNCHANGED watcherVars
               PROVE  AlertsAreNews /\ SeenIsTold /\ HoldingWasTold'
    OBVIOUS
  <2>1. AlertsAreNews
    BY DEF WatcherInv, AlertIsDue, ToldIsHeld, AlertsAreNews
  <2>2. SeenIsTold
    <3> SUFFICES ASSUME Unchanged \/ Judge, holds, ~watcher'.leased, ~replaced
                 PROVE  told # "no" /\ told' = told
      BY DEF SeenIsTold
    <3>1. watcher.holding
      <4>1. CASE Unchanged
        BY <4>1, WatcherAssumption
        DEF Unchanged, same_result, holds, WatcherInv, ResultTellsHolding, ReadGoesWithStage
      <4>2. CASE Judge
        <5>1. check # NoCheck
          BY <4>2 DEF Judge, NoCheck
        <5>2. watcher.leased
          BY <5>1, Zenon DEF WatcherInv, WatcherTypeOK
        <5>3. ~starts
          BY <5>2, <4>2 DEF Judge
        <5> QED
          BY <5>3 DEF starts
      <4> QED
        BY <4>1, <4>2
    <3> QED
      BY <3>1 DEF WatcherInv, HoldingWasTold, Unchanged, Judge
  <2>3. HoldingWasTold'
    BY WatcherKept DEF WatcherInv
  <2> QED
    BY <2>1, <2>2, <2>3
<1> QED
  BY <1>1, WatcherStarts, WatcherKept, PTL DEF WatcherSpec, AlertsTellNews

-----------------------------------------------------------------------------
(* ReminderStops: whom a run has yet to see, and what a stop means for it.   *)

\* The state has its shape; a reminder that may run goes to somebody, and a preview since which a
\* stop changed the row is not current.
ReminderShapes ==
  /\ ReminderTypeOK
  /\ reminder.status \in {"active", "paused"} => reminder.to # {}
  /\ change.shown => change.to # {}
  /\ sending = [step |-> sending.step, claimed |-> sending.claimed, todo |-> sending.todo,
                part |-> sending.part, reached |-> sending.reached, ends |-> sending.ends,
                missed |-> sending.missed]
  /\ sending.todo \in Seq(Recipients)
  /\ sending.claimed \subseteq Recipients /\ sending.part \in Nat /\ sending.missed \subseteq Recipients
  /\ sending.ends \in {"active", "paused", "completed"}
  /\ change.stops # {} => ~change.current

\* The run goes from member to member and from part to part.
OneByOne ==
  /\ \A i, j \in DOMAIN sending.todo : sending.todo[i] = sending.todo[j] => i = j
  /\ sending.step = "send" => sending.todo # <<>>
  /\ sending.step \in {"ask", "send"} /\ sending.todo # <<>> =>
       /\ sending.part \in 1..MessageParts /\ got[sending.todo[1]].run = sending.part - 1
       /\ \A i \in DOMAIN sending.todo : i > 1 => got[sending.todo[i]].run = 0

\* Whom the run has yet to see, and that it leaves nobody else out whom the reminder goes to.
ToDo == {sending.todo[i] : i \in DOMAIN sending.todo}
SentInFull ==
  sending.step # "none" =>
    /\ reminder.to \subseteq sending.claimed
    /\ reminder.status = "active" =>
         \A m \in reminder.to \ sending.missed :
           got[m].run = MessageParts \/ (sending.step \in {"ask", "send"} /\ m \in ToDo)

\* Whoever stopped it got one part since being off the list, and another one is not cleared.
StopHeld ==
  \A m \in stopped : /\ got[m].late <= 1
                     /\ m \in reminder.to => got[m].late = 0
                     /\ (sending.step = "send" /\ m = sending.todo[1] => got[m].late = 0)

ReminderInv == ReminderShapes /\ OneByOne /\ SentInFull /\ StopHeld


\* Every member of a finite set comes once in a sequence of it.
LEMMA SequenceOfSet ==
  ASSUME NEW S, IsFiniteSet(S)
  PROVE  /\ SetToSeq(S) \in Seq(S)
         /\ \A i, j \in DOMAIN SetToSeq(S) : SetToSeq(S)[i] = SetToSeq(S)[j] => i = j
         /\ {SetToSeq(S)[i] : i \in DOMAIN SetToSeq(S)} = S
<1> DEFINE n == Cardinality(S)
           order == SetToSeq(S)
<1>1. n \in Nat /\ ExistsBijection(1..n, S)
  BY FS_CardinalityType
<1>2. PICK g : g \in [1..n -> S] /\ IsInjective(g)
  BY <1>1 DEF ExistsBijection, Bijection, Injection
<1>3. order \in [1..n -> S] /\ IsInjective(order)
  BY <1>2 DEF SetToSeq
<1>4. IsFiniteSet(1..n) /\ Cardinality(1..n) = n
  BY <1>1, FS_Interval
<1>5. order \in Surjection(1..n, S)
  <2>1. order \in Injection(1..n, S)
    BY <1>3 DEF Injection
  <2> QED
    BY <2>1, <1>4, FS_Injection
<1>6. \A m \in S : \E i \in 1..n : order[i] = m
  BY <1>5 DEF Surjection
<1> HIDE DEF order
<1>7. order \in Seq(S) /\ DOMAIN order = 1..n
  BY <1>1, <1>3
<1> QED
  BY <1>3, <1>6, <1>7 DEF order, IsInjective

\* What is left of a sequence without its first element.
LEMMA RestOfSequence ==
  ASSUME NEW S, NEW s \in Seq(S), s # <<>>
  PROVE  /\ Tail(s) \in Seq(S) /\ Head(s) = s[1] /\ s[1] \in S /\ 1 \in DOMAIN s
         /\ \A i \in DOMAIN Tail(s) : i + 1 \in DOMAIN s /\ i + 1 > 1 /\ Tail(s)[i] = s[i + 1]
         /\ \A i \in DOMAIN s : i = 1 \/ (i - 1 \in DOMAIN Tail(s) /\ Tail(s)[i - 1] = s[i])
         /\ Tail(s) # <<>> => 1 \in DOMAIN Tail(s)
         /\ DOMAIN s \subseteq Nat /\ DOMAIN Tail(s) \subseteq Nat
OBVIOUS

\* The next member's turn, field by field.
LEMMA NextMemberIs ==
  ASSUME ReminderShapes, NEW reached
  PROVE  NextMember(reached) =
           [step |-> "ask", claimed |-> sending.claimed, todo |-> Tail(sending.todo), part |-> 1,
            reached |-> reached, ends |-> sending.ends, missed |-> sending.missed]
<1>1. sending \in [step : {sending.step}, claimed : {sending.claimed}, todo : {sending.todo},
                   part : {sending.part}, reached : {sending.reached}, ends : {sending.ends},
                   missed : {sending.missed}]
  BY DEF ReminderShapes
<1>2. NextMember(reached) \in [step : {"ask"}, claimed : {sending.claimed}, todo : {Tail(sending.todo)},
                               part : {1}, reached : {reached}, ends : {sending.ends},
                               missed : {sending.missed}]
  BY <1>1 DEF NextMember
<1> QED
  BY <1>2

\* A member is done when everything was sent, the member was refused or fails to get it.
LEMMA OnToNext ==
  ASSUME ReminderInv, sending.step \in {"ask", "send"}, sending.todo # <<>>, NEW reached,
         sending'.step = "ask", sending'.todo = Tail(sending.todo), sending'.part = 1,
         sending'.claimed = sending.claimed, sending'.ends = sending.ends,
         sending' = [step |-> sending'.step, claimed |-> sending'.claimed, todo |-> sending'.todo,
                     part |-> sending'.part, reached |-> sending'.reached, ends |-> sending'.ends,
                     missed |-> sending'.missed],
         sending'.missed \subseteq Recipients, sending.missed \subseteq sending'.missed,
         UNCHANGED <<reminder, change, stopped>>,
         got' \in [Recipients -> [run : 0..MessageParts, late : Nat]],
         \A m \in Recipients : m # Head(sending.todo) => got'[m] = got[m],
         Head(sending.todo) \in stopped =>
           /\ got'[Head(sending.todo)].late <= 1
           /\ Head(sending.todo) \in reminder.to => got'[Head(sending.todo)].late = 0,
         \/ Head(sending.todo) \notin reminder.to \/ reminder.status # "active"
         \/ Head(sending.todo) \in sending'.missed \/ got'[Head(sending.todo)].run = MessageParts
  PROVE  ReminderInv'
<1> DEFINE first == Head(sending.todo)
           rest  == Tail(sending.todo)
<1>0. ReminderShapes /\ OneByOne /\ SentInFull /\ StopHeld
  BY DEF ReminderInv
<1>1. /\ sending.todo \in Seq(Recipients)
      /\ \A i, j \in DOMAIN sending.todo : sending.todo[i] = sending.todo[j] => i = j
      /\ \A i \in DOMAIN sending.todo : i > 1 => got[sending.todo[i]].run = 0
  BY <1>0 DEF ReminderShapes, OneByOne
<1>2. /\ rest \in Seq(Recipients) /\ first = sending.todo[1] /\ first \in Recipients
      /\ \A i \in DOMAIN rest : i + 1 \in DOMAIN sending.todo /\ i + 1 > 1 /\ rest[i] = sending.todo[i + 1]
      /\ \A i \in DOMAIN sending.todo :
           i = 1 \/ (i - 1 \in DOMAIN rest /\ rest[i - 1] = sending.todo[i])
      /\ rest # <<>> => 1 \in DOMAIN rest
      /\ 1 \in DOMAIN sending.todo /\ DOMAIN rest \subseteq Nat /\ DOMAIN sending.todo \subseteq Nat
  <2> DEFINE s == sending.todo
  <2>1. s \in Seq(Recipients) /\ s # <<>>
    BY <1>1
  <2> HIDE DEF s
  <2>2. /\ Tail(s) \in Seq(Recipients) /\ Head(s) = s[1] /\ s[1] \in Recipients /\ 1 \in DOMAIN s
        /\ \A i \in DOMAIN Tail(s) : i + 1 \in DOMAIN s /\ i + 1 > 1 /\ Tail(s)[i] = s[i + 1]
        /\ \A i \in DOMAIN s : i = 1 \/ (i - 1 \in DOMAIN Tail(s) /\ Tail(s)[i - 1] = s[i])
        /\ Tail(s) # <<>> => 1 \in DOMAIN Tail(s)
        /\ DOMAIN s \subseteq Nat /\ DOMAIN Tail(s) \subseteq Nat
    BY <2>1, RestOfSequence
  <2> QED
    BY <2>2 DEF s
<1> HIDE DEF first, rest
<1>3. \A i \in DOMAIN rest : rest[i] # first /\ rest[i] \in Recipients /\ got[rest[i]].run = 0
  <2> TAKE i \in DOMAIN rest
  <2>1. i + 1 \in DOMAIN sending.todo /\ i + 1 > 1 /\ rest[i] = sending.todo[i + 1] /\ i + 1 # 1
    BY <1>2
  <2>2. rest[i] # first /\ got[rest[i]].run = 0
    BY SMTT(30), <1>1, <1>2, <2>1
  <2>3. rest[i] \in Recipients
    BY <1>2
  <2> QED
    BY <2>2, <2>3
<1>4. \A i, j \in DOMAIN rest : rest[i] = rest[j] => i = j
  <2> SUFFICES ASSUME NEW i \in DOMAIN rest, NEW j \in DOMAIN rest, rest[i] = rest[j] PROVE i = j
    OBVIOUS
  <2>1. /\ i + 1 \in DOMAIN sending.todo /\ rest[i] = sending.todo[i + 1]
        /\ j + 1 \in DOMAIN sending.todo /\ rest[j] = sending.todo[j + 1] /\ i \in Nat /\ j \in Nat
    BY <1>2
  <2>2. i + 1 = j + 1
    BY <1>1, <2>1
  <2> QED
    BY <2>1, <2>2
<1>5. sending'.todo = rest /\ first = Head(sending.todo)
  BY DEF rest, first
<1>6. ReminderShapes'
  BY <1>0, <1>2, <1>5 DEF ReminderShapes, ReminderTypeOK
<1>7. OneByOne'
  <2>1. \A i \in DOMAIN rest : got'[rest[i]].run = 0
    BY <1>3, <1>5
  <2>2. 1 \in 1..MessageParts
    BY ReminderAssumption
  <2>3. rest # <<>> => got'[rest[1]].run = 0
    BY <1>2, <2>1
  <2>4. /\ \A i, j \in DOMAIN sending'.todo : sending'.todo[i] = sending'.todo[j] => i = j
        /\ sending'.todo # <<>> => got'[sending'.todo[1]].run = sending'.part - 1
        /\ \A i \in DOMAIN sending'.todo : got'[sending'.todo[i]].run = 0
        /\ sending'.step # "send" /\ sending'.part \in 1..MessageParts
    <3>1. sending'.todo # <<>> => got'[sending'.todo[1]].run = sending'.part - 1
      <4>1. sending'.part - 1 = 0
        OBVIOUS
      <4> HIDE DEF rest
      <4>2. sending'.todo # <<>> => got'[sending'.todo[1]].run = 0
        BY <1>5, <2>3
      <4> QED
        BY <4>1, <4>2
    <3>2. /\ \A i, j \in DOMAIN sending'.todo : sending'.todo[i] = sending'.todo[j] => i = j
          /\ \A i \in DOMAIN sending'.todo : got'[sending'.todo[i]].run = 0
      BY <1>4, <1>5, <2>1
    <3> QED
      BY <2>2, <3>1, <3>2
  <2> QED
    BY <2>4 DEF OneByOne
<1>8. SentInFull'
  <2>1. ToDo \subseteq ToDo' \cup {first}
    <3>1. \A i \in DOMAIN sending.todo : sending.todo[i] = first \/ \E j \in DOMAIN rest : rest[j] = sending.todo[i]
      <4> TAKE i \in DOMAIN sending.todo
      <4>1. CASE i = 1
        BY <1>2, <4>1
      <4>2. CASE i # 1
        BY <1>2, <4>2
      <4> QED
        BY <4>1, <4>2
    <3>2. ToDo' = {rest[j] : j \in DOMAIN rest}
      BY <1>5 DEF ToDo
    <3>3. \A m \in ToDo : \E i \in DOMAIN sending.todo : m = sending.todo[i]
      BY DEF ToDo
    <3> QED
      BY <3>1, <3>2, <3>3
  <2>2. ASSUME NEW m \in reminder.to \ sending'.missed, reminder.status = "active"
        PROVE  got'[m].run = MessageParts \/ m \in ToDo'
    <3>1. m \in Recipients /\ (got[m].run = MessageParts \/ m \in ToDo)
      BY <1>0, <2>2 DEF SentInFull, ReminderShapes, ReminderTypeOK
    <3>2. CASE m = first
      BY <1>5, <2>2, <3>2
    <3>3. CASE m # first
      BY <1>5, <2>1, <3>1, <3>3
    <3> QED
      BY <3>2, <3>3
  <2> QED
    BY <1>0, <2>2 DEF SentInFull
<1>9. StopHeld'
  <2>1. stopped' = stopped /\ reminder' = reminder /\ sending'.step # "send"
    OBVIOUS
  <2>2. ASSUME NEW m \in stopped
        PROVE  got'[m].late <= 1 /\ (m \in reminder.to => got'[m].late = 0)
    <3>1. m \in Recipients
      BY <1>0 DEF ReminderShapes, ReminderTypeOK
    <3>2. CASE m = first
      BY <1>5, <2>2, <3>2
    <3>3. CASE m # first
      <4>1. got'[m] = got[m]
        BY <1>5, <3>1, <3>3
      <4> QED
        BY <1>0, <4>1 DEF StopHeld
    <3> QED
      BY <3>2, <3>3
  <2> QED
    BY <2>1, <2>2 DEF StopHeld
<1> QED
  BY <1>6, <1>7, <1>8, <1>9 DEF ReminderInv

\* A run begins with every member in turn.
LEMMA BeginRunKept ==
  ASSUME ReminderInv, BeginRun
  PROVE  ReminderInv'
<1>0. ReminderShapes /\ OneByOne /\ SentInFull /\ StopHeld
  BY DEF ReminderInv
<1>1. IsFiniteSet(reminder.to) /\ reminder.to \subseteq Recipients
  BY <1>0, ReminderAssumption, FS_Subset DEF ReminderShapes, ReminderTypeOK
<1>2. /\ sending'.step = "ask" /\ sending'.claimed = reminder.to /\ sending'.missed = {}
      /\ sending'.part = 1 /\ sending'.ends = "active" /\ sending'.todo = SetToSeq(reminder.to)
      /\ sending' = [step |-> "ask", claimed |-> reminder.to, todo |-> SetToSeq(reminder.to), part |-> 1,
                     reached |-> FALSE, ends |-> "active", missed |-> {}]
      /\ \A m \in Recipients : got'[m] = [got[m] EXCEPT !.run = 0]
      /\ got' = [m \in Recipients |-> [got[m] EXCEPT !.run = 0]]
      /\ reminder.status = "active" /\ UNCHANGED <<stopped, changes>>
      /\ reminder' = [reminder EXCEPT !.leased = TRUE] /\ change' = [change EXCEPT !.current = FALSE]
  BY DEF BeginRun, Changed
<1>2a. /\ got' \in [Recipients -> [run : 0..MessageParts, late : Nat]]
       /\ \A m \in Recipients : got'[m].run = 0 /\ got'[m].late = got[m].late
  BY SMTT(30), <1>0, <1>2, ReminderAssumption DEF ReminderShapes, ReminderTypeOK
<1>2b. reminder' \in [status : {"active"}, to : {reminder.to}, once : {reminder.once}, leased : {TRUE}]
       /\ change' \in [shown : {change.shown}, to : {change.to}, once : {change.once},
                       current : {FALSE}, stops : {change.stops}]
  BY <1>0, <1>2 DEF ReminderShapes, ReminderTypeOK
<1> DEFINE order == SetToSeq(reminder.to)
<1>3. /\ order \in Seq(reminder.to)
      /\ \A i, j \in DOMAIN order : order[i] = order[j] => i = j
      /\ {order[i] : i \in DOMAIN order} = reminder.to
  BY <1>1, SequenceOfSet
<1>4. sending'.todo = order
  BY <1>2
<1> HIDE DEF order
<1>5. ReminderShapes'
  <2>1. sending'.todo \in Seq(Recipients)
    BY <1>1, <1>3, <1>4
  <2> QED
    BY <1>0, <1>1, <1>2, <1>2a, <1>2b, <2>1 DEF ReminderShapes, ReminderTypeOK
<1>6. OneByOne'
  <2>1. \A i \in DOMAIN order : order[i] \in Recipients
    BY <1>1, <1>3
  <2>2. 1 \in 1..MessageParts
    BY ReminderAssumption
  <2>3. order # <<>> => 1 \in DOMAIN order
    BY <1>3
  <2> QED
    BY <1>2, <1>2a, <1>3, <1>4, <2>1, <2>2, <2>3 DEF OneByOne
<1>7. SentInFull'
  BY <1>2, <1>2b, <1>3, <1>4 DEF SentInFull, ToDo
<1>8. StopHeld'
  BY <1>0, <1>2, <1>2a DEF StopHeld, ReminderShapes, ReminderTypeOK
<1> QED
  BY <1>5, <1>6, <1>7, <1>8 DEF ReminderInv

\* The next member is asked for.
LEMMA AskKept ==
  ASSUME ReminderInv, Ask
  PROVE  ReminderInv'
<1>0. ReminderShapes /\ OneByOne /\ SentInFull /\ StopHeld
  BY DEF ReminderInv
<1>1. sending.step = "ask" /\ sending.todo # <<>> /\ UNCHANGED <<reminder, change, stopped, got>>
  BY DEF Ask
<1>2. sending.todo \in Seq(Recipients) /\ Head(sending.todo) = sending.todo[1]
  BY <1>0, <1>1 DEF ReminderShapes
<1>3. CASE ~recipient_allowed(Head(sending.todo))
  <2>1. PICK reached : sending' = NextMember(reached)
    BY <1>3 DEF Ask
  <2>2. sending' = [step |-> "ask", claimed |-> sending.claimed, todo |-> Tail(sending.todo), part |-> 1,
                    reached |-> reached, ends |-> sending.ends, missed |-> sending.missed]
    BY <1>0, <2>1, NextMemberIs
  <2>3. got \in [Recipients -> [run : 0..MessageParts, late : Nat]] /\ sending.missed \subseteq Recipients
    BY <1>0 DEF ReminderShapes, ReminderTypeOK
  <2>4. \A m \in stopped : got[m].late <= 1 /\ (m \in reminder.to => got[m].late = 0)
    BY <1>0 DEF StopHeld
  <2> QED
    BY <1>1, <1>3, <2>2, <2>3, <2>4, OnToNext DEF recipient_allowed
<1>4. CASE recipient_allowed(Head(sending.todo))
  <2>1. sending' = [sending EXCEPT !.step = "send"]
    BY <1>4 DEF Ask
  <2>2. /\ sending' = [step |-> "send", claimed |-> sending.claimed, todo |-> sending.todo,
                       part |-> sending.part, reached |-> sending.reached, ends |-> sending.ends,
                       missed |-> sending.missed]
    BY <1>0, <2>1 DEF ReminderShapes
  <2>3. Head(sending.todo) \in reminder.to
        /\ (Head(sending.todo) \in stopped => got[Head(sending.todo)].late = 0)
    BY <1>0, <1>4 DEF recipient_allowed, StopHeld
  <2>4. ReminderShapes'
    BY <1>0, <1>1, <2>2 DEF ReminderShapes, ReminderTypeOK
  <2>5. OneByOne' /\ SentInFull' /\ StopHeld'
    BY <1>0, <1>1, <1>2, <2>2, <2>3 DEF OneByOne, SentInFull, ToDo, StopHeld
  <2> QED
    BY <2>4, <2>5 DEF ReminderInv
<1> QED
  BY <1>3, <1>4

\* A part is sent.
LEMMA SendPartKept ==
  ASSUME ReminderInv, SendPart
  PROVE  ReminderInv'
<1>0. ReminderShapes /\ OneByOne /\ SentInFull /\ StopHeld
  BY DEF ReminderInv
<1> DEFINE first == Head(sending.todo)
<1>1. sending.step = "send" /\ sending.todo # <<>> /\ UNCHANGED <<reminder, change, stopped>>
  BY <1>0 DEF SendPart, OneByOne
<1>2. /\ first = sending.todo[1] /\ first \in Recipients /\ sending.part \in 1..MessageParts
      /\ got[first].run = sending.part - 1 /\ 1 \in DOMAIN sending.todo
      /\ DOMAIN sending.todo \subseteq Nat
  <2>1. sending.todo \in Seq(Recipients)
    BY <1>0 DEF ReminderShapes
  <2>2. first = sending.todo[1] /\ first \in Recipients /\ 1 \in DOMAIN sending.todo
        /\ DOMAIN sending.todo \subseteq Nat
    BY <1>1, <2>1
  <2> QED
    BY <1>0, <1>1, <2>2 DEF OneByOne
<1>3. got \in [Recipients -> [run : 0..MessageParts, late : Nat]] /\ sending.missed \subseteq Recipients
  BY <1>0 DEF ReminderShapes, ReminderTypeOK
<1>4. /\ got' \in [Recipients -> [run : Nat, late : Nat]]
      /\ \A m \in Recipients : m # first => got'[m] = got[m]
      /\ got'[first].run = got[first].run + 1
      /\ got'[first].late = IF first \in stopped \ reminder.to THEN got[first].late + 1 ELSE got[first].late
  <2> DEFINE more == [got EXCEPT ![first].run = @ + 1]
  <2>1. /\ more \in [Recipients -> [run : Nat, late : Nat]]
        /\ \A m \in Recipients : m # first => more[m] = got[m]
        /\ more[first].run = got[first].run + 1 /\ more[first].late = got[first].late
    BY <1>2, <1>3, ReminderAssumption
  <2>2. got' = [more EXCEPT ![first].late = IF first \in stopped \ reminder.to THEN @ + 1 ELSE @]
    BY DEF SendPart
  <2> HIDE DEF more
  <2> QED
    BY <1>2, <2>1, <2>2
<1> HIDE DEF first
<1>5. /\ got' \in [Recipients -> [run : 0..MessageParts, late : Nat]]
      /\ \A m \in Recipients : m # first => got'[m] = got[m]
      /\ got'[first].run = sending.part
      /\ first \in stopped =>
           got'[first].late <= 1 /\ (first \in reminder.to => got'[first].late = 0)
  <2>1. got[first].run + 1 = sending.part /\ sending.part \in 0..MessageParts
    BY <1>2, <1>3, ReminderAssumption
  <2>2. got[first].late \in Nat /\ got[first].late + 1 \in Nat
    BY <1>2, <1>3
  <2>3. first \in stopped => got[first].late = 0
    BY <1>0, <1>1, <1>2 DEF StopHeld
  <2>4. got'[first].run = sending.part /\ got'[first].run \in 0..MessageParts
    BY <1>4, <2>1
  <2>5. \A m \in Recipients : got'[m].run \in 0..MessageParts
    BY <1>3, <1>4, <2>4
  <2> QED
    BY <1>4, <2>3, <2>4, <2>5
<1>6. CASE sending.part = MessageParts
  <2>1. sending' = NextMember(TRUE)
    BY <1>6 DEF SendPart
  <2>2. sending' = [step |-> "ask", claimed |-> sending.claimed, todo |-> Tail(sending.todo), part |-> 1,
                    reached |-> TRUE, ends |-> sending.ends, missed |-> sending.missed]
    BY <1>0, <2>1, NextMemberIs
  <2> QED
    BY <1>1, <1>3, <1>5, <1>6, <2>2, OnToNext DEF first
<1>7. CASE sending.part # MessageParts
  <2>1. sending' = [sending EXCEPT !.step = "ask", !.part = @ + 1]
    BY <1>7 DEF SendPart
  <2>2. sending' = [step |-> "ask", claimed |-> sending.claimed, todo |-> sending.todo,
                    part |-> sending.part + 1, reached |-> sending.reached, ends |-> sending.ends,
                    missed |-> sending.missed]
    BY <1>0, <2>1 DEF ReminderShapes
  <2>3. sending.part + 1 \in 1..MessageParts /\ sending.part + 1 \in Nat
        /\ sending.part + 1 - 1 = sending.part
    BY <1>2, <1>7, ReminderAssumption
  <2>4. ReminderShapes'
    BY <1>0, <1>1, <1>5, <2>2, <2>3 DEF ReminderShapes, ReminderTypeOK
  <2>5. \A i \in DOMAIN sending.todo : i > 1 => got'[sending.todo[i]].run = 0
    <3> TAKE i \in DOMAIN sending.todo
    <3>1. i > 1 => sending.todo[i] # first
      BY <1>0, <1>2 DEF OneByOne
    <3>2. sending.todo[i] \in Recipients
      BY <1>0 DEF ReminderShapes
    <3> QED
      BY <1>0, <1>1, <1>5, <3>1, <3>2 DEF OneByOne
  <2>6. OneByOne'
    BY <1>0, <1>1, <1>2, <1>5, <2>2, <2>3, <2>5 DEF OneByOne
  <2>7. SentInFull'
    <3>1. first \in ToDo /\ ToDo' = ToDo
      BY <1>2, <2>2 DEF ToDo
    <3>2. /\ reminder' = reminder /\ sending'.claimed = sending.claimed
          /\ sending'.missed = sending.missed /\ sending'.step = "ask"
      BY <1>1, <2>2
    <3>3. ASSUME NEW m \in reminder.to \ sending.missed, reminder.status = "active"
          PROVE  got'[m].run = MessageParts \/ m \in ToDo
      <4>1. m \in Recipients /\ (got[m].run = MessageParts \/ m \in ToDo)
        BY <1>0, <1>1, <3>3 DEF SentInFull, ReminderShapes, ReminderTypeOK
      <4> QED
        BY <1>5, <3>1, <4>1
    <3> QED
      BY ONLY <1>0, <1>1, <3>1, <3>2, <3>3 DEF SentInFull
  <2>8. StopHeld'
    <3>1. stopped' = stopped /\ reminder' = reminder /\ sending'.step # "send"
      BY <1>1, <2>2
    <3>2. ASSUME NEW m \in stopped
          PROVE  got'[m].late <= 1 /\ (m \in reminder.to => got'[m].late = 0)
      <4>1. m \in Recipients
        BY <1>0 DEF ReminderShapes, ReminderTypeOK
      <4>2. CASE m = first
        BY <1>5, <3>2, <4>2
      <4>3. CASE m # first
        <5>1. got'[m] = got[m]
          BY <1>5, <4>1, <4>3
        <5> QED
          BY <1>0, <5>1 DEF StopHeld
      <4> QED
        BY <4>2, <4>3
    <3> QED
      BY <3>1, <3>2 DEF StopHeld
  <2> QED
    BY <2>4, <2>6, <2>7, <2>8 DEF ReminderInv
<1> QED
  BY <1>6, <1>7

\* A member takes no messages.
LEMMA SendFailsKept ==
  ASSUME ReminderInv, SendFails
  PROVE  ReminderInv'
<1>0. ReminderShapes /\ OneByOne /\ SentInFull /\ StopHeld
  BY DEF ReminderInv
<1>1. sending.step = "send" /\ sending.todo # <<>> /\ UNCHANGED <<reminder, change, stopped, got>>
  BY <1>0 DEF SendFails, OneByOne
<1>2. NextMember(sending.reached) =
        [step |-> "ask", claimed |-> sending.claimed, todo |-> Tail(sending.todo), part |-> 1,
         reached |-> sending.reached, ends |-> sending.ends, missed |-> sending.missed]
  BY <1>0, NextMemberIs
<1>3. sending' = [step |-> "ask", claimed |-> sending.claimed, todo |-> Tail(sending.todo), part |-> 1,
                  reached |-> sending.reached, ends |-> sending.ends,
                  missed |-> sending.missed \cup {Head(sending.todo)}]
  <2>1. NextMember(sending.reached) \in
          [step : {"ask"}, claimed : {sending.claimed}, todo : {Tail(sending.todo)}, part : {1},
           reached : {sending.reached}, ends : {sending.ends}, missed : {sending.missed}]
    BY <1>2
  <2>2. sending' \in
          [step : {"ask"}, claimed : {sending.claimed}, todo : {Tail(sending.todo)}, part : {1},
           reached : {sending.reached}, ends : {sending.ends},
           missed : {sending.missed \cup {Head(sending.todo)}}]
    BY <2>1 DEF SendFails
  <2> QED
    BY <2>2
<1>4. Head(sending.todo) \in Recipients
  <2>1. sending.todo \in Seq(Recipients)
    BY <1>0 DEF ReminderShapes
  <2> QED
    BY <1>1, <2>1
<1>5. got \in [Recipients -> [run : 0..MessageParts, late : Nat]] /\ sending.missed \subseteq Recipients
  BY <1>0 DEF ReminderShapes, ReminderTypeOK
<1>6. \A m \in stopped : got[m].late <= 1 /\ (m \in reminder.to => got[m].late = 0)
  BY <1>0 DEF StopHeld
<1> QED
  BY <1>1, <1>3, <1>4, <1>5, <1>6, OnToNext

\* The row is read after the last member.
LEMMA LookAgainKept ==
  ASSUME ReminderInv, LookAgain
  PROVE  ReminderInv'
<1>0. ReminderShapes /\ OneByOne /\ SentInFull /\ StopHeld
  BY DEF ReminderInv
<1>5. ReminderShapes'
  BY <1>0 DEF LookAgain, ReminderShapes, ReminderTypeOK
<1>6. OneByOne'
  BY <1>0 DEF LookAgain, OneByOne
<1>7. SentInFull'
  BY <1>0 DEF LookAgain, SentInFull, ToDo
<1>8. StopHeld'
  BY <1>0 DEF LookAgain, StopHeld
<1> QED
  BY <1>5, <1>6, <1>7, <1>8 DEF ReminderInv

\* The run fails for everybody.
LEMMA RunFailsKept ==
  ASSUME ReminderInv, RunFails
  PROVE  ReminderInv'
<1>0. ReminderShapes /\ OneByOne /\ SentInFull /\ StopHeld
  BY DEF ReminderInv
<1>5. ReminderShapes'
  BY <1>0 DEF RunFails, ReminderShapes, ReminderTypeOK
<1>6. OneByOne'
  BY <1>0 DEF RunFails, OneByOne
<1>7. SentInFull'
  BY <1>0 DEF RunFails, SentInFull, ToDo
<1>8. StopHeld'
  BY <1>0 DEF RunFails, StopHeld
<1> QED
  BY <1>5, <1>6, <1>7, <1>8 DEF ReminderInv

\* The run is stored.
LEMMA EndRunKept ==
  ASSUME ReminderInv, EndRun
  PROVE  ReminderInv'
<1>0. ReminderShapes /\ OneByOne /\ SentInFull /\ StopHeld
  BY DEF ReminderInv
<1>1. /\ sending.step = "store" /\ sending' = NoRun /\ UNCHANGED <<stopped, got>>
      /\ reminder' \in [status : {IF reminder.status = "active" THEN sending.ends ELSE reminder.status},
                        to : {reminder.to}, once : {reminder.once}, leased : {FALSE}]
      /\ change' \in [shown : {change.shown}, to : {change.to}, once : {change.once},
                      current : {FALSE}, stops : {change.stops}]
  BY <1>0 DEF EndRun, Changed, stored_reminder, ReminderShapes, ReminderTypeOK
<1>5. ReminderShapes'
  <2>1. NoRun.todo \in Seq(Recipients)
    BY DEF NoRun
  <2> QED
    BY <1>0, <1>1, <2>1 DEF NoRun, ReminderShapes, ReminderTypeOK
<1>6. OneByOne'
  BY <1>0 DEF EndRun, Changed, stored_reminder, NoRun, OneByOne
<1>7. SentInFull'
  BY <1>0 DEF EndRun, Changed, stored_reminder, NoRun, SentInFull, ToDo
<1>8. StopHeld'
  BY <1>0 DEF EndRun, Changed, stored_reminder, NoRun, StopHeld
<1> QED
  BY <1>5, <1>6, <1>7, <1>8 DEF ReminderInv

\* A member stops the reminder.
LEMMA StoppingKept ==
  ASSUME ReminderInv, NEW m \in Recipients, StopReminder(m)
  PROVE  ReminderInv'
<1>0. ReminderShapes /\ OneByOne /\ SentInFull /\ StopHeld
  BY DEF ReminderInv
<1>1. /\ m # requester /\ UNCHANGED sending
      /\ stopped' = stopped \cup {m} /\ got' = [got EXCEPT ![m].late = 0]
  BY DEF StopReminder
<1>2. /\ got' \in [Recipients -> [run : 0..MessageParts, late : Nat]]
      /\ \A o \in Recipients : got'[o].run = got[o].run /\ (o # m => got'[o] = got[o])
      /\ got'[m].late = 0
  BY SMTT(30), <1>0, <1>1 DEF ReminderShapes, ReminderTypeOK
<1>3. /\ reminder' \in [status : {"active", "paused", "completed", "cancelled"},
                        to : SUBSET Recipients, once : BOOLEAN, leased : BOOLEAN]
      /\ reminder'.leased = reminder.leased /\ reminder'.to \subseteq reminder.to
      /\ reminder'.status \in {"active", "paused"} => reminder'.to # {}
      /\ reminder'.status = "active" => reminder.status = "active"
  <2>1. CASE ~Stops(m)
    <3>1. reminder' = reminder
      BY <2>1 DEF StopReminder
    <3> QED
      BY ONLY <1>0, <3>1 DEF ReminderShapes, ReminderTypeOK
  <2>2. CASE Stops(m)
    <3>1. reminder' \in [status : {IF reminder.to = {m} THEN "completed" ELSE reminder.status},
                         to : {reminder.to \ {m}}, once : {reminder.once}, leased : {reminder.leased}]
      BY <1>0, <2>2 DEF StopReminder, without, empties, ReminderShapes, ReminderTypeOK
    <3>2. reminder'.status = IF reminder.to = {m} THEN "completed" ELSE reminder.status
      BY <3>1
    <3>3. reminder'.to = reminder.to \ {m} /\ reminder'.leased = reminder.leased
      BY <3>1
    <3>4. reminder' \in [status : {"active", "paused", "completed", "cancelled"},
                         to : SUBSET Recipients, once : BOOLEAN, leased : BOOLEAN]
      BY <1>0, <3>1 DEF ReminderShapes, ReminderTypeOK
    <3>5. reminder'.status \in {"active", "paused"} => reminder'.to # {}
      <4>1. reminder'.status \in {"active", "paused"} =>
              reminder.to # {m} /\ reminder.status \in {"active", "paused"}
        BY <3>2
      <4> QED
        BY <1>0, <3>3, <4>1 DEF ReminderShapes
    <3> QED
      BY <3>2, <3>3, <3>4, <3>5
  <2> QED
    BY <2>1, <2>2
<1>4. /\ change' \in [shown : BOOLEAN, to : SUBSET Recipients, once : BOOLEAN, current : BOOLEAN,
                      stops : SUBSET Recipients]
      /\ (change'.shown => change'.to # {}) /\ (change'.stops # {} => ~change'.current)
  <2>1. CASE ~Stops(m)
    BY <1>0, <2>1 DEF StopReminder, ReminderShapes, ReminderTypeOK
  <2>2. CASE Stops(m)
    <3>1. change' \in [shown : {change.shown}, to : {change.to}, once : {change.once},
                       current : {FALSE}, stops : {change.stops \cup ({m} \cap change.to)}]
      BY <1>0, <2>2 DEF StopReminder, ReminderShapes, ReminderTypeOK
    <3> QED
      BY <1>0, <3>1 DEF ReminderShapes, ReminderTypeOK
  <2> QED
    BY <2>1, <2>2
<1>5. ReminderShapes'
  <2>1. stopped' \subseteq Recipients \ {requester}
    BY <1>0, <1>1 DEF ReminderShapes, ReminderTypeOK
  <2> QED
    BY <1>0, <1>1, <1>2, <1>3, <1>4, <2>1 DEF ReminderShapes, ReminderTypeOK
<1>6. OneByOne'
  <2>1. \A i \in DOMAIN sending.todo : sending.todo[i] \in Recipients
    BY <1>0 DEF ReminderShapes
  <2>2. sending.todo # <<>> => 1 \in DOMAIN sending.todo
    BY <1>0 DEF ReminderShapes
  <2> QED
    BY <1>0, <1>1, <1>2, <2>1, <2>2 DEF OneByOne
<1>7. SentInFull'
  BY <1>0, <1>1, <1>2, <1>3 DEF SentInFull, ToDo, ReminderShapes, ReminderTypeOK
<1>8. StopHeld'
  <2>1. ASSUME NEW o \in stopped'
        PROVE  /\ got'[o].late <= 1 /\ (o \in reminder'.to => got'[o].late = 0)
               /\ (sending'.step = "send" /\ o = sending'.todo[1] => got'[o].late = 0)
    <3>1. CASE o = m
      BY <1>2, <3>1
    <3>2. CASE o # m
      <4>1. o \in stopped /\ o \in Recipients
        BY <1>0, <1>1, <2>1, <3>2 DEF ReminderShapes, ReminderTypeOK
      <4>2. got'[o] = got[o]
        BY <1>2, <3>2, <4>1
      <4> QED
        BY <1>0, <1>1, <1>3, <4>1, <4>2 DEF StopHeld
    <3> QED
      BY <3>1, <3>2
  <2> QED
    BY <2>1 DEF StopHeld
<1> QED
  BY <1>5, <1>6, <1>7, <1>8 DEF ReminderInv

\* Its requester pauses, resumes or cancels it.
LEMMA SettingKept ==
  ASSUME ReminderInv, NEW status \in {"active", "paused", "cancelled"}, SetReminder(status)
  PROVE  ReminderInv'
<1>0. ReminderShapes /\ OneByOne /\ SentInFull /\ StopHeld
  BY DEF ReminderInv
<1>5. ReminderShapes'
  BY <1>0 DEF SetReminder, Changed, ReminderShapes, ReminderTypeOK
<1>6. OneByOne'
  BY <1>0 DEF SetReminder, Changed, OneByOne
<1>7. SentInFull'
  BY <1>0 DEF SetReminder, Changed, SentInFull, ToDo
<1>8. StopHeld'
  BY <1>0 DEF SetReminder, Changed, StopHeld
<1> QED
  BY <1>5, <1>6, <1>7, <1>8 DEF ReminderInv

\* The requester previews a change.
LEMMA PreviewKept ==
  ASSUME ReminderInv, Preview
  PROVE  ReminderInv'
<1>0. ReminderShapes /\ OneByOne /\ SentInFull /\ StopHeld
  BY DEF ReminderInv
<1>5. ReminderShapes'
  <2>1. PICK to \in (SUBSET Recipients) \ {{}}, once \in BOOLEAN :
          change' = [shown |-> TRUE, to |-> to, once |-> once, current |-> TRUE, stops |-> {}]
    BY DEF Preview
  <2>2. change' \in [shown : {TRUE}, to : {to}, once : {once}, current : {TRUE}, stops : {{}}]
        /\ to # {} /\ to \subseteq Recipients
    BY <2>1
  <2>3. /\ change' \in [shown : BOOLEAN, to : SUBSET Recipients, once : BOOLEAN, current : BOOLEAN,
                        stops : SUBSET Recipients]
        /\ change'.to # {} /\ change'.stops = {}
    BY <2>2
  <2> QED
    BY <1>0, <2>3 DEF Preview, ReminderShapes, ReminderTypeOK
<1>6. OneByOne'
  BY <1>0 DEF Preview, OneByOne
<1>7. SentInFull'
  BY <1>0 DEF Preview, SentInFull, ToDo
<1>8. StopHeld'
  BY <1>0 DEF Preview, StopHeld
<1> QED
  BY <1>5, <1>6, <1>7, <1>8 DEF ReminderInv

\* The change is saved.
LEMMA SaveKept ==
  ASSUME ReminderInv, Save
  PROVE  ReminderInv'
<1>0. ReminderShapes /\ OneByOne /\ SentInFull /\ StopHeld
  BY DEF ReminderInv
<1>5. ReminderShapes'
  BY <1>0 DEF Save, may_save, NoChange, ReminderShapes, ReminderTypeOK
<1>6. OneByOne'
  BY <1>0 DEF Save, may_save, NoChange, OneByOne
<1>7. SentInFull'
  BY <1>0 DEF Save, may_save, NoChange, SentInFull, ReminderShapes, ReminderTypeOK, ToDo
<1>8. StopHeld'
  BY <1>0 DEF Save, may_save, NoChange, StopHeld
<1> QED
  BY <1>5, <1>6, <1>7, <1>8 DEF ReminderInv

\* At the start the reminder goes to everybody and nothing was sent.
LEMMA ReminderStarts == ReminderInit => ReminderInv
<1> SUFFICES ASSUME ReminderInit PROVE ReminderInv
  OBVIOUS
<1>1. sending.todo \in Seq(Recipients)
  BY DEF ReminderInit, NoRun
<1>2. got \in [Recipients -> [run : 0..MessageParts, late : Nat]]
  BY ReminderAssumption DEF ReminderInit, Nothing
<1>3. ReminderShapes
  BY <1>1, <1>2, ReminderAssumption DEF ReminderInit, NoRun, NoChange, ReminderShapes,
     ReminderTypeOK
<1>4. OneByOne /\ SentInFull /\ StopHeld
  BY DEF ReminderInit, NoRun, OneByOne, SentInFull, StopHeld
<1> QED
  BY <1>3, <1>4 DEF ReminderInv

\* Every step keeps it.
LEMMA ReminderKept == ReminderInv /\ [ReminderNext]_reminderVars => ReminderInv'
<1>1. ASSUME ReminderInv, ReminderNext PROVE ReminderInv'
  <2>1. ASSUME NEW m \in Recipients, StopReminder(m) PROVE ReminderInv'
    BY <1>1, <2>1, StoppingKept
  <2>2. ASSUME NEW status \in {"active", "paused", "cancelled"}, SetReminder(status) PROVE ReminderInv'
    BY <1>1, <2>2, SettingKept
  <2> QED
    BY <1>1, <2>1, <2>2, BeginRunKept, AskKept, SendPartKept, SendFailsKept, LookAgainKept,
       RunFailsKept,
       EndRunKept, PreviewKept, SaveKept DEF ReminderNext
<1>2. ASSUME ReminderInv, UNCHANGED reminderVars PROVE ReminderInv'
  BY <1>2 DEF reminderVars, ReminderInv, ReminderShapes, ReminderTypeOK, OneByOne, SentInFull,
     ToDo, StopHeld
<1> QED
  BY <1>1, <1>2

\* Only a change that was previewed since the stop brings a member back.
LEMMA StopIsUndoneByChange ==
  ASSUME ReminderInv, ReminderNext
  PROVE  StopIsKept
<1>0. ReminderTypeOK /\ (change.stops # {} => ~change.current)
  BY DEF ReminderInv, ReminderShapes
<1>1. CASE Save
  <2>1. change.shown /\ change.stops = {}
    BY <1>0, <1>1 DEF Save, may_save
  <2>2. reminder'.to = change.to
    BY <1>0, <1>1 DEF Save, ReminderTypeOK
  <2> QED
    BY <2>1, <2>2 DEF StopIsKept
<1>2. CASE BeginRun \/ EndRun
  <2>1. reminder'.to = reminder.to
    BY <1>0, <1>2 DEF BeginRun, EndRun, Changed, stored_reminder, ReminderTypeOK
  <2> QED
    BY <2>1 DEF StopIsKept
<1>3. CASE Ask \/ SendPart \/ SendFails \/ LookAgain \/ RunFails \/ Preview
  BY <1>3 DEF Ask, SendPart, SendFails, LookAgain, RunFails, Preview, StopIsKept
<1>4. CASE \E m \in Recipients : StopReminder(m)
  <2>1. reminder'.to \subseteq reminder.to
    <3>1. PICK m \in Recipients : StopReminder(m)
      BY <1>4
    <3>2. CASE Stops(m)
      <4>1. reminder' = without(m)
        BY <3>1, <3>2 DEF StopReminder
      <4> QED
        BY <1>0, <4>1 DEF without, ReminderTypeOK
    <3>3. CASE ~Stops(m)
      BY <3>1, <3>3 DEF StopReminder
    <3> QED
      BY <3>2, <3>3
  <2> QED
    BY <2>1 DEF StopIsKept
<1>5. CASE \E status \in {"active", "paused", "cancelled"} : SetReminder(status)
  <2>1. reminder'.to = reminder.to
    BY <1>0, <1>5 DEF SetReminder, Changed, ReminderTypeOK
  <2> QED
    BY <2>1 DEF StopIsKept
<1> QED
  BY <1>1, <1>2, <1>3, <1>4, <1>5 DEF ReminderNext

\* A recipient's stop that took them off the list takes effect while a run is sending, stays until
\* the requester saves a change that was previewed after it, and costs nobody else the message,
\* for every number of recipients, parts, runs and changes.
THEOREM StopsRespected == ReminderSpec => StopsAreRespected
<1>1. ReminderInv => StoppedGetsNoMore
  BY DEF ReminderInv, StopHeld, StoppedGetsNoMore
<1>2. ReminderInv' => StoppedGetsNoMore'
  BY <1>1, PTL
<1>3. ReminderInv => OthersGetItAll
  BY DEF ReminderInv, SentInFull, OthersGetItAll, EndRun
<1>4. ReminderInv /\ [ReminderNext]_reminderVars =>
        [StopIsKept /\ StoppedGetsNoMore' /\ OthersGetItAll]_reminderVars
  BY <1>2, <1>3, ReminderKept, StopIsUndoneByChange
<1> QED
  BY <1>4, ReminderStarts, ReminderKept, PTL DEF ReminderSpec, StopsAreRespected

-----------------------------------------------------------------------------
(* Selections: what is kept of a sequence, by induction over its length. *)

\* What holds at 0, and of n + 1 when of n, holds of all numbers: there is no least exception.
LEMMA NoLeastException ==
  ASSUME NEW P, 0 \in P, \A n \in Nat : n \in P => n + 1 \in P
  PROVE  Nat \subseteq P
<1> SUFFICES ASSUME Nat \ P # {} PROVE FALSE
  OBVIOUS
<1> DEFINE Bad == Nat \ P
           Upto == {Bad \cap 0..k : k \in Bad}
<1>1. \A k \in Bad : Bad \cap 0..k \in FiniteSubsetsOf(Bad)
  <2> TAKE k \in Bad
  <2>1. IsFiniteSet(0..k)
    BY FS_Interval
  <2> QED
    BY <2>1, FS_Subset DEF FiniteSubsetsOf
<1>2. PICK k \in Bad : \A y \in Bad : <<Bad \cap 0..y, Bad \cap 0..k>> \notin StrictSubsetOrdering(Bad)
  <2>1. IsWellFoundedOn(StrictSubsetOrdering(Bad), FiniteSubsetsOf(Bad))
    BY FS_StrictSubsetOrderingWellFounded
  <2>2. Upto # {} /\ Upto \subseteq FiniteSubsetsOf(Bad)
    BY <1>1
  <2> HIDE DEF Upto
  <2>3. \E x \in Upto : \A z \in Upto : <<z, x>> \notin StrictSubsetOrdering(Bad)
    BY <2>1, <2>2, WFMin
  <2> QED
    BY <2>3 DEF Upto
<1>3. k \in Nat /\ k \notin P /\ k # 0 /\ k - 1 \in Nat /\ (k - 1) + 1 = k
  BY <1>2
<1>4. k - 1 \in Bad
  BY <1>3
<1>5. /\ Bad \cap 0..(k - 1) \subseteq Bad \cap 0..k
      /\ k \in Bad \cap 0..k /\ k \notin Bad \cap 0..(k - 1)
  BY <1>2, <1>3
<1>6. <<Bad \cap 0..(k - 1), Bad \cap 0..k>> \in StrictSubsetOrdering(Bad)
  <2> DEFINE a == Bad \cap 0..(k - 1)
             b == Bad \cap 0..k
  <2>1. a \subseteq b /\ k \in b /\ k \notin a /\ a \in SUBSET Bad /\ b \in SUBSET Bad
    BY <1>5
  <2> HIDE DEF a, b
  <2>2. <<a, b>> \in StrictSubsetOrdering(Bad)
    BY <2>1 DEF StrictSubsetOrdering
  <2> QED
    BY <2>2 DEF a, b
<1> QED
  BY <1>2, <1>4, <1>6

PickedSoFar(f, S, s, K) ==
  /\ f \in [0..Len(s) -> Seq(S)]
  /\ f[0] = <<>> /\ Picked(s, K) = f[Len(s)]
  /\ \A i \in 1..Len(s) : f[i] = IF s[i] \in K THEN Append(f[i - 1], s[i]) ELSE f[i - 1]

\* What is picked is picked element by element.
LEMMA PickedStepwise ==
  ASSUME NEW S, NEW s \in Seq(S), NEW K
  PROVE  \E f : PickedSoFar(f, S, s, K)
<1> DEFINE Step(i, g) == IF i = 0 THEN <<>>
                         ELSE IF s[i] \in K THEN Append(g[i - 1], s[i]) ELSE g[i - 1]
           Table(n, g) == g = [i \in 0..n |-> Step(i, g)]
           P == {n \in Nat : n <= Len(s) => \E g : Table(n, g)}
           kept == CHOOSE g : Table(Len(s), g)
<1>0. Len(s) \in Nat /\ \A i \in 1..Len(s) : s[i] \in S
  OBVIOUS
<1>1. \E g : Table(0, g)
  <2>1. Table(0, [i \in 0..0 |-> <<>>])
    OBVIOUS
  <2> QED
    BY <2>1
<1>2. ASSUME NEW n \in Nat, n \in P PROVE n + 1 \in P
  <2> SUFFICES ASSUME n + 1 <= Len(s) PROVE \E g : Table(n + 1, g)
    BY SMTT(30)
  <2>1. PICK g : Table(n, g)
    BY <1>0, <1>2
  <2> DEFINE h == [i \in 0..(n + 1) |-> IF i <= n THEN g[i] ELSE Step(n + 1, g)]
  <2>2. \A i \in 0..n : g[i] = Step(i, g)
    <3> HIDE DEF Step
    <3> QED
      BY <2>1
  <2>3. /\ \A i \in 0..n : h[i] = g[i]
        /\ h[n + 1] = Step(n + 1, g)
    <3> HIDE DEF Step
    <3> QED
      OBVIOUS
  <2>4. ASSUME NEW i \in 0..(n + 1) PROVE Step(i, h) = Step(i, g)
    <3>1. CASE i = 0
      BY <3>1
    <3>2. CASE i # 0
      <4>1. i - 1 \in 0..n
        BY <3>2
      <4>2. h[i - 1] = g[i - 1]
        BY <2>3, <4>1
      <4> QED
        BY <4>2
    <3> QED
      BY <3>1, <3>2
  <2>5. \A i \in 0..(n + 1) : i \in 0..n \/ i = n + 1
    OBVIOUS
  <2>6. h = [i \in 0..(n + 1) |-> h[i]]
    OBVIOUS
  <2> HIDE DEF Step, h
  <2>7. \A i \in 0..(n + 1) : h[i] = Step(i, h)
    BY <2>2, <2>3, <2>4, <2>5
  <2>8. Table(n + 1, h)
    BY <2>6, <2>7
  <2> QED
    BY <2>8
<1>3. \E g : Table(Len(s), g)
  <2> HIDE DEF Table
  <2>1. 0 \in P
    BY <1>1
  <2>2. Nat \subseteq P
    <3> HIDE DEF P
    <3> QED
      BY <1>2, <2>1, NoLeastException
  <2> QED
    BY <1>0, <2>2
<1>4. Table(Len(s), kept)
  <2> HIDE DEF Table
  <2> QED
    BY <1>3
<1>5. Picked(s, K) = kept[Len(s)]
  BY DEF Picked
<1> HIDE DEF kept
<1>6. \A i \in 0..Len(s) : kept[i] = Step(i, kept)
  <2> HIDE DEF Step
  <2> QED
    BY <1>4
<1>7. /\ kept[0] = <<>>
      /\ \A i \in 1..Len(s) : kept[i] = IF s[i] \in K THEN Append(kept[i - 1], s[i]) ELSE kept[i - 1]
  BY <1>0, <1>6
<1>8. \A i \in 0..Len(s) : kept[i] \in Seq(S)
  <2> DEFINE Q == {n \in Nat : n <= Len(s) => kept[n] \in Seq(S)}
  <2>1. 0 \in Q
    <3>1. kept[0] \in Seq(S)
      BY <1>7
    <3> QED
      BY <3>1
  <2>2. ASSUME NEW n \in Nat, n \in Q PROVE n + 1 \in Q
    <3> SUFFICES ASSUME n + 1 <= Len(s) PROVE kept[n + 1] \in Seq(S)
      OBVIOUS
    <3>1. n + 1 \in 1..Len(s) /\ (n + 1) - 1 = n
      BY <1>0
    <3>2. kept[n] \in Seq(S)
      BY <1>0, <2>2
    <3>3. s[n + 1] \in S
      BY <1>0, <3>1
    <3>4. kept[n + 1] = IF s[n + 1] \in K THEN Append(kept[n], s[n + 1]) ELSE kept[n]
      BY <1>7, <3>1
    <3> HIDE DEF Q
    <3> QED
      BY <3>2, <3>3, <3>4
  <2> HIDE DEF Q
  <2>3. Nat \subseteq Q
    BY <2>1, <2>2, NoLeastException
  <2> QED
    BY <1>0, <2>3 DEF Q
<1>9. kept = [i \in 0..Len(s) |-> kept[i]]
  BY <1>4
<1>10. PickedSoFar(kept, S, s, K)
  BY <1>5, <1>7, <1>8, <1>9 DEF PickedSoFar
<1> QED
  BY <1>10

\* What is picked of a sequence, and what it leaves out.
LEMMA PickedIs ==
  ASSUME NEW S, NEW s \in Seq(S), NEW K
  PROVE  /\ Picked(s, K) \in Seq(S) /\ Len(Picked(s, K)) <= Len(s)
         /\ ToSet(Picked(s, K)) = {x \in ToSet(s) : x \in K}
<1>a. PICK f : PickedSoFar(f, S, s, K)
  BY PickedStepwise
<1>1. /\ f \in [0..Len(s) -> Seq(S)]
      /\ f[0] = <<>> /\ Picked(s, K) = f[Len(s)]
      /\ \A i \in 1..Len(s) :
           f[i] = IF s[i] \in K THEN Append(f[i - 1], s[i]) ELSE f[i - 1]
  BY <1>a DEF PickedSoFar
<1> DEFINE Up(n) == {x \in {s[i] : i \in 1..n} : x \in K}
           Good(n) == Len(f[n]) <= n /\ {f[n][j] : j \in 1..Len(f[n])} = Up(n)
           Q == {n \in Nat : n <= Len(s) => Good(n)}
<1>0. Len(s) \in Nat
  OBVIOUS
<1>2. Good(0)
  BY <1>1
<1>3. ASSUME NEW n \in Nat, n + 1 <= Len(s), Good(n) PROVE Good(n + 1)
  <2>1. n + 1 \in 1..Len(s) /\ (n + 1) - 1 = n /\ n \in 0..Len(s) /\ n + 1 \in 0..Len(s)
    BY <1>0, <1>3
  <2> DEFINE g == f[n]  h == f[n + 1]  x == s[n + 1]
  <2>2. g \in Seq(S) /\ x \in S /\ Len(g) \in Nat
    BY <1>0, <1>1, <2>1
  <2>3. h = IF x \in K THEN Append(g, x) ELSE g
    BY <1>1, <2>1
  <2>4. Up(n + 1) = IF x \in K THEN Up(n) \cup {x} ELSE Up(n)
    <3>1. 1..(n + 1) = (1..n) \cup {n + 1}
      OBVIOUS
    <3>2. {s[i] : i \in 1..(n + 1)} = {s[i] : i \in 1..n} \cup {x}
      BY <3>1
    <3> QED
      BY <3>2
  <2>5. Len(g) <= n /\ {g[j] : j \in 1..Len(g)} = Up(n)
    BY <1>3
  <2> HIDE DEF Up, g, h, x
  <2>6. CASE x \in K
    <3>1. h = Append(g, x) /\ Len(h) = Len(g) + 1
      BY <2>2, <2>3, <2>6
    <3>2. 1..(Len(g) + 1) = (1..Len(g)) \cup {Len(g) + 1}
      BY <2>2
    <3>3. (\A j \in 1..Len(g) : h[j] = g[j]) /\ h[Len(g) + 1] = x
      BY <2>2, <3>1
    <3>4. {h[j] : j \in 1..Len(h)} = {g[j] : j \in 1..Len(g)} \cup {x}
      BY <3>1, <3>2, <3>3
    <3>5. Len(h) <= n + 1
      BY <2>2, <2>5, <3>1
    <3> QED
      BY <2>4, <2>5, <2>6, <3>4, <3>5 DEF h
  <2>7. CASE x \notin K
    <3>1. h = g
      BY <2>3, <2>7
    <3>2. Len(h) <= n + 1
      BY <2>2, <2>5, <3>1
    <3> QED
      BY <2>4, <2>5, <2>7, <3>1, <3>2 DEF h
  <2> QED
    BY <2>6, <2>7
<1>4. Good(Len(s))
  <2> HIDE DEF Good
  <2>1. 0 \in Q
    BY <1>2
  <2>2. ASSUME NEW n \in Nat, n \in Q PROVE n + 1 \in Q
    <3> SUFFICES ASSUME n + 1 <= Len(s) PROVE Good(n + 1)
      OBVIOUS
    <3>1. n <= Len(s)
      BY <1>0
    <3> QED
      BY <1>3, <2>2, <3>1
  <2>3. Nat \subseteq Q
    <3> HIDE DEF Q
    <3> QED
      BY <2>1, <2>2, NoLeastException
  <2> QED
    BY <1>0, <2>3
<1>5. f[Len(s)] \in Seq(S)
  BY <1>0, <1>1
<1>6. \A q \in Seq(S) : ToSet(q) = {q[j] : j \in 1..Len(q)}
  BY DEF ToSet
<1> QED
  BY <1>1, <1>4, <1>5, <1>6

-----------------------------------------------------------------------------
(* ResearchJobs: what is read is the wanted messages of a range of the       *)
(* channel, newest first, and ranges put together are a range; the version a *)
(* worker holds is the job's ownership.                                      *)

\* Sequences are the same when their elements are.
LEMMA SameSequence ==
  ASSUME NEW S, NEW u \in Seq(S), NEW v \in Seq(S), Len(u) = Len(v),
         \A i \in 1..Len(u) : u[i] = v[i]
  PROVE  u = v
OBVIOUS

\* Picking from two sequences in a row.
LEMMA PickedJoins ==
  ASSUME NEW S, NEW u \in Seq(S), NEW v \in Seq(S), NEW K
  PROVE  Picked(u \o v, K) = Picked(u, K) \o Picked(v, K)
<1> DEFINE s == u \o v  m == Len(u)  n == Len(v)
<1>0. /\ s \in Seq(S) /\ m \in Nat /\ n \in Nat /\ Len(s) = m + n
      /\ \A i \in 1..m : s[i] = u[i]
      /\ \A i \in 1..n : s[m + i] = v[i] /\ v[i] \in S
  OBVIOUS
<1>1. PICK f : PickedSoFar(f, S, s, K)
  BY <1>0, PickedStepwise
<1>2. PICK g : PickedSoFar(g, S, u, K)
  BY PickedStepwise
<1>3. PICK h : PickedSoFar(h, S, v, K)
  BY PickedStepwise
<1> HIDE DEF s
<1>4. /\ f \in [0..(m + n) -> Seq(S)] /\ f[0] = <<>> /\ Picked(s, K) = f[m + n]
      /\ \A i \in 1..(m + n) : f[i] = IF s[i] \in K THEN Append(f[i - 1], s[i]) ELSE f[i - 1]
  BY <1>0, <1>1 DEF PickedSoFar
<1>5. /\ g \in [0..m -> Seq(S)] /\ g[0] = <<>> /\ Picked(u, K) = g[m]
      /\ \A i \in 1..m : g[i] = IF u[i] \in K THEN Append(g[i - 1], u[i]) ELSE g[i - 1]
  BY <1>2 DEF PickedSoFar
<1>6. /\ h \in [0..n -> Seq(S)] /\ h[0] = <<>> /\ Picked(v, K) = h[n]
      /\ \A i \in 1..n : h[i] = IF v[i] \in K THEN Append(h[i - 1], v[i]) ELSE h[i - 1]
  BY <1>3 DEF PickedSoFar
<1> HIDE DEF m, n
<1>7. \A i \in Nat : i <= m => f[i] = g[i]
  <2> DEFINE P == {i \in Nat : i <= m => f[i] = g[i]}
  <2>1. 0 \in P
    BY <1>4, <1>5
  <2>2. ASSUME NEW i \in Nat, i \in P PROVE i + 1 \in P
    <3> SUFFICES ASSUME i + 1 <= m PROVE f[i + 1] = g[i + 1]
      OBVIOUS
    <3>1. i + 1 \in 1..m /\ i + 1 \in 1..(m + n) /\ (i + 1) - 1 = i
      BY <1>0
    <3>2. f[i] = g[i] /\ s[i + 1] = u[i + 1]
      BY <1>0, <2>2, <3>1
    <3>3. f[i + 1] = IF s[i + 1] \in K THEN Append(f[i], s[i + 1]) ELSE f[i]
      BY <1>4, <3>1
    <3>4. g[i + 1] = IF u[i + 1] \in K THEN Append(g[i], u[i + 1]) ELSE g[i]
      BY <1>5, <3>1
    <3> QED
      BY <3>2, <3>3, <3>4
  <2> HIDE DEF P
  <2>3. Nat \subseteq P
    BY <2>1, <2>2, NoLeastException
  <2> QED
    BY <2>3 DEF P
<1>8. \A i \in Nat : i <= n => f[m + i] = g[m] \o h[i]
  <2> DEFINE P == {i \in Nat : i <= n => f[m + i] = g[m] \o h[i]}
  <2>0. g[m] \in Seq(S)
    BY <1>0, <1>5
  <2>1. 0 \in P
    <3>1. m + 0 = m /\ f[m] = g[m]
      BY <1>0, <1>7
    <3>2. \A a \in Seq(S) : a \o <<>> = a
      OBVIOUS
    <3>3. f[m + 0] = g[m] \o h[0]
      BY <1>6, <2>0, <3>1, <3>2
    <3> QED
      BY <3>3
  <2>2. ASSUME NEW i \in Nat, i \in P PROVE i + 1 \in P
    <3>0. i + 1 \in Nat
      OBVIOUS
    <3> SUFFICES ASSUME i + 1 <= n PROVE f[m + (i + 1)] = g[m] \o h[i + 1]
      BY <3>0
    <3>1. i + 1 \in 1..n /\ m + (i + 1) \in 1..(m + n) /\ (i + 1) - 1 = i /\ (m + (i + 1)) - 1 = m + i
          /\ i \in 0..n
      BY <1>0
    <3>7. f[m + i] = g[m] \o h[i]
      <4>1. i <= n
        BY <1>0
      <4> QED
        BY ONLY <2>2, <4>1
    <3>2. f[m + i] = g[m] \o h[i] /\ s[m + (i + 1)] = v[i + 1] /\ v[i + 1] \in S /\ h[i] \in Seq(S)
      <4> HIDE DEF P
      <4> QED
        BY <1>0, <1>6, <3>1, <3>7
    <3>3. f[m + (i + 1)] = IF v[i + 1] \in K THEN Append(f[m + i], v[i + 1]) ELSE f[m + i]
      BY <1>4, <3>1, <3>2
    <3>4. h[i + 1] = IF v[i + 1] \in K THEN Append(h[i], v[i + 1]) ELSE h[i]
      BY <1>6, <3>1
    <3>5. ASSUME NEW a \in Seq(S), NEW b \in Seq(S), NEW x \in S
          PROVE  Append(a \o b, x) = a \o Append(b, x)
      <4> DEFINE l == Append(a \o b, x)  r == a \o Append(b, x)
      <4>1. l \in Seq(S) /\ r \in Seq(S) /\ Len(l) = Len(r) /\ Len(l) = Len(a) + Len(b) + 1
        OBVIOUS
      <4>4. \A c, d \in Seq(S) : /\ \A k \in 1..Len(c) : (c \o d)[k] = c[k]
                                /\ \A k \in (Len(c) + 1)..(Len(c) + Len(d)) : (c \o d)[k] = d[k - Len(c)]
        OBVIOUS
      <4>5. \A c \in Seq(S) : /\ \A k \in 1..Len(c) : Append(c, x)[k] = c[k]
                             /\ Append(c, x)[Len(c) + 1] = x
        OBVIOUS
      <4>6. /\ a \o b \in Seq(S) /\ Append(b, x) \in Seq(S) /\ Len(a \o b) = Len(a) + Len(b)
            /\ Len(Append(b, x)) = Len(b) + 1 /\ Len(a) \in Nat /\ Len(b) \in Nat
        OBVIOUS
      <4>2. \A k \in 1..Len(l) : l[k] = r[k]
        <5> TAKE k \in 1..Len(l)
        <5>1. CASE k <= Len(a)
          <6>1. k \in 1..Len(a) /\ k \in 1..Len(a \o b)
            BY <4>1, <4>6, <5>1
          <6>2. l[k] = (a \o b)[k] /\ r[k] = a[k] /\ (a \o b)[k] = a[k]
            BY <4>4, <4>5, <4>6, <6>1
          <6> QED
            BY <6>2
        <5>2. CASE k > Len(a) /\ k <= Len(a) + Len(b)
          <6>1. /\ k \in 1..Len(a \o b) /\ k \in (Len(a) + 1)..(Len(a) + Len(b))
                /\ k \in (Len(a) + 1)..(Len(a) + Len(Append(b, x))) /\ k - Len(a) \in 1..Len(b)
            BY <4>1, <4>6, <5>2
          <6>2. /\ l[k] = (a \o b)[k] /\ (a \o b)[k] = b[k - Len(a)]
                /\ r[k] = Append(b, x)[k - Len(a)] /\ Append(b, x)[k - Len(a)] = b[k - Len(a)]
            BY <4>4, <4>5, <4>6, <6>1
          <6> QED
            BY <6>2
        <5>3. CASE k = Len(a) + Len(b) + 1
          <6>1. /\ k = Len(a \o b) + 1 /\ k \in (Len(a) + 1)..(Len(a) + Len(Append(b, x)))
                /\ k - Len(a) = Len(b) + 1
            BY <4>6, <5>3
          <6>2. l[k] = x /\ r[k] = Append(b, x)[k - Len(a)] /\ Append(b, x)[k - Len(a)] = x
            BY <4>4, <4>5, <4>6, <6>1
          <6> QED
            BY <6>2
        <5>4. k \in 1..Len(l) /\ Len(l) = Len(a) + Len(b) + 1
          BY <4>1
        <5>5. \A p, q \in Nat : \A e \in 1..(p + q + 1) :
                e <= p \/ (e > p /\ e <= p + q) \/ e = p + q + 1
          OBVIOUS
        <5>6. k <= Len(a) \/ (k > Len(a) /\ k <= Len(a) + Len(b)) \/ k = Len(a) + Len(b) + 1
          BY <4>6, <5>4, <5>5
        <5> QED
          BY <5>1, <5>2, <5>3, <5>6
      <4> HIDE DEF l, r
      <4>3. l = r
        BY <4>1, <4>2, SameSequence
      <4> QED
        BY <4>3 DEF l, r
    <3>6. Append(g[m] \o h[i], v[i + 1]) = g[m] \o Append(h[i], v[i + 1])
      BY <2>0, <3>2, <3>5
    <3> QED
      BY <3>2, <3>3, <3>4, <3>6
  <2> HIDE DEF P
  <2>3. Nat \subseteq P
    BY <2>1, <2>2, NoLeastException
  <2> QED
    BY <2>3 DEF P
<1>9. n \in Nat /\ n <= n
  BY <1>0
<1>10. f[m + n] = g[m] \o h[n]
  BY <1>8, <1>9
<1> QED
  BY <1>4, <1>5, <1>6, <1>10 DEF s

\* Who is in K is picked, every one.
LEMMA PickedAll ==
  ASSUME NEW S, NEW s \in Seq(S), NEW K, \A i \in 1..Len(s) : s[i] \in K
  PROVE  Picked(s, K) = s
<1> DEFINE n == Len(s)
<1>1. PICK f : PickedSoFar(f, S, s, K)
  BY PickedStepwise
<1>2. /\ n \in Nat /\ f \in [0..n -> Seq(S)] /\ f[0] = <<>> /\ Picked(s, K) = f[n]
      /\ \A i \in 1..n : f[i] = Append(f[i - 1], s[i]) /\ s[i] \in S
  <2>1. /\ f \in [0..n -> Seq(S)] /\ f[0] = <<>> /\ Picked(s, K) = f[n]
        /\ \A i \in 1..n : f[i] = IF s[i] \in K THEN Append(f[i - 1], s[i]) ELSE f[i - 1]
    BY <1>1 DEF PickedSoFar
  <2>2. n \in Nat /\ \A i \in 1..n : s[i] \in S
    OBVIOUS
  <2> QED
    BY <2>1, <2>2
<1> DEFINE Same(i) == Len(f[i]) = i /\ \A j \in 1..i : f[i][j] = s[j]
           P == {i \in Nat : i <= n => Same(i)}
<1>3. 0 \in P
  BY <1>2
<1>4. ASSUME NEW i \in Nat, i \in P PROVE i + 1 \in P
  <2>0. i + 1 \in Nat
    OBVIOUS
  <2> HIDE DEF Same
  <2> SUFFICES ASSUME i + 1 <= n PROVE Same(i + 1)
    BY <2>0
  <2>1. i + 1 \in 1..n /\ (i + 1) - 1 = i /\ i \in 0..n /\ Same(i)
    BY <1>2, <1>4
  <2> USE DEF Same
  <2>2. f[i] \in Seq(S) /\ f[i + 1] = Append(f[i], s[i + 1]) /\ s[i + 1] \in S
    BY <1>2, <2>1
  <2> QED
    BY <2>1, <2>2
<1>5. Nat \subseteq P
  <2> HIDE DEF P
  <2> QED
    BY <1>3, <1>4, NoLeastException
<1>6. Same(n) /\ f[n] \in Seq(S)
  BY <1>2, <1>5
<1> QED
  BY <1>2, <1>6

\* What is picked from different elements differs.
LEMMA PickedInjective ==
  ASSUME NEW S, NEW s \in Seq(S), NEW K, \A i, j \in 1..Len(s) : s[i] = s[j] => i = j
  PROVE  \A i, j \in 1..Len(Picked(s, K)) : Picked(s, K)[i] = Picked(s, K)[j] => i = j
<1> DEFINE n == Len(s)
<1>1. PICK f : PickedSoFar(f, S, s, K)
  BY PickedStepwise
<1>2. /\ n \in Nat /\ f \in [0..n -> Seq(S)] /\ f[0] = <<>> /\ Picked(s, K) = f[n]
      /\ \A i \in 1..n : f[i] = (IF s[i] \in K THEN Append(f[i - 1], s[i]) ELSE f[i - 1]) /\ s[i] \in S
  BY <1>1 DEF PickedSoFar
<1> DEFINE Apart(i) == /\ \A j \in 1..Len(f[i]) : \E k \in 1..i : f[i][j] = s[k]
                       /\ \A j, k \in 1..Len(f[i]) : f[i][j] = f[i][k] => j = k
           P == {i \in Nat : i <= n => Apart(i)}
<1>3. 0 \in P
  BY <1>2
<1>4. ASSUME NEW i \in Nat, i + 1 <= n, Apart(i) PROVE Apart(i + 1)
  <2>1. i + 1 \in 1..n /\ (i + 1) - 1 = i /\ i \in 0..n
    BY <1>2, <1>4
  <2> DEFINE x == s[i + 1]  b == f[i]  a == f[i + 1]
  <2>2. b \in Seq(S) /\ x \in S /\ a = IF x \in K THEN Append(b, x) ELSE b
    BY <1>2, <2>1
  <2>3. /\ \A j \in 1..Len(b) : \E k \in 1..i : b[j] = s[k]
        /\ \A j, k \in 1..Len(b) : b[j] = b[k] => j = k
    BY <1>4
  <2>4. \A k \in 1..i : s[k] # x
    <3>1. i \in Nat /\ n \in Nat
      BY <1>2
    <3>2. \A k \in 1..i : k \in 1..n /\ k # i + 1
      BY ONLY <2>1, <3>1
    <3>3. \A k, m \in 1..n : s[k] = s[m] => k = m
      OBVIOUS
    <3> HIDE DEF n
    <3> QED
      BY ONLY <2>1, <3>2, <3>3
  <2> HIDE DEF a, b
  <2>5. \A j \in 1..Len(b) : b[j] # x
    BY ONLY <2>3, <2>4
  <2>6. CASE x \in K
    <3>1. a = Append(b, x)
      BY <2>2, <2>6
    <3>2. Len(a) = Len(b) + 1 /\ a[Len(b) + 1] = x /\ Len(b) \in Nat /\ \A j \in 1..Len(b) : a[j] = b[j]
      BY <2>2, <3>1
    <3>3. \A j \in 1..Len(a) : j \in 1..Len(b) \/ j = Len(b) + 1
      BY <3>2
    <3>4. \A j \in 1..Len(a) : \E k \in 1..(i + 1) : a[j] = s[k]
      <4> TAKE j \in 1..Len(a)
      <4>1. CASE j \in 1..Len(b)
        <5>1. PICK k \in 1..i : b[j] = s[k]
          BY <2>3, <4>1
        <5>2. k \in 1..(i + 1)
          BY <5>1
        <5> QED
          BY <3>2, <4>1, <5>1, <5>2
      <4>2. CASE j = Len(b) + 1
        <5>1. i + 1 \in 1..(i + 1)
          OBVIOUS
        <5> QED
          BY <3>2, <4>2, <5>1
      <4> QED
        BY <3>3, <4>1, <4>2
    <3>5. \A j, k \in 1..Len(a) : a[j] = a[k] => j = k
      <4> HIDE DEF x
      <4> QED
        BY <2>3, <2>5, <3>2, <3>3
    <3> QED
      BY <3>4, <3>5 DEF a
  <2>7. CASE x \notin K
    <3>1. a = b
      BY <2>2, <2>7
    <3>2. \A j \in 1..Len(a) : \E k \in 1..(i + 1) : a[j] = s[k]
      <4> TAKE j \in 1..Len(a)
      <4>1. PICK k \in 1..i : b[j] = s[k]
        BY <2>3, <3>1
      <4>2. k \in 1..(i + 1)
        BY <4>1
      <4> QED
        BY <3>1, <4>1, <4>2
    <3> QED
      BY <2>3, <3>1, <3>2 DEF a
  <2> QED
    BY <2>6, <2>7
<1>5. Nat \subseteq P
  <2>1. ASSUME NEW i \in Nat, i \in P PROVE i + 1 \in P
    <3> HIDE DEF Apart
    <3>1. i + 1 \in Nat /\ (i + 1 <= n => i <= n)
      BY <1>2
    <3> QED
      BY <1>4, <2>1, <3>1
  <2> HIDE DEF P
  <2> QED
    BY <1>3, <2>1, NoLeastException
<1>6. Apart(n)
  BY SMTT(30), <1>2, <1>5
<1> QED
  BY <1>2, <1>6

\* Elements, and sequences put together.
LEMMA ElementIs == ASSUME NEW S, NEW s \in Seq(S), NEW i \in 1..Len(s) PROVE s[i] \in S
OBVIOUS
LEMMA ConcatIs ==
  ASSUME NEW S, NEW s \in Seq(S), NEW t \in Seq(S)
  PROVE  s \o t \in Seq(S) /\ Len(s \o t) = Len(s) + Len(t) /\ \A i \in 1..Len(s) : (s \o t)[i] = s[i]
OBVIOUS

\* The first k elements.
LEMMA FirstOf ==
  ASSUME NEW S, NEW s \in Seq(S), NEW k \in Nat, k <= Len(s)
  PROVE  /\ SubSeq(s, 1, k) \in Seq(S) /\ Len(SubSeq(s, 1, k)) = k
         /\ \A i \in 1..k : SubSeq(s, 1, k)[i] = s[i]
OBVIOUS

\* Messages from hi down to lo, one by one.
LEMMA RangeIs ==
  ASSUME NEW lo \in Nat \ {0}, NEW hi \in Nat, lo <= hi + 1, hi <= Count
  PROVE  /\ newest_first(lo, hi) \in Seq(1..Count) /\ Len(newest_first(lo, hi)) = hi + 1 - lo
         /\ \A i \in 1..(hi + 1 - lo) : newest_first(lo, hi)[i] = hi + 1 - i
<1> DEFINE n == IF hi < lo THEN 0 ELSE hi - lo + 1
<1>1. n = hi + 1 - lo /\ n \in Nat /\ Count \in Nat
  BY ResearchAssumption
<1>2. newest_first(lo, hi) = [i \in 1..n |-> hi + 1 - i]
  BY DEF newest_first
<1> HIDE DEF n
<1>3. \A i \in 1..n : hi + 1 - i \in 1..Count
  BY <1>1
<1> QED
  BY <1>1, <1>2, <1>3

\* A range is its later messages and then its earlier ones.
LEMMA RangesJoin ==
  ASSUME NEW lo \in Nat \ {0}, NEW hi \in Nat, hi <= Count, NEW m \in Nat, lo <= m, m <= hi + 1
  PROVE  newest_first(lo, hi) = newest_first(m, hi) \o newest_first(lo, m - 1)
<1> DEFINE a == newest_first(m, hi)  b == newest_first(lo, m - 1)  c == newest_first(lo, hi)
<1>1. /\ m \in Nat \ {0} /\ m - 1 \in Nat /\ lo <= (m - 1) + 1 /\ m - 1 <= Count /\ lo <= hi + 1
      /\ Count \in Nat
  BY ResearchAssumption
<1>2. /\ a \in Seq(1..Count) /\ Len(a) = hi + 1 - m /\ \A i \in 1..(hi + 1 - m) : a[i] = hi + 1 - i
  BY <1>1, RangeIs
<1>3. /\ b \in Seq(1..Count) /\ Len(b) = m - lo /\ \A i \in 1..(m - lo) : b[i] = m - i
  BY <1>1, RangeIs
<1>4. /\ c \in Seq(1..Count) /\ Len(c) = hi + 1 - lo /\ \A i \in 1..(hi + 1 - lo) : c[i] = hi + 1 - i
  BY <1>1, RangeIs
<1> HIDE DEF a, b, c
<1>5. \A s, t \in Seq(1..Count) :
        /\ s \o t \in Seq(1..Count) /\ Len(s \o t) = Len(s) + Len(t)
        /\ \A i \in 1..(Len(s) + Len(t)) : (s \o t)[i] = IF i <= Len(s) THEN s[i] ELSE t[i - Len(s)]
  OBVIOUS
<1>6. a \o b \in Seq(1..Count) /\ Len(a \o b) = hi + 1 - lo
  <2>1. a \o b \in Seq(1..Count) /\ Len(a \o b) = Len(a) + Len(b)
    BY <1>2, <1>3, ConcatIs
  <2> QED
    BY <1>1, <1>2, <1>3, <2>1
<1>7. ASSUME NEW i \in 1..(hi + 1 - lo) PROVE (a \o b)[i] = c[i]
  <2>1. i \in 1..(Len(a) + Len(b))
    BY <1>1, <1>2, <1>3
  <2>2. (a \o b)[i] = IF i <= Len(a) THEN a[i] ELSE b[i - Len(a)]
    BY <1>2, <1>3, <1>5, <2>1
  <2>3. CASE i <= Len(a)
    <3>1. i \in 1..(hi + 1 - m)
      BY <1>1, <1>2, <2>3
    <3> QED
      BY <1>2, <1>4, <2>2, <2>3, <3>1
  <2>4. CASE ~(i <= Len(a))
    <3>1. i - Len(a) \in 1..(m - lo) /\ m - (i - Len(a)) = hi + 1 - i
      BY <1>1, <1>2, <2>4
    <3> QED
      BY <1>3, <1>4, <2>2, <2>4, <3>1
  <2> QED
    BY <2>3, <2>4
<1>8. a \o b = c
  BY <1>4, <1>6, <1>7, SameSequence
<1> QED
  BY <1>8 DEF a, b, c

\* So are the wanted ones of it.
LEMMA WantedJoin ==
  ASSUME NEW lo \in Nat \ {0}, NEW hi \in Nat, hi <= Count, NEW m \in Nat, lo <= m, m <= hi + 1
  PROVE  wanted(newest_first(lo, hi)) = wanted(newest_first(m, hi)) \o wanted(newest_first(lo, m - 1))
<1>1. m \in Nat \ {0} /\ m - 1 \in Nat /\ lo <= (m - 1) + 1 /\ m - 1 <= Count /\ Count \in Nat
  BY ResearchAssumption
<1>2. newest_first(m, hi) \in Seq(1..Count) /\ newest_first(lo, m - 1) \in Seq(1..Count)
  BY <1>1, RangeIs
<1>3. newest_first(lo, hi) = newest_first(m, hi) \o newest_first(lo, m - 1)
  BY RangesJoin
<1> QED
  BY <1>2, <1>3, PickedJoins DEF wanted

\* The wanted messages of a range are in it, each once.
LEMMA WantedIs ==
  ASSUME NEW lo \in Nat \ {0}, NEW hi \in Nat, lo <= hi + 1, hi <= Count,
         NEW r, r = newest_first(lo, hi)
  PROVE  /\ wanted(r) \in Seq(1..Count)
         /\ \A i \in 1..Len(wanted(r)) : lo <= wanted(r)[i] /\ wanted(r)[i] <= hi
         /\ \A i, j \in 1..Len(wanted(r)) : wanted(r)[i] = wanted(r)[j] => i = j
<1> DEFINE w == wanted(r)
<1>1. /\ r \in Seq(1..Count) /\ Len(r) = hi + 1 - lo
      /\ \A i \in 1..Len(r) : r[i] = hi + 1 - i
  BY RangeIs
<1>2. \A i, j \in 1..Len(r) : r[i] = r[j] => i = j
  BY <1>1
<1>3. w \in Seq(1..Count) /\ ToSet(w) = {x \in ToSet(r) : x \in Wanted}
  BY <1>1, PickedIs DEF wanted
<1>4. \A i, j \in 1..Len(w) : w[i] = w[j] => i = j
  BY <1>1, <1>2, PickedInjective DEF wanted
<1>5. ASSUME NEW i \in 1..Len(w) PROVE lo <= w[i] /\ w[i] <= hi
  <2> HIDE DEF w
  <2>1. w[i] \in ToSet(w)
    BY <1>3 DEF ToSet
  <2>2. PICK j \in 1..Len(r) : w[i] = r[j]
    <3>1. w[i] \in ToSet(r)
      BY <1>3, <2>1
    <3>2. DOMAIN r = 1..Len(r)
      BY <1>1
    <3> QED
      BY <3>1, <3>2 DEF ToSet
  <2> QED
    BY <1>1, <2>2
<1> QED
  BY <1>3, <1>4, <1>5

\* What a page adds.
LEMMA KeptIs ==
  ASSUME NEW s \in Seq(1..Count), NEW t \in Seq(1..Count),
         \A i, j \in 1..Len(s) : s[i] = s[j] => i = j,
         \A i, j \in 1..Len(t) : t[i] = t[j] => i = j
  PROVE  LET k == s \o Picked(t, 1..Count \ ToSet(s))
         IN  /\ k \in Seq(1..Count) /\ IsInjective(k)
             /\ (\A i \in 1..Len(s), j \in 1..Len(t) : s[i] # t[j]) => k = s \o t
<1> DEFINE K == 1..Count \ ToSet(s)  p == Picked(t, K)  k == s \o p
<1>1. ToSet(s) = {s[i] : i \in 1..Len(s)}
  BY DEF ToSet
<1>2. p \in Seq(1..Count) /\ ToSet(p) = {x \in ToSet(t) : x \in K}
  BY PickedIs
<1>3. \A i, j \in 1..Len(p) : p[i] = p[j] => i = j
  <2> HIDE DEF K
  <2> QED
    BY PickedInjective
<1>4. \A i \in 1..Len(p) : p[i] \in ToSet(p)
  <2> HIDE DEF p
  <2> QED
    BY <1>2 DEF ToSet
<1>5. \A i \in 1..Len(s), j \in 1..Len(p) : s[i] # p[j]
  <2> TAKE i \in 1..Len(s), j \in 1..Len(p)
  <2> HIDE DEF p
  <2> QED
    BY <1>1, <1>2, <1>4
<1>6. k \in Seq(1..Count) /\ IsInjective(k)
  <2> HIDE DEF p
  <2>1. \A a, b \in Seq(1..Count) :
          /\ a \o b \in Seq(1..Count) /\ DOMAIN (a \o b) = 1..(Len(a) + Len(b)) /\ Len(a) \in Nat /\ Len(b) \in Nat
          /\ \A i \in 1..(Len(a) + Len(b)) : (a \o b)[i] = IF i <= Len(a) THEN a[i] ELSE b[i - Len(a)]
    OBVIOUS
  <2>2. /\ k \in Seq(1..Count) /\ DOMAIN k = 1..(Len(s) + Len(p)) /\ Len(s) \in Nat /\ Len(p) \in Nat
        /\ \A i \in 1..(Len(s) + Len(p)) : k[i] = IF i <= Len(s) THEN s[i] ELSE p[i - Len(s)]
    BY <1>2, <2>1
  <2> HIDE DEF k
  <2>3. ASSUME NEW i \in 1..(Len(s) + Len(p)), NEW j \in 1..(Len(s) + Len(p)), k[i] = k[j] PROVE i = j
    <3>1. i <= Len(s) => i \in 1..Len(s)
      BY <2>2
    <3>2. j <= Len(s) => j \in 1..Len(s)
      BY <2>2
    <3>3. ~(i <= Len(s)) => i - Len(s) \in 1..Len(p)
      BY <2>2
    <3>4. ~(j <= Len(s)) => j - Len(s) \in 1..Len(p)
      BY <2>2
    <3>5. CASE i <= Len(s) /\ j <= Len(s)
      BY <2>2, <2>3, <3>1, <3>2, <3>5
    <3>6. CASE i <= Len(s) /\ ~(j <= Len(s))
      BY <1>5, <2>2, <2>3, <3>1, <3>4, <3>6
    <3>7. CASE ~(i <= Len(s)) /\ j <= Len(s)
      BY <1>5, <2>2, <2>3, <3>2, <3>3, <3>7
    <3>8. CASE ~(i <= Len(s)) /\ ~(j <= Len(s))
      <4>1. i - Len(s) = j - Len(s)
        BY <1>3, <2>2, <2>3, <3>3, <3>4, <3>8
      <4> QED
        BY <2>2, <4>1
    <3> QED
      BY <3>5, <3>6, <3>7, <3>8
  <2> QED
    BY <2>2, <2>3 DEF IsInjective
<1>7. ASSUME \A i \in 1..Len(s), j \in 1..Len(t) : s[i] # t[j] PROVE k = s \o t
  <2>1. \A j \in 1..Len(t) : t[j] \in K
    <3> TAKE j \in 1..Len(t)
    <3>1. t[j] \in 1..Count
      BY ElementIs
    <3>2. t[j] \notin ToSet(s)
      BY <1>1, <1>7
    <3> QED
      BY <3>1, <3>2
  <2>2. p = t
    <3> HIDE DEF K
    <3> QED
      BY <2>1, PickedAll
  <2> QED
    BY <2>2
<1> QED
  BY <1>6, <1>7

\* What a history holds, and goes on from.
HistorySound(row) ==
  LET all == wanted(newest_first(1, Count))
  IN  /\ row.cursor <= Count
      /\ IsPrefix(row.messages, all)
      /\ row.cursor > 0 => row.messages = wanted(newest_first(row.cursor, Count))
      /\ row.status = "completed" => row.messages = all
      /\ row.continuable => row.messages = wanted(newest_first(page_before(row), Count))

\* A row that keeps its budget, and may still grow only as long as it may go on.
RowSound(row) ==
  /\ row.pages <= MaxJobPages /\ Len(row.messages) <= MaxJobMessages /\ IsInjective(row.messages)
  /\ row.continuable => row.pages < MaxJobPages
  /\ row.status = "running" => row.continuable /\ ~row.cancelled
  /\ row.status = "completed" => ~row.continuable
  /\ row.cancelled => row.status = "cancelled"
  /\ row.kind = "history" => HistorySound(row)

\* The state has its shape, and the version a worker holds means that the job is still its own.
ResearchInv ==
  /\ jobs \in [Jobs -> JobRows]
  /\ hands \in [Workers -> [stage : {"idle", "reading", "failed"}, job : Jobs \cup {0}, same : BOOLEAN]]
  /\ \A w \in Workers :
       /\ hands[w].stage # "idle" => hands[w].job \in Jobs
       /\ hands[w].same => /\ hands[w].job \in Jobs /\ jobs[hands[w].job].status = "running"
                           /\ jobs[hands[w].job].owner = w
  /\ \A j \in Jobs : RowSound(jobs[j])

\* A page of a history: from somewhere before the cursor up to it, and the next one goes on there.
LEMMA HistoryPageIs ==
  ASSUME NEW row \in JobRows, row.cursor <= Count, NEW page \in HistoryPages(row)
  PROVE  \E m \in 1..(Count + 1) :
           /\ m <= page_before(row) /\ page.found = wanted(newest_first(m, page_before(row) - 1))
           /\ page.deep = FALSE /\ page.limited = FALSE
           /\ (page.next = 0 /\ m = 1) \/ (page.next = m /\ m <= Count)
<1> DEFINE c == page_before(row)
           lo == IF c > PageSize THEN c - PageSize ELSE 1
           all == window(row)
<1>1. c \in Nat \ {0} /\ c <= Count + 1 /\ Count \in Nat /\ PageSize \in Nat \ {0}
  BY ResearchAssumption DEF JobRows, page_before
<1>2. all = newest_first(lo, c - 1)
  BY DEF window
<1> HIDE DEF c
<1>3. lo \in Nat \ {0} /\ lo <= c /\ (c - lo = PageSize \/ lo = 1) /\ c - lo <= PageSize
  BY <1>1
<1> HIDE DEF lo
<1>4. c - 1 \in Nat /\ c - 1 <= Count /\ lo <= (c - 1) + 1 /\ (c - 1) + 1 = c
  BY <1>1, <1>3
<1>5. all \in Seq(1..Count) /\ Len(all) = c - lo /\ \A i \in 1..(c - lo) : all[i] = c - i
  <2>1. /\ newest_first(lo, c - 1) \in Seq(1..Count) /\ Len(newest_first(lo, c - 1)) = (c - 1) + 1 - lo
        /\ \A i \in 1..((c - 1) + 1 - lo) : newest_first(lo, c - 1)[i] = (c - 1) + 1 - i
    BY <1>3, <1>4, RangeIs
  <2>2. (c - 1) + 1 - lo = c - lo
    BY <1>1, <1>3
  <2> QED
    BY <1>2, <1>4, <2>1, <2>2
<1> HIDE DEF all
<1>6. CASE page = Page(wanted(all), IF Len(all) = PageSize THEN all[PageSize] ELSE 0, FALSE, FALSE,
                       ~(Len(all) = PageSize))
  <2>1. page.found = wanted(newest_first(lo, c - 1)) /\ page.deep = FALSE /\ page.limited = FALSE
        /\ page.next = IF Len(all) = PageSize THEN all[PageSize] ELSE 0
    BY <1>2, <1>6 DEF Page
  <2>2. lo \in 1..(Count + 1)
    BY <1>1, <1>3
  <2>3. CASE Len(all) = PageSize
    <3>1. PageSize \in 1..(c - lo) /\ c - PageSize = lo /\ lo <= Count
      BY <1>1, <1>3, <1>5, <2>3
    <3>2. page.next = lo
      BY <1>5, <2>1, <2>3, <3>1
    <3> QED
      BY <1>3, <2>1, <2>2, <3>1, <3>2 DEF c
  <2>4. CASE Len(all) # PageSize
    <3>1. lo = 1 /\ page.next = 0
      BY <1>1, <1>3, <1>5, <2>1, <2>4
    <3> QED
      BY <1>3, <2>1, <2>2, <3>1 DEF c
  <2> QED
    BY <2>3, <2>4
<1>7. ASSUME NEW k \in 1..(Len(all) - 1),
             page = Page(wanted(SubSeq(all, 1, k)), cut_before(row, k), FALSE, FALSE, FALSE)
      PROVE  \E m \in 1..(Count + 1) :
               /\ m <= c /\ page.found = wanted(newest_first(m, c - 1))
               /\ page.deep = FALSE /\ page.limited = FALSE
               /\ (page.next = 0 /\ m = 1) \/ (page.next = m /\ m <= Count)
  <2> DEFINE m == c - k
  <2>1. /\ k \in 1..(c - lo) /\ m \in Nat \ {0} /\ m <= c /\ lo <= m /\ m <= (c - 1) + 1 /\ m <= Count
        /\ m \in 1..(Count + 1) /\ k \in Nat /\ k <= Len(all)
    BY <1>1, <1>3, <1>5
  <2>2. page.found = wanted(SubSeq(all, 1, k)) /\ page.deep = FALSE /\ page.limited = FALSE
        /\ page.next = all[k]
    BY <1>7 DEF Page, cut_before, all
  <2>3. all[k] = m
    BY <1>5, <2>1
  <2> DEFINE s == SubSeq(all, 1, k)  r == newest_first(m, c - 1)
  <2>4. /\ r \in Seq(1..Count) /\ Len(r) = (c - 1) + 1 - m
        /\ \A i \in 1..((c - 1) + 1 - m) : r[i] = (c - 1) + 1 - i
    <3> HIDE DEF m
    <3> QED
      BY <1>4, <2>1, RangeIs
  <2>5. (c - 1) + 1 - m = k
    BY <1>1, <2>1
  <2>6. s \in Seq(1..Count) /\ Len(s) = k /\ \A i \in 1..k : s[i] = all[i]
    BY <1>5, <2>1, FirstOf
  <2> HIDE DEF s, r
  <2>7. \A i \in 1..k : s[i] = r[i]
    <3> TAKE i \in 1..k
    <3>1. i \in 1..(c - lo)
      BY <1>1, <1>3, <2>1
    <3>2. r[i] = c - i
      BY <1>4, <2>4, <2>5
    <3> QED
      BY <1>5, <2>6, <3>1, <3>2
  <2>8. s = r
    BY <2>4, <2>5, <2>6, <2>7, SameSequence
  <2>9. page.found = wanted(newest_first(m, c - 1)) /\ page.next = m
    BY <2>2, <2>3, <2>8 DEF s, r
  <2> HIDE DEF m
  <2> QED
    BY <2>1, <2>2, <2>9
<1>8. \/ page = Page(wanted(all), IF Len(all) = PageSize THEN all[PageSize] ELSE 0, FALSE, FALSE,
                     ~(Len(all) = PageSize))
      \/ \E k \in 1..(Len(all) - 1) :
           page = Page(wanted(SubSeq(all, 1, k)), cut_before(row, k), FALSE, FALSE, FALSE)
  BY DEF HistoryPages, all
<1> QED
  BY <1>6, <1>7, <1>8 DEF c

\* Any page: different messages, and where to go on.
LEMMA PagesAre ==
  ASSUME NEW row \in JobRows, row.kind = "history" => row.cursor <= Count, NEW page \in Pages(row)
  PROVE  /\ page.found \in Seq(1..Count) /\ \A i, j \in 1..Len(page.found) :
                                              page.found[i] = page.found[j] => i = j
         /\ page.next \in Nat /\ page.deep \in BOOLEAN /\ page.limited \in BOOLEAN
<1>1. CASE row.kind = "history"
  <2>1. PICK m \in 1..(Count + 1) :
          /\ m <= page_before(row) /\ page.found = wanted(newest_first(m, page_before(row) - 1))
          /\ page.deep = FALSE /\ page.limited = FALSE
          /\ (page.next = 0 /\ m = 1) \/ (page.next = m /\ m <= Count)
    BY <1>1, HistoryPageIs DEF Pages
  <2>2. page_before(row) \in Nat \ {0} /\ page_before(row) <= Count + 1 /\ Count \in Nat
    BY <1>1, ResearchAssumption DEF JobRows, page_before
  <2> DEFINE hi == page_before(row) - 1
  <2>3. m \in Nat \ {0} /\ hi \in Nat /\ m <= hi + 1 /\ hi <= Count
    <3>1. m <= page_before(row) /\ m \in 1..(Count + 1)
      BY <2>1
    <3> QED
      BY ONLY <2>2, <3>1 DEF hi
  <2> HIDE DEF hi
  <2>4. /\ wanted(newest_first(m, hi)) \in Seq(1..Count)
        /\ \A i, j \in 1..Len(wanted(newest_first(m, hi))) :
             wanted(newest_first(m, hi))[i] = wanted(newest_first(m, hi))[j] => i = j
    BY <2>3, WantedIs
  <2>5. page.found = wanted(newest_first(m, hi))
    BY <2>1 DEF hi
  <2>6. page.next \in Nat /\ page.deep \in BOOLEAN /\ page.limited \in BOOLEAN
    <3>1. page.next = 0 \/ page.next = m
      BY <2>1
    <3>2. page.next \in Nat
      BY ONLY <2>3, <3>1
    <3> QED
      BY <2>1, <3>2
  <2> QED
    BY <2>4, <2>5, <2>6
<1>2. CASE row.kind = "search"
  <2>1. row.cursor \in Nat /\ row.cursor + 1 \in Nat
    BY DEF JobRows
  <2>2. page \in SearchPages(row)
    BY <1>2 DEF Pages
  <2>3. /\ page.next \in {0, row.cursor, row.cursor + 1}
        /\ page.deep \in BOOLEAN /\ page.limited \in BOOLEAN
        /\ page.found = <<>> \/ \E x \in Wanted : page.found = <<x>>
    <3> DEFINE ends == {<<0, TRUE, FALSE>>, <<0, FALSE, TRUE>>, <<0, FALSE, FALSE>>,
                        <<row.cursor, FALSE, FALSE>>, <<row.cursor + 1, FALSE, FALSE>>}
               F == {<<>>} \cup {<<x>> : x \in Wanted}
               P(f, e) == Page(f, e[1], e[2], e[3], e[1] = 0 /\ ~e[2] /\ ~e[3])
    <3>4. SearchPages(row) = {P(f, e) : f \in F, e \in ends}
      BY DEF SearchPages
    <3>5. \A e \in ends : /\ e[1] \in {0, row.cursor, row.cursor + 1}
                          /\ e[2] \in BOOLEAN /\ e[3] \in BOOLEAN
      <4>1. \A x, y, z : <<x, y, z>>[1] = x /\ <<x, y, z>>[2] = y /\ <<x, y, z>>[3] = z
        OBVIOUS
      <4> TAKE e \in ends
      <4>2. PICK x \in {0, row.cursor, row.cursor + 1}, y \in BOOLEAN, z \in BOOLEAN : e = <<x, y, z>>
        OBVIOUS
      <4> QED
        BY <4>1, <4>2
    <3> HIDE DEF P, F, ends
    <3>1. PICK f \in F, e \in ends : page = P(f, e)
      BY <2>2, <3>4
    <3>2. page.found = f /\ page.next = e[1] /\ page.deep = e[2] /\ page.limited = e[3]
      BY <3>1 DEF Page, P
    <3>3. page.found = <<>> \/ \E x \in Wanted : page.found = <<x>>
      BY <3>2 DEF F
    <3> QED
      BY <3>2, <3>3, <3>5
  <2>4. \A x \in Wanted : x \in 1..Count
    BY ResearchAssumption
  <2>5. CASE page.found = <<>>
    BY <2>1, <2>3, <2>5
  <2>6. ASSUME NEW x \in Wanted, page.found = <<x>>
        PROVE  /\ page.found \in Seq(1..Count) /\ \A i, j \in 1..Len(page.found) :
                                              page.found[i] = page.found[j] => i = j
    BY <2>4, <2>6
  <2> QED
    BY <2>1, <2>3, <2>5, <2>6
<1> QED
  BY <1>1, <1>2 DEF JobRows

\* What checkpoint_page makes of a row: closing, to go on, to wait for the index, or complete.
LEMMA AdvancedIs ==
  ASSUME NEW row \in JobRows, NEW page, page.next \in Nat, page.deep \in BOOLEAN, page.limited \in BOOLEAN,
         NEW kept \in Seq(1..Count),
         kept = row.messages \o Picked(page.found, 1..Count \ ToSet(row.messages))
  PROVE  LET new == Advanced(row, page)
             n   == IF Len(kept) > MaxJobMessages THEN MaxJobMessages ELSE Len(kept)
             open == Len(kept) <= MaxJobMessages /\ row.pages + 1 < MaxJobPages
         IN  /\ new \in JobRows /\ new.kind = row.kind /\ new.cancelled = row.cancelled
             /\ new.pages = row.pages + 1 /\ new.messages = SubSeq(kept, 1, n)
             /\ \/ new.status = "partial" /\ ~new.continuable /\ new.cursor = 0
                \/ new.status = "partial" /\ new.cursor = page.next /\ page.next # 0 /\ open
                \/ new.status = "waiting" /\ new.cursor = row.cursor /\ page.deep /\ open
                \/ /\ new.status = "completed" /\ ~new.continuable /\ new.cursor = 0 /\ page.next = 0
                   /\ Len(kept) <= MaxJobMessages
<1> DEFINE pages == row.pages + 1
           n == IF Len(kept) > MaxJobMessages THEN MaxJobMessages ELSE Len(kept)
           stuck == page.next # 0 /\ page.next = row.cursor
           closing == \/ Len(kept) > MaxJobMessages \/ page.limited \/ stuck
                      \/ budget_reached(pages, kept) /\ (page.next # 0 \/ page.deep)
           after(status, continuable, cursor) ==
             [Unleased(row) EXCEPT !.status = status, !.continuable = continuable, !.cursor = cursor,
                !.messages = SubSeq(kept, 1, n), !.pages = pages, !.error = FALSE]
           new == Advanced(row, page)
<1>1. new = CASE closing -> after("partial", FALSE, 0)
              [] ~closing /\ page.next # 0 -> after("partial", TRUE, page.next)
              [] ~closing /\ page.next = 0 /\ page.deep -> after("waiting", TRUE, row.cursor)
              [] OTHER -> after("completed", FALSE, 0)
  BY DEF Advanced
<1>2. /\ MaxJobMessages \in Nat \ {0} /\ MaxJobPages \in Nat \ {0} /\ Len(kept) \in Nat
      /\ row.pages \in Nat /\ pages \in Nat /\ row.cursor \in Nat
  BY ResearchAssumption DEF JobRows
<1>3. n \in Nat /\ n <= Len(kept)
  <2>1. CASE Len(kept) > MaxJobMessages
    <3>1. n = MaxJobMessages
      BY <2>1
    <3> QED
      BY ONLY <1>2, <2>1, <3>1
  <2>2. CASE ~(Len(kept) > MaxJobMessages)
    <3>1. n = Len(kept)
      BY <2>2
    <3> QED
      BY ONLY <1>2, <3>1
  <2> QED
    BY <2>1, <2>2
<1>4. SubSeq(kept, 1, n) \in Seq(1..Count)
  <2> HIDE DEF n
  <2> QED
    BY <1>3, FirstOf
<1> DEFINE Becomes(status, continuable, cursor) ==
             /\ new \in JobRows /\ new.kind = row.kind /\ new.cancelled = row.cancelled
             /\ new.pages = pages /\ new.messages = SubSeq(kept, 1, n)
             /\ new.status = status /\ new.continuable = continuable /\ new.cursor = cursor
<1>5. ASSUME NEW status \in Statuses, NEW continuable \in BOOLEAN, NEW cursor \in Nat,
             new = after(status, continuable, cursor)
      PROVE  Becomes(status, continuable, cursor)
  <2> HIDE DEF n, pages, new
  <2> QED
    BY <1>2, <1>4, <1>5 DEF JobRows, Unleased
<1>6. {"partial", "waiting", "completed"} \subseteq Statuses /\ 0 \in Nat /\ page.next \in Nat /\ row.cursor \in Nat
  BY <1>2 DEF Statuses
<1>7. ~closing => /\ Len(kept) <= MaxJobMessages
                  /\ page.next # 0 \/ page.deep => pages < MaxJobPages
  <2>1. Len(kept) <= MaxJobMessages \/ Len(kept) > MaxJobMessages
    BY ONLY <1>2
  <2>2. pages < MaxJobPages \/ pages >= MaxJobPages
    BY <1>2
  <2> HIDE DEF pages
  <2> QED
    BY <2>1, <2>2 DEF budget_reached
<1> HIDE DEF closing, after, n, pages, new, Becomes
<1>8. CASE closing
  <2>1. new = after("partial", FALSE, 0)
    BY <1>1, <1>8
  <2>2. Becomes("partial", FALSE, 0)
    BY <1>5, <1>6, <2>1
  <2> QED
    BY <1>7, <1>8, <2>2 DEF Becomes, new, n, pages
<1>9. CASE ~closing /\ page.next # 0
  <2>1. new = after("partial", TRUE, page.next)
    BY <1>1, <1>9
  <2>2. Becomes("partial", TRUE, page.next)
    BY <1>5, <1>6, <2>1
  <2> QED
    BY <1>7, <1>9, <2>2 DEF Becomes, new, n, pages
<1>10. CASE ~closing /\ page.next = 0 /\ page.deep
  <2>1. new = after("waiting", TRUE, row.cursor)
    BY <1>1, <1>10
  <2>2. Becomes("waiting", TRUE, row.cursor)
    BY <1>5, <1>6, <2>1
  <2> QED
    BY <1>7, <1>10, <2>2 DEF Becomes, new, n, pages
<1>11. CASE ~closing /\ page.next = 0 /\ ~page.deep
  <2>1. new = after("completed", FALSE, 0)
    BY <1>1, <1>11
  <2>2. Becomes("completed", FALSE, 0)
    BY <1>5, <1>6, <2>1
  <2> QED
    BY <1>7, <1>11, <2>2 DEF Becomes, new, n, pages
<1> QED
  BY <1>8, <1>9, <1>10, <1>11

\* The first n of what comes first are a beginning of the whole.
LEMMA BeginningOf ==
  ASSUME NEW S, NEW a \in Seq(S), NEW b \in Seq(S), NEW n \in Nat, n <= Len(a)
  PROVE  IsPrefix(SubSeq(a, 1, n), a \o b)
<1>1. SubSeq(a, 1, n) \in Seq(S) /\ Len(SubSeq(a, 1, n)) = n /\ \A i \in 1..n : SubSeq(a, 1, n)[i] = a[i]
  BY FirstOf
<1>2. /\ a \o b \in Seq(S) /\ Len(a \o b) = Len(a) + Len(b) /\ \A i \in 1..Len(a) : (a \o b)[i] = a[i]
      /\ Len(a) \in Nat /\ Len(b) \in Nat
  OBVIOUS
<1> DEFINE s == SubSeq(a, 1, n)  t == a \o b
<1> HIDE DEF s, t
<1>3. s \in Seq(S) /\ t \in Seq(S) /\ Len(s) = n /\ n <= Len(t) /\ \A i \in 1..n : s[i] = t[i]
  BY <1>1, <1>2 DEF s, t
<1>4. /\ SubSeq(s, 1, n) \in Seq(S) /\ Len(SubSeq(s, 1, n)) = n
      /\ \A i \in 1..n : SubSeq(s, 1, n)[i] = s[i]
  BY <1>3, FirstOf
<1>5. /\ SubSeq(t, 1, n) \in Seq(S) /\ Len(SubSeq(t, 1, n)) = n
      /\ \A i \in 1..n : SubSeq(t, 1, n)[i] = t[i]
  BY <1>3, FirstOf
<1>6. SubSeq(s, 1, n) = SubSeq(t, 1, n)
  <2>1. \A i \in 1..Len(SubSeq(s, 1, n)) : SubSeq(s, 1, n)[i] = SubSeq(t, 1, n)[i]
    BY <1>3, <1>4, <1>5
  <2> QED
    BY <1>4, <1>5, <2>1, SameSequence
<1>7. IsPrefix(s, t)
  BY <1>3, <1>6 DEF IsPrefix
<1> QED
  BY <1>7 DEF s, t

\* A page of a history that is in hand adds the messages before the cursor, and no other.
LEMMA HistoryGrows ==
  ASSUME NEW row \in JobRows, HistorySound(row), row.continuable, NEW page \in HistoryPages(row),
         NEW kept, kept = row.messages \o Picked(page.found, 1..Count \ ToSet(row.messages))
  PROVE  /\ page.deep = FALSE
         /\ \E m \in 1..(Count + 1) :
              /\ kept = wanted(newest_first(m, Count))
              /\ (page.next = 0 /\ m = 1) \/ (page.next = m /\ m <= Count)
<1>1. PICK m \in 1..(Count + 1) :
        /\ m <= page_before(row) /\ page.found = wanted(newest_first(m, page_before(row) - 1))
        /\ page.deep = FALSE /\ page.limited = FALSE
        /\ (page.next = 0 /\ m = 1) \/ (page.next = m /\ m <= Count)
  BY HistoryPageIs DEF HistorySound
<1>2. page_before(row) \in Nat \ {0} /\ page_before(row) <= Count + 1 /\ Count \in Nat
  BY ResearchAssumption DEF JobRows, page_before, HistorySound
<1> DEFINE c == page_before(row)  s == row.messages  t == page.found
<1>3. s = wanted(newest_first(c, Count)) /\ t = wanted(newest_first(m, c - 1))
  BY <1>1 DEF HistorySound
<1>4. m <= c /\ c \in Nat \ {0} /\ c <= Count + 1 /\ Count \in Nat /\ Count <= Count /\ m \in 1..(Count + 1)
  BY <1>1, <1>2
<1> HIDE DEF c
<1>5. m \in Nat \ {0} /\ c - 1 \in Nat /\ m <= (c - 1) + 1 /\ c - 1 <= Count /\ m <= Count + 1
  BY ONLY <1>4
<1> HIDE DEF s, t
<1>6. /\ s \in Seq(1..Count) /\ \A i \in 1..Len(s) : c <= s[i] /\ s[i] <= Count
      /\ \A i, j \in 1..Len(s) : s[i] = s[j] => i = j
  <2> DEFINE hi == Count
             r == newest_first(c, hi)
  <2>1. s = wanted(r)
    BY <1>3
  <2>2. c \in Nat \ {0} /\ hi \in Nat /\ c <= hi + 1 /\ hi <= Count /\ r = newest_first(c, hi)
    BY <1>4
  <2> HIDE DEF hi, r
  <2>3. /\ s \in Seq(1..Count) /\ \A i \in 1..Len(s) : c <= s[i] /\ s[i] <= hi
        /\ \A i, j \in 1..Len(s) : s[i] = s[j] => i = j
    BY ONLY <2>1, <2>2, WantedIs
  <2> QED
    BY <2>3 DEF hi
<1>7. /\ t \in Seq(1..Count) /\ \A i \in 1..Len(t) : m <= t[i] /\ t[i] <= c - 1
      /\ \A i, j \in 1..Len(t) : t[i] = t[j] => i = j
  <2> DEFINE hi == c - 1
             r == newest_first(m, hi)
  <2>1. t = wanted(r)
    BY <1>3
  <2>2. m \in Nat \ {0} /\ hi \in Nat /\ m <= hi + 1 /\ hi <= Count /\ r = newest_first(m, hi)
    BY <1>5
  <2> HIDE DEF hi, r
  <2>3. /\ t \in Seq(1..Count) /\ \A i \in 1..Len(t) : m <= t[i] /\ t[i] <= hi
        /\ \A i, j \in 1..Len(t) : t[i] = t[j] => i = j
    BY ONLY <2>1, <2>2, WantedIs
  <2> QED
    BY <2>3 DEF hi
<1>9. \A i \in 1..Len(s), j \in 1..Len(t) : s[i] # t[j]
  <2> TAKE i \in 1..Len(s), j \in 1..Len(t)
  <2>1. c <= s[i] /\ t[j] <= c - 1 /\ s[i] \in 1..Count /\ t[j] \in 1..Count
    BY <1>6, <1>7, ElementIs
  <2>2. s[i] \in Nat /\ t[j] \in Nat
    BY <1>4, <2>1
  <2> QED
    BY ONLY <1>4, <2>1, <2>2
<1>10. kept = s \o t
  <2>1. kept = s \o Picked(t, 1..Count \ ToSet(s))
    BY DEF s, t
  <2> QED
    BY <1>6, <1>7, <1>9, <2>1, KeptIs
<1>11. wanted(newest_first(m, Count)) = wanted(newest_first(c, Count)) \o wanted(newest_first(m, c - 1))
  BY <1>4, <1>5, WantedJoin
<1>12. kept = wanted(newest_first(m, Count))
  BY <1>3, <1>10, <1>11
<1> QED
  BY <1>1, <1>12

\* Checkpointing a page keeps a row sound.
LEMMA AdvancedSound ==
  ASSUME NEW row \in JobRows, RowSound(row), row.status = "running", NEW page \in Pages(row)
  PROVE  /\ Advanced(row, page) \in JobRows /\ RowSound(Advanced(row, page))
         /\ Advanced(row, page).status # "running"
<1> DEFINE new == Advanced(row, page)
           kept == row.messages \o Picked(page.found, 1..Count \ ToSet(row.messages))
           n == IF Len(kept) > MaxJobMessages THEN MaxJobMessages ELSE Len(kept)
           open == Len(kept) <= MaxJobMessages /\ row.pages + 1 < MaxJobPages
<1>1. /\ row.continuable /\ ~row.cancelled /\ row.pages < MaxJobPages /\ IsInjective(row.messages)
      /\ row.kind = "history" => HistorySound(row)
  BY DEF RowSound
<1>2. row.messages \in Seq(1..Count) /\ row.pages \in Nat /\ row.cancelled \in BOOLEAN
  BY DEF JobRows
<1>3. /\ page.found \in Seq(1..Count)
      /\ \A i, j \in 1..Len(page.found) : page.found[i] = page.found[j] => i = j
      /\ page.next \in Nat /\ page.deep \in BOOLEAN /\ page.limited \in BOOLEAN
  BY <1>1, PagesAre DEF HistorySound
<1>4. \A i, j \in 1..Len(row.messages) : row.messages[i] = row.messages[j] => i = j
  <2>1. DOMAIN row.messages = 1..Len(row.messages)
    BY <1>2
  <2> QED
    BY <1>1, <2>1 DEF IsInjective
<1>5. kept \in Seq(1..Count) /\ IsInjective(kept)
  BY <1>2, <1>3, <1>4, KeptIs
<1>6. /\ new \in JobRows /\ new.kind = row.kind /\ new.cancelled = row.cancelled
      /\ new.pages = row.pages + 1 /\ new.messages = SubSeq(kept, 1, n)
      /\ \/ new.status = "partial" /\ ~new.continuable /\ new.cursor = 0
         \/ new.status = "partial" /\ new.cursor = page.next /\ page.next # 0 /\ open
         \/ new.status = "waiting" /\ new.cursor = row.cursor /\ page.deep /\ open
         \/ /\ new.status = "completed" /\ ~new.continuable /\ new.cursor = 0 /\ page.next = 0
            /\ Len(kept) <= MaxJobMessages
  <2>1. \E k \in Seq(1..Count) : k = kept
    BY <1>5
  <2> QED
    BY <1>3, <1>5, AdvancedIs
<1> HIDE DEF new, kept
<1>7. /\ MaxJobMessages \in Nat \ {0} /\ MaxJobPages \in Nat \ {0} /\ Len(kept) \in Nat
      /\ n \in Nat /\ n <= Len(kept) /\ n <= MaxJobMessages
      /\ Len(kept) <= MaxJobMessages => n = Len(kept)
  <2>1. MaxJobMessages \in Nat \ {0} /\ MaxJobPages \in Nat \ {0} /\ Len(kept) \in Nat
    BY <1>5, ResearchAssumption
  <2>2. CASE Len(kept) > MaxJobMessages
    <3>1. n = MaxJobMessages
      BY <2>2
    <3> QED
      BY ONLY <2>1, <2>2, <3>1
  <2>3. CASE ~(Len(kept) > MaxJobMessages)
    <3>1. n = Len(kept)
      BY <2>3
    <3> QED
      BY ONLY <2>1, <2>3, <3>1
  <2> QED
    BY <2>2, <2>3
<1> HIDE DEF n
<1>8. /\ new.messages \in Seq(1..Count) /\ Len(new.messages) = n
      /\ \A i \in 1..n : new.messages[i] = kept[i]
  <2>1. /\ SubSeq(kept, 1, n) \in Seq(1..Count) /\ Len(SubSeq(kept, 1, n)) = n
        /\ \A i \in 1..n : SubSeq(kept, 1, n)[i] = kept[i]
    BY <1>5, <1>7, FirstOf
  <2>2. new.messages = SubSeq(kept, 1, n)
    BY <1>6
  <2> QED
    BY <2>1, <2>2
<1>9. Len(new.messages) <= MaxJobMessages /\ IsInjective(new.messages)
  <2>1. DOMAIN new.messages = 1..n /\ DOMAIN kept = 1..Len(kept)
    BY <1>5, <1>8
  <2>2. \A i \in 1..n : i \in 1..Len(kept)
    BY ONLY <1>7
  <2> QED
    BY <1>5, <1>7, <1>8, <2>1, <2>2 DEF IsInjective
<1>10. new.pages <= MaxJobPages /\ (new.continuable => new.pages < MaxJobPages)
  <2>1. new.pages <= MaxJobPages
    <3>1. row.pages < MaxJobPages /\ new.pages = row.pages + 1
      BY <1>1, <1>6
    <3> QED
      BY ONLY <1>2, <1>7, <3>1
  <2>2. open => new.pages < MaxJobPages
    BY <1>6
  <2> HIDE DEF open
  <2> QED
    BY <1>6, <2>1, <2>2
<1>11. /\ new.status # "running" /\ (new.status = "completed" => ~new.continuable) /\ ~new.cancelled
  <2> HIDE DEF open
  <2> QED
    BY <1>1, <1>6
<1>12. ASSUME row.kind = "history" PROVE HistorySound(new)
  <2>1. page \in HistoryPages(row)
    BY <1>12 DEF Pages
  <2>2. PICK m \in 1..(Count + 1) :
          /\ kept = wanted(newest_first(m, Count))
          /\ (page.next = 0 /\ m = 1) \/ (page.next = m /\ m <= Count)
    BY <1>1, <1>12, <2>1, HistoryGrows DEF kept
  <2>3. page.deep = FALSE
    BY <1>1, <1>12, <2>1, HistoryGrows
  <2>4. m \in Nat \ {0} /\ m - 1 \in Nat /\ Count \in Nat /\ Count <= Count /\ 1 <= m /\ m <= Count + 1
        /\ 1 <= (m - 1) + 1 /\ m - 1 <= Count /\ 1 \in Nat \ {0}
    <3>1. m \in 1..(Count + 1) /\ Count \in Nat
      BY ResearchAssumption
    <3> QED
      BY ONLY <3>1
  <2> DEFINE all == wanted(newest_first(1, Count))  rest == wanted(newest_first(1, m - 1))
  <2>5. all = kept \o rest
    BY <2>2, <2>4, WantedJoin
  <2>6. rest \in Seq(1..Count)
    BY <2>4, WantedIs
  <2> HIDE DEF rest
  <2>7. IsPrefix(new.messages, all)
    BY <1>5, <1>6, <1>7, <2>5, <2>6, BeginningOf
  <2>8. n = Len(kept) => new.messages = kept
    BY <1>5, <1>8, SameSequence
  <2>9. CASE new.status = "partial" /\ ~new.continuable /\ new.cursor = 0
    <3>1. new.cursor <= Count /\ ~(new.cursor > 0)
      BY <2>4, <2>9
    <3> QED
      BY <2>7, <2>9, <3>1 DEF HistorySound
  <2>10. CASE new.status = "partial" /\ new.cursor = page.next /\ page.next # 0 /\ Len(kept) <= MaxJobMessages
    <3>1. new.cursor = m /\ m <= Count /\ m # 0
      BY <2>2, <2>4, <2>10
    <3>2. page_before(new) = m
      BY <3>1 DEF page_before
    <3>3. new.messages = kept
      BY <1>7, <2>8, <2>10
    <3> QED
      BY <2>2, <2>7, <2>10, <3>1, <3>2, <3>3 DEF HistorySound
  <2>11. CASE /\ new.status = "completed" /\ ~new.continuable /\ new.cursor = 0 /\ page.next = 0
              /\ Len(kept) <= MaxJobMessages
    <3>1. m = 1
      BY <2>2, <2>4, <2>11
    <3>2. new.messages = kept /\ new.cursor <= Count /\ ~(new.cursor > 0)
      BY <1>7, <2>4, <2>8, <2>11
    <3> QED
      BY <2>2, <2>7, <2>11, <3>1, <3>2 DEF HistorySound
  <2> QED
    BY <1>6, <2>3, <2>9, <2>10, <2>11
<1>13. RowSound(new)
  BY <1>6, <1>9, <1>10, <1>11, <1>12 DEF RowSound
<1> QED
  BY <1>6, <1>11, <1>13 DEF new

JobHands == [stage : {"idle", "reading", "failed"}, job : Jobs \cup {0}, same : BOOLEAN]

\* Rows that differ in their lease, their error or their time are as sound as each other.
LEMMA AsSound ==
  ASSUME NEW row, NEW new, RowSound(row),
         new.kind = row.kind, new.cursor = row.cursor, new.messages = row.messages, new.pages = row.pages,
         new.continuable = row.continuable, new.cancelled = row.cancelled, new.status = row.status
  PROVE  RowSound(new)
<1>1. page_before(new) = page_before(row)
  BY DEF page_before
<1>2. HistorySound(row) => HistorySound(new)
  BY <1>1 DEF HistorySound
<1> QED
  BY <1>2 DEF RowSound

\* An update of a row by whoever may make it.
LEMMA UpdateKeeps ==
  ASSUME ResearchInv, NEW j \in Jobs, NEW row \in JobRows, RowSound(row),
         NEW held \in [Workers -> JobHands], \A w \in Workers : held[w] = hands[w] \/ held[w] = Idle,
         Update(j, row, held),
         jobs[j].cancelled => row.status = "cancelled" /\ row.messages = jobs[j].messages
  PROVE  ResearchInv' /\ CancelledStaysCancelled
<1> DEFINE new == [row EXCEPT !.recent = TRUE]
<1>1. /\ jobs \in [Jobs -> JobRows] /\ \A i \in Jobs : RowSound(jobs[i])
      /\ \A w \in Workers :
           /\ hands[w].stage # "idle" => hands[w].job \in Jobs
           /\ hands[w].same => /\ hands[w].job \in Jobs /\ jobs[hands[w].job].status = "running"
                               /\ jobs[hands[w].job].owner = w
  BY DEF ResearchInv
<1>2. /\ new \in JobRows /\ new.kind = row.kind /\ new.cursor = row.cursor /\ new.messages = row.messages
      /\ new.pages = row.pages /\ new.continuable = row.continuable /\ new.cancelled = row.cancelled
      /\ new.status = row.status
  BY DEF JobRows
<1>3. RowSound(new)
  BY <1>2, AsSound
<1>4. jobs' = [jobs EXCEPT ![j] = new]
  BY DEF Update
<1> HIDE DEF new
<1>5. /\ jobs' \in [Jobs -> JobRows] /\ jobs'[j] = new /\ \A i \in Jobs : i # j => jobs'[i] = jobs[i]
  BY <1>1, <1>2, <1>4
<1>6. hands' = [w \in Workers |-> IF held[w].job = j THEN [held[w] EXCEPT !.same = FALSE] ELSE held[w]]
  BY DEF Update, Moved
<1>7. ASSUME NEW w \in Workers
      PROVE  /\ hands'[w] \in JobHands /\ hands'[w].stage = held[w].stage /\ hands'[w].job = held[w].job
             /\ hands'[w].same => held[w].same /\ held[w].job # j
  <2>1. held[w] \in JobHands
    OBVIOUS
  <2>2. CASE held[w].job = j
    <3>1. hands'[w] = [held[w] EXCEPT !.same = FALSE]
      BY <1>6, <2>2
    <3> QED
      BY <2>1, <3>1 DEF JobHands
  <2>3. CASE held[w].job # j
    <3>1. hands'[w] = held[w]
      BY <1>6, <2>3
    <3> QED
      BY <2>1, <2>3, <3>1
  <2> QED
    BY <2>2, <2>3
<1>8. hands' \in [Workers -> JobHands]
  BY <1>6, <1>7
<1>9. ASSUME NEW w \in Workers
      PROVE  /\ hands'[w].stage # "idle" => hands'[w].job \in Jobs
             /\ hands'[w].same => /\ hands'[w].job \in Jobs /\ jobs'[hands'[w].job].status = "running"
                                  /\ jobs'[hands'[w].job].owner = w
  <2>1. CASE held[w] = hands[w]
    BY <1>1, <1>5, <1>7, <2>1
  <2>2. CASE held[w] = Idle
    <3>1. held[w].stage = "idle" /\ held[w].same = FALSE
      BY <2>2 DEF Idle
    <3> QED
      BY <1>7, <3>1
  <2> QED
    BY <2>1, <2>2
<1>10. \A i \in Jobs : RowSound(jobs'[i])
  BY <1>1, <1>3, <1>5
<1>11. ResearchInv'
  <2>1. ResearchInv' <=> /\ jobs' \in [Jobs -> JobRows] /\ hands' \in [Workers -> JobHands]
                         /\ \A w \in Workers :
                              /\ hands'[w].stage # "idle" => hands'[w].job \in Jobs
                              /\ hands'[w].same => /\ hands'[w].job \in Jobs
                                                   /\ jobs'[hands'[w].job].status = "running"
                                                   /\ jobs'[hands'[w].job].owner = w
                         /\ \A i \in Jobs : RowSound(jobs'[i])
    BY DEF ResearchInv, JobHands, RowSound, HistorySound, page_before
  <2> QED
    BY <1>5, <1>8, <1>9, <1>10, <2>1
<1>12. CancelledStaysCancelled
  <2>1. \A i \in Jobs : jobs[i].cancelled => jobs[i].status = "cancelled"
    BY <1>1 DEF RowSound
  <2> QED
    BY <1>2, <1>5, <2>1 DEF CancelledStaysCancelled
<1> QED
  BY <1>11, <1>12

\* Only the hands of workers move: to nothing, or from reading to failed.
LEMMA HandsKeep ==
  ASSUME ResearchInv, UNCHANGED jobs, hands' = [w \in Workers |-> hands'[w]],
         \A w \in Workers : \/ hands'[w] \in {hands[w], Idle}
                            \/ hands[w].stage = "reading" /\ hands'[w] = [hands[w] EXCEPT !.stage = "failed"]
  PROVE  ResearchInv' /\ CancelledStaysCancelled
<1>1. /\ jobs \in [Jobs -> JobRows] /\ \A i \in Jobs : RowSound(jobs[i])
      /\ hands \in [Workers -> JobHands]
      /\ \A w \in Workers :
           /\ hands[w].stage # "idle" => hands[w].job \in Jobs
           /\ hands[w].same => /\ hands[w].job \in Jobs /\ jobs[hands[w].job].status = "running"
                               /\ jobs[hands[w].job].owner = w
  BY DEF ResearchInv, JobHands
<1>2. ASSUME NEW w \in Workers
      PROVE  /\ hands'[w] \in JobHands
             /\ hands'[w].stage # "idle" => hands'[w].job \in Jobs
             /\ hands'[w].same => /\ hands'[w].job \in Jobs /\ jobs[hands'[w].job].status = "running"
                                  /\ jobs[hands'[w].job].owner = w
  <2>1. hands[w] \in JobHands
    BY <1>1
  <2>2. CASE hands'[w] = hands[w]
    BY <1>1, <2>1, <2>2
  <2>3. CASE hands'[w] = Idle
    BY <2>3 DEF Idle, JobHands
  <2>4. CASE hands[w].stage = "reading" /\ hands'[w] = [hands[w] EXCEPT !.stage = "failed"]
    <3>1. hands'[w] \in JobHands /\ hands'[w].job = hands[w].job /\ hands'[w].same = hands[w].same
      BY <2>1, <2>4 DEF JobHands
    <3> QED
      BY <1>1, <2>4, <3>1
  <2> QED
    BY <2>2, <2>3, <2>4
<1>3. hands' \in [Workers -> JobHands]
  BY <1>2
<1>4. ResearchInv'
  BY <1>1, <1>2, <1>3 DEF ResearchInv, JobHands, RowSound, HistorySound, page_before
<1>5. CancelledStaysCancelled
  BY <1>1 DEF RowSound, CancelledStaysCancelled
<1> QED
  BY <1>4, <1>5

\* The clock moves a row's lease or its time.
LEMMA FlagsKeep ==
  ASSUME ResearchInv, NEW j \in Jobs, LeaseEnds(j) \/ RetryTimePasses(j)
  PROVE  ResearchInv' /\ CancelledStaysCancelled
<1>1. /\ jobs \in [Jobs -> JobRows] /\ \A i \in Jobs : RowSound(jobs[i])
      /\ hands \in [Workers -> JobHands] /\ hands' = hands
      /\ \A w \in Workers :
           /\ hands[w].stage # "idle" => hands[w].job \in Jobs
           /\ hands[w].same => /\ hands[w].job \in Jobs /\ jobs[hands[w].job].status = "running"
                               /\ jobs[hands[w].job].owner = w
  BY DEF ResearchInv, JobHands, LeaseEnds, RetryTimePasses
<1> DEFINE new == jobs'[j]
<1>2. jobs' = [jobs EXCEPT ![j] = new]
      /\ new \in {[jobs[j] EXCEPT !.live = FALSE], [jobs[j] EXCEPT !.recent = FALSE]}
  BY <1>1 DEF LeaseEnds, RetryTimePasses
<1> HIDE DEF new
<1>3. jobs[j] \in JobRows
  BY <1>1
<1>4. /\ new \in JobRows /\ new.kind = jobs[j].kind /\ new.cursor = jobs[j].cursor
      /\ new.messages = jobs[j].messages /\ new.pages = jobs[j].pages
      /\ new.continuable = jobs[j].continuable /\ new.cancelled = jobs[j].cancelled
      /\ new.status = jobs[j].status /\ new.owner = jobs[j].owner
  BY <1>2, <1>3 DEF JobRows
<1>5. RowSound(new)
  BY <1>1, <1>4, AsSound
<1>6. /\ jobs' \in [Jobs -> JobRows] /\ jobs'[j] = new /\ \A i \in Jobs : i # j => jobs'[i] = jobs[i]
  BY <1>1, <1>2, <1>4
<1>7. \A i \in Jobs : RowSound(jobs'[i])
  BY <1>1, <1>5, <1>6
<1>8. \A w \in Workers : hands[w].same => /\ hands[w].job \in Jobs /\ jobs'[hands[w].job].status = "running"
                                          /\ jobs'[hands[w].job].owner = w
  BY <1>1, <1>4, <1>6
<1>9. ResearchInv'
  BY <1>1, <1>6, <1>7, <1>8 DEF ResearchInv, JobHands, RowSound, HistorySound, page_before
<1>10. CancelledStaysCancelled
  <2>1. \A i \in Jobs : jobs[i].cancelled => jobs[i].status = "cancelled"
    BY <1>1 DEF RowSound
  <2> QED
    BY <1>4, <1>6, <2>1 DEF CancelledStaysCancelled
<1> QED
  BY <1>9, <1>10

\* A job that nobody looked at for long goes.
LEMMA ExpireKeeps ==
  ASSUME ResearchInv, NEW j \in Jobs, Expire(j)
  PROVE  ResearchInv' /\ CancelledStaysCancelled
<1>1. /\ jobs \in [Jobs -> JobRows] /\ \A i \in Jobs : RowSound(jobs[i])
      /\ hands \in [Workers -> JobHands] /\ hands' = hands
      /\ \A w \in Workers :
           /\ hands[w].job # j
           /\ hands[w].stage # "idle" => hands[w].job \in Jobs
           /\ hands[w].same => /\ hands[w].job \in Jobs /\ jobs[hands[w].job].status = "running"
                               /\ jobs[hands[w].job].owner = w
  BY DEF ResearchInv, JobHands, Expire
<1>2. jobs' = [jobs EXCEPT ![j] = Gone]
  BY DEF Expire
<1>3. Gone \in JobRows /\ RowSound(Gone)
  <2>1. <<>> \in Seq(1..Count) /\ Len(<<>>) = 0 /\ DOMAIN <<>> = {}
    OBVIOUS
  <2>2. IsInjective(<<>>)
    BY <2>1 DEF IsInjective
  <2>3. 0 <= MaxJobPages /\ 0 <= MaxJobMessages
    BY ResearchAssumption
  <2> QED
    BY <2>1, <2>2, <2>3 DEF Gone, NoJob, JobRows, Statuses, RowSound
<1>4. /\ jobs' \in [Jobs -> JobRows] /\ jobs'[j] = Gone /\ \A i \in Jobs : i # j => jobs'[i] = jobs[i]
  BY <1>1, <1>2, <1>3
<1>5. \A i \in Jobs : RowSound(jobs'[i])
  BY <1>1, <1>3, <1>4
<1>6. \A w \in Workers : hands[w].same => /\ hands[w].job \in Jobs /\ jobs'[hands[w].job].status = "running"
                                          /\ jobs'[hands[w].job].owner = w
  BY <1>1, <1>4
<1>7. ResearchInv'
  BY <1>1, <1>4, <1>5, <1>6 DEF ResearchInv, JobHands, RowSound, HistorySound, page_before
<1>8. CancelledStaysCancelled
  <2>1. \A i \in Jobs : jobs[i].cancelled => jobs[i].status = "cancelled"
    BY <1>1 DEF RowSound
  <2> QED
    BY <1>4, <2>1 DEF CancelledStaysCancelled
<1> QED
  BY <1>7, <1>8

\* Put(j, row): the row moves on, and no worker holds its version.
LEMMA PutKeeps ==
  ASSUME ResearchInv, NEW j \in Jobs, NEW row \in JobRows, RowSound(row), Put(j, row),
         jobs[j].cancelled => row.status = "cancelled" /\ row.messages = jobs[j].messages
  PROVE  ResearchInv' /\ CancelledStaysCancelled
<1>1. hands \in [Workers -> JobHands] /\ Update(j, row, hands)
  BY DEF ResearchInv, JobHands, Put
<1> QED
  BY <1>1, UpdateKeeps

\* PutBy(w, j, row): so it does by a worker that lets go of it.
LEMMA PutByKeeps ==
  ASSUME ResearchInv, NEW w \in Workers, NEW j \in Jobs, NEW row \in JobRows, RowSound(row), PutBy(w, j, row),
         jobs[j].cancelled => row.status = "cancelled" /\ row.messages = jobs[j].messages
  PROVE  ResearchInv' /\ CancelledStaysCancelled
<1> DEFINE held == [hands EXCEPT ![w] = Idle]
<1>1. hands \in [Workers -> JobHands] /\ Idle \in JobHands
  BY DEF ResearchInv, JobHands, Idle
<1>2. /\ held \in [Workers -> JobHands] /\ \A v \in Workers : held[v] = hands[v] \/ held[v] = Idle
      /\ Update(j, row, held)
  BY <1>1 DEF PutBy
<1> HIDE DEF held
<1> QED
  BY <1>2, UpdateKeeps

\* A job that is cancelled, however it comes to be.
LEMMA CancelledSound ==
  ASSUME NEW row \in JobRows, RowSound(row), NEW new,
         \/ new = Unleased([row EXCEPT !.status = "cancelled", !.continuable = FALSE])
         \/ new = Unleased([row EXCEPT !.status = "cancelled", !.continuable = FALSE, !.cancelled = TRUE])
  PROVE  new \in JobRows /\ RowSound(new) /\ new.status = "cancelled" /\ new.messages = row.messages
<1>1. /\ new \in JobRows /\ new.status = "cancelled" /\ new.continuable = FALSE
      /\ new.kind = row.kind /\ new.cursor = row.cursor /\ new.messages = row.messages
      /\ new.pages = row.pages
  BY DEF JobRows, Unleased, Statuses
<1>2. HistorySound(row) => HistorySound(new)
  BY <1>1 DEF HistorySound
<1> QED
  BY <1>1, <1>2 DEF RowSound

\* A claim makes the job the worker's own, or finds it cancelled, over or busy.
LEMMA ClaimKeeps ==
  ASSUME ResearchInv, NEW w \in Workers, NEW j, Claim(w, j)
  PROVE  ResearchInv' /\ CancelledStaysCancelled
<1>1. /\ jobs \in [Jobs -> JobRows] /\ \A i \in Jobs : RowSound(jobs[i])
      /\ hands \in [Workers -> JobHands]
      /\ \A v \in Workers :
           /\ hands[v].stage # "idle" => hands[v].job \in Jobs
           /\ hands[v].same => /\ hands[v].job \in Jobs /\ jobs[hands[v].job].status = "running"
                               /\ jobs[hands[v].job].owner = v
  BY DEF ResearchInv, JobHands
<1>2. CASE UNCHANGED <<jobs, hands>>
  <2>1. hands' = [v \in Workers |-> hands'[v]]
        /\ UNCHANGED jobs /\ \A v \in Workers : hands'[v] \in {hands[v], Idle}
    BY <1>1, <1>2
  <2> QED
    BY <2>1, HandsKeep
<1>3. CASE j \in Stored /\ (jobs[j].cancelled \/ jobs[j].status = "cancelled")
  <2> DEFINE new == Unleased([jobs[j] EXCEPT !.status = "cancelled", !.continuable = FALSE])
  <2>1. j \in Jobs /\ Put(j, new)
    BY <1>3 DEF Claim, Stored
  <2> DEFINE row == jobs[j]
  <2>3. row \in JobRows /\ RowSound(row)
    BY <1>1, <2>1
  <2>4. new = Unleased([row EXCEPT !.status = "cancelled", !.continuable = FALSE])
    OBVIOUS
  <2> HIDE DEF new, row
  <2>5. new \in JobRows /\ RowSound(new) /\ new.status = "cancelled" /\ new.messages = row.messages
    BY ONLY <2>3, <2>4, CancelledSound
  <2>2. new \in JobRows /\ RowSound(new) /\ new.status = "cancelled" /\ new.messages = jobs[j].messages
    BY <2>5 DEF row
  <2> QED
    BY <2>1, <2>2, PutKeeps
<1>4. CASE /\ j \in Stored /\ ~(jobs[j].cancelled \/ jobs[j].status = "cancelled")
           /\ ~(~jobs[j].continuable \/ (jobs[j].status = "running" /\ jobs[j].live))
  <2> DEFINE row == jobs[j]
             new == [row EXCEPT !.status = "running", !.owner = w, !.live = TRUE, !.recent = TRUE]
             mine == [stage |-> "reading", job |-> j, same |-> TRUE]
  <2>1. j \in Jobs /\ row \in JobRows /\ RowSound(row) /\ row.continuable /\ ~row.cancelled
    BY <1>1, <1>4 DEF Stored
  <2>2. jobs' = [jobs EXCEPT ![j] = new] /\ hands' = [Moved(j, hands) EXCEPT ![w] = mine]
    BY <1>4 DEF Claim
  <2>3. /\ new \in JobRows /\ new.status = "running" /\ new.owner = w
        /\ new.kind = row.kind /\ new.cursor = row.cursor /\ new.messages = row.messages
        /\ new.pages = row.pages /\ new.continuable = row.continuable /\ new.cancelled = row.cancelled
    BY <2>1 DEF JobRows, Statuses
  <2>4. mine \in JobHands /\ mine.job = j /\ mine.stage = "reading" /\ mine.same = TRUE
    BY <2>1 DEF JobHands
  <2> HIDE DEF row, new, mine
  <2>5. page_before(new) = page_before(row)
    BY <2>3 DEF page_before
  <2>6. HistorySound(row) => HistorySound(new)
    BY <2>3, <2>5 DEF HistorySound
  <2>7. RowSound(new)
    BY <2>1, <2>3, <2>6 DEF RowSound
  <2>8. /\ jobs' \in [Jobs -> JobRows] /\ jobs'[j] = new /\ \A i \in Jobs : i # j => jobs'[i] = jobs[i]
    BY <1>1, <2>1, <2>2, <2>3
  <2>9. Moved(j, hands) = [v \in Workers |-> IF hands[v].job = j THEN [hands[v] EXCEPT !.same = FALSE]
                                                ELSE hands[v]]
    BY DEF Moved
  <2>10. hands' = [v \in Workers |-> IF v = w THEN mine
                                     ELSE IF hands[v].job = j THEN [hands[v] EXCEPT !.same = FALSE]
                                     ELSE hands[v]]
    BY <2>2, <2>9
  <2>11. ASSUME NEW v \in Workers
         PROVE  /\ hands'[v] \in JobHands
                /\ hands'[v].stage # "idle" => hands'[v].job \in Jobs
                /\ hands'[v].same => /\ hands'[v].job \in Jobs /\ jobs'[hands'[v].job].status = "running"
                                     /\ jobs'[hands'[v].job].owner = v
    <3>1. hands[v] \in JobHands
      BY <1>1
    <3>2. CASE v = w
      <4>1. hands'[v] = mine
        BY <2>10, <3>2
      <4> QED
        BY <2>1, <2>3, <2>4, <2>8, <3>2, <4>1
    <3>3. CASE v # w /\ hands[v].job = j
      <4>1. hands'[v] = [hands[v] EXCEPT !.same = FALSE]
        BY <2>10, <3>3
      <4> QED
        BY <1>1, <3>1, <4>1 DEF JobHands
    <3>4. CASE v # w /\ hands[v].job # j
      <4>1. hands'[v] = hands[v]
        BY <2>10, <3>4
      <4> QED
        BY <1>1, <2>8, <3>1, <3>4, <4>1
    <3> QED
      BY <3>2, <3>3, <3>4
  <2>12. hands' \in [Workers -> JobHands]
    BY <2>10, <2>11
  <2>13. \A i \in Jobs : RowSound(jobs'[i])
    BY <1>1, <2>7, <2>8
  <2>14. ResearchInv'
    BY <2>8, <2>11, <2>12, <2>13 DEF ResearchInv, JobHands, RowSound, HistorySound, page_before
  <2>15. CancelledStaysCancelled
    <3>1. \A i \in Jobs : jobs[i].cancelled => jobs[i].status = "cancelled" /\ i # j
      BY <1>1, <2>1 DEF RowSound, row
    <3> QED
      BY <2>8, <3>1 DEF CancelledStaysCancelled
  <2> QED
    BY <2>14, <2>15
<1> QED
  BY <1>2, <1>3, <1>4 DEF Claim

\* A job that was just asked for is sound: nothing is read, and nothing was to be read yet.
LEMMA CreatedSound ==
  ASSUME NEW kind \in {"history", "search"}, NEW new,
         new = [NoJob EXCEPT !.kind = kind, !.status = "queued", !.continuable = TRUE]
  PROVE  new \in JobRows /\ RowSound(new)
<1> DEFINE all == wanted(newest_first(1, Count))
           none == wanted(newest_first(Count + 1, Count))
<1>1. /\ Count \in Nat /\ MaxJobPages \in Nat \ {0} /\ MaxJobMessages \in Nat \ {0}
  BY ResearchAssumption
<1>2. <<>> \in Seq(1..Count) /\ Len(<<>>) = 0 /\ DOMAIN <<>> = {}
  OBVIOUS
<1>3. /\ new \in JobRows /\ new.kind = kind /\ new.status = "queued" /\ new.continuable = TRUE
      /\ new.cursor = 0 /\ new.messages = <<>> /\ new.pages = 0 /\ new.cancelled = FALSE
  BY <1>2 DEF NoJob, JobRows, Statuses
<1>4. IsInjective(<<>>)
  BY <1>2 DEF IsInjective
<1>5. all \in Seq(1..Count)
  <2> DEFINE lo == 1
  <2>1. lo \in Nat \ {0} /\ Count \in Nat /\ lo <= Count + 1 /\ Count <= Count
    BY <1>1
  <2> HIDE DEF lo
  <2>2. wanted(newest_first(lo, Count)) \in Seq(1..Count)
    BY <2>1, WantedIs
  <2> QED
    BY <2>2 DEF lo
<1>6. none = <<>>
  <2> DEFINE lo == Count + 1
  <2>1. lo \in Nat \ {0} /\ Count \in Nat /\ lo <= Count + 1 /\ Count <= Count
    BY <1>1
  <2>2. \A x \in 1..Count : ~(lo <= x /\ x <= Count)
    BY <1>1
  <2> HIDE DEF lo
  <2>3. /\ wanted(newest_first(lo, Count)) \in Seq(1..Count)
        /\ \A i \in 1..Len(wanted(newest_first(lo, Count))) :
             lo <= wanted(newest_first(lo, Count))[i] /\ wanted(newest_first(lo, Count))[i] <= Count
    BY <2>1, WantedIs
  <2> DEFINE w == wanted(newest_first(lo, Count))
  <2>4. w \in Seq(1..Count) /\ \A i \in 1..Len(w) : lo <= w[i] /\ w[i] <= Count
    BY <2>3
  <2> HIDE DEF w
  <2>5. \A i \in 1..Len(w) : w[i] \in 1..Count
    BY <2>4, ElementIs
  <2>6. w = <<>>
    BY ONLY <2>2, <2>4, <2>5
  <2> QED
    BY <2>6 DEF w, lo
<1>7. IsPrefix(<<>>, all)
  <2> HIDE DEF all
  <2>1. IsPrefix(SubSeq(<<>>, 1, 0), <<>> \o all)
    <3>1. 0 \in Nat /\ 0 <= Len(<<>>)
      BY <1>2
    <3> QED
      BY <1>2, <1>5, <3>1, BeginningOf
  <2>2. SubSeq(<<>>, 1, 0) = <<>>
    OBVIOUS
  <2>3. <<>> \o all = all
    BY <1>5
  <2> QED
    BY <2>1, <2>2, <2>3
<1>8. page_before(new) = Count + 1
  BY <1>3 DEF page_before
<1> HIDE DEF all, none
<1>9. HistorySound(new)
  <2>1. new.cursor <= Count /\ ~(new.cursor > 0)
    BY <1>1, <1>3
  <2>2. new.messages = wanted(newest_first(page_before(new), Count))
    BY <1>3, <1>6, <1>8 DEF none
  <2>3. IsPrefix(new.messages, wanted(newest_first(1, Count)))
    BY <1>3, <1>7 DEF all
  <2> QED
    BY <1>3, <2>1, <2>2, <2>3 DEF HistorySound
<1>10. new.pages <= MaxJobPages /\ Len(new.messages) <= MaxJobMessages /\ new.pages < MaxJobPages
  BY <1>1, <1>2, <1>3
<1> QED
  BY <1>3, <1>4, <1>9, <1>10 DEF RowSound

\* What the job's creation, its cancellation and a reading of it do.
LEMMA MembersKeep ==
  ASSUME ResearchInv, NEW j \in Jobs, CreateJob(j) \/ CancelJob(j) \/ Touch(j)
  PROVE  ResearchInv' /\ CancelledStaysCancelled
<1> DEFINE row == jobs[j]
<1>1. row \in JobRows /\ RowSound(row) /\ (row.cancelled => row.status = "cancelled")
  BY DEF ResearchInv, RowSound
<1>2. CASE CreateJob(j)
  <2>1. PICK kind \in {"history", "search"} :
          Put(j, [NoJob EXCEPT !.kind = kind, !.status = "queued", !.continuable = TRUE])
    BY <1>2 DEF CreateJob
  <2> DEFINE new == [NoJob EXCEPT !.kind = kind, !.status = "queued", !.continuable = TRUE]
  <2>2. new \in JobRows /\ RowSound(new)
    <3>1. new = [NoJob EXCEPT !.kind = kind, !.status = "queued", !.continuable = TRUE]
      OBVIOUS
    <3> HIDE DEF new
    <3> QED
      BY ONLY <3>1, CreatedSound
  <2>3. ~jobs[j].cancelled
    BY <1>2 DEF CreateJob, NoJob
  <2>4. Put(j, new)
    BY <2>1
  <2> HIDE DEF new
  <2> QED
    BY <2>2, <2>3, <2>4, PutKeeps
<1>3. CASE CancelJob(j)
  <2> DEFINE new == cancelled(row)
  <2>1. new = Unleased([row EXCEPT !.status = "cancelled", !.continuable = FALSE, !.cancelled = TRUE])
    BY DEF cancelled
  <2>2. Put(j, new)
    BY <1>3 DEF CancelJob
  <2> HIDE DEF new, row
  <2>3. new \in JobRows /\ RowSound(new) /\ new.status = "cancelled" /\ new.messages = row.messages
    BY ONLY <1>1, <2>1, CancelledSound
  <2> QED
    BY <2>2, <2>3, PutKeeps DEF row
<1>4. CASE Touch(j)
  <2>1. Put(j, row)
    BY <1>4 DEF Touch
  <2> QED
    BY <1>1, <2>1, PutKeeps
<1> QED
  BY <1>2, <1>3, <1>4

\* A worker that lets go of its page, or fails at it, changes no job.
LEMMA LetGoKeeps ==
  ASSUME ResearchInv, NEW w \in Workers, UNCHANGED jobs, Drops(w) \/ (Fails(w) /\ hands[w].stage = "reading")
  PROVE  ResearchInv' /\ CancelledStaysCancelled
<1>1. hands \in [Workers -> JobHands]
  BY DEF ResearchInv, JobHands
<1>2. CASE Drops(w)
  <2>1. hands' = [hands EXCEPT ![w] = Idle]
    BY <1>2 DEF Drops
  <2>2. hands' = [v \in Workers |-> hands'[v]] /\ \A v \in Workers : hands'[v] \in {hands[v], Idle}
    BY <1>1, <2>1
  <2> QED
    BY <2>2, HandsKeep
<1>3. CASE Fails(w) /\ hands[w].stage = "reading"
  <2>1. hands' = [hands EXCEPT ![w] = [hands[w] EXCEPT !.stage = "failed"]] /\ hands[w].stage = "reading"
    BY <1>1, <1>3 DEF Fails
  <2>2. /\ hands' = [v \in Workers |-> hands'[v]]
        /\ \A v \in Workers : \/ hands'[v] \in {hands[v], Idle}
                              \/ hands[v].stage = "reading" /\ hands'[v] = [hands[v] EXCEPT !.stage = "failed"]
    BY <1>1, <2>1
  <2> QED
    BY <2>2, HandsKeep
<1> QED
  BY <1>2, <1>3

\* A page is stored: the row goes on, or the worker finds that it is no more its own.
LEMMA CheckpointKeeps ==
  ASSUME ResearchInv, NEW w \in Workers, Checkpoint(w)
  PROVE  ResearchInv' /\ CancelledStaysCancelled
<1> DEFINE j == hands[w].job
           row == jobs[j]
<1>1. hands[w].stage = "reading" /\ j \in Jobs
  BY DEF Checkpoint, ResearchInv
<1>2. row \in JobRows /\ RowSound(row) /\ (row.cancelled => row.status = "cancelled")
      /\ (row.cancelled => row.status # "running")
  BY <1>1 DEF ResearchInv, RowSound
<1>3. CASE j \in Stored /\ row.cancelled
  <2> DEFINE new == Unleased([row EXCEPT !.status = "cancelled", !.continuable = FALSE])
  <2>1. PutBy(w, j, new)
    BY <1>3 DEF Checkpoint
  <2>2. new = Unleased([row EXCEPT !.status = "cancelled", !.continuable = FALSE])
    OBVIOUS
  <2> HIDE DEF new, row
  <2>3. new \in JobRows /\ RowSound(new) /\ new.status = "cancelled" /\ new.messages = row.messages
    BY ONLY <1>2, <2>2, CancelledSound
  <2> HIDE DEF j
  <2> QED
    BY <1>1, <2>1, <2>3, PutByKeeps DEF row
<1>4. CASE ~(j \in Stored /\ row.cancelled) /\ still_held(w, row)
  <2>1. row.status = "running" /\ ~row.cancelled
    BY <1>2, <1>4 DEF still_held
  <2>2. PICK page \in Pages(row) : PutBy(w, j, Advanced(row, page))
    BY <1>4 DEF Checkpoint
  <2> DEFINE new == Advanced(row, page)
  <2>3. new \in JobRows /\ RowSound(new)
    <3>1. page \in Pages(row)
      OBVIOUS
    <3> HIDE DEF row
    <3> QED
      BY ONLY <1>2, <2>1, <3>1, AdvancedSound DEF new
  <2>4. PutBy(w, j, new) /\ ~jobs[j].cancelled
    BY <2>1, <2>2
  <2> HIDE DEF new, row, j
  <2> QED
    BY <1>1, <2>3, <2>4, PutByKeeps
<1>5. CASE ~(j \in Stored /\ row.cancelled) /\ ~still_held(w, row)
  <2>1. Fails(w) /\ UNCHANGED jobs
    BY <1>5 DEF Checkpoint
  <2> QED
    BY <1>1, <2>1, LetGoKeeps
<1> QED
  BY <1>3, <1>4, <1>5

\* A page that failed: the row may be claimed again, by whoever still has it.
LEMMA ReleaseKeeps ==
  ASSUME ResearchInv, NEW w \in Workers, Release(w)
  PROVE  ResearchInv' /\ CancelledStaysCancelled
<1> DEFINE j == hands[w].job
           row == jobs[j]
<1>1. hands[w].stage = "failed" /\ j \in Jobs
  BY DEF Release, ResearchInv
<1>2. row \in JobRows /\ RowSound(row)
  BY <1>1 DEF ResearchInv
<1>3. CASE may_release(w, row)
  <2> DEFINE new == [Unleased(row) EXCEPT !.error = TRUE, !.status = IF row.pages > 0 THEN "partial" ELSE "queued"]
  <2>1. PutBy(w, j, new)
    BY <1>3 DEF Release
  <2>2. row.status = "running" /\ ~row.cancelled
    <3>1. row.status = "running"
      BY <1>3 DEF may_release, ResearchInv
    <3> QED
      BY <1>2, <3>1 DEF RowSound
  <2>3. /\ new \in JobRows /\ new.status \in {"partial", "queued"} /\ new.kind = row.kind
        /\ new.cursor = row.cursor /\ new.messages = row.messages /\ new.pages = row.pages
        /\ new.continuable = row.continuable /\ new.cancelled = row.cancelled
    <3> HIDE DEF row
    <3> QED
      BY <1>2 DEF JobRows, Statuses, Unleased
  <2> HIDE DEF new, row
  <2>4. page_before(new) = page_before(row)
    BY <2>3 DEF page_before
  <2>5. HistorySound(row) => HistorySound(new)
    BY <2>3, <2>4 DEF HistorySound
  <2>6. RowSound(new)
    BY <1>2, <2>2, <2>3, <2>5 DEF RowSound
  <2>7. ~jobs[j].cancelled
    BY <2>2 DEF row
  <2>8. new \in JobRows
    BY <2>3
  <2> HIDE DEF j
  <2> QED
    BY <1>1, <2>1, <2>6, <2>7, <2>8, PutByKeeps
<1>4. CASE ~may_release(w, row)
  <2>1. Drops(w) /\ UNCHANGED jobs
    BY <1>4 DEF Release
  <2> QED
    BY <2>1, LetGoKeeps
<1> QED
  BY <1>3, <1>4

\* Init: nobody asked for anything.
LEMMA ResearchStarts == ASSUME ResearchInit PROVE ResearchInv
<1>1. <<>> \in Seq(1..Count) /\ Len(<<>>) = 0 /\ DOMAIN <<>> = {}
  OBVIOUS
<1>2. IsInjective(<<>>)
  BY <1>1 DEF IsInjective
<1>3. 0 <= MaxJobPages /\ 0 <= MaxJobMessages /\ ~(0 > 0) /\ 0 <= Count
  BY ResearchAssumption
<1>4. NoJob \in JobRows
  BY <1>1 DEF NoJob, JobRows, Statuses
<1>5. RowSound(NoJob)
  BY <1>1, <1>2, <1>3 DEF NoJob, RowSound
<1>6. Idle \in [stage : {"idle", "reading", "failed"}, job : Jobs \cup {0}, same : BOOLEAN]
      /\ Idle.stage = "idle" /\ Idle.same = FALSE
  BY DEF Idle
<1> QED
  BY <1>4, <1>5, <1>6 DEF ResearchInit, ResearchInv

\* The invariant says that jobs stay readable and histories have no hole.
LEMMA SoundMeansKept == ResearchInv => JobsStayReadable /\ HistoryHasNoHoles
  BY DEF ResearchInv, RowSound, HistorySound, JobsStayReadable, HistoryHasNoHoles, Stored

\* Every step keeps the invariant, and a cancelled job cancelled.
LEMMA ResearchKept ==
  ASSUME ResearchInv, ResearchNext
  PROVE  ResearchInv' /\ CancelledStaysCancelled
<1>1. hands \in [Workers -> JobHands] /\ runner \in Workers
  BY ResearchAssumption DEF ResearchInv, JobHands
<1>2. ASSUME UNCHANGED <<jobs, hands>>
      PROVE  ResearchInv' /\ CancelledStaysCancelled
  <2>1. hands' = [v \in Workers |-> hands'[v]]
      /\ UNCHANGED jobs /\ \A v \in Workers : hands'[v] \in {hands[v], Idle}
    BY <1>1, <1>2
  <2> QED
    BY <2>1, HandsKeep
<1>3. CASE Scan
  BY <1>2, <1>3 DEF Scan
<1>4. CASE TakeScope
  <2>1. Claim(runner, Head(queue)) \/ UNCHANGED <<jobs, hands>>
    BY <1>4 DEF TakeScope
  <2> QED
    BY <1>1, <1>2, <2>1, ClaimKeeps
<1>5. CASE RestartJobs
  <2>1. hands' = [v \in Workers |-> Idle] /\ UNCHANGED jobs
    BY <1>5 DEF RestartJobs
  <2>2. hands' = [v \in Workers |-> hands'[v]] /\ \A v \in Workers : hands'[v] \in {hands[v], Idle}
    BY <2>1
  <2> QED
    BY <2>1, <2>2, HandsKeep
<1>6. ASSUME NEW w \in Workers, Continue(w)
      PROVE  ResearchInv' /\ CancelledStaysCancelled
  <2>1. PICK j \in Stored : Claim(w, j)
    BY <1>6 DEF Continue
  <2> QED
    BY <2>1, ClaimKeeps
<1>7. ASSUME NEW w \in Workers, PageStep(w)
      PROVE  ResearchInv' /\ CancelledStaysCancelled
  BY <1>7, CheckpointKeeps, ReleaseKeeps DEF PageStep
<1>8. ASSUME NEW w \in Workers, PageFails(w) \/ Abandon(w)
      PROVE  ResearchInv' /\ CancelledStaysCancelled
  <2>1. UNCHANGED jobs /\ (Drops(w) \/ (Fails(w) /\ hands[w].stage = "reading"))
    BY <1>8 DEF PageFails, Abandon
  <2> QED
    BY <2>1, LetGoKeeps
<1>9. ASSUME NEW j \in Jobs, CreateJob(j) \/ CancelJob(j) \/ Touch(j)
      PROVE  ResearchInv' /\ CancelledStaysCancelled
  BY <1>9, MembersKeep
<1>10. ASSUME NEW j \in Jobs, LeaseEnds(j) \/ RetryTimePasses(j)
       PROVE  ResearchInv' /\ CancelledStaysCancelled
  BY <1>10, FlagsKeep
<1>11. ASSUME NEW j \in Jobs, Expire(j)
       PROVE  ResearchInv' /\ CancelledStaysCancelled
  BY <1>11, ExpireKeeps
<1> QED
  BY <1>3, <1>4, <1>5, <1>6, <1>7, <1>8, <1>9, <1>10, <1>11 DEF ResearchNext

\* ResearchLosesNothing: whatever runs, retries, lapses or is cancelled between a claim
\* and its page, a job stays within its budget and holds no message twice, a history holds
\* the newest of the wanted messages without a hole and every one once it is complete, and a
\* cancelled job stays so.
THEOREM ResearchKeepsAll == ResearchSpec => ResearchLosesNothing
<1>1. ResearchInv /\ UNCHANGED researchVars => ResearchInv'
  BY DEF researchVars, ResearchInv, RowSound, HistorySound, page_before
<1>2. ResearchInv' => (JobsStayReadable /\ HistoryHasNoHoles)'
  BY SoundMeansKept, PTL
<1>3. ResearchInv /\ ResearchNext => ResearchInv' /\ CancelledStaysCancelled
  BY ResearchKept
<1>4. ResearchInit => ResearchInv
  BY ResearchStarts
<1> QED
  BY <1>1, <1>2, <1>3, <1>4, PTL DEF ResearchSpec, ResearchLosesNothing

-----------------------------------------------------------------------------
(* ResearchJobs: which lease belongs to which row, and what the runner goes through. *)

\* A lease belongs to a running job, and a finished job is not continued.
LeaseFits(row) ==
  /\ row.status = "running" <=> row.owner # "nobody"
  /\ row.live => row.status = "running"
  /\ row.status \in {"completed", "cancelled"} => ~row.continuable

\* The runner goes through jobs there are; so far finitely many were asked for.
ScanGoesOn ==
  /\ queue \in Seq(Jobs) /\ scanAfter \in Jobs \cup {0} /\ mishaps \in 0..MaxMishaps
  /\ IsFiniteSet(Stored) /\ Stored \subseteq Jobs
ResearchTypes == ResearchInv /\ ScanGoesOn /\ \A j \in Jobs : LeaseFits(jobs[j])

\* The members of a set up to one of them.
UpTo(S, x) == {y \in S : y <= x}

\* Finitely many ids come in their order: each at the place that counts those up to it.
LEMMA OrderedIs ==
  ASSUME NEW S \in SUBSET Nat, IsFiniteSet(S), NEW T, S \subseteq T
  PROVE  ordered(S) \in Seq(T)
<1> DEFINE n == Cardinality(S)
           rank == [x \in S |-> Cardinality(UpTo(S, x))]
           place == [i \in 1..n |-> CHOOSE x \in S : rank[x] = i]
<1>1. n \in Nat /\ IsFiniteSet(1..n) /\ Cardinality(1..n) = n
  BY FS_CardinalityType, FS_Interval
<1>2. \A x \in S : /\ IsFiniteSet(UpTo(S, x)) /\ Cardinality(UpTo(S, x)) \in 1..n
  <2> TAKE x \in S
  <2>1. UpTo(S, x) \in SUBSET S /\ x \in UpTo(S, x)
    BY DEF UpTo
  <2>2. IsFiniteSet(UpTo(S, x)) /\ Cardinality(UpTo(S, x)) <= n
    BY <2>1, FS_Subset
  <2>3. Cardinality(UpTo(S, x)) \in Nat /\ Cardinality(UpTo(S, x)) # 0
    BY <2>1, <2>2, FS_CardinalityType, FS_EmptySet
  <2> QED
    BY <1>1, <2>2, <2>3
<1>3. \A x, y \in S : x < y => rank[x] < rank[y]
  <2> SUFFICES ASSUME NEW x \in S, NEW y \in S, x < y PROVE rank[x] < rank[y]
    OBVIOUS
  <2> DEFINE A == UpTo(S, x)
             B == UpTo(S, y)
  <2>0. \A z \in S : z <= x => z <= y
    BY ONLY S \in SUBSET Nat, x \in S, y \in S, x < y
  <2>1. A \in SUBSET B /\ y \in B /\ y \notin A
    <3>1. \A z \in A : z \in B
      BY <2>0 DEF UpTo
    <3>2. y \in B /\ y \notin A
      BY ONLY S \in SUBSET Nat, x \in S, y \in S, x < y DEF UpTo, A, B
    <3> QED
      BY <3>1, <3>2
  <2>2. IsFiniteSet(B) /\ Cardinality(A) \in Int /\ Cardinality(B) \in Int
    BY <1>1, <1>2
  <2>3. rank[x] = Cardinality(A) /\ rank[y] = Cardinality(B)
    OBVIOUS
  <2> HIDE DEF A, B, rank
  <2>4. Cardinality(A) <= Cardinality(B) /\ Cardinality(A) # Cardinality(B)
    BY <2>1, <2>2, FS_Subset
  <2> QED
    BY <2>2, <2>3, <2>4
<1>4. rank \in [S -> 1..n] /\ \A x, y \in S : rank[x] = rank[y] => x = y
  <2>1. rank \in [S -> 1..n]
    <3> HIDE DEF n
    <3> QED
      BY <1>2
  <2>2. \A x, y \in S : rank[x] = rank[y] => x = y
    <3> SUFFICES ASSUME NEW x \in S, NEW y \in S, x # y PROVE rank[x] # rank[y]
      OBVIOUS
    <3>1. x < y \/ y < x
      OBVIOUS
    <3>2. rank[x] \in Nat /\ rank[y] \in Nat
      BY <2>1, <1>1
    <3> HIDE DEF rank
    <3> QED
      BY <1>3, <3>1, <3>2
  <2> QED
    BY <2>1, <2>2
<1> HIDE DEF rank
<1>5. \A i \in 1..n : \E x \in S : rank[x] = i
  <2>1. rank \in Injection(S, 1..n)
    BY <1>4 DEF Injection, IsInjective
  <2>2. rank \in Surjection(S, 1..n)
    BY <1>1, <2>1, FS_Injection
  <2> QED
    BY <2>2 DEF Surjection
<1>6. place \in [1..n -> S] /\ \A i \in 1..n : rank[place[i]] = i
  BY <1>5
<1> HIDE DEF place
<1>7. \A i, k \in DOMAIN place : i < k => place[i] < place[k]
  <2> SUFFICES ASSUME NEW i \in 1..n, NEW k \in 1..n, i < k PROVE place[i] < place[k]
    BY <1>6
  <2>1. place[i] \in Nat /\ place[k] \in Nat /\ rank[place[i]] = i /\ rank[place[k]] = k
    BY <1>6
  <2>2. ~(place[k] < place[i]) /\ place[k] # place[i]
    BY <1>1, <1>3, <1>6, <2>1
  <2> QED
    BY <2>1, <2>2
<1>8. ordered(S) \in [1..n -> S]
  BY <1>6, <1>7 DEF ordered
<1> HIDE DEF n
<1>9. ordered(S) \in [1..n -> T]
  BY <1>8
<1> QED
  BY <1>1, <1>9

\* The jobs of a scan are among those there are.
LEMMA ScopesAre ==
  ASSUME ResearchTypes, NEW after
  PROVE  claimable_scopes(after) \in Seq(Jobs)
<1> DEFINE S == {j \in Jobs : j > after /\ claimable(j)}
<1>1. S \in SUBSET Stored
  BY DEF claimable, Stored
<1>2. IsFiniteSet(S) /\ S \in SUBSET Nat /\ S \subseteq Jobs
  BY <1>1, FS_Subset, ResearchAssumption DEF ResearchTypes, ScanGoesOn
<1> DEFINE ids == ordered(S)
<1>3. ids \in Seq(Jobs)
  BY <1>2, OrderedIs
<1>4. claimable_scopes(after) = SubSeq(ids, 1, IF Len(ids) < WorkPerPoll THEN Len(ids) ELSE WorkPerPoll)
  BY DEF claimable_scopes
<1> HIDE DEF ids, S
<1> QED
  BY <1>3, <1>4, ResearchAssumption

\* A row that is written: at most one in a step, and its lease fits.
OneRow ==
  \/ UNCHANGED jobs
  \/ \E j \in Jobs : \E row \in JobRows : LeaseFits(row) /\ jobs' = [jobs EXCEPT ![j] = row]

LEMMA UpdateIsOne ==
  ASSUME NEW j \in Jobs, NEW row \in JobRows, LeaseFits(row), NEW held, Update(j, row, held)
  PROVE  OneRow
<1> DEFINE new == [row EXCEPT !.recent = TRUE]
<1>1. new \in JobRows /\ LeaseFits(new)
  BY DEF JobRows, LeaseFits
<1>2. jobs' = [jobs EXCEPT ![j] = new]
  BY DEF Update
<1> HIDE DEF new
<1> QED
  BY <1>1, <1>2 DEF OneRow

\* Nobody holds a row that is no longer leased.
LEMMA UnleasedFits ==
  ASSUME NEW row \in JobRows, row.status # "running",
         row.status \in {"completed", "cancelled"} => ~row.continuable
  PROVE  Unleased(row) \in JobRows /\ LeaseFits(Unleased(row))
BY DEF Unleased, JobRows, LeaseFits

LEMMA CancelledFits ==
  ASSUME NEW row \in JobRows
  PROVE  LET new == Unleased([row EXCEPT !.status = "cancelled", !.continuable = FALSE])
         IN  new \in JobRows /\ LeaseFits(new)
<1> DEFINE old == [row EXCEPT !.status = "cancelled", !.continuable = FALSE]
<1>1. old \in JobRows /\ old.status = "cancelled" /\ old.continuable = FALSE
  BY DEF JobRows, Statuses
<1> HIDE DEF old
<1>2. Unleased(old) \in JobRows /\ LeaseFits(Unleased(old))
  BY <1>1, UnleasedFits
<1> QED
  BY <1>2 DEF old

LEMMA ClaimIsOne ==
  ASSUME ResearchTypes, NEW w \in Workers, NEW j, Claim(w, j)
  PROVE  OneRow
<1>1. jobs \in [Jobs -> JobRows] /\ Stored \subseteq Jobs /\ \A i \in Jobs : LeaseFits(jobs[i]) /\ RowSound(jobs[i])
  BY DEF ResearchTypes, ResearchInv, ScanGoesOn
<1>2. CASE UNCHANGED jobs
  BY <1>2 DEF OneRow
<1>3. CASE j \in Stored /\ (jobs[j].cancelled \/ jobs[j].status = "cancelled")
  <2> DEFINE new == Unleased([jobs[j] EXCEPT !.status = "cancelled", !.continuable = FALSE])
  <2>1. j \in Jobs /\ Update(j, new, hands)
    BY <1>1, <1>3 DEF Claim, Put
  <2>2. new \in JobRows /\ LeaseFits(new)
    BY <1>1, <2>1, CancelledFits
  <2> HIDE DEF new
  <2> QED
    BY <2>1, <2>2, UpdateIsOne
<1>4. CASE /\ j \in Stored /\ ~(jobs[j].cancelled \/ jobs[j].status = "cancelled")
           /\ ~UNCHANGED jobs
  <2> DEFINE new == [jobs[j] EXCEPT !.status = "running", !.owner = w, !.live = TRUE, !.recent = TRUE]
  <2>1. j \in Jobs /\ jobs' = [jobs EXCEPT ![j] = new]
    BY <1>1, <1>4 DEF Claim
  <2>2. new \in JobRows /\ new.status = "running" /\ new.owner = w
    BY ZenonT(60), <1>1, <2>1 DEF JobRows, Statuses
  <2>3. LeaseFits(new)
    BY <2>2, ResearchAssumption DEF LeaseFits
  <2> HIDE DEF new
  <2> QED
    BY <2>1, <2>2, <2>3 DEF OneRow
<1> QED
  BY <1>2, <1>3, <1>4 DEF Claim

\* A page leaves the row to whoever claims it next.
LEMMA AdvancedFits ==
  ASSUME NEW row, row \in JobRows, NEW page, Advanced(row, page) \in JobRows
  PROVE  LeaseFits(Advanced(row, page))
<1> DEFINE kept == row.messages \o Picked(page.found, 1..Count \ ToSet(row.messages))
           stuck == page.next # 0 /\ page.next = row.cursor
           closing == \/ Len(kept) > MaxJobMessages \/ page.limited \/ stuck
                      \/ budget_reached(row.pages + 1, kept) /\ (page.next # 0 \/ page.deep)
           cut == SubSeq(kept, 1, IF Len(kept) > MaxJobMessages THEN MaxJobMessages ELSE Len(kept))
           after(status, continuable, cursor) ==
             [Unleased(row) EXCEPT !.status = status, !.continuable = continuable, !.cursor = cursor,
                !.messages = cut, !.pages = row.pages + 1, !.error = FALSE]
           new == Advanced(row, page)
<1>1. new = CASE closing -> after("partial", FALSE, 0)
              [] ~closing /\ page.next # 0 -> after("partial", TRUE, page.next)
              [] ~closing /\ page.next = 0 /\ page.deep -> after("waiting", TRUE, row.cursor)
              [] OTHER -> after("completed", FALSE, 0)
  BY DEF Advanced
<1> HIDE DEF closing, cut, new
<1>2. PICK status \in {"partial", "waiting", "completed"}, continuable \in BOOLEAN,
             cursor \in {0, page.next, row.cursor} :
        new = after(status, continuable, cursor) /\ (status = "completed" => continuable = FALSE)
  <2> HIDE DEF after
  <2>1. CASE new = after("partial", FALSE, 0)
    BY <2>1
  <2>2. CASE new = after("partial", TRUE, page.next)
    BY <2>2
  <2>3. CASE new = after("waiting", TRUE, row.cursor)
    BY <2>3
  <2>4. CASE new = after("completed", FALSE, 0)
    BY <2>4
  <2> QED
    BY <1>1, <2>1, <2>2, <2>3, <2>4
<1>3. /\ new.status = status /\ new.continuable = continuable
      /\ new.owner = "nobody" /\ new.live = FALSE
  BY <1>2 DEF Unleased, JobRows
<1>4. LeaseFits(new)
  BY ONLY <1>2, <1>3 DEF LeaseFits
<1> QED
  BY <1>4 DEF new

LEMMA CheckpointIsOne ==
  ASSUME ResearchTypes, NEW w \in Workers, Checkpoint(w)
  PROVE  OneRow
<1> DEFINE j == hands[w].job
           row == jobs[j]
<1>1. j \in Jobs /\ row \in JobRows /\ LeaseFits(row) /\ RowSound(row)
  BY DEF Checkpoint, ResearchTypes, ResearchInv
<1>2. CASE j \in Stored /\ row.cancelled
  <2> DEFINE new == Unleased([row EXCEPT !.status = "cancelled", !.continuable = FALSE])
  <2>1. \E held : Update(j, new, held)
    BY <1>2 DEF Checkpoint, PutBy
  <2>2. new \in JobRows /\ LeaseFits(new)
    BY <1>1, CancelledFits
  <2> HIDE DEF new, row
  <2> QED
    BY <1>1, <2>1, <2>2, UpdateIsOne
<1>3. CASE ~(j \in Stored /\ row.cancelled) /\ still_held(w, row)
  <2>1. PICK page \in Pages(row) : PutBy(w, j, Advanced(row, page))
    BY <1>3 DEF Checkpoint
  <2>2. row.status = "running" /\ page \in Pages(row)
    BY <1>3 DEF still_held
  <2> DEFINE new == Advanced(row, page)
  <2>3. Update(j, new, [hands EXCEPT ![w] = Idle])
    BY <2>1 DEF PutBy
  <2>4. new \in JobRows /\ LeaseFits(new)
    <3> HIDE DEF row
    <3> QED
      BY ONLY <1>1, <2>2, AdvancedSound, AdvancedFits
  <2> HIDE DEF new, row, j
  <2> QED
    BY <1>1, <2>3, <2>4, UpdateIsOne
<1>4. CASE ~(j \in Stored /\ row.cancelled) /\ ~still_held(w, row)
  BY <1>4 DEF Checkpoint, OneRow
<1> QED
  BY <1>2, <1>3, <1>4

LEMMA ReleaseIsOne ==
  ASSUME ResearchTypes, NEW w \in Workers, Release(w)
  PROVE  OneRow
<1> DEFINE j == hands[w].job
           row == jobs[j]
           new == [Unleased(row) EXCEPT !.error = TRUE, !.status = IF row.pages > 0 THEN "partial" ELSE "queued"]
<1>1. j \in Jobs /\ row \in JobRows
  BY DEF Release, ResearchTypes, ResearchInv
<1>2. CASE UNCHANGED jobs
  BY <1>2 DEF OneRow
<1>3. CASE ~UNCHANGED jobs
  <2>1. \E held : Update(j, new, held)
    BY <1>3 DEF Release, PutBy
  <2>2. new \in JobRows /\ LeaseFits(new)
    BY <1>1 DEF Unleased, JobRows, LeaseFits, Statuses
  <2> HIDE DEF new, row
  <2> QED
    BY <1>1, <2>1, <2>2, UpdateIsOne
<1> QED
  BY <1>2, <1>3

\* What members and the clock do to a job.
LEMMA ElseIsOne ==
  ASSUME ResearchTypes, NEW j \in Jobs,
         CreateJob(j) \/ CancelJob(j) \/ Touch(j) \/ LeaseEnds(j) \/ RetryTimePasses(j) \/ Expire(j)
  PROVE  OneRow
<1>1. jobs[j] \in JobRows /\ LeaseFits(jobs[j])
  BY DEF ResearchTypes, ResearchInv
<1>2. CASE CreateJob(j)
  <2>1. PICK kind \in {"history", "search"} :
          Update(j, [NoJob EXCEPT !.kind = kind, !.status = "queued", !.continuable = TRUE], hands)
    BY <1>2 DEF CreateJob, Put
  <2> DEFINE new == [NoJob EXCEPT !.kind = kind, !.status = "queued", !.continuable = TRUE]
  <2>2. new \in JobRows /\ LeaseFits(new)
    <3>1. <<>> \in Seq(1..Count)
      OBVIOUS
    <3> QED
      BY <3>1 DEF NoJob, JobRows, LeaseFits, Statuses
  <2> HIDE DEF new
  <2> QED
    BY <2>1, <2>2, UpdateIsOne DEF new
<1>3. CASE CancelJob(j)
  <2> DEFINE new == cancelled(jobs[j])
  <2>1. Update(j, new, hands)
    BY <1>3 DEF CancelJob, Put
  <2>2. new \in JobRows /\ LeaseFits(new)
    BY <1>1 DEF cancelled, Unleased, JobRows, LeaseFits, Statuses
  <2> HIDE DEF new
  <2> QED
    BY <2>1, <2>2, UpdateIsOne
<1>4. CASE Touch(j)
  BY <1>1, <1>4, UpdateIsOne DEF Touch, Put
<1>5. CASE LeaseEnds(j) \/ RetryTimePasses(j)
  <2>1. PICK new \in {[jobs[j] EXCEPT !.live = FALSE], [jobs[j] EXCEPT !.recent = FALSE]} :
          jobs' = [jobs EXCEPT ![j] = new]
    BY <1>5 DEF LeaseEnds, RetryTimePasses
  <2>2. new \in JobRows /\ LeaseFits(new)
    BY <1>1 DEF JobRows, LeaseFits
  <2> QED
    BY <2>1, <2>2 DEF OneRow
<1>6. CASE Expire(j)
  <2>1. jobs' = [jobs EXCEPT ![j] = Gone]
    BY <1>6 DEF Expire
  <2>2. Gone \in JobRows /\ LeaseFits(Gone)
    <3>1. <<>> \in Seq(1..Count)
      OBVIOUS
    <3> QED
      BY <3>1 DEF Gone, NoJob, JobRows, LeaseFits, Statuses
  <2> QED
    BY <2>1, <2>2 DEF OneRow
<1> QED
  BY <1>2, <1>3, <1>4, <1>5, <1>6

\* What one row more keeps.
LEMMA OneRowKeeps ==
  ASSUME ResearchTypes, OneRow
  PROVE  IsFiniteSet(Stored') /\ Stored' \subseteq Jobs /\ \A j \in Jobs : LeaseFits(jobs[j])'
<1>1. jobs \in [Jobs -> JobRows] /\ IsFiniteSet(Stored) /\ \A j \in Jobs : LeaseFits(jobs[j])
  BY DEF ResearchTypes, ResearchInv, ScanGoesOn
<1>2. CASE UNCHANGED jobs
  BY <1>1, <1>2 DEF Stored, LeaseFits
<1>3. ASSUME NEW j \in Jobs, NEW row \in JobRows, LeaseFits(row), jobs' = [jobs EXCEPT ![j] = row]
      PROVE  IsFiniteSet(Stored') /\ \A i \in Jobs : LeaseFits(jobs[i])'
  <2>1. jobs'[j] = row /\ \A i \in Jobs : i # j => jobs'[i] = jobs[i]
    BY <1>1, <1>3
  <2>2. Stored' \in SUBSET (Stored \cup {j})
    BY <2>1 DEF Stored
  <2>3. IsFiniteSet(Stored \cup {j})
    BY <1>1, FS_AddElement
  <2>4. IsFiniteSet(Stored')
    BY <2>2, <2>3, FS_Subset
  <2>5. \A i \in Jobs : LeaseFits(jobs[i])'
    BY <1>1, <1>3, <2>1 DEF LeaseFits
  <2> QED
    BY <2>4, <2>5
<1> QED
  BY <1>2, <1>3 DEF OneRow, Stored

LEMMA ResearchTypesStart == ResearchInit => ResearchTypes
<1> SUFFICES ASSUME ResearchInit PROVE ResearchTypes
  OBVIOUS
<1>1. jobs = [j \in Jobs |-> NoJob] /\ queue = <<>> /\ scanAfter = 0 /\ mishaps = 0
  BY DEF ResearchInit
<1>2. Stored = {}
  BY <1>1 DEF Stored, NoJob
<1>3. ScanGoesOn
  BY <1>1, <1>2, FS_EmptySet, ResearchAssumption DEF ScanGoesOn
<1>4. \A j \in Jobs : LeaseFits(jobs[j])
  BY <1>1 DEF LeaseFits, NoJob
<1> QED
  BY <1>3, <1>4, ResearchStarts DEF ResearchTypes

LEMMA ResearchTypesKept == ResearchTypes /\ [ResearchNext]_researchVars => ResearchTypes'
<1> SUFFICES ASSUME ResearchTypes, [ResearchNext]_researchVars PROVE ResearchTypes'
  OBVIOUS
<1>0. ResearchInv /\ ScanGoesOn /\ runner \in Workers
  BY ResearchAssumption DEF ResearchTypes
<1>1. CASE UNCHANGED researchVars
  <2>1. ResearchInv'
    BY <1>0, <1>1 DEF researchVars, ResearchInv, RowSound, HistorySound, page_before
  <2>2. ScanGoesOn' /\ \A j \in Jobs : LeaseFits(jobs[j])'
    BY <1>1 DEF researchVars, ResearchTypes, ScanGoesOn, LeaseFits, Stored
  <2> QED
    BY <2>1, <2>2 DEF ResearchTypes
<1>2. CASE ResearchNext
  <2>1. ResearchInv'
    BY <1>0, <1>2, ResearchKept
  <2>2. OneRow
    <3>1. CASE Scan \/ RestartJobs \/ \E w \in Workers : PageFails(w) \/ Abandon(w)
      BY <3>1 DEF Scan, RestartJobs, PageFails, Abandon, OneRow
    <3>2. CASE TakeScope
      <4>1. CASE Claim(runner, Head(queue))
        BY <1>0, <4>1, ClaimIsOne
      <4>2. CASE UNCHANGED jobs
        BY <4>2 DEF OneRow
      <4> QED
        BY <3>2, <4>1, <4>2 DEF TakeScope
    <3>3. ASSUME NEW w \in Workers, Continue(w) \/ PageStep(w) PROVE OneRow
      BY <3>3, ClaimIsOne, CheckpointIsOne, ReleaseIsOne DEF Continue, PageStep
    <3>4. ASSUME NEW j \in Jobs,
                 CreateJob(j) \/ CancelJob(j) \/ Touch(j) \/ LeaseEnds(j) \/ RetryTimePasses(j) \/ Expire(j)
          PROVE OneRow
      BY <3>4, ElseIsOne
    <3> QED
      BY <1>2, <3>1, <3>2, <3>3, <3>4 DEF ResearchNext
  <2>3. queue' \in Seq(Jobs) /\ scanAfter' \in Jobs \cup {0}
    <3>1. CASE Scan
      <4>1. queue' \in Seq(Jobs)
        BY <3>1, ScopesAre DEF Scan
      <4>2. scanAfter' = (IF queue' # <<>> THEN Last(queue') ELSE 0)
        BY <3>1 DEF Scan
      <4>3. queue' # <<>> => Last(queue') \in Jobs
        BY <4>1 DEF Last
      <4> QED
        BY <4>1, <4>2, <4>3
    <3>2. CASE TakeScope
      BY <1>0, <3>2 DEF TakeScope, ScanGoesOn
    <3>3. CASE RestartJobs
      BY <3>3 DEF RestartJobs
    <3>4. CASE UNCHANGED <<queue, scanAfter>>
      BY <1>0, <3>4 DEF ScanGoesOn
    <3> QED
      BY <1>2, <3>1, <3>2, <3>3, <3>4
         DEF ResearchNext, Continue, PageStep, Checkpoint, Release, PageFails, Abandon, CreateJob, CancelJob,
             Touch, LeaseEnds, RetryTimePasses, Expire
  <2>4. mishaps' \in 0..MaxMishaps
    <3>1. UNCHANGED mishaps \/ Mishap
      BY <1>2 DEF ResearchNext, Scan, TakeScope, RestartJobs, Continue, PageStep, Checkpoint, Release, PageFails,
                  Abandon, CreateJob, CancelJob, Touch, LeaseEnds, RetryTimePasses, Expire
    <3> QED
      BY <1>0, <3>1, ResearchAssumption DEF ScanGoesOn, Mishap
  <2>5. IsFiniteSet(Stored') /\ Stored' \subseteq Jobs /\ \A j \in Jobs : LeaseFits(jobs[j])'
    BY <2>2, OneRowKeeps
  <2> QED
    BY <2>1, <2>3, <2>4, <2>5 DEF ResearchTypes, ScanGoesOn
<1> QED
  BY <1>1, <1>2

LEMMA ResearchTypesAre == ResearchTypes => ResearchTypeOK
BY DEF ResearchTypes, ResearchInv, ScanGoesOn, LeaseFits, ResearchTypeOK

-----------------------------------------------------------------------------
(* What each component's types say of it, for every behaviour of it. *)
\* A job that runs is held by the worker its row names, the scan goes through jobs there are,
\* and every worker's page is of a job, for all workers, budgets and jobs (claim, checkpoint,
\* release, run_once).
THEOREM ResearchTypesCorrect == ResearchSpec => []ResearchTypeOK
BY ResearchTypesStart, ResearchTypesKept, ResearchTypesAre, PTL DEF ResearchSpec

\* A watcher is leased as long as one check of it is under way, and no longer.
THEOREM WatcherTypesCorrect == WatcherSpec => []WatcherTypeOK
<1>1. WatcherInv => WatcherTypeOK
  BY DEF WatcherInv
<1> QED
  BY <1>1, WatcherStarts, WatcherKept, PTL DEF WatcherSpec

\* A reminder is leased as long as one run of it sends, and an active one has recipients.
THEOREM ReminderTypesCorrect == ReminderSpec => []ReminderTypeOK
<1>1. ReminderInv => ReminderTypeOK
  BY DEF ReminderInv, ReminderShapes
<1> QED
  BY <1>1, ReminderStarts, ReminderKept, PTL DEF ReminderSpec
=============================================================================
