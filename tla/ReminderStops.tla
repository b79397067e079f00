----------------------------- MODULE ReminderStops -----------------------------
(***************************************************************************)
(* A repeating reminder that goes to several members' DMs, each with a      *)
(* button to stop it for that member, while a run is sending it, while its  *)
(* requester has a change of it in preview, and while the run is stored     *)
(* (agent/scheduled: dm_controls.py, runner.py, store.py, tools.py;         *)
(* agent/discord_actions/direct_messages.py).                               *)
(*                                                                          *)
(* Abstracted: a message is its parts; a version is whether the row changed *)
(* since a preview read it.  Leases and polls are in StandingRules: here a  *)
(* run begins whenever the reminder is active and none is going on.         *)
(***************************************************************************)
EXTENDS Naturals, FiniteSets, Sequences, SequencesExt

CONSTANTS
  Recipients, requester,  \* members, and the one who set the reminder up
  MessageParts,           \* chunks of the text
  MaxRuns, MaxChanges     \* bounds: runs, and previews of a change

ASSUME ReminderAssumption ==
  /\ IsFiniteSet(Recipients) /\ requester \in Recipients
  /\ MessageParts \in Nat \ {0} /\ MaxRuns \in Nat /\ MaxChanges \in Nat

VARIABLES
  reminder,  \* the row: status, dm_member_ids, lease, and is its schedule for once
  sending,   \* the run: its step, who is left, the part of the first of them, was anybody
             \* reached, the status to store, and the members who went without for another
             \* reason than a stop
  change,    \* the requester's preview: the recipients and the schedule it would save, is it still
             \* current, and (history) whom of them a stop took off the row since it was read
  stopped,   \* members who were told that they won't get these messages anymore, and
             \* whom no later change put back
  got,       \* parts that each member got in this run, and since it was told so and is off the list
  runs, changes

reminderVars == <<reminder, sending, change, stopped, got, runs, changes>>

NoRun    == [step |-> "none", claimed |-> {}, todo |-> <<>>, part |-> 0, reached |-> FALSE,
             ends |-> "active", missed |-> {}]
NoChange == [shown |-> FALSE, to |-> {}, once |-> FALSE, current |-> FALSE, stops |-> {}]
Nothing  == [m \in Recipients |-> [run |-> 0, late |-> 0]]

ReminderInit ==
  /\ reminder = [status |-> "active", to |-> Recipients, once |-> FALSE, leased |-> FALSE]
  /\ sending = NoRun /\ change = NoChange
  /\ stopped = {} /\ got = Nothing /\ runs = 0 /\ changes = 0

\* Every update of the row moves its version on.
Changed(row) == reminder' = row /\ change' = [change EXCEPT !.current = FALSE]

\* claim_standing, then the members still allowed, in their order (_deliver_dms).
BeginRun ==
  /\ reminder.status = "active" /\ ~reminder.leased
  /\ runs < MaxRuns /\ runs' = runs + 1
  /\ Changed([reminder EXCEPT !.leased = TRUE])
  /\ sending' = [step |-> "ask", claimed |-> reminder.to, todo |-> SetToSeq(reminder.to), part |-> 1,
                 reached |-> FALSE, ends |-> "active", missed |-> {}]
  /\ got' = [m \in Recipients |-> [got[m] EXCEPT !.run = 0]]
  /\ UNCHANGED <<stopped, changes>>

\* Mutant: the list of the claimed rule is asked.
recipient_allowed_claimed(m) == reminder.status = "active" /\ m \in sending.claimed
recipient_allowed(m)         == reminder.status = "active" /\ m \in reminder.to

NextMember(reached) ==
  [sending EXCEPT !.step = "ask", !.todo = Tail(@), !.part = 1, !.reached = reached]

\* Before each member and each part the stored recipients are asked for; who is refused only
\* then counts as reached.
Ask ==
  /\ sending.step = "ask" /\ sending.todo # <<>>
  /\ IF recipient_allowed(Head(sending.todo)) THEN sending' = [sending EXCEPT !.step = "send"]
       ELSE \/ sending' = NextMember(TRUE)
            \/ sending.part = 1 /\ sending' = NextMember(sending.reached)
  /\ UNCHANGED <<reminder, change, stopped, got, runs, changes>>

SendPart ==
  LET m == Head(sending.todo)
  IN  /\ sending.step = "send"
      /\ got' = [got EXCEPT ![m].run = @ + 1, ![m].late = IF m \in stopped \ reminder.to THEN @ + 1 ELSE @]
      /\ sending' = (IF sending.part = MessageParts THEN NextMember(TRUE)
                       ELSE [sending EXCEPT !.step = "ask", !.part = @ + 1])
      /\ UNCHANGED <<reminder, change, stopped, runs, changes>>

\* The member takes no DMs: what is left of the message is dropped.
SendFails ==
  /\ sending.step = "send" /\ sending' = [NextMember(sending.reached) EXCEPT !.missed = @ \cup {Head(sending.todo)}]
  /\ UNCHANGED <<reminder, change, stopped, got, runs, changes>>

\* finish_standing reads the rule again before it counts the run.
stored_reminder         == reminder.to

\* After the last member the row is read: a reminder that was ended or paused meanwhile is
\* stored as completed, and so is one for once; one that reached nobody is stored as paused.
LookAgain ==
  /\ sending.step = "ask" /\ sending.todo = <<>>
  /\ sending' = [sending EXCEPT !.step = "store",
                   !.ends = IF reminder.status # "active" THEN "completed"
                            ELSE IF ~sending.reached THEN "paused"
                            ELSE IF reminder.once THEN "completed" ELSE "active"]
  /\ UNCHANGED <<reminder, change, stopped, got, runs, changes>>

\* A recipient can't be written to anymore, or a call fails: nobody gets the rest.
RunFails ==
  /\ sending.step \in {"ask", "send"}
  /\ sending' = [sending EXCEPT !.step = "store", !.ends = "paused", !.missed = sending.claimed]
  /\ UNCHANGED <<reminder, change, stopped, got, runs, changes>>

\* finish_standing: a pause, a cancellation or the last stop meanwhile stays.
EndRun ==
  /\ sending.step = "store"
  /\ Changed([reminder EXCEPT !.leased = FALSE, !.to = stored_reminder,
                !.status = IF @ = "active" THEN sending.ends ELSE @])
  /\ sending' = NoRun
  /\ UNCHANGED <<stopped, got, runs, changes>>

empties(m)        == reminder.to = {m}

\* stop_reminder_recipient changes the row only where a member is on the list of one that repeats.
Stops(m)          == m # requester /\ m \in reminder.to /\ ~reminder.once
without(m)        == [reminder EXCEPT !.to = @ \ {m}, !.status = IF empties(m) THEN "completed" ELSE @]

\* The button of a message that a member got: the answer says that it is over, done or not.
StopReminder(m) ==
  /\ m # requester
  /\ IF Stops(m) THEN /\ reminder' = without(m)
                      /\ change' = [change EXCEPT !.current = FALSE, !.stops = @ \cup ({m} \cap change.to)]
                 ELSE UNCHANGED <<reminder, change>>
  /\ stopped' = stopped \cup {m}
  /\ got' = [got EXCEPT ![m].late = 0]
  /\ UNCHANGED <<sending, runs, changes>>

\* set_standing_status
SetReminder(status) ==
  /\ reminder.status \in {"active", "paused"} /\ status # reminder.status
  /\ Changed([reminder EXCEPT !.status = status])
  /\ sending' = [sending EXCEPT !.missed = sending.claimed]
  /\ UNCHANGED <<stopped, got, runs, changes>>

\* prepare_save: the preview keeps the version it read.
Preview ==
  /\ reminder.status # "cancelled" /\ changes < MaxChanges /\ changes' = changes + 1
  /\ \E to \in (SUBSET Recipients) \ {{}}, once \in BOOLEAN :
       change' = [shown |-> TRUE, to |-> to, once |-> once, current |-> TRUE, stops |-> {}]
  /\ UNCHANGED <<reminder, sending, stopped, got, runs>>

may_save == change.shown /\ change.current

\* replace_standing, which a run in progress or a changed version refuses.
Save ==
  /\ may_save /\ reminder.status # "cancelled" /\ ~reminder.leased
  /\ reminder' = [reminder EXCEPT !.to = change.to, !.once = change.once, !.status = "active"]
  /\ change' = NoChange /\ stopped' = stopped \ change.to
  /\ UNCHANGED <<sending, got, runs, changes>>

ReminderNext ==
  \/ BeginRun \/ Ask \/ SendPart \/ SendFails \/ LookAgain \/ RunFails \/ EndRun \/ Preview \/ Save
  \/ \E m \in Recipients : StopReminder(m)
  \/ \E status \in {"active", "paused", "cancelled"} : SetReminder(status)

ReminderSpec == ReminderInit /\ [][ReminderNext]_reminderVars

-----------------------------------------------------------------------------
(* Properties *)

ReminderTypeOK ==
  /\ reminder \in [status : {"active", "paused", "completed", "cancelled"},
                   to : SUBSET Recipients, once : BOOLEAN, leased : BOOLEAN]
  /\ reminder.status = "active" => reminder.to # {}
  /\ reminder.leased = (sending.step # "none") /\ sending.step \in {"none", "ask", "send", "store"}
  /\ change \in [shown : BOOLEAN, to : SUBSET Recipients, once : BOOLEAN, current : BOOLEAN,
                 stops : SUBSET Recipients]
  /\ stopped \subseteq Recipients \ {requester}
  /\ got \in [Recipients -> [run : 0..MessageParts, late : Nat]]

\* A stop that took a member off the list is kept: only a change brings anybody back, one that
\* was previewed after the stop, never a run that was going on or an older preview.  (A stop that
\* is confirmed and changed no row moves no version on: an older preview may still undo that.)
StopIsKept ==
  \A m \in reminder'.to \ reminder.to : change.shown /\ m \in change.to \ change.stops

\* "You won't get these messages anymore" (wording.py): whoever stopped and is off the list gets
\* at most the one part that was cleared before the stop.
StoppedGetsNoMore == \A m \in stopped : got[m].late <= 1

\* One member's stop does not cost the others their message: whoever the reminder still goes
\* to at the end of a run got every part of it, unless it failed for that member.
OthersGetItAll ==
  EndRun /\ reminder.status = "active" =>
    \A m \in reminder.to \ sending.missed : got[m].run = MessageParts

\* A recipient's stop takes effect while a run is sending, stays, and costs nobody else
\* the message.
StopsAreRespected == [][StopIsKept /\ StoppedGetsNoMore' /\ OthersGetItAll]_reminderVars
=============================================================================
