------------------------------ MODULE Hibernation ------------------------------
(***************************************************************************)
(* Moving one member into hibernation and back (features/hibernation): a    *)
(* command is planned, waits for the member's lock, and works through role  *)
(* changes and messages, saving each before the next, so that another       *)
(* command can take over what failed or was cut off.                        *)
(*                                                                          *)
(* Abstracted: roles are a handful of kinds, the order of role changes is   *)
(* free; sending covers a failed DM and its fallback thread; a ticket       *)
(* channel is not deleted meanwhile; nothing else edits roles.  The         *)
(* deletion of member data is left out.                                     *)
(***************************************************************************)
EXTENDS Naturals, Sequences, FiniteSets, SequencesExt

CONSTANTS MaxMoves, MaxBreaks    \* commands, and steps that fail or are cut off

ASSUME HibernationAssumption == MaxMoves \in Nat /\ MaxBreaks \in Nat

VARIABLES
  roles,      \* what the member holds
  entry,      \* the saved state of the member, or NoEntry
  history,    \* workflow_events of the member
  moves,      \* commands that hold or wait for member_lock, first come first
  doing,      \* the step of the first that took effect and is not saved yet
  sent, lost, \* how often a step of the case was done, and not saved
  cases,
  leftover,   \* history: a return began with what an earlier one had left to do
  movesMade, breaks

hibernationVars == <<roles, entry, history, moves, doing, sent, lost, cases, leftover, movesMade, breaks>>

Restored == {"member", "badge", "co"}
Ranks    == {"elder"}                      \* SNAPSHOT_ONLY_ROLE_IDS
Roles    == Restored \cup Ranks \cup {"hibernating", "sleeping"}

HibernateSteps  == <<"log", "notice">>
ReactivateSteps == <<"achievement", "ticket", "welcome", "registered", "controls">>
Steps           == ToSet(HibernateSteps) \cup ToSet(ReactivateSteps)
NoProgress      == [remove |-> {}, add |-> {}, done |-> {"none"}]
NoEntry         == [case |-> 0, stored |-> {}, going |-> NoProgress, coming |-> NoProgress]
NoStep          == "nothing"

HibernationInit ==
  /\ roles = Restored \cup Ranks /\ entry = NoEntry /\ history = {} /\ moves = <<>>
  /\ doing = NoStep /\ sent = [s \in Steps |-> 0] /\ lost = [s \in Steps |-> 0]
  /\ cases = 0 /\ leftover = FALSE /\ movesMade = 0 /\ breaks = 0

Progress(plan) == [remove |-> plan.remove, add |-> plan.add, done |-> {}]
hibernating_done == entry # NoEntry /\ (entry.going = NoProgress \/ entry.coming # NoProgress)

-----------------------------------------------------------------------------
(* prepare_hibernation, prepare_reactivation: planned before the lock is held *)


\* A case that was begun is planned from what is left of it.
hibernation_plan ==
  IF entry # NoEntry
  THEN [op |-> "hibernate", stored |-> entry.stored, rest |-> FALSE,
        remove |-> entry.going.remove, add |-> entry.going.add]
  ELSE [op |-> "hibernate", stored |-> roles \ Ranks, rest |-> FALSE,
        remove |-> roles \cap (Restored \cup Ranks),
        add |-> {"hibernating"} \cup IF "co" \in roles THEN {"sleeping"} ELSE {}]

\* So is a return ("rest"), whose plan can wait for the member's next case.
reactivation_plan ==
  LET slept == "sleeping" \in roles
  IN  IF entry.coming # NoProgress
      THEN [op |-> "reactivate", stored |-> {}, rest |-> TRUE,
            remove |-> entry.coming.remove, add |-> entry.coming.add]
      ELSE [op |-> "reactivate", stored |-> {}, rest |-> FALSE,
            remove |-> {"hibernating"} \cup IF slept THEN {"sleeping"} ELSE {},
            add |-> {"member"} \cup entry.stored \cup IF slept THEN {"co"} ELSE {}]

Plan(plan) ==
  /\ movesMade < MaxMoves /\ movesMade' = movesMade + 1 /\ moves' = Append(moves, plan)
  /\ UNCHANGED <<roles, entry, history, doing, sent, lost, cases, leftover, breaks>>
PlanHibernation  == ~hibernating_done /\ Plan(hibernation_plan)
PlanReactivation == entry # NoEntry /\ Plan(reactivation_plan)

-----------------------------------------------------------------------------
(* _hibernate_member and _reactivate_member, under the lock *)

First     == moves # <<>> /\ doing = NoStep
Is(op)    == First /\ Head(moves).op = op
Leaves    == moves' = Tail(moves)
Same      == UNCHANGED <<sent, lost, movesMade, breaks, doing, roles>>

begun         == entry # NoEntry

\* The case is saved before anything is changed.
BeginCase ==
  /\ Is("hibernate") /\ ~begun
  /\ cases' = cases + 1
  /\ entry' = [case |-> cases', stored |-> Head(moves).stored, going |-> Progress(Head(moves)),
               coming |-> NoProgress]
  /\ sent' = [s \in Steps |-> 0] /\ lost' = [s \in Steps |-> 0]
  /\ UNCHANGED <<roles, history, moves, doing, leftover, movesMade, breaks>>

AlreadyHibernating == Is("hibernate") /\ hibernating_done /\ Leaves /\ Same
                        /\ UNCHANGED <<entry, history, cases, leftover>>
NothingToReactivate == Is("reactivate") /\ entry = NoEntry /\ Leaves /\ Same
                         /\ UNCHANGED <<entry, history, cases, leftover>>

BeginReturn ==
  /\ Is("reactivate") /\ entry # NoEntry /\ entry.coming = NoProgress
  /\ entry' = [entry EXCEPT !.coming = Progress(Head(moves))]
  /\ leftover' = (leftover \/ Head(moves).rest)
  /\ Same /\ UNCHANGED <<history, moves, cases>>

\* The progress the first command works on.
which    == IF Head(moves).op = "hibernate" THEN "going" ELSE "coming"
progress == entry[which]
Works    == First /\ entry # NoEntry /\ progress # NoProgress
              /\ (which = "going" => entry.coming = NoProgress)
todo     == IF progress.remove # {} THEN progress.remove ELSE progress.add
\* The steps that are not checked off, by their place, and the first of them.
places    == IF which = "going" THEN HibernateSteps ELSE ReactivateSteps
steps     == {i \in DOMAIN places : places[i] \notin progress.done}
next_step == places[CHOOSE i \in steps : \A j \in steps : i <= j]

\* _resume_hibernation_roles: removals, then additions.
ChangeRole ==
  /\ Works
  /\ \E role \in todo :
       /\ doing' = role
       /\ roles' = IF progress.remove # {} THEN roles \ {role} ELSE roles \cup {role}
  /\ UNCHANGED <<entry, history, moves, sent, lost, cases, leftover, movesMade, breaks>>

DoStep ==
  /\ Works /\ progress.remove = {} /\ progress.add = {} /\ steps # {}
  /\ doing' = next_step /\ sent' = [sent EXCEPT ![next_step] = @ + 1]
  /\ UNCHANGED <<roles, entry, history, moves, lost, cases, leftover, movesMade, breaks>>

checked_off(done, step)       == done \cup {step}

\* Mutant: the first saved removal clears the list.
left_to_remove_none(p, role) == {}
left_to_remove(p, role)      == p.remove \ {role}
left_to_add(p, role)         == IF p.remove # {} THEN p.add ELSE p.add \ {role}

\* save_member after each step.
SaveStep ==
  /\ doing # NoStep /\ doing' = NoStep
  /\ entry' = [entry EXCEPT ![which] =
       IF doing \in Roles
         THEN [@ EXCEPT !.remove = left_to_remove(progress, doing), !.add = left_to_add(progress, doing)]
         ELSE [@ EXCEPT !.done = checked_off(progress.done, doing)]]
  /\ UNCHANGED <<roles, history, moves, sent, lost, cases, leftover, movesMade, breaks>>

PlanEnds(op) == Works /\ Head(moves).op = op /\ todo = {} /\ steps = {} /\ Leaves /\ Same
              /\ UNCHANGED <<cases, leftover>>

EndHibernation ==
  /\ PlanEnds("hibernate") /\ entry' = [entry EXCEPT !.going = NoProgress]
  /\ history' = history \cup {[case |-> entry.case, kind |-> "hibernated"]}

EndReactivation ==
  /\ PlanEnds("reactivate") /\ entry' = NoEntry
  /\ history' = history \cup {[case |-> entry.case, kind |-> "reactivated"]}

-----------------------------------------------------------------------------
(* A step raises, or the program ends: what was done stays *)

CutOff(queue) ==
  /\ moves # <<>> /\ breaks < MaxBreaks /\ breaks' = breaks + 1
  /\ lost' = IF doing \in Steps THEN [lost EXCEPT ![doing] = @ + 1] ELSE lost
  /\ doing' = NoStep /\ moves' = queue
  /\ UNCHANGED <<roles, entry, history, sent, cases, leftover, movesMade>>
StepRaises    == CutOff(Tail(moves))
ProgramEnds   == CutOff(<<>>)

HibernationNext ==
  \/ PlanHibernation \/ PlanReactivation \/ BeginCase \/ AlreadyHibernating \/ NothingToReactivate
  \/ BeginReturn \/ ChangeRole \/ DoStep \/ SaveStep \/ EndHibernation \/ EndReactivation
  \/ StepRaises \/ ProgramEnds

HibernationSpec == HibernationInit /\ [][HibernationNext]_hibernationVars

-----------------------------------------------------------------------------
(* Properties *)

\* The state has its shape; saved progress is about steps and roles there are.
HibernationTypeOK ==
  /\ roles \subseteq Roles /\ doing \in Roles \cup Steps \cup {NoStep}
  /\ entry.case \in 0..cases /\ entry.stored \subseteq Roles \ Ranks
  /\ \A p \in {entry.going, entry.coming} :
       p.remove \cup p.add \subseteq Roles /\ p.done \subseteq Steps \cup {"none"}
  /\ doing # NoStep => moves # <<>> /\ progress # NoProgress

\* However often hibernating and returning failed and were taken over, a member
\* who is back holds every role of before, without the ranks if the member did
\* hibernate (a hibernation that failed at its start may be returned from as well).
\* Excepted by name: a return planned while another was under way, and begun in the
\* member's next case, takes back only what the other had left (prepare_reactivation).
RolesComeBack ==
  (cases > 0 /\ entry = NoEntry /\ ~leftover) =>
    /\ Restored \subseteq roles /\ "hibernating" \notin roles
    /\ [case |-> cases, kind |-> "hibernated"] \in history => roles \cap Ranks = {}

\* The events tell the saved state: a case is over when its member is
\* reactivated, once, and its hibernation is told when nothing of it is left to do.
HistoryTellsState ==
  LET Has(c, kind) == [case |-> c, kind |-> kind] \in history
  IN  \A c \in 1..cases :
        /\ Has(c, "reactivated") <=> entry.case # c
        /\ entry.case = c => (Has(c, "hibernated") <=> entry.going = NoProgress)

\* A message is sent, and a ticket opened, again only if it was lost between
\* being done and being saved; a case does not end without them.
StepsDoneOnce ==
  /\ \A s \in Steps : sent[s] <= 1 + lost[s]
  /\ (cases > 0 /\ entry = NoEntry) => \A s \in ToSet(ReactivateSteps) : sent[s] >= 1
  /\ (entry # NoEntry /\ entry.going = NoProgress) => \A s \in ToSet(HibernateSteps) : sent[s] >= 1

\* A hibernation that was broken off anywhere, and taken over by anybody, is done in the
\* end once and undone without a rest.
HibernationUndone == RolesComeBack /\ HistoryTellsState /\ StepsDoneOnce
=============================================================================
