----------------------------- MODULE WarSummaries -----------------------------
(***************************************************************************)
(* The leadership summary of each finished war (features/wars/warflow.py,   *)
(* state.py, tasks.py): a pass over the record posts it once, stores that   *)
(* it did, and removes older summaries; an hourly sweep removes old ones.   *)
(*                                                                          *)
(* Abstracted: one clan and its channel; a summary is its war, its wording  *)
(* and the number of the send.  The wording is what the pass rendered: with *)
(* the application's emojis or, while those can't be loaded, without, and   *)
(* with the names and times that it was given.  The cache file holds the    *)
(* processed wars and the registered messages; the retention of 1500        *)
(* processed wars is never reached.  The sweep reads the registry message   *)
(* by message while the pass changes it; its dictionary refuses to go on    *)
(* when its size changed, and at the end when a key it gave is another now. *)
(***************************************************************************)
EXTENDS Naturals, FiniteSets, SequencesExt

CONSTANTS MaxWars, MaxWordings,    \* wars that end; ways in which a summary may be rendered
          MaxSummaryFaults         \* calls that fail, and restarts

ASSUME WarSummaryAssumption ==
  MaxWars \in Nat \ {0} /\ MaxWordings \in Nat \ {0} /\ MaxSummaryFaults \in Nat

VARIABLES
  war, warOver,   \* the clan's war, and whether it has ended
  summaries_shown,          \* summaries in the channel
  sends,          \* per war and wording: summaries posted
  refused,        \* wars whose summary Discord forbade
  registry, processed,   \* summary_registry, processed_war_ids
  cacheFile,      \* what the file holds of the two
  passAt, wording, passSummary,   \* where the pass is, what it rendered, and the summary it found or sent
  cleaning,       \* summaries _cleanup_previous_summary_messages has yet to look at, and those it keeps
  sweep,          \* the same of the sweep, with the dictionary it reads, the size that had, and whether
                  \* a key that was read is gone
  old_summaries,           \* summaries older than NOTICE_TTL
  summaryFaults

warVars == <<war, warOver, summaries_shown, sends, refused, registry, processed, cacheFile, passAt,
             wording, passSummary, cleaning, sweep, old_summaries, summaryFaults>>

Wars      == 1..MaxWars
Wordings  == 1..MaxWordings
Summaries == Wars \X Wordings \X (1..(MaxSummaryFaults + 2))
NoSummary == <<0, 0, 0>>
NoVisit   == [left |-> {}, keep |-> {}]
NoSweep   == [on |-> FALSE, dict |-> {}, size |-> 0, same |-> FALSE, lost |-> FALSE, left |-> {}, keep |-> {}]
CacheOf(done, messages) == [processed |-> done, registry |-> messages]

WarInit ==
  /\ war = 1 /\ warOver = FALSE /\ summaries_shown = {} /\ refused = {}
  /\ sends = [summary \in Wars \X Wordings |-> 0] /\ wording = 1
  /\ registry = {} /\ processed = {} /\ cacheFile = CacheOf({}, {})
  /\ passAt = "idle" /\ passSummary = NoSummary /\ cleaning = NoVisit /\ sweep = NoSweep
  /\ old_summaries = {} /\ summaryFaults = 0

SummaryFault   == summaryFaults < MaxSummaryFaults /\ summaryFaults' = summaryFaults + 1
NoSummaryFault == UNCHANGED summaryFaults
InPass == UNCHANGED <<war, warOver, wording, old_summaries>>

WarEnds     == ~warOver /\ warOver' = TRUE /\ UNCHANGED <<war, passAt>>
\* The next war begins between two passes and outside a sweep.
NextWar     == warOver /\ war < MaxWars /\ passAt = "idle" /\ ~sweep.on /\ war' = war + 1 /\ warOver' = FALSE
                 /\ UNCHANGED passAt
WarGoesOn ==
  /\ WarEnds \/ NextWar
  /\ UNCHANGED <<summaries_shown, sends, refused, registry, processed, cacheFile, wording, passSummary,
                 cleaning, sweep, old_summaries, summaryFaults>>

\* NOTICE_TTL is two days: passes and outages are taken to be shorter.
TimePasses ==
  /\ passAt = "idle"
  /\ \E s \in summaries_shown \ old_summaries :
       s[1] \in processed /\ old_summaries' = old_summaries \cup {s}
  /\ UNCHANGED <<war, warOver, summaries_shown, sends, refused, registry, processed, cacheFile, passAt,
                 wording, passSummary, cleaning, sweep, summaryFaults>>

-----------------------------------------------------------------------------
(* _handle_war_state, for a war that has ended *)

to_summarize       == warOver /\ war \notin processed

BeginSummary ==
  /\ passAt = "idle" /\ to_summarize /\ passAt' = "look" /\ wording' \in Wordings
  /\ UNCHANGED <<war, warOver, summaries_shown, sends, refused, registry, processed, cacheFile, passSummary,
                 cleaning, sweep, old_summaries>>
  /\ NoSummaryFault

\* A summary of this war with the title, description and time that this pass rendered.
existing      == {s \in summaries_shown : s[1] = war /\ s[2] = wording}

\* _find_existing_war_summary: the channel's history since the war ended.
LookForSummary ==
  /\ passAt = "look"
  /\ IF existing # {} THEN passAt' = "save" /\ \E s \in existing : passSummary' = s
     ELSE passAt' = "send" /\ UNCHANGED passSummary
  /\ UNCHANGED <<summaries_shown, sends, refused, registry, processed, cacheFile, cleaning, sweep>>
  /\ InPass /\ NoSummaryFault

NewSummary == <<war, wording, sends[<<war, wording>>] + 1>>
Post       == /\ sends' = [sends EXCEPT ![<<war, wording>>] = @ + 1]
              /\ summaries_shown' = summaries_shown \cup {NewSummary}

after_unresolved      == "idle"

\* Sent, forbidden, or unresolved: then it may have been posted, and the next pass looks.
SendSummary ==
  /\ passAt = "send"
  /\ \/ Post /\ passSummary' = NewSummary /\ passAt' = "save" /\ UNCHANGED refused /\ NoSummaryFault
     \/ refused' = refused \cup {war} /\ passSummary' = NoSummary /\ passAt' = "save"
          /\ UNCHANGED <<summaries_shown, sends>> /\ SummaryFault
     \/ passAt' = after_unresolved /\ (Post \/ UNCHANGED <<summaries_shown, sends>>)
          /\ UNCHANGED <<refused, passSummary>> /\ SummaryFault
  /\ UNCHANGED <<registry, processed, cacheFile, cleaning, sweep>> /\ InPass

Registered == registry \cup ({passSummary} \ {NoSummary})
\* The sweep reads the same dictionary unless the registry was replaced since.
SweepSees(dict) ==
  IF sweep.same THEN [sweep EXCEPT !.dict = dict, !.left = (@ \cap dict) \cup (dict \ sweep.dict),
                                   !.lost = @ \/ ~(sweep.dict \ dict \subseteq sweep.left)]
    ELSE sweep

\* _persist_war_summary_completion marks the war in memory, then saves.
MarkProcessed ==
  /\ passAt = "save" /\ passAt' = "saving"
  /\ registry' = Registered /\ processed' = processed \cup {war} /\ sweep' = SweepSees(registry')
  /\ UNCHANGED <<summaries_shown, sends, refused, cacheFile, passSummary, cleaning>>
  /\ InPass /\ NoSummaryFault

SaveSummary ==
  /\ passAt = "saving" /\ cacheFile' = CacheOf(processed, registry)
  /\ IF passSummary = NoSummary THEN passAt' = "idle" /\ UNCHANGED cleaning
     ELSE passAt' = "clean" /\ cleaning' = [left |-> registry, keep |-> {}]
  /\ UNCHANGED <<summaries_shown, sends, refused, registry, processed, passSummary, sweep>>
  /\ InPass /\ NoSummaryFault

\* Mutant: a war whose summary was not saved stays processed.
rolled_back_kept == processed
rolled_back      == processed \ {war}

SaveSummaryFails ==
  /\ passAt = "saving" /\ passAt' = "idle" /\ SummaryFault
  /\ registry' = registry \ {passSummary} /\ processed' = rolled_back /\ sweep' = SweepSees(registry')
  /\ UNCHANGED <<summaries_shown, sends, refused, cacheFile, passSummary, cleaning>> /\ InPass

spared      == {passSummary}

\* _cleanup_previous_summary_messages
CleanOne ==
  /\ passAt = "clean"
  /\ \E s \in cleaning.left :
       \/ /\ s \in spared /\ UNCHANGED summaries_shown /\ NoSummaryFault
          /\ cleaning' = [left |-> cleaning.left \ {s}, keep |-> cleaning.keep \cup {s}]
       \/ /\ s \notin spared /\ summaries_shown' = summaries_shown \ {s} /\ NoSummaryFault
          /\ cleaning' = [cleaning EXCEPT !.left = @ \ {s}]
       \/ /\ s \notin spared /\ UNCHANGED summaries_shown /\ SummaryFault
          /\ cleaning' = [left |-> cleaning.left \ {s}, keep |-> cleaning.keep \cup {s}]
  /\ UNCHANGED <<sends, refused, registry, processed, cacheFile, passAt, passSummary, sweep>> /\ InPass

EndClean ==
  /\ passAt = "clean" /\ cleaning.left = {} /\ passAt' = "idle" /\ cleaning' = NoVisit
  /\ IF cleaning.keep = registry THEN UNCHANGED <<registry, cacheFile, sweep>>
     ELSE /\ registry' = cleaning.keep /\ sweep' = [sweep EXCEPT !.same = FALSE]
          /\ cacheFile' = CacheOf(processed, registry')
  /\ UNCHANGED <<summaries_shown, sends, refused, processed, passSummary>> /\ InPass /\ NoSummaryFault

-----------------------------------------------------------------------------
(* _cleanup_summary_messages, hourly beside the passes *)

SweepOnly == UNCHANGED <<war, warOver, sends, refused, processed, passAt, wording, passSummary, cleaning,
                         old_summaries>>

BeginSweep ==
  /\ ~sweep.on /\ registry # {}
  /\ sweep' = [on |-> TRUE, dict |-> registry, size |-> Cardinality(registry), same |-> TRUE, lost |-> FALSE,
               left |-> registry, keep |-> {}]
  /\ UNCHANGED <<summaries_shown, registry, cacheFile>> /\ SweepOnly /\ NoSummaryFault

expired(s)     == s \in old_summaries

SweepOne ==
  /\ sweep.on /\ Cardinality(sweep.dict) = sweep.size
  /\ \E s \in sweep.left :
       \/ /\ ~expired(s) /\ UNCHANGED summaries_shown /\ NoSummaryFault
          /\ sweep' = [sweep EXCEPT !.left = @ \ {s}, !.keep = @ \cup {s}]
       \/ /\ expired(s) /\ summaries_shown' = summaries_shown \ {s} /\ NoSummaryFault
          /\ sweep' = [sweep EXCEPT !.left = @ \ {s}]
       \/ /\ expired(s) /\ UNCHANGED summaries_shown /\ SummaryFault
          /\ sweep' = [sweep EXCEPT !.left = @ \ {s}, !.keep = @ \cup {s}]
  /\ UNCHANGED <<registry, cacheFile>> /\ SweepOnly

sweep_fails    == Cardinality(sweep.dict) # sweep.size \/ sweep.lost

\* An iteration that fails ends the sweep before anything is stored.
EndSweep ==
  /\ sweep.on /\ (sweep_fails \/ sweep.left = {})
  /\ IF ~sweep_fails /\ sweep.keep # registry
     THEN registry' = sweep.keep /\ cacheFile' = CacheOf(processed, registry')
     ELSE UNCHANGED <<registry, cacheFile>>
  /\ sweep' = NoSweep
  /\ UNCHANGED summaries_shown /\ SweepOnly /\ NoSummaryFault

RestartWars ==
  /\ SummaryFault /\ registry' = cacheFile.registry /\ processed' = cacheFile.processed
  /\ passAt' = "idle" /\ cleaning' = NoVisit /\ sweep' = NoSweep
  /\ UNCHANGED <<summaries_shown, sends, refused, cacheFile, passSummary>> /\ InPass

WarNext ==
  \/ WarGoesOn \/ TimePasses \/ BeginSummary \/ LookForSummary \/ SendSummary \/ MarkProcessed
  \/ SaveSummary \/ SaveSummaryFails \/ CleanOne \/ EndClean \/ BeginSweep \/ SweepOne \/ EndSweep
  \/ RestartWars

WarSpec == WarInit /\ [][WarNext]_warVars

-----------------------------------------------------------------------------
(* Properties *)

\* The state has its shape; what is saved of a war is about one that was looked at.
WarTypeOK ==
  /\ summaries_shown \subseteq Summaries /\ registry \subseteq Summaries /\ processed \subseteq 1..war
  /\ cacheFile.registry \subseteq Summaries /\ cacheFile.processed \subseteq 1..war
  /\ passAt \in {"idle", "look", "send", "save", "saving", "clean"}
  /\ passAt \in {"look", "send", "save"} => war \notin processed
  /\ (~sweep.lost => sweep.keep \cap sweep.left = {}) /\ cleaning.keep \cap cleaning.left = {}

\* No summary is posted twice in the same wording, whatever was sent without an answer, not saved
\* or cut off.  (A pass that renders a war in other words does not know the earlier one for it.)
SummaryPostedOnce == \A summary \in Wars \X Wordings : sends[summary] <= 1

Posted   == {w \in Wars : \E t \in Wordings : sends[<<w, t>>] > 0}
Reworded == {w \in Wars : \E t, u \in Wordings : t # u /\ sends[<<w, t>>] > 0 /\ sends[<<w, u>>] > 0}

\* A war that counts as done, in memory or in the file, was posted or may not be.
DoneWasPosted == processed \cup cacheFile.processed \subseteq Posted \cup refused

\* Between two passes the one summary of a done war is registered, so that it goes when it is old,
\* whichever saves, sweeps and passes met.  (A war first forbidden may be stored by another save;
\* of a war posted in two wordings only the one is registered.)
ShownIsRegistered ==
  passAt = "idle" => \A s \in summaries_shown : s[1] \in processed \ (refused \cup Reworded) => s \in registry

\* A summary leaves the channel only when it is old or a newer one is there.
NewestSummaryStays ==
  \A s \in summaries_shown \ summaries_shown' :
    s \in old_summaries \/ \E newer \in summaries_shown : newer[1] > s[1]

\* Each war has its one summary in a wording until that is old or replaced: what every step
\* keeps, of the pass, of the sweep beside it and of a restart.
OneSummaryPerWar ==
  [][(SummaryPostedOnce /\ DoneWasPosted /\ ShownIsRegistered)' /\ NewestSummaryStays]_warVars
=============================================================================
