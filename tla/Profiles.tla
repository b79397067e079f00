------------------------------- MODULE Profiles -------------------------------
(***************************************************************************)
(* One player or clan profile that features ask for: a kept one is served   *)
(* when it is young enough, otherwise it is fetched once for everyone who   *)
(* asks meanwhile, and stored in the background (data/collectors/demand.py  *)
(* over the one flight of infrastructure/clash/client.py), in the record    *)
(* that a scheduled pass writes too (data/collectors/service.py).           *)
(*                                                                          *)
(* Whether a kept profile is young enough is a choice, profiles are told    *)
(* apart by number.  Left out: several tags, the number of kept profiles,   *)
(* retries and slots of the client, which only make its flight longer.      *)
(***************************************************************************)
EXTENDS Naturals, FiniteSets

CONSTANTS Askers, MaxAsked, MaxLanded    \* features that ask at once; bounds

ASSUME ProfileAssumption == MaxAsked \in Nat /\ MaxLanded \in Nat

VARIABLES
  asker,          \* what each asker does or was told
  flight,         \* _flights[key]: "none", "fetching", or "dying" once cancelled
  requesting,     \* the client has a request for it in flight
  landed, kept,   \* profiles that came so far, the one in _kept
  unstored, batch, profiles_stored,   \* _unstored, what _write writes, the family record
  scheduled,      \* the profile that the scheduled pass fetched and has yet to store
  written,        \* history: the last that _write stored
  profile_writer,         \* "none", "looks" or "writes"
  profilesClosing, askedCount

profileVars == <<asker, flight, requesting, landed, kept, unstored, batch, profiles_stored, scheduled,
                 written, profile_writer, profilesClosing, askedCount>>
writerVars  == <<unstored, batch, written, profile_writer>>
recordVars  == <<profiles_stored, scheduled>>

ProfileInit ==
  /\ asker = [a \in Askers |-> "idle"] /\ flight = "none" /\ requesting = FALSE
  /\ landed = 0 /\ kept = 0 /\ unstored = 0 /\ batch = 0 /\ profiles_stored = 0 /\ profile_writer = "none"
  /\ scheduled = 0 /\ written = 0
  /\ profilesClosing = FALSE /\ askedCount = 0

Waiting == {a \in Askers : asker[a] = "waits"}
Tell(who, outcome) == asker' = [a \in Askers |-> IF a \in who THEN outcome ELSE asker[a]]

-----------------------------------------------------------------------------
(* _ask, and a caller that is cancelled *)

AskProfile(a) ==
  /\ asker[a] # "waits" /\ askedCount < MaxAsked /\ askedCount' = askedCount + 1
  /\ \/ kept # 0 /\ Tell({a}, "served") /\ UNCHANGED <<flight, requesting>>
     \/ /\ Tell({a}, "waits") /\ requesting' = (requesting \/ flight = "none")
        /\ flight' = IF flight = "none" THEN "fetching" ELSE flight
  /\ UNCHANGED <<landed, kept, writerVars, recordVars, profilesClosing>>

last_to_leave(a)     == Waiting = {a}

GiveUpAsking(a) ==
  /\ asker[a] = "waits" /\ Tell({a}, "cancelled")
  /\ flight' = IF last_to_leave(a) /\ flight = "fetching" THEN "dying" ELSE flight
  /\ UNCHANGED <<requesting, landed, kept, writerVars, recordVars, profilesClosing, askedCount>>

-----------------------------------------------------------------------------
(* _fetch, _landed, _store; a request of the client outlives a cancelled fetch *)

\* Mutant: the fetch ends without an answer for whoever joined it meanwhile.
told_of_death_nobody == {}
told_of_death        == Waiting

Dies ==
  /\ flight = "dying" /\ flight' = "none"
  /\ Tell(told_of_death, "collector_error")
  /\ UNCHANGED <<requesting, landed, kept, writerVars, recordVars, profilesClosing, askedCount>>

writer_needed       == profile_writer = "none"

Lands ==
  /\ requesting /\ landed < MaxLanded
  /\ requesting' = FALSE /\ landed' = landed + 1
  /\ IF flight = "fetching"
       THEN /\ flight' = "none" /\ kept' = landed' /\ Tell(Waiting, "served")
            /\ unstored' = IF profilesClosing THEN unstored ELSE landed'
            /\ profile_writer' = IF ~profilesClosing /\ writer_needed THEN "looks" ELSE profile_writer
       ELSE UNCHANGED <<flight, kept, asker, unstored, profile_writer>>
  /\ UNCHANGED <<batch, written, recordVars, profilesClosing, askedCount>>

FetchFails ==
  /\ requesting /\ requesting' = FALSE
  /\ IF flight = "fetching" THEN flight' = "none" /\ Tell(Waiting, "failed")
                            ELSE UNCHANGED <<flight, asker>>
  /\ UNCHANGED <<landed, kept, writerVars, recordVars, profilesClosing, askedCount>>

\* The scheduled pass fetches the same profile, or is given one that the client still had: that
\* tells no time, so observed does not keep it.
Observe ==
  /\ scheduled = 0
  /\ \/ landed < MaxLanded /\ landed' = landed + 1 /\ kept' = landed' /\ scheduled' = landed'
     \/ (\E n \in 1..landed : scheduled' = n) /\ UNCHANGED <<landed, kept>>
  /\ UNCHANGED <<asker, flight, requesting, writerVars, profiles_stored, profilesClosing, askedCount>>

\* collect_player, unless it fails or the pass ends before.
ScheduledStores ==
  /\ scheduled # 0 /\ scheduled' = 0 /\ profiles_stored' \in {scheduled, profiles_stored}
  /\ UNCHANGED <<asker, flight, requesting, landed, kept, writerVars, profilesClosing, askedCount>>

-----------------------------------------------------------------------------
(* _write, close *)

WriterLooks ==
  /\ profile_writer = "looks"
  /\ IF unstored = 0 THEN profile_writer' = "none" /\ UNCHANGED <<unstored, batch>>
                     ELSE profile_writer' = "writes" /\ batch' = unstored /\ unstored' = 0
  /\ UNCHANGED <<asker, flight, requesting, landed, kept, written, recordVars, profilesClosing, askedCount>>

\* Mutant: what came during the write is dropped with the batch.
left_to_store_none == 0
left_to_store      == unstored

\* An item that cannot be stored is recorded as failed; one that the scheduled pass holds is left
\* to it (collect_requested).
WriteBatch ==
  /\ profile_writer = "writes" /\ profile_writer' = "looks" /\ batch' = 0 /\ unstored' = left_to_store
  /\ \/ scheduled = 0 /\ profiles_stored' = batch /\ written' = batch
     \/ UNCHANGED <<profiles_stored, written>>
  /\ UNCHANGED <<asker, flight, requesting, landed, kept, scheduled, profilesClosing, askedCount>>

CloseProfiles ==
  /\ ~profilesClosing /\ profilesClosing' = TRUE
  /\ flight' = IF flight = "fetching" THEN "dying" ELSE flight
  /\ UNCHANGED <<asker, requesting, landed, kept, writerVars, recordVars, askedCount>>

ProfileNext ==
  \/ \E a \in Askers : GiveUpAsking(a) \/ AskProfile(a)
  \/ Dies \/ Lands \/ FetchFails \/ Observe \/ ScheduledStores \/ WriterLooks \/ WriteBatch \/ CloseProfiles
ProfileSpec == ProfileInit /\ [][ProfileNext]_profileVars

\* A fetch that was cancelled ends, the client's requests time out, the writer runs.
ProfileFair ==
  /\ WF_profileVars(Lands \/ FetchFails) /\ WF_profileVars(Dies)
  /\ WF_profileVars(WriterLooks \/ WriteBatch)
ProfileFairSpec == ProfileSpec /\ ProfileFair

-----------------------------------------------------------------------------
(* Properties *)

\* The state has its shape: whoever waits has a fetch, a fetch has a request,
\* and what is to be stored has a writer.
ProfileTypeOK ==
  /\ {kept, unstored, batch, profiles_stored, scheduled, written} \subseteq 0..landed
  /\ Waiting # {} => flight # "none"
  /\ flight = "fetching" => requesting
  /\ unstored # 0 \/ batch # 0 => profile_writer # "none"

\* A fetch is cancelled under those who still wait for it only by closing.
OthersLeaveItRunning ==
  flight = "fetching" /\ flight' = "dying" /\ ~profilesClosing' =>
    {a \in Askers : asker'[a] = "waits"} = {}

\* Everyone gets an answer and the writer runs dry, while closing too.
EveryoneIsServed == []<>(Waiting = {} /\ unstored = 0 /\ batch = 0)

\* What was fetched reaches the writer unless a newer one replaces it, also when it came during a
\* write.  The writer stores in the order in which profiles came, and the record goes back to an
\* older one only where the scheduled pass wrote: by what that was given, or over it.
FetchedIsStored ==
  /\ written' >= written
  /\ profiles_stored' < profiles_stored => scheduled' # scheduled \/ profiles_stored # written
  /\ unstored # 0 => unstored' >= unstored \/ batch' = unstored

\* A fetch is lost neither to those who share it nor to the record.
FetchesAreKept == [][OthersLeaveItRunning /\ FetchedIsStored]_profileVars
=============================================================================
