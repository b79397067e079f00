------------------------------ MODULE Publishing ------------------------------
(***************************************************************************)
(* The queue that edits one Discord message or channel for every feature    *)
(* (infrastructure/discord/publishing.py): versions that wait are replaced  *)
(* or merged, one is being sent, and every caller gets an answer.           *)
(*                                                                          *)
(* A version is a function from the fields it sets to values, the numbers   *)
(* of versions are their order.  Abstracted: attached files, logging, and   *)
(* time, which passes in RetryTime and WindowPasses.                        *)
(***************************************************************************)
EXTENDS Naturals, Sequences, FiniteSets, SequencesExt, Functions

CONSTANTS
  Versions,       \* the versions of each kind of destination
  EditLimit,      \* CHANNEL_EDIT_LIMIT
  HttpAttempts,   \* HTTP_ATTEMPTS
  MaxSubmissions, MaxPublishFaults    \* bounds

ASSUME PublishAssumption ==
  /\ DOMAIN Versions = {"channel", "message"}
  /\ EditLimit \in Nat \ {0} /\ HttpAttempts \in Nat \ {0}
  /\ MaxSubmissions \in Nat /\ MaxPublishFaults \in Nat

VARIABLES
  kind,           \* of the destination
  submitted,      \* the versions handed in, in order
  answers,        \* what each caller was told: "none", "applied" or "refused"
  waiting, active, worker, last, attempts, retryLater, refusing, closing,
  recent_edits,          \* edits of name or topic in the last CHANNEL_EDIT_WINDOW
  remote,         \* what Discord shows
  doubtful,       \* fields a failed edit may have changed
  publishFaults

queueVars   == <<waiting, active, worker, last, attempts, retryLater, refusing, closing, recent_edits>>
publishVars == <<kind, submitted, answers, queueVars, remote, doubtful, publishFaults>>

Empty      == [fields |-> <<>>, waiters |-> {}]
Unsent     == <<>>
Submission == 1..MaxSubmissions

PublishInit ==
  /\ kind \in {"channel", "message"} /\ submitted = <<>> /\ answers = <<>>
  /\ waiting = Empty /\ active = Empty /\ worker = "none" /\ last = Unsent
  /\ attempts = 0 /\ retryLater = FALSE /\ refusing = FALSE /\ closing = FALSE /\ recent_edits = 0
  /\ remote = <<>> /\ doubtful = {} /\ publishFaults = 0

\* A field the new version does not set keeps the older value.
over(new, old) == [f \in DOMAIN new \cup DOMAIN old |-> IF f \in DOMAIN new THEN new[f] ELSE old[f]]

merged(new, old)       == IF kind = "channel" THEN over(new, old) ELSE new

Answered(waiters, result) ==
  answers' = [s \in DOMAIN answers |-> IF s \in waiters /\ answers[s] = "none" THEN result
                                                                         ELSE answers[s]]

PublishFault == publishFaults < MaxPublishFaults /\ publishFaults' = publishFaults + 1

-----------------------------------------------------------------------------
(* _submit *)

Submit(fields) ==
  LET s == Len(submitted) + 1
  IN  /\ s <= MaxSubmissions /\ submitted' = Append(submitted, fields)
      /\ IF closing \/ refusing
           THEN answers' = Append(answers, "refused") /\ UNCHANGED <<waiting, worker>>
           ELSE /\ answers' = Append(answers, "none")
                /\ waiting' = [fields  |-> merged(fields, waiting.fields),
                               waiters |-> waiting.waiters \cup {s}]
                /\ worker' = IF worker \in {"none", "waits"} THEN "looks" ELSE worker
      /\ UNCHANGED <<kind, active, last, attempts, retryLater, refusing, closing, recent_edits, remote,
                     doubtful, publishFaults>>

-----------------------------------------------------------------------------
(* _run *)

identical ==
  IF kind = "channel"
    THEN DOMAIN waiting.fields \subseteq DOMAIN last
           /\ \A f \in DOMAIN waiting.fields \cap DOMAIN last : last[f] = waiting.fields[f]
    ELSE last # Unsent /\ last = waiting.fields

limited(item) == kind = "channel" /\ "name" \in DOMAIN item.fields

must_wait       == retryLater \/ (limited(waiting) /\ recent_edits >= EditLimit)

Looks == worker = "looks" /\ waiting.waiters # {}
           /\ UNCHANGED <<kind, submitted, last, refusing, closing, remote, doubtful>>

Skip ==
  /\ Looks /\ identical
  /\ Answered(waiting.waiters, "applied") /\ waiting' = Empty
  /\ UNCHANGED <<active, worker, attempts, retryLater, recent_edits, publishFaults>>

WaitToSend ==
  /\ Looks /\ ~identical /\ must_wait /\ worker' = "waits"
  /\ UNCHANGED <<answers, waiting, active, attempts, retryLater, recent_edits, publishFaults>>

Take ==
  /\ Looks /\ ~identical /\ ~must_wait
  /\ active' = waiting /\ waiting' = Empty /\ worker' = "sends"
  /\ recent_edits' = IF limited(waiting) THEN recent_edits + 1 ELSE recent_edits
  /\ UNCHANGED <<answers, attempts, retryLater, publishFaults>>

\* A version that cannot be compared ends the worker with every caller answered.
Breaks ==
  /\ Looks /\ PublishFault
  /\ Answered(waiting.waiters, "refused") /\ waiting' = Empty /\ worker' = "none"
  /\ attempts' = 0 /\ retryLater' = FALSE
  /\ UNCHANGED <<active, recent_edits>>

WorkerEnds ==
  /\ worker = "looks" /\ waiting.waiters = {}
  /\ worker' = "none" /\ attempts' = 0 /\ retryLater' = FALSE
  /\ UNCHANGED <<kind, submitted, answers, waiting, active, last, refusing, closing, recent_edits, remote,
                 doubtful, publishFaults>>

Sent == /\ worker = "sends" /\ worker' = "looks" /\ active' = Empty
        /\ UNCHANGED <<kind, submitted, closing, recent_edits>>

Shows(fields) == remote' = over(fields, remote)
\* What a failed edit did in Discord.
MaybeShows ==
  \/ UNCHANGED <<remote, doubtful>>
  \/ Shows(active.fields) /\ doubtful' = doubtful \cup DOMAIN active.fields

Succeed ==
  /\ Sent /\ Shows(active.fields) /\ doubtful' = doubtful \ DOMAIN active.fields
  /\ last' = IF kind = "channel" THEN over(active.fields, last) ELSE active.fields
  /\ Answered(active.waiters, "applied")
  /\ attempts' = 0 /\ retryLater' = FALSE
  /\ UNCHANGED <<waiting, refusing, publishFaults>>

carried         == active.waiters

\* discord.HTTPException: what failed waits again, under a newer version if
\* there is one by now.
FailRetrying ==
  /\ Sent /\ PublishFault /\ attempts + 1 < HttpAttempts
  /\ waiting' = [fields  |-> IF waiting = Empty THEN active.fields
                                                ELSE merged(waiting.fields, active.fields),
                 waiters |-> IF waiting = Empty THEN active.waiters
                                                ELSE carried \cup waiting.waiters]
  /\ attempts' = attempts + 1 /\ retryLater' = TRUE
  /\ MaybeShows
  /\ UNCHANGED <<answers, last, refusing>>

\* Mutant: a failed version counts as shown.
known_after_failure_shown == IF kind = "channel" THEN over(active.fields, last) ELSE active.fields
known_after_failure       == last

\* The last attempt, an archived thread, or another exception.
FailFinally ==
  /\ Sent /\ PublishFault
  /\ Answered(active.waiters, "refused") /\ last' = known_after_failure
  /\ attempts' = 0 /\ retryLater' = FALSE
  /\ MaybeShows
  /\ UNCHANGED <<waiting, refusing>>

\* discord.NotFound and discord.Forbidden.
FailForGood ==
  /\ Sent /\ PublishFault
  /\ Answered(active.waiters \cup waiting.waiters, "refused")
  /\ refusing' = TRUE /\ waiting' = Empty
  /\ UNCHANGED <<last, attempts, retryLater, remote, doubtful>>

-----------------------------------------------------------------------------
(* Time and shutdown *)

WaitPasses == UNCHANGED <<kind, submitted, answers, waiting, active, last, attempts, refusing,
                          closing, remote, doubtful, publishFaults>>
Woken(held) == worker' = IF worker = "waits" /\ ~held THEN "looks" ELSE worker

RetryTime ==
  /\ retryLater /\ retryLater' = FALSE /\ WaitPasses
  /\ Woken(limited(waiting) /\ recent_edits >= EditLimit) /\ UNCHANGED recent_edits

WindowPasses ==
  /\ recent_edits > 0 /\ recent_edits' = recent_edits - 1 /\ WaitPasses
  /\ Woken(retryLater) /\ UNCHANGED retryLater

\* close: no more versions are taken.
Close ==
  /\ ~closing /\ closing' = TRUE
  /\ UNCHANGED <<kind, submitted, answers, waiting, active, worker, last, attempts, retryLater,
                 refusing, recent_edits, remote, doubtful, publishFaults>>

\* Mutant: only the version being sent is settled.
dropped_active == active.waiters
dropped        == active.waiters \cup waiting.waiters

\* _flush: the worker is cancelled at SHUTDOWN_TIMEOUT.
Cut ==
  /\ closing /\ worker # "none" /\ worker' = "none"
  /\ Answered(dropped, "refused") /\ active' = Empty /\ waiting' = Empty
  /\ attempts' = 0 /\ retryLater' = FALSE
  /\ MaybeShows
  /\ UNCHANGED <<kind, submitted, last, refusing, closing, recent_edits, publishFaults>>

PublishNext ==
  \/ \E fields \in Versions[kind] : Submit(fields)
  \/ Skip \/ WaitToSend \/ Take \/ Breaks \/ WorkerEnds
  \/ Succeed \/ FailRetrying \/ FailFinally \/ FailForGood
  \/ RetryTime \/ WindowPasses \/ Close \/ Cut

PublishSpec == PublishInit /\ [][PublishNext]_publishVars

\* The event loop runs the worker, Discord answers, and time passes.
PublishFair ==
  /\ WF_publishVars(Skip \/ WaitToSend \/ Take \/ WorkerEnds)
  /\ WF_publishVars(Succeed \/ FailRetrying \/ FailFinally \/ FailForGood)
  /\ WF_publishVars(RetryTime) /\ WF_publishVars(WindowPasses)
PublishFairSpec == PublishSpec /\ PublishFair

-----------------------------------------------------------------------------
(* Properties *)

Unanswered == {s \in DOMAIN answers : answers[s] = "none"}

\* The state has its shape, and whoever has no answer waits for the version
\* that is pending or the one being sent, which has a worker.
PublishTypeOK ==
  /\ Len(answers) = Len(submitted) /\ attempts \in 0..HttpAttempts - 1
  /\ worker \in {"none", "looks", "waits", "sends"}
  /\ waiting.waiters \cup active.waiters = Unanswered /\ waiting.waiters \cap active.waiters = {}
  /\ worker = "none" => Unanswered = {}
  /\ worker = "sends" <=> active # Empty

\* A channel's name and topic are edited no more often than Discord allows.
EditsStayInLimit == recent_edits <= EditLimit

\* Whoever is told that a version was applied finds it on Discord, or what
\* later versions made of it: field by field on a channel, one whole version
\* on a message.  A field is in doubt after an edit that failed and may have
\* changed it.
AppliedMeansShown ==
  \A s \in DOMAIN answers :
     answers[s] = "none" /\ answers'[s] = "applied" =>
       LET From(f) == {v \in s..Len(submitted) : f \in DOMAIN submitted[v]}
           Shown(v, f) == f \in doubtful' \/ (f \in DOMAIN remote' /\ remote'[f] = submitted[v][f])
       IN  IF kind = "channel"
             THEN \A f \in DOMAIN submitted[s] : \E v \in From(f) : Shown(v, f)
             ELSE \E v \in s..Len(submitted) : \A f \in DOMAIN submitted[v] : Shown(v, f)

\* When all is quiet a channel's field shows the newest of the versions that
\* were said to be applied, whatever was merged, retried or skipped.
NewestIsShown ==
  (kind = "channel" /\ Unanswered = {}) =>
    \A f \in (UNION {DOMAIN submitted[s] : s \in DOMAIN submitted}) \ doubtful :
      LET applied == {s \in DOMAIN answers : answers[s] = "applied" /\ f \in DOMAIN submitted[s]}
      IN  applied # {} =>
            f \in DOMAIN remote /\ remote[f] = submitted[CHOOSE s \in applied : \A o \in applied : o <= s][f]

\* What callers are told is what Discord shows, and it is told within the limit: what
\* every step keeps, of callers, of the worker and of shutdown.
ShownAsAnswered == [][(EditsStayInLimit /\ NewestIsShown)' /\ AppliedMeansShown]_publishVars

\* Every caller gets an answer, at shutdown too.
EveryCallerAnswered == []<>(Unanswered = {})
=============================================================================
