----------------------------- MODULE ResearchJobs -----------------------------
(***************************************************************************)
(* Research jobs: rows that a background runner and the members' requests   *)
(* move forward a page at a time.  A page is claimed with a lease, read     *)
(* from Discord and stored with the version the claim left; between these   *)
(* calls the job may be read, cancelled, claimed by another or expire       *)
(* (agent/research: repository.py, transitions.py, execution.py, runner.py, *)
(* tools.py, batches.py, history.py).                                       *)
(*                                                                          *)
(* Abstracted: the clock is what has lapsed on a row; a channel is the      *)
(* messages 1..Count, those in Wanted by the author the job asks for, and   *)
(* they stay as they are.  A page is chosen when it is stored: it depends   *)
(* on nothing but the claimed row.  A version is only ever compared with    *)
(* the one a claim left: it is whether the row has changed since.  The      *)
(* batch forms of the tools do the same to several rows.                    *)
(***************************************************************************)
EXTENDS Naturals, Sequences, FiniteSets, SequencesExt, Selections

CONSTANTS
  Jobs,              \* job ids, in the order of their text
  Workers, runner,   \* the background task, and requests that continue a job
  Count, Wanted,     \* the channel, oldest message first, and what the job asks for
  PageSize, WorkPerPoll,
  MaxJobPages, MaxJobMessages,
  MaxMishaps         \* bound: reads of a running job, failed pages, stops

ASSUME ResearchAssumption ==
  /\ Jobs \subseteq Nat \ {0}
  /\ runner \in Workers /\ "nobody" \notin Workers
  /\ Count \in Nat /\ Wanted \subseteq 1..Count
  /\ {PageSize, WorkPerPoll, MaxJobPages, MaxJobMessages} \subseteq Nat \ {0}
  /\ MaxMishaps \in Nat

VARIABLES
  jobs,      \* research_jobs
  hands,     \* what each worker holds, and whether the row still has its version
  queue,     \* the scopes run_once still goes through
  scanAfter, \* _scan_after_job_id
  mishaps

researchVars == <<jobs, hands, queue, scanAfter, mishaps>>

NoJob == [kind |-> "search", status |-> "none", cursor |-> 0, messages |-> <<>>, pages |-> 0, continuable |-> FALSE,
          cancelled |-> FALSE, error |-> FALSE, owner |-> "nobody",
          live |-> FALSE,      \* lease_expires_at is ahead
          recent |-> FALSE]    \* updated less than RESEARCH_JOB_RETRY_SECONDS ago
Idle == [stage |-> "idle", job |-> 0, same |-> FALSE]
Gone == [NoJob EXCEPT !.status = "gone"]
Stored == {j \in Jobs : jobs[j].status \notin {"none", "gone"}}

ResearchInit ==
  /\ jobs = [j \in Jobs |-> NoJob]
  /\ hands = [w \in Workers |-> Idle]
  /\ queue = <<>> /\ scanAfter = 0 /\ mishaps = 0

Unleased(row) == [row EXCEPT !.owner = "nobody", !.live = FALSE]

\* Every update of a row moves its version and its time on; `held` is what the workers hold.
Moved(j, held) == [w \in Workers |-> IF held[w].job = j THEN [held[w] EXCEPT !.same = FALSE] ELSE held[w]]
Update(j, row, held) == /\ jobs' = [jobs EXCEPT ![j] = [row EXCEPT !.recent = TRUE]]
                        /\ hands' = Moved(j, held)
Put(j, row)     == Update(j, row, hands)
PutBy(w, j, row) == Update(j, row, [hands EXCEPT ![w] = Idle])
Drops(w) == hands' = [hands EXCEPT ![w] = Idle]
Fails(w) == hands' = [hands EXCEPT ![w].stage = "failed"]
Mishap == mishaps < MaxMishaps /\ mishaps' = mishaps + 1

\* create_many
CreateJob(j) ==
  /\ jobs[j] = NoJob
  /\ \E kind \in {"history", "search"} :
       Put(j, [NoJob EXCEPT !.kind = kind, !.status = "queued", !.continuable = TRUE])
  /\ UNCHANGED <<queue, scanAfter, mishaps>>

-----------------------------------------------------------------------------
(* ResearchJobRunner.run_once, and continue_discord_research_job *)

\* Mutant: a job whose worker was lost is never taken up again.
claimable_idle(j) ==
  LET row == jobs[j]
  IN  /\ row.continuable /\ ~row.cancelled
      /\ (row.status # "waiting" /\ ~row.error) \/ ~row.recent
      /\ row.status \in {"queued", "partial", "waiting"}
claimable(j) ==
  LET row == jobs[j]
  IN  /\ row.continuable /\ ~row.cancelled
      /\ (row.status # "waiting" /\ ~row.error) \/ ~row.recent
      /\ \/ row.status \in {"queued", "partial", "waiting"}
         \/ row.status = "running" /\ ~row.live

\* ORDER BY job_id
ordered(ids) == CHOOSE s \in [1..Cardinality(ids) -> ids] : \A i, k \in DOMAIN s : i < k => s[i] < s[k]

claimable_scopes(after) ==
  LET ids == ordered({j \in Jobs : j > after /\ claimable(j)})
  IN  SubSeq(ids, 1, IF Len(ids) < WorkPerPoll THEN Len(ids) ELSE WorkPerPoll)

Scan ==
  /\ hands[runner] = Idle /\ queue = <<>>
  /\ queue' = (IF claimable_scopes(scanAfter) # <<>> THEN claimable_scopes(scanAfter)
                 ELSE claimable_scopes(0))
  /\ scanAfter' = (IF queue' # <<>> THEN Last(queue') ELSE 0)
  /\ UNCHANGED <<jobs, hands, mishaps>>

\* claim: a cancelled, finished or busy job is not worked on.
Claim(w, j) ==
  LET row == jobs[j]
  IN  IF j \notin Stored THEN UNCHANGED <<jobs, hands>>
      ELSE IF row.cancelled \/ row.status = "cancelled"
        THEN Put(j, Unleased([row EXCEPT !.status = "cancelled", !.continuable = FALSE]))
      ELSE IF ~row.continuable \/ (row.status = "running" /\ row.live)
        THEN UNCHANGED <<jobs, hands>>
        ELSE /\ jobs' = [jobs EXCEPT ![j] = [row EXCEPT !.status = "running", !.owner = w,
                                                        !.live = TRUE, !.recent = TRUE]]
             /\ hands' = [Moved(j, hands) EXCEPT ![w] = [stage |-> "reading", job |-> j, same |-> TRUE]]

\* advance_discord_research_job for the next scope, if its requester still has access.
TakeScope ==
  /\ hands[runner] = Idle /\ queue # <<>>
  /\ queue' = Tail(queue)
  /\ \/ Claim(runner, Head(queue)) /\ UNCHANGED mishaps
     \/ Mishap /\ UNCHANGED <<jobs, hands>>
  /\ UNCHANGED scanAfter

\* A request that continues a job.
Continue(w) ==
  /\ w # runner /\ hands[w] = Idle
  /\ \E j \in Stored : Claim(w, j)
  /\ UNCHANGED <<queue, scanAfter, mishaps>>

-----------------------------------------------------------------------------
(* A page: the messages it brings, and where the next one starts *)

newest_first(lo, hi) == [i \in 1..(IF hi < lo THEN 0 ELSE hi - lo + 1) |-> hi + 1 - i]
page_before(row) == IF row.cursor = 0 THEN Count + 1 ELSE row.cursor

\* history_page: as many messages as the page takes, or the rest of the channel.
window(row) == newest_first(IF page_before(row) > PageSize THEN page_before(row) - PageSize ELSE 1,
                            page_before(row) - 1)
wanted(s) == Picked(s, Wanted)
Page(found, next, deep, limited, end) ==
  [found |-> found, next |-> next, deep |-> deep, limited |-> limited, end |-> end]

\* Mutant: the messages left out of a page that was cut are not asked for again.
cut_before_end(row, k) == Last(window(row))
\* A page cut after k messages goes on before the last of them.
cut_before(row, k) == window(row)[k]

\* _read_history_page: the whole page, or as much of it as the characters allow.
HistoryPages(row) ==
  LET all == window(row)
      full == Len(all) = PageSize
      cuts == {k \in 1..(Len(all) - 1) : all[k + 1] \in Wanted /\ wanted(SubSeq(all, 1, k)) # <<>>}
  IN  {Page(wanted(all), IF full THEN all[PageSize] ELSE 0, FALSE, FALSE, ~full)}
        \cup {Page(wanted(SubSeq(all, 1, k)), cut_before(row, k), FALSE, FALSE, FALSE) : k \in cuts}

\* search_discord_messages: what Discord indexed so far, and where to go on.
SearchPages(row) ==
  LET ends == {<<0, TRUE, FALSE>>, <<0, FALSE, TRUE>>, <<0, FALSE, FALSE>>,
               <<row.cursor, FALSE, FALSE>>, <<row.cursor + 1, FALSE, FALSE>>}
  IN  {Page(f, e[1], e[2], e[3], e[1] = 0 /\ ~e[2] /\ ~e[3]) :
         f \in {<<>>} \cup {<<x>> : x \in Wanted}, e \in ends}

Pages(row) == IF row.kind = "history" THEN HistoryPages(row) ELSE SearchPages(row)

-----------------------------------------------------------------------------
(* checkpoint_page *)

budget_reached(pages, kept)      == pages >= MaxJobPages \/ Len(kept) >= MaxJobMessages

\* The row after a page.
Advanced(row, page) ==
  LET kept    == row.messages \o Picked(page.found, 1..Count \ ToSet(row.messages))
      pages   == row.pages + 1
      stuck   == page.next # 0 /\ page.next = row.cursor
      stopped == \/ Len(kept) > MaxJobMessages \/ page.limited \/ stuck
                 \/ budget_reached(pages, kept) /\ (page.next # 0 \/ page.deep)
      after(status, continuable, cursor) ==
        [Unleased(row) EXCEPT !.status = status, !.continuable = continuable, !.cursor = cursor,
           !.messages = SubSeq(kept, 1, IF Len(kept) > MaxJobMessages THEN MaxJobMessages ELSE Len(kept)),
           !.pages = pages, !.error = FALSE]
  IN  CASE stopped -> after("partial", FALSE, 0)
        [] ~stopped /\ page.next # 0 -> after("partial", TRUE, page.next)
        [] ~stopped /\ page.next = 0 /\ page.deep -> after("waiting", TRUE, row.cursor)
        [] OTHER -> after("completed", FALSE, 0)

still_held(w, row) == hands[w].same /\ row.status = "running" /\ row.owner = w

Checkpoint(w) ==
  LET j == hands[w].job  row == jobs[j]
  IN  /\ hands[w].stage = "reading"
      /\ IF j \in Stored /\ row.cancelled
           THEN PutBy(w, j, Unleased([row EXCEPT !.status = "cancelled", !.continuable = FALSE]))
         ELSE IF still_held(w, row)
           THEN \E page \in Pages(row) : PutBy(w, j, Advanced(row, page))
           ELSE Fails(w) /\ UNCHANGED jobs
      /\ UNCHANGED <<queue, scanAfter, mishaps>>

\* Discord does not answer, the page is refused, or access is lost.
PageFails(w) ==
  /\ hands[w].stage = "reading" /\ Mishap /\ Fails(w)
  /\ UNCHANGED <<jobs, queue, scanAfter>>

may_release(w, row)     == hands[w].same /\ row.owner = w

\* release_retryable; a conflict is passed over.
Release(w) ==
  LET j == hands[w].job  row == jobs[j]
  IN  /\ hands[w].stage = "failed"
      /\ IF may_release(w, row)
           THEN PutBy(w, j, [Unleased(row) EXCEPT !.error = TRUE,
                               !.status = IF row.pages > 0 THEN "partial" ELSE "queued"])
           ELSE Drops(w) /\ UNCHANGED jobs
      /\ UNCHANGED <<queue, scanAfter, mishaps>>

-----------------------------------------------------------------------------
(* What else happens to a job *)

cancelled(row) == Unleased([row EXCEPT !.status = "cancelled", !.continuable = FALSE, !.cancelled = TRUE])

\* cancel_many: by its requester, or because access was lost while it was created.
CancelJob(j) ==
  /\ j \in Stored /\ ~jobs[j].cancelled
  /\ Put(j, cancelled(jobs[j]))
  /\ UNCHANGED <<queue, scanAfter, mishaps>>

\* peek with touch: a member reads the job, and its version moves on.
Touch(j) ==
  /\ j \in Stored /\ Mishap
  /\ Put(j, jobs[j])
  /\ UNCHANGED <<queue, scanAfter>>

\* JOB_LEASE_SECONDS pass; a page takes less than that, except in a mishap.
LeaseEnds(j) ==
  /\ jobs[j].live /\ jobs' = [jobs EXCEPT ![j].live = FALSE]
  /\ IF \E w \in Workers : hands[w].job = j /\ hands[w].same THEN Mishap ELSE UNCHANGED mishaps
  /\ UNCHANGED <<hands, queue, scanAfter>>

RetryTimePasses(j) ==
  /\ jobs[j].recent /\ jobs' = [jobs EXCEPT ![j].recent = FALSE]
  /\ UNCHANGED <<hands, queue, scanAfter, mishaps>>

\* JOB_IDLE_SECONDS after the last change, which a page in hand never takes: prune deletes the
\* row, every minute, or whoever claims it first.
Expire(j) ==
  /\ j \in Stored /\ ~jobs[j].live /\ ~jobs[j].recent
  /\ \A w \in Workers : hands[w].job # j
  /\ jobs' = [jobs EXCEPT ![j] = Gone]
  /\ UNCHANGED <<hands, queue, scanAfter, mishaps>>

\* A request runs out of time: its page is lost and its lease stays.
Abandon(w) ==
  /\ w # runner /\ hands[w] # Idle /\ Drops(w) /\ Mishap
  /\ UNCHANGED <<jobs, queue, scanAfter>>

\* The bot stops and starts.
RestartJobs ==
  /\ Mishap
  /\ hands' = [w \in Workers |-> Idle] /\ queue' = <<>> /\ scanAfter' = 0
  /\ UNCHANGED jobs

PageStep(w) == Checkpoint(w) \/ Release(w)

ResearchNext ==
  \/ Scan \/ TakeScope \/ RestartJobs
  \/ \E w \in Workers : Continue(w) \/ PageStep(w) \/ PageFails(w) \/ Abandon(w)
  \/ \E j \in Jobs : \/ CreateJob(j) \/ CancelJob(j) \/ Touch(j) \/ LeaseEnds(j)
                     \/ RetryTimePasses(j) \/ Expire(j)

ResearchSpec == ResearchInit /\ [][ResearchNext]_researchVars
-----------------------------------------------------------------------------
(* Properties *)

Statuses == {"none", "gone", "queued", "running", "partial", "waiting", "completed", "cancelled"}
JobRows == [kind : {"history", "search"}, status : Statuses, cursor : Nat,
            messages : Seq(1..Count), pages : Nat, continuable : BOOLEAN, cancelled : BOOLEAN, error : BOOLEAN,
            owner : Workers \cup {"nobody"}, live : BOOLEAN, recent : BOOLEAN]

\* Types, and what decode_research_job refuses to read: a lease belongs to a running job
\* and to no other, a finished job is not continued, and no budget is exceeded.
ResearchTypeOK ==
  /\ jobs \in [Jobs -> JobRows]
  /\ hands \in [Workers -> [stage : {"idle", "reading", "failed"}, job : Jobs \cup {0},
                           same : BOOLEAN]]
  /\ queue \in Seq(Jobs) /\ scanAfter \in Jobs \cup {0} /\ mishaps \in 0..MaxMishaps
  /\ \A j \in Jobs :
       LET row == jobs[j]
       IN  /\ (row.status = "running") = (row.owner # "nobody")
           /\ row.live => row.status = "running"
           /\ row.status \in {"completed", "cancelled"} => ~row.continuable

\* A job never holds more than its budget, which decode_research_job would refuse to read
\* ever after, and never holds a message twice.
JobsStayReadable ==
  \A j \in Stored : /\ jobs[j].pages <= MaxJobPages
                   /\ Len(jobs[j].messages) <= MaxJobMessages
                   /\ IsInjective(jobs[j].messages)

\* The history a job holds has no hole: it is the newest of the wanted messages, all those
\* after its cursor while it goes on, and every one once it is complete - whatever pages
\* were cut, failed, or read twice by workers that lost their lease (history.py: "so no
\* omitted matching message is skipped").
HistoryHasNoHoles ==
  \A j \in Stored : jobs[j].kind = "history" =>
    LET row == jobs[j]  newest == newest_first(1, Count)
    IN  /\ IsPrefix(row.messages, wanted(newest))
        /\ row.cursor > 0 => row.messages = wanted(newest_first(row.cursor, Count))
        /\ row.status = "completed" => row.messages = wanted(newest)

\* A cancelled job stays so: no page in hand, retry or release takes it up again.
CancelledStaysCancelled ==
  \A j \in Jobs : jobs[j].cancelled =>
    jobs'[j] = Gone \/ (jobs'[j].status = "cancelled" /\ jobs'[j].messages = jobs[j].messages)

\* A job loses and repeats nothing: what every step of a runner, an asker or a lapsed
\* lease keeps.
ResearchLosesNothing ==
  [][(JobsStayReadable /\ HistoryHasNoHoles)' /\ CancelledStaysCancelled]_researchVars

\* The runner's polling goes on, a page in hand is stored or released, leases lapse and
\* the time between retries passes.
ResearchFair ==
  /\ WF_researchVars(Scan) /\ WF_researchVars(TakeScope)
  /\ \A w \in Workers : WF_researchVars(PageStep(w))
  /\ \A j \in Jobs : WF_researchVars(LeaseEnds(j)) /\ WF_researchVars(RetryTimePasses(j))
ResearchFairSpec == ResearchSpec /\ ResearchFair

\* Every job comes to an end without its member, whatever worker is lost with its lease
\* (docs/developers/agent.md).
ResearchEnds == []<>(\A j \in Jobs : ~jobs[j].continuable)
=============================================================================
