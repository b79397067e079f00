# A verification project for Elbow Helper

Elbow Helper is a Discord bot for a family of Clash of Clans clans. It is one
asyncio process over several SQLite databases. Most of its 127 000 lines are
reads, formatting and Discord interface. What a specification can say something
about is the part that *acts*: the agent that changes things after a
confirmation, the rules that act later on behalf of a member, and the features
that keep shared state (roles, slots, queues, claims) consistent while members
click, tasks poll and the process restarts.

This directory holds the TLA+ modules, the TLC instances, the TLAPS proofs and
the inventory they work through. Paths below are relative to
`elbow_helper/` unless they start with `docs/` or `tests/`.

## 1. Inventory

### Agent (`agent/`)

| Part | State | Operations | Hard behaviour | What makes it correct |
|---|---|---|---|---|
| Standing rules (`scheduled/store.py`, `runner.py`, `tools.py`, `dm_controls.py`) | rows of `saved_requests` and `watchers` (status, next run, version, lease, schedule and count inside `rule_json`); in memory a poll, one task per claimed rule, a lock per member | save, replace, pause, resume, cancel, stop as recipient; expire, read due, claim, run, finish, release, recover | edits during a run, stale copies in the poll's batch and in previews, crashes between a delivery and its record, failed store calls, a poll that fails | one run per rule, a run works on what is saved, no repeated delivery, a halted rule stays halted, every due rule runs, rules of a member keep apart |
| Confirmed changes (`actions/preview.py`, `runner.py`, `store.py`, `report.py`) | the preview's buttons (memory); `action_runs`, `action_steps`, `action_log`; one task per run; `_ready` | offer, confirm, cancel, expire, submit, stop, claim, start, bind, run, verify, record, report, recover, unload | double clicks, stops racing a step, timeouts whose effect comes later, crashes around an external change, recovery racing a new run | confirmed once, in order, at most once each, recorded before it happens, reported truthfully, always settled |
| Undo and targets (`actions/undo.py`, `targets.py`) | none | prepare one more preview | the object changed since | rechecks of each handler |
| Discord operations (`discord_actions/`) | Discord | roles, nicknames, messages, threads, DMs | lost answers | contract: `run` and `verify` as `ActionRuns` assumes them |
| Requests (`cog.py`, `delivery.py`) | member locks, conversation locks, queue counts, the delivery of an answer in parts | queue, run, cancel, deliver, look for an uncertain part | lock order, queue limit, messages announced twice, lost responses | one request per member and per conversation at a time (`docs/developers/agent.md`); an uncertain send is checked, not repeated |
| Conversations (`conversation/`) | loaded conversations, snapshots with revisions, reply links | find, create, touch, drop, save, restore, prune | snapshots read while requests go on, memory that makes room, outcomes that come from outside a request | a saved turn stays saved; no conversation is dropped under its request |
| Research jobs (`research/`) | leased background jobs, a page in hand | create, claim, lease, checkpoint, release, cancel, expire | a lease that lapses under its worker, cancellation of a page in hand, budgets | no hole and no repetition in what is collected, every job ends |
| Plan engine (`engine/`, `plan/`) | one request's plans, shared lookups | check, run steps, answer | shared futures, a semaphore, cancellation | steps run after the steps they use, equal reads share one lookup unless they must be fresh, nobody waits for ever |
| Reads, files, families, knowledge, datasets, reports, capabilities, commands | caches | lookups | - | access checks |

### Features (`features/`) and data (`data/`)

| Part | State | Hard behaviour | What makes it correct |
|---|---|---|---|
| Clan transfers | queue and its events in SQLite, the message and the board that show it | commands, the clear button, the expiry loop and member deletion under one lock per clan and one of the store | one open request per member, queue and events agree, both are shown |
| Rosters | sign-ups, cycles, posts | capacity under concurrent sign-ups, roles shared with wars and other rosters | no over-booking, shared roles |
| Wars and CWL | the war cache, roles, boards, bonus votes, season threads | sends without an answer, a sweep beside the passes, shared roles cleaned up by two workflows | one summary per war; "War and roster cleanup must keep a shared role while either workflow still requires it" (`docs/developers/architecture.md`) |
| Hibernation | saved progress per member, roles | a dozen changes of which any may fail, taken over by another command | what was taken comes back, once |
| Recruitment, examination, support tickets | tickets and trials in small tables | deadlines across restarts | one open ticket per member |
| Account links | claims of player tags | two members claim one tag | one owner per tag |
| Achievements, role connections, event statistics, clan health, clan reporting | derived records | mostly sequential | - |
| Leadership news | prompts and receipts in SQLite, posts without a receipt in memory | a post whose receipt is not stored, prompts across restarts | an update is posted once, a prompt goes |
| Member lifecycle, automation, attack plans, help, diagnostics | little or none | event handlers of one or two steps | - |
| Collected game data (`data/collectors`, `events`, `store`) | snapshots and events in SQLite | incomplete answers, restarts between snapshot and event | "Incomplete Clash responses must not erase the last complete account locations, clan boards, or live-war state" |
| Profiles on demand (`data/collectors/demand.py`) | shared fetches, a background writer, a record that scheduled passes write too | callers that leave, profiles that land during a write, a profile that waits while a pass stores another | a fetch is lost neither to those who share it nor to the record |
| Publishing (`infrastructure/discord/publishing.py`) | per message or channel the version that waits and the one being sent | merging, retries, rate limits, shutdown | who is told "applied" finds it shown |
| Other infrastructure, core, configuration, domain | connections, settings | - | used through their contracts |

The parts meet in few places: a saved request submits an action run and waits for
it; previews of `save_standing_rule` and `manage_standing_rule` are themselves
confirmed changes; wars and rosters share roles; everything reads the family
database. Nothing is shared between threads except through SQLite: store methods
run in worker threads, each in one `BEGIN IMMEDIATE` transaction, and everything
else interleaves only at `await`.

`PROJECT.json` lists each part with what is modelled of it, and under `hazards`
what is hard to test, at its line.

## 2. Modules

| Module | Models | State in the code |
|---|---|---|
| `StandingStore` | `scheduled/store.py`, `time_rules.py`: one row and what each statement makes of it | a row; `may_<method>` is a WHERE clause with the early returns, `<method>` the row written |
| `StandingRules` | `scheduled/runner.py` with the member operations of `tools.py` and `dm_controls.py`, deliveries, restarts | `row` the tables, `poll` the `_main` task, `work` the `_execute` tasks by lease owner, `draft` open previews, `now` the clock |
| `MCStandingRules` | small instances | |
| `StandingRulesProofs` | types, leases, halted rules, versions, and that a run works on what is saved | |
| `StandingDeliveryProofs` | that active rules keep apart, what is delivered how often, and which step leaves a rule without a next run | |
| `CheckedChange` | abstract: what a member relies on when confirming a preview | |
| `ActionRuns` | `actions/preview.py`, `runner.py`, `store.py`, `report.py` | `view` buttons, `run`/`step`/`log` the tables, `task` the `_execute` tasks, `boot` the `recover` task, `effect`/`late` the outside world |
| `MCActionRuns` | small instances | |
| `ActionSafetyProofs` | types of `ActionRuns`, its four safety invariants, that it implements `CheckedChange`, and what makes a report wrong | |
| `DestinationSpacing` | `scheduled/destination_limits.py`, with `time_rules.py` and what moves a rule's times | `row` the schedule, due time and count of one member's rules; `progression`, `calendar_times`, `sequences_conflict` ... are the functions of the file |
| `MCDestinationSpacing` | small instances | |
| `DestinationSpacingProofs` | the comparison of two rules is exact, planned times keep apart, refusals have a reason, types | |
| `AgentRequests` | `agent/cog.py`, `agent/conversation/`: from the Discord event to the saved turn | `loaded` the store, `work` the calls, `disk`/`revs`/`writer` the snapshots |
| `Selections` | the folds over a dictionary that `conversation/state.py` and its neighbours keep in order: what is picked, what is left out | |
| `ReplyDelivery` | `agent/delivery.py`, `conversation/state.py`: one answer in parts | `segment`/`index` the loops over the parts, `delivery` the progress, `record` its saved form, `posted`/`onTheWay` Discord |
| `ResearchJobs` | `agent/research/` | `jobs` the table, `hands` the workers' pages |
| `PlanSteps` | `agent/plan/executor.py`, `agent/engine/steps.py` | `stage`/`outcome` the steps' tasks, `reads` the shared futures |
| `WatcherAlerts` | `agent/scheduled/requests.py`, `watchers.py`: what a check sees, judges and remembers | `watcher` the row, `check` its run |
| `ReminderStops` | `dm_controls.py`, `tools.py`, `discord_actions/direct_messages.py` | `reminder` the row, `sending` the run, `change` a preview |
| `ClanTransfers` | `features/clan_transfers/`, `data/events/` | `queued`/`log` the tables, `turn` the commands with their two locks |
| `Hibernation` | `features/hibernation/` | `entry` the saved progress, `doing` the step under way |
| `NewsPublishing` | `features/leadership_news/cog.py` | `newsDb` the rows, `newsState` their copy, `uncommitted` posts without a receipt |
| `WarSummaries` | `features/wars/warflow.py`, `tasks.py`, `state.py`, `emojis.py` | `registry`/`processed` memory, `cacheFile` the file, `passAt` and `sweep` the two tasks |
| `RoleClaims` | `features/wars/roles.py`, `features/rosters/services/` (`roles.py`, `automation.py`) | `lineup`/`managed` the war's claim, `signed` the sign-ups, `pass` and `task` the lock holders |
| `Profiles` | `data/collectors/demand.py`, `service.py`, `data/store/players.py` | `flight` the shared fetch, `unstored`/`batch` the writer's, `scheduled` the pass that writes the same record |
| `Publishing` | `infrastructure/discord/publishing.py` | `waiting`/`active` the two versions, `answers` the callers' futures |
| `AgentJobsProofs` | safety of `WatcherAlerts`, `ReminderStops`, `ResearchJobs`; lemmas on `Selections` | |
| `AgentProofs` | safety of `AgentRequests`, `ReplyDelivery`, `PlanSteps`; which answers cannot be confirmed | |
| `FeatureProofs` | safety of `Profiles`, `NewsPublishing`, `ClanTransfers`, `WarSummaries`, `RoleClaims`, `Hibernation`, `Publishing` | |
| `MCReplyDelivery`, `MCFeatures` | small instances | |
| `MCFeaturesProofs` | the sum of the components behaves as each of them, keeps its types and their properties | |

### How an action corresponds to code

A step is what happens between two awaits that others can get in between: one
transaction or one outside effect. `_execute_rule` therefore becomes
`CheckRule`, `TakeMemberLock`, `ClearTarget`, `Deliver`, `RunEnds`, `Finish`, with
`DestinationUnavailable`, `RuleRaises`, `RunFails`, `ModelUnavailable`,
`FinishRaises` and `Release` for its error paths. `tick` becomes
`ExpireStanding`, `ReadDue` and one `ClaimStanding` per row of the batch, because
each is a transaction of its own, and `PollRaises` when one of them raises. The
task keeps the row as it was read before the claim (`snap`), as the code does.

In `ActionRuns`, `_execute` and `_run_step` become `Claim`, `ShowProgress`,
`NextStep` (reads `stop_requested`), `StartStep`, `CheckStep`, `Call`, `Verify`,
`RecordCompleted` or `JudgeStep` and `RecordFailed`, `CloseRun` or `AbortRun`,
`PostReport`. `Call` is where the outside world is uncertain: the effect happens,
or not, or is still to come (`late`, `Settle`), whatever the code is told: also a call
that is refused in the end may have done something (`delete_selection` checks access
between its deletions, and `_uncertain` takes a connection error that is no `OSError`
for a definite failure).
`Shutdown` is `cog_unload`: tasks are cancelled, and a cancelled run still goes
through its `finally` clause. `Crash` is the process dying; both are followed by
`InterruptIncomplete` and its reports.

In `DestinationSpacing` the functions of the file are operators, with the code's floor
divisions (`\div` on integers rounds down, as `//` does). A conflict is a yes or no
here; the pair of times the code returns is only shown in a message. Around them are
the operations that change what the functions are asked about: `Save`, `Pause`,
`Resume`, `Run`, `Skip`, `Expire`. Leases, versions and failures are left to
`StandingRules`, which in turn knows only a relation `Clash`.

In the modules of the other components a step is again what lies between two awaits.
`AgentRequests` follows a message through `Arrive`, `ReadSnapshot`/`Restore`, `Enter`,
`EnterConversation`, `EnterMember`, `EnterSlot`, `Send`, `RecordTurn`, `BeginSave`,
`EndSave`; `GiveUp`, `StoreFails` and `Restart` are its ends. `ReplyDelivery` has one action
per attempt and one per answer that Discord may give. In `ResearchJobs` a page is
claimed, read and stored in three actions, with everything that members and the clock may
do to the row in between. In `PlanSteps` a step goes through the checks of
`engine/steps.py` one await at a time, as the semaphore and the shared future make the
order visible. `RoleClaims` puts the pass of the war beside the tasks of the rosters: each
question to the other side and each request to Discord is an action, and the answer is
used one action later, as in the code. `LeaveRoster` is what is followed by a look at the
roles: an opt-out, a removal, a clearing, a scheduled opening that resets. `StartCycle` is a
cycle that an opening or a post of the roster begins, which drops the sign-ups and leaves the
roles; where a scheduled opening carries the members over, `SignUp` follows for each.
`PassBreaksOff` and `RosterBreaksOff` are connections that are lost: the code catches what
Discord answers and nothing else.

`MCFeatures` puts the thirteen components above (`AgentRequests` to `WarSummaries`, and
`RoleClaims`) that share no variable into one specification, a sum: `subject` names the component that moves
in this behaviour, and the others rest in one initial state. The runs of it explore each
component on its own, not their product, and a property of a component that rests holds
of its initial state. What the components share in the program is what each module names
as outside (Discord, the clock, a database that fails).

Variables named as *history* in the modules (`sent`, `unsaved`, `halted`, `told`,
`lost`, `got`, `posts`, `turns`) are not in the code. They record what a property needs, and no action
reads them except to record.

### Abstractions

- Text, wording, destinations, channels and identifiers are left out. The
  outcomes of a request's model answer are a choice among the outcomes the runner
  distinguishes.
- Weekly and monthly schedules are repeating ones: `next_occurrences` treats them
  alike except for calendar arithmetic. Times are small integers.
- In `StandingRules`, which two schedules come too close is the relation `Clash`;
  `DestinationSpacing` has the arithmetic that decides it.
- In `DestinationSpacing` a weekly or monthly rule is a set of instants that comes
  round every `Cycle`, as the code treats it with its cycle of 400 years. Timezones,
  and the cap at the year 9999, are left out.
- One preview per rule is open at a time. A second one replaces the first, which
  loses no behaviour of the store: the earlier one is refused by its version.
- `verify` says "done" only of a change that is there (`judged`). It may deny
  a change that is there, fail, or not be defined.
- In `ActionRuns` all steps of a preview differ only in whether their targets come
  from earlier results (`Bound`).
- A conversation is the set of its turns and of the answers that may be replied to
  (`AgentRequests`); a channel is the messages 1 to `Count` (`ResearchJobs`); a plan is each
  step's needs, its key and whether it changes something (`PlanSteps`); the data a watcher reads is one value, and
  the model's verdict on it is right (`WatcherAlerts`); a published version is a function
  from fields to values (`Publishing`).
- Clocks are what has lapsed: a lease, six hours of silence, the life of a request, a
  prompt or a summary.
- Sends that fail may have taken effect wherever the code cannot know. In `ReplyDelivery` a
  failure that the code takes for a refusal (`delivery.py:804`: whatever is no `OSError`, no
  timeout and no 5xx) is one; a connection error of another class after Discord took
  the message would post a part that counts as refused.
- In `AgentRequests` a conversation does not reach six hours of silence while a caller of
  its first message is at work (`Silence`). In the code it can, without an effect:
  what has a pending caller or a lock that is held is not dropped (`state.py:445`).
- In `WarSummaries` a summary has one of `Wordings`: its title, description and time as the pass
  rendered them, by which a later pass recognises it. Which of them is a choice
  of each pass.
- In `PlanSteps` reads that are not shared (`read_clash`, `read_current_war` and reads that must be
  fresh) are steps with `shares` false; a result is good, an error, or flagged as failed.
- In `RoleClaims` Discord's answer and the member cache change together, the accounts of a
  member are one sign-up, and a pass has one clan. `adrift` are the members whose role no
  workflow will take: its removal was refused, cut off by a restart or a lost connection, or not
  begun, because a cycle that somebody opened dropped their last sign-up or because the pass that
  put them in the lineup broke off before it managed them.
- In `WarSummaries` a war does not begin before the program has looked at the one before it.
- A cancelled task whose worker thread still commits its transaction is the
  transaction followed by the cancellation.

## 3. Runs

All bounds are constants of the cfg files. Crashes, outages and failed store
calls share one budget, `MaxFaults`: what matters is which two of them come
together, and the interesting pairs (a message sent, the finish failing, the pause
failing) need at most three. Runs with two rules or two previews have fewer; the
proofs of section 4 have no bound.

| Run | Instance | Shows |
|---|---|---|
| `StandingRules_member` | one rule: reminder to the channel or to DMs, one-off, two-run or ending schedule, two owners, 3 edits, 2 faults, 3 instants | types; a run works on what is saved; a halted rule stays halted; an occurrence is delivered once; one run per rule |
| `StandingRules_pair` | a clashing request and watcher of one member, batch limit 1, 3 edits, 1 fault | active rules keep apart; the version names the row while the poll alternates between the tables; every run ends; every due rule is taken |
| `StandingRules_lostonce` | one one-off rule | expected violation, see findings |
| `ActionRuns_record` | two previews, two runs, two steps, 1 fault | types; every effect is logged first with its final targets; runs and tasks match; the log follows the steps; "done" means done |
| `ActionRuns_promise` | one preview, two runs, 3 faults | `ActionRuns` implements `CheckedChange`; every confirmation is answered and every stored run settles |
| `ActionRuns_nothing` | one run, no fault | expected violation, see findings |
| `DestinationSpacing_apart` | two rules of every kind; without run counts late by up to two steps, with run counts on time | types; planned times keep apart; refusals have a reason |
| `DestinationSpacing_shifted` | run counts, one pause or skipped run | expected violation, see findings |
| `Features` | the sum, all thirteen subjects: four messages of two members in two conversations (requests do not fail here), 24 shapes of an answer, 2 runs and 2 changes of a reminder to two, 2 movers, 4 commands of a hibernation and 1 failure of its steps, 2 wars in 2 wordings, 2 rosters beside a war, 1 to 3 faults each | the safety of requests, answers, watchers, reminders, transfers, hibernation, war summaries and war roles; types of all |
| `FeaturesLive` | the sum, six subjects with their fairness: a message announced more than once with 2 failures or restarts of requests and no six hours of silence, one research job over four messages with two workers, four plans with lookups that are shared and that are not, 3 edits with 2 faults, 3 callers of a profile, 3 presses on a prompt | the safety and the liveness of requests, research, plans, publishing, profiles and news |
| `ReplyDelivery_found` | answers with a GIF | expected violation, see findings |
| `RoleClaims_needed` | two members, two rosters, two lineups, no fault | expected violation, see findings |

The properties of the sum are conjunctions, one per component, each about what its
operations have to keep together; the parts have names and comments in the modules:
`RequestsInOrder` (locks, snapshots, dropped conversations, repeated messages),
`OneAnswerInFull`, `ResearchLosesNothing`, `StepsRunAsPlanned`, `AlertsTellNews`,
`StopsAreRespected`, `QueueIsTrue`, `HibernationUndone`, `PostedOnceForGood`,
`OneSummaryPerWar`, `RoleHasAnOwner`, `FetchesAreKept`, `ShownAsAnswered`. Parts that compare
a state with the next one are action formulas, and such a property is one `[][...]_vars`.

Why the bounds are enough: two owners let a rule be claimed again while its
first task is still ending. Three instants cover before, at and after a due time
and the end of an ending schedule, and two occurrences of a repeating one. Three or
four edits allow save, pause, resume and one more around the same run. Two steps
let the first take effect and the second fail, be stopped or be cut off; a second
preview lets a fresh run meet the recovery of an old one. `Owners` is a symmetry
set where only safety is checked.

In the sum, each instance has the least number of actors that can disturb each other and
one more: a third conversation for a store of two, a reply to an answer whose conversation
was dropped meanwhile, two workers for one lease, two equal reads beside a change, an answer
with two parts and an addition of two, a member who leaves one roster while another takes
the member in. Two or three faults let one call fail and its repair fail as well, or the
process restart in between. Two wordings let a pass miss the summary of another. `MaxCopies`, `MaxSubmissions`, `MaxPlans`, `MaxCommands`,
`MaxMoves`, `MaxChanges`, `MaxWars`, `MaxLineups` and `MaxSignups` bound how often members or the game begin
something new.

For the spacing, `Gap` is 2, so that a difference of 1 crowds and one of 2 does not:
both sides of the boundary that the code draws at 60 seconds. The periods 3, 4, 6 and
8 meet each other and `Cycle` (8) with a common divisor and without one, so that both
"never", "sometimes" and "always" occur for the meeting of two sequences. The reference
definition lists the times up to `Horizon` (48) and knows nothing of progressions. It
has to see a collision that exists: 24 is the largest least common multiple of two
endless rules that are compared, a repeating rule starts below 24, and one-offs and
schedules with an end are over before 48. That the instance is such (`HorizonSees(24)`) is
an assumption of `MCDestinationSpacing` that TLC evaluates, `FarEnough`.

Deadlock is not checked: with the clock, the edits and the faults used up the
models stop, and so may the bot with nothing to do.

### Fairness

`StandingRules`: the poll goes on (`WF` of its next step: `_main` loops for ever,
catching what `tick` raises), every task goes on (each await has a timeout of its
own), and a task that waits for its member's lock is not passed over for ever (`SF`
of `TakeMemberLock`: `asyncio.Lock` is FIFO). The clock and members owe nothing.
`ActionRuns`: the recovery task, each submit, each run's task go on, and a bot that
was shut down is started again. Faults are never fair; that they stop at a bound
is what "eventually" is relative to.
`AgentRequests` (`RequestFair`): each call goes on when it can; weak fairness is enough as
each call asks for a lock once, so that nobody who waits is passed over for ever. `ResearchJobs` (`ResearchFair`): the polling loop goes on, a page
in hand is stored or released, leases lapse, the time between retries passes; members owe
nothing. `PlanSteps`: the steps of a plan go on (`PlanGoesOn`). `Publishing` (`PublishFair`): the worker
goes on, a request to Discord ends one way or another (it has a timeout), retry and rate
windows pass. `Profiles` (`ProfileFair`): a fetch ends, a cancelled one ends, the writer goes on.
`NewsPublishing` (`NewsFair`): the task that watches a prompt wakes up, while there is one: a broken
connection ends it until the next start (`SavedPromptGoes` excepts that by `unwatched`). In `FeaturesFairSpec` each
component that rests owes nothing.

## 4. Proofs

TLC covers the instances above. TLAPS proves, for every number of rules, members,
owners, schedules, edits, faults and instants, from the assumptions
`OwnersAssumption`, `SchedulesAssumption` and `RulesAssumption` that the modules
state about their constants:

- `TypeCorrect`: `Spec => []TypeOK`. `OccurrenceType` shows that the time rules
  return an instant, `StoreTypes` that each statement writes a row.
- `NeverOverlaps`: `Spec => []SameRuleNeverOverlaps`. The property is not inductive:
  two tasks of one rule could only be excluded by the lease. `LeaseInv` adds that a
  task that has not ended holds the lease of its rule (`LeaseHeld`), that nothing runs
  before recovery (`StartsIdle`: recovery takes every lease, so it must not run
  beside tasks) and that a rule nobody saved has no lease (`AbsentIsFree`: the first
  save overwrites the row). A row has one lease, so two such tasks are one.
- `HaltedStays`: `Spec => []HaltedRuleStaysHalted`. `HaltInv` says which statuses a
  halted rule has: exactly those that `finish_standing` keeps.
- `VersionSuffices`: `Spec => []VersionNamesRow`. `VersionInv` says that every copy of a
  row is no newer than the row and equals it when the version does; `Moved` is what a
  step may do to a row. The first save restarts the version at 0, so the invariant
  also needs that the poll never copied an unsaved row (`AbsentRows`, `BatchCopies`).
- `RunsTheSavedRule`: `Spec => []RunsWhatIsSaved`, from `LeaseInv` and `VersionInv`: at the
  claim the row is the one that was read, and afterwards the lease keeps
  `replace_standing` away.

For every number of previews, runs, steps, bound steps and faults, from
`ActionsAssumption`:

- `RunTypesCorrect`: `Spec => []TypeOK`. Two facts make the types inductive: a task that
  works on a step has an index that names one and, once judged, remembers an outcome
  for it (`TaskTypes`); and a run that has a task has a preview (`NamedRuns`). The
  lemmas `TaskMoves`, `JudgeMoves` and `FinishMoves` say once how each action moves a
  task; all later proofs use them.
- `LogAgrees`: `Spec => []LogFollowsSteps`. Inductive with the types. Only four actions
  write a step or its log row (`OthersDoNotWrite`), and each writes both.
- `EffectsAreLogged`: `Spec => []EveryEffectIsLogged`. `LoggedInv` adds that a task reaches
  the check with its row begun and the call with final targets. It needs that a row is
  never begun twice, which would make final targets provisional again: start_step asks
  for a queued step, and a queued step has no row (`LogFollowsSteps`). It also needs
  that a run's preview is set once (`UnstoredUnnamed`), so that a witness stays one.
- `DoneIsTrue`: `Spec => []DoneMeansDone`. `DoneInv` says that wherever "completed" is
  written, in a row or in a task's memory, the step took effect, and that a task past
  its call without an error has seen it take effect. Effects are never taken back
  (`EffectStays`). The proof takes `verify` at its word when it confirms a change.
- `TasksMatchRuns`: `Spec => []TasksAndRunsMatch`. `RunMatches` follows the start of the
  process: no task before recovery is over, only reports while it shuts down, and
  after recovery every run without a task is finished or lost to the store.

About the spacing, from `SpacingAssumption` and `SchedulesAssumption`:

- `NearPointExact`: `_near_point`, which looks at two points of a progression, finds one
  within the gap exactly when the progression has one.
- `ProgressionsExact`: `progressions_conflict` answers whether some two points of two
  progressions come too close. The only hard case is two endless ones: every common divisor of
  the steps divides every difference of two points, and the inverse that the code computes
  gives back one pair of points for each difference the divisor allows, as late as one likes;
  so looking at the differences within the gap is enough. Bounded ones and single points come
  down to `NearPointExact`.
- `ConflictExact`: `schedules_conflict` reports two rules exactly when a time to come of the one is
  too close to a time to come of the other. `Comes` says which those are without a
  horizon: an instant of the schedule, not before the due time, not after the end, and with
  fewer runs before it than the rule has left. Calendars take most of the proof. A counted calendar is cut
  into progressions, one per instant of its cycle, and the runs left are shared out among
  them: the number of instants before a time is counted cycle by cycle. Two
  endless calendars are compared over one cycle only, which is enough as a pair that is
  close later moves back, cycle by cycle, to one that is close early (`CloseEarly`).
- `SpacingTypeCorrect`: `Spec => []TypeOK`.
- `TimesKeepApart`: `Spec => []PlannedTimesKeepApart`, for schedules in which no rule that may
  miss a run (`Irregular`) has a run count. `SpacingInv` speaks of all times to come instead of
  those below a horizon (`TimesApart`). For it to stay true, due times must be instants of their
  schedules (`DueOccurs`), and a rule with a run count must run exactly at its due time
  (`CountedOnTime`: the clock waits for such a rule). Then a run or a skipped run
  only takes times away, and a rule that is saved or resumed was compared with the others by an
  exact comparison. The hypothesis leaves out what the finding *Run counts shift* is about and
  nothing else: with it the instance of `DestinationSpacing_apart` holds, without it that of
  `DestinationSpacing_shifted` is violated.
- `RefusalsExplained`: `Spec => []RefusalsHaveAReason`, for every horizon that sees one common
  period of the schedules (`HorizonSees`). `ConflictExact` gives a pair of times that are too
  close. Of all such pairs take one with the least sum: if either time were beyond the horizon, both
  could be moved back by the period, and the sum would not be the least. `RefusalInv` adds
  that a due time was found from a time of the clock, so that the period begins early enough. It holds with
  run counts as well: what is refused is refused for a reason even where a miss has shifted the end.

### Deliveries and the promise of a preview

- `RulesKeepApart`: `Spec => []ActiveRulesKeepApart`. `save_standing` and
  `set_standing_status` look for a rule that is too close, but a run moves its own rule
  without looking. `ApartInv` therefore says that no step but these two takes a place in
  the schedule: a row, the copy a run works on and an open preview have a due time only if
  the schedule has not ended at it (`Fresh`), and a rule that a member or a finish may
  make active has a due time (`Timed`) unless it was halted. Every other step leaves a rule
  with no more of a place than it had (`NoMore`).
- `SentOnce`: `Spec => []DeliveredOnce`. `DeliverInv` says where an occurrence stands in
  every state: a rule that the poll may take has nothing outstanding (`Settled`: each delivery
  is one of a run whose end could not be saved); a run has sent to exactly the targets it has
  behind it (`RunAccounted`); and a run ends with its rule due as before only when it sent
  nothing or is counted in `unsaved` (`EndAccounted`). It rests on `LeaseInv` and `VersionInv`.
- `PromiseKept`: `Spec => ImplementsCheckedChange`, the refinement: the first state maps to one
  of `CheckedChange` and every step to a step of it or a stutter. The mapping counts the
  changes that have begun; for `begin` to be the next one, every step below the index of a task
  must be completed (`InOrder`), a preview must have one run (`OneRunEach`), and what
  was cut off and may still take effect must be the last change begun (`CalledOnce`).

### Components of the agent (`AgentJobsProofs`, `AgentProofs`)

From the assumptions of the modules, for every set of values, members, messages, plans and
answers, every limit and every number of failures and restarts:

- `AlertsToldOnce` (`AlertsTellNews`). `WatcherInv`: what was told is remembered as holding, or
  the run is about to store it (`ToldIsHeld`); the stored result and `holding` agree
  unless the rule was replaced (`ResultTellsHolding`).
- `StopsRespected` (`StopsAreRespected`). `ReminderInv`: whoever the reminder goes to and was
  not seen yet is still before the run (`ToDo`, `SentInFull`), and whoever stopped it was in hand
  at most once since (`StopHeld`). What is kept is a stop that took a member off the list; one that is
  confirmed without a change of the row moves no version on (section 5). `SequenceOfSet` says what the library's `SetToSeq`
  returns.
- `StepsAsPlanned` (`StepsRunAsPlanned`). `PlanInv`: a step's needs have left its round before it
  begins (`NeedsAreOut`), a change has its round to itself (`RoundsAreSafe`), and every lookup
  of a key whose reads are shared went wrong, but for the one whose result is at hand
  (`LookupsAreCounted`). `PlanAssumption` says that a step uses earlier steps, as the check of
  the plan does.
- `RequestsKeepOrder` (`RequestsInOrder`). `RequestInv` has nine parts. The locks are held by who
  is inside (`LocksHeld`) and what is inside stays loaded (`StaysLoaded`), which is why no
  conversation is dropped under its request. A snapshot is read and written under its lock
  (`StoreIsLocked`); what memory holds is what the snapshot says or what its writer
  is about to store (`MemoryHoldsSnapshot`). That no message is answered twice rests on
  `OnlyOfAnswered` and `NotYetAnswered`: contents and later callers exist only in a
  conversation whose first message was answered, and whoever is being answered was not.
- `AnswersInFull` (`OneAnswerInFull`). The invariant follows the loop of `delivery.py` over the
  parts (`LoopIsAt`). The replies and the channel are both beginnings of the answer and differ
  by at most the uncertain part (`FollowsAnswer`, `ChannelShows`); what was attempted was
  generated at its place, after a GIF that Discord refused (`GeneratedFirst`); and the
  record is the delivery or what a later request confirmed of it (`RecordFollows`).
- `ResearchKeepsAll` (`ResearchLosesNothing`). `ResearchInv`: the version a worker holds means that
  the job is running and its own, which is why a page that comes late is stored nowhere; a
  row that may go on has room for one more page (`RowSound`); and a history that may go on holds
  the wanted messages from its cursor up (`HistorySound`). A page is the wanted messages of
  the range below the cursor (`HistoryPageIs`), and two ranges that meet give the wanted
  messages of both (`WantedJoin`). The second is a fact about a recursive function; it is proved of
  its values, by their least exception (`NoLeastException`), not by an induction over data.

### Components of the features (`FeatureProofs`)

- `FetchesKept` (`FetchesAreKept`). `ProfileInv`: what the writer stored last, the batch and what
  waits for it came in this order (`StoredInOrder`). The record is also the scheduled pass's; it goes
  back to an older profile only by what that pass stores, or when the writer stores over it.
- `NewsPostedOnce` (`PostedOnceForGood`). `NewsInv`: only a holder of the lock who knows of no post
  sends (`HolderKnows`), and every post but the one that is known was one nobody could
  remember (`PostsAreCounted`).
- `QueueStaysTrue` (`QueueIsTrue`). `TransferInv`: what is remembered is what is stored, but for a
  deletion under way (`Remembers`); the number of a request on its way is no other's
  (`TicketsAreFresh`); and what is shown is right or somebody owes it a redraw
  (`ShownInTheEnd`). `TransferAssumption` now says that a button is not called as the loop or
  as nobody: without it a tap could be taken for the holder of a lock.
- `SummaryKept` (`OneSummaryPerWar`). `WarInv` says what the pass takes for granted where it is
  (`PassKnows`) and what a sweep that read a registry has seen of it (`SweepKnows`), unless a key
  that it read is gone (`lost`: then it ends without storing anything);
  a summary stays until its war counts as done in the file (`ShownUntilDone`). A summary is known
  again by its wording, so that two passes in different words may post two.
- `HibernationIsUndone` (`HibernationUndone`). `HibernationInv`: neither the commands that wait
  nor the saved progress forget what the member held (`NothingForgotten`); a step that is not
  checked off was done at most as often as its record was lost (`StepsCounted`).
- `AnswersAreShown` (`ShownAsAnswered`). `PublishInv`: what is sent is older than what waits and
  newer than what was applied (`AnsweredInOrder`); each is, field by field, what its
  callers asked for last (`NewestIsSent`); what the worker takes for shown is shown unless
  a failed edit left it in doubt (`LastIsShown`).
- `NobodyIsLeftWithTheRole` (`RoleHasAnOwner`), from `RolesAssumption` (no member is called as the
  modules call nobody). Who counts as claimed by the war is what is in force (`Claimed`: the pass works
  on a copy, and its end makes the copy the truth). `PassInv` says that a pass only releases who
  is not in the lineup and manages nobody it did not find managed or in the lineup. `TaskInv`
  says that a roster which follows a sign-up has
  nobody else in hand. Each step of a roster then hands its
  member to another owner, to the next stage, or takes the role (`HandedOn`), while the claims
  of the war stand still, and the other way round (`PassReleases`). `RolesTypeCorrect` has the
  types of it.

### The sum, and the types of its components (`MCFeaturesProofs`)

`Features` and `FeaturesLive` check thirteen components in one specification. `EachAsSpecified`
proves that this loses nothing: a behaviour of the sum is one of every component, since the
one that moves takes its own steps and the others rest. So `EachKeepsItsPromise`, their thirteen
safety properties together, follows from the theorems above, and `FeaturesTypesCorrect`
(`FeaturesSpec => []FeaturesTypeOK`) from a theorem on the types of each component. These types say
more than that a variable is in its set, and some needed an invariant of their own:

- Requests: no conversation is loaded twice. What is picked from the table or appended to it
  stays without repetition; a restart loads the saved conversations in an order that names each of
  them, and a surjection between two finite sets of one size is injective.
- Answers: what is sent, recorded or on its way is a part of the answer, because the loop
  attempts only parts below the size of its segment, and a confirmed part was generated (`PartsFit`).
- Research: a live lease belongs to a running job (`LeaseFits`), and the runner's queue is a
  sequence of jobs. For the latter, `ORDER BY job_id` (`ordered`) must be defined: a finite set of numbers
  has exactly one increasing enumeration, whose k-th member is the one with k members up
  to it. `ResearchAssumption` now says that no worker is called as the model calls nobody.
- Plans: who waits for a lookup waits for a read of its key (`SharersWait`), and no more lookups
  went wrong than were made (`BadAreMade`).
- News: there are no more posts than presses (`PressesAnswer`: those who wait for the lock and those
  who have posted were pressed for). War summaries: what a sweep keeps it has looked at (`LooksOnce`).
- The other types follow from the invariants above.

### Causes of the findings

A run shows that a promise can be broken. These theorems show what breaks it, for every value
of the constants, and that under their hypotheses nothing else does:

- `ConflictExact` and `TimesKeepApart` (*Run counts shift*): the comparison itself is exact, and
  without run counts on rules that may miss a run the times keep apart.
- `OnlyResumingStrands` and `NextRunUnlessResumed` (*Resume brings back a rule that never runs*): the only
  step that makes a rule active without a next run is `ResumesTimeless`, a member's
  resuming of a paused rule without a time, and in behaviours without that step
  `ActiveRuleHasNextRun` holds. `TimedInv`: what the poll read, what a run began with and what a preview holds have a time.
- `NotDoneUnlessRefusedAfterEffect` (*"Nothing changed" after a change*): if neither `verify` nor a call
  that had an effect, now or later, raises anything but a doubt (`Trusting`), whoever is told that a
  step was not done is told the truth, also later. So the two ways of being refused after the effect are the only
  causes. `RefusedInv`:
  a step that is blamed in its row, in its task's memory or in a report has taken no effect, no
  request for it is on its way, and its task makes no further call.
- `FailsOnlyAfterRefusedGif` (*A found send cannot be confirmed*): an uncertain delivery does not fit
  if and only if its GIF was refused and its attempts are complete; a later request fails only then. It
  rests on the invariant of `AnswersInFull`, which counts attempts and replies.
- `NeededRoleIsKeptUnlessHasty` (*A needed war role is taken*): without a failure and with `Patient`,
  whoever needs the role has it or is about to be given it. `Patient` forbids two steps: a sign-up of a member
  whose role a workflow is about to take, after it asked for his sign-ups, and a lineup with a
  member whose role a roster's request is taking. The first is what the run finds.

### What the proofs found

Trying to prove an invariant changed the models in these places; each was checked against the
code first and by TLC afterwards.

- Overlapping guards of a `CASE` left the choice to the checker where the code has an
  if-else (`WarSummaries`, `Publishing`); they are `IF` now.
- `PartsInOrder` said less than it meant: parts that follow one another could have stood for
  a channel with a hole at its beginning. It now says that the channel is a beginning of the
  answer, which made the position of the loop (`index`) part of the state.
- That no message is answered twice needs an assumption about the world which the model
  now has by name (`Alone`): an announcement that repeats a message is in line before the
  answer to it is over. The code looks for the conversation of a message before it asks for
  a lock; an announcement that is still looking while the first one is answered and its
  conversation dropped would open a second one.
- A return may be planned from the rest of an earlier one and begin in the member's next case, where
  it does not bring back all roles (section 5). `RolesComeBack` was false with one more command
  than the run had; it now names the exception (`leftover`) and the run has that command.
- A stop is undone only by a change that was previewed after it: `stopped`, the history that
  tells, had followed the row (`ReminderStops`).
- An iteration over a dictionary notices a key that was replaced by another only at its end: a
  sweep of the registry with its size unchanged may have missed a summary, and what keeps it from
  storing that is the check of the last step (`lost` in `WarSummaries`).
- A roster gives the role to a member whose sign-up a new cycle dropped meanwhile
  (`GivesSignedUp` in `RoleClaims`).

### Only model-checked

Every safety invariant and action property of the passing runs is proved. What is left to TLC:

- `EveryRequestEnds`, `ResearchEnds`, `EveryPlanEnds`, `EveryCallerAnswered`, `EveryoneIsServed`,
  `SavedPromptGoes`, `EveryRunEnds` and `DueRuleIsTaken` of `StandingRules`, and `EveryConfirmationEnds`
  of `ActionRuns`: liveness under fairness, and whatever is a statement about `ENABLED`, is
  beyond the prover.
- The hypothesis of `RefusalsExplained` for the instance (`FarEnough`), which is a computation.

## 5. Findings

- *Resume brings back a rule that never runs* (`StandingRules_lostonce`).
  A failed one-off rule is paused without a next run, and a DM reminder paused while
  it is being sent loses its next run; the notice says "Ask me to resume it.", but
  `set_standing_status` only sets the status.
- *"Nothing changed" after a change* (`ActionRuns_nothing`). When `verify` is refused
  after `run` took effect, the step is recorded and reported as not done. So it is when the
  call itself is refused with something done: a deletion of several messages that loses access
  half-way (`discord_actions/message_cleanup.py:106`), or a connection error that is no
  `OSError` (`actions/runner.py:502`).
- *Run counts shift* (`DestinationSpacing_shifted`). The times of a rule that ends after
  a number of runs are compared as if it never missed one. A run that is skipped or
  falls into a pause does not count, so the rule ends one run later, at a time that was
  never compared with the member's other rules; `agent/wording.py` promises one
  message a minute "across all your reminders, requests and watchers".

- *A found send cannot be confirmed* (`ReplyDelivery_found`). A GIF that Discord refuses leaves
  an attempt and a generated part without a reply. If the text after it is lost in transit
  and found by the next request, `reconcile_unknown_delivery` sees one reply too few and
  raises, in every later request of the conversation.
- *A needed war role is taken* (`RoleClaims_needed`). The answer that no other roster needs the
  role is read in a thread and used after it; rosters have a lock each. A member who leaves
  one roster while signing up for another loses the role for good: the sign-up's own `sync`
  ran while the role was still there.

Observations that no document contradicts, or contradicts only loosely; the models have
them unless it says otherwise:

- Standing rules: the poll dies for good when `_main` fails before its loop
  (`scheduled/runner.py:101`, `RecoverRaises`; `DueRuleIsTaken` excepts it by name). A restart turns
  a rule cancelled during its run into a paused one (`store.py:283`). A watcher whose rule
  is replaced keeps `last_result` and `holding` of the old one, so a new condition that holds
  already is not told until the data changes (`store.py:211`; `AlertsTellNews` excepts it by
  `replaced`). A reminder that is paused while its run looks for the last time and resumed
  before the run is stored becomes completed (`runner.py:287`). The last member who stops a
  cancelled reminder makes it completed, which may be changed and run again (`store.py:395`).
  A stop by a member who is not on the list, or of a reminder for once, is confirmed
  (`dm_controls.py:41`) and changes no row (`store.py:385`): no version moves on, so a preview made
  before it may still put the member on the list (`StopIsKept` speaks of stops that took somebody off).
- Confirmed changes: a run that dies between `finish_run` and its report is never reported
  (`actions/runner.py:219`); a restart report whose `mark_reported` fails is sent again (`:497`).
- Requests: a reply that also mentions the bot is not looked up on disk (`cog.py:238`); an
  answer without evidence whose record fails is followed by a failure notice (`cog.py:324`).
- Plans: an owner of a shared lookup that loses access may end the request as cancelled
  (`plan/executor.py:204`).
- Publishing: after an edit that took effect and was answered with errors, `last` names the
  version before it, and submitting that version again is answered "applied" without being sent
  (`publishing.py:277`); a waiting message version that sets other fields is replaced (`:163`).
  Profiles: who joins a fetch whose last caller has just left is told of an error (`demand.py:123`).
  A profile that waits for the writer may be stored after a newer one of the scheduled pass, with the time of
  storing as its own (`data/store/players.py:294`), and the pass may be given a profile that the client
  had kept; both make the record older than it was (`FetchesAreKept` names them).
- Transfers: requests that ran out or whose member was deleted stay in the message until the
  next change (`commands.py:52`, `state.py:119`); a late ping stays (`commands.py:65`, not modelled).
  Hibernation: a return planned during the hibernation leaves the sleeping role (`commands.py:122`).
  A return planned from what an earlier one had left to do, and begun in the member's next case,
  brings back only that (`:135`; `docs/users/workflows/achievements-events-and-support.md:36`: "`/reactivate`
  restores the saved roles"; `RolesComeBack` excepts it by `leftover`). A deletion of member data can be
  undone by a running command (`state.py:110`, not modelled).
- News: a prompt posted just before the end of the process is never cleaned up (`cog.py:229`);
  one posted beside a publication offers what is published (`cog.py:205`). A connection that breaks
  while a prompt expires ends its cleanup, which retries only what Discord answered (`cog.py:99`):
  message and row stay until a restart. Wars: a summary is known again by its rendered description
  (`warflow.py:37`), which shows other emojis while the application's can't be loaded
  (`emojis.py:76`); if two passes differ in this, the war gets a second summary, and only one of them is registered,
  so that the other stays. With two
  clans, the sweep's copy of the registry can replace a newer one (`tasks.py:72`, not modelled);
  a summary sent before an outage of a war's length is never registered (`warflow.py:155`, excluded by `NextWar`).
- Rosters: a cycle that begins because somebody opens or posts the roster clears the sign-ups and takes no
  role (`automation.py:112`), so members keep a role that nobody will take. A pass of the war that a lost
  connection ends has published its lineup and manages nobody of it (`roles.py:160`, `:222`); who leaves that lineup
  before a pass goes through keeps the role. `RoleHasAnOwner` names both by `adrift`. `update` and `delete` change
  a roster's role without its lock (not modelled).

## 6. Not modelled

The map covers the 5 000 or so lines of the program that decide an order, a guard or what is
remembered. It cannot come near the size of the program: of its 127 000 lines most
build embeds, menus and modals, query tables, format answers and describe capabilities to
a model. One could only model these word by word, and no property of order, failure or
interleaving would come of it.

- Parts of modelled components: a post made by a tool while an answer is written and
  private answers (`send_post_reply`), lost access during a send; what a turn keeps of files
  and evidence; search and thread jobs beyond their states; compilation of capabilities and
  the dialogue with the model (`engine/flow.py`, `engine/bridge.py`); pings and archiving of
  transfer threads; tickets and fallback threads in hibernation; war boards and attack lines;
  roster posts, capacity and the automation of cycles, except for the role; that a saved
  request submits an action run.
- Components: CWL (season threads, bonus votes), recruitment, examination, support
  tickets, account links, achievements, role connections, statistics, clan health and
  reporting, attack plans, help, diagnostics; scheduled collection and event detection;
  read-only lookups; connections, migrations, exports, start-up.

## 7. Plan

1. The composition of a saved request with the action run it submits and waits for.
2. Roster capacity and cycles, CWL bonus votes, account claims, the collectors' rule about
   incomplete answers.
