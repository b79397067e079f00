----------------------------- MODULE ClanTransfers -----------------------------
(***************************************************************************)
(* The transfer queue of one clan: members ask to join and cancel, leaders  *)
(* clear it, requests run out, and the queue is shown in a thread message   *)
(* and on the board of all clans (features/clan_transfers, and              *)
(* data/events/__init__.py, which stores the queue with its events).        *)
(*                                                                          *)
(* Abstracted: time is which requests are past REQUEST_TTL_HOURS; Discord   *)
(* takes what it is sent.  The board's other clans, the ping of a new       *)
(* request and the JSON mirror, which nothing reads again, are left out.    *)
(***************************************************************************)
EXTENDS Naturals, FiniteSets

CONSTANTS
  Taps,         \* commands that may run at once
  Movers,       \* members who ask for a transfer
  Deletable,    \* those of them whose data may be deleted
  MaxCommands, MaxTransferStops    \* bounds

ASSUME TransferAssumption ==
  /\ IsFiniteSet(Movers) /\ Deletable \subseteq Movers
  /\ Taps \cap {"loop", "nobody"} = {}    \* the names of the expiry loop and of no task
  /\ MaxCommands \in Nat /\ MaxTransferStops \in Nat

VARIABLES
  queued, remembered,      \* the stored queue, and TransferState.state
  past,                    \* requests older than REQUEST_TTL_HOURS
  log,                     \* workflow_events
  erased, refreshing,      \* requests of deleted members; refresh_after_deletion is to come
  turn,                    \* what each task does
  queueLock, boardLock,    \* locks[clan_code], global_lock
  queueShows, boardShows,       \* what the queue message and the board show
  commands, transferStops

storeVars    == <<queued, remembered, past, log, erased, refreshing>>
messages     == <<queueShows, boardShows>>
transferVars == <<storeVars, turn, queueLock, boardLock, messages, commands, transferStops>>

Entries == [who : Movers, n : 1..MaxCommands]
Tasks   == Taps \cup {"loop"}
NoTask  == "nobody"
Resting == [at |-> "rest", op |-> "none", who |-> NoTask, n |-> 0, draws |-> {}]

TransferInit ==
  /\ queued = {} /\ remembered = {} /\ past = {} /\ log = {} /\ erased = {} /\ refreshing = FALSE
  /\ turn = [t \in Tasks |-> Resting] /\ queueLock = NoTask /\ boardLock = NoTask
  /\ queueShows = {} /\ boardShows = {} /\ commands = 0 /\ transferStops = 0

MovesTo(t, to) == turn' = [turn EXCEPT ![t].at = to]
Rests(t)    == turn' = [turn EXCEPT ![t] = Resting]
Frees       == queueLock' = NoTask
Redraws(t)  == turn' = [turn EXCEPT ![t] = [Resting EXCEPT !.at = "ensure"]]

-----------------------------------------------------------------------------
(* TransferState.change: one transaction, then the state in memory *)

\* Mutant: the state in memory is edited and saved.
base_remembered == remembered
base            == queued

published(now)        == now

\* Requests leave the queue, each with its event.
Leave(entries, kind) ==
  /\ queued' = base \ entries /\ remembered' = published(queued')
  /\ log' = log \cup {[entry |-> e, kind |-> kind] : e \in entries \cap base}
  /\ UNCHANGED <<past, erased, refreshing>>

of_member(m, entries) == {e \in entries : e.who = m}

-----------------------------------------------------------------------------
(* The commands, the clear button, and request_expiry_loop *)

Command(t, op, m) ==
  /\ turn[t] = Resting /\ commands < MaxCommands /\ commands' = commands + 1
  /\ turn' = [turn EXCEPT ![t] = [Resting EXCEPT !.at = "enter", !.op = op, !.who = m,
                                                 !.n = IF op = "request" THEN commands' ELSE 0]]
  /\ UNCHANGED <<storeVars, queueLock, boardLock, messages, transferStops>>

stale_requests == remembered \cap past

\* A pass that finds nothing expired does nothing.
Poll ==
  /\ turn["loop"] = Resting /\ stale_requests # {}
  /\ turn' = [turn EXCEPT !["loop"].at = "enter", !["loop"].op = "expire"]
  /\ UNCHANGED <<storeVars, queueLock, boardLock, messages, commands, transferStops>>

QueueFree(t)     == queueLock = NoTask

RunOut        == Leave(past, "expired")

\* _expire_stale_requests, the first thing a holder of the clan's lock does;
\* clear_transfer_queue expires nothing.
EnterQueue(t, from, next, expires) ==
  /\ turn[t].at = from /\ QueueFree(t) /\ queueLock' = t
  /\ MovesTo(t, next)
  /\ IF expires /\ stale_requests # {} THEN RunOut ELSE UNCHANGED storeVars
  /\ UNCHANGED <<boardLock, messages, commands, transferStops>>

EnterFirst(t)  == (turn[t].op = "expire" => stale_requests # {})
                  /\ EnterQueue(t, "enter", "decide", turn[t].op # "clear")
Ensure(t) == EnterQueue(t, "ensure", "render", TRUE)

\* What it remembers tells a command whether there is anything to do.
Decide(t) ==
  /\ turn[t].at = "decide"
  /\ IF \/ turn[t].op = "request" /\ of_member(turn[t].who, remembered) = {}
        \/ turn[t].op = "cancel" /\ of_member(turn[t].who, remembered) # {}
        \/ turn[t].op = "clear"
       THEN MovesTo(t, "change") /\ UNCHANGED queueLock
       ELSE Rests(t) /\ Frees
  /\ UNCHANGED <<storeVars, boardLock, messages, commands, transferStops>>

ChangesQueue(t, op) == turn[t].at = "change" /\ turn[t].op = op /\ Redraws(t) /\ Frees
                    /\ UNCHANGED <<boardLock, messages, commands, transferStops>>

Add(t) ==
  LET entry == [who |-> turn[t].who, n |-> turn[t].n]
  IN  /\ ChangesQueue(t, "request")
      /\ queued' = base \cup {entry} /\ remembered' = published(queued')
      /\ log' = log \cup {[entry |-> entry, kind |-> "requested"]}
      /\ UNCHANGED <<past, erased, refreshing>>

RemoveRequest(t) == ChangesQueue(t, "cancel") /\ Leave(of_member(turn[t].who, base), "cancelled")
ClearAll(t) == ChangesQueue(t, "clear") /\ Leave(base, "cleared")

\* A holder that came first expired what this pass came for: it draws nothing.
ExpiresNothing ==
  /\ turn["loop"].at = "enter" /\ turn["loop"].op = "expire" /\ stale_requests = {}
  /\ QueueFree("loop") /\ Frees /\ Rests("loop")
  /\ UNCHANGED <<storeVars, boardLock, messages, commands, transferStops>>

\* _cleanup_expired_requests expired something, or _bootstrap: it redraws.
Continues ==
  /\ turn["loop"].at = "decide" /\ Redraws("loop") /\ Frees
  /\ UNCHANGED <<storeVars, boardLock, messages, commands, transferStops>>

-----------------------------------------------------------------------------
(* ensure_queue_message, ensure_global_board *)

Render(t) ==
  /\ turn[t].at = "render"
  /\ queueShows' = remembered /\ MovesTo(t, "board") /\ Frees
  /\ UNCHANGED <<storeVars, boardLock, boardShows, commands, transferStops>>

BoardFree     == boardLock = NoTask

DrawBoard(t) ==
  /\ turn[t].at = "board" /\ BoardFree /\ boardLock' = t
  /\ turn' = [turn EXCEPT ![t].at = "edit", ![t].draws = remembered]
  /\ UNCHANGED <<storeVars, queueLock, messages, commands, transferStops>>

EditBoard(t) ==
  /\ turn[t].at = "edit" /\ Rests(t)
  /\ boardShows' = turn[t].draws /\ boardLock' = NoTask
  /\ UNCHANGED <<storeVars, queueLock, queueShows, commands, transferStops>>

-----------------------------------------------------------------------------
(* Time, member deletion, restarts *)

GrowOld ==
  /\ \E e \in queued \ past : past' = past \cup {e}
  /\ UNCHANGED <<queued, remembered, log, erased, refreshing, turn, queueLock, boardLock, messages,
                 commands, transferStops>>

\* EventsStore.delete_member, one transaction, and then its handlers.
DeleteMember(m) ==
  /\ erased = {} /\ ~refreshing
  /\ queued' = queued \ of_member(m, queued)
  /\ log' = {row \in log : row.entry.who # m}
  /\ erased' = of_member(m, {row.entry : row \in log}) /\ refreshing' = TRUE
  /\ UNCHANGED <<remembered, past, turn, queueLock, boardLock, messages, commands, transferStops>>

Refresh ==
  /\ refreshing /\ refreshing' = FALSE /\ remembered' = queued
  /\ UNCHANGED <<queued, past, log, erased, turn, queueLock, boardLock, messages, commands,
                 transferStops>>

RestartTransfers ==
  /\ transferStops < MaxTransferStops /\ transferStops' = transferStops + 1
  /\ turn' = [t \in Tasks |-> IF t = "loop" THEN [Resting EXCEPT !.at = "enter", !.op = "start"]
                                            ELSE Resting]
  /\ queueLock' = NoTask /\ boardLock' = NoTask /\ remembered' = queued /\ refreshing' = FALSE
  /\ UNCHANGED <<queued, past, log, erased, messages, commands>>

TransferNext ==
  \/ \E t \in Taps, m \in Movers, op \in {"request", "cancel"} : Command(t, op, m)
  \/ \E t \in Taps : Command(t, "clear", NoTask) \/ Decide(t) \/ Add(t) \/ RemoveRequest(t) \/ ClearAll(t)
  \/ Poll \/ ExpiresNothing \/ Continues
  \/ \E t \in Tasks : EnterFirst(t) \/ Ensure(t) \/ Render(t) \/ DrawBoard(t) \/ EditBoard(t)
  \/ GrowOld \/ (\E m \in Deletable : DeleteMember(m)) \/ Refresh \/ RestartTransfers

TransferSpec == TransferInit /\ [][TransferNext]_transferVars

-----------------------------------------------------------------------------
(* Properties *)

\* The state has its shape, and what the program remembers is what is stored
\* but while a deletion is being published.
TransferTypeOK ==
  /\ queued \subseteq Entries /\ past \subseteq Entries /\ erased \subseteq Entries
  /\ queueShows \subseteq Entries /\ boardShows \subseteq Entries
  /\ queueLock \in Tasks \cup {NoTask} /\ boardLock \in Tasks \cup {NoTask}
  /\ ~refreshing => remembered = queued

\* A member has one request in the queue however many commands, clears, runs
\* of the expiry loop, deletions and restarts overlap.
OnePendingPerMember == \A m \in Movers : Cardinality(of_member(m, queued)) <= 1

\* The events tell the queue: a request is open in them exactly while it is in
\* the queue, and it was closed in one way.
LogMatchesQueue ==
  LET endings(e) == {row \in log : row.entry = e /\ row.kind # "requested"}
      opened     == {row.entry : row \in {r \in log : r.kind = "requested"}}
  IN  /\ queued = {e \in opened : endings(e) = {}}
      /\ \A row \in log : row.entry \in opened /\ Cardinality(endings(row.entry)) <= 1

\* A command that was running when a member was deleted does not bring the
\* request, or an event of it, back.
DeletedStaysDeleted ==
  queued \cap erased = {} /\ {row.entry : row \in log} \cap erased = {}

\* Once every command is done the message and the board show the live requests
\* and nothing else.  Requests of deleted members are not taken off them, nor
\* is one that ran out under a command that then had nothing to do.
QueueIsShown ==
  LET gone == erased \cup past
  IN  (~refreshing /\ \A t \in Tasks : turn[t].at = "rest")
        => queueShows \ gone = queued \ past /\ boardShows \ gone = queued \ past

\* The queue, its events and what Discord shows of it agree, however commands, the clear
\* button, the expiry loop, deletions and restarts overlap.
QueueIsTrue == OnePendingPerMember /\ LogMatchesQueue /\ DeletedStaysDeleted /\ QueueIsShown
=============================================================================
