----------------------------- MODULE AgentRequests -----------------------------
(***************************************************************************)
(* Messages to the agent, from the Discord event to the saved turn: the    *)
(* queue, the conversation and member locks, the bounded store of loaded    *)
(* conversations, their snapshots on disk, and the outcomes of confirmed    *)
(* changes, which enter a conversation from outside its requests            *)
(* (agent/cog.py and agent/conversation/: state, turns, persistence,        *)
(* repository).                                                             *)
(*                                                                          *)
(* Abstracted: what is asked and answered; a conversation is the set of its *)
(* turns and of the answers that may be replied to.  An answer that arrives *)
(* in parts is ReplyDelivery.                                               *)
(***************************************************************************)
EXTENDS Integers, Sequences, FiniteSets, SequencesExt, Selections

CONSTANTS
  Messages,      \* messages that address the agent
  Events,        \* the on_message calls; a message may be announced twice
  MessageOf,     \* [Events -> Messages]
  Author,        \* [Messages -> members]
  ReplyTo,       \* [Messages -> the message whose answer it replies to, or NoMessage]
  Mentions,      \* the messages that mention the agent
  Changes,       \* the messages whose answer leads to a confirmed change
  NoMessage, Nobody,
  MaxConversations,  \* MAX_CONVERSATIONS, in memory and on disk
  MaxRequests,       \* MAX_PENDING_REQUESTS
  Concurrency,       \* AGENT_CONCURRENCY
  MaxCopies,     \* bound: how often a conversation is created or loaded
  MaxSilences,   \* bound: stretches of six hours without a turn
  MaxStops       \* bound: timeouts, failures and restarts

ASSUME RequestsAssumption ==
  /\ Messages \cap Events = {} /\ NoMessage \notin Messages /\ Nobody \notin Events \cup Messages
  /\ MessageOf \in [Events -> Messages] /\ DOMAIN Author = Messages
  /\ ReplyTo \in [Messages -> Messages \cup {NoMessage}]
  /\ Mentions \subseteq Messages /\ Changes \subseteq Messages
  /\ {MaxConversations, MaxRequests, Concurrency, MaxCopies} \subseteq Nat \ {0}
  /\ {MaxSilences, MaxStops} \subseteq Nat

VARIABLES
  loaded,   \* ConversationStore._conversations: objects, least recently replied first
  copies,   \* objects made so far, by root message
  turns,    \* the turns in each object
  replies,  \* the messages whose answers may be replied to, in each object
  aged,     \* objects whose last touch is six hours ago
  work,     \* on_message calls and outcomes: their stage and conversation
  disk,     \* the conversations table: a snapshot by root message
  revs,     \* ConversationPersistence._revisions
  writer,   \* who holds ConversationPersistence._lock
  silences, stops       \* how much of the bounds is used

requestVars == <<loaded, copies, turns, replies, aged, work, disk, revs, writer, silences, stops>>

\* A conversation as an object in memory; the same root may be loaded again later.
Objects == [root : Messages, copy : 1..MaxCopies]
\* A turn is an answered message or the outcome of its change.
Turns   == [kind : {"answer", "outcome"}, of : Messages]
Answer(m)  == [kind |-> "answer", of |-> m]
Outcome(m) == [kind |-> "outcome", of |-> m]
NoObject == [root |-> NoMessage, copy |-> 0]

\* An on_message call is an event, an outcome is the message it stems from.
Callers == Events \cup Changes
Stages == {"none", "lookup", "reading", "ready", "conversation", "member", "slot",
           "answering", "sent", "changing", "outcome", "saving", "writing", "over"}
\* Within conversation.lock, member_lock and the semaphore.
InConversation == {"member", "slot", "answering", "sent", "saving", "writing"}
InMember       == {"slot", "answering", "sent", "saving", "writing"}
InSlot         == InMember \ {"slot"}
\* Between "pending += 1" and "pending -= 1".
Pending        == InConversation \cup {"conversation"}

NoSnapshot == [rev |-> 0, turns |-> {}, replies |-> {}, aged |-> FALSE]
Fresh == [stage |-> "none", conv |-> NoObject]

RequestInit ==
  /\ loaded = <<>>
  /\ copies = [m \in Messages |-> 0]
  /\ turns = [o \in Objects |-> {}] /\ replies = [o \in Objects |-> {}]
  /\ aged = {}
  /\ work = [c \in Callers |-> Fresh]
  /\ disk = [m \in Messages |-> NoSnapshot]
  /\ revs = [m \in Messages |-> 0]
  /\ writer = Nobody
  /\ silences = 0 /\ stops = 0

Stop == stops < MaxStops /\ stops' = stops + 1
Goes(c, stage) == work' = [work EXCEPT ![c].stage = stage]
Enters(c, stage, o) == work' = [work EXCEPT ![c] = [stage |-> stage, conv |-> o]]
Ends(c) == Enters(c, "over", NoObject)
At(c, stages) == work[c].stage \in stages

-----------------------------------------------------------------------------
(* conversation/state.py *)

\* _is_active: a request counts from the moment it has the conversation, an outcome
\* only while it holds the lock.
is_active_locked(o) == \E c \in Callers : work[c].conv = o /\ At(c, InConversation)
is_active(o) ==
  \/ \E e \in Events : work[e].conv = o /\ At(e, Pending)
  \/ \E m \in Changes : work[m].conv = o /\ At(m, InConversation)

\* _prune, which every lookup starts with.
pruned == Picked(loaded, {o \in ToSet(loaded) : is_active(o) \/ o \notin aged})

\* find: the loaded conversation that a message replies to.
find(m) == {o \in ToSet(pruned) : ReplyTo[m] \in replies[o]}

\* create makes room by dropping the least recently replied idle conversation.
idle(os)     == Picked(os, {o \in ToSet(os) : ~is_active(o)})
full(os)     == Len(os) >= MaxConversations
may_add(os)  == full(os) => idle(os) # <<>>
added(os, o) == Append(IF full(os) THEN Without(os, Head(idle(os))) ELSE os, o)
NewCopy(m)   == [root |-> m, copy |-> copies[m] + 1]

\* decode_conversation: objects as the snapshots of their roots say.
Snapshots == {r \in Messages : disk[r].rev > 0}
Copied(rs) ==
  LET new == {NewCopy(r) : r \in rs}
  IN  /\ \A r \in rs : copies[r] < MaxCopies
      /\ copies' = [r \in Messages |-> IF r \in rs THEN copies[r] + 1 ELSE copies[r]]
      /\ turns' = [o \in Objects |-> IF o \in new THEN disk[o.root].turns ELSE turns[o]]
      /\ replies' = [o \in Objects |-> IF o \in new THEN disk[o.root].replies ELSE replies[o]]


\* register_reply, move_to_end: the conversation that was answered last is dropped last.
Touched(o) == /\ loaded' = Append(Without(loaded, o), o)
              /\ aged' = aged \ {o}

-----------------------------------------------------------------------------
(* on_message *)

\* A gateway repeats an event at once: before the message is answered, and so that its
\* answer takes longer than the repeat needs to get in line.
Repeats(e) == {d \in Events \ {e} : MessageOf[d] = MessageOf[e]}
Announced(e) == \A d \in Repeats(e) : ~At(d, {"sent", "saving", "writing", "over"})
Alone(e) == \A d \in Repeats(e) : ~At(d, {"lookup", "reading", "ready"})

\* What is a request: a mention, or a reply to an answer of a loaded conversation.  Any
\* other reply is looked up on disk first.  A reply exists once its answer does.
Arrive(e) ==
  LET m == MessageOf[e]
  IN  /\ At(e, {"none"}) /\ Announced(e)
      /\ ReplyTo[m] # NoMessage => \E o \in Objects : ReplyTo[m] \in replies[o]
      /\ loaded' = pruned
      /\ IF m \in Mentions \/ find(m) # {} THEN Goes(e, "ready") ELSE Goes(e, "lookup")
      /\ UNCHANGED <<copies, turns, replies, aged, disk, revs, writer, silences, stops>>

\* restore_reply, with its lock: the row is read in a thread ...
ReadSnapshot(e) ==
  LET m == MessageOf[e]
      found == {r \in Snapshots : ReplyTo[m] \in disk[r].replies /\ ~disk[r].aged}
  IN  /\ At(e, {"lookup"}) /\ writer = Nobody
      /\ loaded' = pruned
      /\ \/ /\ find(m) # {} /\ Goes(e, "ready")
            /\ UNCHANGED <<copies, turns, replies, writer>>
         \/ /\ find(m) = {} /\ found = {} /\ Ends(e)
            /\ UNCHANGED <<copies, turns, replies, writer>>
         \/ /\ find(m) = {}
            /\ \E r \in found :
                 /\ Copied({r})
                 /\ Enters(e, "reading", NewCopy(r))
            /\ writer' = e
      /\ UNCHANGED <<aged, disk, revs, silences, stops>>

\* ... and installed as it was read; a conversation that is loaded by now, or no room,
\* makes the reply go unanswered.
may_restore(o) == /\ \A p \in ToSet(loaded) : p.root # o.root
                  /\ may_add(pruned)

Restore(e) ==
  LET o == work[e].conv
  IN  /\ At(e, {"reading"})
      /\ writer' = Nobody
      /\ IF may_restore(o)
           THEN /\ loaded' = added(pruned, o)
                /\ revs' = [revs EXCEPT ![o.root] = disk[o.root].rev]
                /\ Enters(e, "ready", NoObject)
           ELSE /\ loaded' = pruned
                /\ Ends(e) /\ UNCHANGED revs
      /\ UNCHANGED <<copies, turns, replies, aged, disk, silences, stops>>

requests == {e \in Events : At(e, Pending)}

\* The queue limit, then the conversation: the one replied to, else one whose root is
\* the message.  While a preview is being withdrawn the conversation found before may
\* have gone.
Enter(e) ==
  LET m == MessageOf[e]
      rooted == {o \in ToSet(pruned) : o.root = m}
  IN  /\ At(e, {"ready"})
      /\ IF Cardinality(requests) >= MaxRequests
           THEN Ends(e) /\ UNCHANGED <<loaded, copies>>
           ELSE \/ /\ \E o \in find(m) : Enters(e, "conversation", o)
                   /\ loaded' = pruned /\ UNCHANGED copies
                \/ /\ find(m) = {}
                   /\ \E o \in rooted : Enters(e, "conversation", o)
                   /\ loaded' = pruned /\ UNCHANGED copies
                \/ /\ find(m) = {} /\ rooted = {} /\ may_add(pruned)
                   /\ copies[m] < MaxCopies
                   /\ copies' = [copies EXCEPT ![m] = @ + 1]
                   /\ loaded' = added(pruned, NewCopy(m))
                   /\ Enters(e, "conversation", NewCopy(m))
                \/ /\ find(m) = {} /\ rooted = {} /\ ~may_add(pruned)
                   /\ loaded' = pruned /\ Ends(e) /\ UNCHANGED copies
      /\ UNCHANGED <<turns, replies, aged, disk, revs, writer, silences, stops>>

-----------------------------------------------------------------------------
(* _run_member_request *)

ConversationFree(o) == \A c \in Callers : work[c].conv = o => ~At(c, InConversation)
MemberFree(a) == \A e \in Events : Author[MessageOf[e]] = a => ~At(e, InMember)

EnterConversation(e) ==
  /\ At(e, {"conversation"}) /\ ConversationFree(work[e].conv)
  /\ Goes(e, "member")
  /\ UNCHANGED <<loaded, copies, turns, replies, aged, disk, revs, writer, silences, stops>>

EnterMember(e) ==
  /\ At(e, {"member"}) /\ MemberFree(Author[MessageOf[e]])
  /\ Goes(e, "slot")
  /\ UNCHANGED <<loaded, copies, turns, replies, aged, disk, revs, writer, silences, stops>>

\* Mutant: asked of the snapshot.
answered_saved(e) == Answer(MessageOf[e]) \in disk[work[e].conv.root].turns
answered(e)       == Answer(MessageOf[e]) \in turns[work[e].conv]

\* The last wait; then access is checked and a message answered before is dropped.
EnterSlot(e) ==
  /\ At(e, {"slot"}) /\ Cardinality({d \in Events : At(d, InSlot)}) < Concurrency
  /\ IF answered(e) THEN Ends(e)
       ELSE Goes(e, "answering")
  /\ UNCHANGED <<loaded, copies, turns, replies, aged, disk, revs, writer, silences, stops>>

\* The two timeouts, lost access, an unavailable model or any other failure: the request
\* ends with a notice at most; after the answer, cut off before _record_turn, without one.
GiveUp(e) ==
  /\ At(e, {"lookup", "conversation", "member", "slot", "answering", "sent"}) /\ Stop
  /\ Ends(e)
  /\ UNCHANGED <<loaded, copies, turns, replies, aged, disk, revs, writer, silences>>

\* send_response: the answer is in the channel, its reply registered.
Send(e) ==
  /\ At(e, {"answering"}) /\ Alone(e)
  /\ Touched(work[e].conv)
  /\ replies' = [replies EXCEPT ![work[e].conv] = @ \cup {MessageOf[e]}]
  /\ Goes(e, "sent")
  /\ UNCHANGED <<copies, turns, disk, revs, writer, silences, stops>>

\* _record_turn up to the save.
RecordTurn(e) ==
  LET m == MessageOf[e]  o == work[e].conv
  IN  /\ At(e, {"sent"})
      /\ turns' = [turns EXCEPT ![o] = @ \cup {Answer(m)}]
      /\ aged' = aged \ {o} /\ UNCHANGED replies
      /\ work' = [c \in Callers |->
                    CASE c = e -> [work[c] EXCEPT !.stage = "saving"]
                      [] c = m /\ At(m, {"none"}) -> [stage |-> "changing", conv |-> o]
                      [] OTHER -> work[c]]
      /\ UNCHANGED <<loaded, copies, disk, revs, writer, silences, stops>>

-----------------------------------------------------------------------------
(* _record_action_outcome, when the run of a confirmed change has been reported *)

StartOutcome(m) ==
  LET now == {o \in ToSet(pruned) : o.root = work[m].conv.root}
  IN  /\ At(m, {"changing"})
      /\ loaded' = pruned
      /\ IF now = {} THEN Ends(m)
           ELSE \E o \in now : Enters(m, "outcome", o)
      /\ UNCHANGED <<copies, turns, replies, aged, disk, revs, writer, silences, stops>>

\* The report of a run that left a message is registered, which fails for a conversation
\* that was dropped while the outcome waited.
AddOutcome(m) ==
  LET o == work[m].conv
  IN  /\ At(m, {"outcome"}) /\ ConversationFree(o)
      /\ turns' = [turns EXCEPT ![o] = @ \cup {Outcome(m)}]
      /\ \/ /\ aged' = aged \ {o} /\ UNCHANGED loaded
            /\ Goes(m, "saving")
         \/ /\ o \in ToSet(loaded) /\ Touched(o)
            /\ Goes(m, "saving")
         \/ /\ o \notin ToSet(loaded) /\ UNCHANGED <<loaded, aged>>
            /\ Ends(m)
      /\ UNCHANGED <<copies, replies, disk, revs, writer, silences, stops>>

-----------------------------------------------------------------------------
(* conversation/persistence.py and repository.py *)

\* Mutant: the conversation is looked up by its root.
is_loaded_root(o) == \E p \in ToSet(loaded) : p.root = o.root

\* persist: under its lock the conversation is looked up by identity and encoded.
is_loaded(o) == o \in ToSet(loaded)

BeginSave(c) ==
  /\ At(c, {"saving"}) /\ writer = Nobody
  /\ IF is_loaded(work[c].conv)
       THEN writer' = c /\ Goes(c, "writing") /\ loaded' = pruned
       ELSE Ends(c) /\ UNCHANGED <<writer, loaded>>
  /\ UNCHANGED <<copies, turns, replies, aged, disk, revs, silences, stops>>

loaded_roots == {o.root : o \in ToSet(loaded)}

\* repository.save: refused when the revision has moved; the oldest snapshots that
\* nobody has loaded make room.  Revisions of what is not loaded are forgotten.
EndSave(c) ==
  LET o == work[c].conv  r == o.root
      stored == Snapshots \cup {r}
      excess == IF Cardinality(stored) > MaxConversations
                  THEN Cardinality(stored) - MaxConversations ELSE 0
      spare  == stored \ (loaded_roots \cup {r})
  IN  /\ At(c, {"writing"})
      /\ writer' = Nobody /\ Ends(c)
      /\ IF disk[r].rev = revs[r] /\ Cardinality(spare) >= excess
           THEN \E victims \in SUBSET spare :
                  /\ Cardinality(victims) = excess
                  /\ disk' = [q \in Messages |->
                       CASE q = r -> [rev |-> disk[r].rev + 1, turns |-> turns[o],
                                          replies |-> replies[o], aged |-> FALSE]
                         [] q \in victims -> NoSnapshot
                         [] OTHER -> disk[q]]
                  /\ revs' = [q \in Messages |->
                       CASE q = r -> disk[r].rev + 1
                         [] q \in loaded_roots \ {r} -> revs[q]
                         [] OTHER -> 0]
           ELSE UNCHANGED <<disk, revs>>
      /\ UNCHANGED <<loaded, copies, turns, replies, aged, silences, stops>>

\* Mutant: the lock is kept when the database fails.
StillLocked == UNCHANGED writer
\* The lock is a context manager.
Unlocked == writer' = Nobody

\* The database fails: an answer stays, its turn is in memory only; a reply that was
\* looked up is left alone.
StoreFails(c) ==
  /\ At(c, {"writing", "reading"}) /\ Stop
  /\ Unlocked /\ Ends(c)
  /\ UNCHANGED <<loaded, copies, turns, replies, aged, disk, revs, silences>>

\* _prune_checkpoints: expired snapshots of conversations without work.
PruneDisk ==
  LET protected == {o.root : o \in {p \in ToSet(loaded) : is_active(p)}}
      expired   == {r \in Snapshots : disk[r].aged} \ protected
  IN  /\ writer = Nobody /\ expired # {}
      /\ disk' = [r \in Messages |-> IF r \in expired THEN NoSnapshot ELSE disk[r]]
      /\ UNCHANGED <<loaded, copies, turns, replies, aged, work, revs, writer, silences, stops>>

-----------------------------------------------------------------------------
(* Time and the process *)

\* Six hours without a turn in the conversations of one root, in memory and on disk; a
\* call that has no conversation yet has come just now.  A snapshot can be older than the
\* conversation when a save failed.  (Taken to pass only while none of the root's requests is
\* at work: a conversation that is old under a request that waits is not dropped either way.)
Silence(r) ==
  /\ silences < MaxSilences /\ silences' = silences + 1
  /\ \A c \in Callers : /\ ~At(c, {"lookup", "reading", "ready"})
                        /\ work[c].conv.root = r => At(c, {"none", "changing", "over"})
  /\ disk' = [disk EXCEPT ![r].aged = (@ \/ disk[r].rev > 0)]
  /\ \/ aged' = aged \cup {o \in ToSet(loaded) : o.root = r}
     \/ /\ \E o \in ToSet(loaded) : o.root = r /\ turns[o] # disk[r].turns
        /\ UNCHANGED aged
  /\ UNCHANGED <<loaded, copies, turns, replies, work, revs, writer, stops>>

\* The process starts again: restore loads the snapshots that have not expired.
Restart ==
  /\ Stop
  /\ LET live == {r \in Snapshots : ~disk[r].aged}
         most == IF Cardinality(live) > MaxConversations THEN MaxConversations
                   ELSE Cardinality(live)
     IN  \E order \in [1..most -> live] :
           /\ Cardinality(ToSet(order)) = most
           /\ Copied(ToSet(order))
           /\ loaded' = [i \in 1..most |-> NewCopy(order[i])]
           /\ revs' = [r \in Messages |-> IF r \in ToSet(order) THEN disk[r].rev ELSE 0]
  /\ disk' = [r \in Messages |-> IF disk[r].aged THEN NoSnapshot ELSE disk[r]]
  /\ work' = [c \in Callers |-> IF At(c, {"none"}) THEN Fresh
                                ELSE [stage |-> "over", conv |-> NoObject]]
  /\ writer' = Nobody
  /\ UNCHANGED <<aged, silences>>

RequestStep(e) ==
  \/ ReadSnapshot(e) \/ Restore(e) \/ Enter(e)
  \/ EnterConversation(e) \/ EnterMember(e) \/ EnterSlot(e)
  \/ Send(e) \/ RecordTurn(e) \/ BeginSave(e) \/ EndSave(e)

OutcomeStep(m) == StartOutcome(m) \/ AddOutcome(m) \/ BeginSave(m) \/ EndSave(m)

RequestNext ==
  \/ \E e \in Events : Arrive(e) \/ RequestStep(e) \/ GiveUp(e)
  \/ \E m \in Changes : OutcomeStep(m)
  \/ \E c \in Callers : StoreFails(c)
  \/ PruneDisk \/ (\E r \in Messages : Silence(r)) \/ Restart

RequestSpec == RequestInit /\ [][RequestNext]_requestVars

-----------------------------------------------------------------------------
(* Properties *)

RequestTypeOK ==
  /\ ToSet(loaded) \subseteq Objects /\ Cardinality(ToSet(loaded)) = Len(loaded)
  /\ copies \in [Messages -> 0..MaxCopies]
  /\ turns \in [Objects -> SUBSET Turns] /\ replies \in [Objects -> SUBSET Messages]
  /\ aged \subseteq Objects
  /\ work \in [Callers -> [stage : Stages, conv : Objects \cup {NoObject}]]
  /\ disk \in [Messages -> [rev : Nat, turns : SUBSET Turns, replies : SUBSET Messages,
                            aged : BOOLEAN]]
  /\ revs \in [Messages -> Nat]
  /\ writer \in Callers \cup {Nobody}
  /\ silences \in 0..MaxSilences /\ stops \in 0..MaxStops

\* "Requests from the same member or conversation run one at a time" (docs/developers/
\* agent.md), also when a conversation was dropped and loaded again in between.
OneAtATime ==
  \A d, e \in Events :
    d # e /\ At(d, InSlot) /\ At(e, InSlot)
      => /\ Author[MessageOf[d]] # Author[MessageOf[e]]
         /\ work[d].conv.root # work[e].conv.root

\* The conversation a request waits for or works in is not dropped under it: not to make
\* room, not after six hours, not by a lookup of someone else (_is_active).
RequestKeepsConversation == \A e \in Events : At(e, Pending) => is_loaded(work[e].conv)

\* What is loaded has every turn that was saved: a snapshot is never installed after a
\* newer one was written (ConversationPersistence._lock), nor a second time.
MemoryHoldsSnapshot ==
  /\ \A o \in ToSet(loaded) : disk[o.root].turns \subseteq turns[o]
  /\ \A o, p \in ToSet(loaded) : o.root = p.root => o = p

\* "A stale writer must not overwrite a newer conversation snapshot" (repository.py): a
\* saved turn stays saved until the whole snapshot goes, also when an outcome still has
\* the conversation that was dropped from memory.
SavedTurnsStay ==
  \A r \in Messages : disk'[r].rev > 0 => disk[r].turns \subseteq disk'[r].turns

\* A message that is announced twice is not answered again where its answer is recorded:
\* the check after the locks holds until the answer goes out.
NotAnsweredAgain ==
  \A e \in Events : At(e, {"answering"}) /\ work'[e].stage = "sent"
    => Answer(MessageOf[e]) \notin turns[work[e].conv]

\* Requests keep their order and conversations their turns, however the four locks, the
\* checkpoints and the clean-ups of memory overlap: what every step keeps.
RequestsInOrder ==
  [][/\ (OneAtATime /\ RequestKeepsConversation /\ MemoryHoldsSnapshot)'
     /\ SavedTurnsStay /\ NotAnsweredAgain]_requestVars

\* The event loop: every call goes on when it can; nobody takes a lock twice, so that
\* weak fairness is enough for the waiters.
RequestFair ==
  /\ \A e \in Events : WF_requestVars(RequestStep(e))
  /\ \A m \in Changes : WF_requestVars(OutcomeStep(m))

RequestFairSpec == RequestSpec /\ RequestFair

\* Nobody waits for ever on the four locks, even if no timeout ever came: again and again
\* every request and every outcome has ended.
EveryRequestEnds == []<>(\A c \in Callers : At(c, {"none", "changing", "over"}))
=============================================================================
