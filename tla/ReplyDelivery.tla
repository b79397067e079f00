----------------------------- MODULE ReplyDelivery -----------------------------
(***************************************************************************)
(* One answer of the agent on its way to Discord, and the requests that     *)
(* follow it in its conversation.  An answer goes out as parts, each with a *)
(* nonce; a send may be refused, or its response may be lost, and then the  *)
(* message is there, comes later or never.  The bot looks for the nonce at  *)
(* once and again before the next request (agent/delivery.py,               *)
(* agent/conversation/state.py, agent/cog.py).                              *)
(*                                                                          *)
(* Abstracted: a part is its nonce.  What the bot takes for a refusal is    *)
(* one: a lost connection that is neither an OSError nor a timeout counts   *)
(* as refused in the code too, although it may have posted.  Posts made by  *)
(* a tool while the answer is written, and answers shown privately, are     *)
(* left out.                                                                *)
(***************************************************************************)
EXTENDS Naturals, Sequences, SequencesExt

CONSTANTS
  Shapes,       \* answers: is there a GIF, the parts of the text and of what follows it
  MaxFollowUps  \* bound: later requests in the conversation

ASSUME DeliveryAssumption ==
  /\ Shapes \subseteq [gif : BOOLEAN, first : Nat \ {0}, second : Nat, evidence : BOOLEAN]
  /\ MaxFollowUps \in Nat

VARIABLES
  shape,     \* the answer
  phase,     \* what the request does
  segment,   \* 0 the GIF, 1 the text, 2 what follows it: the answer after its preview
  index,     \* how many parts of the segment have their reply: the loop over the chunks
  delivery,  \* AgentDelivery
  record,    \* the delivery in the turn's ConversationRecord, once it is recorded
  posted,    \* the parts in the channel, oldest first
  onTheWay,  \* the part that Discord may still post
  notice,    \* what the member got instead of the answer
  followUps, followUp  \* later requests, and how the last one went

deliverVars == <<shape, phase, segment, index, delivery, record, posted, onTheWay, notice, followUps, followUp>>

Part(s, i)  == [segment |-> s, index |-> i]
PartsOf(s)  == [i \in 1..(CASE s = 0 -> 1 [] s = 1 -> shape.first [] s = 2 -> shape.second)
                  |-> Part(s, i)]
NoPart == Part(0, 0)
AllParts == {Part(0, 1)} \cup {Part(s, i) : s \in {1, 2},
                               i \in 1..(shape.first + shape.second)}

NoDelivery == [attempted |-> <<>>, generated |-> <<>>, replies |-> <<>>, texts |-> <<>>,
               complete |-> FALSE, unknown |-> FALSE, uncertain |-> NoPart]

Phases == {"begin", "send", "waiting", "asking", "sent", "refused", "doubtful", "stopped", "over"}

DeliverInit ==
  /\ shape \in Shapes
  /\ phase = "begin" /\ segment = (IF shape.gif THEN 0 ELSE 1) /\ index = 0
  /\ delivery = NoDelivery /\ record = NoDelivery
  /\ posted = <<>> /\ onTheWay = NoPart
  /\ notice = "none" /\ followUps = 0 /\ followUp = "none"

-----------------------------------------------------------------------------
(* send_response, _send_gif, _send_response, _send_split_response *)

\* The parts of a segment are recorded before the first of them is sent.
BeginSegment ==
  /\ phase = "begin" /\ phase' = "send"
  /\ delivery' = [delivery EXCEPT !.complete = FALSE, !.generated = @ \o PartsOf(segment)]
  /\ UNCHANGED <<shape, segment, index, record, posted, onTheWay, notice, followUps, followUp>>

next == Part(segment, index + 1)

\* _send_delivery_part: the attempt is noted, then the request goes out.
Attempt ==
  /\ phase = "send" /\ phase' = "waiting"
  /\ delivery' = [delivery EXCEPT !.attempted = Append(@, next)]
  /\ UNCHANGED <<shape, segment, index, record, posted, onTheWay, notice, followUps, followUp>>

\* After a part: the next one, the answer after its preview, or the end.
follows(d) ==
  IF index + 1 < Len(PartsOf(segment))
    THEN /\ phase' = "send" /\ delivery' = d /\ UNCHANGED segment /\ index' = index + 1
  ELSE IF segment = 1 /\ shape.second > 0
    THEN /\ phase' = "begin" /\ segment' = 2 /\ index' = 0
         /\ delivery' = [d EXCEPT !.complete = TRUE]
  ELSE /\ phase' = "sent" /\ UNCHANGED segment /\ index' = index + 1
       /\ delivery' = [d EXCEPT !.complete = TRUE]

received(d, p) == [d EXCEPT !.replies = Append(@, p), !.texts = Append(@, p)]

Accepted ==
  /\ phase = "waiting"
  /\ posted' = Append(posted, next)
  /\ follows(received(delivery, next))
  /\ UNCHANGED <<shape, record, onTheWay, notice, followUps, followUp>>

\* What became of a request whose response was not seen.
Lost == \/ posted' = Append(posted, next) /\ UNCHANGED onTheWay
        \/ onTheWay' = next /\ UNCHANGED posted
        \/ UNCHANGED <<posted, onTheWay>>

\* The parts that a failure of the first segment leaves: the whole second one.
pending(d) == IF segment = 1 /\ shape.second > 0
                THEN [d EXCEPT !.generated = @ \o PartsOf(2), !.complete = FALSE]
                ELSE [d EXCEPT !.complete = FALSE]
\* Mutant: a lost response is not noted.
unmarked(d)  == [d EXCEPT !.unknown = FALSE]
uncertain(d) == [d EXCEPT !.unknown = TRUE, !.uncertain = next]

\* A status of 500 or above, a broken connection: the nonce is looked for.
Uncertain ==
  /\ phase = "waiting" /\ Lost
  /\ delivery' = uncertain(delivery) /\ phase' = "asking"
  /\ UNCHANGED <<shape, segment, index, record, notice, followUps, followUp>>

seen     == next \in ToSet(posted)

\* _find_delivery_nonce: the message is there, or it is not seen.
Found ==
  /\ phase = "asking" /\ seen
  /\ follows(received([delivery EXCEPT !.unknown = FALSE, !.uncertain = NoPart], next))
  /\ UNCHANGED <<shape, record, posted, onTheWay, notice, followUps, followUp>>

NotFound ==
  /\ phase = "asking"
  /\ delivery' = pending(delivery) /\ phase' = "doubtful"
  /\ UNCHANGED <<shape, segment, index, record, posted, onTheWay, notice, followUps, followUp>>

\* The request runs out of time, or the bot is stopped, during a send or
\* between two.
TimesOut ==
  /\ \/ phase = "waiting" /\ Lost /\ delivery' = pending(uncertain(delivery))
     \/ /\ phase \in {"begin", "send", "asking"} /\ delivery' = pending(delivery)
        /\ UNCHANGED <<posted, onTheWay>>
  /\ phase' = "stopped"
  /\ UNCHANGED <<shape, segment, index, record, notice, followUps, followUp>>

\* send_response: the text stands in for a GIF that Discord refused.
falls_back        == segment = 0 /\ phase = "waiting"

\* _uncertain_delivery_error denies it: nothing was posted.
Refused ==
  /\ phase = "waiting"
  /\ ~falls_back
  /\ delivery' = pending(delivery) /\ phase' = "refused"
  /\ UNCHANGED <<shape, segment, index, record, posted, onTheWay, notice, followUps, followUp>>

FallBack ==
  /\ falls_back
  /\ segment' = 1 /\ phase' = "begin"
  /\ UNCHANGED <<shape, index, delivery, record, posted, onTheWay, notice, followUps, followUp>>

-----------------------------------------------------------------------------
(* _record_turn, in the finally of _answer; then the error handlers of on_message *)

\* _recover_stopped_request: with evidence an unfinished answer goes out unless a part
\* did, or may have; without evidence a notice goes out whatever was sent.
recovery(d) ==
  CASE ~shape.evidence -> "failure"
    [] shape.evidence /\ d.replies = <<>> /\ ~d.unknown -> "unfinished"
    [] OTHER -> "none"

Record ==
  /\ phase \in {"sent", "refused", "doubtful", "stopped"} /\ phase' = "over"
  /\ record' = (IF delivery.attempted # <<>> THEN delivery ELSE record)
  /\ notice' = (IF phase \in {"refused", "stopped"} THEN recovery(delivery) ELSE notice)
  /\ UNCHANGED <<shape, segment, index, delivery, posted, onTheWay, followUps, followUp>>

\* Discord posts what it took before the connection broke.
ArrivesLate ==
  /\ onTheWay # NoPart /\ phase # "waiting"
  /\ posted' = Append(posted, onTheWay) /\ onTheWay' = NoPart
  /\ UNCHANGED <<shape, phase, segment, index, delivery, record, notice, followUps, followUp>>

-----------------------------------------------------------------------------
(* A later request: _reconcile_unknown_deliveries and reconcile_unknown_delivery *)

part_index(r)         == Len(r.attempted)

is_complete(r) == Len(r.attempted) = Len(r.generated)

fits(r) == is_complete(r) => Len(r.replies) + 1 = Len(r.attempted)

Confirmed(r) ==
  [r EXCEPT !.replies = Append(@, r.uncertain), !.texts = Append(@, r.generated[part_index(r)]),
            !.complete = is_complete(r), !.unknown = FALSE, !.uncertain = NoPart]

\* An uncertain part may be out of sight by now.
FollowUp ==
  /\ phase = "over" /\ followUps < MaxFollowUps /\ followUps' = followUps + 1
  /\ \/ /\ record.unknown /\ record.uncertain \in ToSet(posted)
        /\ IF fits(record) THEN record' = Confirmed(record) /\ followUp' = "answered"
             ELSE followUp' = "failed" /\ UNCHANGED record
     \/ followUp' = "answered" /\ UNCHANGED record
  /\ UNCHANGED <<shape, phase, segment, index, delivery, posted, onTheWay, notice>>

DeliverNext ==
  \/ BeginSegment \/ Attempt \/ Accepted \/ Uncertain \/ Found \/ NotFound \/ TimesOut
  \/ Refused \/ FallBack \/ Record \/ ArrivesLate \/ FollowUp

DeliverSpec == DeliverInit /\ [][DeliverNext]_deliverVars

-----------------------------------------------------------------------------
(* Properties *)

Deliveries == [attempted : Seq(AllParts), generated : Seq(AllParts), replies : Seq(AllParts),
               texts : Seq(AllParts), complete : BOOLEAN, unknown : BOOLEAN,
               uncertain : AllParts \cup {NoPart}]

DeliverTypeOK ==
  /\ shape \in Shapes /\ phase \in Phases /\ segment \in 0..2 /\ index \in Nat
  /\ delivery \in Deliveries /\ record \in Deliveries
  /\ posted \in Seq(AllParts) /\ onTheWay \in AllParts \cup {NoPart}
  /\ notice \in {"none", "failure", "unfinished"}
  /\ followUps \in 0..MaxFollowUps /\ followUp \in {"none", "answered", "failed"}

\* "An uncertain send ... must never trigger a second visible response" (delivery.py): the
\* text never stands beside its GIF, and neither does an unfinished answer beside a part,
\* even one that comes late.
OneVisibleResponse ==
  /\ Part(0, 1) \in ToSet(posted) \cup {onTheWay} => \A p \in ToSet(posted) : p.segment = 0
  /\ notice = "unfinished" => posted = <<>> /\ onTheWay = NoPart

\* The channel shows the GIF, or the parts of the text once each and in the order of the
\* answer, with none missing between two of them, also when one was confirmed late.
PartsInOrder == posted = PartsOf(0) \/ IsPrefix(posted, PartsOf(1) \o PartsOf(2))

\* Replies are recognised by the record: a part in the channel, or on its way, is a
\* reply of the recorded turn or the one uncertain part of it.
PartsAccountedFor ==
  phase = "over" =>
    /\ ToSet(record.replies) \subseteq ToSet(posted)
    /\ ToSet(posted) \cup ({onTheWay} \ {NoPart}) \subseteq ToSet(record.replies) \cup {record.uncertain}

\* What is recorded as delivered is what was sent, and an answer that is recorded as
\* complete is all there: the GIF alone or every part of the text.
RecordSaysWhatWasSent ==
  phase = "over" =>
    /\ record.texts = record.replies
    /\ record.complete /\ ~record.unknown =>
         \/ posted = <<Part(0, 1)>>
         \/ Len(posted) = shape.first + shape.second

\* An answer is there once, in order, and recorded as it is there, whatever
\* responses of Discord were lost and however late a part appeared.
OneAnswerInFull == OneVisibleResponse /\ PartsInOrder /\ PartsAccountedFor /\ RecordSaysWhatWasSent

\* "Delivery progress lets the bot check an uncertain send and reuse the answer"
\* (docs/developers/agent.md): a later request that finds the send goes on.
FoundSendIsConfirmed == followUp # "failed"
=============================================================================
