----------------------------- MODULE FeatureProofs -----------------------------
(***************************************************************************)
(* Safety proofs of the features and of what they share: profiles, news,    *)
(* transfers, wars, roles, hibernation and the publishing queue.            *)
(***************************************************************************)
EXTENDS Profiles, NewsPublishing, ClanTransfers, WarSummaries, RoleClaims, Hibernation, Publishing,
        FiniteSetTheorems, WellFoundedInduction, TLAPS

-----------------------------------------------------------------------------
(* Profiles: one fetch for all who ask, written in the order it came.        *)

ProfileOutcomes == {"idle", "waits", "served", "cancelled", "collector_error", "failed"}

\* The shapes of the variables that ProfileTypeOK leaves to it.
ProfileShapes ==
  /\ asker \in [Askers -> ProfileOutcomes]
  /\ flight \in {"none", "fetching", "dying"} /\ requesting \in BOOLEAN
  /\ landed \in Nat /\ kept \in 0..landed /\ unstored \in 0..landed
  /\ batch \in 0..landed /\ profiles_stored \in 0..landed
  /\ scheduled \in 0..landed /\ written \in 0..landed
  /\ profile_writer \in {"none", "looks", "writes"} /\ profilesClosing \in BOOLEAN

\* What the writer stored last, the batch and what waits for the writer came in this order, and
\* the batch is the writer's as long as it writes.
StoredInOrder ==
  /\ batch # 0 => written <= batch
  /\ unstored # 0 => written <= unstored /\ batch <= unstored
  /\ profile_writer = "writes" <=> batch # 0

ProfileInv == ProfileShapes /\ ProfileTypeOK /\ StoredInOrder

\* Nobody has asked yet.
LEMMA ProfileStarts == ProfileInit => ProfileInv
<1> SUFFICES ASSUME ProfileInit PROVE ProfileInv
  OBVIOUS
<1>1. requesting \in BOOLEAN /\ profilesClosing \in BOOLEAN /\ Waiting = {}
  BY DEF ProfileInit, Waiting
<1>2. asker \in [Askers -> ProfileOutcomes]
  BY DEF ProfileInit, ProfileOutcomes
<1> QED
  BY <1>1, <1>2 DEF ProfileInit, ProfileInv, ProfileShapes, ProfileTypeOK, StoredInOrder

\* What an answer does to those who wait.
LEMMA AnswerTells ==
  ASSUME asker \in [Askers -> ProfileOutcomes],
         NEW who \in SUBSET Askers, NEW answer \in ProfileOutcomes, Tell(who, answer)
  PROVE  /\ asker' \in [Askers -> ProfileOutcomes]
         /\ answer # "waits" => Waiting' = Waiting \ who
         /\ answer = "waits" => Waiting' = Waiting \cup who
BY DEF Tell, Waiting, ProfileOutcomes

\* Steps that leave who asks and what flies alone keep who waits for what.
LEMMA WriterKept ==
  ASSUME ProfileInv, UNCHANGED <<asker, flight, requesting>>,
         ProfileShapes', StoredInOrder',
         unstored' # 0 \/ batch' # 0 => profile_writer' # "none"
  PROVE  ProfileInv'
BY DEF ProfileInv, ProfileTypeOK, ProfileShapes, Waiting

\* Steps that leave the writer and what is to be stored alone keep their order.
LEMMA AskersKept ==
  ASSUME ProfileInv, UNCHANGED <<writerVars, recordVars, landed, kept>>,
         asker' \in [Askers -> ProfileOutcomes], flight' \in {"none", "fetching", "dying"},
         requesting' \in BOOLEAN, profilesClosing' \in BOOLEAN,
         Waiting' # {} => flight' # "none",
         flight' = "fetching" => requesting'
  PROVE  ProfileInv'
BY DEF ProfileInv, ProfileTypeOK, ProfileShapes, StoredInOrder, writerVars, recordVars

\* Every step keeps the invariant.
LEMMA ProfileKept == ProfileInv /\ [ProfileNext]_profileVars => ProfileInv'
<1> SUFFICES ASSUME ProfileInv, [ProfileNext]_profileVars PROVE ProfileInv'
  OBVIOUS
<1>0. /\ ProfileShapes /\ ProfileTypeOK /\ StoredInOrder
      /\ Waiting \in SUBSET Askers
      /\ asker \in [Askers -> ProfileOutcomes]
      /\ {"served", "cancelled", "collector_error", "failed", "waits"} \subseteq ProfileOutcomes
  BY DEF ProfileInv, ProfileShapes, Waiting, ProfileOutcomes
<1>1. CASE UNCHANGED profileVars
  BY <1>1 DEF profileVars, writerVars, recordVars, ProfileInv, ProfileShapes, ProfileTypeOK, StoredInOrder,
     Waiting
<1>2. ASSUME NEW a \in Askers, AskProfile(a) PROVE ProfileInv'
  <2>1. CASE kept # 0 /\ Tell({a}, "served") /\ UNCHANGED <<flight, requesting>>
    <3>1. Waiting' = Waiting \ {a} /\ asker' \in [Askers -> ProfileOutcomes]
      BY <1>0, <2>1, AnswerTells
    <3> QED
      BY <1>0, <1>2, <2>1, <3>1, AskersKept DEF AskProfile, ProfileShapes, ProfileTypeOK
  <2>2. CASE /\ Tell({a}, "waits") /\ requesting' = (requesting \/ flight = "none")
             /\ flight' = IF flight = "none" THEN "fetching" ELSE flight
    <3>1. asker' \in [Askers -> ProfileOutcomes]
      BY <1>0, <2>2, AnswerTells
    <3>2. flight' # "none" /\ flight' \in {"none", "fetching", "dying"}
      BY <1>0, <2>2 DEF ProfileShapes
    <3>3. requesting' \in BOOLEAN /\ (flight' = "fetching" => requesting')
      BY <1>0, <2>2 DEF ProfileShapes, ProfileTypeOK
    <3> QED
      BY <1>0, <1>2, <3>1, <3>2, <3>3, AskersKept DEF AskProfile, ProfileShapes
  <2> QED
    BY <1>2, <2>1, <2>2 DEF AskProfile
<1>3. ASSUME NEW a \in Askers, GiveUpAsking(a) PROVE ProfileInv'
  <2>1. Waiting' = Waiting \ {a} /\ asker' \in [Askers -> ProfileOutcomes]
    BY <1>0, <1>3, AnswerTells DEF GiveUpAsking
  <2>2. /\ flight' \in {"none", "fetching", "dying"} /\ (flight' = "fetching" => flight = "fetching")
        /\ (flight # "none" => flight' # "none")
    BY <1>0, <1>3 DEF GiveUpAsking, ProfileShapes
  <2> QED
    BY <1>0, <1>3, <2>1, <2>2, AskersKept DEF GiveUpAsking, ProfileShapes, ProfileTypeOK
<1>4. CASE Dies
  <2>1. Waiting' = {} /\ asker' \in [Askers -> ProfileOutcomes]
    BY <1>0, <1>4, AnswerTells DEF Dies, told_of_death
  <2> QED
    BY <1>0, <1>4, <2>1, AskersKept DEF Dies, ProfileShapes
<1>5. CASE Lands
  <2>1. CASE flight = "fetching"
    <3>1. Waiting' = {} /\ asker' \in [Askers -> ProfileOutcomes]
      BY <1>0, <1>5, <2>1, AnswerTells DEF Lands
    <3>2. /\ landed' = landed + 1 /\ kept' = landed' /\ flight' = "none" /\ requesting' = FALSE
          /\ unstored' \in {unstored, landed'} /\ UNCHANGED <<batch, written, recordVars, profilesClosing>>
          /\ profile_writer' = IF ~profilesClosing /\ profile_writer = "none" THEN "looks"
                              ELSE profile_writer
          /\ (profilesClosing => unstored' = unstored)
      BY <1>5, <2>1 DEF Lands, writer_needed
    <3>6. requesting' \in BOOLEAN /\ profilesClosing' \in BOOLEAN
      BY <1>0, <3>2 DEF ProfileShapes
    <3>3. ProfileShapes'
      BY <1>0, <3>1, <3>2, <3>6 DEF ProfileShapes, recordVars
    <3>4. StoredInOrder'
      BY <1>0, <3>2 DEF ProfileShapes, StoredInOrder
    <3>5. unstored' # 0 \/ batch' # 0 => profile_writer' # "none"
      BY <1>0, <3>2 DEF ProfileTypeOK
    <3> QED
      BY <3>1, <3>2, <3>3, <3>4, <3>5 DEF ProfileInv, ProfileTypeOK, ProfileShapes
  <2>2. CASE flight # "fetching"
    <3>1. requesting' \in BOOLEAN /\ profilesClosing' \in BOOLEAN
      BY <1>0, <1>5 DEF Lands, ProfileShapes
    <3>2. ProfileShapes'
      BY <1>0, <1>5, <2>2, <3>1 DEF Lands, ProfileShapes, recordVars
    <3> QED
      BY <1>0, <1>5, <2>2, <3>2
      DEF Lands, ProfileInv, ProfileShapes, ProfileTypeOK, StoredInOrder, Waiting, recordVars
  <2> QED
    BY <2>1, <2>2
<1>6. CASE FetchFails
  <2>1. CASE flight = "fetching"
    <3>1. Waiting' = {} /\ asker' \in [Askers -> ProfileOutcomes]
      BY <1>0, <1>6, <2>1, AnswerTells DEF FetchFails
    <3> QED
      BY <1>0, <1>6, <2>1, <3>1, AskersKept DEF FetchFails, ProfileShapes
  <2>2. CASE flight # "fetching"
    <3>1. Waiting' = Waiting
      BY <1>6, <2>2 DEF FetchFails, Waiting
    <3> QED
      BY <1>0, <1>6, <2>2, <3>1, AskersKept DEF FetchFails, ProfileShapes, ProfileTypeOK
  <2> QED
    BY <2>1, <2>2
<1>7. CASE Observe
  <2>1. ProfileShapes'
    BY <1>0, <1>7 DEF Observe, writerVars, ProfileShapes
  <2>2. StoredInOrder'
    BY <1>0, <1>7 DEF Observe, writerVars, StoredInOrder
  <2> QED
    BY <1>0, <1>7, <2>1, <2>2, WriterKept DEF Observe, writerVars, ProfileTypeOK
<1>8. CASE WriterLooks
  <2>1. ProfileShapes'
    BY <1>0, <1>8 DEF WriterLooks, ProfileShapes, recordVars
  <2>2. StoredInOrder'
    BY <1>0, <1>8 DEF WriterLooks, ProfileShapes, StoredInOrder
  <2> QED
    BY <1>0, <1>8, <2>1, <2>2, WriterKept DEF WriterLooks, StoredInOrder
<1>9. CASE WriteBatch
  <2>1. ProfileShapes'
    BY <1>0, <1>9 DEF WriteBatch, left_to_store, ProfileShapes
  <2>2. StoredInOrder'
    BY <1>0, <1>9 DEF WriteBatch, left_to_store, ProfileShapes, StoredInOrder
  <2> QED
    BY <1>0, <1>9, <2>1, <2>2, WriterKept DEF WriteBatch
<1>10. CASE ScheduledStores
  <2>1. ProfileShapes'
    BY <1>0, <1>10 DEF ScheduledStores, writerVars, ProfileShapes
  <2>2. StoredInOrder'
    BY <1>0, <1>10 DEF ScheduledStores, writerVars, StoredInOrder
  <2> QED
    BY <1>0, <1>10, <2>1, <2>2, WriterKept DEF ScheduledStores, writerVars, ProfileTypeOK
<1>11. CASE CloseProfiles
  <2>1. Waiting' = Waiting
    BY <1>11 DEF CloseProfiles, Waiting
  <2>2. /\ flight' \in {"none", "fetching", "dying"} /\ flight' # "fetching"
        /\ (flight # "none" => flight' # "none")
    BY <1>0, <1>11 DEF CloseProfiles, ProfileShapes
  <2> QED
    BY <1>0, <1>11, <2>1, <2>2, AskersKept DEF CloseProfiles, ProfileShapes, ProfileTypeOK
<1> QED
  BY <1>1, <1>2, <1>3, <1>4, <1>5, <1>6, <1>7, <1>8, <1>9, <1>10, <1>11 DEF ProfileNext

\* A fetch goes on as long as someone waits for it and the collectors are not closed, what
\* came during a write is written next, the writer stores in the order in which profiles came, and
\* the record goes back to an older one only where the scheduled pass wrote.
THEOREM FetchesKept == ProfileSpec => FetchesAreKept
<1>1. ProfileInv /\ [ProfileNext]_profileVars => [OthersLeaveItRunning /\ FetchedIsStored]_profileVars
  <2> SUFFICES ASSUME ProfileInv, ProfileNext
               PROVE  OthersLeaveItRunning /\ FetchedIsStored
    OBVIOUS
  <2>0. ProfileShapes /\ StoredInOrder
    BY DEF ProfileInv
  <2>1. OthersLeaveItRunning
    <3> SUFFICES ASSUME flight = "fetching", flight' = "dying", ~profilesClosing'
                 PROVE  Waiting' = {}
      BY DEF OthersLeaveItRunning, Waiting
    <3>1. PICK a \in Askers : GiveUpAsking(a) /\ last_to_leave(a)
      BY DEF ProfileNext, AskProfile, GiveUpAsking, Dies, Lands, FetchFails, Observe, ScheduledStores,
         WriterLooks, WriteBatch, CloseProfiles
    <3>2. Waiting' = Waiting \ {a}
      BY <2>0, <3>1, AnswerTells DEF GiveUpAsking, ProfileShapes, ProfileOutcomes
    <3> QED
      BY <3>1, <3>2 DEF last_to_leave
  <2>2. FetchedIsStored
    <3>0. /\ landed \in Nat /\ unstored \in 0..landed /\ batch \in 0..landed
          /\ profiles_stored \in 0..landed /\ written \in 0..landed
      BY <2>0 DEF ProfileShapes
    <3>1. CASE WriterLooks
      BY <3>0, <3>1 DEF WriterLooks, FetchedIsStored, recordVars
    <3>2. CASE WriteBatch
      BY <3>0, <2>0, <3>2 DEF WriteBatch, left_to_store, FetchedIsStored, StoredInOrder
    <3>3. CASE Lands
      BY <3>0, <3>3 DEF Lands, FetchedIsStored, recordVars
    <3>4. CASE ScheduledStores
      BY <3>0, <3>4 DEF ScheduledStores, writerVars, FetchedIsStored
    <3>5. CASE UNCHANGED <<writerVars, profiles_stored>>
      BY <3>0, <3>5 DEF writerVars, FetchedIsStored
    <3>6. WriterLooks \/ WriteBatch \/ Lands \/ ScheduledStores \/ UNCHANGED <<writerVars, profiles_stored>>
      BY DEF ProfileNext, AskProfile, GiveUpAsking, Dies, FetchFails, Observe, CloseProfiles, recordVars
    <3> QED
      BY <3>1, <3>2, <3>3, <3>4, <3>5, <3>6
  <2> QED
    BY <2>1, <2>2
<1> QED
  BY <1>1, ProfileStarts, ProfileKept, PTL DEF ProfileSpec, FetchesAreKept

-----------------------------------------------------------------------------
(* NewsPublishing: one post per update, and a receipt that names it.         *)

\* The shapes of what publishing counts on.
NewsShapes ==
  /\ newsDb \in [receipt : Nat, prompt : BOOLEAN] /\ newsState.receipt = newsDb.receipt
  /\ posts \in Nat /\ uncommitted \in Nat /\ unremembered \in Nat
  /\ newsAt \in {"refresh", "send", "commit", "dismiss"}

\* Where the holder of the lock is tells what is known of the post: only one who knows of
\* none sends, and a post waits for its receipt only as long as there is none.
HolderKnows ==
  /\ newsAt = "send" => newsDb.receipt = NoPost /\ uncommitted = NoPost
  /\ newsAt = "commit" => newsDb.receipt = NoPost /\ uncommitted # NoPost
  /\ newsAt = "dismiss" => newsDb.receipt # NoPost
  /\ newsDb.receipt # NoPost => uncommitted = NoPost

\* Every post but the one that is known was one nobody could remember.
PostsAreCounted ==
  /\ posts <= 1 + unremembered
  /\ newsDb.receipt = NoPost /\ uncommitted = NoPost => posts <= unremembered

NewsInv == NewsShapes /\ HolderKnows /\ PostsAreCounted /\ UsedMeansReceipt

\* Nothing was posted yet.
LEMMA NewsStarts == NewsInit => NewsInv
BY DEF NewsInit, NewsInv, NewsShapes, HolderKnows, PostsAreCounted, UsedMeansReceipt, NoPost

\* Steps of the prompt and of its clean-up leave the receipt and the holder alone.
LEMMA PromptKept ==
  ASSUME NewsInv, UNCHANGED <<uncommitted, posts, unremembered>>,
         newsAt' \in {newsAt, "refresh"},
         newsDb' \in [receipt : Nat, prompt : BOOLEAN], newsDb'.receipt = newsDb.receipt,
         newsState'.receipt = newsDb.receipt,
         prompt' = "used" => prompt = "used" \/ newsAt = "dismiss"
  PROVE  NewsInv'
BY DEF NewsInv, NewsShapes, HolderKnows, PostsAreCounted, UsedMeansReceipt

\* Taking the prompt down, with its row or without, leaves the receipt alone.
LEMMA RemovalKeepsReceipt ==
  ASSUME NewsInv, NEW how, RemovePrompt(how) \/ RemoveMessage(how)
  PROVE  /\ newsDb' \in [receipt : Nat, prompt : BOOLEAN] /\ newsDb'.receipt = newsDb.receipt
         /\ newsState'.receipt = newsDb.receipt /\ prompt' \in {prompt, how}
BY DEF NewsInv, NewsShapes, RemovePrompt, RemoveMessage, ChangeNews, SameNews

\* Every step keeps the invariant, and none changes a receipt.
LEMMA NewsKept ==
  NewsInv /\ [NewsNext]_newsVars => NewsInv' /\ (newsVars' = newsVars \/ ReceiptStays)
<1> SUFFICES ASSUME NewsInv, [NewsNext]_newsVars
             PROVE  NewsInv' /\ (newsVars' = newsVars \/ ReceiptStays)
  OBVIOUS
<1>0. /\ newsDb \in [receipt : Nat, prompt : BOOLEAN] /\ newsState.receipt = newsDb.receipt
      /\ newsDb.receipt \in Nat
  BY DEF NewsInv, NewsShapes
<1>1. CASE UNCHANGED newsVars
  BY <1>0, <1>1, PromptKept DEF newsVars
<1>2. CASE SeeUpdate \/ PostPrompt \/ AskToPublish \/ CleanupEnds
  <2>1. /\ UNCHANGED <<newsDb, newsState, uncommitted, posts, unremembered, newsAt>>
        /\ prompt' = "used" => prompt = "used"
    BY <1>2 DEF SeeUpdate, PostPrompt, AskToPublish, CleanupEnds
  <2> QED
    BY <1>0, <2>1, PromptKept DEF ReceiptStays
<1>3. CASE SavePrompt
  <2>1. newsDb' \in [receipt : Nat, prompt : BOOLEAN] /\ newsDb'.receipt = newsDb.receipt
    BY <1>0, <1>3 DEF SavePrompt, ChangeNews
  <2> QED
    BY <2>1, <1>3, PromptKept DEF SavePrompt, ChangeNews, ReceiptStays
<1>4. CASE DismissPrompt
  <2>1. RemovePrompt("dismissed") \/ RemoveMessage("dismissed")
    BY <1>4 DEF DismissPrompt
  <2>2. newsAt' \in {newsAt, "refresh"}
    BY <1>4 DEF DismissPrompt
  <2> QED
    BY <2>1, <2>2, <1>4, RemovalKeepsReceipt, PromptKept DEF DismissPrompt, ReceiptStays
<1>5. CASE PromptExpires
  <2>1. /\ \/ RemovePrompt("expired") \/ RemoveMessage("expired")
           \/ UNCHANGED <<prompt, newsDb, newsState>>
        /\ UNCHANGED <<uncommitted, posts, unremembered, newsAt>>
    BY <1>5 DEF PromptExpires, SameNews
  <2>2. CASE UNCHANGED <<prompt, newsDb, newsState>>
    BY <1>0, <2>1, <2>2, PromptKept DEF ReceiptStays
  <2>3. CASE RemovePrompt("expired") \/ RemoveMessage("expired")
    BY <2>1, <2>3, RemovalKeepsReceipt, PromptKept DEF ReceiptStays
  <2> QED
    BY <2>1, <2>2, <2>3
<1>6. CASE DismissUsed
  <2>1. \/ RemovePrompt("used") \/ RemoveMessage("used")
        \/ UNCHANGED <<prompt, newsDb, newsState>>
    BY <1>6 DEF DismissUsed, SameNews
  <2>2. newsAt = "dismiss" /\ newsAt' = "refresh" /\ UNCHANGED <<uncommitted, posts, unremembered>>
    BY <1>6 DEF DismissUsed, GivesLockUp
  <2>3. CASE UNCHANGED <<prompt, newsDb, newsState>>
    BY <1>0, <2>2, <2>3, PromptKept DEF ReceiptStays
  <2>4. CASE RemovePrompt("used") \/ RemoveMessage("used")
    BY <2>2, <2>4, RemovalKeepsReceipt, PromptKept DEF ReceiptStays
  <2> QED
    BY <2>1, <2>3, <2>4
<1>7. CASE ReadReceipt
  BY <1>0, <1>7 DEF ReadReceipt, receipt, NewsInv, NewsShapes, HolderKnows, PostsAreCounted,
     UsedMeansReceipt, ReceiptStays
<1>8. CASE SendPost
  BY <1>0, <1>8 DEF SendPost, after_send, NewsInv, NewsShapes, HolderKnows, PostsAreCounted,
     UsedMeansReceipt, ReceiptStays, NoPost
<1>9. CASE SendPostFails
  BY <1>0, <1>9 DEF SendPostFails, GivesLockUp, NewsInv, NewsShapes, HolderKnows,
     PostsAreCounted, UsedMeansReceipt, ReceiptStays, NoPost
<1>10. CASE CommitReceipt
  <2>1. /\ newsDb' \in [receipt : Nat, prompt : BOOLEAN] /\ newsDb'.receipt = uncommitted
        /\ newsState'.receipt = uncommitted
    BY <1>0, <1>10 DEF CommitReceipt, ChangeNews, NewsInv, NewsShapes
  <2> QED
    BY <1>0, <2>1, <1>10 DEF CommitReceipt, GivesLockUp, NewsInv, NewsShapes, HolderKnows,
       PostsAreCounted, UsedMeansReceipt, ReceiptStays, NoPost
<1>11. CASE CommitFails
  BY <1>0, <1>11 DEF CommitFails, kept_uncommitted, GivesLockUp, NewsInv, NewsShapes,
     HolderKnows, PostsAreCounted, UsedMeansReceipt, ReceiptStays
<1>12. CASE RestartNews
  BY <1>0, <1>12 DEF RestartNews, NewsInv, NewsShapes, HolderKnows, PostsAreCounted,
     UsedMeansReceipt, ReceiptStays, NoPost
<1> QED
  BY <1>1, <1>2, <1>3, <1>4, <1>5, <1>6, <1>7, <1>8, <1>9, <1>10, <1>11, <1>12 DEF NewsNext

\* An update is posted once, however many people publish it and however calls fail and the
\* bot restarts, but after a post nobody could remember; a prompt counts as used only with a
\* receipt, and a receipt stays.
THEOREM NewsPostedOnce == NewsSpec => PostedOnceForGood
<1>1. NewsInv /\ [NewsNext]_newsVars =>
        [(PublishedOnce /\ UsedMeansReceipt)' /\ ReceiptStays]_newsVars
  BY NewsKept DEF NewsInv, PostsAreCounted, PublishedOnce
<1> QED
  BY <1>1, NewsStarts, NewsKept, PTL DEF NewsSpec, PostedOnceForGood

-----------------------------------------------------------------------------
(* ClanTransfers: the queue, its events and what is shown of it.             *)

TransferKinds  == {"requested", "expired", "cancelled", "cleared"}
TransferPlaces == {"rest", "enter", "decide", "change", "ensure", "render", "board", "edit"}
TransferTurns  ==
  [at : TransferPlaces, op : {"none", "request", "cancel", "clear", "expire", "start"},
   who : Movers \cup {NoTask}, n : 0..MaxCommands, draws : SUBSET Entries]

TransferShapes ==
  /\ queued \subseteq Entries /\ remembered \subseteq Entries /\ past \subseteq Entries
  /\ erased \subseteq Entries /\ log \subseteq [entry : Entries, kind : TransferKinds]
  /\ queueShows \subseteq Entries /\ boardShows \subseteq Entries
  /\ turn \in [Tasks -> TransferTurns] /\ commands \in 0..MaxCommands
  /\ queueLock \in Tasks \cup {NoTask} /\ boardLock \in Tasks \cup {NoTask}
  /\ refreshing \in BOOLEAN

\* What is remembered is what is stored, and while a deletion is being published what it took.
Remembers ==
  /\ ~refreshing => remembered = queued
  /\ queued \subseteq remembered /\ remembered \ queued \subseteq erased

\* A lock is held by the task that is inside, and only by it.
TransferLocksHeld ==
  \A t \in Tasks :
    /\ turn[t].at \in {"decide", "change", "render"} <=> queueLock = t
    /\ turn[t].at = "edit" <=> boardLock = t

\* The number of a request that is on its way is no other's, in the events, among the
\* erased or on its way.
TicketsAreFresh ==
  /\ \A row \in log : row.entry.n <= commands
  /\ \A e \in erased : e.n <= commands
  /\ \A t \in Tasks : turn[t].op = "request" =>
       /\ turn[t].who \in Movers /\ turn[t].n \in 1..commands
       /\ \A row \in log : row.entry.n # turn[t].n
       /\ \A e \in erased : e.n # turn[t].n
       /\ \A u \in Tasks \ {t} : turn[u].op = "request" => turn[u].n # turn[t].n

\* A member has one request, and none while the one who will add it holds the lock.
OneEach ==
  /\ \A e, f \in queued : e.who = f.who => e = f
  /\ \A t \in Tasks : turn[t].at = "change" /\ turn[t].op = "request" =>
       of_member(turn[t].who, queued) = {}

\* The events that end a request, and the requests that the events open.
EndingsOf(e) == {row \in log : row.entry = e /\ row.kind # "requested"}
OpenedOnes   == {row.entry : row \in {r \in log : r.kind = "requested"}}

LogTells ==
  /\ queued = {e \in OpenedOnes : EndingsOf(e) = {}}
  /\ \A row \in log : row.entry \in OpenedOnes
  /\ \A r1, r2 \in log :
       r1.entry = r2.entry /\ r1.kind # "requested" /\ r2.kind # "requested" => r1 = r2

\* The live requests and nothing else, but for those that ran out or were erased.
RightlyShown(entries) == entries \ (erased \cup past) = queued \ past

\* Somebody will draw the queue message, or the board.
OwesQueue(t) ==
  \/ turn[t].at \in {"ensure", "render"}
  \/ t = "loop" /\ (turn[t].at = "decide" \/ (turn[t].at = "enter" /\ turn[t].op = "start"))
OwesBoard(t) == OwesQueue(t) \/ turn[t].at = "board"
QueueIsDue   == \E t \in Tasks : OwesQueue(t)
BoardIsDue   == \E t \in Tasks : OwesBoard(t)

\* What is shown is right, or somebody has yet to draw it; who edits the board while nobody
\* else will has the right queue in hand.
ShownInTheEnd ==
  /\ ~QueueIsDue => RightlyShown(queueShows)
  /\ ~BoardIsDue =>
       /\ \A t \in Tasks : turn[t].at = "edit" => RightlyShown(turn[t].draws)
       /\ (\A t \in Tasks : turn[t].at # "edit") => RightlyShown(boardShows)

TransferInv ==
  /\ TransferShapes /\ Remembers /\ TransferLocksHeld /\ TicketsAreFresh /\ OneEach /\ LogTells
  /\ DeletedStaysDeleted /\ ShownInTheEnd

\* Nobody has asked yet.
LEMMA TransferStarts == TransferInit => TransferInv
<1> SUFFICES ASSUME TransferInit PROVE TransferInv
  OBVIOUS
<1> USE DEF TransferInit
<1>1. /\ turn \in [Tasks -> TransferTurns]
      /\ \A t \in Tasks : turn[t].at = "rest" /\ turn[t].op = "none"
  BY TransferAssumption DEF TransferAssumption, TransferTurns, Resting, TransferPlaces
<1>2. TransferShapes
  <2>1. refreshing \in BOOLEAN
    OBVIOUS
  <2> QED
    BY <1>1, <2>1, TransferAssumption DEF TransferAssumption, TransferShapes
<1>3. NoTask \notin Tasks
  BY TransferAssumption DEF TransferAssumption, NoTask, Tasks
<1>4. TransferLocksHeld
  BY <1>1, <1>3 DEF TransferLocksHeld
<1>5. Remembers /\ TicketsAreFresh /\ OneEach /\ DeletedStaysDeleted
  BY <1>1 DEF Remembers, TicketsAreFresh, OneEach, DeletedStaysDeleted
<1>6. LogTells
  BY DEF LogTells, OpenedOnes
<1>7. ShownInTheEnd
  <2>1. RightlyShown(queueShows) /\ RightlyShown(boardShows)
    BY DEF RightlyShown
  <2> QED
    BY <1>1, <2>1 DEF ShownInTheEnd
<1> QED
  BY <1>2, <1>4, <1>5, <1>6, <1>7 DEF TransferInv

\* What a step does to the task that makes it, to the locks and to the messages.
HeldAlone(t)      == \A u \in Tasks \ {t} : turn'[u] = turn[u]
SameTicket(t) ==
  turn'[t].op = turn[t].op /\ turn'[t].who = turn[t].who /\ turn'[t].n = turn[t].n
EntryGoes(t, before, after) == turn[t].at = before /\ turn'[t].at = after
OnlyTasks     == UNCHANGED <<queueLock, boardLock, messages>>

Asked(t) ==
  /\ t \in Taps /\ HeldAlone(t) /\ EntryGoes(t, "rest", "enter")
  /\ commands < MaxCommands /\ commands' = commands + 1
  /\ turn'[t].op = "request" => turn'[t].n = commands' /\ turn'[t].who \in Movers
  /\ OnlyTasks /\ UNCHANGED storeVars
Polled ==
  /\ HeldAlone("loop") /\ EntryGoes("loop", "rest", "enter") /\ turn'["loop"].op # "request"
  /\ OnlyTasks /\ UNCHANGED storeVars /\ UNCHANGED commands
Entered(t) ==
  /\ HeldAlone(t) /\ (EntryGoes(t, "enter", "decide") \/ EntryGoes(t, "ensure", "render")) /\ SameTicket(t)
  /\ queueLock = NoTask /\ queueLock' = t
  /\ UNCHANGED storeVars \/ Leave(past, "expired")
  /\ UNCHANGED <<boardLock, messages, commands>>
Decided(t) ==
  /\ t \in Taps /\ HeldAlone(t) /\ EntryGoes(t, "decide", "change") /\ SameTicket(t)
  /\ turn[t].op = "request" => of_member(turn[t].who, remembered) = {}
  /\ OnlyTasks /\ UNCHANGED storeVars /\ UNCHANGED commands
LetGo(t) ==
  /\ HeldAlone(t) /\ turn'[t].op # "request" /\ queueLock' = NoTask
  /\ UNCHANGED <<boardLock, messages, commands>>
ChangedIt(t) ==
  /\ t \in Taps /\ LetGo(t) /\ EntryGoes(t, "change", "ensure")
  /\ Add(t) \/ \E entries : Leave(entries, "cancelled") \/ Leave(entries, "cleared")
Drew(t) ==
  /\ HeldAlone(t) /\ UNCHANGED commands /\ UNCHANGED storeVars
  /\ \/ /\ EntryGoes(t, "render", "board") /\ SameTicket(t)
        /\ queueShows' = remembered /\ queueLock' = NoTask /\ UNCHANGED <<boardShows, boardLock>>
     \/ /\ EntryGoes(t, "board", "edit") /\ SameTicket(t) /\ turn'[t].draws = remembered
        /\ boardLock = NoTask /\ boardLock' = t /\ UNCHANGED <<queueLock, messages>>
     \/ /\ EntryGoes(t, "edit", "rest") /\ turn'[t].op # "request"
        /\ boardShows' = turn[t].draws /\ boardLock' = NoTask /\ UNCHANGED <<queueLock, queueShows>>
TaskMoves(t) ==
  \/ Asked(t) \/ (t = "loop" /\ Polled) \/ Entered(t) \/ Decided(t)
  \/ t \in Taps /\ LetGo(t) /\ EntryGoes(t, "decide", "rest") /\ UNCHANGED storeVars
  \/ t = "loop" /\ LetGo(t) /\ EntryGoes(t, "decide", "ensure") /\ UNCHANGED storeVars
  \/ /\ t = "loop" /\ turn[t].op = "expire" /\ queueLock = NoTask
     /\ LetGo(t) /\ EntryGoes(t, "enter", "rest") /\ UNCHANGED storeVars
  \/ ChangedIt(t) \/ Drew(t)
QueueMoves ==
  /\ UNCHANGED <<turn, queueLock, boardLock, messages, commands>>
  /\ GrowOld \/ (\E m \in Deletable : DeleteMember(m)) \/ Refresh \/ UNCHANGED storeVars
TransferStep == QueueMoves \/ RestartTransfers \/ \E t \in Tasks : TaskMoves(t)

\* One task moves when its turn is replaced.
LEMMA TurnOf ==
  ASSUME turn \in [Tasks -> TransferTurns], NEW t \in Tasks, NEW new \in TransferTurns,
         turn' = [turn EXCEPT ![t] = new]
  PROVE  /\ turn' \in [Tasks -> TransferTurns] /\ turn'[t] = new /\ HeldAlone(t)
BY DEF HeldAlone

\* The turns a task is put into.
LEMMA TurnsTaken ==
  ASSUME TransferShapes
  PROVE  /\ Resting \in TransferTurns /\ Resting.op = "none" /\ Resting.at = "rest"
         /\ [Resting EXCEPT !.at = "ensure"] \in TransferTurns
         /\ [Resting EXCEPT !.at = "ensure"].at = "ensure"
         /\ [Resting EXCEPT !.at = "ensure"].op = "none"
         /\ [Resting EXCEPT !.at = "enter", !.op = "start"] \in TransferTurns
         /\ [Resting EXCEPT !.at = "enter", !.op = "start"].at = "enter"
         /\ [Resting EXCEPT !.at = "enter", !.op = "start"].op = "start"
<1>1. 0 \in 0..MaxCommands /\ {} \in SUBSET Entries
  BY TransferAssumption DEF TransferAssumption
<1> QED
  BY <1>1 DEF Resting, TransferTurns, TransferPlaces

\* The turn of a task that begins.
LEMMA TurnBegun ==
  ASSUME NEW op, NEW who, NEW n
  PROVE  [Resting EXCEPT !.at = "enter", !.op = op, !.who = who, !.n = n]
           \in [at : {"enter"}, op : {op}, who : {who}, n : {n}, draws : {{}}]
BY DEF Resting

\* A task that goes on keeps its request.
LEMMA MovedTo ==
  ASSUME TransferShapes, NEW t \in Tasks, NEW to \in TransferPlaces, MovesTo(t, to)
  PROVE  /\ turn' \in [Tasks -> TransferTurns] /\ HeldAlone(t) /\ SameTicket(t) /\ turn'[t].at = to
<1>1. turn[t] \in TransferTurns
  BY DEF TransferShapes
<1>2. /\ [turn[t] EXCEPT !.at = to] \in TransferTurns
      /\ [turn[t] EXCEPT !.at = to].op = turn[t].op
      /\ [turn[t] EXCEPT !.at = to].who = turn[t].who
      /\ [turn[t] EXCEPT !.at = to].n = turn[t].n
      /\ [turn[t] EXCEPT !.at = to].at = to
  BY <1>1 DEF TransferTurns
<1>3. turn' = [turn EXCEPT ![t] = [turn[t] EXCEPT !.at = to]]
  BY DEF MovesTo
<1> QED
  BY <1>2, <1>3, TurnOf DEF TransferShapes, SameTicket

\* Every step is one of these.
LEMMA TransferMoves ==
  TransferShapes /\ [TransferNext]_transferVars =>
    TransferStep /\ turn' \in [Tasks -> TransferTurns]
<1> SUFFICES ASSUME TransferShapes, [TransferNext]_transferVars
             PROVE  TransferStep /\ turn' \in [Tasks -> TransferTurns]
  OBVIOUS
<1>0. /\ turn \in [Tasks -> TransferTurns] /\ Taps \subseteq Tasks /\ "loop" \in Tasks
      /\ \A t \in Tasks : turn[t] \in TransferTurns
  BY DEF TransferShapes, Tasks
<1>1. CASE UNCHANGED transferVars
  BY <1>0, <1>1 DEF transferVars, TransferStep, QueueMoves, messages
<1>2. ASSUME NEW t \in Taps, NEW m, NEW op \in {"request", "cancel", "clear"},
             m \in Movers \cup {NoTask}, op = "request" => m \in Movers, Command(t, op, m)
      PROVE  TransferStep /\ turn' \in [Tasks -> TransferTurns]
  <2> DEFINE new == [Resting EXCEPT !.at = "enter", !.op = op, !.who = m,
                                    !.n = IF op = "request" THEN commands' ELSE 0]
  <2>1. commands' \in 1..MaxCommands /\ commands' = commands + 1
    BY <1>2, TransferAssumption DEF Command, TransferShapes, TransferAssumption
  <2> DEFINE number == IF op = "request" THEN commands' ELSE 0
  <2>2. new \in [at : {"enter"}, op : {op}, who : {m}, n : {number}, draws : {{}}]
    BY TurnBegun
  <2>8. number \in 0..MaxCommands /\ (op = "request" => number = commands')
    BY <2>1, TransferAssumption DEF TransferAssumption
  <2> HIDE DEF number
  <2>3. new \in TransferTurns /\ new.at = "enter" /\ new.op = op /\ new.who = m
        /\ (op = "request" => new.n = commands')
    BY <1>2, <2>2, <2>8 DEF TransferTurns, TransferPlaces
  <2>4. turn' = [turn EXCEPT ![t] = new]
    BY <1>2 DEF Command
  <2>5. turn[t].at = "rest"
    BY <1>2 DEF Command, Resting
  <2> HIDE DEF new
  <2>6. /\ turn' \in [Tasks -> TransferTurns] /\ turn'[t] = new /\ HeldAlone(t)
    BY <1>0, <2>3, <2>4, TurnOf
  <2>7. Asked(t)
    BY <1>2, <2>1, <2>3, <2>5, <2>6 DEF Asked, EntryGoes, OnlyTasks, Command
  <2> QED
    BY <1>0, <2>6, <2>7 DEF TransferStep, TaskMoves
<1>3. CASE Poll
  <2> DEFINE new == [turn["loop"] EXCEPT !.at = "enter", !.op = "expire"]
  <2>1. new \in TransferTurns /\ new.at = "enter" /\ new.op = "expire"
    BY <1>0 DEF TransferTurns, TransferPlaces
  <2>2. turn' = [turn EXCEPT !["loop"] = new] /\ turn["loop"].at = "rest"
    BY <1>0, <1>3 DEF Poll, Resting
  <2> HIDE DEF new
  <2>3. turn' \in [Tasks -> TransferTurns] /\ turn'["loop"] = new /\ HeldAlone("loop")
    BY <1>0, <2>1, <2>2, TurnOf
  <2>4. Polled
    BY <1>3, <2>1, <2>2, <2>3 DEF Polled, EntryGoes, OnlyTasks, Poll
  <2> QED
    BY <1>0, <2>3, <2>4 DEF TransferStep, TaskMoves
<1>4. ASSUME NEW t \in Tasks, EnterFirst(t) \/ Ensure(t)
      PROVE  TransferStep /\ turn' \in [Tasks -> TransferTurns]
  <2>1. ASSUME NEW from \in {"enter", "ensure"}, NEW becomes \in TransferPlaces, NEW expires,
               becomes = (IF from = "enter" THEN "decide" ELSE "render"),
               EnterQueue(t, from, becomes, expires)
        PROVE  Entered(t) /\ turn' \in [Tasks -> TransferTurns]
    <3>1. turn' \in [Tasks -> TransferTurns] /\ HeldAlone(t) /\ SameTicket(t) /\ turn'[t].at = becomes
      BY <2>1, MovedTo DEF EnterQueue
    <3>2. UNCHANGED storeVars \/ Leave(past, "expired")
      BY <2>1 DEF EnterQueue, RunOut
    <3>3. EntryGoes(t, "enter", "decide") \/ EntryGoes(t, "ensure", "render")
      BY <2>1, <3>1 DEF EntryGoes, EnterQueue
    <3> QED
      BY <2>1, <3>1, <3>2, <3>3 DEF Entered, EnterQueue, QueueFree
  <2>2. "decide" \in TransferPlaces /\ "render" \in TransferPlaces
    BY DEF TransferPlaces
  <2>3. Entered(t) /\ turn' \in [Tasks -> TransferTurns]
    <3>1. CASE EnterFirst(t)
      BY <2>1, <2>2, <3>1 DEF EnterFirst
    <3>2. CASE Ensure(t)
      BY <2>1, <2>2, <3>2 DEF Ensure
    <3> QED
      BY <1>4, <3>1, <3>2
  <2> QED
    BY <2>3 DEF TransferStep, TaskMoves
<1>5. ASSUME NEW t \in Taps, Decide(t)
      PROVE  TransferStep /\ turn' \in [Tasks -> TransferTurns]
  <2>1. CASE MovesTo(t, "change") /\ UNCHANGED queueLock
               /\ (turn[t].op = "request" => of_member(turn[t].who, remembered) = {})
    <3>1. turn' \in [Tasks -> TransferTurns] /\ HeldAlone(t) /\ SameTicket(t) /\ turn'[t].at = "change"
      BY <1>0, <2>1, MovedTo DEF TransferPlaces
    <3>2. Decided(t)
      BY <1>5, <2>1, <3>1 DEF Decided, Decide, EntryGoes, OnlyTasks
    <3> QED
      BY <1>0, <3>1, <3>2 DEF TransferStep, TaskMoves
  <2>2. CASE Rests(t) /\ Frees
    <3>1. turn' \in [Tasks -> TransferTurns] /\ HeldAlone(t) /\ turn'[t] = Resting
      BY <1>0, <2>2, TurnOf, TurnsTaken DEF Rests
    <3>2. LetGo(t) /\ EntryGoes(t, "decide", "rest") /\ UNCHANGED storeVars
      BY <1>5, <2>2, <3>1, TurnsTaken DEF LetGo, Decide, EntryGoes, Frees
    <3> QED
      BY <1>0, <3>1, <3>2 DEF TransferStep, TaskMoves
  <2> QED
    BY <1>5, <2>1, <2>2 DEF Decide
<1>6. ASSUME NEW t \in Tasks, Redraws(t), Frees
      PROVE  /\ turn' \in [Tasks -> TransferTurns] /\ HeldAlone(t) /\ turn'[t].at = "ensure"
             /\ turn'[t].op = "none"
  BY <1>0, <1>6, TurnOf, TurnsTaken DEF Redraws
<1>7. ASSUME NEW t \in Taps, Add(t) \/ RemoveRequest(t) \/ ClearAll(t)
      PROVE  TransferStep /\ turn' \in [Tasks -> TransferTurns]
  <2>1. PICK op : ChangesQueue(t, op)
    BY <1>7 DEF Add, RemoveRequest, ClearAll
  <2>2. /\ turn' \in [Tasks -> TransferTurns] /\ HeldAlone(t) /\ turn'[t].at = "ensure"
        /\ turn'[t].op = "none"
    BY <1>0, <1>6, <2>1 DEF ChangesQueue
  <2>3. LetGo(t) /\ EntryGoes(t, "change", "ensure")
    BY <2>1, <2>2 DEF LetGo, EntryGoes, ChangesQueue, Frees
  <2>4. Add(t) \/ \E entries : Leave(entries, "cancelled") \/ Leave(entries, "cleared")
    BY <1>7 DEF RemoveRequest, ClearAll
  <2> QED
    BY <1>0, <2>2, <2>3, <2>4 DEF ChangedIt, TransferStep, TaskMoves
<1>8. CASE Continues
  <2>1. /\ turn' \in [Tasks -> TransferTurns] /\ HeldAlone("loop") /\ turn'["loop"].at = "ensure"
        /\ turn'["loop"].op = "none"
    BY <1>0, <1>6, <1>8 DEF Continues
  <2>2. LetGo("loop") /\ EntryGoes("loop", "decide", "ensure") /\ UNCHANGED storeVars
    BY <1>8, <2>1 DEF LetGo, EntryGoes, Continues, Frees
  <2> QED
    BY <1>0, <2>1, <2>2 DEF TransferStep, TaskMoves
<1>15. CASE ExpiresNothing
  <2>1. turn' \in [Tasks -> TransferTurns] /\ turn'["loop"] = Resting /\ HeldAlone("loop")
    BY <1>0, <1>15, TurnOf, TurnsTaken DEF ExpiresNothing, Rests
  <2>2. /\ LetGo("loop") /\ EntryGoes("loop", "enter", "rest") /\ UNCHANGED storeVars
        /\ turn["loop"].op = "expire" /\ queueLock = NoTask
    BY <1>15, <2>1, TurnsTaken DEF LetGo, EntryGoes, ExpiresNothing, QueueFree, Frees
  <2> QED
    BY <1>0, <2>1, <2>2 DEF TransferStep, TaskMoves
<1>9. ASSUME NEW t \in Tasks, Render(t) PROVE TransferStep /\ turn' \in [Tasks -> TransferTurns]
  <2>1. turn' \in [Tasks -> TransferTurns] /\ HeldAlone(t) /\ SameTicket(t) /\ turn'[t].at = "board"
    BY <1>9, MovedTo DEF Render, TransferPlaces
  <2>2. Drew(t)
    BY <1>9, <2>1 DEF Drew, Render, EntryGoes, Frees
  <2> QED
    BY <2>1, <2>2 DEF TransferStep, TaskMoves
<1>10. ASSUME NEW t \in Tasks, DrawBoard(t) PROVE TransferStep /\ turn' \in [Tasks -> TransferTurns]
  <2> DEFINE new == [turn[t] EXCEPT !.at = "edit", !.draws = remembered]
  <2>1. /\ new \in TransferTurns /\ new.at = "edit" /\ new.draws = remembered
        /\ new.op = turn[t].op /\ new.who = turn[t].who /\ new.n = turn[t].n
    BY <1>0 DEF TransferTurns, TransferPlaces, TransferShapes
  <2>2. turn' = [turn EXCEPT ![t] = new]
    BY <1>0, <1>10 DEF DrawBoard
  <2> HIDE DEF new
  <2>3. turn' \in [Tasks -> TransferTurns] /\ turn'[t] = new /\ HeldAlone(t)
    BY <1>0, <2>1, <2>2, TurnOf
  <2>4. Drew(t)
    BY <1>10, <2>1, <2>3 DEF Drew, DrawBoard, EntryGoes, BoardFree, SameTicket
  <2> QED
    BY <2>3, <2>4 DEF TransferStep, TaskMoves
<1>11. ASSUME NEW t \in Tasks, EditBoard(t) PROVE TransferStep /\ turn' \in [Tasks -> TransferTurns]
  <2>1. turn' \in [Tasks -> TransferTurns] /\ turn'[t] = Resting /\ HeldAlone(t)
    BY <1>0, <1>11, TurnOf, TurnsTaken DEF EditBoard, Rests
  <2>2. Drew(t)
    BY <1>11, <2>1, TurnsTaken DEF Drew, EditBoard, EntryGoes
  <2> QED
    BY <2>1, <2>2 DEF TransferStep, TaskMoves
<1>12. CASE GrowOld \/ (\E m \in Deletable : DeleteMember(m)) \/ Refresh
  BY <1>0, <1>12 DEF GrowOld, DeleteMember, Refresh, TransferStep, QueueMoves, messages
<1>13. CASE RestartTransfers
  <2>2. turn' \in [Tasks -> TransferTurns]
    BY <1>13, TurnsTaken DEF RestartTransfers
  <2> QED
    BY <1>13, <2>2 DEF TransferStep
<1>14. /\ \A t \in Taps, m \in Movers, op \in {"request", "cancel"} :
            Command(t, op, m) => TransferStep /\ turn' \in [Tasks -> TransferTurns]
       /\ \A t \in Taps : Command(t, "clear", NoTask) =>
            TransferStep /\ turn' \in [Tasks -> TransferTurns]
  BY <1>2
<1> QED
  BY <1>1, <1>3, <1>4, <1>5, <1>7, <1>8, <1>9, <1>10, <1>11, <1>12, <1>13, <1>14, <1>15
  DEF TransferNext

\* What a step does to the stored queue and its events.
Left == \E entries : \E why \in {"expired", "cancelled", "cleared"} : Leave(entries, why)
StoreStep ==
  \/ UNCHANGED storeVars \/ Left \/ (\E t \in Taps : Add(t)) \/ GrowOld
  \/ (\E m \in Deletable : DeleteMember(m)) \/ Refresh \/ RestartTransfers

LEMMA StoreMoves == TransferStep => StoreStep
<1> SUFFICES ASSUME TransferStep PROVE StoreStep
  OBVIOUS
<1>1. CASE QueueMoves \/ RestartTransfers
  BY <1>1 DEF QueueMoves, StoreStep
<1>2. ASSUME NEW t \in Tasks, TaskMoves(t) PROVE StoreStep
  <2>1. CASE UNCHANGED storeVars
    BY <2>1 DEF StoreStep
  <2>2. CASE Entered(t)
    BY <2>2 DEF Entered, StoreStep, Left
  <2>3. CASE ChangedIt(t)
    BY <2>3 DEF ChangedIt, StoreStep, Left
  <2> QED
    BY <1>2, <2>1, <2>2, <2>3 DEF TaskMoves, Asked, Polled, Decided, Drew
<1> QED
  BY <1>1, <1>2 DEF TransferStep

\* The request that is added is of its member and has the number it was given.
LEMMA Added ==
  ASSUME TransferInv, NEW t \in Taps, Add(t)
  PROVE  \E e \in Entries :
           /\ e.who = turn[t].who /\ e.n = turn[t].n
           /\ queued' = queued \cup {e} /\ remembered' = queued'
           /\ log' = log \cup {[entry |-> e, kind |-> "requested"]}
           /\ UNCHANGED <<past, erased, refreshing>>
           /\ turn[t].op = "request" /\ turn[t].at = "change"
           /\ \A row \in log : row.entry # e
           /\ e \notin erased
<1>1. t \in Tasks /\ turn[t].op = "request" /\ turn[t].at = "change"
  BY DEF Tasks, Add, ChangesQueue
<1>2. /\ turn[t].who \in Movers /\ turn[t].n \in 1..commands
      /\ \A row \in log : row.entry.n # turn[t].n
      /\ \A e \in erased : e.n # turn[t].n
  BY <1>1 DEF TransferInv, TicketsAreFresh
<1>3. turn[t].n \in 1..MaxCommands
  BY <1>2, TransferAssumption DEF TransferInv, TransferShapes, TransferAssumption
<1> DEFINE e == [who |-> turn[t].who, n |-> turn[t].n]
<1>4. e \in Entries /\ e.who = turn[t].who /\ e.n = turn[t].n
  BY <1>2, <1>3 DEF Entries
<1>5. /\ queued' = queued \cup {e} /\ remembered' = queued'
      /\ log' = log \cup {[entry |-> e, kind |-> "requested"]}
      /\ UNCHANGED <<past, erased, refreshing>>
  BY DEF Add, base, published
<1> HIDE DEF e
<1>6. (\A row \in log : row.entry # e) /\ e \notin erased
  BY <1>2, <1>4
<1> QED
  BY <1>1, <1>4, <1>5, <1>6

\* Who leaves the queue leaves an event that says so.
LEMMA LeftQueue ==
  ASSUME TransferInv, Left
  PROVE  \E entries : \E why \in {"expired", "cancelled", "cleared"} :
           /\ queued' = queued \ entries /\ remembered' = queued'
           /\ log' = log \cup {[entry |-> e, kind |-> why] : e \in entries \cap queued}
           /\ UNCHANGED <<past, erased, refreshing>>
BY DEF Left, Leave, base, published

\* What is stored keeps its shape.
LEMMA StoreShapesKept ==
  ASSUME TransferInv, StoreStep
  PROVE  /\ queued' \subseteq Entries /\ remembered' \subseteq Entries /\ past' \subseteq Entries
         /\ erased' \subseteq Entries /\ log' \subseteq [entry : Entries, kind : TransferKinds]
         /\ refreshing' \in BOOLEAN
<1>0. /\ queued \subseteq Entries /\ remembered \subseteq Entries /\ past \subseteq Entries
      /\ erased \subseteq Entries /\ log \subseteq [entry : Entries, kind : TransferKinds]
      /\ refreshing \in BOOLEAN
  BY DEF TransferInv, TransferShapes
<1>1. CASE UNCHANGED storeVars
  BY <1>0, <1>1 DEF storeVars
<1>2. CASE Left
  <2>0. PICK entries : \E why \in {"expired", "cancelled", "cleared"} :
           /\ queued' = queued \ entries /\ remembered' = queued'
           /\ log' = log \cup {[entry |-> e, kind |-> why] : e \in entries \cap queued}
           /\ UNCHANGED <<past, erased, refreshing>>
    BY <1>2, LeftQueue
  <2>1. PICK why \in {"expired", "cancelled", "cleared"} :
           /\ queued' = queued \ entries /\ remembered' = queued'
           /\ log' = log \cup {[entry |-> e, kind |-> why] : e \in entries \cap queued}
           /\ UNCHANGED <<past, erased, refreshing>>
    BY <2>0
  <2>2. \A e \in entries \cap queued :
          [entry |-> e, kind |-> why] \in [entry : Entries, kind : TransferKinds]
    BY <1>0 DEF TransferKinds
  <2> QED
    BY <1>0, <2>1, <2>2
<1>3. ASSUME NEW t \in Taps, Add(t)
      PROVE  /\ queued' \subseteq Entries /\ remembered' \subseteq Entries
             /\ log' \subseteq [entry : Entries, kind : TransferKinds]
             /\ UNCHANGED <<past, erased, refreshing>>
  <2>1. PICK e \in Entries :
          /\ queued' = queued \cup {e} /\ remembered' = queued'
          /\ log' = log \cup {[entry |-> e, kind |-> "requested"]}
          /\ UNCHANGED <<past, erased, refreshing>>
    BY <1>3, Added
  <2>2. [entry |-> e, kind |-> "requested"] \in [entry : Entries, kind : TransferKinds]
    BY DEF TransferKinds
  <2> QED
    BY <1>0, <2>1, <2>2
<1>4. CASE GrowOld
  BY <1>0, <1>4 DEF GrowOld
<1>5. ASSUME NEW m \in Deletable, DeleteMember(m)
      PROVE  /\ queued' \subseteq Entries /\ remembered' \subseteq Entries /\ past' \subseteq Entries
             /\ erased' \subseteq Entries /\ log' \subseteq [entry : Entries, kind : TransferKinds]
             /\ refreshing' \in BOOLEAN
  BY <1>0, <1>5 DEF DeleteMember, of_member
<1>6. CASE Refresh \/ RestartTransfers
  BY <1>0, <1>6 DEF Refresh, RestartTransfers
<1> QED
  BY <1>0, <1>1, <1>2, <1>3, <1>4, <1>5, <1>6 DEF StoreStep

\* A request in the queue has its events.
LEMMA QueuedIsLogged ==
  ASSUME LogTells, NEW e \in queued
  PROVE  \E row \in log : row.entry = e /\ row.kind = "requested"
BY DEF LogTells, OpenedOnes

\* What is remembered differs from what is stored by erased requests only.
LEMMA RemembersKept ==
  ASSUME TransferInv, StoreStep
  PROVE  Remembers'
<1>0. Remembers /\ LogTells
  BY DEF TransferInv
<1>1. CASE UNCHANGED storeVars
  BY <1>0, <1>1 DEF storeVars, Remembers
<1>2. CASE Left
  BY <1>2, LeftQueue DEF Remembers
<1>3. ASSUME NEW t \in Taps, Add(t) PROVE Remembers'
  BY <1>3, Added DEF Remembers
<1>4. CASE GrowOld
  BY <1>0, <1>4 DEF GrowOld, Remembers
<1>5. ASSUME NEW m \in Deletable, DeleteMember(m) PROVE Remembers'
  <2>1. of_member(m, queued) \subseteq erased'
    BY <1>0, <1>5, QueuedIsLogged DEF DeleteMember, of_member
  <2> QED
    BY <1>0, <1>5, <2>1 DEF DeleteMember, Remembers
<1>6. CASE Refresh \/ RestartTransfers
  BY <1>0, <1>6 DEF Refresh, RestartTransfers, Remembers
<1> QED
  BY <1>1, <1>2, <1>3, <1>4, <1>5, <1>6 DEF StoreStep

\* The events go on telling the queue.
LEMMA LogKept ==
  ASSUME TransferInv, StoreStep
  PROVE  LogTells'
<1>0. LogTells /\ DeletedStaysDeleted
  BY DEF TransferInv
<1>1. CASE UNCHANGED <<queued, log>>
  BY <1>0, <1>1 DEF LogTells, OpenedOnes, EndingsOf
<1>2. CASE Left
  <2>0. PICK entries : \E why \in {"expired", "cancelled", "cleared"} :
           /\ queued' = queued \ entries
           /\ log' = log \cup {[entry |-> e, kind |-> why] : e \in entries \cap queued}
    BY <1>2, LeftQueue
  <2>1. PICK why \in {"expired", "cancelled", "cleared"} :
           /\ queued' = queued \ entries
           /\ log' = log \cup {[entry |-> e, kind |-> why] : e \in entries \cap queued}
    BY <2>0
  <2>2. \A row : row \in log' <=>
          row \in log \/ \E e \in entries \cap queued : row = [entry |-> e, kind |-> why]
    BY <2>1
  <2>3. OpenedOnes' = OpenedOnes
    BY <2>2 DEF OpenedOnes
  <2>4. \A e : EndingsOf(e) \subseteq EndingsOf(e)'
    BY <2>2 DEF EndingsOf
  <2>5. \A e \in queued : e \notin entries => EndingsOf(e)' = EndingsOf(e)
    BY <2>2 DEF EndingsOf
  <2>6. \A e \in entries \cap queued : EndingsOf(e)' # {}
    <3> TAKE e \in entries \cap queued
    <3> DEFINE r == [entry |-> e, kind |-> why]
    <3>1. r \in log' /\ r.entry = e /\ r.kind # "requested"
      BY <2>2
    <3> QED
      BY <3>1 DEF EndingsOf
  <2>7. \A row \in log' : row.entry \in OpenedOnes'
    BY <1>0, <2>2, <2>3 DEF LogTells
  <2>8. \A r1, r2 \in log' :
          r1.entry = r2.entry /\ r1.kind # "requested" /\ r2.kind # "requested" => r1 = r2
    <3>1. \A r \in log : r.kind # "requested" => r.entry \notin queued
      BY <1>0 DEF LogTells, EndingsOf
    <3> QED
      BY <1>0, <2>2, <3>1 DEF LogTells
  <2>9. queued' = {e \in OpenedOnes' : EndingsOf(e)' = {}}
    BY <1>0, <2>1, <2>3, <2>4, <2>5, <2>6 DEF LogTells
  <2> QED
    BY <2>7, <2>8, <2>9 DEF LogTells, EndingsOf, OpenedOnes
<1>3. ASSUME NEW t \in Taps, Add(t) PROVE LogTells'
  <2>1. PICK e \in Entries :
          /\ queued' = queued \cup {e}
          /\ log' = log \cup {[entry |-> e, kind |-> "requested"]}
          /\ \A row \in log : row.entry # e
    BY <1>3, Added
  <2>2. \A row : row \in log' <=> row \in log \/ row = [entry |-> e, kind |-> "requested"]
    BY <2>1
  <2>3. OpenedOnes' = OpenedOnes \cup {e}
    <3> DEFINE r == [entry |-> e, kind |-> "requested"]
    <3>1. r \in log' /\ r.entry = e /\ r.kind = "requested"
      BY <2>2
    <3>2. \A row : row \in log' <=> row \in log \/ row = r
      BY <2>2
    <3> HIDE DEF r
    <3> QED
      BY <3>1, <3>2 DEF OpenedOnes
  <2>4. \A f : EndingsOf(f)' = EndingsOf(f)
    BY <2>2 DEF EndingsOf
  <2>5. EndingsOf(e) = {}
    BY <2>1 DEF EndingsOf
  <2>6. queued' = {f \in OpenedOnes' : EndingsOf(f)' = {}}
    BY <1>0, <2>1, <2>3, <2>4, <2>5 DEF LogTells
  <2>7. \A row \in log' : row.entry \in OpenedOnes'
    BY <1>0, <2>2, <2>3 DEF LogTells
  <2>8. \A r1, r2 \in log' :
          r1.entry = r2.entry /\ r1.kind # "requested" /\ r2.kind # "requested" => r1 = r2
    BY <1>0, <2>2 DEF LogTells
  <2> QED
    BY <2>6, <2>7, <2>8 DEF LogTells, EndingsOf, OpenedOnes
<1>4. ASSUME NEW m \in Deletable, DeleteMember(m) PROVE LogTells'
  <2>1. /\ \A row : row \in log' <=> row \in log /\ row.entry.who # m
        /\ \A e : e \in queued' <=> e \in queued /\ e.who # m
    BY <1>4 DEF DeleteMember, of_member
  <2>2. \A e : e \in OpenedOnes' <=> e \in OpenedOnes /\ e.who # m
    BY <2>1 DEF OpenedOnes
  <2>3. \A e : e.who # m => EndingsOf(e)' = EndingsOf(e)
    BY <2>1 DEF EndingsOf
  <2>4. queued' = {e \in OpenedOnes' : EndingsOf(e)' = {}}
    BY <1>0, <2>1, <2>2, <2>3 DEF LogTells
  <2>5. \A row \in log' : row.entry \in OpenedOnes'
    BY <1>0, <2>1, <2>2 DEF LogTells
  <2>6. \A r1, r2 \in log' :
          r1.entry = r2.entry /\ r1.kind # "requested" /\ r2.kind # "requested" => r1 = r2
    BY <1>0, <2>1 DEF LogTells
  <2> QED
    BY <2>4, <2>5, <2>6 DEF LogTells, EndingsOf, OpenedOnes
<1> QED
  BY <1>1, <1>2, <1>3, <1>4 DEF StoreStep, storeVars, GrowOld, Refresh, RestartTransfers

\* What was erased does not come back.
LEMMA DeletedKept ==
  ASSUME TransferInv, StoreStep
  PROVE  DeletedStaysDeleted'
<1>0. LogTells /\ DeletedStaysDeleted
  BY DEF TransferInv
<1>1. CASE UNCHANGED <<queued, log, erased>>
  BY <1>0, <1>1 DEF DeletedStaysDeleted
<1>2. CASE Left
  <2>0. PICK entries : \E why \in {"expired", "cancelled", "cleared"} :
           /\ queued' = queued \ entries /\ erased' = erased
           /\ log' = log \cup {[entry |-> e, kind |-> why] : e \in entries \cap queued}
    BY <1>2, LeftQueue
  <2>1. PICK why \in {"expired", "cancelled", "cleared"} :
           /\ queued' = queued \ entries /\ erased' = erased
           /\ log' = log \cup {[entry |-> e, kind |-> why] : e \in entries \cap queued}
    BY <2>0
  <2>2. \A row \in log' : row.entry \notin erased
    BY <1>0, <2>1 DEF DeletedStaysDeleted
  <2> QED
    BY <1>0, <2>1, <2>2 DEF DeletedStaysDeleted
<1>3. ASSUME NEW t \in Taps, Add(t) PROVE DeletedStaysDeleted'
  <2>1. PICK e \in Entries :
          /\ queued' = queued \cup {e} /\ erased' = erased
          /\ log' = log \cup {[entry |-> e, kind |-> "requested"]}
          /\ e \notin erased
    BY <1>3, Added
  <2> QED
    BY <1>0, <2>1 DEF DeletedStaysDeleted
<1>4. ASSUME NEW m \in Deletable, DeleteMember(m) PROVE DeletedStaysDeleted'
  BY <1>4 DEF DeleteMember, of_member, DeletedStaysDeleted
<1> QED
  BY <1>1, <1>2, <1>3, <1>4 DEF StoreStep, storeVars, GrowOld, Refresh, RestartTransfers

\* The variables keep their shape.
LEMMA TransferShapesKept ==
  ASSUME TransferInv, TransferStep, turn' \in [Tasks -> TransferTurns]
  PROVE  TransferShapes'
<1>0. TransferShapes /\ NoTask \notin Tasks
  BY TransferAssumption DEF TransferInv, TransferAssumption, NoTask, Tasks
<1>1. StoreStep
  BY StoreMoves
<1>2. commands' \in 0..MaxCommands
  <2>1. CASE UNCHANGED commands
    BY <1>0, <2>1 DEF TransferShapes
  <2>2. ASSUME NEW t \in Tasks, Asked(t) PROVE commands' \in 0..MaxCommands
    BY <1>0, <2>2, TransferAssumption DEF TransferShapes, TransferAssumption, Asked
  <2> QED
    BY <2>1, <2>2 DEF TransferStep, QueueMoves, RestartTransfers, TaskMoves, Polled, Entered,
       Decided, LetGo, ChangedIt, Drew, Asked
<1>3. /\ queueLock' \in Tasks \cup {NoTask} /\ boardLock' \in Tasks \cup {NoTask}
      /\ queueShows' \subseteq Entries /\ boardShows' \subseteq Entries
  <2>1. CASE QueueMoves \/ RestartTransfers
    BY <1>0, <2>1 DEF QueueMoves, RestartTransfers, TransferShapes, messages
  <2>2. ASSUME NEW t \in Tasks, TaskMoves(t)
        PROVE  /\ queueLock' \in Tasks \cup {NoTask} /\ boardLock' \in Tasks \cup {NoTask}
               /\ queueShows' \subseteq Entries /\ boardShows' \subseteq Entries
    <3>1. turn[t].draws \subseteq Entries
      BY <1>0 DEF TransferShapes, TransferTurns
    <3> QED
      BY <1>0, <2>2, <3>1 DEF TransferShapes, TaskMoves, OnlyTasks, messages, Asked, Polled,
         Entered, Decided, LetGo, ChangedIt, Drew
  <2> QED
    BY <2>1, <2>2 DEF TransferStep
<1> QED
  BY <1>1, <1>2, <1>3, StoreShapesKept DEF TransferShapes

\* A lock is taken where it is free and given up by who holds it.
LEMMA LocksKept ==
  ASSUME TransferInv, TransferStep
  PROVE  TransferLocksHeld'
<1>0. TransferLocksHeld /\ NoTask \notin Tasks /\ Taps \subseteq Tasks /\ "loop" \in Tasks
  BY TransferAssumption DEF TransferInv, TransferAssumption, NoTask, Tasks
<1>1. CASE QueueMoves
  BY <1>0, <1>1 DEF QueueMoves, TransferLocksHeld
<1>2. CASE RestartTransfers
  <2>1. \A t \in Tasks : turn'[t].at \in {"rest", "enter"}
    BY <1>2, TurnsTaken DEF RestartTransfers, TransferInv
  <2> QED
    BY <1>0, <1>2, <2>1 DEF RestartTransfers, TransferLocksHeld
<1>3. ASSUME NEW t \in Tasks, TaskMoves(t) PROVE TransferLocksHeld'
  <2> DEFINE Inside(u)  == turn[u].at \in {"decide", "change", "render"}
             Editing(u) == turn[u].at = "edit"
  <2>1. \A u \in Tasks : (Inside(u) <=> queueLock = u) /\ (Editing(u) <=> boardLock = u)
    BY <1>0 DEF TransferLocksHeld
  <2>2. HeldAlone(t)
    BY <1>3 DEF TaskMoves, Asked, Polled, Entered, Decided, LetGo, ChangedIt, Drew
  <2>3. /\ \A u \in Tasks \ {t} : turn'[u].at = turn[u].at
    BY <2>2 DEF HeldAlone
  <2>4. \/ UNCHANGED queueLock /\ turn'[t].at \in {"decide", "change", "render"}
                               /\ turn[t].at \in {"decide", "change", "render"}
        \/ UNCHANGED queueLock /\ turn'[t].at \notin {"decide", "change", "render"}
                               /\ turn[t].at \notin {"decide", "change", "render"}
        \/ queueLock = NoTask /\ queueLock' = t /\ turn'[t].at \in {"decide", "change", "render"}
        \/ queueLock' = NoTask /\ turn'[t].at \notin {"decide", "change", "render"}
                               /\ turn[t].at \in {"decide", "change", "render"}
    BY <1>3 DEF TaskMoves, OnlyTasks, Asked, Polled, Entered, Decided, LetGo, ChangedIt, Drew, EntryGoes
  <2>5. \/ UNCHANGED boardLock /\ (turn'[t].at = "edit" <=> turn[t].at = "edit")
        \/ boardLock = NoTask /\ boardLock' = t /\ turn'[t].at = "edit"
        \/ boardLock' = NoTask /\ turn'[t].at # "edit" /\ turn[t].at = "edit"
    BY <1>3 DEF TaskMoves, OnlyTasks, Asked, Polled, Entered, Decided, LetGo, ChangedIt, Drew, EntryGoes
  <2>6. \A u \in Tasks : turn'[u].at \in {"decide", "change", "render"} <=> queueLock' = u
    BY <1>0, <2>1, <2>3, <2>4
  <2>7. \A u \in Tasks : turn'[u].at = "edit" <=> boardLock' = u
    BY <1>0, <2>1, <2>3, <2>5
  <2> QED
    BY <2>6, <2>7 DEF TransferLocksHeld
<1> QED
  BY <1>1, <1>2, <1>3 DEF TransferStep

\* A task that moves keeps its request, drops it, or gets one with a new number.
LEMMA TicketMoves ==
  ASSUME TransferShapes, NEW t \in Tasks, TaskMoves(t)
  PROVE  /\ HeldAlone(t)
         /\ \/ SameTicket(t) /\ UNCHANGED commands
            \/ turn'[t].op # "request" /\ UNCHANGED commands
            \/ /\ commands' = commands + 1 /\ UNCHANGED storeVars
               /\ turn'[t].op = "request" =>
                    turn'[t].n = commands' /\ turn'[t].who \in Movers
BY DEF TaskMoves, Asked, Polled, Entered, Decided, LetGo, ChangedIt, Drew

\* The numbers in the events stay those that were given out, and what is added has its own.
LEMMA NumbersKept ==
  ASSUME TransferInv, StoreStep
  PROVE  /\ \A row \in log' :
              \/ \E old \in log : row.entry = old.entry
              \/ \E t \in Taps : Add(t) /\ row.entry.n = turn[t].n
         /\ \A e \in erased' : e \in erased \/ \E old \in log : old.entry = e
<1>1. CASE UNCHANGED <<log, erased>>
  BY <1>1
<1>2. CASE Left
  <2>0. PICK entries : \E why \in {"expired", "cancelled", "cleared"} :
           /\ erased' = erased
           /\ log' = log \cup {[entry |-> e, kind |-> why] : e \in entries \cap queued}
    BY <1>2, LeftQueue
  <2>1. PICK why \in {"expired", "cancelled", "cleared"} :
           /\ erased' = erased
           /\ log' = log \cup {[entry |-> e, kind |-> why] : e \in entries \cap queued}
    BY <2>0
  <2>2. \A e \in queued : \E old \in log : old.entry = e
    BY QueuedIsLogged DEF TransferInv
  <2> QED
    BY <2>1, <2>2
<1>3. ASSUME NEW t \in Taps, Add(t)
      PROVE  /\ \A row \in log' :
                  (\E old \in log : row.entry = old.entry) \/ row.entry.n = turn[t].n
             /\ erased' = erased
  BY <1>3, Added
<1>4. ASSUME NEW m \in Deletable, DeleteMember(m)
      PROVE  /\ log' \subseteq log
             /\ \A e \in erased' : e \in erased \/ \E old \in log : old.entry = e
  BY <1>4 DEF DeleteMember, of_member
<1> QED
  BY <1>1, <1>2, <1>3, <1>4 DEF StoreStep, storeVars, GrowOld, Refresh, RestartTransfers

\* Numbers stay fresh.
LEMMA TicketsKept ==
  ASSUME TransferInv, TransferStep, turn' \in [Tasks -> TransferTurns]
  PROVE  TicketsAreFresh'
<1>0. /\ TransferShapes /\ TicketsAreFresh /\ commands \in Nat /\ Taps \subseteq Tasks
      /\ \A t \in Tasks : turn[t].n \in Nat
  BY TransferAssumption
  DEF TransferInv, TransferShapes, TransferTurns, Tasks, TransferAssumption
<1>1. StoreStep
  BY StoreMoves
<1>2. /\ \A row \in log' :
           \/ \E old \in log : row.entry = old.entry
           \/ \E t \in Taps : Add(t) /\ row.entry.n = turn[t].n
      /\ \A e \in erased' : e \in erased \/ \E old \in log : old.entry = e
  BY <1>1, NumbersKept
<1>3. /\ \A row \in log' : row.entry.n <= commands
      /\ \A e \in erased' : e.n <= commands
  <2>1. \A t \in Taps : Add(t) => turn[t].n <= commands
    BY <1>0 DEF Add, ChangesQueue, TicketsAreFresh
  <2> QED
    BY <1>0, <1>2, <2>1 DEF TicketsAreFresh
<1>4. ASSUME NEW u \in Tasks, turn[u].op = "request", \A t \in Taps : Add(t) => t # u
      PROVE  /\ \A row \in log' : row.entry.n # turn[u].n
             /\ \A e \in erased' : e.n # turn[u].n
  <2>1. \A t \in Taps : Add(t) => turn[t].op = "request" /\ t # u
    BY <1>4 DEF Add, ChangesQueue
  <2>2. \A t \in Taps : Add(t) => turn[t].n # turn[u].n
    BY <1>0, <1>4, <2>1 DEF TicketsAreFresh
  <2> QED
    BY <1>0, <1>2, <1>4, <2>2 DEF TicketsAreFresh
<1>5. CASE QueueMoves
  <2>1. UNCHANGED <<turn, commands>> /\ \A t \in Taps : ~Add(t)
    <3>1. \A t \in Taps : Add(t) => turn'[t].at = "ensure" /\ turn[t].at = "change"
      BY <1>0, TurnOf, TurnsTaken DEF Add, ChangesQueue, Redraws
    <3> QED
      BY <1>5, <3>1 DEF QueueMoves
  <2>2. \A u \in Tasks : turn[u].op = "request" =>
          /\ \A row \in log' : row.entry.n # turn[u].n
          /\ \A e \in erased' : e.n # turn[u].n
    BY <1>4, <2>1
  <2> QED
    BY <1>0, <1>3, <2>1, <2>2 DEF TicketsAreFresh
<1>6. CASE RestartTransfers
  <2>1. UNCHANGED <<log, erased, commands>>
    BY <1>6 DEF RestartTransfers
  <2>2. \A t \in Tasks : turn'[t].op # "request"
    BY <1>0, <1>6, TurnsTaken DEF RestartTransfers
  <2> QED
    BY <1>0, <2>1, <2>2 DEF TicketsAreFresh
<1>7. ASSUME NEW t \in Tasks, TaskMoves(t) PROVE TicketsAreFresh'
  <2>1. /\ HeldAlone(t)
        /\ \/ SameTicket(t) /\ UNCHANGED commands
           \/ turn'[t].op # "request" /\ UNCHANGED commands
           \/ /\ commands' = commands + 1 /\ UNCHANGED storeVars
              /\ turn'[t].op = "request" => turn'[t].n = commands' /\ turn'[t].who \in Movers
    BY <1>0, <1>7, TicketMoves
  <2>2. \A a \in Taps : Add(a) => a = t /\ turn'[a].op # "request"
    <3>1. ASSUME NEW a \in Taps, Add(a) PROVE a = t /\ turn'[a].op # "request"
      <4>1. turn'[a].at = "ensure" /\ turn[a].at = "change" /\ turn'[a].op = "none"
        BY <1>0, <3>1, TurnOf, TurnsTaken DEF Add, ChangesQueue, Redraws
      <4> QED
        BY <1>0, <2>1, <4>1 DEF HeldAlone
    <3> QED
      BY <3>1
  <2>3. \A u \in Tasks \ {t} : turn'[u] = turn[u]
    BY <2>1 DEF HeldAlone
  <2>4. \A u \in Tasks \ {t} : turn[u].op = "request" =>
          /\ \A row \in log' : row.entry.n # turn[u].n
          /\ \A e \in erased' : e.n # turn[u].n
    BY <1>4, <2>2
  <2>5. CASE turn'[t].op # "request" /\ commands' \in {commands, commands + 1}
    <3>1. \A u \in Tasks : turn'[u].op = "request" => u # t /\ turn'[u] = turn[u]
      BY <2>3, <2>5
    <3>2. /\ \A row \in log' : row.entry.n <= commands'
          /\ \A e \in erased' : e.n <= commands'
      <4>1. /\ \A row \in log' : row.entry.n \in Nat
            /\ \A e \in erased' : e.n \in Nat
        BY <1>1, StoreShapesKept, TransferAssumption DEF Entries, TransferAssumption
      <4> QED
        BY <1>0, <1>3, <2>5, <4>1
    <3>3. ASSUME NEW u \in Tasks, turn'[u].op = "request"
          PROVE  /\ turn'[u].who \in Movers /\ turn'[u].n \in 1..commands'
                 /\ \A row \in log' : row.entry.n # turn'[u].n
                 /\ \A e \in erased' : e.n # turn'[u].n
                 /\ \A w \in Tasks \ {u} : turn'[w].op = "request" => turn'[w].n # turn'[u].n
      <4>1. u # t /\ turn'[u] = turn[u] /\ turn[u].op = "request"
        BY <3>1, <3>3
      <4>2. turn[u].who \in Movers /\ turn[u].n \in 1..commands
        BY <1>0, <4>1 DEF TicketsAreFresh
      <4>3. \A w \in Tasks \ {u} : turn'[w].op = "request" => turn'[w].n # turn'[u].n
        BY <1>0, <3>1, <4>1 DEF TicketsAreFresh
      <4> QED
        BY <1>0, <2>4, <2>5, <4>1, <4>2, <4>3
    <3> QED
      BY <3>2, <3>3 DEF TicketsAreFresh
  <2>6. CASE SameTicket(t) /\ UNCHANGED commands /\ turn'[t].op = "request"
    <3>1. \A a \in Taps : ~Add(a)
      BY <2>2, <2>6
    <3>2. \A u \in Tasks : turn[u].op = "request" =>
            /\ \A row \in log' : row.entry.n # turn[u].n
            /\ \A e \in erased' : e.n # turn[u].n
      BY <1>4, <3>1
    <3>3. \A u \in Tasks : /\ turn'[u].op = turn[u].op /\ turn'[u].who = turn[u].who
                           /\ turn'[u].n = turn[u].n
      BY <2>3, <2>6 DEF SameTicket
    <3> QED
      BY <1>0, <1>3, <2>6, <3>2, <3>3 DEF TicketsAreFresh
  <2>7. CASE /\ commands' = commands + 1 /\ UNCHANGED storeVars /\ turn'[t].op = "request"
             /\ turn'[t].n = commands' /\ turn'[t].who \in Movers
    <3>1. UNCHANGED <<log, erased>>
      BY <2>7 DEF storeVars
    <3>2. \A u \in Tasks \ {t} : turn[u].op = "request" =>
            turn[u].n \in 1..commands /\ turn[u].who \in Movers
      BY <1>0 DEF TicketsAreFresh
    <3>3. /\ \A row \in log' : row.entry.n \in Nat /\ row.entry.n <= commands
          /\ \A e \in erased' : e.n \in Nat /\ e.n <= commands
      BY <1>0, <1>1, <1>3, StoreShapesKept, TransferAssumption DEF Entries, TransferAssumption
    <3>4. ASSUME NEW u \in Tasks, turn'[u].op = "request"
          PROVE  /\ turn'[u].who \in Movers /\ turn'[u].n \in 1..commands'
                 /\ \A row \in log' : row.entry.n # turn'[u].n
                 /\ \A e \in erased' : e.n # turn'[u].n
      <4>1. CASE u = t
        BY <1>0, <2>7, <3>3, <4>1
      <4>2. CASE u # t
        BY <1>0, <2>3, <2>4, <2>7, <3>2, <3>4, <4>2
      <4> QED
        BY <4>1, <4>2
    <3>5. ASSUME NEW u \in Tasks, NEW w \in Tasks \ {u},
                 turn'[u].op = "request", turn'[w].op = "request"
          PROVE  turn'[w].n # turn'[u].n
      <4>1. CASE u # t /\ w # t
        BY <1>0, <2>3, <3>5, <4>1 DEF TicketsAreFresh
      <4>2. CASE u = t
        <5>1. turn'[w] = turn[w] /\ turn[w].n \in 1..commands
          BY <2>3, <3>2, <3>5, <4>2
        <5> QED
          BY <1>0, <2>7, <4>2, <5>1
      <4>3. CASE w = t
        <5>1. turn'[u] = turn[u] /\ turn[u].n \in 1..commands
          BY <2>3, <3>2, <3>5, <4>3
        <5> QED
          BY <1>0, <2>7, <4>3, <5>1
      <4> QED
        BY <4>1, <4>2, <4>3
    <3>6. /\ \A row \in log' : row.entry.n <= commands'
          /\ \A e \in erased' : e.n <= commands'
      BY <1>0, <2>7, <3>3
    <3> QED
      BY <3>4, <3>5, <3>6 DEF TicketsAreFresh
  <2> QED
    BY <2>1, <2>5, <2>6, <2>7
<1> QED
  BY <1>5, <1>6, <1>7 DEF TransferStep

\* Only who found no request of the member, and holds the lock since, adds one.
LEMMA OneEachKept ==
  ASSUME TransferInv, TransferStep, turn' \in [Tasks -> TransferTurns]
  PROVE  OneEach'
<1>0. /\ TransferShapes /\ OneEach /\ TransferLocksHeld /\ Remembers /\ Taps \subseteq Tasks
      /\ NoTask \notin Tasks
  BY TransferAssumption DEF TransferInv, Tasks, TransferAssumption, NoTask
<1>1. StoreStep
  BY StoreMoves
<1>2. ASSUME NEW a \in Taps, Add(a) PROVE OneEach'
  <2>1. PICK e \in Entries :
          e.who = turn[a].who /\ queued' = queued \cup {e} /\ turn[a].op = "request"
          /\ turn[a].at = "change"
    BY <1>2, Added
  <2>2. \A f \in queued : f.who # e.who
    BY <1>0, <2>1 DEF OneEach, of_member
  <2>3. \A u \in Tasks \ {a} : turn[u].at # "change"
    BY <1>0, <2>1 DEF TransferLocksHeld
  <2>4. turn'[a].at = "ensure" /\ HeldAlone(a)
    <3>1. a \in Tasks /\ turn' = [turn EXCEPT ![a] = [Resting EXCEPT !.at = "ensure"]]
      BY <1>0, <1>2 DEF Add, ChangesQueue, Redraws
    <3> QED
      BY <1>0, <3>1, TurnOf, TurnsTaken DEF TransferShapes
  <2>5. \A u \in Tasks : turn'[u].at # "change"
    BY <2>3, <2>4 DEF HeldAlone
  <2> QED
    BY <1>0, <2>1, <2>2, <2>5 DEF OneEach
<1>3. CASE \A a \in Taps : ~Add(a)
  <2>1. queued' \subseteq queued
    BY <1>1, <1>3, LeftQueue DEF StoreStep, storeVars, GrowOld, DeleteMember, Refresh,
       RestartTransfers
  <2>2. \A m : of_member(m, queued)' \subseteq of_member(m, queued)
    BY <2>1 DEF of_member
  <2>3. ASSUME NEW u \in Tasks, turn'[u].at = "change", turn'[u].op = "request"
        PROVE  of_member(turn'[u].who, queued') = {}
    <3>1. CASE turn[u].at = "change" /\ turn[u].op = "request" /\ turn'[u].who = turn[u].who
      BY <1>0, <2>1, <3>1 DEF OneEach, of_member
    <3>2. CASE Decided(u)
      BY <1>0, <2>1, <2>3, <3>2 DEF Decided, SameTicket, Remembers, of_member
    <3>3. CASE turn'[u] = turn[u]
      BY <2>3, <3>1, <3>3
    <3>4. ~RestartTransfers
      BY <2>3, TurnsTaken DEF RestartTransfers, TransferInv
    <3>5. ASSUME NEW t \in Tasks, TaskMoves(t), t = u PROVE Decided(u)
      BY <2>3, <3>5 DEF TaskMoves, Asked, Polled, Entered, LetGo, ChangedIt, Drew, EntryGoes
    <3>6. ASSUME NEW t \in Tasks, TaskMoves(t), t # u PROVE turn'[u] = turn[u]
      BY <1>0, <3>6, TicketMoves DEF HeldAlone
    <3> QED
      BY <3>2, <3>3, <3>4, <3>5, <3>6 DEF TransferStep, QueueMoves
  <2> QED
    BY <1>0, <2>1, <2>3 DEF OneEach
<1> QED
  BY <1>2, <1>3

\* What is remembered is right to show.
LEMMA RememberedIsRight ==
  ASSUME TransferInv
  PROVE  RightlyShown(remembered)
BY DEF TransferInv, Remembers, DeletedStaysDeleted, RightlyShown

\* Age, expiry and deletion take the same requests off what is live and off what may be shown.
LEMMA RightKept ==
  ASSUME TransferInv, NEW S, RightlyShown(S),
         \/ UNCHANGED <<queued, past, erased>> \/ Leave(past, "expired") \/ GrowOld
         \/ \E m \in Deletable : DeleteMember(m)
  PROVE  S \ (erased' \cup past') = queued' \ past'
<1>1. CASE UNCHANGED <<queued, past, erased>>
  BY <1>1 DEF RightlyShown
<1>2. CASE Leave(past, "expired")
  BY <1>2 DEF Leave, base, RightlyShown
<1>3. CASE GrowOld
  BY <1>3 DEF GrowOld, RightlyShown
<1>4. ASSUME NEW m \in Deletable, DeleteMember(m)
      PROVE  S \ (erased' \cup past') = queued' \ past'
  <2>1. /\ erased = {} /\ past' = past /\ \A e : e \in queued' <=> e \in queued /\ e.who # m
        /\ \A e : e \in erased' <=> e.who = m /\ \E row \in log : row.entry = e
    BY <1>4 DEF DeleteMember, of_member
  <2>2. \A e \in queued : \E row \in log : row.entry = e
    BY QueuedIsLogged DEF TransferInv
  <2> QED
    BY <2>1, <2>2 DEF RightlyShown
<1> QED
  BY <1>1, <1>2, <1>3, <1>4

\* Who changes the queue draws it, with what is remembered when it draws.
LEMMA ShownKept ==
  ASSUME TransferInv, TransferStep, turn' \in [Tasks -> TransferTurns]
  PROVE  ShownInTheEnd'
<1>0. /\ TransferShapes /\ ShownInTheEnd /\ TransferLocksHeld /\ Taps \subseteq Tasks
      /\ "loop" \in Tasks /\ "loop" \notin Taps /\ NoTask \notin Tasks
  BY TransferAssumption DEF TransferInv, Tasks, TransferAssumption, NoTask
<1>1. CASE QueueMoves
  <2>1. UNCHANGED <<turn, messages>>
    BY <1>1 DEF QueueMoves
  <2>2. \A S : RightlyShown(S) => RightlyShown(S)'
    BY <1>1, RightKept DEF QueueMoves, Refresh, storeVars, RightlyShown
  <2> QED
    BY <1>0, <2>1, <2>2
    DEF ShownInTheEnd, QueueIsDue, BoardIsDue, OwesQueue, OwesBoard, messages, RightlyShown
<1>2. CASE RestartTransfers
  <2>1. turn'["loop"].at = "enter" /\ turn'["loop"].op = "start"
    BY <1>0, <1>2, TurnsTaken DEF RestartTransfers
  <2> QED
    BY <1>0, <2>1 DEF ShownInTheEnd, QueueIsDue, BoardIsDue, OwesQueue, OwesBoard
<1>3. ASSUME NEW t \in Tasks, TaskMoves(t) PROVE ShownInTheEnd'
  <2>1. \A u \in Tasks \ {t} : turn'[u] = turn[u]
    BY <1>0, <1>3, TicketMoves DEF HeldAlone
  <2>2. \A u \in Tasks \ {t} :
          (OwesQueue(u)' <=> OwesQueue(u)) /\ (OwesBoard(u)' <=> OwesBoard(u))
    BY <2>1 DEF OwesQueue, OwesBoard
  <2>3. ~QueueIsDue' /\ ~OwesQueue(t) => ~QueueIsDue
    BY <2>2 DEF QueueIsDue
  <2>4. ~BoardIsDue' /\ ~OwesBoard(t) => ~BoardIsDue
    BY <2>2 DEF BoardIsDue
  <2>5. CASE OwesQueue(t)'
    BY <2>5 DEF ShownInTheEnd, QueueIsDue, BoardIsDue, OwesBoard
  <2>6. CASE EntryGoes(t, "render", "board") /\ Drew(t)
    <3>1. queueShows' = remembered /\ UNCHANGED <<queued, past, erased>>
      BY <2>6 DEF Drew, EntryGoes, storeVars
    <3>2. RightlyShown(queueShows)'
      BY <3>1, RememberedIsRight DEF RightlyShown
    <3>3. BoardIsDue'
      BY <2>6 DEF EntryGoes, BoardIsDue, OwesBoard
    <3> QED
      BY <3>2, <3>3 DEF ShownInTheEnd
  <2>7. CASE EntryGoes(t, "board", "edit") /\ Drew(t)
    <3>1. /\ turn'[t].draws = remembered /\ UNCHANGED <<queued, past, erased, queueShows>>
          /\ boardLock = NoTask /\ turn'[t].at = "edit" /\ turn[t].at = "board"
      BY <2>7 DEF Drew, EntryGoes, storeVars, messages
    <3>2. \A S : RightlyShown(S)' <=> RightlyShown(S)
      BY <3>1 DEF RightlyShown
    <3>3. RightlyShown(turn'[t].draws)
      BY <3>1, RememberedIsRight
    <3>4. \A u \in Tasks \ {t} : turn'[u].at # "edit"
      BY <1>0, <2>1, <3>1 DEF TransferLocksHeld
    <3>5. ~OwesQueue(t)
      BY <3>1 DEF OwesQueue
    <3>6. ~QueueIsDue' => RightlyShown(queueShows)
      BY <1>0, <2>3, <3>5 DEF ShownInTheEnd
    <3>7. \A u \in Tasks : turn'[u].at = "edit" => RightlyShown(turn'[u].draws)
      BY <3>3, <3>4
    <3> QED
      BY <3>1, <3>6, <3>7 DEF ShownInTheEnd, RightlyShown
  <2>8. CASE EntryGoes(t, "edit", "rest") /\ Drew(t)
    <3>1. /\ boardShows' = turn[t].draws /\ UNCHANGED <<queued, past, erased, queueShows>>
          /\ turn'[t].at = "rest" /\ turn[t].at = "edit"
      BY <2>8 DEF Drew, EntryGoes, storeVars
    <3>2. \A u \in Tasks : turn'[u].at # "edit"
      BY <1>0, <2>1, <3>1 DEF TransferLocksHeld
    <3>3. ~OwesQueue(t) /\ ~OwesBoard(t)
      BY <3>1 DEF OwesQueue, OwesBoard
    <3>4. ~QueueIsDue' => RightlyShown(queueShows)
      BY <1>0, <2>3, <3>3 DEF ShownInTheEnd
    <3>5. ~BoardIsDue' => RightlyShown(turn[t].draws)
      BY <1>0, <2>4, <3>1, <3>3 DEF ShownInTheEnd
    <3> QED
      BY <3>1, <3>2, <3>4, <3>5 DEF ShownInTheEnd, RightlyShown
  <2>9. CASE /\ turn[t].at \notin {"ensure", "render", "board", "edit"}
             /\ turn'[t].at \notin {"ensure", "render", "board", "edit"}
             /\ ~OwesQueue(t)
             /\ UNCHANGED messages
             /\ UNCHANGED storeVars \/ Leave(past, "expired")
    <3>1. \A S : RightlyShown(S) => RightlyShown(S)'
      BY <2>9, RightKept DEF storeVars, RightlyShown
    <3>2. \A u \in Tasks : turn'[u].at = "edit" <=> turn[u].at = "edit"
      BY <2>1, <2>9
    <3>3. \A u \in Tasks : turn'[u].at = "edit" => turn'[u] = turn[u]
      BY <2>1, <2>9
    <3>4. ~OwesBoard(t)
      BY <2>9 DEF OwesBoard
    <3>5. UNCHANGED <<queueShows, boardShows>>
      BY <2>9 DEF messages
    <3>6. ~QueueIsDue' => RightlyShown(queueShows)
      BY <1>0, <2>3, <2>9 DEF ShownInTheEnd
    <3>7. ~BoardIsDue' =>
            /\ \A u \in Tasks : turn'[u].at = "edit" => RightlyShown(turn'[u].draws)
            /\ (\A u \in Tasks : turn'[u].at # "edit") => RightlyShown(boardShows)
      BY <1>0, <2>4, <3>2, <3>3, <3>4 DEF ShownInTheEnd
    <3> QED
      BY <3>1, <3>5, <3>6, <3>7 DEF ShownInTheEnd, RightlyShown
  <2>10. Asked(t) \/ Decided(t) \/ (t \in Taps /\ LetGo(t) /\ EntryGoes(t, "decide", "rest")
           /\ UNCHANGED storeVars) \/ (t = "loop" /\ Polled) =>
           \/ OwesQueue(t)'
           \/ /\ turn[t].at \notin {"ensure", "render", "board", "edit"}
              /\ turn'[t].at \notin {"ensure", "render", "board", "edit"}
              /\ ~OwesQueue(t) /\ UNCHANGED messages /\ UNCHANGED storeVars
    BY <1>0 DEF Asked, Polled, Decided, LetGo, EntryGoes, OwesQueue, OnlyTasks
  <2>11. Entered(t) =>
           \/ OwesQueue(t)'
           \/ /\ turn[t].at \notin {"ensure", "render", "board", "edit"}
              /\ turn'[t].at \notin {"ensure", "render", "board", "edit"}
              /\ ~OwesQueue(t) /\ UNCHANGED messages
              /\ UNCHANGED storeVars \/ Leave(past, "expired")
    BY <1>0 DEF Entered, EntryGoes, OwesQueue
  <2>12. ChangedIt(t) \/ (t = "loop" /\ LetGo(t) /\ EntryGoes(t, "decide", "ensure"))
           => OwesQueue(t)'
    BY <1>0 DEF ChangedIt, EntryGoes, OwesQueue
  <2>13. Drew(t) => EntryGoes(t, "render", "board") \/ EntryGoes(t, "board", "edit") \/ EntryGoes(t, "edit", "rest")
    BY DEF Drew
  <2>14. (t = "loop" /\ turn[t].op = "expire" /\ LetGo(t) /\ EntryGoes(t, "enter", "rest")
           /\ UNCHANGED storeVars) =>
           /\ turn[t].at \notin {"ensure", "render", "board", "edit"}
           /\ turn'[t].at \notin {"ensure", "render", "board", "edit"}
           /\ ~OwesQueue(t) /\ UNCHANGED messages /\ UNCHANGED storeVars
    BY DEF LetGo, EntryGoes, OwesQueue
  <2> QED
    BY <1>3, <2>5, <2>6, <2>7, <2>8, <2>9, <2>10, <2>11, <2>12, <2>13, <2>14
    DEF TaskMoves
<1> QED
  BY <1>1, <1>2, <1>3 DEF TransferStep

\* Every step of the commands, the loop, a deletion and a restart keeps the invariant.
LEMMA TransferKept == TransferInv /\ [TransferNext]_transferVars => TransferInv'
<1> SUFFICES ASSUME TransferInv, [TransferNext]_transferVars PROVE TransferInv'
  OBVIOUS
<1>1. TransferStep /\ turn' \in [Tasks -> TransferTurns] /\ StoreStep
  BY TransferMoves, StoreMoves DEF TransferInv
<1> QED
  BY <1>1, TransferShapesKept, RemembersKept, LocksKept, TicketsKept, OneEachKept, LogKept,
     DeletedKept, ShownKept DEF TransferInv

\* A set whose members are all the same has at most one.
LEMMA AllTheSame ==
  ASSUME NEW S, \A x, y \in S : x = y
  PROVE  Cardinality(S) <= 1
<1>1. CASE S = {}
  BY <1>1, FS_EmptySet
<1>2. ASSUME NEW x \in S PROVE Cardinality(S) <= 1
  <2>1. S = {x}
    OBVIOUS
  <2> QED
    BY <2>1, FS_Singleton
<1> QED
  BY <1>1, <1>2

\* The queue, its events and what is shown of it agree, however commands, the clear button,
\* the expiry loop, deletions and restarts overlap: one request per member, each open in the
\* events exactly while it is queued, nothing of a deleted member back, and at rest the live
\* requests in the message and on the board.
THEOREM QueueStaysTrue == TransferSpec => []QueueIsTrue
<1>1. TransferInv => QueueIsTrue
  <2> SUFFICES ASSUME TransferInv PROVE QueueIsTrue
    OBVIOUS
  <2>0. OneEach /\ LogTells /\ DeletedStaysDeleted /\ ShownInTheEnd
    BY DEF TransferInv
  <2>1. OnePendingPerMember
    BY <2>0, AllTheSame DEF OnePendingPerMember, OneEach, of_member
  <2>2. LogMatchesQueue
    <3>1. \A row \in log : Cardinality(EndingsOf(row.entry)) <= 1
      BY <2>0, AllTheSame DEF LogTells, EndingsOf
    <3> QED
      BY <2>0, <3>1 DEF LogMatchesQueue, LogTells, EndingsOf, OpenedOnes
  <2>3. QueueIsShown
    <3> SUFFICES ASSUME \A t \in Tasks : turn[t].at = "rest"
                 PROVE  RightlyShown(queueShows) /\ RightlyShown(boardShows)
      BY DEF QueueIsShown, RightlyShown
    <3>1. ~QueueIsDue /\ ~BoardIsDue /\ \A t \in Tasks : turn[t].at # "edit"
      BY DEF QueueIsDue, BoardIsDue, OwesQueue, OwesBoard
    <3> QED
      BY <2>0, <3>1 DEF ShownInTheEnd
  <2> QED
    BY <2>0, <2>1, <2>2, <2>3 DEF QueueIsTrue
<1> QED
  BY <1>1, TransferStarts, TransferKept, PTL DEF TransferSpec

-----------------------------------------------------------------------------
(* WarSummaries: the pass, its record and the sweep beside it.                *)

\* The summaries that were posted, and the one that the pass renders.
PostedOnes  == {s \in Wars \X Wordings \X {1} : sends[<<s[1], s[2]>>] = 1}
ThisSummary == <<war, wording, 1>>
PassPlaces  == {"idle", "look", "send", "save", "saving", "clean"}

SweepSizes  == {Cardinality(dict) : dict \in SUBSET (Wars \X Wordings \X {1})} \cup {0}
SweepShapes == [on : BOOLEAN, dict : SUBSET PostedOnes, size : SweepSizes, same : BOOLEAN, lost : BOOLEAN,
                left : SUBSET PostedOnes, keep : SUBSET PostedOnes]

\* The state has its shape: whatever is shown or remembered was posted.
WarShapes ==
  /\ war \in Wars /\ warOver \in BOOLEAN /\ passAt \in PassPlaces
  /\ sends \in [Wars \X Wordings -> {0, 1}] /\ wording \in Wordings
  /\ \A w \in Wars, t \in Wordings : sends[<<w, t>>] = 1 => w <= war
  /\ summaries_shown \subseteq PostedOnes /\ old_summaries \subseteq PostedOnes
  /\ registry \subseteq PostedOnes
  /\ processed \subseteq 1..war /\ refused \subseteq Wars
  /\ cacheFile \in [processed : SUBSET (1..war), registry : SUBSET PostedOnes]
  /\ cleaning \in [left : SUBSET PostedOnes, keep : SUBSET PostedOnes]
  /\ sweep \in SweepShapes

\* What the pass takes for granted where it is, and what it may not see get old.
PassKnows ==
  /\ passAt \in {"look", "send", "save"} => war \notin processed
  /\ passAt = "send" => sends[<<war, wording>>] = 0
  /\ passAt \in {"save", "saving", "clean"} =>
       \/ passSummary = ThisSummary /\ ThisSummary \in summaries_shown
       \/ passSummary = NoSummary /\ passAt # "clean" /\ war \in refused
  /\ passAt # "idle" => \A s \in old_summaries : s[1] # war
  /\ passAt = "saving" => \A s \in registry : s[1] = war => s = passSummary
  /\ passAt = "clean" => \A s \in cleaning.left \cup cleaning.keep : s[1] = war => s = passSummary
  /\ passAt \in {"saving", "clean"} => war \in processed

\* A war that counts as done is in the file, or about to be; only such wars are registered or old.
DoneIsSaved ==
  /\ \A w \in processed : w \in cacheFile.processed \/ (passAt = "saving" /\ w = war)
  /\ \A s \in registry : s[1] \in processed
  /\ \A s \in cacheFile.registry : s[1] \in cacheFile.processed
  /\ \A s \in old_summaries : s[1] \in processed /\ s[1] \in cacheFile.processed
  /\ passAt = "clean" => \A s \in cleaning.left \cup cleaning.keep : s[1] \in processed

\* A summary stays until its war counts as done for good.
ShownUntilDone ==
  \A w \in Wars, t \in Wordings : sends[<<w, t>>] = 1
    /\ (w \notin processed \/ w \notin cacheFile.processed \/ (passAt = "saving" /\ w = war)) =>
    <<w, t, 1>> \in summaries_shown

\* What is shown of a war that is done is registered, in memory, in the file and in the pass, unless
\* its posts have different wordings.
AllRegistered ==
  \A s \in summaries_shown :
    /\ s[1] \in processed \ (refused \cup Reworded) => s \in registry
    /\ s[1] \in processed \ (refused \cup Reworded) /\ passAt = "clean" => s \in cleaning.left \cup cleaning.keep
    /\ s \in cleaning.left \cup cleaning.keep /\ passAt = "clean" => s \in registry
    /\ s[1] \in cacheFile.processed \ (refused \cup Reworded) => s \in cacheFile.registry

\* What the sweep has yet to see or keeps.
SweptOnes == sweep.left \cup sweep.keep

\* A sweep that reads the registry has yet to see or keeps what is registered, unless it lost a key
\* that it had read; one that reads a replaced registry runs when the pass is over.
SweepKnows ==
  /\ (sweep.same => sweep.on) /\ (~sweep.lost => sweep.keep \cap sweep.left = {})
  /\ sweep.on /\ sweep.same =>
       /\ sweep.dict = registry /\ sweep.left \subseteq registry
       /\ ~sweep.lost => sweep.keep \subseteq registry /\ registry \cap summaries_shown \subseteq SweptOnes
  /\ sweep.on /\ ~sweep.same =>
       /\ passAt = "idle" /\ war \in processed
       /\ ~sweep.lost => /\ \A s \in SweptOnes : s[1] \in processed
                         /\ summaries_shown \cap registry \subseteq SweptOnes

WarInv ==
  /\ WarShapes /\ PassKnows /\ DoneIsSaved /\ ShownUntilDone
  /\ DoneWasPosted /\ AllRegistered /\ SweepKnows


\* A summary that was posted is the first in its wording of a war up to this one.
LEMMA PostedPairs ==
  ASSUME WarShapes
  PROVE  /\ \A s \in PostedOnes : /\ s[1] \in Wars /\ s[2] \in Wordings /\ s = <<s[1], s[2], 1>>
                                  /\ sends[<<s[1], s[2]>>] = 1 /\ s[1] <= war
         /\ \A w \in Wars, t \in Wordings : <<w, t, 1>> \in PostedOnes <=> sends[<<w, t>>] = 1
         /\ Wars \subseteq Nat /\ war \in Nat
<1>1. /\ \A s \in PostedOnes : s[1] \in Wars /\ s[2] \in Wordings /\ s = <<s[1], s[2], 1>>
                                /\ sends[<<s[1], s[2]>>] = 1
      /\ \A w \in Wars, t \in Wordings : <<w, t, 1>> \in PostedOnes <=> sends[<<w, t>>] = 1
  BY DEF PostedOnes
<1> QED
  BY <1>1 DEF WarShapes, Wars

\* No summary is none of them.
LEMMA NoSummaryIs == NoSummary # ThisSummary /\ NoSummary \notin PostedOnes
<1>1. 0 \notin Wordings
  BY WarSummaryAssumption DEF Wordings
<1>2. \A s \in PostedOnes : s[2] \in Wordings
  BY DEF PostedOnes
<1>3. NoSummary[2] = 0 /\ NoSummary[3] = 0 /\ ThisSummary[3] = 1
  BY DEF NoSummary, ThisSummary
<1> QED
  BY <1>1, <1>2, <1>3

\* A war is posted when some wording of it is.
LEMMA PostedAre ==
  ASSUME sends \in [Wars \X Wordings -> {0, 1}]
  PROVE  Posted = {w \in Wars : \E t \in Wordings : sends[<<w, t>>] = 1}
<1>1. \A w \in Wars, t \in Wordings : sends[<<w, t>>] > 0 <=> sends[<<w, t>>] = 1
  <2> SUFFICES ASSUME NEW w \in Wars, NEW t \in Wordings
               PROVE  sends[<<w, t>>] > 0 <=> sends[<<w, t>>] = 1
    OBVIOUS
  <2>1. sends[<<w, t>>] \in {0, 1}
    OBVIOUS
  <2> QED
    BY <2>1
<1> QED
  BY <1>1 DEF Posted

\* A sweep that lost no key has seen, or has yet to see, all that is registered and shown.
LEMMA SweepSeesAll ==
  ASSUME WarInv, sweep.on, ~sweep.lost
  PROVE  /\ \A s \in SweptOnes : s[1] \in processed
         /\ summaries_shown \cap registry \subseteq SweptOnes
         /\ SweptOnes \subseteq PostedOnes
         /\ passAt # "idle" => SweptOnes \subseteq registry
<1>0. WarShapes /\ DoneIsSaved /\ SweepKnows
  BY DEF WarInv
<1>1. SweptOnes \subseteq PostedOnes
  BY <1>0 DEF WarShapes, SweepShapes, SweptOnes
<1>2. CASE sweep.same
  <2>1. SweptOnes \subseteq registry /\ summaries_shown \cap registry \subseteq SweptOnes
    BY <1>0, <1>2 DEF SweepKnows, SweptOnes
  <2> QED
    BY <1>0, <1>1, <2>1 DEF DoneIsSaved
<1>3. CASE ~sweep.same
  BY <1>0, <1>1, <1>3 DEF SweepKnows
<1> QED
  BY <1>2, <1>3

\* What a pass does to the registry, the sweep beside it can tell.
LEMMA SweepGoesOn ==
  ASSUME WarShapes, SweepKnows, passAt # "idle", sweep' = SweepSees(registry'),
         UNCHANGED <<war, summaries_shown>>
  PROVE  SweepKnows'
<1>1. sweep.on => sweep.same
  BY DEF SweepKnows
<1>2. CASE ~sweep.on
  <2>1. sweep' = sweep
    BY <1>2 DEF SweepSees, SweepKnows
  <2> QED
    BY <1>2, <2>1 DEF SweepKnows
<1>3. CASE sweep.on
  <2>1. /\ sweep'.on = sweep.on /\ sweep'.same /\ sweep'.keep = sweep.keep /\ sweep'.dict = registry'
        /\ sweep'.left = (sweep.left \cap registry') \cup (registry' \ sweep.dict)
        /\ ~sweep'.lost => ~sweep.lost /\ sweep.dict \ registry' \subseteq sweep.left
    <3>1. sweep' = [sweep EXCEPT !.dict = registry',
                                 !.left = (@ \cap registry') \cup (registry' \ sweep.dict),
                                 !.lost = @ \/ ~(sweep.dict \ registry' \subseteq sweep.left)]
      BY <1>1, <1>3 DEF SweepSees
    <3>2. sweep \in SweepShapes
      BY DEF WarShapes
    <3> QED
      BY <1>1, <1>3, <3>1, <3>2 DEF SweepShapes
  <2>2. sweep.dict = registry
    BY <1>1, <1>3 DEF SweepKnows
  <2>3. sweep'.left \subseteq registry'
    BY <2>1
  <2>4. ASSUME ~sweep'.lost
        PROVE  sweep'.keep \subseteq registry' /\ registry' \cap summaries_shown \subseteq SweptOnes'
               /\ sweep'.keep \cap sweep'.left = {}
    <3>1. /\ sweep.keep \subseteq registry /\ registry \cap summaries_shown \subseteq SweptOnes
          /\ registry \ registry' \subseteq sweep.left
      BY <1>1, <1>3, <2>1, <2>2, <2>4 DEF SweepKnows
    <3>2. sweep.keep \cap sweep.left = {}
      BY <2>1, <2>4 DEF SweepKnows
    <3>3. sweep'.keep \subseteq registry'
      BY <2>1, <3>1, <3>2
    <3>4. registry' \cap summaries_shown \subseteq sweep'.left \cup sweep'.keep
      BY <2>1, <2>2, <3>1 DEF SweptOnes
    <3>5. sweep'.keep \cap sweep'.left = {}
      BY <2>1, <2>2, <3>1, <3>2
    <3> QED
      BY <3>3, <3>4, <3>5 DEF SweptOnes
  <2>5. sweep'.on /\ sweep'.dict = registry'
    BY <1>3, <2>1
  <2> QED
    BY <2>1, <2>3, <2>4, <2>5 DEF SweepKnows
<1> QED
  BY <1>2, <1>3

\* The sweep keeps its shape when the registry does.
LEMMA SweepShaped ==
  ASSUME WarShapes, registry' \subseteq PostedOnes
  PROVE  SweepSees(registry') \in SweepShapes
BY DEF WarShapes, SweepSees, SweepShapes

\* The war ends, or the next begins.
LEMMA WarGoesOnKept ==
  ASSUME WarInv, WarGoesOn
  PROVE  WarInv'
<1>0. /\ WarShapes /\ PassKnows /\ DoneIsSaved /\ ShownUntilDone
      /\ DoneWasPosted /\ AllRegistered /\ SweepKnows
  BY DEF WarInv
<1>1. /\ \A s \in PostedOnes : /\ s[1] \in Wars /\ s[2] \in Wordings /\ s = <<s[1], s[2], 1>>
                               /\ sends[<<s[1], s[2]>>] = 1 /\ s[1] <= war
      /\ \A w \in Wars, t \in Wordings : <<w, t, 1>> \in PostedOnes <=> sends[<<w, t>>] = 1
      /\ Wars \subseteq Nat /\ war \in Nat
  BY <1>0, PostedPairs
<1>2. PostedOnes' = PostedOnes /\ Posted' = Posted /\ Reworded' = Reworded
  BY DEF PostedOnes, Posted, Reworded, WarGoesOn, WarEnds, NextWar
<1>3. WarShapes'
  <2>1. 1..war \subseteq 1..war' /\ war' \in Wars /\ warOver' \in BOOLEAN /\ war <= war'
    <3>1. MaxWars \in Nat /\ war \in 1..MaxWars
      BY <1>0, WarSummaryAssumption DEF WarShapes, Wars
    <3>2. war' = war \/ (war' = war + 1 /\ war < MaxWars)
      BY DEF WarGoesOn, WarEnds, NextWar
    <3>3. warOver' \in BOOLEAN
      BY DEF WarGoesOn, WarEnds, NextWar
    <3> QED
      BY <3>1, <3>2, <3>3 DEF Wars
  <2>2. cacheFile \in [processed : SUBSET (1..war'), registry : SUBSET PostedOnes]
    BY <1>0, <2>1 DEF WarShapes
  <2>3. \A w \in Wars, t \in Wordings : sends[<<w, t>>] = 1 => w <= war'
    BY <1>0, <1>1, <2>1 DEF WarShapes
  <2> QED
    BY <1>0, <1>2, <2>1, <2>2, <2>3 DEF WarGoesOn, WarEnds, NextWar, WarShapes,
       SweepShapes, PassPlaces
<1>4. PassKnows'
  BY <1>0, <1>1, <1>2 DEF WarGoesOn, WarEnds, NextWar, PassKnows, WarShapes, ThisSummary
<1>5. DoneIsSaved'
  BY <1>0, <1>1, <1>2 DEF WarGoesOn, WarEnds, NextWar, DoneIsSaved
<1>6. ShownUntilDone'
  BY <1>0, <1>1, <1>2 DEF WarGoesOn, WarEnds, NextWar, ShownUntilDone
<1>7. DoneWasPosted'
  BY <1>0, <1>1, <1>2 DEF WarGoesOn, WarEnds, NextWar, DoneWasPosted
<1>8. AllRegistered'
  BY <1>0, <1>1, <1>2 DEF WarGoesOn, WarEnds, NextWar, AllRegistered
<1>9. SweepKnows'
  BY <1>0, <1>1, <1>2 DEF WarGoesOn, WarEnds, NextWar, SweepKnows, WarShapes, ThisSummary,
     SweptOnes
<1> QED
  BY <1>3, <1>4, <1>5, <1>6, <1>7, <1>8, <1>9 DEF WarInv

\* A summary grows old between two passes.
LEMMA TimePassesKept ==
  ASSUME WarInv, TimePasses
  PROVE  WarInv'
<1>0. /\ WarShapes /\ PassKnows /\ DoneIsSaved /\ ShownUntilDone
      /\ DoneWasPosted /\ AllRegistered /\ SweepKnows
  BY DEF WarInv
<1>1. /\ \A s \in PostedOnes : /\ s[1] \in Wars /\ s[2] \in Wordings /\ s = <<s[1], s[2], 1>>
                               /\ sends[<<s[1], s[2]>>] = 1 /\ s[1] <= war
      /\ \A w \in Wars, t \in Wordings : <<w, t, 1>> \in PostedOnes <=> sends[<<w, t>>] = 1
      /\ Wars \subseteq Nat /\ war \in Nat
  BY <1>0, PostedPairs
<1>2. PostedOnes' = PostedOnes /\ Posted' = Posted /\ Reworded' = Reworded
  BY DEF PostedOnes, Posted, Reworded, TimePasses
<1>3. WarShapes'
  BY <1>0, <1>1, <1>2 DEF TimePasses, WarShapes, PassPlaces, SweepShapes
<1>4. PassKnows'
  BY <1>0, <1>1, <1>2 DEF TimePasses, PassKnows
<1>5. DoneIsSaved'
  BY <1>0, <1>1, <1>2 DEF TimePasses, DoneIsSaved
<1>6. ShownUntilDone'
  BY <1>0, <1>1, <1>2 DEF TimePasses, ShownUntilDone
<1>7. DoneWasPosted'
  BY <1>0, <1>1, <1>2 DEF TimePasses, DoneWasPosted
<1>8. AllRegistered'
  BY <1>0, <1>1, <1>2 DEF TimePasses, AllRegistered
<1>9. SweepKnows'
  BY <1>0, <1>1, <1>2 DEF TimePasses, SweepKnows, WarShapes, ThisSummary, SweptOnes
<1> QED
  BY <1>3, <1>4, <1>5, <1>6, <1>7, <1>8, <1>9 DEF WarInv

\* A pass finds that the war has ended.
LEMMA BeginSummaryKept ==
  ASSUME WarInv, BeginSummary
  PROVE  WarInv'
<1>0. /\ WarShapes /\ PassKnows /\ DoneIsSaved /\ ShownUntilDone
      /\ DoneWasPosted /\ AllRegistered /\ SweepKnows
  BY DEF WarInv
<1>1. /\ \A s \in PostedOnes : /\ s[1] \in Wars /\ s[2] \in Wordings /\ s = <<s[1], s[2], 1>>
                               /\ sends[<<s[1], s[2]>>] = 1 /\ s[1] <= war
      /\ \A w \in Wars, t \in Wordings : <<w, t, 1>> \in PostedOnes <=> sends[<<w, t>>] = 1
      /\ Wars \subseteq Nat /\ war \in Nat
  BY <1>0, PostedPairs
<1>2. PostedOnes' = PostedOnes /\ Posted' = Posted /\ Reworded' = Reworded
  BY DEF PostedOnes, Posted, Reworded, BeginSummary, to_summarize, InPass
<1>3. WarShapes'
  BY <1>0, <1>1, <1>2 DEF BeginSummary, to_summarize, InPass, WarShapes, PassPlaces, SweepShapes
<1>4. PassKnows'
  BY <1>0, <1>1, <1>2 DEF BeginSummary, to_summarize, InPass, PassKnows, WarShapes, ThisSummary,
     NoSummary, DoneIsSaved
<1>5. DoneIsSaved'
  BY <1>0, <1>1, <1>2 DEF BeginSummary, to_summarize, InPass, DoneIsSaved
<1>6. ShownUntilDone'
  BY <1>0, <1>1, <1>2 DEF BeginSummary, to_summarize, InPass, ShownUntilDone
<1>7. DoneWasPosted'
  BY <1>0, <1>1, <1>2 DEF BeginSummary, to_summarize, InPass, DoneWasPosted
<1>8. AllRegistered'
  BY <1>0, <1>1, <1>2 DEF BeginSummary, to_summarize, InPass, AllRegistered
<1>9. SweepKnows'
  BY <1>0, <1>1, <1>2 DEF BeginSummary, to_summarize, InPass, SweepKnows, WarShapes,
     ThisSummary, SweptOnes
<1> QED
  BY <1>3, <1>4, <1>5, <1>6, <1>7, <1>8, <1>9 DEF WarInv

\* The pass looks for a summary in the channel.
LEMMA LookForSummaryKept ==
  ASSUME WarInv, LookForSummary
  PROVE  WarInv'
<1>0. /\ WarShapes /\ PassKnows /\ DoneIsSaved /\ ShownUntilDone
      /\ DoneWasPosted /\ AllRegistered /\ SweepKnows
  BY DEF WarInv
<1>1. /\ \A s \in PostedOnes : /\ s[1] \in Wars /\ s[2] \in Wordings /\ s = <<s[1], s[2], 1>>
                               /\ sends[<<s[1], s[2]>>] = 1 /\ s[1] <= war
      /\ \A w \in Wars, t \in Wordings : <<w, t, 1>> \in PostedOnes <=> sends[<<w, t>>] = 1
      /\ Wars \subseteq Nat /\ war \in Nat
  BY <1>0, PostedPairs
<1>2. PostedOnes' = PostedOnes /\ Posted' = Posted /\ Reworded' = Reworded
  BY DEF PostedOnes, Posted, Reworded, LookForSummary, existing, InPass
<1>3. WarShapes'
  BY <1>0, <1>1, <1>2 DEF LookForSummary, existing, InPass, WarShapes, PassPlaces, SweepShapes
<1>4. PassKnows'
  BY <1>0, <1>1, <1>2 DEF LookForSummary, existing, InPass, WarShapes, PassKnows, DoneIsSaved,
     ShownUntilDone, DoneWasPosted, AllRegistered, SweepKnows, ThisSummary, NoSummary
<1>5. DoneIsSaved'
  BY <1>0, <1>1, <1>2 DEF LookForSummary, existing, InPass, DoneIsSaved
<1>6. ShownUntilDone'
  BY <1>0, <1>1, <1>2 DEF LookForSummary, existing, InPass, ShownUntilDone
<1>7. DoneWasPosted'
  BY <1>0, <1>1, <1>2 DEF LookForSummary, existing, InPass, DoneWasPosted
<1>8. AllRegistered'
  BY <1>0, <1>1, <1>2 DEF LookForSummary, existing, InPass, AllRegistered
<1>9. SweepKnows'
  BY <1>0, <1>1, <1>2 DEF LookForSummary, existing, InPass, SweepKnows, WarShapes, ThisSummary,
     SweptOnes
<1> QED
  BY <1>3, <1>4, <1>5, <1>6, <1>7, <1>8, <1>9 DEF WarInv

\* The pass sends one, is forbidden to, or gets no answer.
LEMMA SendSummaryKept ==
  ASSUME WarInv, SendSummary
  PROVE  WarInv'
<1>0. /\ WarShapes /\ PassKnows /\ DoneIsSaved /\ ShownUntilDone
      /\ DoneWasPosted /\ AllRegistered /\ SweepKnows
  BY DEF WarInv
<1>1. /\ \A s \in PostedOnes : /\ s[1] \in Wars /\ s[2] \in Wordings /\ s = <<s[1], s[2], 1>>
                               /\ sends[<<s[1], s[2]>>] = 1 /\ s[1] <= war
      /\ \A w \in Wars, t \in Wordings : <<w, t, 1>> \in PostedOnes <=> sends[<<w, t>>] = 1
      /\ Wars \subseteq Nat /\ war \in Nat
  BY <1>0, PostedPairs
<1>2. /\ war \in Wars /\ wording \in Wordings /\ sends \in [Wars \X Wordings -> {0, 1}]
      /\ sends[<<war, wording>>] = 0 /\ passAt = "send"
      /\ UNCHANGED <<war, wording, warOver, old_summaries, registry, processed, cacheFile, cleaning, sweep>>
      /\ refused' \in SUBSET Wars /\ refused \subseteq refused'
      /\ \/ Post
         \/ UNCHANGED <<sends, summaries_shown>>
  BY <1>0 DEF SendSummary, InPass, PassKnows, WarShapes
<1>2a. /\ sends' \in [Wars \X Wordings -> {0, 1}]
       /\ \A w \in Wars, t \in Wordings : <<w, t>> # <<war, wording>> => sends'[<<w, t>>] = sends[<<w, t>>]
       /\ \/ sends'[<<war, wording>>] = 1 /\ summaries_shown' = summaries_shown \cup {ThisSummary}
          \/ UNCHANGED <<sends, summaries_shown>>
  BY <1>2 DEF Post, NewSummary, ThisSummary
<1>2b. /\ PostedOnes \subseteq PostedOnes'
       /\ \A w \in Wars, t \in Wordings : sends[<<w, t>>] = 1 => sends'[<<w, t>>] = 1
       /\ sends'[<<war, wording>>] = 1 => ThisSummary \in PostedOnes'
       /\ ThisSummary \notin PostedOnes
  BY <1>2, <1>2a DEF PostedOnes, ThisSummary
<1>2c. /\ passAt' \in {"save", "idle"}
       /\ passAt' = "save" => \/ passSummary' = ThisSummary /\ sends'[<<war, wording>>] = 1
                              \/ passSummary' = NoSummary /\ war \in refused'
  BY <1>2 DEF SendSummary, Post, NewSummary, after_unresolved, ThisSummary
<1>3. WarShapes'
  <2>1. cacheFile \in [processed : SUBSET (1..war), registry : SUBSET PostedOnes']
    BY <1>0, <1>2b DEF WarShapes
  <2>2. cleaning \in [left : SUBSET PostedOnes', keep : SUBSET PostedOnes']
    BY <1>0, <1>2b DEF WarShapes
  <2>3. sweep \in SweepShapes'
    BY <1>0, <1>2b DEF WarShapes, SweepShapes
  <2>4. summaries_shown' \subseteq PostedOnes'
    BY <1>0, <1>2a, <1>2b DEF WarShapes
  <2>5. \A w \in Wars, t \in Wordings : sends'[<<w, t>>] = 1 => w <= war
    BY <1>0, <1>1, <1>2, <1>2a DEF WarShapes
  <2> QED
    BY <1>0, <1>2, <1>2a, <1>2b, <1>2c, <2>1, <2>2, <2>3, <2>4, <2>5 DEF WarShapes, PassPlaces
<1>4. PassKnows'
  BY <1>0, <1>1, <1>2, <1>2a, <1>2b, <1>2c DEF PassKnows, WarShapes, ThisSummary
<1>5. DoneIsSaved'
  BY <1>0, <1>1, <1>2, <1>2a, <1>2b, <1>2c DEF DoneIsSaved
<1>6. ShownUntilDone'
  BY <1>0, <1>1, <1>2, <1>2a, <1>2b, <1>2c DEF ShownUntilDone, ThisSummary
<1>6a. /\ Posted  = {w \in Wars : \E t \in Wordings : sends[<<w, t>>] = 1}
       /\ Posted' = {w \in Wars : \E t \in Wordings : sends'[<<w, t>>] = 1}
  <2>1. \A w \in Wars, t \in Wordings : sends'[<<w, t>>] > 0 <=> sends'[<<w, t>>] = 1
    <3> SUFFICES ASSUME NEW w \in Wars, NEW t \in Wordings
                 PROVE  sends'[<<w, t>>] > 0 <=> sends'[<<w, t>>] = 1
      OBVIOUS
    <3>1. sends'[<<w, t>>] \in {0, 1}
      BY <1>2a
    <3> QED
      BY <3>1
  <2>2. Posted' = {w \in Wars : \E t \in Wordings : sends'[<<w, t>>] = 1}
    BY <2>1 DEF Posted
  <2> QED
    BY <1>2, <2>2, PostedAre
<1>7. DoneWasPosted'
  <2>1. Posted \subseteq Posted'
    BY <1>2b, <1>6a
  <2> QED
    BY <1>0, <1>2, <2>1 DEF DoneWasPosted
<1>8. AllRegistered'
  <2>1. \A s \in summaries_shown' : s \in summaries_shown \/ s[1] = war
    BY <1>2a DEF ThisSummary
  <2>2. war \notin processed
    BY <1>0, <1>2 DEF PassKnows
  <2>3. \A w \in Wars, t \in Wordings : sends[<<w, t>>] > 0 => sends'[<<w, t>>] > 0
    <3> SUFFICES ASSUME NEW w \in Wars, NEW t \in Wordings, sends[<<w, t>>] > 0
                 PROVE  sends'[<<w, t>>] > 0
      OBVIOUS
    <3>1. sends[<<w, t>>] \in {0, 1}
      BY <1>2
    <3>2. sends'[<<w, t>>] = 1
      BY <1>2b, <3>1
    <3> QED
      BY <3>2
  <2>4. Reworded \subseteq Reworded'
    BY <2>3 DEF Reworded
  <2>5. summaries_shown' # summaries_shown /\ war \in cacheFile.processed => war \in refused' \cup Reworded'
    <3> SUFFICES ASSUME summaries_shown' # summaries_shown, war \in cacheFile.processed, war \notin refused
                 PROVE  war \in Reworded'
      BY <1>2
    <3>1. PICK t \in Wordings : sends[<<war, t>>] = 1
      BY <1>0, <1>6a DEF DoneWasPosted
    <3>2. t # wording /\ sends'[<<war, t>>] = 1 /\ sends'[<<war, wording>>] = 1
      BY <1>2, <1>2a, <1>2b, <3>1
    <3>3. sends'[<<war, t>>] > 0 /\ sends'[<<war, wording>>] > 0
      BY <3>2
    <3> QED
      BY <1>2, <3>2, <3>3 DEF Reworded
  <2> QED
    BY <1>0, <1>2, <1>2c, <2>1, <2>2, <2>4, <2>5 DEF AllRegistered
<1>9. SweepKnows'
  <2>1. SweptOnes' = SweptOnes
    BY <1>2 DEF SweptOnes
  <2>2. registry \cap summaries_shown' \subseteq registry \cap summaries_shown
    <3>1. ThisSummary \notin registry
      BY <1>0, <1>2b DEF WarShapes
    <3> QED
      BY <1>2a, <3>1
  <2>3. sweep' = sweep /\ registry' = registry /\ passAt # "idle"
    BY <1>2
  <2> QED
    BY <1>0, <2>1, <2>2, <2>3 DEF SweepKnows
<1> QED
  BY <1>3, <1>4, <1>5, <1>6, <1>7, <1>8, <1>9 DEF WarInv

\* The pass marks the war in memory.
LEMMA MarkProcessedKept ==
  ASSUME WarInv, MarkProcessed
  PROVE  WarInv'
<1>0. /\ WarShapes /\ PassKnows /\ DoneIsSaved /\ ShownUntilDone
      /\ DoneWasPosted /\ AllRegistered /\ SweepKnows
  BY DEF WarInv
<1>1. /\ \A s \in PostedOnes : /\ s[1] \in Wars /\ s[2] \in Wordings /\ s = <<s[1], s[2], 1>>
                               /\ sends[<<s[1], s[2]>>] = 1 /\ s[1] <= war
      /\ \A w \in Wars, t \in Wordings : <<w, t, 1>> \in PostedOnes <=> sends[<<w, t>>] = 1
      /\ Wars \subseteq Nat /\ war \in Nat
  BY <1>0, PostedPairs
<1>2. PostedOnes' = PostedOnes /\ Posted' = Posted /\ Reworded' = Reworded
  BY DEF PostedOnes, Posted, Reworded, MarkProcessed, Registered, InPass
<1>3. WarShapes'
  <2>1. registry' \subseteq PostedOnes
    BY <1>0, <1>1 DEF MarkProcessed, Registered, WarShapes, PassKnows
  <2>2. processed' \subseteq 1..war
    BY <1>0, <1>1 DEF MarkProcessed, WarShapes, Wars
  <2>3. sweep' \in SweepShapes
    BY <1>0, <2>1, SweepShaped DEF MarkProcessed
  <2> QED
    BY <1>0, <1>2, <2>1, <2>2, <2>3 DEF MarkProcessed, InPass, WarShapes, PassPlaces, SweepShapes
<1>3a. /\ war \in Wars /\ wording \in Wordings /\ war \notin processed
       /\ \/ passSummary = ThisSummary /\ ThisSummary \in summaries_shown
          \/ passSummary = NoSummary /\ war \in refused
       /\ NoSummary \notin registry /\ NoSummary # ThisSummary
  BY <1>0, NoSummaryIs DEF MarkProcessed, PassKnows, WarShapes
<1>3b. /\ passAt = "save" /\ passAt' = "saving" /\ registry' = registry \cup ({passSummary} \ {NoSummary})
       /\ processed' = processed \cup {war}
       /\ UNCHANGED <<war, wording, summaries_shown, sends, refused, cacheFile, passSummary, cleaning,
                      old_summaries>>
  BY DEF MarkProcessed, Registered, InPass
<1>3c. \A s \in registry : s[1] # war
  BY <1>0, <1>3a DEF DoneIsSaved
<1>4. PassKnows'
  BY <1>0, <1>3a, <1>3b, <1>3c DEF PassKnows, ThisSummary
<1>5. DoneIsSaved'
  BY <1>0, <1>3a, <1>3b DEF DoneIsSaved, ThisSummary
<1>6. ShownUntilDone'
  BY <1>0, <1>3a, <1>3b DEF ShownUntilDone
<1>6a. Posted = {w \in Wars : \E t \in Wordings : sends[<<w, t>>] = 1}
  BY <1>0, PostedAre DEF WarShapes
<1>6b. passSummary = ThisSummary => sends[<<war, wording>>] = 1 /\ war \in Posted
  <2>1. passSummary = ThisSummary => ThisSummary \in PostedOnes
    BY <1>0, <1>3a DEF WarShapes, NoSummary
  <2>2. ThisSummary \in PostedOnes => sends[<<war, wording>>] = 1
    BY <1>1, <1>3a DEF ThisSummary
  <2> QED
    BY <1>3a, <1>6a, <2>1, <2>2
<1>7. DoneWasPosted'
  BY <1>0, <1>2, <1>3a, <1>3b, <1>6b DEF DoneWasPosted
<1>8. AllRegistered'
  <2>1. ASSUME NEW s \in summaries_shown, s[1] = war, war \notin refused \cup Reworded
        PROVE  s = passSummary
    <3>1. passSummary = ThisSummary /\ sends[<<war, wording>>] = 1
      BY <1>3a, <1>6b, <2>1
    <3>2. s[2] \in Wordings /\ s = <<s[1], s[2], 1>> /\ sends[<<war, s[2]>>] = 1
      BY <1>0, <1>1, <2>1 DEF WarShapes
    <3>3. sends[<<war, wording>>] > 0 /\ sends[<<war, s[2]>>] > 0
      BY <3>1, <3>2
    <3>4. s[2] = wording
      BY <1>3a, <2>1, <3>2, <3>3 DEF Reworded
    <3> QED
      BY <2>1, <3>1, <3>2, <3>4 DEF ThisSummary
  <2>2. passSummary = NoSummary => war \in refused
    BY <1>3a
  <2> QED
    BY <1>0, <1>2, <1>3b, <2>1, <2>2 DEF AllRegistered
<1>9. SweepKnows'
  BY <1>0, SweepGoesOn DEF MarkProcessed, InPass
<1> QED
  BY <1>3, <1>4, <1>5, <1>6, <1>7, <1>8, <1>9 DEF WarInv

\* What the pass marked is saved.
LEMMA SaveSummaryKept ==
  ASSUME WarInv, SaveSummary
  PROVE  WarInv'
<1>0. /\ WarShapes /\ PassKnows /\ DoneIsSaved /\ ShownUntilDone
      /\ DoneWasPosted /\ AllRegistered /\ SweepKnows
  BY DEF WarInv
<1>1. /\ \A s \in PostedOnes : /\ s[1] \in Wars /\ s[2] \in Wordings /\ s = <<s[1], s[2], 1>>
                               /\ sends[<<s[1], s[2]>>] = 1 /\ s[1] <= war
      /\ \A w \in Wars, t \in Wordings : <<w, t, 1>> \in PostedOnes <=> sends[<<w, t>>] = 1
      /\ Wars \subseteq Nat /\ war \in Nat
  BY <1>0, PostedPairs
<1>2. PostedOnes' = PostedOnes /\ Posted' = Posted /\ Reworded' = Reworded
  BY DEF PostedOnes, Posted, Reworded, SaveSummary, CacheOf, InPass
<1>3. WarShapes'
  BY <1>0, <1>1, <1>2 DEF SaveSummary, CacheOf, InPass, WarShapes, PassPlaces, SweepShapes
<1>4. PassKnows'
  BY <1>0, <1>1, <1>2 DEF SaveSummary, CacheOf, InPass, PassKnows, WarShapes, ThisSummary
<1>5. DoneIsSaved'
  BY <1>0, <1>1, <1>2 DEF SaveSummary, CacheOf, InPass, DoneIsSaved
<1>6. ShownUntilDone'
  BY <1>0, <1>1, <1>2 DEF SaveSummary, CacheOf, InPass, ShownUntilDone
<1>7. DoneWasPosted'
  BY <1>0, <1>1, <1>2 DEF SaveSummary, CacheOf, InPass, DoneWasPosted
<1>8. AllRegistered'
  BY <1>0, <1>1, <1>2 DEF SaveSummary, CacheOf, InPass, AllRegistered
<1>9. SweepKnows'
  BY <1>0, <1>1, <1>2 DEF SaveSummary, CacheOf, InPass, SweepKnows, WarShapes, ThisSummary,
     SweptOnes
<1> QED
  BY <1>3, <1>4, <1>5, <1>6, <1>7, <1>8, <1>9 DEF WarInv

\* What could not be saved is taken back.
LEMMA SaveSummaryFailsKept ==
  ASSUME WarInv, SaveSummaryFails
  PROVE  WarInv'
<1>0. /\ WarShapes /\ PassKnows /\ DoneIsSaved /\ ShownUntilDone
      /\ DoneWasPosted /\ AllRegistered /\ SweepKnows
  BY DEF WarInv
<1>1. /\ \A s \in PostedOnes : /\ s[1] \in Wars /\ s[2] \in Wordings /\ s = <<s[1], s[2], 1>>
                               /\ sends[<<s[1], s[2]>>] = 1 /\ s[1] <= war
      /\ \A w \in Wars, t \in Wordings : <<w, t, 1>> \in PostedOnes <=> sends[<<w, t>>] = 1
      /\ Wars \subseteq Nat /\ war \in Nat
  BY <1>0, PostedPairs
<1>2. PostedOnes' = PostedOnes /\ Posted' = Posted /\ Reworded' = Reworded
  BY DEF PostedOnes, Posted, Reworded, SaveSummaryFails, rolled_back, InPass
<1>2a. /\ passAt = "saving" /\ passAt' = "idle" /\ registry' = registry \ {passSummary}
       /\ processed' = processed \ {war}
       /\ UNCHANGED <<war, warOver, wording, summaries_shown, sends, refused, cacheFile, passSummary,
                      cleaning, old_summaries>>
  BY DEF SaveSummaryFails, rolled_back, InPass
<1>3. WarShapes'
  <2>1. registry' \subseteq PostedOnes
    BY <1>0, <1>2a DEF WarShapes
  <2>2. sweep' \in SweepShapes
    BY <1>0, <2>1, SweepShaped DEF SaveSummaryFails
  <2> QED
    BY <1>0, <1>2, <1>2a, <2>1, <2>2 DEF WarShapes, PassPlaces, SweepShapes
<1>4. PassKnows'
  BY <1>2a DEF PassKnows
<1>5. DoneIsSaved'
  <2>1. \A s \in registry' : s[1] # war
    BY <1>0, <1>2a DEF PassKnows
  <2>2. \A s \in old_summaries : s[1] # war
    BY <1>0, <1>2a DEF PassKnows
  <2> QED
    BY <1>0, <1>2a, <2>1, <2>2 DEF DoneIsSaved
<1>6. ShownUntilDone'
  BY <1>0, <1>2a DEF ShownUntilDone
<1>7. DoneWasPosted'
  BY <1>0, <1>2, <1>2a DEF DoneWasPosted
<1>8. AllRegistered'
  <2>1. \A s \in registry \ registry' : s[1] = war
    <3>1. passSummary = ThisSummary \/ passSummary \notin registry
      BY <1>0, <1>2a, NoSummaryIs DEF PassKnows, WarShapes
    <3> QED
      BY <1>2a, <3>1 DEF ThisSummary
  <2> QED
    BY <1>0, <1>2, <1>2a, <2>1 DEF AllRegistered
<1>9. SweepKnows'
  BY <1>0, SweepGoesOn DEF SaveSummaryFails, InPass
<1> QED
  BY <1>3, <1>4, <1>5, <1>6, <1>7, <1>8, <1>9 DEF WarInv

\* An older summary is removed, or stays.
LEMMA CleanOneKept ==
  ASSUME WarInv, CleanOne
  PROVE  WarInv'
<1>0. /\ WarShapes /\ PassKnows /\ DoneIsSaved /\ ShownUntilDone
      /\ DoneWasPosted /\ AllRegistered /\ SweepKnows
  BY DEF WarInv
<1>1. /\ \A s \in PostedOnes : /\ s[1] \in Wars /\ s[2] \in Wordings /\ s = <<s[1], s[2], 1>>
                               /\ sends[<<s[1], s[2]>>] = 1 /\ s[1] <= war
      /\ \A w \in Wars, t \in Wordings : <<w, t, 1>> \in PostedOnes <=> sends[<<w, t>>] = 1
      /\ Wars \subseteq Nat /\ war \in Nat
  BY <1>0, PostedPairs
<1>2. PostedOnes' = PostedOnes /\ Posted' = Posted /\ Reworded' = Reworded
  BY DEF PostedOnes, Posted, Reworded, CleanOne, spared, InPass
<1>3. WarShapes'
  BY <1>0, <1>1, <1>2 DEF CleanOne, spared, InPass, WarShapes, PassPlaces, SweepShapes
<1>4. PassKnows'
  BY <1>0, <1>1, <1>2 DEF CleanOne, spared, InPass, PassKnows, WarShapes, ThisSummary
<1>5. DoneIsSaved'
  BY <1>0, <1>1, <1>2 DEF CleanOne, spared, InPass, DoneIsSaved, WarShapes, ThisSummary
<1>6. ShownUntilDone'
  BY <1>0, <1>1, <1>2 DEF CleanOne, spared, InPass, ShownUntilDone, WarShapes, ThisSummary,
     NoSummary, PassKnows, DoneIsSaved
<1>7. DoneWasPosted'
  BY <1>0, <1>1, <1>2 DEF CleanOne, spared, InPass, DoneWasPosted
<1>8. AllRegistered'
  BY <1>0, <1>1, <1>2 DEF CleanOne, spared, InPass, AllRegistered, WarShapes, ThisSummary
<1>9. SweepKnows'
  BY <1>0, <1>1, <1>2 DEF CleanOne, spared, InPass, SweepKnows, WarShapes, ThisSummary,
     SweptOnes
<1> QED
  BY <1>3, <1>4, <1>5, <1>6, <1>7, <1>8, <1>9 DEF WarInv

\* The registry is replaced by what was kept.
LEMMA EndCleanKept ==
  ASSUME WarInv, EndClean
  PROVE  WarInv'
<1>0. /\ WarShapes /\ PassKnows /\ DoneIsSaved /\ ShownUntilDone
      /\ DoneWasPosted /\ AllRegistered /\ SweepKnows
  BY DEF WarInv
<1>1. /\ \A s \in PostedOnes : /\ s[1] \in Wars /\ s[2] \in Wordings /\ s = <<s[1], s[2], 1>>
                               /\ sends[<<s[1], s[2]>>] = 1 /\ s[1] <= war
      /\ \A w \in Wars, t \in Wordings : <<w, t, 1>> \in PostedOnes <=> sends[<<w, t>>] = 1
      /\ Wars \subseteq Nat /\ war \in Nat
  BY <1>0, PostedPairs
<1>2. PostedOnes' = PostedOnes /\ Posted' = Posted /\ Reworded' = Reworded
  BY DEF PostedOnes, Posted, Reworded, EndClean, NoVisit, CacheOf, InPass
<1>3. WarShapes'
  <2>1. sweep' \in SweepShapes /\ cleaning' \in [left : SUBSET PostedOnes, keep : SUBSET PostedOnes]
    BY <1>0 DEF EndClean, NoVisit, WarShapes, SweepShapes
  <2>2. registry' \subseteq PostedOnes
    BY <1>0 DEF EndClean, WarShapes
  <2>3. cacheFile' \in [processed : SUBSET (1..war), registry : SUBSET PostedOnes]
    BY <1>0, <2>2 DEF EndClean, CacheOf, WarShapes
  <2> QED
    BY <1>0, <1>2, <2>1, <2>2, <2>3 DEF EndClean, InPass, WarShapes, PassPlaces, SweepShapes
<1>4. PassKnows'
  BY <1>0, <1>1, <1>2 DEF EndClean, NoVisit, CacheOf, InPass, PassKnows
<1>5. DoneIsSaved'
  BY <1>0, <1>1, <1>2 DEF EndClean, NoVisit, CacheOf, InPass, DoneIsSaved
<1>6. ShownUntilDone'
  BY <1>0, <1>1, <1>2 DEF EndClean, NoVisit, CacheOf, InPass, ShownUntilDone
<1>7. DoneWasPosted'
  BY <1>0, <1>1, <1>2 DEF EndClean, NoVisit, CacheOf, InPass, DoneWasPosted
<1>8. AllRegistered'
  BY <1>0, <1>1, <1>2 DEF EndClean, NoVisit, CacheOf, InPass, AllRegistered
<1>9. SweepKnows'
  <2>0. SweptOnes' = SweptOnes
    BY <1>0 DEF EndClean, SweptOnes, WarShapes, SweepShapes
  <2>1. CASE cleaning.keep = registry
    BY <1>0, <2>0, <2>1 DEF EndClean, InPass, SweepKnows
  <2>2. CASE cleaning.keep # registry
    <3>1. /\ ~sweep'.same /\ sweep'.on = sweep.on
          /\ sweep'.lost = sweep.lost /\ sweep'.left = sweep.left /\ sweep'.keep = sweep.keep
          /\ war \in processed /\ registry' = cleaning.keep /\ passAt = "clean" /\ passAt' = "idle"
          /\ UNCHANGED <<war, processed, summaries_shown>>
      BY <1>0, <2>2 DEF EndClean, InPass, WarShapes, SweepShapes, PassKnows
    <3>2. ASSUME sweep.on, ~sweep.lost
          PROVE  /\ \A s \in SweptOnes : s[1] \in processed
                 /\ summaries_shown \cap registry' \subseteq SweptOnes
      BY <1>0, <3>1, <3>2, SweepSeesAll DEF AllRegistered
    <3>3. ~sweep.lost => sweep.keep \cap sweep.left = {}
      BY <1>0 DEF SweepKnows
    <3> QED
      BY <2>0, <3>1, <3>2, <3>3 DEF SweepKnows
  <2> QED
    BY <2>1, <2>2
<1> QED
  BY <1>3, <1>4, <1>5, <1>6, <1>7, <1>8, <1>9 DEF WarInv

\* A sweep begins with the registry as it is.
LEMMA BeginSweepKept ==
  ASSUME WarInv, BeginSweep
  PROVE  WarInv'
<1>0. /\ WarShapes /\ PassKnows /\ DoneIsSaved /\ ShownUntilDone
      /\ DoneWasPosted /\ AllRegistered /\ SweepKnows
  BY DEF WarInv
<1>1. /\ \A s \in PostedOnes : /\ s[1] \in Wars /\ s[2] \in Wordings /\ s = <<s[1], s[2], 1>>
                               /\ sends[<<s[1], s[2]>>] = 1 /\ s[1] <= war
      /\ \A w \in Wars, t \in Wordings : <<w, t, 1>> \in PostedOnes <=> sends[<<w, t>>] = 1
      /\ Wars \subseteq Nat /\ war \in Nat
  BY <1>0, PostedPairs
<1>2. PostedOnes' = PostedOnes /\ Posted' = Posted /\ Reworded' = Reworded
  BY DEF PostedOnes, Posted, Reworded, BeginSweep, SweepOnly
<1>3. WarShapes'
  <2>1. Cardinality(registry) \in SweepSizes
    <3>1. registry \in SUBSET (Wars \X Wordings \X {1})
      BY <1>0 DEF WarShapes, PostedOnes
    <3> QED
      BY <3>1 DEF SweepSizes
  <2>2. sweep' \in SweepShapes
    BY <1>0, <2>1 DEF BeginSweep, WarShapes, SweepShapes
  <2> QED
    BY <1>0, <1>2, <2>2 DEF BeginSweep, SweepOnly, WarShapes, PassPlaces, SweepShapes
<1>4. PassKnows'
  BY <1>0, <1>1, <1>2 DEF BeginSweep, SweepOnly, PassKnows, WarShapes, ThisSummary
<1>5. DoneIsSaved'
  BY <1>0, <1>1, <1>2 DEF BeginSweep, SweepOnly, DoneIsSaved
<1>6. ShownUntilDone'
  BY <1>0, <1>1, <1>2 DEF BeginSweep, SweepOnly, ShownUntilDone
<1>7. DoneWasPosted'
  BY <1>0, <1>1, <1>2 DEF BeginSweep, SweepOnly, DoneWasPosted
<1>8. AllRegistered'
  BY <1>0, <1>1, <1>2 DEF BeginSweep, SweepOnly, AllRegistered
<1>9. SweepKnows'
  <2>1. /\ sweep'.on /\ sweep'.same /\ sweep'.dict = registry' /\ sweep'.left = registry'
        /\ sweep'.keep = {}
    BY DEF BeginSweep
  <2> QED
    BY <2>1 DEF SweepKnows, SweptOnes
<1> QED
  BY <1>3, <1>4, <1>5, <1>6, <1>7, <1>8, <1>9 DEF WarInv

\* The sweep removes an old summary, or keeps one.
LEMMA SweepOneKept ==
  ASSUME WarInv, SweepOne
  PROVE  WarInv'
<1>0. /\ WarShapes /\ PassKnows /\ DoneIsSaved /\ ShownUntilDone
      /\ DoneWasPosted /\ AllRegistered /\ SweepKnows
  BY DEF WarInv
<1>1. /\ \A s \in PostedOnes : /\ s[1] \in Wars /\ s[2] \in Wordings /\ s = <<s[1], s[2], 1>>
                               /\ sends[<<s[1], s[2]>>] = 1 /\ s[1] <= war
      /\ \A w \in Wars, t \in Wordings : <<w, t, 1>> \in PostedOnes <=> sends[<<w, t>>] = 1
      /\ Wars \subseteq Nat /\ war \in Nat
  BY <1>0, PostedPairs
<1>2. PostedOnes' = PostedOnes /\ Posted' = Posted /\ Reworded' = Reworded
  BY DEF PostedOnes, Posted, Reworded, SweepOne, SweepOnly
<1>2a. PICK s \in sweep.left :
         \/ /\ summaries_shown' = summaries_shown
            /\ sweep' = [sweep EXCEPT !.left = @ \ {s}, !.keep = @ \cup {s}]
         \/ /\ s \in old_summaries /\ summaries_shown' = summaries_shown \ {s}
            /\ sweep' = [sweep EXCEPT !.left = @ \ {s}]
  BY DEF SweepOne, expired
<1>2b. /\ sweep' \in SweepShapes
       /\ sweep'.on = sweep.on /\ sweep'.dict = sweep.dict /\ sweep'.lost = sweep.lost
       /\ sweep'.size = sweep.size /\ sweep'.same = sweep.same
       /\ sweep'.left \subseteq sweep.left /\ sweep'.keep \subseteq sweep.keep \cup {s} /\ s \notin sweep'.left
       /\ \/ summaries_shown' = summaries_shown /\ SweptOnes' = SweptOnes
          \/ /\ s \in old_summaries /\ summaries_shown' = summaries_shown \ {s}
             /\ SweptOnes \ {s} \subseteq SweptOnes' /\ SweptOnes' \subseteq SweptOnes
  <2>1. sweep \in SweepShapes /\ s \in PostedOnes
    BY <1>0, <1>2a DEF WarShapes, SweepShapes
  <2>2. /\ sweep' \in SweepShapes
        /\ sweep'.on = sweep.on /\ sweep'.dict = sweep.dict /\ sweep'.lost = sweep.lost
        /\ sweep'.size = sweep.size /\ sweep'.same = sweep.same
        /\ sweep'.left = sweep.left \ {s} /\ sweep'.keep \subseteq sweep.keep \cup {s}
        /\ sweep.keep \subseteq sweep'.keep
        /\ \/ summaries_shown' = summaries_shown /\ s \in sweep'.keep
           \/ s \in old_summaries /\ summaries_shown' = summaries_shown \ {s}
    BY ZenonT(60), <1>2a, <2>1 DEF SweepShapes
  <2> QED
    BY <2>2, <1>2a DEF SweptOnes
<1>3. WarShapes'
  <2>1. summaries_shown' \subseteq PostedOnes /\ SweepShapes' = SweepShapes
    BY <1>0, <1>2, <1>2b DEF WarShapes, SweepShapes
  <2>2. UNCHANGED <<war, warOver, sends, refused, processed, passAt, wording, passSummary, cleaning,
                    old_summaries, registry, cacheFile>>
    BY DEF SweepOne, SweepOnly
  <2>3. /\ cacheFile \in [processed : SUBSET (1..war), registry : SUBSET PostedOnes]
        /\ cleaning \in [left : SUBSET PostedOnes, keep : SUBSET PostedOnes]
        /\ old_summaries \subseteq PostedOnes /\ registry \subseteq PostedOnes
    BY <1>0 DEF WarShapes
  <2>4. /\ cacheFile' \in [processed : SUBSET (1..war'), registry : SUBSET PostedOnes']
        /\ cleaning' \in [left : SUBSET PostedOnes', keep : SUBSET PostedOnes']
        /\ old_summaries' \subseteq PostedOnes' /\ registry' \subseteq PostedOnes'
        /\ summaries_shown' \subseteq PostedOnes' /\ sweep' \in SweepShapes'
    BY ONLY <1>2, <1>2b, <2>1, <2>2, <2>3
  <2>5. /\ war' \in Wars /\ warOver' \in BOOLEAN /\ passAt' \in PassPlaces
        /\ sends' \in [Wars \X Wordings -> {0, 1}] /\ wording' \in Wordings
        /\ \A w \in Wars, t \in Wordings : sends'[<<w, t>>] = 1 => w <= war'
        /\ processed' \subseteq 1..war' /\ refused' \subseteq Wars
    <3>1. /\ war \in Wars /\ warOver \in BOOLEAN /\ passAt \in PassPlaces
          /\ sends \in [Wars \X Wordings -> {0, 1}] /\ wording \in Wordings
          /\ \A w \in Wars, t \in Wordings : sends[<<w, t>>] = 1 => w <= war
          /\ processed \subseteq 1..war /\ refused \subseteq Wars
      BY <1>0 DEF WarShapes
    <3> QED
      BY ONLY <2>2, <3>1
  <2> QED
    BY <2>4, <2>5 DEF WarShapes, PassPlaces
<1>4. PassKnows'
  <2>1. UNCHANGED <<war, passAt, processed, registry, refused, sends, wording, passSummary, cleaning,
                    old_summaries>>
    BY DEF SweepOne, SweepOnly
  <2>2. passAt # "idle" /\ ThisSummary \in summaries_shown => ThisSummary \in summaries_shown'
    <3>1. passAt # "idle" /\ s \in old_summaries => s # ThisSummary
      BY <1>0 DEF PassKnows, ThisSummary
    <3> QED
      BY <1>2b, <3>1
  <2>3. ThisSummary' = ThisSummary
    BY <2>1 DEF ThisSummary
  <2> QED
    BY <1>0, <2>1, <2>2, <2>3 DEF PassKnows
<1>5. DoneIsSaved'
  BY <1>0, <1>1, <1>2 DEF SweepOne, expired, SweepOnly, DoneIsSaved
<1>6. ShownUntilDone'
  BY <1>0, <1>1, <1>2 DEF SweepOne, expired, SweepOnly, ShownUntilDone, WarShapes, ThisSummary,
     NoSummary, PassKnows, DoneIsSaved
<1>7. DoneWasPosted'
  BY <1>0, <1>1, <1>2 DEF SweepOne, expired, SweepOnly, DoneWasPosted
<1>8. AllRegistered'
  BY <1>0, <1>1, <1>2 DEF SweepOne, expired, SweepOnly, AllRegistered
<1>9. SweepKnows'
  <2>1. s \in sweep.left /\ UNCHANGED <<war, passAt, processed, registry>>
    BY <1>2a DEF SweepOne, SweepOnly
  <2>2. ~sweep.lost => sweep'.keep \cap sweep'.left = {}
    BY <1>0, <1>2b DEF SweepKnows
  <2> QED
    BY <1>0, <1>2b, <2>1, <2>2 DEF SweepKnows
<1> QED
  BY <1>3, <1>4, <1>5, <1>6, <1>7, <1>8, <1>9 DEF WarInv

\* The sweep replaces the registry, unless it changed meanwhile.
LEMMA EndSweepKept ==
  ASSUME WarInv, EndSweep
  PROVE  WarInv'
<1>0. /\ WarShapes /\ PassKnows /\ DoneIsSaved /\ ShownUntilDone
      /\ DoneWasPosted /\ AllRegistered /\ SweepKnows
  BY DEF WarInv
<1>1. /\ \A s \in PostedOnes : /\ s[1] \in Wars /\ s[2] \in Wordings /\ s = <<s[1], s[2], 1>>
                               /\ sends[<<s[1], s[2]>>] = 1 /\ s[1] <= war
      /\ \A w \in Wars, t \in Wordings : <<w, t, 1>> \in PostedOnes <=> sends[<<w, t>>] = 1
      /\ Wars \subseteq Nat /\ war \in Nat
  BY <1>0, PostedPairs
<1>2. PostedOnes' = PostedOnes /\ Posted' = Posted /\ Reworded' = Reworded
  BY DEF PostedOnes, Posted, Reworded, EndSweep, SweepOnly
<1>2a. \/ UNCHANGED <<registry, cacheFile>>
       \/ /\ registry' = sweep.keep
          /\ cacheFile' = [processed |-> processed, registry |-> registry']
          /\ registry' \subseteq PostedOnes /\ \A s \in registry' : s[1] \in processed
          /\ summaries_shown \cap registry \subseteq registry'
          /\ passAt # "idle" => registry' \subseteq registry
  <2> SUFFICES ASSUME ~UNCHANGED <<registry, cacheFile>>
               PROVE  /\ registry' = sweep.keep
                      /\ cacheFile' = [processed |-> processed, registry |-> registry']
                      /\ registry' \subseteq PostedOnes /\ \A s \in registry' : s[1] \in processed
                      /\ summaries_shown \cap registry \subseteq registry'
                      /\ passAt # "idle" => registry' \subseteq registry
    OBVIOUS
  <2>1. /\ sweep.on /\ ~sweep_fails /\ (sweep_fails \/ sweep.left = {}) /\ registry' = sweep.keep
        /\ cacheFile' = [processed |-> processed, registry |-> registry']
    BY DEF EndSweep, CacheOf
  <2>2. sweep.on /\ ~sweep.lost /\ SweptOnes = sweep.keep
    BY <2>1 DEF sweep_fails, SweptOnes
  <2>3. /\ SweptOnes \subseteq PostedOnes /\ \A s \in SweptOnes : s[1] \in processed
        /\ summaries_shown \cap registry \subseteq SweptOnes
        /\ passAt # "idle" => SweptOnes \subseteq registry
    BY <2>2, SweepSeesAll
  <2> QED
    BY ONLY <2>1, <2>2, <2>3
<1>3. WarShapes'
  <2>1. UNCHANGED <<war, warOver, sends, refused, processed, passAt, wording, cleaning, old_summaries,
                    summaries_shown>>
    BY DEF EndSweep, SweepOnly
  <2>2. registry' \subseteq PostedOnes
    BY <1>0, <1>2a DEF WarShapes
  <2>3. cacheFile' \in [processed : SUBSET (1..war), registry : SUBSET PostedOnes]
    <3>1. /\ cacheFile \in [processed : SUBSET (1..war), registry : SUBSET PostedOnes]
          /\ processed \in SUBSET (1..war)
      BY <1>0 DEF WarShapes
    <3> QED
      BY ONLY <1>2a, <2>2, <3>1
  <2>4. sweep' \in SweepShapes
    BY DEF EndSweep, NoSweep, SweepShapes, SweepSizes
  <2>5. SweepShapes' = SweepShapes
    BY <1>2 DEF SweepShapes
  <2> QED
    BY <1>0, <1>2, <2>1, <2>2, <2>3, <2>4, <2>5 DEF WarShapes, PassPlaces
<1>4. PassKnows'
  BY <1>0, <1>2a DEF EndSweep, SweepOnly, PassKnows, ThisSummary
<1>5. DoneIsSaved'
  <2>1. UNCHANGED <<war, passAt, processed, cleaning, old_summaries>>
    BY DEF EndSweep, SweepOnly
  <2>2. CASE UNCHANGED <<registry, cacheFile>>
    BY <1>0, <2>1, <2>2 DEF DoneIsSaved
  <2>3. CASE ~UNCHANGED <<registry, cacheFile>>
    <3>1. cacheFile'.processed = processed /\ cacheFile'.registry = registry'
      BY <1>2a, <2>3
    <3> QED
      BY <1>0, <1>2a, <2>1, <2>3, <3>1 DEF DoneIsSaved
  <2> QED
    BY <2>2, <2>3
<1>6. ShownUntilDone'
  <2>1. UNCHANGED <<war, passAt, processed, sends, summaries_shown>>
    BY DEF EndSweep, SweepOnly
  <2>2. \A w \in Wars : w \notin cacheFile'.processed => w \notin processed \/ w \notin cacheFile.processed
    BY <1>2a
  <2> QED
    BY <1>0, <2>1, <2>2 DEF ShownUntilDone
<1>7. DoneWasPosted'
  BY <1>0, <1>1, <1>2 DEF EndSweep, NoSweep, CacheOf, SweepOnly, DoneWasPosted
<1>8. AllRegistered'
  <2>1. UNCHANGED <<war, passAt, processed, refused, cleaning, summaries_shown>>
    BY DEF EndSweep, SweepOnly
  <2>2. CASE UNCHANGED <<registry, cacheFile>>
    BY <1>0, <1>2, <2>1, <2>2 DEF AllRegistered
  <2>3. CASE ~UNCHANGED <<registry, cacheFile>>
    <3>1. /\ cacheFile'.processed = processed /\ cacheFile'.registry = registry'
          /\ summaries_shown \cap registry \subseteq registry'
      BY <1>2a, <2>3
    <3> QED
      BY <1>0, <1>2, <2>1, <3>1 DEF AllRegistered
  <2> QED
    BY <2>2, <2>3
<1>9. SweepKnows'
  BY <1>0, <1>1, <1>2 DEF EndSweep, NoSweep, CacheOf, SweepOnly, SweepKnows,
     SweptOnes
<1> QED
  BY <1>3, <1>4, <1>5, <1>6, <1>7, <1>8, <1>9 DEF WarInv

\* A restart finds what the file holds.
LEMMA RestartWarsKept ==
  ASSUME WarInv, RestartWars
  PROVE  WarInv'
<1>0. /\ WarShapes /\ PassKnows /\ DoneIsSaved /\ ShownUntilDone
      /\ DoneWasPosted /\ AllRegistered /\ SweepKnows
  BY DEF WarInv
<1>1. /\ \A s \in PostedOnes : /\ s[1] \in Wars /\ s[2] \in Wordings /\ s = <<s[1], s[2], 1>>
                               /\ sends[<<s[1], s[2]>>] = 1 /\ s[1] <= war
      /\ \A w \in Wars, t \in Wordings : <<w, t, 1>> \in PostedOnes <=> sends[<<w, t>>] = 1
      /\ Wars \subseteq Nat /\ war \in Nat
  BY <1>0, PostedPairs
<1>2. PostedOnes' = PostedOnes /\ Posted' = Posted /\ Reworded' = Reworded
  <2>1. sends' = sends
    BY DEF RestartWars
  <2>2. PostedOnes' = PostedOnes
    BY <2>1 DEF PostedOnes
  <2>3. Posted' = Posted
    BY <2>1 DEF Posted
  <2>4. Reworded' = Reworded
    BY <2>1 DEF Reworded
  <2> QED
    BY <2>2, <2>3, <2>4
<1>3. WarShapes'
  <2>1. UNCHANGED <<war, warOver, sends, refused, wording, cacheFile, old_summaries, summaries_shown>>
    BY DEF RestartWars, InPass
  <2>2. passAt' \in PassPlaces /\ processed' \subseteq 1..war /\ registry' \subseteq PostedOnes
    BY <1>0 DEF RestartWars, WarShapes, PassPlaces
  <2>3. /\ cleaning' \in [left : SUBSET PostedOnes, keep : SUBSET PostedOnes]
        /\ sweep' \in SweepShapes
    BY DEF RestartWars, NoVisit, NoSweep, SweepShapes, SweepSizes
  <2>4. SweepShapes' = SweepShapes
    BY <1>2 DEF SweepShapes
  <2> QED
    BY <1>0, <1>2, <2>1, <2>2, <2>3, <2>4 DEF WarShapes, PassPlaces
<1>4. PassKnows'
  BY <1>0, <1>1, <1>2 DEF RestartWars, NoVisit, NoSweep, InPass, PassKnows
<1>5. DoneIsSaved'
  BY <1>0, <1>1, <1>2 DEF RestartWars, NoVisit, NoSweep, InPass, DoneIsSaved
<1>6. ShownUntilDone'
  BY <1>0, <1>1, <1>2 DEF RestartWars, NoVisit, NoSweep, InPass, ShownUntilDone
<1>7. DoneWasPosted'
  BY <1>0, <1>1, <1>2 DEF RestartWars, NoVisit, NoSweep, InPass, DoneWasPosted
<1>8. AllRegistered'
  BY <1>0, <1>1, <1>2 DEF RestartWars, NoVisit, NoSweep, InPass, AllRegistered
<1>9. SweepKnows'
  BY <1>0, <1>1, <1>2 DEF RestartWars, NoVisit, NoSweep, InPass, SweepKnows,
     SweptOnes
<1> QED
  BY <1>3, <1>4, <1>5, <1>6, <1>7, <1>8, <1>9 DEF WarInv

\* At the start nothing was posted.
LEMMA WarStarts == WarInit => WarInv
<1> SUFFICES ASSUME WarInit PROVE WarInv
  OBVIOUS
<1>1. 1 \in Wars
  BY WarSummaryAssumption DEF Wars
<1>2. /\ sends \in [Wars \X Wordings -> {0, 1}] /\ wording \in Wordings
      /\ \A w \in Wars, t \in Wordings : sends[<<w, t>>] = 0
  BY WarSummaryAssumption DEF WarInit, Wordings
<1>3. WarShapes
  <2>1. sweep \in SweepShapes /\ cleaning \in [left : SUBSET PostedOnes, keep : SUBSET PostedOnes]
    BY DEF WarInit, SweepShapes, SweepSizes, NoVisit, NoSweep
  <2>2. cacheFile \in [processed : SUBSET (1..war), registry : SUBSET PostedOnes]
    BY DEF WarInit, CacheOf
  <2>3. warOver \in BOOLEAN /\ passAt \in PassPlaces
    BY DEF WarInit, PassPlaces
  <2> QED
    BY <1>1, <1>2, <2>1, <2>2, <2>3 DEF WarInit, WarShapes
<1>4. PassKnows /\ DoneIsSaved /\ DoneWasPosted
  BY DEF WarInit, PassKnows, DoneIsSaved, DoneWasPosted, CacheOf
<1>5. ShownUntilDone /\ AllRegistered /\ SweepKnows
  BY <1>2 DEF WarInit, ShownUntilDone, AllRegistered, SweepKnows, NoSweep
<1> QED
  BY <1>3, <1>4, <1>5 DEF WarInv

\* Every step keeps it.
LEMMA WarKept == WarInv /\ [WarNext]_warVars => WarInv'
<1>1. ASSUME WarInv, WarNext PROVE WarInv'
  BY <1>1, WarGoesOnKept, TimePassesKept, BeginSummaryKept, LookForSummaryKept, SendSummaryKept,
     MarkProcessedKept, SaveSummaryKept, SaveSummaryFailsKept, CleanOneKept, EndCleanKept,
     BeginSweepKept, SweepOneKept, EndSweepKept, RestartWarsKept DEF WarNext
<1>2. ASSUME WarInv, UNCHANGED warVars PROVE WarInv'
  <2>1. WarShapes'
    <3>1. UNCHANGED <<war, warOver, passAt, sends, wording, summaries_shown, old_summaries, registry,
                      processed, refused, cacheFile, cleaning, sweep>>
      BY <1>2 DEF warVars
    <3>2. PostedOnes' = PostedOnes
      BY <3>1 DEF PostedOnes
    <3>3. SweepShapes' = SweepShapes
      BY <3>2 DEF SweepShapes
    <3> QED
      BY <1>2, <3>1, <3>2, <3>3 DEF WarInv, WarShapes
  <2>2. PassKnows' /\ DoneIsSaved' /\ ShownUntilDone' /\ DoneWasPosted' /\ AllRegistered'
    BY <1>2 DEF warVars, WarInv, PassKnows, DoneIsSaved, ShownUntilDone, DoneWasPosted,
       AllRegistered, Posted, Reworded, ThisSummary
  <2>3. SweepKnows'
    BY <1>2 DEF warVars, WarInv, SweepKnows, SweptOnes, ThisSummary
  <2> QED
    BY <2>1, <2>2, <2>3 DEF WarInv
<1> QED
  BY <1>1, <1>2

\* Only the sweep and the pass remove a summary: the one an old one, the other an older one
\* than its own.
LEMMA NewestStays ==
  ASSUME WarInv, WarNext
  PROVE  NewestSummaryStays
<1>0. WarShapes /\ PassKnows
  BY DEF WarInv
<1>1. SUFFICES ASSUME NEW s \in summaries_shown, s \notin summaries_shown'
               PROVE  s \in old_summaries \/ \E newer \in summaries_shown : newer[1] > s[1]
  BY DEF NewestSummaryStays
<1>2. CleanOne \/ SweepOne
  BY <1>1 DEF WarNext, WarGoesOn, TimePasses, BeginSummary, LookForSummary, SendSummary, Post,
     NewSummary, MarkProcessed, SaveSummary, SaveSummaryFails, EndClean, BeginSweep, EndSweep, RestartWars
<1>3. CASE SweepOne
  BY <1>1, <1>3 DEF SweepOne, expired
<1>4. CASE CleanOne
  <2>1. /\ passSummary = ThisSummary /\ ThisSummary \in summaries_shown /\ s # passSummary
        /\ s[1] = war => s = passSummary
    <3>1. s \in cleaning.left /\ s \notin spared /\ passAt = "clean"
      BY <1>1, <1>4 DEF CleanOne
    <3>2. passSummary = ThisSummary /\ ThisSummary \in summaries_shown
      BY <1>0, <3>1 DEF PassKnows
    <3>3. s[1] = war => s = passSummary
      BY <1>0, <3>1 DEF PassKnows
    <3>4. s # passSummary
      BY <3>1 DEF spared
    <3> QED
      BY ONLY <3>2, <3>3, <3>4
  <2>2. s[1] \in Wars /\ s[1] <= war /\ war \in Nat /\ Wars \subseteq Nat
    BY <1>0, PostedPairs DEF WarShapes
  <2>3. s[1] < war
    <3>1. s[1] # war
      BY <2>1
    <3>2. \A a, b \in Nat : a <= b /\ a # b => a < b
      BY ONLY TRUE
    <3>3. s[1] \in Nat
      BY <2>2
    <3> QED
      BY ONLY <2>2, <3>1, <3>2, <3>3
  <2>4. ThisSummary[1] = war
    BY DEF ThisSummary
  <2>5. ThisSummary[1] > s[1] /\ ThisSummary \in summaries_shown
    BY <2>1, <2>2, <2>3, <2>4
  <2> QED
    BY <2>5
<1> QED
  BY <1>2, <1>3, <1>4

\* Each war has its one summary in a wording until that is old or replaced, for every number of
\* wars, wordings and faults: nothing is posted twice in the same words, what counts as done was
\* posted or forbidden, what is shown stays registered unless the war was posted in other words
\* too, and the newest summary stays, however the pass, the sweep beside it, failed calls and
\* restarts meet.
THEOREM SummaryKept == WarSpec => OneSummaryPerWar
<1>1. WarInv => SummaryPostedOnce /\ DoneWasPosted /\ ShownIsRegistered
  <2> SUFFICES ASSUME WarInv PROVE SummaryPostedOnce /\ DoneWasPosted /\ ShownIsRegistered
    OBVIOUS
  <2>1. SummaryPostedOnce
    BY DEF WarInv, WarShapes, SummaryPostedOnce
  <2>2. ShownIsRegistered
    BY DEF WarInv, AllRegistered, ShownIsRegistered
  <2> QED
    BY <2>1, <2>2 DEF WarInv
<1>2. WarInv' => (SummaryPostedOnce /\ DoneWasPosted /\ ShownIsRegistered)'
  BY <1>1, PTL
<1>3. WarInv /\ [WarNext]_warVars =>
        [(SummaryPostedOnce /\ DoneWasPosted /\ ShownIsRegistered)' /\ NewestSummaryStays]_warVars
  BY <1>2, WarKept, NewestStays
<1> QED
  BY <1>3, WarStarts, WarKept, PTL DEF WarSpec, OneSummaryPerWar

-----------------------------------------------------------------------------
(* RoleClaims: why whoever has the role has it, step by step of whoever moves. *)

PassStages == {"rest", "give", "giving", "take", "asked", "taking", "save"}
TaskStages == {"rest", "signed", "giving", "left", "asked", "taking"}
SomeClaims == [lineup : SUBSET Players, managed : SUBSET Players]
Passings   == [at : PassStages, left : SUBSET Players, managed : SUBSET Players,
               member : Players \cup {NoPlayer}, before : SUBSET Players]
Operations == [at : TaskStages, left : SUBSET Players, member : Players \cup {NoPlayer}]

\* The shape of the state.
RoleShapes ==
  /\ holders \in SUBSET Players /\ signed \in SUBSET (Rosters \X Players)
  /\ adrift \in SUBSET Players
  /\ lineup \in SUBSET Players /\ managed \in SUBSET Players
  /\ cached \in SomeClaims /\ saved \in SomeClaims
  /\ pass \in Passings /\ task \in [Rosters -> Operations]

\* A pass first gives to the lineup, then takes from others, and manages whom it found managed
\* or gives to.
PassInv ==
  /\ pass.at \in {"giving", "asked", "taking"} <=> pass.member \in Players
  /\ pass.at \in {"rest", "save"} => pass.managed = {}
  /\ pass.at \in {"give", "giving"} => pass.left \subseteq lineup
  /\ pass.at = "giving" => pass.member \in lineup
  /\ pass.at \in {"take", "asked", "taking"} => pass.left \cap lineup = {}
  /\ pass.at \in {"asked", "taking"} => pass.member \notin lineup
  /\ pass.managed \subseteq managed \cup lineup

\* An operation on a roster that follows a sign-up has nobody else in hand.
TaskInv ==
  \A r \in Rosters :
    /\ task[r].at \in {"signed", "giving", "asked", "taking"} <=> task[r].member \in Players
    /\ task[r].at \in {"rest", "signed", "giving"} => task[r].left = {}

\* Whoever has the role is signed up, claimed by the war, or in the hands of a roster.
InQuestion(t) == IF t.at \in {"left", "asked", "taking"} THEN t.left \cup {t.member} ELSE {}
Owned(m) == ~Ownerless(m) \/ \E r \in Rosters : m \in InQuestion(task[r])
OwnedInv == \A m \in holders \ adrift : Owned(m)

RoleInv == RoleShapes /\ PassInv /\ TaskInv /\ OwnedInv

\* Nobody has the role, and nothing goes on.
LEMMA InitRoles == RolesInit => RoleInv
<1> SUFFICES ASSUME RolesInit PROVE RoleInv
  OBVIOUS
<1> USE DEF RolesInit, NoPass, NoOperation, Claims, NoPlayer
<1>1. RoleShapes
  BY DEF RoleShapes, SomeClaims, Passings, PassStages, Operations, TaskStages
<1>2. PassInv
  BY RolesAssumption DEF PassInv
<1>3. TaskInv
  BY RolesAssumption DEF TaskInv
<1>4. OwnedInv
  BY DEF OwnedInv
<1> QED
  BY <1>1, <1>2, <1>3, <1>4 DEF RoleInv

PassSteps == GiveNext \/ WarGives \/ AllGiven \/ AskRosters \/ LookAtMember \/ WarTakes
RosterSteps ==
  \E r \in Rosters :
    \/ \E m \in Players : SignUp(r, m)
    \/ \E players \in SUBSET Players : LeaveRoster(r, players)
    \/ GiveSignedUp(r) \/ RosterGives(r) \/ AskOtherRosters(r) \/ AskWar(r) \/ RosterTakes(r)
    \/ RosterBreaksOff(r)

\* What becomes of a pass and of an operation has its shape.
LEMMA PassRecords ==
  ASSUME RoleShapes, NEW m \in Players
  PROVE  /\ Released(m) \in Passings /\ Kept(m) \in Passings
         /\ [pass EXCEPT !.left = @ \ {m}] \in Passings
         /\ [pass EXCEPT !.left = @ \ {m}, !.member = m, !.at = "giving"] \in Passings
         /\ [pass EXCEPT !.at = "asked", !.member = m] \in Passings
BY DEF RoleShapes, Passings, PassStages, Released, Kept

LEMMA TaskRecords ==
  ASSUME RoleShapes, NEW r \in Rosters
  PROVE  /\ NoOperation \in Operations /\ NextLeaver(r) \in Operations
         /\ \A m \in Players : Done(r, m) \in Operations
         /\ task[r] \in Operations
         /\ \A at \in TaskStages : [task[r] EXCEPT !.at = at] \in Operations
<1>1. task[r] \in Operations
  BY DEF RoleShapes
<1>2. NoOperation \in Operations
  BY DEF NoOperation, Operations, TaskStages
<1>3. NextLeaver(r) \in Operations
  BY <1>1, <1>2 DEF NextLeaver, Operations, TaskStages
<1>4. \A m \in Players : Done(r, m) \in Operations
  BY <1>1, <1>2 DEF Done, Operations, TaskStages, NoPlayer
<1>5. \A at \in TaskStages : [task[r] EXCEPT !.at = at] \in Operations
  BY <1>1 DEF Operations
<1> QED
  BY <1>1, <1>2, <1>3, <1>4, <1>5

\* The shape is kept.  A step of a pass ...
LEMMA PassKeepsShapes ==
  ASSUME RoleInv, PassSteps
  PROVE  RoleShapes'
<1> SUFFICES pass' \in Passings /\ holders' \in SUBSET Players /\ adrift' \in SUBSET Players
             /\ UNCHANGED <<lineup, managed, cached, saved, signed, task>>
  BY DEF RoleInv, RoleShapes, SomeClaims, Passings, Operations
<1> USE DEF RoleInv, Passes, PassGives, TaskVars, NothingDone
<1>1. CASE GiveNext
  BY <1>1, PassRecords DEF GiveNext, RoleShapes, Passings
<1>2. CASE WarGives
  <2>1. pass.member \in Players
    BY <1>2 DEF WarGives, PassInv
  <2> QED
    BY <1>2, <2>1 DEF WarGives, Gives, RoleShapes, Passings, PassStages
<1>3. CASE AllGiven
  BY <1>3 DEF AllGiven, RoleShapes, Passings, PassStages
<1>4. CASE AskRosters
  <2>1. PICK m \in pass.left :
           \/ pass' = (IF role_has_signup(m) THEN Released(m) ELSE [pass EXCEPT !.at = "asked", !.member = m])
           \/ pass' = Kept(m)
    BY <1>4 DEF AskRosters
  <2>2. m \in Players
    BY DEF RoleShapes, Passings
  <2>3. pass' \in Passings
    BY <2>1, <2>2, PassRecords
  <2> QED
    BY <1>4, <2>3 DEF AskRosters, RoleShapes
<1>5. CASE LookAtMember
  <2>1. pass.member \in Players
    BY <1>5 DEF LookAtMember, PassInv
  <2>2. [pass EXCEPT !.at = "taking"] \in Passings
    BY DEF RoleShapes, Passings, PassStages
  <2>3. Released(pass.member) \in Passings /\ Kept(pass.member) \in Passings
    BY <2>1, PassRecords
  <2> QED
    BY <1>5, <2>2, <2>3 DEF LookAtMember, RoleShapes
<1>6. CASE WarTakes
  <2>1. pass.member \in Players
    BY <1>6 DEF WarTakes, PassInv
  <2>2. pass' \in Passings
    BY <1>6, <2>1, PassRecords DEF WarTakes
  <2> QED
    BY <1>6, <2>1, <2>2 DEF WarTakes, Takes, RoleShapes
<1> QED
  BY <1>1, <1>2, <1>3, <1>4, <1>5, <1>6 DEF PassSteps

\* ... its beginning, its end and the saves ...
LEMMA ClaimsKeepShapes ==
  ASSUME RoleInv,
         \/ \E players \in SUBSET Players : BeginPass(players)
         \/ EndPass \/ SaveClaims \/ SaveCache \/ PassBreaksOff
  PROVE  RoleShapes'
<1> USE DEF RoleInv, RoleShapes, SomeClaims, Passings, PassStages, Passes, TaskVars, NoPass, NoPlayer
<1>1. ASSUME NEW players \in SUBSET Players, BeginPass(players)
      PROVE  RoleShapes'
  BY <1>1 DEF BeginPass
<1>2. CASE EndPass
  BY <1>2 DEF EndPass
<1>3. CASE SaveClaims
  BY <1>3 DEF SaveClaims
<1>4. CASE SaveCache
  BY <1>4 DEF SaveCache
<1>5. CASE PassBreaksOff
  <2>1. pass.at = "giving" => pass.member \in Players
    BY DEF PassInv
  <2>2. holders' \in SUBSET Players /\ adrift' \in SUBSET Players
    BY <1>5, <2>1 DEF PassBreaksOff, Gives, Takes, NothingDone
  <2> QED
    BY <1>5, <2>2 DEF PassBreaksOff, PassGives
<1> QED
  BY <1>1, <1>2, <1>3, <1>4, <1>5

\* ... a new cycle ...
LEMMA CycleKeepsShapes ==
  ASSUME RoleInv, NEW r \in Rosters, StartCycle(r)
  PROVE  RoleShapes'
BY DEF StartCycle, PassVars, RoleInv, RoleShapes, SomeClaims, Passings, Operations

\* ... a step of a roster ...
LEMMA RostersKeepShapes ==
  ASSUME RoleInv, RosterSteps
  PROVE  RoleShapes'
<1> PICK r \in Rosters :
           \/ \E m \in Players : SignUp(r, m)
           \/ \E players \in SUBSET Players : LeaveRoster(r, players)
           \/ GiveSignedUp(r) \/ RosterGives(r) \/ AskOtherRosters(r) \/ AskWar(r) \/ RosterTakes(r)
           \/ RosterBreaksOff(r)
  BY DEF RosterSteps
<1> SUFFICES /\ \E becomes \in Operations : task' = [task EXCEPT ![r] = becomes]
             /\ holders' \in SUBSET Players /\ adrift' \in SUBSET Players
             /\ signed' \in SUBSET (Rosters \X Players)
             /\ UNCHANGED <<lineup, managed, cached, saved, pass>>
  BY DEF RoleInv, RoleShapes, SomeClaims, Passings, Operations
<1> USE TaskRecords DEF RoleInv, Operates, RosterWorks, PassVars, NothingDone, LeavesRole, GivesSignedUp
<1>1. ASSUME NEW m \in Players, SignUp(r, m)
      PROVE  [at |-> "signed", left |-> {}, member |-> m] \in Operations
  BY DEF Operations, TaskStages
<1>2. ASSUME NEW players \in SUBSET Players, LeaveRoster(r, players)
      PROVE  [at |-> "left", left |-> players, member |-> NoPlayer] \in Operations
  BY DEF Operations, TaskStages
<1>3. CASE \E m \in Players : SignUp(r, m)
  <2>1. PICK m \in Players : SignUp(r, m)
    BY <1>3
  <2>2. signed' \in SUBSET (Rosters \X Players) /\ adrift' \in SUBSET Players
    BY <2>1 DEF SignUp, RoleShapes
  <2> QED
    BY <1>1, <2>1, <2>2 DEF SignUp, RoleShapes
<1>4. CASE \E players \in SUBSET Players : LeaveRoster(r, players)
  <2>1. PICK players \in SUBSET Players : LeaveRoster(r, players)
    BY <1>4
  <2>2. signed' \in SUBSET (Rosters \X Players) /\ adrift' \in SUBSET Players
    BY <2>1 DEF LeaveRoster, RoleShapes
  <2> QED
    BY <1>2, <2>1, <2>2 DEF LeaveRoster, RoleShapes
<1>5. CASE GiveSignedUp(r)
  BY <1>5 DEF GiveSignedUp, RoleShapes, TaskStages
<1>6. CASE RosterGives(r)
  <2>1. task[r].member \in Players
    BY <1>6 DEF RosterGives, TaskInv
  <2> QED
    BY <1>6, <2>1 DEF RosterGives, RoleShapes
<1>7. CASE AskOtherRosters(r)
  <2>1. ASSUME NEW m \in task[r].left
        PROVE  /\ m \in Players
               /\ [at |-> "asked", left |-> task[r].left \ {m}, member |-> m] \in Operations
    <3>1. task[r] \in Operations
      OBVIOUS
    <3>2. task[r].left \in SUBSET Players
      BY <3>1 DEF Operations
    <3> QED
      BY <3>2 DEF Operations, TaskStages
  <2>2. \E becomes \in Operations : task' = [task EXCEPT ![r] = becomes]
    BY <1>7, <2>1 DEF AskOtherRosters
  <2> QED
    BY <1>7, <2>2 DEF AskOtherRosters, RoleShapes
<1>8. CASE AskWar(r)
  BY <1>8 DEF AskWar, RoleShapes, TaskStages
<1>9. CASE RosterTakes(r)
  BY <1>9 DEF RosterTakes, Takes, RoleShapes
<1>10. CASE RosterBreaksOff(r)
  <2>1. task[r].at = "giving" => task[r].member \in Players
    BY DEF TaskInv
  <2>2. holders' \in SUBSET Players /\ adrift' \in SUBSET Players
    BY <1>10, <2>1 DEF RosterBreaksOff, RoleShapes
  <2> QED
    BY <1>10, <2>2 DEF RosterBreaksOff, RoleShapes
<1> QED
  BY <1>3, <1>4, <1>5, <1>6, <1>7, <1>8, <1>9, <1>10

\* ... and a restart.
LEMMA RestartKeepsShapes ==
  ASSUME RoleInv, RestartRoles
  PROVE  RoleShapes'
<1> DEFINE given == (IF pass.at = "giving" THEN {pass.member} ELSE {}) \cup
                    {task[r].member : r \in {x \in Rosters : task[x].at = "giving"}}
           taken == (IF pass.at = "taking" THEN {pass.member} ELSE {}) \cup
                    {task[r].member : r \in {x \in Rosters : task[x].at = "taking"}}
<1>1. given \subseteq Players
  BY DEF RoleInv, PassInv, TaskInv
<1>2. PICK g \in SUBSET given, t \in SUBSET taken : holders' = (holders \cup g) \ t
  BY DEF RestartRoles
<1>3. holders' \subseteq Players
  BY <1>1, <1>2 DEF RoleInv, RoleShapes
<1> QED
  BY <1>3 DEF RestartRoles, RoleInv, RoleShapes, SomeClaims, Passings, PassStages, Operations, TaskStages,
              NoPass, NoOperation, NoPlayer

-----------------------------------------------------------------------------
\* What a step of a pass does to the claims: those it releases are signed up or lose the role.
LEMMA PassReleases ==
  ASSUME RoleInv, PassSteps
  PROVE  /\ PassInv'
         /\ \A m \in Claimed : m \in Claimed' \/ role_has_signup(m) \/ m \notin holders'
         /\ \A m \in holders' \ adrift' : m \in holders \ adrift \/ m \in lineup'
<1> SUFFICES /\ pass.at \in {"give", "giving", "take", "asked", "taking"}
             /\ pass'.at \in {"give", "giving", "take", "asked", "taking"}
             /\ UNCHANGED <<lineup, managed, cached, saved>>
             /\ pass'.at \in {"giving", "asked", "taking"} <=> pass'.member \in Players
             /\ pass'.at \in {"give", "giving"} => pass'.left \subseteq lineup
             /\ pass'.at = "giving" => pass'.member \in lineup
             /\ pass'.at \in {"take", "asked", "taking"} => pass'.left \cap lineup = {}
             /\ pass'.at \in {"asked", "taking"} => pass'.member \notin lineup
             /\ pass'.managed \subseteq pass.managed
             /\ \A m \in pass.managed : m \in pass'.managed \/ role_has_signup(m) \/ m \notin holders'
             /\ \A m \in holders' \ adrift' : m \in holders \ adrift \/ m \in lineup
  BY DEF RoleInv, PassInv, Claimed
<1>a. /\ pass \in Passings /\ PassInv /\ lineup \in SUBSET Players
      /\ pass.left \in SUBSET Players /\ NoPlayer \notin Players
  BY RolesAssumption DEF RoleInv, RoleShapes, Passings, NoPlayer
<1> USE <1>a DEF Passes, PassGives, PassInv, Claimed, NothingDone
<1>1. CASE GiveNext
  <2>1. PICK m \in pass.left :
           pass' = IF m \in holders THEN [pass EXCEPT !.left = @ \ {m}]
                   ELSE [pass EXCEPT !.left = @ \ {m}, !.member = m, !.at = "giving"]
    BY <1>1 DEF GiveNext
  <2>2. pass.at = "give" /\ UNCHANGED <<lineup, managed, cached, saved, holders, adrift>>
    BY <1>1 DEF GiveNext
  <2>3. CASE m \in holders
    BY <2>1, <2>2, <2>3 DEF Passings
  <2>4. CASE m \notin holders
    BY <2>1, <2>2, <2>4 DEF Passings
  <2> QED
    BY <2>3, <2>4
<1>2. CASE WarGives
  BY <1>2 DEF WarGives, Gives, Passings
<1>3. CASE AllGiven
  BY <1>3 DEF AllGiven, Passings
<1>4. CASE AskRosters
  <2>1. PICK m \in pass.left :
           \/ role_has_signup(m) /\ pass' = Released(m)
           \/ pass' = [pass EXCEPT !.at = "asked", !.member = m]
           \/ pass' = Kept(m)
    BY <1>4 DEF AskRosters
  <2>2. pass.at = "take" /\ UNCHANGED <<lineup, managed, cached, saved, holders, adrift>>
    BY <1>4 DEF AskRosters
  <2>3. CASE role_has_signup(m) /\ pass' = Released(m)
    BY <2>2, <2>3 DEF Released, Passings
  <2>4. CASE pass' = [pass EXCEPT !.at = "asked", !.member = m]
    BY <2>2, <2>4 DEF Passings
  <2>5. CASE pass' = Kept(m)
    BY <2>2, <2>5 DEF Kept, Passings
  <2> QED
    BY <2>1, <2>3, <2>4, <2>5
<1>5. CASE LookAtMember
  <2>1. pass.at = "asked" /\ UNCHANGED <<lineup, managed, cached, saved, holders, adrift>>
    BY <1>5 DEF LookAtMember
  <2>2. \/ pass' = [pass EXCEPT !.at = "taking"]
        \/ pass' = Released(pass.member) /\ pass.member \notin holders
        \/ pass' = Kept(pass.member)
    BY <1>5 DEF LookAtMember
  <2>3. CASE pass' = [pass EXCEPT !.at = "taking"]
    BY <2>1, <2>3 DEF Passings
  <2>4. CASE pass' = Released(pass.member) /\ pass.member \notin holders
    BY <2>1, <2>4 DEF Released, Passings
  <2>5. CASE pass' = Kept(pass.member)
    BY <2>1, <2>5 DEF Kept, Passings
  <2> QED
    BY <2>2, <2>3, <2>4, <2>5
<1>6. CASE WarTakes
  <2>1. CASE pass' = Released(pass.member) /\ Takes(pass.member)
    BY <1>6, <2>1 DEF WarTakes, Takes, Released, Passings
  <2>2. CASE pass' = Kept(pass.member) /\ UNCHANGED <<holders, adrift>>
    BY <1>6, <2>2 DEF WarTakes, Kept, Passings
  <2> QED
    BY <1>6, <2>1, <2>2 DEF WarTakes
<1> QED
  BY <1>1, <1>2, <1>3, <1>4, <1>5, <1>6 DEF PassSteps

\* A step of a pass keeps the invariant.
LEMMA PassKeepsInv ==
  ASSUME RoleInv, PassSteps
  PROVE  RoleInv'
<1>1. UNCHANGED <<signed, task>>
  BY DEF PassSteps, GiveNext, WarGives, AllGiven, AskRosters, LookAtMember, WarTakes, PassGives, TaskVars
<1>a. UNCHANGED lineup
  BY DEF PassSteps, GiveNext, WarGives, AllGiven, AskRosters, LookAtMember, WarTakes, PassGives
<1>2. TaskInv'
  BY <1>1 DEF RoleInv, TaskInv
<1>3. OwnedInv'
  <2>1. \A m : role_has_signup(m)' = role_has_signup(m)
    BY <1>1 DEF role_has_signup
  <2>2. \A m \in holders' : Owned(m) => Owned(m)'
    BY <1>1, <1>a, <2>1, PassReleases DEF Owned, Ownerless
  <2>3. \A m \in lineup' : Owned(m)'
    BY DEF Owned, Ownerless
  <2> QED
    BY <2>2, <2>3, PassReleases DEF RoleInv, OwnedInv
<1> QED
  BY <1>2, <1>3, PassKeepsShapes, PassReleases DEF RoleInv

\* A pass begins with more claims, and its end takes over those that are left; what a pass that
\* breaks off gave is in the lineup.
LEMMA ClaimsKeepInv ==
  ASSUME RoleInv,
         \/ \E players \in SUBSET Players : BeginPass(players)
         \/ EndPass \/ SaveClaims \/ SaveCache \/ PassBreaksOff
  PROVE  RoleInv'
<1>a. pass \in Passings /\ PassInv /\ NoPlayer \notin Players
  BY RolesAssumption DEF RoleInv, RoleShapes, NoPlayer
<1>b. UNCHANGED <<signed, task>>
  BY DEF BeginPass, EndPass, SaveClaims, SaveCache, PassBreaksOff, PassGives, TaskVars
<1>c. TaskInv'
  BY <1>b DEF RoleInv, TaskInv
<1> SUFFICES /\ PassInv'
             /\ \A m \in lineup \cup Claimed :
                  m \in lineup' \cup Claimed' \/ m \in adrift' \/ role_has_signup(m)
             /\ \A m \in holders' \ adrift' : m \in holders \ adrift \/ m \in lineup'
  <2>1. \A m : role_has_signup(m)' = role_has_signup(m)
    BY <1>b DEF role_has_signup
  <2>2. ASSUME NEW m \in holders' \ adrift'
        PROVE  Owned(m)'
    <3>1. CASE m \in lineup'
      BY <3>1 DEF Owned, Ownerless
    <3>2. CASE m \notin lineup'
      <4>1. Owned(m)
        BY <2>2, <3>2 DEF RoleInv, OwnedInv
      <4> QED
        BY <1>b, <2>1, <2>2, <4>1 DEF Owned, Ownerless
    <3> QED
      BY <3>1, <3>2
  <2> QED
    BY <2>2, <1>c, ClaimsKeepShapes DEF RoleInv, OwnedInv
<1> USE <1>a DEF Passes, PassInv, Claimed, NoPass
<1>1. ASSUME NEW players \in SUBSET Players, BeginPass(players)
      PROVE  /\ PassInv'
             /\ \A m \in lineup \cup Claimed :
                  m \in lineup' \cup Claimed' \/ m \in adrift' \/ role_has_signup(m)
             /\ \A m \in holders' \ adrift' : m \in holders \ adrift \/ m \in lineup'
  BY <1>1 DEF BeginPass
<1>2. CASE EndPass
  <2>1. /\ pass.at = "take" /\ managed' = pass.managed
        /\ UNCHANGED <<lineup, adrift, holders>>
    BY <1>2 DEF EndPass
  <2>2. pass' = NoPass \/ pass' = [NoPass EXCEPT !.at = "save"]
    BY <1>2 DEF EndPass
  <2>3. pass'.at \in {"rest", "save"} /\ pass'.member = NoPlayer /\ pass'.managed = {}
    BY <2>2
  <2> QED
    BY <2>1, <2>3
<1>3. CASE SaveClaims
  BY <1>3 DEF SaveClaims
<1>4. CASE SaveCache
  BY <1>4 DEF SaveCache
<1>5. CASE PassBreaksOff
  BY <1>5 DEF PassBreaksOff, PassGives, Gives, Takes, NothingDone
<1> QED
  BY <1>1, <1>2, <1>3, <1>4, <1>5

-----------------------------------------------------------------------------
\* An operation on a roster leaves every other roster's as it was.
LEMMA TaskInvKept ==
  ASSUME RoleShapes, TaskInv, NEW r \in Rosters, NEW becomes \in Operations,
         task' = [task EXCEPT ![r] = becomes],
         becomes.at \in {"signed", "giving", "asked", "taking"} <=> becomes.member \in Players,
         becomes.at \in {"rest", "signed", "giving"} => becomes.left = {}
  PROVE  TaskInv'
<1> SUFFICES ASSUME NEW o \in Rosters
             PROVE  /\ task'[o].at \in {"signed", "giving", "asked", "taking"} <=> task'[o].member \in Players
                    /\ task'[o].at \in {"rest", "signed", "giving"} => task'[o].left = {}
  BY DEF TaskInv
<1>1. CASE o = r
  <2>1. task'[o] = becomes
    BY <1>1 DEF RoleShapes
  <2> QED
    BY <1>1, <2>1
<1>2. CASE o # r
  <2>1. task'[o] = task[o]
    BY <1>2 DEF RoleShapes
  <2> QED
    BY <1>2, <2>1 DEF TaskInv
<1> QED
  BY <1>1, <1>2

\* Who was in its hands passes to another owner.
LEMMA HandedOn ==
  ASSUME RoleShapes, NEW r \in Rosters, NEW becomes,
         task' = [task EXCEPT ![r] = becomes], UNCHANGED PassVars,
         NEW m \in Players, Owned(m),
         role_has_signup(m) => role_has_signup(m)' \/ m \in InQuestion(becomes),
         m \in InQuestion(task[r]) => role_has_signup(m)' \/ m \in lineup \cup Claimed \/ m \in InQuestion(becomes)
  PROVE  Owned(m)'
<1>1. Claimed' = Claimed /\ lineup' = lineup
  BY DEF PassVars, Claimed
<1>2. task'[r] = becomes /\ \A o \in Rosters \ {r} : task'[o] = task[o]
  BY DEF RoleShapes
<1>3. role_has_signup(m)' \/ m \in lineup \cup Claimed => Owned(m)'
  BY <1>1 DEF Owned, Ownerless
<1>4. m \in InQuestion(becomes) => Owned(m)'
  BY <1>2 DEF Owned
<1>5. ASSUME NEW o \in Rosters \ {r}, m \in InQuestion(task[o])
      PROVE  Owned(m)'
  BY <1>2, <1>5 DEF Owned
<1>6. role_has_signup(m) \/ m \in lineup \cup Claimed \/ \E o \in Rosters : m \in InQuestion(task[o])
  BY DEF Owned, Ownerless
<1> QED
  BY <1>3, <1>4, <1>5, <1>6

\* A member signs up and gets the role.
LEMMA SignUpKeepsInv ==
  ASSUME RoleInv, NEW r \in Rosters,
         \/ \E m \in Players : SignUp(r, m)
         \/ GiveSignedUp(r) \/ RosterGives(r) \/ (RosterBreaksOff(r) /\ task[r].at = "giving")
  PROVE  TaskInv' /\ OwnedInv'
<1>a. RoleShapes /\ TaskInv /\ OwnedInv /\ task[r] \in Operations /\ NoPlayer \notin Players
  BY RolesAssumption, TaskRecords DEF RoleInv, NoPlayer
<1>b. NoOperation \in Operations /\ \A at \in TaskStages : [task[r] EXCEPT !.at = at] \in Operations
  BY <1>a, TaskRecords
<1>c. holders' \subseteq Players
  BY RostersKeepShapes DEF RosterSteps, RoleShapes
<1> USE <1>a, <1>b, <1>c DEF Operates, RosterWorks
<1>1. ASSUME NEW m \in Players, SignUp(r, m)
      PROVE  TaskInv' /\ OwnedInv'
  <2> DEFINE becomes == [at |-> "signed", left |-> {}, member |-> m]
  <2>1. /\ task[r].at = "rest" /\ task' = [task EXCEPT ![r] = becomes] /\ signed' = signed \cup {<<r, m>>}
        /\ holders' = holders /\ adrift' = adrift \ {m} /\ UNCHANGED PassVars
    BY <1>1 DEF SignUp
  <2>2. becomes \in Operations
    BY DEF Operations, TaskStages
  <2>3. TaskInv'
    BY <2>1, <2>2, TaskInvKept
  <2>4. role_has_signup(m)'
    BY <2>1 DEF role_has_signup
  <2>5. ASSUME NEW p \in holders' \ adrift', p # m
        PROVE  Owned(p)'
    <3>1. Owned(p)
      BY <2>1, <2>5 DEF OwnedInv
    <3>2. role_has_signup(p) => role_has_signup(p)'
      BY <2>1 DEF role_has_signup
    <3>3. InQuestion(task[r]) = {}
      BY <2>1 DEF InQuestion
    <3> QED
      BY <2>1, <3>1, <3>2, <3>3, HandedOn
  <2> QED
    BY <2>3, <2>4, <2>5 DEF OwnedInv, Owned, Ownerless
<1>2. ASSUME GiveSignedUp(r) \/ RosterGives(r) \/ (RosterBreaksOff(r) /\ task[r].at = "giving")
      PROVE  TaskInv' /\ OwnedInv'
  <2>1. PICK becomes \in {NoOperation, [task[r] EXCEPT !.at = "giving"]} : task' = [task EXCEPT ![r] = becomes]
    BY <1>2 DEF GiveSignedUp, RosterGives, RosterBreaksOff
  <2>2. PICK m \in Players : m = task[r].member
    BY <1>2 DEF GiveSignedUp, RosterGives, TaskInv
  <2>3. /\ task[r].at \in {"signed", "giving"} /\ signed' = signed /\ UNCHANGED PassVars
        /\ \A p \in holders' \ adrift' : p \in holders \ adrift \/ ~Ownerless(p)
    BY <1>2, <2>2 DEF GiveSignedUp, RosterGives, RosterBreaksOff, GivesSignedUp, NothingDone
  <2>4. task[r].left = {} /\ InQuestion(task[r]) = {}
    BY <2>3 DEF TaskInv, InQuestion
  <2>5. becomes = NoOperation \/ (becomes.at = "giving" /\ becomes.left = {} /\ becomes.member = m)
    <3>1. LET giving == [task[r] EXCEPT !.at = "giving"]
          IN  giving.at = "giving" /\ giving.left = task[r].left /\ giving.member = task[r].member
      BY DEF Operations
    <3> QED
      BY <2>1, <2>2, <2>4, <3>1
  <2>6. becomes \in Operations
    BY <2>1 DEF TaskStages
  <2>7. /\ becomes.at \in {"signed", "giving", "asked", "taking"} <=> becomes.member \in Players
        /\ becomes.left = {}
    BY <2>3, <2>4, <2>5 DEF NoOperation
  <2>8. TaskInv'
    BY <2>1, <2>3, <2>6, <2>7, TaskInvKept
  <2>9. \A p : role_has_signup(p)' = role_has_signup(p) /\ Ownerless(p)' = Ownerless(p)
    BY <2>3 DEF role_has_signup, Ownerless, PassVars, Claimed
  <2>10. ASSUME NEW p \in holders' \ adrift'
         PROVE  Owned(p)'
    <3>1. CASE ~Ownerless(p)
      BY <2>9, <3>1 DEF Owned
    <3>2. CASE p \in holders \ adrift
      <4>1. Owned(p)
        BY <3>2 DEF OwnedInv
      <4> QED
        BY <2>1, <2>3, <2>4, <2>9, <4>1, HandedOn
    <3> QED
      BY <2>3, <3>1, <3>2
  <2> QED
    BY <2>8, <2>10 DEF OwnedInv
<1> QED
  BY <1>1, <1>2

\* Members leave, and the others are asked about each.
LEMMA LeavingKeepsInv ==
  ASSUME RoleInv, NEW r \in Rosters,
         (\E players \in SUBSET Players : LeaveRoster(r, players)) \/ AskOtherRosters(r)
  PROVE  TaskInv' /\ OwnedInv'
<1>a. RoleShapes /\ TaskInv /\ OwnedInv /\ task[r] \in Operations /\ NoPlayer \notin Players
  BY RolesAssumption, TaskRecords DEF RoleInv, NoPlayer
<1>b. holders' \subseteq Players /\ task' \in [Rosters -> Operations]
  BY RostersKeepShapes DEF RosterSteps, RoleShapes
<1> USE <1>a, <1>b DEF Operates, RosterWorks, NothingDone
<1>1. ASSUME NEW players \in SUBSET Players, LeaveRoster(r, players)
      PROVE  TaskInv' /\ OwnedInv'
  <2> DEFINE becomes == [at |-> "left", left |-> players, member |-> NoPlayer]
  <2>1. /\ task[r].at = "rest" /\ task' = [task EXCEPT ![r] = becomes] /\ signed' = signed \ ({r} \X players)
        /\ UNCHANGED <<holders, adrift>> /\ UNCHANGED PassVars
    BY <1>1 DEF LeaveRoster
  <2>2. becomes \in Operations
    BY DEF Operations, TaskStages
  <2>3. \A o \in Rosters \ {r}, m \in Players : <<o, m>> \in signed => <<o, m>> \in signed'
    BY <2>1
  <2>4. TaskInv'
    BY <2>1, <2>2, <2>3, TaskInvKept
  <2>5. ASSUME NEW p \in holders' \ adrift'
        PROVE  Owned(p)'
    <3>1. Owned(p)
      BY <2>1 DEF OwnedInv
    <3>2. role_has_signup(p) => role_has_signup(p)' \/ p \in InQuestion(becomes)
      BY <2>1 DEF role_has_signup, InQuestion
    <3>4. p \notin InQuestion(task[r])
      BY <2>1 DEF InQuestion
    <3> HIDE DEF becomes
    <3> QED
      BY <2>1, <3>1, <3>2, <3>4, HandedOn
  <2> QED
    BY <2>4, <2>5 DEF OwnedInv
<1>2. ASSUME AskOtherRosters(r)
      PROVE  TaskInv' /\ OwnedInv'
  <2>1. /\ task[r].at = "left" /\ signed' = signed /\ holders' = holders /\ UNCHANGED PassVars
        /\ task[r].member \notin Players
    BY <1>2 DEF AskOtherRosters, TaskInv
  <2>2. PICK becomes :
           /\ task' = [task EXCEPT ![r] = becomes]
           /\ becomes.at \in {"rest", "left", "asked"}
           /\ becomes.at = "asked" <=> becomes.member \in Players
           /\ becomes.at = "rest" => becomes.left = {}
           /\ \A p \in holders' \ adrift' :
                /\ p \in holders \ adrift
                /\ p \in task[r].left => p \in InQuestion(becomes) \/ ~Ownerless(p)
    <3>1. CASE \E m \in task[r].left :
                  /\ task' = [task EXCEPT ![r] = IF m \notin holders \/ role_still_needed(r, m) THEN Done(r, m)
                                ELSE [at |-> "asked", left |-> task[r].left \ {m}, member |-> m]]
                  /\ adrift' = adrift
      <4>1. PICK m \in task[r].left :
                  /\ task' = [task EXCEPT ![r] = IF m \notin holders \/ role_still_needed(r, m) THEN Done(r, m)
                                ELSE [at |-> "asked", left |-> task[r].left \ {m}, member |-> m]]
                  /\ adrift' = adrift
        BY <3>1
      <4>2. m \in Players
        BY <2>1 DEF Operations
      <4>3. CASE m \notin holders \/ role_still_needed(r, m)
        <5>1. role_still_needed(r, m) => role_has_signup(m)
          BY DEF role_still_needed, role_has_signup
        <5>2. /\ Done(r, m).left = task[r].left \ {m} /\ Done(r, m).member = NoPlayer
              /\ Done(r, m).at \in {"rest", "left"}
              /\ Done(r, m).at = "rest" => Done(r, m).left = {}
          BY DEF Done, NoOperation
        <5>3. task' = [task EXCEPT ![r] = Done(r, m)]
          BY <4>1, <4>3
        <5>4. \A p \in holders' \ adrift' :
                /\ p \in holders \ adrift
                /\ p \in task[r].left => p \in InQuestion(Done(r, m)) \/ ~Ownerless(p)
          BY <2>1, <4>1, <4>3, <5>1, <5>2 DEF InQuestion, Ownerless
        <5> QED
          BY <5>2, <5>3, <5>4
      <4>4. CASE ~(m \notin holders \/ role_still_needed(r, m))
        <5> DEFINE asked == [at |-> "asked", left |-> task[r].left \ {m}, member |-> m]
        <5>1. task' = [task EXCEPT ![r] = asked]
          BY <4>1, <4>4
        <5>2. \A p \in holders' \ adrift' :
                /\ p \in holders \ adrift
                /\ p \in task[r].left => p \in InQuestion(asked) \/ ~Ownerless(p)
          BY <2>1, <4>1 DEF InQuestion
        <5>3. asked.at = "asked" /\ asked.member \in Players
          BY <4>2
        <5> HIDE DEF asked
        <5> QED
          BY <5>1, <5>2, <5>3
      <4> QED
        BY <4>3, <4>4
    <3>2. CASE task' = [task EXCEPT ![r] = NoOperation] /\ LeavesRole(task[r].left)
      BY <2>1, <3>2 DEF NoOperation, LeavesRole
    <3> QED
      BY <1>2, <3>1, <3>2 DEF AskOtherRosters
  <2>3. becomes \in Operations
    <3>1. task'[r] = becomes
      BY <2>2
    <3> QED
      BY <3>1
  <2>4. TaskInv'
    BY <2>1, <2>2, <2>3, TaskInvKept
  <2>5. ASSUME NEW p \in holders' \ adrift'
        PROVE  Owned(p)'
    <3>1. Owned(p)
      BY <2>2 DEF OwnedInv
    <3>2. role_has_signup(p) => role_has_signup(p)'
      BY <2>1 DEF role_has_signup
    <3>3. p \in InQuestion(task[r]) => p \in task[r].left
      BY <2>1 DEF InQuestion
    <3>4. ~Ownerless(p) => role_has_signup(p)' \/ p \in lineup \cup Claimed
      BY <3>2 DEF Ownerless
    <3> QED
      BY <2>1, <2>2, <3>1, <3>2, <3>3, <3>4, HandedOn
  <2> QED
    BY <2>4, <2>5 DEF OwnedInv
<1> QED
  BY <1>1, <1>2

\* A member who is needed by no other roster loses the role, unless in the lineup.
LEMMA TakingKeepsInv ==
  ASSUME RoleInv, NEW r \in Rosters,
         AskWar(r) \/ RosterTakes(r) \/ (RosterBreaksOff(r) /\ task[r].at = "taking")
  PROVE  TaskInv' /\ OwnedInv'
<1>a. RoleShapes /\ TaskInv /\ OwnedInv /\ PassInv /\ task[r] \in Operations /\ NoPlayer \notin Players
  BY RolesAssumption, TaskRecords DEF RoleInv, NoPlayer
<1>b. holders' \subseteq Players /\ task' \in [Rosters -> Operations]
  BY RostersKeepShapes DEF RosterSteps, RoleShapes
<1> USE <1>a, <1>b DEF Operates, RosterWorks, NothingDone
<1>1. PICK m \in Players : m = task[r].member
  BY DEF AskWar, RosterTakes, RosterBreaksOff, TaskInv
<1>2. task[r].at \in {"asked", "taking"} /\ signed' = signed /\ UNCHANGED PassVars
  BY DEF AskWar, RosterTakes, RosterBreaksOff
<1>3. /\ NextLeaver(r).at \in {"rest", "left"} /\ NextLeaver(r).member = NoPlayer
      /\ NextLeaver(r).left = task[r].left
      /\ NextLeaver(r).at = "rest" => NextLeaver(r).left = {}
  BY DEF NextLeaver, NoOperation, Operations
<1>4. LET taking == [task[r] EXCEPT !.at = "taking"]
      IN  taking.at = "taking" /\ taking.left = task[r].left /\ taking.member = task[r].member
  BY DEF Operations
<1>5. PICK becomes :
        /\ task' = [task EXCEPT ![r] = becomes]
        /\ becomes.at \in {"rest", "left", "taking"}
        /\ becomes.at = "taking" <=> becomes.member \in Players
        /\ becomes.at = "rest" => becomes.left = {}
        /\ \A p \in holders' \ adrift' :
             /\ p \in holders \ adrift
             /\ p \in task[r].left \cup {m} => p \in InQuestion(becomes) \/ ~Ownerless(p)
  <2>1. CASE AskWar(r) /\ war_lineup_needs_role(m)
    <3>1. ~Ownerless(m)
      BY <2>1 DEF war_lineup_needs_role, Ownerless
    <3>2. task' = [task EXCEPT ![r] = NextLeaver(r)] /\ UNCHANGED <<holders, adrift>>
      BY <2>1, <1>1 DEF AskWar
    <3>3. task[r].left \subseteq InQuestion(NextLeaver(r))
      BY <1>3 DEF InQuestion
    <3> QED
      BY <1>3, <3>1, <3>2, <3>3
  <2>2. CASE AskWar(r) /\ ~war_lineup_needs_role(m)
    <3>1. task' = [task EXCEPT ![r] = [task[r] EXCEPT !.at = "taking"]] /\ UNCHANGED <<holders, adrift>>
      BY <2>2, <1>1 DEF AskWar
    <3>2. InQuestion([task[r] EXCEPT !.at = "taking"]) = task[r].left \cup {m}
      BY <1>1, <1>4 DEF InQuestion
    <3> QED
      BY <1>1, <1>4, <3>1, <3>2
  <2>3. CASE RosterTakes(r)
    <3>1. task' = [task EXCEPT ![r] = NextLeaver(r)]
      BY <2>3 DEF RosterTakes
    <3>2. task[r].left \subseteq InQuestion(NextLeaver(r))
      BY <1>3 DEF InQuestion
    <3>3. \A p \in holders' \ adrift' : p \in holders \ adrift /\ (p = m => ~Ownerless(p))
      BY <2>3, <1>1 DEF RosterTakes, Takes, LeavesRole
    <3> QED
      BY <1>3, <3>1, <3>2, <3>3
  <2>4. CASE RosterBreaksOff(r) /\ task[r].at = "taking"
    <3>1. task' = [task EXCEPT ![r] = NoOperation]
      BY <2>4 DEF RosterBreaksOff
    <3>2. \A p \in holders' \ adrift' :
             p \in holders \ adrift /\ (p \in task[r].left \cup {m} => ~Ownerless(p))
      BY <2>4, <1>1 DEF RosterBreaksOff, LeavesRole
    <3>3. NoOperation.at = "rest" /\ NoOperation.left = {} /\ NoOperation.member = NoPlayer
      BY DEF NoOperation
    <3> QED
      BY <3>1, <3>2, <3>3
  <2> QED
    BY <2>1, <2>2, <2>3, <2>4
<1>6. becomes \in Operations
  <2>1. task'[r] = becomes
    BY <1>5
  <2> QED
    BY <2>1
<1>7. TaskInv'
  BY <1>2, <1>5, <1>6, TaskInvKept
<1>8. ASSUME NEW p \in holders' \ adrift'
      PROVE  Owned(p)'
  <2>1. Owned(p)
    BY <1>5 DEF OwnedInv
  <2>2. role_has_signup(p) => role_has_signup(p)'
    BY <1>2 DEF role_has_signup
  <2>3. p \in InQuestion(task[r]) => p \in task[r].left \cup {m}
    BY <1>1 DEF InQuestion
  <2>4. ~Ownerless(p) => role_has_signup(p)' \/ p \in lineup \cup Claimed
    BY <2>2 DEF Ownerless
  <2> QED
    BY <1>2, <1>5, <2>1, <2>2, <2>3, <2>4, HandedOn
<1> QED
  BY <1>7, <1>8 DEF OwnedInv

\* A new cycle sets those adrift whom it drops from their last roster.
LEMMA CycleKeepsInv ==
  ASSUME RoleInv, NEW r \in Rosters, StartCycle(r)
  PROVE  RoleInv'
<1>1. /\ UNCHANGED <<holders, task, lineup, managed, cached, saved, pass>>
      /\ \A m \in Players : \/ role_has_signup(m) => role_has_signup(m)'
                           \/ m \in lineup \cup Claimed \/ m \in adrift'
      /\ adrift \subseteq adrift'
  <2> DEFINE members == {m \in Players : <<r, m>> \in signed}
  <2>1. /\ signed' = signed \ ({r} \X members)
        /\ adrift' = adrift \cup {m \in members : ~role_still_needed(r, m) /\ m \notin lineup \cup Claimed}
        /\ UNCHANGED <<holders, task, lineup, managed, cached, saved, pass>>
    BY DEF StartCycle, PassVars
  <2>2. ASSUME NEW m \in Players, role_has_signup(m), ~role_has_signup(m)'
        PROVE  m \in lineup \cup Claimed \/ m \in adrift'
    <3>1. ~role_still_needed(r, m)
      BY <2>1, <2>2 DEF role_still_needed, role_has_signup
    <3>2. m \in members
      BY <2>2, <3>1 DEF role_still_needed, role_has_signup
    <3> QED
      BY <2>1, <3>1, <3>2
  <2> QED
    BY <2>1, <2>2
<1>2. PassInv' /\ TaskInv'
  BY <1>1 DEF RoleInv, PassInv, TaskInv
<1>3. ASSUME NEW m \in holders' \ adrift'
      PROVE  Owned(m)'
  <2>1. m \in Players /\ Owned(m) /\ Claimed' = Claimed
    BY <1>1 DEF RoleInv, RoleShapes, OwnedInv, Claimed
  <2> QED
    BY <1>1, <2>1 DEF Owned, Ownerless
<1> QED
  BY <1>2, <1>3, CycleKeepsShapes DEF RoleInv, OwnedInv

\* A step of a roster keeps the invariant: the pass of the war does not move.
LEMMA RostersKeepInv ==
  ASSUME RoleInv, RosterSteps
  PROVE  RoleInv'
<1>1. PICK r \in Rosters :
        \/ \E m \in Players : SignUp(r, m)
        \/ \E players \in SUBSET Players : LeaveRoster(r, players)
        \/ GiveSignedUp(r) \/ RosterGives(r) \/ AskOtherRosters(r) \/ AskWar(r) \/ RosterTakes(r)
        \/ RosterBreaksOff(r)
  BY DEF RosterSteps
<1>2. TaskInv' /\ OwnedInv'
  <2>1. RosterBreaksOff(r) => task[r].at \in {"giving", "taking"}
    BY DEF RosterBreaksOff, Operates
  <2> QED
    BY <1>1, <2>1, SignUpKeepsInv, LeavingKeepsInv, TakingKeepsInv
<1>3. UNCHANGED <<lineup, managed, cached, saved, pass>>
  BY <1>1 DEF SignUp, LeaveRoster, GiveSignedUp, RosterGives, AskOtherRosters, AskWar, RosterTakes,
              RosterBreaksOff, RosterWorks, PassVars
<1>4. PassInv'
  BY <1>3 DEF RoleInv, PassInv
<1> QED
  BY <1>2, <1>4, RostersKeepShapes DEF RoleInv

\* After a restart the file and the sign-ups answer for everyone who is not adrift.
LEMMA RestartKeepsInv ==
  ASSUME RoleInv, RestartRoles
  PROVE  RoleInv'
<1>1. /\ pass' = NoPass /\ task' = [r \in Rosters |-> NoOperation] /\ UNCHANGED <<signed, saved>>
      /\ lineup' = saved.lineup /\ managed' = saved.managed /\ cached' = saved
      /\ adrift' = {m \in holders' : ~role_has_signup(m) /\ m \notin saved.lineup \cup saved.managed}
  BY DEF RestartRoles
<1>2. NoPlayer \notin Players
  BY RolesAssumption DEF NoPlayer
<1>3. PassInv'
  BY <1>1, <1>2 DEF PassInv, NoPass
<1>4. TaskInv'
  BY <1>1, <1>2 DEF TaskInv, NoOperation
<1>5. Claimed' = saved.managed
  BY <1>1 DEF Claimed, NoPass
<1>6. OwnedInv'
  BY <1>1, <1>2, <1>5 DEF OwnedInv, Owned, Ownerless, role_has_signup
<1> QED
  BY <1>3, <1>4, <1>6, RestartKeepsShapes DEF RoleInv

-----------------------------------------------------------------------------
\* Every step keeps the invariant.
LEMMA RoleStepsKeepInv == RoleInv /\ [RolesNext]_roleVars => RoleInv'
<1> SUFFICES ASSUME RoleInv, [RolesNext]_roleVars
             PROVE  RoleInv'
  OBVIOUS
<1>1. CASE PassSteps
  BY <1>1, PassKeepsInv
<1>2. CASE (\E players \in SUBSET Players : BeginPass(players)) \/ EndPass \/ SaveClaims
           \/ SaveCache \/ PassBreaksOff
  BY <1>2, ClaimsKeepInv
<1>3. CASE RosterSteps
  BY <1>3, RostersKeepInv
<1>4. CASE RestartRoles
  BY <1>4, RestartKeepsInv
<1>5. CASE UNCHANGED roleVars
  BY <1>5 DEF roleVars, RoleInv, RoleShapes, PassInv, TaskInv, OwnedInv, Owned, Ownerless, Claimed, role_has_signup
<1>6. ASSUME NEW r \in Rosters, StartCycle(r)
      PROVE  RoleInv'
  BY <1>6, CycleKeepsInv
<1> QED
  BY <1>1, <1>2, <1>3, <1>4, <1>5, <1>6 DEF RolesNext, PassSteps, RosterSteps

\* The variables of the workflows keep their types, a pass and an operation name a member
\* exactly while they wait for an answer about one, and a pass manages nobody it did not find
\* managed or in its lineup.
THEOREM RolesTypeCorrect == RolesSpec => []RolesTypeOK
<1>1. RoleInv => RolesTypeOK
  BY DEF RoleInv, RoleShapes, SomeClaims, Passings, PassInv, TaskInv, RolesTypeOK
<1> QED
  BY <1>1, InitRoles, RoleStepsKeepInv, PTL DEF RolesSpec

\* Whoever has the war role is signed up on a roster that carries it, in the lineup or claimed by
\* the pass of the war, or in the hands of a roster that is asking about them: the two workflows
\* (wars/roles.py, rosters/services/roles.py) never leave a member to each other.  Who is not was
\* set adrift by one of them alone: a removal that failed, a new cycle begun by an opening or a
\* post, or the lineup of a pass that broke off.
THEOREM NobodyIsLeftWithTheRole == RolesSpec => []RoleHasAnOwner
<1>1. RoleInv => RoleHasAnOwner
  BY DEF RoleInv, OwnedInv, Owned, Ownerless, InQuestion, RoleHasAnOwner
<1> QED
  BY <1>1, InitRoles, RoleStepsKeepInv, PTL DEF RolesSpec

-----------------------------------------------------------------------------
(* Hibernation: what is still to be given back, and what has been told. *)

RolePlans  == [op : {"hibernate", "reactivate"}, stored : SUBSET (Roles \ Ranks), rest : BOOLEAN,
               remove : SUBSET Roles, add : SUBSET (Roles \ Ranks)]
Progresses == [remove : SUBSET Roles, add : SUBSET (Roles \ Ranks), done : SUBSET (Steps \cup {"none"})]
SavedEntries    == [case : Nat, stored : SUBSET (Roles \ Ranks), going : Progresses, coming : Progresses]

\* The state has its shape: a case is the newest, and progress that is there has begun.
CaseShapes ==
  /\ roles \subseteq Roles /\ doing \in Roles \cup Steps \cup {NoStep}
  /\ moves \in Seq(RolePlans)
  /\ cases \in Nat /\ leftover \in BOOLEAN
  /\ entry \in SavedEntries
  /\ \A p \in {entry.going, entry.coming} : p = NoProgress \/ "none" \notin p.done
  /\ entry = NoEntry \/ (entry.case = cases /\ cases > 0)
  /\ sent \in [Steps -> Nat] /\ lost \in [Steps -> Nat]
  /\ history \subseteq [case : 1..cases, kind : {"hibernated", "reactivated"}]

\* What a command did and has not saved is of the progress it works on.
UnderWay ==
  doing # NoStep =>
    /\ moves # <<>> /\ entry # NoEntry /\ progress # NoProgress
    /\ which = "going" => entry.coming = NoProgress
    /\ doing \in Roles => IF progress.remove # {} THEN doing \in progress.remove \ roles
                                                  ELSE doing \in progress.add \cap roles
    /\ doing \in Steps => /\ doing \notin progress.done
                          /\ doing \in ToSet(HibernateSteps) <=> which = "going"

\* The plans that bring back what a member held; what is left of another return does not.
WholePlans ==
  {p \in RolePlans :
     /\ p.op = "hibernate" => Restored \subseteq p.stored /\ "hibernating" \notin p.stored
     /\ p.op = "reactivate" /\ ~p.rest =>
          /\ Restored \subseteq p.add /\ Restored \cap p.remove = {}
          /\ "hibernating" \in p.remove \ p.add}

\* Neither the commands that wait nor the progress forget what the member held.
NothingForgotten ==
  ~leftover =>
    /\ moves \in Seq(WholePlans)
    /\ entry # NoEntry => Restored \subseteq entry.stored /\ "hibernating" \notin entry.stored
    /\ entry = NoEntry => Restored \subseteq roles /\ "hibernating" \notin roles
    /\ entry.coming # NoProgress =>
         /\ Restored \subseteq roles \cup entry.coming.add
         /\ Restored \cap entry.coming.remove = {}
         /\ "hibernating" \notin entry.coming.add
         /\ "hibernating" \in roles => "hibernating" \in entry.coming.remove

\* Who still holds a rank has not hibernated yet, and every hibernation will take it.
Taking(rank) == {p \in RolePlans : p.op = "hibernate" => rank \in p.remove}
RanksGo ==
  \A rank \in Ranks : rank \in roles =>
    /\ moves \in Seq(Taking(rank))
    /\ entry # NoEntry => entry.going # NoProgress /\ rank \in entry.going.remove
    /\ \A e \in history : e.kind # "hibernated"

\* A step that is checked off was done; one that is not was done only where that was lost.
CheckedOff(s) == IF s \in ToSet(HibernateSteps) THEN entry.going = NoProgress \/ s \in entry.going.done
                                                ELSE s \in entry.coming.done
StepsCounted ==
  /\ \A s \in Steps : sent[s] <= 1 + lost[s]
  /\ entry # NoEntry =>
       \A s \in Steps : /\ CheckedOff(s) \/ doing = s => sent[s] >= 1
                        /\ ~CheckedOff(s) /\ doing # s => sent[s] <= lost[s]
  /\ (cases > 0 /\ entry = NoEntry) => \A s \in ToSet(ReactivateSteps) : sent[s] >= 1

HibernationInv == CaseShapes /\ UnderWay /\ NothingForgotten /\ HistoryTellsState /\ RanksGo /\ StepsCounted


\* The roles and the steps, one by one.
LEMMA RoleSets ==
  /\ Restored = {"member", "badge", "co"} /\ Ranks = {"elder"}
  /\ Roles = {"member", "badge", "co", "elder", "hibernating", "sleeping"}
  /\ ToSet(HibernateSteps) = {"log", "notice"}
  /\ ToSet(ReactivateSteps) = {"achievement", "ticket", "welcome", "registered", "controls"}
  /\ Steps = {"log", "notice", "achievement", "ticket", "welcome", "registered", "controls"}
  /\ Roles \cap Steps = {} /\ NoStep \notin Roles \cup Steps
<1>1. ToSet(HibernateSteps) = {"log", "notice"}
  BY DEF HibernateSteps, ToSet
<1>2. ToSet(ReactivateSteps) = {"achievement", "ticket", "welcome", "registered", "controls"}
  BY DEF ReactivateSteps, ToSet
<1> QED
  BY <1>1, <1>2 DEF Restored, Ranks, Roles, Steps, NoStep

\* A command joins the queue, or leaves it.
LEMMA QueueGrows ==
  ASSUME NEW S, NEW q \in Seq(S), NEW p \in S
  PROVE  /\ Append(q, p) \in Seq(S) /\ Append(q, p) # <<>>
         /\ q # <<>> => Head(Append(q, p)) = Head(q)
<1>1. Append(q, p) \in Seq(S) /\ Len(Append(q, p)) = Len(q) + 1 /\ Len(q) \in Nat
  OBVIOUS
<1>4. Append(q, p) # <<>>
  BY <1>1
<1>2. q # <<>> => 1 \in 1..Len(q) /\ Append(q, p)[1] = q[1]
  OBVIOUS
<1>3. Head(Append(q, p)) = Append(q, p)[1] /\ (q # <<>> => Head(q) = q[1])
  BY <1>1, <1>4
<1> QED
  BY <1>1, <1>2, <1>3, <1>4

LEMMA QueueShrinks ==
  ASSUME NEW S, NEW q \in Seq(S), q # <<>>
  PROVE  Tail(q) \in Seq(S) /\ Head(q) \in S
OBVIOUS

\* The progress of the first command, and the next step of it.
LEMMA ProgressIs ==
  /\ Head(moves).op = "hibernate" => which = "going" /\ progress = entry.going
  /\ Head(moves).op # "hibernate" => which = "coming" /\ progress = entry.coming
BY DEF which, progress

LEMMA NextStepIs ==
  /\ steps = {} => IF which = "going" THEN ToSet(HibernateSteps) \subseteq progress.done
                                      ELSE ToSet(ReactivateSteps) \subseteq progress.done
  /\ steps # {} => /\ next_step \in Steps \ progress.done
                   /\ next_step \in ToSet(HibernateSteps) <=> which = "going"
<1>1. /\ steps \subseteq {1, 2, 3, 4, 5}
      /\ \A i \in steps : i \in DOMAIN places /\ places[i] \notin progress.done
      /\ \A i \in DOMAIN places : i \notin steps => places[i] \in progress.done
  <2>1. DOMAIN places \subseteq {1, 2, 3, 4, 5}
    BY DEF places, HibernateSteps, ReactivateSteps
  <2> QED
    BY <2>1 DEF steps
<1>2. steps # {} => \E i \in steps : \A j \in steps : i <= j
  <2>1. CASE 1 \in steps
    BY <1>1, <2>1
  <2>2. CASE 1 \notin steps /\ 2 \in steps
    BY <1>1, <2>2
  <2>3. CASE 1 \notin steps /\ 2 \notin steps /\ 3 \in steps
    BY <1>1, <2>3
  <2>4. CASE 1 \notin steps /\ 2 \notin steps /\ 3 \notin steps /\ 4 \in steps
    BY <1>1, <2>4
  <2>5. CASE steps \subseteq {5} /\ 5 \in steps
    BY <2>5
  <2>6. steps # {} => \E i \in {1, 2, 3, 4, 5} : i \in steps
    BY <1>1
  <2> QED
    BY <1>1, <2>1, <2>2, <2>3, <2>4, <2>5, <2>6
<1>3. steps # {} => \E i \in steps : next_step = places[i]
  BY <1>2 DEF next_step
<1>4. /\ which = "going" => places = HibernateSteps
      /\ which # "going" => places = ReactivateSteps
  BY DEF places
<1>5. /\ \A i \in DOMAIN HibernateSteps : HibernateSteps[i] \in ToSet(HibernateSteps)
      /\ \A i \in DOMAIN ReactivateSteps : ReactivateSteps[i] \in ToSet(ReactivateSteps)
      /\ \A s \in ToSet(HibernateSteps) : \E i \in DOMAIN HibernateSteps : s = HibernateSteps[i]
      /\ \A s \in ToSet(ReactivateSteps) : \E i \in DOMAIN ReactivateSteps : s = ReactivateSteps[i]
  BY DEF ToSet
<1>6. ToSet(HibernateSteps) \cap ToSet(ReactivateSteps) = {}
      /\ Steps = ToSet(HibernateSteps) \cup ToSet(ReactivateSteps)
  BY RoleSets DEF Steps
<1>7. CASE which = "going"
  BY <1>1, <1>3, <1>4, <1>5, <1>6, <1>7
<1>8. CASE which # "going"
  BY <1>1, <1>3, <1>4, <1>5, <1>6, <1>8
<1> QED
  BY <1>7, <1>8

\* A hibernation is planned, from the roles or from what is left of a case.
LEMMA PlanHibernationKeeps ==
  ASSUME HibernationInv, PlanHibernation
  PROVE  HibernationInv'
<1>0. CaseShapes /\ UnderWay /\ NothingForgotten /\ HistoryTellsState /\ RanksGo /\ StepsCounted
  BY DEF HibernationInv
<1>1. /\ moves' = Append(moves, hibernation_plan) /\ ~hibernating_done
      /\ UNCHANGED <<roles, entry, history, doing, sent, lost, cases, leftover, breaks>>
  BY DEF PlanHibernation, Plan
<1>2. hibernation_plan \in RolePlans /\ hibernation_plan.op = "hibernate"
  BY <1>0, RoleSets DEF hibernation_plan, RolePlans, CaseShapes, SavedEntries, Progresses
<1>3. ~leftover => hibernation_plan \in WholePlans
  BY <1>0, <1>2, RoleSets DEF hibernation_plan, WholePlans, NothingForgotten
<1>4. \A rank \in Ranks : rank \in roles => hibernation_plan \in Taking(rank)
  BY <1>0, <1>2, RoleSets DEF hibernation_plan, Taking, RanksGo
<1>10. CaseShapes'
  BY <1>0, <1>1, <1>2, QueueGrows DEF CaseShapes
<1>11. UnderWay'
  <2>1. moves # <<>> => moves' # <<>> /\ Head(moves') = Head(moves)
    BY <1>0, <1>1, <1>2, QueueGrows DEF CaseShapes
  <2> QED
    BY <1>0, <1>1, <2>1 DEF UnderWay, progress, which
<1>12. NothingForgotten'
  <2>1. ~leftover => moves' \in Seq(WholePlans)
    BY <1>0, <1>1, <1>3, QueueGrows DEF NothingForgotten
  <2> QED
    BY <1>0, <1>1, <2>1 DEF NothingForgotten
<1>13. HistoryTellsState'
  BY <1>0, <1>1 DEF HistoryTellsState
<1>14. RanksGo'
  <2>1. \A rank \in Ranks : rank \in roles => moves' \in Seq(Taking(rank))
    BY <1>0, <1>1, <1>4, QueueGrows DEF RanksGo
  <2> QED
    BY <1>0, <1>1, <2>1 DEF RanksGo
<1>15. StepsCounted'
  BY <1>0, <1>1 DEF StepsCounted, CheckedOff
<1> QED
  BY <1>10, <1>11, <1>12, <1>13, <1>14, <1>15 DEF HibernationInv

\* A return is planned.
LEMMA PlanReactivationKeeps ==
  ASSUME HibernationInv, PlanReactivation
  PROVE  HibernationInv'
<1>0. CaseShapes /\ UnderWay /\ NothingForgotten /\ HistoryTellsState /\ RanksGo /\ StepsCounted
  BY DEF HibernationInv
<1>1. /\ moves' = Append(moves, reactivation_plan) /\ entry # NoEntry
      /\ UNCHANGED <<roles, entry, history, doing, sent, lost, cases, leftover, breaks>>
  BY DEF PlanReactivation, Plan
<1>2. reactivation_plan \in RolePlans /\ reactivation_plan.op = "reactivate"
  BY <1>0, RoleSets DEF reactivation_plan, RolePlans, CaseShapes, SavedEntries, Progresses
<1>3. ~leftover => reactivation_plan \in WholePlans
  BY <1>0, <1>1, <1>2, RoleSets DEF reactivation_plan, WholePlans, NothingForgotten
<1>4. \A rank \in Ranks : rank \in roles => reactivation_plan \in Taking(rank)
  BY <1>2 DEF Taking
<1>10. CaseShapes'
  BY <1>0, <1>1, <1>2, QueueGrows DEF CaseShapes
<1>11. UnderWay'
  <2>1. moves # <<>> => moves' # <<>> /\ Head(moves') = Head(moves)
    BY <1>0, <1>1, <1>2, QueueGrows DEF CaseShapes
  <2> QED
    BY <1>0, <1>1, <2>1 DEF UnderWay, progress, which
<1>12. NothingForgotten'
  <2>1. ~leftover => moves' \in Seq(WholePlans)
    BY <1>0, <1>1, <1>3, QueueGrows DEF NothingForgotten
  <2> QED
    BY <1>0, <1>1, <2>1 DEF NothingForgotten
<1>13. HistoryTellsState'
  BY <1>0, <1>1 DEF HistoryTellsState
<1>14. RanksGo'
  <2>1. \A rank \in Ranks : rank \in roles => moves' \in Seq(Taking(rank))
    BY <1>0, <1>1, <1>4, QueueGrows DEF RanksGo
  <2> QED
    BY <1>0, <1>1, <2>1 DEF RanksGo
<1>15. StepsCounted'
  BY <1>0, <1>1 DEF StepsCounted, CheckedOff
<1> QED
  BY <1>10, <1>11, <1>12, <1>13, <1>14, <1>15 DEF HibernationInv

\* A case is saved before anything is changed.
LEMMA BeginCaseKeeps ==
  ASSUME HibernationInv, BeginCase
  PROVE  HibernationInv'
<1>0. CaseShapes /\ UnderWay /\ NothingForgotten /\ HistoryTellsState /\ RanksGo /\ StepsCounted
  BY DEF HibernationInv
<1>1. /\ moves # <<>> /\ doing = NoStep /\ Head(moves).op = "hibernate" /\ entry = NoEntry
      /\ cases' = cases + 1
      /\ entry' = [case |-> cases', stored |-> Head(moves).stored, going |-> Progress(Head(moves)),
                   coming |-> NoProgress]
      /\ sent' = [s \in Steps |-> 0] /\ lost' = [s \in Steps |-> 0]
      /\ UNCHANGED <<roles, history, moves, doing, leftover>>
  BY DEF BeginCase, Is, First, begun
<1>2. Head(moves) \in RolePlans
  BY <1>0, <1>1, QueueShrinks DEF CaseShapes
<1>3. /\ entry'.case = cases' /\ entry'.stored = Head(moves).stored
      /\ entry'.going = [remove |-> Head(moves).remove, add |-> Head(moves).add, done |-> {}]
      /\ entry'.going.remove = Head(moves).remove /\ entry'.going.done = {}
      /\ entry'.coming = NoProgress
  BY <1>1 DEF Progress
<1>4. entry' \in SavedEntries /\ entry'.going # NoProgress /\ entry' # NoEntry
  <2>1. entry'.going \in [remove : {Head(moves).remove}, add : {Head(moves).add}, done : {{}}]
    BY <1>3
  <2>2. NoProgress \in Progresses /\ "none" \in NoProgress.done
    BY DEF NoProgress, Progresses
  <2>3. entry'.going \in Progresses /\ entry'.going # NoProgress
    BY <1>2, <2>1, <2>2 DEF RolePlans, Progresses
  <2>4. entry' \in SavedEntries
    BY <1>0, <1>1, <1>2, <1>3, <2>2, <2>3 DEF SavedEntries, RolePlans, CaseShapes
  <2>5. entry'.case > 0 /\ NoEntry.case = 0
    BY <1>0, <1>1, <1>3 DEF NoEntry, CaseShapes
  <2> QED
    BY <2>3, <2>4, <2>5
<1>10. CaseShapes'
  <2>1. history \subseteq [case : 1..cases', kind : {"hibernated", "reactivated"}]
    BY <1>0, <1>1 DEF CaseShapes
  <2> QED
    BY <1>0, <1>1, <1>3, <1>4, <2>1 DEF CaseShapes
<1>11. UnderWay'
  BY <1>1 DEF UnderWay
<1>12. NothingForgotten'
  <2>1. ~leftover => Head(moves) \in WholePlans
    BY <1>0, <1>1, QueueShrinks DEF NothingForgotten
  <2> QED
    BY <1>0, <1>1, <1>3, <1>4, <2>1 DEF NothingForgotten, WholePlans
<1>13. HistoryTellsState'
  <2>1. \A e \in history : e.case \in 1..cases
    BY <1>0 DEF CaseShapes
  <2>2. \A c \in 1..cases' : c \in 1..cases \/ c = cases'
    BY <1>0, <1>1 DEF CaseShapes
  <2>3. \A why : [case |-> cases', kind |-> why] \notin history
    BY <1>0, <1>1, <2>1 DEF CaseShapes
  <2>4. \A c \in 1..cases : c # cases' /\ c # entry.case
    BY <1>0, <1>1 DEF CaseShapes, NoEntry
  <2> QED
    BY <1>0, <1>1, <1>3, <1>4, <2>2, <2>3, <2>4 DEF HistoryTellsState
<1>14. RanksGo'
  <2>1. \A rank \in Ranks : rank \in roles => Head(moves) \in Taking(rank)
    BY <1>0, <1>1, QueueShrinks DEF RanksGo
  <2> QED
    BY <1>0, <1>1, <1>3, <1>4, <2>1 DEF RanksGo, Taking
<1>15. StepsCounted'
  <2>1. \A s \in Steps : sent'[s] = 0 /\ lost'[s] = 0 /\ doing' # s
    BY <1>1, RoleSets
  <2>2. \A s \in Steps : ~CheckedOff(s)'
    BY <1>3, <1>4, RoleSets DEF CheckedOff, NoProgress
  <2> QED
    BY <1>4, <2>1, <2>2 DEF StepsCounted
<1> QED
  BY <1>10, <1>11, <1>12, <1>13, <1>14, <1>15 DEF HibernationInv

\* The command came too late.
LEMMA AlreadyHibernatingKeeps ==
  ASSUME HibernationInv, AlreadyHibernating
  PROVE  HibernationInv'
<1>0. CaseShapes /\ UnderWay /\ NothingForgotten /\ HistoryTellsState /\ RanksGo /\ StepsCounted
  BY DEF HibernationInv
<1>10. CaseShapes'
  BY <1>0 DEF AlreadyHibernating, Is, First, Leaves, Same, CaseShapes
<1>11. UnderWay'
  BY <1>0 DEF AlreadyHibernating, Is, First, Leaves, Same, UnderWay, progress, which
<1>12. NothingForgotten'
  BY <1>0 DEF AlreadyHibernating, Is, First, Leaves, Same, NothingForgotten
<1>13. HistoryTellsState'
  BY <1>0 DEF AlreadyHibernating, Is, First, Leaves, Same, HistoryTellsState
<1>14. RanksGo'
  BY <1>0 DEF AlreadyHibernating, Is, First, Leaves, Same, RanksGo
<1>15. StepsCounted'
  BY <1>0 DEF AlreadyHibernating, Is, First, Leaves, Same, StepsCounted, CheckedOff
<1> QED
  BY <1>10, <1>11, <1>12, <1>13, <1>14, <1>15 DEF HibernationInv

\* The return came too late.
LEMMA NothingToReactivateKeeps ==
  ASSUME HibernationInv, NothingToReactivate
  PROVE  HibernationInv'
<1>0. CaseShapes /\ UnderWay /\ NothingForgotten /\ HistoryTellsState /\ RanksGo /\ StepsCounted
  BY DEF HibernationInv
<1>10. CaseShapes'
  BY <1>0 DEF NothingToReactivate, Is, First, Leaves, Same, CaseShapes
<1>11. UnderWay'
  BY <1>0 DEF NothingToReactivate, Is, First, Leaves, Same, UnderWay, progress, which
<1>12. NothingForgotten'
  BY <1>0 DEF NothingToReactivate, Is, First, Leaves, Same, NothingForgotten
<1>13. HistoryTellsState'
  BY <1>0 DEF NothingToReactivate, Is, First, Leaves, Same, HistoryTellsState
<1>14. RanksGo'
  BY <1>0 DEF NothingToReactivate, Is, First, Leaves, Same, RanksGo
<1>15. StepsCounted'
  BY <1>0 DEF NothingToReactivate, Is, First, Leaves, Same, StepsCounted, CheckedOff
<1> QED
  BY <1>10, <1>11, <1>12, <1>13, <1>14, <1>15 DEF HibernationInv

\* A return is saved, whole or as the rest of an earlier one.
LEMMA BeginReturnKeeps ==
  ASSUME HibernationInv, BeginReturn
  PROVE  HibernationInv'
<1>0. CaseShapes /\ UnderWay /\ NothingForgotten /\ HistoryTellsState /\ RanksGo /\ StepsCounted
  BY DEF HibernationInv
<1>1. /\ moves # <<>> /\ doing = NoStep /\ Head(moves).op = "reactivate" /\ entry # NoEntry
      /\ entry.coming = NoProgress /\ leftover' = (leftover \/ Head(moves).rest)
      /\ entry' = [entry EXCEPT !.coming = Progress(Head(moves))]
      /\ UNCHANGED <<roles, history, moves, doing, sent, lost, cases>>
  BY DEF BeginReturn, Is, First, Same
<1>2. Head(moves) \in RolePlans
  BY <1>0, <1>1, QueueShrinks DEF CaseShapes
<1>3. /\ entry'.case = entry.case /\ entry'.stored = entry.stored /\ entry'.going = entry.going
      /\ entry'.coming = Progress(Head(moves))
  BY <1>0, <1>1 DEF CaseShapes, SavedEntries
<1>4. /\ Progress(Head(moves)).remove = Head(moves).remove
      /\ Progress(Head(moves)).add = Head(moves).add /\ Progress(Head(moves)).done = {}
      /\ Progress(Head(moves)) \in Progresses
  <2>1. Progress(Head(moves)) \in [remove : {Head(moves).remove}, add : {Head(moves).add}, done : {{}}]
    BY DEF Progress
  <2> QED
    BY <1>2, <2>1 DEF RolePlans, Progresses
<1>5. /\ entry' \in SavedEntries /\ entry'.coming # NoProgress
      /\ entry' # NoEntry
  <2>1. entry' \in SavedEntries
    BY <1>0, <1>1, <1>4 DEF CaseShapes, SavedEntries
  <2>2. entry.case > 0 /\ NoEntry.case = 0
    BY <1>0, <1>1 DEF CaseShapes, NoEntry
  <2>3. "none" \in NoProgress.done
    BY DEF NoProgress
  <2>4. entry'.coming # NoProgress
    BY <1>3, <1>4, <2>3
  <2>5. entry' # NoEntry
    BY <1>3, <2>2
  <2> QED
    BY <2>1, <2>4, <2>5
<1>10. CaseShapes'
  BY <1>0, <1>1, <1>2, <1>3, <1>4, <1>5 DEF CaseShapes, RolePlans
<1>11. UnderWay'
  BY <1>1 DEF UnderWay
<1>12. NothingForgotten'
  <2>1. ~leftover => Head(moves) \in WholePlans
    BY <1>0, <1>1, QueueShrinks DEF NothingForgotten
  <2> QED
    BY <1>0, <1>1, <1>2, <1>3, <1>4, <1>5, <2>1, RoleSets DEF NothingForgotten, WholePlans, RolePlans
<1>13. HistoryTellsState'
  BY <1>0, <1>1, <1>3 DEF HistoryTellsState
<1>14. RanksGo'
  BY <1>0, <1>1, <1>3, <1>5 DEF RanksGo
<1>15. StepsCounted'
  <2>1. \A s \in Steps : CheckedOff(s) <=> CheckedOff(s)'
    BY <1>1, <1>3, <1>4, RoleSets DEF CheckedOff, NoProgress
  <2> QED
    BY <1>0, <1>1, <1>5, <2>1 DEF StepsCounted
<1> QED
  BY <1>10, <1>11, <1>12, <1>13, <1>14, <1>15 DEF HibernationInv

\* A role is taken or given.
LEMMA ChangeRoleKeeps ==
  ASSUME HibernationInv, ChangeRole
  PROVE  HibernationInv'
<1>0. CaseShapes /\ UnderWay /\ NothingForgotten /\ HistoryTellsState /\ RanksGo /\ StepsCounted
  BY DEF HibernationInv
<1>1. /\ moves # <<>> /\ doing = NoStep /\ entry # NoEntry /\ progress # NoProgress
      /\ which = "going" => entry.coming = NoProgress
      /\ UNCHANGED <<entry, history, moves, sent, lost, cases, leftover>>
  BY DEF ChangeRole, Works, First
<1>2. PICK role \in todo : doing' = role /\ roles' = IF progress.remove # {} THEN roles \ {role} ELSE roles \cup {role}
  BY DEF ChangeRole
<1>3. progress \in Progresses /\ progress.remove \subseteq Roles /\ progress.add \subseteq Roles \ Ranks
  BY <1>0, ProgressIs DEF CaseShapes, SavedEntries, Progresses
<1>4. /\ progress.remove # {} => role \in progress.remove /\ roles' = roles \ {role}
      /\ progress.remove = {} => role \in progress.add /\ roles' = roles \cup {role}
      /\ role \in Roles /\ role \notin Steps /\ role # NoStep
  BY <1>2, <1>3, RoleSets DEF todo
<1>5. entry.coming # NoProgress => progress = entry.coming
  BY <1>1, ProgressIs
<1>10. CaseShapes'
  BY <1>0, <1>1, <1>2, <1>4 DEF CaseShapes
<1>11. UnderWay'
  <2>1. progress' = progress /\ which' = which
    BY <1>1 DEF progress, which
  <2> QED
    BY <1>0, <1>1, <1>2, <1>4, <2>1 DEF UnderWay
<1>12. NothingForgotten'
  BY <1>0, <1>1, <1>2, <1>4, <1>5 DEF NothingForgotten
<1>13. HistoryTellsState'
  BY <1>0 DEF ChangeRole, HistoryTellsState
<1>14. RanksGo'
  <2>1. \A rank \in Ranks : rank \in roles' => rank \in roles
    BY <1>3, <1>4
  <2> QED
    BY <1>0, <1>1, <2>1 DEF RanksGo
<1>15. StepsCounted'
  <2>1. \A s \in Steps : doing # s /\ doing' # s /\ (CheckedOff(s) <=> CheckedOff(s)')
    BY <1>1, <1>2, <1>4, RoleSets DEF CheckedOff
  <2> QED
    BY <1>0, <1>1, <2>1 DEF StepsCounted
<1> QED
  BY <1>10, <1>11, <1>12, <1>13, <1>14, <1>15 DEF HibernationInv

\* The next step is done.
LEMMA DoStepKeeps ==
  ASSUME HibernationInv, DoStep
  PROVE  HibernationInv'
<1>0. CaseShapes /\ UnderWay /\ NothingForgotten /\ HistoryTellsState /\ RanksGo /\ StepsCounted
  BY DEF HibernationInv
<1>1. /\ moves # <<>> /\ doing = NoStep /\ entry # NoEntry /\ progress # NoProgress
      /\ which = "going" => entry.coming = NoProgress
      /\ doing' = next_step /\ sent' = [sent EXCEPT ![next_step] = @ + 1] /\ steps # {}
      /\ UNCHANGED <<roles, entry, history, moves, lost, cases, leftover>>
  BY DEF DoStep, Works, First
<1>2. /\ next_step \in Steps \ progress.done /\ next_step \notin Roles
      /\ next_step \in ToSet(HibernateSteps) <=> which = "going"
  BY <1>1, NextStepIs, RoleSets
<1>3. progress' = progress /\ which' = which
  BY <1>1 DEF progress, which
<1>10. CaseShapes'
  <2>1. sent' \in [Steps -> Nat]
    BY <1>0, <1>1, <1>2 DEF CaseShapes
  <2> QED
    BY <1>0, <1>1, <1>2, <2>1 DEF CaseShapes
<1>11. UnderWay'
  BY <1>0, <1>1, <1>2, <1>3 DEF UnderWay
<1>12. NothingForgotten'
  BY <1>0 DEF DoStep, NothingForgotten
<1>13. HistoryTellsState'
  BY <1>0 DEF DoStep, HistoryTellsState
<1>14. RanksGo'
  BY <1>0 DEF DoStep, RanksGo
<1>15. StepsCounted'
  <2>1. \A s \in Steps : (CheckedOff(s) <=> CheckedOff(s)') /\ doing # s
    BY <1>1, RoleSets DEF CheckedOff
  <2>2. ~CheckedOff(next_step)
    <3>1. CASE which = "going"
      BY <3>1, <1>1, <1>2, ProgressIs DEF CheckedOff
    <3>2. CASE which # "going"
      BY <3>2, <1>1, <1>2, ProgressIs DEF CheckedOff
    <3> QED
      BY <3>1, <3>2
  <2>3. /\ sent'[next_step] = sent[next_step] + 1 /\ sent[next_step] \in Nat
        /\ \A s \in Steps : s # next_step => sent'[s] = sent[s]
        /\ \A s \in Steps : sent[s] \in Nat /\ lost[s] \in Nat
    BY <1>0, <1>1, <1>2 DEF CaseShapes
  <2>4. sent[next_step] <= lost[next_step]
    BY <1>0, <1>1, <1>2, <2>1, <2>2 DEF StepsCounted
  <2> QED
    BY <1>0, <1>1, <1>2, <2>1, <2>2, <2>3, <2>4 DEF StepsCounted
<1> QED
  BY <1>10, <1>11, <1>12, <1>13, <1>14, <1>15 DEF HibernationInv

\* What was done is saved.
LEMMA SaveStepKeeps ==
  ASSUME HibernationInv, SaveStep
  PROVE  HibernationInv'
<1>0. CaseShapes /\ UnderWay /\ NothingForgotten /\ HistoryTellsState /\ RanksGo /\ StepsCounted
  BY DEF HibernationInv
<1> DEFINE now == IF doing \in Roles
                    THEN [progress EXCEPT !.remove = left_to_remove(progress, doing), !.add = left_to_add(progress, doing)]
                    ELSE [progress EXCEPT !.done = checked_off(progress.done, doing)]
<1>1. /\ doing # NoStep /\ doing' = NoStep /\ entry' = [entry EXCEPT ![which] = now]
      /\ UNCHANGED <<roles, history, moves, sent, lost, cases, leftover>>
  <2>1. /\ doing # NoStep /\ doing' = NoStep
        /\ UNCHANGED <<roles, history, moves, sent, lost, cases, leftover>>
    BY DEF SaveStep
  <2>2. CASE doing \in Roles
    BY <2>2 DEF SaveStep, progress
  <2>3. CASE doing \notin Roles
    BY <2>3 DEF SaveStep, progress
  <2> QED
    BY <2>1, <2>2, <2>3
<1>2. /\ entry # NoEntry /\ progress # NoProgress /\ progress \in Progresses /\ "none" \notin progress.done
      /\ which = "going" => entry.coming = NoProgress
  BY <1>0, <1>1, ProgressIs DEF UnderWay, CaseShapes, SavedEntries
<1>3. /\ now.remove = IF doing \in Roles THEN progress.remove \ {doing} ELSE progress.remove
      /\ now.add = IF doing \in Roles /\ progress.remove = {} THEN progress.add \ {doing} ELSE progress.add
      /\ now.done = IF doing \in Roles THEN progress.done ELSE progress.done \cup {doing}
      /\ now \in Progresses /\ "none" \notin now.done /\ now # NoProgress
  <2>1. now \in [remove : {IF doing \in Roles THEN progress.remove \ {doing} ELSE progress.remove},
                 add : {IF doing \in Roles /\ progress.remove = {} THEN progress.add \ {doing} ELSE progress.add},
                 done : {IF doing \in Roles THEN progress.done ELSE progress.done \cup {doing}}]
    <3>1. CASE doing \in Roles
      BY <1>2, <3>1 DEF Progresses, left_to_remove, left_to_add
    <3>2. CASE doing \notin Roles
      BY <1>2, <3>2 DEF Progresses, checked_off
    <3> QED
      BY <3>1, <3>2
  <2> HIDE DEF now
  <2>2. doing \in Roles \/ doing \in Steps
    BY <1>0, <1>1 DEF CaseShapes
  <2>3. "none" \notin Steps /\ "none" \in NoProgress.done
    BY RoleSets DEF NoProgress
  <2> QED
    BY <1>2, <2>1, <2>2, <2>3 DEF Progresses
<1> HIDE DEF now
<1>4. /\ entry' \in SavedEntries /\ entry'.case = entry.case /\ entry'.stored = entry.stored
      /\ which = "going" => entry'.going = now /\ entry'.coming = entry.coming /\ progress = entry.going
      /\ which # "going" => entry'.going = entry.going /\ entry'.coming = now /\ progress = entry.coming
  <2>1. CASE which = "going"
    BY <1>0, <1>1, <1>3, <2>1, ProgressIs DEF CaseShapes, SavedEntries
  <2>2. CASE which = "coming"
    BY <1>0, <1>1, <1>3, <2>2, ProgressIs DEF CaseShapes, SavedEntries
  <2> QED
    BY <2>1, <2>2, ProgressIs
<1>5. entry.case = cases /\ cases > 0 /\ entry' # NoEntry
  BY <1>0, <1>2, <1>4 DEF CaseShapes, NoEntry
<1>6. /\ doing \in Roles => IF progress.remove # {} THEN doing \in progress.remove \ roles
                                                  ELSE doing \in progress.add \cap roles
      /\ doing \in Steps => /\ doing \notin progress.done
                            /\ doing \in ToSet(HibernateSteps) <=> which = "going"
  BY <1>0, <1>1 DEF UnderWay
<1>10. CaseShapes'
  <2>1. \A q \in {entry'.going, entry'.coming} : q = NoProgress \/ "none" \notin q.done
    BY <1>0, <1>3, <1>4 DEF CaseShapes
  <2> QED
    BY <1>0, <1>1, <1>4, <1>5, <2>1 DEF CaseShapes
<1>11. UnderWay'
  BY <1>0 DEF SaveStep, UnderWay, progress, which
<1>12. NothingForgotten'
  <2>1. CASE which = "going"
    BY <1>0, <1>1, <1>2, <1>4, <1>5, <2>1 DEF NothingForgotten
  <2>2. CASE which # "going"
    BY <1>0, <1>1, <1>2, <1>3, <1>4, <1>5, <1>6, <2>2 DEF NothingForgotten
  <2> QED
    BY <2>1, <2>2
<1>13. HistoryTellsState'
  <2>1. entry'.going = NoProgress <=> entry.going = NoProgress
    BY <1>2, <1>3, <1>4
  <2> QED
    BY <1>0, <1>1, <1>4, <2>1 DEF HistoryTellsState
<1>14. RanksGo'
  <2>1. \A rank \in Ranks : rank \in roles /\ entry.going # NoProgress /\ rank \in entry.going.remove
                              => entry'.going # NoProgress /\ rank \in entry'.going.remove
    BY <1>2, <1>3, <1>4, <1>6
  <2> QED
    BY <1>0, <1>1, <1>2, <2>1 DEF RanksGo
<1>15. StepsCounted'
  <2>1. \A s \in Steps : doing' # s /\ (CheckedOff(s)' <=> CheckedOff(s) \/ doing = s)
    <3>1. \A s \in Steps : doing' # s /\ s \notin Roles
      BY <1>1, RoleSets
    <3>2. CASE which = "going"
      BY <1>2, <1>3, <1>4, <1>6, <3>1, <3>2 DEF CheckedOff
    <3>3. CASE which # "going"
      BY <1>2, <1>3, <1>4, <1>6, <3>1, <3>3 DEF CheckedOff
    <3> QED
      BY <3>2, <3>3
  <2> QED
    BY <1>0, <1>1, <1>2, <1>5, <2>1 DEF StepsCounted
<1> QED
  BY <1>10, <1>11, <1>12, <1>13, <1>14, <1>15 DEF HibernationInv

\* The member hibernates.
LEMMA EndHibernationKeeps ==
  ASSUME HibernationInv, EndHibernation
  PROVE  HibernationInv'
<1>0. CaseShapes /\ UnderWay /\ NothingForgotten /\ HistoryTellsState /\ RanksGo /\ StepsCounted
  BY DEF HibernationInv
<1>1. /\ moves # <<>> /\ doing = NoStep /\ Head(moves).op = "hibernate" /\ entry # NoEntry
      /\ progress # NoProgress /\ which = "going" /\ progress = entry.going
      /\ which = "going" => entry.coming = NoProgress
      /\ todo = {} /\ steps = {} /\ moves' = Tail(moves)
      /\ entry' = [entry EXCEPT !.going = NoProgress] /\ history' = history \cup {[case |-> entry.case, kind |-> "hibernated"]}
      /\ UNCHANGED <<roles, doing, sent, lost, cases, leftover>>
  BY ProgressIs DEF EndHibernation, PlanEnds, Works, First, Leaves, Same
<1>2. progress.remove = {} /\ progress.add = {} /\ entry.case = cases /\ cases > 0 /\ cases \in Nat
  BY <1>0, <1>1 DEF todo, CaseShapes
<1>3. /\ moves' \in Seq(RolePlans) /\ (~leftover => moves' \in Seq(WholePlans))
      /\ \A rank \in Ranks : rank \in roles => moves' \in Seq(Taking(rank))
  BY <1>0, <1>1, QueueShrinks DEF CaseShapes, NothingForgotten, RanksGo
<1>4. history' \subseteq [case : 1..cases, kind : {"hibernated", "reactivated"}]
  BY <1>0, <1>1, <1>2 DEF CaseShapes
<1>5. /\ entry' \in SavedEntries /\ entry'.case = entry.case /\ entry'.stored = entry.stored
      /\ entry'.going = NoProgress /\ entry'.coming = NoProgress /\ entry' # NoEntry
  <2>1. NoProgress \in Progresses
    BY DEF NoProgress, Progresses
  <2>2. /\ entry' \in SavedEntries /\ entry'.case = entry.case /\ entry'.stored = entry.stored
        /\ entry'.going = NoProgress /\ entry'.coming = entry.coming
    BY <1>0, <1>1, <2>1 DEF CaseShapes, SavedEntries
  <2>3. NoEntry.case = 0
    BY DEF NoEntry
  <2>4. entry' # NoEntry
    BY <1>2, <2>2, <2>3
  <2>5. entry'.coming = NoProgress
    BY <1>1, <2>2
  <2> QED
    BY <2>2, <2>4, <2>5
<1>10. CaseShapes'
  BY <1>0, <1>1, <1>2, <1>3, <1>4, <1>5 DEF CaseShapes
<1>11. UnderWay'
  BY <1>1 DEF UnderWay
<1>12. NothingForgotten'
  BY <1>0, <1>1, <1>3, <1>5 DEF NothingForgotten
<1>13. HistoryTellsState'
  <2>1. \A c \in 1..cases : /\ [case |-> c, kind |-> "reactivated"] \in history' <=> [case |-> c, kind |-> "reactivated"] \in history
                            /\ c = entry.case => [case |-> c, kind |-> "hibernated"] \in history'
    BY <1>1
  <2> QED
    BY <1>0, <1>1, <1>5, <2>1 DEF HistoryTellsState
<1>14. RanksGo'
  BY <1>0, <1>1, <1>2 DEF RanksGo
<1>15. StepsCounted'
  <2>1. ToSet(HibernateSteps) \subseteq entry.going.done
    BY <1>1, NextStepIs
  <2>2. \A s \in Steps : doing # s /\ (CheckedOff(s)' <=> CheckedOff(s))
    BY <1>1, <1>5, <2>1, RoleSets DEF CheckedOff
  <2> QED
    BY <1>0, <1>1, <1>5, <2>2 DEF StepsCounted
<1> QED
  BY <1>10, <1>11, <1>12, <1>13, <1>14, <1>15 DEF HibernationInv

\* The member is back.
LEMMA EndReactivationKeeps ==
  ASSUME HibernationInv, EndReactivation
  PROVE  HibernationInv'
<1>0. CaseShapes /\ UnderWay /\ NothingForgotten /\ HistoryTellsState /\ RanksGo /\ StepsCounted
  BY DEF HibernationInv
<1>1. /\ moves # <<>> /\ doing = NoStep /\ Head(moves).op = "reactivate" /\ entry # NoEntry
      /\ progress # NoProgress /\ which = "coming" /\ progress = entry.coming
      /\ which = "going" => entry.coming = NoProgress
      /\ todo = {} /\ steps = {} /\ moves' = Tail(moves)
      /\ entry' = NoEntry /\ history' = history \cup {[case |-> entry.case, kind |-> "reactivated"]}
      /\ UNCHANGED <<roles, doing, sent, lost, cases, leftover>>
  BY ProgressIs DEF EndReactivation, PlanEnds, Works, First, Leaves, Same
<1>2. progress.remove = {} /\ progress.add = {} /\ entry.case = cases /\ cases > 0 /\ cases \in Nat
  BY <1>0, <1>1 DEF todo, CaseShapes
<1>3. /\ moves' \in Seq(RolePlans) /\ (~leftover => moves' \in Seq(WholePlans))
      /\ \A rank \in Ranks : rank \in roles => moves' \in Seq(Taking(rank))
  BY <1>0, <1>1, QueueShrinks DEF CaseShapes, NothingForgotten, RanksGo
<1>4. history' \subseteq [case : 1..cases, kind : {"hibernated", "reactivated"}]
  BY <1>0, <1>1, <1>2 DEF CaseShapes
<1>5. entry' \in SavedEntries /\ entry'.going = NoProgress /\ entry'.coming = NoProgress /\ entry'.case = 0
  <2>1. NoProgress \in Progresses
    BY DEF NoProgress, Progresses
  <2> QED
    BY <1>1, <2>1 DEF SavedEntries, NoEntry
<1>10. CaseShapes'
  BY <1>0, <1>1, <1>2, <1>3, <1>4, <1>5 DEF CaseShapes
<1>11. UnderWay'
  BY <1>1 DEF UnderWay
<1>12. NothingForgotten'
  BY <1>0, <1>1, <1>2, <1>3, <1>5 DEF NothingForgotten
<1>13. HistoryTellsState'
  <2>1. \A c \in 1..cases : [case |-> c, kind |-> "reactivated"] \in history'
                              <=> c = entry.case \/ [case |-> c, kind |-> "reactivated"] \in history
    BY <1>1
  <2>2. \A c \in 1..cases : c # 0
    BY <1>2
  <2> QED
    BY <1>0, <1>1, <1>5, <2>1, <2>2 DEF HistoryTellsState
<1>14. RanksGo'
  <2>1. (\A e \in history : e.kind # "hibernated") => \A e \in history' : e.kind # "hibernated"
    BY <1>1
  <2> QED
    BY <1>0, <1>1, <1>3, <2>1 DEF RanksGo
<1>15. StepsCounted'
  <2>1. ToSet(ReactivateSteps) \subseteq entry.coming.done
    BY <1>1, NextStepIs
  <2>2. \A s \in ToSet(ReactivateSteps) : s \in Steps /\ CheckedOff(s)
    BY <2>1, RoleSets DEF CheckedOff
  <2> QED
    BY <1>0, <1>1, <2>2 DEF StepsCounted
<1> QED
  BY <1>10, <1>11, <1>12, <1>13, <1>14, <1>15 DEF HibernationInv

\* A step raises, or the program ends.
LEMMA CutOffsKeeps ==
  ASSUME HibernationInv, StepRaises \/ ProgramEnds
  PROVE  HibernationInv'
<1>0. CaseShapes /\ UnderWay /\ NothingForgotten /\ HistoryTellsState /\ RanksGo /\ StepsCounted
  BY DEF HibernationInv
<1>1. /\ moves # <<>> /\ doing' = NoStep /\ moves' \in {Tail(moves), <<>>}
      /\ lost' = IF doing \in Steps THEN [lost EXCEPT ![doing] = @ + 1] ELSE lost
      /\ UNCHANGED <<roles, entry, history, sent, cases, leftover>>
  BY DEF StepRaises, ProgramEnds, CutOff
<1>2. /\ moves' \in Seq(RolePlans) /\ (~leftover => moves' \in Seq(WholePlans))
      /\ \A rank \in Ranks : rank \in roles => moves' \in Seq(Taking(rank))
  <2>1. ASSUME NEW S, moves \in Seq(S) PROVE moves' \in Seq(S)
    <3>1. Tail(moves) \in Seq(S) /\ <<>> \in Seq(S)
      BY <1>1, <2>1, QueueShrinks
    <3> QED
      BY <1>1, <3>1
  <2> QED
    BY <1>0, <1>1, <2>1 DEF CaseShapes, NothingForgotten, RanksGo
<1>3. /\ lost' \in [Steps -> Nat]
      /\ \A s \in Steps : lost[s] \in Nat /\ sent[s] \in Nat /\ lost'[s] \in Nat
      /\ \A s \in Steps : lost'[s] = IF s = doing THEN lost[s] + 1 ELSE lost[s]
  BY <1>0, <1>1 DEF CaseShapes
<1>10. CaseShapes'
  BY <1>0, <1>1, <1>2, <1>3 DEF CaseShapes
<1>11. UnderWay'
  BY <1>1 DEF UnderWay
<1>12. NothingForgotten'
  BY <1>0, <1>1, <1>2 DEF NothingForgotten
<1>13. HistoryTellsState'
  BY <1>0, <1>1 DEF HistoryTellsState
<1>14. RanksGo'
  BY <1>0, <1>1, <1>2 DEF RanksGo
<1>15. StepsCounted'
  <2>1. \A s \in Steps : doing' # s /\ (CheckedOff(s) <=> CheckedOff(s)')
    BY <1>1, RoleSets DEF CheckedOff
  <2> QED
    BY <1>0, <1>1, <1>3, <2>1 DEF StepsCounted
<1> QED
  BY <1>10, <1>11, <1>12, <1>13, <1>14, <1>15 DEF HibernationInv


\* Every step of a command, or of another that waits, keeps the case in order.
LEMMA HibernationStep == HibernationInv /\ [HibernationNext]_hibernationVars => HibernationInv'
<1> SUFFICES ASSUME HibernationInv, [HibernationNext]_hibernationVars PROVE HibernationInv'
  OBVIOUS
<1>1. CASE UNCHANGED hibernationVars
  BY <1>1 DEF hibernationVars, HibernationInv, CaseShapes, UnderWay, progress, which, NothingForgotten,
     HistoryTellsState, RanksGo, StepsCounted, CheckedOff
<1>2. CASE HibernationNext
  BY <1>2, PlanHibernationKeeps, PlanReactivationKeeps, BeginCaseKeeps, AlreadyHibernatingKeeps,
     NothingToReactivateKeeps, BeginReturnKeeps, ChangeRoleKeeps, DoStepKeeps, SaveStepKeeps,
     EndHibernationKeeps, EndReactivationKeeps, CutOffsKeeps DEF HibernationNext
<1> QED
  BY <1>1, <1>2

\* A member with all roles, and nobody's command.
LEMMA InitHibernation == HibernationInit => HibernationInv
<1> SUFFICES ASSUME HibernationInit PROVE HibernationInv
  OBVIOUS
<1>1. NoProgress \in Progresses /\ entry.going = NoProgress /\ entry.coming = NoProgress
  BY DEF HibernationInit, NoProgress, Progresses, NoEntry
<1>2. CaseShapes
  <2>1. entry \in SavedEntries /\ entry.case = 0
    BY <1>1 DEF HibernationInit, NoEntry, SavedEntries
  <2>2. moves \in Seq(RolePlans)
    BY DEF HibernationInit
  <2>3. sent \in [Steps -> Nat] /\ lost \in [Steps -> Nat]
    BY DEF HibernationInit
  <2> QED
    BY <1>1, <2>1, <2>2, <2>3, RoleSets DEF CaseShapes, HibernationInit
<1>3. UnderWay /\ HistoryTellsState
  BY DEF UnderWay, HistoryTellsState, HibernationInit
<1>4. NothingForgotten
  <2>1. moves \in Seq(WholePlans)
    BY DEF HibernationInit
  <2> QED
    BY <1>1, <2>1, RoleSets DEF NothingForgotten, HibernationInit
<1>5. RanksGo
  <2>1. \A rank : moves \in Seq(Taking(rank))
    BY DEF HibernationInit
  <2> QED
    BY <2>1 DEF RanksGo, HibernationInit
<1>6. StepsCounted
  BY DEF StepsCounted, HibernationInit
<1> QED
  BY <1>2, <1>3, <1>4, <1>5, <1>6 DEF HibernationInv

\* However often hibernating and returning broke off and were taken over, the member who
\* is back holds every role of before but the ranks, the events tell the state that is
\* saved, and no step of a case was left out or done again unless it was lost
\* (hibernate_member, reactivate_member).
THEOREM HibernationIsUndone == HibernationSpec => []HibernationUndone
<1>1. HibernationInv => HibernationUndone
  <2> SUFFICES ASSUME HibernationInv PROVE HibernationUndone
    OBVIOUS
  <2>0. CaseShapes /\ NothingForgotten /\ RanksGo /\ StepsCounted /\ HistoryTellsState
    BY DEF HibernationInv
  <2>1. RolesComeBack
    <3>1. ASSUME [case |-> cases, kind |-> "hibernated"] \in history PROVE roles \cap Ranks = {}
      BY <2>0, <3>1 DEF RanksGo
    <3> QED
      BY <2>0, <3>1 DEF RolesComeBack, NothingForgotten
  <2>2. StepsDoneOnce
    <3>1. entry # NoEntry /\ entry.going = NoProgress =>
            \A s \in ToSet(HibernateSteps) : s \in Steps /\ CheckedOff(s)
      BY RoleSets DEF CheckedOff
    <3> QED
      BY <2>0, <3>1 DEF StepsDoneOnce, StepsCounted
  <2> QED
    BY <2>0, <2>1, <2>2 DEF HibernationUndone
<1> QED
  BY <1>1, InitHibernation, HibernationStep, PTL DEF HibernationSpec

-----------------------------------------------------------------------------
(* Publishing: what waits, what is sent, and what callers were told of it. *)

AnyVersion == Versions["channel"] \cup Versions["message"]

\* The state has its shape, and who is not answered waits in one of two places.
PublishShapes ==
  /\ kind \in {"channel", "message"} /\ submitted \in Seq(AnyVersion)
  /\ answers \in Seq({"none", "applied", "refused"}) /\ Len(answers) = Len(submitted)
  /\ attempts \in 0..HttpAttempts - 1 /\ recent_edits \in Nat
  /\ worker \in {"none", "looks", "waits", "sends"}
  /\ waiting.waiters \cup active.waiters \subseteq 1..Len(submitted)
  /\ \A s \in 1..Len(submitted) : answers[s] = "none" <=> s \in waiting.waiters \cup active.waiters
  /\ worker = "none" => waiting.waiters \cup active.waiters = {}
  /\ worker = "sends" <=> active # Empty
  /\ waiting.waiters = {} => waiting = Empty
  /\ active.waiters = {} => active = Empty

\* What is being sent is older than what waits, and what was applied is older than both.
AnsweredInOrder ==
  /\ \A a \in active.waiters : \A w \in waiting.waiters : a < w
  /\ \A s, u \in 1..Len(submitted) : answers[s] = "applied" /\ answers[u] = "none" => s < u

\* Fields that are what the newest of some callers asked for, field by field on a channel.
NewestOf(form, sub, fields, callers) ==
  IF form = "channel"
    THEN /\ \A s \in callers : DOMAIN sub[s] \subseteq DOMAIN fields
         /\ \A f \in DOMAIN fields : \E v \in callers :
              /\ f \in DOMAIN sub[v] /\ fields[f] = sub[v][f]
              /\ \A s \in callers : f \in DOMAIN sub[s] => s <= v
    ELSE callers # {} => \E v \in callers : fields = sub[v] /\ \A s \in callers : s <= v

\* A version that waits or is sent is what its callers asked for last.
NewestIsSent ==
  /\ NewestOf(kind, submitted, waiting.fields, waiting.waiters)
  /\ NewestOf(kind, submitted, active.fields, active.waiters)

\* What the worker takes for shown is shown, unless a failed edit left it in doubt.
LastIsShown == \A f \in DOMAIN last \ doubtful : f \in DOMAIN remote /\ remote[f] = last[f]

\* The newest version that was applied to a channel is shown, field by field.
AppliedStaysShown ==
  kind = "channel" =>
    \A a \in 1..Len(submitted) : \A f \in DOMAIN submitted[a] \ doubtful :
      /\ answers[a] = "applied"
      /\ \A o \in 1..Len(submitted) : answers[o] = "applied" /\ f \in DOMAIN submitted[o] => o <= a
      => f \in DOMAIN remote /\ remote[f] = submitted[a][f]

PublishInv ==
  /\ PublishShapes /\ AnsweredInOrder /\ NewestIsSent /\ LastIsShown /\ AppliedStaysShown
  /\ EditsStayInLimit


\* What an answer changes, caller by caller.
LEMMA AnswersAre ==
  ASSUME PublishShapes, NEW waiters, NEW result \in {"applied", "refused"},
         Answered(waiters, result)
  PROVE  /\ answers' \in Seq({"none", "applied", "refused"}) /\ Len(answers') = Len(submitted)
         /\ \A s \in 1..Len(submitted) :
              answers'[s] = IF s \in waiters /\ answers[s] = "none" THEN result ELSE answers[s]
<1>1. DOMAIN answers = 1..Len(submitted) /\ Len(submitted) \in Nat
  BY DEF PublishShapes
<1>2. answers' = [s \in 1..Len(submitted) |-> IF s \in waiters /\ answers[s] = "none" THEN result ELSE answers[s]]
  BY <1>1 DEF Answered
<1>3. \A s \in 1..Len(submitted) : answers[s] \in {"none", "applied", "refused"}
  BY <1>1 DEF PublishShapes
<1>4. answers' \in [1..Len(submitted) -> {"none", "applied", "refused"}]
  BY <1>2, <1>3
<1> QED
  BY <1>1, <1>2, <1>4

\* A version put over an older one is what both groups of callers asked for last.
LEMMA OverIsNewest ==
  ASSUME NEW sub, NEW new, NEW old, NEW later \in SUBSET Nat, NEW earlier \in SUBSET Nat,
         NewestOf("channel", sub, new, later), NewestOf("channel", sub, old, earlier),
         \A e \in earlier : \A l \in later : e < l
  PROVE  NewestOf("channel", sub, over(new, old), later \cup earlier)
<1> DEFINE both == over(new, old)
<1>1. /\ DOMAIN both = DOMAIN new \cup DOMAIN old
      /\ \A f \in DOMAIN new : both[f] = new[f]
      /\ \A f \in DOMAIN old \ DOMAIN new : both[f] = old[f]
  BY DEF over
<1> HIDE DEF both
<1>2. \A s \in later \cup earlier : DOMAIN sub[s] \subseteq DOMAIN both
  BY <1>1 DEF NewestOf
<1>3. ASSUME NEW f \in DOMAIN both
      PROVE  \E v \in later \cup earlier :
               /\ f \in DOMAIN sub[v] /\ both[f] = sub[v][f]
               /\ \A s \in later \cup earlier : f \in DOMAIN sub[s] => s <= v
  <2>1. CASE f \in DOMAIN new
    <3>1. PICK v \in later : /\ f \in DOMAIN sub[v] /\ new[f] = sub[v][f]
                             /\ \A s \in later : f \in DOMAIN sub[s] => s <= v
      BY <2>1 DEF NewestOf
    <3>2. \A s \in earlier : s <= v
      OBVIOUS
    <3> QED
      BY <1>1, <2>1, <3>1, <3>2
  <2>2. CASE f \notin DOMAIN new
    <3>1. f \in DOMAIN old /\ both[f] = old[f]
      BY <1>1, <2>2
    <3>2. PICK v \in earlier : /\ f \in DOMAIN sub[v] /\ old[f] = sub[v][f]
                               /\ \A s \in earlier : f \in DOMAIN sub[s] => s <= v
      BY <3>1 DEF NewestOf
    <3>3. \A s \in later : f \notin DOMAIN sub[s]
      BY <2>2 DEF NewestOf
    <3> QED
      BY <3>1, <3>2, <3>3
  <2> QED
    BY <2>1, <2>2
<1> QED
  BY <1>2, <1>3 DEF NewestOf, both

\* A version is what its caller asked for.
LEMMA OwnIsNewest ==
  ASSUME NEW form, NEW sub, NEW s \in Nat
  PROVE  NewestOf(form, sub, sub[s], {s})
BY DEF NewestOf

\* Of nobody, nothing is the newest.
LEMMA NothingIsNewest ==
  ASSUME NEW form, NEW sub
  PROVE  NewestOf(form, sub, Empty.fields, Empty.waiters) /\ Empty.waiters = {}
BY DEF NewestOf, Empty

\* What a failed edit did leaves the fields that are not in doubt.
LEMMA MaybeShowsIs ==
  ASSUME MaybeShows
  PROVE  /\ doubtful \subseteq doubtful'
         /\ \A f \in DOMAIN remote \ doubtful' : f \in DOMAIN remote' /\ remote'[f] = remote[f]
<1>1. CASE UNCHANGED <<remote, doubtful>>
  BY <1>1
<1>2. CASE Shows(active.fields) /\ doubtful' = doubtful \cup DOMAIN active.fields
  <2>1. remote' = over(active.fields, remote)
    BY <1>2 DEF Shows
  <2>2. /\ DOMAIN remote' = DOMAIN active.fields \cup DOMAIN remote
        /\ \A f \in DOMAIN remote \ DOMAIN active.fields : remote'[f] = remote[f]
    BY <2>1 DEF over
  <2> QED
    BY <1>2, <2>2
<1> QED
  BY <1>1, <1>2 DEF MaybeShows

\* The callers of a version that is shown now may be told so: the newest stays shown.
LEMMA ToldIsShown ==
  ASSUME PublishShapes, AnsweredInOrder, AppliedStaysShown, UNCHANGED <<kind, submitted>>,
         NEW fields, NEW callers \in SUBSET (1..Len(submitted)),
         kind = "channel" => NewestOf("channel", submitted, fields, callers),
         \A c \in callers : answers[c] = "none",
         \A s \in 1..Len(submitted) :
           answers'[s] = IF s \in callers /\ answers[s] = "none" THEN "applied" ELSE answers[s],
         \A f \in DOMAIN fields \ doubtful' : f \in DOMAIN remote' /\ remote'[f] = fields[f],
         \A f : f \notin DOMAIN fields /\ f \notin doubtful' =>
           /\ f \notin doubtful
           /\ f \in DOMAIN remote => f \in DOMAIN remote' /\ remote'[f] = remote[f]
  PROVE  AppliedStaysShown'
<1> SUFFICES ASSUME kind = "channel",
                    NEW a \in 1..Len(submitted), NEW f \in DOMAIN submitted[a] \ doubtful',
                    answers'[a] = "applied",
                    \A o \in 1..Len(submitted) :
                      answers'[o] = "applied" /\ f \in DOMAIN submitted[o] => o <= a
             PROVE  f \in DOMAIN remote' /\ remote'[f] = submitted[a][f]
  BY DEF AppliedStaysShown
<1>0. Len(submitted) \in Nat
  BY DEF PublishShapes
<1>1. CASE f \in DOMAIN fields
  <2>1. PICK v \in callers : /\ f \in DOMAIN submitted[v] /\ fields[f] = submitted[v][f]
                             /\ \A s \in callers : f \in DOMAIN submitted[s] => s <= v
    BY <1>1 DEF NewestOf
  <2>2. v <= a
    BY <2>1
  <2>3. a \in callers
    <3> SUFFICES ASSUME a \notin callers PROVE FALSE
      OBVIOUS
    <3>1. answers[a] = "applied"
      OBVIOUS
    <3>2. answers[v] = "none" /\ v \in 1..Len(submitted)
      BY <2>1
    <3>3. a < v
      BY <3>1, <3>2 DEF AnsweredInOrder
    <3> QED
      BY <1>0, <2>2, <3>2, <3>3
  <2>4. a = v
    BY <1>0, <2>1, <2>2, <2>3
  <2> QED
    BY <1>1, <2>1, <2>4
<1>2. CASE f \notin DOMAIN fields
  <2>1. a \notin callers /\ answers[a] = "applied"
    BY <1>2 DEF NewestOf
  <2>2. \A o \in 1..Len(submitted) : answers[o] = "applied" => answers'[o] = "applied"
    OBVIOUS
  <2>3. f \in DOMAIN remote /\ remote[f] = submitted[a][f]
    BY <1>2, <2>1, <2>2 DEF AppliedStaysShown
  <2> QED
    BY <1>2, <2>3
<1> QED
  BY <1>1, <1>2

\* Nobody is told more: what is shown stays shown.
LEMMA RefusedIsShown ==
  ASSUME AppliedStaysShown, UNCHANGED <<kind, submitted>>, doubtful \subseteq doubtful',
         \A s \in 1..Len(submitted) : answers'[s] = "applied" <=> answers[s] = "applied",
         \A f \in DOMAIN remote \ doubtful' : f \in DOMAIN remote' /\ remote'[f] = remote[f]
  PROVE  AppliedStaysShown'
<1> SUFFICES ASSUME kind = "channel",
                    NEW a \in 1..Len(submitted), NEW f \in DOMAIN submitted[a] \ doubtful',
                    answers'[a] = "applied",
                    \A o \in 1..Len(submitted) :
                      answers'[o] = "applied" /\ f \in DOMAIN submitted[o] => o <= a
             PROVE  f \in DOMAIN remote' /\ remote'[f] = submitted[a][f]
  BY DEF AppliedStaysShown
<1>1. f \in DOMAIN remote /\ remote[f] = submitted[a][f]
  BY DEF AppliedStaysShown
<1> QED
  BY <1>1

\* A new version waits, replaces or completes the one that waits, or is refused.
LEMMA SubmitKeeps ==
  ASSUME PublishInv, NEW fields \in Versions[kind], Submit(fields)
  PROVE  PublishInv'
<1>0. PublishShapes /\ AnsweredInOrder /\ NewestIsSent /\ LastIsShown /\ AppliedStaysShown /\ EditsStayInLimit
  BY DEF PublishInv
<1> DEFINE s == Len(submitted) + 1
<1>1. /\ submitted' = Append(submitted, fields)
      /\ UNCHANGED <<kind, active, last, attempts, recent_edits, remote, doubtful>>
  BY DEF Submit
<1>2. fields \in AnyVersion /\ Len(submitted) \in Nat
  BY <1>0 DEF PublishShapes, AnyVersion
<1>3. /\ submitted' \in Seq(AnyVersion) /\ Len(submitted') = s /\ submitted'[s] = fields
      /\ \A t \in 1..Len(submitted) : submitted'[t] = submitted[t]
  BY <1>0, <1>1, <1>2 DEF PublishShapes
<1>4. /\ s \in Nat /\ s \notin 1..Len(submitted) /\ 1..s = (1..Len(submitted)) \cup {s}
      /\ \A t \in 1..Len(submitted) : t < s /\ t <= s
  BY <1>2
<1> HIDE DEF s
<1>5. \E word \in {"none", "refused"} : answers' = Append(answers, word)
  BY DEF Submit
<1>6. /\ answers' \in Seq({"none", "applied", "refused"}) /\ Len(answers') = s
      /\ \A t \in 1..Len(submitted) : answers'[t] = answers[t]
      /\ answers'[s] # "applied"
  BY <1>0, <1>2, <1>5 DEF PublishShapes, s
<1>7. \/ answers'[s] = "refused" /\ waiting' = waiting /\ worker' = worker
      \/ /\ answers'[s] = "none"
         /\ waiting' = [fields |-> merged(fields, waiting.fields), waiters |-> waiting.waiters \cup {s}]
         /\ worker' = IF worker \in {"none", "waits"} THEN "looks" ELSE worker
  BY <1>0, <1>2 DEF Submit, PublishShapes, s
<1>8. \/ answers'[s] = "refused" /\ waiting' = waiting /\ worker' = worker
      \/ /\ answers'[s] = "none" /\ worker' # "none"
         /\ worker' = IF worker \in {"none", "waits"} THEN "looks" ELSE worker
         /\ waiting'.waiters = waiting.waiters \cup {s}
         /\ waiting'.fields = merged(fields, waiting.fields)
  BY <1>0, <1>7 DEF PublishShapes
<1>10. PublishShapes'
  <2>1. /\ kind' \in {"channel", "message"} /\ attempts' \in 0..HttpAttempts - 1 /\ recent_edits' \in Nat
        /\ worker' \in {"none", "looks", "waits", "sends"}
    BY <1>0, <1>1, <1>8 DEF PublishShapes
  <2>2. waiting'.waiters \cup active'.waiters \subseteq 1..Len(submitted')
    BY <1>0, <1>1, <1>3, <1>4, <1>8 DEF PublishShapes
  <2>3. \A t \in 1..Len(submitted') : answers'[t] = "none" <=> t \in waiting'.waiters \cup active'.waiters
    BY <1>0, <1>1, <1>3, <1>4, <1>6, <1>8 DEF PublishShapes
  <2>4. /\ worker' = "none" => waiting'.waiters \cup active'.waiters = {}
        /\ worker' = "sends" <=> active' # Empty
    BY <1>0, <1>1, <1>8 DEF PublishShapes
  <2>5. /\ waiting'.waiters = {} => waiting' = Empty
        /\ active'.waiters = {} => active' = Empty
    BY <1>0, <1>1, <1>8 DEF PublishShapes
  <2> QED
    BY <1>1, <1>3, <1>6, <2>1, <2>2, <2>3, <2>4, <2>5 DEF PublishShapes
<1>11. AnsweredInOrder'
  <2>1. \A a \in active'.waiters : \A w \in waiting'.waiters : a < w
    BY <1>0, <1>1, <1>4, <1>8 DEF AnsweredInOrder, PublishShapes
  <2> QED
    BY <1>0, <1>3, <1>4, <1>6, <2>1 DEF AnsweredInOrder
<1>12. NewestIsSent'
  <2>1. \A item \in {waiting, active} : NewestOf(kind, submitted', item.fields, item.waiters)
    <3>1. \A item \in {waiting, active} : \A t \in item.waiters : submitted'[t] = submitted[t]
      BY <1>0, <1>3 DEF PublishShapes
    <3> QED
      BY <1>0, <3>1 DEF NewestIsSent, NewestOf
  <2>2. CASE waiting' = waiting
    BY <1>1, <2>1, <2>2 DEF NewestIsSent
  <2>3. CASE waiting'.waiters = waiting.waiters \cup {s} /\ waiting'.fields = merged(fields, waiting.fields)
    <3>1. CASE kind = "channel"
      <4>1. waiting'.fields = over(fields, waiting.fields)
        BY <2>3, <3>1 DEF merged
      <4>2. NewestOf("channel", submitted', fields, {s})
        BY <1>3, <1>4, OwnIsNewest
      <4>3. /\ NewestOf("channel", submitted', waiting.fields, waiting.waiters)
            /\ waiting.waiters \in SUBSET Nat /\ {s} \in SUBSET Nat
            /\ \A e \in waiting.waiters : \A l \in {s} : e < l
        BY <1>0, <1>4, <2>1, <3>1 DEF PublishShapes
      <4>4. NewestOf("channel", submitted', over(fields, waiting.fields), {s} \cup waiting.waiters)
        BY <4>2, <4>3, OverIsNewest
      <4>5. {s} \cup waiting.waiters = waiting'.waiters
        BY <2>3
      <4> QED
        BY <1>1, <2>1, <3>1, <4>1, <4>4, <4>5 DEF NewestIsSent
    <3>2. CASE kind # "channel"
      <4>1. waiting'.fields = submitted'[s]
        BY <1>3, <2>3, <3>2 DEF merged
      <4>2. \A t \in waiting'.waiters : t <= s
        BY <1>0, <1>4, <2>3 DEF PublishShapes
      <4>3. NewestOf(kind, submitted', waiting'.fields, waiting'.waiters)
        BY <2>3, <3>2, <4>1, <4>2 DEF NewestOf
      <4> QED
        BY <1>1, <2>1, <4>3 DEF NewestIsSent
    <3> QED
      BY <3>1, <3>2
  <2> QED
    BY <1>8, <2>2, <2>3
<1>13. LastIsShown'
  BY <1>0, <1>1 DEF LastIsShown
<1>14. AppliedStaysShown'
  BY <1>0, <1>1, <1>3, <1>4, <1>6 DEF AppliedStaysShown
<1>15. EditsStayInLimit'
  BY <1>0, <1>1 DEF EditsStayInLimit
<1> QED
  BY <1>10, <1>11, <1>12, <1>13, <1>14, <1>15 DEF PublishInv

\* What is shown already counts as applied.
LEMMA SkipKeeps ==
  ASSUME PublishInv, Skip
  PROVE  PublishInv'
<1>0. PublishShapes /\ AnsweredInOrder /\ NewestIsSent /\ LastIsShown /\ AppliedStaysShown /\ EditsStayInLimit
  BY DEF PublishInv
<1>1. UNCHANGED <<kind, submitted, recent_edits>> /\ attempts' \in {0, attempts} /\ worker' = "looks"
  BY DEF Skip, Looks
<1>2. /\ answers' \in Seq({"none", "applied", "refused"}) /\ Len(answers') = Len(submitted)
      /\ \A s \in 1..Len(submitted) :
           answers'[s] = IF s \in waiting.waiters /\ answers[s] = "none" THEN "applied" ELSE answers[s]
  BY <1>0, AnswersAre DEF Skip, Looks
<1>3. /\ waiting' = Empty /\ active' = Empty /\ Empty.waiters = {} /\ active = Empty
      /\ waiting.waiters \in SUBSET (1..Len(submitted))
      /\ \A c \in waiting.waiters : answers[c] = "none"
  BY <1>0, NothingIsNewest DEF Skip, Looks, PublishShapes
<1>4. \A f \in DOMAIN waiting.fields \ doubtful' : f \in DOMAIN remote' /\ remote'[f] = waiting.fields[f]
  <2>1. DOMAIN waiting.fields \subseteq DOMAIN last
         /\ \A f \in DOMAIN waiting.fields : last[f] = waiting.fields[f]
    BY DEF Skip, identical
  <2> QED
    BY <1>0, <2>1 DEF Skip, Looks, LastIsShown
<1>5. \A f : f \notin DOMAIN waiting.fields /\ f \notin doubtful' =>
        /\ f \notin doubtful
        /\ f \in DOMAIN remote => f \in DOMAIN remote' /\ remote'[f] = remote[f]
  BY DEF Skip, Looks
<1>10. PublishShapes'
  <2>1. /\ kind' \in {"channel", "message"} /\ submitted' \in Seq(AnyVersion)
        /\ answers' \in Seq({"none", "applied", "refused"}) /\ Len(answers') = Len(submitted')
    BY <1>0, <1>1, <1>2, <1>3 DEF PublishShapes
  <2>2. attempts' \in 0..HttpAttempts - 1 /\ recent_edits' \in Nat
    BY <1>0, <1>1, <1>2, <1>3, PublishAssumption DEF PublishShapes
  <2>3. /\ waiting'.waiters \cup active'.waiters \subseteq 1..Len(submitted')
        /\ \A s \in 1..Len(submitted') :
             answers'[s] = "none" <=> s \in waiting'.waiters \cup active'.waiters
    BY <1>0, <1>1, <1>2, <1>3 DEF PublishShapes
  <2>4. /\ worker' \in {"none", "looks", "waits", "sends"}
        /\ worker' = "none" => waiting'.waiters \cup active'.waiters = {}
        /\ worker' = "sends" <=> active' # Empty
    BY <1>0, <1>1, <1>2, <1>3 DEF PublishShapes
  <2>5. /\ waiting'.waiters = {} => waiting' = Empty
        /\ active'.waiters = {} => active' = Empty
    BY <1>0, <1>1, <1>2, <1>3 DEF PublishShapes
  <2> QED
    BY <2>1, <2>2, <2>3, <2>4, <2>5 DEF PublishShapes
<1>11. AnsweredInOrder'
  <2>1. \A a \in active'.waiters : \A w \in waiting'.waiters : a < w
    BY <1>0, <1>1, <1>2, <1>3 DEF AnsweredInOrder
  <2>2. \A s, u \in 1..Len(submitted') : answers'[s] = "applied" /\ answers'[u] = "none" => s < u
    BY <1>0, <1>1, <1>2, <1>3 DEF AnsweredInOrder, PublishShapes
  <2> QED
    BY <2>1, <2>2 DEF AnsweredInOrder
<1>12. NewestIsSent'
  BY <1>0, <1>1, <1>3, NothingIsNewest DEF NewestIsSent
<1>13. LastIsShown'
  BY <1>0 DEF Skip, Looks, LastIsShown
<1>14. AppliedStaysShown'
  <2>1. kind = "channel" => NewestOf("channel", submitted, waiting.fields, waiting.waiters)
    BY <1>0 DEF NewestIsSent
  <2> HIDE DEF AppliedStaysShown
  <2> QED
    BY <1>0, <1>1, <1>2, <1>3, <1>4, <1>5, <2>1, ToldIsShown
<1>15. EditsStayInLimit'
  BY <1>0, <1>1 DEF EditsStayInLimit
<1> QED
  BY <1>10, <1>11, <1>12, <1>13, <1>14, <1>15 DEF PublishInv

\* The worker waits for its time.
LEMMA WaitToSendKeeps ==
  ASSUME PublishInv, WaitToSend
  PROVE  PublishInv'
<1>0. PublishShapes /\ AnsweredInOrder /\ NewestIsSent /\ LastIsShown /\ AppliedStaysShown /\ EditsStayInLimit
  BY DEF PublishInv
<1>1. /\ UNCHANGED <<kind, submitted, answers, last, remote, doubtful>>
      /\ UNCHANGED <<waiting, active, attempts, recent_edits>>
      /\ worker' = "waits" /\ active = Empty
  BY <1>0, NothingIsNewest DEF WaitToSend, Looks, PublishShapes
<1>10. PublishShapes'
  <2>1. /\ kind' \in {"channel", "message"} /\ submitted' \in Seq(AnyVersion)
        /\ answers' \in Seq({"none", "applied", "refused"}) /\ Len(answers') = Len(submitted')
    BY <1>0, <1>1 DEF PublishShapes
  <2>2. attempts' \in 0..HttpAttempts - 1 /\ recent_edits' \in Nat
    BY <1>0, <1>1, PublishAssumption DEF PublishShapes
  <2>3. /\ waiting'.waiters \cup active'.waiters \subseteq 1..Len(submitted')
        /\ \A s \in 1..Len(submitted') :
             answers'[s] = "none" <=> s \in waiting'.waiters \cup active'.waiters
    BY <1>0, <1>1 DEF PublishShapes
  <2>4. /\ worker' \in {"none", "looks", "waits", "sends"}
        /\ worker' = "none" => waiting'.waiters \cup active'.waiters = {}
        /\ worker' = "sends" <=> active' # Empty
    BY <1>0, <1>1 DEF PublishShapes
  <2>5. /\ waiting'.waiters = {} => waiting' = Empty
        /\ active'.waiters = {} => active' = Empty
    BY <1>0, <1>1 DEF PublishShapes
  <2> QED
    BY <2>1, <2>2, <2>3, <2>4, <2>5 DEF PublishShapes
<1>11. AnsweredInOrder'
  <2>1. \A a \in active'.waiters : \A w \in waiting'.waiters : a < w
    BY <1>0, <1>1 DEF AnsweredInOrder
  <2>2. \A s, u \in 1..Len(submitted') : answers'[s] = "applied" /\ answers'[u] = "none" => s < u
    BY <1>0, <1>1 DEF AnsweredInOrder, PublishShapes
  <2> QED
    BY <2>1, <2>2 DEF AnsweredInOrder
<1>12. NewestIsSent'
  BY <1>0, <1>1, NothingIsNewest DEF NewestIsSent
<1>13. LastIsShown'
  BY <1>0, <1>1 DEF LastIsShown
<1>14. AppliedStaysShown'
  BY <1>0, <1>1 DEF AppliedStaysShown
<1>15. EditsStayInLimit'
  BY <1>0, <1>1 DEF EditsStayInLimit
<1> QED
  BY <1>10, <1>11, <1>12, <1>13, <1>14, <1>15 DEF PublishInv

\* The worker takes what waits.
LEMMA TakeKeeps ==
  ASSUME PublishInv, Take
  PROVE  PublishInv'
<1>0. PublishShapes /\ AnsweredInOrder /\ NewestIsSent /\ LastIsShown /\ AppliedStaysShown /\ EditsStayInLimit
  BY DEF PublishInv
<1>1. /\ UNCHANGED <<kind, submitted, answers, last, remote, doubtful>>
      /\ UNCHANGED attempts /\ worker' = "sends" /\ active = Empty /\ Empty.waiters = {}
      /\ active' = waiting /\ waiting' = Empty /\ waiting.waiters # {}
      /\ recent_edits' = IF limited(waiting) THEN recent_edits + 1 ELSE recent_edits
  BY <1>0, NothingIsNewest DEF Take, Looks, PublishShapes
<1>10. PublishShapes'
  <2>1. /\ kind' \in {"channel", "message"} /\ submitted' \in Seq(AnyVersion)
        /\ answers' \in Seq({"none", "applied", "refused"}) /\ Len(answers') = Len(submitted')
    BY <1>0, <1>1 DEF PublishShapes
  <2>2. attempts' \in 0..HttpAttempts - 1 /\ recent_edits' \in Nat
    BY <1>0, <1>1, PublishAssumption DEF PublishShapes
  <2>3. /\ waiting'.waiters \cup active'.waiters \subseteq 1..Len(submitted')
        /\ \A s \in 1..Len(submitted') :
             answers'[s] = "none" <=> s \in waiting'.waiters \cup active'.waiters
    BY <1>0, <1>1 DEF PublishShapes
  <2>4. /\ worker' \in {"none", "looks", "waits", "sends"}
        /\ worker' = "none" => waiting'.waiters \cup active'.waiters = {}
        /\ worker' = "sends" <=> active' # Empty
    BY <1>0, <1>1 DEF PublishShapes
  <2>5. /\ waiting'.waiters = {} => waiting' = Empty
        /\ active'.waiters = {} => active' = Empty
    BY <1>0, <1>1 DEF PublishShapes
  <2> QED
    BY <2>1, <2>2, <2>3, <2>4, <2>5 DEF PublishShapes
<1>11. AnsweredInOrder'
  <2>1. \A a \in active'.waiters : \A w \in waiting'.waiters : a < w
    BY <1>0, <1>1 DEF AnsweredInOrder
  <2>2. \A s, u \in 1..Len(submitted') : answers'[s] = "applied" /\ answers'[u] = "none" => s < u
    BY <1>0, <1>1 DEF AnsweredInOrder, PublishShapes
  <2> QED
    BY <2>1, <2>2 DEF AnsweredInOrder
<1>12. NewestIsSent'
  BY <1>0, <1>1, NothingIsNewest DEF NewestIsSent
<1>13. LastIsShown'
  BY <1>0, <1>1 DEF LastIsShown
<1>14. AppliedStaysShown'
  BY <1>0, <1>1 DEF AppliedStaysShown
<1>15. EditsStayInLimit'
  <2>1. limited(waiting) => recent_edits < EditLimit
    BY <1>0, PublishAssumption DEF Take, must_wait, PublishShapes
  <2> QED
    BY <1>0, <1>1, <2>1, PublishAssumption DEF EditsStayInLimit, PublishShapes
<1> QED
  BY <1>10, <1>11, <1>12, <1>13, <1>14, <1>15 DEF PublishInv

\* A version that cannot be compared is refused.
LEMMA BreaksKeeps ==
  ASSUME PublishInv, Breaks
  PROVE  PublishInv'
<1>0. PublishShapes /\ AnsweredInOrder /\ NewestIsSent /\ LastIsShown /\ AppliedStaysShown /\ EditsStayInLimit
  BY DEF PublishInv
<1>1. /\ UNCHANGED <<kind, submitted, last, recent_edits>>
      /\ attempts' = 0
      /\ worker' = "none" /\ active = Empty
  BY <1>0 DEF Breaks, Looks, PublishShapes
<1>2. /\ answers' \in Seq({"none", "applied", "refused"}) /\ Len(answers') = Len(submitted)
      /\ \A s \in 1..Len(submitted) :
           answers'[s] = IF s \in waiting.waiters /\ answers[s] = "none" THEN "refused" ELSE answers[s]
  BY <1>0, AnswersAre DEF Breaks, Looks
<1>3. waiting' = Empty /\ active' = Empty /\ Empty.waiters = {}
  BY <1>0, NothingIsNewest DEF Breaks, Looks, PublishShapes
<1>4. /\ doubtful \subseteq doubtful'
      /\ \A f \in DOMAIN remote \ doubtful' : f \in DOMAIN remote' /\ remote'[f] = remote[f]
  BY MaybeShowsIs DEF Breaks, Looks
<1>10. PublishShapes'
  <2>1. /\ kind' \in {"channel", "message"} /\ submitted' \in Seq(AnyVersion)
        /\ answers' \in Seq({"none", "applied", "refused"}) /\ Len(answers') = Len(submitted')
    BY <1>0, <1>1, <1>2, <1>3 DEF PublishShapes
  <2>2. attempts' \in 0..HttpAttempts - 1 /\ recent_edits' \in Nat
    BY <1>0, <1>1, <1>2, <1>3, PublishAssumption DEF PublishShapes
  <2>3. /\ waiting'.waiters \cup active'.waiters \subseteq 1..Len(submitted')
        /\ \A s \in 1..Len(submitted') :
             answers'[s] = "none" <=> s \in waiting'.waiters \cup active'.waiters
    BY <1>0, <1>1, <1>2, <1>3 DEF PublishShapes
  <2>4. /\ worker' \in {"none", "looks", "waits", "sends"}
        /\ worker' = "none" => waiting'.waiters \cup active'.waiters = {}
        /\ worker' = "sends" <=> active' # Empty
    BY <1>0, <1>1, <1>2, <1>3 DEF PublishShapes
  <2>5. /\ waiting'.waiters = {} => waiting' = Empty
        /\ active'.waiters = {} => active' = Empty
    BY <1>0, <1>1, <1>2, <1>3 DEF PublishShapes
  <2> QED
    BY <2>1, <2>2, <2>3, <2>4, <2>5 DEF PublishShapes
<1>11. AnsweredInOrder'
  <2>1. \A a \in active'.waiters : \A w \in waiting'.waiters : a < w
    BY <1>0, <1>1, <1>2, <1>3 DEF AnsweredInOrder
  <2>2. \A s, u \in 1..Len(submitted') : answers'[s] = "applied" /\ answers'[u] = "none" => s < u
    BY <1>0, <1>1, <1>2, <1>3 DEF AnsweredInOrder, PublishShapes
  <2> QED
    BY <2>1, <2>2 DEF AnsweredInOrder
<1>12. NewestIsSent'
  BY <1>0, <1>1, <1>3, NothingIsNewest DEF NewestIsSent
<1>13. LastIsShown'
  BY <1>0, <1>1, <1>4 DEF LastIsShown
<1>14. AppliedStaysShown'
  BY <1>0, <1>1, <1>2, <1>4, RefusedIsShown
<1>15. EditsStayInLimit'
  BY <1>0, <1>1 DEF EditsStayInLimit
<1> QED
  BY <1>10, <1>11, <1>12, <1>13, <1>14, <1>15 DEF PublishInv

\* Nothing waits and the worker ends.
LEMMA WorkerEndsKeeps ==
  ASSUME PublishInv, WorkerEnds
  PROVE  PublishInv'
<1>0. PublishShapes /\ AnsweredInOrder /\ NewestIsSent /\ LastIsShown /\ AppliedStaysShown /\ EditsStayInLimit
  BY DEF PublishInv
<1>1. /\ UNCHANGED <<kind, submitted, answers, last, remote, doubtful>>
      /\ UNCHANGED <<waiting, active, recent_edits>> /\ attempts' = 0 /\ Empty.waiters = {}
      /\ worker' = "none" /\ waiting.waiters = {} /\ active = Empty
  BY <1>0, NothingIsNewest DEF WorkerEnds, PublishShapes
<1>10. PublishShapes'
  <2>1. /\ kind' \in {"channel", "message"} /\ submitted' \in Seq(AnyVersion)
        /\ answers' \in Seq({"none", "applied", "refused"}) /\ Len(answers') = Len(submitted')
    BY <1>0, <1>1 DEF PublishShapes
  <2>2. attempts' \in 0..HttpAttempts - 1 /\ recent_edits' \in Nat
    BY <1>0, <1>1, PublishAssumption DEF PublishShapes
  <2>3. /\ waiting'.waiters \cup active'.waiters \subseteq 1..Len(submitted')
        /\ \A s \in 1..Len(submitted') :
             answers'[s] = "none" <=> s \in waiting'.waiters \cup active'.waiters
    BY <1>0, <1>1 DEF PublishShapes
  <2>4. /\ worker' \in {"none", "looks", "waits", "sends"}
        /\ worker' = "none" => waiting'.waiters \cup active'.waiters = {}
        /\ worker' = "sends" <=> active' # Empty
    BY <1>0, <1>1 DEF PublishShapes
  <2>5. /\ waiting'.waiters = {} => waiting' = Empty
        /\ active'.waiters = {} => active' = Empty
    BY <1>0, <1>1 DEF PublishShapes
  <2> QED
    BY <2>1, <2>2, <2>3, <2>4, <2>5 DEF PublishShapes
<1>11. AnsweredInOrder'
  <2>1. \A a \in active'.waiters : \A w \in waiting'.waiters : a < w
    BY <1>0, <1>1 DEF AnsweredInOrder
  <2>2. \A s, u \in 1..Len(submitted') : answers'[s] = "applied" /\ answers'[u] = "none" => s < u
    BY <1>0, <1>1 DEF AnsweredInOrder, PublishShapes
  <2> QED
    BY <2>1, <2>2 DEF AnsweredInOrder
<1>12. NewestIsSent'
  BY <1>0, <1>1, NothingIsNewest DEF NewestIsSent
<1>13. LastIsShown'
  BY <1>0, <1>1 DEF LastIsShown
<1>14. AppliedStaysShown'
  BY <1>0, <1>1 DEF AppliedStaysShown
<1>15. EditsStayInLimit'
  BY <1>0, <1>1 DEF EditsStayInLimit
<1> QED
  BY <1>10, <1>11, <1>12, <1>13, <1>14, <1>15 DEF PublishInv

\* An edit is shown and its callers are told.
LEMMA SucceedKeeps ==
  ASSUME PublishInv, Succeed
  PROVE  PublishInv'
<1>0. PublishShapes /\ AnsweredInOrder /\ NewestIsSent /\ LastIsShown /\ AppliedStaysShown /\ EditsStayInLimit
  BY DEF PublishInv
<1>1. UNCHANGED <<kind, submitted, recent_edits>> /\ attempts' \in {0, attempts} /\ worker' = "looks"
  BY DEF Succeed, Sent
<1>2. /\ answers' \in Seq({"none", "applied", "refused"}) /\ Len(answers') = Len(submitted)
      /\ \A s \in 1..Len(submitted) :
           answers'[s] = IF s \in active.waiters /\ answers[s] = "none" THEN "applied" ELSE answers[s]
  BY <1>0, AnswersAre DEF Succeed, Sent
<1>3. /\ waiting' = waiting /\ active' = Empty /\ Empty.waiters = {}
      /\ active.waiters \in SUBSET (1..Len(submitted))
      /\ \A c \in active.waiters : answers[c] = "none"
  BY <1>0, NothingIsNewest DEF Succeed, Sent, PublishShapes
<1>4. \A f \in DOMAIN active.fields \ doubtful' : f \in DOMAIN remote' /\ remote'[f] = active.fields[f]
  <2>1. remote' = over(active.fields, remote)
    BY DEF Succeed, Shows
  <2> QED
    BY <2>1 DEF over
<1>5. \A f : f \notin DOMAIN active.fields /\ f \notin doubtful' =>
        /\ f \notin doubtful
        /\ f \in DOMAIN remote => f \in DOMAIN remote' /\ remote'[f] = remote[f]
  <2>1. remote' = over(active.fields, remote) /\ doubtful' = doubtful \ DOMAIN active.fields
    BY DEF Succeed, Shows
  <2> QED
    BY <2>1 DEF over
<1>10. PublishShapes'
  <2>0. active.waiters \cap waiting.waiters = {}
    BY <1>0 DEF AnsweredInOrder, PublishShapes
  <2>1. /\ kind' \in {"channel", "message"} /\ submitted' \in Seq(AnyVersion)
        /\ answers' \in Seq({"none", "applied", "refused"}) /\ Len(answers') = Len(submitted')
    BY <1>0, <1>1, <1>2, <1>3 DEF PublishShapes
  <2>2. attempts' \in 0..HttpAttempts - 1 /\ recent_edits' \in Nat
    BY <1>0, <1>1, <1>2, <1>3, PublishAssumption DEF PublishShapes
  <2>3. /\ waiting'.waiters \cup active'.waiters \subseteq 1..Len(submitted')
        /\ \A s \in 1..Len(submitted') :
             answers'[s] = "none" <=> s \in waiting'.waiters \cup active'.waiters
    BY <1>0, <1>1, <1>2, <1>3, <2>0 DEF PublishShapes
  <2>4. /\ worker' \in {"none", "looks", "waits", "sends"}
        /\ worker' = "none" => waiting'.waiters \cup active'.waiters = {}
        /\ worker' = "sends" <=> active' # Empty
    BY <1>0, <1>1, <1>2, <1>3 DEF PublishShapes
  <2>5. /\ waiting'.waiters = {} => waiting' = Empty
        /\ active'.waiters = {} => active' = Empty
    BY <1>0, <1>1, <1>2, <1>3 DEF PublishShapes
  <2> QED
    BY <2>1, <2>2, <2>3, <2>4, <2>5 DEF PublishShapes
<1>11. AnsweredInOrder'
  <2>1. \A a \in active'.waiters : \A w \in waiting'.waiters : a < w
    BY <1>0, <1>1, <1>2, <1>3 DEF AnsweredInOrder
  <2>2. \A s, u \in 1..Len(submitted') : answers'[s] = "applied" /\ answers'[u] = "none" => s < u
    BY SMTT(30), <1>0, <1>1, <1>2, <1>3 DEF AnsweredInOrder, PublishShapes
  <2> QED
    BY <2>1, <2>2 DEF AnsweredInOrder
<1>12. NewestIsSent'
  BY <1>0, <1>1, <1>3, NothingIsNewest DEF NewestIsSent
<1>13. LastIsShown'
  <2>1. CASE last' = active.fields
    BY <1>4, <2>1 DEF LastIsShown
  <2>2. CASE last' = over(active.fields, last)
    <3>1. /\ DOMAIN last' = DOMAIN active.fields \cup DOMAIN last
          /\ \A f \in DOMAIN active.fields : last'[f] = active.fields[f]
          /\ \A f \in DOMAIN last \ DOMAIN active.fields : last'[f] = last[f]
      BY <2>2 DEF over
    <3> QED
      BY <1>0, <1>4, <1>5, <3>1 DEF LastIsShown
  <2> QED
    BY <2>1, <2>2 DEF Succeed
<1>14. AppliedStaysShown'
  <2>1. kind = "channel" => NewestOf("channel", submitted, active.fields, active.waiters)
    BY <1>0 DEF NewestIsSent
  <2> HIDE DEF AppliedStaysShown
  <2> QED
    BY <1>0, <1>1, <1>2, <1>3, <1>4, <1>5, <2>1, ToldIsShown
<1>15. EditsStayInLimit'
  BY <1>0, <1>1 DEF EditsStayInLimit
<1> QED
  BY <1>10, <1>11, <1>12, <1>13, <1>14, <1>15 DEF PublishInv

\* A failed edit waits again, under what came meanwhile.
LEMMA FailRetryingKeeps ==
  ASSUME PublishInv, FailRetrying
  PROVE  PublishInv'
<1>0. PublishShapes /\ AnsweredInOrder /\ NewestIsSent /\ LastIsShown /\ AppliedStaysShown /\ EditsStayInLimit
  BY DEF PublishInv
<1>1. /\ UNCHANGED <<kind, submitted, answers, last, recent_edits>> /\ attempts' = attempts + 1
      /\ attempts + 1 < HttpAttempts /\ worker = "sends" /\ worker' = "looks" /\ active' = Empty
      /\ Empty.waiters = {} /\ active.waiters # {}
  BY <1>0, NothingIsNewest DEF FailRetrying, Sent, PublishShapes
<1>2. \/ /\ waiting = Empty /\ waiting'.fields = active.fields
         /\ waiting'.waiters = active.waiters
      \/ /\ waiting # Empty /\ waiting'.fields = merged(waiting.fields, active.fields)
         /\ waiting'.waiters = active.waiters \cup waiting.waiters
  BY DEF FailRetrying, carried
<1>3. waiting'.waiters = active.waiters \cup waiting.waiters
  BY <1>1, <1>2
<1>4. /\ doubtful \subseteq doubtful'
      /\ \A f \in DOMAIN remote \ doubtful' : f \in DOMAIN remote' /\ remote'[f] = remote[f]
  BY MaybeShowsIs DEF FailRetrying
<1>10. PublishShapes'
  <2>1. /\ kind' \in {"channel", "message"} /\ submitted' \in Seq(AnyVersion)
        /\ answers' \in Seq({"none", "applied", "refused"}) /\ Len(answers') = Len(submitted')
    BY <1>0, <1>1, <1>3 DEF PublishShapes
  <2>2. attempts' \in 0..HttpAttempts - 1 /\ recent_edits' \in Nat
    BY <1>0, <1>1, <1>3, PublishAssumption DEF PublishShapes
  <2>3. /\ waiting'.waiters \cup active'.waiters \subseteq 1..Len(submitted')
        /\ \A s \in 1..Len(submitted') :
             answers'[s] = "none" <=> s \in waiting'.waiters \cup active'.waiters
    BY <1>0, <1>1, <1>3 DEF PublishShapes
  <2>4. /\ worker' \in {"none", "looks", "waits", "sends"}
        /\ worker' = "none" => waiting'.waiters \cup active'.waiters = {}
        /\ worker' = "sends" <=> active' # Empty
    BY <1>0, <1>1, <1>3 DEF PublishShapes
  <2>5. /\ waiting'.waiters = {} => waiting' = Empty
        /\ active'.waiters = {} => active' = Empty
    BY <1>0, <1>1, <1>3 DEF PublishShapes
  <2> QED
    BY <2>1, <2>2, <2>3, <2>4, <2>5 DEF PublishShapes
<1>11. AnsweredInOrder'
  <2>1. \A a \in active'.waiters : \A w \in waiting'.waiters : a < w
    BY <1>0, <1>1, <1>3 DEF AnsweredInOrder
  <2>2. \A s, u \in 1..Len(submitted') : answers'[s] = "applied" /\ answers'[u] = "none" => s < u
    BY <1>0, <1>1, <1>3 DEF AnsweredInOrder, PublishShapes
  <2> QED
    BY <2>1, <2>2 DEF AnsweredInOrder
<1>12. NewestIsSent'
  <2>1. NewestOf(kind, submitted, waiting'.fields, waiting'.waiters)
    <3>1. CASE waiting = Empty
      BY <1>0, <1>2, <3>1 DEF NewestIsSent
    <3>2. CASE waiting # Empty /\ kind = "channel"
      <4>1. /\ waiting'.fields = over(waiting.fields, active.fields)
            /\ waiting'.waiters = waiting.waiters \cup active.waiters
        BY <1>2, <3>2 DEF merged
      <4>2. /\ waiting.waiters \in SUBSET Nat /\ active.waiters \in SUBSET Nat
            /\ \A e \in active.waiters : \A l \in waiting.waiters : e < l
            /\ NewestOf("channel", submitted, waiting.fields, waiting.waiters)
            /\ NewestOf("channel", submitted, active.fields, active.waiters)
        BY <1>0, <3>2 DEF PublishShapes, AnsweredInOrder, NewestIsSent
      <4>3. NewestOf("channel", submitted, over(waiting.fields, active.fields),
                     waiting.waiters \cup active.waiters)
        BY <4>2, OverIsNewest
      <4> QED
        BY <3>2, <4>1, <4>3
    <3>3. CASE waiting # Empty /\ kind # "channel"
      <4>1. waiting'.fields = waiting.fields /\ waiting.waiters # {}
        BY <1>0, <1>2, <3>3 DEF merged, PublishShapes
      <4>2. PICK v \in waiting.waiters : /\ waiting.fields = submitted[v]
                                         /\ \A s \in waiting.waiters : s <= v
        BY <1>0, <3>3, <4>1 DEF NewestIsSent, NewestOf
      <4>3. \A s \in active.waiters : s <= v
        BY <1>0 DEF PublishShapes, AnsweredInOrder
      <4> QED
        BY <1>3, <3>3, <4>1, <4>2, <4>3 DEF NewestOf
    <3> QED
      BY <3>1, <3>2, <3>3
  <2> QED
    BY <1>1, <2>1, NothingIsNewest DEF NewestIsSent
<1>13. LastIsShown'
  BY <1>0, <1>1, <1>4 DEF LastIsShown
<1>14. AppliedStaysShown'
  BY <1>0, <1>1, <1>4, RefusedIsShown
<1>15. EditsStayInLimit'
  BY <1>0, <1>1 DEF EditsStayInLimit
<1> QED
  BY <1>10, <1>11, <1>12, <1>13, <1>14, <1>15 DEF PublishInv

\* An edit failed for the last time.
LEMMA FailFinallyKeeps ==
  ASSUME PublishInv, FailFinally
  PROVE  PublishInv'
<1>0. PublishShapes /\ AnsweredInOrder /\ NewestIsSent /\ LastIsShown /\ AppliedStaysShown /\ EditsStayInLimit
  BY DEF PublishInv
<1>1. /\ UNCHANGED <<kind, submitted, last, recent_edits>>
      /\ attempts' = 0
      /\ worker' = "looks"
  BY <1>0 DEF FailFinally, Sent, known_after_failure, PublishShapes
<1>2. /\ answers' \in Seq({"none", "applied", "refused"}) /\ Len(answers') = Len(submitted)
      /\ \A s \in 1..Len(submitted) :
           answers'[s] = IF s \in active.waiters /\ answers[s] = "none" THEN "refused" ELSE answers[s]
  BY <1>0, AnswersAre DEF FailFinally, Sent, known_after_failure
<1>3. waiting' = waiting /\ active' = Empty /\ Empty.waiters = {}
  BY <1>0, NothingIsNewest DEF FailFinally, Sent, known_after_failure, PublishShapes
<1>4. /\ doubtful \subseteq doubtful'
      /\ \A f \in DOMAIN remote \ doubtful' : f \in DOMAIN remote' /\ remote'[f] = remote[f]
  BY MaybeShowsIs DEF FailFinally, Sent, known_after_failure
<1>10. PublishShapes'
  <2>0. active.waiters \cap waiting.waiters = {}
    BY <1>0 DEF AnsweredInOrder, PublishShapes
  <2>1. /\ kind' \in {"channel", "message"} /\ submitted' \in Seq(AnyVersion)
        /\ answers' \in Seq({"none", "applied", "refused"}) /\ Len(answers') = Len(submitted')
    BY <1>0, <1>1, <1>2, <1>3 DEF PublishShapes
  <2>2. attempts' \in 0..HttpAttempts - 1 /\ recent_edits' \in Nat
    BY <1>0, <1>1, <1>2, <1>3, PublishAssumption DEF PublishShapes
  <2>3. /\ waiting'.waiters \cup active'.waiters \subseteq 1..Len(submitted')
        /\ \A s \in 1..Len(submitted') :
             answers'[s] = "none" <=> s \in waiting'.waiters \cup active'.waiters
    BY <1>0, <1>1, <1>2, <1>3, <2>0 DEF PublishShapes
  <2>4. /\ worker' \in {"none", "looks", "waits", "sends"}
        /\ worker' = "none" => waiting'.waiters \cup active'.waiters = {}
        /\ worker' = "sends" <=> active' # Empty
    BY <1>0, <1>1, <1>2, <1>3 DEF PublishShapes
  <2>5. /\ waiting'.waiters = {} => waiting' = Empty
        /\ active'.waiters = {} => active' = Empty
    BY <1>0, <1>1, <1>2, <1>3 DEF PublishShapes
  <2> QED
    BY <2>1, <2>2, <2>3, <2>4, <2>5 DEF PublishShapes
<1>11. AnsweredInOrder'
  <2>1. \A a \in active'.waiters : \A w \in waiting'.waiters : a < w
    BY <1>0, <1>1, <1>2, <1>3 DEF AnsweredInOrder
  <2>2. \A s, u \in 1..Len(submitted') : answers'[s] = "applied" /\ answers'[u] = "none" => s < u
    BY <1>0, <1>1, <1>2, <1>3 DEF AnsweredInOrder, PublishShapes
  <2> QED
    BY <2>1, <2>2 DEF AnsweredInOrder
<1>12. NewestIsSent'
  BY <1>0, <1>1, <1>3, NothingIsNewest DEF NewestIsSent
<1>13. LastIsShown'
  BY <1>0, <1>1, <1>4 DEF LastIsShown
<1>14. AppliedStaysShown'
  BY <1>0, <1>1, <1>2, <1>4, RefusedIsShown
<1>15. EditsStayInLimit'
  BY <1>0, <1>1 DEF EditsStayInLimit
<1> QED
  BY <1>10, <1>11, <1>12, <1>13, <1>14, <1>15 DEF PublishInv

\* The destination is gone for everybody.
LEMMA FailForGoodKeeps ==
  ASSUME PublishInv, FailForGood
  PROVE  PublishInv'
<1>0. PublishShapes /\ AnsweredInOrder /\ NewestIsSent /\ LastIsShown /\ AppliedStaysShown /\ EditsStayInLimit
  BY DEF PublishInv
<1>1. /\ UNCHANGED <<kind, submitted, last, recent_edits>>
      /\ attempts' = attempts
      /\ worker' = "looks"
  BY <1>0 DEF FailForGood, Sent, PublishShapes
<1>2. /\ answers' \in Seq({"none", "applied", "refused"}) /\ Len(answers') = Len(submitted)
      /\ \A s \in 1..Len(submitted) :
           answers'[s] = IF s \in (active.waiters \cup waiting.waiters) /\ answers[s] = "none" THEN "refused" ELSE answers[s]
  BY <1>0, AnswersAre DEF FailForGood, Sent
<1>3. waiting' = Empty /\ active' = Empty /\ Empty.waiters = {}
  BY <1>0, NothingIsNewest DEF FailForGood, Sent, PublishShapes
<1>4. /\ doubtful \subseteq doubtful'
      /\ \A f \in DOMAIN remote \ doubtful' : f \in DOMAIN remote' /\ remote'[f] = remote[f]
  BY MaybeShowsIs DEF FailForGood, Sent
<1>10. PublishShapes'
  <2>1. /\ kind' \in {"channel", "message"} /\ submitted' \in Seq(AnyVersion)
        /\ answers' \in Seq({"none", "applied", "refused"}) /\ Len(answers') = Len(submitted')
    BY <1>0, <1>1, <1>2, <1>3 DEF PublishShapes
  <2>2. attempts' \in 0..HttpAttempts - 1 /\ recent_edits' \in Nat
    BY <1>0, <1>1, <1>2, <1>3, PublishAssumption DEF PublishShapes
  <2>3. /\ waiting'.waiters \cup active'.waiters \subseteq 1..Len(submitted')
        /\ \A s \in 1..Len(submitted') :
             answers'[s] = "none" <=> s \in waiting'.waiters \cup active'.waiters
    BY <1>0, <1>1, <1>2, <1>3 DEF PublishShapes
  <2>4. /\ worker' \in {"none", "looks", "waits", "sends"}
        /\ worker' = "none" => waiting'.waiters \cup active'.waiters = {}
        /\ worker' = "sends" <=> active' # Empty
    BY <1>0, <1>1, <1>2, <1>3 DEF PublishShapes
  <2>5. /\ waiting'.waiters = {} => waiting' = Empty
        /\ active'.waiters = {} => active' = Empty
    BY <1>0, <1>1, <1>2, <1>3 DEF PublishShapes
  <2> QED
    BY <2>1, <2>2, <2>3, <2>4, <2>5 DEF PublishShapes
<1>11. AnsweredInOrder'
  <2>1. \A a \in active'.waiters : \A w \in waiting'.waiters : a < w
    BY <1>0, <1>1, <1>2, <1>3 DEF AnsweredInOrder
  <2>2. \A s, u \in 1..Len(submitted') : answers'[s] = "applied" /\ answers'[u] = "none" => s < u
    BY <1>0, <1>1, <1>2, <1>3 DEF AnsweredInOrder, PublishShapes
  <2> QED
    BY <2>1, <2>2 DEF AnsweredInOrder
<1>12. NewestIsSent'
  BY <1>0, <1>1, <1>3, NothingIsNewest DEF NewestIsSent
<1>13. LastIsShown'
  BY <1>0, <1>1, <1>4 DEF LastIsShown
<1>14. AppliedStaysShown'
  BY <1>0, <1>1, <1>2, <1>4, RefusedIsShown
<1>15. EditsStayInLimit'
  BY <1>0, <1>1 DEF EditsStayInLimit
<1> QED
  BY <1>10, <1>11, <1>12, <1>13, <1>14, <1>15 DEF PublishInv

\* Time passes, or the shutdown begins.
LEMMA TimePassesKeeps ==
  ASSUME PublishInv, RetryTime \/ WindowPasses \/ Close
  PROVE  PublishInv'
<1>0. PublishShapes /\ AnsweredInOrder /\ NewestIsSent /\ LastIsShown /\ AppliedStaysShown /\ EditsStayInLimit
  BY DEF PublishInv
<1>1. /\ UNCHANGED <<kind, submitted, answers, last, remote, doubtful>>
      /\ UNCHANGED <<waiting, active, attempts>>
      /\ recent_edits' \in Nat /\ recent_edits' <= recent_edits
      /\ worker' = worker \/ (worker = "waits" /\ worker' = "looks")
  BY <1>0, NothingIsNewest DEF RetryTime, WindowPasses, WaitPasses, Woken, Close, PublishShapes
<1>10. PublishShapes'
  <2>1. /\ kind' \in {"channel", "message"} /\ submitted' \in Seq(AnyVersion)
        /\ answers' \in Seq({"none", "applied", "refused"}) /\ Len(answers') = Len(submitted')
    BY <1>0, <1>1 DEF PublishShapes
  <2>2. attempts' \in 0..HttpAttempts - 1 /\ recent_edits' \in Nat
    BY <1>0, <1>1, PublishAssumption DEF PublishShapes
  <2>3. /\ waiting'.waiters \cup active'.waiters \subseteq 1..Len(submitted')
        /\ \A s \in 1..Len(submitted') :
             answers'[s] = "none" <=> s \in waiting'.waiters \cup active'.waiters
    BY <1>0, <1>1 DEF PublishShapes
  <2>4. /\ worker' \in {"none", "looks", "waits", "sends"}
        /\ worker' = "none" => waiting'.waiters \cup active'.waiters = {}
        /\ worker' = "sends" <=> active' # Empty
    BY <1>0, <1>1 DEF PublishShapes
  <2>5. /\ waiting'.waiters = {} => waiting' = Empty
        /\ active'.waiters = {} => active' = Empty
    BY <1>0, <1>1 DEF PublishShapes
  <2> QED
    BY <2>1, <2>2, <2>3, <2>4, <2>5 DEF PublishShapes
<1>11. AnsweredInOrder'
  <2>1. \A a \in active'.waiters : \A w \in waiting'.waiters : a < w
    BY <1>0, <1>1 DEF AnsweredInOrder
  <2>2. \A s, u \in 1..Len(submitted') : answers'[s] = "applied" /\ answers'[u] = "none" => s < u
    BY <1>0, <1>1 DEF AnsweredInOrder, PublishShapes
  <2> QED
    BY <2>1, <2>2 DEF AnsweredInOrder
<1>12. NewestIsSent'
  BY <1>0, <1>1, NothingIsNewest DEF NewestIsSent
<1>13. LastIsShown'
  BY <1>0, <1>1 DEF LastIsShown
<1>14. AppliedStaysShown'
  BY <1>0, <1>1 DEF AppliedStaysShown
<1>15. EditsStayInLimit'
  BY <1>0, <1>1, PublishAssumption DEF EditsStayInLimit, PublishShapes
<1> QED
  BY <1>10, <1>11, <1>12, <1>13, <1>14, <1>15 DEF PublishInv

\* The shutdown cuts the worker off.
LEMMA CutKeeps ==
  ASSUME PublishInv, Cut
  PROVE  PublishInv'
<1>0. PublishShapes /\ AnsweredInOrder /\ NewestIsSent /\ LastIsShown /\ AppliedStaysShown /\ EditsStayInLimit
  BY DEF PublishInv
<1>1. /\ UNCHANGED <<kind, submitted, last, recent_edits>>
      /\ attempts' = 0
      /\ worker' = "none"
  BY <1>0 DEF Cut, dropped, PublishShapes
<1>2. /\ answers' \in Seq({"none", "applied", "refused"}) /\ Len(answers') = Len(submitted)
      /\ \A s \in 1..Len(submitted) :
           answers'[s] = IF s \in (active.waiters \cup waiting.waiters) /\ answers[s] = "none" THEN "refused" ELSE answers[s]
  BY <1>0, AnswersAre DEF Cut, dropped
<1>3. waiting' = Empty /\ active' = Empty /\ Empty.waiters = {}
  BY <1>0, NothingIsNewest DEF Cut, dropped, PublishShapes
<1>4. /\ doubtful \subseteq doubtful'
      /\ \A f \in DOMAIN remote \ doubtful' : f \in DOMAIN remote' /\ remote'[f] = remote[f]
  BY MaybeShowsIs DEF Cut, dropped
<1>10. PublishShapes'
  <2>1. /\ kind' \in {"channel", "message"} /\ submitted' \in Seq(AnyVersion)
        /\ answers' \in Seq({"none", "applied", "refused"}) /\ Len(answers') = Len(submitted')
    BY <1>0, <1>1, <1>2, <1>3 DEF PublishShapes
  <2>2. attempts' \in 0..HttpAttempts - 1 /\ recent_edits' \in Nat
    BY <1>0, <1>1, <1>2, <1>3, PublishAssumption DEF PublishShapes
  <2>3. /\ waiting'.waiters \cup active'.waiters \subseteq 1..Len(submitted')
        /\ \A s \in 1..Len(submitted') :
             answers'[s] = "none" <=> s \in waiting'.waiters \cup active'.waiters
    BY <1>0, <1>1, <1>2, <1>3 DEF PublishShapes
  <2>4. /\ worker' \in {"none", "looks", "waits", "sends"}
        /\ worker' = "none" => waiting'.waiters \cup active'.waiters = {}
        /\ worker' = "sends" <=> active' # Empty
    BY <1>0, <1>1, <1>2, <1>3 DEF PublishShapes
  <2>5. /\ waiting'.waiters = {} => waiting' = Empty
        /\ active'.waiters = {} => active' = Empty
    BY <1>0, <1>1, <1>2, <1>3 DEF PublishShapes
  <2> QED
    BY <2>1, <2>2, <2>3, <2>4, <2>5 DEF PublishShapes
<1>11. AnsweredInOrder'
  <2>1. \A a \in active'.waiters : \A w \in waiting'.waiters : a < w
    BY <1>0, <1>1, <1>2, <1>3 DEF AnsweredInOrder
  <2>2. \A s, u \in 1..Len(submitted') : answers'[s] = "applied" /\ answers'[u] = "none" => s < u
    BY <1>0, <1>1, <1>2, <1>3 DEF AnsweredInOrder, PublishShapes
  <2> QED
    BY <2>1, <2>2 DEF AnsweredInOrder
<1>12. NewestIsSent'
  BY <1>0, <1>1, <1>3, NothingIsNewest DEF NewestIsSent
<1>13. LastIsShown'
  BY <1>0, <1>1, <1>4 DEF LastIsShown
<1>14. AppliedStaysShown'
  BY <1>0, <1>1, <1>2, <1>4, RefusedIsShown
<1>15. EditsStayInLimit'
  BY <1>0, <1>1 DEF EditsStayInLimit
<1> QED
  BY <1>10, <1>11, <1>12, <1>13, <1>14, <1>15 DEF PublishInv


LEMMA PublishStarts == PublishInit => PublishInv
<1> SUFFICES ASSUME PublishInit PROVE PublishInv
  OBVIOUS
<1>1. submitted = <<>> /\ answers = <<>> /\ Len(submitted) = 0 /\ Len(answers) = 0
  BY DEF PublishInit
<1>2. waiting = Empty /\ active = Empty /\ Empty.waiters = {} /\ recent_edits = 0
  BY NothingIsNewest DEF PublishInit
<1>3. PublishShapes
  BY <1>1, <1>2, PublishAssumption DEF PublishInit, PublishShapes
<1>4. AnsweredInOrder /\ AppliedStaysShown
  BY <1>1, <1>2 DEF AnsweredInOrder, AppliedStaysShown
<1>5. NewestIsSent
  BY <1>2, NothingIsNewest DEF NewestIsSent
<1>6. LastIsShown
  BY DEF PublishInit, LastIsShown, Unsent
<1>7. EditsStayInLimit
  BY <1>2, PublishAssumption DEF EditsStayInLimit
<1> QED
  BY <1>3, <1>4, <1>5, <1>6, <1>7 DEF PublishInv

LEMMA PublishKept == PublishInv /\ [PublishNext]_publishVars => PublishInv'
<1>1. ASSUME PublishInv, PublishNext PROVE PublishInv'
  BY <1>1, SubmitKeeps, SkipKeeps, WaitToSendKeeps, TakeKeeps, BreaksKeeps, WorkerEndsKeeps,
     SucceedKeeps, FailRetryingKeeps, FailFinallyKeeps, FailForGoodKeeps, TimePassesKeeps, CutKeeps
     DEF PublishNext
<1>2. ASSUME PublishInv, UNCHANGED publishVars PROVE PublishInv'
  <2>1. PublishShapes' /\ AnsweredInOrder' /\ LastIsShown' /\ AppliedStaysShown'
    BY <1>2 DEF publishVars, queueVars, PublishInv, PublishShapes, AnsweredInOrder, LastIsShown,
                AppliedStaysShown
  <2>2. NewestIsSent' /\ EditsStayInLimit'
    BY <1>2 DEF publishVars, queueVars, PublishInv, NewestIsSent, EditsStayInLimit
  <2> QED
    BY <2>1, <2>2 DEF PublishInv
<1> QED
  BY <1>1, <1>2

\* Some numbers up to a bound have a greatest.
LEMMA GreatestOfSome ==
  ASSUME NEW n \in Nat, NEW S \in SUBSET (1..n), S # {}
  PROVE  \E m \in S : \A o \in S : o <= m
<1> DEFINE Above(k) == {x \in S : x > k}
           Rest == {Above(k) : k \in S}
<1>1. IsFiniteSet(S)
  <2>1. IsFiniteSet(1..n)
    BY FS_Interval
  <2> QED
    BY <2>1, FS_Subset
<1>2. \A k \in S : Above(k) \in FiniteSubsetsOf(S)
  BY <1>1, FS_Subset DEF FiniteSubsetsOf
<1>3. IsWellFoundedOn(StrictSubsetOrdering(S), FiniteSubsetsOf(S))
  BY FS_StrictSubsetOrderingWellFounded
<1>4. PICK k \in S : \A y \in S : <<Above(y), Above(k)>> \notin StrictSubsetOrdering(S)
  <2>1. Rest # {} /\ Rest \subseteq FiniteSubsetsOf(S)
    BY <1>2
  <2> HIDE DEF Rest
  <2>2. \E x \in Rest : \A z \in Rest : <<z, x>> \notin StrictSubsetOrdering(S)
    BY <1>3, <2>1, WFMin
  <2> QED
    BY <2>2 DEF Rest
<1>5. \A y \in S : y <= k
  <2> SUFFICES ASSUME NEW y \in S, ~(y <= k) PROVE FALSE
    OBVIOUS
  <2>1. y \in Nat /\ k \in Nat /\ S \subseteq Nat /\ y > k
    OBVIOUS
  <2>2. Above(y) \subseteq Above(k) /\ y \in Above(k) /\ y \notin Above(y)
    <3>1. \A x \in S : x > y => x > k
      BY <2>1
    <3>2. y > k /\ ~(y > y)
      BY <2>1
    <3> QED
      BY <3>1, <3>2
  <2>3. Above(y) \in SUBSET S /\ Above(k) \in SUBSET S
    OBVIOUS
  <2> HIDE DEF Above
  <2>4. <<Above(y), Above(k)>> \in StrictSubsetOrdering(S)
    BY <2>2, <2>3 DEF StrictSubsetOrdering
  <2> QED
    BY <1>4, <2>4
<1> QED
  BY <1>5

\* The invariant says what is shown when all is quiet.
LEMMA QuietShowsNewest == PublishInv => NewestIsShown
<1> SUFFICES ASSUME PublishInv, kind = "channel",
                    NEW f \in (UNION {DOMAIN submitted[s] : s \in DOMAIN submitted}) \ doubtful
             PROVE  LET applied == {s \in DOMAIN answers : answers[s] = "applied" /\ f \in DOMAIN submitted[s]}
                    IN  applied # {} =>
                          /\ f \in DOMAIN remote
                          /\ remote[f] = submitted[CHOOSE s \in applied : \A o \in applied : o <= s][f]
  BY DEF NewestIsShown
<1> DEFINE applied == {s \in DOMAIN answers : answers[s] = "applied" /\ f \in DOMAIN submitted[s]}
           newest == CHOOSE s \in applied : \A o \in applied : o <= s
<1> SUFFICES ASSUME applied # {} PROVE f \in DOMAIN remote /\ remote[f] = submitted[newest][f]
  OBVIOUS
<1>1. DOMAIN answers = 1..Len(submitted) /\ Len(submitted) \in Nat
  BY DEF PublishInv, PublishShapes
<1>2. applied \in SUBSET (1..Len(submitted))
  BY <1>1
<1>3. \A s : s \in applied <=> s \in 1..Len(submitted) /\ answers[s] = "applied" /\ f \in DOMAIN submitted[s]
  BY <1>1
<1> HIDE DEF applied
<1>4. newest \in applied /\ \A o \in applied : o <= newest
  BY <1>1, <1>2, GreatestOfSome
<1> HIDE DEF newest
<1>5. newest \in 1..Len(submitted) /\ answers[newest] = "applied" /\ f \in DOMAIN submitted[newest]
  BY <1>3, <1>4
<1>6. \A o \in 1..Len(submitted) : answers[o] = "applied" /\ f \in DOMAIN submitted[o] => o <= newest
  BY <1>3, <1>4
<1>7. f \in DOMAIN submitted[newest] \ doubtful
  BY <1>5
<1>8. AppliedStaysShown
  BY DEF PublishInv
<1> QED
  BY <1>5, <1>6, <1>7, <1>8 DEF AppliedStaysShown

\* What the callers of a version find, when the version is on Discord.
LEMMA CallersFind ==
  ASSUME PublishShapes, NEW fields, NEW callers \in SUBSET (1..Len(submitted)),
         UNCHANGED <<kind, submitted>>,
         NewestOf(kind, submitted, fields, callers), callers # {},
         \A f \in DOMAIN fields \ doubtful' : f \in DOMAIN remote' /\ remote'[f] = fields[f],
         \A s \in 1..Len(submitted) :
           answers'[s] = IF s \in callers /\ answers[s] = "none" THEN "applied" ELSE answers[s]
  PROVE  AppliedMeansShown
<1> USE DEF PublishShapes
<1>1. SUFFICES ASSUME NEW s \in callers
               PROVE  LET From(f) == {v \in s..Len(submitted) : f \in DOMAIN submitted[v]}
                          ShownNow(v, f) == f \in doubtful' \/ (f \in DOMAIN remote' /\ remote'[f] = submitted[v][f])
                      IN  IF kind = "channel"
                            THEN \A f \in DOMAIN submitted[s] : \E v \in From(f) : ShownNow(v, f)
                            ELSE \E v \in s..Len(submitted) : \A f \in DOMAIN submitted[v] : ShownNow(v, f)
  <2>1. \A s \in DOMAIN answers : answers[s] = "none" /\ answers'[s] = "applied" => s \in callers
    OBVIOUS
  <2> QED
    BY <2>1 DEF AppliedMeansShown
<1>2. CASE kind = "channel"
  <2> SUFFICES ASSUME NEW f \in DOMAIN submitted[s]
               PROVE  \E v \in s..Len(submitted) :
                        /\ f \in DOMAIN submitted[v]
                        /\ f \in doubtful' \/ (f \in DOMAIN remote' /\ remote'[f] = submitted[v][f])
    BY <1>2
  <2>1. f \in DOMAIN fields
    BY <1>2 DEF NewestOf
  <2>2. PICK v \in callers : /\ f \in DOMAIN submitted[v] /\ fields[f] = submitted[v][f]
                             /\ \A t \in callers : f \in DOMAIN submitted[t] => t <= v
    BY <1>2, <2>1 DEF NewestOf
  <2>3. v \in s..Len(submitted)
    BY <2>2
  <2> QED
    BY <2>1, <2>2, <2>3
<1>3. CASE kind # "channel"
  <2>1. PICK v \in callers : fields = submitted[v] /\ \A t \in callers : t <= v
    BY <1>3 DEF NewestOf
  <2>2. v \in s..Len(submitted)
    BY <2>1
  <2> QED
    BY <1>3, <2>1, <2>2
<1> QED
  BY <1>2, <1>3

LEMMA ToldMeansShown == PublishInv /\ PublishNext => AppliedMeansShown
<1> SUFFICES ASSUME PublishInv, PublishNext PROVE AppliedMeansShown
  OBVIOUS
<1>0. PublishShapes /\ NewestIsSent /\ LastIsShown
  BY DEF PublishInv
<1>1. CASE Skip
  <2>1. /\ \A s \in 1..Len(submitted) :
             answers'[s] = IF s \in waiting.waiters /\ answers[s] = "none" THEN "applied" ELSE answers[s]
        /\ UNCHANGED <<kind, submitted>> /\ waiting.waiters # {}
    BY <1>0, <1>1, AnswersAre DEF Skip, Looks
  <2>2. DOMAIN waiting.fields \subseteq DOMAIN last
         /\ \A f \in DOMAIN waiting.fields : last[f] = waiting.fields[f]
    BY <1>1 DEF Skip, identical
  <2>3. \A f \in DOMAIN waiting.fields \ doubtful' : f \in DOMAIN remote' /\ remote'[f] = waiting.fields[f]
    BY <1>0, <1>1, <2>2 DEF Skip, Looks, LastIsShown
  <2>4. waiting.waiters \in SUBSET (1..Len(submitted)) /\ NewestOf(kind, submitted, waiting.fields, waiting.waiters)
    BY <1>0 DEF PublishShapes, NewestIsSent
  <2> QED
    BY <1>0, <2>1, <2>3, <2>4, CallersFind
<1>2. CASE Succeed
  <2>1. /\ \A s \in 1..Len(submitted) :
             answers'[s] = IF s \in active.waiters /\ answers[s] = "none" THEN "applied" ELSE answers[s]
        /\ UNCHANGED <<kind, submitted>>
    BY <1>0, <1>2, AnswersAre DEF Succeed, Sent
  <2>2. active.waiters # {}
    BY <1>0, <1>2 DEF Succeed, Sent, PublishShapes
  <2>3. \A f \in DOMAIN active.fields \ doubtful' : f \in DOMAIN remote' /\ remote'[f] = active.fields[f]
    <3>1. remote' = over(active.fields, remote)
      BY <1>2 DEF Succeed, Shows
    <3> QED
      BY <3>1 DEF over
  <2>4. active.waiters \in SUBSET (1..Len(submitted)) /\ NewestOf(kind, submitted, active.fields, active.waiters)
    BY <1>0 DEF PublishShapes, NewestIsSent
  <2> QED
    BY <1>0, <2>1, <2>2, <2>3, <2>4, CallersFind
<1>3. CASE ~Skip /\ ~Succeed
  <2>1. DOMAIN answers = 1..Len(submitted) /\ Len(submitted) \in Nat
    BY <1>0 DEF PublishShapes
  <2>2. \A s \in DOMAIN answers : answers[s] = "none" => answers'[s] # "applied"
    <3>1. ASSUME NEW fields, Submit(fields) PROVE \A s \in DOMAIN answers : answers'[s] = answers[s]
      <4>1. PICK word \in {"none", "refused"} : answers' = Append(answers, word)
        BY <3>1 DEF Submit
      <4>2. answers \in Seq({"none", "applied", "refused"})
        BY <1>0 DEF PublishShapes
      <4> QED
        BY <4>1, <4>2
    <3>2. ASSUME NEW waiters, Answered(waiters, "refused")
          PROVE  \A s \in DOMAIN answers : answers[s] = "none" => answers'[s] # "applied"
      BY <3>2 DEF Answered
    <3>3. CASE \/ WaitToSend \/ Take \/ WorkerEnds \/ FailRetrying \/ RetryTime \/ WindowPasses \/ Close
      <4>1. answers' = answers
        BY <3>3 DEF WaitToSend, Take, WorkerEnds, FailRetrying, RetryTime, WindowPasses, WaitPasses, Close
      <4> QED
        BY <4>1
    <3>4. CASE Breaks \/ FailFinally \/ FailForGood \/ Cut
      BY <3>2, <3>4 DEF Breaks, FailFinally, FailForGood, Cut
    <3> QED
      BY <1>3, <3>1, <3>3, <3>4 DEF PublishNext
  <2> QED
    BY <2>2 DEF AppliedMeansShown
<1> QED
  BY <1>1, <1>2, <1>3

\* However versions are merged, retried, skipped, refused or cut off: a caller who is told
\* that a version was applied finds on Discord what it set, or what later ones made of it,
\* the newest that was applied is what a quiet channel shows, and the edits stay within
\* Discord's limit (PublishingQueue._run and _submit).
THEOREM AnswersAreShown == PublishSpec => ShownAsAnswered
<1>1. ASSUME PublishInv, [PublishNext]_publishVars, (EditsStayInLimit /\ NewestIsShown)'
      PROVE  [(EditsStayInLimit /\ NewestIsShown)' /\ AppliedMeansShown]_publishVars
  BY <1>1, ToldMeansShown
<1>2. PublishInv => EditsStayInLimit /\ NewestIsShown
  BY QuietShowsNewest DEF PublishInv
<1> QED
  BY <1>1, <1>2, PublishStarts, PublishKept, PTL DEF PublishSpec, ShownAsAnswered

-----------------------------------------------------------------------------
(* RoleClaims: a role that is needed is kept, unless the need comes while it is taken. *)

\* A workflow has the role of m in hand, at one of these stages.
BeingTaken(m, stages) ==
  \/ pass.at \in stages /\ pass.member = m
  \/ \E r \in Rosters : task[r].at \in stages /\ task[r].member = m

\* Nobody signs up between the question whether he still needs the role and its removal,
\* and nobody enters the lineup once a roster's request to take his role is out.
Patient ==
  /\ \A r \in Rosters, m \in Players : SignUp(r, m) => ~BeingTaken(m, {"asked", "taking"})
  /\ \A m \in lineup' \ lineup, r \in Rosters : task[r].at = "taking" => task[r].member # m

NeedsRole(m) == role_has_signup(m) \/ m \in lineup

\* The role is about to be given to m, for a sign-up or for the lineup.
InHand(m) ==
  \/ \E r \in Rosters : task[r].at \in {"signed", "giving"} /\ task[r].member = m
  \/ pass.at \in {"give", "giving"} /\ m \in pass.left
  \/ pass.at = "giving" /\ pass.member = m

GivenInv == \A m \in Players : NeedsRole(m) => m \in holders \/ InHand(m)

\* Who leaves a roster is off it, and who is about to lose the role does not need it.
LeftInv ==
  \A r \in Rosters :
    /\ task[r].at \in {"left", "asked", "taking"}
         => \A m \in task[r].left \cup {task[r].member} : <<r, m>> \notin signed
    /\ \A m \in Players : task[r].at \in {"asked", "taking"} /\ task[r].member = m
                         => ~role_has_signup(m)
    /\ task[r].at = "taking" => task[r].member \notin lineup

AskedInv == pass.at \in {"asked", "taking"} => ~role_has_signup(pass.member)

Safe    == GivenInv /\ LeftInv /\ AskedInv
NeedInv == roleFaults \in Nat /\ (roleFaults = 0 => Safe)

\* A step of the pass, or of the claims, that does not fail.
LEMMA PassKeepsSafe ==
  ASSUME RoleInv, Safe, roleFaults \in Nat, UNCHANGED roleFaults,
         PassSteps \/ EndPass \/ SaveClaims \/ SaveCache
  PROVE  Safe'
<1> DEFINE Hand(m)  == \/ pass.at \in {"give", "giving"} /\ m \in pass.left
                       \/ pass.at = "giving" /\ pass.member = m
           WarAsks(m) == pass.at \in {"asked", "taking"} /\ pass.member = m
<1>1. ~RoleFault /\ NoPlayer \notin Players
  BY RolesAssumption DEF RoleFault, NoPlayer
<1>2. /\ RoleShapes /\ pass \in Passings
      /\ pass.at \in {"asked", "taking"} => pass.member \in Players /\ pass.member \notin lineup
  BY DEF RoleInv, RoleShapes, PassInv
<1>3. UNCHANGED <<signed, lineup, task>>
  BY DEF PassSteps, GiveNext, WarGives, AllGiven, AskRosters, LookAtMember, WarTakes, EndPass,
         SaveClaims, SaveCache, PassGives, TaskVars
<1> USE DEF NothingDone
<1>4. SUFFICES /\ \A m \in Players : m \in holders => m \in holders' \/ ~NeedsRole(m)
               /\ \A m \in Players : Hand(m) => Hand(m)' \/ m \in holders'
               /\ \A m \in Players : WarAsks(m)' => ~role_has_signup(m)
               /\ pass'.at \in {"asked", "taking"} => pass'.member \in Players
  <2>1. \A m : NeedsRole(m)' = NeedsRole(m) /\ role_has_signup(m)' = role_has_signup(m)
    BY <1>3 DEF NeedsRole, role_has_signup
  <2>2. LeftInv'
    BY <1>3 DEF Safe, LeftInv, role_has_signup
  <2>3. AskedInv'
    BY <1>4, <2>1 DEF AskedInv
  <2>4. ASSUME NEW m \in Players, NeedsRole(m)'
        PROVE  m \in holders' \/ InHand(m)'
    <3>1. NeedsRole(m) /\ (m \in holders \/ InHand(m))
      BY <2>1, <2>4 DEF Safe, GivenInv
    <3>2. CASE m \in holders
      BY <1>4, <3>1, <3>2
    <3>3. CASE InHand(m)
      BY <1>3, <1>4, <3>3 DEF InHand
    <3> QED
      BY <3>1, <3>2, <3>3
  <2> QED
    BY <2>2, <2>3, <2>4 DEF Safe, GivenInv
<1>5. CASE GiveNext
  <2>1. PICK m \in pass.left :
          /\ pass.at = "give" /\ holders' = holders
          /\ \/ m \in holders /\ pass' = [pass EXCEPT !.left = @ \ {m}]
             \/ m \notin holders /\ pass' = [pass EXCEPT !.left = @ \ {m}, !.member = m, !.at = "giving"]
    BY <1>5 DEF GiveNext, Passes
  <2>2. /\ pass'.left = pass.left \ {m}
        /\ \/ m \in holders /\ pass'.at = "give"
           \/ pass'.at = "giving" /\ pass'.member = m
    BY <1>2, <2>1 DEF Passings
  <2> QED
    BY <2>1, <2>2
<1>6. CASE WarGives
  <2>1. /\ pass.at = "giving" /\ holders' = holders \cup {pass.member}
        /\ pass' = [pass EXCEPT !.at = "give", !.member = NoPlayer]
    BY <1>1, <1>6 DEF WarGives, Passes, Gives
  <2>2. pass'.left = pass.left /\ pass'.at = "give"
    BY <1>2, <2>1 DEF Passings
  <2> QED
    BY <2>1, <2>2
<1>7. CASE AllGiven
  <2>1. /\ pass.at = "give" /\ pass.left = {} /\ holders' = holders
        /\ pass' = [pass EXCEPT !.at = "take", !.left = pass.managed \ lineup]
    BY <1>7 DEF AllGiven, Passes
  <2>2. pass'.at = "take"
    BY <1>2, <2>1 DEF Passings
  <2> QED
    BY <2>1, <2>2
<1>8. CASE AskRosters
  <2>1. PICK m \in pass.left :
          /\ pass.at = "take" /\ holders' = holders
          /\ \/ pass' = Released(m)
             \/ ~role_has_signup(m) /\ pass' = [pass EXCEPT !.at = "asked", !.member = m]
    BY <1>1, <1>8 DEF AskRosters, Passes
  <2>2. \/ pass'.at = "take"
        \/ pass'.at = "asked" /\ pass'.member = m /\ ~role_has_signup(m) /\ m \in Players
    BY <1>2, <2>1 DEF Passings, Released
  <2> QED
    BY <2>1, <2>2
<1>9. CASE LookAtMember
  <2>1. /\ pass.at = "asked" /\ holders' = holders
        /\ pass' = [pass EXCEPT !.at = "taking"] \/ pass' = Released(pass.member)
    BY <1>1, <1>9 DEF LookAtMember, Passes, NothingDone
  <2>2. (pass'.at = "taking" /\ pass'.member = pass.member) \/ pass'.at = "take"
    BY <1>2, <2>1 DEF Passings, Released
  <2> QED
    BY <1>2, <2>1, <2>2 DEF Safe, AskedInv
<1>10. CASE WarTakes
  <2>1. /\ pass.at = "taking" /\ holders' = holders \ {pass.member}
        /\ pass' = Released(pass.member)
    BY <1>1, <1>10 DEF WarTakes, Passes, Takes
  <2>2. pass'.at = "take"
    BY <1>2, <2>1 DEF Passings, Released
  <2>3. ~NeedsRole(pass.member)
    BY <1>2, <2>1 DEF NeedsRole, Safe, AskedInv
  <2> QED
    BY <2>1, <2>2, <2>3
<1>11. CASE EndPass \/ SaveClaims
  <2>1. /\ pass.at \in {"take", "save"} /\ holders' = holders
        /\ pass' \in {NoPass, [NoPass EXCEPT !.at = "save"]}
    BY <1>11 DEF EndPass, SaveClaims, Passes
  <2>2. pass'.at \in {"rest", "save"}
    BY <2>1 DEF NoPass
  <2> QED
    BY <2>1, <2>2
<1>12. CASE SaveCache
  <2>1. UNCHANGED <<holders, pass>>
    BY <1>12 DEF SaveCache
  <2> QED
    BY <1>2, <2>1 DEF Safe, AskedInv
<1> QED
  BY <1>5, <1>6, <1>7, <1>8, <1>9, <1>10, <1>11, <1>12 DEF PassSteps

\* A new lineup is in hand, and finds nobody on it whose role a roster is taking.
LEMMA LineupKeepsSafe ==
  ASSUME RoleInv, Safe, Patient, NEW players \in SUBSET Players, BeginPass(players)
  PROVE  Safe'
<1>1. /\ pass.at = "rest" /\ lineup' = players /\ UNCHANGED <<holders, signed, task>>
      /\ pass'.at = "give" /\ pass'.left = players
  BY DEF BeginPass, TaskVars
<1>2. LeftInv'
  <2>1. ASSUME NEW r \in Rosters, task[r].at = "taking", task[r].member \in players  PROVE FALSE
    <3>1. task[r].member \notin lineup
      BY <2>1 DEF Safe, LeftInv
    <3> QED
      BY <1>1, <2>1, <3>1 DEF Patient
  <2> QED
    BY <1>1, <2>1 DEF Safe, LeftInv, role_has_signup
<1>3. AskedInv'
  BY <1>1 DEF AskedInv
<1>4. ASSUME NEW m \in Players, NeedsRole(m)'
      PROVE  m \in holders' \/ InHand(m)'
  <2>1. CASE m \in players
    BY <1>1, <2>1 DEF InHand
  <2>2. CASE m \notin players
    <3>1. NeedsRole(m)
      BY <1>1, <1>4, <2>2 DEF NeedsRole, role_has_signup
    <3> QED
      BY <1>1, <3>1 DEF Safe, GivenInv, InHand
  <2> QED
    BY <2>1, <2>2
<1> QED
  BY <1>2, <1>3, <1>4 DEF Safe, GivenInv

\* An operation on a roster: who signs up is in its hands and in nobody's who would take the
\* role; who had the role keeps it or does not need it; whoever it asks about is off.
LEMMA RosterKeepsSafe ==
  ASSUME RoleShapes, Safe, NEW r \in Rosters, NEW becomes,
         task' = [task EXCEPT ![r] = becomes], UNCHANGED <<pass, lineup>>,
         \A o \in Rosters \ {r}, p \in Players : <<o, p>> \in signed' => <<o, p>> \in signed,
         \A p \in Players : role_has_signup(p)' =>
           \/ role_has_signup(p)
           \/ becomes.at = "signed" /\ becomes.member = p /\ ~BeingTaken(p, {"asked", "taking"}),
         \A p \in Players : p \in holders => p \in holders' \/ ~NeedsRole(p),
         \A p \in Players : task[r].at \in {"signed", "giving"} /\ task[r].member = p =>
           p \in holders' \/ (becomes.at \in {"signed", "giving"} /\ becomes.member = p),
         becomes.at \in {"left", "asked", "taking"} =>
           \A p \in becomes.left \cup {becomes.member} : <<r, p>> \notin signed',
         becomes.at \in {"asked", "taking"} => ~role_has_signup(becomes.member)',
         becomes.at = "taking" => becomes.member \notin lineup,
         signed' \subseteq Rosters \X Players
  PROVE  Safe'
<1>1. task'[r] = becomes /\ \A o \in Rosters \ {r} : task'[o] = task[o]
  BY DEF RoleShapes
<1>2. ASSUME NEW p, role_has_signup(p)'  PROVE p \in Players
  BY <1>2 DEF role_has_signup
<1>3. AskedInv'
  <2> SUFFICES ASSUME pass.at \in {"asked", "taking"}, role_has_signup(pass.member)'
               PROVE  FALSE
    BY DEF AskedInv
  <2>1. PICK p \in Players : p = pass.member
    BY <1>2
  <2>2. BeingTaken(p, {"asked", "taking"}) /\ ~role_has_signup(p)
    BY <2>1 DEF BeingTaken, Safe, AskedInv
  <2> QED
    BY <2>1, <2>2
<1>4. LeftInv'
  <2> SUFFICES ASSUME NEW o \in Rosters
               PROVE  /\ task'[o].at \in {"left", "asked", "taking"}
                           => \A m \in task'[o].left \cup {task'[o].member} : <<o, m>> \notin signed'
                      /\ \A m \in Players : task'[o].at \in {"asked", "taking"} /\ task'[o].member = m
                                           => ~role_has_signup(m)'
                      /\ task'[o].at = "taking" => task'[o].member \notin lineup'
    BY DEF LeftInv
  <2>1. CASE o = r
    BY <1>1, <2>1
  <2>2. CASE o # r
    <3>1. \A p : <<o, p>> \in signed' => <<o, p>> \in signed
      BY <2>2
    <3>2. ASSUME NEW p \in Players, task[o].at \in {"asked", "taking"}, task[o].member = p
          PROVE  ~role_has_signup(p)'
      <4>1. BeingTaken(p, {"asked", "taking"}) /\ ~role_has_signup(p)
        BY <3>2 DEF BeingTaken, Safe, LeftInv
      <4> QED
        BY <4>1
    <3> QED
      BY <1>1, <2>2, <3>1, <3>2 DEF Safe, LeftInv
  <2> QED
    BY <2>1, <2>2
<1>5. ASSUME NEW m \in Players, NeedsRole(m)'
      PROVE  m \in holders' \/ InHand(m)'
  <2>1. CASE NeedsRole(m)
    <3>1. CASE m \in holders
      BY <2>1, <3>1
    <3>2. CASE \E o \in Rosters : task[o].at \in {"signed", "giving"} /\ task[o].member = m
      <4>1. PICK o \in Rosters : task[o].at \in {"signed", "giving"} /\ task[o].member = m
        BY <3>2
      <4>2. CASE o = r
        BY <1>1, <4>1, <4>2 DEF InHand
      <4>3. CASE o # r
        BY <1>1, <4>1, <4>3 DEF InHand
      <4> QED
        BY <4>2, <4>3
    <3>3. CASE \/ pass.at \in {"give", "giving"} /\ m \in pass.left
               \/ pass.at = "giving" /\ pass.member = m
      BY <3>3 DEF InHand
    <3> QED
      BY <2>1, <3>1, <3>2, <3>3 DEF Safe, GivenInv, InHand
  <2>2. CASE ~NeedsRole(m)
    <3>1. becomes.at = "signed" /\ becomes.member = m
      BY <1>5, <2>2 DEF NeedsRole
    <3> QED
      BY <1>1, <3>1 DEF InHand
  <2> QED
    BY <2>1, <2>2
<1> QED
  BY <1>3, <1>4, <1>5 DEF Safe, GivenInv

LEMMA RostersKeepSafe ==
  ASSUME RoleInv, Safe, Patient, roleFaults \in Nat, UNCHANGED roleFaults, RosterSteps
  PROVE  Safe'
<1>1. PICK r \in Rosters :
        \/ \E m \in Players : SignUp(r, m)
        \/ \E players \in SUBSET Players : LeaveRoster(r, players)
        \/ GiveSignedUp(r) \/ RosterGives(r) \/ AskOtherRosters(r) \/ AskWar(r) \/ RosterTakes(r)
        \/ RosterBreaksOff(r)
  BY DEF RosterSteps
<1>2. /\ RoleShapes /\ task[r] \in Operations /\ ~RoleFault /\ NoPlayer \notin Players
      /\ signed \subseteq Rosters \X Players
      /\ task[r].at \in {"signed", "giving", "asked", "taking"} <=> task[r].member \in Players
  <2>1. RoleShapes /\ TaskInv
    BY DEF RoleInv
  <2>2. task[r] \in Operations /\ signed \subseteq Rosters \X Players
    BY <2>1 DEF RoleShapes
  <2>3. ~RoleFault /\ NoPlayer \notin Players
    BY RolesAssumption DEF RoleFault, NoPlayer
  <2> QED
    BY <2>1, <2>2, <2>3 DEF TaskInv
<1>3. UNCHANGED <<pass, lineup>>
  BY <1>1 DEF SignUp, LeaveRoster, GiveSignedUp, RosterGives, AskOtherRosters, AskWar, RosterTakes,
              RosterBreaksOff, RosterWorks, PassVars
<1>4. ASSUME UNCHANGED signed  PROVE \A p : role_has_signup(p)' = role_has_signup(p)
  BY <1>4 DEF role_has_signup
<1>5. LeftInv
  BY DEF Safe
<1>6. ASSUME NEW m \in Players, SignUp(r, m)  PROVE Safe'
  <2> DEFINE becomes == [at |-> "signed", left |-> {}, member |-> m]
  <2>1. /\ task[r].at = "rest" /\ task' = [task EXCEPT ![r] = becomes]
        /\ signed' = signed \cup {<<r, m>>} /\ holders' = holders
    BY <1>6 DEF SignUp, Operates
  <2>2. ~BeingTaken(m, {"asked", "taking"})
    BY <1>6 DEF Patient
  <2>3. becomes.at = "signed" /\ becomes.member = m
    OBVIOUS
  <2>4. \A p \in Players : role_has_signup(p)' => role_has_signup(p) \/ p = m
    BY <2>1 DEF role_has_signup
  <2>5. /\ signed' \subseteq Rosters \X Players
        /\ \A o \in Rosters \ {r}, p \in Players : <<o, p>> \in signed' => <<o, p>> \in signed
    BY <1>2, <2>1
  <2> HIDE DEF becomes
  <2> QED
    BY <1>2, <1>3, <2>1, <2>2, <2>3, <2>4, <2>5, RosterKeepsSafe
<1>7. ASSUME NEW players \in SUBSET Players, LeaveRoster(r, players)  PROVE Safe'
  <2> DEFINE becomes == [at |-> "left", left |-> players, member |-> NoPlayer]
  <2>1. /\ task[r].at = "rest" /\ task' = [task EXCEPT ![r] = becomes]
        /\ signed' = signed \ ({r} \X players) /\ holders' = holders
    BY <1>7 DEF LeaveRoster, Operates
  <2>2. becomes.at = "left" /\ becomes.left = players /\ becomes.member = NoPlayer
    OBVIOUS
  <2>3. \A p \in Players : role_has_signup(p)' => role_has_signup(p)
    BY <2>1 DEF role_has_signup
  <2>4. \A p \in players \cup {NoPlayer} : <<r, p>> \notin signed'
    BY <1>2, <2>1
  <2> HIDE DEF becomes
  <2> QED
    BY <1>2, <1>3, <2>1, <2>2, <2>3, <2>4, RosterKeepsSafe
\* The other operations sign nobody up and off.
<1>8. ASSUME NEW becomes, task' = [task EXCEPT ![r] = becomes], UNCHANGED signed,
             \A p \in Players : p \in holders => p \in holders' \/ ~NeedsRole(p),
             \A p \in Players : task[r].at \in {"signed", "giving"} /\ task[r].member = p =>
               p \in holders' \/ (becomes.at \in {"signed", "giving"} /\ becomes.member = p),
             becomes.at \in {"left", "asked", "taking"} =>
               \A p \in becomes.left \cup {becomes.member} : <<r, p>> \notin signed,
             becomes.at \in {"asked", "taking"} => ~role_has_signup(becomes.member),
             becomes.at = "taking" => becomes.member \notin lineup
      PROVE  Safe'
  <2>1. signed' = signed /\ \A p : role_has_signup(p)' = role_has_signup(p)
    BY <1>4, <1>8
  <2> QED
    BY <1>2, <1>3, <1>8, <2>1, RosterKeepsSafe
<1>9. NoOperation.at = "rest"
  BY DEF NoOperation
\* Who is left to be asked about is off the roster.
<1>10. /\ NextLeaver(r).at \in {"rest", "left"}
       /\ task[r].at \in {"left", "asked", "taking"} /\ NextLeaver(r).at = "left" =>
            \A p \in NextLeaver(r).left \cup {NextLeaver(r).member} : <<r, p>> \notin signed
  <2>1. CASE task[r].left = {}
    BY <1>9, <2>1 DEF NextLeaver
  <2>2. CASE task[r].left # {}
    <3>1. NextLeaver(r) = [task[r] EXCEPT !.at = "left", !.member = NoPlayer]
      BY <2>2 DEF NextLeaver
    <3>2. /\ NextLeaver(r).at = "left" /\ NextLeaver(r).left = task[r].left
          /\ NextLeaver(r).member = NoPlayer
      BY <1>2, <3>1 DEF Operations
    <3> QED
      BY <1>2, <1>5, <3>2 DEF LeftInv
  <2> QED
    BY <2>1, <2>2
<1>11. CASE GiveSignedUp(r)
  <2>1. PICK becomes \in {NoOperation, [task[r] EXCEPT !.at = "giving"]} :
          /\ task[r].at = "signed" /\ task' = [task EXCEPT ![r] = becomes]
          /\ becomes = IF task[r].member \in holders THEN NoOperation
                    ELSE [task[r] EXCEPT !.at = "giving"]
          /\ holders' = holders /\ UNCHANGED signed
    BY <1>11 DEF GiveSignedUp, Operates, RosterWorks, NothingDone
  <2>2. \/ becomes.at = "rest" /\ task[r].member \in holders
        \/ becomes.at = "giving" /\ becomes.member = task[r].member
    BY <1>2, <1>9, <2>1 DEF Operations
  <2> QED
    BY <1>8, <2>1, <2>2
<1>12. CASE RosterGives(r)
  <2>1. /\ task[r].at = "giving" /\ task' = [task EXCEPT ![r] = NoOperation]
        /\ holders' = holders \cup {task[r].member} /\ UNCHANGED signed
    BY <1>2, <1>12 DEF RosterGives, Operates, RosterWorks, GivesSignedUp
  <2> QED
    BY <1>8, <1>9, <2>1
<1>13. CASE AskOtherRosters(r)
  <2>1. PICK m \in task[r].left :
          /\ task[r].at = "left" /\ holders' = holders /\ UNCHANGED signed
          /\ \/ task' = [task EXCEPT ![r] = Done(r, m)]
             \/ /\ ~role_still_needed(r, m)
                /\ task' = [task EXCEPT ![r] = [at |-> "asked", left |-> task[r].left \ {m},
                                                member |-> m]]
    BY <1>2, <1>13 DEF AskOtherRosters, Operates, RosterWorks, NothingDone
  <2>2. /\ \A p \in task[r].left : <<r, p>> \notin signed
        /\ <<r, NoPlayer>> \notin signed
    BY <1>2, <1>5, <2>1 DEF LeftInv
  <2>3. CASE task' = [task EXCEPT ![r] = Done(r, m)]
    <3>1. \/ Done(r, m).at = "rest"
          \/ /\ Done(r, m).at = "left" /\ Done(r, m).left = task[r].left \ {m}
             /\ Done(r, m).member = NoPlayer
      BY <1>9 DEF Done
    <3> QED
      BY <1>8, <2>1, <2>2, <2>3, <3>1
  <2>4. CASE /\ ~role_still_needed(r, m)
             /\ task' = [task EXCEPT ![r] = [at |-> "asked", left |-> task[r].left \ {m},
                                             member |-> m]]
    <3> DEFINE becomes == [at |-> "asked", left |-> task[r].left \ {m}, member |-> m]
    <3>1. becomes.at = "asked" /\ becomes.left \subseteq task[r].left /\ becomes.member = m
      OBVIOUS
    <3>2. ~role_has_signup(m)
      BY <2>2, <2>4 DEF role_still_needed, role_has_signup
    <3>3. task' = [task EXCEPT ![r] = becomes]
      BY <2>4
    <3> HIDE DEF becomes
    <3> QED
      BY <1>8, <2>1, <2>2, <3>1, <3>2, <3>3
  <2> QED
    BY <2>1, <2>3, <2>4
<1>14. CASE AskWar(r)
  <2>1. PICK becomes \in {NextLeaver(r), [task[r] EXCEPT !.at = "taking"]} :
          /\ task[r].at = "asked" /\ task' = [task EXCEPT ![r] = becomes]
          /\ becomes = IF task[r].member \in lineup THEN NextLeaver(r)
                    ELSE [task[r] EXCEPT !.at = "taking"]
          /\ holders' = holders /\ UNCHANGED signed
    BY <1>14 DEF AskWar, Operates, RosterWorks, war_lineup_needs_role, NothingDone
  <2>2. CASE task[r].member \in lineup
    BY <1>8, <1>10, <2>1, <2>2
  <2>3. CASE task[r].member \notin lineup
    <3>1. becomes.at = "taking" /\ becomes.left = task[r].left /\ becomes.member = task[r].member
      BY <1>2, <2>1, <2>3 DEF Operations
    <3>2. /\ \A p \in task[r].left \cup {task[r].member} : <<r, p>> \notin signed
          /\ ~role_has_signup(task[r].member)
      BY <1>2, <1>5, <2>1 DEF LeftInv
    <3> QED
      BY <1>8, <2>1, <2>3, <3>1, <3>2
  <2> QED
    BY <2>2, <2>3
<1>15. CASE RosterTakes(r)
  <2>1. /\ task[r].at = "taking" /\ task' = [task EXCEPT ![r] = NextLeaver(r)]
        /\ holders' = holders \ {task[r].member} /\ UNCHANGED signed
    BY <1>2, <1>15 DEF RosterTakes, Operates, RosterWorks, Takes
  <2>2. ~NeedsRole(task[r].member)
    BY <1>2, <1>5, <2>1 DEF LeftInv, NeedsRole
  <2> QED
    BY <1>8, <1>10, <2>1, <2>2
<1>16. ~RosterBreaksOff(r)
  BY <1>2 DEF RosterBreaksOff
<1> QED
  BY <1>1, <1>6, <1>7, <1>11, <1>12, <1>13, <1>14, <1>15, <1>16

\* A new cycle drops sign-ups, and with them the need.
LEMMA CycleKeepsSafe ==
  ASSUME RoleInv, Safe, NEW r \in Rosters, StartCycle(r)
  PROVE  Safe'
<1>1. signed' \subseteq signed /\ UNCHANGED <<holders, task, pass, lineup>>
  BY DEF StartCycle, PassVars
<1>2. \A m : role_has_signup(m)' => role_has_signup(m)
  BY <1>1 DEF role_has_signup
<1>3. LeftInv'
  BY <1>1, <1>2 DEF Safe, LeftInv
<1>4. AskedInv'
  BY <1>1, <1>2 DEF Safe, AskedInv
<1>5. GivenInv'
  <2>1. \A m : InHand(m)' = InHand(m) /\ (NeedsRole(m)' => NeedsRole(m))
    BY <1>1, <1>2 DEF InHand, NeedsRole
  <2> QED
    BY <1>1, <2>1 DEF Safe, GivenInv
<1> QED
  BY <1>3, <1>4, <1>5 DEF Safe

\* Why a run finds NeededRoleIsKept violated: without a failure, a role that is needed is lost
\* only when the need comes up while the role is being taken, a sign-up since the rosters were
\* asked or a lineup while a roster's request is under way.
THEOREM NeededRoleIsKeptUnlessHasty ==
  RolesSpec /\ [][Patient]_roleVars => []NeededRoleIsKept
<1>1. RolesInit => RoleInv /\ NeedInv
  BY InitRoles DEF RolesInit, NeedInv, Safe, GivenInv, LeftInv, AskedInv, NeedsRole, role_has_signup,
                   NoPass, NoOperation
<1>2. RoleInv /\ NeedInv /\ [RolesNext]_roleVars /\ [Patient]_roleVars => RoleInv' /\ NeedInv'
  <2> SUFFICES ASSUME RoleInv, NeedInv, [RolesNext]_roleVars, [Patient]_roleVars
               PROVE  NeedInv'
    BY RoleStepsKeepInv
  <2>1. CASE UNCHANGED roleVars
    BY <2>1 DEF roleVars, NeedInv, Safe, GivenInv, LeftInv, AskedInv, NeedsRole, InHand, role_has_signup
  <2>2. CASE RolesNext /\ Patient
    <3>1. roleFaults \in Nat
      BY DEF NeedInv
    <3>2. UNCHANGED roleFaults \/ roleFaults' = roleFaults + 1
      <4>1. CASE PassSteps
        BY <4>1 DEF PassSteps, GiveNext, WarGives, AllGiven, AskRosters, LookAtMember, WarTakes,
                    NoRoleFault, RoleFault
      <4>2. CASE (\E players \in SUBSET Players : BeginPass(players)) \/ EndPass \/ SaveClaims
                 \/ RestartRoles \/ SaveCache \/ PassBreaksOff
        BY <4>2 DEF BeginPass, EndPass, SaveClaims, RestartRoles, SaveCache, PassBreaksOff, NoRoleFault, RoleFault
      <4>3. CASE RosterSteps
        BY <4>3 DEF RosterSteps, SignUp, LeaveRoster, GiveSignedUp, RosterGives, AskOtherRosters,
                    AskWar, RosterTakes, RosterBreaksOff, NoRoleFault, RoleFault
      <4>4. CASE \E r \in Rosters : StartCycle(r)
        BY <4>4 DEF StartCycle, NoRoleFault
      <4> QED
        BY <2>2, <4>1, <4>2, <4>3, <4>4 DEF RolesNext, PassSteps, RosterSteps
    <3>3. ASSUME roleFaults' = 0  PROVE Safe'
      <4>1. UNCHANGED roleFaults /\ roleFaults = 0
        BY <3>1, <3>2, <3>3
      <4>2. Safe
        BY <4>1 DEF NeedInv
      <4>3. ~RestartRoles /\ ~PassBreaksOff
        BY <3>1, <4>1 DEF RestartRoles, PassBreaksOff, RoleFault
      <4>4. CASE PassSteps \/ EndPass \/ SaveClaims \/ SaveCache
        BY <3>1, <4>1, <4>2, <4>4, PassKeepsSafe
      <4>5. CASE \E players \in SUBSET Players : BeginPass(players)
        BY <2>2, <4>2, <4>5, LineupKeepsSafe
      <4>6. CASE RosterSteps
        BY <2>2, <3>1, <4>1, <4>2, <4>6, RostersKeepSafe
      <4>7. CASE \E r \in Rosters : StartCycle(r)
        BY <4>2, <4>7, CycleKeepsSafe
      <4> QED
        BY <2>2, <4>3, <4>4, <4>5, <4>6, <4>7 DEF RolesNext, PassSteps, RosterSteps
    <3> QED
      BY <3>1, <3>2, <3>3 DEF NeedInv
  <2> QED
    BY <2>1, <2>2
<1>3. NeedInv => NeededRoleIsKept
  BY DEF NeedInv, Safe, GivenInv, NeedsRole, InHand, NeededRoleIsKept, NoPass, NoOperation
<1> QED
  BY <1>1, <1>2, <1>3, PTL DEF RolesSpec

-----------------------------------------------------------------------------
(* NewsPublishing: posts answer presses. *)

\* Whoever has the lock after posting has used a press up that still counts as waiting.
UsedUp == IF newsAt \in {"commit", "dismiss"} THEN 1 ELSE 0
PressesAnswer ==
  /\ publishers \in Seq([sees : BOOLEAN]) /\ presses \in 0..MaxPresses
  /\ newsAt # "refresh" => publishers # <<>>
  /\ newsDb.receipt <= posts /\ uncommitted <= posts
  /\ posts + Len(publishers) <= presses + UsedUp
NewsTypes == NewsInv /\ PressesAnswer

LEMMA PressesAnswerKept ==
  ASSUME NewsInv, PressesAnswer, NewsNext
  PROVE  PressesAnswer'
<1>0. /\ newsDb \in [receipt : Nat, prompt : BOOLEAN] /\ posts \in Nat /\ uncommitted \in Nat
      /\ newsAt \in {"refresh", "send", "commit", "dismiss"}
      /\ publishers \in Seq([sees : BOOLEAN]) /\ presses \in 0..MaxPresses /\ MaxPresses \in Nat
      /\ newsAt # "refresh" => publishers # <<>>
      /\ newsDb.receipt <= posts /\ uncommitted <= posts
      /\ posts + Len(publishers) <= presses + UsedUp
  BY NewsAssumption DEF NewsInv, NewsShapes, PressesAnswer
<1>a. /\ Len(publishers) \in Nat
      /\ publishers # <<>> => /\ Tail(publishers) \in Seq([sees : BOOLEAN])
                              /\ Len(Tail(publishers)) = Len(publishers) - 1 /\ Len(publishers) >= 1
      /\ UsedUp = IF newsAt \in {"commit", "dismiss"} THEN 1 ELSE 0
      /\ UsedUp' = IF newsAt' \in {"commit", "dismiss"} THEN 1 ELSE 0
  BY <1>0 DEF UsedUp
<1>1. CASE SeeUpdate \/ PostPrompt \/ SavePrompt \/ DismissPrompt \/ PromptExpires \/ CleanupEnds
  <2>1. newsDb'.receipt = newsDb.receipt /\ UNCHANGED <<uncommitted, posts, publishers, newsAt, presses>>
    BY <1>0, <1>1 DEF SeeUpdate, PostPrompt, SavePrompt, DismissPrompt, PromptExpires, CleanupEnds,
       RemovePrompt, RemoveMessage, ChangeNews, SameNews
  <2> QED
    BY <1>0, <1>a, <2>1 DEF PressesAnswer
<1>2. CASE AskToPublish
  <2>1. PICK sees \in BOOLEAN : publishers' = Append(publishers, [sees |-> sees])
    BY <1>2 DEF AskToPublish
  <2>2. [sees |-> sees] \in [sees : BOOLEAN]
    OBVIOUS
  <2>3. publishers' \in Seq([sees : BOOLEAN]) /\ Len(publishers') = Len(publishers) + 1 /\ publishers' # <<>>
    BY <1>0, <2>1, <2>2
  <2>4. presses' \in 0..MaxPresses /\ presses' = presses + 1 /\ UNCHANGED <<newsDb, posts, uncommitted, newsAt>>
    BY <1>0, <1>2 DEF AskToPublish
  <2> QED
    BY <1>0, <1>a, <2>3, <2>4 DEF PressesAnswer
<1>3. CASE ReadReceipt
  <2>1. /\ newsDb' = newsDb /\ UNCHANGED <<posts, publishers, presses>> /\ publishers # <<>>
        /\ uncommitted' \in {uncommitted, NoPost} /\ newsAt = "refresh"
    BY <1>3 DEF ReadReceipt, Publishes
  <2> QED
    BY <1>0, <1>a, <2>1 DEF PressesAnswer, NoPost
<1>4. CASE SendPost
  BY <1>0, <1>a, <1>4 DEF SendPost, after_send, PressesAnswer
<1>5. CASE SendPostFails \/ CommitFails
  <2>1. /\ newsDb' = newsDb /\ UNCHANGED <<presses, uncommitted>> /\ publishers # <<>>
        /\ publishers' = Tail(publishers) /\ newsAt' = "refresh"
        /\ posts' = posts \/ (newsAt = "send" /\ posts' = posts + 1)
        /\ newsAt \in {"send", "commit"}
    BY <1>5 DEF SendPostFails, CommitFails, kept_uncommitted, GivesLockUp, Publishes
  <2> QED
    BY <1>0, <1>a, <2>1 DEF PressesAnswer
<1>6. CASE CommitReceipt
  <2>1. /\ newsDb'.receipt = uncommitted /\ UNCHANGED <<posts, presses>> /\ uncommitted' = 0
        /\ newsAt = "commit" /\ publishers # <<>>
        /\ \/ newsAt' = "dismiss" /\ UNCHANGED publishers
           \/ publishers' = Tail(publishers) /\ newsAt' = "refresh"
    BY <1>0, <1>6 DEF CommitReceipt, ChangeNews, GivesLockUp, Publishes, NoPost
  <2>2. posts + Len(publishers) <= presses + 1
    BY <1>0, <1>a, <2>1
  <2>3. CASE newsAt' = "dismiss" /\ UNCHANGED publishers
    BY <1>0, <1>a, <2>1, <2>2, <2>3 DEF PressesAnswer
  <2>4. CASE publishers' = Tail(publishers) /\ newsAt' = "refresh"
    BY <1>0, <1>a, <2>1, <2>2, <2>4 DEF PressesAnswer
  <2> QED
    BY <2>1, <2>3, <2>4
<1>7. CASE DismissUsed
  <2>1. /\ newsDb'.receipt = newsDb.receipt /\ UNCHANGED <<posts, presses, uncommitted>>
        /\ newsAt = "dismiss" /\ publishers # <<>> /\ publishers' = Tail(publishers) /\ newsAt' = "refresh"
    BY <1>0, <1>7 DEF DismissUsed, RemovePrompt, RemoveMessage, ChangeNews, SameNews, GivesLockUp, Publishes
  <2> QED
    BY <1>0, <1>a, <2>1 DEF PressesAnswer
<1>8. CASE RestartNews
  <2>1. /\ newsDb' = newsDb /\ UNCHANGED <<posts, presses>> /\ uncommitted' = 0
        /\ publishers' = <<>> /\ newsAt' = "refresh"
    BY <1>8 DEF RestartNews, NoPost
  <2> QED
    BY <1>0, <1>a, <2>1 DEF PressesAnswer
<1> QED
  BY <1>1, <1>2, <1>3, <1>4, <1>5, <1>6, <1>7, <1>8 DEF NewsNext

LEMMA NewsTypesStart == NewsInit => NewsTypes
<1> SUFFICES ASSUME NewsInit PROVE NewsTypes
  OBVIOUS
<1>1. PressesAnswer
  <2>1. /\ publishers = <<>> /\ presses = 0 /\ posts = 0 /\ uncommitted = 0 /\ newsDb.receipt = 0
        /\ newsAt = "refresh"
    BY DEF NewsInit, NoPost
  <2> QED
    BY <2>1, NewsAssumption DEF PressesAnswer, UsedUp
<1> QED
  BY <1>1, NewsStarts DEF NewsTypes

LEMMA NewsTypesKept == NewsTypes /\ [NewsNext]_newsVars => NewsTypes'
<1> SUFFICES ASSUME NewsTypes, [NewsNext]_newsVars PROVE NewsTypes'
  OBVIOUS
<1>1. NewsInv'
  BY NewsKept DEF NewsTypes
<1>2. CASE UNCHANGED newsVars
  BY <1>1, <1>2 DEF newsVars, NewsTypes, PressesAnswer, UsedUp
<1>3. CASE NewsNext
  BY <1>1, <1>3, PressesAnswerKept DEF NewsTypes
<1> QED
  BY <1>2, <1>3

LEMMA NewsTypesAre == NewsTypes => NewsTypeOK
<1> SUFFICES ASSUME NewsTypes PROVE NewsTypeOK
  OBVIOUS
<1>1. /\ newsDb \in [receipt : Nat, prompt : BOOLEAN] /\ newsState.receipt = newsDb.receipt
      /\ posts \in Nat /\ uncommitted \in 0..posts /\ newsDb.receipt <= posts
      /\ newsAt \in {"refresh", "send", "commit", "dismiss"}
      /\ newsAt = "commit" => uncommitted # NoPost
  BY DEF NewsTypes, NewsInv, NewsShapes, HolderKnows, PressesAnswer
<1>2. posts <= MaxPresses + 1
  <2>1. Len(publishers) \in Nat /\ posts + Len(publishers) <= presses + UsedUp /\ presses \in 0..MaxPresses
    BY DEF NewsTypes, PressesAnswer
  <2>2. UsedUp \in {0, 1}
    BY DEF UsedUp
  <2> QED
    BY <1>1, <2>1, <2>2, NewsAssumption
<1>3. newsDb \in NewsRow
  BY <1>1, <1>2, NewsAssumption DEF NewsRow
<1> QED
  BY <1>1, <1>3 DEF NewsTypeOK

-----------------------------------------------------------------------------
(* WarSummaries: what a pass or a sweep keeps it has looked at. *)

LooksOnce == cleaning.keep \cap cleaning.left = {}
WarTypes == WarInv /\ LooksOnce

LEMMA LooksOnceKept ==
  ASSUME WarInv, LooksOnce, WarNext
  PROVE  LooksOnce'
<1>0. /\ cleaning \in [left : SUBSET PostedOnes, keep : SUBSET PostedOnes]
      /\ cleaning.keep \cap cleaning.left = {}
  BY DEF WarInv, WarShapes, LooksOnce
<1>1. CASE cleaning' = cleaning
  BY <1>1 DEF LooksOnce
<1>2. CASE SaveSummary
  BY <1>0, <1>2 DEF SaveSummary, LooksOnce
<1>3. CASE CleanOne
  <2>1. PICK s \in cleaning.left :
          /\ cleaning'.left = cleaning.left \ {s}
          /\ cleaning'.keep = cleaning.keep \/ cleaning'.keep = cleaning.keep \cup {s}
    BY <1>0, <1>3 DEF CleanOne
  <2> QED
    BY <1>0, <2>1 DEF LooksOnce
<1>4. CASE EndClean \/ RestartWars
  BY <1>4 DEF EndClean, RestartWars, NoVisit, LooksOnce
<1>5. CASE \/ WarGoesOn \/ TimePasses \/ BeginSummary \/ LookForSummary \/ SendSummary \/ MarkProcessed
           \/ SaveSummaryFails \/ BeginSweep \/ SweepOne \/ EndSweep
  <2>1. UNCHANGED cleaning
    BY <1>5 DEF WarGoesOn, TimePasses, BeginSummary, LookForSummary, SendSummary, MarkProcessed,
       SaveSummaryFails, BeginSweep, SweepOne, EndSweep, SweepOnly
  <2> QED
    BY <1>1, <2>1
<1> QED
  BY <1>2, <1>3, <1>4, <1>5 DEF WarNext

LEMMA WarTypesStart == WarInit => WarTypes
BY WarStarts DEF WarInit, WarTypes, LooksOnce, NoVisit

LEMMA WarTypesKept == WarTypes /\ [WarNext]_warVars => WarTypes'
<1> SUFFICES ASSUME WarTypes, [WarNext]_warVars PROVE WarTypes'
  OBVIOUS
<1>1. WarInv'
  BY WarKept DEF WarTypes
<1>2. CASE UNCHANGED warVars
  BY <1>1, <1>2 DEF warVars, WarTypes, LooksOnce
<1>3. CASE WarNext
  BY <1>1, <1>3, LooksOnceKept DEF WarTypes
<1> QED
  BY <1>2, <1>3

LEMMA WarTypesAre == WarTypes => WarTypeOK
<1> SUFFICES ASSUME WarTypes PROVE WarTypeOK
  OBVIOUS
<1>1. WarShapes /\ PassKnows /\ SweepKnows /\ LooksOnce
  BY DEF WarTypes, WarInv
<1>2. PostedOnes \subseteq Summaries
  BY WarSummaryAssumption DEF PostedOnes, Summaries
<1> QED
  BY <1>1, <1>2 DEF WarShapes, PassKnows, PassPlaces, SweepKnows, LooksOnce, WarTypeOK

-----------------------------------------------------------------------------
(* What each component's types say of it, for every behaviour of it. *)
\* There are no more posts than presses, and the receipt and the post without one are of them.
THEOREM NewsTypesCorrect == NewsSpec => []NewsTypeOK
BY NewsTypesStart, NewsTypesKept, NewsTypesAre, PTL DEF NewsSpec

\* A pass works on a war that does not count as done, and what a pass or a sweep keeps it has
\* looked at.
THEOREM WarTypesCorrect == WarSpec => []WarTypeOK
BY WarTypesStart, WarTypesKept, WarTypesAre, PTL DEF WarSpec

\* Nobody waits for a profile that nobody fetches, and what is kept was fetched.
THEOREM ProfileTypesCorrect == ProfileSpec => []ProfileTypeOK
<1>1. ProfileInv => ProfileTypeOK
  BY DEF ProfileInv
<1> QED
  BY <1>1, ProfileStarts, ProfileKept, PTL DEF ProfileSpec

\* Whoever has no answer yet waits in one batch, and somebody works on it.
THEOREM PublishTypesCorrect == PublishSpec => []PublishTypeOK
<1>1. PublishInv => PublishTypeOK
  <2> SUFFICES ASSUME PublishInv PROVE PublishTypeOK
    OBVIOUS
  <2>0. PublishShapes /\ AnsweredInOrder
    BY DEF PublishInv
  <2>1. waiting.waiters \cup active.waiters = Unanswered
    BY <2>0 DEF PublishShapes, Unanswered
  <2>2. waiting.waiters \cap active.waiters = {}
    <3> SUFFICES ASSUME NEW s \in waiting.waiters, s \in active.waiters PROVE FALSE
      OBVIOUS
    <3>1. s \in Nat /\ s < s
      BY <2>0 DEF PublishShapes, AnsweredInOrder
    <3> QED
      BY <3>1
  <2> QED
    BY <2>0, <2>1, <2>2 DEF PublishShapes, PublishTypeOK
<1> QED
  BY <1>1, PublishStarts, PublishKept, PTL DEF PublishSpec

\* Memory agrees with the queue's table whenever no deletion is being published.
THEOREM TransferTypesCorrect == TransferSpec => []TransferTypeOK
<1>1. TransferInv => TransferTypeOK
  BY DEF TransferInv, TransferShapes, Remembers, TransferTypeOK
<1> QED
  BY <1>1, TransferStarts, TransferKept, PTL DEF TransferSpec

\* A command works on a case that has progress, and no rank is among the stored roles.
THEOREM HibernationTypesCorrect == HibernationSpec => []HibernationTypeOK
<1>1. HibernationInv => HibernationTypeOK
  <2> SUFFICES ASSUME HibernationInv PROVE HibernationTypeOK
    OBVIOUS
  <2>0. CaseShapes /\ UnderWay
    BY DEF HibernationInv
  <2>1. entry.case \in 0..cases /\ entry.stored \subseteq Roles \ Ranks
    BY <2>0 DEF CaseShapes, SavedEntries, NoEntry
  <2>2. \A p \in {entry.going, entry.coming} :
          p.remove \cup p.add \subseteq Roles /\ p.done \subseteq Steps \cup {"none"}
    <3>1. entry.going \in Progresses /\ entry.coming \in Progresses
      BY ONLY <2>0 DEF CaseShapes, SavedEntries
    <3>2. \A p \in Progresses : p.remove \cup p.add \subseteq Roles /\ p.done \subseteq Steps \cup {"none"}
      BY ONLY TRUE DEF Progresses
    <3> QED
      BY ONLY <3>1, <3>2
  <2> QED
    BY <2>0, <2>1, <2>2 DEF CaseShapes, UnderWay, HibernationTypeOK
<1> QED
  BY <1>1, InitHibernation, HibernationStep, PTL DEF HibernationSpec
=============================================================================
