---------------------------- MODULE NewsPublishing ----------------------------
(***************************************************************************)
(* Forwarding one leadership update to the public news channel              *)
(* (features/leadership_news/cog.py): a prompt offers it, its button and    *)
(* the agent publish it under a lock per update, a receipt is stored, and   *)
(* the prompt goes when it was used or a day has passed.                    *)
(*                                                                          *)
(* Abstracted: one update with one prompt; receipts imported from the old   *)
(* file; the deletion of member data.  A send that fails may have taken     *)
(* effect.                                                                  *)
(***************************************************************************)
EXTENDS Naturals, Sequences, SequencesExt

CONSTANTS MaxPresses, MaxNewsFaults    \* publications asked for; calls that fail, and restarts

ASSUME NewsAssumption == MaxPresses \in Nat /\ MaxNewsFaults \in Nat

VARIABLES
  newsDb,      \* stored: the receipt (number of the post, or NoPost) and whether the prompt is known
  newsState,   \* _state, the copy of it in memory
  uncommitted, \* _uncommitted_publications: the post without a receipt, or NoPost
  posts,       \* posts of the update in the public channel
  prompt,      \* its message: "none", "posted", "used" (after publishing), "dismissed" or "expired"
  offering,    \* how far on_message is: "seen", "replying", "replied", "offered"
  cleanup,     \* whether _cleanup_prompt runs
  unwatched,   \* history: a connection that broke ended _cleanup_prompt since the start
  publishers,  \* who holds or waits for the lock: [sees |-> whether it knows the prompt]
  newsAt,      \* where the first of them is
  unremembered, presses, newsFaults

newsVars == <<newsDb, newsState, uncommitted, posts, prompt, offering, cleanup, unwatched, publishers,
              newsAt, unremembered, presses, newsFaults>>

NoPost == 0
NewsRow    == [receipt : 0..(MaxPresses + 1), prompt : BOOLEAN]

NewsInit ==
  /\ newsDb = [receipt |-> NoPost, prompt |-> FALSE] /\ newsState = newsDb /\ uncommitted = NoPost
  /\ posts = 0 /\ prompt = "none" /\ offering = "seen" /\ cleanup = FALSE /\ unwatched = FALSE
  /\ publishers = <<>> /\ newsAt = "refresh" /\ unremembered = 0 /\ presses = 0 /\ newsFaults = 0

NewsFault == newsFaults < MaxNewsFaults /\ newsFaults' = newsFaults + 1
NoNewsFault == UNCHANGED newsFaults
\* _change: the row is edited and read back, also for a caller that is cancelled meanwhile.
ChangeNews(row) == newsDb' = row /\ newsState' = row
SameNews    == UNCHANGED <<newsDb, newsState>>
GivesLockUp      == publishers' = Tail(publishers) /\ newsAt' = "refresh"
Publishes   == publishers # <<>>

-----------------------------------------------------------------------------
(* The prompt: on_message, the Dismiss button, _cleanup_prompt *)

\* An update that is published already gets no prompt; the reply may come later.
SeeUpdate ==
  /\ offering = "seen"
  /\ offering' = IF newsState.receipt # NoPost THEN "offered" ELSE "replying"
  /\ UNCHANGED <<newsDb, newsState, uncommitted, posts, prompt, cleanup, unwatched, publishers, newsAt,
                 unremembered, presses, newsFaults>>

PostPrompt ==
  /\ offering = "replying" /\ offering' = "replied" /\ prompt' = "posted"
  /\ UNCHANGED <<newsDb, newsState, uncommitted, posts, cleanup, unwatched, publishers, newsAt,
                 unremembered, presses, newsFaults>>

SavePrompt ==
  /\ offering = "replied" /\ offering' = "offered"
  /\ ChangeNews([newsDb EXCEPT !.prompt = TRUE]) /\ cleanup' = TRUE
  /\ UNCHANGED <<uncommitted, posts, prompt, unwatched, publishers, newsAt, unremembered, presses,
                 newsFaults>>

\* dismiss_public_news_prompt and _cleanup_prompt delete the message, then the row.
RemovePrompt(how) ==
  /\ prompt' = IF prompt = "posted" THEN how ELSE prompt
  /\ ChangeNews([newsDb EXCEPT !.prompt = FALSE]) /\ cleanup' = FALSE
\* The message is gone and its row is not.
RemoveMessage(how) ==
  prompt' = (IF prompt = "posted" THEN how ELSE prompt) /\ SameNews

DismissPrompt ==
  /\ prompt = "posted"
  /\ \/ RemovePrompt("dismissed") /\ NoNewsFault
     \/ RemoveMessage("dismissed") /\ NewsFault /\ UNCHANGED cleanup
  /\ UNCHANGED <<uncommitted, posts, offering, unwatched, publishers, newsAt, unremembered, presses>>

\* A message that Discord refuses to delete is tried again; a row that cannot be edited ends the
\* task, and so does a connection that breaks.
PromptExpires ==
  /\ cleanup /\ newsState.prompt
  /\ \/ RemovePrompt("expired") /\ UNCHANGED unwatched /\ NoNewsFault
     \/ RemoveMessage("expired") /\ NewsFault /\ cleanup' = FALSE /\ UNCHANGED unwatched
     \/ UNCHANGED prompt /\ SameNews /\ NewsFault /\ cleanup' = FALSE /\ unwatched' = TRUE
  /\ UNCHANGED <<uncommitted, posts, offering, publishers, newsAt, unremembered, presses>>
CleanupEnds ==
  /\ cleanup /\ ~newsState.prompt /\ cleanup' = FALSE
  /\ UNCHANGED <<newsDb, newsState, uncommitted, posts, prompt, offering, unwatched, publishers, newsAt,
                 unremembered, presses, newsFaults>>

-----------------------------------------------------------------------------
(* publish_public_news, from the button or by the agent *)

AskToPublish ==
  /\ presses < MaxPresses /\ presses' = presses + 1
  /\ \E sees \in {prompt = "posted", FALSE} : publishers' = Append(publishers, [sees |-> sees])
  /\ UNCHANGED <<newsDb, newsState, uncommitted, posts, prompt, offering, cleanup, unwatched, newsAt,
                 unremembered, newsFaults>>

receipt        == newsDb.receipt

ReadReceipt ==
  /\ Publishes /\ newsAt = "refresh" /\ newsState' = newsDb
  /\ cleanup' = (cleanup /\ newsDb.prompt)
  /\ IF receipt # NoPost THEN uncommitted' = NoPost /\ newsAt' = "dismiss"
     ELSE newsAt' = (IF uncommitted = NoPost THEN "send" ELSE "commit") /\ UNCHANGED uncommitted
  /\ UNCHANGED <<newsDb, posts, prompt, offering, unwatched, publishers, unremembered, presses, newsFaults>>

after_send         == "commit"

SendPost ==
  /\ Publishes /\ newsAt = "send" /\ posts' = posts + 1
  /\ uncommitted' = posts' /\ newsAt' = after_send /\ NoNewsFault
  /\ UNCHANGED <<newsDb, newsState, prompt, offering, cleanup, unwatched, publishers, unremembered, presses>>

SendPostFails ==
  /\ Publishes /\ newsAt = "send" /\ GivesLockUp /\ NewsFault
  /\ \/ UNCHANGED <<posts, unremembered>>
     \/ posts' = posts + 1 /\ unremembered' = unremembered + 1
  /\ UNCHANGED <<newsDb, newsState, uncommitted, prompt, offering, cleanup, unwatched, presses>>

CommitReceipt ==
  /\ Publishes /\ newsAt = "commit" /\ ChangeNews([newsDb EXCEPT !.receipt = uncommitted])
  /\ uncommitted' = NoPost
  /\ \/ newsAt' = "dismiss" /\ UNCHANGED publishers /\ NoNewsFault
     \/ GivesLockUp /\ NewsFault
  /\ UNCHANGED <<posts, prompt, offering, cleanup, unwatched, unremembered, presses>>

\* Mutant: a post without a receipt is forgotten.
kept_uncommitted_none == NoPost
kept_uncommitted      == uncommitted

CommitFails ==
  /\ Publishes /\ newsAt = "commit" /\ uncommitted' = kept_uncommitted /\ GivesLockUp /\ NewsFault
  /\ UNCHANGED <<newsDb, newsState, posts, prompt, offering, cleanup, unwatched, unremembered, presses>>

DismissUsed ==
  /\ Publishes /\ newsAt = "dismiss" /\ GivesLockUp
  /\ \/ Head(publishers).sees /\ RemovePrompt("used") /\ NoNewsFault
     \/ Head(publishers).sees /\ RemoveMessage("used") /\ NewsFault /\ UNCHANGED cleanup
     \/ Head(publishers).sees /\ UNCHANGED prompt /\ SameNews /\ UNCHANGED cleanup /\ NewsFault
     \/ ~Head(publishers).sees /\ UNCHANGED prompt /\ SameNews /\ UNCHANGED cleanup /\ NoNewsFault
  /\ UNCHANGED <<uncommitted, posts, offering, unwatched, unremembered, presses>>

\* Mutant: prompts of before a restart are not watched.
registered_new == FALSE
registered     == newsDb.prompt

\* A restart: what is stored is loaded, and its prompt watched again.
RestartNews ==
  /\ NewsFault /\ newsState' = newsDb /\ cleanup' = registered /\ unwatched' = FALSE
  /\ uncommitted' = NoPost
  /\ unremembered' = unremembered + IF uncommitted # NoPost /\ newsDb.receipt = NoPost THEN 1 ELSE 0
  /\ publishers' = <<>> /\ newsAt' = "refresh" /\ offering' = "offered"
  /\ UNCHANGED <<newsDb, posts, prompt, presses>>

NewsNext ==
  \/ SeeUpdate \/ PostPrompt \/ SavePrompt \/ DismissPrompt \/ PromptExpires \/ CleanupEnds \/ AskToPublish
  \/ ReadReceipt \/ SendPost \/ SendPostFails \/ CommitReceipt \/ CommitFails \/ DismissUsed
  \/ RestartNews

NewsFair == WF_newsVars(PromptExpires)
NewsSpec     == NewsInit /\ [][NewsNext]_newsVars
NewsFairSpec == NewsSpec /\ NewsFair

-----------------------------------------------------------------------------
(* Properties *)

\* The state has its shape; a receipt names a post, and memory knows every stored receipt.
NewsTypeOK ==
  /\ newsDb \in NewsRow /\ newsState.receipt = newsDb.receipt /\ newsDb.receipt <= posts
  /\ uncommitted \in 0..posts /\ newsAt \in {"refresh", "send", "commit", "dismiss"}
  /\ newsAt = "commit" => uncommitted # NoPost

\* The update is posted once, however many people and prompts publish it, except
\* after a post nobody could remember: one whose send failed or was not committed.
PublishedOnce == posts <= 1 + unremembered

\* A prompt leaves as used only when the receipt is stored.
UsedMeansReceipt == prompt = "used" => newsDb.receipt # NoPost

\* A receipt names its post for good.
ReceiptStays == newsDb.receipt # NoPost => newsDb'.receipt = newsDb.receipt

\* An update is posted once and remembered for good: what every press, failure and restart keeps.
PostedOnceForGood == [][(PublishedOnce /\ UsedMeansReceipt)' /\ ReceiptStays]_newsVars

\* A prompt that was saved goes in the end, however often Discord refuses and whatever a restart cut
\* off; where a broken connection ended the watch, it goes after a restart.
SavedPromptGoes == []<>(prompt # "posted" \/ ~newsDb.prompt \/ unwatched)
=============================================================================
