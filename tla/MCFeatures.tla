------------------------------ MODULE MCFeatures ------------------------------
(***************************************************************************)
(* Small instances of the components that share no state, in one            *)
(* specification: a behaviour is one of the component "subject", and the    *)
(* others rest in one of their initial states.                              *)
(***************************************************************************)
EXTENDS AgentRequests, ReplyDelivery, ResearchJobs, PlanSteps, WatcherAlerts, ReminderStops,
        Publishing, Profiles, ClanTransfers, Hibernation, NewsPublishing, WarSummaries, RoleClaims

CONSTANTS Subjects,                                    \* the components that are checked
          m1, m2, m3, m4, e1, e2, e3, e4, ann, bob    \* messages, their events and authors

VARIABLE subject

-----------------------------------------------------------------------------
(* AgentRequests: ann asks twice, bob once and in reply to her first answer ... *)
Crowd   == (e1 :> m1) @@ (e2 :> m2) @@ (e3 :> m3) @@ (e4 :> m4)
\* ... or ann asks twice, and bob's reply to her first answer is announced twice.
Repeat  == (e1 :> m1) @@ (e2 :> m2) @@ (e3 :> m3) @@ (e4 :> m2)
Authors == (m1 :> ann) @@ (m2 :> bob) @@ (m3 :> ann) @@ (m4 :> bob)
Replies == (m1 :> NoMessage) @@ (m2 :> m1) @@ (m3 :> NoMessage) @@ (m4 :> NoMessage)

(* ReplyDelivery *)
AllShapes == [gif : BOOLEAN, first : 1..2, second : 0..2, evidence : BOOLEAN]

(* WatcherAlerts *)
Levels  == 0..2
Watched == {{1, 2}, {2}}

(* Publishing *)
Edits == [channel |-> {"name" :> 1, "name" :> 2, "place" :> 1, ("name" :> 2) @@ ("place" :> 2)},
          message |-> {("embed" :> 1) @@ ("view" :> 1), ("embed" :> 2) @@ ("view" :> 2), "view" :> 2}]

(* PlanSteps: two equal reads and a change; a change beside reads; a diamond; fresh reads. *)
Read(needs, key)   == [needs |-> needs, key |-> key, change |-> FALSE, shares |-> TRUE]
Anew(needs, key)   == [needs |-> needs, key |-> key, change |-> FALSE, shares |-> FALSE]
Change(needs, key) == [needs |-> needs, key |-> key, change |-> TRUE, shares |-> FALSE]
SomePlans == {
  <<Read({}, "war"), Read({}, "war"), Change({1}, "role")>>,
  <<Change({}, "role"), Read({}, "war"), Read({2}, "clan"), Read({2}, "clan")>>,
  <<Read({}, "war"), Read({}, "clan"), Read({1}, "clan"), Change({1, 2}, "role")>>,
  <<Anew({}, "now"), Anew({1}, "now"), Change({}, "role")>>}

-----------------------------------------------------------------------------
OneInitialState ==
  /\ subject # "replies" => shape = CHOOSE s \in Shapes : TRUE
  /\ subject # "plans" => plan = CHOOSE p \in Plans : TRUE
  /\ subject # "publishing" => kind = "channel"
  /\ subject # "watchers" => data = 0 /\ watcher.repeat /\ watcher.condition = CHOOSE c \in Conditions : TRUE

FeaturesInit ==
  /\ subject \in Subjects
  /\ RequestInit /\ DeliverInit /\ ResearchInit /\ PlanInit /\ WatcherInit /\ ReminderInit
  /\ PublishInit /\ ProfileInit /\ TransferInit /\ HibernationInit /\ NewsInit /\ WarInit
  /\ RolesInit
  /\ OneInitialState

FeaturesNext ==
  /\ UNCHANGED subject
  /\ IF subject = "requests"    THEN RequestNext     ELSE UNCHANGED requestVars
  /\ IF subject = "replies"     THEN DeliverNext     ELSE UNCHANGED deliverVars
  /\ IF subject = "research"    THEN ResearchNext    ELSE UNCHANGED researchVars
  /\ IF subject = "plans"       THEN PlanNext        ELSE UNCHANGED planVars
  /\ IF subject = "watchers"    THEN WatcherNext     ELSE UNCHANGED watcherVars
  /\ IF subject = "reminders"   THEN ReminderNext    ELSE UNCHANGED reminderVars
  /\ IF subject = "publishing"  THEN PublishNext     ELSE UNCHANGED publishVars
  /\ IF subject = "profiles"    THEN ProfileNext     ELSE UNCHANGED profileVars
  /\ IF subject = "transfers"   THEN TransferNext    ELSE UNCHANGED transferVars
  /\ IF subject = "hibernation" THEN HibernationNext ELSE UNCHANGED hibernationVars
  /\ IF subject = "news"        THEN NewsNext        ELSE UNCHANGED newsVars
  /\ IF subject = "wars"        THEN WarNext         ELSE UNCHANGED warVars
  /\ IF subject = "roles"       THEN RolesNext       ELSE UNCHANGED roleVars

FeaturesSpec == FeaturesInit /\ [][FeaturesNext]_<<subject, requestVars, deliverVars, researchVars,
  planVars, watcherVars, reminderVars, publishVars, profileVars, transferVars, hibernationVars,
  newsVars, warVars, roleVars>>

\* The fairness of each component asks nothing of one that rests.
FeaturesFairSpec ==
  /\ FeaturesSpec
  /\ RequestFair /\ ResearchFair /\ PublishFair /\ ProfileFair /\ NewsFair
  /\ WF_planVars(subject = "plans" /\ PlanGoesOn)

\* The component that moves keeps its types, and with them who waits for whom (PublishTypeOK,
\* ProfileTypeOK), which lease belongs to which run and what memory knows of the store.
FeaturesTypeOK ==
  /\ subject = "requests"    => RequestTypeOK
  /\ subject = "replies"     => DeliverTypeOK
  /\ subject = "research"    => ResearchTypeOK
  /\ subject = "plans"       => PlanTypeOK
  /\ subject = "watchers"    => WatcherTypeOK
  /\ subject = "reminders"   => ReminderTypeOK
  /\ subject = "publishing"  => PublishTypeOK
  /\ subject = "profiles"    => ProfileTypeOK
  /\ subject = "transfers"   => TransferTypeOK
  /\ subject = "hibernation" => HibernationTypeOK
  /\ subject = "news"        => NewsTypeOK
  /\ subject = "wars"        => WarTypeOK
  /\ subject = "roles"       => RolesTypeOK
=============================================================================
