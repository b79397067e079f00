--------------------------- MODULE MCFeaturesProofs ---------------------------
(***************************************************************************)
(* The components in one specification: each of them behaves as it does by  *)
(* itself, so what is proved of it holds of the whole.                      *)
(***************************************************************************)
EXTENDS MCFeatures, AgentProofs, FeatureProofs

\* A behaviour of the whole is one of every component: the one that moves takes its steps,
\* the others rest.
THEOREM EachAsSpecified ==
  FeaturesSpec =>
    /\ RequestSpec /\ DeliverSpec /\ ResearchSpec /\ PlanSpec /\ WatcherSpec /\ ReminderSpec
    /\ PublishSpec /\ ProfileSpec /\ TransferSpec /\ HibernationSpec /\ NewsSpec /\ WarSpec
    /\ RolesSpec
<1> DEFINE all == <<subject, requestVars, deliverVars, researchVars, planVars, watcherVars, reminderVars,
                    publishVars, profileVars, transferVars, hibernationVars, newsVars, warVars, roleVars>>
<1>1. FeaturesInit =>
        /\ RequestInit /\ DeliverInit /\ ResearchInit /\ PlanInit /\ WatcherInit /\ ReminderInit
        /\ PublishInit /\ ProfileInit /\ TransferInit /\ HibernationInit /\ NewsInit /\ WarInit
        /\ RolesInit
  BY DEF FeaturesInit
<1>2. [FeaturesNext]_all => [RequestNext]_requestVars /\ [DeliverNext]_deliverVars
  BY DEF FeaturesNext
<1>3. [FeaturesNext]_all => [ResearchNext]_researchVars /\ [PlanNext]_planVars
  BY DEF FeaturesNext
<1>4. [FeaturesNext]_all => [WatcherNext]_watcherVars /\ [ReminderNext]_reminderVars
  BY DEF FeaturesNext
<1>5. [FeaturesNext]_all => [PublishNext]_publishVars /\ [ProfileNext]_profileVars
  BY DEF FeaturesNext
<1>6. [FeaturesNext]_all => [TransferNext]_transferVars /\ [HibernationNext]_hibernationVars
  BY DEF FeaturesNext
<1>7. [FeaturesNext]_all => [NewsNext]_newsVars /\ [WarNext]_warVars /\ [RolesNext]_roleVars
  BY DEF FeaturesNext
<1> QED
  BY <1>1, <1>2, <1>3, <1>4, <1>5, <1>6, <1>7, PTL
     DEF FeaturesSpec, RequestSpec, DeliverSpec, ResearchSpec, PlanSpec, WatcherSpec, ReminderSpec, PublishSpec,
         ProfileSpec, TransferSpec, HibernationSpec, NewsSpec, WarSpec, RolesSpec

\* FeaturesTypeOK holds of every behaviour, for every subject and every value of the
\* components' constants.
THEOREM FeaturesTypesCorrect == FeaturesSpec => []FeaturesTypeOK
<1>1. /\ RequestTypeOK /\ DeliverTypeOK /\ ResearchTypeOK /\ PlanTypeOK /\ WatcherTypeOK /\ ReminderTypeOK
      /\ PublishTypeOK /\ ProfileTypeOK /\ TransferTypeOK /\ HibernationTypeOK /\ NewsTypeOK /\ WarTypeOK
      /\ RolesTypeOK
      => FeaturesTypeOK
  BY DEF FeaturesTypeOK
<1> QED
  BY <1>1, EachAsSpecified, RequestTypesCorrect, DeliverTypesCorrect, ResearchTypesCorrect, PlanTypesCorrect,
     WatcherTypesCorrect, ReminderTypesCorrect, PublishTypesCorrect, ProfileTypesCorrect, TransferTypesCorrect,
     HibernationTypesCorrect, NewsTypesCorrect, WarTypesCorrect, RolesTypeCorrect, PTL

\* The whole keeps every safety property that the runs of the components check: RequestsInOrder,
\* OneAnswerInFull, ResearchLosesNothing, StepsRunAsPlanned, AlertsTellNews, StopsAreRespected,
\* ShownAsAnswered, FetchesAreKept, QueueIsTrue, HibernationUndone, PostedOnceForGood,
\* OneSummaryPerWar and RoleHasAnOwner.
THEOREM EachKeepsItsPromise ==
  FeaturesSpec =>
    /\ RequestsInOrder /\ []OneAnswerInFull /\ ResearchLosesNothing /\ []StepsRunAsPlanned
    /\ AlertsTellNews /\ StopsAreRespected
    /\ ShownAsAnswered /\ FetchesAreKept /\ []QueueIsTrue /\ []HibernationUndone
    /\ PostedOnceForGood /\ OneSummaryPerWar /\ []RoleHasAnOwner
BY EachAsSpecified, RequestsKeepOrder, AnswersInFull, ResearchKeepsAll, StepsAsPlanned, AlertsToldOnce,
   StopsRespected, AnswersAreShown, FetchesKept, QueueStaysTrue, HibernationIsUndone, NewsPostedOnce, SummaryKept,
   NobodyIsLeftWithTheRole, PTL
=============================================================================
