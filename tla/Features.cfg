SPECIFICATION FeaturesSpec
CHECK_DEADLOCK FALSE
CONSTANTS
  Subjects = {"requests", "replies", "research", "plans", "watchers", "reminders", "publishing",
              "profiles", "transfers", "hibernation", "news", "wars",
              "roles"}
  m1 = m1
  m2 = m2
  m3 = m3
  m4 = m4
  e1 = e1
  e2 = e2
  e3 = e3
  e4 = e4
  ann = ann
  bob = bob
  NoMessage = NoMessage
  Nobody = Nobody
  Messages = {m1, m2, m3, m4}
  Events = {e1, e2, e3, e4}
  MessageOf <- Crowd
  Author <- Authors
  ReplyTo <- Replies
  Mentions = {m1, m3, m4}
  Changes = {m1}
  MaxConversations = 2
  MaxRequests = 2
  Concurrency = 2
  MaxCopies = 3
  MaxSilences = 1
  MaxStops = 0
  Shapes <- AllShapes
  MaxFollowUps = 2
  Jobs = {1}
  Workers = {"runner", "asker"}
  runner = "runner"
  Count = 4
  Wanted = {1, 3, 4}
  PageSize = 2
  WorkPerPoll = 1
  MaxJobPages = 3
  MaxJobMessages = 2
  MaxMishaps = 2
  Plans <- SomePlans
  Slots = 2
  MaxLookups = 4
  MaxPlans = 2
  MaxTroubles = 2
  Values <- Levels
  Conditions <- Watched
  NoValue = 9
  MaxEdits = 2
  MaxFaults = 2
  Recipients = {"ann", "bob"}
  requester = "ann"
  MessageParts = 2
  MaxRuns = 2
  MaxChanges = 2
  Versions <- Edits
  EditLimit = 2
  HttpAttempts = 2
  MaxSubmissions = 3
  MaxPublishFaults = 1
  Askers = {"a", "b"}
  MaxAsked = 2
  MaxLanded = 2
  Taps = {"tap1", "tap2"}
  Movers = {"ann", "bob"}
  Deletable = {"ann"}
  MaxCommands = 2
  MaxTransferStops = 1
  MaxMoves = 4
  MaxBreaks = 1
  MaxPresses = 3
  MaxNewsFaults = 3
  MaxWars = 2
  MaxWordings = 2
  MaxSummaryFaults = 3
  Players = {"ann"}
  Rosters = {"first", "second"}
  MaxLineups = 3
  MaxSignups = 3
  MaxRoleFaults = 2
INVARIANTS
  FeaturesTypeOK OneAnswerInFull QueueIsTrue HibernationUndone RoleHasAnOwner
PROPERTIES
  RequestsInOrder AlertsTellNews StopsAreRespected OneSummaryPerWar
