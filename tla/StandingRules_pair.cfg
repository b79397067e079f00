SPECIFICATION FairSpec
CONSTANTS
  Owners = {w1, w2}
  NoOwner = NoOwner
  Channel = Channel
  r1 = r1
  r2 = r2
  ann = ann
  bob = bob
  Requester <- AllAnn
  Rules = {r1, r2}
  Members = {}
  Schedules <- OnceOnly
  Kind <- RequestAndWatcher
  Clash <- TwoClash
  MaxDue = 1
  MaxTime = 3
  MaxEdits = 3
  MaxFaults = 1
INVARIANTS ActiveRulesKeepApart VersionNamesRow
PROPERTIES EveryRunEnds DueRuleIsTaken
CHECK_DEADLOCK FALSE
