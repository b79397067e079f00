SPECIFICATION Spec
CONSTANTS
  Owners = {w1, w2}
  NoOwner = NoOwner
  Channel = Channel
  r1 = r1
  r2 = r2
  ann = ann
  bob = bob
  Requester <- AllAnn
  Rules = {r1}
  Members = {}
  Schedules <- OnceOnly
  Kind <- AllRequests
  Clash <- NoClash
  MaxDue = 1
  MaxTime = 3
  MaxEdits = 3
  MaxFaults = 1
INVARIANTS ActiveRuleHasNextRun
CHECK_DEADLOCK FALSE
