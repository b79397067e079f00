SPECIFICATION Spec
CONSTANTS
  Owners = {w1, w2}
  NoOwner = NoOwner
  Channel = Channel
  r1 = r1
  r2 = r2
  ann = ann
  bob = bob
  Requester <- AllAnn
  Rules = {r1}
  Members = {bob}
  Schedules <- MixedSchedules
  Kind <- AllReminders
  Clash <- NoClash
  MaxDue = 1
  MaxTime = 3
  MaxEdits = 3
  MaxFaults = 2
INVARIANTS TypeOK RunsWhatIsSaved HaltedRuleStaysHalted DeliveredOnce SameRuleNeverOverlaps
SYMMETRY OwnerSymmetry
CHECK_DEADLOCK FALSE
