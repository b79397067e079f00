SPECIFICATION DeliverSpec
CONSTANTS
  Shapes <- AllShapes
  MaxFollowUps = 2
INVARIANTS FoundSendIsConfirmed
CHECK_DEADLOCK FALSE
