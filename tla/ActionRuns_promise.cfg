SPECIFICATION FairSpec
CONSTANTS
  Previews = {p1}
  Runs = {run1, run2}
  NoPreview = NoPreview
  N = 2
  Bound <- SecondStep
  MaxFaults = 3
PROPERTIES ImplementsCheckedChange EveryConfirmationEnds
CHECK_DEADLOCK FALSE
