SPECIFICATION Spec
CONSTANTS
  Previews = {p1}
  Runs = {run1}
  NoPreview = NoPreview
  N = 2
  Bound <- SecondStep
  MaxFaults = 0
INVARIANTS NothingChangedMeansNothing
CHECK_DEADLOCK FALSE
