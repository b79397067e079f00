SPECIFICATION Spec
CONSTANTS
  Previews = {p1, p2}
  Runs = {run1, run2}
  NoPreview = NoPreview
  N = 2
  Bound <- SecondStep
  MaxFaults = 1
INVARIANTS TypeOK EveryEffectIsLogged TasksAndRunsMatch LogFollowsSteps DoneMeansDone
SYMMETRY Unordered
CHECK_DEADLOCK FALSE
