CONSTANTS
  NumSteps = 2
  MaxAttempts = 2
  Publishers = {p1}
  Workers = {w1}
  MaxMishaps = 0
  MaxDropped = 0
  Cancellable = FALSE
SPECIFICATION Spec
CHECK_DEADLOCK FALSE
INVARIANTS
  StepsBuildOnPrior
