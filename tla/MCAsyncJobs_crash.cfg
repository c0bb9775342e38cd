CONSTANTS
  NumSteps = 1
  MaxAttempts = 2
  Publishers = {p1}
  Workers = {w1}
  MaxMishaps = 1
  MaxDropped = 0
  Cancellable = FALSE
SPECIFICATION FairSpec
CHECK_DEADLOCK FALSE
PROPERTIES
  InterruptedWorkResumes
