CONSTANTS
  NumSteps = 1
  MaxAttempts = 2
  Publishers = {p1}
  Workers = {w1}
  MaxMishaps = 0
  MaxDropped = 0
  Cancellable = TRUE
SPECIFICATION FairSpec
CHECK_DEADLOCK FALSE
PROPERTIES
  CancelEnds
