CONSTANTS
  NumSteps = 2
  MaxAttempts = 2
  Publishers = {p1, p2}
  Workers = {w1, w2}
  MaxMishaps = 2
  MaxDropped = 1
  Cancellable = TRUE
SPECIFICATION FairSpec
CHECK_DEADLOCK FALSE
INVARIANTS
  TypeOK OneExecutor WorkIsDoneOnce NoLostWork BudgetIsKept
PROPERTIES
  KeepsContract JobEnds
