CONSTANTS
  Threads = {t1, t2}
  RequestIds = {r1, r2}
  RateLimit = 4
  Window = 2
  Threshold = 2
  Recovery = 1
  MaxAttempts = 1
  MaxTime = 1
  MaxSearches = 4
  NoTime = NoTime
SPECIFICATION SearchSpec
SYMMETRY SearchSymmetry
CHECK_DEADLOCK FALSE
INVARIANTS
  OpenHasTime
