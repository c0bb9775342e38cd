CONSTANTS
  Actors <- MCActors
  Requests <- MCRequests
  Approvals <- MCApprovals
  Sessions = {s1, s2}
  Limit = 4
  MaxRefunds = 3
  MaxFaults = 3
  MaxProposals = 4
  None = None
  Threads = {t1, t2}
  RequestIds = {r1, r2}
  RateLimit = 2
  Window = 2
  Threshold = 2
  Recovery = 1
  MaxAttempts = 2
  MaxTime = 2
  MaxSearches = 4
  NoTime = NoTime
SPECIFICATION CallingSpec
SYMMETRY MCSymmetry
CHECK_DEADLOCK FALSE
INVARIANTS
  CallingTypeOK RefundsAreApproved AnswersAreTrue ToldIsKept RejectionsAreDeserved
