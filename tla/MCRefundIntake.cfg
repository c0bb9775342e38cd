CONSTANTS
  Roles = {"order", "risk"}
  Coordinators = {c1, c2}
  Callers = {a1, a2}
  Answers <- MCAnswers
  MaxFaults = 1
  Requests <- MCRequests
SPECIFICATION FairSpec
CHECK_DEADLOCK FALSE
INVARIANTS
  TypeOK DecidedOnEvidence NoCallerFails
PROPERTIES
  KeepsCaseContract CaseIsDecided
