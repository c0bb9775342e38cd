CONSTANTS
  Actors <- MCActors
  RoleOf <- MCRoleOf
  Amounts = {750000}
  Faults = {"none", "crash_after_refund", "transient_once", "permanent", "unknown_status"}
  MaxAttempts = 2
  Workers = {w1, w2}
  Operators = {op}
  MaxFailures = 2
SYMMETRY ThreadSymmetry
SPECIFICATION ExecutionSpec
CHECK_DEADLOCK FALSE
INVARIANTS
  ExecutionTypeOK OneRefund CompletedIsPaid RefusedIsNotPaid
  DefiniteOutcome ActiveExecution BoundedAttempts
PROPERTIES
  AttemptHistory FinalIsFinal
