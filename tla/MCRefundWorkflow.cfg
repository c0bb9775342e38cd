CONSTANTS
  Actors <- MCActors
  RoleOf <- MCRoleOf
  Amounts = {2500000, 2500001}
  Faults = {"none", "transient_once"}
  MaxAttempts = 1
  MaxLostEvents = 0
  MaxRedeliveries = 1
  Workers = {w1}
  Operators = {op}
  MaxFailures = 0
SPECIFICATION Spec
CHECK_DEADLOCK FALSE
INVARIANTS
  TypeOK AuthorisedRefund WaitingIsTimed
PROPERTIES
  KeepsContract
