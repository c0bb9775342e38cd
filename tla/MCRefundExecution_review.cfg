CONSTANTS
  Actors <- MCActors
  RoleOf <- MCRoleOf
  Amounts = {750000}
  Faults = {"permanent"}
  MaxAttempts = 3
  Workers = {w1}
  Operators = {op}
  MaxFailures = 0
SPECIFICATION DiligentSpec
CHECK_DEADLOCK FALSE
PROPERTIES
  ReviewEnds
