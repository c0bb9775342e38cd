CONSTANTS
  Actors <- MCActors
  RoleOf <- MCRoleOf
  Amounts = {2500001}
  Faults = {"none"}
  MaxAttempts = 2
  MaxLostEvents = 1
  MaxRedeliveries = 0
  Workers = {w1}
  Operators = {}
  MaxFailures = 1
SPECIFICATION FairSpec
CHECK_DEADLOCK FALSE
PROPERTIES
  Settles EventsArrive
