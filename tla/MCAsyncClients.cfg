CONSTANTS
  Callers = {a1, a2, a3}
  Keys = {k1}
  Bodies = {b1, b2}
  PoolSize = 2
  MaxFaults = 2
  None = None
  Writers = {w1, w2, w3}
  Values = {v1, v2}
  MaxWrites = 4
  Jobs = {j1}
  Workers = {w1, w2}
  MaxRetries = 2
  MaxMishaps = 2
SPECIFICATION Spec
CHECK_DEADLOCK FALSE
INVARIANTS
  TypeOK OneJobPerKey AnswersMatch MemoryIsKept PaymentsAreAccounted
PROPERTIES
   CallersAreAnswered JobsSettle
