SPECIFICATION Spec
CONSTANTS
  W = 4
  MaxTaskId = 5
  OverflowChecks = TRUE
  Requests <- AllRequests
INVARIANTS
  EveryIterationOnce
  ReduceInOrder
