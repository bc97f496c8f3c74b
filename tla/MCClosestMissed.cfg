CONSTANTS
  Times <- MCTimes
  MaxSize = 3
  K = 2
  Precision = 100
SPECIFICATION Spec
INVARIANTS
  WarnedRunReturned
CHECK_DEADLOCK FALSE
