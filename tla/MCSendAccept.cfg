CONSTANTS
  Iter = 2
  Sizes = {1}
  Cap = 1
  MaxResent = 0
  MayFail = {"accept", "kill"}
SPECIFICATION Spec
INVARIANTS ReportsOnlyRounds
CHECK_DEADLOCK FALSE
