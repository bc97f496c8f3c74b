CONSTANTS
  Iter = 2
  Fails = {"create"}
SPECIFICATION Spec
INVARIANTS
  ReportsOnlyMeasured
CHECK_DEADLOCK FALSE
