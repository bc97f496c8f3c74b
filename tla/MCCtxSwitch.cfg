CONSTANTS
  Iter = 12
  MayFail <- AllButRestore
SPECIFICATION FairSpec
INVARIANTS
  TimedWhilePinned
  AffinityRestored
PROPERTIES
  ImplementsLockstep
  Returns
  ChildEnds
CHECK_DEADLOCK FALSE
