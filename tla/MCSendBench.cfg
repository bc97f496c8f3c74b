CONSTANTS
  Iter = 5
  Sizes = {1, 2}
  Cap = 3
  MaxResent = 3
  MayFail <- AllCalls
SPECIFICATION FairSpec
INVARIANTS
  BrokenOnlyAfterAccept
  SmallSendExact
PROPERTIES
  Ends
  LeavesNoServer
CHECK_DEADLOCK FALSE
