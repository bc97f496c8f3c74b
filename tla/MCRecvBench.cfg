CONSTANTS
  Iter = 6
  Msg = 2
  Cap = 3
  MayFail <- AllCalls
SPECIFICATION FairSpec
INVARIANTS
  RecvFindsMessage
  SendFindsEmptyStream
  SuccessIsComplete
PROPERTIES
  ImplementsLockstep
  Returns
CHECK_DEADLOCK FALSE
