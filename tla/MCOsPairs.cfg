CONSTANTS
  Tests = {"send", "recv", "switch"}
  Iter = 5
  Limit = 2
  Switches = 2
  MsgSize = 2
  Room = 6
  Fails = {"fork", "socket", "server"}
  MaxLeaks = 2
SPECIFICATION FairSpec
INVARIANTS
  OneCallTransfers
  TurnsAlternate
PROPERTIES
  Ends
CHECK_DEADLOCK FALSE
