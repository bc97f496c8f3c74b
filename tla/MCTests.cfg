CONSTANTS
  Procs = {1, 2}
  Ids <- MCIds
  Scales = {0, 1}
  Iter = 1
  WarmUp = 1
  Fails = {"malloc", "open", "write", "mmap", "socket", "poll", "fork", "create", "kill", "csv", "disk"}
  ChildRounds = 6
  ForkFails = {"setup", "fork", "kill", "malloc"}
  ThreadFails = {"setup", "create", "malloc"}
SPECIFICATION TestsSpec
INVARIANTS
  StampsOfThisRound
  StampOfThisRound
  OneHeaderPerCrowd
  StatusIsTrue
  CrashIsOwnFault
  TimedReadsAreEmpty
  FileLeftByRead
PROPERTIES
  ForkEnds
CHECK_DEADLOCK FALSE
