CONSTANTS
  NoFile = 1024
  SetSize = 1024
  ForkRounds = 2
  NProc = 3
  MaxFailed = 6
  Fails = {"write", "fork", "thread", "kbest", "socket"}
  NS = 40
  MaxRuns = 4
  Starts = {35}
  Durations <- MCDurations
  K = 2
  Precision = 20
SPECIFICATION EvalSpec
INVARIANTS
  OneTableOrNone
  WrittenBeforeUse
  SelectFits
  AverageIsRounded
  BestHasCompany
PROPERTIES
  Ends
CHECK_DEADLOCK FALSE
