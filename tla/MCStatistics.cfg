CONSTANTS
  Times <- MCTimes
  MaxSize = 5
  K = 2
  Precision = 100
  Values <- MCValues
  MaxCount = 13
  MAX_ITER = 5
  TOLERANCE = 3
  Fine = 1000
SPECIFICATION StatisticsSpec
INVARIANTS
  FirstRunFound
  MissedOnlyWithoutRun
  ResultsAgree
  FewTimesConverge
PROPERTIES
  NeverKeptAgain
CHECK_DEADLOCK FALSE
