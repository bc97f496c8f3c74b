-------------------------------- MODULE OsRuns --------------------------------
(***************************************************************************)
(* Both sides of lib/os_eval.cpp: the schedule of main, and what a driver  *)
(* does with the times of one test.  They share no variable, since OsEval  *)
(* sees of the statistics only that the process may die of them.  Each     *)
(* behaviour is about one of them; the other stays where it begins: the    *)
(* schedule without a.csv, the test with a single round.                   *)
(***************************************************************************)
EXTENDS OsEval, OsStats

VARIABLE side  \* what the behaviour is about: "schedule" or "statistics"

EvalInit ==
  /\ \/ side = "schedule" /\ runs = 1
     \/ side = "statistics" /\ fate = "no_acsv" /\ length = Absent /\ sigint = "default"
  /\ Init /\ OsStatsInit

EvalNext ==
  /\ UNCHANGED side
  /\ \/ side = "schedule" /\ Next /\ UNCHANGED stats
     \/ side = "statistics" /\ OsStatsNext /\ UNCHANGED vars

EvalSpec == EvalInit /\ [][EvalNext]_<<side, vars, stats>> /\ WF_vars(Go)
===============================================================================
