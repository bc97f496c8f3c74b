-------------------------------- MODULE OsStats -------------------------------
(***************************************************************************)
(* What the drivers of lib/os_eval.cpp (one_line_test, one_line_test_v2,   *)
(* and two_line_test for each of its two arrays) do with the times of one  *)
(* test: one entry per round, their sum, average and "kbest", and the two  *)
(* lines printed.                                                          *)
(*                                                                         *)
(* An entry of a round whose fork or whose pthread_create did not work     *)
(* stays 0.  Of k_closest only the first pointer is ever read: best is the *)
(* index it points to, or Null.  exact keeps, beside the state of the      *)
(* program, the true time spent in the first n rounds.                     *)
(***************************************************************************)
EXTENDS Timespec

CONSTANTS MaxRuns,       \* the most rounds of a test
          Starts,        \* when a round may begin, in nanoseconds
          Durations,     \* how long it may take, in nanoseconds
          K,             \* K
          Precision      \* 1 / INPRECISION

ASSUME OsStatsAssumption ==
  /\ MaxRuns \in Nat \ {0} /\ Starts \subseteq Nat /\ Durations \subseteq Nat
  /\ K \in Nat \ {0, 1} /\ Precision \in Nat \ {0}

VARIABLES
  at,         \* "round", "sum", "sort", "scan", "print", "next" or "crashed"
  runs,       \* info->iter
  timeArray,
  i,          \* index of the loops over timeArray
  sum, average,
  j,          \* close times found in a row
  best,       \* k_closest[0]
  exact       \* exact[n]: true time spent in the first n rounds

stats == <<at, runs, timeArray, i, sum, average, j, best, exact>>

Null == -1
Rounds == 0..(runs - 1)

OsStatsInit ==
  /\ at = "round" /\ runs \in 1..MaxRuns /\ i = 0
  /\ timeArray = [n \in Rounds |-> Zero] /\ exact = [n \in 0..runs |-> 0]
  /\ sum = Zero /\ average = Zero /\ j = 0 /\ best = Null
-------------------------------------------------------------------------------
\* (*f)(&timeArray[i]), which took d nanoseconds.
Round(t, d) ==
  /\ at = "round" /\ i < runs
  /\ timeArray' = [timeArray EXCEPT ![i] = AddDiffToSum(Zero, Reading(t + d), Reading(t))]
  /\ exact' = [exact EXCEPT ![i + 1] = exact[i] + d]
  /\ i' = i + 1
  /\ UNCHANGED <<at, runs, sum, average, j, best>>

\* The loops run over the array once to measure and once to sum.
RoundsDone ==
  /\ at = "round" /\ i = runs
  /\ at' = "sum" /\ i' = 0
  /\ UNCHANGED <<runs, timeArray, sum, average, j, best, exact>>

SumRound ==
  /\ at = "sum" /\ i < runs
  /\ sum' = Plus(sum, timeArray[i]) /\ i' = i + 1
  /\ UNCHANGED <<at, runs, timeArray, average, j, best, exact>>

Average ==
  /\ at = "sum" /\ i = runs
  /\ average' = CalcAverage(sum, runs) /\ at' = "sort"
  /\ UNCHANGED <<runs, timeArray, i, sum, j, best, exact>>

Reorderings == {p \in [Rounds -> Rounds] : \A n \in Rounds : \E m \in Rounds : p[m] = n}

\* qsort; the scan begins with the smallest time as the only one found.
Sort ==
  /\ at = "sort"
  /\ \E p \in Reorderings : timeArray' = [n \in Rounds |-> timeArray[p[n]]]
  /\ \A n, m \in Rounds : n <= m => NotAfter(timeArray'[n], timeArray'[m])
  /\ at' = "scan" /\ i' = 1 /\ j' = 1 /\ best' = 0
  /\ UNCHANGED <<runs, sum, average, exact>>

Long(n) == timeArray[n].sec # 0 \/ timeArray[n - 1].sec # 0

\* diff / prev > INPRECISION; 0 / 0 is not, and any other quotient by 0 is.
Outlier(n) == Precision * (timeArray[n].nsec - timeArray[n - 1].nsec) > timeArray[n - 1].nsec

Scanning == at = "scan" /\ i < runs /\ j # K

\* A variant of ScanOutlier that keeps the count.
ScanOutlierKeepsRun ==
  /\ Scanning /\ ~Long(i) /\ Outlier(i)
  /\ best' = Null /\ i' = i + 1
  /\ UNCHANGED <<at, runs, timeArray, sum, average, j, exact>>

\* More than a second: the count starts again, the pointers stay.
ScanLong ==
  /\ Scanning /\ Long(i)
  /\ j' = 0 /\ i' = i + 1
  /\ UNCHANGED <<at, runs, timeArray, sum, average, best, exact>>

ScanOutlier ==
  /\ Scanning /\ ~Long(i) /\ Outlier(i)
  /\ j' = 0 /\ best' = Null /\ i' = i + 1
  /\ UNCHANGED <<at, runs, timeArray, sum, average, exact>>

ScanNear ==
  /\ Scanning /\ ~Long(i) /\ ~Outlier(i)
  /\ best' = (IF j = 0 THEN i ELSE best) /\ j' = j + 1 /\ i' = i + 1
  /\ UNCHANGED <<at, runs, timeArray, sum, average, exact>>

ScanDone ==
  /\ at = "scan" /\ ~Scanning
  /\ at' = "print"
  /\ UNCHANGED <<runs, timeArray, i, sum, average, j, best, exact>>

\* kbest->tv_sec of a NULL pointer ends the process.
PrintLines ==
  /\ at = "print" /\ at' = (IF best = Null THEN "crashed" ELSE "next")
  /\ UNCHANGED <<runs, timeArray, i, sum, average, j, best, exact>>

OsStatsNext ==
  \/ \E t \in Starts, d \in Durations : Round(t, d)
  \/ RoundsDone \/ SumRound \/ Average \/ Sort
  \/ ScanLong \/ ScanOutlier \/ ScanNear \/ ScanDone \/ PrintLines

OsStatsSpec == OsStatsInit /\ [][OsStatsNext]_stats
-------------------------------------------------------------------------------
\* Every entry of the array is a normal time, whatever the clock read.
OsStatsTypeOK ==
  /\ at \in {"round", "sum", "sort", "scan", "print", "next", "crashed"}
  /\ runs \in 1..MaxRuns /\ i \in 0..runs /\ j \in 0..K /\ best \in -1..(runs - 1)
  /\ timeArray \in [Rounds -> [sec : Nat, nsec : 0..(NS - 1)]]
  /\ exact \in [0..runs -> Nat]
  /\ Recorded(sum) /\ Recorded(average)

\* The average printed is normal, and below the true average by less than two
\* nanoseconds, for the two quotients it is put together from (l. 110).
AverageIsRounded ==
  at \in {"sort", "scan", "print", "next", "crashed"} =>
    /\ Normal(average)
    /\ runs * Value(average) <= exact[runs]
    /\ exact[runs] < runs * (Value(average) + 2)

Near(n) == ~Long(n) /\ ~Outlier(n)

\* When the scan stops with K times (l. 222), the best of them and the K - 1
\* after it lie below a second and within INPRECISION of each other in turn.
\* The driver dies of a NULL pointer (l. 225) only if there are no K times in
\* such company after the smallest, and an outlier is followed by no near time.
BestHasCompany ==
  at \in {"print", "next", "crashed"} =>
    IF j = K
    THEN best \in 0..(runs - K) /\ \A n \in (best + 1)..(best + K - 1) : Near(n)
    ELSE best = Null =>
      /\ \A n \in 0..(runs - 1 - K) : \E m \in (n + 1)..(n + K) : ~Near(m)
      /\ \E n \in 1..(runs - 1) :
           ~Long(n) /\ Outlier(n) /\ \A m \in n..(runs - 1) : ~Near(m)
===============================================================================
