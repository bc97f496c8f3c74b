----------------------------- MODULE OsEvalProofs -----------------------------
(***************************************************************************)
(* The two halves of lib/os_eval.cpp.                                      *)
(*                                                                         *)
(* The statistics of a test: the arithmetic of timespecs is exact, the     *)
(* average printed is rounded down by less than two nanoseconds, and kbest *)
(* has K - 1 times near it, for every length of a second, number of        *)
(* rounds, clock and K.                                                    *)
(*                                                                         *)
(* The schedule of main: with SIGINT at its default there is one process,  *)
(* which has four descriptors and at most four more per fork that failed,  *)
(* and whose buffer holds the tests before the present one; where it is    *)
(* ignored all copies get stuck in the first send_test (EvalInv).          *)
(***************************************************************************)
EXTENDS OsRuns, SequenceTheorems, TLAPS

LEMMA DivMod ==
  \A n \in Nat, b \in Nat \ {0} :
    n \div b \in Nat /\ n % b \in 0..(b - 1) /\ n = (n \div b) * b + (n % b)
<1> SUFFICES ASSUME NEW n \in Nat, NEW b \in Nat \ {0}
             PROVE  n \div b \in Nat /\ n % b \in 0..(b - 1) /\ n = (n \div b) * b + (n % b)
  OBVIOUS
<1>1. n \div b \in Nat
  OBVIOUS
<1>2. n % b \in 0..(b - 1)
  OBVIOUS
<1>3. n = (n \div b) * b + (n % b)
  OBVIOUS
<1> QED
  BY <1>1, <1>2, <1>3

LEMMA Distributes ==
  ASSUME NEW a \in Int, NEW b \in Int, NEW c \in Int
  PROVE  /\ (a + b) * c = a * c + b * c
         /\ (a - b) * c = a * c - b * c
  OBVIOUS

\* A product with a larger factor is larger.
LEMMA Cancel ==
  ASSUME NEW a \in Int, NEW b \in Int, NEW c \in Nat \ {0}, a * c < b * c
  PROVE  a < b
  OBVIOUS

LEMMA ValueInt ==
  ASSUME NEW t, Recorded(t)
  PROVE  /\ t.sec \in Nat /\ t.nsec \in 0..(NS - 1) /\ t.sec * NS \in Nat
         /\ Value(t) = t.sec * NS + t.nsec /\ Value(t) \in Nat
  BY NSAssumption DEF Recorded, Value

\* clock_gettime answers normal times that lose nothing.
LEMMA ReadingExact ==
  ASSUME NEW n \in Nat
  PROVE  Recorded(Reading(n)) /\ Value(Reading(n)) = n
<1>1. n \div NS \in Nat /\ n % NS \in 0..(NS - 1) /\ n = (n \div NS) * NS + (n % NS)
  <2>1. NS \in Nat \ {0}
    BY NSAssumption
  <2> QED
    BY <2>1, DivMod
<1> QED
  BY <1>1 DEF Recorded, Value, Reading, Stamp

\* add_diff_to_sum into an empty entry is the difference, normal again
\* (os_eval.cpp:64): one borrow is enough.
LEMMA DiffExact ==
  ASSUME NEW a, NEW b, Recorded(a), Recorded(b), Value(b) <= Value(a)
  PROVE  LET d == AddDiffToSum(Zero, a, b) IN Recorded(d) /\ Value(d) = Value(a) - Value(b)
<1> DEFINE d == AddDiffToSum(Zero, a, b)
           s == a.sec - b.sec
           n == a.nsec - b.nsec
<1>1. /\ a.sec \in Nat /\ a.nsec \in 0..(NS - 1) /\ b.sec \in Nat /\ b.nsec \in 0..(NS - 1)
      /\ Value(a) = a.sec * NS + a.nsec /\ Value(b) = b.sec * NS + b.nsec
      /\ a.sec * NS \in Nat /\ b.sec * NS \in Nat
  BY ValueInt
<1>2. s \in Int /\ n \in (1 - NS)..(NS - 1) /\ NS \in Nat \ {0}
  BY <1>1, NSAssumption
<1>3. s * NS = a.sec * NS - b.sec * NS
  BY <1>1, NSAssumption, Distributes
<1>4. s * NS + n = Value(a) - Value(b)
  BY <1>1, <1>3
<1>5. d = IF n < 0 THEN Stamp(s - 1, n + NS) ELSE Stamp(s, n)
  BY <1>1, <1>2, NSAssumption DEF AddDiffToSum, Zero, Stamp
<1>6. CASE n < 0
  <2>1. d.sec = s - 1 /\ d.nsec = n + NS
    BY <1>5, <1>6 DEF Stamp
  <2>2. (s - 1) * NS = s * NS - 1 * NS
    BY <1>2, Distributes
  <2>3. 0 < s
    <3>1. 0 * NS < s * NS
      BY <1>2, <1>4, <1>6, <1>1, <1>3
    <3> QED
      BY <3>1, <1>2, Cancel
  <2> QED
    BY <2>1, <2>2, <2>3, <1>2, <1>3, <1>4, <1>5, <1>6, <1>1 DEF Recorded, Value, Stamp
<1>7. CASE n >= 0
  <2>1. d.sec = s /\ d.nsec = n
    BY <1>5, <1>7, <1>2 DEF Stamp
  <2>2. -1 < s
    <3>1. (-1) * NS < s * NS
      BY <1>1, <1>2, <1>3, <1>4, <1>7
    <3> QED
      BY <3>1, <1>2, Cancel
  <2> QED
    BY <2>1, <2>2, <1>2, <1>4, <1>5, <1>7 DEF Recorded, Value, Stamp
<1> QED
  BY <1>2, <1>6, <1>7

\* One iteration of calc_sum2 adds exactly, and carries (os_eval.cpp:145).
LEMMA PlusExact ==
  ASSUME NEW s, NEW t, Recorded(s), Recorded(t)
  PROVE  Recorded(Plus(s, t)) /\ Value(Plus(s, t)) = Value(s) + Value(t)
<1>1. /\ s.sec \in Nat /\ s.nsec \in 0..(NS - 1) /\ t.sec \in Nat /\ t.nsec \in 0..(NS - 1)
      /\ Value(s) = s.sec * NS + s.nsec /\ Value(t) = t.sec * NS + t.nsec
      /\ s.sec * NS \in Nat /\ t.sec * NS \in Nat
  BY ValueInt
<1>2. NS \in Nat \ {0}
  BY NSAssumption
<1>3. (s.sec + t.sec) * NS = s.sec * NS + t.sec * NS
  BY <1>1, <1>2, Distributes
<1>4. (s.sec + 1 + t.sec) * NS = s.sec * NS + NS + t.sec * NS
  <2>1. ((s.sec + 1) + t.sec) * NS = (s.sec + 1) * NS + t.sec * NS
    BY <1>1, <1>2, Distributes
  <2>2. (s.sec + 1) * NS = s.sec * NS + 1 * NS
    BY <1>1, <1>2, Distributes
  <2> QED
    BY <1>1, <1>2, <2>1, <2>2
<1>5. CASE t.nsec >= NS - s.nsec
  <2>1. Plus(s, t) = Stamp(s.sec + 1 + t.sec, t.nsec - (NS - s.nsec))
    BY <1>5 DEF Plus
  <2> QED
    BY <1>1, <1>2, <1>4, <1>5, <2>1 DEF Stamp, Recorded, Value
<1>6. CASE ~(t.nsec >= NS - s.nsec)
  <2>1. Plus(s, t) = Stamp(s.sec + t.sec, s.nsec + t.nsec)
    BY <1>6 DEF Plus
  <2> QED
    BY <1>1, <1>2, <1>3, <1>6, <2>1 DEF Stamp, Recorded, Value
<1> QED
  BY <1>5, <1>6

\* calc_average is normal and loses less than two nanoseconds (os_eval.cpp:110).
LEMMA AverageExact ==
  ASSUME NEW s, Recorded(s), NEW r \in Nat \ {0}
  PROVE  LET a == CalcAverage(s, r)
         IN  /\ Recorded(a)
             /\ r * Value(a) <= Value(s) /\ Value(s) < r * (Value(a) + 2)
<1> DEFINE a == CalcAverage(s, r)
           q == s.sec \div r
           m == s.sec % r
           p == s.nsec \div r
           x == s.nsec % r
           u == (m * NS) \div r
           y == (m * NS) % r
<1>1. s.sec \in Nat /\ s.nsec \in 0..(NS - 1) /\ Value(s) = s.sec * NS + s.nsec /\ NS \in Nat \ {0}
  BY ValueInt, NSAssumption
<1> DEFINE Divided(z) == z \div r \in Nat /\ z % r \in 0..(r - 1) /\ z = (z \div r) * r + (z % r)
<1>d. \A z \in Nat : Divided(z)
  BY DivMod
<1>2. q \in Nat /\ m \in 0..(r - 1) /\ s.sec = q * r + m
  <2>1. Divided(s.sec)
    <3> HIDE DEF Divided
    <3> QED
      BY <1>1, <1>d
  <2> QED
    BY <2>1
<1>3. p \in Nat /\ x \in 0..(r - 1) /\ s.nsec = p * r + x
  <2>1. Divided(s.nsec)
    <3> HIDE DEF Divided
    <3> QED
      BY <1>1, <1>d
  <2> QED
    BY <2>1
<1>4. m * NS \in Nat
  BY <1>1, <1>2
<1>5. u \in Nat /\ y \in 0..(r - 1) /\ m * NS = u * r + y
  <2>1. Divided(m * NS)
    <3> HIDE DEF Divided
    <3> QED
      BY <1>4, <1>d
  <2> QED
    BY <2>1
<1>6. a.sec = q /\ a.nsec = p + u /\ a = Stamp(q, p + u)
  BY DEF CalcAverage, Stamp
<1> HIDE DEF a, q, m, p, x, u, y, Divided
<1>7. p + u \in 0..(NS - 1)
  <2>1. m * NS <= (r - 1) * NS
    BY <1>1, <1>2
  <2>2. (r - 1) * NS = r * NS - 1 * NS
    BY <1>1, Distributes
  <2>3. (p + u) * r = p * r + u * r
    BY <1>3, <1>5, Distributes
  <2>4. p * r \in Nat /\ u * r \in Nat /\ r * NS \in Nat /\ NS * r = r * NS
    BY <1>1, <1>3, <1>5
  <2>5. (p + u) * r < NS * r
    BY <1>1, <1>3, <1>4, <1>5, <2>1, <2>2, <2>3, <2>4
  <2>6. p + u < NS
    BY <2>5, <1>1, <1>3, <1>5, Cancel
  <2> QED
    BY <2>6, <1>1, <1>3, <1>5
<1>8. r * Value(a) = Value(s) - (x + y)
  <2>1. Value(a) = q * NS + (p + u)
    BY <1>6 DEF Value
  <2>2. q * NS \in Nat /\ (q * NS + (p + u)) * r = (q * NS) * r + (p * r + u * r)
    <3>1. q * NS \in Nat
      BY <1>1, <1>2
    <3>2. (q * NS + (p + u)) * r = (q * NS) * r + (p + u) * r
      BY <3>1, <1>3, <1>5, Distributes
    <3> QED
      BY <3>1, <3>2, <1>3, <1>5, Distributes
  <2>3. s.sec * NS = (q * NS) * r + m * NS
    <3>1. (q * r + m) * NS = (q * r) * NS + m * NS
      BY <1>1, <1>2, Distributes
    <3>2. (q * r) * NS = (q * NS) * r
      BY <1>1, <1>2
    <3> QED
      BY <3>1, <3>2, <1>2
  <2>4. (q * NS) * r \in Int /\ p * r \in Int /\ u * r \in Int /\ s.sec * NS \in Int
    BY <1>1, <1>2, <1>3, <1>5, <2>2
  <2>5. r * Value(a) = (q * NS + (p + u)) * r
    BY <2>1, <2>2, <1>3, <1>5
  <2> QED
    BY <2>2, <2>3, <2>4, <2>5, <1>1, <1>3, <1>4, <1>5
<1>9. Recorded(a) /\ Value(a) \in Nat
  BY <1>1, <1>2, <1>6, <1>7 DEF Recorded, Value, Stamp
<1>10. r * (Value(a) + 2) = r * Value(a) + r * 2
  BY <1>9
<1> QED
  BY <1>1, <1>2, <1>3, <1>5, <1>8, <1>9, <1>10, ValueInt DEF a
-------------------------------------------------------------------------------
\* Each entry is the true time of its round, and sum that of the rounds summed.
Measured(n) == exact[n + 1] = exact[n] + Value(timeArray[n])
Types ==
  /\ at \in {"round", "sum", "sort", "scan", "print", "next", "crashed"}
  /\ runs \in Nat \ {0} /\ runs <= MaxRuns /\ i \in 0..runs
  /\ timeArray \in [0..(runs - 1) -> [sec : Nat, nsec : 0..(NS - 1)]]
  /\ exact \in [0..runs -> Nat] /\ Recorded(sum) /\ Recorded(average)
Sums ==
  /\ at = "round" => sum = Zero /\ exact[0] = 0 /\ \A n \in 0..(i - 1) : Measured(n)
  /\ at = "sum" => Value(sum) = exact[i] /\ \A n \in 0..(runs - 1) : Measured(n)
Rounded ==
  at \notin {"round", "sum"} =>
    runs * Value(average) <= exact[runs] /\ exact[runs] < runs * (Value(average) + 2)
SumInv == Types /\ Sums /\ Rounded

LEMMA RecordedSet == \A t : Recorded(t) <=> t \in [sec : Nat, nsec : 0..(NS - 1)]
  BY DEF Recorded

LEMMA ZeroExact == Recorded(Zero) /\ Value(Zero) = 0
  BY NSAssumption DEF Recorded, Value, Zero, Stamp

LEMMA SumInit == OsStatsInit => SumInv
<1> SUFFICES ASSUME OsStatsInit PROVE SumInv
  OBVIOUS
<1>1. runs \in Nat \ {0} /\ runs <= MaxRuns
  BY OsStatsAssumption DEF OsStatsInit
<1>2. Types
  BY <1>1, ZeroExact, RecordedSet DEF OsStatsInit, Types, Rounds
<1> QED
  BY <1>1, <1>2 DEF OsStatsInit, SumInv, Sums, Rounded

LEMMA RoundStep ==
  ASSUME SumInv, NEW t \in Starts, NEW d \in Durations, Round(t, d)
  PROVE  SumInv'
<1> DEFINE e == AddDiffToSum(Zero, Reading(t + d), Reading(t))
<1>1. t \in Nat /\ d \in Nat /\ t + d \in Nat
  BY OsStatsAssumption
<1>2. /\ Recorded(Reading(t)) /\ Recorded(Reading(t + d))
      /\ Value(Reading(t)) = t /\ Value(Reading(t + d)) = t + d
  BY <1>1, ReadingExact
<1>3. Recorded(e) /\ Value(e) = d
  BY <1>1, <1>2, DiffExact
<1> HIDE DEF e
<1>4. /\ at = "round" /\ at' = at /\ i \in 0..(runs - 1) /\ i' = i + 1 /\ runs' = runs
      /\ timeArray' = [timeArray EXCEPT ![i] = e] /\ exact' = [exact EXCEPT ![i + 1] = exact[i] + d]
      /\ sum' = sum /\ average' = average /\ runs \in Nat \ {0}
  BY DEF SumInv, Types, Round, e
<1>5. Types'
  <2>1. e \in [sec : Nat, nsec : 0..(NS - 1)]
    BY <1>3, RecordedSet
  <2>2. timeArray' \in [0..(runs - 1) -> [sec : Nat, nsec : 0..(NS - 1)]]
    BY <2>1, <1>4 DEF SumInv, Types
  <2>3. exact[i] + d \in Nat
    BY <1>1, <1>4, SMTT(20) DEF SumInv, Types
  <2>4. exact' \in [0..runs -> Nat]
    BY <2>3, <1>4 DEF SumInv, Types
  <2>5. Recorded(sum') /\ Recorded(average')
    BY <1>4 DEF SumInv, Types
  <2>6. /\ at' = "round" /\ runs' \in Nat \ {0} /\ runs' <= MaxRuns /\ i' \in 0..runs'
    BY <1>4 DEF SumInv, Types
  <2> QED
    BY <2>2, <2>4, <2>5, <2>6, <1>4 DEF Types, Recorded
<1>6. \A n \in 0..(i' - 1) : Measured(n)'
  <2> SUFFICES ASSUME NEW n \in 0..(i' - 1)
               PROVE  exact'[n + 1] = exact'[n] + Value(timeArray'[n])
    BY DEF Measured, Value
  <2>1. CASE n = i
    BY <2>1, <1>1, <1>3, <1>4 DEF SumInv, Types
  <2>2. CASE n < i
    <3>1. exact[n + 1] = exact[n] + Value(timeArray[n])
      BY <2>2, <1>4 DEF SumInv, Sums, Measured
    <3>2. timeArray'[n] = timeArray[n]
      <4>1. n # i /\ n \in 0..(runs - 1)
        BY <2>2, <1>4
      <4>2. timeArray \in [0..(runs - 1) -> [sec : Nat, nsec : 0..(NS - 1)]]
        BY DEF SumInv, Types
      <4> QED
        BY <4>1, <4>2, <1>4, Zenon
    <3>3. exact'[n + 1] = exact[n + 1] /\ exact'[n] = exact[n]
      <4>1. n \in 0..runs /\ n + 1 \in 0..runs /\ n # i + 1 /\ n + 1 # i + 1
        BY <2>2, <1>4
      <4>2. exact \in [0..runs -> Nat]
        BY DEF SumInv, Types
      <4> QED
        BY <4>1, <4>2, <1>4, Zenon
    <3> QED
      BY <3>1, <3>2, <3>3
  <2> QED
    BY <2>1, <2>2, <1>4
<1>7. exact'[0] = 0
  BY <1>4 DEF SumInv, Sums, Types
<1> QED
  BY <1>4, <1>5, <1>6, <1>7 DEF SumInv, Sums, Rounded

LEMMA SumStep == ASSUME SumInv, SumRound PROVE SumInv'
<1>1. /\ at = "sum" /\ at' = at /\ i \in 0..(runs - 1) /\ i' = i + 1 /\ runs' = runs
      /\ timeArray' = timeArray /\ exact' = exact /\ average' = average
      /\ sum' = Plus(sum, timeArray[i]) /\ runs \in Nat \ {0}
  BY DEF SumInv, Types, SumRound
<1>2. Recorded(sum) /\ Recorded(timeArray[i])
  BY <1>1, RecordedSet DEF SumInv, Types
<1>3. Recorded(sum') /\ Value(sum') = Value(sum) + Value(timeArray[i])
  BY <1>1, <1>2, PlusExact
<1>4. Types'
  <2>1. /\ timeArray' \in [0..(runs' - 1) -> [sec : Nat, nsec : 0..(NS - 1)]]
        /\ exact' \in [0..runs' -> Nat] /\ Recorded(average')
    BY <1>1 DEF SumInv, Types, Recorded
  <2>2. /\ at' = "sum" /\ runs' \in Nat \ {0} /\ runs' <= MaxRuns /\ i' \in 0..runs'
    BY <1>1 DEF SumInv, Types
  <2> QED
    BY <2>1, <2>2, <1>3 DEF Types
<1>5. Value(sum') = exact[i + 1]
  <2>1. Value(sum) = exact[i]
    BY <1>1 DEF SumInv, Sums
  <2>2. Measured(i)
    BY <1>1 DEF SumInv, Sums
  <2> QED
    BY <2>1, <2>2, <1>3 DEF Measured
<1>6. \A n \in 0..(runs - 1) : Measured(n)'
  BY <1>1 DEF SumInv, Sums, Measured, Value
<1> QED
  BY <1>1, <1>4, <1>5, <1>6 DEF SumInv, Sums, Rounded, Value

LEMMA AverageStep == ASSUME SumInv, Average PROVE SumInv'
<1>1. /\ at = "sum" /\ at' = "sort" /\ i = runs /\ i' = i /\ runs' = runs /\ runs \in Nat \ {0}
      /\ timeArray' = timeArray /\ exact' = exact /\ sum' = sum /\ average' = CalcAverage(sum, runs)
      /\ Recorded(sum)
  BY DEF SumInv, Types, Average
<1>2. /\ Recorded(average') /\ runs * Value(average') <= Value(sum)
      /\ Value(sum) < runs * (Value(average') + 2)
  BY <1>1, AverageExact
<1>3. Value(sum) = exact[runs]
  BY <1>1 DEF SumInv, Sums
<1>4. Types'
  BY <1>1, <1>2 DEF SumInv, Types, Recorded
<1> QED
  BY <1>1, <1>2, <1>3, <1>4 DEF SumInv, Sums, Rounded, Value

LEMMA SumNext == SumInv /\ [OsStatsNext]_stats => SumInv'
<1> SUFFICES ASSUME SumInv, [OsStatsNext]_stats PROVE SumInv'
  OBVIOUS
<1>1. ASSUME NEW t \in Starts, NEW d \in Durations, Round(t, d) PROVE SumInv'
  BY <1>1, RoundStep
<1>2. CASE RoundsDone
  BY <1>2, ZeroExact DEF RoundsDone, SumInv, Types, Sums, Rounded, Measured, Recorded, Value
<1>3. CASE SumRound
  BY <1>3, SumStep
<1>4. CASE Average
  BY <1>4, AverageStep
<1>5. CASE Sort
  <2>1. /\ runs \in Nat \ {0} /\ runs' = runs /\ at = "sort" /\ at' = "scan" /\ i' = 1
        /\ sum' = sum /\ average' = average /\ exact' = exact
    BY <1>5 DEF Sort, SumInv, Types
  <2>2. timeArray' \in [0..(runs - 1) -> [sec : Nat, nsec : 0..(NS - 1)]]
    <3>1. PICK p \in Reorderings : timeArray' = [n \in Rounds |-> timeArray[p[n]]]
      BY <1>5 DEF Sort
    <3>2. p \in [0..(runs - 1) -> 0..(runs - 1)]
      BY DEF Reorderings, Rounds
    <3> QED
      BY <3>1, <3>2 DEF SumInv, Types, Rounds
  <2>3. Types'
    BY <2>1, <2>2, SMTT(20) DEF SumInv, Types, Recorded
  <2>4. Sums' /\ Rounded'
    BY <2>1 DEF SumInv, Sums, Rounded, Value
  <2> QED
    BY <2>3, <2>4 DEF SumInv
<1>6. CASE ScanLong \/ ScanOutlier \/ ScanNear
  <2>1. /\ at = "scan" /\ at' = at /\ i < runs /\ i' = i + 1 /\ runs' = runs /\ timeArray' = timeArray
        /\ sum' = sum /\ average' = average /\ exact' = exact
    BY <1>6 DEF ScanLong, ScanOutlier, ScanNear, Scanning
  <2>2. Types'
    BY <2>1 DEF SumInv, Types, Recorded
  <2>3. Sums' /\ Rounded'
    BY <2>1 DEF SumInv, Sums, Rounded, Value
  <2> QED
    BY <2>2, <2>3 DEF SumInv
<1>7. CASE ScanDone \/ PrintLines
  <2>1. /\ at \in {"scan", "print"} /\ at' \in {"print", "next", "crashed"} /\ i' = i /\ runs' = runs
        /\ timeArray' = timeArray /\ sum' = sum /\ average' = average /\ exact' = exact
    BY <1>7 DEF ScanDone, PrintLines
  <2>2. Types'
    BY <2>1 DEF SumInv, Types, Recorded
  <2>3. Sums' /\ Rounded'
    BY <2>1 DEF SumInv, Sums, Rounded, Value
  <2> QED
    BY <2>2, <2>3 DEF SumInv
<1>8. CASE UNCHANGED stats
  BY <1>8 DEF stats, SumInv, Types, Sums, Rounded, Measured, Recorded, Value
<1> QED
  BY <1>1, <1>2, <1>3, <1>4, <1>5, <1>6, <1>7, <1>8 DEF OsStatsNext

\* The average printed is the true average rounded down by less than two
\* nanoseconds, for every number of rounds, clock and length of a second
\* (os_eval.cpp:110).
THEOREM TrueAverage == OsStatsSpec => []AverageIsRounded
<1>1. SumInv => AverageIsRounded
  BY DEF SumInv, Rounded, Types, AverageIsRounded, Recorded, Normal
<1> QED
  BY <1>1, SumInit, SumNext, PTL DEF OsStatsSpec
-------------------------------------------------------------------------------
\* The scan: the last j times are in a row, the pair before them is not near,
\* no K near pairs in a row went by, and without a best time an outlier did,
\* with nothing near since.
NearSet == {n \in 1..(runs - 1) : Near(n)}
OutlierSet == {n \in 1..(runs - 1) : ~Long(n) /\ Outlier(n)}

Bounds == i \in 1..runs /\ j \in 0..K /\ j <= i /\ best \in -1..(runs - 1)
LastInRow ==
  /\ j >= 1 => best = i - j /\ \A n \in (i - j + 1)..(i - 1) : n \in NearSet
  /\ j < i => i - j - 1 >= 1 /\ i - j - 1 \notin NearSet
NoneMissed == j # K => \A n \in 0..(i - 1 - K) : \E m \in (n + 1)..(n + K) : m \notin NearSet
AfterOutlier ==
  best = Null => j = 0 /\ \E n \in OutlierSet : n <= i - 1 /\ \A m \in n..(i - 1) : m \notin NearSet
Scanned == Bounds /\ LastInRow /\ NoneMissed /\ AfterOutlier

ScanInv ==
  /\ runs \in Nat \ {0} /\ i \in 0..runs
  /\ at \in {"round", "sum", "sort", "scan", "print", "next", "crashed"}
  /\ at \in {"round", "sum", "sort"} => j = 0 /\ best = Null
  /\ at \notin {"round", "sum", "sort"} => Scanned
  /\ at \in {"print", "next", "crashed"} => j = K \/ i = runs

LEMMA KType == K \in Nat /\ K >= 2
  BY OsStatsAssumption

LEMMA NearSetSame ==
  ASSUME timeArray' = timeArray, runs' = runs PROVE NearSet' = NearSet /\ OutlierSet' = OutlierSet
  BY DEF NearSet, OutlierSet, Near, Long, Outlier

\* What a step of the scan does, on the sets alone.
LEMMA ScanStep ==
  ASSUME ScanInv, at = "scan", i < runs, j # K, at' = at, runs' = runs, i' = i + 1,
         NearSet' = NearSet, OutlierSet' = OutlierSet,
         \/ i \notin NearSet /\ j' = 0 /\ best' = best
         \/ i \notin NearSet /\ i \in OutlierSet /\ j' = 0 /\ best' = Null
         \/ i \in NearSet /\ j' = j + 1 /\ best' = (IF j = 0 THEN i ELSE best)
  PROVE  ScanInv'
<1>1. /\ K \in Nat /\ K >= 2 /\ runs \in Nat \ {0} /\ i \in 1..(runs - 1) /\ j \in 0..(K - 1)
      /\ j <= i /\ best \in -1..(runs - 1)
  BY KType DEF ScanInv, Scanned, Bounds
<1>2. LastInRow /\ NoneMissed /\ AfterOutlier
  BY DEF ScanInv, Scanned
<1>3. Bounds'
  BY <1>1 DEF Bounds, Null
<1>4. LastInRow'
  <2>1. CASE i \in NearSet
    <3>1. j' = j + 1 /\ best' = (IF j = 0 THEN i ELSE best)
      BY <2>1
    <3> QED
      BY <1>1, <1>2, <2>1, <3>1 DEF LastInRow
  <2>2. CASE i \notin NearSet
    <3>1. j' = 0
      BY <2>2
    <3> QED
      BY <1>1, <2>2, <3>1 DEF LastInRow
  <2> QED
    BY <2>1, <2>2
<1>5. NoneMissed'
  <2> SUFFICES ASSUME j' # K, NEW n \in 0..(i - K)
               PROVE  \E m \in (n + 1)..(n + K) : m \notin NearSet
    BY <1>1 DEF NoneMissed
  <2>1. CASE n <= i - 1 - K
    BY <1>1, <1>2, <2>1 DEF NoneMissed
  <2>2. CASE n = i - K
    <3>1. PICK q \in 0..(K - 1) : q = j'
      BY <1>1, <1>3 DEF Bounds
    <3>2. i - q \in (n + 1)..(n + K)
      BY <1>1, <2>2
    <3>3. i' - q - 1 = i - q /\ q < i'
      BY <1>1, <2>2, <3>1
    <3>4. i - q \notin NearSet
      BY <1>4, <3>1, <3>3 DEF LastInRow
    <3> QED
      BY <3>2, <3>4
  <2> QED
    BY <1>1, <2>1, <2>2
<1>6. AfterOutlier'
  <2> SUFFICES ASSUME best' = Null
               PROVE  j' = 0 /\ \E n \in OutlierSet : n <= i /\ \A m \in n..i : m \notin NearSet
    BY <1>1 DEF AfterOutlier
  <2>1. i \notin NearSet /\ j' = 0
    BY <1>1, <1>2 DEF AfterOutlier, Null
  <2>2. CASE i \in OutlierSet
    BY <2>1, <2>2, <1>1
  <2>3. CASE i \notin OutlierSet
    <3>1. best = Null
      BY <2>1, <2>3
    <3>2. PICK n \in OutlierSet : n <= i - 1 /\ \A m \in n..(i - 1) : m \notin NearSet
      BY <1>2, <3>1 DEF AfterOutlier
    <3>3. n \in Int
      BY <1>1 DEF OutlierSet
    <3>4. n <= i /\ \A m \in n..i : m \notin NearSet
      BY <1>1, <2>1, <3>2, <3>3
    <3> QED
      BY <2>1, <3>4
  <2> QED
    BY <2>2, <2>3
<1> QED
  BY <1>1, <1>3, <1>4, <1>5, <1>6 DEF ScanInv, Scanned

LEMMA ScanInit == OsStatsInit => ScanInv
  BY OsStatsAssumption DEF OsStatsInit, ScanInv

LEMMA ScanNext == ScanInv /\ [OsStatsNext]_stats => ScanInv'
<1> SUFFICES ASSUME ScanInv, [OsStatsNext]_stats PROVE ScanInv'
  OBVIOUS
<1>1. ASSUME NEW t \in Starts, NEW d \in Durations, Round(t, d) PROVE ScanInv'
  BY <1>1 DEF Round, ScanInv
<1>2. CASE RoundsDone \/ SumRound \/ Average
  BY <1>2 DEF RoundsDone, SumRound, Average, ScanInv
<1>3. CASE Sort
  <2>1. /\ at' = "scan" /\ runs' = runs /\ runs \in Nat \ {0} /\ i' = 1 /\ j' = 1 /\ best' = 0
    BY <1>3 DEF Sort, ScanInv
  <2>2. K \in Nat /\ K >= 2
    BY KType
  <2> QED
    BY <2>1, <2>2 DEF ScanInv, Scanned, Bounds, LastInRow, NoneMissed, AfterOutlier, Null
<1>4. CASE ScanLong \/ ScanOutlier \/ ScanNear
  <2>1. /\ at = "scan" /\ i < runs /\ j # K /\ at' = at /\ runs' = runs /\ i' = i + 1
        /\ timeArray' = timeArray /\ i \in 1..(runs - 1)
    BY <1>4 DEF ScanLong, ScanOutlier, ScanNear, Scanning, ScanInv, Scanned, Bounds
  <2>2. NearSet' = NearSet /\ OutlierSet' = OutlierSet
    BY <2>1, NearSetSame
  <2>3. \/ i \notin NearSet /\ j' = 0 /\ best' = best
        \/ i \notin NearSet /\ i \in OutlierSet /\ j' = 0 /\ best' = Null
        \/ i \in NearSet /\ j' = j + 1 /\ best' = (IF j = 0 THEN i ELSE best)
    BY <1>4, <2>1 DEF ScanLong, ScanOutlier, ScanNear, NearSet, OutlierSet, Near
  <2> QED
    BY <2>1, <2>2, <2>3, ScanStep
<1>5. CASE ScanDone \/ PrintLines \/ UNCHANGED stats
  <2>1. /\ runs' = runs /\ timeArray' = timeArray /\ i' = i /\ j' = j /\ best' = best
        /\ \/ at = "scan" /\ ~(i < runs /\ j # K) /\ at' = "print"
           \/ at = "print" /\ at' \in {"next", "crashed"}
           \/ at' = at
    BY <1>5 DEF ScanDone, PrintLines, stats, Scanning
  <2>2. NearSet' = NearSet /\ OutlierSet' = OutlierSet
    BY <2>1, NearSetSame
  <2>3. Scanned' <=> Scanned
    BY <2>1, <2>2 DEF Scanned, Bounds, LastInRow, NoneMissed, AfterOutlier
  <2>4. at = "scan" /\ ~(i < runs /\ j # K) => i = runs \/ j = K
    BY DEF ScanInv
  <2> QED
    BY <2>1, <2>3, <2>4 DEF ScanInv
<1> QED
  BY <1>1, <1>2, <1>3, <1>4, <1>5 DEF OsStatsNext

\* Types, whatever the clock reads.
THEOREM StatsTypeCorrect == OsStatsSpec => []OsStatsTypeOK
<1>1. SumInv /\ ScanInv => OsStatsTypeOK
  <2> SUFFICES ASSUME Types, ScanInv PROVE OsStatsTypeOK
    BY DEF SumInv
  <2>1. j \in 0..K /\ best \in -1..(runs - 1)
    <3>1. CASE at \in {"round", "sum", "sort"}
      BY <3>1, KType DEF Types, ScanInv, Null
    <3>2. CASE at \notin {"round", "sum", "sort"}
      BY <3>2 DEF ScanInv, Scanned, Bounds
    <3> QED
      BY <3>1, <3>2
  <2>2. runs \in Nat \ {0} /\ runs <= MaxRuns /\ i \in 0..runs
    BY DEF Types
  <2> QED
    BY <2>1, <2>2 DEF Types, OsStatsTypeOK, Rounds, Null
<1> QED
  BY <1>1, SumInit, SumNext, ScanInit, ScanNext, PTL DEF OsStatsSpec

\* kbest has K - 1 times near it whenever the scan stops early, and the driver
\* dies of a NULL pointer only where there are no K near times after the
\* smallest, for every K and every number of rounds (os_eval.cpp:225).
THEOREM Company == OsStatsSpec => []BestHasCompany
<1>1. ScanInv => BestHasCompany
  <2> SUFFICES ASSUME ScanInv, at \in {"print", "next", "crashed"}
               PROVE  IF j = K
                      THEN best \in 0..(runs - K) /\ \A n \in (best + 1)..(best + K - 1) : Near(n)
                      ELSE best = Null =>
                        /\ \A n \in 0..(runs - 1 - K) : \E m \in (n + 1)..(n + K) : ~Near(m)
                        /\ \E n \in 1..(runs - 1) :
                             ~Long(n) /\ Outlier(n) /\ \A m \in n..(runs - 1) : ~Near(m)
    BY DEF BestHasCompany
  <2>1. Scanned /\ (j = K \/ i = runs) /\ K \in Nat /\ K >= 2 /\ runs \in Nat \ {0}
    BY KType DEF ScanInv
  <2>2. CASE j = K
    BY <2>1, <2>2 DEF Scanned, Bounds, LastInRow, NearSet
  <2>3. CASE j # K
    <3> SUFFICES ASSUME best = Null
                 PROVE  /\ \A n \in 0..(runs - 1 - K) : \E m \in (n + 1)..(n + K) : ~Near(m)
                        /\ \E n \in 1..(runs - 1) :
                             ~Long(n) /\ Outlier(n) /\ \A m \in n..(runs - 1) : ~Near(m)
      BY <2>3
    <3>1. ASSUME NEW n \in 0..(runs - 1 - K) PROVE \E m \in (n + 1)..(n + K) : ~Near(m)
      <4>1. PICK m \in (n + 1)..(n + K) : m \notin NearSet
        BY <2>1, <2>3 DEF Scanned, NoneMissed
      <4>2. m \in 1..(runs - 1)
        BY <2>1
      <4> QED
        BY <4>1, <4>2 DEF NearSet
    <3>2. PICK n \in OutlierSet : n <= runs - 1 /\ \A m \in n..(runs - 1) : m \notin NearSet
      BY <2>1, <2>3 DEF Scanned, AfterOutlier
    <3>3. n \in 1..(runs - 1) /\ ~Long(n) /\ Outlier(n)
      BY DEF OutlierSet
    <3>4. \A m \in n..(runs - 1) : ~Near(m)
      BY <2>1, <3>2, <3>3 DEF NearSet
    <3> QED
      BY <3>1, <3>3, <3>4
  <2> QED
    BY <2>2, <2>3
<1> QED
  BY <1>1, ScanInit, ScanNext, PTL DEF OsStatsSpec
-------------------------------------------------------------------------------
\* The rows of a schedule.
Kinds == {"ref", "cpu", "getpid", "switch", "send", "recv", "fork", "thread", "write", "warmup",
          "read", "mmap", "munmap", "fault", "select", "poll", "epoll"}
Rows == [f : Kinds, n : Nat]

\* What is read or mapped has been written before, with at least that size, and
\* no select is larger than 1000.
Sound(s) ==
  \A t \in 1..Len(s) :
    /\ s[t].f \in {"read", "munmap", "fault"} =>
         s[t].n >= 1 /\ \E u \in 1..(t - 1) : s[u].f = "write" /\ s[u].n >= s[t].n
    /\ s[t].f = "select" => s[t].n <= 1000

LEMMA Concat ==
  ASSUME NEW S, NEW s \in Seq(S), NEW t \in Seq(S)
  PROVE  /\ s \o t \in Seq(S) /\ Len(s \o t) = Len(s) + Len(t)
         /\ Len(s) \in Nat /\ Len(t) \in Nat
         /\ \A k \in 1..Len(s) : (s \o t)[k] = s[k]
         /\ \A k \in 1..Len(t) : (s \o t)[Len(s) + k] = t[k]
  OBVIOUS

LEMMA TestRow ==
  ASSUME NEW f \in Kinds, NEW n \in Nat
  PROVE  Test(f, n) \in Rows /\ Test(f, n).f = f /\ Test(f, n).n = n
  BY DEF Test, Rows

LEMMA SoundConcat ==
  ASSUME NEW s \in Seq(Rows), NEW t \in Seq(Rows), Sound(s), Sound(t)
  PROVE  /\ s \o t \in Seq(Rows) /\ Sound(s \o t) /\ Len(s) \in Nat /\ Len(s \o t) >= Len(s)
         /\ \A k \in 1..Len(s) : (s \o t)[k] = s[k]
<1> DEFINE both == s \o t
<1>1. /\ both \in Seq(Rows) /\ Len(both) = Len(s) + Len(t)
      /\ Len(s) \in Nat /\ Len(t) \in Nat
      /\ \A k \in 1..Len(s) : both[k] = s[k]
      /\ \A k \in 1..Len(t) : both[Len(s) + k] = t[k]
  BY Concat
<1> HIDE DEF both
<1>2. ASSUME NEW k \in 1..Len(both)
      PROVE  /\ both[k].f \in {"read", "munmap", "fault"} =>
                  /\ both[k].n >= 1
                  /\ \E u \in 1..(k - 1) : both[u].f = "write" /\ both[u].n >= both[k].n
             /\ both[k].f = "select" => both[k].n <= 1000
  <2>1. CASE k \in 1..Len(s)
    <3>1. both[k] = s[k] /\ \A u \in 1..(k - 1) : both[u] = s[u]
      BY <1>1, <2>1
    <3> QED
      BY <2>1, <3>1 DEF Sound
  <2>2. CASE k \notin 1..Len(s)
    <3>1. PICK l \in 1..Len(t) : k = Len(s) + l
      <4>1. k - Len(s) \in 1..Len(t)
        BY <1>1, <2>2
      <4>2. k = Len(s) + (k - Len(s))
        BY <1>1
      <4> QED
        BY <4>1, <4>2
    <3>2. both[k] = t[l]
      BY <1>1, <3>1
    <3>3. t[l].f = "select" => t[l].n <= 1000
      BY DEF Sound
    <3>4. ASSUME t[l].f \in {"read", "munmap", "fault"}
          PROVE  t[l].n >= 1 /\ \E u \in 1..(k - 1) : both[u].f = "write" /\ both[u].n >= t[l].n
      <4>1. PICK u \in 1..(l - 1) : t[u].f = "write" /\ t[u].n >= t[l].n
        BY <3>4 DEF Sound
      <4>2. Len(s) + u \in 1..(k - 1) /\ both[Len(s) + u] = t[u]
        BY <1>1, <3>1
      <4> QED
        BY <3>4, <4>1, <4>2 DEF Sound
    <3> QED
      BY <3>2, <3>3, <3>4
  <2> QED
    BY <2>1, <2>2
<1>3. Sound(both)
  BY <1>2 DEF Sound
<1>4. Len(both) >= Len(s)
  BY <1>1
<1> QED
  BY <1>1, <1>3, <1>4 DEF both

LEMMA ProcessRows ==
  /\ ProcessTests \in Seq(Rows) /\ Len(ProcessTests) = 12 /\ Sound(ProcessTests)
  /\ \A k \in 1..12 : ProcessTests[k].f \notin {"write", "warmup"}
  /\ \A k \in 1..5 :
       /\ ProcessTests[k].f \in {"ref", "cpu", "getpid", "switch", "send"}
       /\ (ProcessTests[k].f = "send" <=> k = 5)
<1> DEFINE rest ==
             {Test("recv", 1), Test("send", 96000), Test("recv", 96000), Test("fork", 0),
              Test("thread", 0), Test("fork", 6000), Test("fork", 12000)}
           rows ==
             {Test("ref", 0), Test("cpu", 0), Test("getpid", 0), Test("switch", 0),
              Test("send", 1)} \cup rest
<1>1. \A x \in rows : /\ x \in Rows
                      /\ x.f \notin {"read", "munmap", "fault", "select", "write", "warmup"}
  BY TestRow DEF Kinds
<1>2. /\ ProcessTests \in Seq(rows) /\ Len(ProcessTests) = 12
      /\ ProcessTests[1] = Test("ref", 0) /\ ProcessTests[2] = Test("cpu", 0)
      /\ ProcessTests[3] = Test("getpid", 0) /\ ProcessTests[4] = Test("switch", 0)
      /\ ProcessTests[5] = Test("send", 1)
  BY DEF ProcessTests
<1> HIDE DEF rows, rest
<1>3. \A k \in 1..12 : ProcessTests[k] \in rows
  BY <1>2, ElementOfSeq
<1>4. ProcessTests \in Seq(Rows)
  BY <1>1, <1>2
<1>5. Sound(ProcessTests)
  BY <1>1, <1>2, <1>3 DEF Sound
<1>6. \A k \in 1..5 :
        /\ ProcessTests[k].f \in {"ref", "cpu", "getpid", "switch", "send"}
        /\ (ProcessTests[k].f = "send" <=> k = 5)
  BY <1>2, TestRow DEF Kinds
<1> QED
  BY <1>1, <1>2, <1>3, <1>4, <1>5, <1>6

LEMMA FdRows ==
  ASSUME NEW n \in 0..1000
  PROVE  FdTests(n) \in Seq(Rows) /\ Sound(FdTests(n))
<1> DEFINE rest == {Test("select", n), Test("poll", n), Test("epoll", n)}
<1>1. \A x \in rest : x \in Rows /\ x.f \notin {"read", "munmap", "fault"} /\ x.n = n
  BY TestRow DEF Kinds
<1>2. FdTests(n) \in Seq(rest) /\ Len(FdTests(n)) = 3
  BY DEF FdTests
<1> HIDE DEF rest
<1>3. \A k \in 1..3 : FdTests(n)[k] \in rest
  BY <1>2
<1> QED
  BY <1>1, <1>2, <1>3 DEF Sound

LEMMA FileRows ==
  ASSUME NEW p \in Nat \ {0}, NEW w \in Seq(Rows), \A k \in 1..Len(w) : w[k].f = "warmup"
  PROVE  FileTests(p, w) \in Seq(Rows) /\ Sound(FileTests(p, w))
<1> DEFINE first == <<Test("write", p)>>
           last == <<Test("read", p), Test("mmap", p), Test("munmap", p), Test("fault", p)>>
           head == first \o w
           all == head \o last
<1>1. first \in Seq(Rows) /\ Len(first) = 1 /\ first[1].f = "write" /\ first[1].n = p
  <2>1. Test("write", p) \in Rows /\ Test("write", p).f = "write" /\ Test("write", p).n = p
    BY TestRow DEF Kinds
  <2> QED
    BY <2>1
<1>2. last \in Seq(Rows) /\ Len(last) = 4 /\ \A k \in 1..4 : last[k].n = p /\ last[k].f # "select"
  <2> DEFINE rest == {Test("read", p), Test("mmap", p), Test("munmap", p), Test("fault", p)}
  <2>1. \A x \in rest : x \in Rows /\ x.n = p /\ x.f # "select"
    BY TestRow DEF Kinds
  <2>2. last \in Seq(rest) /\ Len(last) = 4
    OBVIOUS
  <2> HIDE DEF rest, last
  <2>3. \A k \in 1..4 : last[k] \in rest
    BY <2>2, ElementOfSeq
  <2>4. last \in Seq(Rows)
    BY <2>1, <2>2
  <2> QED
    BY <2>1, <2>2, <2>3, <2>4
<1> HIDE DEF first, last
<1>3. /\ head \in Seq(Rows) /\ Len(head) = 1 + Len(w) /\ Len(w) \in Nat /\ head[1] = first[1]
      /\ \A k \in 1..Len(w) : head[1 + k] = w[k]
  <2>1. /\ head \in Seq(Rows) /\ Len(head) = Len(first) + Len(w) /\ Len(w) \in Nat
        /\ \A k \in 1..Len(first) : head[k] = first[k]
        /\ \A k \in 1..Len(w) : head[Len(first) + k] = w[k]
    <3>1. first \in Seq(Rows) /\ w \in Seq(Rows)
      BY <1>1
    <3> QED
      BY ONLY <3>1, Concat
  <2> HIDE DEF head
  <2> QED
    BY <1>1, <2>1
<1>4. \A k \in 2..Len(head) : head[k].f = "warmup"
  <2> SUFFICES ASSUME NEW k \in 2..Len(head) PROVE head[k].f = "warmup"
    OBVIOUS
  <2>1. k - 1 \in 1..Len(w) /\ k = 1 + (k - 1)
    BY <1>3
  <2> QED
    BY <1>3, <2>1
<1> HIDE DEF head
<1>5. /\ all \in Seq(Rows) /\ Len(all) = Len(head) + Len(last)
      /\ \A k \in 1..Len(head) : all[k] = head[k]
      /\ \A k \in 1..Len(last) : all[Len(head) + k] = last[k]
  <2>1. head \in Seq(Rows) /\ last \in Seq(Rows)
    BY <1>2, <1>3
  <2> QED
    BY ONLY <2>1, Concat
<1> HIDE DEF all
<1>6. ASSUME NEW k \in 1..Len(all)
      PROVE  /\ all[k].f # "select"
             /\ all[k].f \in {"read", "munmap", "fault"} => k > 1 /\ all[k].n = p
  <2>1. CASE k \in 1..Len(head)
    BY <1>1, <1>3, <1>4, <1>5, <2>1
  <2>2. CASE k \notin 1..Len(head)
    <3> DEFINE l == k - Len(head)
    <3>1. Len(head) \in Nat /\ Len(head) >= 1 /\ Len(all) = Len(head) + 4
      BY <1>2, <1>3, <1>5
    <3>2. l \in 1..4 /\ k = Len(head) + l /\ k > 1
      BY <2>2, <3>1
    <3> HIDE DEF l
    <3> QED
      BY <1>2, <1>5, <3>2
  <2> QED
    BY <2>1, <2>2
<1>7. all[1].f = "write" /\ all[1].n = p
  BY <1>1, <1>3, <1>5
<1>8. Sound(all)
  <2> SUFFICES ASSUME NEW k \in 1..Len(all)
               PROVE  /\ all[k].f # "select"
                      /\ all[k].f \in {"read", "munmap", "fault"} =>
                           /\ all[k].n >= 1
                           /\ \E u \in 1..(k - 1) : all[u].f = "write" /\ all[u].n >= all[k].n
    BY DEF Sound
  <2>1. k > 1 => 1 \in 1..(k - 1)
    BY <1>5
  <2> QED
    BY <1>6, <1>7, <2>1
<1>9. FileTests(p, w) = all
  BY DEF FileTests, all, head, first, last
<1> QED
  BY <1>5, <1>8, <1>9

LEMMA SoundSchedule ==
  /\ Schedule \in Seq(Rows) /\ Sound(Schedule) /\ Len(Schedule) >= 12
  /\ \A k \in 1..12 : Schedule[k] = ProcessTests[k]
<1> DEFINE w1 == <<Test("warmup", 1)>>
           w2 == <<Test("warmup", 10)>>
           w3 == <<Test("warmup", 1000)>>
           w4 == <<>>
           Part(s) == s \in Seq(Rows) /\ Sound(s)
           Begins(s) == Len(s) >= 12 /\ \A k \in 1..12 : s[k] = ProcessTests[k]
           a1 == ProcessTests \o FileTests(1, w1)
           a2 == a1 \o FileTests(10, w2)
           a3 == a2 \o FileTests(1000, w3)
           a4 == a3 \o FileTests(10000, w4)
           a5 == a4 \o FdTests(10)
           a6 == a5 \o FdTests(1000)
<1>1. ASSUME NEW n \in Nat, NEW w, w = <<Test("warmup", n)>>
      PROVE  w \in Seq(Rows) /\ \A k \in 1..Len(w) : w[k].f = "warmup"
  <2>1. Test("warmup", n) \in Rows /\ Test("warmup", n).f = "warmup"
    BY TestRow DEF Kinds
  <2> QED
    BY <1>1, <2>1
<1>2. /\ w1 \in Seq(Rows) /\ \A k \in 1..Len(w1) : w1[k].f = "warmup"
      /\ w2 \in Seq(Rows) /\ \A k \in 1..Len(w2) : w2[k].f = "warmup"
      /\ w3 \in Seq(Rows) /\ \A k \in 1..Len(w3) : w3[k].f = "warmup"
  BY <1>1
<1>3. w4 \in Seq(Rows) /\ \A k \in 1..Len(w4) : w4[k].f = "warmup"
  OBVIOUS
<1> HIDE DEF w1, w2, w3, w4
<1>4. /\ Part(FileTests(1, w1)) /\ Part(FileTests(10, w2)) /\ Part(FileTests(1000, w3))
      /\ Part(FileTests(10000, w4))
  <2>1. Part(FileTests(1, w1))
    BY <1>2, FileRows
  <2>2. Part(FileTests(10, w2))
    BY <1>2, FileRows
  <2>3. Part(FileTests(1000, w3))
    BY <1>2, FileRows
  <2>4. Part(FileTests(10000, w4))
    BY <1>3, FileRows
  <2> QED
    BY <2>1, <2>2, <2>3, <2>4
<1>5. Part(FdTests(10)) /\ Part(FdTests(1000))
  <2>1. \A n \in 0..1000 : Part(FdTests(n))
    BY FdRows
  <2> HIDE DEF Part
  <2>2. 10 \in 0..1000 /\ 1000 \in 0..1000
    OBVIOUS
  <2> QED
    BY ONLY <2>1, <2>2
<1>6. Part(ProcessTests) /\ Begins(ProcessTests)
  BY ProcessRows
<1>7. ASSUME NEW s, NEW t, Part(s), Part(t), Begins(s)
      PROVE  Part(s \o t) /\ Begins(s \o t)
  <2>1. /\ s \o t \in Seq(Rows) /\ Sound(s \o t) /\ Len(s) \in Nat /\ Len(s \o t) >= Len(s)
        /\ \A k \in 1..Len(s) : (s \o t)[k] = s[k]
    BY <1>7, SoundConcat
  <2>2. Len(s \o t) \in Nat /\ Len(s) >= 12
    BY <1>7, <2>1
  <2>3. \A k \in 1..12 : k \in 1..Len(s)
    BY <2>1, <2>2
  <2>4. \A k \in 1..12 : (s \o t)[k] = s[k] /\ s[k] = ProcessTests[k]
    BY <1>7, <2>1, <2>3
  <2>5. Part(s \o t)
    BY <2>1
  <2>6. Begins(s \o t)
    <3>1. Len(s \o t) >= 12
      BY <2>1, <2>2
    <3>2. \A k \in 1..12 : (s \o t)[k] = ProcessTests[k]
      BY <2>4
    <3> QED
      BY <3>1, <3>2
  <2> QED
    BY <2>5, <2>6
<1> HIDE DEF Part, Begins
<1>8. Part(a1) /\ Begins(a1)
  BY <1>4, <1>6, <1>7
<1> HIDE DEF a1
<1>9. Part(a2) /\ Begins(a2)
  BY <1>4, <1>7, <1>8
<1> HIDE DEF a2
<1>10. Part(a3) /\ Begins(a3)
  BY <1>4, <1>7, <1>9
<1> HIDE DEF a3
<1>11. Part(a4) /\ Begins(a4)
  BY <1>4, <1>7, <1>10
<1> HIDE DEF a4
<1>12. Part(a5) /\ Begins(a5)
  BY <1>5, <1>7, <1>11
<1> HIDE DEF a5
<1>13. Part(a6) /\ Begins(a6)
  BY <1>5, <1>7, <1>12
<1> HIDE DEF a6
<1>14. Schedule = a6
  BY DEF Schedule, a1, a2, a3, a4, a5, a6, w1, w2, w3, w4
<1> QED
  BY <1>13, <1>14 DEF Part, Begins

\* What the proofs use of the schedule.
LEMMA ScheduleRows ==
  /\ Len(Schedule) \in Nat /\ Len(Schedule) >= 12
  /\ \A t \in 1..Len(Schedule) :
       /\ Schedule[t].f \in Kinds /\ Schedule[t].n \in Nat
       /\ Schedule[t].f \in {"read", "munmap", "fault"} =>
            /\ Schedule[t].n >= 1
            /\ \E u \in 1..(t - 1) : Schedule[u].f = "write" /\ Schedule[u].n >= Schedule[t].n
       /\ Schedule[t].f = "select" => Schedule[t].n <= 1000
<1>1. Schedule \in Seq(Rows) /\ Len(Schedule) \in Nat /\ Len(Schedule) >= 12
  BY SoundSchedule
<1>2. \A t \in 1..Len(Schedule) : Schedule[t] \in Rows
  BY <1>1
<1>3. \A t \in 1..Len(Schedule) : Schedule[t].f \in Kinds /\ Schedule[t].n \in Nat
  BY <1>2 DEF Rows
<1> QED
  BY <1>1, <1>3, SoundSchedule DEF Sound

LEMMA EarlyRows ==
  \A t \in 1..5 :
    /\ Schedule[t].f \in {"ref", "cpu", "getpid", "switch", "send"}
    /\ (Schedule[t].f = "send" <=> t = 5)
<1>1. \A t \in 1..5 : Schedule[t] = ProcessTests[t]
  BY SoundSchedule
<1> QED
  BY <1>1, ProcessRows
-------------------------------------------------------------------------------
Processes == [t : 1..(Len(Schedule) + 1), left : Nat, buf : Seq(Nat), fds : Nat, failed : Nat]

EvalTypeOK ==
  /\ length \in Int /\ length >= Absent /\ perms \subseteq {"r", "w"}
  /\ short \in {0, 1} /\ misread \in {0, 1}
  /\ stack \in Seq(Processes) /\ sigint \in {"default", "ignored"} /\ acsv \in Seq(Nat)
  /\ fate \in {"runs", "ended", "cut", "hung", "no_acsv", "join", "mapping", "fd_set", "kbest"}
  /\ fate = "runs" <=> stack # <<>>

\* The buffer holds the header and the lines of the tests before this one; a
\* test that prints nothing is not left to be printed.
Printed(p) ==
  /\ {p.buf[k] : k \in 1..Len(p.buf)} = {0} \cup {u \in Printing : u < p.t}
  /\ \A k, l \in 1..Len(p.buf) : k < l => p.buf[k] < p.buf[l]
  /\ p.t \in 1..Len(Schedule) /\ Schedule[p.t].f = "warmup" => p.left > 0

\* What write_test wrote is in the file, unless a write was cut short.
Wrote(p) ==
  \A u \in 1..Len(Schedule) :
    Schedule[u].f = "write" /\ (u < p.t \/ (u = p.t /\ p.left = 0)) =>
      length >= 0 /\ (short = 0 /\ perms = {"r", "w"} => length >= Schedule[u].n)

\* Without copies there is one process, and its descriptors are accounted for.
Single(p) == p.fds <= 4 + 4 * p.failed /\ Wrote(p)
\* What is in a.csv once the process that runs is left with this fate.
Leaves(why, rows) ==
  CASE why = "ended" -> IsTable(rows)
    [] why = "cut" -> \E t \in {0} \cup Printing : IsTableUpTo(t, rows)
    [] OTHER -> rows = <<>>
Misread == WrittenBeforeUse /\ (misread > 0 => length >= 0)
DefaultInv ==
  sigint = "default" =>
    /\ Len(stack) <= 1 /\ \A k \in 1..Len(stack) : Single(stack[k])
    /\ Misread
    /\ Leaves(fate, acsv)

\* Copies get stuck in the first send_test.
Early(p) == p.t <= 5 /\ (p.t = 5 => p.left > 0)
IgnoredInv ==
  sigint = "ignored" =>
    /\ acsv = <<>> /\ misread = 0 /\ fate \notin {"ended", "cut", "mapping"}
    /\ \A k \in 1..Len(stack) : Early(stack[k])
    /\ \A k \in 1..(Len(stack) - 1) : stack[k].t = 5 => stack[k + 1].t = 5

EvalInv ==
  /\ EvalTypeOK /\ DefaultInv /\ IgnoredInv
  /\ \A k \in 1..Len(stack) : Printed(stack[k])
  /\ \A k \in 1..(Len(stack) - 1) : stack[k].left > 0
-------------------------------------------------------------------------------
\* The stack after a step of the running process, and after it has ended.
LEMMA Fronts ==
  ASSUME NEW S, NEW s \in Seq(S), s # <<>>
  PROVE  /\ Front(s) \in Seq(S) /\ Len(s) \in Nat /\ Len(s) >= 1 /\ Len(Front(s)) = Len(s) - 1
         /\ \A k \in 1..(Len(s) - 1) : Front(s)[k] = s[k]
         /\ \A k \in 1..Len(s) : s[k] \in S
         /\ Last(s) = s[Len(s)] /\ Last(s) \in S
<1>1. Len(s) \in Nat /\ Len(s) >= 1
  OBVIOUS
<1>2. /\ Front(s) \in Seq(S) /\ Len(Front(s)) = Len(s) - 1
      /\ \A k \in 1..(Len(s) - 1) : Front(s)[k] = s[k]
  <2>1. PICK n \in Nat : Len(s) = n + 1
    <3>1. Len(s) - 1 \in Nat /\ Len(s) = (Len(s) - 1) + 1
      BY <1>1
    <3> QED
      BY <3>1
  <2>2. n \in 0..Len(s) /\ 1 \in 1..(Len(s) + 1) /\ n + 1 - 1 = n
    BY <2>1
  <2>3. /\ SubSeq(s, 1, n) \in Seq(S) /\ Len(SubSeq(s, 1, n)) = n
        /\ \A k \in 1..n : SubSeq(s, 1, n)[k] = s[k]
    BY <2>1
  <2>4. Front(s) = SubSeq(s, 1, n) /\ Len(s) - 1 = n
    BY <2>1 DEF Front
  <2> QED
    BY <2>3, <2>4
<1>3. \A k \in 1..Len(s) : s[k] \in S
  BY ElementOfSeq
<1> QED
  BY <1>1, <1>2, <1>3 DEF Last

LEMMA Appending ==
  ASSUME NEW S, NEW s \in Seq(S), NEW x \in S
  PROVE  /\ Append(s, x) \in Seq(S) /\ Len(s) \in Nat /\ Len(Append(s, x)) = Len(s) + 1
         /\ \A k \in 1..Len(s) : Append(s, x)[k] = s[k]
         /\ Append(s, x)[Len(s) + 1] = x /\ Append(s, x) # <<>>
  OBVIOUS

LEMMA BecomeStack ==
  ASSUME stack \in Seq(Processes), stack # <<>>, NEW q \in Processes, Become(q)
  PROVE  /\ stack' \in Seq(Processes) /\ Len(stack) \in Nat /\ Len(stack) >= 1 /\ stack' # <<>>
         /\ Len(stack') = Len(stack) /\ stack'[Len(stack)] = q
         /\ \A k \in 1..(Len(stack) - 1) : stack'[k] = stack[k]
<1>1. PICK n \in Nat : n = Len(stack) /\ n >= 1
  BY Fronts
<1>2. /\ Front(stack) \in Seq(Processes) /\ Len(Front(stack)) = n - 1
      /\ \A k \in 1..(n - 1) : Front(stack)[k] = stack[k]
  BY <1>1, Fronts
<1>3. stack' = Append(Front(stack), q)
  BY DEF Become
<1>4. /\ stack' \in Seq(Processes) /\ Len(stack') = (n - 1) + 1 /\ stack' # <<>>
      /\ \A k \in 1..(n - 1) : stack'[k] = Front(stack)[k]
      /\ stack'[(n - 1) + 1] = q
  BY <1>2, <1>3, Appending
<1>5. (n - 1) + 1 = n
  OBVIOUS
<1> QED
  BY <1>1, <1>2, <1>4, <1>5

LEMMA RoundOverIs ==
  ASSUME NEW p \in Processes, p.left > 0
  PROVE  /\ RoundOver(p) \in Processes /\ RoundOver(p).left = p.left - 1
         /\ RoundOver(p).t = p.t /\ RoundOver(p).buf = p.buf /\ RoundOver(p).fds = p.fds
         /\ RoundOver(p).failed = p.failed
<1>1. p.left - 1 \in Nat
  BY DEF Processes
<1> QED
  BY <1>1 DEF RoundOver, Processes

LEMMA ExitStack ==
  ASSUME stack \in Seq(Processes), stack # <<>>, NEW why, Exit(why),
         \A k \in 1..(Len(stack) - 1) : stack[k].left > 0
  PROVE  /\ Len(stack) \in Nat /\ Len(stack) >= 1 /\ stack' \in Seq(Processes)
         /\ Len(stack) = 1 => fate' = why /\ stack' = <<>>
         /\ Len(stack) > 1 =>
              LET n == Len(stack) - 1 IN
              /\ fate' = fate /\ stack' # <<>> /\ Len(stack') = n /\ n \in Nat /\ n >= 1
              /\ stack[n] \in Processes /\ stack'[n] = RoundOver(stack[n])
              /\ RoundOver(stack[n]) \in Processes
              /\ \A k \in 1..(n - 1) : stack'[k] = stack[k]
<1>1. Len(stack) \in Nat /\ Len(stack) >= 1
  BY Fronts
<1>2. CASE Len(stack) = 1
  BY <1>1, <1>2 DEF Exit
<1>3. CASE Len(stack) # 1
  <2>1. PICK n \in Nat : n = Len(stack) - 1 /\ n >= 1 /\ Len(stack) > 1
    <3>1. Len(stack) - 1 \in Nat /\ Len(stack) - 1 >= 1 /\ Len(stack) > 1
      BY ONLY <1>1, <1>3
    <3> QED
      BY <3>1
  <2>2. /\ Front(stack) \in Seq(Processes) /\ Len(Front(stack)) = n
        /\ \A k \in 1..n : Front(stack)[k] = stack[k]
    BY <2>1, Fronts
  <2>3. Front(stack) # <<>>
    BY <2>1, <2>2
  <2>4. /\ Front(Front(stack)) \in Seq(Processes) /\ Len(Front(Front(stack))) = n - 1
        /\ \A k \in 1..(n - 1) : Front(Front(stack))[k] = Front(stack)[k]
        /\ Last(Front(stack)) = Front(stack)[n]
    BY <2>2, <2>3, Fronts
  <2>5. /\ stack[n] \in Processes /\ stack[n].left > 0 /\ Front(stack)[n] = stack[n]
    BY <2>1, <2>2, ElementOfSeq
  <2>6. RoundOver(stack[n]) \in Processes
    BY <2>5, RoundOverIs
  <2>7. fate' = fate /\ stack' = Append(Front(Front(stack)), RoundOver(stack[n]))
    BY <1>3, <2>4, <2>5 DEF Exit
  <2>8. /\ stack' \in Seq(Processes) /\ Len(stack') = (n - 1) + 1 /\ stack' # <<>>
        /\ \A k \in 1..(n - 1) : stack'[k] = Front(Front(stack))[k]
        /\ stack'[(n - 1) + 1] = RoundOver(stack[n])
    BY <2>4, <2>6, <2>7, Appending
  <2>9. (n - 1) + 1 = n
    OBVIOUS
  <2> QED
    BY <1>1, <2>1, <2>2, <2>4, <2>5, <2>6, <2>7, <2>8, <2>9
<1> QED
  BY <1>2, <1>3
-------------------------------------------------------------------------------
FilesTyped ==
  /\ length \in Int /\ length >= Absent /\ perms \subseteq {"r", "w"}
  /\ short \in {0, 1} /\ misread \in {0, 1}

\* The running process goes on as q.
LEMMA BecomeInv ==
  ASSUME EvalInv, stack # <<>>, NEW q \in Processes, Become(q), Printed(q), FilesTyped',
         fate' = fate, RestUnchanged,
         sigint = "default" => Single(q)' /\ Misread',
         sigint = "ignored" => Early(q) /\ q.t >= Top.t /\ misread' = 0
  PROVE  EvalInv'
<1>1. PICK n \in Nat : n = Len(stack) /\ n >= 1
  BY Fronts DEF EvalInv, EvalTypeOK
<1>2. /\ stack' \in Seq(Processes) /\ stack' # <<>> /\ Len(stack') = n /\ stack'[n] = q
      /\ \A k \in 1..(n - 1) : stack'[k] = stack[k]
  BY <1>1, BecomeStack DEF EvalInv, EvalTypeOK
<1>3. sigint' = sigint /\ acsv' = acsv
  BY DEF RestUnchanged
<1>4. EvalTypeOK'
  BY <1>2, <1>3 DEF EvalInv, EvalTypeOK, FilesTyped
<1>5. \A k \in 1..n : k = n \/ k \in 1..(n - 1)
  BY <1>1
<1>6. \A k \in 1..n : Printed(stack'[k])
  BY <1>1, <1>2, <1>5 DEF EvalInv
<1>7. \A k \in 1..(n - 1) : stack'[k].left > 0
  BY <1>1, <1>2 DEF EvalInv
<1>8. DefaultInv'
  <2>1. CASE sigint = "default"
    <3>1. n = 1 /\ fate' = "runs" /\ acsv' = <<>>
      BY <1>1, <1>3, <2>1 DEF EvalInv, EvalTypeOK, DefaultInv, Leaves
    <3>2. \A k \in 1..Len(stack') : stack'[k] = q
      BY <1>2, <3>1
    <3>3. \A k \in 1..Len(stack') : Single(stack[k])'
      <4> SUFFICES ASSUME NEW k \in 1..Len(stack') PROVE Single(stack[k])'
        OBVIOUS
      <4>1. stack'[k] = q
        BY <3>2
      <4> QED
        BY <2>1, <4>1 DEF Single, Wrote
    <3> QED
      BY <1>2, <2>1, <3>1, <3>3 DEF DefaultInv, Leaves
  <2> QED
    BY <1>3, <2>1 DEF DefaultInv
<1>9. IgnoredInv'
  <2>1. CASE sigint = "ignored"
    <3>1. /\ acsv' = <<>> /\ misread' = 0 /\ fate' \notin {"ended", "cut", "mapping"}
          /\ \A k \in 1..n : Early(stack[k])
          /\ \A k \in 1..(n - 1) : stack[k].t = 5 => stack[k + 1].t = 5
      BY <1>1, <1>3, <2>1 DEF EvalInv, IgnoredInv
    <3>2. \A k \in 1..n : Early(stack'[k])
      BY <1>2, <1>5, <2>1, <3>1
    <3>3. Top.t = stack[n].t /\ stack[n].t \in Nat /\ q.t \in Nat
      <4>1. stack[n] \in Processes /\ Top = stack[n]
        BY <1>1, Fronts DEF Top, EvalInv, EvalTypeOK
      <4> QED
        BY <4>1 DEF Processes
    <3>4. stack[n].t = 5 => q.t = 5
      BY <2>1, <3>3 DEF Early
    <3>5. ASSUME NEW k \in 1..(n - 1), stack'[k].t = 5 PROVE stack'[k + 1].t = 5
      <4>1. stack[k].t = 5 /\ stack[k + 1].t = 5
        BY <1>2, <3>1, <3>5
      <4>2. k + 1 = n \/ k + 1 \in 1..(n - 1)
        BY <1>1
      <4> QED
        BY <1>2, <3>4, <4>1, <4>2
    <3> QED
      BY <1>2, <3>1, <3>2, <3>5 DEF IgnoredInv, Early
  <2> QED
    BY <1>3, <2>1 DEF IgnoredInv
<1> QED
  BY <1>2, <1>4, <1>6, <1>7, <1>8, <1>9 DEF EvalInv, Printed

\* The running process ends.
LEMMA ExitInv ==
  ASSUME EvalInv, stack # <<>>,
         NEW why \in {"ended", "cut", "join", "mapping", "fd_set", "kbest"}, Exit(why),
         UNCHANGED <<fileVars, sigint, misread>>,
         acsv' \in Seq(Nat), IF why \in {"ended", "cut"} THEN Leaves(why, acsv') ELSE acsv' = acsv,
         why = "mapping" => short > 0 \/ perms # {"r", "w"},
         sigint = "ignored" => why \notin {"ended", "cut", "mapping"} /\ Top.t # 5
  PROVE  EvalInv'
<1>1. PICK m \in Nat : m = Len(stack) /\ m >= 1
  BY Fronts DEF EvalInv, EvalTypeOK
<1>2. /\ stack' \in Seq(Processes)
      /\ m = 1 => fate' = why /\ stack' = <<>>
      /\ m > 1 =>
              LET n == m - 1 IN
              /\ fate' = fate /\ stack' # <<>> /\ Len(stack') = n /\ n \in Nat /\ n >= 1
              /\ stack[n] \in Processes /\ stack'[n] = RoundOver(stack[n])
              /\ RoundOver(stack[n]) \in Processes
              /\ \A k \in 1..(n - 1) : stack'[k] = stack[k]
  BY <1>1, ExitStack DEF EvalInv, EvalTypeOK
<1>3. UNCHANGED <<length, perms, short, sigint, misread>>
  BY DEF fileVars
<1>4. fate = "runs"
  BY DEF EvalInv, EvalTypeOK
<1>5. CASE m = 1
  <2>1. stack' = <<>> /\ Len(stack') = 0 /\ fate' = why
    BY <1>2, <1>5
  <2>2. EvalTypeOK'
    BY <1>2, <1>3, <2>1 DEF EvalInv, EvalTypeOK
  <2>3. DefaultInv'
    <3>1. sigint = "default" => Leaves(why, acsv')
      BY <1>4 DEF EvalInv, DefaultInv, Leaves
    <3> QED
      BY <1>3, <1>4, <2>1, <3>1 DEF EvalInv, DefaultInv, Misread, WrittenBeforeUse
  <2>4. IgnoredInv'
    BY <1>3, <1>4, <2>1 DEF EvalInv, IgnoredInv
  <2> QED
    BY <2>1, <2>2, <2>3, <2>4 DEF EvalInv
<1>6. CASE m > 1
  <2>1. PICK n \in Nat : n = m - 1 /\ n >= 1
    <3>1. m - 1 \in Nat /\ m - 1 >= 1
      BY <1>6
    <3> QED
      BY <3>1
  <2> DEFINE p == stack[n]
  <2>2. /\ fate' = fate /\ stack' # <<>> /\ Len(stack') = n
        /\ p \in Processes /\ stack'[n] = RoundOver(p) /\ RoundOver(p) \in Processes
        /\ \A k \in 1..(n - 1) : stack'[k] = stack[k]
    BY <1>2, <1>6, <2>1
  <2>3. sigint = "ignored"
    BY <1>1, <1>6 DEF EvalInv, EvalTypeOK, DefaultInv
  <2>4. /\ acsv = <<>> /\ misread = 0 /\ fate \notin {"ended", "cut", "mapping"}
        /\ \A k \in 1..m : Early(stack[k])
        /\ \A k \in 1..(m - 1) : stack[k].t = 5 => stack[k + 1].t = 5
        /\ \A k \in 1..m : Printed(stack[k])
        /\ \A k \in 1..(m - 1) : stack[k].left > 0
    BY <1>1, <2>3 DEF EvalInv, IgnoredInv
  <2>5. n \in 1..m /\ n \in 1..(m - 1) /\ n + 1 = m
    BY <2>1
  <2>6. p.t <= 5 /\ p.t \in Nat /\ p.t >= 1 /\ p.left > 0 /\ Printed(p)
    <3>1. Early(p) /\ p.left > 0 /\ Printed(p)
      BY <2>4, <2>5
    <3>2. p.t \in Nat /\ p.t >= 1
      BY <2>2 DEF Processes
    <3> QED
      BY <3>1, <3>2 DEF Early
  <2>7. p.t # 5
    <3>1. Top.t = stack[m].t
      BY <1>1 DEF Top, Last
    <3> QED
      BY <2>3, <2>4, <2>5, <3>1
  <2>8. RoundOver(p).t = p.t /\ RoundOver(p).buf = p.buf
    BY <2>2, <2>6, RoundOverIs
  <2>9. Schedule[p.t].f # "warmup"
    <3>1. p.t \in 1..5
      BY <2>6
    <3>2. \A t \in 1..5 : Schedule[t].f # "warmup"
      BY ONLY EarlyRows
    <3> QED
      BY <3>1, <3>2
  <2>10. Early(RoundOver(p)) /\ Printed(RoundOver(p))
    BY <2>6, <2>7, <2>8, <2>9 DEF Early, Printed
  <2> HIDE DEF p
  <2>11. \A k \in 1..n : k = n \/ (k \in 1..(n - 1) /\ k \in 1..m)
    BY <2>1
  <2>12. \A k \in 1..n : Early(stack'[k]) /\ Printed(stack'[k])
    BY <2>2, <2>4, <2>10, <2>11
  <2>13. ASSUME NEW k \in 1..(n - 1)
        PROVE  stack'[k].left > 0 /\ (stack'[k].t = 5 => stack'[k + 1].t = 5)
    <3>1. k \in 1..(m - 1) /\ stack'[k] = stack[k]
      BY <2>1, <2>2
    <3>2. stack[k].t = 5 => stack[k + 1].t = 5
      BY <2>4, <3>1
    <3>3. k + 1 = n \/ k + 1 \in 1..(n - 1)
      BY <2>1
    <3>4. k + 1 = n => stack[k + 1].t # 5
      BY <2>7 DEF p
    <3> QED
      BY <2>2, <2>4, <3>1, <3>2, <3>3, <3>4
  <2>14. EvalTypeOK'
    BY <1>2, <1>3, <2>2 DEF EvalInv, EvalTypeOK
  <2>15. acsv' = acsv
    BY <2>3
  <2>16. DefaultInv'
    BY <1>3, <2>3 DEF DefaultInv
  <2>17. IgnoredInv'
    BY <1>3, <2>2, <2>4, <2>12, <2>13, <2>15 DEF IgnoredInv, Early
  <2> QED
    BY <2>2, <2>12, <2>13, <2>14, <2>16, <2>17 DEF EvalInv, Printed
<1> QED
  BY <1>1, <1>5, <1>6

\* The running process waits for a copy q of itself.
LEMMA PushInv ==
  ASSUME EvalInv, stack # <<>>, NEW q \in Processes, stack' = Append(stack, q), Top.left > 0,
         Printed(q), sigint = "ignored", Early(q), q.t = Top.t,
         RestUnchanged, UNCHANGED <<fileVars, fate, misread>>
  PROVE  EvalInv'
<1>1. PICK n \in Nat : n = Len(stack) /\ n >= 1
  BY Fronts DEF EvalInv, EvalTypeOK
<1>2. /\ stack' \in Seq(Processes) /\ stack' # <<>> /\ Len(stack') = n + 1 /\ stack'[n + 1] = q
      /\ \A k \in 1..n : stack'[k] = stack[k]
  BY <1>1, Appending DEF EvalInv, EvalTypeOK
<1>3. sigint' = sigint /\ acsv' = acsv /\ UNCHANGED <<length, perms, short, misread>>
  BY DEF RestUnchanged, fileVars
<1>4. EvalTypeOK'
  BY <1>2, <1>3 DEF EvalInv, EvalTypeOK
<1>5. \A k \in 1..(n + 1) : k = n + 1 \/ k \in 1..n
  BY <1>1
<1>6. Top = stack[n]
  BY <1>1 DEF Top, Last
<1>7. /\ acsv = <<>> /\ misread = 0 /\ fate \notin {"ended", "cut", "mapping"}
      /\ \A k \in 1..n : Early(stack[k])
      /\ \A k \in 1..(n - 1) : stack[k].t = 5 => stack[k + 1].t = 5
      /\ \A k \in 1..n : Printed(stack[k])
      /\ \A k \in 1..(n - 1) : stack[k].left > 0
  BY <1>1 DEF EvalInv, IgnoredInv
<1>8. \A k \in 1..(n + 1) : Early(stack'[k]) /\ Printed(stack'[k])
  BY <1>2, <1>5, <1>7
<1>9. ASSUME NEW k \in 1..n PROVE stack'[k].left > 0 /\ (stack'[k].t = 5 => stack'[k + 1].t = 5)
  <2>1. CASE k = n
    BY <1>2, <1>6, <2>1
  <2>2. CASE k \in 1..(n - 1)
    <3>1. k + 1 \in 1..n
      BY <1>1, <2>2
    <3> QED
      BY <1>2, <1>7, <2>2, <3>1
  <2> QED
    BY <1>1, <2>1, <2>2
<1>10. DefaultInv'
  BY <1>3 DEF DefaultInv
<1>11. (n + 1) - 1 = n
  OBVIOUS
<1>12. IgnoredInv'
  BY <1>2, <1>3, <1>7, <1>8, <1>9, <1>11 DEF IgnoredInv, Early
<1> QED
  BY <1>2, <1>4, <1>8, <1>9, <1>10, <1>11, <1>12 DEF EvalInv, Printed
-------------------------------------------------------------------------------
\* The running process, and the test that it is in.
LEMMA TopIs ==
  ASSUME EvalInv, stack # <<>>
  PROVE  /\ Top \in Processes /\ Printed(Top) /\ Top.t \in 1..(Len(Schedule) + 1)
         /\ Top.left \in Nat /\ Top.fds \in Nat /\ Top.failed \in Nat /\ Top.buf \in Seq(Nat)
         /\ sigint = "default" => Len(stack) = 1 /\ Single(Top)
         /\ sigint = "ignored" => Early(Top)
<1>1. Top \in Processes /\ Top = stack[Len(stack)] /\ Len(stack) \in Nat /\ Len(stack) >= 1
  BY Fronts DEF Top, EvalInv, EvalTypeOK
<1>2. Len(stack) \in 1..Len(stack)
  BY ONLY <1>1
<1>3. Printed(Top) /\ (sigint = "ignored" => Early(Top))
  BY <1>1, <1>2 DEF EvalInv, IgnoredInv
<1>4. ASSUME sigint = "default" PROVE Len(stack) = 1 /\ Single(Top)
  <2>1. Len(stack) <= 1 /\ \A k \in 1..Len(stack) : Single(stack[k])
    BY <1>4 DEF EvalInv, DefaultInv
  <2>2. Single(Top)
    BY <1>1, <1>2, <2>1
  <2>3. Len(stack) = 1
    BY ONLY <1>1, <2>1
  <2> QED
    BY <2>2, <2>3
<1>5. /\ Top.t \in 1..(Len(Schedule) + 1) /\ Top.left \in Nat /\ Top.fds \in Nat
      /\ Top.failed \in Nat /\ Top.buf \in Seq(Nat)
  BY <1>1 DEF Processes
<1> QED
  BY <1>1, <1>3, <1>4, <1>5

LEMMA InIs ==
  ASSUME EvalInv, NEW tests, In(tests)
  PROVE  /\ stack # <<>> /\ Top.t \in 1..Len(Schedule) /\ Top.left > 0
         /\ Now = Schedule[Top.t] /\ Now.f \in tests /\ Now.n \in Nat
         /\ sigint = "ignored" => /\ Now.f \in {"ref", "cpu", "getpid", "switch", "send"}
                                 /\ (Now.f = "send" <=> Top.t = 5)
<1>1. /\ stack # <<>> /\ Top.t <= Len(Schedule) /\ Top.left > 0 /\ Now = Schedule[Top.t]
      /\ Now.f \in tests
  BY DEF In, InTest, Now
<1>2. Top.t \in 1..(Len(Schedule) + 1) /\ (sigint = "ignored" => Early(Top))
  BY <1>1, TopIs
<1>3. Top.t \in 1..Len(Schedule)
  BY <1>1, <1>2, ScheduleRows
<1>4. Now.n \in Nat
  BY <1>1, <1>3, ScheduleRows
<1>5. sigint = "ignored" => Top.t \in 1..5
  BY <1>2 DEF Early
<1> QED
  BY <1>1, <1>3, <1>4, <1>5, EarlyRows

\* A round that nothing is lost in.
LEMMA RoundInv ==
  ASSUME EvalInv, NEW tests, In(tests), "warmup" \notin tests, Become(RoundOver(Top)),
         FilesTyped', fate' = fate, RestUnchanged,
         sigint = "ignored" => Now.f # "send" /\ misread' = 0,
         sigint = "default" =>
           /\ Misread'
           /\ \A u \in 1..Len(Schedule) : Schedule[u].f = "write" /\ u <= Top.t =>
                \/ /\ u = Top.t /\ length' >= 0
                   /\ short' = 0 /\ perms' = {"r", "w"} => length' >= Schedule[u].n
                \/ /\ u # Top.t /\ length' >= length /\ (length >= 0 => perms' = perms)
                   /\ short' = 0 => short = 0
  PROVE  EvalInv'
<1>1. /\ stack # <<>> /\ Top.t \in 1..Len(Schedule) /\ Top.left > 0 /\ Now = Schedule[Top.t]
      /\ Now.f \in tests /\ (sigint = "ignored" => (Now.f = "send" <=> Top.t = 5))
  BY InIs
<1>2. PICK q : q = RoundOver(Top)
  OBVIOUS
<1>3. /\ q \in Processes /\ q.t = Top.t /\ q.buf = Top.buf /\ q.fds = Top.fds
      /\ q.failed = Top.failed /\ q.left = Top.left - 1
  BY <1>1, <1>2, TopIs, RoundOverIs
<1>4. Printed(q)
  BY <1>1, <1>3, TopIs DEF Printed
<1>5. ASSUME sigint = "default" PROVE Single(q)'
  <2>1. q.fds <= 4 + 4 * q.failed /\ Wrote(Top)
    BY <1>1, <1>3, <1>5, TopIs DEF Single
  <2>2. length \in Int /\ length' \in Int /\ Top.t \in Nat /\ Len(Schedule) \in Nat
    BY <1>1, ScheduleRows DEF FilesTyped, EvalInv, EvalTypeOK
  <2>3. ASSUME NEW u \in 1..Len(Schedule), Schedule[u].f = "write", u <= Top.t
        PROVE  length' >= 0 /\ (short' = 0 /\ perms' = {"r", "w"} => length' >= Schedule[u].n)
    <3>1. CASE u = Top.t
      BY <1>5, <2>3, <3>1
    <3>2. CASE u # Top.t
      <4>1. u < Top.t
        BY <2>2, <2>3, <3>2
      <4>2. length >= 0 /\ (short = 0 /\ perms = {"r", "w"} => length >= Schedule[u].n)
        BY <2>1, <2>3, <4>1 DEF Wrote
      <4>3. Schedule[u].n \in Nat
        BY ScheduleRows
      <4> QED
        BY <1>5, <2>2, <2>3, <3>2, <4>2, <4>3
    <3> QED
      BY <3>1, <3>2
  <2> QED
    BY <1>3, <2>1, <2>2, <2>3 DEF Single, Wrote
<1>6. sigint = "ignored" => Early(q) /\ q.t >= Top.t
  BY <1>1, <1>3, TopIs DEF Early
<1> QED
  BY <1>1, <1>2, <1>3, <1>4, <1>5, <1>6, BecomeInv

LEMMA QuietInv ==
  ASSUME EvalInv, NEW f, QuietRound(f), f \notin {"warmup", "send", "write"}
  PROVE  EvalInv'
<1>1. /\ In({f}) /\ Become(RoundOver(Top)) /\ RestUnchanged
      /\ UNCHANGED <<length, perms, short, fate, misread>>
  BY DEF QuietRound, fileVars
<1>2. Now = Schedule[Top.t] /\ Now.f = f
  BY <1>1, InIs
<1>3. FilesTyped' /\ length \in Int /\ (sigint = "ignored" => misread' = 0)
  BY <1>1 DEF EvalInv, EvalTypeOK, IgnoredInv, FilesTyped
<1>4. sigint = "default" => Misread'
  BY <1>1 DEF EvalInv, DefaultInv, Misread, WrittenBeforeUse
<1>5. "warmup" \notin {f}
  OBVIOUS
<1> QED
  BY <1>1, <1>2, <1>3, <1>4, <1>5, RoundInv

\* What a write does to the file.
LEMMA MaxOfThree ==
  ASSUME NEW a \in Int, NEW b \in Int, NEW c \in Int
  PROVE  Max({a, b, c}) \in {a, b, c} /\ \A x \in {a, b, c} : Max({a, b, c}) >= x
<1>1. \E x \in {a, b, c} : \A y \in {a, b, c} : x >= y
  OBVIOUS
<1> QED
  BY <1>1 DEF Max

LEMMA MinOfTwo ==
  ASSUME NEW a \in Int, NEW b \in Int
  PROVE  Min({a, b}) = IF a <= b THEN a ELSE b
<1>1. \E x \in {a, b} : \A y \in {a, b} : x <= y
  OBVIOUS
<1> QED
  BY <1>1 DEF Min

LEMMA WriteFileIs ==
  ASSUME EvalInv, NEW n \in Nat, WriteFile(n), misread' = misread
  PROVE  /\ FilesTyped' /\ length' >= length /\ length' >= 0 /\ length \in Int
         /\ length >= 0 => perms' = perms
         /\ short' = 0 => short = 0 /\ length' >= n
<1>1. /\ length \in Int /\ length >= Absent /\ perms \subseteq {"r", "w"}
      /\ short \in {0, 1} /\ misread \in {0, 1}
  BY DEF EvalInv, EvalTypeOK
<1>2. PICK done \in {n, 0, n \div 2} :
        \E written \in {done, 0} : /\ length' = Max({length, written, 0})
                                  /\ short' = (IF written < n THEN 1 ELSE short)
  BY DEF WriteFile
<1>3. PICK written \in Int : /\ length' = Max({length, written, 0})
                            /\ short' = (IF written < n THEN 1 ELSE short)
  <2>1. n \div 2 \in Int
    OBVIOUS
  <2> QED
    BY <1>2, <2>1
<1>4. length' \in Int /\ length' >= length /\ length' >= written /\ length' >= 0
  BY <1>1, <1>3, MaxOfThree
<1>5. perms' \subseteq {"r", "w"} /\ (length >= 0 => perms' = perms)
  BY <1>1 DEF WriteFile, Absent
<1>6. short' \in {0, 1} /\ (short' = 0 => short = 0 /\ written >= n)
  BY <1>1, <1>3
<1> QED
  BY <1>1, <1>3, <1>4, <1>5, <1>6 DEF FilesTyped, Absent
-------------------------------------------------------------------------------
LEMMA QuietRounds ==
  ASSUME EvalInv, RefOrCpu \/ Getpid \/ Mmap \/ Poll \/ Epoll \/ QuietRound("thread")
  PROVE  EvalInv'
  BY QuietInv DEF RefOrCpu, Getpid, Mmap, Poll, Epoll

\* A process that ends before it has printed everything leaves no line of it.
LEMMA DeathInv ==
  ASSUME EvalInv, stack # <<>>, NEW why \in {"join", "mapping", "fd_set", "kbest"}, Exit(why),
         RestUnchanged, UNCHANGED <<fileVars, misread>>,
         why = "mapping" => short > 0 \/ perms # {"r", "w"},
         sigint = "ignored" => why # "mapping" /\ Top.t # 5
  PROVE  EvalInv'
  BY ExitInv DEF RestUnchanged, EvalInv, EvalTypeOK

LEMMA ThreadInv ==
  ASSUME EvalInv, Thread
  PROVE  EvalInv'
<1>1. CASE QuietRound("thread")
  BY <1>1, QuietRounds
<1>2. CASE /\ In({"thread"}) /\ "thread" \in Fails /\ Exit("join")
           /\ RestUnchanged /\ UNCHANGED <<fileVars, misread>>
  <2>1. stack # <<>> /\ sigint # "ignored"
    BY <1>2, InIs
  <2> QED
    BY <1>2, <2>1, DeathInv
<1> QED
  BY <1>1, <1>2 DEF Thread

LEMMA WriteInv ==
  ASSUME EvalInv, Write
  PROVE  EvalInv'
<1>1. /\ In({"write"}) /\ WriteFile(Now.n) /\ Become(RoundOver(Top)) /\ RestUnchanged
      /\ fate' = fate /\ misread' = misread
  BY DEF Write
<1>2. /\ Now = Schedule[Top.t] /\ Now.n \in Nat /\ sigint # "ignored" /\ Now.f = "write"
  BY <1>1, InIs
<1>3. /\ FilesTyped' /\ length' >= length /\ length' >= 0 /\ length \in Int
      /\ length >= 0 => perms' = perms
      /\ short' = 0 => short = 0 /\ length' >= Now.n
  BY <1>1, <1>2, WriteFileIs
<1>4. sigint = "default" => Misread'
  <2>1. fate' # "mapping" /\ misread' \in {0, 1} /\ short \in {0, 1}
    BY <1>1, <1>3, InIs DEF EvalInv, EvalTypeOK
  <2>2. short' \in {0, 1}
    BY <1>3 DEF FilesTyped
  <2> QED
    BY <1>1, <1>3, <2>1, <2>2 DEF EvalInv, DefaultInv, Misread, WrittenBeforeUse
<1> QED
  BY <1>1, <1>2, <1>3, <1>4, RoundInv

LEMMA NextTestIs ==
  ASSUME NEW p \in Processes, p.t \in 1..Len(Schedule)
  PROVE  /\ NextTest(p) \in Processes /\ NextTest(p).t = p.t + 1 /\ NextTest(p).left > 0
         /\ NextTest(p).buf = p.buf /\ NextTest(p).fds = p.fds /\ NextTest(p).failed = p.failed
<1>1. RoundsOf(p.t + 1) \in Nat /\ RoundsOf(p.t + 1) > 0
  BY OsEvalAssumption DEF RoundsOf
<1>2. p.t + 1 \in 1..(Len(Schedule) + 1)
  BY ScheduleRows
<1> QED
  BY <1>1, <1>2 DEF NextTest, Processes

\* What is written when the next test begins.
LEMMA WroteNext ==
  ASSUME EvalInv, stack # <<>>, sigint = "default", NEW q \in Processes,
         Top.t \in 1..Len(Schedule), q.t = Top.t + 1, q.left > 0,
         Top.left = 0 \/ Schedule[Top.t].f # "write",
         length' \in Int, length' >= length, length >= 0 => perms' = perms, short' = 0 => short = 0
  PROVE  Wrote(q)'
<1>1. Wrote(Top) /\ length \in Int /\ Len(Schedule) \in Nat
  BY TopIs, ScheduleRows DEF Single, EvalInv, EvalTypeOK
<1>2. ASSUME NEW u \in 1..Len(Schedule), Schedule[u].f = "write",
             u < q.t \/ (u = q.t /\ q.left = 0)
      PROVE  length' >= 0 /\ (short' = 0 /\ perms' = {"r", "w"} => length' >= Schedule[u].n)
  <2>1. u < Top.t \/ u = Top.t
    BY <1>1, <1>2
  <2>2. u < Top.t \/ (u = Top.t /\ Top.left = 0)
    BY <1>2, <2>1
  <2>3. length >= 0 /\ (short = 0 /\ perms = {"r", "w"} => length >= Schedule[u].n)
    BY <1>1, <1>2, <2>2 DEF Wrote
  <2>4. Schedule[u].n \in Nat
    BY ScheduleRows
  <2> QED
    BY <1>1, <2>3, <2>4
<1> QED
  BY <1>2 DEF Wrote

LEMMA ReadWarmupInv ==
  ASSUME EvalInv, ReadWarmup
  PROVE  EvalInv'
<1>1. /\ In({"warmup"}) /\ WriteFile(Now.n) /\ Become(NextTest(Top)) /\ RestUnchanged
      /\ fate' = fate /\ misread' = misread
  BY DEF ReadWarmup
<1>2. /\ stack # <<>> /\ Now = Schedule[Top.t] /\ Now.n \in Nat /\ sigint # "ignored"
      /\ Now.f = "warmup" /\ Top.t \in 1..Len(Schedule)
  BY <1>1, InIs
<1>3. /\ FilesTyped' /\ length' >= length /\ length' >= 0 /\ length \in Int
      /\ length >= 0 => perms' = perms
      /\ short' = 0 => short = 0
  BY <1>1, <1>2, WriteFileIs
<1>4. sigint = "default" => Misread'
  <2>1. fate' # "mapping" /\ misread' \in {0, 1} /\ short \in {0, 1}
    BY <1>1, <1>2 DEF EvalInv, EvalTypeOK
  <2>2. short' \in {0, 1} /\ length' \in Int
    BY <1>3 DEF FilesTyped
  <2> QED
    BY <1>1, <1>3, <2>1, <2>2 DEF EvalInv, DefaultInv, Misread, WrittenBeforeUse
<1>5. PICK q : q = NextTest(Top)
  OBVIOUS
<1>6. /\ q \in Processes /\ q.t = Top.t + 1 /\ q.left > 0 /\ q.buf = Top.buf /\ q.fds = Top.fds
      /\ q.failed = Top.failed
  BY <1>2, <1>5, TopIs, NextTestIs
<1>7. Printed(q)
  <2>1. Top.t \notin Printing /\ Printing \subseteq Nat
    BY <1>2 DEF Printing
  <2>2. {u \in Printing : u < q.t} = {u \in Printing : u < Top.t}
    <3>1. \A u \in Printing : u < q.t <=> u < Top.t
      <4> SUFFICES ASSUME NEW u \in Printing PROVE u < Top.t + 1 <=> u < Top.t
        BY <1>6
      <4>1. u \in Nat /\ u # Top.t /\ Top.t \in Nat
        BY <1>2, <2>1, ScheduleRows
      <4> QED
        BY <4>1
    <3> QED
      BY <3>1
  <2> QED
    BY <1>2, <1>6, <2>2, TopIs DEF Printed
<1>8. sigint = "default" => Single(q)'
  <2>1. length' \in Int
    BY <1>3 DEF FilesTyped
  <2>2. sigint = "default" => Wrote(q)'
    BY <1>2, <1>3, <1>6, <2>1, WroteNext
  <2> QED
    BY <1>2, <1>6, <2>2, TopIs DEF Single
<1> QED
  BY <1>1, <1>2, <1>3, <1>4, <1>5, <1>6, <1>7, <1>8, BecomeInv

\* A file that is read or mapped has been written before, with at least the
\* size needed.
LEMMA Needed ==
  ASSUME EvalInv, NEW tests, In(tests), tests \subseteq {"read", "munmap", "fault"}
  PROVE  /\ stack # <<>> /\ sigint = "default" /\ Now.n >= 1 /\ Now.n \in Nat
         /\ length \in Int /\ length >= 0
         /\ short = 0 /\ perms = {"r", "w"} => length >= Now.n
<1>1. /\ stack # <<>> /\ Top.t \in 1..Len(Schedule) /\ Now = Schedule[Top.t] /\ Now.n \in Nat
      /\ Now.f \in {"read", "munmap", "fault"} /\ sigint # "ignored"
  BY InIs
<1>2. sigint = "default" /\ length \in Int
  BY <1>1 DEF EvalInv, EvalTypeOK
<1>3. Wrote(Top)
  BY <1>1, <1>2, TopIs DEF Single
<1>4. Now.n >= 1
  BY <1>1, ScheduleRows
<1>5. PICK u \in 1..(Top.t - 1) : Schedule[u].f = "write" /\ Schedule[u].n >= Now.n
  <2>1. PICK t \in 1..Len(Schedule) : t = Top.t
    BY <1>1
  <2>2. \E u \in 1..(t - 1) : Schedule[u].f = "write" /\ Schedule[u].n >= Schedule[t].n
    BY <1>1, <2>1, ScheduleRows
  <2> QED
    BY <1>1, <2>1, <2>2
<1>6. u \in 1..Len(Schedule) /\ u < Top.t
  BY <1>1, ScheduleRows
<1>7. length >= 0 /\ (short = 0 /\ perms = {"r", "w"} => length >= Schedule[u].n)
  BY <1>3, <1>5, <1>6 DEF Wrote
<1>8. Schedule[u].n \in Nat
  BY <1>6, ScheduleRows
<1> QED
  BY <1>1, <1>2, <1>4, <1>5, <1>7, <1>8

LEMMA ReadInv ==
  ASSUME EvalInv, Read
  PROVE  EvalInv'
<1>1. /\ In({"read"}) /\ Become(RoundOver(Top)) /\ RestUnchanged
      /\ UNCHANGED <<length, perms, short, fate>>
      /\ misread' = (IF ReadResult(Now.n) = Now.n THEN misread ELSE 1)
  BY DEF Read, fileVars
<1>2. /\ stack # <<>> /\ sigint = "default" /\ Now.n >= 1 /\ Now.n \in Nat
      /\ length \in Int /\ length >= 0
      /\ short = 0 /\ perms = {"r", "w"} => length >= Now.n
  BY <1>1, Needed
<1>3. Now = Schedule[Top.t] /\ Now.f = "read"
  BY <1>1, InIs
<1>4. FilesTyped'
  BY <1>1 DEF EvalInv, EvalTypeOK, FilesTyped
<1>5. short = 0 /\ perms = {"r", "w"} => ReadResult(Now.n) = Now.n
  <2>1. Now.n \in Int /\ Min({Now.n, length}) = IF Now.n <= length THEN Now.n ELSE length
    BY <1>2, MinOfTwo
  <2> QED
    BY <1>2, <2>1 DEF ReadResult, Opens, Absent
<1>6. Misread'
  <2>1. short \in {0, 1} /\ fate # "mapping"
    BY <1>2 DEF EvalInv, EvalTypeOK
  <2>2. misread > 0 => short > 0 \/ perms # {"r", "w"}
    BY <1>2 DEF EvalInv, DefaultInv, Misread, WrittenBeforeUse
  <2>3. short = 0 /\ perms = {"r", "w"} => misread' = misread
    BY <1>1, <1>5
  <2> QED
    BY <1>1, <1>2, <2>1, <2>2, <2>3 DEF Misread, WrittenBeforeUse
<1>7. "warmup" \notin {"read"}
  OBVIOUS
<1> QED
  BY <1>1, <1>2, <1>3, <1>4, <1>6, <1>7, RoundInv

\* A mapping that is touched kills the process, or the round is over.
LEMMA TouchInv ==
  ASSUME EvalInv, NEW f \in {"munmap", "fault", "select"}, In({f}), RestUnchanged,
         UNCHANGED <<fileVars, misread>>,
         \/ Become(RoundOver(Top)) /\ fate' = fate
         \/ \E why \in {"mapping", "fd_set"} :
              Exit(why) /\ (why = "mapping" => short > 0 \/ perms # {"r", "w"})
  PROVE  EvalInv'
<1>1. stack # <<>> /\ Now = Schedule[Top.t] /\ Now.f = f /\ sigint # "ignored"
  BY InIs
<1>2. CASE Become(RoundOver(Top)) /\ fate' = fate
  <2>1. QuietRound(f)
    BY <1>2 DEF QuietRound
  <2> QED
    BY <2>1, QuietInv
<1>3. CASE \E why \in {"mapping", "fd_set"} :
              Exit(why) /\ (why = "mapping" => short > 0 \/ perms # {"r", "w"})
  BY <1>1, <1>3, DeathInv
<1> QED
  BY <1>2, <1>3

LEMMA MunmapInv ==
  ASSUME EvalInv, Munmap
  PROVE  EvalInv'
<1>1. In({"munmap"}) /\ RestUnchanged /\ UNCHANGED <<fileVars, misread>>
  BY DEF Munmap
<1>2. CASE TouchIsFatal({"r", "w"}, Now.n)
  <2>1. Exit("mapping")
    BY <1>2 DEF Munmap
  <2>2. short > 0 \/ perms # {"r", "w"}
    <3>1. /\ Now.n \in Nat /\ length \in Int /\ length >= 0
          /\ short = 0 /\ perms = {"r", "w"} => length >= Now.n
      BY <1>1, Needed
    <3>2. short \in {0, 1}
      BY DEF EvalInv, EvalTypeOK
    <3> QED
      BY <1>2, <3>1, <3>2 DEF TouchIsFatal, Opens, Absent
  <2> QED
    BY <1>1, <2>1, <2>2, TouchInv
<1>3. CASE ~TouchIsFatal({"r", "w"}, Now.n)
  <2>1. Become(RoundOver(Top)) /\ fate' = fate
    BY <1>3 DEF Munmap
  <2> QED
    BY <1>1, <2>1, TouchInv
<1> QED
  BY <1>2, <1>3

LEMMA PageFaultInv ==
  ASSUME EvalInv, PageFault
  PROVE  EvalInv'
<1>1. In({"fault"}) /\ RestUnchanged /\ UNCHANGED <<fileVars, misread>>
  BY DEF PageFault
<1>2. CASE TouchIsFatal({"r"}, 1)
  <2>1. Exit("mapping")
    BY <1>2 DEF PageFault
  <2>2. short > 0 \/ perms # {"r", "w"}
    <3>1. /\ Now.n \in Nat /\ Now.n >= 1 /\ length \in Int /\ length >= 0
          /\ short = 0 /\ perms = {"r", "w"} => length >= Now.n
      BY <1>1, Needed
    <3>2. short \in {0, 1}
      BY DEF EvalInv, EvalTypeOK
    <3> QED
      BY <1>2, <3>1, <3>2 DEF TouchIsFatal, Opens, Absent
  <2> QED
    BY <1>1, <2>1, <2>2, TouchInv
<1>3. CASE ~TouchIsFatal({"r"}, 1)
  <2>1. Become(RoundOver(Top)) /\ fate' = fate
    BY <1>3 DEF PageFault
  <2> QED
    BY <1>1, <2>1, TouchInv
<1> QED
  BY <1>2, <1>3

LEMMA SelectInv ==
  ASSUME EvalInv, Select
  PROVE  EvalInv'
  BY TouchInv DEF Select
-------------------------------------------------------------------------------
\* A round whose child is killed counts like any other.
LEMMA ForkRoundInv ==
  ASSUME EvalInv, ForkRound
  PROVE  EvalInv'
<1>1. /\ In(Forking) /\ Become(RoundOver(Top)) /\ RestUnchanged /\ sigint = "default"
      /\ UNCHANGED <<length, perms, short, fate, misread>>
  BY DEF ForkRound, fileVars
<1>2. Now = Schedule[Top.t] /\ Now.f \in Forking
  BY <1>1, InIs
<1>3. FilesTyped' /\ length \in Int
  BY <1>1 DEF EvalInv, EvalTypeOK, FilesTyped
<1>4. sigint = "default" => Misread'
  BY <1>1 DEF EvalInv, DefaultInv, Misread, WrittenBeforeUse
<1>5. "warmup" \notin Forking /\ "write" \notin Forking
  BY DEF Forking
<1> QED
  BY <1>1, <1>2, <1>3, <1>4, <1>5, RoundInv

LEMMA ForkCopyInv ==
  ASSUME EvalInv, ForkCopy
  PROVE  EvalInv'
<1>1. /\ In(Forking) /\ RestUnchanged /\ sigint = "ignored"
      /\ UNCHANGED <<fileVars, fate, misread>>
  BY DEF ForkCopy
<1>2. /\ stack # <<>> /\ Now = Schedule[Top.t] /\ Now.f \in {"switch", "send"}
      /\ Top.left > 0 /\ (Now.f = "send" <=> Top.t = 5) /\ Top.t \in 1..Len(Schedule)
  BY <1>1, InIs DEF Forking
<1>3. /\ Top \in Processes /\ Printed(Top) /\ Early(Top)
  BY <1>1, <1>2, TopIs
<1>4. PICK r : r = RoundOver(Top)
  OBVIOUS
<1>5. /\ r \in Processes /\ r.left = Top.left - 1 /\ r.t = Top.t /\ r.buf = Top.buf
  BY <1>2, <1>3, <1>4, RoundOverIs
<1>6. PICK q : /\ q = (IF Now.f = "send" THEN Top ELSE [r EXCEPT !.fds = @ + 2])
               /\ stack' = Append(stack, q)
  BY <1>2, <1>4 DEF ForkCopy
<1>7. q \in Processes /\ q.t = Top.t /\ q.buf = Top.buf /\ (Now.f = "send" => q.left > 0)
  <2>1. PICK x \in Nat : x = r.fds + 2
    <3>1. r.fds + 2 \in Nat
      BY <1>5 DEF Processes
    <3> QED
      BY <3>1
  <2>2. LET e == [r EXCEPT !.fds = x] IN e \in Processes /\ e.t = r.t /\ e.buf = r.buf
    BY <1>5 DEF Processes
  <2>3. Now.f = "send" => q = Top
    BY <1>6
  <2>4. Now.f # "send" => q = [r EXCEPT !.fds = x]
    BY <1>6, <2>1
  <2> QED
    BY <1>2, <1>3, <1>5, <2>2, <2>3, <2>4
<1>8. Printed(q)
  BY <1>2, <1>3, <1>7 DEF Printed
<1>9. Early(q)
  BY <1>2, <1>3, <1>7 DEF Early
<1> QED
  BY <1>1, <1>2, <1>6, <1>7, <1>8, <1>9, PushInv

\* A fork that fails leaves four descriptors at most.
LEMMA ForkFailsInv ==
  ASSUME EvalInv, ForkFails
  PROVE  EvalInv'
<1>1. In(Forking) /\ RestUnchanged /\ UNCHANGED <<length, perms, short, fate, misread>>
  BY DEF ForkFails, In, Forking, fileVars
<1>2. /\ stack # <<>> /\ Now = Schedule[Top.t] /\ Now.f \in Forking /\ Top.t \in 1..Len(Schedule)
      /\ Top.left > 0 /\ (sigint = "ignored" => (Now.f = "send" <=> Top.t = 5))
  BY <1>1, InIs
<1>3. /\ Top \in Processes /\ Printed(Top) /\ Top.fds \in Nat /\ Top.failed \in Nat
      /\ Top.left \in Nat /\ Top.t \in Nat
      /\ sigint = "default" => Single(Top)
      /\ sigint = "ignored" => Early(Top)
  BY <1>2, TopIs DEF Processes
<1>4. PICK p : /\ p = [Top EXCEPT !.fds = IF Now.f = "fork" THEN @ ELSE @ + 4, !.failed = @ + 1]
               /\ Become(IF Now.f \in {"send", "recv"} THEN p ELSE RoundOver(p))
  BY DEF ForkFails
<1>5. /\ p \in Processes /\ p.t = Top.t /\ p.buf = Top.buf /\ p.left = Top.left
      /\ p.failed = Top.failed + 1 /\ p.fds <= Top.fds + 4 /\ p.fds \in Nat
  <2>1. PICK x \in Nat : x = (IF Now.f = "fork" THEN Top.fds ELSE Top.fds + 4)
    BY <1>3
  <2>2. PICK y \in Nat : y = Top.failed + 1
    BY <1>3
  <2>3. p = [Top EXCEPT !.fds = x, !.failed = y]
    BY <1>4, <2>1, <2>2
  <2>4. /\ p \in Processes /\ p.t = Top.t /\ p.buf = Top.buf /\ p.left = Top.left
        /\ p.failed = y /\ p.fds = x
    BY <1>3, <2>3 DEF Processes
  <2>5. x <= Top.fds + 4
    BY <1>3, <2>1
  <2> QED
    BY <2>2, <2>4, <2>5
<1>6. /\ RoundOver(p) \in Processes /\ RoundOver(p).left = Top.left - 1 /\ RoundOver(p).t = Top.t
      /\ RoundOver(p).buf = Top.buf /\ RoundOver(p).fds = p.fds /\ RoundOver(p).failed = p.failed
  BY <1>2, <1>5, RoundOverIs
<1>7. PICK q : /\ q = (IF Now.f \in {"send", "recv"} THEN p ELSE RoundOver(p)) /\ Become(q)
  BY <1>4
<1>8. /\ q \in Processes /\ q.t = Top.t /\ q.buf = Top.buf /\ q.fds = p.fds
      /\ q.failed = Top.failed + 1 /\ (Now.f = "send" => q.left > 0)
  BY <1>2, <1>5, <1>6, <1>7
<1>9. FilesTyped' /\ (sigint = "ignored" => misread' = 0)
  BY <1>1 DEF EvalInv, EvalTypeOK, IgnoredInv, FilesTyped
<1>10. sigint = "default" => Misread'
  BY <1>1 DEF EvalInv, DefaultInv, Misread, WrittenBeforeUse
<1>11. Printed(q)
  <2>1. Now.f # "warmup"
    BY <1>2 DEF Forking
  <2> QED
    BY <1>2, <1>3, <1>8, <2>1 DEF Printed
<1>12. sigint = "ignored" => Early(q) /\ q.t >= Top.t
  BY <1>2, <1>3, <1>8 DEF Early
<1>13. ASSUME sigint = "default" PROVE Single(q)'
  <2>1. Top.fds <= 4 + 4 * Top.failed /\ Wrote(Top)
    BY <1>3, <1>13 DEF Single
  <2>2. q.fds <= 4 + 4 * q.failed
    BY <1>3, <1>5, <1>8, <2>1
  <2>3. Schedule[q.t].f # "write"
    BY <1>2, <1>8 DEF Forking
  <2>4. Wrote(q)'
    BY <1>1, <1>8, <2>1, <2>3 DEF Wrote
  <2> QED
    BY <2>2, <2>4 DEF Single
<1> QED
  BY <1>1, <1>2, <1>7, <1>8, <1>9, <1>10, <1>11, <1>12, <1>13, BecomeInv
-------------------------------------------------------------------------------
\* The table grows by a row, and is complete with the last one.
LEMMA RowAppended ==
  ASSUME NEW b \in Seq(Nat), NEW t \in Nat, \A k \in 1..Len(b) : b[k] < t,
         \A k, l \in 1..Len(b) : k < l => b[k] < b[l],
         NEW c, c = Append(b, t)
  PROVE  /\ c \in Seq(Nat) /\ {c[k] : k \in 1..Len(c)} = {b[k] : k \in 1..Len(b)} \cup {t}
         /\ \A k, l \in 1..Len(c) : k < l => c[k] < c[l]
<1>1. PICK n \in Nat : n = Len(b)
  OBVIOUS
<1>2. /\ c \in Seq(Nat) /\ Len(c) = n + 1 /\ c[n + 1] = t
      /\ \A k \in 1..n : c[k] = b[k]
  BY <1>1, Appending
<1>3. \A k : k \in 1..(n + 1) <=> k \in 1..n \/ k = n + 1
  BY <1>1
<1>4. {c[k] : k \in 1..Len(c)} = {b[k] : k \in 1..Len(b)} \cup {t}
  BY <1>1, <1>2, <1>3
<1>5. ASSUME NEW k \in 1..Len(c), NEW l \in 1..Len(c), k < l PROVE c[k] < c[l]
  <2>1. k \in 1..n
    BY <1>2, <1>3, <1>5
  <2>2. CASE l = n + 1
    BY <1>1, <1>2, <2>1, <2>2
  <2>3. CASE l \in 1..n
    BY <1>1, <1>2, <1>5, <2>1, <2>3
  <2> QED
    BY <1>2, <1>3, <2>2, <2>3
<1> QED
  BY <1>2, <1>4, <1>5

LEMMA PrintTestInv ==
  ASSUME EvalInv, PrintTest
  PROVE  EvalInv'
<1>1. /\ stack # <<>> /\ Top.t <= Len(Schedule) /\ Top.left = 0
      /\ RestUnchanged /\ UNCHANGED <<fileVars, misread>>
  BY DEF PrintTest, InTest
<1>2. /\ Top \in Processes /\ Printed(Top) /\ Top.t \in 1..(Len(Schedule) + 1)
      /\ Top.buf \in Seq(Nat)
      /\ sigint = "default" => Single(Top)
      /\ sigint = "ignored" => Early(Top)
  BY <1>1, TopIs
<1>3. Top.t \in 1..Len(Schedule) /\ Top.t \in Nat /\ (sigint = "ignored" => Top.t # 5)
  BY <1>1, <1>2, ScheduleRows DEF Early
<1>4. CASE "kbest" \in Fails /\ Exit("kbest")
  BY <1>1, <1>3, <1>4, DeathInv
<1>5. CASE Become([NextTest(Top) EXCEPT !.buf = Append(@, Top.t)]) /\ UNCHANGED fate
  <2>1. PICK r : r = NextTest(Top)
    OBVIOUS
  <2>2. /\ r \in Processes /\ r.t = Top.t + 1 /\ r.left > 0 /\ r.buf = Top.buf /\ r.fds = Top.fds
        /\ r.failed = Top.failed
    BY <1>2, <1>3, <2>1, NextTestIs
  <2>3. Top.t \in Printing
    BY <1>1, <1>2, <1>3 DEF Printing, Printed
  <2>4. /\ {Top.buf[k] : k \in 1..Len(Top.buf)} = {0} \cup {u \in Printing : u < Top.t}
        /\ \A k, l \in 1..Len(Top.buf) : k < l => Top.buf[k] < Top.buf[l]
    BY <1>2 DEF Printed
  <2>5. \A k \in 1..Len(Top.buf) : Top.buf[k] < Top.t
    <3>1. \A k \in 1..Len(Top.buf) : Top.buf[k] \in {0} \cup {u \in Printing : u < Top.t}
      BY <2>4
    <3> QED
      BY <1>3, <3>1
  <2>6. PICK c : c = Append(Top.buf, Top.t)
    OBVIOUS
  <2>7. /\ c \in Seq(Nat)
        /\ {c[k] : k \in 1..Len(c)} = {Top.buf[k] : k \in 1..Len(Top.buf)} \cup {Top.t}
        /\ \A k, l \in 1..Len(c) : k < l => c[k] < c[l]
    BY <1>2, <1>3, <2>4, <2>5, <2>6, RowAppended
  <2>8. PICK q : q = [r EXCEPT !.buf = c] /\ Become(q)
    BY <1>5, <2>1, <2>2, <2>6
  <2>9. /\ q \in Processes /\ q.t = Top.t + 1 /\ q.left > 0 /\ q.buf = c /\ q.fds = Top.fds
        /\ q.failed = Top.failed
    BY <2>2, <2>7, <2>8 DEF Processes
  <2>10. {u \in Printing : u < q.t} = {u \in Printing : u < Top.t} \cup {Top.t}
    <3>1. \A u \in Printing : u < q.t <=> u < Top.t \/ u = Top.t
      <4> SUFFICES ASSUME NEW u \in Printing PROVE u < Top.t + 1 <=> u < Top.t \/ u = Top.t
        BY <2>9
      <4>1. u \in Nat
        BY DEF Printing
      <4> QED
        BY <1>3, <4>1
    <3> QED
      BY <2>3, <3>1
  <2>11. Printed(q)
    BY <2>4, <2>7, <2>9, <2>10 DEF Printed
  <2>12. UNCHANGED <<length, perms, short, misread, fate>>
    BY <1>1, <1>5 DEF fileVars
  <2>13. FilesTyped' /\ length \in Int /\ (sigint = "ignored" => misread' = 0)
    BY <2>12 DEF EvalInv, EvalTypeOK, IgnoredInv, FilesTyped
  <2>14. sigint = "default" => Misread'
    BY <2>12 DEF EvalInv, DefaultInv, Misread, WrittenBeforeUse
  <2>15. sigint = "default" => Single(q)'
    <3>1. sigint = "default" => Wrote(q)'
      BY <1>1, <1>3, <2>9, <2>12, <2>13, WroteNext
    <3> QED
      BY <1>2, <2>9, <3>1 DEF Single
  <2>16. sigint = "ignored" => Early(q) /\ q.t >= Top.t
    BY <1>2, <1>3, <2>9 DEF Early
  <2> QED
    BY <1>1, <2>8, <2>9, <2>11, <2>12, <2>13, <2>14, <2>15, <2>16, BecomeInv
<1> QED
  BY <1>4, <1>5 DEF PrintTest

\* The first n rows of a buffer that holds all rows, in order.
LEMMA Beginning ==
  ASSUME NEW buf \in Seq(Nat), IsTable(buf), NEW n \in 0..(Len(buf) - 1)
  PROVE  /\ SubSeq(buf, 1, n) \in Seq(Nat)
         /\ \E t \in {0} \cup Printing : IsTableUpTo(t, SubSeq(buf, 1, n))
<1> DEFINE head == SubSeq(buf, 1, n)
<1>1. /\ head \in Seq(Nat) /\ Len(head) = n /\ \A k \in 1..n : head[k] = buf[k]
      /\ n + 1 \in 1..Len(buf) /\ \A k \in 1..n : k \in 1..Len(buf)
  <2>1. n \in Nat /\ n + 1 \in 1..Len(buf) /\ \A k \in 1..n : k \in 1..Len(buf)
    OBVIOUS
  <2>2. \A k \in 1..n : buf[k] \in Nat
    BY <2>1
  <2>3. /\ head \in Seq(Nat) /\ Len(head) = IF 1 <= n THEN n - 1 + 1 ELSE 0
        /\ \A k \in 1..(n - 1 + 1) : head[k] = buf[1 + k - 1]
    BY ONLY <2>1, <2>2, SubSeqProperties
  <2>4. n - 1 + 1 = n /\ \A k \in 1..n : 1 + k - 1 = k
    BY ONLY <2>1
  <2> HIDE DEF head
  <2> QED
    BY <2>1, <2>3, <2>4
<1>2. /\ {buf[k] : k \in 1..Len(buf)} = {r \in {0} \cup Printing : r < Len(Schedule) + 1}
      /\ \A k, l \in 1..Len(buf) : k < l => buf[k] < buf[l]
      /\ \A k \in 1..Len(buf) : buf[k] \in Nat
  BY DEF IsTable, IsTableUpTo
<1> HIDE DEF head
<1>3. PICK t \in {0} \cup Printing : t = buf[n + 1] /\ t \in Nat /\ t < Len(Schedule) + 1
  BY <1>1, <1>2
<1>4. ASSUME NEW k \in 1..n PROVE head[k] \in {r \in {0} \cup Printing : r < t}
  <2>1. k < n + 1 /\ k \in 1..Len(buf) /\ n + 1 \in 1..Len(buf)
    BY <1>1
  <2>2. buf[k] < buf[n + 1]
    BY <1>2, <2>1
  <2>3. buf[k] \in {0} \cup Printing
    BY <1>2, <2>1
  <2> QED
    BY <1>1, <1>3, <2>2, <2>3
<1>5. ASSUME NEW r \in {0} \cup Printing, r < t PROVE \E k \in 1..n : head[k] = r
  <2>1. r \in Nat /\ Len(Schedule) + 1 \in Nat
    BY ScheduleRows DEF Printing
  <2>2. PICK k \in 1..Len(buf) : buf[k] = r
    <3>1. r < Len(Schedule) + 1
      BY <1>3, <1>5, <2>1
    <3>2. r \in {buf[k] : k \in 1..Len(buf)}
      BY <1>2, <3>1
    <3> QED
      BY <3>2
  <2>3. k # n + 1
    BY <1>3, <1>5, <2>1, <2>2
  <2>4. ~(n + 1 < k)
    <3>1. n + 1 < k => buf[n + 1] < buf[k]
      BY <1>1, <1>2
    <3>2. ~(t < r)
      BY <1>3, <1>5, <2>1
    <3> QED
      BY <1>3, <2>2, <3>1, <3>2
  <2>5. k \in 1..n
    BY <2>3, <2>4
  <2> QED
    BY <1>1, <2>2, <2>5
<1>6. {head[k] : k \in 1..Len(head)} = {r \in {0} \cup Printing : r < t}
  BY <1>1, <1>4, <1>5
<1>7. \A k, l \in 1..Len(head) : k < l => head[k] < head[l]
  BY <1>1, <1>2
<1>8. IsTableUpTo(t, head)
  BY <1>6, <1>7 DEF IsTableUpTo
<1> QED
  BY <1>1, <1>3, <1>8 DEF head

LEMMA CloseInv ==
  ASSUME EvalInv, Close
  PROVE  EvalInv'
<1>1. /\ stack # <<>> /\ Top.t > Len(Schedule)
      /\ UNCHANGED <<fileVars, sigint, misread>>
  BY DEF Close
<1>2. /\ Printed(Top) /\ Top.t \in 1..(Len(Schedule) + 1) /\ Top.buf \in Seq(Nat)
      /\ sigint = "ignored" => Early(Top)
  BY <1>1, TopIs
<1>3. sigint = "default" /\ Top.t = Len(Schedule) + 1
  BY <1>1, <1>2, ScheduleRows DEF Early, EvalInv, EvalTypeOK
<1>4. acsv = <<>>
  BY <1>1, <1>3 DEF EvalInv, EvalTypeOK, DefaultInv, Leaves
<1>5. {r \in {0} \cup Printing : r < Len(Schedule) + 1} = {0} \cup {u \in Printing : u < Top.t}
  BY <1>3, ScheduleRows
<1>6. IsTable(Top.buf)
  BY <1>2, <1>5 DEF Printed, IsTable, IsTableUpTo
<1>7. CASE acsv' = acsv \o Top.buf /\ Exit("ended")
  <2>1. acsv' = Top.buf
    BY <1>2, <1>4, <1>7
  <2>2. Leaves("ended", acsv')
    BY <1>6, <2>1 DEF Leaves
  <2> QED
    BY <1>1, <1>2, <1>3, <1>7, <2>1, <2>2, ExitInv
<1>8. ASSUME NEW n \in 0..(Len(Top.buf) - 1), acsv' = acsv \o SubSeq(Top.buf, 1, n), Exit("cut")
      PROVE  EvalInv'
  <2>1. /\ SubSeq(Top.buf, 1, n) \in Seq(Nat)
        /\ \E t \in {0} \cup Printing : IsTableUpTo(t, SubSeq(Top.buf, 1, n))
    BY <1>2, <1>6, Beginning
  <2>2. acsv' = SubSeq(Top.buf, 1, n)
    BY <1>4, <1>8, <2>1
  <2>3. Leaves("cut", acsv') /\ acsv' \in Seq(Nat)
    BY <2>1, <2>2 DEF Leaves
  <2> QED
    BY <1>1, <1>3, <1>8, <2>3, ExitInv
<1> QED
  BY <1>7, <1>8 DEF Close

\* Nothing was written when a call hangs in accept.
LEMMA HangInv ==
  ASSUME EvalInv, Hang
  PROVE  EvalInv'
<1>1. /\ UNCHANGED <<length, perms, short, sigint, acsv, misread>>
      /\ fate' = "hung" /\ stack' = <<>> /\ Len(stack') = 0 /\ stack # <<>>
  BY DEF Hang, RestUnchanged, fileVars, In, InTest
<1>2. fate = "runs" /\ EvalTypeOK'
  BY <1>1 DEF EvalInv, EvalTypeOK
<1>3. DefaultInv'
  BY <1>1, <1>2 DEF EvalInv, DefaultInv, Leaves, Misread, WrittenBeforeUse
<1>4. IgnoredInv'
  BY <1>1 DEF EvalInv, IgnoredInv
<1> QED
  BY <1>1, <1>2, <1>3, <1>4 DEF EvalInv

LEMMA EvalInitial == Init => EvalInv
<1> SUFFICES ASSUME Init PROVE EvalInv
  OBVIOUS
<1>1. /\ length \in Int /\ length >= Absent /\ perms \subseteq {"r", "w"} /\ short = 0
      /\ misread = 0 /\ sigint \in {"default", "ignored"} /\ acsv = <<>>
  BY DEF Init, FilesInit, Absent
<1>2. Misread \/ fate = "mapping"
  BY <1>1 DEF Misread, WrittenBeforeUse
<1>3. CASE fate = "no_acsv" /\ stack = <<>>
  BY <1>1, <1>2, <1>3 DEF EvalInv, EvalTypeOK, DefaultInv, IgnoredInv, Leaves
<1>4. ASSUME NEW p, p = [t |-> 1, left |-> 1, buf |-> <<0>>, fds |-> 4, failed |-> 0],
             fate = "runs", stack = <<p>>
      PROVE  EvalInv
  <2>1. p \in Processes /\ p.t = 1 /\ p.left = 1 /\ p.buf = <<0>> /\ p.fds = 4 /\ p.failed = 0
    BY <1>4, ScheduleRows DEF Processes
  <2>2. stack \in Seq(Processes) /\ Len(stack) = 1 /\ stack[1] = p /\ stack # <<>>
    BY <1>4, <2>1
  <2>3. Printed(p)
    <3>1. \A u \in Printing : ~(u < 1)
      BY DEF Printing
    <3>2. Len(p.buf) = 1 /\ p.buf[1] = 0
      BY <2>1
    <3>3. {p.buf[k] : k \in 1..Len(p.buf)} = {0}
      BY <3>2
    <3> QED
      BY <2>1, <3>1, <3>2, <3>3 DEF Printed
  <2>4. Single(p)
    BY <2>1 DEF Single, Wrote
  <2>5. Early(p)
    BY <2>1 DEF Early
  <2> QED
    BY <1>1, <1>2, <1>4, <2>2, <2>3, <2>4, <2>5
      DEF EvalInv, EvalTypeOK, DefaultInv, IgnoredInv, Leaves
<1> QED
  BY <1>3, <1>4 DEF Init

LEMMA EvalInvariance == Spec => []EvalInv
<1>1. EvalInv /\ [Next]_vars => EvalInv'
  <2> SUFFICES ASSUME EvalInv, [Next]_vars PROVE EvalInv'
    OBVIOUS
  <2>1. CASE UNCHANGED vars
    <3>1. UNCHANGED <<length, perms, short, stack, sigint, acsv, fate, misread>>
      BY <2>1 DEF vars, fileVars
    <3>2. EvalTypeOK' /\ IgnoredInv'
      BY <3>1 DEF EvalInv, EvalTypeOK, IgnoredInv, Early
    <3>3. Misread' <=> Misread
      BY <3>1 DEF Misread, WrittenBeforeUse
    <3>4. ASSUME NEW k \in 1..Len(stack)
          PROVE  /\ Single(stack[k])' <=> Single(stack[k])
                 /\ Printed(stack[k])' <=> Printed(stack[k])
      BY <3>1 DEF Single, Wrote, Printed
    <3>5. DefaultInv'
      BY <3>1, <3>3, <3>4 DEF EvalInv, DefaultInv
    <3> QED
      BY <3>1, <3>2, <3>4, <3>5 DEF EvalInv
  <2>2. CASE Go
    BY <2>2, QuietRounds, ThreadInv, SelectInv, WriteInv, ReadWarmupInv, ReadInv, MunmapInv,
       PageFaultInv, ForkRoundInv, ForkCopyInv, PrintTestInv, CloseInv DEF Go
  <2>3. CASE ForkFails
    BY <2>3, ForkFailsInv
  <2>4. CASE Hang
    BY <2>4, HangInv
  <2> QED
    BY <2>1, <2>2, <2>3, <2>4 DEF Next
<1> QED
  BY <1>1, EvalInitial, PTL DEF Spec
-------------------------------------------------------------------------------
\* The processes of os_eval and the file they share are what the code takes
\* them for: in particular no process goes past the end of the schedule.
THEOREM ScheduleIsTyped == Spec => []EvalTypeOK
<1>1. EvalInv => EvalTypeOK
  BY DEF EvalInv
<1> QED
  BY <1>1, EvalInvariance, PTL

\* OneTableOrNone: a.csv is empty until the first process ends, and then one table,
\* or the beginning of one where the disk was full.
THEOREM WholeTable == Spec => []OneTableOrNone
<1>1. EvalInv => OneTableOrNone
  <2> SUFFICES ASSUME EvalInv PROVE OneTableOrNone
    OBVIOUS
  <2>1. CASE sigint = "default"
    BY <2>1 DEF EvalInv, DefaultInv, Leaves, OneTableOrNone
  <2>2. CASE sigint = "ignored"
    BY <2>2 DEF EvalInv, IgnoredInv, OneTableOrNone
  <2> QED
    BY <2>1, <2>2 DEF EvalInv, EvalTypeOK
<1> QED
  BY <1>1, EvalInvariance, PTL

\* WrittenBeforeUse: a timed read is short, or a mapping fatal, only after a write was cut short
\* or without permission.
THEOREM WritesComeFirst == Spec => []WrittenBeforeUse
<1>1. EvalInv => WrittenBeforeUse
  <2> SUFFICES ASSUME EvalInv PROVE WrittenBeforeUse
    OBVIOUS
  <2>1. CASE sigint = "default"
    BY <2>1 DEF EvalInv, DefaultInv, Misread
  <2>2. CASE sigint = "ignored"
    BY <2>2 DEF EvalInv, IgnoredInv, WrittenBeforeUse
  <2> QED
    BY <2>1, <2>2 DEF EvalInv, EvalTypeOK
<1> QED
  BY <1>1, EvalInvariance, PTL

\* SelectFits: five forks that failed leave room for the sockets of the big select.
THEOREM SelectHasRoom ==
  ASSUME NoFile >= 1024, SetSize >= 1024
  PROVE  Spec => []SelectFits
<1>1. EvalInv => SelectFits
  <2> SUFFICES ASSUME EvalInv, InTest, Now.f = "select", sigint = "default", Top.failed <= 5
               PROVE  ~SetOverflows(Top.fds, Now.n)
    BY DEF SelectFits
  <2>1. stack # <<>> /\ Top.t <= Len(Schedule) /\ Now = Schedule[Top.t]
    BY DEF InTest, Now
  <2>2. /\ Top.t \in 1..(Len(Schedule) + 1) /\ Top.fds \in Nat /\ Top.failed \in Nat
        /\ Top.fds <= 4 + 4 * Top.failed
    BY <2>1, TopIs DEF Single
  <2>3. Top.t \in 1..Len(Schedule)
    BY <2>1, <2>2, ScheduleRows
  <2>4. Now.n \in Nat /\ Now.n <= 1000
    BY <2>1, <2>3, ScheduleRows
  <2>5. Top.fds + Now.n <= 1024
    BY <2>2, <2>4
  <2>6. NoFile \in Nat /\ SetSize \in Nat
    BY OsEvalAssumption
  <2>7. Min({NoFile, SetSize}) >= 1024 /\ Min({NoFile, SetSize}) \in Nat
    BY <2>6, MinOfTwo
  <2> QED
    BY <2>2, <2>4, <2>5, <2>7 DEF SetOverflows
<1> QED
  BY <1>1, EvalInvariance, PTL

\* A behaviour of both halves of os_eval.cpp is one of the schedule, with its
\* fairness, and one of the statistics of a test: what is proved of either holds
\* of the run that checks them.
THEOREM EvalsAreRuns == EvalSpec => FairSpec /\ OsStatsSpec
<1>1. EvalInit => Init /\ OsStatsInit
  BY DEF EvalInit
<1>2. ASSUME [EvalNext]_<<side, vars, stats>>
      PROVE  [Next]_vars /\ [OsStatsNext]_stats
  BY <1>2 DEF EvalNext
<1> QED
  BY <1>1, <1>2, PTL DEF EvalSpec, FairSpec, Spec, OsStatsSpec
===============================================================================
