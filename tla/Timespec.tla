------------------------------- MODULE Timespec -------------------------------
(***************************************************************************)
(* The arithmetic of lib/os_eval.cpp on struct timespec: seconds and       *)
(* nanoseconds, with a carry or a borrow between them.  NS stands for the  *)
(* 1000000000 of the code; both fields are 64 bits wide, far from          *)
(* overflow for the readings of a monotonic clock.                         *)
(***************************************************************************)
EXTENDS Integers

CONSTANT NS

ASSUME NSAssumption == NS \in Nat \ {0}

Timespecs == [sec : Int, nsec : Int]
Stamp(s, n) == [sec |-> s, nsec |-> n]
Zero == Stamp(0, 0)

Value(t) == t.sec * NS + t.nsec
Normal(t) == t.nsec \in 0..(NS - 1)
Recorded(t) == t \in [sec : Nat, nsec : 0..(NS - 1)]

\* What clock_gettime answers at a time given in nanoseconds.
Reading(n) == Stamp(n \div NS, n % NS)
-------------------------------------------------------------------------------
\* A variant of CalcAverage that drops the remainder of the seconds.
CalcAverageOfParts(sum, size) == Stamp(sum.sec \div size, sum.nsec \div size)

\* Adds the difference a - b to result.
AddDiffToSum(result, a, b) ==
  LET s == result.sec + a.sec - b.sec
      n == result.nsec + a.nsec - b.nsec
  IN  CASE n < 0 -> Stamp(s - 1, n + NS)
        [] n >= NS -> Stamp(s + 1, n - NS)
        [] OTHER -> Stamp(s, n)

\* One iteration of calc_sum and of calc_sum2, which differ in the type of the
\* array only.
Plus(sum, t) ==
  IF t.nsec >= NS - sum.nsec
  THEN Stamp(sum.sec + 1 + t.sec, t.nsec - (NS - sum.nsec))
  ELSE Stamp(sum.sec + t.sec, sum.nsec + t.nsec)

CalcAverage(sum, size) ==
  IF size = 0 THEN Zero
  ELSE Stamp(sum.sec \div size, sum.nsec \div size + ((sum.sec % size) * NS) \div size)

CalcDiff(smaller, bigger) ==
  IF smaller.nsec > bigger.nsec
  THEN Stamp(bigger.sec - 1 - smaller.sec, NS + bigger.nsec - smaller.nsec)
  ELSE Stamp(bigger.sec - smaller.sec, bigger.nsec - smaller.nsec)

\* comp(t1, t2) <= 0
NotAfter(t1, t2) == t1.sec < t2.sec \/ (t1.sec = t2.sec /\ t1.nsec <= t2.nsec)
===============================================================================
