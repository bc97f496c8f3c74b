------------------------------ MODULE Aggregate -------------------------------
(***************************************************************************)
(* aggregate of lib/utils.c: mean, standard deviation and extremes of the  *)
(* measured times, computed again and again without the times that lie     *)
(* three or more standard deviations from the mean of the pass before.     *)
(*                                                                         *)
(* All decisions depend on the value of a time only, so the array is a bag *)
(* of integers (times[v] measurements of v).  A pass is summed up by the   *)
(* number n, the sum s and the sum of squares q of the times it kept: its  *)
(* mean is s/n and its variance (n*q - s*s) / n^2, and the tests of the    *)
(* code, which it makes with rounding, are made here on these fractions.   *)
(***************************************************************************)
EXTENDS Integers, FiniteSetsExt

CONSTANTS Values,     \* the times that may be measured
          MaxCount,   \* measurements of each, at most
          MAX_ITER,   \* passes
          TOLERANCE,  \* standard deviations a time may be off the mean
          Fine        \* 1 / 1e-3, where the code takes mean or deviation for 0

ASSUME AggregateAssumption ==
  /\ Values \subseteq Int /\ IsFiniteSet(Values) /\ MaxCount \in Nat
  /\ {MAX_ITER, TOLERANCE, Fine} \subseteq Nat \ {0}

VARIABLES
  times,   \* the data
  stage,   \* "pass"; "settled" (break of l. 139), "noise" (l. 125), "cut" (loop over)
  iter,
  stats,   \* _avg and _stddev: n, s and q of the last pass
  kept,    \* the values the last pass kept
  lo, hi,  \* *min and *max
  changed  \* "changed" as the loop tests it: "yes" or "no"

aggregateVars == <<times, stage, iter, stats, kept, lo, hi, changed>>

Present == {v \in Values : times[v] > 0}

Summary(S) ==
  [n |-> SumFunctionOnSet(times, S),
   s |-> SumFunctionOnSet([v \in Values |-> times[v] * v], S),
   q |-> SumFunctionOnSet([v \in Values |-> times[v] * v * v], S)]

Spread(st) == st.n * st.q - st.s * st.s  \* n^2 times the variance

AggregateInit ==
  /\ times \in [Values -> 0..MaxCount]
  /\ stage = "pass" /\ iter = 0 /\ kept = {} /\ stats = Summary({})
  /\ lo = 0 /\ hi = 0 /\ changed = "yes"
-------------------------------------------------------------------------------
\* Variants of operations below, as plausible mistakes would write them.
WithinFirstDeviation(v, st) ==
  LET off == v * st.n - st.s
      all == Summary(Present)
  IN  (off * off) \div (st.n * st.n)
        < (TOLERANCE * TOLERANCE * Spread(all)) \div (all.n * all.n)

\* |v - mean| < TOLERANCE * deviation, squared and times n^2.
Within(v, st) ==
  LET off == v * st.n - st.s IN off * off < TOLERANCE * TOLERANCE * Spread(st)

\* The times that a pass keeps: the first one keeps them all.
Keeps == {v \in Present : iter = 0 \/ Within(v, stats)}

\* _avg < 1e-3 || _stddev / _avg < 1e-3, the latter squared and divided out so
\* that the numbers stay small: Fine^2 * Spread < s^2.
Settled(st) ==
  Fine * st.s < st.n \/ Spread(st) <= (st.s * st.s - 1) \div (Fine * Fine)

Looping == stage = "pass" /\ iter < MAX_ITER /\ changed = "yes"

Noise ==
  /\ Looping /\ Keeps = {}
  /\ stage' = "noise"
  /\ UNCHANGED <<times, iter, stats, kept, lo, hi, changed>>

\* A pass that saves st, has the extremes of S, and threw out the times out.
PassTo(st, S, out) ==
  /\ Looping /\ Keeps # {}
  /\ kept' = Keeps /\ stats' = st /\ lo' = Min(S) /\ hi' = Max(S)
  /\ IF Settled(st)
     THEN stage' = "settled" /\ UNCHANGED iter
     ELSE iter' = iter + 1 /\ UNCHANGED stage
  /\ changed' = (IF iter = 0 \/ out # {} THEN "yes" ELSE "no")
  /\ UNCHANGED times

\* Further variants.
PassNoticesNothing == PassTo(Summary(Keeps), Keeps, {})
PassCountsAll ==
  PassTo([Summary(Keeps) EXCEPT !.n = Summary(Present).n], Keeps, Present \ Keeps)

Pass == PassTo(Summary(Keeps), Keeps, Present \ Keeps)

LoopOver ==
  /\ stage = "pass" /\ ~Looping
  /\ stage' = "cut"
  /\ UNCHANGED <<times, iter, stats, kept, lo, hi, changed>>

AggregateNext == Noise \/ Pass \/ LoopOver

AggregateSpec == AggregateInit /\ [][AggregateNext]_aggregateVars
-------------------------------------------------------------------------------
Done == stage # "pass"

\* What is reported is of one set of times: mean and deviation are those of
\* the times kept, and the extremes bound the mean.  "Too much noise!" (l. 121),
\* after which they would be of two passes, is printed of an empty array only.
ResultsAgree ==
  Done /\ Present # {} =>
    /\ stage # "noise"
    /\ stats = Summary(kept) /\ lo = Min(kept) /\ hi = Max(kept)
    /\ lo * stats.n <= stats.s /\ stats.s <= hi * stats.n

\* A time once thrown out does not come back in a later pass.
NeverKeptAgain == [][iter > 0 => kept' \subseteq kept]_aggregateVars

\* Fewer different times than passes are enough to converge: the mean and the
\* deviation reported leave out exactly the times they are themselves far from.
FewTimesConverge ==
  stage = "cut" /\ Present # {} /\ Cardinality(Present) < MAX_ITER =>
    kept = {v \in Present : Within(v, stats)}
===============================================================================
