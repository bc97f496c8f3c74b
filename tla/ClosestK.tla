------------------------------- MODULE ClosestK -------------------------------
(***************************************************************************)
(* closest_k of lib/utils.c: sort the measured times, then look for the    *)
(* first K adjacent pairs in a row that differ by less than IMPRECISION of *)
(* the larger one, and return the smallest time of that run.               *)
(*                                                                         *)
(* Times are integers (of some unit), arrays are functions on 0..size-1,   *)
(* and the answer is the index that the code reads: the value is not       *)
(* enough to tell a result from a read outside of the array.               *)
(***************************************************************************)
EXTENDS Integers

CONSTANTS Times,     \* the times that may be measured
          MaxSize,   \* the longest array
          K,         \* CLOSEST_K
          Precision  \* 1 / IMPRECISION

ASSUME ClosestAssumption ==
  /\ Times \subseteq Int /\ MaxSize \in Nat
  /\ K \in Nat \ {0} /\ Precision \in Nat \ {0}

VARIABLES
  data, size,  \* the array and its length
  pc,          \* "enter", "scan", "found" and "missed" (both ways out), "none" (NAN)
  cont_cnt,    \* close pairs in a row
  idx,
  answer       \* index of the element returned

vars == <<data, size, pc, cont_cnt, idx, answer>>

Indices(n) == 0..(n - 1)

\* fabs(b - a) / b < IMPRECISION for a <= b: the quotient of a negative b is
\* not positive, that of b = 0 infinite or not a number.
Near(a, b) == b < 0 \/ (b > 0 /\ Precision * (b - a) < b)

Init ==
  /\ size \in 0..MaxSize /\ data \in [Indices(size) -> Times]
  /\ pc = "enter" /\ cont_cnt = 0 /\ idx = 0 /\ answer = 0
-------------------------------------------------------------------------------
Permutations == [n \in 0..MaxSize |->
  {p \in [Indices(n) -> Indices(n)] : \A i \in Indices(n) : \E j \in Indices(n) : p[j] = i}]

\* Variants of operations below, as plausible mistakes would write them.
InterruptKeepsCount ==
  /\ pc = "scan" /\ idx < size /\ ~Near(data[idx - 1], data[idx])
  /\ idx' = idx + 1
  /\ UNCHANGED <<data, size, pc, cont_cnt, answer>>
MissedBeforeLast ==
  /\ pc = "scan" /\ idx >= size - 1
  /\ answer' = idx - cont_cnt /\ pc' = "missed"
  /\ UNCHANGED <<data, size, cont_cnt, idx>>

Sorted(d, n) == \A i, j \in Indices(n) : i <= j => d[i] <= d[j]

\* qsort orders the array, whatever the order of equal elements.
Sort ==
  /\ pc = "enter" /\ size > 1
  /\ \E p \in Permutations[size] : data' = [i \in Indices(size) |-> data[p[i]]]
  /\ Sorted(data', size)
  /\ idx' = 1 /\ pc' = "scan"
  /\ UNCHANGED <<size, cont_cnt, answer>>

TooShort ==
  /\ pc = "enter" /\ size <= 1
  /\ pc' = (IF size = 0 THEN "none" ELSE "found")
  /\ UNCHANGED <<data, size, cont_cnt, idx, answer>>

Extend ==
  /\ pc = "scan" /\ idx < size /\ Near(data[idx - 1], data[idx]) /\ cont_cnt + 1 # K
  /\ cont_cnt' = cont_cnt + 1 /\ idx' = idx + 1
  /\ UNCHANGED <<data, size, pc, answer>>

Found ==
  /\ pc = "scan" /\ idx < size /\ Near(data[idx - 1], data[idx]) /\ cont_cnt + 1 = K
  /\ cont_cnt' = cont_cnt + 1 /\ answer' = idx - cont_cnt' /\ pc' = "found"
  /\ UNCHANGED <<data, size, idx>>

Interrupt ==
  /\ pc = "scan" /\ idx < size /\ ~Near(data[idx - 1], data[idx])
  /\ cont_cnt' = 0 /\ idx' = idx + 1
  /\ UNCHANGED <<data, size, pc, answer>>

\* "Only found %lu closest": what is left of the run at the end of the array.
Missed ==
  /\ pc = "scan" /\ idx >= size
  /\ answer' = idx - cont_cnt /\ pc' = "missed"
  /\ UNCHANGED <<data, size, cont_cnt, idx>>

Next == Sort \/ TooShort \/ Extend \/ Found \/ Interrupt \/ Missed

Spec == Init /\ [][Next]_vars
-------------------------------------------------------------------------------
\* k close pairs in a row, from index i on.
Run(i, k) == \A j \in i..(i + k - 1) : Near(data[j], data[j + 1])
Runs == {i \in 0..(size - 1 - K) : Run(i, K)}

\* Types; the counts stay within the array.
TypeOK ==
  /\ size \in 0..MaxSize /\ data \in [Indices(size) -> Times]
  /\ pc \in {"enter", "scan", "found", "missed", "none"}
  /\ cont_cnt \in 0..K /\ idx \in Nat /\ cont_cnt <= idx /\ answer \in Nat

\* A time returned from the loop (line 179) starts the first run of K close
\* pairs of the sorted array, and lies in the array with its whole run.
FirstRunFound ==
  pc = "found" /\ size > 1 =>
    answer \in Runs /\ \A i \in Runs : answer <= i

\* The warning of line 187 is printed only if there is no run of K close pairs.
MissedOnlyWithoutRun == pc = "missed" => Runs = {}

\* A time other than zero that was measured K + 1 times is never missed,
\* wherever in the array its measurements were.
RepeatedTimesFound ==
  pc = "missed" =>
    \A i \in 0..(size - 1 - K) : data[i] = data[i + K] => data[i] = 0

\* "Only found %lu closest" (line 187): the time returned with this warning
\* starts the cont_cnt close pairs it speaks of.
WarnedRunReturned ==
  pc = "missed" => answer + cont_cnt < size /\ Run(answer, cont_cnt)
===============================================================================
