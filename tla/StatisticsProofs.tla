--------------------------- MODULE StatisticsProofs ---------------------------
(***************************************************************************)
(* What collect_results reports, for every array.                          *)
(*                                                                         *)
(* closest_k, for every array of integers, every K and every precision:    *)
(* the scan keeps two facts, that the last cont_cnt pairs before idx are   *)
(* close (and the pair before them, if any, is not), and that no run of K  *)
(* close pairs ends before idx.                                            *)
(*                                                                         *)
(* aggregate, for every bag of integers: a pass is never wider than the    *)
(* one before, since a time that lies TOLERANCE deviations off the mean of *)
(* a set, with TOLERANCE >= 2, lies as far off that of what the pass keeps *)
(* of the set (StaysOut).  The facts about sums that this takes are proved *)
(* by induction over finite sets, as the absence of a least counterexample *)
(* (LeastSet).                                                             *)
(***************************************************************************)
EXTENDS Statistics, FiniteSetTheorems, WellFoundedInduction, TLAPS

\* The cont_cnt pairs that end at idx - 1 are close, and no further one is.
Trail ==
  pc = "scan" =>
    /\ size > 1 /\ idx \in 1..size /\ cont_cnt < K /\ cont_cnt <= idx - 1
    /\ Run(idx - 1 - cont_cnt, cont_cnt)
    /\ cont_cnt < idx - 1 => ~Near(data[idx - 2 - cont_cnt], data[idx - 1 - cont_cnt])

\* No run of K close pairs lies within the first idx elements.
NoneYet == pc = "scan" => \A i \in 0..(idx - 1 - K) : ~Run(i, K)

EnterClean == pc = "enter" => cont_cnt = 0

Ordered == pc \in {"scan", "missed"} => Sorted(data, size)

IInv ==
  /\ TypeOK /\ Trail /\ NoneYet /\ EnterClean /\ Ordered
  /\ FirstRunFound /\ MissedOnlyWithoutRun
-------------------------------------------------------------------------------
LEMMA InvInit == Init => IInv
<1> SUFFICES ASSUME Init PROVE IInv
  OBVIOUS
<1>1. size \in Nat
  BY ClosestAssumption DEF Init
<1> QED
  BY <1>1, ClosestAssumption
  DEF Init, IInv, TypeOK, Trail, EnterClean, NoneYet, Ordered, FirstRunFound, MissedOnlyWithoutRun

\* Sorting permutes the array: its elements stay times.
LEMMA SortInv == IInv /\ Sort => IInv'
<1> SUFFICES ASSUME IInv, Sort PROVE IInv'
  OBVIOUS
<1>1. size \in Nat /\ size > 1 /\ cont_cnt \in Nat
  BY ClosestAssumption DEF IInv, TypeOK, Sort
<1>2. PICK p \in Permutations[size] : data' = [i \in Indices(size) |-> data[p[i]]]
  BY DEF Sort
<1>3. p \in [Indices(size) -> Indices(size)]
  BY <1>2 DEF Permutations, IInv, TypeOK
<1>4. data' \in [Indices(size) -> Times]
  BY <1>2, <1>3 DEF IInv, TypeOK
<1>5. cont_cnt = 0
  BY DEF IInv, EnterClean, Sort
<1>6. TypeOK'
  BY <1>1, <1>4, <1>5, ClosestAssumption DEF IInv, TypeOK, Sort
<1>7. (Trail /\ NoneYet)'
  BY <1>1, <1>5, ClosestAssumption DEF Trail, NoneYet, Sort, Run
<1>8. (EnterClean /\ Ordered /\ FirstRunFound /\ MissedOnlyWithoutRun)'
  BY DEF Sort, EnterClean, Ordered, FirstRunFound, MissedOnlyWithoutRun
<1> QED
  BY <1>6, <1>7, <1>8 DEF IInv

LEMMA TooShortInv == IInv /\ TooShort => IInv'
<1> SUFFICES ASSUME IInv, TooShort PROVE IInv'
  OBVIOUS
<1>1. size \in Nat /\ size <= 1
  BY ClosestAssumption DEF IInv, TypeOK, TooShort
<1> QED
  BY <1>1 DEF IInv, TypeOK, Trail, NoneYet, Ordered, EnterClean, FirstRunFound,
    MissedOnlyWithoutRun, TooShort

\* What the three steps of the scan start from.
LEMMA Scanning ==
  ASSUME IInv, pc = "scan"
  PROVE  /\ size \in Nat /\ idx \in 1..size /\ cont_cnt \in 0..(K - 1) /\ cont_cnt <= idx - 1
         /\ K \in Nat \ {0}
         /\ \A j \in (idx - 1 - cont_cnt)..(idx - 2) : Near(data[j], data[j + 1])
         /\ cont_cnt < idx - 1 => ~Near(data[idx - 2 - cont_cnt], data[idx - 1 - cont_cnt])
         /\ \A i \in 0..(idx - 1 - K) : ~Run(i, K)
<1>1. size \in Nat /\ idx \in 1..size /\ cont_cnt \in 0..(K - 1) /\ cont_cnt <= idx - 1
  BY ClosestAssumption DEF IInv, TypeOK, Trail
<1>2. (idx - 1 - cont_cnt) + cont_cnt - 1 = idx - 2
  BY <1>1, ClosestAssumption
<1> QED
  BY <1>1, <1>2, ClosestAssumption DEF IInv, Trail, NoneYet, Run

LEMMA ExtendInv == IInv /\ Extend => IInv'
<1> SUFFICES ASSUME IInv, Extend PROVE IInv'
  OBVIOUS
<1>1. pc = "scan" /\ pc' = "scan" /\ idx < size /\ Near(data[idx - 1], data[idx])
      /\ cont_cnt + 1 # K /\ cont_cnt' = cont_cnt + 1 /\ idx' = idx + 1
      /\ data' = data /\ size' = size
  BY DEF Extend
<1>2. size > 1
  BY <1>1 DEF IInv, Trail
<1>3. TypeOK'
  BY <1>1, Scanning DEF IInv, TypeOK, Extend
<1>4. Trail'
  <2>1. \A j \in (idx' - 1 - cont_cnt')..((idx' - 1 - cont_cnt') + cont_cnt' - 1) :
          Near(data[j], data[j + 1])
    <3> TAKE j \in (idx' - 1 - cont_cnt')..((idx' - 1 - cont_cnt') + cont_cnt' - 1)
    <3>1. j \in (idx - 1 - cont_cnt)..(idx - 2) \/ (j = idx - 1 /\ j + 1 = idx)
      BY <1>1, Scanning
    <3> QED
      BY <1>1, <3>1, Scanning
  <2>2. cont_cnt' < idx' - 1 =>
          ~Near(data[idx' - 2 - cont_cnt'], data[idx' - 1 - cont_cnt'])
    <3>1. idx' - 2 - cont_cnt' = idx - 2 - cont_cnt /\ idx' - 1 - cont_cnt' = idx - 1 - cont_cnt
      BY <1>1, Scanning
    <3> QED
      BY <1>1, <3>1, Scanning
  <2>3. idx' \in 1..size /\ cont_cnt' < K /\ cont_cnt' <= idx' - 1
    BY <1>1, Scanning
  <2> QED
    BY <1>1, <1>2, <2>1, <2>2, <2>3 DEF Trail, Run
<1>5. NoneYet'
  <2> SUFFICES ASSUME NEW i \in 0..(idx' - 1 - K) PROVE ~Run(i, K)
    BY <1>1 DEF NoneYet, Run
  <2>1. CASE i \in 0..(idx - 1 - K)
    BY <2>1, <1>1, Scanning
  <2>2. CASE i = idx - K
    <3>1. idx - 2 - cont_cnt \in i..(i + K - 1) /\ cont_cnt < idx - 1
      BY <1>1, <2>2, Scanning
    <3>2. (idx - 2 - cont_cnt) + 1 = idx - 1 - cont_cnt
      BY Scanning, <1>1
    <3> QED
      BY <1>1, <3>1, <3>2, Scanning DEF Run
  <2> QED
    BY <1>1, <2>1, <2>2, Scanning
<1>6. (EnterClean /\ Ordered /\ FirstRunFound /\ MissedOnlyWithoutRun)'
  BY <1>1 DEF IInv, EnterClean, Ordered, FirstRunFound, MissedOnlyWithoutRun
<1> QED
  BY <1>3, <1>4, <1>5, <1>6 DEF IInv

LEMMA FoundInv == IInv /\ Found => IInv'
<1> SUFFICES ASSUME IInv, Found PROVE IInv'
  OBVIOUS
<1>1. pc = "scan" /\ pc' = "found" /\ idx < size /\ Near(data[idx - 1], data[idx])
      /\ cont_cnt + 1 = K /\ cont_cnt' = K /\ answer' = idx - K /\ idx' = idx
      /\ data' = data /\ size' = size
  BY DEF Found
<1>2. answer' \in 0..(size - 1 - K) /\ Run(answer', K)
  <2>1. ASSUME NEW j \in answer'..(answer' + K - 1) PROVE Near(data[j], data[j + 1])
    <3>1. j \in (idx - 1 - cont_cnt)..(idx - 2) \/ (j = idx - 1 /\ j + 1 = idx)
      BY <1>1, Scanning
    <3> QED
      BY <1>1, <3>1, Scanning
  <2> QED
    BY <1>1, <2>1, Scanning DEF Run
<1>3. ASSUME NEW i \in 0..(size - 1 - K), Run(i, K) PROVE answer' <= i
  BY <1>1, <1>3, Scanning
<1>4. FirstRunFound'
  BY <1>1, <1>2, <1>3 DEF FirstRunFound, Runs, Run
<1>5. TypeOK'
  BY <1>1, Scanning DEF IInv, TypeOK, Found
<1> QED
  BY <1>1, <1>4, <1>5 DEF IInv, Trail, NoneYet, EnterClean, Ordered, MissedOnlyWithoutRun

LEMMA InterruptInv == IInv /\ Interrupt => IInv'
<1> SUFFICES ASSUME IInv, Interrupt PROVE IInv'
  OBVIOUS
<1>1. pc = "scan" /\ pc' = "scan" /\ idx < size /\ ~Near(data[idx - 1], data[idx])
      /\ cont_cnt' = 0 /\ idx' = idx + 1 /\ data' = data /\ size' = size
  BY DEF Interrupt
<1>2. size > 1
  BY <1>1 DEF IInv, Trail
<1>3. TypeOK'
  BY <1>1, Scanning DEF IInv, TypeOK, Interrupt
<1>4. Trail'
  <2>1. idx' - 1 = idx /\ idx' - 2 = idx - 1 /\ idx' \in 1..size
    BY <1>1, Scanning
  <2>2. \A j \in idx..(idx - 1) : Near(data[j], data[j + 1])
    BY Scanning, <1>1
  <2> QED
    BY <1>1, <1>2, <2>1, <2>2, Scanning DEF Trail, Run
<1>5. NoneYet'
  <2> SUFFICES ASSUME NEW i \in 0..(idx' - 1 - K) PROVE ~Run(i, K)
    BY <1>1 DEF NoneYet, Run
  <2>1. CASE i \in 0..(idx - 1 - K)
    BY <2>1, <1>1, Scanning
  <2>2. CASE i = idx - K
    <3>1. idx - 1 \in i..(i + K - 1) /\ (idx - 1) + 1 = idx
      BY <1>1, <2>2, Scanning
    <3> QED
      BY <1>1, <3>1 DEF Run
  <2> QED
    BY <1>1, <2>1, <2>2, Scanning
<1>6. (EnterClean /\ Ordered /\ FirstRunFound /\ MissedOnlyWithoutRun)'
  BY <1>1 DEF IInv, EnterClean, Ordered, FirstRunFound, MissedOnlyWithoutRun
<1> QED
  BY <1>3, <1>4, <1>5, <1>6 DEF IInv

LEMMA MissedInv == IInv /\ Missed => IInv'
<1> SUFFICES ASSUME IInv, Missed PROVE IInv'
  OBVIOUS
<1>1. pc = "scan" /\ pc' = "missed" /\ idx >= size /\ answer' = idx - cont_cnt
      /\ data' = data /\ size' = size /\ cont_cnt' = cont_cnt /\ idx' = idx
  BY DEF Missed
<1>2. idx = size
  BY <1>1, Scanning
<1>3. MissedOnlyWithoutRun'
  BY <1>1, <1>2, Scanning DEF MissedOnlyWithoutRun, Runs, Run
<1>4. TypeOK'
  BY <1>1, Scanning DEF IInv, TypeOK
<1>5. Ordered'
  BY <1>1 DEF IInv, Ordered, Sorted
<1> QED
  BY <1>1, <1>3, <1>4, <1>5 DEF IInv, Trail, NoneYet, EnterClean, FirstRunFound

LEMMA Invariance == Spec => []IInv
<1>1. IInv /\ UNCHANGED vars => IInv'
  BY DEF IInv, TypeOK, Trail, NoneYet, EnterClean, Ordered, Sorted, FirstRunFound,
    MissedOnlyWithoutRun, Runs, Run, vars
<1>2. IInv /\ [Next]_vars => IInv'
  BY <1>1, SortInv, TooShortInv, ExtendInv, FoundInv, InterruptInv, MissedInv DEF Next
<1> QED
  BY InvInit, <1>2, PTL DEF Spec
-------------------------------------------------------------------------------
\* In every execution the counters of closest_k stay within their array.
THEOREM TypeCorrect == Spec => []TypeOK
<1>1. IInv => TypeOK
  BY DEF IInv
<1> QED
  BY Invariance, <1>1, PTL

\* A time returned from the loop starts the first run of K close pairs.
THEOREM FirstFound == Spec => []FirstRunFound
<1>1. IInv => FirstRunFound
  BY DEF IInv
<1> QED
  BY Invariance, <1>1, PTL

\* The warning is printed only if there is no run of K close pairs.
THEOREM NoneMissed == Spec => []MissedOnlyWithoutRun
<1>1. IInv => MissedOnlyWithoutRun
  BY DEF IInv
<1> QED
  BY Invariance, <1>1, PTL

\* A time other than zero measured K + 1 times is found: in a sorted array its
\* measurements are neighbours, and equal times other than zero are near.
THEOREM RepeatedFound == Spec => []RepeatedTimesFound
<1>1. IInv => RepeatedTimesFound
  <2> SUFFICES ASSUME IInv, pc = "missed",
                      NEW i \in 0..(size - 1 - K), data[i] = data[i + K], data[i] # 0
               PROVE  FALSE
    BY DEF RepeatedTimesFound
  <2>1. size \in Nat /\ K \in Nat \ {0} /\ Precision \in Nat \ {0}
    BY ClosestAssumption DEF IInv, TypeOK
  <2>2. \A j \in i..(i + K) : data[j] = data[i] /\ data[j] \in Int
    <3> TAKE j \in i..(i + K)
    <3>1. j \in Indices(size) /\ i \in Indices(size) /\ i + K \in Indices(size)
      BY <2>1 DEF Indices
    <3>2. data[j] \in Int /\ data[i] \in Int
      BY <3>1, ClosestAssumption DEF IInv, TypeOK
    <3>3. data[i] <= data[j] /\ data[j] <= data[i + K]
      BY <2>1, <3>1 DEF IInv, Ordered, Sorted
    <3> QED
      BY <3>2, <3>3
  <2>3. \A v \in Int \ {0} : Near(v, v)
    <3> TAKE v \in Int \ {0}
    <3>1. v - v = 0 /\ Precision * 0 = 0
      BY <2>1
    <3> QED
      BY <3>1 DEF Near
  <2>4. \A j \in i..(i + K - 1) : Near(data[j], data[j + 1])
    <3> TAKE j \in i..(i + K - 1)
    <3>1. j \in i..(i + K) /\ j + 1 \in i..(i + K)
      BY <2>1
    <3>2. data[j] = data[i] /\ data[j + 1] = data[i] /\ data[i] \in Int \ {0}
      BY <3>1, <2>2
    <3> QED
      BY <3>2, <2>3
  <2> QED
    BY <2>1, <2>4 DEF IInv, MissedOnlyWithoutRun, Runs, Run
<1> QED
  BY Invariance, <1>1, PTL
-------------------------------------------------------------------------------
\* Induction over finite sets, in the form of a least counterexample: among sets
\* of subsets of a finite set there is one that has no other within it.
LEMMA LeastSet ==
  ASSUME NEW D, IsFiniteSet(D), NEW B \in SUBSET SUBSET D, B # {}
  PROVE  \E S \in B : \A T \in B : T \subseteq S => T = S
<1>1. IsWellFoundedOn(StrictSubsetOrdering(D), FiniteSubsetsOf(D))
  BY FS_StrictSubsetOrderingWellFounded
<1>2. B \subseteq FiniteSubsetsOf(D)
  BY FS_FiniteSubsetsOfFinite
<1>3. PICK S \in B : \A T \in B : <<T, S>> \notin StrictSubsetOrdering(D)
  BY ONLY <1>1, <1>2, B # {}, WFMin
<1> QED
  BY <1>3 DEF StrictSubsetOrdering

Chosen(S) == CHOOSE x \in S : TRUE
SumOf(g, f, s) == IF s = {} THEN 0 ELSE f[Chosen(s)] + g[s \ {Chosen(s)}]
IsSum(g, f, D) == g = [s \in SUBSET D |-> SumOf(g, f, s)]
Sums(f, D) == CHOOSE g : IsSum(g, f, D)

LEMMA Fold ==
  ASSUME NEW f, NEW D
  PROVE  SumFunctionOnSet(f, D) = Sums(f, D)[D]
  BY Zenon DEF SumFunctionOnSet, FoldFunctionOnSet, MapThenFoldSet, Sums, IsSum, SumOf, Chosen

\* There is such a function: by induction on the size of the sets it is right for.
LEMMA SumsExist ==
  ASSUME NEW D, IsFiniteSet(D), NEW f
  PROVE  IsSum(Sums(f, D), f, D)
<1> DEFINE Level(n) == {s \in SUBSET D : Cardinality(s) <= n}
           Good(g, n) == DOMAIN g = SUBSET D /\ \A s \in Level(n) : g[s] = SumOf(g, f, s)
           Step(g) == [s \in SUBSET D |-> SumOf(g, f, s)]
<1>1. \A s \in SUBSET D : IsFiniteSet(s) /\ Cardinality(s) \in Nat
  BY FS_Subset, FS_CardinalityType
<1>2. \E g : Good(g, 0)
  <2>1. Good([s \in SUBSET D |-> 0], 0)
    <3>1. \A s \in Level(0) : s = {}
      BY <1>1, FS_EmptySet
    <3> QED
      BY <3>1 DEF SumOf
  <2> QED
    BY <2>1
<1>3. ASSUME NEW n \in Nat, NEW g, Good(g, n)
      PROVE  Good(Step(g), n + 1)
  <2> DEFINE h == Step(g)
  <2>1. ASSUME NEW s \in Level(n) PROVE h[s] = g[s]
    BY <1>3, <2>1
  <2>2. ASSUME NEW s \in Level(n + 1), s # {}
        PROVE  s \ {Chosen(s)} \in Level(n)
    <3>1. Chosen(s) \in s
      BY <2>2 DEF Chosen
    <3>2. Cardinality(s \ {Chosen(s)}) = Cardinality(s) - 1
      BY <1>1, <3>1, FS_RemoveElement
    <3> QED
      BY <1>1, <3>2
  <2>3. ASSUME NEW s \in Level(n + 1)
        PROVE  SumOf(h, f, s) = SumOf(g, f, s)
    BY <2>1, <2>2 DEF SumOf
  <2>4. DOMAIN h = SUBSET D /\ \A s \in Level(n + 1) : h[s] = SumOf(g, f, s)
    OBVIOUS
  <2> QED
    BY <2>3, <2>4
<1> HIDE DEF Good, Step
<1> DEFINE Bad == {s \in SUBSET D : ~\E g : Good(g, Cardinality(s))}
<1>4. Bad = {}
  <2> SUFFICES ASSUME Bad # {} PROVE FALSE
    OBVIOUS
  <2>0. Bad \in SUBSET SUBSET D
    OBVIOUS
  <2>1. PICK S \in Bad : \A T \in Bad : T \subseteq S => T = S
    <3> HIDE DEF Bad
    <3> QED
      BY <2>0, LeastSet
  <2>2. S # {}
    BY <1>2, <2>1, FS_EmptySet
  <2>3. PICK x \in S : TRUE
    BY <2>2
  <2>4. S \ {x} \notin Bad /\ S \ {x} \in SUBSET D
    BY <2>1, <2>3
  <2>5. Cardinality(S \ {x}) = Cardinality(S) - 1 /\ Cardinality(S \ {x}) \in Nat
    BY <1>1, <2>3, <2>4, FS_RemoveElement
  <2>6. PICK n \in Nat : n = Cardinality(S \ {x}) /\ n + 1 = Cardinality(S)
    BY <1>1, <2>5
  <2>7. PICK g : Good(g, n)
    BY <2>4, <2>6
  <2> QED
    BY <1>3, <2>1, <2>6, <2>7
<1>5. PICK g : Good(g, Cardinality(D))
  BY <1>4
<1>6. Level(Cardinality(D)) = SUBSET D
  BY <1>1, FS_Subset
<1>7. DOMAIN g = SUBSET D /\ \A s \in SUBSET D : g[s] = SumOf(g, f, s)
  BY <1>5, <1>6 DEF Good
<1>8. Good(Step(g), Cardinality(D) + 1)
  BY <1>3, <1>5, <1>1
<1>9. Level(Cardinality(D) + 1) = SUBSET D
  BY <1>1, FS_Subset
<1>10. \A s \in SUBSET D : Step(g)[s] = SumOf(Step(g), f, s)
  BY <1>8, <1>9 DEF Good
<1>11. IsSum(Step(g), f, D)
  BY <1>10 DEF IsSum, Step
<1> QED
  BY <1>11 DEF Sums

\* The functions of two sets agree where both are defined.
LEMMA SumsAgree ==
  ASSUME NEW D, IsFiniteSet(D), NEW E \in SUBSET D, NEW f, NEW s \in SUBSET E
  PROVE  Sums(f, E)[s] = Sums(f, D)[s]
<1> DEFINE Bad == {t \in SUBSET E : Sums(f, E)[t] # Sums(f, D)[t]}
<1>1. IsFiniteSet(E)
  BY FS_Subset
<1>2. IsSum(Sums(f, E), f, E) /\ IsSum(Sums(f, D), f, D)
  BY <1>1, SumsExist
<1>3. \A t \in SUBSET E : /\ Sums(f, E)[t] = SumOf(Sums(f, E), f, t)
                          /\ Sums(f, D)[t] = SumOf(Sums(f, D), f, t)
  BY <1>2, SUBSET E \subseteq SUBSET D DEF IsSum
<1>4. Bad = {}
  <2> SUFFICES ASSUME Bad # {} PROVE FALSE
    OBVIOUS
  <2>1. Bad \in SUBSET SUBSET E
    OBVIOUS
  <2>2. PICK S \in Bad : \A T \in Bad : T \subseteq S => T = S
    <3> HIDE DEF Bad
    <3> QED
      BY <1>1, <2>1, LeastSet
  <2>3. S # {}
    BY <1>3, <2>2 DEF SumOf
  <2>4. Chosen(S) \in S
    BY <2>3 DEF Chosen
  <2>5. S \ {Chosen(S)} \notin Bad /\ S \ {Chosen(S)} \in SUBSET E
    BY <2>2, <2>4
  <2> QED
    BY <1>3, <2>2, <2>3, <2>5 DEF SumOf
<1> QED
  BY <1>4

\* What SumFunctionOnSet adds up, one index at a time.
LEMMA SumSteps ==
  ASSUME NEW D, IsFiniteSet(D), NEW f
  PROVE  SumFunctionOnSet(f, D) =
           IF D = {} THEN 0 ELSE f[Chosen(D)] + SumFunctionOnSet(f, D \ {Chosen(D)})
<1>1. Sums(f, D)[D] = SumOf(Sums(f, D), f, D)
  <2>1. IsSum(Sums(f, D), f, D) /\ D \in SUBSET D
    BY SumsExist
  <2> QED
    BY <2>1 DEF IsSum
<1>2. D \ {Chosen(D)} \in SUBSET D
  OBVIOUS
<1>3. Sums(f, D \ {Chosen(D)})[D \ {Chosen(D)}] = Sums(f, D)[D \ {Chosen(D)}]
  BY <1>2, SumsAgree
<1> QED
  BY <1>1, <1>3, Fold DEF SumOf
-------------------------------------------------------------------------------
\* Sums of integers are integers.
LEMMA SumInt ==
  ASSUME NEW U, IsFiniteSet(U), NEW f \in [U -> Int]
  PROVE  \A S \in SUBSET U : SumFunctionOnSet(f, S) \in Int
<1> DEFINE Bad == {S \in SUBSET U : SumFunctionOnSet(f, S) \notin Int}
<1> SUFFICES ASSUME Bad # {} PROVE FALSE
  OBVIOUS
<1>1. Bad \in SUBSET SUBSET U
  OBVIOUS
<1>2. PICK S \in Bad : \A T \in Bad : T \subseteq S => T = S
  <2> HIDE DEF Bad
  <2> QED
    BY <1>1, LeastSet
<1>3. SumFunctionOnSet(f, S) = IF S = {} THEN 0
                               ELSE f[Chosen(S)] + SumFunctionOnSet(f, S \ {Chosen(S)})
  BY <1>2, SumSteps, FS_Subset
<1>4. S # {}
  BY <1>2, <1>3
<1>5. Chosen(S) \in S
  BY <1>4 DEF Chosen
<1>6. S \ {Chosen(S)} \notin Bad
  BY <1>2, <1>5
<1> QED
  BY <1>2, <1>3, <1>4, <1>5, <1>6

\* Any index may be taken out first.
LEMMA SumAny ==
  ASSUME NEW U, IsFiniteSet(U), NEW f \in [U -> Int]
  PROVE  \A S \in SUBSET U : \A x \in S :
           SumFunctionOnSet(f, S) = f[x] + SumFunctionOnSet(f, S \ {x})
<1> DEFINE Sum(S) == SumFunctionOnSet(f, S)
           Bad == {S \in SUBSET U : \E x \in S : Sum(S) # f[x] + Sum(S \ {x})}
<1> SUFFICES ASSUME Bad # {} PROVE FALSE
  OBVIOUS
<1>1. Bad \in SUBSET SUBSET U
  OBVIOUS
<1>2. PICK S \in Bad : \A T \in Bad : T \subseteq S => T = S
  <2> HIDE DEF Bad
  <2> QED
    BY <1>1, LeastSet
<1>3. PICK x \in S : Sum(S) # f[x] + Sum(S \ {x})
  BY <1>2
<1>4. PICK c \in S : Sum(S) = f[c] + Sum(S \ {c})
  <2>1. Chosen(S) \in S
    BY <1>3 DEF Chosen
  <2> QED
    BY <1>2, <2>1, SumSteps, FS_Subset
<1>5. c # x
  BY <1>3, <1>4
<1>6. S \ {c} \notin Bad /\ S \ {x} \notin Bad
  BY <1>2, <1>4, <1>3
<1>7. Sum(S \ {c}) = f[x] + Sum((S \ {c}) \ {x})
  BY <1>2, <1>5, <1>6
<1>8. Sum(S \ {x}) = f[c] + Sum((S \ {x}) \ {c})
  BY <1>2, <1>5, <1>6
<1>9. Sum((S \ {c}) \ {x}) = Sum((S \ {x}) \ {c})
  <2>1. (S \ {c}) \ {x} = (S \ {x}) \ {c}
    OBVIOUS
  <2> QED
    BY ONLY <2>1
<1>10. /\ Sum((S \ {c}) \ {x}) \in Int /\ Sum((S \ {x}) \ {c}) \in Int
       /\ f[x] \in Int /\ f[c] \in Int
  BY <1>2, SumInt
<1> HIDE DEF Sum, Bad
<1> QED
  BY ONLY <1>3, <1>4, <1>7, <1>8, <1>9, <1>10

\* The sum of nothing.
LEMMA SumEmpty ==
  ASSUME NEW f
  PROVE  SumFunctionOnSet(f, {}) = 0
  BY SumSteps, FS_EmptySet

\* The sum over a set is that over a part of it and that over the rest.
LEMMA SumSplit ==
  ASSUME NEW U, IsFiniteSet(U), NEW f \in [U -> Int], NEW S \in SUBSET U
  PROVE  \A A \in SUBSET S :
           SumFunctionOnSet(f, S) = SumFunctionOnSet(f, A) + SumFunctionOnSet(f, S \ A)
<1> DEFINE Sum(T) == SumFunctionOnSet(f, T)
           Bad == {A \in SUBSET S : Sum(S) # Sum(A) + Sum(S \ A)}
<1> SUFFICES ASSUME Bad # {} PROVE FALSE
  OBVIOUS
<1>1. Bad \in SUBSET SUBSET S /\ IsFiniteSet(S)
  BY FS_Subset
<1>2. PICK A \in Bad : \A T \in Bad : T \subseteq A => T = A
  <2> HIDE DEF Bad
  <2> QED
    BY <1>1, LeastSet
<1>3. \A T \in SUBSET U : Sum(T) \in Int
  BY SumInt
<1>4. A # {}
  <2> SUFFICES ASSUME A = {} PROVE Sum(S) = Sum(A) + Sum(S \ A)
    BY <1>2
  <2>1. S \ A = S /\ Sum(A) = 0 /\ Sum(S) \in Int
    BY <1>3, SumEmpty
  <2> HIDE DEF Sum
  <2> QED
    BY <2>1
<1>5. PICK x \in A : TRUE
  BY <1>4
<1>6. Sum(S) = Sum(A \ {x}) + Sum(S \ (A \ {x}))
  BY <1>2, <1>5
<1>7. Sum(A) = f[x] + Sum(A \ {x})
  BY <1>2, <1>5, SumAny
<1>8. Sum(S \ (A \ {x})) = f[x] + Sum((S \ (A \ {x})) \ {x})
  <2>1. S \ (A \ {x}) \in SUBSET U /\ x \in S \ (A \ {x})
    BY <1>2, <1>5
  <2> QED
    BY <2>1, SumAny
<1>9. Sum((S \ (A \ {x})) \ {x}) = Sum(S \ A)
  <2>1. (S \ (A \ {x})) \ {x} = S \ A
    BY <1>5
  <2> QED
    BY ONLY <2>1
<1>10. Sum(A) \in Int /\ Sum(A \ {x}) \in Int /\ Sum(S \ A) \in Int /\ f[x] \in Int
  BY <1>2, <1>3, <1>5
<1>11. Sum(S) # Sum(A) + Sum(S \ A)
  BY <1>2
<1> HIDE DEF Sum, Bad
<1> QED
  BY ONLY <1>6, <1>7, <1>8, <1>9, <1>10, <1>11

\* Terms that are not negative have a sum that is not.
LEMMA SumPositive ==
  ASSUME NEW U, IsFiniteSet(U), NEW f \in [U -> Int]
  PROVE  \A S \in SUBSET U : (\A v \in S : f[v] >= 0) => SumFunctionOnSet(f, S) >= 0
<1> DEFINE Sum(S) == SumFunctionOnSet(f, S)
           Bad == {S \in SUBSET U : (\A v \in S : f[v] >= 0) /\ ~(Sum(S) >= 0)}
<1> SUFFICES ASSUME Bad # {} PROVE FALSE
  OBVIOUS
<1>1. Bad \in SUBSET SUBSET U
  OBVIOUS
<1>2. PICK S \in Bad : \A T \in Bad : T \subseteq S => T = S
  <2> HIDE DEF Bad
  <2> QED
    BY <1>1, LeastSet
<1>3. S # {}
  <2>1. ~(Sum(S) >= 0) /\ Sum({}) = 0
    BY <1>2, SumEmpty
  <2> HIDE DEF Sum
  <2> QED
    BY <2>1
<1>4. PICK x \in S : TRUE
  BY <1>3
<1>5. S \ {x} \notin Bad
  BY <1>2, <1>4
<1>6. Sum(S \ {x}) >= 0 /\ Sum(S \ {x}) \in Int
  BY <1>2, <1>5, SumInt
<1>7. Sum(S) = f[x] + Sum(S \ {x})
  BY <1>2, <1>4, SumAny
<1>8. f[x] >= 0 /\ f[x] \in Int /\ ~(Sum(S) >= 0)
  BY <1>2, <1>4
<1> HIDE DEF Sum
<1> QED
  BY <1>6, <1>7, <1>8

\* Sums are linear.
Combined(U, a, f, b, g, c, h) == [v \in U |-> a * f[v] + b * g[v] + c * h[v]]

LEMMA SumLinear ==
  ASSUME NEW U, IsFiniteSet(U),
         NEW f \in [U -> Int], NEW g \in [U -> Int], NEW h \in [U -> Int],
         NEW a \in Int, NEW b \in Int, NEW c \in Int, NEW R \in SUBSET U
  PROVE  SumFunctionOnSet(Combined(U, a, f, b, g, c, h), R) =
           a * SumFunctionOnSet(f, R) + b * SumFunctionOnSet(g, R) + c * SumFunctionOnSet(h, R)
<1>0. PICK k \in [U -> Int] :
        /\ k = Combined(U, a, f, b, g, c, h)
        /\ \A v \in U : k[v] = a * f[v] + b * g[v] + c * h[v]
  <2>1. \A v \in U : a * f[v] + b * g[v] + c * h[v] \in Int
    OBVIOUS
  <2>2. Combined(U, a, f, b, g, c, h) \in [U -> Int]
    BY <2>1 DEF Combined
  <2>3. \A v \in U : Combined(U, a, f, b, g, c, h)[v] = a * f[v] + b * g[v] + c * h[v]
    BY DEF Combined
  <2> QED
    BY <2>2, <2>3
<1> DEFINE Sum(r, S) == SumFunctionOnSet(r, S)
           Bad == {S \in SUBSET U : Sum(k, S) # a * Sum(f, S) + b * Sum(g, S) + c * Sum(h, S)}
<1> SUFFICES ASSUME Bad # {} PROVE FALSE
  BY <1>0
<1>1. Bad \in SUBSET SUBSET U
  OBVIOUS
<1>2. PICK S \in Bad : \A T \in Bad : T \subseteq S => T = S
  <2> HIDE DEF Bad
  <2> QED
    BY <1>1, LeastSet
<1>3. S # {}
  <2>1. /\ Sum(k, S) # a * Sum(f, S) + b * Sum(g, S) + c * Sum(h, S)
        /\ Sum(f, {}) = 0 /\ Sum(g, {}) = 0 /\ Sum(h, {}) = 0 /\ Sum(k, {}) = 0
    BY <1>2, SumEmpty
  <2> HIDE DEF Sum
  <2>2. a * 0 + b * 0 + c * 0 = 0
    OBVIOUS
  <2> QED
    BY <2>1, <2>2
<1>4. PICK x \in S : TRUE
  BY <1>3
<1>5. S \ {x} \notin Bad /\ S \ {x} \in SUBSET U
  BY <1>2, <1>4
<1>6. PICK F \in Int, G \in Int, H \in Int, M \in Int :
        F = Sum(f, S \ {x}) /\ G = Sum(g, S \ {x}) /\ H = Sum(h, S \ {x}) /\ M = Sum(k, S \ {x})
  BY <1>5, SumInt
<1>7. /\ Sum(f, S) = f[x] + F /\ Sum(g, S) = g[x] + G /\ Sum(h, S) = h[x] + H
      /\ Sum(k, S) = k[x] + M
  BY <1>2, <1>4, <1>6, SumAny
<1>8. M = a * F + b * G + c * H
  BY <1>5, <1>6
<1>9. PICK fx \in Int, gx \in Int, hx \in Int, kx \in Int :
        /\ fx = f[x] /\ gx = g[x] /\ hx = h[x] /\ kx = k[x]
        /\ kx = a * fx + b * gx + c * hx
  BY <1>0, <1>2, <1>4
<1>10. Sum(k, S) # a * Sum(f, S) + b * Sum(g, S) + c * Sum(h, S)
  BY <1>2
<1>11. kx + M = a * (fx + F) + b * (gx + G) + c * (hx + H)
  <2>1. /\ a * (fx + F) = a * fx + a * F /\ b * (gx + G) = b * gx + b * G
        /\ c * (hx + H) = c * hx + c * H
    BY ONLY a \in Int, b \in Int, c \in Int, fx \in Int, gx \in Int, hx \in Int, F \in Int, G \in Int, H \in Int
  <2> QED
    BY ONLY <2>1, <1>8, <1>9, M \in Int, kx \in Int, a * fx \in Int, a * F \in Int, b * gx \in Int, b * G \in Int, c * hx \in Int, c * H \in Int
<1> HIDE DEF Sum
<1> QED
  BY <1>7, <1>9, <1>10, <1>11
-------------------------------------------------------------------------------
\* The algebra of one pass: n times are kept and m thrown out of a set of n + m,
\* whose n^2-fold variance is V; D and E are the sums of the distances of the times
\* thrown out from the mean and of their squares, x the distance of another time.
LEMMA Tightening ==
  ASSUME NEW n \in Nat, n > 0, NEW m \in Nat, NEW T \in Nat, T >= 2, NEW V \in Int, V > 0,
         NEW D \in Int, NEW E \in Int, NEW x \in Int,
         E + 2 * x * D + m * (x * x) >= 0,
         E >= m * (T * T * V),
         (n + m) * V - E >= 0,
         x * x >= T * T * V
  PROVE  (x * n + D) * (x * n + D) >= T * T * (n * ((n + m) * V - E) - D * D)
<1>1. PICK W \in Int, X \in Int, S \in Nat : W = T * T * V /\ X = x * x /\ S = T * T
  <2>1. T * T \in Nat /\ T * T * V \in Int /\ x * x \in Int
    OBVIOUS
  <2> QED
    BY <2>1
<1>2. S >= 4 /\ W = S * V /\ W >= 0 /\ X >= W
  <2>1. T * T >= 4
    <3>1. T * T = (T - 2) * (T - 2) + 4 * (T - 2) + 4 /\ (T - 2) * (T - 2) >= 0
      OBVIOUS
    <3> QED
      BY <3>1
  <2>2. S >= 4 /\ W = S * V
    BY <1>1, <2>1
  <2>3. S * V >= 0
    BY <2>2
  <2> QED
    BY <1>1, <2>2, <2>3
<1>3. m <= n
  <2> SUFFICES ASSUME m > n PROVE FALSE
    OBVIOUS
  <2>1. m * W <= (n + m) * V
    BY ONLY <1>1, E >= m * (T * T * V), (n + m) * V - E >= 0, m \in Nat, n \in Nat, V \in Int, E \in Int
  <2>2. m * W = (m * S) * V
    BY <1>2
  <2>3. (m * S - (n + m)) * V <= 0
    BY <2>1, <2>2
  <2>4. m * S >= 4 * m
    <3>1. m * (S - 4) >= 0
      BY <1>2
    <3> QED
      BY <3>1
  <2>5. PICK k \in Int : k = m * S - (n + m) /\ k > 0 /\ k * V <= 0
    BY <2>3, <2>4
  <2> QED
    BY ONLY <2>5, k \in Int, V \in Int, V > 0
<1>4. PICK e \in Int : e = (S - 1) * E /\ e >= 2 * (m * W)
  <2>1. E >= m * W /\ m * W >= 0
    BY <1>1, <1>2
  <2>2. (S - 1) * E >= (S - 1) * (m * W)
    BY ONLY <2>1, <1>2, S \in Nat, E \in Int, m * W \in Int, (S - 1) * (E - m * W) >= 0, S - 1 \in Nat
  <2> QED
    BY <1>2, <2>1, <2>2
<1>5. PICK B \in Int : B = n * X + 2 * x * D - (n + m) * W + S * E /\ B >= 0
  <2>1. PICK c \in Int : c = 2 * x * D /\ E + c + m * X >= 0
    BY <1>1
  <2>2. (n - m) * X >= (n - m) * W
    <3>1. (n - m) * (X - W) >= 0
      BY <1>2, <1>3
    <3> QED
      BY ONLY <3>1, n - m \in Int, X \in Int, W \in Int
  <2>3. /\ (n - m) * X = n * X - m * X /\ (n - m) * W = n * W - m * W
        /\ (n + m) * W = n * W + m * W /\ S * E = e + E
    BY <1>4
  <2>4. n * X + c - (n + m) * W + S * E >= 0
    BY ONLY <1>4, <2>1, <2>2, <2>3, n * X \in Int, m * X \in Int, n * W \in Int, m * W \in Int,
            E \in Int, c \in Int, e \in Int
  <2>5. n * X + c - (n + m) * W + S * E \in Int
    OBVIOUS
  <2> QED
    BY ONLY <2>1, <2>4, <2>5
<1>6. (x * n + D) * (x * n + D) = n * (n * X) + n * (2 * x * D) + D * D
  BY <1>1
<1>7. T * T * (n * ((n + m) * V - E) - D * D) = n * ((n + m) * W) - n * (S * E) - S * (D * D)
  BY <1>1, <1>2
<1>8. n * B = n * (n * X) + n * (2 * x * D) - n * ((n + m) * W) + n * (S * E)
  BY <1>5
<1>9. n * B >= 0 /\ D * D >= 0 /\ S * (D * D) >= 0
  <2>1. D * D >= 0
    OBVIOUS
  <2> QED
    BY <1>5, <2>1
<1> QED
  BY ONLY <1>6, <1>7, <1>8, <1>9, n * (n * X) \in Int, n * (2 * x * D) \in Int, D * D \in Int, n * B \in Int,
          n * ((n + m) * W) \in Int, n * (S * E) \in Int, S * (D * D) \in Int

\* Each time was measured MaxCount times at most.
Measured == times \in [Values -> 0..MaxCount]

\* n, s and q of a set of times are sums over the array.
LEMMA SummaryType ==
  ASSUME Measured, NEW S \in SUBSET Values
  PROVE  /\ Summary(S).n \in Nat /\ Summary(S).s \in Int /\ Summary(S).q \in Int
         /\ Summary(S) = [n |-> Summary(S).n, s |-> Summary(S).s, q |-> Summary(S).q]
<1>1. Values \subseteq Int /\ IsFiniteSet(Values) /\ MaxCount \in Nat
  BY AggregateAssumption
<1>2. times \in [Values -> Int] /\ \A v \in Values : times[v] >= 0 /\ times[v] \in Int
  BY <1>1 DEF Measured
<1>3. /\ [v \in Values |-> times[v] * v] \in [Values -> Int]
      /\ [v \in Values |-> times[v] * v * v] \in [Values -> Int]
  <2>1. \A v \in Values : times[v] * v \in Int /\ times[v] * v * v \in Int
    BY <1>1, <1>2
  <2> QED
    BY <2>1
<1>4. /\ SumFunctionOnSet(times, S) \in Int
      /\ SumFunctionOnSet([v \in Values |-> times[v] * v], S) \in Int
      /\ SumFunctionOnSet([v \in Values |-> times[v] * v * v], S) \in Int
  BY <1>1, <1>2, <1>3, SumInt
<1>5. SumFunctionOnSet(times, S) >= 0
  BY <1>1, <1>2, SumPositive
<1> QED
  BY <1>4, <1>5 DEF Summary

\* An expression of second degree that is not negative of any time in a set is
\* not negative of their summary.
LEMMA Quadratic ==
  ASSUME Measured, NEW S \in SUBSET Values, NEW a \in Int, NEW b \in Int, NEW c \in Int,
         \A v \in S : a * (v * v) + b * v + c >= 0
  PROVE  a * Summary(S).q + b * Summary(S).s + c * Summary(S).n >= 0
<1> DEFINE f == [v \in Values |-> times[v] * v * v]
           g == [v \in Values |-> times[v] * v]
           k == Combined(Values, a, f, b, g, c, times)
<1>1. Values \subseteq Int /\ IsFiniteSet(Values) /\ MaxCount \in Nat
  BY AggregateAssumption
<1>2. \A v \in Values : times[v] >= 0 /\ times[v] \in Int /\ v \in Int
  BY <1>1 DEF Measured
<1>3. times \in [Values -> Int]
  BY <1>1 DEF Measured
<1>4. \A v \in Values : f[v] \in Int /\ g[v] \in Int /\ k[v] = a * f[v] + b * g[v] + c * times[v]
  BY <1>2 DEF Combined
<1>5. f \in [Values -> Int] /\ g \in [Values -> Int]
  BY <1>4
<1>6. k \in [Values -> Int]
  <2>1. \A v \in Values : a * f[v] + b * g[v] + c * times[v] \in Int
    BY <1>2, <1>4
  <2> QED
    BY <2>1 DEF Combined
<1>7. ASSUME NEW v \in S PROVE k[v] >= 0
  <2>1. PICK t \in Int, w \in Int : t = times[v] /\ w = v /\ t >= 0
    BY <1>2
  <2>2. k[v] = t * (a * (w * w) + b * w + c)
    <3>1. k[v] = a * (t * w * w) + b * (t * w) + c * t
      BY <1>2, <1>4, <2>1
    <3> HIDE DEF k
    <3> QED
      BY ONLY <3>1, a \in Int, b \in Int, c \in Int, t \in Int, w \in Int
  <2>3. PICK z \in Int : z = a * (w * w) + b * w + c /\ z >= 0
    BY <2>1
  <2> HIDE DEF k
  <2>4. k[v] = t * z
    BY <2>2, <2>3
  <2> QED
    BY ONLY <2>4, <2>1, <2>3, t \in Int, z \in Int
<1> HIDE DEF f, g, k
<1>8. SumFunctionOnSet(k, S) >= 0
  BY <1>1, <1>6, <1>7, SumPositive
<1>9. SumFunctionOnSet(k, S) = a * SumFunctionOnSet(f, S) + b * SumFunctionOnSet(g, S)
                                + c * SumFunctionOnSet(times, S)
  <2>1. IsFiniteSet(Values) /\ S \in SUBSET Values
    BY <1>1
  <2> QED
    BY ONLY <1>3, <1>5, <2>1, a \in Int, b \in Int, c \in Int, SumLinear DEF k
<1>10. /\ Summary(S).q = SumFunctionOnSet(f, S) /\ Summary(S).s = SumFunctionOnSet(g, S)
       /\ Summary(S).n = SumFunctionOnSet(times, S)
  BY DEF Summary, f, g
<1> QED
  BY <1>8, <1>9, <1>10

\* What a pass leaves out is the difference of two summaries.
LEMMA Difference ==
  ASSUME Measured, NEW S \in SUBSET Values, NEW A \in SUBSET S
  PROVE  /\ Summary(S \ A).n = Summary(S).n - Summary(A).n
         /\ Summary(S \ A).s = Summary(S).s - Summary(A).s
         /\ Summary(S \ A).q = Summary(S).q - Summary(A).q
<1> DEFINE f == [v \in Values |-> times[v] * v * v]
           g == [v \in Values |-> times[v] * v]
<1>1. Values \subseteq Int /\ IsFiniteSet(Values) /\ MaxCount \in Nat
  BY AggregateAssumption
<1>2. \A v \in Values : times[v] >= 0 /\ times[v] \in Int /\ v \in Int
  BY <1>1 DEF Measured
<1>3. times \in [Values -> Int]
  BY <1>1 DEF Measured
<1>4. f \in [Values -> Int] /\ g \in [Values -> Int]
  <2>1. \A v \in Values : times[v] * v \in Int /\ times[v] * v * v \in Int
    BY <1>2
  <2> QED
    BY <2>1
<1>5. \A T \in SUBSET Values : /\ Summary(T).q = SumFunctionOnSet(f, T)
                               /\ Summary(T).s = SumFunctionOnSet(g, T)
                               /\ Summary(T).n = SumFunctionOnSet(times, T)
  BY DEF Summary
<1> HIDE DEF f, g
<1>6. /\ Summary(S).n = Summary(A).n + Summary(S \ A).n
      /\ Summary(S).s = Summary(A).s + Summary(S \ A).s
      /\ Summary(S).q = Summary(A).q + Summary(S \ A).q
  <2>1. /\ SumFunctionOnSet(times, S) = SumFunctionOnSet(times, A) + SumFunctionOnSet(times, S \ A)
        /\ SumFunctionOnSet(f, S) = SumFunctionOnSet(f, A) + SumFunctionOnSet(f, S \ A)
        /\ SumFunctionOnSet(g, S) = SumFunctionOnSet(g, A) + SumFunctionOnSet(g, S \ A)
    <3>1. IsFiniteSet(Values) /\ S \in SUBSET Values /\ A \in SUBSET S
      BY <1>1
    <3> QED
      BY ONLY <1>3, <1>4, <3>1, SumSplit
  <2> QED
    BY <1>5, <2>1
<1>7. /\ Summary(A).n \in Int /\ Summary(A).s \in Int /\ Summary(A).q \in Int
      /\ Summary(S \ A).n \in Int /\ Summary(S \ A).s \in Int /\ Summary(S \ A).q \in Int
  BY SummaryType
<1> QED
  BY <1>6, <1>7

\* A set of times that were measured has measurements.
LEMMA Counted ==
  ASSUME Measured, NEW S \in SUBSET Present, S # {}
  PROVE  Summary(S).n > 0
<1>1. Values \subseteq Int /\ IsFiniteSet(Values) /\ MaxCount \in Nat
  BY AggregateAssumption
<1>2. times \in [Values -> Int] /\ S \in SUBSET Values
  BY <1>1 DEF Measured, Present
<1>3. PICK x \in S : TRUE
  OBVIOUS
<1>4. times[x] > 0 /\ times[x] \in Int
  BY <1>1 DEF Present, Measured
<1>5. Summary(S).n = times[x] + SumFunctionOnSet(times, S \ {x})
  <2>1. IsFiniteSet(Values)
    BY <1>1
  <2>2. SumFunctionOnSet(times, S) = times[x] + SumFunctionOnSet(times, S \ {x})
    BY ONLY <1>2, <1>3, <2>1, x \in S, SumAny
  <2> QED
    BY <2>2 DEF Summary
<1>6. SumFunctionOnSet(times, S \ {x}) >= 0 /\ SumFunctionOnSet(times, S \ {x}) \in Int
  <2>1. S \ {x} \in SUBSET Values
    BY <1>2
  <2>2. \A v \in S \ {x} : times[v] >= 0
    BY <1>1, <1>2 DEF Measured
  <2> QED
    BY <1>1, <1>2, <2>1, <2>2, SumPositive, SumInt
<1> QED
  BY <1>4, <1>5, <1>6

\* The times within TOLERANCE deviations of a mean.
KeptOf(st) == {v \in Present : Within(v, st)}

\* n times n times the variance is not negative, and if no time of a set is
\* within two of its deviations it has none.
LEMMA SpreadOf ==
  ASSUME Measured, TOLERANCE >= 2, NEW S \in SUBSET Present, S # {}, KeptOf(Summary(S)) \cap S = {}
  PROVE  Settled(Summary(S))
<1>1. /\ Values \subseteq Int /\ S \in SUBSET Values /\ TOLERANCE \in Nat /\ Fine \in Nat \ {0}
  BY AggregateAssumption DEF Present
<1>2. PICK n \in Nat, s \in Int, q \in Int :
        n = Summary(S).n /\ s = Summary(S).s /\ q = Summary(S).q /\ n > 0
  BY <1>1, SummaryType, Counted
<1>3. PICK V \in Int, W \in Int :
        V = n * q - s * s /\ V = Spread(Summary(S)) /\ W = TOLERANCE * TOLERANCE * V
  BY <1>1, <1>2 DEF Spread
<1>4. ASSUME NEW v \in S PROVE v \in Int /\ (v * n - s) * (v * n - s) >= W
  <2>1. v \in Int /\ v \in Present /\ ~Within(v, Summary(S))
    BY <1>1 DEF KeptOf
  <2> QED
    BY <1>1, <1>2, <1>3, <2>1 DEF Within
<1>5. (n * n) * q + (-2 * n * s) * s + (s * s - W) * n >= 0
  <2>1. ASSUME NEW v \in S PROVE (n * n) * (v * v) + (-2 * n * s) * v + (s * s - W) >= 0
    <3>1. (n * n) * (v * v) + (-2 * n * s) * v + (s * s - W) = (v * n - s) * (v * n - s) - W
      BY <1>4
    <3> QED
      BY <1>4, <3>1
  <2>2. n * n \in Int /\ -2 * n * s \in Int /\ s * s - W \in Int
    OBVIOUS
  <2>3. (n * n) * Summary(S).q + (-2 * n * s) * Summary(S).s + (s * s - W) * Summary(S).n >= 0
    BY <1>1, <2>1, <2>2, Quadratic
  <2> QED
    BY <1>2, <2>3
<1>6. n * (V - W) >= 0
  BY <1>3, <1>5
<1>7. V <= 0
  <2> SUFFICES ASSUME V > 0 PROVE FALSE
    OBVIOUS
  <2>1. V >= W
    <3>1. PICK z \in Int : z = V - W /\ n * z >= 0
      BY <1>6
    <3> QED
      BY ONLY <1>2, <3>1, n \in Nat, V \in Int, W \in Int
  <2>2. TOLERANCE * TOLERANCE >= 4
    <3>1. /\ TOLERANCE * TOLERANCE = (TOLERANCE - 2) * (TOLERANCE - 2) + 4 * (TOLERANCE - 2) + 4
          /\ (TOLERANCE - 2) * (TOLERANCE - 2) >= 0
      BY <1>1
    <3> QED
      BY <1>1, <3>1
  <2>3. PICK t \in Int : t = TOLERANCE * TOLERANCE /\ t >= 4 /\ W = t * V
    BY <1>1, <1>3, <2>2
  <2> QED
    BY ONLY <2>1, <2>3, V > 0, V \in Int, t \in Int
<1>8. (s * s - 1) \div (Fine * Fine) >= 0 \/ s = 0
  <2> SUFFICES ASSUME s # 0 PROVE (s * s - 1) \div (Fine * Fine) >= 0
    OBVIOUS
  <2>1. PICK a \in Nat, b \in Nat : a = s * s - 1 /\ b = Fine * Fine /\ b > 0
    <3>1. s * s >= 1 /\ Fine * Fine > 0
      BY <1>1
    <3> QED
      BY <1>1, <3>1
  <2>2. a \div b >= 0
    BY ONLY <2>1, a \in Nat, b \in Nat
  <2> QED
    BY <2>1, <2>2
<1>9. CASE s = 0
  BY <1>1, <1>2, <1>9 DEF Settled
<1>10. CASE s # 0
  <2>1. (s * s - 1) \div (Fine * Fine) >= 0 /\ (s * s - 1) \div (Fine * Fine) \in Int
    BY <1>1, <1>8, <1>10
  <2> QED
    BY <1>2, <1>3, <1>7, <2>1 DEF Settled
<1> QED
  BY <1>9, <1>10

\* What a pass throws out, the next one throws out too.
LEMMA StaysOut ==
  ASSUME Measured, TOLERANCE >= 2, NEW S \in SUBSET Present, NEW A \in SUBSET S, A # {},
         A = KeptOf(Summary(S))
  PROVE  KeptOf(Summary(A)) \subseteq A
<1>1. /\ Values \subseteq Int /\ S \in SUBSET Values /\ A \in SUBSET Values /\ S \ A \in SUBSET Values
      /\ A \in SUBSET Present /\ TOLERANCE \in Nat
  BY AggregateAssumption DEF Present
<1>2. PICK n \in Nat, s \in Int, q \in Int :
        n = Summary(A).n /\ s = Summary(A).s /\ q = Summary(A).q /\ n > 0
  BY <1>1, SummaryType, Counted
<1>3. PICK m \in Nat, r \in Int, p \in Int :
        m = Summary(S \ A).n /\ r = Summary(S \ A).s /\ p = Summary(S \ A).q
  BY <1>1, SummaryType
<1>4. Summary(S).n = n + m /\ Summary(S).s = s + r /\ Summary(S).q = q + p
  <2>1. Summary(S).n \in Int /\ Summary(S).s \in Int /\ Summary(S).q \in Int
    BY <1>1, SummaryType
  <2>2. m = Summary(S).n - n /\ r = Summary(S).s - s /\ p = Summary(S).q - q
    BY <1>1, <1>2, <1>3, Difference
  <2> QED
    BY ONLY <2>1, <2>2, n \in Nat, s \in Int, q \in Int, m \in Nat, r \in Int, p \in Int
<1>5. PICK k \in Int, u \in Int, V \in Int, W \in Int :
        /\ k = n + m /\ u = s + r /\ V = k * (q + p) - u * u /\ V = Spread(Summary(S))
        /\ W = TOLERANCE * TOLERANCE * V
  BY <1>1, <1>4 DEF Spread
<1>6. \A v \in Values : v \in Int /\ (Within(v, Summary(S)) <=> (v * k - u) * (v * k - u) < W)
  BY <1>1, <1>4, <1>5 DEF Within
<1>7. V > 0
  <2>1. PICK v \in A : v \in Int /\ (v * k - u) * (v * k - u) < W
    BY <1>1, <1>6 DEF KeptOf
  <2>2. (v * k - u) * (v * k - u) >= 0
    BY <2>1
  <2>3. PICK t \in Nat : t = TOLERANCE * TOLERANCE /\ t * V > 0
    BY <1>1, <1>5, <2>1, <2>2
  <2> QED
    BY ONLY <2>3, t \in Nat, V \in Int
<1>8. PICK D \in Int, E \in Int :
        D = k * r - u * m /\ E = (k * k) * p + (-2 * k * u) * r + (u * u) * m
  BY <1>3, <1>5
<1>9. E >= m * W
  <2>1. ASSUME NEW v \in S \ A PROVE (k * k) * (v * v) + (-2 * k * u) * v + (u * u - W) >= 0
    <3>1. v \in Int /\ ~((v * k - u) * (v * k - u) < W)
      BY <1>1, <1>6 DEF KeptOf
    <3>2. (k * k) * (v * v) + (-2 * k * u) * v + (u * u - W) = (v * k - u) * (v * k - u) - W
      BY <3>1
    <3> QED
      BY <3>1, <3>2
  <2>2. k * k \in Int /\ -2 * k * u \in Int /\ u * u - W \in Int
    OBVIOUS
  <2>3. (k * k) * p + (-2 * k * u) * r + (u * u - W) * m >= 0
    <3>1. (k * k) * Summary(S \ A).q + (-2 * k * u) * Summary(S \ A).s
            + (u * u - W) * Summary(S \ A).n >= 0
      BY <1>1, <2>1, <2>2, Quadratic
    <3> QED
      BY <1>3, <3>1
  <2>4. (u * u - W) * m = (u * u) * m - m * W
    OBVIOUS
  <2> QED
    BY <1>8, <2>3, <2>4
<1>10. (n + m) * V - E >= 0
  <2>1. ASSUME NEW v \in A PROVE (k * k) * (v * v) + (-2 * k * u) * v + u * u >= 0
    <3>1. v \in Int
      BY <1>1
    <3>2. (k * k) * (v * v) + (-2 * k * u) * v + u * u = (v * k - u) * (v * k - u)
      BY <3>1
    <3>3. (v * k - u) * (v * k - u) >= 0
      BY <3>1
    <3> QED
      BY <3>2, <3>3
  <2>2. k * k \in Int /\ -2 * k * u \in Int /\ u * u \in Int
    OBVIOUS
  <2>3. (k * k) * q + (-2 * k * u) * s + (u * u) * n >= 0
    <3>1. (k * k) * Summary(A).q + (-2 * k * u) * Summary(A).s + (u * u) * Summary(A).n >= 0
      BY <1>1, <2>1, <2>2, Quadratic
    <3> QED
      BY <1>2, <3>1
  <2>4. (k * k) * q + (-2 * k * u) * s + (u * u) * n = k * V - E
    <3>1. k * V = (k * k) * q + (k * k) * p - k * (u * u)
      BY <1>5
    <3>2. -2 * k * u * s + (-2 * k * u) * r = -2 * (k * (u * u)) /\ (u * u) * n + (u * u) * m = k * (u * u)
      BY <1>5
    <3> QED
      BY <1>8, <3>1, <3>2
  <2> QED
    BY <1>5, <2>3, <2>4
<1>11. ASSUME NEW v \in Present, v \notin A
       PROVE  ~Within(v, Summary(A))
  <2>1. v \in Int /\ v \in Values /\ ~((v * k - u) * (v * k - u) < W)
    BY <1>1, <1>6, <1>11 DEF KeptOf, Present
  <2>2. PICK x \in Int : x = v * k - u
    BY <2>1
  <2>3. x * x >= TOLERANCE * TOLERANCE * V
    BY <1>1, <1>5, <2>1, <2>2
  <2>4. E + 2 * x * D + m * (x * x) >= 0
    <3> DEFINE y == x - u
    <3>1. ASSUME NEW w \in S \ A PROVE (k * k) * (w * w) + (2 * k * y) * w + y * y >= 0
      <4>1. w \in Int
        BY <1>1
      <4>2. (k * k) * (w * w) + (2 * k * y) * w + y * y = (w * k + y) * (w * k + y)
        BY <4>1
      <4>3. (w * k + y) * (w * k + y) >= 0
        BY <4>1
      <4> QED
        BY <4>2, <4>3
    <3>2. k * k \in Int /\ 2 * k * y \in Int /\ y * y \in Int
      OBVIOUS
    <3>3. (k * k) * p + (2 * k * y) * r + (y * y) * m >= 0
      <4> HIDE DEF y
      <4>1. (k * k) * Summary(S \ A).q + (2 * k * y) * Summary(S \ A).s
              + (y * y) * Summary(S \ A).n >= 0
        BY <1>1, <3>1, <3>2, Quadratic
      <4> QED
        BY <1>3, <4>1
    <3>4. (2 * k * y) * r = 2 * k * x * r + (-2 * k * u) * r
      OBVIOUS
    <3>5. (y * y) * m = m * (x * x) - 2 * x * u * m + (u * u) * m
      OBVIOUS
    <3>6. 2 * x * D = 2 * k * x * r - 2 * x * u * m
      BY <1>8
    <3> HIDE DEF y
    <3> QED
      BY <1>8, <3>3, <3>4, <3>5, <3>6
  <2>5. (x * n + D) * (x * n + D) >= TOLERANCE * TOLERANCE * (n * ((n + m) * V - E) - D * D)
    BY ONLY Tightening, <1>1, <1>2, <1>5, <1>7, <1>9, <1>10, <2>3, <2>4, n \in Nat, m \in Nat,
            V \in Int, W \in Int, D \in Int, E \in Int, x \in Int, TOLERANCE >= 2
  <2>6. x * n + D = k * (v * n - s)
    BY <1>5, <1>8, <2>1, <2>2
  <2>7. n * ((n + m) * V - E) - D * D = (k * k) * (n * q - s * s)
    BY <1>5, <1>8
  <2>8. PICK a \in Int, b \in Int, c \in Int :
          /\ a = (v * n - s) * (v * n - s) /\ b = TOLERANCE * TOLERANCE * (n * q - s * s)
          /\ c = k * k /\ c > 0
    <3>1. k > 0 /\ k * k > 0
      BY <1>2, <1>5
    <3>2. /\ (v * n - s) * (v * n - s) \in Int /\ k * k \in Int
          /\ TOLERANCE * TOLERANCE * (n * q - s * s) \in Int
      BY <1>1, <2>1
    <3> QED
      BY <3>1, <3>2
  <2>9. c * a >= c * b
    BY <1>1, <2>1, <2>5, <2>6, <2>7, <2>8
  <2>10. a >= b
    BY ONLY <2>8, <2>9, a \in Int, b \in Int, c \in Int
  <2> QED
    BY <1>2, <2>8, <2>10 DEF Within, Spread
<1> QED
  BY <1>11 DEF KeptOf

\* A finite set of integers has extremes.
LEMMA Extremes ==
  ASSUME NEW S, IsFiniteSet(S), S \subseteq Int, S # {}
  PROVE  /\ Min(S) \in S /\ \A v \in S : Min(S) <= v
         /\ Max(S) \in S /\ \A v \in S : v <= Max(S)
<1>1. \A A \in SUBSET S : A # {} =>
        \E x \in A, y \in A : \A v \in A : x <= v /\ v <= y
  <2> DEFINE Bad == {A \in SUBSET S : A # {} /\ ~\E x \in A, y \in A : \A v \in A : x <= v /\ v <= y}
  <2> SUFFICES ASSUME Bad # {} PROVE FALSE
    OBVIOUS
  <2>1. Bad \in SUBSET SUBSET S
    OBVIOUS
  <2>2. PICK A \in Bad : \A T \in Bad : T \subseteq A => T = A
    <3> HIDE DEF Bad
    <3> QED
      BY ONLY <2>1, LeastSet, IsFiniteSet(S), Bad # {}
  <2>3. PICK z \in A : A \in SUBSET S
    BY <2>2
  <2>4. A \ {z} # {}
    <3> SUFFICES ASSUME A = {z} PROVE FALSE
      BY <2>3
    <3>1. z \in Int
      BY <2>3
    <3> QED
      BY <2>2, <3>1
  <2>5. A \ {z} \notin Bad
    BY <2>2, <2>3
  <2>6. PICK x \in A \ {z}, y \in A \ {z} : \A v \in A \ {z} : x <= v /\ v <= y
    BY <2>3, <2>4, <2>5
  <2>7. x \in Int /\ y \in Int /\ z \in Int /\ \A v \in A : v \in Int
    BY <2>3
  <2>8. PICK a \in A, b \in A : /\ a <= z /\ a <= x /\ z <= b /\ y <= b
                                /\ a \in Int /\ b \in Int
    <3>1. \E a \in A : a <= z /\ a <= x /\ a \in Int
      <4>1. CASE x <= z
        BY <4>1, <2>7
      <4>2. CASE ~(x <= z)
        BY <4>2, <2>7
      <4> QED
        BY <4>1, <4>2
    <3>2. \E b \in A : z <= b /\ y <= b /\ b \in Int
      <4>1. CASE z <= y
        BY <4>1, <2>7
      <4>2. CASE ~(z <= y)
        BY <4>2, <2>7
      <4> QED
        BY <4>1, <4>2
    <3> QED
      BY <3>1, <3>2
  <2>9. \A v \in A : a <= v /\ v <= b
    <3> SUFFICES ASSUME NEW v \in A PROVE a <= v /\ v <= b
      OBVIOUS
    <3>1. CASE v = z
      BY <3>1, <2>8
    <3>2. CASE v # z
      <4>1. x <= v /\ v <= y /\ v \in Int
        BY <3>2, <2>6, <2>7
      <4>2. a <= x /\ y <= b /\ x \in Int /\ y \in Int /\ a \in Int /\ b \in Int
        BY <2>7, <2>8
      <4>3. \A i, j, k \in Int : i <= j /\ j <= k => i <= k
        OBVIOUS
      <4> HIDE DEF Bad
      <4> QED
        BY ONLY <4>1, <4>2, <4>3
    <3> QED
      BY <3>1, <3>2
  <2> QED
    BY <2>2, <2>9
<1>2. PICK x \in S, y \in S : \A v \in S : x <= v /\ v <= y
  BY <1>1
<1>3. Min(S) \in S /\ \A v \in S : Min(S) <= v
  BY <1>2 DEF Min
<1>4. Max(S) \in S /\ \A v \in S : v <= Max(S)
  BY <1>2 DEF Max
<1> QED
  BY <1>3, <1>4
-------------------------------------------------------------------------------
\* Types; the passes stay within MAX_ITER.
AggregateTypeOK ==
  /\ times \in [Values -> 0..MaxCount]
  /\ stage \in {"pass", "settled", "noise", "cut"} /\ iter \in 0..MAX_ITER
  /\ kept \in SUBSET Present /\ stats \in [n : Nat, s : Int, q : Int]
  /\ lo \in Int /\ hi \in Int /\ changed \in {"yes", "no"}

\* Before the first pass; the first one that has times keeps them all.
Begun ==
  /\ kept = {} => /\ stage \in {"pass", "noise"} /\ iter = 0 /\ changed = "yes"
                  /\ stage = "noise" => Present = {}
  /\ kept # {} => stage # "noise" /\ (stage = "pass" => iter > 0)
  /\ stage = "cut" => iter = MAX_ITER \/ changed = "no"

\* What is remembered of a pass is of the times it kept, and it goes on only
\* with times that are not all alike.
Remembered ==
  kept # {} =>
    /\ stats = Summary(kept) /\ lo = Min(kept) /\ hi = Max(kept)
    /\ stage = "pass" => ~Settled(stats)

\* The times kept are all, or those near the mean of a set that holds them: what
\* the pass before kept.
Narrowed ==
  \/ kept \in {{}, Present}
  \/ \E S \in SUBSET Present : kept \subseteq S /\ kept = KeptOf(Summary(S))

\* Unless the times kept stay the same, each pass but the first has left out one.
Stable == kept = KeptOf(stats)
Narrowing ==
  kept # {} /\ stage \in {"pass", "cut"} /\ ~Stable =>
    changed = "yes" /\ Cardinality(kept) + iter <= Cardinality(Present) + 1

PassInv == AggregateTypeOK /\ Begun /\ Remembered /\ Narrowed /\ Narrowing

-------------------------------------------------------------------------------
LEMMA PassInvInit == AggregateInit => PassInv
<1> SUFFICES ASSUME AggregateInit PROVE PassInv
  OBVIOUS
<1>1. Measured /\ stats = Summary({}) /\ MAX_ITER \in Nat
  BY AggregateAssumption DEF AggregateInit, Measured
<1>2. stats \in [n : Nat, s : Int, q : Int]
  BY <1>1, SummaryType
<1> QED
  BY <1>1, <1>2 DEF AggregateInit, PassInv, AggregateTypeOK, Begun, Remembered, Narrowed, Narrowing

\* What stays as it is in a step that leaves the times alone.
LEMMA SameTimes ==
  ASSUME times' = times
  PROVE  /\ Present' = Present
         /\ \A S : Summary(S)' = Summary(S)
         /\ \A st : KeptOf(st)' = KeptOf(st)
BY DEF Present, Summary, KeptOf, Within, Spread

\* A pass but the first keeps some of the times that the one before kept.
LEMMA KeepsFewer ==
  ASSUME PassInv, TOLERANCE >= 2, kept # {}
  PROVE  KeptOf(stats) \subseteq kept
<1>1. stats = Summary(kept) /\ kept \in SUBSET Present /\ Measured
  BY DEF PassInv, Remembered, AggregateTypeOK, Measured
<1>2. CASE kept = Present
  BY <1>2 DEF KeptOf
<1>3. CASE kept # Present
  <2>1. PICK S \in SUBSET Present : kept \subseteq S /\ kept = KeptOf(Summary(S))
    BY <1>3 DEF PassInv, Narrowed
  <2> QED
    BY <1>1, <2>1, StaysOut
<1> QED
  BY <1>2, <1>3

\* Where the loop goes on, what the pass keeps; it is something if there is any.
LEMMA WhatIsKept ==
  ASSUME PassInv, Looping
  PROVE  /\ Keeps \in SUBSET Present
         /\ kept = {} => iter = 0 /\ Keeps = Present
         /\ kept # {} => iter > 0 /\ Keeps = KeptOf(stats)
<1>1. iter \in Nat /\ stage = "pass"
  BY AggregateAssumption DEF PassInv, AggregateTypeOK, Looping
<1>2. (kept = {} => iter = 0) /\ (kept # {} => iter > 0)
  BY <1>1 DEF PassInv, Begun
<1>3. iter > 0 => iter # 0
  BY <1>1
<1> QED
  BY <1>2, <1>3 DEF Keeps, KeptOf

\* The branch for too much noise is not reached of an array that has times.
LEMMA KeepsSome ==
  ASSUME PassInv, TOLERANCE >= 2, Looping, Present # {}
  PROVE  Keeps # {}
<1> SUFFICES ASSUME Keeps = {} PROVE FALSE
  OBVIOUS
<1>1. kept # {} /\ KeptOf(stats) = {}
  BY WhatIsKept
<1>2. stats = Summary(kept) /\ ~Settled(stats) /\ Measured /\ kept \in SUBSET Present
  BY <1>1 DEF PassInv, Remembered, Looping, AggregateTypeOK, Measured
<1> QED
  BY <1>1, <1>2, SpreadOf

LEMMA NoiseInv == ASSUME PassInv, TOLERANCE >= 2, Noise PROVE PassInv'
<1>1. Looping /\ Keeps = {} /\ times' = times
  BY DEF Noise
<1>2. Present = {}
  BY <1>1, KeepsSome
<1>3. kept = {}
  BY <1>2 DEF PassInv, AggregateTypeOK
<1>4. Present' = Present
  BY <1>1, SameTimes
<1>5. AggregateTypeOK'
  BY <1>4 DEF PassInv, AggregateTypeOK, Noise
<1>6. Begun'
  BY <1>2, <1>3, <1>4 DEF PassInv, Begun, Noise, Looping
<1>7. Remembered' /\ Narrowed' /\ Narrowing'
  BY <1>3 DEF Remembered, Narrowed, Narrowing, Noise
<1> QED
  BY <1>5, <1>6, <1>7 DEF PassInv

LEMMA LoopOverInv == ASSUME PassInv, LoopOver PROVE PassInv'
<1>1. /\ MAX_ITER \in Nat /\ MAX_ITER > 0 /\ iter \in 0..MAX_ITER /\ changed \in {"yes", "no"}
      /\ stage = "pass" /\ times' = times /\ ~Looping
  BY AggregateAssumption DEF PassInv, AggregateTypeOK, LoopOver
<1>2. iter = MAX_ITER \/ changed = "no"
  BY <1>1 DEF Looping
<1>3. kept # {}
  BY <1>1 DEF PassInv, Begun, Looping
<1>4. Present' = Present /\ \A S : Summary(S)' = Summary(S) /\ \A st : KeptOf(st)' = KeptOf(st)
  BY <1>1, SameTimes
<1>5. UNCHANGED <<times, iter, stats, kept, lo, hi, changed>> /\ stage' = "cut"
  BY DEF LoopOver
<1>6. AggregateTypeOK'
  BY <1>4, <1>5 DEF PassInv, AggregateTypeOK
<1>7. Begun'
  BY <1>2, <1>3, <1>5 DEF Begun
<1>8. Summary(kept)' = Summary(kept)
  BY <1>5 DEF Summary
<1>9. Remembered'
  BY <1>5, <1>8 DEF PassInv, Remembered
<1>10. Narrowed'
  <2>1. ASSUME NEW S PROVE KeptOf(Summary(S))' = KeptOf(Summary(S))
    BY <1>5 DEF KeptOf, Present, Within, Summary, Spread
  <2>2. kept' = kept /\ Present' = Present
    BY <1>4, <1>5
  <2>3. Narrowed
    BY DEF PassInv
  <2> QED
    BY <2>1, <2>2, <2>3 DEF Narrowed
<1>11. Narrowing'
  <2>1. Stable' = Stable
    BY <1>5 DEF Stable, KeptOf, Present, Within, Spread
  <2>2. Narrowing
    BY DEF PassInv
  <2> QED
    BY <1>1, <1>4, <1>5, <2>1, <2>2 DEF Narrowing
<1> QED
  BY <1>6, <1>7, <1>9, <1>10, <1>11 DEF PassInv

\* What a pass saves has its type, whatever the tolerance.
LEMMA PassTyped == ASSUME AggregateTypeOK, Pass PROVE AggregateTypeOK'
<1>1. /\ Looping /\ Keeps # {} /\ times' = times
      /\ kept' = Keeps /\ stats' = Summary(Keeps) /\ lo' = Min(Keeps) /\ hi' = Max(Keeps)
      /\ changed' \in {"yes", "no"}
      /\ \/ stage' = "settled" /\ iter' = iter
         \/ stage' = stage /\ iter' = iter + 1
  BY DEF Pass, PassTo
<1>2. /\ MAX_ITER \in Nat /\ iter \in Nat /\ iter < MAX_ITER /\ stage = "pass"
      /\ Measured /\ Values \subseteq Int /\ IsFiniteSet(Values)
      /\ Keeps \in SUBSET Present /\ Keeps \in SUBSET Values
  BY <1>1, AggregateAssumption DEF AggregateTypeOK, Looping, Measured, Present, Keeps
<1>3. IsFiniteSet(Keeps) /\ Keeps \subseteq Int
  BY <1>2, FS_Subset
<1>4. Min(Keeps) \in Int /\ Max(Keeps) \in Int
  BY <1>1, <1>3, Extremes
<1>5. Summary(Keeps) \in [n : Nat, s : Int, q : Int]
  BY <1>2, SummaryType
<1>6. stage' \in {"pass", "settled"} /\ iter' \in 0..MAX_ITER
  BY <1>1, <1>2
<1>7. Present' = Present
  BY <1>1, SameTimes
<1> QED
  BY <1>1, <1>2, <1>4, <1>5, <1>6, <1>7 DEF AggregateTypeOK

LEMMA PassKeepsInv == ASSUME PassInv, TOLERANCE >= 2, Pass PROVE PassInv'
<1>1. /\ Looping /\ Keeps # {} /\ times' = times
      /\ kept' = Keeps /\ stats' = Summary(Keeps) /\ lo' = Min(Keeps) /\ hi' = Max(Keeps)
      /\ changed' = (IF iter = 0 \/ Present \ Keeps # {} THEN "yes" ELSE "no")
  BY DEF Pass, PassTo
<1>2. IF Settled(Summary(Keeps)) THEN stage' = "settled" /\ iter' = iter
                                 ELSE iter' = iter + 1 /\ stage' = stage
  BY DEF Pass, PassTo
<1>3. /\ MAX_ITER \in Nat /\ iter \in Nat /\ iter < MAX_ITER /\ stage = "pass" /\ changed = "yes"
      /\ Measured /\ Values \subseteq Int /\ IsFiniteSet(Values) /\ Present \subseteq Values
  BY <1>1, AggregateAssumption DEF PassInv, AggregateTypeOK, Looping, Measured, Present
<1>4. /\ Keeps \in SUBSET Present
      /\ kept = {} => iter = 0 /\ Keeps = Present
      /\ kept # {} => iter > 0 /\ Keeps = KeptOf(stats) /\ Keeps \subseteq kept
  BY <1>1, WhatIsKept, KeepsFewer
<1>5. Present' = Present
  BY <1>1, SameTimes
<1>6. Summary(kept)' = Summary(Keeps)
  BY <1>1 DEF Summary
<1>7. IsFiniteSet(Keeps) /\ IsFiniteSet(Present) /\ IsFiniteSet(kept) /\ Keeps \subseteq Int
  BY <1>3, <1>4, FS_Subset DEF PassInv, AggregateTypeOK
<1>8. AggregateTypeOK'
  BY PassTyped DEF PassInv
<1>9. Begun'
  <2>1. kept' # {} /\ stage' \in {"pass", "settled"} /\ (stage' = "pass" => iter' > 0)
    BY <1>1, <1>2, <1>3
  <2> QED
    BY <2>1 DEF Begun
<1>10. Remembered'
  <2>1. stage' = "pass" => ~Settled(stats')
    BY <1>1, <1>2
  <2>2. Settled(stats)' = Settled(stats')
    BY DEF Settled, Spread
  <2> QED
    BY <1>1, <1>6, <2>1, <2>2 DEF Remembered
<1>11. Narrowed'
  <2>1. CASE kept = {}
    BY <1>1, <1>4, <1>5, <2>1 DEF Narrowed
  <2>2. CASE kept # {}
    <3>1. kept' \subseteq kept /\ kept' = KeptOf(Summary(kept)) /\ kept \in SUBSET Present
      BY <1>1, <1>4, <2>2 DEF PassInv, Remembered, AggregateTypeOK
    <3>2. ASSUME NEW S PROVE KeptOf(Summary(S))' = KeptOf(Summary(S))
      BY <1>1 DEF KeptOf, Present, Within, Summary, Spread
    <3>3. PICK S \in SUBSET Present : kept' \subseteq S /\ kept' = KeptOf(Summary(S))
      BY <3>1
    <3> QED
      BY <1>5, <3>2, <3>3 DEF Narrowed
  <2> QED
    BY <2>1, <2>2
<1>12. Narrowing'
  <2> SUFFICES ASSUME stage' \in {"pass", "cut"}, ~Stable'
               PROVE  changed' = "yes" /\ Cardinality(kept') + iter' <= Cardinality(Present) + 1
    BY <1>5 DEF Narrowing
  <2>1. iter' = iter + 1 /\ kept' = Keeps
    BY <1>1, <1>2
  <2>2. CASE kept = {}
    <3>1. iter' = 1 /\ kept' = Present /\ changed' = "yes" /\ Cardinality(Present) \in Nat
      BY <1>1, <1>4, <1>7, <2>1, <2>2, FS_CardinalityType
    <3> QED
      BY <3>1
  <2>3. CASE kept # {}
    <3>1. Keeps # kept
      <4> SUFFICES ASSUME Keeps = kept PROVE FALSE
        OBVIOUS
      <4>1. stats' = stats /\ kept' = kept
        BY <1>1, <2>3 DEF PassInv, Remembered
      <4>2. Stable' <=> Stable
        BY <1>1, <4>1 DEF Stable, KeptOf, Present, Within, Spread
      <4> QED
        BY <1>4, <2>3, <4>2 DEF Stable
    <3>2. ~Stable
      BY <1>4, <2>3, <3>1 DEF Stable
    <3>3. Cardinality(kept) + iter <= Cardinality(Present) + 1
      BY <1>3, <2>3, <3>2 DEF PassInv, Narrowing
    <3>4. PICK z \in kept : z \notin Keeps
      BY <1>4, <2>3, <3>1
    <3>5. /\ Cardinality(Keeps) \in Nat /\ Cardinality(kept) \in Nat /\ Cardinality(Present) \in Nat
      BY <1>7, FS_CardinalityType
    <3>6. Cardinality(Keeps) < Cardinality(kept)
      <4>1. Keeps \in SUBSET kept
        BY <1>4, <2>3
      <4>2. Cardinality(Keeps) <= Cardinality(kept) /\ Cardinality(Keeps) # Cardinality(kept)
        <5>1. \A T \in SUBSET kept : /\ Cardinality(T) <= Cardinality(kept)
                                     /\ Cardinality(kept) = Cardinality(T) => kept = T
          BY ONLY <1>7, FS_Subset
        <5> QED
          BY <3>1, <4>1, <5>1
      <4> QED
        BY <3>5, <4>2
    <3>7. changed' = "yes"
      BY <1>1, <3>4 DEF PassInv, AggregateTypeOK
    <3> QED
      BY <1>3, <2>1, <3>3, <3>5, <3>6, <3>7
  <2> QED
    BY <2>2, <2>3
<1> QED
  BY <1>8, <1>9, <1>10, <1>11, <1>12 DEF PassInv

LEMMA AggregateStutter == ASSUME PassInv, UNCHANGED aggregateVars PROVE PassInv'
<1>1. /\ Present' = Present /\ Stable' = Stable /\ Settled(stats)' = Settled(stats)
      /\ Summary(kept)' = Summary(kept)
  BY DEF aggregateVars, Present, Stable, KeptOf, Within, Spread, Settled, Summary
<1>2. ASSUME NEW S PROVE KeptOf(Summary(S))' = KeptOf(Summary(S))
  BY DEF aggregateVars, KeptOf, Present, Within, Summary, Spread
<1>3. Narrowed'
  BY <1>1, <1>2 DEF PassInv, Narrowed, aggregateVars
<1> QED
  BY <1>1, <1>3 DEF PassInv, AggregateTypeOK, Begun, Remembered, Narrowing, aggregateVars

\* The invariant holds in every state, if a time is thrown out only at two or
\* more deviations from the mean.
LEMMA PassInvAlways == ASSUME TOLERANCE >= 2 PROVE AggregateSpec => []PassInv
<1>1. ASSUME PassInv, [AggregateNext]_aggregateVars PROVE PassInv'
  BY <1>1, NoiseInv, PassKeepsInv, LoopOverInv, AggregateStutter DEF AggregateNext
<1> QED
  BY <1>1, PassInvInit, PTL DEF AggregateSpec

LEMMA SettledAgree == ASSUME PassInv PROVE ResultsAgree
<1> SUFFICES ASSUME Done, Present # {}
             PROVE  /\ stage # "noise"
                    /\ stats = Summary(kept) /\ lo = Min(kept) /\ hi = Max(kept)
                    /\ lo * stats.n <= stats.s /\ stats.s <= hi * stats.n
  BY DEF ResultsAgree
<1>1. kept # {} /\ stage # "noise"
  BY DEF PassInv, Begun, Done
<1>2. stats = Summary(kept) /\ lo = Min(kept) /\ hi = Max(kept)
  BY <1>1 DEF PassInv, Remembered
<1>3. kept \in SUBSET Values /\ kept \subseteq Int /\ IsFiniteSet(kept) /\ Measured
  <2>1. kept \in SUBSET Values /\ Measured
    BY DEF PassInv, AggregateTypeOK, Measured, Present
  <2> QED
    BY <2>1, AggregateAssumption, FS_Subset
<1>4. PICK n \in Nat, s \in Int, q \in Int : n = stats.n /\ s = stats.s /\ q = stats.q
  BY <1>2, <1>3, SummaryType
<1>5. \A v \in kept : v \in Int /\ lo <= v /\ v <= hi
  BY <1>1, <1>2, <1>3, Extremes
<1>6. lo \in Int /\ hi \in Int
  BY DEF PassInv, AggregateTypeOK
<1>7. 0 * q + 1 * s + (-lo) * n >= 0
  <2>1. \A v \in kept : 0 * (v * v) + 1 * v + (-lo) >= 0
    BY <1>5, <1>6
  <2>2. -lo \in Int
    BY <1>6
  <2>3. 0 * Summary(kept).q + 1 * Summary(kept).s + (-lo) * Summary(kept).n >= 0
    BY <1>3, <2>1, <2>2, Quadratic
  <2> QED
    BY <1>2, <1>4, <2>3
<1>8. 0 * q + (-1) * s + hi * n >= 0
  <2>1. \A v \in kept : 0 * (v * v) + (-1) * v + hi >= 0
    BY <1>5, <1>6
  <2>2. 0 * Summary(kept).q + (-1) * Summary(kept).s + hi * Summary(kept).n >= 0
    BY <1>3, <1>6, <2>1, Quadratic
  <2> QED
    BY <1>2, <1>4, <2>2
<1>9. lo * n <= s /\ s <= hi * n
  BY <1>6, <1>7, <1>8
<1> QED
  BY <1>1, <1>2, <1>4, <1>9

\* A pass that threw something out was followed by a smaller one, so a loop that
\* ran out of passes has used up the times.
LEMMA CutConverged == ASSUME PassInv PROVE FewTimesConverge
<1> SUFFICES ASSUME stage = "cut", Cardinality(Present) < MAX_ITER, ~Stable PROVE FALSE
  BY DEF FewTimesConverge, Stable, KeptOf
<1>1. kept # {} /\ MAX_ITER \in Nat
  BY AggregateAssumption DEF PassInv, Begun
<1>2. changed = "yes" /\ Cardinality(kept) + iter <= Cardinality(Present) + 1
  BY <1>1 DEF PassInv, Narrowing
<1>3. iter = MAX_ITER
  BY <1>2 DEF PassInv, Begun
<1>4. IsFiniteSet(kept) /\ IsFiniteSet(Present)
  <2>1. kept \subseteq Values /\ Present \subseteq Values
    BY DEF PassInv, AggregateTypeOK, Present
  <2> QED
    BY <2>1, AggregateAssumption, FS_Subset
<1>5. Cardinality(kept) \in Nat /\ Cardinality(Present) \in Nat /\ Cardinality(kept) # 0
  BY <1>1, <1>4, FS_CardinalityType, FS_EmptySet
<1> QED
  BY <1>1, <1>2, <1>3, <1>5

LEMMA OutForGood ==
  ASSUME PassInv, TOLERANCE >= 2, [AggregateNext]_aggregateVars, iter > 0
  PROVE  kept' \subseteq kept
<1>1. CASE Pass
  <2>1. kept # {}
    <3>1. Looping /\ iter \in Nat
      BY <1>1 DEF Pass, PassTo, PassInv, AggregateTypeOK
    <3> QED
      BY <3>1, WhatIsKept
  <2>2. kept' = Keeps /\ Looping
    BY <1>1 DEF Pass, PassTo
  <2> QED
    BY <2>1, <2>2, WhatIsKept, KeepsFewer
<1>2. CASE ~Pass
  BY <1>2 DEF AggregateNext, Noise, LoopOver, aggregateVars
<1> QED
  BY <1>1, <1>2
-------------------------------------------------------------------------------
\* Whatever aggregate reports is of one set of times: mean and deviation are
\* those of the times that the last pass kept, and *min and *max bound the mean;
\* "Too much noise!" (l. 121) is never printed of an array that has times.
THEOREM ReportedOfOneSet ==
  ASSUME TOLERANCE >= 2
  PROVE  AggregateSpec => []ResultsAgree
<1>1. PassInv => ResultsAgree
  BY SettledAgree
<1> QED
  BY PassInvAlways, <1>1, PTL

\* If the loop of aggregate ends with the tests of line 93 on fewer different
\* times than passes, the times it kept are those near their own mean.
THEOREM ConvergesInTime ==
  ASSUME TOLERANCE >= 2
  PROVE  AggregateSpec => []FewTimesConverge
<1>1. PassInv => FewTimesConverge
  BY CutConverged
<1> QED
  BY PassInvAlways, <1>1, PTL

\* A pass of aggregate never takes back a time that an earlier one threw out,
\* although it looks at the whole array again.
THEOREM OutStaysOut ==
  ASSUME TOLERANCE >= 2
  PROVE  AggregateSpec => NeverKeptAgain
<1>1. ASSUME PassInv, [AggregateNext]_aggregateVars
      PROVE  [iter > 0 => kept' \subseteq kept]_aggregateVars
  BY <1>1, OutForGood
<1> QED
  BY PassInvAlways, <1>1, PTL DEF AggregateSpec, NeverKeptAgain

\* Types of the variables of aggregate, for every tolerance; the counter of passes
\* stays within MAX_ITER and what is kept was measured.
THEOREM PassesTyped == AggregateSpec => []AggregateTypeOK
<1>1. AggregateInit => AggregateTypeOK
  BY PassInvInit DEF PassInv
<1>2. ASSUME AggregateTypeOK, [AggregateNext]_aggregateVars PROVE AggregateTypeOK'
  <2>1. CASE Pass
    BY <1>2, <2>1, PassTyped
  <2>2. CASE Noise \/ LoopOver \/ UNCHANGED aggregateVars
    BY <1>2, <2>2 DEF AggregateTypeOK, Noise, LoopOver, aggregateVars, Present
  <2> QED
    BY <1>2, <2>1, <2>2 DEF AggregateNext
<1> QED
  BY <1>1, <1>2, PTL DEF AggregateSpec

\* A behaviour of both halves of collect_results is one of closest_k and one of
\* aggregate: what is proved of either holds of the run that checks them.
THEOREM StatisticsAreRuns == StatisticsSpec => Spec /\ AggregateSpec
<1>1. StatisticsInit => Init /\ AggregateInit
  BY DEF StatisticsInit
<1>2. ASSUME [StatisticsNext]_<<half, vars, aggregateVars>>
      PROVE  [Next]_vars /\ [AggregateNext]_aggregateVars
  BY <1>2 DEF StatisticsNext
<1> QED
  BY <1>1, <1>2, PTL DEF StatisticsSpec, Spec, AggregateSpec
===============================================================================
