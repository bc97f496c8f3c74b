--------------------------- MODULE CtxSwitchProofs ----------------------------
(***************************************************************************)
(* Safety of context_switch_test for every number of rounds and every set  *)
(* of failing calls.  Balance follows the child: each of its control       *)
(* points admits few of the parent and fixes pipes and loop indices.       *)
(***************************************************************************)
EXTENDS CtxSwitch, TLAPS

BeforeFork == {"save", "setup", "fork"}
GivesUp == {"err", "done"}

Unborn ==
  /\ ppc \in BeforeFork \cup GivesUp /\ child = "none" /\ ret # "false"
  /\ fds1 = 0 /\ fds2 = 0 /\ sidx = 0 /\ cidx = 0

\* The child is not ready: the parent has not written anything.
Preparing ==
  /\ ppc \in {"set", "await_ready"} \cup GivesUp /\ ret # "false"
  /\ fds1 = 0 /\ fds2 = 0 /\ sidx = 0 /\ cidx = 0

\* The child waits for round cidx: the parent has its answer to the round
\* before, or still has to read it, or has started the next.
Listening ==
  /\ cidx < Iter /\ ret # "false" /\ ctuned = Attributes
  /\ \/ /\ fds1 = 0 /\ fds2 = 1 /\ cidx = 0 /\ sidx = 0
        /\ ppc \in {"set", "await_ready"} \cup GivesUp
     \/ fds1 = 0 /\ fds2 = 1 /\ cidx = sidx + 1 /\ ppc = "read"
     \/ fds1 = 0 /\ fds2 = 0 /\ cidx = sidx /\ ppc = "write"
     \/ fds1 = 1 /\ fds2 = 0 /\ cidx = sidx /\ ppc = "read"

Answering ==
  /\ cidx < Iter /\ cidx = sidx /\ fds1 = 0 /\ fds2 = 0 /\ ppc = "read"
  /\ ctuned = Attributes

\* The child is through its loop.
Finished ==
  /\ cidx = Iter /\ fds1 = 0
  /\ \/ fds2 = 1 /\ cidx = sidx + 1 /\ ppc = "read"
     \/ fds2 = 0 /\ cidx = sidx /\ ppc \in {"wait", "cleanup", "done"}

Balance ==
  /\ cpc = "unborn" => Unborn
  /\ cpc \in {"set", "ready"} => Preparing /\ child = "alive"
  /\ cpc = "ready" => ctuned = Attributes
  /\ cpc = "read" => Listening /\ child = "alive"
  /\ cpc = "write" => Answering /\ child = "alive"
  /\ cpc = "kill" => Finished /\ child = "alive"
  /\ cpc \in {"err", "returned", "killed"} => Preparing \/ Finished
  /\ cpc = "killed" => Finished
  /\ cpc = "err" <=> (child = "alive" /\ cpc \notin {"set", "ready", "read", "write", "kill"})

ParentPart ==
  /\ ppc \in BeforeFork => cpc = "unborn" /\ ptuned = {}
  /\ ppc \in {"await_ready", "write", "read"} => ptuned = Attributes
  /\ ppc = "wait" => roi = "closed"
  /\ ppc = "cleanup" => roi = "closed" /\ child = "dead"
  /\ ret = "false" => ppc = "done" /\ roi = "closed" /\ child = "dead" /\ cidx = Iter
  /\ ppc # "done" => ret = "none"
  /\ ppc \notin {"save", "done"} => saved = "yes"
  /\ cpc # "unborn" => saved = "yes"

IInv == TypeOK /\ Balance /\ ParentPart /\ RestoreNeverAsserts /\ AffinityRestored
-------------------------------------------------------------------------------
\* The invariant holds before anything is saved.
LEMMA InitIInv == Init => IInv
  BY CtxAssumption
  DEF Init, IInv, TypeOK, Balance, ParentPart, RestoreNeverAsserts, AffinityRestored,
      Unborn, Preparing, Listening, Answering, Finished, BeforeFork, GivesUp

\* Every step of the parent keeps it.
LEMMA ParentIInv == IInv /\ Parent => IInv'
<1> SUFFICES ASSUME IInv, Parent PROVE IInv'
  OBVIOUS
<1> USE CtxAssumption
    DEF IInv, TypeOK, Balance, ParentPart, RestoreNeverAsserts, AffinityRestored,
        Unborn, Preparing, Listening, Answering, Finished, BeforeFork, GivesUp,
        childVars, pipes
<1>1. CASE Save
  BY <1>1 DEF Save
<1>2. CASE Setup
  BY <1>2 DEF Setup
<1>3. CASE Fork
  BY <1>3 DEF Fork
<1>4. CASE ParentSet
  BY <1>4 DEF ParentSet, Tuned
<1>5. CASE ParentReady
  BY <1>5 DEF ParentReady
<1>6. CASE ParentWrite
  BY <1>6 DEF ParentWrite
<1>7. CASE ParentRead
  BY <1>7 DEF ParentRead
<1>8. CASE ParentWait
  BY <1>8 DEF ParentWait
<1>9. CASE ParentCleanup
  BY <1>9 DEF ParentCleanup, Undone
<1> QED
  BY <1>1, <1>2, <1>3, <1>4, <1>5, <1>6, <1>7, <1>8, <1>9 DEF Parent

\* Every step of the child keeps it.
LEMMA ChildIInv == IInv /\ Child => IInv'
<1> SUFFICES ASSUME IInv, Child PROVE IInv'
  OBVIOUS
<1> USE CtxAssumption
    DEF IInv, TypeOK, Balance, ParentPart, RestoreNeverAsserts, AffinityRestored,
        Unborn, Preparing, Listening, Answering, Finished, BeforeFork, GivesUp,
        parentVars, pipes
<1>1. CASE ChildSet
  BY <1>1 DEF ChildSet, Tuned
<1>2. CASE ChildReady
  BY <1>2 DEF ChildReady
<1>3. CASE ChildRead
  BY <1>3 DEF ChildRead
<1>4. CASE ChildWrite
  BY <1>4 DEF ChildWrite
<1>5. CASE ChildKill
  BY <1>5 DEF ChildKill
<1>6. CASE ChildCleanup
  BY <1>6 DEF ChildCleanup, Undone
<1> QED
  BY <1>1, <1>2, <1>3, <1>4, <1>5, <1>6 DEF Child

\* IInv holds in every reachable state.
LEMMA Invariance == Spec => []IInv
<1>1. IInv /\ UNCHANGED vars => IInv'
  BY DEF vars, parentVars, childVars, pipes, IInv, TypeOK, Balance, ParentPart, RestoreNeverAsserts, AffinityRestored,
      Unborn, Preparing, Listening, Answering, Finished, BeforeFork, GivesUp
<1>2. IInv /\ [Next]_vars => IInv'
  BY <1>1, ParentIInv, ChildIInv DEF Next
<1> QED
  BY <1>2, InitIInv, PTL DEF Spec
-------------------------------------------------------------------------------
\* The variables keep their types and a pipe holds at most one byte.
THEOREM TypeCorrect == Spec => []TypeOK
<1>1. IInv => TypeOK
  BY DEF IInv
<1> QED
  BY <1>1, Invariance, PTL

\* The assertion of save_affinity_priority (l. 43-44) never fails.
THEOREM AssertionHolds == Spec => []RestoreNeverAsserts
<1>1. IInv => RestoreNeverAsserts
  BY DEF IInv
<1> QED
  BY <1>1, Invariance, PTL

\* Every round is timed with both processes pinned (l. 73, 93, 98, 78).
THEOREM Pinned == Spec => []TimedWhilePinned
<1>1. IInv => TimedWhilePinned
  BY DEF TimedWhilePinned, IInv, TypeOK, Balance, ParentPart, RestoreNeverAsserts, AffinityRestored,
      Unborn, Preparing, Listening, Answering, Finished, BeforeFork, GivesUp
<1> QED
  BY <1>1, Invariance, PTL

\* Each way out of the function restores what it changed (l. 112-115).
THEOREM Restored == Spec => []AffinityRestored
<1>1. IInv => AffinityRestored
  BY DEF IInv
<1> QED
  BY <1>1, Invariance, PTL

\* Results stand for complete rounds on both sides (l. 80-91).
THEOREM SuccessComplete == Spec => []SuccessIsComplete
<1>1. IInv => SuccessIsComplete
  BY CtxAssumption
  DEF SuccessIsComplete, IInv, TypeOK, Balance, ParentPart, RestoreNeverAsserts, AffinityRestored,
      Unborn, Preparing, Listening, Answering, Finished, BeforeFork, GivesUp
<1> QED
  BY <1>1, Invariance, PTL
-------------------------------------------------------------------------------
\* A step of the parent starts a round or is invisible: reading the answer
\* leaves the number of started rounds as it is.
LEMMA ParentRefines == IInv /\ Parent => [Rounds!Next]_Rounds!lvars
<1> SUFFICES ASSUME IInv, Parent PROVE [Rounds!Next]_Rounds!lvars
  OBVIOUS
<1> USE DEF childVars
<1>1. CASE ParentWrite
  <2>1. ppc = "write" /\ ppc' = "read" /\ sidx' = sidx /\ cidx' = cidx
        /\ sidx = cidx /\ cidx < Iter /\ sidx \in Nat
    BY <1>1, CtxAssumption
    DEF ParentWrite, IInv, TypeOK, Balance, ParentPart, RestoreNeverAsserts, AffinityRestored,
      Unborn, Preparing, Listening, Answering, Finished, BeforeFork, GivesUp
  <2> QED
    BY <2>1 DEF Rounds!Next, Rounds!Start
<1>2. CASE ParentRead
  <2>1. ppc = "read" /\ ppc' # "read" /\ sidx' = sidx + 1 /\ cidx' = cidx /\ sidx \in Nat
    BY <1>2, CtxAssumption DEF ParentRead, IInv, TypeOK
  <2> QED
    BY <2>1 DEF Rounds!lvars
<1>3. CASE ~ParentWrite /\ ~ParentRead
  <2>1. ppc # "read" /\ ppc' # "read" /\ sidx' = sidx /\ cidx' = cidx
    BY <1>3
    DEF Parent, Save, Setup, Fork, ParentSet, ParentReady, ParentWait, ParentCleanup
  <2> QED
    BY <2>1 DEF Rounds!lvars
<1> QED
  BY <1>1, <1>2, <1>3

\* A step of the child answers a round or is invisible.
LEMMA ChildRefines == IInv /\ Child => [Rounds!Next]_Rounds!lvars
<1> SUFFICES ASSUME IInv, Child PROVE [Rounds!Next]_Rounds!lvars
  OBVIOUS
<1> USE DEF parentVars
<1>1. CASE ChildWrite
  <2>1. ppc = "read" /\ ppc' = ppc /\ sidx' = sidx /\ cidx' = cidx + 1
        /\ sidx = cidx /\ cidx \in Nat
    BY <1>1, CtxAssumption
    DEF ChildWrite, IInv, TypeOK, Balance, ParentPart, RestoreNeverAsserts, AffinityRestored,
      Unborn, Preparing, Listening, Answering, Finished, BeforeFork, GivesUp
  <2> QED
    BY <2>1 DEF Rounds!Next, Rounds!Answer
<1>2. CASE ~ChildWrite
  <2>1. UNCHANGED <<ppc, sidx, cidx>>
    BY <1>2 DEF Child, ChildSet, ChildReady, ChildRead, ChildKill, ChildCleanup
  <2> QED
    BY <2>1 DEF Rounds!lvars
<1> QED
  BY <1>1, <1>2

\* context_switch_test implements the abstract rounds, for every number of
\* rounds: no round is answered before it starts or started before the last
\* was answered.
THEOREM Refinement == Spec => ImplementsLockstep
<1>1. Init => Rounds!Init
  BY DEF Init, Rounds!Init
<1>2. IInv /\ [Next]_vars => [Rounds!Next]_Rounds!lvars
  <2>1. UNCHANGED vars => UNCHANGED Rounds!lvars
    BY DEF vars, parentVars, childVars, Rounds!lvars
  <2> QED
    BY <2>1, ParentRefines, ChildRefines DEF Next
<1> QED
  BY <1>1, <1>2, Invariance, PTL DEF Spec, ImplementsLockstep, Rounds!Spec
===============================================================================
