--------------------------------- MODULE Tests --------------------------------
(***************************************************************************)
(* Runs of LEBench as a whole, and two of its tests in detail: the one     *)
(* that forks and the one that creates threads, which main sees as one     *)
(* step.  Each behaviour is about one of the three; the others stay where  *)
(* they begin.                                                             *)
(***************************************************************************)
EXTENDS LEBench

CONSTANTS ChildRounds,  \* bound: measured rounds of the two tests in detail
          ForkFails, ThreadFails

VARIABLES
  part,  \* what the behaviour is about: "main", "fork" or "thread"
  ppc, child, idx, now, tstart, t_parent_end, t_child_end, collected, ret,
  pc, thread, new_thrd, err, thrd_idx, thrd_now, thrd_tstart, thrd_parent_end, thrd_child_end,
  thrd_collected, thrd_ret

Fork == INSTANCE ForkBench WITH Iter <- ChildRounds, Fails <- ForkFails
Thrd == INSTANCE ThreadBench WITH
          Iter <- ChildRounds, Fails <- ThreadFails, idx <- thrd_idx, now <- thrd_now,
          tstart <- thrd_tstart, t_parent_end <- thrd_parent_end, t_child_end <- thrd_child_end,
          collected <- thrd_collected, ret <- thrd_ret

ASSUME TestsAssumption == Fork!ForkAssumption /\ Thrd!ThreadAssumption

forkVars == <<ppc, child, idx, now, tstart, t_parent_end, t_child_end, collected, ret>>
threadVars ==
  <<pc, thread, new_thrd, err, thrd_idx, thrd_now, thrd_tstart, thrd_parent_end, thrd_child_end,
    thrd_collected, thrd_ret>>

TestsInit ==
  /\ Init /\ Fork!Init /\ Thrd!Init
  /\ \/ part = "main" /\ thrd_child_end = 0
     \/ part = "fork" /\ thrd_child_end = 0 /\ \A p \in Procs : At(p, {"unborn"})
     \/ part = "thread" /\ \A p \in Procs : At(p, {"unborn"})

TestsNext ==
  /\ UNCHANGED part
  /\ \/ part = "main" /\ Next /\ UNCHANGED <<forkVars, threadVars>>
     \/ part = "fork" /\ Fork!Next /\ UNCHANGED <<vars, threadVars>>
     \/ part = "thread" /\ Thrd!Next /\ UNCHANGED <<vars, forkVars>>

TestsSpec ==
  /\ TestsInit /\ [][TestsNext]_<<part, vars, forkVars, threadVars>>
  /\ WF_forkVars(part = "fork" /\ Fork!Parent) /\ WF_forkVars(part = "fork" /\ Fork!Child)
-------------------------------------------------------------------------------
\* When fork_test takes the durations of a round (l. 67-68), both stamps are of
\* this very round, whichever process ran first.
StampsOfThisRound == Fork!StampsOfThisRound

\* fork_test ends, whatever fails, and crashes only out of memory (l. 74).
ForkEnds == part = "fork" => Fork!Ends

\* The stamp of a thread that was created is of this round, and no thread is
\* left that could still write to it (thrcreate_test.c:34).
StampOfThisRound == Thrd!StampOfThisRound
===============================================================================
