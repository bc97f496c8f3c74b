------------------------------- MODULE ForkBench ------------------------------
(***************************************************************************)
(* fork_test: in each round the parent forks a child, which stamps the     *)
(* time into a page both share and kills itself; the parent stamps its own *)
(* return from fork, waits, and takes the two durations.                   *)
(*                                                                         *)
(* now is a logical clock that each reading of the timer advances, so that *)
(* the order of two stamps is what is left of their difference.  Fails is  *)
(* the set of calls that may fail.  The region of interest is left out.    *)
(***************************************************************************)
EXTENDS Naturals

CONSTANTS Iter, Fails

Calls == {"setup", "fork", "kill", "malloc"}

ForkAssumption == Iter \in Nat \ {0} /\ Fails \subseteq Calls

VARIABLES
  ppc,           \* control point of the parent
  child,         \* "none", its control point, or "zombie"
  idx,
  now, tstart, t_parent_end,
  t_child_end,   \* in the shared page
  collected,     \* calls of collect_results
  ret            \* "unset", "false" or "true"

parent == <<ppc, idx, tstart, t_parent_end, collected, ret>>
vars == <<parent, child, now, t_child_end>>

Init ==
  /\ ppc = "setup" /\ child = "none" /\ idx = 0 /\ now = 1
  /\ tstart = 0 /\ t_parent_end = 0 /\ t_child_end = 0 /\ collected = 0 /\ ret = "unset"
-------------------------------------------------------------------------------
Go(from, to) == ppc = from /\ ppc' = to

\* err: and cleanup:
Return(from, value) == Go(from, "done") /\ ret' = value

Setup ==
  /\ \/ Go("setup", "start") /\ UNCHANGED ret
     \/ "setup" \in Fails /\ Return("setup", "true")
  /\ UNCHANGED <<child, idx, now, tstart, t_parent_end, t_child_end, collected>>

Start ==
  /\ idx < Iter /\ Go("start", "fork")
  /\ tstart' = now /\ now' = now + 1
  /\ UNCHANGED <<child, idx, t_parent_end, t_child_end, collected, ret>>

Fork ==
  /\ \/ Go("fork", "stop") /\ child' = "stamp" /\ UNCHANGED ret
     \/ "fork" \in Fails /\ Return("fork", "true") /\ UNCHANGED child
  /\ UNCHANGED <<idx, now, tstart, t_parent_end, t_child_end, collected>>

ParentStop ==
  /\ Go("stop", "wait")
  /\ t_parent_end' = now /\ now' = now + 1
  /\ UNCHANGED <<child, idx, tstart, t_child_end, collected, ret>>

\* Variants of operations below, as plausible mistakes would write them.
WaitNot ==
  /\ Go("wait", "record")
  /\ UNCHANGED <<child, idx, now, tstart, t_parent_end, t_child_end, collected, ret>>
ChildStops ==  \* SIGSTOP for SIGINT
  /\ child = "kill" /\ child' = "stopped"
  /\ UNCHANGED <<parent, now, t_child_end>>

Wait ==
  /\ child = "zombie" /\ Go("wait", "record") /\ child' = "none"
  /\ UNCHANGED <<idx, now, tstart, t_parent_end, t_child_end, collected, ret>>

Record ==
  /\ Go("record", "start") /\ idx' = idx + 1
  /\ UNCHANGED <<child, now, tstart, t_parent_end, t_child_end, collected, ret>>

\* The results of the parent, and memory for those of the child: a malloc that
\* fails is noticed when collect_results writes to address 0.
Collect ==
  /\ idx = Iter
  /\ \/ Go("start", "done") /\ collected' = 2 /\ ret' = "false"
     \/ "malloc" \in Fails /\ Go("start", "crashed") /\ collected' = 1 /\ UNCHANGED ret
  /\ UNCHANGED <<child, idx, now, tstart, t_parent_end, t_child_end>>

Parent == Setup \/ Start \/ Fork \/ ParentStop \/ Wait \/ Record \/ Collect
-------------------------------------------------------------------------------
ChildStamp ==
  /\ child = "stamp" /\ child' = "kill"
  /\ t_child_end' = now /\ now' = now + 1
  /\ UNCHANGED parent

\* A SIGINT that is ignored lets the child return to its own main, which
\* reports a failure and exits.
ChildKill ==
  /\ child = "kill"
  /\ child' \in {"zombie"} \cup (IF "kill" \in Fails THEN {"main"} ELSE {})
  /\ UNCHANGED <<parent, now, t_child_end>>

ChildExit ==
  /\ child = "main" /\ child' = "zombie"
  /\ UNCHANGED <<parent, now, t_child_end>>

Child == ChildStamp \/ ChildKill \/ ChildExit

Next == Parent \/ Child

\* Both processes are scheduled by the kernel, and no call blocks but wait.
Spec == Init /\ [][Next]_vars
FairSpec == Spec /\ WF_vars(Parent) /\ WF_vars(Child)
-------------------------------------------------------------------------------
TypeOK ==
  /\ ppc \in {"setup", "start", "fork", "stop", "wait", "record", "done", "crashed"}
  /\ child \in {"none", "stamp", "kill", "main", "zombie"}
  /\ idx \in 0..Iter /\ collected \in 0..2 /\ ret \in {"unset", "false", "true"}
  /\ {now, tstart, t_parent_end, t_child_end} \subseteq Nat

\* When the durations of a round are taken (l. 67-68), both stamps are of this
\* very round, later than its start: no duration is negative or left over from
\* an earlier child, whichever process runs first.
StampsOfThisRound ==
  ppc = "record" =>
    tstart < t_parent_end /\ tstart < t_child_end /\ t_parent_end # t_child_end

\* There is never a second child: a round starts when the last one is reaped.
OneChild == ppc \in {"start", "fork", "done", "crashed"} => child = "none"

\* The test ends, whatever fails, and it crashes only out of memory.
Ends == <>(ppc = "done" \/ (ppc = "crashed" /\ "malloc" \in Fails))
===============================================================================
