------------------------------- MODULE CtxSwitch ------------------------------
(***************************************************************************)
(* context_switch_test (LEBench-Sim/src/bench/ctx_switch_test.c): parent   *)
(* and child, both pinned to core 0 at priority -20, pass a byte to and    *)
(* fro through two pipes; the parent times write plus read.  What is       *)
(* pinned is undone on return by save_affinity_priority(true).  A pipe is  *)
(* the number of bytes in it; no process closes an end, so a read of an    *)
(* empty pipe blocks even when the other process is gone.                  *)
(***************************************************************************)
EXTENDS Naturals

CONSTANTS Iter, MayFail

Calls == {"save", "setup", "fork", "set_parent", "set_child", "restore", "kill"}

ASSUME CtxAssumption == Iter \in Nat \ {0} /\ MayFail \subseteq Calls

Attributes == {"affinity", "priority"}

VARIABLES
  ppc, sidx, ret,   \* parent: control point, loop index, returned value
  roi,              \* region of interest, "open" or "closed"
  cpc, cidx, child, \* child: control point, loop index, "none"/"alive"/"dead"
  saved,            \* the static flag of save_affinity_priority
  ptuned, ctuned,   \* attributes of parent and child that are not as saved
  fds1, fds2        \* bytes in the two pipes

parentVars == <<ppc, sidx, ret, roi, ptuned>>
childVars == <<cpc, cidx, child, ctuned>>
pipes == <<fds1, fds2>>
vars == <<parentVars, childVars, pipes, saved>>

Init ==
  /\ ppc = "save" /\ sidx = 0 /\ ret = "none" /\ roi = "closed" /\ ptuned = {}
  /\ cpc = "unborn" /\ cidx = 0 /\ child = "none" /\ ctuned = {}
  /\ saved = "no" /\ fds1 = 0 /\ fds2 = 0
-------------------------------------------------------------------------------
\* Variants of operations below, as plausible mistakes would write them.

\* The parent does not wait for the child to be pinned.
ParentReadyAtOnce ==
  /\ ppc = "await_ready" /\ ppc' = "write" /\ roi' = "open"
  /\ UNCHANGED <<sidx, ret, ptuned, childVars, pipes, saved>>

\* The error path of the parent leaves without the cleanup.
ParentCleanupSkipped ==
  /\ ppc \in {"cleanup", "err"}
  /\ ppc' = "done" /\ ret' = IF ppc = "err" THEN "true" ELSE "false"
  /\ UNCHANGED <<sidx, roi, ptuned, childVars, pipes, saved>>

\* The child answers before it is asked.
ChildReadSkipped ==
  /\ cpc = "read" /\ cpc' = "write"
  /\ UNCHANGED <<cidx, child, ctuned, parentVars, pipes, saved>>

\* The child does not tell that it is ready.
ChildReadySilent ==
  /\ cpc = "ready" /\ cpc' = "read"
  /\ UNCHANGED <<cidx, child, ctuned, parentVars, pipes, saved>>

\* The child waits for one byte more than the parent writes.
ChildWriteOnce ==
  /\ cpc = "write"
  /\ fds2' = fds2 + 1 /\ cidx' = cidx + 1 /\ cpc' = "read"
  /\ UNCHANGED <<child, ctuned, parentVars, fds1, saved>>
-------------------------------------------------------------------------------
\* set_affinity_priority makes both calls and reports the failure of either.
Tuned(call, ok, tuned) ==
  \/ ok /\ tuned = Attributes
  \/ ~ok /\ call \in MayFail /\ tuned \in SUBSET Attributes \ {Attributes}

\* save_affinity_priority(true): both calls again; one that fails leaves its
\* attribute as the test set it.
Undone(before, after) ==
  IF "restore" \in MayFail THEN after \in SUBSET before ELSE after = {}

Save ==
  /\ ppc = "save"
  /\ \/ saved' = "yes" /\ ppc' = "setup" /\ UNCHANGED ret
     \/ "save" \in MayFail /\ saved' = "no" /\ ppc' = "done" /\ ret' = "true"
  /\ UNCHANGED <<sidx, roi, ptuned, childVars, pipes>>

Setup ==
  /\ ppc = "setup"
  /\ \/ ppc' = "fork"
     \/ "setup" \in MayFail /\ ppc' = "err"
  /\ UNCHANGED <<sidx, ret, roi, ptuned, childVars, pipes, saved>>

Fork ==
  /\ ppc = "fork"
  /\ \/ ppc' = "set" /\ cpc' = "set" /\ child' = "alive" /\ ctuned' = ptuned
     \/ "fork" \in MayFail /\ ppc' = "err" /\ UNCHANGED <<cpc, child, ctuned>>
  /\ UNCHANGED <<sidx, ret, roi, ptuned, cidx, pipes, saved>>

\* On failure the parent leaves without killing or awaiting the child.
ParentSet ==
  /\ ppc = "set"
  /\ \/ Tuned("set_parent", TRUE, ptuned') /\ ppc' = "await_ready"
     \/ Tuned("set_parent", FALSE, ptuned') /\ ppc' = "err"
  /\ UNCHANGED <<sidx, ret, roi, childVars, pipes, saved>>

ParentReady ==
  /\ ppc = "await_ready" /\ fds2 > 0
  /\ fds2' = fds2 - 1 /\ ppc' = "write" /\ roi' = "open"
  /\ UNCHANGED <<sidx, ret, ptuned, childVars, fds1, saved>>

ParentWrite ==
  /\ ppc = "write"
  /\ fds1' = fds1 + 1 /\ ppc' = "read"
  /\ UNCHANGED <<sidx, ret, roi, ptuned, childVars, fds2, saved>>

ParentRead ==
  /\ ppc = "read" /\ fds2 > 0
  /\ fds2' = fds2 - 1 /\ sidx' = sidx + 1
  /\ IF sidx + 1 < Iter
     THEN ppc' = "write" /\ UNCHANGED roi
     ELSE ppc' = "wait" /\ roi' = "closed"
  /\ UNCHANGED <<ret, ptuned, childVars, fds1, saved>>

ParentWait ==
  /\ ppc = "wait" /\ child = "dead"
  /\ ppc' = "cleanup"
  /\ UNCHANGED <<sidx, ret, roi, ptuned, childVars, pipes, saved>>

\* cleanup, entered directly or through err, which sets ret; the assertion of
\* save_affinity_priority fails when nothing was saved.
ParentCleanup ==
  /\ ppc \in {"cleanup", "err"}
  /\ IF saved = "yes"
     THEN /\ Undone(ptuned, ptuned')
          /\ ppc' = "done" /\ ret' = IF ppc = "err" THEN "true" ELSE "false"
     ELSE ppc' = "asserted" /\ UNCHANGED <<ptuned, ret>>
  /\ UNCHANGED <<sidx, roi, childVars, pipes, saved>>

Parent ==
  \/ Save \/ Setup \/ Fork \/ ParentSet \/ ParentReady \/ ParentWrite
  \/ ParentRead \/ ParentWait \/ ParentCleanup
-------------------------------------------------------------------------------
ChildSet ==
  /\ cpc = "set"
  /\ \/ Tuned("set_child", TRUE, ctuned') /\ cpc' = "ready"
     \/ Tuned("set_child", FALSE, ctuned') /\ cpc' = "err"
  /\ UNCHANGED <<cidx, child, parentVars, pipes, saved>>

ChildReady ==
  /\ cpc = "ready"
  /\ fds2' = fds2 + 1 /\ cpc' = "read"
  /\ UNCHANGED <<cidx, child, ctuned, parentVars, fds1, saved>>

ChildRead ==
  /\ cpc = "read" /\ fds1 > 0
  /\ fds1' = fds1 - 1 /\ cpc' = "write"
  /\ UNCHANGED <<cidx, child, ctuned, parentVars, fds2, saved>>

ChildWrite ==
  /\ cpc = "write"
  /\ fds2' = fds2 + 1 /\ cidx' = cidx + 1
  /\ cpc' = IF cidx + 1 < Iter THEN "read" ELSE "kill"
  /\ UNCHANGED <<child, ctuned, parentVars, fds1, saved>>

\* The child kills itself; if that fails it goes to err.
ChildKill ==
  /\ cpc = "kill"
  /\ \/ cpc' = "killed" /\ child' = "dead"
     \/ "kill" \in MayFail /\ cpc' = "err" /\ UNCHANGED child
  /\ UNCHANGED <<cidx, ctuned, parentVars, pipes, saved>>

\* err and cleanup in the child, which then returns true to main and exits.
ChildCleanup ==
  /\ cpc = "err"
  /\ IF saved = "yes"
     THEN Undone(ctuned, ctuned') /\ cpc' = "returned"
     ELSE cpc' = "asserted" /\ UNCHANGED ctuned
  /\ child' = "dead"
  /\ UNCHANGED <<cidx, parentVars, pipes, saved>>

Child ==
  \/ ChildSet \/ ChildReady \/ ChildRead \/ ChildWrite \/ ChildKill \/ ChildCleanup

Next == Parent \/ Child

\* A process that can run is eventually scheduled.
Spec == Init /\ [][Next]_vars
FairSpec == Spec /\ WF_vars(Parent) /\ WF_vars(Child)
-------------------------------------------------------------------------------
\* Types, and at most one byte in a pipe.
TypeOK ==
  /\ ppc \in {"save", "setup", "fork", "set", "await_ready", "write", "read",
              "wait", "cleanup", "err", "done", "asserted"}
  /\ sidx \in 0..Iter /\ ret \in {"none", "true", "false"}
  /\ roi \in {"open", "closed"}
  /\ cpc \in {"unborn", "set", "ready", "read", "write", "kill", "killed",
              "err", "returned", "asserted"}
  /\ cidx \in 0..Iter /\ child \in {"none", "alive", "dead"}
  /\ saved \in {"yes", "no"} /\ ptuned \subseteq Attributes /\ ctuned \subseteq Attributes
  /\ fds1 \in 0..1 /\ fds2 \in 0..1

\* "it should never happen" (l. 43): no path of either process restores what
\* was not saved.
RestoreNeverAsserts == ppc # "asserted" /\ cpc # "asserted"

\* From the start of a round until the child has answered it both processes
\* are pinned and prioritised: the parent enters the loop on a byte the child
\* writes after its own call.
TimedWhilePinned ==
  ppc = "write" \/ (ppc = "read" /\ fds2 = 0) =>
    ptuned = Attributes /\ ctuned = Attributes

\* Whichever path a process returns by, its affinity and priority are the
\* saved ones, provided the restoring calls succeed (l. 112-115).
AffinityRestored ==
  "restore" \notin MayFail =>
    /\ ppc = "done" => ptuned = {}
    /\ cpc = "returned" => ctuned = {}

\* The rounds of the two processes never overlap: a round starts with the
\* write of line 82 and is answered by the write of line 101.
Rounds == INSTANCE Lockstep WITH
            Rounds <- Iter,
            started <- sidx + (IF ppc = "read" THEN 1 ELSE 0),
            answered <- cidx
ImplementsLockstep == Rounds!Spec

\* Success means all rounds on both sides, empty pipes, a child that is gone
\* and a closed region of interest.
SuccessIsComplete ==
  ret = "false" =>
    /\ sidx = Iter /\ cidx = Iter /\ child = "dead"
    /\ fds1 = 0 /\ fds2 = 0 /\ roi = "closed"

\* The test returns unless the child could not be pinned: then the parent
\* waits for ever for the byte of line 98 in a pipe it holds open itself.
Returns == <>(ppc = "done" \/ (cpc = "returned" /\ cidx = 0))

\* A child ends unless its parent could not be pinned and left it behind: it
\* then waits for ever for the byte of line 82.
ChildEnds == child = "alive" ~> (child = "dead" \/ (ppc = "done" /\ ret = "true"))
===============================================================================
