------------------------------ MODULE ThreadBench -----------------------------
(***************************************************************************)
(* thread_create_test: in each round the main thread creates one that      *)
(* stamps the time into a local variable of the main thread and exits,     *)
(* stamps its own return from pthread_create, and joins it.  The result of *)
(* pthread_create is ignored.  now is a logical clock, as in ForkBench.    *)
(***************************************************************************)
EXTENDS Naturals

CONSTANTS Iter, Fails

Calls == {"setup", "create", "malloc"}

ThreadAssumption == Iter \in Nat \ {0} /\ Fails \subseteq Calls

VARIABLES
  pc,           \* control point of the main thread
  thread,       \* "none", its control point, or "ended" (to be joined)
  new_thrd,     \* "none" (uninitialised), "joinable" or "joined"
  idx,
  err,          \* result of the last pthread_create, which nobody looks at
  now, tstart, t_parent_end,
  t_child_end,  \* whatever the stack held before the first stamp
  collected, ret

main == <<pc, new_thrd, idx, err, tstart, t_parent_end, collected, ret>>
vars == <<main, thread, now, t_child_end>>

Garbage == {0, 1000000}  \* a small number and one later than any stamp

Init ==
  /\ pc = "setup" /\ thread = "none" /\ new_thrd = "none" /\ idx = 0 /\ err = "ok" /\ now = 1
  /\ tstart = 0 /\ t_parent_end = 0 /\ t_child_end \in Garbage
  /\ collected = 0 /\ ret = "unset"
-------------------------------------------------------------------------------
Go(from, to) == pc = from /\ pc' = to
Return(from, value) == Go(from, "done") /\ ret' = value

Setup ==
  /\ \/ Go("setup", "start") /\ UNCHANGED ret
     \/ "setup" \in Fails /\ Return("setup", "true")
  /\ UNCHANGED <<err, thread, new_thrd, idx, now, tstart, t_parent_end, t_child_end, collected>>

\* Variants of operations below, as plausible mistakes would write them.
JoinNot ==
  /\ pc = "join" /\ new_thrd' = "joined" /\ pc' = "record"
  /\ UNCHANGED <<err, thread, idx, now, tstart, t_parent_end, t_child_end, collected, ret>>

Start ==
  /\ idx < Iter /\ Go("start", "create")
  /\ tstart' = now /\ now' = now + 1
  /\ UNCHANGED <<err, thread, new_thrd, idx, t_parent_end, t_child_end, collected, ret>>

\* A pthread_create that fails leaves the handle as it is, and goes unnoticed.
Create ==
  /\ Go("create", "stop")
  /\ \/ err' = "ok" /\ thread' = "stamp" /\ new_thrd' = "joinable"
     \/ "create" \in Fails /\ err' = "failed" /\ UNCHANGED <<thread, new_thrd>>
  /\ UNCHANGED <<idx, now, tstart, t_parent_end, t_child_end, collected, ret>>

ParentStop ==
  /\ Go("stop", "join")
  /\ t_parent_end' = now /\ now' = now + 1
  /\ UNCHANGED <<err, thread, new_thrd, idx, tstart, t_child_end, collected, ret>>

\* Joining a handle that is uninitialised or joined already is undefined: it
\* returns an error or crashes.
Join ==
  /\ pc = "join"
  /\ \/ /\ new_thrd = "joinable" /\ thread = "ended"
        /\ new_thrd' = "joined" /\ thread' = "none" /\ pc' = "record"
     \/ /\ new_thrd # "joinable" /\ pc' \in {"record", "crashed"}
        /\ UNCHANGED <<new_thrd, thread>>
  /\ UNCHANGED <<err, idx, now, tstart, t_parent_end, t_child_end, collected, ret>>

Record ==
  /\ Go("record", "start") /\ idx' = idx + 1
  /\ UNCHANGED <<err, thread, new_thrd, now, tstart, t_parent_end, t_child_end, collected, ret>>

Collect ==
  /\ idx = Iter
  /\ \/ Return("start", "false") /\ collected' = 2
     \/ "malloc" \in Fails /\ Return("start", "true") /\ collected' = 1
  /\ UNCHANGED <<err, thread, new_thrd, idx, now, tstart, t_parent_end, t_child_end>>

Main == Setup \/ Start \/ Create \/ ParentStop \/ Join \/ Record \/ Collect

\* t_func
Stamp ==
  /\ thread = "stamp" /\ thread' = "exit"
  /\ t_child_end' = now /\ now' = now + 1
  /\ UNCHANGED main

Exit ==
  /\ thread = "exit" /\ thread' = "ended"
  /\ UNCHANGED <<main, now, t_child_end>>

Thread == Stamp \/ Exit

Next == Main \/ Thread

Spec == Init /\ [][Next]_vars
-------------------------------------------------------------------------------
\* When the durations of a round are taken (l. 34-35) the stamp is that of the
\* thread of this round, if there is one, and no thread is left that could
\* still write to it.  None is left when the test returns, and with it the
\* local variable that threads write to.
StampOfThisRound ==
  /\ pc = "record" /\ err = "ok" =>
       /\ tstart < t_child_end /\ t_child_end < now /\ t_child_end # t_parent_end
       /\ thread = "none"
  /\ pc = "done" => thread = "none"

\* "ret = false; // has error" (fork_test.c:15, of the same variable): a test
\* that reports no error has measured its last thread, and not an older one.
ReportsOnlyMeasured == ret = "false" => tstart < t_child_end
===============================================================================
