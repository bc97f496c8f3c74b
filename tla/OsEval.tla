-------------------------------- MODULE OsEval --------------------------------
(***************************************************************************)
(* main of lib/os_eval.cpp: the schedule of its tests, the processes that  *)
(* run it, and a.csv.                                                      *)
(*                                                                         *)
(* A child is meant to kill itself with SIGINT at the end of its part of a *)
(* round.  Where SIGINT is ignored (a shell starts background jobs so) it  *)
(* returns into the driver instead and runs the rest of the schedule, with *)
(* a copy of the unwritten output, while its parent waits for it.  Hence   *)
(* the processes form a stack, of which the last runs.                     *)
(*                                                                         *)
(* The whole output (84 lines, less than 4 kB) fits the buffer of stdio:   *)
(* nothing reaches a.csv before fclose.  A row stands for the lines of one *)
(* test.  What the tests do between two processes is in OsPairs, and with  *)
(* the times in OsStats; a kbest that is NULL ends the process.            *)
(***************************************************************************)
EXTENDS OsFiles, Sequences, SequencesExt

CONSTANTS ForkRounds, \* bound: rounds of a test that forks
          NProc,      \* limit of processes
          MaxFailed   \* bound: forks that fail in a process while there is room for another

ASSUME OsEvalAssumption ==
  /\ {NoFile, SetSize, ForkRounds, NProc} \subseteq Nat \ {0} /\ MaxFailed \in Nat
  /\ Fails \subseteq {"write", "fork", "thread", "kbest", "socket"}

Test(f, n) == [f |-> f, n |-> n]

\* msg_size and the pages mapped around a fork are told apart by n only.
ProcessTests ==
  <<Test("ref", 0), Test("cpu", 0), Test("getpid", 0), Test("switch", 0),
    Test("send", 1), Test("recv", 1), Test("send", 96000), Test("recv", 96000),
    Test("fork", 0), Test("thread", 0), Test("fork", 6000), Test("fork", 12000)>>

FileTests(pages, warmup) ==
  <<Test("write", pages)>> \o warmup \o
  <<Test("read", pages), Test("mmap", pages), Test("munmap", pages), Test("fault", pages)>>

FdTests(n) == <<Test("select", n), Test("poll", n), Test("epoll", n)>>

\* Variants of operations below, as plausible mistakes would write them.
ScheduleBigFilesFirst ==
  ProcessTests
  \o FileTests(1, <<Test("warmup", 10)>>) \o FileTests(10, <<Test("warmup", 10)>>)
  \o FileTests(1000, <<Test("warmup", 1000)>>)
  \o <<Test("read", 10000), Test("write", 10000), Test("mmap", 10000),
       Test("munmap", 10000), Test("fault", 10000)>>
  \o FdTests(10) \o FdTests(1000)

\* The huge files are read without read_warmup.
Schedule ==
  ProcessTests
  \o FileTests(1, <<Test("warmup", 1)>>) \o FileTests(10, <<Test("warmup", 10)>>)
  \o FileTests(1000, <<Test("warmup", 1000)>>) \o FileTests(10000, <<>>)
  \o FdTests(10) \o FdTests(1000)

Printing == {t \in 1..Len(Schedule) : Schedule[t].f # "warmup"}
Forking == {"switch", "send", "recv", "fork"}

VARIABLES
  stack,   \* the processes
  sigint,  \* "default" or "ignored", inherited from whoever started the program
  acsv,    \* rows of a.csv: 0 for its header, and the number of a test
  fate,    \* of the first process: "runs", "ended", "cut" (ended, but not all rows
           \* reached a.csv), "hung", or what it died of
  misread  \* timed reads that did not return file_size bytes (0, or 1 for some)

vars == <<fileVars, stack, sigint, acsv, fate, misread>>

RoundsOf(t) == IF t <= Len(Schedule) /\ Schedule[t].f \in Forking THEN ForkRounds ELSE 1

Top == Last(stack)
Now == Schedule[Top.t]
InTest == stack # <<>> /\ Top.t <= Len(Schedule)
In(tests) == InTest /\ Top.left > 0 /\ Now.f \in tests

\* left: rounds of the test to go; fds: descriptors open; failed: forks
Init ==
  /\ FilesInit /\ sigint \in {"default", "ignored"} /\ acsv = <<>> /\ misread = 0
  /\ \/ /\ fate = "runs"
        /\ stack = <<[t |-> 1, left |-> 1, buf |-> <<0>>, fds |-> 4, failed |-> 0]>>
     \/ fate = "no_acsv" /\ stack = <<>>  \* fp is NULL: no such directory
-------------------------------------------------------------------------------
Become(p) == stack' = Append(Front(stack), p)
RoundOver(p) == [p EXCEPT !.left = @ - 1]
NextTest(p) == [p EXCEPT !.t = @ + 1, !.left = RoundsOf(p.t + 1)]

\* The parent of a copy that exits, or dies with its buffer, ends its round.
Exit(why) ==
  IF Len(stack) = 1
  THEN fate' = why /\ stack' = <<>>
  ELSE /\ UNCHANGED fate
       /\ stack' = Append(Front(Front(stack)), RoundOver(Last(Front(stack))))

RestUnchanged == UNCHANGED <<sigint, acsv>>

\* A round that leaves nothing behind.
QuietRound(f) ==
  /\ In({f}) /\ Become(RoundOver(Top))
  /\ RestUnchanged /\ UNCHANGED <<fileVars, fate, misread>>

RefOrCpu == QuietRound("ref") \/ QuietRound("cpu")
Getpid == QuietRound("getpid")
Mmap == QuietRound("mmap")
Poll == QuietRound("poll")
Epoll == QuietRound("epoll")

\* A thread that was not created is joined all the same, which is undefined.
Thread ==
  \/ QuietRound("thread")
  \/ /\ In({"thread"}) /\ "thread" \in Fails /\ Exit("join")
     /\ RestUnchanged /\ UNCHANGED <<fileVars, misread>>

Write ==
  /\ In({"write"}) /\ WriteFile(Now.n) /\ Become(RoundOver(Top))
  /\ RestUnchanged /\ UNCHANGED <<fate, misread>>

\* Reads too, but nothing of it is timed or printed.
ReadWarmup ==
  /\ In({"warmup"}) /\ WriteFile(Now.n) /\ Become(NextTest(Top))
  /\ RestUnchanged /\ UNCHANGED <<fate, misread>>

Read ==
  /\ In({"read"}) /\ Become(RoundOver(Top))
  /\ misread' = (IF ReadResult(Now.n) = Now.n THEN misread ELSE 1)
  /\ RestUnchanged /\ UNCHANGED <<fileVars, fate>>

Munmap ==
  /\ In({"munmap"})
  /\ IF TouchIsFatal({"r", "w"}, Now.n) THEN Exit("mapping")
     ELSE Become(RoundOver(Top)) /\ UNCHANGED fate
  /\ RestUnchanged /\ UNCHANGED <<fileVars, misread>>

PageFault ==
  /\ In({"fault"})
  /\ IF TouchIsFatal({"r"}, 1) THEN Exit("mapping")
     ELSE Become(RoundOver(Top)) /\ UNCHANGED fate
  /\ RestUnchanged /\ UNCHANGED <<fileVars, misread>>

SelectLeaves ==  \* a variant of Select that does not close its sockets
  /\ In({"select"})
  /\ \/ Become([RoundOver(Top) EXCEPT !.fds = @ + Now.n]) /\ UNCHANGED fate
     \/ SetOverflows(Top.fds, Now.n) /\ Exit("fd_set")
  /\ RestUnchanged /\ UNCHANGED <<fileVars, misread>>

\* Undefined behaviour of FD_SET may kill the process, or go unnoticed.
Select ==
  /\ In({"select"})
  /\ \/ Become(RoundOver(Top)) /\ UNCHANGED fate
     \/ SetOverflows(Top.fds, Now.n) /\ Exit("fd_set")
  /\ RestUnchanged /\ UNCHANGED <<fileVars, misread>>
-------------------------------------------------------------------------------
\* Further variants.
ForkRoundReturns ==
  /\ In(Forking) /\ Len(stack) < NProc /\ sigint = "default"
  /\ stack' = Append(stack, RoundOver(Top))
  /\ RestUnchanged /\ UNCHANGED <<fileVars, fate, misread>>
ForkRoundByValue ==  \* send_test gets its index by value
  /\ In(Forking) /\ Len(stack) < NProc /\ sigint = "default"
  /\ Become(IF Now.f = "send" THEN Top ELSE RoundOver(Top))
  /\ RestUnchanged /\ UNCHANGED <<fileVars, fate, misread>>

\* A round, or a call of send_test or recv_test, whose child is killed.
ForkRound ==
  /\ In(Forking) /\ Len(stack) < NProc /\ sigint = "default" /\ Become(RoundOver(Top))
  /\ RestUnchanged /\ UNCHANGED <<fileVars, fate, misread>>

\* One whose child returns: the child of send_test has not advanced its copy of
\* the index, that of context_switch_test has two ends of the pipes left.
ForkCopy ==
  /\ In(Forking) /\ Len(stack) < NProc /\ sigint = "ignored"
  /\ stack' = Append(stack,
       CASE Now.f = "send" -> Top
         [] Now.f = "switch" -> [RoundOver(Top) EXCEPT !.fds = @ + 2]
         [] OTHER -> RoundOver(Top))
  /\ RestUnchanged /\ UNCHANGED <<fileVars, fate, misread>>

\* The pipes of a fork that failed stay open; forkTest has none.  The round
\* counts, but send_test and recv_test are called again: at the limit of
\* processes without end, which is no step here.
ForkFails ==
  /\ \/ In(Forking) /\ "fork" \in Fails /\ Top.failed < MaxFailed
     \/ In({"fork", "switch"}) /\ Len(stack) = NProc
  /\ LET p == [Top EXCEPT !.fds = IF Now.f = "fork" THEN @ ELSE @ + 4, !.failed = @ + 1] IN
     Become(IF Now.f \in {"send", "recv"} THEN p ELSE RoundOver(p))
  /\ RestUnchanged /\ UNCHANGED <<fileVars, fate, misread>>

\* A client without a socket leaves its server in accept, in the call that binds
\* the path (see OsPairs), and with the server every process that waits.
Hang ==
  /\ In({"send", "recv"}) /\ Len(stack) < NProc /\ "socket" \in Fails
  /\ fate' = "hung" /\ stack' = <<>>
  /\ RestUnchanged /\ UNCHANGED <<fileVars, misread>>
-------------------------------------------------------------------------------
\* The driver prints the lines of the test, unless kbest is NULL.
PrintTest ==
  /\ InTest /\ Top.left = 0
  /\ \/ Become([NextTest(Top) EXCEPT !.buf = Append(@, Top.t)]) /\ UNCHANGED fate
     \/ "kbest" \in Fails /\ Exit("kbest")
  /\ RestUnchanged /\ UNCHANGED <<fileVars, misread>>

\* fclose, which on a full disk writes a part of the buffer and is not checked;
\* rename of a file that nobody wrote, which fails; and exit.
Close ==
  /\ stack # <<>> /\ Top.t > Len(Schedule)
  /\ \/ acsv' = acsv \o Top.buf /\ Exit("ended")
     \/ /\ "write" \in Fails
        /\ \E n \in 0..(Len(Top.buf) - 1) : acsv' = acsv \o SubSeq(Top.buf, 1, n)
        /\ Exit("cut")
  /\ UNCHANGED <<fileVars, sigint, misread>>

Go ==
  \/ RefOrCpu \/ Getpid \/ Thread \/ Mmap \/ Poll \/ Epoll \/ Select
  \/ Write \/ ReadWarmup \/ Read \/ Munmap \/ PageFault
  \/ ForkRound \/ ForkCopy \/ PrintTest \/ Close

Next == Go \/ ForkFails \/ Hang
Spec == Init /\ [][Next]_vars

\* The running process runs; only finitely many forks fail while there is room
\* for a process, and nothing makes a socket fail.
FairSpec == Spec /\ WF_vars(Go)
-------------------------------------------------------------------------------
\* The header and the tests before t, once each, in order.
IsTableUpTo(t, rows) ==
  /\ {rows[k] : k \in 1..Len(rows)} = {r \in {0} \cup Printing : r < t}
  /\ \A k, l \in 1..Len(rows) : k < l => rows[k] < rows[l]
IsTable(rows) == IsTableUpTo(Len(Schedule) + 1, rows)

\* a.csv is empty, whatever the process died of in whatever test, until the first
\* process ends; then it is one table of every test, or on a full disk the
\* beginning of one: no row twice, and none after one that is missing.  Where
\* SIGINT is ignored nothing is ever written, for then the copies call send_test
\* until no process is left.
OneTableOrNone ==
  /\ fate \notin {"ended", "cut"} => acsv = <<>>
  /\ fate = "ended" => IsTable(acsv)
  /\ fate = "cut" => \E t \in {0} \cup Printing : IsTableUpTo(t, acsv)
  /\ sigint = "ignored" => fate \notin {"ended", "cut"}

\* The order of the schedule writes every file before it is read or mapped at
\* that size: a timed read returns less, or a mapping kills the process, only
\* after a write was cut short or where a permission is missing.
WrittenBeforeUse ==
  misread > 0 \/ fate = "mapping" => short > 0 \/ perms # {"r", "w"}

\* With a limit of 1024 descriptors the 1000 sockets of the big select fit its
\* fd_set after up to five forks that failed and left four descriptors each.
SelectFits ==
  InTest /\ Now.f = "select" /\ sigint = "default" /\ Top.failed <= 5 =>
    ~SetOverflows(Top.fds, Now.n)

\* The benchmark ends or dies, unless SIGINT is ignored, or a client without a
\* socket leaves it in accept for ever.
Ends ==
  sigint = "default" =>
    <>(fate \notin {"runs", "hung"}) \/ ("socket" \in Fails /\ <>[](fate = "hung"))
===============================================================================
