-------------------------------- MODULE LEBench -------------------------------
(***************************************************************************)
(* Runs of LEBench: main, the tests that work on a file or on sockets, and *)
(* print_results.  Several runs may overlap; they share LE_FILE_PATH and   *)
(* lebench_stats.csv.                                                      *)
(*                                                                         *)
(* A file is named by the run that created it: unlinked, it lives on in    *)
(* whoever has it open, and a run whose open follows that of another one   *)
(* gets the file of that one.  Sizes are in pages.  The tests with several *)
(* processes or threads are modules of their own; here they are one step.  *)
(* A child of recv_test or send_test that survives its SIGINT (see         *)
(* RecvBench, SendBench) goes on in a copy of main, with a BenchResult     *)
(* that was never written: it is a process here.                           *)
(***************************************************************************)
EXTENDS Integers, FiniteSets, Sequences

CONSTANTS Procs,   \* process IDs
          Ids,     \* test IDs asked for
          Scales,  \* scales asked for
          Iter,    \* bound: measured rounds
          WarmUp,  \* bound: the 100 rounds before them
          Fails    \* calls that may fail

None == 0

Calls == {"malloc", "open", "write", "mmap", "socket", "poll", "fork", "create", "kill", "csv", "disk"}
ASSUME LEBenchAssumption ==
  /\ Procs \subseteq Nat \ {None} /\ IsFiniteSet(Procs) /\ Ids \subseteq Int /\ Scales \subseteq Int
  /\ Iter \in Nat \ {0} /\ WarmUp \in Nat /\ Fails \subseteq Calls

VARIABLES
  run,    \* of each process: see Init
  path,   \* the file at LE_FILE_PATH, or None
  len,    \* pages of each file
  csv,    \* lines of lebench_stats.csv
  crowd   \* the most processes that were between fopen and fclose at a time

vars == <<run, path, len, csv, crowd>>

Config(tester, size) == [tester |-> tester, size |-> size]
testConfigs ==
  <<Config("switch", 0), Config("read", 1), Config("read", 10), Config("read", 1000),
    Config("write", 1), Config("write", 10), Config("write", 40), Config("mmap", 10),
    Config("munmap", 10), Config("fork", 1), Config("fork", 1000), Config("thread", 1000),
    Config("send", 1), Config("send", 1000), Config("recv", 1), Config("recv", 1000),
    Config("select", 10), Config("select", 1000), Config("poll", 10), Config("poll", 1000),
    Config("epoll", 10), Config("epoll", 1000), Config("fault", 1), Config("fault", 1000)>>
ValidIds == 0..(Len(testConfigs) - 1)

FileTests == {"read", "write", "mmap", "munmap", "fault"}
FdTests == {"select", "poll", "epoll"}

\* idx counts rounds, from -WarmUp; res counts results to be printed; buf are
\* the lines in the stream fp; rc is the exit status, "crashed", or "killed" by
\* SIGPIPE or SIGINT.  parent is the run a copy of main comes from, timed the
\* pages that timed reads got and failed the calls that failed.
Process(pc) ==
  [pc |-> pc, id |-> 0, fd |-> None, off |-> 0, idx |-> 0, roi |-> "none", err |-> "false",
   res |-> 0, buf |-> <<>>, rc |-> "runs", parent |-> None, timed |-> 0, failed |-> {}]

\* Others may be started later, or be a copy of main.
Init ==
  /\ run \in [Procs -> {Process("start"), Process("unborn")}]
  /\ path = None /\ len = [p \in Procs |-> 0] /\ csv = <<>> /\ crowd = 0
-------------------------------------------------------------------------------
At(r, points) == run[r].pc \in points
Tester(r) == testConfigs[run[r].id + 1].tester
Size(r) == testConfigs[run[r].id + 1].size
Results(r) == IF Tester(r) \in {"fork", "thread"} THEN 2 ELSE 1  \* with those of the child
Set(r, to) == run' = [run EXCEPT ![r] = to]
To(r, pc) == [run[r] EXCEPT !.pc = pc]
Ended(to, rc) == [to EXCEPT !.pc = "ended", !.rc = rc]
Failing(r, call, pc) ==
  /\ call \in Fails
  /\ Set(r, [run[r] EXCEPT !.pc = pc, !.err = "true", !.failed = @ \cup {call}])
Crashing(r, call) == Set(r, Ended([run[r] EXCEPT !.failed = @ \cup call], "crashed"))

FilesUnchanged == UNCHANGED <<path, len>>
PrintUnchanged == UNCHANGED <<csv, crowd>>

\* main, up to the call of the tester.
Start(r, id, scale) ==
  /\ At(r, {"start"}) /\ FilesUnchanged /\ PrintUnchanged
  /\ LET me == [run[r] EXCEPT !.id = id] IN
     IF id \notin ValidIds THEN Set(r, Ended(me, "1"))
     ELSE IF scale < 1 THEN Set(r, Ended(me, "2"))
     ELSE LET t == testConfigs[id + 1].tester IN
          Set(r, [me EXCEPT !.pc = CASE t \in FileTests -> "remove"
                                     [] t \in FdTests -> "sockets"
                                     [] OTHER -> "processes"])
-------------------------------------------------------------------------------
\* init_diff_array before anything else; page_fault_test ignores its failure.
Allocate(r) ==
  /\ At(r, {"remove"}) /\ Tester(r) # "write" /\ "malloc" \notin run[r].failed
  /\ Failing(r, "malloc", IF Tester(r) = "fault" THEN "remove" ELSE "cleanup")
  /\ FilesUnchanged /\ PrintUnchanged

\* create_and_fill
Remove(r) ==
  /\ At(r, {"remove"}) /\ Set(r, To(r, "open"))
  /\ path' = None /\ UNCHANGED len /\ PrintUnchanged

\* A variant of Open that truncates what it opens.
OpenTruncating(r) ==
  LET file == IF path = None THEN r ELSE path IN
  /\ At(r, {"open"}) /\ path' = file /\ len' = [len EXCEPT ![file] = 0]
  /\ Set(r, [To(r, "fill") EXCEPT !.fd = file]) /\ PrintUnchanged

\* Or malloc fails in create_and_fill.
Open(r) ==
  LET file == IF path = None THEN r ELSE path IN
  /\ At(r, {"open"}) /\ PrintUnchanged
  /\ \/ Set(r, [To(r, "fill") EXCEPT !.fd = file]) /\ path' = file /\ UNCHANGED len
     \/ Failing(r, "open", "cleanup") /\ FilesUnchanged

\* The result of write is dropped; the offset is at the end of what was written.
\* Two tests allocate their buffers around it.
Fill(r) ==
  /\ At(r, {"fill"}) /\ UNCHANGED path /\ PrintUnchanged
  /\ LET next == [To(r, "warmup") EXCEPT
           !.idx = IF Tester(r) \in {"read", "write"} THEN -WarmUp ELSE 0]
     IN \/ /\ Set(r, [next EXCEPT !.off = Size(r)])
           /\ len' = [len EXCEPT ![run[r].fd] = IF @ > Size(r) THEN @ ELSE Size(r)]
        \/ /\ "write" \in Fails
           /\ Set(r, [next EXCEPT !.failed = @ \cup {"write"}]) /\ UNCHANGED len
        \/ /\ Tester(r) \in {"read", "write"} /\ Failing(r, "malloc", "cleanup")
           /\ len' = [len EXCEPT ![run[r].fd] = IF @ > Size(r) THEN @ ELSE Size(r)]

\* Sockets for select_test, poll_test and epoll_test.  max_fd of select_test
\* is not initialised: the bits watched may be more than those of the sockets,
\* or max_fd + 1 overflow, which fails like a call that fails.
Sockets(r) ==
  /\ At(r, {"sockets"}) /\ FilesUnchanged /\ PrintUnchanged
  /\ \/ Set(r, To(r, "warmup"))
     \/ \E call \in {"malloc", "socket"} : Failing(r, call, "cleanup")
-------------------------------------------------------------------------------
RoiBeginRewinds(r) ==  \* a variant that seeks to the start of the file
  /\ At(r, {"warmup"}) /\ run[r].idx = 0
  /\ Set(r, [To(r, "measure") EXCEPT !.roi = "open", !.off = 0]) /\ FilesUnchanged /\ PrintUnchanged

RoiBegin(r) ==
  /\ At(r, {"warmup"}) /\ run[r].idx = 0
  /\ Set(r, [To(r, "measure") EXCEPT !.roi = "open"]) /\ FilesUnchanged /\ PrintUnchanged

InRound(r) ==
  \/ At(r, {"warmup"}) /\ run[r].idx < 0
  \/ At(r, {"measure"}) /\ run[r].idx < Iter

Rounded(r) == [run[r] EXCEPT !.idx = @ + 1]

Read(r) ==
  LET there == len[run[r].fd] - run[r].off
      n == IF there < Size(r) THEN (IF there < 0 THEN 0 ELSE there) ELSE Size(r)
  IN  /\ InRound(r) /\ Tester(r) = "read"
      /\ Set(r, [Rounded(r) EXCEPT !.off = @ + n, !.timed = IF run[r].idx < 0 THEN 0 ELSE @ + n])
      /\ FilesUnchanged /\ PrintUnchanged

Write(r) ==
  LET end == run[r].off + Size(r) IN
  /\ InRound(r) /\ Tester(r) = "write" /\ UNCHANGED path /\ PrintUnchanged
  /\ \/ /\ Set(r, [Rounded(r) EXCEPT !.off = end])
        /\ len' = [len EXCEPT ![run[r].fd] = IF @ > end THEN @ ELSE end]
     \/ /\ "write" \in Fails
        /\ Set(r, [Rounded(r) EXCEPT !.failed = @ \cup {"write"}]) /\ UNCHANGED len

\* A round of mmap_test or munmap_test; the region of interest stays open when
\* it fails.
Map(r) ==
  /\ InRound(r) /\ Tester(r) \in {"mmap", "munmap"} /\ FilesUnchanged /\ PrintUnchanged
  /\ Set(r, Rounded(r)) \/ Failing(r, "mmap", "cleanup")

\* Reads the first byte mapped, whether or not mmap worked, and writes to diffs.
PageFault(r) ==
  /\ InRound(r) /\ Tester(r) = "fault" /\ FilesUnchanged /\ PrintUnchanged
  /\ \/ "mmap" \in Fails /\ Crashing(r, {"mmap"})
     \/ IF len[run[r].fd] = 0 \/ "malloc" \in run[r].failed
        THEN Crashing(r, {}) ELSE Set(r, Rounded(r))

\* select, poll or epoll_wait; the latter two must report every socket.
Poll(r) ==
  /\ InRound(r) /\ Tester(r) \in FdTests /\ FilesUnchanged /\ PrintUnchanged
  /\ Set(r, Rounded(r)) \/ Failing(r, "poll", "cleanup")

\* roi_end and collect_results
RoiEnd(r) ==
  /\ At(r, {"measure"}) /\ run[r].idx = Iter
  /\ Set(r, [To(r, "cleanup") EXCEPT !.roi = "closed", !.res = 1])
  /\ FilesUnchanged /\ PrintUnchanged

\* Variants of Cleanup: one forgets what it returns, one what it created.
CleanupForgets(r) ==
  /\ At(r, {"cleanup"}) /\ UNCHANGED len /\ PrintUnchanged
  /\ Set(r, [To(r, "print") EXCEPT !.res = 1])
  /\ path' = (IF Tester(r) \in FileTests \ {"read"} THEN None ELSE path)
CleanupAfterSuccess(r) ==
  /\ At(r, {"cleanup"}) /\ UNCHANGED len /\ PrintUnchanged
  /\ Set(r, IF run[r].err = "true" THEN Ended(run[r], "1") ELSE To(r, "print"))
  /\ path' = (IF Tester(r) \in FileTests \ {"read"} /\ run[r].err = "false" THEN None ELSE path)

\* read_test removes another path than the one it filled.
Cleanup(r) ==
  /\ At(r, {"cleanup"}) /\ UNCHANGED len /\ PrintUnchanged
  /\ Set(r, IF run[r].err = "true" THEN Ended(run[r], "1") ELSE To(r, "print"))
  /\ path' = (IF Tester(r) \in FileTests \ {"read"} THEN None ELSE path)
-------------------------------------------------------------------------------
\* The other tests, with the outcomes their own modules show; one that waits
\* for ever takes no more steps.  recv_test succeeds when its child is over.
\* fork_test does not check the memory for the results of the child, nor
\* thread_create_test that there is a thread to join.  send_test dies of the
\* SIGINT of a failed accept, or of SIGPIPE where that goes unnoticed.
Processes(r) ==
  /\ At(r, {"processes"}) /\ FilesUnchanged /\ PrintUnchanged
  /\ \/ /\ Tester(r) = "recv" => \A q \in Procs : run[q].parent = r => At(q, {"ended"})
        /\ Set(r, [To(r, "print") EXCEPT !.roi = "closed", !.idx = Iter, !.res = Results(r)])
     \/ /\ "fork" \in Fails
        /\ Set(r, Ended([run[r] EXCEPT !.failed = {"fork"}], "1"))
     \/ "malloc" \in Fails /\ Tester(r) = "fork" /\ Crashing(r, {"malloc"})
     \/ "create" \in Fails /\ Tester(r) = "thread" /\ Crashing(r, {"create"})
     \/ "socket" \in Fails /\ Tester(r) = "send" /\ Set(r, Ended(run[r], "killed"))

\* A child that survives its own SIGINT goes on in main, with results nobody
\* wrote; the server of send_test whose accept failed may find errored to be
\* true and report that it failed.  (The children of fork_test and
\* context_switch_test always do; they leave no trace and are left out.)
Copy(r, q) ==
  LET copy == [Process("print") EXCEPT !.id = run[r].id, !.parent = r, !.res = 1] IN
  /\ At(r, {"processes"}) /\ Tester(r) \in {"send", "recv"} /\ "kill" \in Fails
  /\ At(q, {"unborn"}) /\ \A s \in Procs : run[s].parent # r
  /\ Set(q, copy) \/ (Tester(r) = "send" /\ Set(q, Ended(copy, "1")))
  /\ FilesUnchanged /\ PrintUnchanged
-------------------------------------------------------------------------------
\* A copy may find the errored of its results to be true.
Errored(r) ==
  /\ At(r, {"print"}) /\ run[r].parent # None
  /\ Set(r, Ended(run[r], "0")) /\ FilesUnchanged /\ PrintUnchanged

Line(r, n) == [by |-> r, n |-> n]  \* 0 is the header, 1 the result, 2 that of the child
Nth(r) == Results(r) - run[r].res + 1
Printing == {r \in Procs : run[r].pc = "close"}

\* Opens lebench_stats.csv twice and looks for a first byte; the streams are used
\* whether or not it opened.
Probe(r) ==
  /\ At(r, {"print"}) /\ FilesUnchanged /\ UNCHANGED csv
  /\ \/ /\ Set(r, [To(r, "close") EXCEPT
              !.buf = @ \o (IF csv = <<>> THEN <<Line(r, 0)>> ELSE <<>>) \o <<Line(r, Nth(r))>>])
        /\ crowd' = (IF Cardinality(Printing) < crowd THEN crowd ELSE Cardinality(Printing) + 1)
     \/ "csv" \in Fails /\ Crashing(r, {"csv"}) /\ UNCHANGED crowd

\* A variant of Close that leaves the file open, and the lines in its buffer,
\* until the last result.
CloseAtEnd(r) ==
  /\ At(r, {"close"}) /\ FilesUnchanged /\ UNCHANGED crowd
  /\ IF run[r].res = 1
     THEN csv' = csv \o run[r].buf /\ Set(r, Ended([run[r] EXCEPT !.res = 0], "0"))
     ELSE UNCHANGED csv /\ Set(r, [To(r, "print") EXCEPT !.res = @ - 1])

\* fclose writes the lines, in one piece, at the end of the file; where the
\* disk is full nobody notices.  The next result, or return 0.
Close(r) ==
  LET me == [run[r] EXCEPT !.res = @ - 1, !.buf = <<>>]
      next(to) == IF to.res = 0 THEN Ended(to, "0") ELSE [to EXCEPT !.pc = "print"]
  IN  /\ At(r, {"close"}) /\ FilesUnchanged /\ UNCHANGED crowd
      /\ \/ Set(r, next(me)) /\ csv' = csv \o run[r].buf
         \/ /\ "disk" \in Fails /\ UNCHANGED csv
            /\ Set(r, next([me EXCEPT !.failed = @ \cup {"disk"}]))

Step(r) ==
  \/ \E id \in Ids, scale \in Scales : Start(r, id, scale)
  \/ Allocate(r) \/ Remove(r) \/ Open(r) \/ Fill(r) \/ Sockets(r) \/ RoiBegin(r)
  \/ Read(r) \/ Write(r) \/ Map(r) \/ PageFault(r) \/ Poll(r) \/ RoiEnd(r) \/ Cleanup(r)
  \/ Processes(r) \/ \E q \in Procs : Copy(r, q)
  \/ Errored(r) \/ Probe(r) \/ Close(r)

Next == \E r \in Procs : Step(r)

Spec == Init /\ [][Next]_vars
-------------------------------------------------------------------------------
IsHeader(line) == line.n = 0
Headers == {k \in DOMAIN csv : IsHeader(csv[k])}
LinesOf(r) == {k \in DOMAIN csv : csv[k].by = r /\ ~IsHeader(csv[k])}
ResultsPrinted(r, n) ==
  /\ {csv[k].n : k \in LinesOf(r)} = 1..n
  /\ \A k, l \in LinesOf(r) : k < l => csv[k].n < csv[l].n
IsCopy(r) == run[r].parent # None

\* The file starts with the header, and has more of them only if as many
\* processes had it open at a time (l. 62-79): results printed one after the
\* other share one.
OneHeaderPerCrowd ==
  /\ csv # <<>> => IsHeader(csv[1])
  /\ Cardinality(Headers) <= crowd

\* What main returns is what happened: after 0 the results are in the file, in
\* order, and every round of the test was measured in a region of interest that
\* is closed, unless the disk was full; after 1 or 2 nothing is.  The exception
\* is a copy of main, where SIGINT is ignored: it returns 0 with a line of
\* garbage, or with none.  Who is killed has printed nothing.
StatusIsTrue ==
  \A r \in Procs :
    /\ run[r].rc = "0" /\ ~IsCopy(r) =>
         /\ run[r].idx = Iter /\ run[r].roi = "closed"
         /\ "disk" \notin run[r].failed =>
              ResultsPrinted(r, Results(r))
    /\ run[r].rc \in {"1", "2", "killed"} => LinesOf(r) = {}
    /\ IsCopy(r) => "kill" \in Fails /\ \A k, l \in LinesOf(r) : k = l

\* Nothing a run does makes another one crash, although they replace, extend
\* and remove each other's file: a crash follows a call of the same run that
\* failed unnoticed (pagefault_test.c:34 and 17, utils.c:224, fork_test.c:74,
\* thrcreate_test.c:29, main.c:64).
CrashIsOwnFault ==
  \A r \in Procs :
    run[r].rc = "crashed" => run[r].failed \cap {"mmap", "malloc", "write", "create", "csv"} # {}

\* read_test leaves the offset where create_and_fill wrote (read_test.c:36), so
\* its timed reads are reads of nothing, unless another run fills or extends the
\* same file.
TimedReadsAreEmpty ==
  \A r \in Procs :
    run[r].timed > 0 => \E q \in Procs \ {r} : run[q].fd = run[r].fd

\* A file at LE_FILE_PATH is open in a run that has not ended, or was when the
\* run crashed, or was left behind by read_test (l. 55 removes another one).
FileLeftByRead ==
  path # None =>
    \E r \in Procs :
      run[r].fd = path /\ (Tester(r) = "read" \/ run[r].rc \in {"runs", "crashed"})
===============================================================================
