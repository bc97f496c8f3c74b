# Formal models of Oreo-experiments

The repository builds a disk image for the gem5 simulator. Inside the simulated
guest, a script in root's `.bashrc` takes a checkpoint and then runs whatever
run script the host supplies. The programs it runs are mainly `LEBench-Sim`, a
set of microbenchmarks of Linux system calls. This directory holds TLA+ models
of the parts of that code which contain protocol or numerical logic, TLC
configurations that check them, and proofs checked by TLAPS.

Paths below are relative to `src/disk-image/experiments/LEBench-Sim/src/` unless
they start with `src/`. "l. 87" is a line of the file just named.

## 1. Inventory

### 1.1 Components

| component | state | operations | interacts with |
|---|---|---|---|
| `main.c`, `print_results` | arguments, table of tests, `lebench_stats.csv` | parse, pick a test, run it, print, append | every test (one call), the CSV file shared by runs |
| `bench/recv_test.c` | two pipes, a stream socket, loop index of each process | fork; server: socket, bind, listen, accept, recv, acknowledge; client: connect, send, tell | forked child, kernel buffers, signals |
| `bench/send_test.c` | one pipe in use, a stream socket, `errno` | the same with the roles exchanged, no acknowledgement | forked child, killed and not awaited |
| `bench/ctx_switch_test.c` | two pipes, affinity and priority, the static `saved` | save, fork, pin, exchange bytes, restore | forked child, scheduler |
| `bench/fork_test.c` | a shared page with the stamp of the child | fork, stamp, kill oneself, wait | forked child |
| `bench/thrcreate_test.c` | a thread handle, a stamp on the stack | create, stamp, join | threads |
| `bench/select_test.c`, `poll_test.c`, `epoll_test.c` | a table of descriptors, `max_fd` | open, call, close | kernel |
| `bench/read_test.c`, `write_test.c`, `mmap_test.c`, `munmap_test.c`, `pagefault_test.c` | a file and its offset, a mapping | create, call, clean up | file system |
| `bench/getpid_test.c` | a loop index | call | none: no entry of `testConfigs` names it |
| `lib/utils.c`: `aggregate` | mean, deviation, extremes, `changed` | passes that leave out outliers | `collect_results` |
| `lib/utils.c`: `closest_k` | sorted array, `idx`, `cont_cnt` | sort, scan, two ways out | `collect_results` |
| `lib/utils.c`, `include/utils.h`: timers, ROI | build switches | stamp, difference, begin and end of a region | m5ops, clocks |
| `lib/os_eval.cpp` | the original LEBench in one file: a schedule of tests, `timeArray`, `test_file.txt`, `a.csv` | repeat a test, average its times, find the best, print two lines | forked children, file system; the Makefile, which takes `*.c` only, does not compile it |
| guest boot scripts: `hack_back_ckpt.rcS`, `serial-getty@.service`, `base-experiments.sh` | `RUNSCRIPT_VAR`, `/tmp/runscript`, the checkpoint | log in, checkpoint, load, run, exit | gem5 and the host (m5 exit, checkpoint, readfile) |
| `experiments/src`, `experiments/modules` | caches and predictors | inline assembly | kernel modules |
| provisioning: `Vagrantfile`, install scripts | the image | install and build | network |

### 1.2 What is hard about it

* **Two processes and a handshake of single bytes.** `recv_test`, `send_test` and
  `context_switch_test` order their processes by reads of pipes in which neither
  side closes the ends it does not use. Such a read never reports end of file:
  if the other process gives up, the reader waits for ever.
* **Non-blocking calls inside the timed loop.** `recv` and `send` use
  `MSG_DONTWAIT`; `send_test` reads `errno` without having reset it, so an old
  `EAGAIN` decides about later short sends.
* **Error paths shared by two processes.** The labels `server_err` and
  `client_err` are reached by `goto` from both branches of the fork, and a child
  whose kill of itself does not work returns to its own copy of `main`.
* **Stamps written by somebody else.** `fork_test` and `thread_create_test` read
  a stamp that a child or a thread wrote at its own pace, perhaps in an earlier round.
* **A script that is its own child's start-up file**, and a checkpoint taken in
  its middle: what a restored guest still decides, and what is already decided.
* **A file and a table that runs share.** `LE_FILE_PATH` and `lebench_stats.csv`
  have fixed names and no lock; two overlapping runs replace, extend and remove
  each other's file, and both may find the table empty.
* **Children that do not die.** A child ends by sending itself SIGINT. A program
  started in the background of a shell inherits SIGINT as ignored; then the child
  returns into the code of its parent and goes on as a copy of it, with a copy of
  whatever was not yet written.
* **Nothing is checked in `os_eval.cpp`.** Errors are printed and the next call
  is made, so a failure shows in times, descriptors and files much later.
* **Statistics at the edges.** Zero deviation, zero or negative times, an array
  without close neighbours, a loop with a maximal number of passes.

### 1.3 What makes each component correct

* The tests with two processes: the measured rounds of both never overlap;
  success means that all rounds took place and nothing is left behind; the
  processes end; what was changed in the process is restored.
* The tests with stamps: a duration is the difference of two stamps of one round.
* `closest_k` returns the first run of close times if there is one, and says so
  if there is none; `aggregate` reports numbers that belong to one set of times.
* `main`: what it returns is what happened to the results, and no run is ruined
  by another one.
* `os_eval.cpp`: a table with every test once or none; the average printed is
  that of the times measured; the schedule writes what it later reads.
* The boot script: one load of the run script per session, a clean checkpoint,
  and the script given with a restore is the one that runs.

## 2. Modules

| module | models | state and actions |
|---|---|---|
| `Lockstep` | abstract specification of a benchmark of two processes | rounds started by the leader and answered by the follower; they never overlap |
| `RecvBench` | `recv_test` | one control point per system call of parent and child, pipes as byte counts, the stream as chunks |
| `CtxSwitch` | `context_switch_test` with `save_affinity_priority` and `set_affinity_priority` | as above, plus the attributes that are not as saved |
| `SendBench` | `send_test` | as `RecvBench`, with `errno`, short and failed sends, the size of a message |
| `BootCheckpoint` | the boot script, the getty and the host | the innermost shell, `RUNSCRIPT_VAR`, nested shells, the last checkpoint |
| `ClosestK` | `closest_k` and `double_cmp` | one action for each branch of the loop and each way out |
| `Aggregate` | `aggregate` | one action per pass and per way out of the loop |
| `Statistics` | `closest_k` and `aggregate`, as `collect_results` calls them | composition of the two modules above; a behaviour is about one, and the other stays where it begins |
| `ForkBench` | `fork_test` | control points of parent and child, a logical clock |
| `ThreadBench` | `thread_create_test` | control points of the main thread and of the one it creates |
| `LEBench` | `main`, `print_results`, the tests on files and sockets, `create_and_fill`, `init_diff_array` | overlapping runs with the file each has open, its offset and size, the rounds, the lines in each stream and in `lebench_stats.csv` |
| `Tests` | whole runs, and `fork_test` and `thread_create_test` in detail | composition of the three modules above; a behaviour is about one, and the others stay where they begin |
| `Timespec` | `add_diff_to_sum`, `calc_diff`, `calc_sum`, `calc_average`, the comparison of `os_eval.cpp` | operators on seconds and nanoseconds |
| `OsStats` | what its drivers do with the times of one test: `calc_sum2`, `comp`, `calc_k_closest` and the lines printed | rounds, sum, average, sort, one action for each branch of the scan |
| `OsPairs` | its `send_test`, `recv_test`, `context_switch_test` and the driver that calls them again | control points of both processes, bytes in pipes and in the connection, entries of `timeArray` |
| `OsFiles` | `test_file.txt` and the numbers of descriptors that its tests use | length and permissions of the file, operators for each kind of test |
| `OsEval` | its `main`: the schedule, all other tests, `a.csv` | a stack of processes, of which the last runs |
| `OsRuns` | the schedule and the statistics of a test | composition of `OsEval` and `OsStats`; a behaviour is about one, and the other stays where it begins |
| `...Proofs` | theorems | section 5 |
| `MC...` | instances for TLC | constants and sets of failing calls |

How they compose: `RecvBench` and `CtxSwitch` implement `Lockstep`. `LEBench`
sees the tests that have modules of their own as one step with the outcomes
those modules show to be possible: done, failed, waiting for ever, killed by
SIGINT or SIGPIPE, crashed in the join of a thread that was never created, or with
a copy of the process left, which goes on beside it. `OsEval` extends `OsFiles` and
sees `OsPairs` and `OsStats` in the same way: a test ends, or hangs in `accept`, or
the process dies because there is no best time.
`Tests` composes `LEBench`, `ForkBench` and `ThreadBench`, `Statistics` composes
`ClosestK` and `Aggregate`, `OsRuns` composes `OsEval` and `OsStats`, each for one
run: every behaviour is about one of the parts. `TestsAreRuns`, `StatisticsAreRuns` and
`EvalsAreRuns` prove that the behaviours of a composition are behaviours of each part,
so that what is proved of a part holds of what the run checks.

### 2.1 How the code is represented

* **Control points.** `ppc` and `cpc` (`pc` in the modules of `os_eval.cpp`)
  name the next system call of parent and child. Code between two system calls
  touches only memory of one process, so a step ends where the next call begins.
  A `goto` is the value of the control point it leads to; `err:` followed by
  `cleanup:` is the helper `Return` or an action of its own where the cleanup
  changes modelled state.
* **Failures.** A constant (`MayFail`, `Fails`) names the calls that may fail,
  and every action of such a call has a disjunct for the error path of the code.
  The setup calls at the head of a test have one common error path and are one
  call. A SIGINT inherited as ignored is a `kill` that fails. An accept that fails is
  an action of its own, and so is a failing `send` of `send_test`.
* **Pipes and sockets.** All bytes are alike, so a pipe is the number of bytes in
  it. A stream socket is the number of chunks under way. `Cap` is its capacity,
  a chunk the unit in which the kernel accepts data. `OsPairs` counts bytes.
* **Files.** Sizes and offsets are in pages. A file is named by the run that
  created it, so that a file that was removed lives on where it is open.
* **`errno`** has the values the code can tell apart. It is not reset by a call
  that succeeds, which is what C says and what `send_test` depends on.
* **Undefined behaviour** is a choice: the uninitialised `errored` in the child
  of `send_test` is either value, a join of an invalid handle returns or
  crashes, an uninitialised stamp is earlier or later than all others, the
  permissions of a file opened without a mode are any, the result that a copy of
  `main` prints is garbage, the uninitialised `max_fd` makes a call of `select`
  succeed or fail.
* **Time** is a logical clock in `ForkBench` and `ThreadBench` that every reading
  advances. The order of two stamps is what is left of their difference. In
  `OsStats` the clock reads nanoseconds; `exact` is the time that really passed.
* **Doubles.** `Aggregate` uses exact fractions of integers, multiplied out.
  Comparisons that the code makes with rounding are made exactly; what the models
  say does not cover the error of rounding. `ClosestK` treats division by zero
  and by a negative number as IEEE arithmetic does.
* **Buffered output.** `LEBench` keeps the lines of a stream until `fclose`. The
  table of `os_eval.cpp` is 84 lines of at most 3447 bytes, less than the buffer of
  stdio, so in `OsEval` nothing reaches `a.csv` before `fclose`. On a full disk
  `fclose` writes none of it (`LEBench`), or a part (`OsEval`), and nobody looks at
  its result.

## 3. Runs

| run | configuration | what it shows |
|---|---|---|
| `recv` | 6 rounds, messages of 2 chunks, buffer of 3, every call may fail | A non-blocking `recv` finds the whole message unless a send failed; the retry of `send` is never taken; success is complete; rounds implement `Lockstep`; the test returns unless the client gave up before connecting |
| `ctx_switch` | 12 rounds, every call but the restoring ones may fail | Rounds are timed only while both processes are pinned and implement `Lockstep`; affinity and priority are restored on each way out; who may be left waiting, and when |
| `send` | 5 rounds, messages of 1 or 2 chunks, buffer of 3, every call may fail | SIGPIPE only after a failed accept; with one-chunk messages rounds are exact, the busy retry ends because the server receives, and no server is left behind |
| `boot` | 2 logins, 2 restores, 2 resumed exits | One load per session; the first checkpoint is clean; a restored guest runs the script given with the restore |
| `statistics` | `closest_k`: arrays of up to 5 of 6 times, K = 2. `aggregate`: bags of up to 13 of each of 4 times, 5 passes | The first run of close pairs is returned, the warning means there is none. What `aggregate` reports belongs together and the branch for too much noise is dead; outliers do not come back; few different times converge |
| `tests` | `fork_test` and `thread_create_test` with 6 rounds; `LEBench` with two runs, twelve test IDs, one warm-up and one measured round. Every call may fail | Stamps are of the round's own child or thread; `fork_test` ends or crashes out of memory. `main`: the status is true, headers of the table, crashes are a run's own fault, what `read_test` measures and leaves behind |
| `os_eval` | the whole schedule, up to 3 processes, 6 failing forks, failing threads and client sockets, a full disk, SIGINT default or ignored; statistics of up to 4 rounds of 8 durations | `a.csv` is empty, or one table, or on a full disk the beginning of one; files are written before they are used; when 1000 descriptors fit an `fd_set`; where SIGINT is not ignored the program ends, unless it is left in `accept`. The average is right and the best time has company |
| `os_pairs` | 5 entries, 2 timed messages per call, 2 round trips, 2 failing forks; sockets of either side, `listen` and `accept` may fail | Only the call that binds the path transfers; the processes of a context switch take turns; a test ends unless a client without a socket leaves a server in `accept` |
| `boot_shell`, `send_accept`, `closest_missed`, `thread_stale` | violations | section 4 |

### 3.1 Bounds

* Rounds (`Iter`): the first round (handshake), the last (region of interest,
  wait) and one in between are all there are; the runs take more so that a byte
  or a chunk left over by one round would pile up. The theorems hold for any number.
* `Cap = 3`: a message of two chunks fits once and not twice, so short sends
  exist, and three messages of one chunk fill the buffer within five rounds.
* `MaxResent` bounds the chunks that `send_test` sends again with a stale
  `EAGAIN`; three are enough for a repeated short send to fill the stream. This
  bound is why the liveness of `send` is stated for one-chunk messages only.
* `MaxLogins`, `MaxRestores`, `MaxResumes`: with two of each a checkpoint of a
  second session can be restored and resumed.
* `statistics`, `closest_k`: a late stamp makes a time negative, a coarse clock
  makes it zero; 100, 101 and 102 are close in a row while 100 and 102 are not,
  110 is not close to anything. Five elements hold a run of three, an
  interruption and a rest.
* `statistics`, `aggregate`: one time among n lies 3 deviations off only if n is
  at least 11, so up to 13 measurements of each value are needed before anything
  is left out. Values on both sides make the two outliers leave in one pass, in
  two, or stay.
* `tests`, `LEBench`: two runs suffice for every pairwise overlap, or for one run
  and a copy of it. The twelve IDs are three read tests of different sizes, one of
  each other tester modelled in detail, those with results of a child or a thread,
  those that can leave a copy, and IDs below and above the table. `WarmUp` and `Iter` of one
  keep the difference between them; every round does the same. `ChildRounds`, the
  rounds of the two tests in detail, is 6, so that a stamp has older ones to be
  mistaken for. The theorems hold for any number of runs, rounds, IDs and scales.
* `os_eval`: `NProc = 3` lets a copy of the program make a copy. `MaxFailed`
  bounds the forks that fail in a process while there is room for another; forks
  that fail because there is none are all taken. Six are one more than `SelectFits`
  says are harmless. Files have their real
  sizes in pages and descriptors their real limit of 1024. A second has 40 ticks;
  20, 21 and 22 are near each other in a row, and rounds that start at 35 carry.
* `os_pairs`: five entries need three calls of two timed messages, so that there
  is a first, a second and a last one that is not filled, and the one that binds the
  path may be any of them; `Room = 6` just holds the
  three messages of a call, and the theorem covers smaller ones.

### 3.2 Fairness

The specifications with fairness have weak fairness of each process (of the guest
in `boot`, of the running process in `os_eval`): the kernel schedules every process
that can run. Nothing else is assumed. In particular an accept that is blocked may
fail but need not (`ServerAcceptFails`, `AcceptFails` are outside the fair
actions), a send that fails is outside (`ClientSendFails`), and so are forks that
fail and the client without a socket that leaves `os_eval` in `accept` (`Hang`); the
host need not restore or resume, and users need not leave a shell. A call that may
fail is not required to fail or to succeed. On a full stream with `errno` at
`EAGAIN` the busy retry of `send_test` changes nothing, which is a stuttering step
that fairness of the client does not exclude: it
ends because the server is scheduled too and receives, not because a send would have
to fail. A server that only looked at the stream (`ServerRecvPeek`) violates `Ends`.

Deadlock checking is off in every configuration: these programs end, or wait for
ever in the situations which the liveness properties name explicitly.

### 3.3 Mutants

Modules have variants of operations as a plausible mistake would write them (a
read left out, an index one too large, a reset forgotten). With such a variant in
place of the operation, TLC finds the property violated. The pairs are listed in
`PROJECT.json`.

## 4. What the runs say of the code

Disagreements with what a comment or a message says:

* **`closest_missed`**: after its loop `closest_k` returns `data[idx - cont_cnt]`
  as it does inside it, but there `idx` is one further. Without a close pair
  left over this is `data[size]`, behind the array, and otherwise the second
  element of the run that the warning "Only found %lu closest" counts.
* **`thread_stale`**: `thread_create_test` ignores the result of
  `pthread_create`. When it fails, the test joins a stale or uninitialised handle
  and reports the stamp of an older thread, without an error.
* **`send_accept`**: the child's failed `accept` goes to `server_err`, the label
  of the parent. There `pid` is 0, so the SIGINT goes to the whole process group;
  where SIGINT is ignored, the child reads the uninitialised `errored` and may
  report results of rounds it never ran.
* **`boot_shell`**: the shell announced by "Script not specified. Dropping into
  shell..." is interactive and runs the same script again, which finds
  `RUNSCRIPT_VAR` exported and ends the simulation before there is a prompt.

Properties that hold and say what the code does rather than what one might
expect. No comment contradicts them:

* `Returns`, `ChildEnds` and both `Ends` of the tests of two processes list the
  situations in which a process is left waiting for ever.
* `CleanCheckpoint` speaks of the first session only: the getty lets a script that
  simply ends be followed by a session whose checkpoint replaces the first.
* `TimedReadsAreEmpty`: `create_and_fill` leaves the offset at the end of the
  file, so `read_test` times reads that return 0 (`bench/read_test.c`, l. 36).
* `FileLeftByRead`: `read_test` removes another path than the one it created
  (l. 55); its file stays until another test removes it.
* `StatusIsTrue`: where SIGINT is ignored, a child of `recv_test` or `send_test`
  that gives up goes on in a copy of `main` and returns 0 with a line of garbage, or
  with none, or 1 where the uninitialised `errored` happens to be true.
* `OneHeaderPerCrowd`: runs that overlap may each write a header.
* `CrashIsOwnFault`: what a run can crash of is its own unchecked `mmap`, `malloc`,
  write, `fopen` of the table, or a thread that was not created
  (`bench/thrcreate_test.c`, l. 29 and 32).
* `OneCallTransfers`: `send_test` and `recv_test` of `os_eval.cpp` bind one
  path and remove another (l. 936, 1055), so all entries but those of the call that
  bound it are times of calls that fail. That call is the first, unless its
  server got no socket (l. 919, 1018): then the path stays free for the next.
* `Ends` of `os_eval`: a client that gets no socket in the call that binds the path
  leaves the server in `accept` and the benchmark with it (l. 930, 1029).
* `OneTableOrNone`: where SIGINT is ignored, `os_eval` starts copies of itself
  until there is no room for a process, and no table is written; on a full disk it
  ends normally with a part of the table, or an empty file (l. 1364).
* `BestHasCompany`: the pointer to the best time may be NULL when it is printed.

## 5. Proofs

Every theorem holds for all values of the constants that satisfy the module's
assumption: any number of rounds, any size of message and buffer, any set of
failing calls; any array of integers, any `K`, precision and number of passes; any
number of logins, restores and resumes; any number of overlapping runs of `LEBench`,
and any limit of processes for the copies of `os_eval`.

Some theorems have a hypothesis on a constant besides. `SelectHasRoom` is for
limits of at least 1024 descriptors. The theorems of `aggregate`, but for
`PassesTyped`, are for `TOLERANCE >= 2`; `lib/utils.c` sets 3 (l. 86), unless a build
defines another value. With `TOLERANCE = 1` "Too much noise!" would be reached: of two
equally frequent times both lie exactly one deviation off the mean, and the second
pass throws out all.

| module | inductive invariant | theorems |
|---|---|---|
| `RecvBenchProofs` | `Phases` (what the client's control point says about the server's, the pipes, the indices and the stream), `Server`, no `EAGAIN` | `TypeCorrect`, `ListenerReady`, `TurnsAlternate`, `WholeMessage`, `NoRetry`, `KillIsClean`, `SuccessComplete`, `Refinement` |
| `CtxSwitchProofs` | `Balance` (what the child's control point says about the parent's, the pipes and the indices), `ParentPart` | `TypeCorrect`, `AssertionHolds`, `Pinned`, `Restored`, `SuccessComplete`, `Refinement` |
| `SendBenchProofs` | `Handshake` (who is where before the connection), `Tally` (what the counters say of the rounds), `Ending` | `TypeCorrect`, `ListenerReady`, `OnlyBrokenAfterAccept`, `SuccessComplete`, `SmallExact` |
| `StatisticsProofs` | of `closest_k`: `Trail` (the pairs counted are close and the one before them is not), `NoneYet` (no run ends before `idx`), `Ordered`. Of `aggregate`: `PassInv`, with `Remembered` (what was saved is of the times kept), `Narrowed` (those are all, or the ones near the mean of a set that holds them), `Narrowing` (unless they stay the same, each pass but the first has left one out) | `TypeCorrect`, `FirstFound`, `NoneMissed`, `RepeatedFound`; `PassesTyped`, `ReportedOfOneSet`, `ConvergesInTime`, `OutStaysOut`; `StatisticsAreRuns` |
| `TestsProofs` | of `LEBench`: `Flow` (what a control point says of the test and of the record of its process), `FileInv` (`Owned`: who has which file; `FileOf`: how long it is), `PrintInv` (`HeaderInv`, `BufferOf`, `LinesAre`: what is in the table and in the buffers). Of `fork_test`: `ForkClock` (when each stamp was taken), `Alive` (where a child exists), `ForkRound`. Of `thread_create_test`: `ThrdClock`, `Joined` | `ProcessesAreTyped`, `FewHeaders`, `TrueStatus`, `OwnFault`, `EmptyReads`, `LeftByRead`; `FreshStamps`, `NoSecondChild`; `FreshThreadStamp`; `TestsAreRuns` |
| `BootCheckpointProofs` | `GuestOK` of the running guest and of the one in the checkpoint, `Clean` | `LoadedOnce`, `CheckpointIsClean`, `TypeCorrect` |
| `OsEvalProofs` | of the statistics: `SumInv` (each entry, and the sum so far, is the time that really passed), `ScanInv` (`LastInRow`, `NoneMissed`, `AfterOutlier`). Of the schedule: `EvalInv`, with `Printed` (what is in the buffer), `Single` (descriptors, and what is in the file), `Misread`, `Early` (where copies are) | `TrueAverage`, `Company`, `StatsTypeCorrect`; `ScheduleIsTyped`, `WholeTable`, `WritesComeFirst`, `SelectHasRoom`; `EvalsAreRuns` |
| `OsPairsProofs` | `Turns` (where the byte is), `Points`, `Open`, `OneCall` (before the call that binds the path nothing was transferred, and what it transfers is counted by its messages), `Volume`, `NoShort` | `Alternation`, `OneCallOnly`, `TypeCorrect` |

Why the strengthening is needed:

* The type invariant of the two-process tests bounds the pipes by one byte, which
  no single step preserves by itself. It takes the fact that a writer's control
  point determines that the pipe is empty, and that in turn needs the position of
  the other process. Hence `Phases`, `Balance`, `Turns` and `Points` follow one
  process through its control points and list what the other may be doing. From
  them every safety property follows without temporal reasoning, and `Refinement`
  needs one lemma per process: its step is `Start`, `Answer`, or invisible.
* In `ClosestK` the returned index is right because the counted run cannot be
  extended to the left, which is the second part of `Trail`. `calc_k_closest`
  starts its count again after an outlier, which is what `LastInRow` says.
* `aggregate` looks at the whole array in every pass, so nothing in its loop says that
  a pass keeps fewer times than the one before. It does: let A be the times of a set S
  within `TOLERANCE` deviations of the mean of S. A time that lies farther off lies
  `TOLERANCE` deviations off the mean of A too, with the deviation of A (`StaysOut`).
  A without its fringe has another mean, but its deviation shrinks by more than the
  mean can move; `Tightening` is the inequality, over the sums of A and of what is left
  out. `Narrowed` remembers the set S, since the loop does not. From it follow that
  nothing comes back, and that the passes which change something are no more than
  there are different times (`Narrowing`). `SpreadOf` says that a set none of whose
  times is near its mean has no deviation, so that the loop has ended
  before it could find "Too much noise!".
* These lemmas are about sums over finite sets (`Summary`). What they use of sums (a
  sum may begin with any index, splits, is linear, and is not negative if its terms
  are not) is proved from the recursive definition of the fold in the community
  modules. Induction is used in the form of its contrapositive: among the sets of
  which a fact is false there would be a least one (`LeastSet`, from the
  well-foundedness of strict inclusion), and that one is refuted. `SumsExist` shows in
  this way that the recursive definition defines a function at all.
* What holds of a guest must hold of the guest in the checkpoint too, because a
  restore makes that one the running guest: `GuestOK` is a predicate of a guest,
  stated of both.
* The average is off by less than two nanoseconds because the quotients of seconds
  and of nanoseconds are each truncated once; the lemmas `ReadingExact`, `DiffExact`,
  `PlusExact` and `AverageExact` say of each operation of `Timespec` that it loses
  nothing, or how much.
* That overlapping runs print few headers needs to know who wrote each of them: a
  header is in the table, or in the buffer of a process that is between `fopen` and
  `fclose` and found the table empty, and all of these were counted in `crowd` when
  there were that many (`HeaderInv`). For the files it takes who has which one open.
  A process that has its file alone left the offset at its end (`FileOf`); the path
  names a file that somebody still has open unless a crash or `read_test` left it
  there (`Owned` says that a file whose creator does not have it is empty). Each
  action has one lemma that says what it does to the record of its process, field by
  field, and one for each part of the invariant.
* `os_eval` prints one table or nothing because the buffer of every process holds
  exactly the tests before its present one (`Printed`), and because a copy exists
  only where SIGINT is ignored, where no process gets past the first `send_test`
  (`Early`): its child returns into the driver without having advanced the index, and
  calls it again, until there is no room for another process. What is used has been written before,
  because `Schedule` says so: `SoundSchedule` establishes the order of writes and uses,
  block by block, and `Wrote` carries it to the file. The descriptors are at most
  four and four more for each fork that failed, which leaves room for the sockets
  of the big `select` (`SelectHasRoom`, for limits of at least 1024 descriptors, as the
  property says).
* That only one call transfers anything needs the link between `i`, which counts
  entries over all calls, and `j`, which counts messages of one (`Start`): while
  there is a connection, or may be one, every entry of a transfer is one of the
  present call, which has at most `Limit`. That none of its messages is short
  needs, where a socket has room for the messages of a call, the exact volume of what
  is in the connection, whether or not it was accepted.
* What a full disk leaves of the table is a beginning of the buffer, which holds the
  rows in order; `Beginning` says that the rows before one of them are all the
  rows that are smaller.

Proved and not run, because TLC would add nothing to the proof: the theorems named
`TypeCorrect` or `StatsTypeCorrect`, `ProcessesAreTyped`, `ScheduleIsTyped`,
`ListenerReady`, `TurnsAlternate` of `recv_test`, `KillIsClean`, `AssertionHolds`,
`SuccessComplete` of `context_switch_test` and of `send_test`, `RepeatedFound`,
`NoSecondChild`, `PassesTyped`, and the theorems on the compositions (`TestsAreRuns`,
`StatisticsAreRuns`, `EvalsAreRuns`). The inductive invariants were
checked with TLC before they were proved. The restoring calls of
`context_switch_test` may fail in `CtxSwitch`. The run leaves those failures out so
that `AffinityRestored` is not void; the theorems, which allow any set of failing
calls, include them.

Checked by TLC only: liveness (`Returns`, `Ends`, `ChildEnds`, `LeavesNoServer`,
`ForkEnds`, `RestoredRunsScript`), which is out of the prover's reach. Every other
property of a passing run is the statement of a theorem.

## 6. Not modelled

* `getpid_test` of `bench/`: nothing calls it.
* Which descriptors `select` watches in `select_test`: it depends on the stack.
* Builds of the timers other than with one timer switched on: without a timer
  nothing is measured and `print_results` prints only "Test finished". The assembly of the timers and of `m5ops`
  (vendored from gem5) has no control flow.
* In `os_eval.cpp`: the branches for a later iteration, since `isFirstIteration`
  is never assigned after its initialisation; results of `pipe`, `malloc` and, of a
  file that is open, `mmap`, which the code does not look at and which fail only out
  of memory or, after hundreds of failing forks, out of descriptors; arguments, which are used
  without a check of `argc`.
* The value of a time after a failed fork in `context_switch_test` of `os_eval.cpp`:
  it is the difference of two variables never written. `OsPairs` marks such an entry,
  `OsStats` is about rounds that read the clock.
* The programs and kernel modules under `src/disk-image/experiments/experiments`:
  loops over inline assembly whose effect is on caches, predictors and page
  tables. A model of the source has no state that would tell a right run of them
  from a wrong one.
* What one run does to another through its process group: the SIGINT of a failed
  `accept` in `send_test` with `pid` 0 goes to every process of the group. Runs are
  taken to be jobs of their own, as a shell with job control starts them.
* Provisioning: sequences of installation commands, without state of their own.
  `runscript.sh` is an alternative to `hack_back_ckpt.rcS` that nothing installs.

## 7. Plan

The order in which the models were written, the most important behaviour first:
the tests of two processes with their refinement of `Lockstep`; the boot script;
the statistics; forks and threads; `main` with the tests on files and sockets;
`os_eval.cpp`; then the proofs for what was at first only checked.

What would be next: `OsEval` with several copies of the program started at once,
should it ever be built, since `test_file.txt` and `a.csv` are shared by all of them.
