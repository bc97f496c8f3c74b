------------------------------ MODULE TestsProofs -----------------------------
(***************************************************************************)
(* Runs of LEBench, for any number of processes and rounds and for every   *)
(* set of calls that may fail; then fork_test and thread_create_test.      *)
(*                                                                         *)
(* The invariant of the runs has four parts: the types; Flow, what the     *)
(* control point of a process says of its test; FileInv, who has which     *)
(* file and how long it is; PrintInv, what is in lebench_stats.csv.  Each  *)
(* action A of a process r has an operator ATo(r, p, q) with what it does  *)
(* to the record p of r, which becomes q, field by field, and lemmas:      *)
(* AStep, that it does that; AFlow and AFile, that the parts of the        *)
(* invariant hold after it; and, up to the first result, AEarly.           *)
(***************************************************************************)
EXTENDS Tests, FiniteSetTheorems, SequenceTheorems, TLAPS

Points == {"unborn", "start", "remove", "open", "fill", "sockets", "warmup", "measure",
           "cleanup", "processes", "print", "close", "ended"}

Lines == [by : Procs, n : 0..2]

ProcessType ==
  [pc : Points, id : Int, fd : Procs \cup {None}, off : Nat, idx : Int,
   roi : {"none", "open", "closed"}, err : {"false", "true"}, res : Int, buf : Seq(Lines),
   rc : {"runs", "0", "1", "2", "crashed", "killed"}, parent : Procs \cup {None}, timed : Nat,
   failed : SUBSET Calls]

TypeOK ==
  /\ run \in [Procs -> ProcessType]
  /\ path \in Procs \cup {None} /\ len \in [Procs -> Nat]
  /\ csv \in Seq(Lines) /\ crowd \in Nat

\* What the control point of a process says of its test and its results.
Flow(r) ==
  /\ At(r, {"ended"}) <=> run[r].rc # "runs"
  /\ run[r].rc # "1" => run[r].id \in ValidIds
  /\ At(r, {"remove", "open", "fill"}) => Tester(r) \in FileTests
  /\ At(r, {"sockets"}) => Tester(r) \in FdTests
  /\ At(r, {"warmup", "measure", "cleanup"}) => Tester(r) \in FileTests \cup FdTests
  /\ At(r, {"processes"}) => Tester(r) \notin FileTests \cup FdTests
  /\ At(r, {"unborn", "start", "remove", "open", "sockets", "processes"})
       \/ run[r].rc = "killed" => run[r].fd = None
  /\ At(r, {"fill"}) => run[r].fd # None
  /\ At(r, {"warmup", "measure"}) /\ Tester(r) \in FileTests => run[r].fd # None
  /\ run[r].fd # None => Tester(r) \in FileTests
  /\ ~At(r, {"close"}) => run[r].buf = <<>>
  /\ At(r, {"print", "close"}) => run[r].res \in 1..Results(r)
  /\ At(r, {"cleanup"}) /\ run[r].err = "false" => run[r].res = 1
  /\ (At(r, {"print", "close"}) \/ run[r].rc = "0" \/ (At(r, {"cleanup"}) /\ run[r].err = "false"))
       /\ ~IsCopy(r) =>
       run[r].idx = Iter /\ run[r].roi = "closed"
  /\ IsCopy(r) =>
       /\ At(r, {"print", "close"}) \/ run[r].rc \in {"0", "1", "crashed"}
       /\ "kill" \in Fails /\ Tester(r) \in {"send", "recv"} /\ run[r].fd = None

FlowInv == \A r \in Procs : Flow(r)
-------------------------------------------------------------------------------
\* testConfigs has 24 entries, and a test that works on a file is given a size.
LEMMA Configs ==
  /\ Len(testConfigs) = 24
  /\ \A i \in 1..24 : testConfigs[i].size \in Nat
                      /\ (testConfigs[i].tester \in FileTests => testConfigs[i].size >= 1)
<1>1. Len(testConfigs) = 24
  BY DEF testConfigs
<1>2. ASSUME NEW i \in 1..24
      PROVE  /\ testConfigs[i].size \in Nat
             /\ testConfigs[i].tester \in FileTests => testConfigs[i].size >= 1
  <2>1. \/ i = 1 \/ i = 2 \/ i = 3 \/ i = 4 \/ i = 5 \/ i = 6 \/ i = 7 \/ i = 8
        \/ i = 9 \/ i = 10 \/ i = 11 \/ i = 12 \/ i = 13 \/ i = 14 \/ i = 15 \/ i = 16
        \/ i = 17 \/ i = 18 \/ i = 19 \/ i = 20 \/ i = 21 \/ i = 22 \/ i = 23 \/ i = 24
    OBVIOUS
  <2> QED
    BY <2>1 DEF testConfigs, Config, FileTests
<1> QED
  BY <1>1, <1>2

\* A process that a step leaves alone keeps what its control point says.
LEMMA FlowFrame ==
  ASSUME NEW r \in Procs, run'[r] = run[r], Flow(r)
  PROVE  Flow(r)'
  BY DEF Flow, At, Tester, Results, IsCopy

\* Processes as they begin.
LEMMA NewProcess ==
  ASSUME NEW point \in Points
  PROVE  /\ Process(point) \in ProcessType /\ Process(point).pc = point /\ Process(point).id = 0
         /\ Process(point).fd = None /\ Process(point).buf = <<>> /\ Process(point).rc = "runs"
         /\ Process(point).parent = None /\ Process(point).timed = 0
  BY DEF Process, ProcessType, None

\* Nothing has happened yet.
LEMMA FlowInit == Init => TypeOK /\ FlowInv
<1> SUFFICES ASSUME Init PROVE TypeOK /\ FlowInv
  OBVIOUS
<1>1. ASSUME NEW r \in Procs
      PROVE  run[r] \in {Process("start"), Process("unborn")}
  BY DEF Init
<1>2. TypeOK
  <2>1. run \in [Procs -> ProcessType]
    BY NewProcess DEF Init, Points
  <2> QED
    BY <2>1 DEF Init, TypeOK
<1>3. ASSUME NEW r \in Procs PROVE Flow(r)
  <2>1. /\ run[r].pc \in {"start", "unborn"} /\ run[r].id = 0 /\ run[r].fd = None
        /\ run[r].buf = <<>> /\ run[r].rc = "runs" /\ run[r].parent = None
    BY <1>1, NewProcess DEF Points
  <2>2. 0 \in ValidIds
    BY Configs DEF ValidIds
  <2> QED
    BY <2>1, <2>2 DEF Flow, At, IsCopy
<1> QED
  BY <1>2, <1>3 DEF FlowInv

-------------------------------------------------------------------------------
\* Records of processes, field by field.
Whole(p) ==
  p = [pc |-> p.pc, id |-> p.id, fd |-> p.fd, off |-> p.off, idx |-> p.idx, roi |-> p.roi,
       err |-> p.err, res |-> p.res, buf |-> p.buf, rc |-> p.rc, parent |-> p.parent,
       timed |-> p.timed, failed |-> p.failed]
Typed(p) ==
  /\ p.pc \in Points /\ p.id \in Int /\ p.fd \in Procs \cup {None} /\ p.off \in Nat
  /\ p.idx \in Int /\ p.roi \in {"none", "open", "closed"} /\ p.err \in {"false", "true"}
  /\ p.res \in Int /\ p.buf \in Seq(Lines)
  /\ p.rc \in {"runs", "0", "1", "2", "crashed", "killed"}
  /\ p.parent \in Procs \cup {None} /\ p.timed \in Nat /\ p.failed \in SUBSET Calls

LEMMA FieldTypes ==
  ASSUME NEW p
  PROVE  p \in ProcessType <=> Whole(p) /\ Typed(p)
  BY DEF Whole, Typed, ProcessType

\* What a step from p to q leaves as it is: what the process works on, how far
\* its rounds are, what it has to print, and how it will end.
SameTest(p, q) == q.id = p.id /\ q.parent = p.parent /\ q.fd = p.fd
SameRounds(p, q) == q.off = p.off /\ q.idx = p.idx /\ q.roi = p.roi /\ q.timed = p.timed
SameLines(p, q) == q.res = p.res /\ q.buf = p.buf
SameEnd(p, q) == q.err = p.err /\ q.failed = p.failed /\ q.rc = p.rc
Still(p, q) == SameTest(p, q) /\ SameRounds(p, q) /\ SameLines(p, q) /\ SameEnd(p, q)

\* How a call that fails, and one that is fatal, ends.
Failed(p, q, calls) ==
  /\ SameTest(p, q) /\ SameRounds(p, q) /\ SameLines(p, q) /\ q.rc = p.rc /\ q.err = "true"
  /\ \E call \in calls : q.failed = p.failed \cup {call}
Crashed(p, q, calls) ==
  /\ SameTest(p, q) /\ SameRounds(p, q) /\ SameLines(p, q) /\ q.err = p.err
  /\ q.pc = "ended" /\ q.rc = "crashed" /\ q.failed = p.failed \cup calls

Becomes(r, q) == q \in ProcessType /\ Set(r, q)

\* A step of r leaves the records of the others alone.
LEMMA OneMoves ==
  ASSUME TypeOK, NEW r \in Procs, NEW q, Becomes(r, q)
  PROVE  /\ run'[r] = q /\ \A s \in Procs \ {r} : run'[s] = run[s]
         /\ run' \in [Procs -> ProcessType]
  BY DEF Becomes, Set, TypeOK

\* Whoever runs a test has an ID that is valid, and the size that goes with it.
LEMMA SizeNat ==
  ASSUME NEW r \in Procs, Flow(r), run[r].rc # "1"
  PROVE  Size(r) \in Nat /\ (Tester(r) \in FileTests => Size(r) >= 1)
<1>1. run[r].id \in ValidIds
  BY DEF Flow
<1>2. run[r].id + 1 \in 1..24
  BY <1>1, Configs DEF ValidIds
<1> QED
  BY <1>2, Configs DEF Size, Tester
-------------------------------------------------------------------------------
\* A file that is at least of size n.
Longer(f, n) == [len EXCEPT ![f] = IF @ > n THEN @ ELSE n]

\* The lines a process puts into its buffer.
LEMMA Pair ==
  ASSUME NEW S, NEW x \in S, NEW y \in S
  PROVE  <<x>> \o <<y>> = <<x, y>>
<1> DEFINE a == <<x>> \o <<y>>
           b == <<x, y>>
<1>1. a \in Seq(S) /\ b \in Seq(S)
  OBVIOUS
<1>2. Len(a) = 2 /\ Len(b) = 2
  OBVIOUS
<1>3. a[1] = x /\ a[2] = y /\ b[1] = x /\ b[2] = y
  OBVIOUS
<1> HIDE DEF a, b
<1>4. \A i \in 1..Len(a) : a[i] = b[i]
  BY <1>2, <1>3
<1>5. a = b
  BY <1>1, <1>2, <1>4, SeqEqual
<1> QED
  BY <1>5 DEF a, b

LEMMA TwoLines ==
  ASSUME NEW S, NEW x \in S, NEW y \in S
  PROVE  <<>> \o <<x>> \o <<y>> = <<x, y>>
<1>1. <<x>> \in Seq(S)
  OBVIOUS
<1>2. <<>> \o <<x>> = <<x>>
  BY <1>1, ConcatEmptySeq
<1> QED
  BY <1>2, Pair

LEMMA OneLine ==
  ASSUME NEW S, NEW x \in S
  PROVE  <<>> \o <<>> \o <<x>> = <<x>>
  OBVIOUS
-------------------------------------------------------------------------------
\* What each action makes of the record of the process.
StartTo(r, id, p, q) ==
  /\ q.id = id /\ q.fd = p.fd /\ q.parent = p.parent /\ q.err = p.err /\ q.failed = p.failed
  /\ SameRounds(p, q) /\ SameLines(p, q)
  /\ \/ q.pc = "ended" /\ q.rc = (IF id \in ValidIds THEN "2" ELSE "1")
     \/ /\ q.rc = p.rc /\ id \in ValidIds
        /\ q.pc = IF testConfigs[id + 1].tester \in FileTests THEN "remove"
                  ELSE IF testConfigs[id + 1].tester \in FdTests THEN "sockets" ELSE "processes"

AllocateTo(r, p, q) ==
  /\ Failed(p, q, {"malloc"})
  /\ q.pc = "cleanup" \/ (q.pc = "remove" /\ Tester(r) = "fault")

RemoveTo(r, p, q) ==
  Still(p, q) /\ q.pc = "open"

OpenTo(r, p, q) ==
  \/ /\ q.pc = "fill" /\ q.fd = (IF path = None THEN r ELSE path)
     /\ q.id = p.id /\ q.parent = p.parent /\ SameRounds(p, q) /\ SameLines(p, q) /\ SameEnd(p, q)
     /\ path' = q.fd
  \/ Failed(p, q, {"open"}) /\ q.pc = "cleanup" /\ path' = path

FillTo(r, p, q) ==
  /\ SameTest(p, q) /\ SameLines(p, q) /\ q.rc = p.rc /\ q.roi = p.roi /\ q.timed = p.timed
  /\ \/ /\ q.pc = "warmup" /\ q.idx \in {0, -WarmUp} /\ q.err = p.err
        /\ \/ q.off = Size(r) /\ q.failed = p.failed /\ len' = Longer(p.fd, Size(r))
           \/ q.off = p.off /\ q.failed = p.failed \cup {"write"} /\ len' = len
     \/ Failed(p, q, {"malloc"}) /\ q.pc = "cleanup" /\ len' = Longer(p.fd, Size(r))

SocketsTo(r, p, q) ==
  \/ Still(p, q) /\ q.pc = "warmup"
  \/ Failed(p, q, {"malloc", "socket"}) /\ q.pc = "cleanup"

RoiBeginTo(r, p, q) ==
  /\ q.pc = "measure" /\ q.roi = "open" /\ q.off = p.off /\ q.idx = p.idx /\ q.timed = p.timed
  /\ SameTest(p, q) /\ SameLines(p, q) /\ SameEnd(p, q)

ReadTo(r, p, q) ==
  /\ SameTest(p, q) /\ SameLines(p, q) /\ SameEnd(p, q) /\ q.pc = p.pc /\ q.roi = p.roi
  /\ q.idx = p.idx + 1
  /\ \E n \in Nat : /\ len[p.fd] <= p.off => n = 0
                    /\ q.off = p.off + n /\ q.timed = IF p.idx < 0 THEN 0 ELSE p.timed + n

WriteTo(r, p, q) ==
  /\ SameTest(p, q) /\ SameLines(p, q) /\ q.pc = p.pc /\ q.roi = p.roi /\ q.timed = p.timed
  /\ q.err = p.err /\ q.rc = p.rc /\ q.idx = p.idx + 1
  /\ \/ q.off = p.off + Size(r) /\ q.failed = p.failed /\ len' = Longer(p.fd, p.off + Size(r))
     \/ q.off = p.off /\ q.failed = p.failed \cup {"write"} /\ len' = len

MapTo(r, p, q) ==
  \/ /\ q.pc = p.pc /\ q.idx = p.idx + 1 /\ q.off = p.off /\ q.roi = p.roi /\ q.timed = p.timed
     /\ SameTest(p, q) /\ SameLines(p, q) /\ SameEnd(p, q)
  \/ Failed(p, q, {"mmap"}) /\ q.pc = "cleanup"

PollTo(r, p, q) ==
  \/ /\ q.pc = p.pc /\ q.idx = p.idx + 1 /\ q.off = p.off /\ q.roi = p.roi /\ q.timed = p.timed
     /\ SameTest(p, q) /\ SameLines(p, q) /\ SameEnd(p, q)
  \/ Failed(p, q, {"poll"}) /\ q.pc = "cleanup"

PageFaultTo(r, p, q) ==
  \/ /\ q.pc = p.pc /\ q.idx = p.idx + 1 /\ q.off = p.off /\ q.roi = p.roi /\ q.timed = p.timed
     /\ SameTest(p, q) /\ SameLines(p, q) /\ SameEnd(p, q)
  \/ Crashed(p, q, {"mmap"})
  \/ Crashed(p, q, {}) /\ (len[p.fd] = 0 \/ "malloc" \in p.failed)

RoiEndTo(r, p, q) ==
  /\ p.idx = Iter /\ q.pc = "cleanup" /\ q.roi = "closed" /\ q.res = 1
  /\ q.off = p.off /\ q.idx = p.idx /\ q.timed = p.timed /\ q.buf = p.buf
  /\ SameTest(p, q) /\ SameEnd(p, q)

CleanupTo(r, p, q) ==
  /\ SameTest(p, q) /\ SameRounds(p, q) /\ SameLines(p, q) /\ q.err = p.err /\ q.failed = p.failed
  /\ \/ p.err = "true" /\ q.pc = "ended" /\ q.rc = "1"
     \/ p.err # "true" /\ q.pc = "print" /\ q.rc = p.rc

ProcessesTo(r, p, q) ==
  /\ SameTest(p, q) /\ q.off = p.off /\ q.timed = p.timed /\ q.err = p.err /\ q.buf = p.buf
  /\ \/ /\ q.pc = "print" /\ q.roi = "closed" /\ q.idx = Iter /\ q.res = Results(r)
        /\ q.rc = p.rc /\ q.failed = p.failed
     \/ q.pc = "ended" /\ q.rc = "1" /\ q.failed = {"fork"} /\ SameRounds(p, q) /\ q.res = p.res
     \/ Crashed(p, q, {"malloc"}) \/ Crashed(p, q, {"create"})
     \/ q.pc = "ended" /\ q.rc = "killed" /\ SameRounds(p, q) /\ SameLines(p, q)
        /\ q.failed = p.failed

ErroredTo(r, p, q) ==
  /\ SameTest(p, q) /\ SameRounds(p, q) /\ SameLines(p, q) /\ q.err = p.err /\ q.failed = p.failed
  /\ q.pc = "ended" /\ q.rc = "0"

ProbeTo(r, p, q) ==
  \/ /\ q.pc = "close" /\ q.res = p.res /\ SameTest(p, q) /\ SameRounds(p, q) /\ SameEnd(p, q)
     /\ q.buf = IF csv = <<>> THEN <<Line(r, 0), Line(r, Nth(r))>> ELSE <<Line(r, Nth(r))>>
     /\ crowd' = IF Cardinality(Printing) < crowd THEN crowd ELSE Cardinality(Printing) + 1
  \/ Crashed(p, q, {"csv"}) /\ crowd' = crowd

CloseTo(r, p, q) ==
  /\ SameTest(p, q) /\ SameRounds(p, q) /\ q.err = p.err /\ q.buf = <<>> /\ q.res = p.res - 1
  /\ IF q.res = 0 THEN q.pc = "ended" /\ q.rc = "0" ELSE q.pc = "print" /\ q.rc = p.rc
  /\ \/ q.failed = p.failed /\ csv' = csv \o p.buf
     \/ q.failed = p.failed \cup {"disk"} /\ csv' = csv

-------------------------------------------------------------------------------
\* The actions do that.
LEMMA StartStep ==
  ASSUME TypeOK, FlowInv, NEW r \in Procs, NEW id \in Ids, NEW scale \in Scales, Start(r, id,
         scale)
  PROVE  \E q : Becomes(r, q) /\ StartTo(r, id, run[r], q)
<1> DEFINE p == run[r]
<1>1. p \in ProcessType /\ Whole(p) /\ Typed(p)
  BY FieldTypes DEF TypeOK
<1>2. PICK q :
  /\ Set(r, q)
  /\ \/ /\ q = [[p EXCEPT !.id = id] EXCEPT
                  !.pc = "ended", !.rc = IF id \in ValidIds THEN "2" ELSE "1"]
     \/ /\ id \in ValidIds
        /\ q = [[p EXCEPT !.id = id] EXCEPT !.pc =
                  IF testConfigs[id + 1].tester \in FileTests THEN "remove"
                  ELSE IF testConfigs[id + 1].tester \in FdTests THEN "sockets" ELSE "processes"]
  <2>1. CASE id \notin ValidIds
    BY <2>1 DEF Start, Ended
  <2>2. CASE id \in ValidIds /\ scale < 1
    BY <2>2 DEF Start, Ended
  <2>3. CASE id \in ValidIds /\ ~(scale < 1)
    BY <2>3 DEF Start, FileTests, FdTests
  <2> QED
    BY <2>1, <2>2, <2>3
<1> HIDE DEF p
<1>3. Whole(q) /\ StartTo(r, id, p, q)
  BY <1>1, <1>2 DEF Whole, Typed, StartTo, SameRounds, SameLines
<1>4. Typed(q)
  BY <1>1, <1>3, LEBenchAssumption DEF Typed, StartTo, Points, Calls, SameRounds, SameLines
<1> QED
  BY <1>2, <1>3, <1>4, FieldTypes DEF Becomes, p

LEMMA AllocateStep ==
  ASSUME TypeOK, FlowInv, NEW r \in Procs, Allocate(r)
  PROVE  \E q : Becomes(r, q) /\ AllocateTo(r, run[r], q)
<1> DEFINE p == run[r]
<1>1. p \in ProcessType /\ Whole(p) /\ Typed(p)
  BY FieldTypes DEF TypeOK
<1>2. PICK q :
  /\ Set(r, q)
  /\ q = [p EXCEPT !.pc = IF Tester(r) = "fault" THEN "remove" ELSE "cleanup",
                      !.err = "true", !.failed = @ \cup {"malloc"}]
  BY <1>1 DEF Allocate, Failing, FilesUnchanged, PrintUnchanged, At
<1> HIDE DEF p
<1>3. Whole(q) /\ AllocateTo(r, p, q)
  BY <1>1, <1>2 DEF Whole, Typed, AllocateTo, SameRounds, SameLines, SameTest, Failed
<1>4. Typed(q)
  BY <1>1, <1>3, LEBenchAssumption
     DEF Typed, AllocateTo, Points, Calls, SameRounds, SameLines, SameTest, Failed
<1> QED
  BY <1>2, <1>3, <1>4, FieldTypes DEF Becomes, p

LEMMA RemoveStep ==
  ASSUME TypeOK, FlowInv, NEW r \in Procs, Remove(r)
  PROVE  \E q : Becomes(r, q) /\ RemoveTo(r, run[r], q)
<1> DEFINE p == run[r]
<1>1. p \in ProcessType /\ Whole(p) /\ Typed(p)
  BY FieldTypes DEF TypeOK
<1>2. PICK q :
  /\ Set(r, q)
  /\ q = [p EXCEPT !.pc = "open"]
  BY <1>1 DEF Remove, To, PrintUnchanged, At
<1> HIDE DEF p
<1>3. Whole(q) /\ RemoveTo(r, p, q)
  BY <1>1, <1>2 DEF Whole, Typed, RemoveTo, SameRounds, SameLines, SameTest, SameEnd, Still
<1>4. Typed(q)
  BY <1>1, <1>3, LEBenchAssumption
     DEF Typed, RemoveTo, Points, Calls, SameRounds, SameLines, SameTest, SameEnd, Still
<1> QED
  BY <1>2, <1>3, <1>4, FieldTypes DEF Becomes, p

LEMMA OpenStep ==
  ASSUME TypeOK, FlowInv, NEW r \in Procs, Open(r)
  PROVE  \E q : Becomes(r, q) /\ OpenTo(r, run[r], q)
<1> DEFINE p == run[r]
<1>1. p \in ProcessType /\ Whole(p) /\ Typed(p)
  BY FieldTypes DEF TypeOK
<1>2. PICK q :
  /\ Set(r, q)
  /\ \/ /\ q = [[p EXCEPT !.pc = "fill"] EXCEPT !.fd = IF path = None THEN r ELSE path]
        /\ path' = IF path = None THEN r ELSE path
     \/ /\ q = [p EXCEPT !.pc = "cleanup", !.err = "true", !.failed = @ \cup {"open"}]
        /\ path' = path
  BY <1>1 DEF Open, To, Failing, FilesUnchanged, PrintUnchanged, At
<1> HIDE DEF p
<1>3. Whole(q) /\ OpenTo(r, p, q)
  BY <1>1, <1>2 DEF Whole, Typed, OpenTo, SameRounds, SameLines, SameTest, SameEnd, Failed
<1>4. Typed(q)
  BY <1>1, <1>3, LEBenchAssumption
     DEF Typed, OpenTo, Points, Calls, SameRounds, SameLines, SameTest, SameEnd, Failed, TypeOK
<1> QED
  BY <1>2, <1>3, <1>4, FieldTypes DEF Becomes, p

LEMMA FillStep ==
  ASSUME TypeOK, FlowInv, NEW r \in Procs, Fill(r)
  PROVE  \E q : Becomes(r, q) /\ FillTo(r, run[r], q)
<1> DEFINE p == run[r]
<1>1. p \in ProcessType /\ Whole(p) /\ Typed(p)
  BY FieldTypes DEF TypeOK
<1>0. Size(r) \in Nat
  BY SizeNat DEF Fill, FlowInv, Flow, At
<1>2. PICK q :
  /\ Set(r, q)
  /\ \/ /\ q = [[p EXCEPT !.pc = "warmup"] EXCEPT
                  !.idx = IF Tester(r) \in {"read", "write"} THEN -WarmUp ELSE 0, !.off = Size(r)]
        /\ len' = Longer(p.fd, Size(r))
     \/ /\ q = [[[p EXCEPT !.pc = "warmup"] EXCEPT
                   !.idx = IF Tester(r) \in {"read", "write"} THEN -WarmUp ELSE 0]
                 EXCEPT !.failed = @ \cup {"write"}]
        /\ len' = len
     \/ /\ q = [p EXCEPT !.pc = "cleanup", !.err = "true", !.failed = @ \cup {"malloc"}]
        /\ len' = Longer(p.fd, Size(r))
  BY <1>1, <1>0 DEF Fill, To, Failing, PrintUnchanged, At, Longer
<1> HIDE DEF p
<1>3. Whole(q) /\ FillTo(r, p, q)
  BY <1>0, <1>1, <1>2 DEF Whole, Typed, FillTo, SameRounds, SameLines, SameTest, Failed
<1>4. Typed(q)
  BY <1>0, <1>1, <1>3, LEBenchAssumption
     DEF Typed, FillTo, Points, Calls, SameRounds, SameLines, SameTest, Failed
<1> QED
  BY <1>2, <1>3, <1>4, FieldTypes DEF Becomes, p

LEMMA SocketsStep ==
  ASSUME TypeOK, FlowInv, NEW r \in Procs, Sockets(r)
  PROVE  \E q : Becomes(r, q) /\ SocketsTo(r, run[r], q)
<1> DEFINE p == run[r]
<1>1. p \in ProcessType /\ Whole(p) /\ Typed(p)
  BY FieldTypes DEF TypeOK
<1>2. PICK q :
  /\ Set(r, q)
  /\ \/ q = [p EXCEPT !.pc = "warmup"]
     \/ \E call \in {"malloc", "socket"} :
          q = [p EXCEPT !.pc = "cleanup", !.err = "true", !.failed = @ \cup {call}]
  BY <1>1 DEF Sockets, To, Failing, FilesUnchanged, PrintUnchanged, At
<1> HIDE DEF p
<1>3. Whole(q) /\ SocketsTo(r, p, q)
  BY <1>1, <1>2
     DEF Whole, Typed, SocketsTo, SameRounds, SameLines, SameTest, SameEnd, Still, Failed
<1>4. Typed(q)
  BY <1>1, <1>3, LEBenchAssumption
     DEF Typed, SocketsTo, Points, Calls, SameRounds, SameLines, SameTest, SameEnd, Still, Failed
<1> QED
  BY <1>2, <1>3, <1>4, FieldTypes DEF Becomes, p

LEMMA RoiBeginStep ==
  ASSUME TypeOK, FlowInv, NEW r \in Procs, RoiBegin(r)
  PROVE  \E q : Becomes(r, q) /\ RoiBeginTo(r, run[r], q)
<1> DEFINE p == run[r]
<1>1. p \in ProcessType /\ Whole(p) /\ Typed(p)
  BY FieldTypes DEF TypeOK
<1>2. PICK q :
  /\ Set(r, q)
  /\ q = [[p EXCEPT !.pc = "measure"] EXCEPT !.roi = "open"]
  BY <1>1 DEF RoiBegin, To, FilesUnchanged, PrintUnchanged, At
<1> HIDE DEF p
<1>3. Whole(q) /\ RoiBeginTo(r, p, q)
  BY <1>1, <1>2 DEF Whole, Typed, RoiBeginTo, SameLines, SameTest, SameEnd
<1>4. Typed(q)
  BY <1>1, <1>3, LEBenchAssumption
     DEF Typed, RoiBeginTo, Points, Calls, SameLines, SameTest, SameEnd
<1> QED
  BY <1>2, <1>3, <1>4, FieldTypes DEF Becomes, p

LEMMA ReadStep ==
  ASSUME TypeOK, FlowInv, NEW r \in Procs, Read(r)
  PROVE  \E q : Becomes(r, q) /\ ReadTo(r, run[r], q)
<1> DEFINE p == run[r]
<1>1. p \in ProcessType /\ Whole(p) /\ Typed(p)
  BY FieldTypes DEF TypeOK
<1>a. Size(r) \in Nat /\ p.fd \in Procs /\ len[p.fd] \in Nat /\ p.off \in Nat
  BY <1>1, SizeNat DEF Read, InRound, FlowInv, Flow, At, Typed, TypeOK, FileTests
<1> DEFINE there == len[p.fd] - p.off
           n == IF there < Size(r) THEN (IF there < 0 THEN 0 ELSE there) ELSE Size(r)
<1>0. n \in Nat /\ (len[p.fd] <= p.off => n = 0)
  BY <1>a
<1>2. PICK q :
  /\ Set(r, q)
  /\ q = [[p EXCEPT !.idx = @ + 1] EXCEPT
           !.off = @ + n, !.timed = IF p.idx < 0 THEN 0 ELSE @ + n]
  BY <1>1 DEF Read, Rounded
<1> HIDE DEF p, n
<1>3. Whole(q) /\ ReadTo(r, p, q)
  <2>1. /\ Whole(q) /\ SameTest(p, q) /\ SameLines(p, q) /\ SameEnd(p, q) /\ q.pc = p.pc
        /\ q.roi = p.roi /\ q.idx = p.idx + 1 /\ q.off = p.off + n
        /\ q.timed = IF p.idx < 0 THEN 0 ELSE p.timed + n
    BY <1>1, <1>2 DEF Whole, SameLines, SameTest, SameEnd
  <2> QED
    BY <2>1, <1>0 DEF ReadTo, p
<1>4. Typed(q)
  BY <1>0, <1>1, <1>3, LEBenchAssumption
     DEF Typed, ReadTo, Points, Calls, SameLines, SameTest, SameEnd
<1> QED
  BY <1>2, <1>3, <1>4, FieldTypes DEF Becomes, p

LEMMA WriteStep ==
  ASSUME TypeOK, FlowInv, NEW r \in Procs, Write(r)
  PROVE  \E q : Becomes(r, q) /\ WriteTo(r, run[r], q)
<1> DEFINE p == run[r]
<1>1. p \in ProcessType /\ Whole(p) /\ Typed(p)
  BY FieldTypes DEF TypeOK
<1>0. Size(r) \in Nat /\ p.fd \in Procs /\ p.off \in Nat
  BY <1>1, SizeNat DEF Write, InRound, FlowInv, Flow, At, Typed, TypeOK, FileTests
<1>2. PICK q :
  /\ Set(r, q)
  /\ \/ /\ q = [[p EXCEPT !.idx = @ + 1] EXCEPT !.off = p.off + Size(r)]
        /\ len' = Longer(p.fd, p.off + Size(r))
     \/ /\ q = [[p EXCEPT !.idx = @ + 1] EXCEPT !.failed = @ \cup {"write"}]
        /\ len' = len
  BY <1>1, <1>0 DEF Write, Rounded, PrintUnchanged, At, InRound, Longer
<1> HIDE DEF p
<1>3. Whole(q) /\ WriteTo(r, p, q)
  BY <1>0, <1>1, <1>2 DEF Whole, Typed, WriteTo, SameLines, SameTest
<1>4. Typed(q)
  BY <1>0, <1>1, <1>3, LEBenchAssumption DEF Typed, WriteTo, Points, Calls, SameLines, SameTest
<1> QED
  BY <1>2, <1>3, <1>4, FieldTypes DEF Becomes, p

LEMMA MapStep ==
  ASSUME TypeOK, FlowInv, NEW r \in Procs, Map(r)
  PROVE  \E q : Becomes(r, q) /\ MapTo(r, run[r], q)
<1> DEFINE p == run[r]
<1>1. p \in ProcessType /\ Whole(p) /\ Typed(p)
  BY FieldTypes DEF TypeOK
<1>2. PICK q :
  /\ Set(r, q)
  /\ \/ q = [p EXCEPT !.idx = @ + 1]
     \/ q = [p EXCEPT !.pc = "cleanup", !.err = "true", !.failed = @ \cup {"mmap"}]
  BY <1>1 DEF Map, Failing, Rounded, FilesUnchanged, PrintUnchanged, At, InRound
<1> HIDE DEF p
<1>3. Whole(q) /\ MapTo(r, p, q)
  BY <1>1, <1>2 DEF Whole, Typed, MapTo, SameRounds, SameLines, SameTest, SameEnd, Failed
<1>4. Typed(q)
  BY <1>1, <1>3, LEBenchAssumption
     DEF Typed, MapTo, Points, Calls, SameRounds, SameLines, SameTest, SameEnd, Failed
<1> QED
  BY <1>2, <1>3, <1>4, FieldTypes DEF Becomes, p

LEMMA PollStep ==
  ASSUME TypeOK, FlowInv, NEW r \in Procs, Poll(r)
  PROVE  \E q : Becomes(r, q) /\ PollTo(r, run[r], q)
<1> DEFINE p == run[r]
<1>1. p \in ProcessType /\ Whole(p) /\ Typed(p)
  BY FieldTypes DEF TypeOK
<1>2. PICK q :
  /\ Set(r, q)
  /\ \/ q = [p EXCEPT !.idx = @ + 1]
     \/ q = [p EXCEPT !.pc = "cleanup", !.err = "true", !.failed = @ \cup {"poll"}]
  BY <1>1 DEF Poll, Failing, Rounded, FilesUnchanged, PrintUnchanged, At, InRound
<1> HIDE DEF p
<1>3. Whole(q) /\ PollTo(r, p, q)
  BY <1>1, <1>2 DEF Whole, Typed, PollTo, SameRounds, SameLines, SameTest, SameEnd, Failed
<1>4. Typed(q)
  BY <1>1, <1>3, LEBenchAssumption
     DEF Typed, PollTo, Points, Calls, SameRounds, SameLines, SameTest, SameEnd, Failed
<1> QED
  BY <1>2, <1>3, <1>4, FieldTypes DEF Becomes, p

LEMMA PageFaultStep ==
  ASSUME TypeOK, FlowInv, NEW r \in Procs, PageFault(r)
  PROVE  \E q : Becomes(r, q) /\ PageFaultTo(r, run[r], q)
<1> DEFINE p == run[r]
<1>1. p \in ProcessType /\ Whole(p) /\ Typed(p)
  BY FieldTypes DEF TypeOK
<1>2. PICK q :
  /\ Set(r, q)
  /\ \/ q = [p EXCEPT !.idx = @ + 1]
     \/ q = [[p EXCEPT !.failed = @ \cup {"mmap"}] EXCEPT !.pc = "ended", !.rc = "crashed"]
     \/ /\ q = [[p EXCEPT !.failed = @ \cup {}] EXCEPT !.pc = "ended", !.rc = "crashed"]
        /\ len[p.fd] = 0 \/ "malloc" \in p.failed
  BY <1>1 DEF PageFault, Crashing, Ended, Rounded, FilesUnchanged, PrintUnchanged, At, InRound
<1> HIDE DEF p
<1>3. Whole(q) /\ PageFaultTo(r, p, q)
  BY <1>1, <1>2 DEF Whole, Typed, PageFaultTo, SameRounds, SameLines, SameTest, SameEnd, Crashed
<1>4. Typed(q)
  BY <1>1, <1>3, LEBenchAssumption
     DEF Typed, PageFaultTo, Points, Calls, SameRounds, SameLines, SameTest, SameEnd, Crashed
<1> QED
  BY <1>2, <1>3, <1>4, FieldTypes DEF Becomes, p

LEMMA RoiEndStep ==
  ASSUME TypeOK, FlowInv, NEW r \in Procs, RoiEnd(r)
  PROVE  \E q : Becomes(r, q) /\ RoiEndTo(r, run[r], q)
<1> DEFINE p == run[r]
<1>1. p \in ProcessType /\ Whole(p) /\ Typed(p)
  BY FieldTypes DEF TypeOK
<1>2. PICK q :
  /\ Set(r, q)
  /\ q = [[p EXCEPT !.pc = "cleanup"] EXCEPT !.roi = "closed", !.res = 1]
  /\ p.idx = Iter
  BY <1>1 DEF RoiEnd, To, FilesUnchanged, PrintUnchanged, At
<1> HIDE DEF p
<1>3. Whole(q) /\ RoiEndTo(r, p, q)
  BY <1>1, <1>2 DEF Whole, Typed, RoiEndTo, SameTest, SameEnd
<1>4. Typed(q)
  BY <1>1, <1>3, LEBenchAssumption DEF Typed, RoiEndTo, Points, Calls, SameTest, SameEnd
<1> QED
  BY <1>2, <1>3, <1>4, FieldTypes DEF Becomes, p

LEMMA CleanupStep ==
  ASSUME TypeOK, FlowInv, NEW r \in Procs, Cleanup(r)
  PROVE  \E q : Becomes(r, q) /\ CleanupTo(r, run[r], q)
<1> DEFINE p == run[r]
<1>1. p \in ProcessType /\ Whole(p) /\ Typed(p)
  BY FieldTypes DEF TypeOK
<1>2. PICK q :
  /\ Set(r, q)
  /\ \/ p.err = "true" /\ q = [p EXCEPT !.pc = "ended", !.rc = "1"]
     \/ p.err # "true" /\ q = [p EXCEPT !.pc = "print"]
  BY <1>1 DEF Cleanup, To, Ended, PrintUnchanged, At
<1> HIDE DEF p
<1>3. Whole(q) /\ CleanupTo(r, p, q)
  BY <1>1, <1>2 DEF Whole, Typed, CleanupTo, SameRounds, SameLines, SameTest
<1>4. Typed(q)
  BY <1>1, <1>3, LEBenchAssumption
     DEF Typed, CleanupTo, Points, Calls, SameRounds, SameLines, SameTest
<1> QED
  BY <1>2, <1>3, <1>4, FieldTypes DEF Becomes, p

LEMMA ProcessesStep ==
  ASSUME TypeOK, FlowInv, NEW r \in Procs, Processes(r)
  PROVE  \E q : Becomes(r, q) /\ ProcessesTo(r, run[r], q)
<1> DEFINE p == run[r]
<1>1. p \in ProcessType /\ Whole(p) /\ Typed(p)
  BY FieldTypes DEF TypeOK
<1>0. Results(r) \in Int
  BY DEF Results
<1>2. PICK q :
  /\ Set(r, q)
  /\ \/ q = [[p EXCEPT !.pc = "print"] EXCEPT !.roi = "closed", !.idx = Iter, !.res = Results(r)]
     \/ q = [[p EXCEPT !.failed = {"fork"}] EXCEPT !.pc = "ended", !.rc = "1"]
     \/ q = [[p EXCEPT !.failed = @ \cup {"malloc"}] EXCEPT !.pc = "ended", !.rc = "crashed"]
     \/ q = [[p EXCEPT !.failed = @ \cup {"create"}] EXCEPT !.pc = "ended", !.rc = "crashed"]
     \/ q = [p EXCEPT !.pc = "ended", !.rc = "killed"]
  BY <1>1, <1>0 DEF Processes, To, Crashing, Ended, FilesUnchanged, PrintUnchanged, At
<1> HIDE DEF p
<1>3. Whole(q) /\ ProcessesTo(r, p, q)
  BY <1>0, <1>1, <1>2 DEF Whole, Typed, ProcessesTo, SameRounds, SameLines, SameTest, Crashed
<1>4. Typed(q)
  BY <1>0, <1>1, <1>3, LEBenchAssumption
     DEF Typed, ProcessesTo, Points, Calls, SameRounds, SameLines, SameTest, Crashed
<1> QED
  BY <1>2, <1>3, <1>4, FieldTypes DEF Becomes, p

LEMMA ErroredStep ==
  ASSUME TypeOK, FlowInv, NEW r \in Procs, Errored(r)
  PROVE  \E q : Becomes(r, q) /\ ErroredTo(r, run[r], q)
<1> DEFINE p == run[r]
<1>1. p \in ProcessType /\ Whole(p) /\ Typed(p)
  BY FieldTypes DEF TypeOK
<1>2. PICK q :
  /\ Set(r, q)
  /\ q = [p EXCEPT !.pc = "ended", !.rc = "0"]
  BY <1>1 DEF Errored, Ended, FilesUnchanged, PrintUnchanged, At
<1> HIDE DEF p
<1>3. Whole(q) /\ ErroredTo(r, p, q)
  BY <1>1, <1>2 DEF Whole, Typed, ErroredTo, SameRounds, SameLines, SameTest
<1>4. Typed(q)
  BY <1>1, <1>3, LEBenchAssumption
     DEF Typed, ErroredTo, Points, Calls, SameRounds, SameLines, SameTest
<1> QED
  BY <1>2, <1>3, <1>4, FieldTypes DEF Becomes, p

LEMMA ProbeStep ==
  ASSUME TypeOK, FlowInv, NEW r \in Procs, Probe(r)
  PROVE  \E q : Becomes(r, q) /\ ProbeTo(r, run[r], q)
<1> DEFINE p == run[r]
<1>1. p \in ProcessType /\ Whole(p) /\ Typed(p)
  BY FieldTypes DEF TypeOK
<1>a. p.buf = <<>> /\ p.res \in 1..Results(r)
  BY DEF Probe, FlowInv, Flow, At
<1>b. Nth(r) \in 0..2
  BY <1>a DEF Nth, Results
<1>c. Line(r, 0) \in Lines /\ Line(r, Nth(r)) \in Lines
  BY <1>b DEF Line, Lines
<1>d. <<Line(r, 0), Line(r, Nth(r))>> \in Seq(Lines) /\ <<Line(r, Nth(r))>> \in Seq(Lines)
  BY <1>c
<1>e. p.buf \o (IF csv = <<>> THEN <<Line(r, 0)>> ELSE <<>>) \o <<Line(r, Nth(r))>>
           = IF csv = <<>> THEN <<Line(r, 0), Line(r, Nth(r))>> ELSE <<Line(r, Nth(r))>>
  <2>1. CASE csv = <<>>
    BY <1>a, <1>c, <2>1, TwoLines
  <2>2. CASE csv # <<>>
    BY <1>a, <1>c, <2>2, OneLine
  <2> QED
    BY <2>1, <2>2
<1>0. /\ p.buf = <<>> /\ <<Line(r, 0), Line(r, Nth(r))>> \in Seq(Lines)
      /\ <<Line(r, Nth(r))>> \in Seq(Lines)
  BY <1>a, <1>d
<1>2. PICK q :
  /\ Set(r, q)
  /\ \/ /\ q = [[p EXCEPT !.pc = "close"] EXCEPT !.buf =
                  IF csv = <<>> THEN <<Line(r, 0), Line(r, Nth(r))>> ELSE <<Line(r, Nth(r))>>]
        /\ crowd' = IF Cardinality(Printing) < crowd THEN crowd ELSE Cardinality(Printing) + 1
     \/ /\ q = [[p EXCEPT !.failed = @ \cup {"csv"}] EXCEPT !.pc = "ended", !.rc = "crashed"]
        /\ crowd' = crowd
  BY <1>1, <1>e DEF Probe, To, Crashing, Ended, FilesUnchanged, At
<1> HIDE DEF p
<1>3. Whole(q) /\ ProbeTo(r, p, q)
  BY <1>0, <1>1, <1>2 DEF Whole, Typed, ProbeTo, SameRounds, SameLines, SameTest, SameEnd, Crashed
<1>4. Typed(q)
  BY <1>0, <1>1, <1>3, LEBenchAssumption
     DEF Typed, ProbeTo, Points, Calls, SameRounds, SameLines, SameTest, SameEnd, Crashed
<1> QED
  BY <1>2, <1>3, <1>4, FieldTypes DEF Becomes, p

LEMMA CloseStep ==
  ASSUME TypeOK, FlowInv, NEW r \in Procs, Close(r)
  PROVE  \E q : Becomes(r, q) /\ CloseTo(r, run[r], q)
<1> DEFINE p == run[r]
<1>1. p \in ProcessType /\ Whole(p) /\ Typed(p)
  BY FieldTypes DEF TypeOK
<1> DEFINE me == [p EXCEPT !.res = @ - 1, !.buf = <<>>]
           full == [me EXCEPT !.failed = @ \cup {"disk"}]
           Onward(to) == IF p.res - 1 = 0 THEN [to EXCEPT !.pc = "ended", !.rc = "0"]
                         ELSE [to EXCEPT !.pc = "print"]
<1>0. me.res = p.res - 1 /\ full.res = p.res - 1
  BY <1>1 DEF Whole
<1>2. PICK q :
  /\ Set(r, q)
  /\ \/ q = Onward(me) /\ csv' = csv \o p.buf
     \/ q = Onward(full) /\ csv' = csv
  BY <1>1, <1>0 DEF Close, Ended, FilesUnchanged, At
<1> HIDE DEF p
<1>3. Whole(q) /\ CloseTo(r, p, q)
  BY <1>0, <1>1, <1>2 DEF Whole, Typed, CloseTo, SameRounds, SameTest
<1>4. Typed(q)
  BY <1>0, <1>1, <1>3, LEBenchAssumption DEF Typed, CloseTo, Points, Calls, SameRounds, SameTest
<1> QED
  BY <1>2, <1>3, <1>4, FieldTypes DEF Becomes, p

\* The copy s of main begins where the child was, or ends there.
CopyTo(r, s, q) ==
  /\ q.id = run[r].id /\ q.parent = r /\ q.res = 1 /\ q.fd = None /\ q.off = 0
  /\ q.buf = <<>> /\ q.timed = 0 /\ q.failed = {} /\ q.err = "false"
  /\ q.idx = 0 /\ q.roi = "none"
  /\ \/ q.pc = "print" /\ q.rc = "runs"
     \/ q.pc = "ended" /\ q.rc = "1"

LEMMA CopyStep ==
  ASSUME TypeOK, FlowInv, NEW r \in Procs, NEW s \in Procs, Copy(r, s)
  PROVE  \E q : Becomes(s, q) /\ CopyTo(r, s, q)
<1> DEFINE b == Process("print")
           copy == [b EXCEPT !.id = run[r].id, !.parent = r, !.res = 1]
<1>1. run[r].id \in Int
  BY FieldTypes DEF TypeOK, Typed
<1>2. PICK q :
        Set(s, q) /\ (q = copy \/ q = [copy EXCEPT !.pc = "ended", !.rc = "1"])
  BY DEF Copy, Ended
<1>3. /\ Whole(copy) /\ copy.pc = "print" /\ copy.rc = "runs" /\ copy.id = run[r].id
      /\ copy.parent = r /\ copy.res = 1 /\ copy.fd = None /\ copy.off = 0 /\ copy.buf = <<>>
      /\ copy.timed = 0 /\ copy.failed = {} /\ copy.err = "false" /\ copy.idx = 0
      /\ copy.roi = "none"
  <2>1. /\ Whole(b) /\ b.pc = "print" /\ b.fd = None /\ b.off = 0 /\ b.idx = 0 /\ b.roi = "none"
        /\ b.buf = <<>> /\ b.rc = "runs" /\ b.timed = 0 /\ b.failed = {} /\ b.err = "false"
    BY DEF Whole, Process
  <2>2. copy = [b EXCEPT !.id = run[r].id, !.parent = r, !.res = 1]
    OBVIOUS
  <2> HIDE DEF b, copy
  <2> QED
    BY <2>1, <2>2 DEF Whole
<1> HIDE DEF b, copy
<1>4. Whole(q) /\ CopyTo(r, s, q)
  <2>1. CASE q = copy
    BY <1>3, <2>1 DEF Whole, CopyTo
  <2>2. CASE q = [copy EXCEPT !.pc = "ended", !.rc = "1"]
    BY <1>3, <2>2 DEF Whole, CopyTo
  <2> QED
    BY <1>2, <2>1, <2>2
<1>5. Typed(q)
  BY <1>1, <1>4 DEF Typed, CopyTo, Points
<1> QED
  BY <1>2, <1>4, <1>5, FieldTypes DEF Becomes
-------------------------------------------------------------------------------
\* Types and control points, action by action.
LEMMA FlowMoved ==
  ASSUME TypeOK, FlowInv, NEW r \in Procs, NEW q, Becomes(r, q), Flow(r)',
         path' \in Procs \cup {None}, len' \in [Procs -> Nat], csv' \in Seq(Lines), crowd' \in Nat
  PROVE  TypeOK' /\ FlowInv'
  BY OneMoves, FlowFrame DEF TypeOK, FlowInv

LEMMA LongerType ==
  ASSUME TypeOK, NEW f \in Procs \cup {None}, NEW n \in Nat
  PROVE  Longer(f, n) \in [Procs -> Nat]
  BY DEF Longer, TypeOK

LEMMA StartFlow ==
  ASSUME TypeOK, FlowInv, NEW r \in Procs, NEW id \in Ids, NEW scale \in Scales, Start(r, id,
         scale)
  PROVE  TypeOK' /\ FlowInv'
<1>1. PICK q : Becomes(r, q) /\ StartTo(r, id, run[r], q)
  BY StartStep
<1>2. run'[r] = q /\ q \in ProcessType
  BY <1>1, OneMoves DEF Becomes
<1>3. Flow(r)'
  BY <1>1, <1>2
     DEF Start, StartTo, FlowInv, Flow, At, Tester, Results, IsCopy, SameRounds, SameLines
<1> QED
  BY <1>1, <1>3, FlowMoved DEF Start, TypeOK, FilesUnchanged, PrintUnchanged

LEMMA AllocateFlow ==
  ASSUME TypeOK, FlowInv, NEW r \in Procs, Allocate(r)
  PROVE  TypeOK' /\ FlowInv'
<1>1. PICK q : Becomes(r, q) /\ AllocateTo(r, run[r], q)
  BY AllocateStep
<1>2. run'[r] = q /\ q \in ProcessType
  BY <1>1, OneMoves DEF Becomes
<1>3. Flow(r)'
  BY <1>1, <1>2
     DEF Allocate, AllocateTo, FlowInv, Flow, At, Tester, Results, IsCopy, Failed, SameTest,
         SameRounds, SameLines
<1> QED
  BY <1>1, <1>3, FlowMoved DEF Allocate, TypeOK, FilesUnchanged, PrintUnchanged

LEMMA RemoveFlow ==
  ASSUME TypeOK, FlowInv, NEW r \in Procs, Remove(r)
  PROVE  TypeOK' /\ FlowInv'
<1>1. PICK q : Becomes(r, q) /\ RemoveTo(r, run[r], q)
  BY RemoveStep
<1>2. run'[r] = q /\ q \in ProcessType
  BY <1>1, OneMoves DEF Becomes
<1>3. Flow(r)'
  BY <1>1, <1>2
     DEF Remove, RemoveTo, FlowInv, Flow, At, Tester, Results, IsCopy, Still, SameTest,
         SameRounds, SameLines, SameEnd
<1> QED
  BY <1>1, <1>3, FlowMoved DEF Remove, TypeOK, PrintUnchanged

LEMMA OpenFlow ==
  ASSUME TypeOK, FlowInv, NEW r \in Procs, Open(r)
  PROVE  TypeOK' /\ FlowInv'
<1>1. PICK q : Becomes(r, q) /\ OpenTo(r, run[r], q)
  BY OpenStep
<1>2. run'[r] = q /\ q \in ProcessType
  BY <1>1, OneMoves DEF Becomes
<1>3. Flow(r)'
  <2>1. q.pc \in {"cleanup", "fill"}
    BY <1>1 DEF OpenTo
  <2>2. CASE q.pc = "cleanup"
    BY <1>1, <1>2, <2>2, LEBenchAssumption
       DEF Open, OpenTo, FlowInv, Flow, At, Tester, Results, IsCopy, Failed, SameTest, SameRounds,
           SameLines, SameEnd, TypeOK
  <2>3. CASE q.pc = "fill"
    BY <1>1, <1>2, <2>3, LEBenchAssumption
       DEF Open, OpenTo, FlowInv, Flow, At, Tester, Results, IsCopy, Failed, SameTest, SameRounds,
           SameLines, SameEnd, TypeOK
  <2> QED
    BY <2>1, <2>2, <2>3
<1> QED
  BY <1>1, <1>3, FlowMoved DEF Open, TypeOK, FilesUnchanged, PrintUnchanged

LEMMA FillFlow ==
  ASSUME TypeOK, FlowInv, NEW r \in Procs, Fill(r)
  PROVE  TypeOK' /\ FlowInv'
<1>1. PICK q : Becomes(r, q) /\ FillTo(r, run[r], q)
  BY FillStep
<1>2. run'[r] = q /\ q \in ProcessType
  BY <1>1, OneMoves DEF Becomes
<1>3. Flow(r)'
  BY <1>1, <1>2
     DEF Fill, FillTo, FlowInv, Flow, At, Tester, Results, IsCopy, Failed, SameTest, SameRounds,
         SameLines
<1>4. len' \in [Procs -> Nat]
  <2>1. Size(r) \in Nat /\ run[r].fd \in Procs \cup {None} /\ len \in [Procs -> Nat]
    BY SizeNat, FieldTypes DEF Fill, FlowInv, Flow, At, TypeOK, Typed
  <2>2. Longer(run[r].fd, Size(r)) \in [Procs -> Nat]
    BY <2>1, LongerType
  <2> QED
    BY <1>1, <2>1, <2>2 DEF FillTo
<1> QED
  BY <1>1, <1>3, FlowMoved, <1>4 DEF Fill, TypeOK, PrintUnchanged

LEMMA SocketsFlow ==
  ASSUME TypeOK, FlowInv, NEW r \in Procs, Sockets(r)
  PROVE  TypeOK' /\ FlowInv'
<1>1. PICK q : Becomes(r, q) /\ SocketsTo(r, run[r], q)
  BY SocketsStep
<1>2. run'[r] = q /\ q \in ProcessType
  BY <1>1, OneMoves DEF Becomes
<1>3. Flow(r)'
  BY <1>1, <1>2
     DEF Sockets, SocketsTo, FlowInv, Flow, At, Tester, Results, IsCopy, Still, Failed, SameTest,
         SameRounds, SameLines, SameEnd, FileTests, FdTests
<1> QED
  BY <1>1, <1>3, FlowMoved DEF Sockets, TypeOK, FilesUnchanged, PrintUnchanged

LEMMA RoiBeginFlow ==
  ASSUME TypeOK, FlowInv, NEW r \in Procs, RoiBegin(r)
  PROVE  TypeOK' /\ FlowInv'
<1>1. PICK q : Becomes(r, q) /\ RoiBeginTo(r, run[r], q)
  BY RoiBeginStep
<1>2. run'[r] = q /\ q \in ProcessType
  BY <1>1, OneMoves DEF Becomes
<1>3. Flow(r)'
  BY <1>1, <1>2
     DEF RoiBegin, RoiBeginTo, FlowInv, Flow, At, Tester, Results, IsCopy, SameTest, SameLines,
         SameEnd
<1> QED
  BY <1>1, <1>3, FlowMoved DEF RoiBegin, TypeOK, FilesUnchanged, PrintUnchanged

LEMMA ReadFlow ==
  ASSUME TypeOK, FlowInv, NEW r \in Procs, Read(r)
  PROVE  TypeOK' /\ FlowInv'
<1>1. PICK q : Becomes(r, q) /\ ReadTo(r, run[r], q)
  BY ReadStep
<1>2. run'[r] = q /\ q \in ProcessType
  BY <1>1, OneMoves DEF Becomes
<1>3. Flow(r)'
  BY <1>1, <1>2
     DEF Read, ReadTo, FlowInv, Flow, At, Tester, Results, IsCopy, SameTest, SameLines, SameEnd,
         InRound
<1> QED
  BY <1>1, <1>3, FlowMoved DEF Read, TypeOK, FilesUnchanged, PrintUnchanged

LEMMA WriteFlow ==
  ASSUME TypeOK, FlowInv, NEW r \in Procs, Write(r)
  PROVE  TypeOK' /\ FlowInv'
<1>1. PICK q : Becomes(r, q) /\ WriteTo(r, run[r], q)
  BY WriteStep
<1>2. run'[r] = q /\ q \in ProcessType
  BY <1>1, OneMoves DEF Becomes
<1>3. Flow(r)'
  BY <1>1, <1>2
     DEF Write, WriteTo, FlowInv, Flow, At, Tester, Results, IsCopy, SameTest, SameLines, InRound
<1>4. len' \in [Procs -> Nat]
  <2>a. /\ Size(r) \in Nat /\ run[r].fd \in Procs \cup {None} /\ run[r].off \in Nat
        /\ len \in [Procs -> Nat]
    BY SizeNat, FieldTypes DEF Write, InRound, FlowInv, Flow, At, TypeOK, Typed
  <2>1. run[r].off + Size(r) \in Nat
    BY <2>a
  <2>2. Longer(run[r].fd, run[r].off + Size(r)) \in [Procs -> Nat]
    BY <2>a, <2>1, LongerType
  <2> QED
    BY <1>1, <2>a, <2>2 DEF WriteTo
<1> QED
  BY <1>1, <1>3, FlowMoved, <1>4 DEF Write, TypeOK, PrintUnchanged

LEMMA MapFlow ==
  ASSUME TypeOK, FlowInv, NEW r \in Procs, Map(r)
  PROVE  TypeOK' /\ FlowInv'
<1>1. PICK q : Becomes(r, q) /\ MapTo(r, run[r], q)
  BY MapStep
<1>2. run'[r] = q /\ q \in ProcessType
  BY <1>1, OneMoves DEF Becomes
<1>3. Flow(r)'
  BY <1>1, <1>2
     DEF Map, MapTo, FlowInv, Flow, At, Tester, Results, IsCopy, Failed, SameTest, SameRounds,
         SameLines, SameEnd, InRound, FileTests, FdTests
<1> QED
  BY <1>1, <1>3, FlowMoved DEF Map, TypeOK, FilesUnchanged, PrintUnchanged

LEMMA PageFaultFlow ==
  ASSUME TypeOK, FlowInv, NEW r \in Procs, PageFault(r)
  PROVE  TypeOK' /\ FlowInv'
<1>1. PICK q : Becomes(r, q) /\ PageFaultTo(r, run[r], q)
  BY PageFaultStep
<1>2. run'[r] = q /\ q \in ProcessType
  BY <1>1, OneMoves DEF Becomes
<1>3. Flow(r)'
  BY <1>1, <1>2
     DEF PageFault, PageFaultTo, FlowInv, Flow, At, Tester, Results, IsCopy, Crashed, SameTest,
         SameRounds, SameLines, SameEnd, InRound
<1> QED
  BY <1>1, <1>3, FlowMoved DEF PageFault, TypeOK, FilesUnchanged, PrintUnchanged

LEMMA PollFlow ==
  ASSUME TypeOK, FlowInv, NEW r \in Procs, Poll(r)
  PROVE  TypeOK' /\ FlowInv'
<1>1. PICK q : Becomes(r, q) /\ PollTo(r, run[r], q)
  BY PollStep
<1>2. run'[r] = q /\ q \in ProcessType
  BY <1>1, OneMoves DEF Becomes
<1>3. Flow(r)'
  BY <1>1, <1>2
     DEF Poll, PollTo, FlowInv, Flow, At, Tester, Results, IsCopy, Failed, SameTest, SameRounds,
         SameLines, SameEnd, InRound, FileTests, FdTests
<1> QED
  BY <1>1, <1>3, FlowMoved DEF Poll, TypeOK, FilesUnchanged, PrintUnchanged

LEMMA RoiEndFlow ==
  ASSUME TypeOK, FlowInv, NEW r \in Procs, RoiEnd(r)
  PROVE  TypeOK' /\ FlowInv'
<1>1. PICK q : Becomes(r, q) /\ RoiEndTo(r, run[r], q)
  BY RoiEndStep
<1>2. run'[r] = q /\ q \in ProcessType
  BY <1>1, OneMoves DEF Becomes
<1>3. Flow(r)'
  BY <1>1, <1>2
     DEF RoiEnd, RoiEndTo, FlowInv, Flow, At, Tester, Results, IsCopy, SameTest, SameEnd
<1> QED
  BY <1>1, <1>3, FlowMoved DEF RoiEnd, TypeOK, FilesUnchanged, PrintUnchanged

LEMMA CleanupFlow ==
  ASSUME TypeOK, FlowInv, NEW r \in Procs, Cleanup(r)
  PROVE  TypeOK' /\ FlowInv'
<1>1. PICK q : Becomes(r, q) /\ CleanupTo(r, run[r], q)
  BY CleanupStep
<1>2. run'[r] = q /\ q \in ProcessType
  BY <1>1, OneMoves DEF Becomes
<1>3. Flow(r)'
  <2>1. run[r].err \in {"false", "true"} /\ run[r].rc = "runs"
    BY FieldTypes DEF Cleanup, FlowInv, Flow, At, TypeOK, Typed
  <2>2. CASE run[r].err = "true"
    BY <1>1, <1>2, <2>2
       DEF Cleanup, CleanupTo, FlowInv, Flow, At, Tester, Results, IsCopy, SameTest, SameRounds,
           SameLines
  <2>3. CASE run[r].err = "false"
    BY <1>1, <1>2, <2>1, <2>3
       DEF Cleanup, CleanupTo, FlowInv, Flow, At, Tester, Results, IsCopy, SameTest, SameRounds,
           SameLines
  <2> QED
    BY <2>1, <2>2, <2>3
<1> QED
  BY <1>1, <1>3, FlowMoved DEF Cleanup, TypeOK, PrintUnchanged

LEMMA ProcessesFlow ==
  ASSUME TypeOK, FlowInv, NEW r \in Procs, Processes(r)
  PROVE  TypeOK' /\ FlowInv'
<1>1. PICK q : Becomes(r, q) /\ ProcessesTo(r, run[r], q)
  BY ProcessesStep
<1>2. run'[r] = q /\ q \in ProcessType
  BY <1>1, OneMoves DEF Becomes
<1>3. Flow(r)'
  BY <1>1, <1>2
     DEF Processes, ProcessesTo, FlowInv, Flow, At, Tester, Results, IsCopy, Crashed, SameTest,
         SameRounds, SameLines
<1> QED
  BY <1>1, <1>3, FlowMoved DEF Processes, TypeOK, FilesUnchanged, PrintUnchanged

LEMMA ErroredFlow ==
  ASSUME TypeOK, FlowInv, NEW r \in Procs, Errored(r)
  PROVE  TypeOK' /\ FlowInv'
<1>1. PICK q : Becomes(r, q) /\ ErroredTo(r, run[r], q)
  BY ErroredStep
<1>2. run'[r] = q /\ q \in ProcessType
  BY <1>1, OneMoves DEF Becomes
<1>3. Flow(r)'
  BY <1>1, <1>2
     DEF Errored, ErroredTo, FlowInv, Flow, At, Tester, Results, IsCopy, SameTest, SameRounds,
         SameLines
<1> QED
  BY <1>1, <1>3, FlowMoved DEF Errored, TypeOK, FilesUnchanged, PrintUnchanged

LEMMA ProbeFlow ==
  ASSUME TypeOK, FlowInv, NEW r \in Procs, Probe(r)
  PROVE  TypeOK' /\ FlowInv'
<1>1. PICK q : Becomes(r, q) /\ ProbeTo(r, run[r], q)
  BY ProbeStep
<1>2. run'[r] = q /\ q \in ProcessType
  BY <1>1, OneMoves DEF Becomes
<1>3. Flow(r)'
  BY <1>1, <1>2
     DEF Probe, ProbeTo, FlowInv, Flow, At, Tester, Results, IsCopy, Crashed, SameTest,
         SameRounds, SameLines, SameEnd
<1>4. crowd' \in Nat
  <2>1. Cardinality(Printing) \in Nat
    BY LEBenchAssumption, FS_Subset, FS_CardinalityType DEF Printing
  <2> QED
    BY <1>1, <2>1 DEF ProbeTo, TypeOK
<1> QED
  BY <1>1, <1>3, FlowMoved, <1>4 DEF Probe, TypeOK, FilesUnchanged

LEMMA CloseFlow ==
  ASSUME TypeOK, FlowInv, NEW r \in Procs, Close(r)
  PROVE  TypeOK' /\ FlowInv'
<1>1. PICK q : Becomes(r, q) /\ CloseTo(r, run[r], q)
  BY CloseStep
<1>2. run'[r] = q /\ q \in ProcessType
  BY <1>1, OneMoves DEF Becomes
<1>3. Flow(r)'
  BY <1>1, <1>2
     DEF Close, CloseTo, FlowInv, Flow, At, Tester, Results, IsCopy, SameTest, SameRounds
<1>4. csv' \in Seq(Lines)
  <2>1. csv \in Seq(Lines) /\ run[r].buf \in Seq(Lines)
    BY FieldTypes DEF TypeOK, Typed
  <2>2. csv \o run[r].buf \in Seq(Lines)
    BY <2>1, ConcatProperties
  <2> QED
    BY <1>1, <2>1, <2>2 DEF CloseTo
<1> QED
  BY <1>1, <1>3, FlowMoved, <1>4 DEF Close, TypeOK, FilesUnchanged

LEMMA CopyFlow ==
  ASSUME TypeOK, FlowInv, NEW r \in Procs, NEW s \in Procs, Copy(r, s)
  PROVE  TypeOK' /\ FlowInv'
<1>1. PICK q : Becomes(s, q) /\ CopyTo(r, s, q)
  BY CopyStep
<1>2. run'[s] = q /\ q \in ProcessType
  BY <1>1, OneMoves DEF Becomes
<1>3. /\ "kill" \in Fails /\ Tester(r) \in {"send", "recv"} /\ run[r].id \in ValidIds
      /\ r # None
  BY LEBenchAssumption DEF Copy, FlowInv, Flow, At
<1>4. Tester(s)' \in {"send", "recv"} /\ Results(s)' = 1
  BY <1>1, <1>2, <1>3 DEF CopyTo, Tester, Results
<1>5. Flow(s)'
  BY <1>1, <1>2, <1>3, <1>4 DEF CopyTo, Flow, At, IsCopy, FileTests, FdTests
<1> QED
  BY <1>1, <1>5, FlowMoved DEF Copy, TypeOK, FilesUnchanged, PrintUnchanged

\* Types and control points stay right, whoever moves.
LEMMA FlowStep == TypeOK /\ FlowInv /\ [Next]_vars => TypeOK' /\ FlowInv'
<1> SUFFICES ASSUME TypeOK, FlowInv, [Next]_vars PROVE TypeOK' /\ FlowInv'
  OBVIOUS
<1>1. ASSUME NEW r \in Procs, Step(r) PROVE TypeOK' /\ FlowInv'
  BY <1>1, StartFlow, AllocateFlow, RemoveFlow, OpenFlow, FillFlow, SocketsFlow, RoiBeginFlow,
     ReadFlow, WriteFlow, MapFlow, PageFaultFlow, PollFlow, RoiEndFlow, CleanupFlow,
     ProcessesFlow, CopyFlow, ErroredFlow, ProbeFlow, CloseFlow
     DEF Step
<1>2. CASE UNCHANGED vars
  BY <1>2, FlowFrame DEF vars, TypeOK, FlowInv
<1> QED
  BY <1>1, <1>2 DEF Next
-------------------------------------------------------------------------------
\* Who created the file that is open, or at LE_FILE_PATH, has it open; a file
\* nobody has created is empty.
Owned ==
  /\ path # None => run[path].fd = path
  /\ \A r \in Procs : run[r].fd # None => run[run[r].fd].fd = run[r].fd
  /\ \A f \in Procs : run[f].fd # f => len[f] = 0

Alone(r) == run[r].fd # None /\ \A q \in Procs \ {r} : run[q].fd # run[r].fd

\* Past its cleanup a test has removed its file; after create_and_fill it has at
\* least the size asked for, and the offset of who has it alone is at its end.
FileOf(r) ==
  /\ At(r, {"print", "close"}) \/ run[r].rc \in {"0", "1", "2"} =>
       (run[r].fd # None /\ Tester(r) # "read" => path # run[r].fd)
  /\ At(r, {"warmup", "measure"}) /\ Tester(r) \in FileTests =>
       "write" \in run[r].failed \/ len[run[r].fd] >= Size(r)
  /\ run[r].fd = None => run[r].timed = 0
  /\ Alone(r) =>
       /\ run[r].timed = 0
       /\ At(r, {"fill"}) => len[run[r].fd] = 0
       /\ At(r, {"warmup", "measure"}) /\ Tester(r) = "read" => len[run[r].fd] <= run[r].off

FileInv == Owned /\ \A r \in Procs : FileOf(r)

\* Nobody has opened anything.
LEMMA FileInit == Init => FileInv
<1> SUFFICES ASSUME Init PROVE FileInv
  OBVIOUS
<1>1. ASSUME NEW r \in Procs
      PROVE  /\ run[r].pc \in {"start", "unborn"} /\ run[r].fd = None /\ run[r].timed = 0
             /\ run[r].rc = "runs"
  <2>1. run[r] \in {Process("start"), Process("unborn")}
    BY DEF Init
  <2> QED
    BY <2>1, NewProcess DEF Points
<1> QED
  BY <1>1, LEBenchAssumption DEF Init, FileInv, Owned, FileOf, Alone, At

\* A step of r that opens nothing leaves the others what they have.
LEMMA OthersKeep ==
  ASSUME TypeOK, FlowInv, FileInv, NEW r \in Procs,
         \A t \in Procs : run'[t].fd = run[t].fd,
         path' \in {path, None}, len' = len \/ \E n \in Nat : len' = Longer(run[r].fd, n)
  PROVE  /\ Owned'
         /\ \A s \in Procs \ {r} : run'[s] = run[s] => FileOf(s)'
<1>1. \A t \in Procs :
        run[t].fd \in Procs \cup {None} /\ len[t] \in Nat /\ len'[t] \in Nat /\ len[t] <= len'[t]
  BY FieldTypes DEF TypeOK, Longer, Typed
<1>2. \A t \in Procs : t # run[r].fd => len'[t] = len[t]
  BY DEF TypeOK, Longer
<1>3. Owned'
  <2>1. path' # None => run'[path'].fd = path'
    BY DEF FileInv, Owned, TypeOK
  <2>2. \A t \in Procs : run'[t].fd # None => run'[run'[t].fd].fd = run'[t].fd
    BY <1>1 DEF FileInv, Owned
  <2>3. ASSUME NEW f \in Procs, run'[f].fd # f PROVE len'[f] = 0
    <3>1. run[f].fd # f /\ len[f] = 0
      BY <2>3 DEF FileInv, Owned
    <3>2. f # run[r].fd
      BY <1>1, <3>1, LEBenchAssumption DEF FileInv, Owned
    <3> QED
      BY <1>2, <3>1, <3>2
  <2> QED
    BY <2>1, <2>2, <2>3 DEF Owned
<1>4. ASSUME NEW s \in Procs \ {r}, run'[s] = run[s]
      PROVE  FileOf(s)'
  <2>1. FileOf(s) /\ Flow(s)
    BY DEF FileInv, FlowInv
  <2>2. At(s, {"warmup", "measure"}) /\ Tester(s) \in FileTests => Size(s) \in Nat
    BY <2>1, SizeNat DEF Flow, At
  <2>3. Alone(s)' => Alone(s)
    BY <1>4 DEF Alone
  <2>4. Alone(s) => len'[run[s].fd] = len[run[s].fd]
    BY <1>1, <1>2 DEF Alone
  <2> QED
    BY <1>1, <1>4, <2>1, <2>2, <2>3, <2>4 DEF FileOf, Flow, At, Tester, Size
<1> QED
  BY <1>3, <1>4

\* Files, action by action.
LEMMA StartFile ==
  ASSUME TypeOK, FlowInv, FileInv, NEW r \in Procs, NEW id \in Ids, NEW scale \in Scales, Start(r,
         id, scale)
  PROVE  FileInv'
<1>1. PICK q : Becomes(r, q) /\ StartTo(r, id, run[r], q)
  BY StartStep
<1>2. run'[r] = q /\ \A t \in Procs \ {r} : run'[t] = run[t]
  BY <1>1, OneMoves
<1>3. q.fd = run[r].fd /\ \A t \in Procs : run'[t].fd = run[t].fd
  BY <1>1, <1>2 DEF StartTo
<1>4. Alone(r)' => Alone(r)
  BY <1>3 DEF Alone
<1>5. FileOf(r)'
  BY <1>1, <1>2, <1>3, <1>4
     DEF Start, StartTo, FileInv, FileOf, FlowInv, Flow, At, Tester, Size, SameRounds,
         FilesUnchanged
<1> QED
  BY <1>2, <1>3, <1>5, OthersKeep DEF Start, StartTo, FilesUnchanged, FileInv

LEMMA AllocateFile ==
  ASSUME TypeOK, FlowInv, FileInv, NEW r \in Procs, Allocate(r)
  PROVE  FileInv'
<1>1. PICK q : Becomes(r, q) /\ AllocateTo(r, run[r], q)
  BY AllocateStep
<1>2. run'[r] = q /\ \A t \in Procs \ {r} : run'[t] = run[t]
  BY <1>1, OneMoves
<1>3. q.fd = run[r].fd /\ \A t \in Procs : run'[t].fd = run[t].fd
  BY <1>1, <1>2 DEF AllocateTo, Failed, SameTest
<1>4. Alone(r)' => Alone(r)
  BY <1>3 DEF Alone
<1>5. FileOf(r)'
  BY <1>1, <1>2, <1>3, <1>4
     DEF Allocate, AllocateTo, FileInv, FileOf, FlowInv, Flow, At, Tester, Size, Failed, SameTest,
         SameRounds, FilesUnchanged
<1> QED
  BY <1>2, <1>3, <1>5, OthersKeep DEF Allocate, AllocateTo, FilesUnchanged, FileInv

LEMMA RemoveFile ==
  ASSUME TypeOK, FlowInv, FileInv, NEW r \in Procs, Remove(r)
  PROVE  FileInv'
<1>1. PICK q : Becomes(r, q) /\ RemoveTo(r, run[r], q)
  BY RemoveStep
<1>2. run'[r] = q /\ \A t \in Procs \ {r} : run'[t] = run[t]
  BY <1>1, OneMoves
<1>3. q.fd = run[r].fd /\ \A t \in Procs : run'[t].fd = run[t].fd
  BY <1>1, <1>2 DEF RemoveTo, Still, SameTest
<1>4. Alone(r)' => Alone(r)
  BY <1>3 DEF Alone
<1>5. FileOf(r)'
  BY <1>1, <1>2, <1>3, <1>4
     DEF Remove, RemoveTo, FileInv, FileOf, FlowInv, Flow, At, Tester, Size, Still, SameTest,
         SameRounds, SameEnd
<1> QED
  BY <1>2, <1>3, <1>5, OthersKeep DEF Remove, RemoveTo, FileInv

LEMMA SocketsFile ==
  ASSUME TypeOK, FlowInv, FileInv, NEW r \in Procs, Sockets(r)
  PROVE  FileInv'
<1>1. PICK q : Becomes(r, q) /\ SocketsTo(r, run[r], q)
  BY SocketsStep
<1>2. run'[r] = q /\ \A t \in Procs \ {r} : run'[t] = run[t]
  BY <1>1, OneMoves
<1>3. q.fd = run[r].fd /\ \A t \in Procs : run'[t].fd = run[t].fd
  BY <1>1, <1>2 DEF SocketsTo, Still, Failed, SameTest
<1>4. Alone(r)' => Alone(r)
  BY <1>3 DEF Alone
<1>5. FileOf(r)'
  BY <1>1, <1>2, <1>3, <1>4
     DEF Sockets, SocketsTo, FileInv, FileOf, FlowInv, Flow, At, Tester, Size, Still, Failed,
         SameTest, SameRounds, SameEnd, FilesUnchanged, FileTests, FdTests
<1> QED
  BY <1>2, <1>3, <1>5, OthersKeep DEF Sockets, SocketsTo, FilesUnchanged, FileInv

LEMMA RoiBeginFile ==
  ASSUME TypeOK, FlowInv, FileInv, NEW r \in Procs, RoiBegin(r)
  PROVE  FileInv'
<1>1. PICK q : Becomes(r, q) /\ RoiBeginTo(r, run[r], q)
  BY RoiBeginStep
<1>2. run'[r] = q /\ \A t \in Procs \ {r} : run'[t] = run[t]
  BY <1>1, OneMoves
<1>3. q.fd = run[r].fd /\ \A t \in Procs : run'[t].fd = run[t].fd
  BY <1>1, <1>2 DEF RoiBeginTo, SameTest
<1>4. Alone(r)' => Alone(r)
  BY <1>3 DEF Alone
<1>5. FileOf(r)'
  BY <1>1, <1>2, <1>3, <1>4
     DEF RoiBegin, RoiBeginTo, FileInv, FileOf, FlowInv, Flow, At, Tester, Size, SameTest,
         SameEnd, FilesUnchanged
<1> QED
  BY <1>2, <1>3, <1>5, OthersKeep DEF RoiBegin, RoiBeginTo, FilesUnchanged, FileInv

LEMMA ReadFile ==
  ASSUME TypeOK, FlowInv, FileInv, NEW r \in Procs, Read(r)
  PROVE  FileInv'
<1>1. PICK q : Becomes(r, q) /\ ReadTo(r, run[r], q)
  BY ReadStep
<1>2. run'[r] = q /\ \A t \in Procs \ {r} : run'[t] = run[t]
  BY <1>1, OneMoves
<1>3. q.fd = run[r].fd /\ \A t \in Procs : run'[t].fd = run[t].fd
  BY <1>1, <1>2 DEF ReadTo, SameTest
<1>4. Alone(r)' => Alone(r)
  BY <1>3 DEF Alone
<1>5. run[r].fd # None /\ run[r].off \in Nat
  BY FieldTypes DEF Read, InRound, FlowInv, Flow, At, FileTests, TypeOK, Typed
<1>6. Alone(r) => q.timed = 0 /\ q.off = run[r].off
  <2>1. Alone(r) => run[r].timed = 0 /\ len[run[r].fd] <= run[r].off
    BY DEF Read, InRound, FileInv, FileOf, At
  <2> QED
    BY <1>1, <1>5, <2>1 DEF ReadTo
<1>7. FileOf(r)'
  BY <1>1, <1>2, <1>3, <1>4, <1>5, <1>6
     DEF Read, ReadTo, FileInv, FileOf, FlowInv, Flow, At, Tester, Size, SameTest, SameEnd,
         FilesUnchanged, InRound
<1> QED
  BY <1>2, <1>3, <1>7, OthersKeep DEF Read, ReadTo, FilesUnchanged, FileInv

LEMMA MapFile ==
  ASSUME TypeOK, FlowInv, FileInv, NEW r \in Procs, Map(r)
  PROVE  FileInv'
<1>1. PICK q : Becomes(r, q) /\ MapTo(r, run[r], q)
  BY MapStep
<1>2. run'[r] = q /\ \A t \in Procs \ {r} : run'[t] = run[t]
  BY <1>1, OneMoves
<1>3. q.fd = run[r].fd /\ \A t \in Procs : run'[t].fd = run[t].fd
  BY <1>1, <1>2 DEF MapTo, Failed, SameTest
<1>4. Alone(r)' => Alone(r)
  BY <1>3 DEF Alone
<1>5. FileOf(r)'
  BY <1>1, <1>2, <1>3, <1>4
     DEF Map, MapTo, FileInv, FileOf, FlowInv, Flow, At, Tester, Size, Failed, SameTest,
         SameRounds, SameEnd, FilesUnchanged, InRound, FileTests, FdTests
<1> QED
  BY <1>2, <1>3, <1>5, OthersKeep DEF Map, MapTo, FilesUnchanged, FileInv

LEMMA PageFaultFile ==
  ASSUME TypeOK, FlowInv, FileInv, NEW r \in Procs, PageFault(r)
  PROVE  FileInv'
<1>1. PICK q : Becomes(r, q) /\ PageFaultTo(r, run[r], q)
  BY PageFaultStep
<1>2. run'[r] = q /\ \A t \in Procs \ {r} : run'[t] = run[t]
  BY <1>1, OneMoves
<1>3. q.fd = run[r].fd /\ \A t \in Procs : run'[t].fd = run[t].fd
  BY <1>1, <1>2 DEF PageFaultTo, Crashed, SameTest
<1>4. Alone(r)' => Alone(r)
  BY <1>3 DEF Alone
<1>5. FileOf(r)'
  BY <1>1, <1>2, <1>3, <1>4
     DEF PageFault, PageFaultTo, FileInv, FileOf, FlowInv, Flow, At, Tester, Size, Crashed,
         SameTest, SameRounds, SameEnd, FilesUnchanged, InRound
<1> QED
  BY <1>2, <1>3, <1>5, OthersKeep DEF PageFault, PageFaultTo, FilesUnchanged, FileInv

LEMMA PollFile ==
  ASSUME TypeOK, FlowInv, FileInv, NEW r \in Procs, Poll(r)
  PROVE  FileInv'
<1>1. PICK q : Becomes(r, q) /\ PollTo(r, run[r], q)
  BY PollStep
<1>2. run'[r] = q /\ \A t \in Procs \ {r} : run'[t] = run[t]
  BY <1>1, OneMoves
<1>3. q.fd = run[r].fd /\ \A t \in Procs : run'[t].fd = run[t].fd
  BY <1>1, <1>2 DEF PollTo, Failed, SameTest
<1>4. Alone(r)' => Alone(r)
  BY <1>3 DEF Alone
<1>5. FileOf(r)'
  BY <1>1, <1>2, <1>3, <1>4
     DEF Poll, PollTo, FileInv, FileOf, FlowInv, Flow, At, Tester, Size, Failed, SameTest,
         SameRounds, SameEnd, FilesUnchanged, InRound, FileTests, FdTests
<1> QED
  BY <1>2, <1>3, <1>5, OthersKeep DEF Poll, PollTo, FilesUnchanged, FileInv

LEMMA RoiEndFile ==
  ASSUME TypeOK, FlowInv, FileInv, NEW r \in Procs, RoiEnd(r)
  PROVE  FileInv'
<1>1. PICK q : Becomes(r, q) /\ RoiEndTo(r, run[r], q)
  BY RoiEndStep
<1>2. run'[r] = q /\ \A t \in Procs \ {r} : run'[t] = run[t]
  BY <1>1, OneMoves
<1>3. q.fd = run[r].fd /\ \A t \in Procs : run'[t].fd = run[t].fd
  BY <1>1, <1>2 DEF RoiEndTo, SameTest
<1>4. Alone(r)' => Alone(r)
  BY <1>3 DEF Alone
<1>5. FileOf(r)'
  BY <1>1, <1>2, <1>3, <1>4
     DEF RoiEnd, RoiEndTo, FileInv, FileOf, FlowInv, Flow, At, Tester, Size, SameTest, SameEnd,
         FilesUnchanged
<1> QED
  BY <1>2, <1>3, <1>5, OthersKeep DEF RoiEnd, RoiEndTo, FilesUnchanged, FileInv

LEMMA CleanupFile ==
  ASSUME TypeOK, FlowInv, FileInv, NEW r \in Procs, Cleanup(r)
  PROVE  FileInv'
<1>1. PICK q : Becomes(r, q) /\ CleanupTo(r, run[r], q)
  BY CleanupStep
<1>2. run'[r] = q /\ \A t \in Procs \ {r} : run'[t] = run[t]
  BY <1>1, OneMoves
<1>3. q.fd = run[r].fd /\ \A t \in Procs : run'[t].fd = run[t].fd
  BY <1>1, <1>2 DEF CleanupTo, SameTest
<1>4. Alone(r)' => Alone(r)
  BY <1>3 DEF Alone
<1>5. FileOf(r)'
  BY <1>1, <1>2, <1>3, <1>4
     DEF Cleanup, CleanupTo, FileInv, FileOf, FlowInv, Flow, At, Tester, Size, SameTest,
         SameRounds
<1> QED
  BY <1>2, <1>3, <1>5, OthersKeep DEF Cleanup, CleanupTo, FileInv

LEMMA ProcessesFile ==
  ASSUME TypeOK, FlowInv, FileInv, NEW r \in Procs, Processes(r)
  PROVE  FileInv'
<1>1. PICK q : Becomes(r, q) /\ ProcessesTo(r, run[r], q)
  BY ProcessesStep
<1>2. run'[r] = q /\ \A t \in Procs \ {r} : run'[t] = run[t]
  BY <1>1, OneMoves
<1>3. q.fd = run[r].fd /\ \A t \in Procs : run'[t].fd = run[t].fd
  BY <1>1, <1>2 DEF ProcessesTo, Crashed, SameTest
<1>4. Alone(r)' => Alone(r)
  BY <1>3 DEF Alone
<1>5. FileOf(r)'
  BY <1>1, <1>2, <1>3, <1>4
     DEF Processes, ProcessesTo, FileInv, FileOf, FlowInv, Flow, At, Tester, Size, Crashed,
         SameTest, SameRounds, FilesUnchanged
<1> QED
  BY <1>2, <1>3, <1>5, OthersKeep DEF Processes, ProcessesTo, FilesUnchanged, FileInv

LEMMA ErroredFile ==
  ASSUME TypeOK, FlowInv, FileInv, NEW r \in Procs, Errored(r)
  PROVE  FileInv'
<1>1. PICK q : Becomes(r, q) /\ ErroredTo(r, run[r], q)
  BY ErroredStep
<1>2. run'[r] = q /\ \A t \in Procs \ {r} : run'[t] = run[t]
  BY <1>1, OneMoves
<1>3. q.fd = run[r].fd /\ \A t \in Procs : run'[t].fd = run[t].fd
  BY <1>1, <1>2 DEF ErroredTo, SameTest
<1>4. Alone(r)' => Alone(r)
  BY <1>3 DEF Alone
<1>5. FileOf(r)'
  BY <1>1, <1>2, <1>3, <1>4
     DEF Errored, ErroredTo, FileInv, FileOf, FlowInv, Flow, At, Tester, Size, SameTest,
         SameRounds, FilesUnchanged
<1> QED
  BY <1>2, <1>3, <1>5, OthersKeep DEF Errored, ErroredTo, FilesUnchanged, FileInv

LEMMA ProbeFile ==
  ASSUME TypeOK, FlowInv, FileInv, NEW r \in Procs, Probe(r)
  PROVE  FileInv'
<1>1. PICK q : Becomes(r, q) /\ ProbeTo(r, run[r], q)
  BY ProbeStep
<1>2. run'[r] = q /\ \A t \in Procs \ {r} : run'[t] = run[t]
  BY <1>1, OneMoves
<1>3. q.fd = run[r].fd /\ \A t \in Procs : run'[t].fd = run[t].fd
  BY <1>1, <1>2 DEF ProbeTo, Crashed, SameTest
<1>4. Alone(r)' => Alone(r)
  BY <1>3 DEF Alone
<1>5. FileOf(r)'
  BY <1>1, <1>2, <1>3, <1>4
     DEF Probe, ProbeTo, FileInv, FileOf, FlowInv, Flow, At, Tester, Size, Crashed, SameTest,
         SameRounds, SameEnd, FilesUnchanged
<1> QED
  BY <1>2, <1>3, <1>5, OthersKeep DEF Probe, ProbeTo, FilesUnchanged, FileInv

LEMMA CloseFile ==
  ASSUME TypeOK, FlowInv, FileInv, NEW r \in Procs, Close(r)
  PROVE  FileInv'
<1>1. PICK q : Becomes(r, q) /\ CloseTo(r, run[r], q)
  BY CloseStep
<1>2. run'[r] = q /\ \A t \in Procs \ {r} : run'[t] = run[t]
  BY <1>1, OneMoves
<1>3. q.fd = run[r].fd /\ \A t \in Procs : run'[t].fd = run[t].fd
  BY <1>1, <1>2 DEF CloseTo, SameTest
<1>4. Alone(r)' => Alone(r)
  BY <1>3 DEF Alone
<1>5. FileOf(r)'
  BY <1>1, <1>2, <1>3, <1>4
     DEF Close, CloseTo, FileInv, FileOf, FlowInv, Flow, At, Tester, Size, SameTest, SameRounds,
         FilesUnchanged
<1> QED
  BY <1>2, <1>3, <1>5, OthersKeep DEF Close, CloseTo, FilesUnchanged, FileInv

\* Writing makes a file longer, for whoever has it open.
LEMMA LongerIs ==
  ASSUME TypeOK, NEW f \in Procs, NEW n \in Nat
  PROVE  Longer(f, n)[f] >= n /\ (len[f] <= n => Longer(f, n)[f] = n) /\ Longer(f, n)[f] \in Nat
  BY DEF Longer, TypeOK

LEMMA FillFile ==
  ASSUME TypeOK, FlowInv, FileInv, NEW r \in Procs, Fill(r)
  PROVE  FileInv'
<1>1. PICK q : Becomes(r, q) /\ FillTo(r, run[r], q)
  BY FillStep
<1>2. run'[r] = q /\ \A t \in Procs \ {r} : run'[t] = run[t]
  BY <1>1, OneMoves
<1>3. q.fd = run[r].fd /\ \A t \in Procs : run'[t].fd = run[t].fd
  BY <1>1, <1>2 DEF FillTo, Failed, SameTest
<1>4. Alone(r)' => Alone(r)
  BY <1>3 DEF Alone
<1>5. /\ run[r].pc = "fill" /\ run[r].fd \in Procs /\ Tester(r) \in FileTests /\ Size(r) \in Nat
      /\ run[r].rc = "runs" /\ run[r].off \in Nat /\ len[run[r].fd] \in Nat /\ run[r].fd # None
  BY FieldTypes, SizeNat, LEBenchAssumption DEF Fill, FlowInv, Flow, At, TypeOK, Typed
<1>6. Alone(r) => len[run[r].fd] = 0 /\ run[r].timed = 0
  BY <1>5 DEF FileInv, FileOf, At
<1>7. /\ Tester(r)' = Tester(r) /\ Size(r)' = Size(r)
  BY <1>1, <1>2 DEF FillTo, SameTest, Tester, Size
<1>8. q.timed = run[r].timed /\ q.rc = "runs"
  BY <1>1, <1>5 DEF FillTo, Failed
<1>9. FileOf(r)'
  <2>1. CASE q.pc = "cleanup"
    BY <1>2, <1>3, <1>4, <1>5, <1>6, <1>8, <2>1 DEF FileOf, At, Alone
  <2>2. CASE q.pc = "warmup" /\ q.off = Size(r) /\ len' = Longer(run[r].fd, Size(r))
    <3>1. len'[run[r].fd] >= Size(r) /\ (Alone(r) => len'[run[r].fd] <= Size(r))
      BY <1>5, <1>6, <2>2, LongerIs
    <3> QED
      BY <1>2, <1>3, <1>4, <1>5, <1>6, <1>7, <1>8, <2>2, <3>1 DEF FileOf, At
  <2>3. CASE /\ q.pc = "warmup" /\ q.failed = run[r].failed \cup {"write"}
             /\ q.off = run[r].off /\ len' = len
    BY <1>2, <1>3, <1>4, <1>5, <1>6, <1>7, <1>8, <2>3 DEF FileOf, At
  <2> QED
    BY <1>1, <2>1, <2>2, <2>3 DEF FillTo
<1>10. path' = path /\ (len' = len \/ len' = Longer(run[r].fd, Size(r)))
  BY <1>1 DEF Fill, FillTo
<1> QED
  BY <1>2, <1>3, <1>5, <1>9, <1>10, OthersKeep DEF FileInv

LEMMA WriteFile ==
  ASSUME TypeOK, FlowInv, FileInv, NEW r \in Procs, Write(r)
  PROVE  FileInv'
<1>1. PICK q : Becomes(r, q) /\ WriteTo(r, run[r], q)
  BY WriteStep
<1>2. run'[r] = q /\ \A t \in Procs \ {r} : run'[t] = run[t]
  BY <1>1, OneMoves
<1>3. q.fd = run[r].fd /\ \A t \in Procs : run'[t].fd = run[t].fd
  BY <1>1, <1>2 DEF WriteTo, SameTest
<1>4. Alone(r)' => Alone(r)
  BY <1>3 DEF Alone
<1>5. /\ run[r].pc \in {"warmup", "measure"} /\ run[r].fd \in Procs /\ Tester(r) = "write"
      /\ Size(r) \in Nat /\ run[r].off \in Nat /\ run[r].rc = "runs" /\ len[run[r].fd] \in Nat
      /\ Tester(r) \in FileTests
  BY FieldTypes, SizeNat DEF Write, InRound, FlowInv, Flow, At, FileTests, TypeOK, Typed
<1>6. run[r].off + Size(r) \in Nat
  BY <1>5
<1>7. /\ Tester(r)' = Tester(r) /\ Size(r)' = Size(r)
  BY <1>1, <1>2 DEF WriteTo, SameTest, Tester, Size
<1>8. FileOf(r) /\ q.timed = run[r].timed /\ q.rc = run[r].rc /\ q.pc = run[r].pc
  BY <1>1 DEF FileInv, WriteTo
<1>9. FileOf(r)'
  <2>1. CASE q.failed = run[r].failed \cup {"write"}
    BY <1>1, <1>2, <1>3, <1>4, <1>5, <1>7, <1>8, <2>1 DEF FileOf, At
  <2>2. CASE q.failed = run[r].failed /\ len' = Longer(run[r].fd, run[r].off + Size(r))
    <3>1. len'[run[r].fd] >= Size(r)
      BY <1>5, <1>6, <2>2, LongerIs
    <3> QED
      BY <1>1, <1>2, <1>3, <1>4, <1>5, <1>7, <1>8, <2>2, <3>1 DEF FileOf, At
  <2> QED
    BY <1>1, <2>1, <2>2 DEF WriteTo
<1>10. path' = path /\ (len' = len \/ len' = Longer(run[r].fd, run[r].off + Size(r)))
  BY <1>1 DEF Write, WriteTo
<1> QED
  BY <1>2, <1>3, <1>6, <1>9, <1>10, OthersKeep DEF FileInv

LEMMA CopyFile ==
  ASSUME TypeOK, FlowInv, FileInv, NEW r \in Procs, NEW s \in Procs, Copy(r, s)
  PROVE  FileInv'
<1>1. PICK q : Becomes(s, q) /\ CopyTo(r, s, q)
  BY CopyStep
<1>2. run'[s] = q /\ \A t \in Procs \ {s} : run'[t] = run[t]
  BY <1>1, OneMoves
<1>3. run[s].fd = None /\ q.fd = None
  BY <1>1 DEF Copy, CopyTo, FlowInv, Flow, At
<1>4. \A t \in Procs : run'[t].fd = run[t].fd
  BY <1>2, <1>3
<1>5. FileOf(s)'
  BY <1>1, <1>2, <1>3 DEF CopyTo, FileInv, FileOf, Alone, At
<1> QED
  BY <1>2, <1>4, <1>5, OthersKeep DEF Copy, FilesUnchanged, FileInv

LEMMA OpenFile ==
  ASSUME TypeOK, FlowInv, FileInv, NEW r \in Procs, Open(r)
  PROVE  FileInv'
<1>1. PICK q : Becomes(r, q) /\ OpenTo(r, run[r], q)
  BY OpenStep
<1>2. run'[r] = q /\ \A t \in Procs \ {r} : run'[t] = run[t]
  BY <1>1, OneMoves
<1>3. run[r].fd = None /\ run[r].timed = 0 /\ run[r].rc = "runs" /\ r # None /\ len' = len
  BY LEBenchAssumption DEF Open, FlowInv, Flow, At, FileInv, FileOf, FilesUnchanged
<1>4. CASE q.pc = "cleanup"
  <2>1. q.fd = None /\ q.timed = 0 /\ q.rc = "runs" /\ path' = path
    BY <1>1, <1>3, <1>4 DEF OpenTo, Failed, SameTest, SameRounds
  <2>2. FileOf(r)'
    BY <1>2, <1>4, <2>1 DEF FileOf, Alone, At
  <2>3. \A t \in Procs : run'[t].fd = run[t].fd
    BY <1>2, <1>3, <2>1
  <2> QED
    BY <1>2, <1>3, <2>1, <2>2, <2>3, OthersKeep DEF FileInv
<1>5. CASE q.pc = "fill"
  <2> DEFINE file == IF path = None THEN r ELSE path
  <2>1. q.fd = file /\ path' = file /\ q.timed = 0 /\ q.rc = "runs"
    BY <1>1, <1>3, <1>5 DEF OpenTo, Failed, SameRounds, SameEnd
  <2>2. /\ file \in Procs /\ file # None /\ run'[file].fd = file
    BY <1>2, <1>3, <2>1, LEBenchAssumption DEF TypeOK, FileInv, Owned
  <2>3. \A t \in Procs : run[t].fd # r
    BY <1>3, LEBenchAssumption DEF FileInv, Owned
  <2>4. Owned'
    <3>1. \A t \in Procs : run'[t].fd # None => run'[run'[t].fd].fd = run'[t].fd
      <4> SUFFICES ASSUME NEW t \in Procs, run'[t].fd # None
                   PROVE  run'[run'[t].fd].fd = run'[t].fd
        OBVIOUS
      <4>1. CASE t = r
        BY <1>2, <2>1, <2>2, <4>1
      <4>2. CASE t # r
        <5>1. PICK f : f = run[t].fd /\ f # None /\ f # r /\ run'[t].fd = f
          BY <1>2, <2>3, <4>2
        <5>2. f \in Procs
          BY <5>1, FieldTypes DEF TypeOK, Typed
        <5>3. run[f].fd = f
          BY <5>1 DEF FileInv, Owned
        <5> QED
          BY <1>2, <5>1, <5>2, <5>3
      <4> QED
        BY <4>1, <4>2
    <3>2. \A f \in Procs : run'[f].fd # f => len'[f] = 0
      BY <1>2, <1>3 DEF FileInv, Owned
    <3> QED
      BY <2>1, <2>2, <3>1, <3>2 DEF Owned
  <2>5. FileOf(r)'
    <3>1. Alone(r)' => len[file] = 0
      <4>1. CASE path = None
        BY <1>3, <4>1 DEF FileInv, Owned
      <4>2. CASE path # None
        <5>1. run[path].fd = path /\ path # r /\ path \in Procs
          BY <1>3, <4>2, LEBenchAssumption DEF FileInv, Owned, TypeOK
        <5> QED
          BY <1>2, <2>1, <4>2, <5>1 DEF Alone
      <4> QED
        BY <4>1, <4>2
    <3> QED
      BY <1>2, <1>3, <1>5, <2>1, <2>2, <3>1 DEF FileOf, At
  <2>6. ASSUME NEW t \in Procs \ {r} PROVE FileOf(t)'
    <3>1. FileOf(t) /\ run'[t] = run[t] /\ run[t].fd # r
      BY <1>2, <2>3 DEF FileInv
    <3>2. Alone(t)' => Alone(t)
      BY <1>2, <1>3 DEF Alone
    <3> QED
      BY <1>3, <2>1, <3>1, <3>2 DEF FileOf, At, Tester, Size
  <2> QED
    BY <2>4, <2>5, <2>6 DEF FileInv
<1> QED
  BY <1>1, <1>4, <1>5 DEF OpenTo

\* Files stay with who created them, whoever moves.
LEMMA FileStep == TypeOK /\ FlowInv /\ FileInv /\ [Next]_vars => FileInv'
<1> SUFFICES ASSUME TypeOK, FlowInv, FileInv, [Next]_vars PROVE FileInv'
  OBVIOUS
<1>1. ASSUME NEW r \in Procs, Step(r) PROVE FileInv'
  BY <1>1, StartFile, AllocateFile, RemoveFile, OpenFile, FillFile, SocketsFile, RoiBeginFile,
     ReadFile, WriteFile, MapFile, PageFaultFile, PollFile, RoiEndFile, CleanupFile,
     ProcessesFile, CopyFile, ErroredFile, ProbeFile, CloseFile
     DEF Step
<1>2. CASE UNCHANGED vars
  BY <1>2 DEF vars, FileInv, Owned, FileOf, Alone, At, Tester, Size
<1> QED
  BY <1>1, <1>2 DEF Next
-------------------------------------------------------------------------------
\* A crash comes of one of these.
Faults == {"mmap", "malloc", "write", "create", "csv"}

\* A step of a test, before the first result is printed.
Early(r, q) ==
  /\ ~At(r, {"print", "close", "ended"}) /\ csv' = csv /\ crowd' = crowd
  /\ q.parent = run[r].parent
  /\ \/ q.pc \notin {"print", "close", "ended"} /\ q.rc = "runs"
     \/ q.pc = "ended" /\ q.rc \in {"1", "2", "killed"}
     \/ q.pc = "ended" /\ q.rc = "crashed" /\ q.failed \cap Faults # {}
     \/ q.pc = "print" /\ q.rc = "runs" /\ q.res = Results(r)'

LEMMA StartEarly ==
  ASSUME TypeOK, FlowInv, NEW r \in Procs, NEW id \in Ids, NEW scale \in Scales, Start(r, id,
         scale)
  PROVE  \E q : Becomes(r, q) /\ Early(r, q)
<1>1. PICK q : Becomes(r, q) /\ StartTo(r, id, run[r], q)
  BY StartStep
<1>2. run'[r] = q
  BY <1>1, OneMoves
<1>3. Early(r, q)
  BY <1>1, <1>2
     DEF Start, StartTo, Early, FlowInv, Flow, At, Results, Tester, PrintUnchanged, IsCopy,
         SameRounds, SameLines, FileTests, FdTests
<1> QED
  BY <1>1, <1>3

LEMMA AllocateEarly ==
  ASSUME TypeOK, FlowInv, NEW r \in Procs, Allocate(r)
  PROVE  \E q : Becomes(r, q) /\ Early(r, q)
<1>1. PICK q : Becomes(r, q) /\ AllocateTo(r, run[r], q)
  BY AllocateStep
<1>2. run'[r] = q
  BY <1>1, OneMoves
<1>3. Early(r, q)
  BY <1>1, <1>2
     DEF Allocate, AllocateTo, Early, FlowInv, Flow, At, Results, Tester, PrintUnchanged, IsCopy,
         Failed, SameTest, SameRounds, SameLines, FileTests, FdTests
<1> QED
  BY <1>1, <1>3

LEMMA RemoveEarly ==
  ASSUME TypeOK, FlowInv, NEW r \in Procs, Remove(r)
  PROVE  \E q : Becomes(r, q) /\ Early(r, q)
<1>1. PICK q : Becomes(r, q) /\ RemoveTo(r, run[r], q)
  BY RemoveStep
<1>2. run'[r] = q
  BY <1>1, OneMoves
<1>3. Early(r, q)
  BY <1>1, <1>2
     DEF Remove, RemoveTo, Early, FlowInv, Flow, At, Results, Tester, PrintUnchanged, IsCopy,
         Still, SameTest, SameRounds, SameLines, SameEnd, FileTests, FdTests
<1> QED
  BY <1>1, <1>3

LEMMA OpenEarly ==
  ASSUME TypeOK, FlowInv, NEW r \in Procs, Open(r)
  PROVE  \E q : Becomes(r, q) /\ Early(r, q)
<1>1. PICK q : Becomes(r, q) /\ OpenTo(r, run[r], q)
  BY OpenStep
<1>2. run'[r] = q
  BY <1>1, OneMoves
<1>3. Early(r, q)
  BY <1>1, <1>2
     DEF Open, OpenTo, Early, FlowInv, Flow, At, Results, Tester, PrintUnchanged, IsCopy, Failed,
         SameTest, SameRounds, SameLines, SameEnd, FileTests, FdTests
<1> QED
  BY <1>1, <1>3

LEMMA FillEarly ==
  ASSUME TypeOK, FlowInv, NEW r \in Procs, Fill(r)
  PROVE  \E q : Becomes(r, q) /\ Early(r, q)
<1>1. PICK q : Becomes(r, q) /\ FillTo(r, run[r], q)
  BY FillStep
<1>2. run'[r] = q
  BY <1>1, OneMoves
<1>3. Early(r, q)
  BY <1>1, <1>2
     DEF Fill, FillTo, Early, FlowInv, Flow, At, Results, Tester, PrintUnchanged, IsCopy, Failed,
         SameTest, SameRounds, SameLines, FileTests, FdTests
<1> QED
  BY <1>1, <1>3

LEMMA SocketsEarly ==
  ASSUME TypeOK, FlowInv, NEW r \in Procs, Sockets(r)
  PROVE  \E q : Becomes(r, q) /\ Early(r, q)
<1>1. PICK q : Becomes(r, q) /\ SocketsTo(r, run[r], q)
  BY SocketsStep
<1>2. run'[r] = q
  BY <1>1, OneMoves
<1>3. Early(r, q)
  BY <1>1, <1>2
     DEF Sockets, SocketsTo, Early, FlowInv, Flow, At, Results, Tester, PrintUnchanged, IsCopy,
         Still, Failed, SameTest, SameRounds, SameLines, SameEnd, FileTests, FdTests
<1> QED
  BY <1>1, <1>3

LEMMA RoiBeginEarly ==
  ASSUME TypeOK, FlowInv, NEW r \in Procs, RoiBegin(r)
  PROVE  \E q : Becomes(r, q) /\ Early(r, q)
<1>1. PICK q : Becomes(r, q) /\ RoiBeginTo(r, run[r], q)
  BY RoiBeginStep
<1>2. run'[r] = q
  BY <1>1, OneMoves
<1>3. Early(r, q)
  BY <1>1, <1>2
     DEF RoiBegin, RoiBeginTo, Early, FlowInv, Flow, At, Results, Tester, PrintUnchanged, IsCopy,
         SameTest, SameLines, SameEnd, FileTests, FdTests
<1> QED
  BY <1>1, <1>3

LEMMA ReadEarly ==
  ASSUME TypeOK, FlowInv, NEW r \in Procs, Read(r)
  PROVE  \E q : Becomes(r, q) /\ Early(r, q)
<1>1. PICK q : Becomes(r, q) /\ ReadTo(r, run[r], q)
  BY ReadStep
<1>2. run'[r] = q
  BY <1>1, OneMoves
<1>3. Early(r, q)
  BY <1>1, <1>2
     DEF Read, ReadTo, Early, FlowInv, Flow, At, InRound, Results, Tester, PrintUnchanged, IsCopy,
         SameTest, SameLines, SameEnd, FileTests, FdTests
<1> QED
  BY <1>1, <1>3

LEMMA WriteEarly ==
  ASSUME TypeOK, FlowInv, NEW r \in Procs, Write(r)
  PROVE  \E q : Becomes(r, q) /\ Early(r, q)
<1>1. PICK q : Becomes(r, q) /\ WriteTo(r, run[r], q)
  BY WriteStep
<1>2. run'[r] = q
  BY <1>1, OneMoves
<1>3. Early(r, q)
  BY <1>1, <1>2
     DEF Write, WriteTo, Early, FlowInv, Flow, At, InRound, Results, Tester, PrintUnchanged,
         IsCopy, SameTest, SameLines, FileTests, FdTests
<1> QED
  BY <1>1, <1>3

LEMMA MapEarly ==
  ASSUME TypeOK, FlowInv, NEW r \in Procs, Map(r)
  PROVE  \E q : Becomes(r, q) /\ Early(r, q)
<1>1. PICK q : Becomes(r, q) /\ MapTo(r, run[r], q)
  BY MapStep
<1>2. run'[r] = q
  BY <1>1, OneMoves
<1>3. Early(r, q)
  BY <1>1, <1>2
     DEF Map, MapTo, Early, FlowInv, Flow, At, InRound, Results, Tester, PrintUnchanged, IsCopy,
         Failed, SameTest, SameRounds, SameLines, SameEnd, FileTests, FdTests
<1> QED
  BY <1>1, <1>3

LEMMA PageFaultEarly ==
  ASSUME TypeOK, FlowInv, FileInv, NEW r \in Procs, PageFault(r)
  PROVE  \E q : Becomes(r, q) /\ Early(r, q)
<1>1. PICK q : Becomes(r, q) /\ PageFaultTo(r, run[r], q)
  BY PageFaultStep
<1>2. run'[r] = q
  BY <1>1, OneMoves
<1>3. len[run[r].fd] = 0 \/ "malloc" \in run[r].failed => run[r].failed \cap Faults # {}
  <2>1. Size(r) >= 1 /\ Size(r) \in Nat
    BY SizeNat DEF PageFault, InRound, At, FlowInv, Flow, FileTests
  <2>2. "write" \in run[r].failed \/ len[run[r].fd] >= Size(r)
    BY DEF PageFault, InRound, At, FileInv, FileOf, FileTests
  <2>3. len[run[r].fd] = 0 => "write" \in run[r].failed
    BY <2>1, <2>2
  <2> QED
    BY <2>3 DEF Faults
<1>4. Early(r, q)
  BY <1>1, <1>2, <1>3
     DEF PageFault, PageFaultTo, Early, FlowInv, Flow, At, InRound, Results, Tester,
         PrintUnchanged, IsCopy, Crashed, SameTest, SameRounds, SameLines, SameEnd, FileTests,
         FdTests, Faults
<1> QED
  BY <1>1, <1>4

LEMMA PollEarly ==
  ASSUME TypeOK, FlowInv, NEW r \in Procs, Poll(r)
  PROVE  \E q : Becomes(r, q) /\ Early(r, q)
<1>1. PICK q : Becomes(r, q) /\ PollTo(r, run[r], q)
  BY PollStep
<1>2. run'[r] = q
  BY <1>1, OneMoves
<1>3. Early(r, q)
  BY <1>1, <1>2
     DEF Poll, PollTo, Early, FlowInv, Flow, At, InRound, Results, Tester, PrintUnchanged, IsCopy,
         Failed, SameTest, SameRounds, SameLines, SameEnd, FileTests, FdTests
<1> QED
  BY <1>1, <1>3

LEMMA RoiEndEarly ==
  ASSUME TypeOK, FlowInv, NEW r \in Procs, RoiEnd(r)
  PROVE  \E q : Becomes(r, q) /\ Early(r, q)
<1>1. PICK q : Becomes(r, q) /\ RoiEndTo(r, run[r], q)
  BY RoiEndStep
<1>2. run'[r] = q
  BY <1>1, OneMoves
<1>3. Early(r, q)
  BY <1>1, <1>2
     DEF RoiEnd, RoiEndTo, Early, FlowInv, Flow, At, Results, Tester, PrintUnchanged, IsCopy,
         SameTest, SameEnd, FileTests, FdTests
<1> QED
  BY <1>1, <1>3

LEMMA CleanupEarly ==
  ASSUME TypeOK, FlowInv, NEW r \in Procs, Cleanup(r)
  PROVE  \E q : Becomes(r, q) /\ Early(r, q)
<1>1. PICK q : Becomes(r, q) /\ CleanupTo(r, run[r], q)
  BY CleanupStep
<1>2. run'[r] = q
  BY <1>1, OneMoves
<1>3. Early(r, q)
  BY <1>1, <1>2, FieldTypes
     DEF TypeOK, Typed, Cleanup, CleanupTo, Early, FlowInv, Flow, At, Results, Tester,
         PrintUnchanged, IsCopy, SameTest, SameRounds, SameLines, FileTests, FdTests
<1> QED
  BY <1>1, <1>3

LEMMA ProcessesEarly ==
  ASSUME TypeOK, FlowInv, NEW r \in Procs, Processes(r)
  PROVE  \E q : Becomes(r, q) /\ Early(r, q)
<1>1. PICK q : Becomes(r, q) /\ ProcessesTo(r, run[r], q)
  BY ProcessesStep
<1>2. run'[r] = q
  BY <1>1, OneMoves
<1>3. Early(r, q)
  BY <1>1, <1>2
     DEF Processes, ProcessesTo, Early, FlowInv, Flow, At, Results, Tester, PrintUnchanged,
         IsCopy, Crashed, SameTest, SameRounds, SameLines, FileTests, FdTests, Faults
<1> QED
  BY <1>1, <1>3

\* Up to its first result a step of a test prints nothing.
LEMMA EarlySteps ==
  ASSUME TypeOK, FlowInv, FileInv, NEW r \in Procs, Step(r)
  PROVE  \/ \E q : Becomes(r, q) /\ Early(r, q)
         \/ \E s \in Procs : Copy(r, s)
         \/ Errored(r) \/ Probe(r) \/ Close(r)
  BY StartEarly, AllocateEarly, RemoveEarly, OpenEarly, FillEarly, SocketsEarly, RoiBeginEarly,
     ReadEarly, WriteEarly, MapEarly, PageFaultEarly, PollEarly, RoiEndEarly, CleanupEarly,
     ProcessesEarly DEF Step
-------------------------------------------------------------------------------
\* Who has found the file empty, and is going to write the header.
Holding == {r \in Procs : At(r, {"close"}) /\ Len(run[r].buf) = 2}

\* What a process is about to write.
BufferOf(r) ==
  At(r, {"close"}) =>
    \/ run[r].buf = <<Line(r, Nth(r))>> /\ csv # <<>>
    \/ run[r].buf = <<Line(r, 0), Line(r, Nth(r))>>

HeaderInv ==
  /\ csv # <<>> => IsHeader(csv[1])
  /\ Cardinality(Printing) <= crowd
  /\ Cardinality(Headers) + Cardinality(Holding) <= crowd

\* What a process has written.
LinesAre(r) ==
  /\ ~At(r, {"print", "close", "ended"}) \/ run[r].rc \in {"1", "2", "killed"} => LinesOf(r) = {}
  /\ ~IsCopy(r) /\ "disk" \notin run[r].failed =>
       /\ At(r, {"print", "close"}) => ResultsPrinted(r, Results(r) - run[r].res)
       /\ run[r].rc = "0" => ResultsPrinted(r, Results(r))
  /\ IsCopy(r) =>
       /\ At(r, {"print", "close"}) => LinesOf(r) = {}
       /\ \A k, l \in LinesOf(r) : k = l
  /\ run[r].rc = "crashed" => run[r].failed \cap Faults # {}

PrintInv == HeaderInv /\ \A r \in Procs : BufferOf(r) /\ LinesAre(r)
-------------------------------------------------------------------------------
\* lebench_stats.csv is empty.
LEMMA PrintInit == Init => PrintInv
<1> SUFFICES ASSUME Init PROVE PrintInv
  OBVIOUS
<1>1. ASSUME NEW r \in Procs
      PROVE  run[r].pc \in {"start", "unborn"} /\ run[r].rc = "runs" /\ run[r].parent = None
  <2>1. run[r] \in {Process("start"), Process("unborn")}
    BY DEF Init
  <2> QED
    BY <2>1, NewProcess DEF Points
<1>2. Printing = {} /\ Holding = {} /\ Headers = {} /\ \A r \in Procs : LinesOf(r) = {}
  BY <1>1 DEF Printing, Holding, Headers, LinesOf, Init, At
<1>3. HeaderInv
  BY <1>2, FS_EmptySet DEF HeaderInv, Init
<1> QED
  BY <1>1, <1>2, <1>3 DEF PrintInv, BufferOf, LinesAre, At, IsCopy

\* Nothing is written.
LEMMA PrintFrame ==
  ASSUME NEW t \in Procs, csv' = csv, PrintInv
  PROVE  /\ Headers' = Headers /\ LinesOf(t)' = LinesOf(t)
         /\ \A n : ResultsPrinted(t, n)' <=> ResultsPrinted(t, n)
         /\ run'[t] = run[t] => BufferOf(t)' /\ LinesAre(t)'
<1>1. /\ Headers' = Headers /\ LinesOf(t)' = LinesOf(t)
      /\ \A n : ResultsPrinted(t, n)' <=> ResultsPrinted(t, n)
  BY DEF Headers, LinesOf, ResultsPrinted
<1>2. BufferOf(t) /\ LinesAre(t)
  BY DEF PrintInv
<1>3. run'[t] = run[t] => LinesAre(t)'
  BY <1>1, <1>2 DEF LinesAre, At, IsCopy, Results, Tester
<1>4. run'[t] = run[t] => BufferOf(t)'
  BY <1>2 DEF BufferOf, At, Nth, Results, Tester, Line
<1> QED
  BY <1>1, <1>3, <1>4

\* Nobody opens or closes lebench_stats.csv.
LEMMA HeaderFrame ==
  ASSUME PrintInv, csv' = csv, crowd' = crowd,
         \A t \in Procs : run'[t] = run[t] \/ (run[t].pc # "close" /\ run'[t].pc # "close")
  PROVE  HeaderInv'
<1>1. Printing' = Printing /\ Holding' = Holding /\ Headers' = Headers
  BY DEF Printing, Holding, Headers, At
<1> QED
  BY <1>1 DEF PrintInv, HeaderInv

\* lebench_stats.csv, action by action.
LEMMA EarlyPrint ==
  ASSUME TypeOK, FlowInv, PrintInv, NEW r \in Procs, NEW q, Becomes(r, q), Early(r, q)
  PROVE  PrintInv'
<1>1. run'[r] = q /\ \A t \in Procs \ {r} : run'[t] = run[t]
  BY OneMoves
<1>2. HeaderInv'
  BY <1>1, HeaderFrame DEF Early, At
<1>3. LinesOf(r)' = {} /\ ~IsCopy(r)'
  BY <1>1, PrintFrame DEF Early, PrintInv, LinesAre, IsCopy, FlowInv, Flow, At
<1>4. ResultsPrinted(r, 0)'
  BY <1>3 DEF ResultsPrinted
<1>5. BufferOf(r)' /\ LinesAre(r)'
  BY <1>1, <1>3, <1>4 DEF Early, BufferOf, LinesAre, At, Results
<1> QED
  BY <1>1, <1>2, <1>5, PrintFrame DEF PrintInv, Early

LEMMA CopyPrint ==
  ASSUME TypeOK, FlowInv, PrintInv, NEW r \in Procs, NEW s \in Procs, Copy(r, s)
  PROVE  PrintInv'
<1>1. PICK q : Becomes(s, q) /\ CopyTo(r, s, q)
  BY CopyStep
<1>2. run'[s] = q /\ \A t \in Procs \ {s} : run'[t] = run[t]
  BY <1>1, OneMoves
<1>3. run[s].pc = "unborn" /\ csv' = csv /\ crowd' = crowd /\ q.pc \in {"print", "ended"}
  BY <1>1 DEF Copy, CopyTo, At, PrintUnchanged
<1>4. LinesOf(s)' = {} /\ IsCopy(s)'
  BY <1>1, <1>2, <1>3, PrintFrame, LEBenchAssumption
     DEF CopyTo, PrintInv, LinesAre, At, IsCopy, FlowInv, Flow
<1>5. HeaderInv'
  BY <1>2, <1>3, HeaderFrame
<1>6. BufferOf(s)' /\ LinesAre(s)'
  BY <1>1, <1>2, <1>3, <1>4 DEF CopyTo, BufferOf, LinesAre, At
<1> QED
  BY <1>2, <1>3, <1>5, <1>6, PrintFrame DEF PrintInv

LEMMA ErroredPrint ==
  ASSUME TypeOK, FlowInv, PrintInv, NEW r \in Procs, Errored(r)
  PROVE  PrintInv'
<1>1. PICK q : Becomes(r, q) /\ ErroredTo(r, run[r], q)
  BY ErroredStep
<1>2. run'[r] = q /\ \A t \in Procs \ {r} : run'[t] = run[t]
  BY <1>1, OneMoves
<1>3. /\ run[r].pc = "print" /\ IsCopy(r) /\ IsCopy(r)' /\ q.pc = "ended" /\ q.rc = "0"
      /\ csv' = csv /\ crowd' = crowd
  BY <1>1, <1>2 DEF Errored, ErroredTo, At, IsCopy, SameTest, PrintUnchanged
<1>4. LinesOf(r)' = {}
  BY <1>3, PrintFrame DEF PrintInv, LinesAre, At
<1>5. HeaderInv'
  BY <1>2, <1>3, HeaderFrame
<1>6. BufferOf(r)' /\ LinesAre(r)'
  BY <1>2, <1>3, <1>4 DEF BufferOf, LinesAre, At
<1> QED
  BY <1>2, <1>3, <1>5, <1>6, PrintFrame DEF PrintInv

\* Who has the file open, and who of them holds a header, are few.
LEMMA Finite ==
  ASSUME TypeOK
  PROVE  /\ IsFiniteSet(Printing) /\ IsFiniteSet(Holding) /\ IsFiniteSet(Headers)
         /\ Cardinality(Printing) \in Nat /\ Cardinality(Holding) \in Nat
         /\ Cardinality(Headers) \in Nat
<1>1. IsFiniteSet(Printing) /\ IsFiniteSet(Holding)
  BY LEBenchAssumption, FS_Subset DEF Printing, Holding
<1>2. IsFiniteSet(Headers)
  <2>1. Headers \subseteq 1..Len(csv) /\ Len(csv) \in Nat
    BY DEF Headers, TypeOK
  <2>2. IsFiniteSet(1..Len(csv))
    BY <2>1, FS_Interval
  <2> QED
    BY <2>1, <2>2, FS_Subset
<1> QED
  BY <1>1, <1>2, FS_CardinalityType

LEMMA ProbePrint ==
  ASSUME TypeOK, FlowInv, PrintInv, NEW r \in Procs, Probe(r)
  PROVE  PrintInv'
<1>1. PICK q : Becomes(r, q) /\ ProbeTo(r, run[r], q)
  BY ProbeStep
<1>2. run'[r] = q /\ \A t \in Procs \ {r} : run'[t] = run[t]
  BY <1>1, OneMoves
<1>3. run[r].pc = "print" /\ run[r].rc = "runs" /\ csv' = csv /\ LinesAre(r)
  BY DEF Probe, At, FlowInv, Flow, PrintInv
<1>4. CASE q.pc = "ended"
  <2>1. q.rc = "crashed" /\ "csv" \in q.failed /\ crowd' = crowd /\ q.parent = run[r].parent
    BY <1>1, <1>4 DEF ProbeTo, Crashed, SameTest
  <2>2. HeaderInv'
    BY <1>2, <1>3, <1>4, <2>1, HeaderFrame
  <2>3. BufferOf(r)' /\ LinesAre(r)'
    BY <1>2, <1>3, <1>4, <2>1, PrintFrame DEF BufferOf, LinesAre, At, IsCopy, Faults
  <2> QED
    BY <1>2, <1>3, <2>2, <2>3, PrintFrame DEF PrintInv
<1>5. CASE q.pc = "close"
  <2>1. /\ q.id = run[r].id /\ q.res = run[r].res /\ q.parent = run[r].parent /\ q.rc = "runs"
        /\ q.failed = run[r].failed
        /\ q.buf = IF csv = <<>> THEN <<Line(r, 0), Line(r, Nth(r))>> ELSE <<Line(r, Nth(r))>>
        /\ crowd' = IF Cardinality(Printing) < crowd THEN crowd ELSE Cardinality(Printing) + 1
    BY <1>1, <1>3, <1>5 DEF ProbeTo, Crashed, SameTest, SameEnd
  <2>2. Results(r)' = Results(r) /\ Nth(r)' = Nth(r)
    BY <1>2, <2>1 DEF Results, Nth, Tester
  <2>3. BufferOf(r)'
    BY <1>2, <1>3, <2>1, <2>2 DEF BufferOf, Line
  <2>4. LinesAre(r)'
    BY <1>2, <1>3, <1>5, <2>1, <2>2, PrintFrame DEF LinesAre, At, IsCopy
  <2>5. HeaderInv'
    <3>1. Printing' = Printing \cup {r} /\ r \notin Printing
      BY <1>2, <1>3, <1>5 DEF Printing
    <3>2. Cardinality(Printing') = Cardinality(Printing) + 1 /\ IsFiniteSet(Printing')
      BY <3>1, Finite, FS_AddElement
    <3>3. Cardinality(Printing') <= crowd' /\ crowd <= crowd' /\ crowd' \in Nat
      BY <2>1, <3>2, Finite DEF TypeOK, PrintInv, HeaderInv
    <3>4. CASE csv = <<>>
      <4>1. Headers' = {}
        BY <1>3, <3>4 DEF Headers
      <4>2. Holding' \subseteq Printing'
        BY DEF Holding, Printing, At
      <4>3. Cardinality(Holding') <= Cardinality(Printing') /\ Cardinality(Holding') \in Nat
        BY <3>2, <4>2, FS_Subset, FS_CardinalityType
      <4>4. Cardinality(Headers') = 0
        BY <4>1, FS_EmptySet
      <4>5. Cardinality(Headers') + Cardinality(Holding') <= crowd'
        BY <3>2, <3>3, <4>3, <4>4, Finite
      <4> QED
        BY <1>3, <3>3, <3>4, <4>5 DEF HeaderInv
    <3>5. CASE csv # <<>>
      <4>1. Len(q.buf) = 1
        BY <2>1, <3>5
      <4>2. Holding' = Holding
        BY <1>2, <1>3, <4>1 DEF Holding, At
      <4>3. Headers' = Headers /\ (csv' # <<>> => IsHeader(csv'[1]))
        BY <1>3, PrintFrame DEF PrintInv, HeaderInv
      <4>4. Cardinality(Headers) + Cardinality(Holding) <= crowd
        BY DEF PrintInv, HeaderInv
      <4>5. Cardinality(Headers') + Cardinality(Holding') <= crowd'
        BY <3>3, <4>2, <4>3, <4>4, Finite DEF TypeOK
      <4> QED
        BY <3>3, <4>3, <4>5 DEF HeaderInv, IsHeader
    <3> QED
      BY <3>4, <3>5
  <2> QED
    BY <1>2, <1>3, <2>3, <2>4, <2>5, PrintFrame DEF PrintInv
<1> QED
  BY <1>1, <1>4, <1>5 DEF ProbeTo, Crashed

\* What fclose writes ends with the result, and may start with a header.
LEMMA Appended ==
  ASSUME TypeOK, FlowInv, NEW r \in Procs, At(r, {"close"}), BufferOf(r),
         csv' = csv \o run[r].buf
  PROVE  LET n == Len(csv)
             b == Len(run[r].buf)
         IN  /\ n \in Nat /\ b \in {1, 2} /\ Len(csv') = n + b /\ csv' \in Seq(Lines)
             /\ \A k \in 1..n : csv'[k] = csv[k]
             /\ csv'[n + b] = Line(r, Nth(r))
             /\ b = 1 => csv # <<>>
             /\ b = 2 => csv'[n + 1] = Line(r, 0)
<1> DEFINE buf == run[r].buf
<1>1. Nth(r) \in 1..2
  BY DEF FlowInv, Flow, At, Nth, Results
<1>2. Line(r, 0) \in Lines /\ Line(r, Nth(r)) \in Lines
  BY <1>1 DEF Line, Lines
<1>3. csv \in Seq(Lines) /\ buf \in Seq(Lines)
  BY FieldTypes DEF TypeOK, Typed
<1>4. \/ Len(buf) = 1 /\ buf[1] = Line(r, Nth(r)) /\ csv # <<>>
      \/ Len(buf) = 2 /\ buf[1] = Line(r, 0) /\ buf[2] = Line(r, Nth(r))
  <2>1. CASE buf = <<Line(r, Nth(r))>> /\ csv # <<>>
    BY <2>1
  <2>2. CASE buf = <<Line(r, 0), Line(r, Nth(r))>>
    BY <2>2
  <2> QED
    BY <2>1, <2>2 DEF BufferOf
<1> HIDE DEF buf
<1>5. csv' = csv \o buf
  BY DEF buf
<1>6. csv' \in Seq(Lines) /\ Len(csv') = Len(csv) + Len(buf) /\ Len(csv) \in Nat
      /\ (\A k \in 1..Len(csv) : csv'[k] = csv[k])
      /\ (\A k \in 1..Len(buf) : csv'[Len(csv) + k] = buf[k])
  BY <1>3, <1>5, ConcatProperties
<1>7. Len(buf) \in {1, 2} /\ csv'[Len(csv) + Len(buf)] = Line(r, Nth(r))
      /\ (Len(buf) = 1 => csv # <<>>) /\ (Len(buf) = 2 => csv'[Len(csv) + 1] = Line(r, 0))
  <2>1. CASE Len(buf) = 1 /\ buf[1] = Line(r, Nth(r)) /\ csv # <<>>
    <3>1. csv'[Len(csv) + 1] = buf[1]
      BY <1>6, <2>1
    <3> QED
      BY <2>1, <3>1
  <2>2. CASE Len(buf) = 2 /\ buf[1] = Line(r, 0) /\ buf[2] = Line(r, Nth(r))
    <3>1. csv'[Len(csv) + 1] = buf[1] /\ csv'[Len(csv) + 2] = buf[2]
      BY <1>6, <2>2
    <3> QED
      BY <2>2, <3>1
  <2> QED
    BY <1>4, <2>1, <2>2
<1> QED
  BY <1>6, <1>7 DEF buf

\* The last line of the file is now the next result of r, and nobody else's.
LEMMA Written ==
  ASSUME TypeOK, FlowInv, NEW r \in Procs, At(r, {"close"}), BufferOf(r),
         csv' = csv \o run[r].buf
  PROVE  LET end == Len(csv) + Len(run[r].buf)
         IN  /\ LinesOf(r)' = LinesOf(r) \cup {end} /\ end \notin LinesOf(r)
             /\ \A k \in LinesOf(r) : k < end /\ csv'[k] = csv[k]
             /\ csv'[end].n = Nth(r)
             /\ \A t \in Procs \ {r} :
                  LinesOf(t)' = LinesOf(t) /\ \A n : ResultsPrinted(t, n)' <=> ResultsPrinted(t, n)
<1> DEFINE old == Len(csv)
           more == Len(run[r].buf)
<1>1. /\ old \in Nat /\ more \in {1, 2} /\ Len(csv') = old + more /\ csv' \in Seq(Lines)
      /\ \A k \in 1..old : csv'[k] = csv[k]
      /\ csv'[old + more] = Line(r, Nth(r))
      /\ more = 2 => csv'[old + 1] = Line(r, 0)
  BY Appended
<1> HIDE DEF old, more
<1>2. Nth(r) \in 1..2
  BY DEF FlowInv, Flow, At, Nth, Results
<1>3. csv'[old + more].by = r /\ csv'[old + more].n = Nth(r) /\ (more = 2 => csv'[old + 1].n = 0)
  BY <1>1 DEF Line
<1>4. DOMAIN csv = 1..old /\ DOMAIN csv' = 1..(old + more)
  BY <1>1 DEF TypeOK, old
<1>0. \A k \in 1..(old + more) : k \in 1..old \/ k = old + more \/ (more = 2 /\ k = old + 1)
  BY <1>1
<1>5. LinesOf(r)' = LinesOf(r) \cup {old + more}
  <2>1. ASSUME NEW k PROVE k \in LinesOf(r)' => k \in LinesOf(r) \cup {old + more}
    BY <1>0, <1>1, <1>3, <1>4 DEF LinesOf, IsHeader
  <2>2. ASSUME NEW k \in LinesOf(r) PROVE k \in LinesOf(r)'
    <3>1. k \in 1..old /\ csv[k].by = r /\ ~IsHeader(csv[k])
      BY <1>4 DEF LinesOf
    <3>2. csv'[k] = csv[k] /\ k \in 1..(old + more)
      BY <1>1, <3>1
    <3> QED
      BY <1>4, <3>1, <3>2 DEF LinesOf, IsHeader
  <2>3. old + more \in LinesOf(r)'
    BY <1>1, <1>2, <1>3, <1>4 DEF LinesOf, IsHeader
  <2> QED
    BY <2>1, <2>2, <2>3
<1>6. \A k \in LinesOf(r) : k \in 1..old
  BY <1>4 DEF LinesOf
<1>7. ASSUME NEW t \in Procs \ {r}
      PROVE  LinesOf(t)' = LinesOf(t) /\ \A m : ResultsPrinted(t, m)' <=> ResultsPrinted(t, m)
  <2>1. LinesOf(t)' = LinesOf(t)
    <3>1. LinesOf(t)' = {k \in 1..(old + more) : csv'[k].by = t /\ csv'[k].n # 0}
      BY <1>4 DEF LinesOf, IsHeader
    <3>2. LinesOf(t) = {k \in 1..old : csv[k].by = t /\ csv[k].n # 0}
      BY <1>4 DEF LinesOf, IsHeader
    <3>3. ASSUME NEW k \in 1..(old + more), csv'[k].by = t, csv'[k].n # 0 PROVE k \in 1..old
      BY <1>0, <1>3, <3>3
    <3>4. 1..old \subseteq 1..(old + more)
      BY <1>1
    <3> QED
      BY <1>1, <3>1, <3>2, <3>3, <3>4
  <2>2. \A k \in LinesOf(t) : csv'[k] = csv[k]
    BY <1>1, <1>4 DEF LinesOf
  <2> QED
    BY <2>1, <2>2 DEF ResultsPrinted
<1>8. old + more \notin LinesOf(r) /\ \A k \in LinesOf(r) : k < old + more /\ csv'[k] = csv[k]
  BY <1>1, <1>6
<1> QED
  BY <1>3, <1>5, <1>7, <1>8 DEF old, more

\* What is in the file starts with a header, of which there is one more for
\* each process that found the file empty.
LEMMA HeaderWritten ==
  ASSUME TypeOK, FlowInv, PrintInv, NEW r \in Procs, At(r, {"close"}),
         csv' = csv \o run[r].buf, crowd' = crowd,
         run'[r].pc # "close", \A t \in Procs \ {r} : run'[t] = run[t]
  PROVE  HeaderInv'
<1> DEFINE old == Len(csv)
           more == Len(run[r].buf)
<1>1. /\ old \in Nat /\ more \in {1, 2} /\ Len(csv') = old + more /\ csv' \in Seq(Lines)
      /\ \A k \in 1..old : csv'[k] = csv[k]
      /\ csv'[old + more] = Line(r, Nth(r))
      /\ more = 1 => csv # <<>>
      /\ more = 2 => csv'[old + 1] = Line(r, 0)
  BY Appended DEF PrintInv
<1> HIDE DEF old, more
<1>2. Nth(r) \in 1..2
  BY DEF FlowInv, Flow, At, Nth, Results
<1>3. csv'[old + more].n = Nth(r) /\ (more = 2 => csv'[old + 1].n = 0)
  BY <1>1 DEF Line
<1>4. /\ DOMAIN csv = 1..old /\ DOMAIN csv' = 1..(old + more)
      /\ csv # <<>> => old >= 1
      /\ csv = <<>> => old = 0
  BY <1>1 DEF TypeOK, old
<1>5. Holding \subseteq Printing /\ Holding' = Holding \ {r} /\ Printing' = Printing \ {r}
      /\ r \in Printing /\ (r \in Holding <=> more = 2)
  BY DEF Holding, Printing, At, more
<1>6. Cardinality(Printing') <= crowd'
  <2>1. Cardinality(Printing') = Cardinality(Printing) - 1 /\ Cardinality(Printing) \in Nat
    BY <1>5, Finite, FS_RemoveElement
  <2>2. Cardinality(Printing) <= crowd /\ crowd \in Nat
    BY DEF PrintInv, HeaderInv, TypeOK
  <2> QED
    BY <2>1, <2>2
<1>7. csv' # <<>> => IsHeader(csv'[1])
  <2>1. CASE csv = <<>>
    BY <1>1, <1>3, <1>4, <2>1 DEF IsHeader
  <2>2. CASE csv # <<>>
    BY <1>1, <1>4, <2>2 DEF IsHeader, PrintInv, HeaderInv
  <2> QED
    BY <2>1, <2>2
<1>8. Cardinality(Headers) + Cardinality(Holding) <= crowd
  BY DEF PrintInv, HeaderInv
<1>9. Cardinality(Headers') + Cardinality(Holding') <= crowd'
  <2>1. CASE more = 1
    <3>1. Headers' = Headers /\ Holding' = Holding
      BY <1>1, <1>2, <1>3, <1>4, <1>5, <2>1 DEF Headers, IsHeader
    <3> QED
      BY <1>8, <3>1
  <2>2. CASE more = 2
    <3>1. Headers' = Headers \cup {old + 1} /\ old + 1 \notin Headers
      <4>1. old + more = old + 2 /\ old + 1 \in 1..(old + 2)
        BY <1>1, <2>2
      <4>2. csv'[old + 1].n = 0
        BY <1>3, <2>2
      <4>3. csv'[old + 2].n # 0
        <5>1. csv'[old + 2].n = Nth(r)
          BY ONLY <1>3, <4>1
        <5> QED
          BY ONLY <1>2, <5>1
      <4>4. \A k \in 1..old : (csv'[k].n = 0 <=> csv[k].n = 0)
        BY <1>1
      <4>5. Headers = {k \in 1..old : csv[k].n = 0}
        BY <1>4 DEF Headers, IsHeader
      <4>6. Headers' = {k \in 1..(old + 2) : csv'[k].n = 0}
        BY <1>4, <4>1 DEF Headers, IsHeader
      <4>7. 1..(old + 2) = 1..old \cup {old + 1, old + 2} /\ old + 1 \notin 1..old
        <5>1. old \in Nat
          BY <1>1
        <5> QED
          BY ONLY <5>1
      <4> QED
        BY <4>2, <4>3, <4>4, <4>5, <4>6, <4>7
    <3>2. Cardinality(Headers') = Cardinality(Headers) + 1
      BY <3>1, Finite, FS_AddElement
    <3>3. Cardinality(Holding') = Cardinality(Holding) - 1
      BY <1>5, <2>2, Finite, FS_RemoveElement
    <3> QED
      BY <1>8, <3>2, <3>3, Finite
  <2> QED
    BY <1>1, <2>1, <2>2
<1> QED
  BY <1>6, <1>7, <1>9 DEF HeaderInv

LEMMA ClosePrint ==
  ASSUME TypeOK, FlowInv, PrintInv, NEW r \in Procs, Close(r)
  PROVE  PrintInv'
<1>1. PICK q : Becomes(r, q) /\ CloseTo(r, run[r], q)
  BY CloseStep
<1>2. run'[r] = q /\ \A t \in Procs \ {r} : run'[t] = run[t]
  BY <1>1, OneMoves
<1>3. /\ run[r].pc = "close" /\ run[r].rc = "runs" /\ crowd' = crowd /\ LinesAre(r) /\ BufferOf(r)
      /\ run[r].res \in 1..Results(r) /\ Results(r) \in {1, 2} /\ (IsCopy(r) => Results(r) = 1)
  BY DEF Close, At, FlowInv, Flow, PrintInv, Results
<1>4. /\ q.id = run[r].id /\ q.parent = run[r].parent /\ q.res = run[r].res - 1
      /\ \/ q.res = 0 /\ q.pc = "ended" /\ q.rc = "0"
         \/ q.res # 0 /\ q.pc = "print" /\ q.rc = "runs"
  BY <1>1, <1>3 DEF CloseTo, SameTest
<1>5. Results(r)' = Results(r) /\ IsCopy(r)' = IsCopy(r)
  BY <1>2, <1>4 DEF Results, Tester, IsCopy
<1>6. CASE csv' = csv /\ q.failed = run[r].failed \cup {"disk"}
  <2>1. Printing' = Printing \ {r} /\ Holding' = Holding \ {r} /\ Headers' = Headers
    BY <1>2, <1>4, <1>6 DEF Printing, Holding, Headers, At
  <2>2. /\ Cardinality(Printing') <= Cardinality(Printing) /\ Cardinality(Printing') \in Nat
        /\ Cardinality(Holding') <= Cardinality(Holding) /\ Cardinality(Holding') \in Nat
    BY <2>1, Finite, FS_Subset, FS_CardinalityType
  <2>3. HeaderInv'
    BY <1>3, <1>6, <2>1, <2>2, Finite DEF PrintInv, HeaderInv, TypeOK, IsHeader
  <2>4. BufferOf(r)' /\ LinesAre(r)'
    BY <1>2, <1>3, <1>4, <1>5, <1>6, PrintFrame DEF BufferOf, LinesAre, At
  <2> QED
    BY <1>2, <1>6, <2>3, <2>4, PrintFrame DEF PrintInv
<1>7. CASE csv' = csv \o run[r].buf /\ q.failed = run[r].failed
  <2> DEFINE end == Len(csv) + Len(run[r].buf)
  <2>1. /\ LinesOf(r)' = LinesOf(r) \cup {end} /\ end \notin LinesOf(r)
        /\ \A k \in LinesOf(r) : k < end /\ csv'[k] = csv[k]
        /\ csv'[end].n = Nth(r)
        /\ \A t \in Procs \ {r} :
             LinesOf(t)' = LinesOf(t) /\ \A n : ResultsPrinted(t, n)' <=> ResultsPrinted(t, n)
    BY <1>3, <1>7, Written DEF At
  <2>2. HeaderInv'
    BY <1>2, <1>3, <1>4, <1>7, HeaderWritten DEF At
  <2>3. ASSUME NEW t \in Procs \ {r} PROVE BufferOf(t)' /\ LinesAre(t)'
    <3>1. BufferOf(t) /\ LinesAre(t) /\ run'[t] = run[t]
      BY <1>2 DEF PrintInv
    <3>2. csv # <<>> => csv' # <<>>
      BY <1>3, <1>7, Appended DEF At, TypeOK
    <3>3. BufferOf(t)'
      BY <3>1, <3>2 DEF BufferOf, At, Line, Nth, Results, Tester
    <3>4. LinesAre(t)'
      BY <2>1, <3>1 DEF LinesAre, At, IsCopy, Results, Tester
    <3> QED
      BY <3>3, <3>4
  <2> HIDE DEF end
  <2>4. LinesAre(r)'
    <3>1. IsCopy(r) => LinesOf(r)' = {end} /\ q.pc = "ended" /\ q.rc = "0"
      BY <1>3, <1>4, <2>1 DEF LinesAre, At
    <3>2. ASSUME ~IsCopy(r), "disk" \notin q.failed
          PROVE  ResultsPrinted(r, Results(r) - q.res)'
      <4>1. PICK m \in Nat : ResultsPrinted(r, m) /\ m = Results(r) - run[r].res
        BY <1>3, <1>7, <3>2 DEF LinesAre, At
      <4>2. Nth(r) = m + 1 /\ Results(r) - q.res = m + 1
        BY <1>3, <1>4, <4>1 DEF Nth
      <4>3. ResultsPrinted(r, m + 1)'
        <5>1. {csv'[k].n : k \in LinesOf(r)'} = {csv[k].n : k \in LinesOf(r)} \cup {m + 1}
          BY <2>1, <4>2
        <5>2. {csv'[k].n : k \in LinesOf(r)'} = 1..(m + 1)
          BY <4>1, <5>1 DEF ResultsPrinted
        <5>3. ASSUME NEW k \in LinesOf(r) PROVE csv[k].n < m + 1
          <6>1. csv[k].n \in 1..m
            BY <4>1 DEF ResultsPrinted
          <6> QED
            BY <4>1, <6>1
        <5>4. ASSUME NEW k \in LinesOf(r)', NEW l \in LinesOf(r)', k < l
              PROVE  csv'[k].n < csv'[l].n
          <6>0. end \in Nat /\ \A i \in LinesOf(r) : i \in Nat
            BY <1>3, Appended DEF end, LinesOf, TypeOK
          <6>1. k # end
            BY <2>1, <5>4, <6>0
          <6>2. k \in LinesOf(r) /\ csv'[k] = csv[k]
            BY <2>1, <6>1
          <6>3. CASE l = end
            BY <2>1, <4>2, <5>3, <6>2, <6>3
          <6>4. CASE l # end
            BY <2>1, <4>1, <5>4, <6>2, <6>4 DEF ResultsPrinted
          <6> QED
            BY <6>3, <6>4
        <5> QED
          BY <5>2, <5>4 DEF ResultsPrinted
      <4> QED
        BY <1>2, <1>5, <4>2, <4>3
    <3>3. q.res = 0 => Results(r) - q.res = Results(r)
      BY <1>3
    <3> QED
      BY <1>2, <1>3, <1>4, <1>5, <3>1, <3>2, <3>3 DEF LinesAre, At
  <2>5. BufferOf(r)'
    BY <1>2, <1>4 DEF BufferOf, At
  <2> QED
    BY <2>2, <2>3, <2>4, <2>5 DEF PrintInv
<1> QED
  BY <1>1, <1>6, <1>7 DEF CloseTo

\* lebench_stats.csv stays right, whoever moves.
LEMMA PrintStep == TypeOK /\ FlowInv /\ FileInv /\ PrintInv /\ [Next]_vars => PrintInv'
<1> SUFFICES ASSUME TypeOK, FlowInv, FileInv, PrintInv, [Next]_vars PROVE PrintInv'
  OBVIOUS
<1>1. ASSUME NEW r \in Procs, Step(r) PROVE PrintInv'
  BY <1>1, EarlySteps, EarlyPrint, CopyPrint, ErroredPrint, ProbePrint, ClosePrint
<1>2. CASE UNCHANGED vars
  BY <1>2, PrintFrame, HeaderFrame DEF vars, PrintInv
<1> QED
  BY <1>1, <1>2 DEF Next
-------------------------------------------------------------------------------
\* What each process is at, who has which file, and what is in lebench_stats.csv.
IInv == TypeOK /\ FlowInv /\ FileInv /\ PrintInv

LEMMA Invariance == Spec => []IInv
<1>1. Init => IInv
  BY FlowInit, FileInit, PrintInit DEF IInv
<1>2. IInv /\ [Next]_vars => IInv'
  BY FlowStep, FileStep, PrintStep DEF IInv
<1> QED
  BY <1>1, <1>2, PTL DEF Spec

\* The records of processes, the sizes of the files and the lines of
\* lebench_stats.csv are what the code takes them for, and what a process works
\* on fits where it is in main.
THEOREM ProcessesAreTyped == Spec => [](TypeOK /\ FlowInv)
<1>1. IInv => TypeOK /\ FlowInv
  BY DEF IInv
<1> QED
  BY Invariance, <1>1, PTL

\* However many runs overlap, lebench_stats.csv starts with the header, and has
\* no more of them than processes had it open at a time (print_results).
THEOREM FewHeaders == Spec => []OneHeaderPerCrowd
<1>1. IInv => OneHeaderPerCrowd
  <2> SUFFICES ASSUME IInv PROVE OneHeaderPerCrowd
    OBVIOUS
  <2>1. TypeOK /\ HeaderInv
    BY DEF IInv, PrintInv
  <2>2. Cardinality(Headers) <= crowd
    BY <2>1, Finite DEF HeaderInv, TypeOK
  <2> QED
    BY <2>1, <2>2 DEF HeaderInv, OneHeaderPerCrowd
<1> QED
  BY Invariance, <1>1, PTL

\* The exit status of main tells what was measured and printed, whatever the
\* other runs do and whichever calls fail.
THEOREM TrueStatus == Spec => []StatusIsTrue
<1>1. IInv => StatusIsTrue
  BY DEF IInv, FlowInv, Flow, PrintInv, LinesAre, StatusIsTrue
<1> QED
  BY Invariance, <1>1, PTL

\* No run crashes because another one removed, replaced or filled its file.
THEOREM OwnFault == Spec => []CrashIsOwnFault
<1>1. IInv => CrashIsOwnFault
  BY DEF IInv, PrintInv, LinesAre, Faults, CrashIsOwnFault
<1> QED
  BY Invariance, <1>1, PTL

\* read_test times reads of nothing for as long as nobody else has its file.
THEOREM EmptyReads == Spec => []TimedReadsAreEmpty
<1>1. IInv => TimedReadsAreEmpty
  <2> SUFFICES ASSUME IInv, NEW r \in Procs, run[r].timed > 0
               PROVE  \E q \in Procs \ {r} : run[q].fd = run[r].fd
    BY DEF TimedReadsAreEmpty
  <2>1. FileOf(r) /\ run[r].timed # 0
    BY DEF IInv, FileInv
  <2> QED
    BY <2>1 DEF FileOf, Alone
<1> QED
  BY Invariance, <1>1, PTL

\* The file at LE_FILE_PATH is in use, or of a crash or of read_test.
THEOREM LeftByRead == Spec => []FileLeftByRead
<1>1. IInv => FileLeftByRead
  <2> SUFFICES ASSUME IInv, path # None
               PROVE  \E r \in Procs :
                        /\ run[r].fd = path
                        /\ Tester(r) = "read" \/ run[r].rc \in {"runs", "crashed"}
    BY DEF FileLeftByRead
  <2>1. path \in Procs /\ run[path].fd = path /\ FileOf(path) /\ path # None
    BY DEF IInv, FileInv, Owned, TypeOK
  <2>2. run[path].rc \in {"runs", "0", "1", "2", "crashed", "killed"}
    BY <2>1, FieldTypes DEF IInv, TypeOK, Typed
  <2>3. run[path].rc # "killed"
    BY <2>1 DEF IInv, FlowInv, Flow
  <2> QED
    BY <2>1, <2>2, <2>3 DEF FileOf
<1> QED
  BY Invariance, <1>1, PTL
-------------------------------------------------------------------------------
\* fork_test.  No stamp is later than the clock; those of the round are later than tstart.
ForkClock ==
  /\ tstart < now /\ t_parent_end < now /\ t_child_end < now
  /\ ppc \in {"wait", "record"} => tstart < t_parent_end
  /\ ppc \in {"fork", "stop"} => t_parent_end <= tstart
  /\ ppc = "fork" => t_child_end <= tstart
  /\ ppc \in {"stop", "wait", "record"} /\ child # "stamp" => tstart < t_child_end
  /\ child = "stamp" => t_child_end <= tstart
  /\ ppc \in {"wait", "record"} => t_parent_end # t_child_end

Alive == child # "none" <=> ppc \in {"stop", "wait"}

ForkRound == ppc \in {"fork", "stop", "wait", "record"} => idx < ChildRounds

ForkInv == Fork!TypeOK /\ ForkClock /\ Alive /\ ForkRound
-------------------------------------------------------------------------------
LEMMA ForkInit == Fork!Init => ForkInv
  BY TestsAssumption
     DEF Fork!ForkAssumption, Fork!Init, ForkInv, Fork!TypeOK, ForkClock, Alive, ForkRound

LEMMA ForkParent == ForkInv /\ Fork!Parent => ForkInv'
<1> SUFFICES ASSUME ForkInv, Fork!Parent PROVE ForkInv'
  OBVIOUS
<1> USE DEF ForkInv, Fork!TypeOK, ForkClock, Alive, ForkRound, Fork!Go, Fork!Return
<1>1. CASE Fork!Setup
  BY <1>1 DEF Fork!Setup
<1>2. CASE Fork!Start
  BY <1>2, TestsAssumption DEF Fork!ForkAssumption, Fork!Start
<1>3. CASE Fork!Fork
  BY <1>3 DEF Fork!Fork
<1>4. CASE Fork!ParentStop
  BY <1>4 DEF Fork!ParentStop
<1>5. CASE Fork!Wait
  BY <1>5 DEF Fork!Wait
<1>6. CASE Fork!Record
  BY <1>6, TestsAssumption DEF Fork!ForkAssumption, Fork!Record
<1>7. CASE Fork!Collect
  BY <1>7 DEF Fork!Collect
<1> QED
  BY <1>1, <1>2, <1>3, <1>4, <1>5, <1>6, <1>7 DEF Fork!Parent

LEMMA ForkChild == ForkInv /\ Fork!Child => ForkInv'
<1> SUFFICES ASSUME ForkInv, Fork!Child PROVE ForkInv'
  OBVIOUS
<1> USE DEF ForkInv, Fork!TypeOK, ForkClock, Alive, ForkRound, Fork!parent
<1>1. CASE Fork!ChildStamp
  BY <1>1 DEF Fork!ChildStamp
<1>2. CASE Fork!ChildKill
  BY <1>2 DEF Fork!ChildKill
<1>3. CASE Fork!ChildExit
  BY <1>3 DEF Fork!ChildExit
<1> QED
  BY <1>1, <1>2, <1>3 DEF Fork!Child

LEMMA ForkInvariance == Fork!Spec => []ForkInv
<1>1. ForkInv /\ UNCHANGED Fork!vars => ForkInv'
  BY DEF ForkInv, Fork!TypeOK, ForkClock, Alive, ForkRound, Fork!vars, Fork!parent
<1> QED
  BY ForkInit, ForkParent, ForkChild, <1>1, PTL DEF Fork!Spec, Fork!Next
-------------------------------------------------------------------------------
\* fork_test never takes a duration from the stamp of an earlier child.
THEOREM FreshStamps == Fork!Spec => []StampsOfThisRound
<1>1. ForkInv => StampsOfThisRound
  BY DEF ForkInv, ForkClock, Alive, StampsOfThisRound, Fork!StampsOfThisRound
<1> QED
  BY ForkInvariance, <1>1, PTL

\* fork_test forks only when the last child is reaped, and leaves none behind.
THEOREM NoSecondChild == Fork!Spec => []Fork!OneChild
<1>1. ForkInv => Fork!OneChild
  BY DEF ForkInv, Alive, Fork!OneChild
<1> QED
  BY ForkInvariance, <1>1, PTL
-------------------------------------------------------------------------------
\* thread_create_test.  What each variable of the test may be.
ThrdType ==
  /\ pc \in {"setup", "start", "create", "stop", "join", "record", "done", "crashed"}
  /\ thread \in {"none", "stamp", "exit", "ended"}
  /\ new_thrd \in {"none", "joinable", "joined"} /\ err \in {"ok", "failed"}
  /\ thrd_now \in Nat /\ thrd_tstart \in Nat /\ thrd_parent_end \in Nat /\ thrd_child_end \in Nat

\* No stamp is later than the clock, but the stack may hold a later one before
\* the first thread stamps; those of the round are later than tstart.
ThrdClock ==
  /\ thrd_tstart < thrd_now /\ thrd_parent_end < thrd_now
  /\ pc \in {"create", "stop"} => thrd_parent_end <= thrd_tstart
  /\ pc = "join" => thrd_tstart < thrd_parent_end
  /\ thread \in {"exit", "ended"} => thrd_tstart < thrd_child_end /\ thrd_child_end < thrd_now
  /\ thread \in {"exit", "ended"} /\ pc = "join" => thrd_child_end # thrd_parent_end

\* A thread is there from its creation until it is joined; where the creation
\* failed there is none, and what is joined is not joinable.
Joined ==
  /\ thread # "none" <=> new_thrd = "joinable"
  /\ new_thrd = "joinable" => pc \in {"stop", "join"}
  /\ pc \in {"stop", "join"} /\ err = "ok" => new_thrd = "joinable"

ThrdInv == ThrdType /\ ThrdClock /\ Joined /\ StampOfThisRound

LEMMA ThrdInit == Thrd!Init => ThrdInv
  BY DEF Thrd!Init, Thrd!Garbage, ThrdInv, ThrdType, ThrdClock, Joined, StampOfThisRound,
     Thrd!StampOfThisRound

LEMMA ThrdMain == ThrdInv /\ Thrd!Main => ThrdInv'
<1> SUFFICES ASSUME ThrdInv, Thrd!Main PROVE ThrdInv'
  OBVIOUS
<1> USE DEF ThrdInv, ThrdType, ThrdClock, Joined, StampOfThisRound, Thrd!StampOfThisRound,
            Thrd!Go, Thrd!Return
<1>1. CASE Thrd!Setup
  BY <1>1 DEF Thrd!Setup
<1>2. CASE Thrd!Start
  BY <1>2 DEF Thrd!Start
<1>3. CASE Thrd!Create
  BY <1>3 DEF Thrd!Create
<1>4. CASE Thrd!ParentStop
  BY <1>4 DEF Thrd!ParentStop
<1>5. CASE Thrd!Join
  BY <1>5 DEF Thrd!Join
<1>6. CASE Thrd!Record
  BY <1>6 DEF Thrd!Record
<1>7. CASE Thrd!Collect
  BY <1>7 DEF Thrd!Collect
<1> QED
  BY <1>1, <1>2, <1>3, <1>4, <1>5, <1>6, <1>7 DEF Thrd!Main

LEMMA ThrdThread == ThrdInv /\ Thrd!Thread => ThrdInv'
<1> SUFFICES ASSUME ThrdInv, Thrd!Thread PROVE ThrdInv'
  OBVIOUS
<1> USE DEF ThrdInv, ThrdType, ThrdClock, Joined, StampOfThisRound, Thrd!StampOfThisRound,
            Thrd!main
<1>1. CASE Thrd!Stamp
  BY <1>1 DEF Thrd!Stamp
<1>2. CASE Thrd!Exit
  BY <1>2 DEF Thrd!Exit
<1> QED
  BY <1>1, <1>2 DEF Thrd!Thread

\* thread_create_test takes the durations of a round from the stamp of this
\* round, if it has a thread, and when no thread is left to write another one.
THEOREM FreshThreadStamp == Thrd!Spec => []StampOfThisRound
<1>1. ThrdInv /\ UNCHANGED Thrd!vars => ThrdInv'
  BY DEF ThrdInv, ThrdType, ThrdClock, Joined, StampOfThisRound, Thrd!StampOfThisRound, Thrd!vars,
     Thrd!main
<1>2. ThrdInv => StampOfThisRound
  BY DEF ThrdInv
<1> QED
  BY ThrdInit, ThrdMain, ThrdThread, <1>1, <1>2, PTL DEF Thrd!Spec, Thrd!Next
-------------------------------------------------------------------------------
\* The behaviours that TLC checks of the three together are behaviours of each:
\* what is proved of main, fork_test and thread_create_test holds of them.
THEOREM TestsAreRuns == TestsSpec => Spec /\ Fork!Spec /\ Thrd!Spec
<1>1. TestsInit => Init /\ Fork!Init /\ Thrd!Init
  BY DEF TestsInit
<1>2. [TestsNext]_<<part, vars, forkVars, threadVars>> =>
        [Next]_vars /\ [Fork!Next]_(Fork!vars) /\ [Thrd!Next]_(Thrd!vars)
  BY DEF TestsNext, forkVars, threadVars, Fork!vars, Fork!parent, Thrd!vars, Thrd!main
<1> QED
  BY <1>1, <1>2, PTL DEF TestsSpec, Spec, Fork!Spec, Thrd!Spec
===============================================================================
