-------------------------------- MODULE OsFiles -------------------------------
(***************************************************************************)
(* What the tests of lib/os_eval.cpp need of the system they run on: the   *)
(* file test_file.txt, which they share and never remove, and numbers for  *)
(* their descriptors.  Sizes are in pages.                                 *)
(*                                                                         *)
(* open(O_CREAT) is called without a mode, so that the permission bits of  *)
(* a new file are whatever the stack held.  Results of open and mmap are   *)
(* printed or ignored, never acted upon.                                   *)
(***************************************************************************)
EXTENDS Integers, FiniteSetsExt

CONSTANTS NoFile,     \* limit of descriptors of a process
          SetSize,    \* FD_SETSIZE
          Fails       \* "write" (a full disk), "fork", "thread", "socket" and "kbest"

Absent == -1

VARIABLES
  length,  \* of the file, or Absent
  perms,   \* permission bits that the user of the benchmark has on it
  short    \* writes that a full disk or a missing permission cut short (0, or 1 for some)

fileVars == <<length, perms, short>>

FilesInit ==
  /\ \/ length = Absent /\ perms = {}
     \/ length \in {0, 1, 10000} /\ perms = {"r", "w"}
  /\ short = 0
-------------------------------------------------------------------------------
Opens(access) == length # Absent /\ access \subseteq perms

\* open(O_CREAT | O_WRONLY) and one write of n pages; write_test repeats that,
\* with the same result.
WriteFile(n) ==
  /\ perms' \in (IF length = Absent THEN SUBSET {"r", "w"} ELSE {perms})
  /\ \E done \in {n} \cup (IF "write" \in Fails THEN {0, n \div 2} ELSE {}) :
       LET written == IF length = Absent \/ "w" \in perms THEN done ELSE 0 IN
       /\ length' = Max({length, written, 0}) \* nothing truncates it
       /\ short' = (IF written < n THEN 1 ELSE short)

\* Bytes that read returns, in pages; -1 of a file that does not open.
ReadResult(n) == IF Opens({"r"}) THEN Min({n, length}) ELSE -1

\* munmap_test writes to every byte of a private mapping, page_fault_test reads
\* the first one: fatal if the mapping failed, or the file ends before.
TouchIsFatal(access, pages) == ~Opens(access) \/ length < pages

\* With used descriptors open, n more get the next n numbers.  Where there are
\* not enough, or not all of them fit an fd_set, FD_SET writes elsewhere.
SetOverflows(used, n) == used + n > Min({NoFile, SetSize})
===============================================================================
