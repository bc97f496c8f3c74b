-------------------------- MODULE BootCheckpointProofs --------------------------
(***************************************************************************)
(* The boot script loads a run script once per session, and checkpoints a  *)
(* clean guest, for every number of logins, restores and resumes.  What    *)
(* holds of the running guest holds of the one in the checkpoint, because  *)
(* a restore turns the latter into the former.                             *)
(***************************************************************************)
EXTENDS BootCheckpoint, TLAPS

\* A guest: what the script did so far is written in RUNSCRIPT_VAR.
GuestTypes(g) ==
  /\ g.pc \in {"getty", "test", "checkpoint", "okayed", "script", "prompt"}
  /\ g.var \in 0..2 /\ g.depth \in 0..1 /\ g.loads \in 0..1
  /\ g.loaded \in Scripts /\ g.ran \in {"yes", "no"} /\ g.logins \in 0..MaxLogins
Session(g) ==
  /\ g.pc = "test" => g.var \in {0, 2}
  /\ g.pc \in {"checkpoint", "okayed"} => g.var \in 1..2
  /\ g.pc \in {"test", "checkpoint", "okayed"} /\ g.var # 2 => g.loads = 0 /\ g.depth = 0
  /\ g.pc = "script" => g.var = 2 /\ g.depth = 0
  /\ g.pc = "getty" => g.depth = 0
FirstLogin(g) ==
  /\ g.logins = 0 => g.ran = "no" /\ g.pc = "getty"
  /\ g.logins <= 1 /\ g.pc \in {"test", "checkpoint"} /\ g.var # 2 => g.ran = "no"
GuestOK(g) == GuestTypes(g) /\ Session(g) /\ FirstLogin(g)

CheckpointOK == Taken => GuestOK(ckpt) /\ ckpt.pc = "okayed" /\ ckpt.logins <= logins
\* Only a resumed simulation gets to line 37 with a script loaded.
Clean ==
  /\ logins <= 1 /\ resumes = 0 /\ sim = "running" /\ pc = "checkpoint" => var = 1
  /\ ckpt.logins <= 1 /\ resumes = 0 /\ Taken => ckpt.ran = "no" /\ ckpt.var = 1
HostTypes ==
  /\ sim \in {"running", "ended"} /\ script \in Scripts
  /\ restores \in 0..MaxRestores /\ resumes \in 0..MaxResumes
IInv == GuestOK(guest) /\ CheckpointOK /\ Clean /\ HostTypes

LEMMA Bounds == MaxLogins \in Nat /\ MaxRestores \in Nat /\ MaxResumes \in Nat
  BY BootAssumption DEF BootAssumption

LEMMA GuestFields ==
  /\ guest.pc = pc /\ guest.var = var /\ guest.depth = depth /\ guest.loads = loads
  /\ guest.loaded = loaded /\ guest.ran = ran /\ guest.logins = logins
  BY DEF guest

LEMMA InvInit == Init => IInv
  BY Bounds DEF Init, IInv, GuestOK, GuestTypes, Session, FirstLogin, guest, CheckpointOK,
       Clean, HostTypes, Taken, NoCheckpoint, Scripts

\* The step taken keeps a good guest good.
LEMMA GuestStep == IInv /\ (Guest \/ LeavePrompt) => GuestOK(guest)'
<1> SUFFICES ASSUME GuestOK(guest), Guest \/ LeavePrompt, HostTypes PROVE GuestOK(guest)'
  BY DEF IInv
<1> USE Bounds DEF GuestOK, GuestTypes, Session, FirstLogin, guest, At, M5Exit, Scripts, HostTypes
<1>1. CASE Login
  BY <1>1 DEF Login
<1>2. CASE TestVar
  BY <1>2 DEF TestVar
<1>3. CASE Checkpoint
  BY <1>3 DEF Checkpoint
<1>4. CASE Load
  BY <1>4 DEF Load
<1>5. CASE FallThrough
  BY <1>5 DEF FallThrough
<1>6. CASE RunScript
  BY <1>6 DEF RunScript
<1>7. CASE LeavePrompt
  BY <1>7 DEF LeavePrompt
<1> QED
  BY <1>1, <1>2, <1>3, <1>4, <1>5, <1>6, <1>7 DEF Guest

LEMMA HostStep == IInv /\ (Guest \/ LeavePrompt) => HostTypes' /\ restores' = restores /\ resumes' = resumes
  BY DEF IInv, HostTypes, Guest, Login, TestVar, Checkpoint, Load, FallThrough, RunScript,
         LeavePrompt, M5Exit, At, host

\* A checkpoint is taken of the guest as it is, and otherwise kept.
LEMMA CheckpointStep == IInv /\ (Guest \/ LeavePrompt) => CheckpointOK' /\ Clean'
<1> SUFFICES ASSUME IInv, Guest \/ LeavePrompt PROVE CheckpointOK' /\ Clean'
  OBVIOUS
<1>1. logins \in Nat /\ logins' \in Nat /\ logins <= logins'
  <2>1. logins \in Nat
    BY Bounds, GuestFields DEF IInv, GuestOK, GuestTypes
  <2>2. logins' = logins \/ logins' = logins + 1
    BY DEF Guest, Login, TestVar, Checkpoint, Load, FallThrough, RunScript, LeavePrompt
  <2> QED
    BY <2>1, <2>2
<1>2. CASE Checkpoint
  <2>1. /\ sim = "running" /\ sim' = "running" /\ pc = "checkpoint" /\ pc' = "okayed" /\ var' = var
        /\ ran' = ran /\ logins' = logins /\ resumes' = resumes /\ ckpt' = [guest EXCEPT !.pc = "okayed"]
    BY <1>2 DEF Checkpoint, At
  <2>2. /\ ckpt'.pc = "okayed" /\ ckpt'.var = var /\ ckpt'.depth = depth /\ ckpt'.loads = loads
        /\ ckpt'.loaded = loaded /\ ckpt'.ran = ran /\ ckpt'.logins = logins
    BY <2>1 DEF guest
  <2>3. GuestOK(guest) /\ logins \in Nat
    BY <1>1 DEF IInv
  <2>4. GuestOK(ckpt')
    BY <2>1, <2>2, <2>3, GuestFields DEF GuestOK, GuestTypes, Session, FirstLogin
  <2>5. CheckpointOK'
    BY <2>1, <2>2, <2>3, <2>4 DEF CheckpointOK, GuestOK, GuestTypes, Session, FirstLogin
  <2>6. Clean'
    BY <2>1, <2>2, <2>3, GuestFields DEF Clean, IInv, GuestOK, FirstLogin, Taken
  <2> QED
    BY <2>5, <2>6
<1>3. CASE ~Checkpoint
  <2>1. ckpt' = ckpt /\ resumes' = resumes
    BY <1>3 DEF Guest, Login, TestVar, Load, FallThrough, RunScript, LeavePrompt, host
  <2>2. CheckpointOK'
    BY <1>1, <2>1, Bounds DEF IInv, CheckpointOK, Taken, GuestOK, GuestTypes, Session, FirstLogin
  <2>3. sim' = "running" /\ pc' = "checkpoint" => var' = 1
    BY <1>3 DEF Guest, Login, TestVar, Load, FallThrough, RunScript, LeavePrompt, M5Exit, At
  <2>4. Taken' <=> Taken
    BY <2>1 DEF Taken
  <2> QED
    BY <2>1, <2>2, <2>3, <2>4 DEF IInv, Clean
<1> QED
  BY <1>2, <1>3

LEMMA RestoreStep == IInv /\ Restore => IInv'
<1> SUFFICES ASSUME IInv, Restore PROVE IInv'
  OBVIOUS
<1>1. /\ Taken /\ GuestOK(ckpt) /\ ckpt.pc = "okayed" /\ ckpt' = ckpt /\ resumes' = resumes
      /\ sim' = "running" /\ script' \in Scripts /\ restores' = restores + 1 /\ restores < MaxRestores
    BY DEF IInv, CheckpointOK, Restore
<1>2. /\ pc' = ckpt.pc /\ var' = ckpt.var /\ depth' = ckpt.depth /\ loads' = ckpt.loads
      /\ loaded' = ckpt.loaded /\ ran' = ckpt.ran /\ logins' = ckpt.logins
  BY DEF Restore
<1>3. GuestOK(guest)'
  BY <1>1, <1>2 DEF guest, GuestOK, GuestTypes, Session, FirstLogin
<1>4. CheckpointOK'
  BY <1>1, <1>2, Bounds DEF CheckpointOK, Taken, GuestOK, GuestTypes, Session, FirstLogin
<1>5. Clean'
  <2>1. ckpt.logins \in Nat /\ logins \in Nat /\ ckpt.logins <= logins
    BY <1>1, Bounds, GuestFields DEF IInv, CheckpointOK, GuestOK, GuestTypes
  <2> QED
    BY <2>1, <1>1, <1>2 DEF IInv, Clean, Taken, GuestOK, FirstLogin
<1>6. HostTypes'
  BY <1>1, Bounds DEF IInv, HostTypes
<1> QED
  BY <1>3, <1>4, <1>5, <1>6 DEF IInv

LEMMA ResumeStep == IInv /\ Resume => IInv'
<1> SUFFICES ASSUME IInv, Resume PROVE IInv'
  OBVIOUS
<1>1. guest' = guest /\ ckpt' = ckpt /\ logins' = logins /\ resumes' = resumes + 1 /\ resumes < MaxResumes
      /\ sim' = "running" /\ script' = script /\ restores' = restores
  BY DEF Resume, guest
<1>2. HostTypes' /\ resumes \in Nat
  BY <1>1, Bounds DEF IInv, HostTypes
<1>3. Clean'
  BY <1>1, <1>2 DEF Clean
<1>4. GuestOK(guest)' /\ CheckpointOK'
  BY <1>1 DEF IInv, CheckpointOK, Taken, GuestOK, GuestTypes, Session, FirstLogin
<1> QED
  BY <1>2, <1>3, <1>4 DEF IInv

LEMMA InvNext == IInv /\ [Next]_vars => IInv'
<1> SUFFICES ASSUME IInv, [Next]_vars PROVE IInv'
  OBVIOUS
<1>1. CASE Guest \/ LeavePrompt
  BY <1>1, GuestStep, HostStep, CheckpointStep DEF IInv
<1>2. CASE Restore
  BY <1>2, RestoreStep
<1>3. CASE Resume
  BY <1>3, ResumeStep
<1>4. CASE UNCHANGED vars
  <2>1. guest' = guest /\ ckpt' = ckpt /\ logins' = logins /\ resumes' = resumes /\ sim' = sim
        /\ pc' = pc /\ var' = var /\ script' = script /\ restores' = restores
    BY <1>4 DEF vars, host, guest
  <2> QED
    BY <2>1 DEF IInv, CheckpointOK, Taken, Clean, HostTypes, GuestOK,
         GuestTypes, Session, FirstLogin
<1> QED
  BY <1>1, <1>2, <1>3, <1>4 DEF Next
-------------------------------------------------------------------------------
\* Types; at most one shell runs inside the login shell, and a checkpoint is
\* the state of a shell that goes on at line 40.
THEOREM TypeCorrect == Spec => []TypeOK
<1>1. IInv => TypeOK
  BY GuestFields DEF IInv, GuestOK, GuestTypes, Session, CheckpointOK, HostTypes, TypeOK
<1> QED
  BY <1>1, InvInit, InvNext, PTL DEF Spec

\* A session reads the run script at most once (hack_back_ckpt.rcS:43), for
\* every number of logins, restores and resumes.
THEOREM LoadedOnce == Spec => []LoadedOncePerSession
<1>1. IInv => LoadedOncePerSession
  BY GuestFields DEF IInv, GuestOK, GuestTypes, Session, LoadedOncePerSession
<1> QED
  BY <1>1, InvInit, InvNext, PTL DEF Spec

\* Until a second login or a resume, a checkpoint is of a guest in which no
\* benchmark has run (hack_back_ckpt.rcS:37).
THEOREM CheckpointIsClean == Spec => []CleanCheckpoint
<1>1. IInv => CleanCheckpoint
  <2> SUFFICES ASSUME IInv, logins <= 1, resumes = 0, Taken PROVE ckpt.ran = "no" /\ ckpt.var = 1
    BY DEF CleanCheckpoint
  <2>1. ckpt.logins \in Nat /\ logins \in Nat /\ ckpt.logins <= logins
    BY Bounds, GuestFields DEF IInv, CheckpointOK, GuestOK, GuestTypes
  <2> QED
    BY <2>1 DEF IInv, Clean
<1> QED
  BY <1>1, InvInit, InvNext, PTL DEF Spec
===============================================================================
