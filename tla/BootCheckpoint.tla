---------------------------- MODULE BootCheckpoint ----------------------------
(***************************************************************************)
(* hack_back_ckpt.rcS, which base-experiments.sh appends to the .bashrc of *)
(* root, inside the guest that gem5 simulates.  The getty of               *)
(* serial-getty@.service logs root in and does so again whenever the login *)
(* shell ends, so the script runs first in every interactive shell; the    *)
(* environment variable RUNSCRIPT_VAR tells it how far its session is.     *)
(*                                                                         *)
(* The host gives a run script, may restore the last checkpoint with       *)
(* another one after the simulation ended, and may let a simulation go on  *)
(* after an m5 exit.  Kinds of run script: none (an empty file), one that  *)
(* runs benchmarks and calls m5 exit ("exits") or just ends ("returns"),   *)
(* one that runs them from an interactive shell of its own ("shell").      *)
(***************************************************************************)
EXTENDS Naturals

CONSTANTS MaxLogins, MaxRestores, MaxResumes

ASSUME BootAssumption == {MaxLogins, MaxRestores, MaxResumes} \subseteq Nat

Scripts == {"none", "exits", "returns", "shell"}

VARIABLES
  sim,       \* "running", or "ended" by m5 exit
  pc,        \* control point of the innermost shell of root
  var,       \* RUNSCRIPT_VAR in its environment: 0 (unset), 1 or 2
  depth,     \* interactive shells inside the login shell
  loads,     \* times this session has read the run script
  loaded,    \* /tmp/runscript
  ran,       \* "yes" once benchmarks have run in this guest
  script,    \* the run script the host gives
  ckpt,      \* the last checkpoint, a state of the guest
  logins, restores, resumes  \* counters behind the bounds

guest == [pc |-> pc, var |-> var, depth |-> depth, loads |-> loads,
          loaded |-> loaded, ran |-> ran, logins |-> logins]
NoCheckpoint == [pc |-> "none", var |-> 0, depth |-> 0, loads |-> 0,
                 loaded |-> "none", ran |-> "no", logins |-> 0]
host == <<script, ckpt, restores, resumes>>
vars == <<sim, pc, var, depth, loads, loaded, ran, logins, host>>

Init ==
  /\ sim = "running" /\ pc = "getty" /\ var = 0 /\ depth = 0 /\ loads = 0
  /\ loaded = "none" /\ ran = "no" /\ script \in Scripts
  /\ ckpt = NoCheckpoint /\ logins = 0 /\ restores = 0 /\ resumes = 0
-------------------------------------------------------------------------------
Taken == ckpt.pc # "none"
At(point) == sim = "running" /\ pc = point

\* Variants of operations below, as plausible mistakes would write them.
TestVarGoesOn ==
  /\ At("test") /\ pc' = "checkpoint" /\ var' = (IF var = 0 THEN 1 ELSE var)
  /\ UNCHANGED <<sim, depth, loads, loaded, ran, logins, host>>
LoadUnsignalled ==
  /\ At("okayed") /\ var = 1
  /\ loads' = loads + 1 /\ loaded' = script
  /\ IF script = "none"
     THEN pc' = "test" /\ depth' = depth + 1
     ELSE pc' = "script" /\ UNCHANGED depth
  /\ UNCHANGED <<sim, var, ran, logins, host>>
LoadKeepsOldScript ==
  /\ At("okayed") /\ var = 1
  /\ var' = 2 /\ loads' = loads + 1
  /\ loaded' = (IF loaded = "none" THEN script ELSE loaded)
  /\ IF loaded' = "none"
     THEN pc' = "test" /\ depth' = depth + 1
     ELSE pc' = "script" /\ UNCHANGED depth
  /\ UNCHANGED <<sim, ran, logins, host>>

\* The getty starts a login shell with a fresh environment.
Login ==
  /\ At("getty") /\ logins < MaxLogins
  /\ logins' = logins + 1 /\ pc' = "test" /\ var' = 0 /\ depth' = 0 /\ loads' = 0
  /\ UNCHANGED <<sim, loaded, ran, host>>

\* m5 exit: the simulation ends; at "next" the guest goes on if it is resumed.
M5Exit(next) == sim' = "ended" /\ pc' = next

TestVar ==
  /\ At("test")
  /\ IF var = 0
     THEN var' = 1 /\ pc' = "checkpoint" /\ UNCHANGED sim
     ELSE M5Exit("checkpoint") /\ UNCHANGED var
  /\ UNCHANGED <<depth, loads, loaded, ran, logins, host>>

Checkpoint ==
  /\ At("checkpoint")
  /\ pc' = "okayed" /\ ckpt' = [guest EXCEPT !.pc = "okayed"]
  /\ UNCHANGED <<sim, var, depth, loads, loaded, ran, logins, script, restores, resumes>>

\* The run script is read and replaces this shell; without one an interactive
\* shell inherits the environment and runs .bashrc in its turn.
Load ==
  /\ At("okayed") /\ var = 1
  /\ var' = 2 /\ loads' = loads + 1 /\ loaded' = script
  /\ IF script = "none"
     THEN pc' = "test" /\ depth' = depth + 1
     ELSE pc' = "script" /\ UNCHANGED depth
  /\ UNCHANGED <<sim, ran, logins, host>>

FallThrough ==
  /\ At("okayed") /\ var # 1
  /\ M5Exit("prompt")
  /\ UNCHANGED <<var, depth, loads, loaded, ran, logins, host>>

\* An interactive shell through with .bashrc; the user may leave it.  The
\* shell that had started it goes on, at line 62; the login shell ends.
LeavePrompt ==
  /\ At("prompt")
  /\ \/ depth > 0 /\ loaded = "none" /\ depth' = depth - 1 /\ M5Exit("prompt")
     \/ depth > 0 /\ loaded # "none" /\ depth' = 0 /\ pc' = "getty" /\ UNCHANGED sim
     \/ depth = 0 /\ pc' = "getty" /\ UNCHANGED <<sim, depth>>
  /\ UNCHANGED <<var, loads, loaded, ran, logins, host>>

RunScript ==
  /\ At("script") /\ ran' = "yes"
  /\ \/ loaded = "exits" /\ M5Exit("getty") /\ UNCHANGED depth
     \/ loaded = "returns" /\ pc' = "getty" /\ UNCHANGED <<sim, depth>>
     \/ loaded = "shell" /\ pc' = "test" /\ depth' = depth + 1 /\ UNCHANGED sim
  /\ UNCHANGED <<var, loads, loaded, logins, host>>

Guest ==
  \/ Login \/ TestVar \/ Checkpoint \/ Load \/ FallThrough \/ RunScript
-------------------------------------------------------------------------------
\* The host starts gem5 from the last checkpoint, with a script of its choice.
Restore ==
  /\ sim = "ended" /\ Taken /\ restores < MaxRestores
  /\ restores' = restores + 1 /\ sim' = "running" /\ script' \in Scripts
  /\ pc' = ckpt.pc /\ var' = ckpt.var /\ depth' = ckpt.depth /\ loads' = ckpt.loads
  /\ loaded' = ckpt.loaded /\ ran' = ckpt.ran /\ logins' = ckpt.logins
  /\ UNCHANGED <<ckpt, resumes>>

\* The host lets the simulation go on after the exit event.
Resume ==
  /\ sim = "ended" /\ resumes < MaxResumes
  /\ resumes' = resumes + 1 /\ sim' = "running"
  /\ UNCHANGED <<pc, var, depth, loads, loaded, ran, logins, script, ckpt, restores>>

Next == Guest \/ LeavePrompt \/ Restore \/ Resume

\* The simulated machine runs; users and the host need not act.
Spec == Init /\ [][Next]_vars
FairSpec == Spec /\ WF_vars(Guest)
-------------------------------------------------------------------------------
\* Types; a checkpoint is the state of a shell that goes on at line 40.
TypeOK ==
  /\ sim \in {"running", "ended"} /\ var \in 0..2 /\ depth \in 0..1
  /\ pc \in {"getty", "test", "checkpoint", "okayed", "script", "prompt"}
  /\ loads \in Nat /\ loaded \in Scripts /\ ran \in {"yes", "no"} /\ script \in Scripts
  /\ logins \in 0..MaxLogins /\ restores \in 0..MaxRestores /\ resumes \in 0..MaxResumes
  /\ Taken => ckpt.pc = "okayed" /\ ckpt.var \in 1..2

\* "Signal our future self not to recurse infinitely" (l. 43): in one login
\* session, restored or not, the run script is read at most once.
LoadedOncePerSession == loads <= 1 /\ (pc = "okayed" /\ var = 1 => loads = 0)

\* As long as no script ends by itself and no simulation is resumed, the only
\* checkpoint is the one before any benchmark, so that every restored run
\* starts from a clean guest.
CleanCheckpoint ==
  logins <= 1 /\ resumes = 0 /\ Taken => ckpt.ran = "no" /\ ckpt.var = 1

\* "When we restore the simulation from a checkpoint, we can specify a new
\* script" (l. 13): a guest restored after line 37 of a first execution loads
\* the script given with the restore and runs it.
RestoredRunsScript ==
  \A s \in Scripts \ {"none"} :
    At("okayed") /\ var = 1 /\ script = s ~> loaded = s /\ ran = "yes"

\* "Script not specified. Dropping into shell..." (l. 56): without a script the
\* simulation does not end by itself.
ShellWithoutScript == sim = "ended" => loaded # "none"
===============================================================================
