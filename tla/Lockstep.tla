------------------------------- MODULE Lockstep -------------------------------
(***************************************************************************)
(* What a pair of pipes promises the two processes of a benchmark: their   *)
(* measured rounds never overlap.  The leader starts round n+1 only after  *)
(* the follower has answered round n, and the follower never answers a     *)
(* round that was not started.                                             *)
(***************************************************************************)
EXTENDS Naturals

CONSTANT Rounds           \* number of rounds, config->iter in the source

VARIABLES started,        \* rounds the leader has started
          answered        \* rounds the follower has answered

lvars == <<started, answered>>

Init == started = 0 /\ answered = 0

Start ==
  /\ started = answered
  /\ started < Rounds
  /\ started' = started + 1
  /\ UNCHANGED answered

Answer ==
  /\ answered < started
  /\ answered' = answered + 1
  /\ UNCHANGED started

Next == Start \/ Answer

Spec == Init /\ [][Next]_lvars
===============================================================================
