------------------------------ MODULE Statistics ------------------------------
(***************************************************************************)
(* The two halves of collect_results.  Both get the same array, but want   *)
(* other instances: closest_k short arrays in every order, aggregate bags  *)
(* of many times.  Each behaviour is about one of them; the other stays    *)
(* where it begins, with an array of no times.                             *)
(***************************************************************************)
EXTENDS ClosestK, Aggregate

VARIABLE half  \* what the behaviour is about: "closest_k" or "aggregate"

StatisticsInit ==
  /\ \/ half = "closest_k" /\ times = [v \in Values |-> 0]
     \/ half = "aggregate" /\ size = 0
  /\ Init /\ AggregateInit

StatisticsNext ==
  /\ UNCHANGED half
  /\ \/ half = "closest_k" /\ Next /\ UNCHANGED aggregateVars
     \/ half = "aggregate" /\ AggregateNext /\ UNCHANGED vars

StatisticsSpec == StatisticsInit /\ [][StatisticsNext]_<<half, vars, aggregateVars>>
===============================================================================
