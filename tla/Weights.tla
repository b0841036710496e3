------------------------------ MODULE Weights ------------------------------
(***************************************************************************)
(* The total weight of a set: of tasks with their costs, of ages with the  *)
(* requests of that age.  It is the number of units its elements stand     *)
(* for, written with sets so that facts about it follow from those about   *)
(* finite cardinalities.                                                   *)
(***************************************************************************)
EXTENDS Integers, FiniteSets

Units(cost, T) == UNION {{t} \X (1 .. cost[t]) : t \in T}
Weight(cost, T) == Cardinality(Units(cost, T))
=============================================================================
