------------------------------ MODULE MCRedLock ------------------------------
(* Two processes and three nodes.                                           *)
EXTENDS RedLock, TLC

CONSTANTS p1, p2

Swap == Permutations(Procs)
=============================================================================
