------------------------------ MODULE MCCalls ------------------------------
(* Instance of Calls for TLC: two interchangeable values, so that a wrong  *)
(* one is noticed in some run.                                             *)
EXTENDS Calls, TLC

Symmetry == Permutations(Values)
=============================================================================
