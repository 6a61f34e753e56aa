----------------------------- MODULE MCAssemble -----------------------------
(* Instance of Assemble for TLC: main and one function, literals that may  *)
(* repeat, a global variable, two interchangeable local labels.            *)
EXTENDS Assemble, TLC

ThreeBytes == [s \in Strings |-> 3]
Symmetry   == Permutations(Labels)
=============================================================================
