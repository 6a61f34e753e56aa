------------------------------ MODULE MCFrame ------------------------------
(* Instance of Frame and Access for TLC: two functions and main over five  *)
(* variables, one parameter in a register, the others on the stack.        *)
(* Aggregates of 120 bytes bring slots to both sides of a distance of 128. *)
(* Entries are interchangeable, and so are functions.                      *)
EXTENDS Access, TLC

Symmetry == Permutations(Entries) \cup Permutations(Functions)

Numbers == {0, 1, 8, 127, 128, 255, 256, 32768, 65536, 2147483647}
=============================================================================
