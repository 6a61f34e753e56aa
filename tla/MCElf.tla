------------------------------- MODULE MCElf -------------------------------
(* Instance of Elf for TLC: main alone, three imported functions, two of   *)
(* which share a bucket; sizes are those of the code, and the literals are *)
(* so long that the read-only part ends before, at and behind a page.      *)
EXTENDS Elf, TLC

CONSTANTS p, q, r, s1

Lengths2  == [s \in Strings |-> IF s = s1 THEN 3 ELSE 3539]
NameLens  == (p :> 4) @@ (q :> 6) @@ (r :> 1)
Hashes    == (p :> 0) @@ (q :> 2) @@ (r :> 3)
=============================================================================
