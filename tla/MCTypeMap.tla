----------------------------- MODULE MCTypeMap -----------------------------
(* Instance of TypeMap for TLC: an empty and a one-byte base type (the     *)
(* pointer type is the wide one), and a standard alias.                    *)
EXTENDS TypeMap

MCStandard == << [name |-> "void", size |-> 0, align |-> 1],
                 [name |-> "i8",   size |-> 1, align |-> 1] >>

MCAlias == << [name |-> "char", target |-> 2] >>
=============================================================================
