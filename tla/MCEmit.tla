------------------------------- MODULE MCEmit -------------------------------
(* Instance of Emit for TLC: all statements and operators.                 *)
EXTENDS Emit
=============================================================================
