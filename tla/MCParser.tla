------------------------------ MODULE MCParser ------------------------------
(* Instance of Parser for TLC: all tokens.                                 *)
EXTENDS Parser
=============================================================================
