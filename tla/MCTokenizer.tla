---------------------------- MODULE MCTokenizer ----------------------------
(* Instances of Tokenizer for TLC: literals, comments, words and includes  *)
(* in one text; one file beside it, which may include either.              *)
EXTENDS Tokenizer

Main  == <<"n">>
Other == {<<"1">>}
TextChars == {"n", "1", Quote, "'", Back, NL, "/", "*", "=", "?", INC}
=============================================================================
