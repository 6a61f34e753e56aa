----------------------------- MODULE Tokenizer -----------------------------
(***************************************************************************)
(* The tokenizer (Frontend/Tokenize/Token.cpp): ktl_tokenize_loop skips    *)
(* trivia, then tries its recognisers in order; include runs the loop on   *)
(* another buffer.                                                         *)
(*                                                                         *)
(* Every text over a small alphabet is an input.  "include" is one         *)
(* character of the model, INC; NUL is what calloc leaves behind the text. *)
(* A buffer has the text and one NUL: what is read further on is           *)
(* undefined, and the model stops there.                                   *)
(***************************************************************************)
EXTENDS Integers, Sequences, FiniteSetsExt

CONSTANTS
  Chars,              \* characters of the texts
  MainFile, Included, \* names of files: sequences of characters
  MaxMain, MaxOther,  \* bounds of the model: lengths of the texts
  MaxDepth,           \* and includes inside one another
  StartTokens,        \* KTL_START_TOKEN_SIZE
  EofTokens,          \* appended by KTL_TokenProcess
  MaxWord,            \* KTL_MAX_WORD_SIZE
  MaxLiteral          \* KTL_MAX_STR_LITERAL

NL == "nl"   INC == "include"   NUL == "nul"   Quote == "\""   Back == "\\"
Blanks  == {" ", "tab", "cr"}
Digits  == {"1"}
IdStart == {"n", "b", "m", INC}     \* ktl_is_id_start
IdCont  == IdStart \cup Digits      \* ktl_is_id_cont
Puncts  == {"/", "*", "="}          \* of one character; "==" has two

ASSUME TokenizerAssumption ==
  /\ Chars \subseteq {NL, INC, Quote, Back, "'", "?"} \cup Blanks \cup IdCont \cup Puncts
  /\ MainFile \notin Included
  /\ {MaxMain, MaxOther, MaxDepth, EofTokens} \subseteq Nat
  /\ {StartTokens, MaxWord, MaxLiteral} \subseteq Nat \ {0}

VARIABLES
  files,      \* the texts of the files opened so far
  buffer, buffer_pos, buffer_capacity, source_pos,   \* of the context
  tokens, token_capacity,
  error,      \* error_count > 0
  callers,    \* what the calls of ktl_token_include keep in locals
  at          \* where the loop is, or how it ended

cursor == <<buffer, buffer_pos, buffer_capacity>>
array  == <<tokens, token_capacity>>
vars   == <<files, cursor, source_pos, array, error, callers, at>>

-----------------------------------------------------------------------------
Text == files[buffer]
c(p) == IF p < Len(Text) THEN Text[p + 1] ELSE NUL     \* get_c
Chars_(p, q) == SubSeq(Text, p + 1, q)                 \* p up to before q

(* The first position from p on with a character of stop, or the NUL.      *)
Until(p, stop) == Min({q \in p .. Len(Text) : c(q) \in stop \cup {NUL}})
EndOfRun(p, run) == Min({q \in p .. Len(Text) : c(q) \notin run})

Pos(l, col) == [line |-> l, column |-> col]

(* advance, advance_n: to q, all of it on one line.                        *)
AdvanceTo(q) ==
  /\ buffer_pos' = q
  /\ source_pos' = [source_pos EXCEPT !.column = @ + (q - buffer_pos)]

(* advance and new_line, whichever the character is for, up to q.          *)
LinesTo(q) ==
  LET lines == {i \in buffer_pos .. q - 1 : c(i) = NL}
  IN /\ buffer_pos' = q
     /\ source_pos' = IF lines = {}
                        THEN [source_pos EXCEPT !.column = @ + (q - buffer_pos)]
                        ELSE Pos(source_pos.line + Cardinality(lines), q - 1 - Max(lines))

(* ktl_add_token.  file, from and to are the place of the token in its     *)
(* text, which the code does not keep.                                     *)
AddToken(kind, text, from, to, pos) ==
  /\ token_capacity' = IF Len(tokens) + 1 >= token_capacity
                         THEN 2 * token_capacity ELSE token_capacity
  /\ tokens' = Append(tokens, [kind |-> kind, text |-> text, pos |-> pos,
                               file |-> buffer, from |-> from, to |-> to])

-----------------------------------------------------------------------------
Texts(n) == UNION {[1 .. k -> Chars] : k \in 0 .. n}

(* KTL_TokenInit *)
Init ==
  /\ \E main \in Texts(MaxMain) : files = [f \in {MainFile} |-> main]
  /\ buffer = MainFile /\ buffer_pos = 0 /\ buffer_capacity = Len(files[MainFile])
  /\ source_pos = Pos(0, 0)
  /\ tokens = <<>> /\ token_capacity = StartTokens
  /\ error = FALSE /\ callers = <<>> /\ at = "trivia"

-----------------------------------------------------------------------------
(* ktl_skip_trivia *)
IsComment(second) == c(buffer_pos) = "/" /\ c(buffer_pos + 1) = second

Blank ==
  /\ at = "trivia" /\ c(buffer_pos) \in Blanks \cup {NL}
  /\ LinesTo(buffer_pos + 1)
  /\ UNCHANGED <<files, buffer, buffer_capacity, array, error, callers, at>>

LineComment ==
  /\ at = "trivia" /\ IsComment("/")
  /\ AdvanceTo(Until(buffer_pos + 2, {NL}))
  /\ UNCHANGED <<files, buffer, buffer_capacity, array, error, callers, at>>

BlockComment ==
  LET ends == {q \in buffer_pos + 4 .. Len(Text) : c(q - 2) = "*" /\ c(q - 1) = "/"}
  IN /\ at = "trivia" /\ IsComment("*")
     /\ LinesTo(IF ends = {} THEN Len(Text) ELSE Min(ends))
     /\ error' = (error \/ ends = {})
     /\ UNCHANGED <<files, buffer, buffer_capacity, array, callers, at>>

(* ktl_tokenize_loop, after the trivia: the end of the text ends the loop. *)
TriviaEnd ==
  /\ at = "trivia" /\ c(buffer_pos) \notin Blanks \cup {NL, NUL}
  /\ ~IsComment("/") /\ ~IsComment("*")
  /\ at' = "include"
  /\ UNCHANGED <<files, cursor, source_pos, array, error, callers>>

-----------------------------------------------------------------------------
(* Broken form of IsInclude: any word that begins like it.                 *)
IsIncludePrefix ==
  c(buffer_pos) = INC /\ buffer_pos + 1 < buffer_capacity

(* ktl_token_include *)
IsInclude ==
  /\ c(buffer_pos) = INC /\ buffer_pos + 1 < buffer_capacity
  /\ c(buffer_pos + 1) \notin IdCont

NameOpens  == EndOfRun(buffer_pos + 1, {" ", "tab"})
NameCloses == Until(NameOpens + 1, {Quote, NL})
Name       == Chars_(NameOpens + 1, NameCloses)

(* What is in an included file is chosen when it is first opened.          *)
OnDisk == Included \cup {MainFile}
Open(name) ==
  IF name \in DOMAIN files THEN UNCHANGED files
  ELSE \E text \in Texts(MaxOther) :
         files' = [f \in DOMAIN files \cup {name} |-> IF f = name THEN text ELSE files[f]]

NotInclude ==
  /\ at = "include" /\ ~IsInclude
  /\ at' = "token"
  /\ UNCHANGED <<files, cursor, source_pos, array, error, callers>>

(* The recognisers behind it are tried where include gave up.              *)
IncludeFails ==
  /\ at = "include" /\ IsInclude
  /\ \/ c(NameOpens) # Quote /\ AdvanceTo(NameOpens)
     \/ /\ c(NameOpens) = Quote /\ Len(Name) >= MaxWord
        /\ AdvanceTo(NameOpens + MaxWord)
     \/ /\ c(NameOpens) = Quote /\ Len(Name) < MaxWord /\ c(NameCloses) # Quote
        /\ AdvanceTo(NameCloses)
     \/ /\ c(NameOpens) = Quote /\ Len(Name) < MaxWord /\ c(NameCloses) = Quote
        /\ Name \notin OnDisk
        /\ AdvanceTo(NameCloses + 1)
  /\ error' = TRUE /\ at' = "token"
  /\ UNCHANGED <<files, buffer, buffer_capacity, array, callers>>

(* Broken form of Include: the text begins where the line above was left.  *)
IncludeKeepsPosition ==
  /\ at = "include" /\ IsInclude
  /\ c(NameOpens) = Quote /\ Len(Name) < MaxWord /\ c(NameCloses) = Quote
  /\ Name \in OnDisk /\ Open(Name)
  /\ callers' = Append(callers,
       [buffer |-> buffer, buffer_pos |-> NameCloses + 1, buffer_capacity |-> buffer_capacity,
        source_pos |-> [source_pos EXCEPT !.column = @ + (NameCloses + 1 - buffer_pos)]])
  /\ buffer' = Name /\ buffer_pos' = 0 /\ buffer_capacity' = Len(files'[Name])
  /\ at' = IF Len(callers) < MaxDepth THEN "trivia" ELSE "deep"
  /\ UNCHANGED <<source_pos, array, error>>

(* Nothing stops a file that includes itself; the model does at MaxDepth.  *)
Include ==
  /\ at = "include" /\ IsInclude
  /\ c(NameOpens) = Quote /\ Len(Name) < MaxWord /\ c(NameCloses) = Quote
  /\ Name \in OnDisk /\ Open(Name)
  /\ callers' = Append(callers,
       [buffer |-> buffer, buffer_pos |-> NameCloses + 1, buffer_capacity |-> buffer_capacity,
        source_pos |-> [source_pos EXCEPT !.column = @ + (NameCloses + 1 - buffer_pos)]])
  /\ buffer' = Name /\ buffer_pos' = 0 /\ buffer_capacity' = Len(files'[Name])
  /\ source_pos' = Pos(0, 0)
  /\ at' = IF Len(callers) < MaxDepth THEN "trivia" ELSE "deep"
  /\ UNCHANGED <<array, error>>

(* Broken form of TextEnd: the size of the included text stays.            *)
TextEndKeepsSize ==
  /\ at = "trivia" /\ c(buffer_pos) = NUL
  /\ IF callers = <<>>
       THEN at' = "eof" /\ UNCHANGED <<cursor, source_pos, callers>>
       ELSE LET saved == callers[Len(callers)]
            IN /\ buffer' = saved.buffer /\ buffer_pos' = saved.buffer_pos
               /\ source_pos' = saved.source_pos
               /\ callers' = SubSeq(callers, 1, Len(callers) - 1)
               /\ UNCHANGED <<at, buffer_capacity>>
  /\ UNCHANGED <<files, array, error>>

(* The loop ends at the NUL; ktl_token_include restores the context.       *)
TextEnd ==
  /\ at = "trivia" /\ c(buffer_pos) = NUL
  /\ IF callers = <<>>
       THEN at' = "eof" /\ UNCHANGED <<cursor, source_pos, callers>>
       ELSE LET saved == callers[Len(callers)]
            IN /\ buffer' = saved.buffer /\ buffer_pos' = saved.buffer_pos
               /\ buffer_capacity' = saved.buffer_capacity
               /\ source_pos' = saved.source_pos
               /\ callers' = SubSeq(callers, 1, Len(callers) - 1)
               /\ UNCHANGED at
  /\ UNCHANGED <<files, array, error>>

-----------------------------------------------------------------------------
(* A recogniser is done at q: the loop reads on from there.                *)
ReadOn(q) == at' = IF q <= Len(Text) THEN "trivia" ELSE "undefined"

(* ktl_token_number *)
Number ==
  LET end == EndOfRun(buffer_pos, Digits)
  IN /\ at = "token" /\ c(buffer_pos) \in Digits
     /\ AddToken("value", Chars_(buffer_pos, end), buffer_pos, end, source_pos)
     /\ AdvanceTo(end) /\ ReadOn(end)
     /\ UNCHANGED <<files, buffer, buffer_capacity, error, callers>>

(* An escape: what it stands for; one that is not known is itself.         *)
Escapes == [e \in {"n", Back, Quote} |-> IF e = "n" THEN NL ELSE e]
Escaped(e) == IF e \in DOMAIN Escapes THEN Escapes[e] ELSE e

(* Broken form of Char: an unknown escape is not reported.                 *)
CharAnyEscape ==
  LET escape == c(buffer_pos + 1) = Back
      place  == IF escape THEN buffer_pos + 2 ELSE buffer_pos + 1
      sym    == IF escape THEN Escaped(c(place)) ELSE c(place)
  IN /\ at = "token" /\ c(buffer_pos) = "'"
     /\ AddToken("char", <<sym>>, buffer_pos + 1, place + 2,
                 [source_pos EXCEPT !.column = @ + 1])
     /\ AdvanceTo(place + 2)
     /\ error' = (error \/ (place + 1 <= Len(Text) /\ c(place + 1) # "'"))
     /\ ReadOn(place + 2)
     /\ UNCHANGED <<files, buffer, buffer_capacity, callers>>

(* ktl_token_char.  The closing character is skipped whatever it is.       *)
Char ==
  LET escape == c(buffer_pos + 1) = Back
      place  == IF escape THEN buffer_pos + 2 ELSE buffer_pos + 1
      sym    == IF escape THEN Escaped(c(place)) ELSE c(place)
      known  == escape => c(place) \in DOMAIN Escapes
  IN /\ at = "token" /\ c(buffer_pos) = "'"
     /\ AddToken("char", <<sym>>, buffer_pos + 1, place + 2,
                 [source_pos EXCEPT !.column = @ + 1])
     /\ AdvanceTo(place + 2)
     /\ IF place + 1 > Len(Text)
          THEN error' = (error \/ ~known)          \* there is no character to compare
          ELSE error' = (error \/ ~known \/ c(place + 1) # "'")
     /\ ReadOn(place + 2)
     /\ UNCHANGED <<files, buffer, buffer_capacity, callers>>

(* The loop of ktl_token_str_lit, from p on: where it ends and how, what   *)
(* it keeps, the lines counted and where the latest began.  A line end is  *)
(* stepped over twice, by new_line and by advance.                         *)
Literal(from) ==
  LET Ends(p, how) == [end |-> p, how |-> how, text |-> <<>>, known |-> TRUE,
                       lines |-> 0, line_at |-> 0]
      Keep(sym, rest) == [rest EXCEPT !.text = <<sym>> \o @]
      Scan[p \in 0 .. Len(Text) + 1] ==
        IF p > Len(Text) THEN Ends(p, "past")
        ELSE CASE c(p) = NUL   -> Ends(p, "open")
               [] c(p) = Quote -> Ends(p + 1, "closed")
               [] c(p) = Back  ->
                    LET rest == Scan[p + 2]
                    IN [Keep(Escaped(c(p + 1)), rest)
                          EXCEPT !.known = @ /\ c(p + 1) \in DOMAIN Escapes]
               [] c(p) = NL    ->
                    LET rest == Scan[p + 2]
                    IN [Keep(NL, rest) EXCEPT !.lines = @ + 1,
                          !.line_at = IF rest.lines = 0 THEN p + 1 ELSE @]
               [] OTHER        -> Keep(c(p), Scan[p + 1])
  IN Scan[from]

(* ktl_token_str_lit *)
StrLit ==
  LET lit == Literal(buffer_pos + 1)
      fits == Len(lit.text) < MaxLiteral
  IN /\ at = "token" /\ c(buffer_pos) = Quote
     /\ buffer_pos' = lit.end
     /\ source_pos' = IF lit.lines = 0
                        THEN [source_pos EXCEPT !.column = @ + (lit.end - buffer_pos)]
                        ELSE Pos(source_pos.line + lit.lines, lit.end - lit.line_at)
     /\ error' = (error \/ ~lit.known \/ ~fits \/ lit.how = "open")
     /\ \/ /\ lit.how = "closed"
           /\ AddToken("str_literal",
                IF fits THEN lit.text ELSE SubSeq(lit.text, 1, MaxLiteral - 1),
                buffer_pos, lit.end, source_pos)
           /\ at' = "trivia"
        \/ lit.how = "open" /\ UNCHANGED <<at, array>>   \* the others are tried at the NUL
        \/ lit.how = "past" /\ at' = "undefined" /\ UNCHANGED array
     /\ UNCHANGED <<files, buffer, buffer_capacity, callers>>

(* ktl_token_word.  Key words are words here.                              *)
Word ==
  LET end == Min({EndOfRun(buffer_pos, IdCont), buffer_pos + MaxWord - 1})
  IN /\ at = "token" /\ c(buffer_pos) \in IdStart
     /\ AddToken("string", Chars_(buffer_pos, end), buffer_pos, end, source_pos)
     /\ AdvanceTo(end) /\ ReadOn(end)
     /\ UNCHANGED <<files, buffer, buffer_capacity, error, callers>>

IsPunct(p) == c(p) \in Puncts

(* ktl_token_punct: two characters before one.                             *)
Punct2(p) == c(p) = "=" /\ c(p + 1) = "="

Punct ==
  LET end == IF Punct2(buffer_pos) THEN buffer_pos + 2 ELSE buffer_pos + 1
  IN /\ at = "token" /\ IsPunct(buffer_pos)
     /\ AddToken("punct", Chars_(buffer_pos, end), buffer_pos, end, source_pos)
     /\ AdvanceTo(end) /\ ReadOn(end)
     /\ UNCHANGED <<files, buffer, buffer_capacity, error, callers>>

(* Broken form of Unknown: the character is reported, not skipped.         *)
UnknownStays ==
  /\ at = "token" /\ ~IsPunct(buffer_pos)
  /\ c(buffer_pos) \notin Digits \cup IdStart \cup {"'", Quote}
  /\ error' = TRUE
  /\ at' = "trivia"
  /\ UNCHANGED <<files, cursor, source_pos, array, callers>>

(* ktl_tokenize_loop: no recogniser wants the character.                   *)
Unknown ==
  /\ at = "token" /\ ~IsPunct(buffer_pos)
  /\ c(buffer_pos) \notin Digits \cup IdStart \cup {"'", Quote}
  /\ error' = TRUE
  /\ AdvanceTo(buffer_pos + 1) /\ ReadOn(buffer_pos + 1)
  /\ UNCHANGED <<files, buffer, buffer_capacity, array, callers>>

(* KTL_TokenProcess *)
Eof ==
  /\ at = "eof"
  /\ IF Cardinality({i \in DOMAIN tokens : tokens[i].kind = "eof"}) < EofTokens
       THEN AddToken("eof", <<>>, buffer_pos, buffer_pos, source_pos) /\ UNCHANGED at
       ELSE at' = "done" /\ UNCHANGED array
  /\ UNCHANGED <<files, cursor, source_pos, error, callers>>

Next ==
  \/ Blank \/ LineComment \/ BlockComment \/ TriviaEnd
  \/ NotInclude \/ IncludeFails \/ Include \/ TextEnd
  \/ Number \/ Char \/ StrLit \/ Word \/ Punct \/ Unknown \/ Eof

Spec == Init /\ [][Next]_vars /\ WF_vars(Next)

-----------------------------------------------------------------------------
(* What a text means, told from the grammar (Common/Std/gramatic.md) and   *)
(* position by position, without a cursor: the longest word or number, a   *)
(* string up to its closing quote, escapes decoded, an include replaced by *)
(* what its file means.  Bad is what no rule allows.  cut is told of names *)
(* and strings the code has its own way with: strings that go over a line  *)
(* end, names longer than its buffer.                                      *)
Told(kind, text, cut) == [kind |-> kind, text |-> text, cut |-> cut]
Meant(kind, text)     == Told(kind, text, FALSE)
Bad == Meant("bad", <<>>)

(* What stands at a place of a text, and where the next piece begins.      *)
(* Behind what no rule allows nothing is told.                             *)
Piece(says, next) == [says |-> says, next |-> next]
Wrong(t) == Piece(<<Bad>>, Len(t) + 1)

Sign(t, i) == IF i \in DOMAIN t THEN t[i] ELSE NUL
Longest(t, i, set) ==
  CHOOSE j \in i .. Len(t) + 1 : Sign(t, j) \notin set /\ \A k \in i .. j - 1 : t[k] \in set
Run(kind, t, i, set) ==
  LET j == Longest(t, i, set) IN Piece(<<Meant(kind, SubSeq(t, i, j - 1))>>, j)

WordAt(t, i) ==
  LET j == Longest(t, i, IdCont)
  IN Piece(<<Told("string", SubSeq(t, i, j - 1), j - i >= MaxWord)>>, j)

BlockCommentAt(t, i) ==
  LET ends == {j \in i + 4 .. Len(t) + 1 : t[j - 2] = "*" /\ t[j - 1] = "/"}
  IN IF ends = {} THEN Wrong(t) ELSE Piece(<<>>, Min(ends))

(* others: what the files mean that may be included.                       *)
IncludeWord(t, i) == t[i] = INC /\ i < Len(t) /\ Sign(t, i + 1) \notin IdCont
IncludeAt(t, i, others) ==
  LET opens  == Longest(t, i + 1, {" ", "tab"})
      closes == {j \in opens + 1 .. Len(t) : t[j] = Quote
                   /\ \A k \in opens + 1 .. j - 1 : t[k] # NL}
      name   == SubSeq(t, opens + 1, Min(closes) - 1)
  IN IF \/ Sign(t, opens) # Quote \/ closes = {}
        \/ Min(closes) - opens > MaxWord \/ name \notin DOMAIN others
     THEN Wrong(t) ELSE Piece(others[name], Min(closes) + 1)

CharAt(t, i) ==
  IF Sign(t, i + 1) = Back
  THEN IF Sign(t, i + 2) \in DOMAIN Escapes /\ Sign(t, i + 3) = "'"
       THEN Piece(<<Meant("char", <<Escaped(t[i + 2])>>)>>, i + 4) ELSE Wrong(t)
  ELSE IF Sign(t, i + 2) = "'"
       THEN Piece(<<Meant("char", <<t[i + 1]>>)>>, i + 3) ELSE Wrong(t)

(* In a literal that starts at i: the backslashes that end at j, modulo 2; *)
(* the last of an odd number escapes what is behind it.                    *)
Odd(t, i) ==
  LET odd[j \in i .. Len(t)] == IF j = i \/ t[j] # Back THEN 0 ELSE 1 - odd[j - 1]
  IN odd

(* What it says up to j.                                                   *)
Said(t, i) ==
  LET odd == Odd(t, i)
      said[j \in i .. Len(t)] ==
        IF j = i THEN <<>> ELSE IF odd[j] = 1 THEN said[j - 1]
        ELSE Append(said[j - 1], IF odd[j - 1] = 1 THEN Escaped(t[j]) ELSE t[j])
  IN said

StringAt(t, i) ==
  LET odd  == Odd(t, i)
      ends == {j \in i + 1 .. Len(t) : t[j] = Quote /\ odd[j - 1] = 0}
      last == IF ends = {} THEN Len(t) ELSE Min(ends)
      text == Said(t, i)[last - 1]
      fine == /\ ends # {} /\ Len(text) < MaxLiteral
              /\ \A k \in i + 1 .. last - 1 : odd[k] = 1 => t[k + 1] \in DOMAIN Escapes
      cut  == \E k \in i .. last : t[k] = NL
  IN Piece(<<IF fine THEN Told("str_literal", text, cut) ELSE Told("bad", <<>>, cut)>>,
           last + 1)

PunctAt(t, i) ==
  IF t[i] = "=" /\ Sign(t, i + 1) = "=" THEN Piece(<<Meant("punct", <<"=", "=">>)>>, i + 2)
  ELSE Piece(<<Meant("punct", <<t[i]>>)>>, i + 1)

PieceAt(t, i, others) ==
  LET comment(second) == t[i] = "/" /\ Sign(t, i + 1) = second
  IN CASE t[i] \in Blanks \cup {NL}                  -> Piece(<<>>, i + 1)
       [] comment("/")                               -> Piece(<<>>, Longest(t, i, Chars \ {NL}))
       [] comment("*")                               -> BlockCommentAt(t, i)
       [] IncludeWord(t, i)                          -> IncludeAt(t, i, others)
       [] t[i] \in Digits                            -> Run("value", t, i, Digits)
       [] t[i] = "'"                                 -> CharAt(t, i)
       [] t[i] = Quote                               -> StringAt(t, i)
       [] t[i] \in IdStart /\ ~IncludeWord(t, i)     -> WordAt(t, i)
       [] t[i] \in Puncts /\ ~comment("/") /\ ~comment("*") -> PunctAt(t, i)
       [] OTHER                                      -> Wrong(t)

(* What a text means from each of its places on.                           *)
From(t, others) ==
  LET M[i \in 1 .. Len(t) + 1] ==
        IF i > Len(t) THEN <<>>
        ELSE LET piece == PieceAt(t, i, others) IN piece.says \o M[piece.next]
  IN M

(* What texts mean with up to d includes inside one another.               *)
Meanings(texts) ==
  LET Of[d \in 0 .. MaxDepth] ==
        LET others == IF d = 0 THEN [f \in DOMAIN texts |-> <<>>] ELSE Of[d - 1]
        IN [f \in DOMAIN texts |-> From(texts[f], others)[1]]
  IN Of
Meaning == Meanings(files)[MaxDepth][MainFile]

Read == [i \in DOMAIN tokens |-> Meant(tokens[i].kind, tokens[i].text)]
IsBad(m)  == \E i \in DOMAIN m : m[i].kind = "bad"
IsCut(m)  == \E i \in DOMAIN m : m[i].cut
Eofs == [i \in 1 .. EofTokens |-> Meant("eof", <<>>)]

-----------------------------------------------------------------------------
(* The context is that of the text the cursor is in, before, in and after  *)
(* an include, which saves and restores it field by field                  *)
(* (ktl_token_include); tokens, those of the end included, are written     *)
(* inside their array (ktl_add_token).                                     *)
TypeInv ==
  /\ buffer \in DOMAIN files /\ buffer_capacity = Len(Text)
  /\ at # "undefined" => buffer_pos \in 0 .. Len(Text)
  /\ source_pos \in [line : Nat, column : Nat]
  /\ token_capacity \in Nat /\ Len(tokens) <= token_capacity
  /\ error \in BOOLEAN
  /\ Len(callers) <= MaxDepth + 1
  /\ \A i \in DOMAIN callers :
       /\ callers[i].buffer_capacity = Len(files[callers[i].buffer])
       /\ callers[i].buffer_pos \in 1 .. callers[i].buffer_capacity
  /\ at \in {"trivia", "include", "token", "eof", "done", "undefined", "deep"}

(* What is written is read, includes among it, and an error is on record   *)
(* exactly when the text has one; strings over a line end and names longer *)
(* than the buffer for them set aside (the recognisers of Token.cpp).      *)
WrittenIsRead ==
  at = "done" /\ ~IsCut(Meaning) =>
    /\ error <=> IsBad(Meaning)
    /\ ~error => Read = Meaning \o Eofs

(* The loop reads behind a text with no error on record only where a       *)
(* character is never closed, or a string is open at a last line end.      *)
OverrunIsReported ==
  at = "undefined" /\ ~error => Text[Len(Text)] \in {"'", NL}

(* The position of a token is that of its first character, whatever was    *)
(* skipped or included before it, unless a literal held a line end.        *)
Place(t, p) ==
  LET before == {i \in 1 .. p : t[i] = NL}
  IN Pos(Cardinality(before), IF before = {} THEN p ELSE p - Max(before))
OneLine(k) == \A i \in k.from + 1 .. k.to : i <= Len(files[k.file]) => files[k.file][i] # NL
PlacesRight ==
  ~error => \A i \in DOMAIN tokens :
    (\A j \in 1 .. i : OneLine(tokens[j])) =>
      tokens[i].pos = Place(files[tokens[i].file], tokens[i].from)

(* The tokenizer comes to the end of every text; a file that includes      *)
(* itself is where the model stops.                                        *)
Ends == <>(at \in {"done", "undefined", "deep"})
=============================================================================
