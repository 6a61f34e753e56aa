----------------------------- MODULE MCAnalysis -----------------------------
(* An instance of Analysis and Values for TLC: programs of a main and a    *)
(* function of three families.  Flow has the statements and every missing  *)
(* part; Typing has expressions of two operators over variables of several *)
(* types; Consts has what points where.                                    *)
EXTENDS Values

V(x)         == Node("var", x, Unset, <<>>)
Lit(i)       == [Node("int", "", I32, <<>>) EXCEPT !.value = i]
Char         == [Node("int", "", I8, <<>>) EXCEPT !.value = 1]
Str          == Node("str", "", Unset, <<>>)
Bin(op, a, b) == Node("binary", op, Unset, <<a, b>>)
Un(op, a)    == Node("unary", op, Unset, <<a>>)
Cast(t, a)   == Node("cast", "", t, <<a>>)
CallOf(f, args) == Node("call", f, Unset, args)
Dot(a, f)    == Node("dot", f, Unset, <<a>>)
Arrow(a, f)  == Node("arrow", f, Unset, <<a>>)
At2(a, i)    == Node("index", "", Unset, <<a, i>>)
Set(a, b)    == Node("assign", "", Unset, <<a, b>>)
Var(x, t, e) == Node("var_decl", x, t, <<e>>)
ConstVar(x, t, e) == [Var(x, t, e) EXCEPT !.const = TRUE]
Block(lines) == Node("block", "", Unset, lines)
Ret(e)       == Node("return", "", Unset, <<e>>)
If(c, then)  == Node("if", "", Unset, <<c, Block(then)>>)
For(i, c, s, body) == Node("for", "", Unset, <<i, c, s, Block(body)>>)
Main(lines)  == Node("main", "", Unset, <<Block(lines)>>)
Param(x, t)  == [name |-> x, type |-> t, const |-> FALSE]
Func(t, const, params, lines) ==
  [kind |-> "func", name |-> "f", type |-> t, const |-> const, of |-> "", value |-> 0,
   params |-> params, kids |-> <<Block(lines)>>]

MCStd == [puts |-> [ret |-> Void, const |-> FALSE, params |-> <<Param("s", Ptr(I8))>>,
                    external |-> TRUE, optional |-> TRUE]]
MCFields == [a |-> I8, b |-> I64]

-----------------------------------------------------------------------------
FlowLines ==
  LET x == V("x")  less == Bin("<", x, Lit(2))  set == Set(x, Lit(1))
      conds  == {Null, less, CallOf("f", <<x>>), V("undeclared")}
  IN {set, Set(x, V("undeclared")), CallOf("f", <<x>>), CallOf("f", <<>>), CallOf("g", <<>>),
      CallOf("puts", <<Str>>), CallOf("puts", <<Str, x>>), CallOf("puts", <<x>>),
      Var("y", I32, Null), Var("y", I32, Char), Var("y", I8, x),
      Var("y", Arr(I32), Node("array_init", "", Unset, <<Char, Lit(1)>>)),
      Var("y", Arr(I8), Node("array_init", "", Unset, <<Char, x>>)),
      Var("y", I32, Node("array_init", "", Unset, <<Char>>)),
      Node("while", "", Unset, <<less, Block(<<Node("break", "", Unset, <<>>)>>)>>),
      Node("cond_block", "", Unset, <<If(less, <<set>>), Node("else", "", Unset, <<Block(<<set>>)>>)>>),
      If(Bin("+", Un("&", x), V("x")), <<>>), If(Bin("+", V("s"), x), <<>>),
      Node("exit", "", Unset, <<>>)}
     \cup {For(i, c, st, <<set>>) : i \in {Null, Var("z", I32, x)}, c \in conds, st \in {Null, set}}
Returns == {Ret(Null), Ret(V("x")), Ret(Char), Ret(Un("&", V("x")))}
Locals  == <<Var("x", I32, Lit(0)), Var("s", S, Null)>>
Flow ==
  {<<Func(t, FALSE, <<Param("x", I32)>>, <<a>>), Main(Locals \o <<b>>)>> :
     t \in {I32}, a \in FlowLines, b \in FlowLines}
  \cup {<<Main(Locals \o <<a>>), Func(t, FALSE, <<Param("x", I32)>>, <<r>>)>> :
     a \in FlowLines, t \in {I32, Void}, r \in Returns}
  \cup {<<Var("x", I32, i), Node("decl", "T", Unset, <<>>), Main(<<Set(V("x"), Lit(1)), CallOf("f", <<c>>)>>),
          Func(Void, FALSE, <<Param("v", Ptr(I8))>>, <<Var("y", I8, Char), r>>)>> :
     i \in {Null, Lit(1), Str}, c \in {Str, V("x")}, r \in Returns \cup {Ret(V("x")), CallOf("f", <<Str>>)}}

-----------------------------------------------------------------------------
Atoms == {V("c"), V("n"), V("w"), V("p"), V("a"), V("s"), Lit(3)}
Simple ==
  Atoms \cup {Un(op, v) : op \in {"neg", "deref"}, v \in {V("c"), V("n"), V("p")}}
    \cup {Un("&", v) : v \in {V("c"), At2(V("a"), V("n")), V("s")}}
    \cup {Dot(V("s"), f) : f \in {"a", "b", "c"}} \cup {Dot(V("n"), "a"), Arrow(V("q"), "b"), Arrow(V("p"), "a")}
    \cup {At2(v, i) : v \in {V("a"), V("p"), V("n")}, i \in {V("c"), V("p")}}
    \cup {CallOf("f", <<v>>) : v \in {V("c"), V("w"), V("s")}}
    \cup {Bin(op, v, w) : op \in AddOps \cup {"*", "/"} \cup CompOps \cup {"and"},
                          v \in {V("c"), V("n"), V("w"), V("p")}, w \in {V("n"), V("w"), V("s")}}
Rich ==
  Simple \cup {Un("neg", e) : e \in {Bin("*", V("c"), V("n")), V("w")}}
    \cup {Cast(t, e) : t \in {Bool, I16, I64},
                       e \in {V("c"), V("n"), V("w"), Lit(3), Un("neg", V("n")), CallOf("f", <<V("c")>>),
                              Bin("*", V("c"), V("n")), Bin("<", V("w"), V("w")), Dot(V("s"), "b")}}
    \cup {Bin(op, e, v) : op \in {"+", "%", "==", "or"}, v \in {V("w"), V("c")},
                          e \in {Bin("*", V("c"), V("n")), Bin("-", V("p"), V("n")), Bin("/", V("w"), V("w")),
                                 Cast(I64, V("n")), Arrow(V("q"), "a"), Bin("and", V("c"), V("s")),
                                 Cast(Bool, V("c"))}}
Places == {V("c"), V("n"), V("w"), V("p"), V("a"), V("b"), Dot(V("s"), "b"), At2(V("a"), V("w")), Un("deref", V("p"))}
TypedLocals ==
  <<Var("c", I8, Null), Var("n", I32, Null), Var("w", I64, Null), Var("b", Bool, Null), Var("p", Ptr(I32), Null),
    Var("a", Arr(I32), Null), Var("s", S, Null), Var("q", Ptr(S), Null)>>
Identity == Func(I32, FALSE, <<Param("v", I32)>>, <<Ret(V("v"))>>)
Typing ==
  {<<Identity, Main(TypedLocals \o <<Set(l, e)>>)>> : l \in Places, e \in Rich}

-----------------------------------------------------------------------------
ConstLocals ==
  <<ConstVar("k", I32, Lit(1)), ConstVar("p", Ptr(I32), Un("&", V("k"))), Var("m", Ptr(I32), V("u")),
    ConstVar("q", Ptr(S), V("r")), ConstVar("s", S, At2(V("r"), Lit(0))),
    ConstVar("a", Arr(I32), Node("array_init", "", Unset, <<Lit(1), Lit(2)>>))>>
Pointers == {V("p"), V("m"), V("u"), Bin("+", V("p"), Lit(1)), Un("&", V("k")), Un("&", V("u")),
             Un("&", At2(V("m"), V("k"))), Un("&", Arrow(V("r"), "b")), V("a"),
             Bin("+", Un("&", V("k")), Lit(1)), Un("&", At2(V("p"), V("k"))), CallOf("f", <<V("u"), V("r")>>)}
ConstLines ==
  {Set(l, e) : l \in {V("p"), V("m"), V("u")}, e \in Pointers}
    \cup {Set(l, V("k")) : l \in {V("k"), At2(V("p"), Lit(0)), At2(V("m"), Lit(0)), Arrow(V("q"), "b"), Arrow(V("r"), "b"),
                          At2(V("a"), Lit(0)), Dot(V("s"), "b"), Dot(At2(V("q"), Lit(0)), "b"),
                          Dot(At2(V("r"), Lit(0)), "b")}}
    \cup {Set(Un("deref", v), V("k")) : v \in {V("p"), V("m"), Un("&", V("k"))}}
    \cup {CallOf("f", <<e, V("r")>>) : e \in Pointers}
    \cup {If(Bin("and", V("k"), e), <<>>) : e \in Pointers}
    \cup {d : d \in {Var("o", Ptr(I8), Str), ConstVar("o", Ptr(I8), Str), Var("o", Ptr(I32), V("p"))}}
Consts ==
  {<<Func(Ptr(I32), const, <<Param("u", Ptr(I32)), Param("r", Ptr(S))>>, ConstLocals \o lines \o <<Ret(V("u"))>>),
     Main(<<>>)>> : const \in BOOLEAN, lines \in {<<a, b>> : a \in ConstLines, b \in {Set(V("m"), V("m"))}} \cup {<<a>> : a \in ConstLines}}

MCPrograms == Flow \cup Typing \cup Consts
MCWords == {0, 1, 3, 200, 32770, 65535}
MCRegisters == {0, 65535}
=============================================================================
