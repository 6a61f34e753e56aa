------------------------------ MODULE Analysis ------------------------------
(***************************************************************************)
(* The semantic passes (Frontend/Analysis/Analysis.cpp) and what compile() *)
(* (System/compiler.cpp) makes of their outcome.                           *)
(*                                                                         *)
(* A program is the tree the parser built, one node per top-level          *)
(* declaration; a step takes one of them through one pass.  A node is      *)
(* [kind, name, type, const, of, value, kids]; type is the annotation the  *)
(* back end will read; what calloc leaves there, 0, is the id of bool.     *)
(* A missing child is Null.  An id of a type is its structure, which is    *)
(* what OneIdPerType of TypeMap allows.  A pass that dereferences NULL     *)
(* or fails an assertion ends the compiler: "crashed".                     *)
(***************************************************************************)
EXTENDS Integers, Sequences

CONSTANTS
  Programs,   \* sequences of top-level nodes
  Std,        \* functions of the standard library, by name
  Fields,     \* the block type S: its fields with their types
  ArrayLen    \* elements of every array type

Bad  == <<>>        Bool == <<"bool">>   Void == <<"void">>
I8   == <<"i8">>    I16  == <<"i16">>    I32  == <<"i32">>
I64  == <<"i64">>   S    == <<"S">>
Ptr(t) == <<"ptr">> \o t
Arr(t) == <<"array">> \o t
To(t)  == Tail(t)

Kind(t) == IF t[1] \in {"ptr", "array", "S"} THEN t[1] ELSE "base"
Size(t) == [bool |-> 1, void |-> 0, i8 |-> 1, i16 |-> 2, i32 |-> 4, i64 |-> 8][t[1]]
IsPtr(t) == Kind(t) = "ptr"

Node(kind, name, type, kids) ==
  [kind |-> kind, name |-> name, type |-> type, const |-> FALSE, of |-> "", value |-> 0,
   kids |-> kids]
Null  == Node("null", "", Bad, <<>>)
Unset == Bool

(* An entry of a symbol map: a variable, with the map it is in.            *)
Entry(type, const, of) == [type |-> type, const |-> const, of |-> of]

ASSUME AnalysisAssumption ==
  /\ ArrayLen \in Nat
  /\ \A f \in DOMAIN Fields : Fields[f] # Bad
  /\ \A p \in Programs : \A i \in DOMAIN p : p[i].kind \in {"main", "func", "var_decl", "decl"}

VARIABLES
  prog,               \* the tree
  pass, next,         \* the pass that runs, the declaration it has reached
  is_correct,         \* its verdict so far
  error,              \* error_count > 0
  currect_type_func   \* of the context

vars == <<prog, pass, next, is_correct, error, currect_type_func>>

-----------------------------------------------------------------------------
(* What visiting a node yields: the node, the verdict, whether an error    *)
(* was put on record, whether the compiler died.                           *)
Out(n, ok, e, crash) == [n |-> n, ok |-> ok, e |-> e, crash |-> crash]
Fine(n)     == Out(n, TRUE, FALSE, FALSE)
Reported(n) == Out(n, FALSE, TRUE, FALSE)
Dead(n)     == Out(n, FALSE, FALSE, TRUE)

(* All children, whatever the verdict on the first.                        *)
Gather(n, outs) ==
  Out([n EXCEPT !.kids = [i \in DOMAIN outs |-> outs[i].n]],
      \A i \in DOMAIN outs : outs[i].ok,
      \E i \in DOMAIN outs : outs[i].e,
      \E i \in DOMAIN outs : outs[i].crash)

Own == {prog[i] : i \in {j \in DOMAIN prog : prog[j].kind = "func"}}
Functions ==
  [f \in {n.name : n \in Own} \cup DOMAIN Std |->
     IF f \in DOMAIN Std THEN Std[f]
     ELSE LET n == CHOOSE m \in Own : m.name = f
          IN [ret |-> n.type, const |-> n.const, params |-> n.params,
              external |-> FALSE, optional |-> FALSE]]

-----------------------------------------------------------------------------
(* The variables a block, a for statement or the file declares: their maps *)
(* were filled by the parser, so a use may come before its declaration.    *)
Declared(kids, of) ==
  LET decls == {i \in DOMAIN kids : kids[i].kind = "var_decl"}
  IN [x \in {kids[i].name : i \in decls} |->
        LET d == kids[CHOOSE i \in decls : kids[i].name = x] IN Entry(d.type, d.const, of)]
ParamMap(params) ==
  [x \in {params[i].name : i \in DOMAIN params} |->
     LET p == params[CHOOSE i \in DOMAIN params : params[i].name = x]
     IN Entry(p.type, p.const, "param")]

Found(name, scopes) == {i \in DOMAIN scopes : name \in DOMAIN scopes[i]}
Lookup(name, scopes) ==
  scopes[CHOOSE i \in Found(name, scopes) : \A j \in Found(name, scopes) : i <= j][name]

(* resolving_name: the innermost scope that has the name.                  *)
RECURSIVE Resolve(_, _)
Resolve(n, scopes) ==
  LET inner == IF n.kind \in {"block", "for"} THEN <<Declared(n.kids, "local")>> \o scopes
                                              ELSE scopes
      below == Gather(n, [i \in DOMAIN n.kids |-> Resolve(n.kids[i], inner)])
  IN CASE n.kind = "var" ->
            IF Found(n.name, scopes) = {} THEN Reported(n)
            ELSE LET e == Lookup(n.name, scopes)
                 IN Fine([n EXCEPT !.type = e.type, !.const = e.const, !.of = e.of])
       [] n.kind = "call" ->
            IF n.name \notin DOMAIN Functions THEN Reported(n)
            ELSE [below EXCEPT !.n.kind = IF Functions[n.name].external THEN "std_call" ELSE @]
       [] OTHER -> below

-----------------------------------------------------------------------------
(* check_type_compat_cast, for two different types.                        *)
Widens(target, source) ==
  \/ Kind(target) = "base" /\ Kind(source) = "base" /\ Size(target) >= Size(source)
  \/ Kind(target) = "ptr"  /\ Kind(source) = "array" /\ To(target) = To(source)
Implicit(n, target) == Node("cast", "implicit", target, <<n>>)

(* Broken form of Apply: refused without a report.                         *)
ApplySilent(n, target, source) ==
  IF target # Bad /\ source # Bad /\ target # source /\ Widens(target, source)
    THEN Fine(Implicit(n, target)) ELSE Out(n, target # Bad /\ target = source, FALSE, FALSE)

(* apply_type_compat, cast_to_type: BAD is not compatible with anything,   *)
(* and nothing is said of it.                                              *)
Apply(n, target, source) ==
  CASE target = Bad \/ source = Bad -> Out(n, FALSE, FALSE, FALSE)
    [] target # Bad /\ target = source -> Fine(n)
    [] target # Bad /\ source # Bad /\ target # source ->
         IF Widens(target, source) THEN Fine(Implicit(n, target)) ELSE Reported(n)

(* type_res_oper, for two operands that are not both pointers.             *)
Larger(a, b) ==
  IF IsPtr(a) THEN a ELSE IF IsPtr(b) THEN b ELSE IF Size(a) > Size(b) THEN a ELSE b

(* What typing an expression yields.                                       *)
Ex(n, t, e, crash) == [n |-> n, t |-> t, e |-> e, crash |-> crash]

AddOps  == {"+", "-"}
MulOps  == {"*", "/", "%"}
CompOps == {"<", "=="}
LogOps  == {"and", "or"}

RECURSIVE Expr(_)     \* analyze_type_expr

(* analyze_func_call_param; x is what the argument yielded, and so are b,  *)
(* i, l and r below for the operands of a node.                            *)
Argument(params, i, x) ==
  LET aggregate == x.t # Bad /\ Kind(x.t) \in {"array", "S"}
      fit == IF i > Len(params) THEN Out(x.n, x.t # Bad, FALSE, FALSE)
                                ELSE Apply(x.n, params[i].type, x.t)
  IN Out(fit.n, fit.ok, x.e \/ aggregate \/ fit.e, x.crash)
ArgsOf(n, f) ==
  IF \/ Len(n.kids) < Len(f.params)
     \/ Len(n.kids) > Len(f.params) /\ ~f.optional
    THEN Reported(n)
    ELSE Gather(n, [i \in DOMAIN n.kids |-> Argument(f.params, i, Expr(n.kids[i]))])
Args(n) == ArgsOf(n, Functions[n.name])

Field(n, b) ==
  LET block == IF n.kind = "dot" THEN b.t ELSE IF IsPtr(b.t) THEN To(b.t) ELSE Bad
      m == [n EXCEPT !.kids = <<b.n>>]
  IN CASE b.t = Bad -> Ex(m, Bad, b.e, b.crash)
       [] b.t # Bad /\ block = S /\ n.name \in DOMAIN Fields ->
            Ex([m EXCEPT !.type = Fields[n.name]], Fields[n.name], b.e, b.crash)
       [] b.t # Bad /\ ~(block = S /\ n.name \in DOMAIN Fields) -> Ex(m, Bad, TRUE, b.crash)

Index(n, b, i) ==
  LET m == [n EXCEPT !.kids = <<b.n, n.kids[2]>>]
      both == [n EXCEPT !.kids = <<b.n, i.n>>]
  IN CASE b.t = Bad -> Ex(m, Bad, b.e, b.crash)
       [] b.t # Bad /\ Kind(b.t) \notin {"array", "ptr"} -> Ex(m, Bad, TRUE, b.crash)
       [] b.t # Bad /\ Kind(b.t) \in {"array", "ptr"} ->
            IF i.t = Bad \/ Kind(i.t) # "base"
              THEN Ex(both, Bad, b.e \/ i.e \/ i.t # Bad, b.crash \/ i.crash)
              ELSE Ex([both EXCEPT !.type = To(b.t)], To(b.t), b.e \/ i.e, b.crash \/ i.crash)

(* The operands an operator casts, and to what.                            *)
CastTo(op, t, other, result) ==
  CASE op \in AddOps /\ IsPtr(other) -> I64
    [] op \in MulOps -> result
    [] OTHER -> t

(* get_type_binary_oper.  An operand of no type has no entry: NULL is      *)
(* dereferenced in is_base_or_ptr.                                         *)
Binary(n, l, r) ==
  LET scalar(t) == Kind(t) \in {"base", "ptr"}
      refused == CASE n.name \in AddOps -> IsPtr(l.t) /\ IsPtr(r.t)
                   [] n.name \in MulOps \cup CompOps -> IsPtr(l.t) \/ IsPtr(r.t)
                   [] OTHER -> FALSE
      t     == IF n.name \in AddOps \cup MulOps THEN Larger(l.t, r.t) ELSE Bool
      left  == Apply(l.n, CastTo(n.name, l.t, r.t, t), l.t)
      right == Apply(r.n, CastTo(n.name, r.t, l.t, t), r.t)
      m     == [n EXCEPT !.kids = <<l.n, r.n>>]
      died  == l.crash \/ r.crash
  IN CASE l.t = Bad -> Ex(m, Bad, l.e \/ r.e, TRUE)
       [] l.t # Bad /\ ~scalar(l.t) -> Ex(m, Bad, TRUE, died)
       [] l.t # Bad /\ scalar(l.t) /\ r.t = Bad -> Ex(m, Bad, l.e \/ r.e, TRUE)
       [] l.t # Bad /\ scalar(l.t) /\ r.t # Bad ->
            IF ~scalar(r.t) \/ refused THEN Ex(m, Bad, TRUE, died)
            ELSE Ex([n EXCEPT !.kids = <<left.n, right.n>>, !.type = t], t,
                    l.e \/ r.e \/ left.e \/ right.e, died)

(* get_type_unary_oper: the annotation of the node stays as it was.        *)
Unary(n, x) ==
  LET m == [n EXCEPT !.kids = <<x.n>>]
  IN CASE x.t = Bad -> Ex(m, Bad, x.e, x.crash)
       [] x.t # Bad /\ n.name = "&" -> Ex(m, Ptr(x.t), x.e, x.crash)
       [] x.t # Bad /\ n.name = "neg" -> Ex(m, x.t, x.e, x.crash)
       [] x.t # Bad /\ n.name = "deref" ->
            IF IsPtr(x.t) THEN Ex(m, To(x.t), x.e, x.crash) ELSE Ex(m, Bad, TRUE, x.crash)

(* What a cast is applied to is not looked at.                             *)
Expr(n) ==
  CASE n.kind = "null" -> Ex(n, Bad, FALSE, FALSE)
    [] n.kind \in {"int", "var", "cast"} -> Ex(n, n.type, FALSE, FALSE)
    [] n.kind = "str" -> Ex([n EXCEPT !.type = Ptr(I8)], Ptr(I8), FALSE, FALSE)
    [] n.kind \in {"call", "std_call"} ->
         LET a == Args(n) IN Ex(a.n, Functions[n.name].ret, a.e, a.crash)
    [] n.kind \in {"dot", "arrow"} -> Field(n, Expr(n.kids[1]))
    [] n.kind = "index"  -> Index(n, Expr(n.kids[1]), Expr(n.kids[2]))
    [] n.kind = "binary" -> Binary(n, Expr(n.kids[1]), Expr(n.kids[2]))
    [] n.kind = "unary"  -> Unary(n, Expr(n.kids[1]))

-----------------------------------------------------------------------------
(* An expression as the only child, brought to a type.                     *)
Fitted(x, target) ==
  LET a == Apply(x.n, target, x.t) IN Out(a.n, a.ok, x.e \/ a.e, x.crash)
Fit(n, target) == Gather(n, <<Fitted(Expr(n.kids[1]), target)>>)

(* analyze_type_var_init_array: an element of no type is passed over.      *)
Element(x, type) ==
  IF x.t = Bad THEN Out(x.n, TRUE, x.e, x.crash) ELSE Fitted(x, type)
Elements(n, type) ==
  IF Kind(type) # "array" \/ Len(n.kids) # ArrayLen THEN Reported(n)
  ELSE Gather(n, [i \in DOMAIN n.kids |-> Element(Expr(n.kids[i]), To(type))])

(* analyze_var_decl *)
VarDecl(n) ==
  CASE n.kids[1] = Null -> Fine(n)
    [] n.kids[1] # Null /\ n.kids[1].kind = "array_init" ->
         Gather(n, <<Elements(n.kids[1], n.type)>>)
    [] n.kids[1] # Null /\ n.kids[1].kind # "array_init" -> Fit(n, n.type)

(* analyze_return; the parser has reported a return outside a function.    *)
Return(n, type) ==
  CASE n.kids[1] # Null -> Fit(n, type)
    [] n.kids[1] = Null -> IF type = Void THEN Fine(n) ELSE Reported(n)


(* analyze_assign *)
Assign(n, l, r) ==
  LET a == Apply(r.n, l.t, r.t)
  IN Out([n EXCEPT !.kids = <<l.n, a.n>>], a.ok, l.e \/ r.e \/ a.e, l.crash \/ r.crash)

(* A condition: any type will do.                                          *)
Condition(x) == Out(x.n, x.t # Bad, x.e, x.crash)

(* analyze_line.  The condition of a for statement comes here as a line:   *)
(* unless it is missing or a call, the answer is FALSE and nothing is      *)
(* reported.                                                               *)
RECURSIVE Line(_, _)
Line(n, type) ==
  CASE n.kind = "null" -> Fine(n)
    [] n.kind \in {"call", "std_call"} -> Args(n)
    [] n.kind = "var_decl" -> VarDecl(n)
    [] n.kind = "assign" -> Assign(n, Expr(n.kids[1]), Expr(n.kids[2]))
    [] n.kind \in {"if", "while"} ->
         Gather(n, <<Condition(Expr(n.kids[1])), Line(n.kids[2], type)>>)
    [] n.kind \in {"else", "cond_block", "for", "block"} ->
         Gather(n, [i \in DOMAIN n.kids |-> Line(n.kids[i], type)])
    [] n.kind = "return" -> Return(n, type)
    [] n.kind \in {"break", "continue", "exit"} -> Fine(n)
    [] OTHER -> Out(n, FALSE, FALSE, FALSE)

-----------------------------------------------------------------------------
(* is_const: "ptr" for a pointer whose target must not be written through, *)
(* "value" for what must not be written.  A cast, a call of the standard   *)
(* library and an array in braces come out as mutable.                     *)
RECURSIVE IsConst(_)
IsConst(n) ==
  LET first == IsConst(n.kids[1])
  IN CASE n.kind = "var"  -> IF ~n.const THEN "mutable" ELSE IF IsPtr(n.type) THEN "ptr" ELSE "value"
       [] n.kind = "call" -> IF Functions[n.name].const THEN "ptr" ELSE "mutable"
       [] n.kind = "int"  -> "value"
       [] n.kind = "str"  -> "ptr"
       [] n.kind = "unary" ->
            IF n.name = "neg" THEN first
            ELSE IF first = "ptr" \/ (n.name = "&" /\ first = "value") THEN "value" ELSE "mutable"
       [] n.kind = "binary" -> IF "ptr" \in {first, IsConst(n.kids[2])} THEN "ptr" ELSE "mutable"
       [] n.kind \in {"index", "dot", "arrow"} -> IF first = "ptr" THEN "value" ELSE "mutable"
       [] OTHER -> "mutable"

(* Broken form of Assignable: where a const pointer goes is not looked at. *)
AssignableAnyPointer(left, right) == left # "value"

(* What checking_consts asks of an assignment.                             *)
Assignable(left, right) == left # "value" /\ (right = "ptr" => left = "ptr")

(* checking_consts.  A missing child fails its assertion.                  *)
RECURSIVE CheckConsts(_)
CheckConsts(n) ==
  LET left  == IsConst(n.kids[1])
      right == IsConst(n.kids[2])
      ok    == CASE n.kind = "assign" -> Assignable(left, right)
                 [] n.kind = "var_decl" ->
                      n.kids[1] # Null /\ IsPtr(n.type) /\ ~n.const => left # "ptr"
  IN CASE n.kind = "null" -> Dead(n)
       [] n.kind \in {"assign", "var_decl"} -> Out(n, ok, ~ok, FALSE)
       [] OTHER -> Gather(n, [i \in DOMAIN n.kids |-> CheckConsts(n.kids[i])])

RECURSIVE Base(_)
Base(n) == IF n.kind = "var" THEN n ELSE Base(n.kids[1])

(* Broken form of OfParameter: the fields and indices are not passed by.   *)
OfParameterItself(n, params) == n.name \in DOMAIN params

(* checking_params.  The variable an address is taken of is looked up by   *)
(* its name in the map of the parameters; fields and indices are passed by.*)
OfParameter(n, params) == Base(n).name \in DOMAIN params

RECURSIVE CheckParams(_, _)
CheckParams(n, params) ==
  CASE n.kind = "null" -> Dead(n)
    [] n.kind = "unary" /\ n.name = "&" ->
         IF OfParameter(n.kids[1], params) THEN Reported(n) ELSE Fine(n)
    [] OTHER -> Gather(n, [i \in DOMAIN n.kids |-> CheckParams(n.kids[i], params)])

-----------------------------------------------------------------------------
Init ==
  /\ prog \in Programs
  /\ pass = "resolving_name" /\ next = 1
  /\ is_correct = TRUE /\ error = FALSE
  /\ currect_type_func = Unset

(* A declaration has been through a pass: the tree, the record of errors,  *)
(* the verdict with what the declaration adds to it.                       *)
Visited(out, verdict) ==
  /\ prog' = [prog EXCEPT ![next] = out.n]
  /\ error' = (error \/ out.e)
  /\ is_correct' = verdict
  /\ IF out.crash THEN pass' = "crashed" /\ UNCHANGED next
                  ELSE next' = next + 1 /\ UNCHANGED pass

At(p, kinds) == pass = p /\ next <= Len(prog) /\ prog[next].kind \in kinds

Scopes(n) == (IF n.kind = "func" THEN <<ParamMap(n.params)>> ELSE <<>>) \o <<Declared(prog, "global")>>

ResolvingName ==
  /\ At("resolving_name", {"main", "func", "var_decl", "decl"})
  /\ LET out == Resolve(prog[next], Scopes(prog[next]))
     IN Visited(out, is_correct /\ out.ok)
  /\ UNCHANGED currect_type_func

(* The verdict on main takes the place of those before it.                 *)
AnalyzeMain ==
  /\ At("analyze_file", {"main"})
  /\ LET out == Gather(prog[next], <<Line(prog[next].kids[1], currect_type_func)>>)
     IN Visited(out, out.ok)
  /\ UNCHANGED currect_type_func

AnalyzeFunction ==
  /\ At("analyze_file", {"func"})
  /\ currect_type_func' = prog[next].type
  /\ LET out == Gather(prog[next], <<Line(prog[next].kids[1], currect_type_func')>>)
     IN Visited(out, is_correct /\ out.ok)

AnalyzeGlobal ==
  /\ At("analyze_file", {"var_decl", "decl"})
  /\ LET out == IF prog[next].kind = "decl" THEN Fine(prog[next]) ELSE VarDecl(prog[next])
     IN Visited(out, is_correct /\ out.ok)
  /\ UNCHANGED currect_type_func

CheckingConsts ==
  /\ At("checking_consts", {"main", "func", "var_decl", "decl"})
  /\ LET out == CheckConsts(prog[next]) IN Visited(out, is_correct /\ out.ok)
  /\ UNCHANGED currect_type_func

CheckingParams ==
  /\ At("checking_addr_param", {"main", "func", "var_decl", "decl"})
  /\ LET out == IF prog[next].kind # "func" THEN Fine(prog[next])
                ELSE CheckParams(prog[next], ParamMap(prog[next].params))
     IN Visited(out, is_correct /\ out.ok)
  /\ UNCHANGED currect_type_func

(* KTL_AnalysisProcess: a verdict of FALSE ends the analysis.              *)
Following == [resolving_name |-> "analyze_file", analyze_file |-> "checking_consts",
              checking_consts |-> "checking_addr_param", checking_addr_param |-> "returned"]
EndPass ==
  /\ pass \in DOMAIN Following /\ next > Len(prog)
  /\ IF is_correct /\ Following[pass] # "returned"
       THEN pass' = Following[pass] /\ next' = 1
       ELSE pass' = "returned" /\ UNCHANGED next
  /\ UNCHANGED <<prog, is_correct, error, currect_type_func>>

(* compile(): what the analysis answers is not read, only the errors count.*)
Compile ==
  /\ pass = "returned"
  /\ pass' = IF error THEN "rejected" ELSE "accepted"
  /\ UNCHANGED <<prog, next, is_correct, error, currect_type_func>>

Next == ResolvingName \/ AnalyzeMain \/ AnalyzeFunction \/ AnalyzeGlobal
          \/ CheckingConsts \/ CheckingParams \/ EndPass \/ Compile

Spec == Init /\ [][Next]_vars

-----------------------------------------------------------------------------
(* Properties.                                                             *)
RECURSIVE Nodes(_)
Nodes(n) == {n} \cup UNION {Nodes(n.kids[i]) : i \in DOMAIN n.kids}
Tree == UNION {Nodes(prog[i]) : i \in DOMAIN prog}
Call(n) == n.kind \in {"call", "std_call"}

(* No verdict gets lost: compile() reads the error count and not what the  *)
(* analysis returns, so a pass that fails must have reported.  The         *)
(* condition of a for statement is the one place where it does not.        *)
UnreportedFor == \E n \in Tree : n.kind = "for" /\ n.kids[2] # Null /\ ~Call(n.kids[2])
VerdictReported == pass = "accepted" /\ ~UnreportedFor => is_correct

(* The types the language gives expressions, from the declarations alone.  *)
RECURSIVE TypeOf(_)
TypeOf(n) ==
  LET first == TypeOf(n.kids[1])
  IN CASE n.kind \in {"int", "var", "cast"} -> n.type
       [] n.kind = "str" -> Ptr(I8)
       [] Call(n) -> Functions[n.name].ret
       [] n.kind \in {"dot", "arrow"} -> Fields[n.name]
       [] n.kind = "index" -> To(first)
       [] n.kind = "unary" -> IF n.name = "&" THEN Ptr(first)
                              ELSE IF n.name = "deref" THEN To(first) ELSE first
       [] n.kind = "binary" ->
            IF n.name \in AddOps \cup MulOps THEN Larger(first, TypeOf(n.kids[2])) ELSE Bool

Agree(op, a, b) ==
  CASE op \in AddOps  -> ~(IsPtr(a) /\ IsPtr(b)) /\ (IsPtr(a) => b = I64) /\ (IsPtr(b) => a = I64)
    [] op \in MulOps  -> a = b /\ Kind(a) = "base"
    [] op \in CompOps -> Kind(a) = "base" /\ Kind(b) = "base"
    [] op \in LogOps  -> {Kind(a), Kind(b)} \subseteq {"base", "ptr"}

(* What an explicit cast is applied to has not been looked at, and nothing *)
(* is asked of the annotation of a unary operator, which is never set.     *)
RECURSIVE WellTyped(_)
WellTyped(n) ==
  LET first == TypeOf(n.kids[1])
      kids  == \A i \in DOMAIN n.kids : WellTyped(n.kids[i])
  IN CASE n.kind \in {"int", "var", "str"} -> TRUE
       [] n.kind = "cast" -> n.name = "implicit" => kids /\ Widens(n.type, first)
       [] Call(n) ->
            LET params == Functions[n.name].params
            IN /\ kids
               /\ Len(n.kids) = Len(params) \/ (Len(n.kids) > Len(params) /\ Functions[n.name].optional)
               /\ \A i \in DOMAIN n.kids : Kind(TypeOf(n.kids[i])) \notin {"array", "S"}
               /\ \A i \in DOMAIN params : TypeOf(n.kids[i]) = params[i].type
       [] n.kind = "dot"   -> kids /\ first = S /\ n.type = Fields[n.name]
       [] n.kind = "arrow" -> kids /\ first = Ptr(S) /\ n.type = Fields[n.name]
       [] n.kind = "index" -> /\ kids /\ Kind(first) \in {"array", "ptr"} /\ n.type = To(first)
                              /\ Kind(TypeOf(n.kids[2])) = "base"
       [] n.kind = "unary" -> kids /\ (n.name = "deref" => IsPtr(first))
       [] n.kind = "binary" -> kids /\ Agree(n.name, first, TypeOf(n.kids[2])) /\ n.type = TypeOf(n)

RECURSIVE WellFormed(_, _)
WellFormed(n, type) ==
  LET Has(i, t) == WellTyped(n.kids[i]) /\ TypeOf(n.kids[i]) = t
  IN CASE n.kind = "null" -> TRUE
       [] Call(n) -> WellTyped(n)
       [] n.kind = "var_decl" ->
            IF n.kids[1].kind # "array_init" THEN n.kids[1] = Null \/ Has(1, n.type)
            ELSE /\ Kind(n.type) = "array" /\ Len(n.kids[1].kids) = ArrayLen
                 /\ \A i \in 1..ArrayLen : LET e == n.kids[1].kids[i]
                                          IN WellTyped(e) /\ TypeOf(e) = To(n.type)
       [] n.kind = "assign" -> WellTyped(n.kids[1]) /\ Has(2, TypeOf(n.kids[1]))
       [] n.kind \in {"if", "while"} -> WellTyped(n.kids[1]) /\ WellFormed(n.kids[2], type)
       [] n.kind = "for" -> \A i \in {1, 3, 4} : WellFormed(n.kids[i], type)
       [] n.kind = "return" -> IF n.kids[1] = Null THEN type = Void ELSE Has(1, type)
       [] OTHER -> \A i \in DOMAIN n.kids : WellFormed(n.kids[i], type)


(* What the declarations make read-only: the pointers nothing may be       *)
(* written through, and the places nothing may be written to.              *)
RECURSIVE ReadOnlyPointer(_), ReadOnlyPlace(_)
ReadOnlyPointer(n) ==
  CASE n.kind = "var"  -> n.const /\ IsPtr(n.type)
    [] n.kind = "str"  -> TRUE
    [] n.kind = "call" -> Functions[n.name].const /\ IsPtr(Functions[n.name].ret)
    [] n.kind = "cast" -> n.name = "implicit" /\ IsPtr(n.type) /\ ReadOnlyPlace(n.kids[1])
    [] n.kind = "unary" /\ n.name = "&" -> ReadOnlyPlace(n.kids[1])
    [] n.kind = "binary" -> \E i \in DOMAIN n.kids : ReadOnlyPointer(n.kids[i])
    [] OTHER -> FALSE
ReadOnlyPlace(n) ==
  CASE n.kind = "var" -> n.const /\ ~IsPtr(n.type)
    [] n.kind = "dot" -> ReadOnlyPlace(n.kids[1])
    [] n.kind = "index" /\ Kind(TypeOf(n.kids[1])) = "array" -> ReadOnlyPlace(n.kids[1])
    [] n.kind = "index" /\ IsPtr(TypeOf(n.kids[1])) -> ReadOnlyPointer(n.kids[1])
    [] n.kind = "arrow" \/ (n.kind = "unary" /\ n.name = "deref") -> ReadOnlyPointer(n.kids[1])
    [] OTHER -> FALSE

(* The read-only pointers and places is_const takes for others: those got  *)
(* by an address ("value" to is_const) or from an array that becomes a     *)
(* pointer ("mutable"), and the parts of a block or an array ("mutable").  *)
RECURSIVE Overlooked(_)
Overlooked(n) ==
  CASE n.kind \in {"cast", "dot"} \/ (n.kind = "unary" /\ n.name = "&") -> TRUE
    [] n.kind = "index" -> Kind(TypeOf(n.kids[1])) = "array" \/ Overlooked(n.kids[1])
    [] n.kind = "arrow" \/ (n.kind = "unary" /\ n.name = "deref") -> Overlooked(n.kids[1])
    [] n.kind = "binary" ->
         \A i \in DOMAIN n.kids : ReadOnlyPointer(n.kids[i]) => Overlooked(n.kids[i])
    [] OTHER -> FALSE

(* When all the passes have been through, a read-only place is assigned,   *)
(* and a read-only pointer assigned to a plain one or made its first       *)
(* value, only where is_const overlooks it: m = &k with k const            *)
(* (Analysis.cpp 999), p[0].f = v through a const p (1029), the fields and *)
(* elements of const blocks and arrays.  This is about assignments and     *)
(* declarations, which are all checking_consts looks at (894).  Left aside *)
(* is what it lets through besides: a read-only pointer as argument for a  *)
(* plain parameter, returned by a plain function, among the elements in    *)
(* braces, under an explicit cast.                                         *)
ConstKept ==
  pass = "accepted" /\ is_correct =>
    \A n \in Tree :
      /\ n.kind = "assign" =>
           LET l == n.kids[1]
               r == n.kids[2]
           IN /\ ReadOnlyPlace(l) => Overlooked(l)
              /\ ReadOnlyPointer(r) /\ ~ReadOnlyPointer(l) => Overlooked(r)
      /\ n.kind = "var_decl" /\ IsPtr(n.type) /\ ~n.const /\ ReadOnlyPointer(n.kids[1]) =>
           Overlooked(n.kids[1])

(* When all the passes have been through, no function takes the address of *)
(* a parameter, which lives in a register or where the caller put it.      *)
(* What is inside an operand of & is not searched.                         *)
RECURSIVE Searched(_)
Searched(n) ==
  {n} \cup IF n.kind = "unary" /\ n.name = "&" THEN {}
           ELSE UNION {Searched(n.kids[i]) : i \in DOMAIN n.kids}
ParamAddressReported ==
  pass = "accepted" /\ is_correct =>
    \A i \in DOMAIN prog : \A n \in Searched(prog[i]) :
      n.kind = "unary" /\ n.name = "&" => Base(n.kids[1]).of # "param"

(* No error on record, the passes come to their end.                       *)
PassesSurvive == ~(pass = "crashed" /\ ~error)
=============================================================================
