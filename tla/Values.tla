------------------------------- MODULE Values -------------------------------
(***************************************************************************)
(* What the code emitted for an expression leaves in RAX (emit_expr,       *)
(* emit_cast and emit_oper of Backend/GenIR/Backend.cpp), beside what the  *)
(* expression means.                                                       *)
(*                                                                         *)
(* A byte has 2 bits here, so a register has 16.  A place holds any of     *)
(* Words; a load of one or two bytes keeps what was in the rest of RAX,    *)
(* the address: any of Registers.  What a call returns has the same rest.  *)
(***************************************************************************)
EXTENDS Analysis

CONSTANTS Words, Registers

BitsOf(t) == 2 * (IF Kind(t) = "base" THEN Size(t) ELSE 8)
Low(w, bits) == w % 2^bits
Register == 16
Word(v) == Low(v, Register)
SignedOf(w, bits) == IF Low(w, bits) < 2^(bits - 1) THEN Low(w, bits) ELSE Low(w, bits) - 2^bits
Signed64(w) == SignedOf(w, Register)

ASSUME ValuesAssumption == Words \subseteq 0..(2^Register - 1) /\ Registers \subseteq Words

IsPlace(n) == n.kind \in {"var", "index", "dot", "arrow"}
Cells(n) == {x \in Nodes(n) : IsPlace(x) \/ Call(x)}
IsDeref(n) == n.kind = "unary" /\ n.name = "deref"

(* MOV of a place to RAX: four bytes clear the rest, one and two keep it.  *)
Loaded(w, t, rest) ==
  IF BitsOf(t) \in {8, 16} THEN Low(w, BitsOf(t))
                           ELSE rest - Low(rest, BitsOf(t)) + Low(w, BitsOf(t))


(* emit_cast; from one byte to two, the rest of the register stays.        *)
EmitCast(rax, src, dst) ==
  LET scalars  == Kind(src) = "base" /\ Kind(dst) = "base"
      extended == SignedOf(rax, BitsOf(src))
  IN CASE ~scalars \/ src = dst -> rax
       [] scalars /\ src # dst /\ dst = Bool -> IF rax # 0 THEN 1 ELSE 0
       [] scalars /\ src # dst /\ dst # Bool ->
            IF Size(dst) <= Size(src) THEN rax
            ELSE IF Size(dst) = 2 THEN rax - Low(rax, 4) + Low(extended, 4) ELSE Word(extended)

(* The type emit_expr takes what it casts to have.                         *)
Source(n, target) ==
  IF IsPlace(n) \/ n.kind \in {"int", "binary", "unary", "cast"} THEN n.type ELSE target

(* Division towards zero.                                                  *)
Quotient(a, b) ==
  LET q == (IF a < 0 THEN -a ELSE a) \div (IF b < 0 THEN -b ELSE b)
  IN IF (a < 0) = (b < 0) THEN q ELSE -q

(* CQO runs while RAX holds the divisor: the upper half of the dividend is *)
(* the sign of the divisor.                                                *)
Divided(op, l, r) ==
  LET dividend == IF Signed64(r) < 0 THEN l - 2^Register ELSE l
      q == Quotient(dividend, Signed64(r))
  IN IF op = "/" THEN Word(q) ELSE Word(dividend - q * Signed64(r))

(* emit_oper; a dereference is not loaded from.                            *)
RECURSIVE Rax(_, _, _)
Rax(n, m, rest) ==
  LET l == Rax(n.kids[1], m, rest)
      r == Rax(n.kids[2], m, rest)
  IN CASE n.kind = "int" -> Word(n.value)
       [] n.kind = "str" -> rest
       [] IsPlace(n) -> IF Kind(n.type) \in {"base", "ptr"} THEN Loaded(m[n], n.type, rest) ELSE rest
       [] Call(n) -> rest - Low(rest, BitsOf(TypeOf(n))) + Low(m[n], BitsOf(TypeOf(n)))
       [] n.kind = "cast" -> EmitCast(l, Source(n.kids[1], n.type), n.type)
       [] n.kind = "unary" -> IF n.name = "neg" THEN Word(-l)
                              ELSE IF n.name = "deref" THEN l ELSE rest
       [] n.kind = "binary" ->
            CASE n.name = "+" -> Word(l + r)
              [] n.name = "-" -> Word(l - r)
              [] n.name = "*" -> Word(Signed64(l) * Signed64(r))
              [] n.name \in {"/", "%"} -> Divided(n.name, l, r)
              [] n.name = "<" -> IF Signed64(l) < Signed64(r) THEN 1 ELSE 0
              [] n.name = "==" -> IF l = r THEN 1 ELSE 0
              [] n.name = "and" -> IF l = 0 THEN l ELSE r
              [] n.name = "or" -> IF l = 0 THEN r ELSE l

-----------------------------------------------------------------------------
(* Properties.                                                             *)
(* What an expression means: integers, wrapped to the width of its type.   *)
RECURSIVE Meaning(_, _)
Meaning(n, m) ==
  LET a == Meaning(n.kids[1], m)
      b == Meaning(n.kids[2], m)
      Wrapped(v) == SignedOf(v, BitsOf(TypeOf(n)))
  IN CASE n.kind = "int" -> Wrapped(n.value)
       [] IsPlace(n) \/ Call(n) -> Wrapped(m[n])
       [] n.kind = "cast" -> IF n.type # Bool THEN Wrapped(a) ELSE IF a # 0 THEN 1 ELSE 0
       [] n.kind = "unary" -> Wrapped(-a)
       [] n.kind = "binary" ->
            CASE n.name = "+" -> Wrapped(a + b)
              [] n.name = "-" -> Wrapped(a - b)
              [] n.name = "*" -> Wrapped(a * b)
              [] n.name = "/" -> Quotient(a, b)
              [] n.name = "%" -> a - b * Quotient(a, b)
              [] n.name = "<" -> IF a < b THEN 1 ELSE 0
              [] n.name = "==" -> IF a = b THEN 1 ELSE 0

(* A cast that reads an annotation nothing has set, which is that of bool: *)
(* of a unary operator, or of anything below an explicit cast (there the   *)
(* loads of fields and elements read theirs too).                          *)
ReadsUnset(n) ==
  \/ n.kids[1].kind = "unary"
  \/ /\ n.name # "implicit"
     /\ \E x \in Nodes(n.kids[1]) :
          x.kind \in {"dot", "arrow", "index"} \/ (x.kind = "binary" /\ x.name \notin CompOps)

(* The expressions whose bytes come out right, and those that come out     *)
(* right in the whole of RAX.  Left aside are the places where they do     *)
(* not: casts that read an annotation nothing has set (fields, elements,   *)
(* sums and products below an explicit cast, a unary operator below any    *)
(* cast), a call to be widened or cast to bool, a cast to bool that tests  *)
(* more of RAX than the operand is right in, operands narrower than a sum  *)
(* or a comparison, and, or, a dereference, division of or by what is      *)
(* negative.                                                               *)
RECURSIVE BytesRight(_, _), AllRight(_, _)
BytesRight(n, m) ==
  LET l == n.kids[1]
      r == n.kids[2]
      Part(x) == AllRight(x, m) \/ (BytesRight(x, m) /\ Size(TypeOf(x)) = Size(TypeOf(n)))
  IN CASE n.kind = "int" -> TRUE
       [] IsPlace(n) -> Kind(TypeOf(n)) = "base"
       [] Call(n) -> Kind(TypeOf(n)) = "base"
       [] n.kind = "cast" ->
            /\ ~ReadsUnset(n)
            /\ Kind(TypeOf(l)) = "base" /\ BytesRight(l, m)
            /\ n.type = Bool =>
                 AllRight(l, m) \/ TypeOf(l) = Bool \/ (IsPlace(l) /\ Size(TypeOf(l)) = 4)
            /\ Call(l) => n.type # Bool /\ Size(n.type) <= Size(TypeOf(l))
       [] n.kind = "unary" -> n.name = "neg" /\ BytesRight(l, m)
       [] n.kind = "binary" ->
           (CASE n.name \in AddOps -> Kind(TypeOf(n)) = "base" /\ Part(l) /\ Part(r)
              [] n.name = "*" -> BytesRight(l, m) /\ BytesRight(r, m) /\ TypeOf(l) = TypeOf(r)
              [] n.name \in {"/", "%"} -> /\ AllRight(l, m) /\ AllRight(r, m) /\ TypeOf(l) = TypeOf(r)
                                          /\ Meaning(l, m) >= 0 /\ Meaning(r, m) > 0
              [] n.name \in CompOps -> AllRight(l, m) /\ AllRight(r, m)
              [] n.name \in LogOps -> FALSE)
       [] OTHER -> FALSE
AllRight(n, m) ==
  /\ BytesRight(n, m)
  /\ \/ n.kind = "int" \/ BitsOf(TypeOf(n)) = Register
     \/ n.kind = "binary" /\ n.name \in CompOps
     \/ n.kind = "cast" /\ n.type = Bool /\ TypeOf(n.kids[1]) # Bool
     \/ n.kind = "cast" /\ Size(n.type) >= 4 /\ Size(n.type) > Size(TypeOf(n.kids[1]))
          /\ ~Call(n.kids[1])

Memories(e) == {m \in [Cells(e) -> Words] : \A c \in Cells(e) : TypeOf(c) = Bool => m[c] \in {0, 1}}

(* The values main and the functions store, and those they return.         *)
Stored(n) ==
  CASE n.kind = "assign" -> {n.kids[2]}
    [] n.kind \in {"var_decl", "return"} ->
         IF n.kids[1].kind = "array_init" THEN {n.kids[1].kids[i] : i \in DOMAIN n.kids[1].kids}
                                          ELSE {n.kids[1]} \ {Null}
    [] OTHER -> {}

=============================================================================
