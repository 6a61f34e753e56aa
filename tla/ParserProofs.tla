---------------------------- MODULE ParserProofs ----------------------------
(***************************************************************************)
(* Proofs about the parser, for any set of tokens, any names of functions, *)
(* any size of the array of parameters and nesting of any depth.           *)
(*                                                                         *)
(* The steps fall into classes by what may stand above what in todo: only  *)
(* the type and the name of a parameter are read between parse_param and   *)
(* the insertion of that parameter, only statements inside a body, and     *)
(* nothing of the file while a scope is open.                              *)
(***************************************************************************)
EXTENDS Parser, TLAPS, NaturalsInduction, WellFoundedInduction, SequenceTheorems

(* Tokens a statement reads that must stand in a loop or a function.       *)
Strays == {"break", "continue", "return"}

(* Steps that say something about what is below them in todo.              *)
Loops  == {"loop_depth--"}
Scopes == {"leave_block", "leave_for", "leave_param"}
Bodies == {"in_func=prev_in_func"}
Params == {"parse_param", "param"}

(* What may stand above y.                                                 *)
MayStand(x, y) ==
  /\ y \in Params => x \in TypeSteps
  /\ y \in Bodies => x \in BodySteps
  /\ y \in Scopes => x \in InnerSteps

Under(x, s) == \A i \in 1 .. Len(s) : MayStand(x, s[i])
Shaped(s)   == \A i \in 1 .. Len(s) : \A j \in 1 .. i - 1 : MayStand(s[j], s[i])

(* The call of ktl_parse_file is at the bottom.                            *)
Rest(s) == s \in Seq(Steps) /\ Shaped(s) /\ (Len(s) > 0 => s[Len(s)] = "parse_file")
Good(s) == Rest(s) /\ Len(s) > 0

Has(s, S) == \E i \in 1 .. Len(s) : s[i] \in S

(* The scopes hang on one another like the constructs, and each call keeps *)
(* the length of the chain before its own.                                 *)
ScopesFit(s) ==
  LET open == Pending(s, Scopes)
  IN  /\ Len(current_scope) = Len(open) + 1 /\ Len(prev_scope) = Len(open)
      /\ \A i \in 1 .. Len(open) : prev_scope[i] = i /\ open[i] = Leaving[current_scope[i + 1]]

(* Functions do not nest, so there is one body at most to come back from.  *)
FuncFits(s) ==
  /\ in_func <=> Has(s, Bodies)
  /\ Has(s, Bodies) => ~prev_in_func
  /\ Has(s, Params) => param_count < MaxParams

(* The context is the one the calls in s expect.                           *)
Fits(s) == loop_depth = Len(Pending(s, Loops)) /\ ScopesFit(s) /\ FuncFits(s)

(* A break, continue or return is read next, or after its diagnostic; if   *)
(* it stands in no loop or function, that diagnostic is on record.         *)
StrayInv ==
  /\ \A i \in 1 .. Len(todo) :
       /\ todo[i] = "parse_break" => i = 1
       /\ todo[i] \in Strays => i = 1 \/ (i = 2 /\ todo[1] = "diag")
  /\ todo[1] = "parse_break" => tok \in {"break", "continue"}
  /\ todo[1] \in {"break", "continue"} => errors \/ loop_depth # 0
  /\ todo[1] = "return" => errors \/ in_func

TypeOk ==
  /\ tok \in Tokens
  /\ current_scope \in Seq({"global", "param", "for", "block"})
  /\ prev_scope \in Seq(Nat)
  /\ in_func \in BOOLEAN /\ prev_in_func \in BOOLEAN /\ main_seen \in BOOLEAN /\ errors \in BOOLEAN
  /\ funcs \in [FuncNames -> {"none", "declared", "params", "std", "dangling"}]
  /\ mod \subseteq {"const", "mutable"} /\ func \in FuncNames
  /\ param_count \in 0 .. MaxParams
  /\ status \in {"parsing", "done", "crashed"}

IInv == TypeOk /\ Good(todo) /\ Fits(todo) /\ StrayInv

-----------------------------------------------------------------------------
(***************************************************************************)
(* Induction and recursion over the natural numbers                        *)
(***************************************************************************)
LEMMA LeastNat ==
  ASSUME NEW T \in SUBSET Nat, T # {}
  PROVE  \E x \in T : \A y \in T : x <= y
<1>1. IsWellFoundedOn(OpToRel(<, Nat), Nat)
  BY NatLessThanWellFounded
<1>2. PICK x \in T : \A y \in T : <<y, x>> \notin OpToRel(<, Nat)
  BY <1>1, WFMin
<1>3. \A y \in T : ~(y < x)
  BY <1>2, Zenon DEF OpToRel
<1> QED
  BY <1>3

(* Induction up to N: what holds of 0 and goes on from n - 1 to n.         *)
LEMMA UpTo ==
  ASSUME NEW N \in Nat, NEW T, 0 \in T, \A n \in 1 .. N : n - 1 \in T => n \in T
  PROVE  \A n \in 0 .. N : n \in T
<1> DEFINE B == {n \in 0 .. N : n \notin T}
<1>1. SUFFICES ASSUME B # {} PROVE FALSE
  OBVIOUS
<1>2. PICK n \in B : \A m \in B : n <= m
  <2>1. B \in SUBSET Nat /\ B # {}
    BY <1>1
  <2> HIDE DEF B
  <2> QED
    BY <2>1, LeastNat
<1>3. n \in 1 .. N /\ n - 1 \in 0 .. N /\ n - 1 \notin B
  BY <1>2
<1> QED
  BY <1>2, <1>3

(* The functions defined by recursion up to N: step_ is what one value     *)
(* becomes at n.  There is one.                                            *)
Recursive(N, S, base, step_) ==
  {g \in [0 .. N -> S] :
     \A n \in 0 .. N : g[n] = IF n = 0 THEN base ELSE step_[<<g[n - 1], n>>]}

LEMMA Recursion ==
  ASSUME NEW N \in Nat, NEW S, NEW base \in S, NEW step_ \in [S \X (1 .. N) -> S]
  PROVE  Recursive(N, S, base, step_) # {}
<1> DEFINE T == {m \in 0 .. N : \E g \in [0 .. m -> S] :
                   \A n \in 0 .. m : g[n] = IF n = 0 THEN base ELSE step_[<<g[n - 1], n>>]}
<1>1. 0 \in T
  <2> DEFINE g == [n \in 0 .. 0 |-> base]
  <2>1. g \in [0 .. 0 -> S] /\ \A n \in 0 .. 0 : n = 0 /\ g[n] = base
    OBVIOUS
  <2> HIDE DEF g
  <2>2. \A n \in 0 .. 0 : g[n] = IF n = 0 THEN base ELSE step_[<<g[n - 1], n>>]
    BY <2>1
  <2> QED
    BY <2>1, <2>2
<1>2. ASSUME NEW m \in 1 .. N, m - 1 \in T PROVE m \in T
  <2>1. PICK g \in [0 .. m - 1 -> S] :
          \A n \in 0 .. m - 1 : g[n] = IF n = 0 THEN base ELSE step_[<<g[n - 1], n>>]
    BY <1>2
  <2> DEFINE h == [n \in 0 .. m |-> IF n = m THEN step_[<<g[m - 1], m>>] ELSE g[n]]
  <2>2. m - 1 \in 0 .. m - 1 /\ \A n \in 0 .. m : n # m => n \in 0 .. m - 1
    OBVIOUS
  <2>3. h \in [0 .. m -> S]
    BY <2>2
  <2>4. \A n \in 0 .. m : h[n] = IF n = 0 THEN base ELSE step_[<<h[n - 1], n>>]
    <3> TAKE n \in 0 .. m
    <3>1. CASE n = m
      BY <2>2, <3>1
    <3>2. CASE n # m
      <4>1. n \in 0 .. m - 1 /\ h[n] = g[n] /\ (n # 0 => h[n - 1] = g[n - 1])
        BY <2>2, <3>2
      <4> QED
        BY <2>1, <4>1
    <3> QED
      BY <3>1, <3>2
  <2> HIDE DEF h
  <2> QED
    BY <2>3, <2>4
<1>3. N \in T
  <2> HIDE DEF T
  <2> QED
    BY <1>1, <1>2, UpTo
<1> QED
  BY <1>3 DEF Recursive


-----------------------------------------------------------------------------
(***************************************************************************)
(* Sequences                                                               *)
(***************************************************************************)
LEMMA ConcatFacts ==
  ASSUME NEW S, NEW s \in Seq(S), NEW t \in Seq(S)
  PROVE  /\ s \o t \in Seq(S) /\ Len(s) \in Nat /\ Len(t) \in Nat
         /\ Len(s \o t) = Len(s) + Len(t)
         /\ DOMAIN s = 1 .. Len(s) /\ DOMAIN t = 1 .. Len(t)
         /\ DOMAIN (s \o t) = 1 .. Len(s) + Len(t)
         /\ \A i \in 1 .. Len(s) : (s \o t)[i] = s[i]
         /\ \A i \in 1 .. Len(t) : (s \o t)[Len(s) + i] = t[i]
OBVIOUS

LEMMA AppendFacts ==
  ASSUME NEW S, NEW s \in Seq(S), NEW e \in S
  PROVE  /\ Append(s, e) \in Seq(S) /\ Len(s) \in Nat
         /\ Len(Append(s, e)) = Len(s) + 1
         /\ DOMAIN s = 1 .. Len(s) /\ DOMAIN Append(s, e) = 1 .. Len(s) + 1
         /\ \A i \in 1 .. Len(s) : Append(s, e)[i] = s[i]
         /\ Append(s, e)[Len(s) + 1] = e
OBVIOUS

LEMMA TailFacts ==
  ASSUME NEW S, NEW s \in Seq(S), Len(s) > 0
  PROVE  /\ Tail(s) \in Seq(S) /\ Len(s) \in Nat /\ Len(Tail(s)) = Len(s) - 1
         /\ DOMAIN s = 1 .. Len(s) /\ DOMAIN Tail(s) = 1 .. Len(s) - 1
         /\ \A i \in 1 .. Len(s) - 1 : Tail(s)[i] = s[i + 1]
         /\ Head(s) = s[1] /\ Head(s) \in S
         /\ s = <<Head(s)>> \o Tail(s)
<1>1. Head(s) \in S /\ Head(s) = s[1]
  OBVIOUS
<1>2. s = <<Head(s)>> \o Tail(s)
  BY HeadTailProperties, SeqEqual, <1>1
<1> QED
  BY <1>1, <1>2

LEMMA ElementFacts ==
  ASSUME NEW S, NEW s \in Seq(S)
  PROVE  Len(s) \in Nat /\ DOMAIN s = 1 .. Len(s) /\ \A i \in 1 .. Len(s) : s[i] \in S
OBVIOUS

LEMMA PrefixFacts ==
  ASSUME NEW S, NEW s \in Seq(S), NEW n \in Nat, n <= Len(s)
  PROVE  /\ SubSeq(s, 1, n) \in Seq(S) /\ Len(SubSeq(s, 1, n)) = n
         /\ \A i \in 1 .. n : SubSeq(s, 1, n)[i] = s[i]
OBVIOUS

(* What two calls leave to do is what is below both.                       *)
LEMMA BelowTwo ==
  ASSUME NEW S, NEW s \in Seq(S), Len(s) > 1
  PROVE  SubSeq(s, 3, Len(s)) = Tail(Tail(s))
OBVIOUS

-----------------------------------------------------------------------------
(***************************************************************************)
(* What is pending                                                         *)
(***************************************************************************)
(* The recursive function exists, so it is what its equation says.         *)
LEMMA FoundFacts ==
  ASSUME NEW T, NEW s \in Seq(T), NEW S
  PROVE  /\ Found(s, S) \in [0 .. Len(s) -> Seq(S)]
         /\ Found(s, S)[0] = <<>>
         /\ \A n \in 1 .. Len(s) :
              Found(s, S)[n] = IF s[Len(s) + 1 - n] \in S
                               THEN Append(Found(s, S)[n - 1], s[Len(s) + 1 - n])
                               ELSE Found(s, S)[n - 1]
<1> DEFINE N == Len(s)
           f == Found(s, S)
           F == [x \in Seq(S) \X (1 .. N) |->
                   IF s[N + 1 - x[2]] \in S THEN Append(x[1], s[N + 1 - x[2]]) ELSE x[1]]
<1>1. N \in Nat /\ <<>> \in Seq(S)
  OBVIOUS
<1> HIDE DEF N
<1>2. F \in [Seq(S) \X (1 .. N) -> Seq(S)]
  <2>1. \A a \in Seq(S), n \in 1 .. N :
          (IF s[N + 1 - n] \in S THEN Append(a, s[N + 1 - n]) ELSE a) \in Seq(S)
    OBVIOUS
  <2> QED
    BY <2>1
<1>3. \A a \in Seq(S), n \in 1 .. N :
        F[<<a, n>>] = IF s[N + 1 - n] \in S THEN Append(a, s[N + 1 - n]) ELSE a
  OBVIOUS
<1> HIDE DEF F
<1>4. PICK g \in Recursive(N, Seq(S), <<>>, F) : TRUE
  <2>1. Recursive(N, Seq(S), <<>>, F) # {}
    BY <1>1, <1>2, Recursion, Zenon
  <2> QED
    BY <2>1
<1>5. /\ g \in [0 .. N -> Seq(S)]
      /\ \A n \in 0 .. N : g[n] = IF n = 0 THEN <<>> ELSE F[<<g[n - 1], n>>]
  BY <1>4 DEF Recursive
<1>6. \A n \in 0 .. N : n # 0 => n \in 1 .. N /\ n - 1 \in 0 .. N /\ g[n - 1] \in Seq(S)
  BY <1>1, <1>5
<1>7. g = [n \in 0 .. N |->
             IF n = 0 THEN <<>>
             ELSE IF s[N + 1 - n] \in S THEN Append(g[n - 1], s[N + 1 - n]) ELSE g[n - 1]]
  <2>1. \A n \in 0 .. N :
          g[n] = IF n = 0 THEN <<>>
                 ELSE IF s[N + 1 - n] \in S THEN Append(g[n - 1], s[N + 1 - n]) ELSE g[n - 1]
    BY <1>3, <1>5, <1>6
  <2> QED
    BY <1>5, <2>1
<1>8. f = [n \in 0 .. N |->
             IF n = 0 THEN <<>>
             ELSE IF s[N + 1 - n] \in S THEN Append(f[n - 1], s[N + 1 - n]) ELSE f[n - 1]]
  BY <1>7 DEF Found, N
<1> HIDE DEF f
<1>9. f[0] = <<>> /\ DOMAIN f = 0 .. N
  BY <1>1, <1>8
<1>10. \A n \in 1 .. N : n \in 0 .. N /\ n # 0 /\ n - 1 \in 0 .. N
  BY <1>1
<1>11. \A n \in 1 .. N :
         f[n] = IF s[N + 1 - n] \in S THEN Append(f[n - 1], s[N + 1 - n]) ELSE f[n - 1]
  BY <1>8, <1>10
<1> DEFINE U == {n \in 0 .. N : f[n] \in Seq(S)}
<1>12. 0 \in U
  BY <1>1, <1>9
<1>13. \A n \in 1 .. N : n - 1 \in U => n \in U
  <2>1. ASSUME NEW n \in 1 .. N, n - 1 \in U PROVE n \in U
    <3>1. PICK a \in Seq(S) : a = f[n - 1]
      BY <2>1
    <3>2. f[n] = IF s[N + 1 - n] \in S THEN Append(a, s[N + 1 - n]) ELSE a
      BY <1>11, <3>1
    <3>3. f[n] \in Seq(S)
      BY <3>1, <3>2
    <3> QED
      BY <1>10, <3>3
  <2> QED
    BY <2>1, Zenon
<1>14. \A n \in 0 .. N : n \in U
  <2> HIDE DEF U
  <2> QED
    BY <1>1, <1>12, <1>13, UpTo, Zenon
<1>15. f \in [0 .. N -> Seq(S)]
  BY <1>8, <1>14
<1> QED
  BY <1>9, <1>11, <1>15 DEF f, N


LEMMA PendingSeq ==
  ASSUME NEW T, NEW s \in Seq(T), NEW S
  PROVE  Pending(s, S) \in Seq(S)
<1>1. Len(s) \in Nat /\ Len(s) \in 0 .. Len(s)
  OBVIOUS
<1> QED
  BY <1>1, FoundFacts DEF Pending

(* What is at the bottom does not depend on what is put above it.          *)
LEMMA FoundBelow ==
  ASSUME NEW T, NEW d \in Seq(T), NEW t \in Seq(T), NEW S
  PROVE  \A n \in 0 .. Len(t) : Found(d \o t, S)[n] = Found(t, S)[n]
<1> DEFINE f == Found(d \o t, S)
           g == Found(t, S)
           U == {n \in 0 .. Len(t) : f[n] = g[n]}
<1>1. /\ d \o t \in Seq(T) /\ Len(d) \in Nat /\ Len(t) \in Nat
      /\ Len(d \o t) = Len(d) + Len(t)
      /\ \A i \in 1 .. Len(t) : (d \o t)[Len(d) + i] = t[i]
  BY ConcatFacts
<1>2. /\ f[0] = <<>>
      /\ \A n \in 1 .. Len(d) + Len(t) :
           f[n] = IF (d \o t)[Len(d) + Len(t) + 1 - n] \in S
                  THEN Append(f[n - 1], (d \o t)[Len(d) + Len(t) + 1 - n]) ELSE f[n - 1]
  <2>1. PICK o \in Seq(T) : o = d \o t
    BY <1>1
  <2>2. /\ Found(o, S)[0] = <<>>
        /\ \A n \in 1 .. Len(o) :
             Found(o, S)[n] = IF o[Len(o) + 1 - n] \in S
                              THEN Append(Found(o, S)[n - 1], o[Len(o) + 1 - n])
                              ELSE Found(o, S)[n - 1]
    BY FoundFacts
  <2> QED
    BY <1>1, <2>1, <2>2
<1>3. /\ g[0] = <<>>
      /\ \A n \in 1 .. Len(t) :
           g[n] = IF t[Len(t) + 1 - n] \in S THEN Append(g[n - 1], t[Len(t) + 1 - n]) ELSE g[n - 1]
  BY FoundFacts
<1> HIDE DEF f, g
<1>4. 0 \in U
  BY <1>1, <1>2, <1>3
<1>5. \A n \in 1 .. Len(t) : n - 1 \in U => n \in U
  <2>1. ASSUME NEW n \in 1 .. Len(t), n - 1 \in U PROVE n \in U
    <3>1. /\ n \in 1 .. Len(d) + Len(t) /\ Len(t) + 1 - n \in 1 .. Len(t)
          /\ Len(d) + Len(t) + 1 - n = Len(d) + (Len(t) + 1 - n)
      BY <1>1
    <3>2. (d \o t)[Len(d) + Len(t) + 1 - n] = t[Len(t) + 1 - n]
      BY <1>1, <3>1
    <3>3. f[n] = g[n]
      BY <1>2, <1>3, <2>1, <3>1, <3>2
    <3> QED
      BY <1>1, <3>3
  <2> QED
    BY <2>1, Zenon
<1>6. \A n \in 0 .. Len(t) : n \in U
  <2> HIDE DEF U
  <2> QED
    BY <1>1, <1>4, <1>5, UpTo, Zenon
<1> QED
  BY <1>6 DEF f, g

(* What is put above adds nothing, unless it is in S.                      *)
LEMMA PendingCalm ==
  ASSUME NEW T, NEW d \in Seq(T), NEW t \in Seq(T), NEW S, \A i \in 1 .. Len(d) : d[i] \notin S
  PROVE  Pending(d \o t, S) = Pending(t, S)
<1> DEFINE f == Found(d \o t, S)
           U == {n \in 0 .. Len(d) : f[Len(t) + n] = f[Len(t)]}
<1>1. /\ d \o t \in Seq(T) /\ Len(d) \in Nat /\ Len(t) \in Nat
      /\ Len(d \o t) = Len(d) + Len(t)
      /\ \A i \in 1 .. Len(d) : (d \o t)[i] = d[i]
  BY ConcatFacts
<1>2. \A n \in 1 .. Len(d) + Len(t) :
        f[n] = IF (d \o t)[Len(d) + Len(t) + 1 - n] \in S
               THEN Append(f[n - 1], (d \o t)[Len(d) + Len(t) + 1 - n]) ELSE f[n - 1]
  <2>1. PICK o \in Seq(T) : o = d \o t
    BY <1>1
  <2>2. \A n \in 1 .. Len(o) :
          Found(o, S)[n] = IF o[Len(o) + 1 - n] \in S
                           THEN Append(Found(o, S)[n - 1], o[Len(o) + 1 - n])
                           ELSE Found(o, S)[n - 1]
    BY FoundFacts
  <2> QED
    BY <1>1, <2>1, <2>2
<1> HIDE DEF f
<1>3. 0 \in U
  BY <1>1
<1>4. \A n \in 1 .. Len(d) : n - 1 \in U => n \in U
  <2>1. ASSUME NEW n \in 1 .. Len(d), n - 1 \in U PROVE n \in U
    <3>1. /\ Len(t) + n \in 1 .. Len(d) + Len(t) /\ Len(d) + 1 - n \in 1 .. Len(d)
          /\ Len(d) + Len(t) + 1 - (Len(t) + n) = Len(d) + 1 - n
          /\ Len(t) + n - 1 = Len(t) + (n - 1)
      BY <1>1
    <3>2. (d \o t)[Len(d) + 1 - n] \notin S
      BY <1>1, <3>1
    <3>3. f[Len(t) + n] = f[Len(t) + (n - 1)]
      BY <1>2, <3>1, <3>2
    <3> QED
      BY <1>1, <2>1, <3>3
  <2> QED
    BY <2>1, Zenon
<1>5. \A n \in 0 .. Len(d) : n \in U
  <2> HIDE DEF U
  <2> QED
    BY <1>1, <1>3, <1>4, UpTo, Zenon
<1>6. f[Len(d) + Len(t)] = f[Len(t)]
  <2>1. Len(d) \in 0 .. Len(d) /\ Len(t) + Len(d) = Len(d) + Len(t)
    BY <1>1
  <2> QED
    BY <1>5, <2>1
<1>7. f[Len(t)] = Found(t, S)[Len(t)]
  <2>1. Len(t) \in 0 .. Len(t)
    BY <1>1
  <2> QED
    BY <2>1, FoundBelow DEF f
<1> QED
  BY <1>1, <1>6, <1>7 DEF Pending, f

LEMMA PendingOne ==
  ASSUME NEW T, NEW h \in T, NEW t \in Seq(T), NEW S, h \in S
  PROVE  Pending(<<h>> \o t, S) = Append(Pending(t, S), h)
<1> DEFINE d == <<h>>
           f == Found(d \o t, S)
<1>1. d \in Seq(T) /\ Len(d) = 1 /\ d[1] = h
  OBVIOUS
<1> HIDE DEF d
<1>2. /\ d \o t \in Seq(T) /\ Len(t) \in Nat /\ Len(d \o t) = 1 + Len(t) /\ (d \o t)[1] = h
  BY <1>1, ConcatFacts
<1>3. f[Len(t) + 1] = Append(f[Len(t)], h)
  <2>1. /\ Len(t) + 1 \in 1 .. 1 + Len(t) /\ 1 + Len(t) + 1 - (Len(t) + 1) = 1
        /\ Len(t) + 1 - 1 = Len(t)
    BY <1>2
  <2>2. PICK o \in Seq(T) : o = d \o t
    BY <1>2
  <2>3. Found(o, S)[Len(t) + 1] = Append(Found(o, S)[Len(t)], o[1])
    <3>1. Len(o) = 1 + Len(t) /\ o[1] \in S
      BY <1>2, <2>2
    <3>2. \A n \in 1 .. Len(o) :
            Found(o, S)[n] = IF o[Len(o) + 1 - n] \in S
                             THEN Append(Found(o, S)[n - 1], o[Len(o) + 1 - n])
                             ELSE Found(o, S)[n - 1]
      BY FoundFacts
    <3>3. PICK n \in Nat : n = Len(t) + 1
      BY <1>2
    <3>4. n \in 1 .. Len(o) /\ Len(o) + 1 - n = 1 /\ n - 1 = Len(t)
      BY <1>2, <3>1, <3>3
    <3>5. Found(o, S)[n] = IF o[1] \in S THEN Append(Found(o, S)[Len(t)], o[1])
                           ELSE Found(o, S)[Len(t)]
      BY <3>2, <3>4
    <3> QED
      BY <3>1, <3>3, <3>5
  <2> QED
    BY <1>2, <2>2, <2>3
<1>4. f[Len(t)] = Found(t, S)[Len(t)]
  <2>1. Len(t) \in 0 .. Len(t)
    BY <1>2
  <2> QED
    BY <1>1, <2>1, FoundBelow
<1>5. Len(t) + 1 = 1 + Len(t)
  BY <1>2
<1> QED
  BY <1>2, <1>3, <1>4, <1>5 DEF Pending, d

LEMMA PendingTail ==
  ASSUME NEW T, NEW s \in Seq(T), Len(s) > 0, NEW S
  PROVE  Pending(s, S) = IF Head(s) \in S THEN Append(Pending(Tail(s), S), Head(s))
                         ELSE Pending(Tail(s), S)
<1>1. Head(s) \in T /\ Tail(s) \in Seq(T) /\ s = <<Head(s)>> \o Tail(s)
  BY TailFacts
<1>2. CASE Head(s) \in S
  BY <1>1, <1>2, PendingOne
<1>3. CASE Head(s) \notin S
  <2>1. PICK d : d = <<Head(s)>>
    OBVIOUS
  <2>2. d \in Seq(T) /\ \A i \in 1 .. Len(d) : d[i] \notin S
    BY <1>1, <1>3, <2>1
  <2>3. Pending(d \o Tail(s), S) = Pending(Tail(s), S)
    BY <1>1, <2>2, PendingCalm
  <2> QED
    BY <1>1, <1>3, <2>1, <2>3
<1> QED
  BY <1>2, <1>3

(* A last step that undoes something stands above what was there before.   *)
LEMMA LastStep ==
  ASSUME NEW d \in Seq(Steps), NEW t \in Seq(Steps), NEW h \in Steps
  PROVE  \E o \in Seq(Steps) : o = <<h>> \o t /\ Append(d, h) \o t = d \o o
<1>1. <<h>> \in Seq(Steps)
  OBVIOUS
<1>2. Append(d, h) = d \o <<h>>
  BY AppendIsConcat
<1>3. (d \o <<h>>) \o t = d \o (<<h>> \o t)
  BY <1>1, ConcatAssociative
<1>4. PICK o : o = <<h>> \o t
  OBVIOUS
<1>5. o \in Seq(Steps)
  BY <1>1, <1>4, ConcatFacts
<1> QED
  BY <1>2, <1>3, <1>4, <1>5

-----------------------------------------------------------------------------
(***************************************************************************)
(* Putting steps above others                                              *)
(***************************************************************************)
LEMMA SplitRest ==
  ASSUME NEW s, Good(s), Head(s) # "parse_file"
  PROVE  Good(Tail(s)) /\ Under(Head(s), Tail(s))
<1>1. s \in Seq(Steps) /\ Shaped(s) /\ Len(s) > 0 /\ s[Len(s)] = "parse_file"
  BY DEF Good, Rest
<1>2. PICK t \in Seq(Steps) : t = Tail(s)
  BY <1>1, TailFacts
<1>3. /\ Len(s) \in Nat /\ Len(t) = Len(s) - 1
      /\ \A i \in 1 .. Len(t) : t[i] = s[i + 1]
      /\ Head(s) = s[1]
  BY <1>1, <1>2, TailFacts
<1>4. Len(s) > 1
  BY <1>1, <1>3
<1>5. t[Len(t)] = "parse_file" /\ Len(t) > 0
  BY <1>1, <1>3, <1>4
<1>6. Shaped(t)
  <2>1. \A i \in 1 .. Len(t) : i + 1 \in 1 .. Len(s) /\ \A j \in 1 .. i - 1 : j \in 1 .. Len(t) /\ j + 1 \in 1 .. i + 1 - 1
    BY <1>3
  <2> QED
    BY <1>1, <1>3, <2>1 DEF Shaped
<1>7. Under(Head(s), t)
  <2>1. \A i \in 1 .. Len(t) : i + 1 \in 1 .. Len(s) /\ 1 \in 1 .. i + 1 - 1
    BY <1>3
  <2> QED
    BY <1>1, <1>3, <2>1 DEF Shaped, Under
<1> QED
  BY <1>2, <1>5, <1>6, <1>7 DEF Good, Rest

LEMMA JoinRest ==
  ASSUME NEW d \in Seq(Steps), NEW t, Rest(t), Shaped(d), \A i \in 1 .. Len(d) : Under(d[i], t),
         Len(t) = 0 => Len(d) > 0 /\ d[Len(d)] = "parse_file"
  PROVE  Good(d \o t)
<1>1. t \in Seq(Steps) /\ Shaped(t) /\ (Len(t) > 0 => t[Len(t)] = "parse_file")
  BY DEF Rest
<1>2. PICK o \in Seq(Steps) : o = d \o t
  BY <1>1, ConcatFacts
<1>3. /\ Len(d) \in Nat /\ Len(t) \in Nat /\ Len(o) = Len(d) + Len(t)
      /\ \A i \in 1 .. Len(d) : o[i] = d[i]
      /\ \A i \in 1 .. Len(t) : o[Len(d) + i] = t[i]
  BY <1>1, <1>2, ConcatFacts
<1>4. o[Len(o)] = "parse_file" /\ Len(o) > 0
  <2>1. CASE Len(t) = 0
    BY <1>3, <2>1
  <2>2. CASE Len(t) > 0
    BY <1>1, <1>3, <2>2
  <2> QED
    BY <1>3, <2>1, <2>2
<1>5. Shaped(o)
  <2>1. ASSUME NEW i \in 1 .. Len(o), NEW j \in 1 .. i - 1 PROVE MayStand(o[j], o[i])
    <3>1. CASE i <= Len(d)
      <4>1. i \in 1 .. Len(d) /\ j \in 1 .. Len(d)
        BY <1>3, <3>1
      <4> QED
        BY <1>3, <4>1 DEF Shaped
    <3>2. CASE i > Len(d) /\ j <= Len(d)
      <4>1. PICK k \in 1 .. Len(t) : i = Len(d) + k
        <5>1. i - Len(d) \in 1 .. Len(t) /\ i = Len(d) + (i - Len(d))
          BY <1>3, <3>2
        <5> QED
          BY <5>1
      <4>2. j \in 1 .. Len(d)
        BY <1>3, <3>2
      <4> QED
        BY <1>3, <4>1, <4>2 DEF Under
    <3>3. CASE i > Len(d) /\ j > Len(d)
      <4>1. PICK k \in 1 .. Len(t) : i = Len(d) + k
        <5>1. i - Len(d) \in 1 .. Len(t) /\ i = Len(d) + (i - Len(d))
          BY <1>3, <3>3
        <5> QED
          BY <5>1
      <4>2. PICK l \in 1 .. k - 1 : j = Len(d) + l
        <5>1. j - Len(d) \in 1 .. k - 1 /\ j = Len(d) + (j - Len(d))
          BY <1>3, <3>3, <4>1
        <5> QED
          BY <5>1
      <4>3. l \in 1 .. Len(t)
        BY <1>3, <4>1, <4>2
      <4> QED
        BY <1>1, <1>3, <4>1, <4>2, <4>3 DEF Shaped
    <3> QED
      BY <1>3, <3>1, <3>2, <3>3
  <2> QED
    BY <2>1 DEF Shaped
<1> QED
  BY <1>2, <1>4, <1>5 DEF Good, Rest

LEMMA HasJoin ==
  ASSUME NEW T, NEW d \in Seq(T), NEW t \in Seq(T), NEW S
  PROVE  Has(d \o t, S) <=> Has(d, S) \/ Has(t, S)
<1>1. /\ Len(d) \in Nat /\ Len(t) \in Nat /\ Len(d \o t) = Len(d) + Len(t)
      /\ \A i \in 1 .. Len(d) : (d \o t)[i] = d[i]
      /\ \A i \in 1 .. Len(t) : (d \o t)[Len(d) + i] = t[i]
  BY ConcatFacts
<1>2. ASSUME Has(d \o t, S) PROVE Has(d, S) \/ Has(t, S)
  <2>1. PICK i \in 1 .. Len(d) + Len(t) : (d \o t)[i] \in S
    BY <1>1, <1>2 DEF Has
  <2>2. CASE i <= Len(d)
    BY <1>1, <2>1, <2>2 DEF Has
  <2>3. CASE i > Len(d)
    <3>1. i - Len(d) \in 1 .. Len(t) /\ i = Len(d) + (i - Len(d))
      BY <1>1, <2>3
    <3> QED
      BY <1>1, <2>1, <3>1 DEF Has
  <2> QED
    BY <1>1, <2>1, <2>2, <2>3
<1>3. ASSUME Has(d, S) PROVE Has(d \o t, S)
  BY <1>1, <1>3 DEF Has
<1>4. ASSUME Has(t, S) PROVE Has(d \o t, S)
  <2>1. PICK i \in 1 .. Len(t) : t[i] \in S
    BY <1>4 DEF Has
  <2>2. Len(d) + i \in 1 .. Len(d) + Len(t)
    BY <1>1
  <2> QED
    BY <1>1, <2>1, <2>2 DEF Has
<1> QED
  BY <1>2, <1>3, <1>4

LEMMA HasAbove ==
  ASSUME NEW T, NEW d \in Seq(T), NEW t \in Seq(T), NEW S, \A i \in 1 .. Len(d) : d[i] \notin S
  PROVE  Has(d \o t, S) <=> Has(t, S)
<1>1. ~Has(d, S)
  BY DEF Has
<1> QED
  BY <1>1, HasJoin

LEMMA HasTail ==
  ASSUME NEW T, NEW s \in Seq(T), Len(s) > 0, NEW S
  PROVE  Has(s, S) <=> Head(s) \in S \/ Has(Tail(s), S)
<1>1. Head(s) \in T /\ Tail(s) \in Seq(T) /\ s = <<Head(s)>> \o Tail(s)
  BY TailFacts
<1>2. PICK h \in T : h = Head(s)
  BY <1>1
<1>3. PICK d : d = <<h>>
  OBVIOUS
<1>4. d \in Seq(T) /\ Len(d) = 1 /\ d[1] = h
  BY <1>3
<1>5. Has(d, S) <=> h \in S
  BY <1>4 DEF Has
<1>6. Has(d \o Tail(s), S) <=> Has(d, S) \/ Has(Tail(s), S)
  BY <1>1, <1>4, HasJoin
<1> QED
  BY <1>1, <1>2, <1>3, <1>5, <1>6

-----------------------------------------------------------------------------
(***************************************************************************)
(* Calm steps: those that leave the context as it is                       *)
(***************************************************************************)
Marks == Loops \cup Scopes \cup Bodies \cup Params

Quiet(S) == S \ (Marks \cup Strays \cup {"parse_break"})

(* h is replaced by steps of the same class, or of one that is allowed     *)
(* wherever h is.                                                          *)
Calm(h, d) ==
  /\ \/ h \in TypeSteps /\ d \in Seq(Quiet(TypeSteps))
     \/ h \in StatementSteps /\ d \in Seq(Quiet(BodySteps))
     \/ h \in FuncSteps /\ d \in Seq(Quiet(InnerSteps))
     \/ h \in OuterSteps /\ d \in Seq(Quiet(Steps))
  /\ h = "parse_file" => Len(d) > 0 /\ d[Len(d)] = "parse_file"

LEMMA Classes ==
  /\ TypeSteps \cap StatementSteps = {} /\ TypeSteps \cap FuncSteps = {}
  /\ TypeSteps \cap OuterSteps = {} /\ StatementSteps \cap FuncSteps = {}
  /\ StatementSteps \cap OuterSteps = {} /\ FuncSteps \cap OuterSteps = {}
BY DEF TypeSteps, StatementSteps, FuncSteps, OuterSteps, AllTokens, Keywords, Punctuation

LEMMA UnderCalm ==
  ASSUME NEW h, NEW d, NEW t, Calm(h, d), Under(h, t)
  PROVE  /\ \A i \in 1 .. Len(d) : Under(d[i], t) /\ d[i] \in Quiet(Steps)
         /\ d \in Seq(Steps) /\ Shaped(d)
<1>1. /\ Quiet(TypeSteps) \subseteq Quiet(BodySteps) /\ Quiet(BodySteps) \subseteq Quiet(InnerSteps)
      /\ Quiet(InnerSteps) \subseteq Quiet(Steps) /\ Quiet(Steps) \subseteq Steps
  BY DEF Quiet, Steps, InnerSteps, BodySteps
<1>2. d \in Seq(Quiet(Steps))
  BY <1>1 DEF Calm
<1>3. \A i \in 1 .. Len(d) : d[i] \in Quiet(Steps)
  BY <1>2, ElementFacts
<1>4. d \in Seq(Steps)
  BY <1>1, <1>2
<1>5. Shaped(d)
  BY <1>3 DEF Shaped, MayStand, Quiet, Marks
<1>6. \A i \in 1 .. Len(d) : Under(d[i], t)
  <2>1. CASE h \in TypeSteps /\ d \in Seq(Quiet(TypeSteps))
    <3>1. \A i \in 1 .. Len(d) : d[i] \in TypeSteps
      BY <2>1, ElementFacts DEF Quiet
    <3> QED
      BY <3>1 DEF Under, MayStand, InnerSteps, BodySteps
  <2>2. CASE h \in StatementSteps /\ d \in Seq(Quiet(BodySteps))
    <3>1. \A i \in 1 .. Len(d) : d[i] \in BodySteps
      BY <2>2, ElementFacts DEF Quiet
    <3>2. h \notin TypeSteps
      BY <2>2, Classes
    <3> QED
      BY <3>1, <3>2 DEF Under, MayStand, InnerSteps
  <2>3. CASE h \in FuncSteps /\ d \in Seq(Quiet(InnerSteps))
    <3>1. \A i \in 1 .. Len(d) : d[i] \in InnerSteps
      BY <2>3, ElementFacts DEF Quiet
    <3>2. h \notin TypeSteps /\ h \notin BodySteps
      BY <2>3, Classes DEF BodySteps
    <3> QED
      BY <3>1, <3>2 DEF Under, MayStand
  <2>4. CASE h \in OuterSteps /\ d \in Seq(Quiet(Steps))
    <3>1. h \notin TypeSteps /\ h \notin BodySteps /\ h \notin InnerSteps
      BY <2>4, Classes DEF BodySteps, InnerSteps
    <3> QED
      BY <3>1 DEF Under, MayStand
  <2> QED
    BY <2>1, <2>2, <2>3, <2>4 DEF Calm
<1> QED
  BY <1>3, <1>4, <1>5, <1>6


(* Done with h, nothing is left of it; above calm steps the context is the *)
(* one of what is below.                                                   *)
LEMMA FitsTail ==
  ASSUME NEW s, Good(s), Fits(s), Head(s) \notin Loops \cup Scopes \cup Bodies
  PROVE  Fits(Tail(s))
<1>1. s \in Seq(Steps) /\ Len(s) > 0
  BY DEF Good, Rest
<1>2. /\ Pending(Tail(s), Loops) = Pending(s, Loops)
      /\ Pending(Tail(s), Scopes) = Pending(s, Scopes)
  BY <1>1, PendingTail
<1>3. /\ Has(Tail(s), Bodies) <=> Has(s, Bodies)
      /\ Has(Tail(s), Params) => Has(s, Params)
  BY <1>1, HasTail
<1> QED
  BY <1>2, <1>3 DEF Fits, ScopesFit, FuncFits

LEMMA FitsAbove ==
  ASSUME NEW d \in Seq(Steps), NEW t \in Seq(Steps), Fits(t),
         \A i \in 1 .. Len(d) : d[i] \notin Marks
  PROVE  Fits(d \o t)
<1>1. /\ Pending(d \o t, Loops) = Pending(t, Loops)
      /\ Pending(d \o t, Scopes) = Pending(t, Scopes)
  BY PendingCalm DEF Marks
<1>2. ~Has(d, Bodies) /\ ~Has(d, Params)
  BY DEF Has, Marks
<1>3. (Has(d \o t, Bodies) <=> Has(t, Bodies)) /\ (Has(d \o t, Params) <=> Has(t, Params))
  BY <1>2, HasJoin
<1> QED
  BY <1>1, <1>3 DEF Fits, ScopesFit, FuncFits

Context == <<current_scope, prev_scope, loop_depth, in_func, prev_in_func, param_count>>

LEMMA FitsKept ==
  ASSUME NEW s, Fits(s), UNCHANGED Context
  PROVE  Fits(s)'
BY DEF Fits, ScopesFit, FuncFits, Context

(* No token that needs a loop or a function is to be read.                 *)
Stayed(s) == \A i \in 1 .. Len(s) : s[i] \notin Strays \cup {"parse_break"}

LEMMA StrayFree ==
  ASSUME Good(todo), StrayInv, todo[1] # "diag"
  PROVE  Stayed(Tail(todo))
<1>1. todo \in Seq(Steps) /\ Len(todo) > 0
  BY DEF Good, Rest
<1>2. /\ Len(todo) \in Nat /\ Len(Tail(todo)) = Len(todo) - 1
      /\ \A i \in 1 .. Len(todo) - 1 : Tail(todo)[i] = todo[i + 1]
  BY <1>1, TailFacts
<1>3. \A i \in 1 .. Len(todo) - 1 : i + 1 \in 1 .. Len(todo) /\ i + 1 # 1
  BY <1>2
<1> QED
  BY <1>2, <1>3 DEF Stayed, StrayInv

LEMMA StayedTail ==
  ASSUME NEW s, Good(s), Stayed(s)
  PROVE  Stayed(Tail(s))
<1>1. s \in Seq(Steps) /\ Len(s) > 0
  BY DEF Good, Rest
<1>2. /\ Len(s) \in Nat /\ Len(Tail(s)) = Len(s) - 1
      /\ \A i \in 1 .. Len(s) - 1 : Tail(s)[i] = s[i + 1]
  BY <1>1, TailFacts
<1>3. \A i \in 1 .. Len(s) - 1 : i + 1 \in 1 .. Len(s)
  BY <1>2
<1> QED
  BY <1>2, <1>3 DEF Stayed

LEMMA StayedJoin ==
  ASSUME NEW d \in Seq(Steps), NEW t \in Seq(Steps), Stayed(d), Stayed(t)
  PROVE  Stayed(d \o t)
<1>1. /\ Len(d) \in Nat /\ Len(t) \in Nat /\ Len(d \o t) = Len(d) + Len(t)
      /\ \A i \in 1 .. Len(d) : (d \o t)[i] = d[i]
      /\ \A i \in 1 .. Len(t) : (d \o t)[Len(d) + i] = t[i]
  BY ConcatFacts
<1>2. ASSUME NEW i \in 1 .. Len(d) + Len(t)
      PROVE  (d \o t)[i] \notin Strays \cup {"parse_break"}
  <2>1. CASE i <= Len(d)
    BY <1>1, <1>2, <2>1 DEF Stayed
  <2>2. CASE i > Len(d)
    <3>1. i - Len(d) \in 1 .. Len(t) /\ i = Len(d) + (i - Len(d))
      BY <1>1, <1>2, <2>2
    <3> QED
      BY <1>1, <3>1 DEF Stayed
  <2> QED
    BY <1>1, <2>1, <2>2
<1> QED
  BY <1>1, <1>2 DEF Stayed

LEMMA StayedInv ==
  ASSUME Good(todo)', Stayed(todo)'
  PROVE  StrayInv'
<1>1. Len(todo') \in Nat /\ 1 \in 1 .. Len(todo')
  BY ElementFacts DEF Good, Rest
<1> QED
  BY <1>1 DEF Stayed, StrayInv, Strays

(* The calm steps d are put in the place of the first of s.                *)
LEMMA CalmAbove ==
  ASSUME NEW s, Good(s), Fits(s), Stayed(Tail(s)), Head(s) \notin Loops \cup Scopes \cup Bodies,
         NEW d, Calm(Head(s), d)
  PROVE  Good(d \o Tail(s)) /\ Fits(d \o Tail(s)) /\ Stayed(d \o Tail(s))
<1>1. s \in Seq(Steps) /\ Shaped(s) /\ Len(s) > 0 /\ s[Len(s)] = "parse_file"
  BY DEF Good, Rest
<1>2. PICK t \in Seq(Steps) : t = Tail(s)
  BY <1>1, TailFacts
<1>3. Rest(t) /\ Under(Head(s), t) /\ (Len(t) = 0 => Len(d) > 0 /\ d[Len(d)] = "parse_file")
  <2>1. CASE Head(s) # "parse_file"
    <3>1. Good(t) /\ Under(Head(s), t)
      BY <1>2, <2>1, SplitRest
    <3> QED
      BY <3>1 DEF Good
  <2>2. CASE Head(s) = "parse_file"
    <3>1. /\ Len(s) \in Nat /\ Len(t) = Len(s) - 1
          /\ \A i \in 1 .. Len(t) : t[i] = s[i + 1]
          /\ Head(s) = s[1]
      BY <1>1, <1>2, TailFacts
    <3>2. \A i \in 1 .. Len(t) : i + 1 \in 1 .. Len(s) /\ 1 \in 1 .. i + 1 - 1
      BY <3>1
    <3>3. \A i \in 1 .. Len(t) : \A j \in 1 .. i - 1 : j + 1 \in 1 .. i + 1 - 1 /\ j \in 1 .. Len(t)
      BY <3>1
    <3>4. Under(Head(s), t) /\ Shaped(t)
      BY <1>1, <3>1, <3>2, <3>3 DEF Shaped, Under
    <3>5. Len(t) > 0 => t[Len(t)] = "parse_file"
      BY <1>1, <3>1
    <3> QED
      BY <2>2, <3>1, <3>4, <3>5 DEF Rest, Calm
  <2> QED
    BY <2>1, <2>2
<1>4. /\ \A i \in 1 .. Len(d) : Under(d[i], t) /\ d[i] \in Quiet(Steps)
      /\ d \in Seq(Steps) /\ Shaped(d)
  BY <1>3, UnderCalm
<1>5. Good(d \o t)
  BY <1>3, <1>4, JoinRest
<1>6. Fits(d \o t)
  BY <1>2, <1>4, FitsTail, FitsAbove DEF Quiet
<1>7. Stayed(d \o t)
  <2>1. Stayed(d) /\ Stayed(t)
    BY <1>2, <1>4 DEF Stayed, Quiet
  <2> QED
    BY <1>2, <1>4, <2>1, StayedJoin
<1> QED
  BY <1>2, <1>5, <1>6, <1>7

LEMMA Calmed ==
  ASSUME TypeOk', UNCHANGED Context, NEW n, Good(n), Fits(n), Stayed(n), todo' = n
  PROVE  IInv'
<1>1. Fits(n)'
  BY FitsKept
<1>2. Good(todo)' /\ Fits(todo)' /\ Stayed(todo)'
  BY <1>1 DEF Good, Rest, Shaped, MayStand, Stayed, Fits, ScopesFit, FuncFits
<1> QED
  BY <1>2, StayedInv DEF IInv

LEMMA CalmPut ==
  ASSUME IInv, TypeOk', UNCHANGED Context, todo[1] # "diag",
         Head(todo) \notin Loops \cup Scopes \cup Bodies, NEW d, Calm(Head(todo), d), Put(d)
  PROVE  IInv'
<1>1. Good(todo) /\ Fits(todo) /\ StrayInv
  BY DEF IInv
<1>2. Stayed(Tail(todo))
  BY <1>1, StrayFree
<1>3. PICK n : n = d \o Tail(todo)
  OBVIOUS
<1>4. Good(n) /\ Fits(n) /\ Stayed(n)
  BY <1>1, <1>2, <1>3, CalmAbove
<1>5. todo' = n
  BY <1>3 DEF Put
<1> QED
  BY <1>4, <1>5, Calmed

LEMMA CalmDo ==
  ASSUME IInv, todo[1] # "diag", Head(todo) \notin Loops \cup Scopes \cup Bodies,
         NEW d, Calm(Head(todo), d), Do(d)
  PROVE  IInv'
<1>1. Put(d) /\ UNCHANGED <<tok, context, symbols, errors, status>>
  BY DEF Do
<1>2. TypeOk'
  BY <1>1 DEF IInv, TypeOk, context, symbols
<1>3. UNCHANGED Context
  BY <1>1 DEF Context, context, symbols
<1> QED
  BY <1>1, <1>2, <1>3, CalmPut


LEMMA HeadFacts ==
  ASSUME IInv
  PROVE  /\ todo \in Seq(Steps) /\ Len(todo) \in Nat /\ Len(todo) > 0
         /\ Head(todo) = todo[1] /\ Head(todo) \in Steps
BY TailFacts DEF IInv, Good, Rest

LEMMA MarksApart ==
  /\ TypeSteps \cap Marks = {} /\ "parse_break" \notin TypeSteps
  /\ StatementSteps \cap Strays = {} /\ FuncSteps \cap Strays = {} /\ OuterSteps \cap Strays = {}
  /\ StatementSteps \cap Marks \subseteq Loops \cup Scopes
  /\ FuncSteps \cap Marks \subseteq Bodies \cup Params /\ "parse_break" \notin FuncSteps
  /\ OuterSteps \cap Marks \subseteq Scopes /\ "parse_break" \notin OuterSteps
  /\ "parse_file" \notin TypeSteps \cup StatementSteps \cup FuncSteps
  /\ "diag" \in TypeSteps
<1>1. TypeSteps \cap Marks = {} /\ "parse_break" \notin TypeSteps
  BY DEF TypeSteps, AllTokens, Keywords, Punctuation, Marks, Loops, Scopes, Bodies, Params
<1>2. StatementSteps \cap Strays = {} /\ FuncSteps \cap Strays = {} /\ OuterSteps \cap Strays = {}
  BY DEF StatementSteps, FuncSteps, OuterSteps, Strays
<1>3. StatementSteps \cap Marks \subseteq Loops \cup Scopes
  BY DEF StatementSteps, Marks, Loops, Scopes, Bodies, Params
<1>4. FuncSteps \cap Marks \subseteq Bodies \cup Params /\ "parse_break" \notin FuncSteps
  BY DEF FuncSteps, Marks, Loops, Scopes, Bodies, Params
<1>5. OuterSteps \cap Marks \subseteq Scopes /\ "parse_break" \notin OuterSteps
  BY DEF OuterSteps, Marks, Loops, Scopes, Bodies, Params
<1>6. "parse_file" \notin TypeSteps \cup StatementSteps \cup FuncSteps
  BY DEF TypeSteps, StatementSteps, FuncSteps, AllTokens, Keywords, Punctuation
<1>7. "diag" \in TypeSteps
  BY DEF TypeSteps
<1> QED
  BY <1>1, <1>2, <1>3, <1>4, <1>5, <1>6, <1>7

LEMMA TypeDo ==
  ASSUME IInv, Head(todo) \in TypeSteps, Head(todo) # "diag", NEW d \in Seq(Quiet(TypeSteps)), Do(d)
  PROVE  IInv'
<1>1. Calm(Head(todo), d) /\ todo[1] # "diag" /\ Head(todo) \notin Loops \cup Scopes \cup Bodies
  BY HeadFacts, MarksApart DEF Calm, Marks
<1> QED
  BY <1>1, CalmDo

LEMMA StatementDo ==
  ASSUME IInv, Head(todo) \in StatementSteps, Head(todo) \notin Marks,
         NEW d \in Seq(Quiet(BodySteps)), Do(d)
  PROVE  IInv'
<1>1. Calm(Head(todo), d) /\ todo[1] # "diag" /\ Head(todo) \notin Loops \cup Scopes \cup Bodies
  BY HeadFacts, MarksApart, Classes DEF Calm, Marks
<1> QED
  BY <1>1, CalmDo

LEMMA OuterDo ==
  ASSUME IInv, Head(todo) \in OuterSteps, Head(todo) \notin Marks, Head(todo) # "parse_file",
         NEW d \in Seq(Quiet(Steps)), Do(d)
  PROVE  IInv'
<1>1. Calm(Head(todo), d) /\ todo[1] # "diag" /\ Head(todo) \notin Loops \cup Scopes \cup Bodies
  BY HeadFacts, MarksApart, Classes DEF Calm, Marks
<1> QED
  BY <1>1, CalmDo

-----------------------------------------------------------------------------
(***************************************************************************)
(* The calm steps of each class                                            *)
(***************************************************************************)
LEMMA QuietTypes ==
  /\ "diag" \in Quiet(TypeSteps) /\ "null" \in Quiet(TypeSteps) /\ "parse_type" \in Quiet(TypeSteps)
  /\ "parse_type:find" \in Quiet(TypeSteps) /\ "parse_type:*" \in Quiet(TypeSteps)
  /\ "parse_type:[" \in Quiet(TypeSteps) /\ "parse_type:size" \in Quiet(TypeSteps)
  /\ "parse_type_mod" \in Quiet(TypeSteps) /\ "main" \in Quiet(TypeSteps)
  /\ "use" \in Quiet(TypeSteps) /\ "var" \in Quiet(TypeSteps) /\ "func" \in Quiet(TypeSteps)
  /\ "typedef" \in Quiet(TypeSteps) /\ "block" \in Quiet(TypeSteps) /\ "if" \in Quiet(TypeSteps)
  /\ "elif" \in Quiet(TypeSteps) /\ "else" \in Quiet(TypeSteps) /\ "while" \in Quiet(TypeSteps)
  /\ "for" \in Quiet(TypeSteps) /\ "exit" \in Quiet(TypeSteps) /\ "cast" \in Quiet(TypeSteps)
  /\ "const" \in Quiet(TypeSteps) /\ "mutable" \in Quiet(TypeSteps)
  /\ "end_line" \in Quiet(TypeSteps) /\ "block_left" \in Quiet(TypeSteps)
  /\ "block_right" \in Quiet(TypeSteps) /\ "(" \in Quiet(TypeSteps) /\ ")" \in Quiet(TypeSteps)
  /\ "[" \in Quiet(TypeSteps) /\ "]" \in Quiet(TypeSteps) /\ "arg_sep" \in Quiet(TypeSteps)
  /\ "->" \in Quiet(TypeSteps) /\ "&" \in Quiet(TypeSteps) /\ "*" \in Quiet(TypeSteps)
  /\ "-" \in Quiet(TypeSteps) /\ "op" \in Quiet(TypeSteps) /\ "=" \in Quiet(TypeSteps)
  /\ "<" \in Quiet(TypeSteps) /\ ">" \in Quiet(TypeSteps) /\ "name" \in Quiet(TypeSteps)
  /\ "callee" \in Quiet(TypeSteps) /\ "number" \in Quiet(TypeSteps) /\ "str" \in Quiet(TypeSteps)
  /\ "eof" \in Quiet(TypeSteps)
<1>1. \A x \in TypeSteps : x \notin Strays => x \in Quiet(TypeSteps)
  BY MarksApart DEF Quiet
<1>2. /\ "diag" \in TypeSteps /\ "null" \in TypeSteps /\ "parse_type" \in TypeSteps
      /\ "parse_type:find" \in TypeSteps /\ "parse_type:*" \in TypeSteps
      /\ "parse_type:[" \in TypeSteps /\ "parse_type:size" \in TypeSteps
      /\ "parse_type_mod" \in TypeSteps
  BY DEF TypeSteps
<1>3. /\ "main" \in Keywords /\ "use" \in Keywords /\ "var" \in Keywords /\ "func" \in Keywords
      /\ "typedef" \in Keywords /\ "block" \in Keywords /\ "if" \in Keywords /\ "elif" \in Keywords
      /\ "else" \in Keywords /\ "while" \in Keywords /\ "for" \in Keywords /\ "exit" \in Keywords
      /\ "cast" \in Keywords /\ "const" \in Keywords /\ "mutable" \in Keywords
  BY DEF Keywords
<1>4. /\ "end_line" \in Punctuation /\ "block_left" \in Punctuation /\ "block_right" \in Punctuation
      /\ "(" \in Punctuation /\ ")" \in Punctuation /\ "[" \in Punctuation /\ "]" \in Punctuation
      /\ "arg_sep" \in Punctuation /\ "->" \in Punctuation /\ "&" \in Punctuation
      /\ "*" \in Punctuation /\ "-" \in Punctuation /\ "op" \in Punctuation /\ "=" \in Punctuation
      /\ "<" \in Punctuation /\ ">" \in Punctuation
  BY DEF Punctuation
<1>5. /\ "diag" \notin Strays /\ "null" \notin Strays /\ "parse_type" \notin Strays
      /\ "parse_type:find" \notin Strays /\ "parse_type:*" \notin Strays
      /\ "parse_type:[" \notin Strays /\ "parse_type:size" \notin Strays
      /\ "parse_type_mod" \notin Strays /\ "main" \notin Strays /\ "use" \notin Strays
      /\ "var" \notin Strays /\ "func" \notin Strays /\ "typedef" \notin Strays
      /\ "block" \notin Strays /\ "if" \notin Strays /\ "elif" \notin Strays /\ "else" \notin Strays
      /\ "while" \notin Strays /\ "for" \notin Strays /\ "exit" \notin Strays
      /\ "cast" \notin Strays /\ "const" \notin Strays /\ "mutable" \notin Strays
      /\ "end_line" \notin Strays /\ "block_left" \notin Strays /\ "block_right" \notin Strays
      /\ "(" \notin Strays /\ ")" \notin Strays /\ "[" \notin Strays /\ "]" \notin Strays
      /\ "arg_sep" \notin Strays /\ "->" \notin Strays /\ "&" \notin Strays /\ "*" \notin Strays
      /\ "-" \notin Strays /\ "op" \notin Strays /\ "=" \notin Strays /\ "<" \notin Strays
      /\ ">" \notin Strays /\ "name" \notin Strays /\ "callee" \notin Strays
      /\ "number" \notin Strays /\ "str" \notin Strays /\ "eof" \notin Strays
  BY DEF Strays
<1>6. Keywords \subseteq TypeSteps /\ Punctuation \subseteq TypeSteps
      /\ {"name", "callee", "number", "str", "eof"} \subseteq TypeSteps
  BY DEF TypeSteps, AllTokens
<1> QED
  BY <1>1, <1>2, <1>3, <1>4, <1>5, <1>6

LEMMA QuietBodies ==
  /\ Quiet(TypeSteps) \subseteq Quiet(BodySteps)
  /\ "parse_expr" \in Quiet(BodySteps) /\ "parse_expr:op" \in Quiet(BodySteps)
  /\ "parse_unary" \in Quiet(BodySteps) /\ "parse_unary:op" \in Quiet(BodySteps)
  /\ "parse_atom" \in Quiet(BodySteps) /\ "parse_atom:var" \in Quiet(BodySteps)
  /\ "parse_atom:number" \in Quiet(BodySteps) /\ "parse_call" \in Quiet(BodySteps)
  /\ "parse_call:arg" \in Quiet(BodySteps) /\ "parse_call:arg_sep" \in Quiet(BodySteps)
  /\ "parse_var" \in Quiet(BodySteps) /\ "parse_var:&" \in Quiet(BodySteps)
  /\ "parse_var:name" \in Quiet(BodySteps) /\ "parse_var:access" \in Quiet(BodySteps)
  /\ "parse_lvalue" \in Quiet(BodySteps) /\ "parse_assign" \in Quiet(BodySteps)
  /\ "parse_var_decl" \in Quiet(BodySteps) /\ "parse_var_decl:=" \in Quiet(BodySteps)
  /\ "parse_var_decl:init" \in Quiet(BodySteps) /\ "parse_array" \in Quiet(BodySteps)
  /\ "parse_array:arg_sep" \in Quiet(BodySteps) /\ "insert" \in Quiet(BodySteps)
  /\ "parse_exit" \in Quiet(BodySteps) /\ "parse_return" \in Quiet(BodySteps)
  /\ "parse_return:value" \in Quiet(BodySteps) /\ "parse_paren_cond" \in Quiet(BodySteps)
  /\ "parse_condition" \in Quiet(BodySteps) /\ "parse_condition:else" \in Quiet(BodySteps)
  /\ "parse_while" \in Quiet(BodySteps) /\ "parse_for" \in Quiet(BodySteps)
  /\ "parse_for:scope" \in Quiet(BodySteps) /\ "parse_for:init" \in Quiet(BodySteps)
  /\ "parse_for:cond" \in Quiet(BodySteps) /\ "parse_for:step" \in Quiet(BodySteps)
  /\ "parse_line" \in Quiet(BodySteps) /\ "parse_body" \in Quiet(BodySteps)
  /\ "parse_body:scope" \in Quiet(BodySteps) /\ "parse_body:line" \in Quiet(BodySteps)
  /\ "loop_depth++" \in Quiet(BodySteps)
<1>1. \A x \in StatementSteps : x \notin Loops \cup Scopes \cup {"parse_break"} => x \in Quiet(BodySteps)
  BY MarksApart DEF Quiet, BodySteps
<1>2. /\ "parse_expr" \in StatementSteps /\ "parse_expr:op" \in StatementSteps
      /\ "parse_unary" \in StatementSteps /\ "parse_unary:op" \in StatementSteps
      /\ "parse_atom" \in StatementSteps /\ "parse_atom:var" \in StatementSteps
      /\ "parse_atom:number" \in StatementSteps /\ "parse_call" \in StatementSteps
      /\ "parse_call:arg" \in StatementSteps /\ "parse_call:arg_sep" \in StatementSteps
      /\ "parse_var" \in StatementSteps /\ "parse_var:&" \in StatementSteps
      /\ "parse_var:name" \in StatementSteps /\ "parse_var:access" \in StatementSteps
      /\ "parse_lvalue" \in StatementSteps /\ "parse_assign" \in StatementSteps
      /\ "parse_var_decl" \in StatementSteps /\ "parse_var_decl:=" \in StatementSteps
      /\ "parse_var_decl:init" \in StatementSteps /\ "parse_array" \in StatementSteps
      /\ "parse_array:arg_sep" \in StatementSteps /\ "insert" \in StatementSteps
      /\ "parse_exit" \in StatementSteps /\ "parse_return" \in StatementSteps
      /\ "parse_return:value" \in StatementSteps /\ "parse_paren_cond" \in StatementSteps
      /\ "parse_condition" \in StatementSteps /\ "parse_condition:else" \in StatementSteps
      /\ "parse_while" \in StatementSteps /\ "parse_for" \in StatementSteps
      /\ "parse_for:scope" \in StatementSteps /\ "parse_for:init" \in StatementSteps
      /\ "parse_for:cond" \in StatementSteps /\ "parse_for:step" \in StatementSteps
      /\ "parse_line" \in StatementSteps /\ "parse_body" \in StatementSteps
      /\ "parse_body:scope" \in StatementSteps /\ "parse_body:line" \in StatementSteps
      /\ "loop_depth++" \in StatementSteps
  BY DEF StatementSteps
<1>3. /\ "parse_expr" \notin Loops \cup Scopes \cup {"parse_break"}
      /\ "parse_expr:op" \notin Loops \cup Scopes \cup {"parse_break"}
      /\ "parse_unary" \notin Loops \cup Scopes \cup {"parse_break"}
      /\ "parse_unary:op" \notin Loops \cup Scopes \cup {"parse_break"}
      /\ "parse_atom" \notin Loops \cup Scopes \cup {"parse_break"}
      /\ "parse_atom:var" \notin Loops \cup Scopes \cup {"parse_break"}
      /\ "parse_atom:number" \notin Loops \cup Scopes \cup {"parse_break"}
      /\ "parse_call" \notin Loops \cup Scopes \cup {"parse_break"}
      /\ "parse_call:arg" \notin Loops \cup Scopes \cup {"parse_break"}
      /\ "parse_call:arg_sep" \notin Loops \cup Scopes \cup {"parse_break"}
      /\ "parse_var" \notin Loops \cup Scopes \cup {"parse_break"}
      /\ "parse_var:&" \notin Loops \cup Scopes \cup {"parse_break"}
      /\ "parse_var:name" \notin Loops \cup Scopes \cup {"parse_break"}
      /\ "parse_var:access" \notin Loops \cup Scopes \cup {"parse_break"}
      /\ "parse_lvalue" \notin Loops \cup Scopes \cup {"parse_break"}
      /\ "parse_assign" \notin Loops \cup Scopes \cup {"parse_break"}
      /\ "parse_var_decl" \notin Loops \cup Scopes \cup {"parse_break"}
      /\ "parse_var_decl:=" \notin Loops \cup Scopes \cup {"parse_break"}
      /\ "parse_var_decl:init" \notin Loops \cup Scopes \cup {"parse_break"}
      /\ "parse_array" \notin Loops \cup Scopes \cup {"parse_break"}
      /\ "parse_array:arg_sep" \notin Loops \cup Scopes \cup {"parse_break"}
      /\ "insert" \notin Loops \cup Scopes \cup {"parse_break"}
      /\ "parse_exit" \notin Loops \cup Scopes \cup {"parse_break"}
      /\ "parse_return" \notin Loops \cup Scopes \cup {"parse_break"}
      /\ "parse_return:value" \notin Loops \cup Scopes \cup {"parse_break"}
      /\ "parse_paren_cond" \notin Loops \cup Scopes \cup {"parse_break"}
      /\ "parse_condition" \notin Loops \cup Scopes \cup {"parse_break"}
      /\ "parse_condition:else" \notin Loops \cup Scopes \cup {"parse_break"}
      /\ "parse_while" \notin Loops \cup Scopes \cup {"parse_break"}
      /\ "parse_for" \notin Loops \cup Scopes \cup {"parse_break"}
      /\ "parse_for:scope" \notin Loops \cup Scopes \cup {"parse_break"}
      /\ "parse_for:init" \notin Loops \cup Scopes \cup {"parse_break"}
      /\ "parse_for:cond" \notin Loops \cup Scopes \cup {"parse_break"}
      /\ "parse_for:step" \notin Loops \cup Scopes \cup {"parse_break"}
      /\ "parse_line" \notin Loops \cup Scopes \cup {"parse_break"}
      /\ "parse_body" \notin Loops \cup Scopes \cup {"parse_break"}
      /\ "parse_body:scope" \notin Loops \cup Scopes \cup {"parse_break"}
      /\ "parse_body:line" \notin Loops \cup Scopes \cup {"parse_break"}
      /\ "loop_depth++" \notin Loops \cup Scopes \cup {"parse_break"}
  BY DEF Loops, Scopes
<1>4. Quiet(TypeSteps) \subseteq Quiet(BodySteps)
  BY DEF Quiet, BodySteps
<1> QED
  BY <1>1, <1>2, <1>3, <1>4

LEMMA QuietInner ==
  /\ Quiet(BodySteps) \subseteq Quiet(InnerSteps)
  /\ "parse_func_decl:param" \in Quiet(InnerSteps)
  /\ "parse_func_decl:arg_sep" \in Quiet(InnerSteps) /\ "set_params" \in Quiet(InnerSteps)
  /\ "in_func=true" \in Quiet(InnerSteps)
<1>1. \A x \in FuncSteps : x \notin Bodies \cup Params => x \in Quiet(InnerSteps)
  BY MarksApart DEF Quiet, InnerSteps
<1>2. /\ "parse_func_decl:param" \in FuncSteps /\ "parse_func_decl:arg_sep" \in FuncSteps
      /\ "set_params" \in FuncSteps /\ "in_func=true" \in FuncSteps
  BY DEF FuncSteps
<1>3. /\ "parse_func_decl:param" \notin Bodies \cup Params
      /\ "parse_func_decl:arg_sep" \notin Bodies \cup Params
      /\ "set_params" \notin Bodies \cup Params /\ "in_func=true" \notin Bodies \cup Params
  BY DEF Bodies, Params
<1>4. Quiet(BodySteps) \subseteq Quiet(InnerSteps)
  BY DEF Quiet, InnerSteps
<1> QED
  BY <1>1, <1>2, <1>3, <1>4

LEMMA QuietSteps ==
  /\ Quiet(InnerSteps) \subseteq Quiet(Steps)
  /\ "skip" \in Quiet(Steps) /\ "parse_typedef" \in Quiet(Steps)
  /\ "parse_block_decl" \in Quiet(Steps) /\ "parse_block_decl:first" \in Quiet(Steps)
  /\ "parse_block_decl:next" \in Quiet(Steps) /\ "parse_field" \in Quiet(Steps)
  /\ "parse_func_decl" \in Quiet(Steps) /\ "insert_func" \in Quiet(Steps)
  /\ "parse_func_decl:scope" \in Quiet(Steps) /\ "parse_use" \in Quiet(Steps)
  /\ "parse_use:find" \in Quiet(Steps) /\ "insert_std" \in Quiet(Steps)
  /\ "parse_main" \in Quiet(Steps) /\ "parse_file" \in Quiet(Steps)
<1>1. \A x \in OuterSteps : x \notin Scopes => x \in Quiet(Steps)
  BY MarksApart DEF Quiet, Steps
<1>2. /\ "skip" \in OuterSteps /\ "parse_typedef" \in OuterSteps
      /\ "parse_block_decl" \in OuterSteps /\ "parse_block_decl:first" \in OuterSteps
      /\ "parse_block_decl:next" \in OuterSteps /\ "parse_field" \in OuterSteps
      /\ "parse_func_decl" \in OuterSteps /\ "insert_func" \in OuterSteps
      /\ "parse_func_decl:scope" \in OuterSteps /\ "parse_use" \in OuterSteps
      /\ "parse_use:find" \in OuterSteps /\ "insert_std" \in OuterSteps
      /\ "parse_main" \in OuterSteps /\ "parse_file" \in OuterSteps
  BY DEF OuterSteps
<1>3. /\ "skip" \notin Scopes /\ "parse_typedef" \notin Scopes /\ "parse_block_decl" \notin Scopes
      /\ "parse_block_decl:first" \notin Scopes /\ "parse_block_decl:next" \notin Scopes
      /\ "parse_field" \notin Scopes /\ "parse_func_decl" \notin Scopes
      /\ "insert_func" \notin Scopes /\ "parse_func_decl:scope" \notin Scopes
      /\ "parse_use" \notin Scopes /\ "parse_use:find" \notin Scopes /\ "insert_std" \notin Scopes
      /\ "parse_main" \notin Scopes /\ "parse_file" \notin Scopes
  BY DEF Scopes
<1>4. Quiet(InnerSteps) \subseteq Quiet(Steps)
  BY DEF Quiet, Steps
<1> QED
  BY <1>1, <1>2, <1>3, <1>4

LEMMA FailIsCalm ==
  /\ Fail \in Seq(Quiet(TypeSteps)) /\ Fail \in Seq(Quiet(BodySteps)) /\ Fail \in Seq(Quiet(Steps))
  /\ Break \in Seq(Quiet(TypeSteps)) /\ Break \in Seq(Quiet(BodySteps)) /\ Break \in Seq(Quiet(Steps))
<1>1. Fail \in Seq(Quiet(TypeSteps)) /\ Break \in Seq(Quiet(TypeSteps))
  <2>1. "diag" \in Quiet(TypeSteps) /\ "null" \in Quiet(TypeSteps)
    BY QuietTypes
  <2> QED
    BY <2>1 DEF Fail, Break
<1>2. Quiet(TypeSteps) \subseteq Quiet(BodySteps) /\ Quiet(TypeSteps) \subseteq Quiet(Steps)
  BY DEF Quiet, BodySteps, InnerSteps, Steps
<1> QED
  BY <1>1, <1>2

-----------------------------------------------------------------------------
(***************************************************************************)
(* Types and expressions                                                   *)
(***************************************************************************)
LEMMA ParseType == ASSUME IInv, parse_type PROVE IInv'
<1>1. /\ <<"name", "parse_type:find", "parse_type:*", "parse_type:[">> \in Seq(Quiet(TypeSteps))
      /\ <<"*", "parse_type:*">> \in Seq(Quiet(TypeSteps)) /\ <<"number">> \in Seq(Quiet(TypeSteps))
      /\ <<"[", "parse_type:size", "]", "parse_type:[">> \in Seq(Quiet(TypeSteps))
  BY QuietTypes
<1>2. /\ Head(todo) \in {"parse_type", "parse_type:find", "parse_type:*", "parse_type:[",
                       "parse_type:size"}
      /\ \E d \in Seq(Quiet(TypeSteps)) : Do(d)
  BY <1>1, FailIsCalm DEF parse_type, Now, Break
<1> QED
  BY <1>2, TypeDo DEF TypeSteps

LEMMA ParseExpr == ASSUME IInv, parse_expr PROVE IInv'
<1>1. /\ <<"parse_unary", "parse_expr:op">> \in Seq(Quiet(BodySteps))
      /\ (tok \in Binary => <<tok, "parse_unary", "parse_expr:op">> \in Seq(Quiet(BodySteps)))
  BY QuietTypes, QuietBodies DEF Binary
<1>2. /\ Head(todo) \in {"parse_expr", "parse_expr:op"}
      /\ \E d \in Seq(Quiet(BodySteps)) : Do(d)
  BY <1>1, FailIsCalm DEF parse_expr, Now, Break, Binary
<1> QED
  BY <1>2, StatementDo DEF StatementSteps, Marks, Loops, Scopes, Bodies, Params

LEMMA ParseUnary == ASSUME IInv, parse_unary PROVE IInv'
<1>1. /\ <<"cast", "<", "parse_type", ">", "parse_unary:op">> \in Seq(Quiet(BodySteps))
      /\ <<"parse_unary:op">> \in Seq(Quiet(BodySteps))
      /\ <<"parse_atom">> \in Seq(Quiet(BodySteps))
      /\ (tok \in {"*", "-"} => <<tok, "parse_unary:op">> \in Seq(Quiet(BodySteps)))
  BY QuietTypes, QuietBodies
<1>2. /\ Head(todo) \in {"parse_unary", "parse_unary:op"}
      /\ \E d \in Seq(Quiet(BodySteps)) : Do(d)
  BY <1>1, FailIsCalm DEF parse_unary, Now, Break
<1> QED
  BY <1>2, StatementDo DEF StatementSteps, Marks, Loops, Scopes, Bodies, Params

LEMMA ParseAtom == ASSUME IInv, parse_atom PROVE IInv'
<1>1. /\ <<"(", "parse_expr", ")">> \in Seq(Quiet(BodySteps))
      /\ <<"parse_call", "parse_atom:var">> \in Seq(Quiet(BodySteps))
      /\ <<"null", "parse_atom:var">> \in Seq(Quiet(BodySteps))
  BY QuietTypes, QuietBodies
<1>2. /\ Head(todo) \in {"parse_atom", "parse_atom:var", "parse_atom:number"}
      /\ \E d \in Seq(Quiet(BodySteps)) : Do(d)
  BY <1>1, FailIsCalm DEF parse_atom, Now, Break
<1> QED
  BY <1>2, StatementDo DEF StatementSteps, Marks, Loops, Scopes, Bodies, Params

LEMMA ParseCall == ASSUME IInv, parse_call PROVE IInv'
<1>1. /\ <<"callee", "(", "parse_call:arg", ")">> \in Seq(Quiet(BodySteps))
      /\ <<"parse_expr", "parse_call:arg_sep">> \in Seq(Quiet(BodySteps))
      /\ <<"arg_sep", "parse_call:arg">> \in Seq(Quiet(BodySteps))
  BY QuietTypes, QuietBodies
<1>2. /\ Head(todo) \in {"parse_call", "parse_call:arg", "parse_call:arg_sep"}
      /\ \E d \in Seq(Quiet(BodySteps)) : Do(d)
  BY <1>1, FailIsCalm DEF parse_call, Now, Break
<1> QED
  BY <1>2, StatementDo DEF StatementSteps, Marks, Loops, Scopes, Bodies, Params

LEMMA ParseVar == ASSUME IInv, parse_var PROVE IInv'
<1>1. /\ <<"&", "parse_var:&", "parse_var:name">> \in Seq(Quiet(BodySteps))
      /\ <<"parse_var:name">> \in Seq(Quiet(BodySteps))
      /\ <<"name", "parse_var:access">> \in Seq(Quiet(BodySteps))
      /\ <<"null">> \in Seq(Quiet(BodySteps))
      /\ <<"->", "name", "parse_var:access">> \in Seq(Quiet(BodySteps))
      /\ <<"[", "parse_expr", "]", "parse_var:access">> \in Seq(Quiet(BodySteps))
  BY QuietTypes, QuietBodies
<1>2. /\ Head(todo) \in {"parse_var", "parse_var:&", "parse_var:name", "parse_var:access"}
      /\ \E d \in Seq(Quiet(BodySteps)) : Do(d)
  BY <1>1, FailIsCalm DEF parse_var, Now, Break
<1> QED
  BY <1>2, StatementDo DEF StatementSteps, Marks, Loops, Scopes, Bodies, Params

LEMMA ParseLvalue == ASSUME IInv, parse_lvalue PROVE IInv'
<1>1. /\ <<"*", "parse_lvalue">> \in Seq(Quiet(BodySteps))
      /\ <<"parse_var">> \in Seq(Quiet(BodySteps))
  BY QuietTypes, QuietBodies
<1>2. /\ Head(todo) \in {"parse_lvalue"}
      /\ \E d \in Seq(Quiet(BodySteps)) : Do(d)
  BY <1>1, FailIsCalm DEF parse_lvalue, Now, Break
<1> QED
  BY <1>2, StatementDo DEF StatementSteps, Marks, Loops, Scopes, Bodies, Params

-----------------------------------------------------------------------------
(***************************************************************************)
(* Statements                                                              *)
(***************************************************************************)
LEMMA ParseAssign == ASSUME IInv, parse_assign PROVE IInv'
<1>1. /\ <<"parse_lvalue", "=", "parse_expr">> \in Seq(Quiet(BodySteps))
  BY QuietTypes, QuietBodies
<1>2. /\ Head(todo) \in {"parse_assign"}
      /\ \E d \in Seq(Quiet(BodySteps)) : Do(d)
  BY <1>1, FailIsCalm DEF parse_assign, Now, Break
<1> QED
  BY <1>2, StatementDo DEF StatementSteps, Marks, Loops, Scopes, Bodies, Params

LEMMA ParseVarDecl == ASSUME IInv, parse_var_decl PROVE IInv'
<1>1. /\ <<"var", "parse_type_mod", "parse_type", "name", "parse_var_decl:=", "insert">> \in Seq(Quiet(BodySteps))
      /\ <<"=", "parse_var_decl:init">> \in Seq(Quiet(BodySteps))
      /\ <<"parse_array">> \in Seq(Quiet(BodySteps)) /\ <<"parse_expr">> \in Seq(Quiet(BodySteps))
  BY QuietTypes, QuietBodies
<1>2. /\ Head(todo) \in {"parse_var_decl", "parse_var_decl:=", "parse_var_decl:init"}
      /\ \E d \in Seq(Quiet(BodySteps)) : Do(d)
  BY <1>1, FailIsCalm DEF parse_var_decl, Now, Break
<1> QED
  BY <1>2, StatementDo DEF StatementSteps, Marks, Loops, Scopes, Bodies, Params

LEMMA ParseArray == ASSUME IInv, parse_array PROVE IInv'
<1>1. /\ <<"block_left", "parse_expr", "parse_array:arg_sep", "block_right">> \in Seq(Quiet(BodySteps))
      /\ <<"arg_sep", "parse_expr", "parse_array:arg_sep">> \in Seq(Quiet(BodySteps))
  BY QuietTypes, QuietBodies
<1>2. /\ Head(todo) \in {"parse_array", "parse_array:arg_sep"}
      /\ \E d \in Seq(Quiet(BodySteps)) : Do(d)
  BY <1>1, FailIsCalm DEF parse_array, Now, Break
<1> QED
  BY <1>2, StatementDo DEF StatementSteps, Marks, Loops, Scopes, Bodies, Params

LEMMA InsertStep == ASSUME IInv, Insert PROVE IInv'
<1>1. /\ <<"diag">> \in Seq(Quiet(BodySteps))
  BY QuietTypes, QuietBodies
<1>2. /\ Head(todo) \in {"insert"}
      /\ \E d \in Seq(Quiet(BodySteps)) : Do(d)
  BY <1>1, FailIsCalm DEF Insert, Now, Break
<1> QED
  BY <1>2, StatementDo DEF StatementSteps, Marks, Loops, Scopes, Bodies, Params

LEMMA ParseExit == ASSUME IInv, parse_exit PROVE IInv'
<1>1. /\ <<"exit">> \in Seq(Quiet(BodySteps))
  BY QuietTypes, QuietBodies
<1>2. /\ Head(todo) \in {"parse_exit"}
      /\ \E d \in Seq(Quiet(BodySteps)) : Do(d)
  BY <1>1, FailIsCalm DEF parse_exit, Now, Break
<1> QED
  BY <1>2, StatementDo DEF StatementSteps, Marks, Loops, Scopes, Bodies, Params

LEMMA ParseParenCond == ASSUME IInv, parse_paren_cond PROVE IInv'
<1>1. /\ <<"(", "parse_expr", ")">> \in Seq(Quiet(BodySteps))
  BY QuietTypes, QuietBodies
<1>2. /\ Head(todo) \in {"parse_paren_cond"}
      /\ \E d \in Seq(Quiet(BodySteps)) : Do(d)
  BY <1>1, FailIsCalm DEF parse_paren_cond, Now, Break
<1> QED
  BY <1>2, StatementDo DEF StatementSteps, Marks, Loops, Scopes, Bodies, Params

LEMMA ParseCondition == ASSUME IInv, parse_condition PROVE IInv'
<1>1. /\ <<"if", "parse_paren_cond", "parse_body", "parse_condition:else">> \in Seq(Quiet(BodySteps))
      /\ <<"elif", "parse_paren_cond", "parse_body", "parse_condition:else">> \in Seq(Quiet(BodySteps))
      /\ <<"else", "parse_body">> \in Seq(Quiet(BodySteps))
  BY QuietTypes, QuietBodies
<1>2. /\ Head(todo) \in {"parse_condition", "parse_condition:else"}
      /\ \E d \in Seq(Quiet(BodySteps)) : Do(d)
  BY <1>1, FailIsCalm DEF parse_condition, Now, Break
<1> QED
  BY <1>2, StatementDo DEF StatementSteps, Marks, Loops, Scopes, Bodies, Params

LEMMA ParseWhile == ASSUME IInv, parse_while PROVE IInv'
<1>1. /\ <<"while", "parse_paren_cond", "loop_depth++">> \in Seq(Quiet(BodySteps))
  BY QuietTypes, QuietBodies
<1>2. /\ Head(todo) \in {"parse_while"}
      /\ \E d \in Seq(Quiet(BodySteps)) : Do(d)
  BY <1>1, FailIsCalm DEF parse_while, Now, Break
<1> QED
  BY <1>2, StatementDo DEF StatementSteps, Marks, Loops, Scopes, Bodies, Params

LEMMA ParseFor == ASSUME IInv, parse_for PROVE IInv'
<1>1. /\ <<"for", "(", "parse_for:scope">> \in Seq(Quiet(BodySteps))
      /\ <<"parse_var_decl">> \in Seq(Quiet(BodySteps))
      /\ <<"parse_assign">> \in Seq(Quiet(BodySteps)) /\ <<"parse_expr">> \in Seq(Quiet(BodySteps))
  BY QuietTypes, QuietBodies
<1>2. /\ Head(todo) \in {"parse_for", "parse_for:init", "parse_for:cond", "parse_for:step"}
      /\ \E d \in Seq(Quiet(BodySteps)) : Do(d)
  BY <1>1, FailIsCalm DEF parse_for, Now, Break
<1> QED
  BY <1>2, StatementDo DEF StatementSteps, Marks, Loops, Scopes, Bodies, Params

LEMMA ParseBody == ASSUME IInv, parse_body PROVE IInv'
<1>1. /\ <<"block_left", "parse_body:scope">> \in Seq(Quiet(BodySteps))
      /\ <<"parse_line", "parse_body:line">> \in Seq(Quiet(BodySteps))
  BY QuietTypes, QuietBodies
<1>2. /\ Head(todo) \in {"parse_body", "parse_body:line"}
      /\ \E d \in Seq(Quiet(BodySteps)) : Do(d)
  BY <1>1, FailIsCalm DEF parse_body, Now, Break
<1> QED
  BY <1>2, StatementDo DEF StatementSteps, Marks, Loops, Scopes, Bodies, Params

-----------------------------------------------------------------------------
(***************************************************************************)
(* Declarations                                                            *)
(***************************************************************************)
LEMMA ParseTypedef == ASSUME IInv, parse_typedef PROVE IInv'
<1>1. /\ <<"typedef", "parse_type", "->", "name", "insert">> \in Seq(Quiet(Steps))
  BY QuietTypes, QuietBodies, QuietInner, QuietSteps
<1>2. /\ Head(todo) \in {"parse_typedef"}
      /\ \E d \in Seq(Quiet(Steps)) : Do(d)
  BY <1>1, FailIsCalm DEF parse_typedef, Now, Break
<1> QED
  BY <1>2, OuterDo DEF OuterSteps, Marks, Loops, Scopes, Bodies, Params

LEMMA ParseBlockDecl == ASSUME IInv, parse_block_decl PROVE IInv'
<1>1. /\ <<"block", "name", "block_left", "insert", "parse_block_decl:first">> \in Seq(Quiet(Steps))
      /\ <<"block_right", "diag">> \in Seq(Quiet(Steps)) /\ <<"block_right">> \in Seq(Quiet(Steps))
      /\ <<"parse_field", "end_line", "parse_block_decl:next">> \in Seq(Quiet(Steps))
  BY QuietTypes, QuietBodies, QuietInner, QuietSteps
<1>2. /\ Head(todo) \in {"parse_block_decl", "parse_block_decl:first", "parse_block_decl:next"}
      /\ \E d \in Seq(Quiet(Steps)) : Do(d)
  BY <1>1, FailIsCalm DEF parse_block_decl, Now, Break
<1> QED
  BY <1>2, OuterDo DEF OuterSteps, Marks, Loops, Scopes, Bodies, Params

LEMMA ParseField == ASSUME IInv, parse_field PROVE IInv'
<1>1. /\ <<"parse_type_mod", "parse_type", "name", "insert">> \in Seq(Quiet(Steps))
  BY QuietTypes, QuietBodies, QuietInner, QuietSteps
<1>2. /\ Head(todo) \in {"parse_field"}
      /\ \E d \in Seq(Quiet(Steps)) : Do(d)
  BY <1>1, FailIsCalm DEF parse_field, Now, Break
<1> QED
  BY <1>2, OuterDo DEF OuterSteps, Marks, Loops, Scopes, Bodies, Params

LEMMA ParseUse == ASSUME IInv, parse_use PROVE IInv'
<1>1. /\ <<"use", "name", "parse_use:find">> \in Seq(Quiet(Steps))
      /\ <<"insert_std">> \in Seq(Quiet(Steps))
  BY QuietTypes, QuietBodies, QuietInner, QuietSteps
<1>2. /\ Head(todo) \in {"parse_use", "parse_use:find"}
      /\ \E d \in Seq(Quiet(Steps)) : Do(d)
  BY <1>1, FailIsCalm DEF parse_use, Now, Break
<1> QED
  BY <1>2, OuterDo DEF OuterSteps, Marks, Loops, Scopes, Bodies, Params


LEMMA MainStep == ASSUME IInv, parse_main PROVE IInv'
<1>1. /\ <<"diag", "main", "parse_body">> \in Seq(Quiet(Steps))
      /\ <<"main", "parse_body">> \in Seq(Quiet(Steps))
  BY QuietTypes, QuietBodies, QuietInner, QuietSteps
<1>2. PICK d \in Seq(Quiet(Steps)) : Put(d)
  BY <1>1 DEF parse_main
<1>3. Head(todo) = "parse_main" /\ todo[1] = "parse_main"
  BY HeadFacts DEF parse_main, Now
<1>4. Calm(Head(todo), d) /\ Head(todo) \notin Loops \cup Scopes \cup Bodies
  BY <1>3 DEF Calm, OuterSteps, Loops, Scopes, Bodies
<1>5. TypeOk' /\ UNCHANGED Context
  BY DEF IInv, TypeOk, parse_main, symbols, Context
<1> QED
  BY <1>2, <1>3, <1>4, <1>5, CalmPut

(* Whatever ktl_parse_top_decl is to call, ktl_parse_file goes on after it.*)
LEMMA FileStep == ASSUME IInv, parse_file PROVE IInv'
<1>1. PICK e \in {<<"parse_main">>, <<"parse_use">>, <<"parse_var_decl", "end_line">>,
                  <<"parse_func_decl">>, <<"parse_typedef">>, <<"parse_block_decl">>,
                  <<"diag", "skip">>} : Do(e \o <<"parse_file">>)
  BY DEF parse_file
<1>2. e \in Seq(Quiet(Steps)) /\ <<"parse_file">> \in Seq(Quiet(Steps))
  <2>1. /\ <<"parse_main">> \in Seq(Quiet(Steps)) /\ <<"parse_use">> \in Seq(Quiet(Steps))
        /\ <<"parse_var_decl", "end_line">> \in Seq(Quiet(Steps))
        /\ <<"parse_func_decl">> \in Seq(Quiet(Steps)) /\ <<"parse_typedef">> \in Seq(Quiet(Steps))
        /\ <<"parse_block_decl">> \in Seq(Quiet(Steps)) /\ <<"diag", "skip">> \in Seq(Quiet(Steps))
        /\ <<"parse_file">> \in Seq(Quiet(Steps))
    BY QuietTypes, QuietBodies, QuietInner, QuietSteps
  <2> QED
    BY <1>1, <2>1
<1>3. PICK d : d = e \o <<"parse_file">>
  OBVIOUS
<1>4. d \in Seq(Quiet(Steps)) /\ Len(d) > 0 /\ d[Len(d)] = "parse_file"
  <2>1. PICK f \in Seq(Quiet(Steps)) : f = <<"parse_file">>
    BY <1>2
  <2>2. Len(f) = 1 /\ f[1] = "parse_file"
    BY <2>1
  <2>3. /\ e \o f \in Seq(Quiet(Steps)) /\ Len(e) \in Nat /\ Len(e \o f) = Len(e) + Len(f)
        /\ \A i \in 1 .. Len(f) : (e \o f)[Len(e) + i] = f[i]
    BY <1>2, ConcatFacts
  <2> QED
    BY <1>3, <2>1, <2>2, <2>3
<1>5. Head(todo) = "parse_file" /\ todo[1] = "parse_file"
  BY HeadFacts DEF parse_file, Now
<1>6. Calm(Head(todo), d) /\ Head(todo) \notin Loops \cup Scopes \cup Bodies
  BY <1>4, <1>5 DEF Calm, OuterSteps, Loops, Scopes, Bodies
<1> QED
  BY <1>1, <1>3, <1>5, <1>6, CalmDo

LEMMA EndStep == ASSUME IInv, EndOfFile PROVE IInv'
<1>1. /\ todo' = todo /\ Head(todo) = "parse_file" /\ todo[1] = "parse_file"
      /\ UNCHANGED Context
  BY HeadFacts DEF EndOfFile, Now, context, symbols, Context
<1>2. TypeOk'
  BY DEF IInv, TypeOk, EndOfFile, context, symbols
<1>3. Good(todo) /\ Fits(todo) /\ StrayInv
  BY DEF IInv
<1>4. Stayed(todo)
  <2>1. todo[1] \notin Strays \cup {"parse_break"}
    BY <1>1 DEF Strays
  <2>2. Len(todo) \in Nat
    BY HeadFacts
  <2> QED
    BY <1>1, <1>3, <2>1, <2>2 DEF StrayInv, Stayed
<1> QED
  BY <1>1, <1>2, <1>3, <1>4, Calmed

-----------------------------------------------------------------------------
(***************************************************************************)
(* The cursor and the symbols                                              *)
(***************************************************************************)
LEMMA QuietNothing == <<>> \in Seq(Quiet(TypeSteps)) /\ <<>> \in Seq(Quiet(Steps))
OBVIOUS

LEMMA ReadStep == ASSUME IInv, Read PROVE IInv'
<1>1. Head(todo) \in TypeSteps /\ Head(todo) # "diag"
  BY DEF Read, TypeSteps, AllTokens, Keywords, Punctuation
<1>2. Calm(Head(todo), <<>>) /\ todo[1] # "diag" /\ Head(todo) \notin Loops \cup Scopes \cup Bodies
  BY <1>1, HeadFacts, MarksApart, QuietNothing DEF Calm, Marks
<1>3. Put(<<>>) /\ UNCHANGED Context
  BY DEF Read, context, symbols, Context
<1>4. TypeOk'
  BY DEF IInv, TypeOk, Read, Upcoming, context, symbols
<1> QED
  BY <1>2, <1>3, <1>4, CalmPut

LEMMA MismatchStep == ASSUME IInv, Mismatch PROVE IInv'
<1>1. Head(todo) \in TypeSteps /\ Head(todo) # "diag"
  BY DEF Mismatch, TypeSteps, AllTokens, Keywords, Punctuation
<1> QED
  BY <1>1, FailIsCalm, TypeDo DEF Mismatch

LEMMA SkipStep == ASSUME IInv, Skip PROVE IInv'
<1>1. Head(todo) = "skip" /\ todo[1] = "skip"
  BY HeadFacts DEF Skip, Now
<1>2. Calm(Head(todo), <<>>) /\ Head(todo) \notin Loops \cup Scopes \cup Bodies
  BY <1>1, QuietNothing DEF Calm, OuterSteps, Loops, Scopes, Bodies
<1>3. Put(<<>>) /\ UNCHANGED Context
  BY DEF Skip, context, symbols, Context
<1>4. TypeOk'
  BY DEF IInv, TypeOk, Skip, Upcoming, context, symbols
<1> QED
  BY <1>1, <1>2, <1>3, <1>4, CalmPut

LEMMA ModStep == ASSUME IInv, parse_type_mod PROVE IInv'
<1>1. /\ tok \in {"const", "mutable"} => <<tok, "parse_type_mod">> \in Seq(Quiet(TypeSteps))
      /\ <<"diag">> \in Seq(Quiet(TypeSteps)) /\ <<>> \in Seq(Quiet(TypeSteps))
  BY QuietTypes
<1>2. PICK d \in Seq(Quiet(TypeSteps)) : Put(d)
  BY <1>1 DEF parse_type_mod
<1>3. Head(todo) = "parse_type_mod" /\ todo[1] = "parse_type_mod"
  BY HeadFacts DEF parse_type_mod, Now
<1>4. Calm(Head(todo), d) /\ Head(todo) \notin Loops \cup Scopes \cup Bodies
  BY <1>3 DEF Calm, TypeSteps, Loops, Scopes, Bodies
<1>5. TypeOk'
  BY DEF IInv, TypeOk, parse_type_mod, context
<1>6. UNCHANGED Context
  BY DEF parse_type_mod, context, Context
<1> QED
  BY <1>2, <1>3, <1>4, <1>5, <1>6, CalmPut

LEMMA InsertFuncStep == ASSUME IInv, InsertFunc PROVE IInv'
<1>1. Head(todo) \in {"insert_func", "insert_std"} /\ Put(<<>>) /\ UNCHANGED Context
  BY DEF InsertFunc, Now, context, Context
<1>2. /\ Calm(Head(todo), <<>>) /\ todo[1] # "diag"
      /\ Head(todo) \notin Loops \cup Scopes \cup Bodies
  BY <1>1, HeadFacts, QuietNothing DEF Calm, OuterSteps, Loops, Scopes, Bodies
<1>3. TypeOk'
  <2>1. PICK f \in FuncNames :
          /\ \/ UNCHANGED funcs
             \/ \E state \in {"std", "declared"} : funcs' = [funcs EXCEPT ![f] = state]
          /\ status' \in {status, "crashed"} /\ errors' \in BOOLEAN /\ func' \in {func, f}
          /\ UNCHANGED <<tok, context, mod, param_count>>
    BY DEF InsertFunc, IInv, TypeOk
  <2> QED
    BY <2>1 DEF IInv, TypeOk, context
<1> QED
  BY <1>1, <1>2, <1>3, CalmPut

LEMMA SetParamsStep == ASSUME IInv, SetParams PROVE IInv'
<1>1. Head(todo) = "set_params" /\ Put(<<>>) /\ UNCHANGED Context
  BY DEF SetParams, Now, context, Context
<1>2. <<>> \in Seq(Quiet(InnerSteps))
  OBVIOUS
<1>3. /\ Calm(Head(todo), <<>>) /\ todo[1] # "diag"
      /\ Head(todo) \notin Loops \cup Scopes \cup Bodies
  BY <1>1, <1>2, HeadFacts DEF Calm, FuncSteps, Loops, Scopes, Bodies
<1>4. TypeOk'
  BY DEF SetParams, IInv, TypeOk, context
<1> QED
  BY <1>1, <1>3, <1>4, CalmPut


-----------------------------------------------------------------------------
(***************************************************************************)
(* Break, continue and return; parameters                                  *)
(***************************************************************************)
LEMMA BelowFacts ==
  ASSUME IInv, Head(todo) # "diag", Head(todo) # "parse_file",
         Head(todo) \notin Loops \cup Scopes \cup Bodies
  PROVE  /\ Tail(todo) \in Seq(Steps) /\ Good(Tail(todo)) /\ Rest(Tail(todo)) /\ Len(Tail(todo)) # 0
         /\ Fits(Tail(todo)) /\ Stayed(Tail(todo)) /\ Under(Head(todo), Tail(todo))
<1>1. Good(todo) /\ Fits(todo) /\ StrayInv
  BY DEF IInv
<1>2. Good(Tail(todo)) /\ Under(Head(todo), Tail(todo))
  BY <1>1, SplitRest
<1>3. Fits(Tail(todo))
  BY <1>1, FitsTail
<1>4. Stayed(Tail(todo))
  BY <1>1, HeadFacts, StrayFree
<1> QED
  BY <1>2, <1>3, <1>4 DEF Good, Rest

LEMMA StrayAbove ==
  ASSUME NEW d \in Seq(Steps), NEW t \in Seq(Steps), Stayed(t), todo' = d \o t, Len(d) > 0,
         \A i \in 1 .. Len(d) :
           /\ d[i] = "parse_break" => i = 1
           /\ d[i] \in Strays => i = 1 \/ (i = 2 /\ d[1] = "diag"),
         d[1] = "parse_break" => tok' \in {"break", "continue"},
         d[1] \in {"break", "continue"} => errors' \/ loop_depth' # 0,
         d[1] = "return" => errors' \/ in_func'
  PROVE  StrayInv'
<1>1. /\ Len(d) \in Nat /\ Len(t) \in Nat /\ Len(todo') = Len(d) + Len(t)
      /\ \A i \in 1 .. Len(d) : todo'[i] = d[i]
      /\ \A i \in 1 .. Len(t) : todo'[Len(d) + i] = t[i]
  BY ConcatFacts
<1>2. todo'[1] = d[1]
  BY <1>1
<1>3. ASSUME NEW i \in 1 .. Len(todo')
      PROVE  /\ todo'[i] = "parse_break" => i = 1
             /\ todo'[i] \in Strays => i = 1 \/ (i = 2 /\ todo'[1] = "diag")
  <2>1. CASE i <= Len(d)
    BY <1>1, <1>2, <2>1
  <2>2. CASE i > Len(d)
    <3>1. i - Len(d) \in 1 .. Len(t) /\ i = Len(d) + (i - Len(d))
      BY <1>1, <2>2
    <3> QED
      BY <1>1, <3>1 DEF Stayed
  <2> QED
    BY <1>1, <2>1, <2>2
<1> QED
  BY <1>2, <1>3 DEF StrayInv

(* The steps d are put in the place of one that marks nothing, which leaves*)
(* the context as it is; they may be about what is read next.              *)
LEMMA Above ==
  ASSUME TypeOk', UNCHANGED Context, NEW t, Rest(t), Len(t) # 0, Fits(t), Stayed(t),
         NEW d \in Seq(Steps), todo' = d \o t,
         Shaped(d), \A i \in 1 .. Len(d) : Under(d[i], t) /\ d[i] \notin Marks,
         StrayInv'
  PROVE  IInv'
<1>1. PICK n : n = d \o t
  OBVIOUS
<1>2. Good(n)
  BY <1>1, JoinRest
<1>3. Fits(n)
  BY <1>1, FitsAbove DEF Rest
<1>4. Fits(n)'
  BY <1>3, FitsKept
<1>5. Good(todo)' /\ Fits(todo)'
  BY <1>1, <1>2, <1>4 DEF Good, Rest, Shaped, MayStand, Fits, ScopesFit, FuncFits
<1> QED
  BY <1>5 DEF IInv

(* Types may stand wherever statements may.                                *)
LEMMA UnderStatement ==
  ASSUME NEW h \in StatementSteps, NEW t, Under(h, t), NEW x \in BodySteps
  PROVE  Under(x, t)
<1>1. h \notin TypeSteps
  BY Classes
<1> QED
  BY <1>1 DEF Under, MayStand, InnerSteps

LEMMA UnmarkedShape ==
  ASSUME NEW d, \A i \in 1 .. Len(d) : d[i] \notin Marks
  PROVE  Shaped(d)
BY DEF Shaped, MayStand, Marks

LEMMA DiagStep == ASSUME IInv, DiagEmit PROVE IInv'
<1>1. /\ Head(todo) = "diag" /\ todo[1] = "diag" /\ todo' = <<>> \o Tail(todo) /\ errors' = TRUE
      /\ UNCHANGED Context
  BY HeadFacts DEF DiagEmit, Now, Put, context, symbols, Context
<1>2. Good(todo) /\ Fits(todo) /\ StrayInv
  BY DEF IInv
<1>3. PICK t : t = Tail(todo)
  OBVIOUS
<1>4. Good(t) /\ Fits(t)
  BY <1>1, <1>2, <1>3, SplitRest, FitsTail DEF Loops, Scopes, Bodies
<1>5. todo' = t
  BY <1>1, <1>3, <1>4 DEF Good, Rest
<1>6. TypeOk'
  BY DEF IInv, TypeOk, DiagEmit, context, symbols
<1>7. /\ Len(t) \in Nat /\ Len(t) > 0 /\ Len(todo) = Len(t) + 1
      /\ \A i \in 1 .. Len(t) : t[i] = todo[i + 1]
  BY <1>3, <1>4, HeadFacts, TailFacts DEF Good
<1>8. StrayInv'
  <2>1. \A i \in 1 .. Len(t) : i + 1 \in 1 .. Len(todo) /\ i + 1 # 1 /\ (i + 1 = 2 => i = 1)
    BY <1>7
  <2>2. \A i \in 1 .. Len(t) : t[i] # "parse_break" /\ (t[i] \in Strays => i = 1)
    BY <1>2, <1>7, <2>1 DEF StrayInv
  <2> QED
    BY <1>1, <1>5, <1>7, <2>2 DEF StrayInv
<1>9. Fits(t)'
  BY <1>1, <1>4, FitsKept
<1>10. Good(todo)' /\ Fits(todo)'
  BY <1>4, <1>5, <1>9 DEF Good, Rest, Shaped, MayStand, Fits, ScopesFit, FuncFits
<1> QED
  BY <1>6, <1>8, <1>10 DEF IInv

LEMMA BreakStep == ASSUME IInv, parse_break PROVE IInv'
<1>1. Head(todo) = "parse_break" /\ Head(todo) \in StatementSteps /\ Head(todo) \notin Loops \cup Scopes \cup Bodies
  BY DEF parse_break, Now, StatementSteps, Loops, Scopes, Bodies
<1>2. tok \in {"break", "continue"}
  BY <1>1, HeadFacts DEF IInv, StrayInv
<1>3. PICK d \in {<<"diag", tok>>, <<tok>>} : Do(d) /\ (d = <<tok>> => loop_depth # 0)
  BY DEF parse_break
<1>4. "diag" \in TypeSteps /\ tok \in TypeSteps
  BY <1>2 DEF TypeSteps, AllTokens, Keywords
<1>5. d \in Seq(TypeSteps) /\ Len(d) > 0
  <2>1. /\ <<"diag", tok>> \in Seq(TypeSteps) /\ <<tok>> \in Seq(TypeSteps)
        /\ Len(<<"diag", tok>>) = 2 /\ Len(<<tok>>) = 1
    BY <1>4
  <2>2. CASE d = <<"diag", tok>>
    BY <2>1, <2>2
  <2>3. CASE d = <<tok>>
    BY <2>1, <2>3
  <2> QED
    BY <1>3, <2>2, <2>3
<1>6. \A i \in 1 .. Len(d) : d[i] \in TypeSteps /\ d[i] \in BodySteps /\ d[i] \notin Marks /\ d[i] # "parse_break"
  BY <1>5, ElementFacts, MarksApart DEF BodySteps
<1>7. d \in Seq(Steps)
  BY <1>5 DEF Steps, InnerSteps, BodySteps
<1>8. TypeOk' /\ UNCHANGED Context /\ todo' = d \o Tail(todo)
  BY <1>3 DEF Do, Put, IInv, TypeOk, context, symbols, Context
<1>9. StrayInv'
  <2>1. CASE d = <<"diag", tok>>
    <3>1. Len(d) = 2 /\ d[1] = "diag" /\ d[2] = tok
      BY <2>1
    <3>2. \A i \in 1 .. Len(d) : i = 1 \/ i = 2
      BY <3>1
    <3> QED
      BY <1>1, <1>2, <1>5, <1>6, <1>7, <1>8, <3>1, <3>2, BelowFacts, StrayAbove DEF Strays
  <2>2. CASE d = <<tok>>
    <3>1. Len(d) = 1 /\ d[1] = tok /\ loop_depth # 0 /\ loop_depth' = loop_depth
      BY <1>3, <1>8, <2>2 DEF Context
    <3>2. \A i \in 1 .. Len(d) : i = 1
      BY <3>1
    <3> QED
      BY <1>1, <1>2, <1>5, <1>6, <1>7, <1>8, <3>1, <3>2, BelowFacts, StrayAbove DEF Strays
  <2> QED
    BY <1>3, <2>1, <2>2
<1> QED
  BY <1>1, <1>6, <1>7, <1>8, <1>9, BelowFacts, UnderStatement, UnmarkedShape, Above

LEMMA ReturnStep == ASSUME IInv, parse_return PROVE IInv'
<1>1. CASE Now("parse_return")
  <2>1. Head(todo) = "parse_return" /\ Head(todo) \in StatementSteps /\ Head(todo) \notin Loops \cup Scopes \cup Bodies
    BY <1>1 DEF Now, StatementSteps, Loops, Scopes, Bodies
  <2>2. PICK d : /\ Do(d)
                 /\ \/ in_func /\ d = <<"return", "parse_return:value">>
                    \/ d = <<"diag", "return", "parse_return:value">>
    BY <1>1, <2>1 DEF parse_return, Now
  <2>3. /\ "return" \in BodySteps /\ "parse_return:value" \in BodySteps /\ "diag" \in BodySteps
        /\ "return" \notin Marks /\ "parse_return:value" \notin Marks /\ "diag" \notin Marks
    BY DEF BodySteps, TypeSteps, StatementSteps, AllTokens, Keywords, Marks, Loops, Scopes, Bodies, Params
  <2>4. d \in Seq(BodySteps) /\ Len(d) > 0
    <3>1. /\ <<"return", "parse_return:value">> \in Seq(BodySteps)
          /\ Len(<<"return", "parse_return:value">>) = 2
          /\ <<"diag", "return", "parse_return:value">> \in Seq(BodySteps)
          /\ Len(<<"diag", "return", "parse_return:value">>) = 3
      BY <2>3
    <3>2. \/ d = <<"return", "parse_return:value">>
          \/ d = <<"diag", "return", "parse_return:value">>
      BY <2>2
    <3>3. CASE d = <<"return", "parse_return:value">>
      BY <3>1, <3>3
    <3>4. CASE d = <<"diag", "return", "parse_return:value">>
      BY <3>1, <3>4
    <3> QED
      BY <3>2, <3>3, <3>4
  <2>5. d \in Seq(Steps) /\ \A i \in 1 .. Len(d) : d[i] \in BodySteps
    BY <2>4, ElementFacts DEF Steps, InnerSteps
  <2>6. TypeOk' /\ UNCHANGED Context /\ todo' = d \o Tail(todo)
    BY <2>2 DEF Do, Put, IInv, TypeOk, context, symbols, Context
  <2>7. StrayInv' /\ \A i \in 1 .. Len(d) : d[i] \notin Marks
    <3>1. CASE in_func /\ d = <<"return", "parse_return:value">>
      <4>1. Len(d) = 2 /\ d[1] = "return" /\ d[2] = "parse_return:value" /\ in_func'
        BY <2>6, <3>1 DEF Context
      <4>2. \A i \in 1 .. Len(d) : i = 1 \/ i = 2
        BY <4>1
      <4> QED
        BY <2>1, <2>3, <2>4, <2>5, <2>6, <4>1, <4>2, BelowFacts, StrayAbove DEF Strays
    <3>2. CASE d = <<"diag", "return", "parse_return:value">>
      <4>1. Len(d) = 3 /\ d[1] = "diag" /\ d[2] = "return" /\ d[3] = "parse_return:value"
        BY <3>2
      <4>2. \A i \in 1 .. Len(d) : i = 1 \/ i = 2 \/ i = 3
        BY <4>1
      <4> QED
        BY <2>1, <2>3, <2>4, <2>5, <2>6, <4>1, <4>2, BelowFacts, StrayAbove DEF Strays
    <3> QED
      BY <2>2, <3>1, <3>2
  <2> QED
    BY <2>1, <2>5, <2>6, <2>7, BelowFacts, UnderStatement, UnmarkedShape, Above
<1>2. CASE Now("parse_return:value")
  <2>1. <<>> \in Seq(Quiet(BodySteps)) /\ <<"parse_expr">> \in Seq(Quiet(BodySteps))
    BY QuietBodies
  <2>2. /\ Head(todo) = "parse_return:value"
        /\ \E d \in Seq(Quiet(BodySteps)) : Do(d)
    BY <1>2, <2>1 DEF parse_return, Now
  <2> QED
    BY <2>2, StatementDo DEF StatementSteps, Marks, Loops, Scopes, Bodies, Params
<1> QED
  BY <1>1, <1>2 DEF parse_return

LEMMA LineStep == ASSUME IInv, parse_line PROVE IInv'
<1>1. Head(todo) = "parse_line" /\ Head(todo) \in StatementSteps /\ Head(todo) \notin Marks
  BY DEF parse_line, Now, StatementSteps, Marks, Loops, Scopes, Bodies, Params
<1>2. CASE tok \in {"break", "continue"}
  <2>1. PICK d : d = <<"parse_break", "end_line">>
    OBVIOUS
  <2>2. Do(d)
    BY <1>2, <2>1 DEF parse_line
  <2>3. /\ "parse_break" \in BodySteps /\ "end_line" \in BodySteps
        /\ "parse_break" \notin Marks /\ "end_line" \notin Marks
    BY DEF BodySteps, TypeSteps, StatementSteps, AllTokens, Punctuation, Marks, Loops, Scopes, Bodies, Params
  <2>4. d \in Seq(BodySteps) /\ Len(d) = 2 /\ d[1] = "parse_break" /\ d[2] = "end_line"
    BY <2>1, <2>3
  <2>5. d \in Seq(Steps)
    BY <2>4 DEF Steps, InnerSteps
  <2>6. \A i \in 1 .. Len(d) : (i = 1 \/ i = 2) /\ d[i] \in BodySteps /\ d[i] \notin Marks
    BY <2>3, <2>4
  <2>7. TypeOk' /\ UNCHANGED Context /\ todo' = d \o Tail(todo) /\ tok' = tok
    BY <2>2 DEF Do, Put, IInv, TypeOk, context, symbols, Context
  <2>8. /\ Tail(todo) \in Seq(Steps) /\ Rest(Tail(todo)) /\ Len(Tail(todo)) # 0
        /\ Fits(Tail(todo)) /\ Stayed(Tail(todo)) /\ Under(Head(todo), Tail(todo))
    BY <1>1, BelowFacts DEF Marks
  <2>9. StrayInv'
    <3>1. d[1] \notin Strays /\ d[2] \notin Strays /\ d[2] # "parse_break"
      BY <2>4 DEF Strays
    <3>2. \A i \in 1 .. Len(d) : d[i] \notin Strays /\ (d[i] = "parse_break" => i = 1)
      BY <2>6, <3>1
    <3>3. d[1] \notin {"break", "continue"} /\ d[1] # "return" /\ tok' \in {"break", "continue"}
      BY <1>2, <2>4, <2>7
    <3>4. /\ Len(d) > 0 /\ (d[1] = "parse_break" => tok' \in {"break", "continue"})
          /\ d[1] \in {"break", "continue"} => errors' \/ loop_depth' # 0
          /\ d[1] = "return" => errors' \/ in_func'
      BY <2>4, <3>3
    <3>5. \A i \in 1 .. Len(d) :
            /\ d[i] = "parse_break" => i = 1
            /\ d[i] \in Strays => i = 1 \/ (i = 2 /\ d[1] = "diag")
      BY <3>2
    <3> QED
      BY <2>5, <2>7, <2>8, <3>4, <3>5, StrayAbove
  <2> QED
    BY <1>1, <2>5, <2>6, <2>7, <2>8, <2>9, UnderStatement, UnmarkedShape, Above
<1>3. CASE tok \notin {"break", "continue"}
  <2>1. /\ <<"parse_var_decl", "end_line">> \in Seq(Quiet(BodySteps))
        /\ <<"parse_exit", "end_line">> \in Seq(Quiet(BodySteps))
        /\ <<"parse_assign", "end_line">> \in Seq(Quiet(BodySteps))
        /\ <<"parse_return", "end_line">> \in Seq(Quiet(BodySteps))
        /\ <<"parse_call", "end_line">> \in Seq(Quiet(BodySteps))
        /\ <<"parse_condition">> \in Seq(Quiet(BodySteps)) /\ <<"parse_while">> \in Seq(Quiet(BodySteps))
        /\ <<"parse_for">> \in Seq(Quiet(BodySteps))
    BY QuietTypes, QuietBodies
  <2>2. \E d \in Seq(Quiet(BodySteps)) : Do(d)
    BY <1>3, <2>1, FailIsCalm DEF parse_line
  <2> QED
    BY <1>1, <2>2, StatementDo
<1> QED
  BY <1>2, <1>3


LEMMA FuncDeclStep == ASSUME IInv, parse_func_decl PROVE IInv'
<1>1. CASE Now("parse_func_decl")
  <2>1. <<"func", "parse_type_mod", "parse_type", "name", "insert_func", "(",
          "parse_func_decl:scope">> \in Seq(Quiet(Steps))
    BY QuietTypes, QuietBodies, QuietInner, QuietSteps
  <2>2. Head(todo) = "parse_func_decl" /\ \E d \in Seq(Quiet(Steps)) : Do(d)
    BY <1>1, <2>1 DEF parse_func_decl, Now
  <2> QED
    BY <2>2, OuterDo DEF OuterSteps, Marks, Loops, Scopes, Bodies, Params
<1>2. ASSUME NEW d \in Seq(Quiet(InnerSteps)), Do(d),
             Head(todo) \in {"parse_func_decl:param", "parse_func_decl:arg_sep"}
      PROVE  IInv'
  <2>1. /\ Calm(Head(todo), d) /\ todo[1] # "diag"
        /\ Head(todo) \notin Loops \cup Scopes \cup Bodies
    BY <1>2, HeadFacts DEF Calm, FuncSteps, Loops, Scopes, Bodies
  <2> QED
    BY <1>2, <2>1, CalmDo
<1>3. /\ Fail \in Seq(Quiet(InnerSteps)) /\ Break \in Seq(Quiet(InnerSteps))
      /\ <<"arg_sep", "parse_func_decl:param">> \in Seq(Quiet(InnerSteps))
  BY QuietTypes, QuietBodies, QuietInner DEF Fail, Break
<1>4. CASE Now("parse_func_decl:arg_sep")
  <2>1. /\ Head(todo) = "parse_func_decl:arg_sep"
        /\ \E d \in Seq(Quiet(InnerSteps)) : Do(d)
    BY <1>3, <1>4 DEF parse_func_decl, Now
  <2> QED
    BY <1>2, <2>1
<1>5. CASE Now("parse_func_decl:param") /\ (tok = ")" \/ param_count >= MaxParams)
  <2>1. /\ Head(todo) = "parse_func_decl:param"
        /\ \E d \in Seq(Quiet(InnerSteps)) : Do(d)
    BY <1>3, <1>5 DEF parse_func_decl, Now
  <2> QED
    BY <1>2, <2>1
<1>6. CASE Now("parse_func_decl:param") /\ ~(tok = ")" \/ param_count >= MaxParams)
  <2>1. PICK d : d = <<"parse_param", "parse_func_decl:arg_sep">>
    OBVIOUS
  <2>2. Do(d) /\ Head(todo) = "parse_func_decl:param"
    BY <1>6, <2>1 DEF parse_func_decl, Now
  <2>3. "parse_param" \in FuncSteps /\ "parse_func_decl:arg_sep" \in FuncSteps
    BY DEF FuncSteps
  <2>4. /\ d \in Seq(FuncSteps) /\ Len(d) = 2
        /\ d[1] = "parse_param" /\ d[2] = "parse_func_decl:arg_sep"
    BY <2>1, <2>3
  <2>5. d \in Seq(Steps) /\ \A i \in 1 .. Len(d) : d[i] \in FuncSteps
    <3>1. FuncSteps \subseteq Steps
      BY DEF Steps, InnerSteps
    <3>2. \A i \in 1 .. Len(d) : d[i] \in FuncSteps
      BY <2>4, ElementFacts
    <3> QED
      BY <2>4, <3>1, <3>2
  <2>6. /\ TypeOk' /\ UNCHANGED Context /\ todo' = d \o Tail(todo)
        /\ param_count < MaxParams /\ param_count \in Nat /\ MaxParams \in Nat
    BY <1>6, <2>2, ParserAssumption
       DEF Do, Put, IInv, TypeOk, context, symbols, Context, ParserAssumption
  <2>7. /\ Tail(todo) \in Seq(Steps) /\ Rest(Tail(todo)) /\ Len(Tail(todo)) # 0
        /\ Fits(Tail(todo)) /\ Stayed(Tail(todo)) /\ Under(Head(todo), Tail(todo))
    BY <2>2, BelowFacts DEF Loops, Scopes, Bodies
  <2>8. PICK t \in Seq(Steps) : t = Tail(todo)
    BY <2>7
  <2>9. \A i \in 1 .. Len(d) : Under(d[i], t)
    <3>1. Head(todo) \notin TypeSteps /\ Head(todo) \notin BodySteps
      BY <2>2, Classes DEF FuncSteps, BodySteps
    <3> QED
      BY <2>5, <2>7, <2>8, <3>1 DEF Under, MayStand, InnerSteps
  <2>10. Shaped(d)
    <3>1. \A i \in 1 .. Len(d) : \A j \in 1 .. i - 1 : i = 2
      BY <2>4
    <3>2. d[2] \notin Params /\ d[2] \notin Bodies /\ d[2] \notin Scopes
      BY <2>4 DEF Params, Bodies, Scopes
    <3> QED
      BY <3>1, <3>2 DEF Shaped, MayStand
  <2>11. Good(d \o t)
    BY <2>5, <2>7, <2>8, <2>9, <2>10, JoinRest
  <2>12. Fits(d \o t)
    <3>1. \A i \in 1 .. Len(d) : d[i] \notin Loops \cup Scopes \cup Bodies
      <4>1. \A i \in 1 .. Len(d) : i = 1 \/ i = 2
        BY <2>4
      <4> QED
        BY <2>4, <4>1 DEF Loops, Scopes, Bodies
    <3>2. /\ Pending(d \o t, Loops) = Pending(t, Loops)
          /\ Pending(d \o t, Scopes) = Pending(t, Scopes)
      BY <2>5, <3>1, PendingCalm
    <3>3. Has(d \o t, Bodies) <=> Has(t, Bodies)
      BY <2>5, <3>1, HasAbove
    <3> QED
      BY <2>6, <2>7, <2>8, <3>2, <3>3 DEF Fits, ScopesFit, FuncFits
  <2>13. Stayed(d \o t)
    <3>1. Stayed(d)
      BY <2>5, MarksApart DEF Stayed
    <3> QED
      BY <2>5, <2>7, <2>8, <3>1, StayedJoin
  <2> QED
    BY <2>6, <2>8, <2>11, <2>12, <2>13, Calmed
<1> QED
  BY <1>1, <1>4, <1>5, <1>6 DEF parse_func_decl

LEMMA ParamStep == ASSUME IInv, parse_param PROVE IInv'
<1>1. /\ Head(todo) \in Params /\ Head(todo) \in FuncSteps /\ Head(todo) # "diag"
      /\ Head(todo) # "parse_file" /\ Head(todo) \notin Loops \cup Scopes \cup Bodies
  BY DEF parse_param, Now, Params, FuncSteps, Loops, Scopes, Bodies
<1>2. PICK t \in Seq(Steps) : t = Tail(todo)
  BY <1>1, BelowFacts
<1>3. /\ Good(t) /\ Rest(t) /\ Len(t) # 0 /\ Fits(t) /\ Stayed(t) /\ Under(Head(todo), t)
  BY <1>1, <1>2, BelowFacts
<1>4. ~Has(t, Params) /\ ~Has(t, Bodies)
  <2>1. Head(todo) \notin TypeSteps /\ Head(todo) \notin BodySteps
    BY <1>1, Classes DEF BodySteps
  <2> QED
    BY <1>3, <2>1 DEF Under, MayStand, Has
<1>5. param_count < MaxParams /\ param_count \in Nat /\ MaxParams \in Nat
  <2>1. Has(todo, Params)
    BY <1>1, HeadFacts DEF Has
  <2> QED
    BY <2>1, ParserAssumption DEF IInv, Fits, FuncFits, TypeOk, ParserAssumption
<1>6. CASE Now("parse_param")
  <2>1. PICK d : d = <<"parse_type_mod", "parse_type", "name", "param">>
    OBVIOUS
  <2>2. Do(d)
    BY <1>6, <2>1 DEF parse_param, Now
  <2>3. /\ "parse_type_mod" \in TypeSteps /\ "parse_type" \in TypeSteps /\ "name" \in TypeSteps
        /\ "param" \in FuncSteps
    BY DEF TypeSteps, AllTokens, FuncSteps
  <2>4. /\ d \in Seq(TypeSteps \cup FuncSteps) /\ Len(d) = 4
        /\ d[1] \in TypeSteps /\ d[2] \in TypeSteps /\ d[3] \in TypeSteps /\ d[4] = "param"
    BY <2>1, <2>3
  <2>5. \A i \in 1 .. Len(d) : i = 1 \/ i = 2 \/ i = 3 \/ i = 4
    BY <2>4
  <2>6. d \in Seq(Steps) /\ \A i \in 1 .. Len(d) : d[i] \in TypeSteps \cup FuncSteps
    <3>1. TypeSteps \cup FuncSteps \subseteq Steps
      BY DEF Steps, InnerSteps, BodySteps
    <3>2. \A i \in 1 .. Len(d) : d[i] \in TypeSteps \cup FuncSteps
      BY <2>4, ElementFacts
    <3> QED
      BY <2>4, <3>1, <3>2
  <2>7. TypeOk' /\ UNCHANGED Context /\ todo' = d \o t
    BY <1>2, <2>2 DEF Do, Put, IInv, TypeOk, context, symbols, Context
  <2>8. \A i \in 1 .. Len(d) : Under(d[i], t)
    BY <1>4, <2>6 DEF Under, MayStand, Has, InnerSteps, BodySteps
  <2>9. Shaped(d)
    <3>1. \A i \in 1 .. Len(d) : d[i] \notin Bodies \cup Scopes /\ (d[i] \in Params => i = 4)
      BY <2>4, <2>5, MarksApart DEF Marks, Bodies, Scopes
    <3>2. \A i \in 1 .. Len(d) : \A j \in 1 .. i - 1 : i = 4 => d[j] \in TypeSteps
      BY <2>4, <2>5
    <3> QED
      BY <3>1, <3>2 DEF Shaped, MayStand
  <2>10. Good(d \o t)
    BY <1>3, <2>6, <2>8, <2>9, JoinRest
  <2>11. Fits(d \o t)
    <3>1. \A i \in 1 .. Len(d) : d[i] \notin Loops \cup Scopes \cup Bodies
      BY <2>4, <2>5, MarksApart DEF Marks, Loops, Bodies, Scopes
    <3>2. /\ Pending(d \o t, Loops) = Pending(t, Loops)
          /\ Pending(d \o t, Scopes) = Pending(t, Scopes)
      BY <2>6, <3>1, PendingCalm
    <3>3. Has(d \o t, Bodies) <=> Has(t, Bodies)
      BY <2>6, <3>1, HasAbove
    <3> QED
      BY <1>3, <1>5, <3>2, <3>3 DEF Fits, ScopesFit, FuncFits
  <2>12. Stayed(d \o t)
    <3>1. Stayed(d)
      <4>1. "parse_type_mod" \notin Strays /\ "parse_type" \notin Strays /\ "name" \notin Strays
        BY DEF Strays
      <4>2. d[1] \notin Strays /\ d[2] \notin Strays /\ d[3] \notin Strays /\ d[4] \notin Strays
        BY <2>1, <2>4, <4>1 DEF Strays
      <4> QED
        BY <2>5, <2>6, <4>2, MarksApart DEF Stayed
    <3> QED
      BY <1>3, <2>6, <3>1, StayedJoin
  <2> QED
    BY <2>7, <2>10, <2>11, <2>12, Calmed
<1>7. CASE Now("param") /\ Do(Fail)
  <2>1. Fail \in Seq(Quiet(InnerSteps))
    BY QuietTypes, QuietBodies, QuietInner DEF Fail
  <2>2. Calm(Head(todo), Fail) /\ todo[1] # "diag"
    BY <1>1, <2>1, HeadFacts DEF Calm
  <2> QED
    BY <1>1, <1>7, <2>2, CalmDo
<1>8. CASE /\ Put(<<>>) /\ param_count' = param_count + 1
           /\ UNCHANGED <<tok, context, funcs, mod, func, errors, status>>
  <2>1. todo' = t
    BY <1>2, <1>8 DEF Put
  <2>2. TypeOk'
    BY <1>5, <1>8 DEF IInv, TypeOk, context
  <2>3. UNCHANGED <<current_scope, prev_scope, loop_depth, in_func, prev_in_func>>
    BY <1>8 DEF context
  <2>4. Fits(todo)'
    BY <1>3, <1>4, <2>1, <2>3 DEF Fits, ScopesFit, FuncFits
  <2>5. Good(todo)' /\ Stayed(todo)'
    BY <1>3, <2>1 DEF Good, Rest, Shaped, MayStand, Stayed
  <2> QED
    BY <2>2, <2>4, <2>5, StayedInv DEF IInv
<1> QED
  BY <1>6, <1>7, <1>8 DEF parse_param


-----------------------------------------------------------------------------
(***************************************************************************)
(* Entering scopes, loops and functions                                    *)
(***************************************************************************)
ScopeNames == {"global", "param", "for", "block"}

LEMMA LeavingFacts ==
  /\ Leaving["block"] = "leave_block" /\ Leaving["for"] = "leave_for"
  /\ Leaving["param"] = "leave_param"
BY DEF Leaving

(* A scope hung on a parent as deep as the scope it hides.                 *)
LEMMA EnterScope ==
  ASSUME IInv, NEW t \in Seq(Steps), t = Tail(todo), Good(t), Fits(t), Stayed(t),
         NEW scope \in {"param", "for", "block"}, NEW parent \in Seq(ScopeNames),
         Len(parent) = Len(current_scope), \A i \in 2 .. Len(parent) : parent[i] = current_scope[i],
         NEW do \in Seq(Quiet(InnerSteps)), Enter(scope, parent, do),
         \A i \in 1 .. Len(do) : Under(do[i], t), Under(Leaving[scope], t),
         Leaving[scope] \in Scopes, param_count' \in 0 .. MaxParams,
         Has(t, Params) => param_count' < MaxParams
  PROVE  IInv'
<1>1. PICK u : u = Leaving[scope]
  OBVIOUS
<1>2. PICK d : d = Append(do, u)
  OBVIOUS
<1>3. u \in Scopes /\ u \in Steps /\ u \notin Strays /\ u # "parse_break"
      /\ u \notin Loops \cup Bodies \cup Params
  BY <1>1 DEF Scopes, Steps, InnerSteps, BodySteps, StatementSteps, OuterSteps, Strays,
     Loops, Bodies, Params
<1>4. do \in Seq(Steps) /\ do \in Seq(InnerSteps)
  BY DEF Quiet, Steps
<1>5. \A i \in 1 .. Len(do) : do[i] \in InnerSteps /\ do[i] \notin Marks \cup Strays \cup {"parse_break"}
  BY ElementFacts DEF Quiet
<1>6. /\ d \in Seq(Steps) /\ Len(do) \in Nat /\ Len(d) = Len(do) + 1
      /\ \A i \in 1 .. Len(do) : d[i] = do[i]
      /\ d[Len(do) + 1] = u
  BY <1>2, <1>3, <1>4, AppendFacts
<1>7. \A i \in 1 .. Len(d) : i \in 1 .. Len(do) \/ (i = Len(do) + 1 /\ d[i] = u)
  BY <1>6
<1>8. Shaped(d)
  <2>1. ASSUME NEW i \in 1 .. Len(d), NEW j \in 1 .. i - 1 PROVE MayStand(d[j], d[i])
    <3>1. j \in 1 .. Len(do)
      BY <1>6
    <3>2. d[j] \in InnerSteps
      BY <1>5, <1>6, <3>1
    <3>3. CASE i \in 1 .. Len(do)
      BY <1>5, <1>6, <3>3 DEF MayStand, Marks
    <3>4. CASE d[i] = u
      BY <1>3, <3>2, <3>4 DEF MayStand
    <3> QED
      BY <1>7, <3>3, <3>4
  <2> QED
    BY <2>1 DEF Shaped
<1>9. \A i \in 1 .. Len(d) : Under(d[i], t)
  BY <1>1, <1>6, <1>7
<1>10. todo' = d \o t
  BY <1>1, <1>2 DEF Enter, Put
<1>11. Good(d \o t)
  <2>1. Rest(t) /\ Len(t) # 0
    BY DEF Good
  <2> QED
    BY <1>6, <1>8, <1>9, <2>1, JoinRest
<1>12. Stayed(d \o t)
  <2>1. Stayed(d)
    BY <1>3, <1>5, <1>6, <1>7 DEF Stayed
  <2> QED
    BY <1>6, <2>1, StayedJoin
<1>13. /\ Pending(d \o t, Scopes) = Append(Pending(t, Scopes), u)
       /\ Pending(d \o t, Loops) = Pending(t, Loops)
       /\ (Has(d \o t, Bodies) <=> Has(t, Bodies)) /\ (Has(d \o t, Params) <=> Has(t, Params))
  <2>1. \A i \in 1 .. Len(do) : do[i] \notin Scopes
    BY <1>5 DEF Marks
  <2>2. Pending(d \o t, Scopes) = Append(Pending(t, Scopes), u)
    <3>1. PICK o \in Seq(Steps) : o = <<u>> \o t /\ d \o t = do \o o
      <4>1. u \in Steps
        BY <1>3
      <4>2. do \in Seq(Steps)
        BY <1>4
      <4>3. \E o \in Seq(Steps) : o = <<u>> \o t /\ Append(do, u) \o t = do \o o
        BY <4>1, <4>2, LastStep, Zenon
      <4> QED
        BY <1>2, <4>3
    <3>2. Pending(do \o o, Scopes) = Pending(o, Scopes)
      BY <1>4, <2>1, PendingCalm
    <3>3. Pending(<<u>> \o t, Scopes) = Append(Pending(t, Scopes), u)
      BY <1>3, PendingOne
    <3> QED
      BY <3>1, <3>2, <3>3
  <2>3. \A i \in 1 .. Len(d) : d[i] \notin Loops /\ d[i] \notin Bodies /\ d[i] \notin Params
    BY <1>3, <1>5, <1>6, <1>7 DEF Marks
  <2> QED
    BY <1>6, <2>2, <2>3, PendingCalm, HasAbove
<1>14. /\ prev_scope' = Append(prev_scope, Len(current_scope)) /\ current_scope' = Append(parent, scope)
       /\ UNCHANGED <<tok, loop_depth, in_func, prev_in_func, main_seen, funcs, mod, func, errors, status>>
  BY DEF Enter
<1>15. prev_scope \in Seq(Nat) /\ current_scope \in Seq(ScopeNames)
  BY DEF IInv, TypeOk, ScopeNames
<1>16. /\ prev_scope' \in Seq(Nat) /\ current_scope' \in Seq(ScopeNames)
       /\ Len(prev_scope) \in Nat /\ Len(prev_scope') = Len(prev_scope) + 1
       /\ \A i \in 1 .. Len(prev_scope) : prev_scope'[i] = prev_scope[i]
       /\ prev_scope'[Len(prev_scope) + 1] = Len(current_scope)
       /\ Len(parent) \in Nat /\ Len(current_scope') = Len(parent) + 1
       /\ \A i \in 1 .. Len(parent) : current_scope'[i] = parent[i]
       /\ current_scope'[Len(parent) + 1] = scope
  <2>1. scope \in ScopeNames /\ Len(current_scope) \in Nat
    BY <1>15 DEF ScopeNames
  <2> QED
    BY <1>14, <1>15, <2>1, AppendFacts
<1>17. ScopesFit(t)
  BY DEF Fits
<1>18. PICK open : open = Pending(t, Scopes)
  OBVIOUS
<1>19. /\ open \in Seq(Scopes) /\ Len(open) \in Nat /\ Len(Append(open, u)) = Len(open) + 1
       /\ \A i \in 1 .. Len(open) : Append(open, u)[i] = open[i]
       /\ Append(open, u)[Len(open) + 1] = u
  <2>1. open \in Seq(Scopes)
    BY <1>18, PendingSeq
  <2> QED
    BY <1>3, <2>1, AppendFacts
<1>20. /\ Len(current_scope) = Len(open) + 1 /\ Len(prev_scope) = Len(open)
       /\ \A i \in 1 .. Len(open) : prev_scope[i] = i /\ open[i] = Leaving[current_scope[i + 1]]
  BY <1>17, <1>18 DEF ScopesFit
<1>21. \A i \in 1 .. Len(open) + 1 :
         prev_scope'[i] = i /\ Append(open, u)[i] = Leaving[current_scope'[i + 1]]
  <2>1. ASSUME NEW i \in 1 .. Len(open)
        PROVE  prev_scope'[i] = i /\ Append(open, u)[i] = Leaving[current_scope'[i + 1]]
    <3>1. i + 1 \in 2 .. Len(parent) /\ i + 1 \in 1 .. Len(parent)
      BY <1>19, <1>20
    <3>2. current_scope'[i + 1] = current_scope[i + 1]
      BY <1>16, <3>1
    <3> QED
      BY <1>16, <1>19, <1>20, <3>2
  <2>2. /\ prev_scope'[Len(open) + 1] = Len(open) + 1
        /\ Append(open, u)[Len(open) + 1] = Leaving[current_scope'[Len(open) + 1 + 1]]
    BY <1>1, <1>16, <1>19, <1>20
  <2>3. \A i \in 1 .. Len(open) + 1 : i \in 1 .. Len(open) \/ i = Len(open) + 1
    BY <1>19
  <2> QED
    BY <2>1, <2>2, <2>3
<1>22. Fits(todo)'
  <2>1. ScopesFit(todo)'
    <3>1. PICK now : now = Append(open, u)
      OBVIOUS
    <3>2. Pending(todo', Scopes) = now /\ Len(now) = Len(open) + 1
      BY <1>10, <1>13, <1>18, <1>19, <3>1
    <3>3. /\ Len(current_scope') = Len(open) + 1 + 1 /\ Len(prev_scope') = Len(open) + 1
          /\ \A i \in 1 .. Len(open) + 1 :
               prev_scope'[i] = i /\ now[i] = Leaving[current_scope'[i + 1]]
      BY <1>16, <1>20, <1>21, <3>1
    <3> QED
      BY <3>2, <3>3 DEF ScopesFit
  <2>2. FuncFits(todo)'
    BY <1>10, <1>13, <1>14 DEF Fits, FuncFits
  <2>3. loop_depth' = Len(Pending(todo', Loops))
    BY <1>10, <1>13, <1>14 DEF Fits
  <2> QED
    BY <2>1, <2>2, <2>3 DEF Fits
<1>23. TypeOk'
  BY <1>14, <1>16 DEF IInv, TypeOk, ScopeNames
<1>24. Good(todo)' /\ Stayed(todo)'
  BY <1>10, <1>11, <1>12 DEF Good, Rest, Shaped, MayStand, Stayed
<1> QED
  BY <1>22, <1>23, <1>24, StayedInv DEF IInv

LEMMA BlockStep == ASSUME IInv, EnterBlock PROVE IInv'
<1>1. Head(todo) = "parse_body:scope" /\ Head(todo) \in StatementSteps
      /\ Head(todo) \notin Loops \cup Scopes \cup Bodies
  BY DEF EnterBlock, Now, StatementSteps, Loops, Scopes, Bodies
<1>2. PICK t \in Seq(Steps) : t = Tail(todo)
  BY <1>1, BelowFacts
<1>3. Good(t) /\ Fits(t) /\ Stayed(t) /\ Under(Head(todo), t)
  BY <1>1, <1>2, BelowFacts
<1>4. PICK do : do = <<"parse_body:line", "block_right">>
  OBVIOUS
<1>5. do \in Seq(Quiet(BodySteps))
  BY <1>4, QuietTypes, QuietBodies
<1>6. do \in Seq(Quiet(InnerSteps)) /\ \A i \in 1 .. Len(do) : do[i] \in BodySteps
  BY <1>5, ElementFacts, QuietInner DEF Quiet
<1>7. \A i \in 1 .. Len(do) : Under(do[i], t)
  BY <1>1, <1>3, <1>6, UnderStatement
<1>8. Under(Leaving["block"], t) /\ Leaving["block"] \in Scopes
  <2>1. "leave_block" \in BodySteps /\ "leave_block" \in Scopes
    BY DEF BodySteps, StatementSteps, Scopes
  <2> QED
    BY <1>1, <1>3, <2>1, LeavingFacts, UnderStatement
<1>9. /\ current_scope \in Seq(ScopeNames) /\ param_count' = param_count
      /\ Enter("block", current_scope, do)
  BY <1>4 DEF EnterBlock, IInv, TypeOk, ScopeNames
<1>10. param_count' \in 0 .. MaxParams /\ (Has(t, Params) => param_count' < MaxParams)
  BY <1>3, <1>9 DEF IInv, TypeOk, Fits, FuncFits
<1> QED
  BY <1>2, <1>3, <1>6, <1>7, <1>8, <1>9, <1>10, EnterScope

LEMMA ForStep == ASSUME IInv, EnterFor PROVE IInv'
<1>1. Head(todo) = "parse_for:scope" /\ Head(todo) \in StatementSteps
      /\ Head(todo) \notin Loops \cup Scopes \cup Bodies
  BY DEF EnterFor, Now, StatementSteps, Loops, Scopes, Bodies
<1>2. PICK t \in Seq(Steps) : t = Tail(todo)
  BY <1>1, BelowFacts
<1>3. Good(t) /\ Fits(t) /\ Stayed(t) /\ Under(Head(todo), t)
  BY <1>1, <1>2, BelowFacts
<1>4. PICK do : do = <<"parse_for:init", "end_line", "parse_for:cond", "end_line",
                       "parse_for:step", ")", "loop_depth++">>
  OBVIOUS
<1>5. do \in Seq(Quiet(BodySteps))
  BY <1>4, QuietTypes, QuietBodies
<1>6. do \in Seq(Quiet(InnerSteps)) /\ \A i \in 1 .. Len(do) : do[i] \in BodySteps
  BY <1>5, ElementFacts, QuietInner DEF Quiet
<1>7. \A i \in 1 .. Len(do) : Under(do[i], t)
  BY <1>1, <1>3, <1>6, UnderStatement
<1>8. Under(Leaving["for"], t) /\ Leaving["for"] \in Scopes
  <2>1. "leave_for" \in BodySteps /\ "leave_for" \in Scopes
    BY DEF BodySteps, StatementSteps, Scopes
  <2> QED
    BY <1>1, <1>3, <2>1, LeavingFacts, UnderStatement
<1>9. /\ current_scope \in Seq(ScopeNames) /\ param_count' = param_count
      /\ Enter("for", current_scope, do)
  BY <1>4 DEF EnterFor, IInv, TypeOk, ScopeNames
<1>10. param_count' \in 0 .. MaxParams /\ (Has(t, Params) => param_count' < MaxParams)
  BY <1>3, <1>9 DEF IInv, TypeOk, Fits, FuncFits
<1> QED
  BY <1>2, <1>3, <1>6, <1>7, <1>8, <1>9, <1>10, EnterScope

LEMMA NonePending ==
  ASSUME NEW t \in Seq(Steps), NEW S, ~Has(t, S)
  PROVE  Pending(t, S) = <<>>
<1>1. PICK e : e = <<>>
  OBVIOUS
<1>2. Pending(t \o e, S) = Pending(e, S)
  <2>1. e \in Seq(Steps) /\ \A i \in 1 .. Len(t) : t[i] \notin S
    BY <1>1 DEF Has
  <2> QED
    BY <2>1, PendingCalm
<1>3. t \o e = t /\ e \in Seq(Steps)
  BY <1>1
<1>4. Pending(e, S) = <<>>
  <2>1. Len(e) = 0
    BY <1>1
  <2>2. Found(e, S)[0] = <<>>
    BY <1>3, FoundFacts
  <2> QED
    BY <2>1, <2>2 DEF Pending
<1> QED
  BY <1>2, <1>3, <1>4

(* A function is declared in the global scope only, so nothing is hidden.  *)
LEMMA ParamsStep == ASSUME IInv, EnterParams PROVE IInv'
<1>1. Head(todo) = "parse_func_decl:scope" /\ Head(todo) \in OuterSteps
      /\ Head(todo) \notin Loops \cup Scopes \cup Bodies
  BY DEF EnterParams, Now, OuterSteps, Loops, Scopes, Bodies
<1>2. PICK t \in Seq(Steps) : t = Tail(todo)
  BY <1>1, BelowFacts
<1>3. Good(t) /\ Fits(t) /\ Stayed(t) /\ Under(Head(todo), t)
  BY <1>1, <1>2, BelowFacts
<1>4. \A i \in 1 .. Len(t) : t[i] \notin Params /\ t[i] \notin Bodies /\ t[i] \notin Scopes
  <2>1. Head(todo) \notin TypeSteps /\ Head(todo) \notin BodySteps /\ Head(todo) \notin InnerSteps
    BY <1>1, Classes DEF BodySteps, InnerSteps
  <2> QED
    BY <1>3, <2>1 DEF Under, MayStand
<1>5. Len(current_scope) = 1 /\ ~Has(t, Params)
  <2>1. Pending(t, Scopes) = <<>>
    BY <1>4, NonePending DEF Has
  <2> QED
    BY <1>3, <1>4, <2>1 DEF Fits, ScopesFit, Has
<1>6. PICK parent : parent \in Seq(ScopeNames) /\ parent = <<"global">>
  <2>1. "global" \in ScopeNames
    BY DEF ScopeNames
  <2>2. <<"global">> \in Seq(ScopeNames)
    BY <2>1
  <2> QED
    BY <2>2
<1>7. PICK do : do = <<"parse_func_decl:param", ")", "set_params", "in_func=true">>
  OBVIOUS
<1>8. do \in Seq(Quiet(InnerSteps))
  BY <1>7, QuietTypes, QuietBodies, QuietInner
<1>9. (\A i \in 1 .. Len(do) : Under(do[i], t)) /\ Under(Leaving["param"], t)
  BY <1>4 DEF Under, MayStand
<1>10. Leaving["param"] \in Scopes
  BY LeavingFacts DEF Scopes
<1>11. Enter("param", parent, do) /\ param_count' \in 0 .. MaxParams
  BY <1>6, <1>7, ParserAssumption DEF EnterParams, ParserAssumption
<1>12. Len(parent) = 1 /\ Len(parent) = Len(current_scope)
  BY <1>5, <1>6
<1>13. \A i \in 2 .. Len(parent) : parent[i] = current_scope[i]
  BY <1>12
<1>14. Has(t, Params) => param_count' < MaxParams
  BY <1>5
<1>15. parent \in Seq(ScopeNames)
  BY <1>6
<1>16. Enter("param", parent, do)
  BY <1>11
<1>17. \A i \in 1 .. Len(do) : Under(do[i], t)
  BY <1>9
<1>18. Len(parent) = Len(current_scope)
  BY <1>12
<1>19. Good(t) /\ Fits(t) /\ Stayed(t)
  BY <1>3
<1>20. param_count' \in 0 .. MaxParams
  BY <1>11
<1>21. Under(Leaving["param"], t)
  BY <1>9
<1> HIDE DEF ScopeNames
<1> QED
  BY <1>2, <1>8, <1>10, <1>13, <1>14, <1>15, <1>16, <1>17, <1>18, <1>19, <1>20, <1>21, EnterScope


(* A body is parsed, and then a mark taken back.                           *)
LEMMA BodyThen ==
  ASSUME NEW t, Good(t), Stayed(t), NEW m \in Steps, m \notin Strays \cup {"parse_break"},
         Under("parse_body", t), Under(m, t), MayStand("parse_body", m),
         Put(<<"parse_body", m>>), t = Tail(todo)
  PROVE  /\ Good(todo)' /\ StrayInv'
         /\ \A S : "parse_body" \notin S =>
              /\ Pending(todo', S) = IF m \in S THEN Append(Pending(t, S), m) ELSE Pending(t, S)
              /\ Has(todo', S) <=> m \in S \/ Has(t, S)
<1>1. PICK d : d = <<"parse_body", m>>
  OBVIOUS
<1>2. "parse_body" \in Steps /\ "parse_body" \notin Strays
  BY DEF Steps, InnerSteps, BodySteps, StatementSteps, Strays
<1>3. d \in Seq(Steps) /\ Len(d) = 2 /\ d[1] = "parse_body" /\ d[2] = m
  BY <1>1, <1>2
<1>4. t \in Seq(Steps) /\ Rest(t) /\ Len(t) # 0
  BY DEF Good, Rest
<1>5. todo' = d \o t
  BY <1>1 DEF Put
<1>6. \A i \in 1 .. Len(d) : i = 1 \/ i = 2
  BY <1>3
<1>7. Shaped(d)
  <2>1. ASSUME NEW i \in 1 .. Len(d), NEW j \in 1 .. i - 1 PROVE MayStand(d[j], d[i])
    <3>1. i = 2 /\ j = 1
      BY <1>6
    <3> QED
      BY <1>3, <3>1
  <2> QED
    BY <2>1 DEF Shaped
<1>8. \A i \in 1 .. Len(d) : Under(d[i], t)
  BY <1>3, <1>6
<1>9. PICK n : n = d \o t
  OBVIOUS
<1>10. Good(n)
  BY <1>3, <1>4, <1>7, <1>8, <1>9, JoinRest
<1>11. Stayed(n)
  <2>1. Stayed(d)
    BY <1>2, <1>3, <1>6 DEF Stayed
  <2> QED
    BY <1>3, <1>4, <1>9, <2>1, StayedJoin
<1>12. Good(todo)' /\ Stayed(todo)'
  BY <1>5, <1>9, <1>10, <1>11 DEF Good, Rest, Shaped, MayStand, Stayed
<1>13. StrayInv'
  BY <1>12, StayedInv
<1>14. PICK p : p = <<"parse_body">>
  OBVIOUS
<1>15. p \in Seq(Steps) /\ Len(p) = 1 /\ p[1] = "parse_body" /\ Append(p, m) = d
  <2>1. p \in Seq(Steps) /\ Len(p) = 1 /\ p[1] = "parse_body"
    BY <1>2, <1>14
  <2> p \in Seq(Steps)
    BY <2>1
  <2>2. PICK a : a = Append(p, m)
    OBVIOUS
  <2>3. a \in Seq(Steps) /\ Len(a) = 2 /\ a[1] = "parse_body" /\ a[2] = m
    <3>1. /\ a \in Seq(Steps) /\ Len(a) = Len(p) + 1 /\ a[Len(p) + 1] = m
          /\ \A i \in 1 .. Len(p) : a[i] = p[i]
      <4>1. /\ Append(p, m) \in Seq(Steps) /\ Len(Append(p, m)) = Len(p) + 1
            /\ Append(p, m)[Len(p) + 1] = m
            /\ \A i \in 1 .. Len(p) : Append(p, m)[i] = p[i]
        BY AppendFacts
      <4> QED
        BY <2>2, <4>1, Zenon
    <3>2. 1 \in 1 .. Len(p) /\ Len(p) + 1 = 2
      BY <2>1
    <3> QED
      BY <2>1, <3>1, <3>2
  <2>4. \A i \in 1 .. 2 : i = 1 \/ i = 2
    OBVIOUS
  <2>5. a = d
    BY <1>3, <2>3, <2>4, SeqEqual
  <2> QED
    BY <2>1, <2>2, <2>5
<1>16. PICK o \in Seq(Steps) : o = <<m>> \o t /\ d \o t = p \o o
  <2>1. \E o \in Seq(Steps) : o = <<m>> \o t /\ Append(p, m) \o t = p \o o
    BY <1>4, <1>15, LastStep, Zenon
  <2> QED
    BY <1>15, <2>1
<1>17. PICK q : q = <<m>>
  OBVIOUS
<1>18. q \in Seq(Steps) /\ Len(q) = 1 /\ q[1] = m
  BY <1>17
<1>19. ASSUME NEW S, "parse_body" \notin S
       PROVE  /\ Pending(todo', S) = IF m \in S THEN Append(Pending(t, S), m) ELSE Pending(t, S)
              /\ Has(todo', S) <=> m \in S \/ Has(t, S)
  <2>1. \A i \in 1 .. Len(p) : p[i] \notin S
    BY <1>15, <1>19
  <2>2. Pending(p \o o, S) = Pending(o, S) /\ (Has(p \o o, S) <=> Has(o, S))
    BY <1>15, <2>1, PendingCalm, HasAbove
  <2>3. CASE m \in S
    <3>1. Pending(<<m>> \o t, S) = Append(Pending(t, S), m)
      BY <1>4, <2>3, PendingOne
    <3>2. Has(q, S)
      BY <1>18, <2>3 DEF Has
    <3>3. Has(q \o t, S)
      BY <1>4, <1>18, <3>2, HasJoin
    <3> QED
      BY <1>5, <1>16, <1>17, <2>2, <2>3, <3>1, <3>3
  <2>4. CASE m \notin S
    <3>1. \A i \in 1 .. Len(q) : q[i] \notin S
      BY <1>18, <2>4
    <3>2. Pending(q \o t, S) = Pending(t, S) /\ (Has(q \o t, S) <=> Has(t, S))
      BY <1>4, <1>18, <3>1, PendingCalm, HasAbove
    <3> QED
      BY <1>5, <1>16, <1>17, <2>2, <2>4, <3>2
  <2> QED
    BY <2>3, <2>4
<1> QED
  BY <1>12, <1>13, <1>19

LEMMA LoopStep == ASSUME IInv, EnterLoop PROVE IInv'
<1>1. Head(todo) = "loop_depth++" /\ Head(todo) \in StatementSteps
      /\ Head(todo) \notin Loops \cup Scopes \cup Bodies
  BY DEF EnterLoop, Now, StatementSteps, Loops, Scopes, Bodies
<1>2. PICK t \in Seq(Steps) : t = Tail(todo)
  BY <1>1, BelowFacts
<1>3. Good(t) /\ Fits(t) /\ Stayed(t) /\ Under(Head(todo), t)
  BY <1>1, <1>2, BelowFacts
<1>4. PICK m : m = "loop_depth--"
  OBVIOUS
<1>5. /\ m \in Steps /\ m \in BodySteps /\ m \notin Strays \cup {"parse_break"}
      /\ m \in Loops /\ m \notin Scopes \cup Bodies \cup Params
  BY <1>4 DEF Steps, InnerSteps, BodySteps, StatementSteps, Strays, Loops, Scopes, Bodies, Params
<1>6. "parse_body" \in BodySteps /\ "parse_body" \notin Loops \cup Scopes \cup Bodies \cup Params
  BY DEF BodySteps, StatementSteps, Loops, Scopes, Bodies, Params
<1>7. Under("parse_body", t) /\ Under(m, t) /\ MayStand("parse_body", m)
  BY <1>1, <1>3, <1>5, <1>6, UnderStatement DEF MayStand
<1>8. Put(<<"parse_body", m>>) /\ loop_depth' = loop_depth + 1
      /\ UNCHANGED <<tok, current_scope, prev_scope, in_func, prev_in_func, main_seen, symbols, errors, status>>
  BY <1>4 DEF EnterLoop
<1>9. /\ Good(todo)' /\ StrayInv'
      /\ \A S : "parse_body" \notin S =>
           /\ Pending(todo', S) = IF m \in S THEN Append(Pending(t, S), m) ELSE Pending(t, S)
           /\ Has(todo', S) <=> m \in S \/ Has(t, S)
  BY <1>2, <1>3, <1>5, <1>7, <1>8, BodyThen
<1>10. /\ Pending(todo', Loops) = Append(Pending(t, Loops), m)
       /\ Pending(todo', Scopes) = Pending(t, Scopes)
       /\ (Has(todo', Bodies) <=> Has(t, Bodies)) /\ (Has(todo', Params) <=> Has(t, Params))
  BY <1>5, <1>6, <1>9
<1>11. PICK p : p = Pending(t, Loops)
  OBVIOUS
<1>12. p \in Seq(Loops) /\ Len(Append(p, m)) = Len(p) + 1
  <2>1. p \in Seq(Loops)
    BY <1>11, PendingSeq
  <2> QED
    BY <1>5, <2>1, AppendFacts
<1>13. Fits(todo)'
  <2>1. loop_depth' = Len(Pending(todo', Loops))
    BY <1>3, <1>8, <1>10, <1>11, <1>12 DEF Fits
  <2>2. ScopesFit(todo)' /\ FuncFits(todo)'
    BY <1>3, <1>8, <1>10 DEF Fits, ScopesFit, FuncFits, symbols
  <2> QED
    BY <2>1, <2>2 DEF Fits
<1>14. TypeOk'
  BY <1>8 DEF IInv, TypeOk, symbols
<1> QED
  BY <1>9, <1>13, <1>14 DEF IInv

(* No function body encloses the declaration of a function.                *)
LEMMA FuncStep == ASSUME IInv, EnterFunc PROVE IInv'
<1>1. Head(todo) = "in_func=true" /\ Head(todo) \in FuncSteps
      /\ Head(todo) \notin Loops \cup Scopes \cup Bodies
  BY DEF EnterFunc, Now, FuncSteps, Loops, Scopes, Bodies
<1>2. PICK t \in Seq(Steps) : t = Tail(todo)
  BY <1>1, BelowFacts
<1>3. Good(t) /\ Fits(t) /\ Stayed(t) /\ Under(Head(todo), t)
  BY <1>1, <1>2, BelowFacts
<1>4. PICK m : m = "in_func=prev_in_func"
  OBVIOUS
<1>5. /\ m \in Steps /\ m \in InnerSteps /\ m \notin Strays \cup {"parse_break"}
      /\ m \in Bodies /\ m \notin Scopes \cup Loops \cup Params
  BY <1>4 DEF Steps, InnerSteps, FuncSteps, Strays, Loops, Scopes, Bodies, Params
<1>6. /\ "parse_body" \in BodySteps /\ "parse_body" \in InnerSteps
      /\ "parse_body" \notin Loops \cup Scopes \cup Bodies \cup Params
  BY DEF InnerSteps, BodySteps, StatementSteps, Loops, Scopes, Bodies, Params
<1>7. ~Has(t, Params) /\ ~Has(t, Bodies)
  <2>1. Head(todo) \notin TypeSteps /\ Head(todo) \notin BodySteps
    BY <1>1, Classes DEF BodySteps
  <2> QED
    BY <1>3, <2>1 DEF Under, MayStand, Has
<1>8. Under("parse_body", t) /\ Under(m, t) /\ MayStand("parse_body", m)
  BY <1>5, <1>6, <1>7 DEF Under, MayStand, Has
<1>9. Put(<<"parse_body", m>>) /\ prev_in_func' = in_func /\ in_func' = TRUE
      /\ UNCHANGED <<tok, current_scope, prev_scope, loop_depth, main_seen, symbols, errors, status>>
  BY <1>4 DEF EnterFunc
<1>10. /\ Good(todo)' /\ StrayInv'
       /\ \A S : "parse_body" \notin S =>
            /\ Pending(todo', S) = IF m \in S THEN Append(Pending(t, S), m) ELSE Pending(t, S)
            /\ Has(todo', S) <=> m \in S \/ Has(t, S)
  BY <1>2, <1>3, <1>5, <1>8, <1>9, BodyThen
<1>11. /\ Pending(todo', Loops) = Pending(t, Loops)
       /\ Pending(todo', Scopes) = Pending(t, Scopes)
       /\ Has(todo', Bodies) /\ ~Has(todo', Params)
  BY <1>5, <1>6, <1>7, <1>10
<1>12. in_func = FALSE
  <2>1. in_func \in BOOLEAN /\ ~in_func
    BY <1>3, <1>7 DEF IInv, TypeOk, Fits, FuncFits
  <2> QED
    BY <2>1, Zenon
<1>13. Fits(todo)'
  <2>1. ScopesFit(todo)' /\ loop_depth' = Len(Pending(todo', Loops))
    BY <1>3, <1>9, <1>11 DEF Fits, ScopesFit
  <2>2. FuncFits(todo)'
    BY <1>9, <1>11, <1>12 DEF FuncFits
  <2> QED
    BY <2>1, <2>2 DEF Fits
<1>14. TypeOk'
  BY <1>9 DEF IInv, TypeOk, symbols
<1> QED
  BY <1>10, <1>13, <1>14 DEF IInv


-----------------------------------------------------------------------------
(***************************************************************************)
(* Leaving them, on either way out                                         *)
(***************************************************************************)
LEMMA RestoringFacts ==
  ASSUME NEW s \in Restoring
  PROVE  /\ s # "diag" /\ s # "null" /\ s # "parse_file"
         /\ s \in Loops \cup Scopes \cup Bodies
BY DEF Restoring, Loops, Scopes, Bodies

LEMMA NullFacts ==
  /\ "null" \in TypeSteps /\ "null" \in Steps /\ "null" \notin Strays \cup {"parse_break"}
  /\ "null" \notin Loops \cup Scopes \cup Bodies \cup Params
BY DEF TypeSteps, BodySteps, InnerSteps, Steps, Strays, Loops, Scopes, Bodies, Params

(* A NULL is returned to the caller whose step is at the head of b.        *)
LEMMA FailingFacts ==
  ASSUME IInv, Failing
  PROVE  \E b \in Seq(Steps) :
           /\ b = Tail(todo) /\ Good(b) /\ Fits(b) /\ Stayed(b)
           /\ Head(b) = todo[2] /\ SubSeq(todo, 3, Len(todo)) = Tail(b)
<1>1. /\ Head(todo) = "null" /\ Head(todo) # "diag" /\ Head(todo) # "parse_file"
      /\ Head(todo) \notin Loops \cup Scopes \cup Bodies
  BY NullFacts DEF Failing
<1>2. PICK b \in Seq(Steps) : b = Tail(todo)
  BY <1>1, BelowFacts
<1>3. Good(b) /\ Fits(b) /\ Stayed(b)
  BY <1>1, <1>2, BelowFacts
<1>4. todo \in Seq(Steps) /\ Len(todo) \in Nat /\ Len(todo) > 0
  BY HeadFacts
<1>5. /\ Len(b) = Len(todo) - 1 /\ Len(b) \in Nat
      /\ \A i \in 1 .. Len(todo) - 1 : b[i] = todo[i + 1]
  BY <1>2, <1>4, TailFacts, ElementFacts
<1>6. Len(b) > 0 /\ Len(todo) > 1
  BY <1>3, <1>4, <1>5 DEF Good
<1>7. b[1] = todo[2]
  <2>1. 1 \in 1 .. Len(todo) - 1 /\ 1 + 1 = 2
    BY <1>4, <1>6
  <2> QED
    BY <1>5, <2>1
<1>8. Head(b) = b[1]
  BY <1>6, TailFacts
<1>9. SubSeq(todo, 3, Len(todo)) = Tail(b)
  BY <1>2, <1>4, <1>6, BelowTwo
<1> QED
  BY <1>2, <1>3, <1>7, <1>8, <1>9

(* Below the step that restores is what the caller expects.                *)
LEMMA LeaveFacts ==
  ASSUME IInv, NEW s \in Restoring, Leave(s)
  PROVE  /\ Good(todo)' /\ StrayInv'
         /\ \E b \in Seq(Steps), t \in Seq(Steps) :
              /\ Good(b) /\ Fits(b) /\ Head(b) = s /\ t = Tail(b)
              /\ \A S : "null" \notin S =>
                   /\ Pending(todo', S) = Pending(t, S)
                   /\ Has(todo', S) <=> Has(t, S)
<1>1. /\ s # "diag" /\ s # "null" /\ s # "parse_file"
  BY RestoringFacts
<1>2. CASE Now(s) /\ Put(<<>>)
  <2>1. Head(todo) = s /\ todo[1] = s /\ todo \in Seq(Steps)
    BY <1>2, HeadFacts DEF Now
  <2>2. PICK t : t = Tail(todo)
    OBVIOUS
  <2>3. Good(todo) /\ Fits(todo) /\ StrayInv
    BY DEF IInv
  <2>4. Good(t) /\ Stayed(t)
    BY <1>1, <2>1, <2>2, <2>3, SplitRest, StrayFree
  <2>5. t \in Seq(Steps)
    BY <2>4 DEF Good, Rest
  <2>6. todo' = t
    BY <1>2, <2>2, <2>5 DEF Put
  <2>7. Good(todo)' /\ Stayed(todo)'
    BY <2>4, <2>6 DEF Good, Rest, Shaped, MayStand, Stayed
  <2>8. StrayInv'
    BY <2>7, StayedInv
  <2>9. \A S : "null" \notin S =>
          Pending(todo', S) = Pending(t, S) /\ (Has(todo', S) <=> Has(t, S))
    BY <2>6
  <2> QED
    BY <2>1, <2>2, <2>3, <2>5, <2>7, <2>8, <2>9
<1>3. CASE Failing /\ todo[2] = s /\ todo' = <<"null">> \o SubSeq(todo, 3, Len(todo))
  <2>1. PICK b \in Seq(Steps) :
          /\ Good(b) /\ Fits(b) /\ Stayed(b)
          /\ Head(b) = todo[2] /\ SubSeq(todo, 3, Len(todo)) = Tail(b)
    BY <1>3, FailingFacts
  <2>2. Head(b) = s
    BY <1>3, <2>1
  <2>3. PICK t : t = Tail(b)
    OBVIOUS
  <2>4. Good(t) /\ Stayed(t)
    BY <1>1, <2>1, <2>2, <2>3, SplitRest, StayedTail
  <2>5. t \in Seq(Steps) /\ Rest(t) /\ Len(t) # 0
    BY <2>4 DEF Good, Rest
  <2>6. PICK d : d = <<"null">>
    OBVIOUS
  <2>7. d \in Seq(Steps) /\ Len(d) = 1 /\ d[1] = "null"
    BY <2>6, NullFacts
  <2>8. \A i \in 1 .. Len(d) : d[i] = "null"
    BY <2>7
  <2>9. todo' = d \o t
    BY <1>3, <2>1, <2>3, <2>6
  <2>10. Shaped(d) /\ \A i \in 1 .. Len(d) : Under(d[i], t)
    BY <2>8, NullFacts DEF Shaped, Under, MayStand, InnerSteps, BodySteps
  <2>11. PICK n : n = d \o t
    OBVIOUS
  <2>12. Good(n)
    BY <2>5, <2>7, <2>10, <2>11, JoinRest
  <2>13. Stayed(n)
    <3>1. Stayed(d)
      BY <2>8, NullFacts DEF Stayed
    <3> QED
      BY <2>4, <2>5, <2>7, <2>11, <3>1, StayedJoin
  <2>14. Good(todo)' /\ Stayed(todo)'
    BY <2>9, <2>11, <2>12, <2>13 DEF Good, Rest, Shaped, MayStand, Stayed
  <2>15. StrayInv'
    BY <2>14, StayedInv
  <2>16. ASSUME NEW S, "null" \notin S
         PROVE  Pending(todo', S) = Pending(t, S) /\ (Has(todo', S) <=> Has(t, S))
    <3>1. \A i \in 1 .. Len(d) : d[i] \notin S
      BY <2>8, <2>16
    <3>2. Pending(d \o t, S) = Pending(t, S) /\ (Has(d \o t, S) <=> Has(t, S))
      BY <2>5, <2>7, <3>1, PendingCalm, HasAbove
    <3> QED
      BY <2>9, <3>2
  <2> QED
    BY <2>1, <2>2, <2>3, <2>5, <2>14, <2>15, <2>16
<1> QED
  BY <1>2, <1>3 DEF Leave

LEMMA UnwindStep == ASSUME IInv, Unwind PROVE IInv'
<1>1. PICK b \in Seq(Steps) :
        /\ Good(b) /\ Fits(b) /\ Stayed(b)
        /\ Head(b) = todo[2] /\ SubSeq(todo, 3, Len(todo)) = Tail(b)
  BY FailingFacts DEF Unwind
<1>2. PICK h : h = Head(b)
  OBVIOUS
<1>3. h \in Steps /\ h \notin Loops \cup Scopes \cup Bodies
  <2>1. h \in Steps
    BY <1>1, <1>2, TailFacts DEF Good
  <2>2. h \notin Restoring
    BY <1>1, <1>2 DEF Unwind
  <2> QED
    BY <2>1, <2>2 DEF Restoring, Loops, Scopes, Bodies
<1>4. PICK d : /\ todo' = d \o Tail(b)
               /\ d = CASE h = "parse_atom:var" ->
                            IF tok \in {"name", "&"} THEN <<"parse_var", "parse_atom:number">>
                            ELSE <<"null", "parse_atom:number">>
                        [] h = "parse_atom:number" -> IF tok \in Literal THEN <<tok>> ELSE Fail
                        [] h = "parse_file" -> <<"parse_file">>
                        [] OTHER -> <<"null">>
  BY <1>1, <1>2 DEF Unwind
<1>5. Calm(h, d)
  <2>1. CASE h = "parse_atom:var"
    <3>1. h \in StatementSteps /\ h # "parse_file"
      BY <2>1 DEF StatementSteps
    <3>2. /\ <<"parse_var", "parse_atom:number">> \in Seq(Quiet(BodySteps))
          /\ <<"null", "parse_atom:number">> \in Seq(Quiet(BodySteps))
      BY QuietTypes, QuietBodies
    <3>3. d \in Seq(Quiet(BodySteps))
      BY <1>4, <2>1, <3>2
    <3> QED
      BY <3>1, <3>3 DEF Calm
  <2>2. CASE h = "parse_atom:number"
    <3>1. h \in StatementSteps /\ h # "parse_file" /\ h # "parse_atom:var"
      BY <2>2 DEF StatementSteps
    <3>2. tok \in Literal => <<tok>> \in Seq(Quiet(BodySteps))
      <4>1. "number" \in Quiet(BodySteps) /\ "str" \in Quiet(BodySteps)
        BY QuietTypes, QuietBodies
      <4> QED
        BY <4>1 DEF Literal
    <3>3. Fail \in Seq(Quiet(BodySteps))
      BY QuietTypes, QuietBodies DEF Fail
    <3>4. d = IF tok \in Literal THEN <<tok>> ELSE Fail
      BY <1>4, <2>2
    <3>5. d \in Seq(Quiet(BodySteps))
      BY <3>2, <3>3, <3>4
    <3> QED
      BY <3>1, <3>5 DEF Calm
  <2>3. CASE h = "parse_file"
    <3>1. h \in OuterSteps /\ "parse_file" \in Quiet(Steps)
      BY <2>3, QuietSteps DEF OuterSteps
    <3>2. d = <<"parse_file">>
      BY <1>4, <2>3
    <3>3. d \in Seq(Quiet(Steps)) /\ Len(d) = 1 /\ d[1] = "parse_file"
      BY <3>1, <3>2
    <3> QED
      BY <3>1, <3>3 DEF Calm
  <2>4. CASE h # "parse_atom:var" /\ h # "parse_atom:number" /\ h # "parse_file"
    <3>1. d = <<"null">>
      BY <1>4, <2>4
    <3>2. /\ d \in Seq(Quiet(TypeSteps)) /\ d \in Seq(Quiet(BodySteps))
          /\ d \in Seq(Quiet(InnerSteps)) /\ d \in Seq(Quiet(Steps))
      <4>1. "null" \in Quiet(TypeSteps)
        BY QuietTypes
      <4>2. /\ "null" \in Quiet(BodySteps) /\ "null" \in Quiet(InnerSteps) /\ "null" \in Quiet(Steps)
        BY <4>1 DEF Quiet, BodySteps, InnerSteps, Steps
      <4> QED
        BY <3>1, <4>1, <4>2
    <3> QED
      BY <1>3, <2>4, <3>2 DEF Calm, Steps, InnerSteps, BodySteps
  <2> QED
    BY <2>1, <2>2, <2>3, <2>4
<1>6. Stayed(Tail(b))
  BY <1>1, StayedTail
<1>7. PICK n : n = d \o Tail(b)
  OBVIOUS
<1>8. Good(n) /\ Fits(n) /\ Stayed(n)
  BY <1>1, <1>2, <1>3, <1>5, <1>6, <1>7, CalmAbove
<1>9. todo' = n
  BY <1>4, <1>7
<1>10. TypeOk'
  BY DEF IInv, TypeOk, Unwind, context, symbols
<1>11. UNCHANGED Context
  BY DEF Unwind, context, symbols, Context
<1> QED
  BY <1>8, <1>9, <1>10, <1>11, Calmed


LEMMA LeaveLoopStep == ASSUME IInv, LeaveLoop PROVE IInv'
<1>1. PICK s : s = "loop_depth--"
  OBVIOUS
<1>2. s \in Restoring /\ s \in Loops /\ s \notin Scopes \cup Bodies \cup Params
  BY <1>1 DEF Restoring, Loops, Scopes, Bodies, Params
<1>3. /\ Leave(s) /\ loop_depth' = loop_depth - 1
      /\ UNCHANGED <<tok, current_scope, prev_scope, in_func, prev_in_func, main_seen,
                     symbols, errors, status>>
  BY <1>1 DEF LeaveLoop
<1>4. Good(todo)' /\ StrayInv'
  BY <1>2, <1>3, LeaveFacts
<1>5. PICK b \in Seq(Steps), t \in Seq(Steps) :
        /\ Good(b) /\ Fits(b) /\ Head(b) = s /\ t = Tail(b)
        /\ \A S : "null" \notin S =>
             /\ Pending(todo', S) = Pending(t, S)
             /\ Has(todo', S) <=> Has(t, S)
  BY <1>2, <1>3, LeaveFacts
<1>6. /\ Pending(todo', Loops) = Pending(t, Loops) /\ Pending(todo', Scopes) = Pending(t, Scopes)
      /\ (Has(todo', Bodies) <=> Has(t, Bodies)) /\ (Has(todo', Params) <=> Has(t, Params))
  BY <1>5, NullFacts
<1>7. Len(b) > 0
  BY <1>5 DEF Good
<1>8. /\ Pending(b, Loops) = Append(Pending(t, Loops), s)
      /\ Pending(b, Scopes) = Pending(t, Scopes)
  BY <1>2, <1>5, <1>7, PendingTail
<1>9. (Has(b, Bodies) <=> Has(t, Bodies)) /\ (Has(b, Params) <=> Has(t, Params))
  BY <1>2, <1>5, <1>7, HasTail
<1>10. PICK p : p = Pending(t, Loops)
  OBVIOUS
<1>11. p \in Seq(Loops) /\ Len(p) \in Nat /\ Len(Append(p, s)) = Len(p) + 1
  <2>1. p \in Seq(Loops)
    BY <1>10, PendingSeq
  <2> QED
    BY <1>2, <2>1, AppendFacts
<1>12. loop_depth' = Len(Pending(todo', Loops))
  <2>1. loop_depth = Len(p) + 1
    BY <1>5, <1>8, <1>10, <1>11 DEF Fits
  <2> QED
    BY <1>3, <1>6, <1>10, <1>11, <2>1
<1>13. ScopesFit(todo)' /\ FuncFits(todo)'
  BY <1>3, <1>5, <1>6, <1>8, <1>9 DEF Fits, ScopesFit, FuncFits, symbols
<1>14. TypeOk'
  BY <1>3 DEF IInv, TypeOk, symbols
<1> QED
  BY <1>4, <1>12, <1>13, <1>14 DEF IInv, Fits

LEMMA LeaveFuncStep == ASSUME IInv, LeaveFunc PROVE IInv'
<1>1. PICK s : s = "in_func=prev_in_func"
  OBVIOUS
<1>2. s \in Restoring /\ s \in Bodies /\ s \notin Scopes \cup Loops \cup Params
  BY <1>1 DEF Restoring, Loops, Scopes, Bodies, Params
<1>3. /\ Leave(s) /\ in_func' = prev_in_func
      /\ UNCHANGED <<tok, current_scope, prev_scope, loop_depth, prev_in_func, main_seen,
                     symbols, errors, status>>
  BY <1>1 DEF LeaveFunc
<1>4. Good(todo)' /\ StrayInv'
  BY <1>2, <1>3, LeaveFacts
<1>5. PICK b \in Seq(Steps), t \in Seq(Steps) :
        /\ Good(b) /\ Fits(b) /\ Head(b) = s /\ t = Tail(b)
        /\ \A S : "null" \notin S =>
             /\ Pending(todo', S) = Pending(t, S)
             /\ Has(todo', S) <=> Has(t, S)
  BY <1>2, <1>3, LeaveFacts
<1>6. /\ Pending(todo', Loops) = Pending(t, Loops) /\ Pending(todo', Scopes) = Pending(t, Scopes)
      /\ (Has(todo', Bodies) <=> Has(t, Bodies)) /\ (Has(todo', Params) <=> Has(t, Params))
  BY <1>5, NullFacts
<1>7. Len(b) > 0
  BY <1>5 DEF Good
<1>8. /\ Pending(b, Loops) = Pending(t, Loops) /\ Pending(b, Scopes) = Pending(t, Scopes)
  BY <1>2, <1>5, <1>7, PendingTail
<1>9. Has(b, Bodies)
  BY <1>2, <1>5, <1>7, HasTail
<1>10. ~Has(t, Bodies) /\ ~Has(t, Params)
  <2>1. Under(s, t)
    BY <1>2, <1>5, RestoringFacts, SplitRest
  <2>2. s \in FuncSteps
    BY <1>1 DEF FuncSteps
  <2>3. s \notin TypeSteps /\ s \notin BodySteps
    BY <2>2, Classes DEF BodySteps
  <2> QED
    BY <2>1, <2>3 DEF Under, MayStand, Has
<1>11. ~prev_in_func
  BY <1>5, <1>9 DEF Fits, FuncFits
<1>12. FuncFits(todo)'
  BY <1>3, <1>6, <1>10, <1>11 DEF FuncFits
<1>13. ScopesFit(todo)' /\ loop_depth' = Len(Pending(todo', Loops))
  BY <1>3, <1>5, <1>6, <1>8 DEF Fits, ScopesFit
<1>14. TypeOk'
  BY <1>3 DEF IInv, TypeOk, symbols
<1> QED
  BY <1>4, <1>12, <1>13, <1>14 DEF IInv, Fits

LEMMA RestoreStep ==
  ASSUME IInv, NEW s \in Scopes, Leave(s), RestoreScope,
         funcs' \in [FuncNames -> {"none", "declared", "params", "std", "dangling"}],
         UNCHANGED <<tok, loop_depth, in_func, prev_in_func, main_seen, mod, func, param_count,
                     errors, status>>
  PROVE  IInv'
<1>1. s \in Restoring /\ s \notin Loops \cup Bodies \cup Params
  BY DEF Restoring, Loops, Scopes, Bodies, Params
<1>2. Good(todo)' /\ StrayInv'
  BY <1>1, LeaveFacts
<1>3. PICK b \in Seq(Steps), t \in Seq(Steps) :
        /\ Good(b) /\ Fits(b) /\ Head(b) = s /\ t = Tail(b)
        /\ \A S : "null" \notin S =>
             /\ Pending(todo', S) = Pending(t, S)
             /\ Has(todo', S) <=> Has(t, S)
  BY <1>1, LeaveFacts
<1>4. /\ Pending(todo', Loops) = Pending(t, Loops) /\ Pending(todo', Scopes) = Pending(t, Scopes)
      /\ (Has(todo', Bodies) <=> Has(t, Bodies)) /\ (Has(todo', Params) <=> Has(t, Params))
  BY <1>3, NullFacts
<1>5. Len(b) > 0
  BY <1>3 DEF Good
<1>6. /\ Pending(b, Loops) = Pending(t, Loops)
      /\ Pending(b, Scopes) = Append(Pending(t, Scopes), s)
  BY <1>1, <1>3, <1>5, PendingTail
<1>7. (Has(b, Bodies) <=> Has(t, Bodies)) /\ (Has(b, Params) <=> Has(t, Params))
  BY <1>1, <1>3, <1>5, HasTail
<1>8. PICK open : open = Pending(t, Scopes)
  OBVIOUS
<1>9. PICK more : more = Append(open, s)
  OBVIOUS
<1>10. /\ open \in Seq(Scopes) /\ Len(open) \in Nat /\ Len(more) = Len(open) + 1
       /\ \A i \in 1 .. Len(open) : more[i] = open[i]
  <2>1. open \in Seq(Scopes)
    BY <1>8, PendingSeq
  <2> QED
    BY <1>9, <2>1, AppendFacts
<1>11. /\ Len(current_scope) = Len(open) + 1 + 1 /\ Len(prev_scope) = Len(open) + 1
       /\ \A i \in 1 .. Len(open) + 1 :
            prev_scope[i] = i /\ more[i] = Leaving[current_scope[i + 1]]
  <2>1. ScopesFit(b)
    BY <1>3 DEF Fits
  <2>2. Pending(b, Scopes) = more
    BY <1>6, <1>8, <1>9
  <2> QED
    BY <1>10, <2>1, <2>2 DEF ScopesFit
<1>12. prev_scope[Len(prev_scope)] = Len(open) + 1 /\ Len(prev_scope) - 1 = Len(open)
  BY <1>10, <1>11
<1>13. /\ current_scope' = SubSeq(current_scope, 1, Len(open) + 1)
       /\ prev_scope' = SubSeq(prev_scope, 1, Len(open))
  BY <1>12 DEF RestoreScope
<1>14. current_scope \in Seq(ScopeNames) /\ prev_scope \in Seq(Nat)
  BY DEF IInv, TypeOk, ScopeNames
<1>15. /\ current_scope' \in Seq(ScopeNames) /\ Len(current_scope') = Len(open) + 1
       /\ \A i \in 1 .. Len(open) + 1 : current_scope'[i] = current_scope[i]
  <2>1. PICK n \in Nat : n = Len(open) + 1
    BY <1>10
  <2>2. n <= Len(current_scope) /\ current_scope' = SubSeq(current_scope, 1, n)
    BY <1>10, <1>11, <1>13, <2>1
  <2>3. /\ SubSeq(current_scope, 1, n) \in Seq(ScopeNames) /\ Len(SubSeq(current_scope, 1, n)) = n
        /\ \A i \in 1 .. n : SubSeq(current_scope, 1, n)[i] = current_scope[i]
    BY <1>14, <2>1, <2>2, PrefixFacts
  <2> QED
    BY <2>1, <2>2, <2>3
<1>16. /\ prev_scope' \in Seq(Nat) /\ Len(prev_scope') = Len(open)
       /\ \A i \in 1 .. Len(open) : prev_scope'[i] = prev_scope[i]
  <2>1. PICK n \in Nat : n = Len(open)
    BY <1>10
  <2>2. n <= Len(prev_scope) /\ prev_scope' = SubSeq(prev_scope, 1, n)
    BY <1>10, <1>11, <1>13, <2>1
  <2>3. /\ SubSeq(prev_scope, 1, n) \in Seq(Nat) /\ Len(SubSeq(prev_scope, 1, n)) = n
        /\ \A i \in 1 .. n : SubSeq(prev_scope, 1, n)[i] = prev_scope[i]
    BY <1>14, <2>1, <2>2, PrefixFacts
  <2> QED
    BY <2>1, <2>2, <2>3
<1>17. ScopesFit(todo)'
  <2>1. Pending(todo', Scopes) = open
    BY <1>4, <1>8
  <2>2. \A i \in 1 .. Len(open) : i \in 1 .. Len(open) + 1 /\ i + 1 \in 1 .. Len(open) + 1
    BY <1>10
  <2>3. \A i \in 1 .. Len(open) : prev_scope'[i] = i /\ open[i] = Leaving[current_scope'[i + 1]]
    BY <1>10, <1>11, <1>15, <1>16, <2>2
  <2> QED
    BY <1>15, <1>16, <2>1, <2>3 DEF ScopesFit
<1>18. FuncFits(todo)' /\ loop_depth' = Len(Pending(todo', Loops))
  BY <1>3, <1>4, <1>6, <1>7 DEF Fits, FuncFits
<1>19. TypeOk'
  BY <1>15, <1>16 DEF IInv, TypeOk, ScopeNames
<1> QED
  BY <1>2, <1>17, <1>18, <1>19 DEF IInv, Fits

LEMMA LeaveScopeStep == ASSUME IInv, LeaveScope PROVE IInv'
<1>1. PICK s \in {"leave_block", "leave_for"} : Leave(s)
  BY DEF LeaveScope
<1>2. s \in Scopes
  BY DEF Scopes
<1>3. /\ RestoreScope
      /\ UNCHANGED <<tok, loop_depth, in_func, prev_in_func, main_seen, funcs, mod, func,
                     param_count, errors, status>>
  BY DEF LeaveScope, symbols
<1>4. funcs' \in [FuncNames -> {"none", "declared", "params", "std", "dangling"}]
  BY <1>3 DEF IInv, TypeOk
<1> QED
  BY <1>1, <1>2, <1>3, <1>4, RestoreStep

LEMMA LeaveParamsStep == ASSUME IInv, LeaveParams PROVE IInv'
<1>1. PICK s : s = "leave_param"
  OBVIOUS
<1>2. s \in Scopes /\ Leave(s)
  BY <1>1 DEF Scopes, LeaveParams
<1>3. /\ RestoreScope
      /\ UNCHANGED <<tok, loop_depth, in_func, prev_in_func, main_seen, mod, func,
                     param_count, errors, status>>
  BY DEF LeaveParams
<1>4. funcs' \in [FuncNames -> {"none", "declared", "params", "std", "dangling"}]
  BY DEF LeaveParams, IInv, TypeOk
<1> QED
  BY <1>2, <1>3, <1>4, RestoreStep


-----------------------------------------------------------------------------
(***************************************************************************)
(* The invariant and what follows from it                                  *)
(***************************************************************************)
LEMMA InitStep == ASSUME Init PROVE IInv
<1>1. PICK b : b = <<"parse_file">>
  OBVIOUS
<1>2. "parse_file" \in Steps /\ "parse_file" \notin Strays \cup {"parse_break"}
      /\ "parse_file" \notin Loops \cup Scopes \cup Bodies \cup Params
  BY DEF Steps, OuterSteps, Strays, Loops, Scopes, Bodies, Params
<1>3. b \in Seq(Steps) /\ Len(b) = 1 /\ b[1] = "parse_file" /\ todo = b
  BY <1>1, <1>2 DEF Init
<1>4. \A i \in 1 .. Len(b) : i = 1 /\ b[i] = "parse_file"
  BY <1>3
<1>5. Good(b)
  BY <1>3, <1>4 DEF Good, Rest, Shaped
<1>6. ~Has(b, Loops) /\ ~Has(b, Scopes) /\ ~Has(b, Bodies) /\ ~Has(b, Params)
  BY <1>2, <1>4 DEF Has
<1>7. Pending(b, Loops) = <<>> /\ Pending(b, Scopes) = <<>>
  BY <1>3, <1>6, NonePending
<1>8. /\ current_scope = <<"global">> /\ prev_scope = <<>> /\ loop_depth = 0
      /\ in_func = FALSE /\ prev_in_func = FALSE /\ main_seen = FALSE /\ errors = FALSE
  BY DEF Init
<1>9. Fits(b)
  <2>1. ScopesFit(b) /\ loop_depth = Len(Pending(b, Loops))
    BY <1>7, <1>8 DEF ScopesFit
  <2>2. FuncFits(b)
    BY <1>6, <1>8 DEF FuncFits
  <2> QED
    BY <2>1, <2>2 DEF Fits
<1>10. StrayInv
  BY <1>2, <1>3, <1>4 DEF StrayInv, Strays
<1>11. TypeOk
  <2>1. current_scope \in Seq({"global", "param", "for", "block"}) /\ prev_scope \in Seq(Nat)
    BY <1>8
  <2>2. /\ in_func \in BOOLEAN /\ prev_in_func \in BOOLEAN /\ main_seen \in BOOLEAN
        /\ errors \in BOOLEAN
    BY <1>8
  <2>3. /\ tok \in Tokens /\ mod \subseteq {"const", "mutable"} /\ func \in FuncNames
        /\ param_count \in 0 .. MaxParams /\ status \in {"parsing", "done", "crashed"}
        /\ funcs \in [FuncNames -> {"none", "declared", "params", "std", "dangling"}]
    BY ParserAssumption DEF Init, ParserAssumption
  <2> QED
    BY <2>1, <2>2, <2>3 DEF TypeOk
<1> QED
  BY <1>3, <1>5, <1>9, <1>10, <1>11 DEF IInv

LEMMA StutterStep == ASSUME IInv, UNCHANGED vars PROVE IInv'
<1>1. /\ todo' = todo /\ UNCHANGED <<tok, current_scope, prev_scope, loop_depth, in_func,
                                     prev_in_func, main_seen, funcs, mod, func, param_count,
                                     errors, status>>
  BY DEF vars, context, symbols
<1>2. PICK s : s = todo
  OBVIOUS
<1>3. Fits(s)'
  BY <1>1, <1>2, FitsKept DEF IInv, Context
<1>4. Good(todo)' /\ Fits(todo)'
  BY <1>1, <1>2, <1>3 DEF IInv, Good, Rest, Shaped, MayStand, Fits, ScopesFit, FuncFits
<1>5. StrayInv' /\ TypeOk'
  BY <1>1 DEF IInv, StrayInv, TypeOk
<1> QED
  BY <1>4, <1>5 DEF IInv

LEMMA NextStep == ASSUME IInv, [Next]_vars PROVE IInv'
<1>1. CASE Cursor
  BY <1>1, ReadStep, MismatchStep, SkipStep, DiagStep DEF Cursor
<1>2. CASE Expression
  BY <1>2, ParseType, ModStep, ParseExpr, ParseUnary, ParseAtom, ParseCall, ParseVar,
     ParseLvalue DEF Expression
<1>3. CASE Statement
  BY <1>3, ParseAssign, ParseVarDecl, ParseArray, InsertStep, BreakStep, ParseExit, ReturnStep,
     ParseParenCond, ParseCondition, ParseWhile, ParseFor, LineStep, ParseBody DEF Statement
<1>4. CASE Declaration
  BY <1>4, ParseTypedef, ParseBlockDecl, ParseField, FuncDeclStep, ParamStep, ParseUse,
     MainStep, FileStep, EndStep DEF Declaration
<1>5. CASE Around
  BY <1>5, BlockStep, ForStep, ParamsStep, LoopStep, FuncStep, InsertFuncStep, SetParamsStep,
     UnwindStep, LeaveScopeStep, LeaveParamsStep, LeaveLoopStep, LeaveFuncStep DEF Around
<1>6. CASE UNCHANGED vars
  BY <1>6, StutterStep
<1> QED
  BY <1>1, <1>2, <1>3, <1>4, <1>5, <1>6 DEF Next

(* What the active calls have left to do, the chain of scopes with the     *)
(* lengths the calls have put by, loop_depth and in_func agree throughout  *)
(* the descent, on the paths of syntax errors too; a stray statement is    *)
(* read only with its error on record.                                     *)
THEOREM ParserInductive == Spec => []IInv
<1>1. Init => IInv
  BY InitStep
<1>2. IInv /\ [Next]_vars => IInv'
  BY NextStep
<1> QED
  BY <1>1, <1>2, PTL DEF Spec

(* The parser's state is well typed; in particular params[param_count++]   *)
(* in ktl_parse_param stays inside the array, and the scope each active    *)
(* call goes back to is one of those there are.                            *)
THEOREM TypeInvCorrect == Spec => []TypeInv
<1>1. IInv => TypeInv
  <2> SUFFICES ASSUME IInv PROVE TypeInv
    OBVIOUS
  <2>2. todo \in Seq(Steps) /\ todo # <<>>
    BY HeadFacts
  <2>3. PICK open : open = Pending(todo, Scopes)
    OBVIOUS
  <2>4. open \in Seq(Scopes) /\ Len(open) \in Nat
    BY <2>3, PendingSeq, HeadFacts
  <2>5. /\ Len(current_scope) = Len(open) + 1 /\ Len(prev_scope) = Len(open)
        /\ \A i \in 1 .. Len(open) : prev_scope[i] = i
    BY <2>3 DEF IInv, Fits, ScopesFit
  <2>6. \A i \in 1 .. Len(prev_scope) : prev_scope[i] \in 1 .. Len(current_scope)
    BY <2>4, <2>5
  <2>7. prev_scope \in Seq(1 .. Len(current_scope))
    BY <2>6 DEF IInv, TypeOk
  <2>8. loop_depth \in Nat
    <3>1. Pending(todo, Loops) \in Seq(Loops)
      BY PendingSeq, HeadFacts
    <3>2. PICK p \in Seq(Loops) : p = Pending(todo, Loops)
      BY <3>1
    <3> QED
      BY <3>2 DEF IInv, Fits
  <2>9. {in_func, prev_in_func, main_seen, errors} \subseteq BOOLEAN
    <3>1. /\ in_func \in BOOLEAN /\ prev_in_func \in BOOLEAN /\ main_seen \in BOOLEAN
          /\ errors \in BOOLEAN
      BY DEF IInv, TypeOk
    <3> QED
      BY <3>1, Zenon
  <2> QED
    BY <2>2, <2>7, <2>8, <2>9 DEF IInv, TypeOk, TypeInv
<1> QED
  BY <1>1, ParserInductive, PTL

(* The chain of scopes is the nesting of the blocks, loops and functions   *)
(* around the cursor, however the declarations before it ended.            *)
THEOREM ScopeIsNestingCorrect == Spec => []ScopeIsNesting
<1>1. IInv => ScopeIsNesting
  <2> SUFFICES ASSUME IInv PROVE ScopeIsNesting
    OBVIOUS
  <2>1. PICK open : open = Pending(todo, Scopes)
    OBVIOUS
  <2>2. open \in Seq(Scopes) /\ DOMAIN open = 1 .. Len(open)
    BY <2>1, PendingSeq, HeadFacts
  <2>3. /\ Len(current_scope) = Len(open) + 1
        /\ \A i \in 1 .. Len(open) : open[i] = Leaving[current_scope[i + 1]]
    BY <2>1 DEF IInv, Fits, ScopesFit
  <2>4. open = Pending(todo, {"leave_block", "leave_for", "leave_param"})
    BY <2>1 DEF Scopes
  <2> QED
    BY <2>2, <2>3, <2>4 DEF ScopeIsNesting
<1> QED
  BY <1>1, ParserInductive, PTL

(* loop_depth counts the loops around the cursor and in_func tells whether *)
(* it is inside a function, also after errors inside either.               *)
THEOREM ContextIsNestingCorrect == Spec => []ContextIsNesting
<1>1. IInv => ContextIsNesting
  <2> SUFFICES ASSUME IInv PROVE ContextIsNesting
    OBVIOUS
  <2>1. loop_depth = Len(Pending(todo, {"loop_depth--"}))
    BY DEF IInv, Fits, Loops
  <2>2. Has(todo, Bodies) <=> InFunction
    BY HeadFacts, ElementFacts DEF Has, Bodies, InFunction, ToDo
  <2> QED
    BY <2>1, <2>2 DEF IInv, Fits, FuncFits, ContextIsNesting
<1> QED
  BY <1>1, ParserInductive, PTL

(* A break or continue that no loop encloses, and a return that no         *)
(* function encloses, are never read without an error being on record:     *)
(* ktl_parse_break and ktl_parse_return report before they advance.        *)
THEOREM StrayReportedCorrect == Spec => StrayReported
<1> DEFINE A == Read => /\ Head(todo) \in {"break", "continue"} /\ ~InLoop => errors
                        /\ Head(todo) = "return" /\ ~InFunction => errors
<1>1. IInv /\ [Next]_vars => [A]_vars
  <2> SUFFICES ASSUME IInv PROVE /\ Head(todo) \in {"break", "continue"} /\ ~InLoop => errors
                                 /\ Head(todo) = "return" /\ ~InFunction => errors
    OBVIOUS
  <2>1. todo[1] = Head(todo) /\ todo \in Seq(Steps)
    BY HeadFacts
  <2>2. DOMAIN todo = 1 .. Len(todo)
    BY <2>1, ElementFacts
  <2>3. Head(todo) \in {"break", "continue"} /\ ~InLoop => errors
    <3>1. ~InLoop => ~Has(todo, Loops)
      BY <2>2 DEF Has, Loops, InLoop, ToDo
    <3>2. ~InLoop => loop_depth = 0
      BY <2>1, <3>1, NonePending DEF IInv, Fits
    <3> QED
      BY <2>1, <3>2 DEF IInv, StrayInv
  <2>4. Head(todo) = "return" /\ ~InFunction => errors
    <3>1. ~InFunction => ~Has(todo, Bodies)
      BY <2>2 DEF Has, Bodies, InFunction, ToDo
    <3>2. ~InFunction => ~in_func
      BY <3>1 DEF IInv, Fits, FuncFits
    <3> QED
      BY <2>1, <3>2 DEF IInv, StrayInv
  <2> QED
    BY <2>3, <2>4
<1>2. Spec => [][A]_vars
  BY <1>1, ParserInductive, PTL DEF Spec
<1> QED
  BY <1>2 DEF StrayReported
=============================================================================
