-------------------------- MODULE TokenizerProofs --------------------------
(***************************************************************************)
(* Proofs about the tokenizer, for every alphabet, every text and every    *)
(* nesting of includes: the context it saves and restores, the positions   *)
(* of the tokens, how far it reads, and that it reads what is written.     *)
(***************************************************************************)
EXTENDS Tokenizer, TLAPS, NaturalsInduction, WellFoundedInduction, FiniteSetTheorems

(***************************************************************************)
(* Numbers, sequences and sets                                             *)
(***************************************************************************)
LEMMA LeastNat ==
  ASSUME NEW T \in SUBSET Nat, T # {}
  PROVE  \E x \in T : \A y \in T : x <= y
<1>1. IsWellFoundedOn(OpToRel(<, Nat), Nat)
  BY NatLessThanWellFounded
<1>2. PICK x \in T : \A y \in T : <<y, x>> \notin OpToRel(<, Nat)
  BY <1>1, WFMin
<1>3. \A y \in T : ~(y < x)
  BY <1>2, Zenon DEF OpToRel
<1> QED
  BY <1>3

(* Induction up to N: what holds of 0 and goes on from n - 1 to n.         *)
LEMMA UpTo ==
  ASSUME NEW N \in Nat, NEW T, 0 \in T, \A n \in 1 .. N : n - 1 \in T => n \in T
  PROVE  \A n \in 0 .. N : n \in T
<1> DEFINE B == {n \in 0 .. N : n \notin T}
<1>1. SUFFICES ASSUME B # {} PROVE FALSE
  OBVIOUS
<1>2. PICK n \in B : \A m \in B : n <= m
  <2>1. B \in SUBSET Nat /\ B # {}
    BY <1>1
  <2> HIDE DEF B
  <2> QED
    BY <2>1, LeastNat
<1>3. n \in 1 .. N /\ n - 1 \in 0 .. N /\ n - 1 \notin B
  BY <1>2
<1> QED
  BY <1>2, <1>3

(* The same where a value is given, on B, or comes from the value at a     *)
(* smaller number.                                                         *)
Descends(N, S, B, base, prev, step_) ==
  {g \in [1 .. N -> S] : \A n \in 1 .. N :
     g[n] = IF n \in B THEN base[n] ELSE step_[<<g[prev[n]], n>>]}

LEMMA Descending ==
  ASSUME NEW N \in Nat, NEW S, NEW B, NEW base, \A n \in 1 .. N : n \in B => base[n] \in S,
         NEW prev, \A n \in 1 .. N : n \notin B => prev[n] \in 1 .. n - 1,
         NEW step_ \in [S \X (1 .. N) -> S]
  PROVE  Descends(N, S, B, base, prev, step_) # {}
<1> DEFINE T == {m \in 0 .. N : \E g \in [1 .. m -> S] : \A n \in 1 .. m :
                   g[n] = IF n \in B THEN base[n] ELSE step_[<<g[prev[n]], n>>]}
<1>1. 0 \in T
  <2> DEFINE g == [n \in 1 .. 0 |-> base]
  <2>1. g \in [1 .. 0 -> S]
    OBVIOUS
  <2> HIDE DEF g
  <2>2. \A n \in 1 .. 0 : g[n] = IF n \in B THEN base[n] ELSE step_[<<g[prev[n]], n>>]
    OBVIOUS
  <2>3. 0 \in 0 .. N
    OBVIOUS
  <2> QED
    BY <2>1, <2>2, <2>3, Zenon
<1>2. ASSUME NEW m \in 1 .. N, m - 1 \in T PROVE m \in T
  <2>1. PICK g \in [1 .. m - 1 -> S] : \A n \in 1 .. m - 1 :
          g[n] = IF n \in B THEN base[n] ELSE step_[<<g[prev[n]], n>>]
    BY <1>2
  <2> DEFINE h == [n \in 1 .. m |->
                     IF n = m THEN IF m \in B THEN base[m] ELSE step_[<<g[prev[m]], m>>]
                     ELSE g[n]]
  <2>2. \A n \in 1 .. m : n \in 1 .. N /\ (n # m => n \in 1 .. m - 1)
    OBVIOUS
  <2>3. (IF m \in B THEN base[m] ELSE step_[<<g[prev[m]], m>>]) \in S
    <3>1. CASE m \in B
      BY <3>1
    <3>2. CASE m \notin B
      <4>1. prev[m] \in 1 .. m - 1
        BY <3>2
      <4>2. g[prev[m]] \in S
        BY <4>1
      <4>3. <<g[prev[m]], m>> \in S \X (1 .. N)
        BY <4>2
      <4> QED
        BY <3>2, <4>3
    <3> QED
      BY <3>1, <3>2
  <2>4. h \in [1 .. m -> S]
    BY <2>2, <2>3
  <2>5. \A n \in 1 .. m : h[n] = IF n \in B THEN base[n] ELSE step_[<<h[prev[n]], n>>]
    <3> TAKE n \in 1 .. m
    <3>1. n \notin B => prev[n] \in 1 .. n - 1
      BY <2>2
    <3>2. n \notin B => h[prev[n]] = g[prev[n]]
      <4>1. n \notin B => prev[n] \in 1 .. m /\ prev[n] # m
        BY <3>1
      <4> QED
        BY <4>1
    <3>3. CASE n = m
      BY <3>2, <3>3
    <3>4. CASE n # m
      BY <2>1, <2>2, <3>2, <3>4
    <3> QED
      BY <3>3, <3>4
  <2> HIDE DEF h
  <2> QED
    BY <2>4, <2>5
<1>3. N \in T
  <2> HIDE DEF T
  <2>1. \A n \in 1 .. N : n - 1 \in T => n \in T
    BY <1>2, Zenon
  <2>2. \A n \in 0 .. N : n \in T
    BY <1>1, <2>1, UpTo, Zenon
  <2> QED
    BY <2>2
<1> QED
  BY <1>3 DEF Descends

IsSequence(s) == s \in Seq({s[i] : i \in DOMAIN s})

LEMMA FunctionIsSequence ==
  ASSUME NEW T, NEW n \in Nat, NEW t \in [1 .. n -> T]
  PROVE  t \in Seq(T) /\ Len(t) = n
OBVIOUS

(* A sequence is a sequence over its own elements, and stays one when it   *)
(* is extended.                                                            *)
LEMMA SequenceFacts ==
  ASSUME NEW s, IsSequence(s)
  PROVE  /\ Len(s) \in Nat /\ DOMAIN s = 1 .. Len(s)
         /\ \A e : /\ IsSequence(Append(s, e))
                   /\ Len(Append(s, e)) = Len(s) + 1
                   /\ Append(s, e)[Len(s) + 1] = e
                   /\ \A i \in 1 .. Len(s) : Append(s, e)[i] = s[i]
<1> DEFINE S == {s[i] : i \in DOMAIN s}
<1>1. s \in Seq(S)
  BY DEF IsSequence
<1>2. Len(s) \in Nat /\ DOMAIN s = 1 .. Len(s)
  BY <1>1
<1>3. ASSUME NEW e
      PROVE  /\ IsSequence(Append(s, e))
             /\ Len(Append(s, e)) = Len(s) + 1
             /\ Append(s, e)[Len(s) + 1] = e
             /\ \A i \in 1 .. Len(s) : Append(s, e)[i] = s[i]
  <2> DEFINE t == Append(s, e)
             T == {t[i] : i \in DOMAIN t}
  <2>1. s \in Seq(S \cup {e})
    BY <1>1
  <2>2. /\ t \in Seq(S \cup {e})
        /\ Len(t) = Len(s) + 1 /\ DOMAIN t = 1 .. Len(s) + 1
        /\ t[Len(s) + 1] = e
        /\ \A i \in 1 .. Len(s) : t[i] = s[i]
    BY <2>1, <1>2
  <2>3. \A i \in 1 .. Len(t) : t[i] \in T
    BY <2>2
  <2>4. t \in Seq(T)
    BY <2>2, <2>3
  <2> QED
    BY <2>2, <2>4 DEF IsSequence
<1> QED
  BY <1>2, <1>3

LEMMA OverItsElements ==
  ASSUME NEW S, NEW t \in Seq(S)
  PROVE  IsSequence(t)
<1>1. t \in [1 .. Len(t) -> S] /\ Len(t) \in Nat /\ DOMAIN t = 1 .. Len(t)
  OBVIOUS
<1>2. t \in [1 .. Len(t) -> {t[i] : i \in DOMAIN t}]
  BY <1>1
<1>3. t \in Seq({t[i] : i \in DOMAIN t})
  BY <1>1, <1>2, FunctionIsSequence
<1> QED
  BY <1>3 DEF IsSequence

(* Without the last element.                                               *)
LEMMA SequenceShortened ==
  ASSUME NEW s, IsSequence(s), Len(s) # 0, NEW t, t = SubSeq(s, 1, Len(s) - 1)
  PROVE  /\ IsSequence(t) /\ Len(t) = Len(s) - 1
         /\ \A i \in 1 .. Len(t) : i \in 1 .. Len(s) /\ t[i] = s[i]
<1> DEFINE S == {s[i] : i \in DOMAIN s}
<1>1. s \in Seq(S)
  BY DEF IsSequence
<1>2. Len(s) \in Nat \ {0} /\ DOMAIN s = 1 .. Len(s)
  BY <1>1
<1> HIDE DEF S
<1>3. t \in Seq(S) /\ Len(t) = Len(s) - 1 /\ DOMAIN t = 1 .. Len(t)
      /\ \A i \in 1 .. Len(t) : t[i] = s[i]
  BY <1>1, <1>2
<1>4. IsSequence(t)
  BY <1>3, OverItsElements
<1> QED
  BY <1>2, <1>3, <1>4

LEMMA MinFacts ==
  ASSUME NEW S \in SUBSET Nat, S # {}
  PROVE  Min(S) \in S /\ \A y \in S : Min(S) <= y
<1>1. \E x \in S : \A y \in S : x <= y
  BY LeastNat
<1> QED
  BY <1>1 DEF Min

LEMMA MaxFacts ==
  ASSUME NEW b \in Nat, NEW S \in SUBSET (0 .. b), S # {}
  PROVE  Max(S) \in S /\ \A y \in S : y <= Max(S)
<1> DEFINE D == {b - x : x \in S}
<1>1. D \in SUBSET Nat /\ D # {}
  <2>1. \A x \in S : b - x \in Nat
    <3>1. \A x \in S : x \in 0 .. b
      OBVIOUS
    <3> QED
      BY <3>1
  <2> QED
    BY <2>1
<1>2. PICK d \in D : \A e \in D : d <= e
  <2> HIDE DEF D
  <2> QED
    BY <1>1, LeastNat
<1>3. PICK x \in S : d = b - x
  BY <1>2
<1>4. \A y \in S : y <= x
  <2> TAKE y \in S
  <2>1. b - y \in D /\ y \in Nat /\ x \in Nat
    OBVIOUS
  <2>2. b - x <= b - y
    BY <1>2, <1>3, <2>1
  <2> QED
    BY <2>1, <2>2
<1>5. \E z \in S : \A y \in S : y <= z
  BY <1>4
<1> QED
  BY <1>5 DEF Max


-----------------------------------------------------------------------------
(***************************************************************************)
(* Texts                                                                   *)
(***************************************************************************)
LEMMA NulIsNoChar == NUL \notin Chars
<1>1. Chars \subseteq {NL, INC, Quote, Back, "'", "?"} \cup Blanks \cup IdCont \cup Puncts
  BY TokenizerAssumption DEF TokenizerAssumption
<1>2. NUL \notin {NL, INC, Quote, Back, "'", "?"} \cup Blanks \cup IdCont \cup Puncts
  BY DEF NUL, NL, INC, Quote, Back, Blanks, IdCont, IdStart, Digits, Puncts
<1> QED
  BY <1>1, <1>2

LEMMA CharFacts ==
  ASSUME Text \in Seq(Chars)
  PROVE  /\ Len(Text) \in Nat
         /\ \A p \in Nat : /\ c(p) = NUL <=> Len(Text) <= p
                           /\ p < Len(Text) => c(p) = Text[p + 1] /\ c(p) # NUL
<1>1. Len(Text) \in Nat
  OBVIOUS
<1>2. \A p \in Nat : p < Len(Text) => Text[p + 1] \in Chars
  OBVIOUS
<1> QED
  BY <1>1, <1>2, NulIsNoChar DEF c

LEMMA UntilFacts ==
  ASSUME Text \in Seq(Chars), NEW p \in 0 .. Len(Text), NEW stop, NEW q, q = Until(p, stop)
  PROVE  /\ q \in p .. Len(Text) /\ c(q) \in stop \cup {NUL}
         /\ \A k \in p .. q - 1 : c(k) \notin stop \cup {NUL}
<1> DEFINE S == {k \in p .. Len(Text) : c(k) \in stop \cup {NUL}}
<1>1. Len(Text) \in Nat /\ c(Len(Text)) = NUL
  BY CharFacts
<1>2. S \in SUBSET Nat /\ Len(Text) \in S
  BY <1>1
<1>3. q = Min(S)
  BY DEF Until
<1>4. q \in S /\ \A k \in S : q <= k
  <2> HIDE DEF S
  <2> QED
    BY <1>2, <1>3, MinFacts
<1>5. ASSUME NEW k \in p .. q - 1  PROVE k \notin S /\ k \in p .. Len(Text)
  BY <1>1, <1>4
<1> QED
  BY <1>4, <1>5

LEMMA RunFacts ==
  ASSUME Text \in Seq(Chars), NEW p \in 0 .. Len(Text), NEW run, NUL \notin run,
         NEW q, q = EndOfRun(p, run)
  PROVE  /\ q \in p .. Len(Text) /\ c(q) \notin run
         /\ \A k \in p .. q - 1 : c(k) \in run
<1> DEFINE S == {k \in p .. Len(Text) : c(k) \notin run}
<1>1. Len(Text) \in Nat /\ c(Len(Text)) = NUL
  BY CharFacts
<1>2. S \in SUBSET Nat /\ Len(Text) \in S
  BY <1>1
<1>3. q = Min(S)
  BY DEF EndOfRun
<1>4. q \in S /\ \A k \in S : q <= k
  <2> HIDE DEF S
  <2> QED
    BY <1>2, <1>3, MinFacts
<1>5. ASSUME NEW k \in p .. q - 1  PROVE k \notin S /\ k \in p .. Len(Text)
  BY <1>1, <1>4
<1> QED
  BY <1>4, <1>5

(***************************************************************************)
(* Places                                                                  *)
(***************************************************************************)
Places == [line : Nat, column : Nat]

LineEnds(t, p) == {i \in 1 .. p : t[i] = NL}

LEMMA LineEndsFinite ==
  ASSUME NEW t, NEW p \in Nat
  PROVE  /\ IsFiniteSet(LineEnds(t, p)) /\ Cardinality(LineEnds(t, p)) \in Nat
         /\ LineEnds(t, p) \in SUBSET (0 .. p)
<1>1. IsFiniteSet(1 .. p)
  BY FS_Interval
<1>2. LineEnds(t, p) \subseteq 1 .. p
  BY DEF LineEnds
<1>3. IsFiniteSet(LineEnds(t, p))
  BY <1>1, <1>2, FS_Subset
<1>4. 1 .. p \subseteq 0 .. p
  OBVIOUS
<1> QED
  BY <1>2, <1>3, <1>4, FS_CardinalityType

(* On the same line.                                                       *)
LEMMA PlaceAlong ==
  ASSUME NEW t, NEW p \in Nat, NEW q \in Nat, p <= q, \A i \in p + 1 .. q : t[i] # NL
  PROVE  Place(t, q) = [Place(t, p) EXCEPT !.column = @ + (q - p)]
<1> DEFINE S == LineEnds(t, p)
<1>1. LineEnds(t, q) = S
  <2>1. \A i \in 1 .. q : i \in 1 .. p \/ i \in p + 1 .. q
    OBVIOUS
  <2>2. \A i \in 1 .. p : i \in 1 .. q
    OBVIOUS
  <2> QED
    BY <2>1, <2>2 DEF LineEnds
<1>2. Place(t, p) = Pos(Cardinality(S), IF S = {} THEN p ELSE p - Max(S))
  BY DEF Place, LineEnds
<1>3. Place(t, q) = Pos(Cardinality(S), IF S = {} THEN q ELSE q - Max(S))
  BY <1>1 DEF Place, LineEnds
<1>4. S # {} => Max(S) \in Int
  <2>1. S \in SUBSET (0 .. p)
    BY LineEndsFinite
  <2> HIDE DEF S
  <2>2. ASSUME S # {}  PROVE Max(S) \in S
    BY <2>1, <2>2, MaxFacts
  <2>3. \A x \in S : x \in Int
    BY <2>1
  <2> QED
    BY <2>2, <2>3
<1> HIDE DEF S
<1>5. (IF S = {} THEN q ELSE q - Max(S)) = (IF S = {} THEN p ELSE p - Max(S)) + (q - p)
  BY <1>4
<1> QED
  BY <1>2, <1>3, <1>5 DEF Pos


LEMMA Shifted ==
  ASSUME NEW S \in SUBSET Nat, IsFiniteSet(S), NEW T, T = {i + 1 : i \in S}
  PROVE  IsFiniteSet(T) /\ Cardinality(T) = Cardinality(S)
<1> DEFINE f == [i \in S |-> i + 1]
<1>1. f \in [S -> T]
  OBVIOUS
<1>2. \A a, b \in S : f[a] = f[b] => a = b
  OBVIOUS
<1>3. \A x \in T : \E a \in S : f[a] = x
  OBVIOUS
<1> HIDE DEF f
<1>4. f \in Bijection(S, T)
  BY <1>1, <1>2, <1>3 DEF Bijection, Injection, Surjection, IsInjective
<1>5. ExistsBijection(S, T)
  BY <1>4 DEF ExistsBijection
<1> QED
  BY <1>5, FS_Bijection

(* Over the line ends in the characters from p to before q.                *)
LinesBetween(t, p, q) == {i \in p .. q - 1 : t[i + 1] = NL}

LEMMA PlaceBehindLines ==
  ASSUME NEW t, NEW p \in Nat, NEW q \in Nat, p <= q,
         NEW lines, lines = LinesBetween(t, p, q), lines # {}
  PROVE  /\ IsFiniteSet(lines) /\ Cardinality(lines) \in Nat /\ Max(lines) \in p .. q - 1
         /\ Place(t, q) = Pos(Place(t, p).line + Cardinality(lines), q - 1 - Max(lines))
<1> DEFINE S == LineEnds(t, p)
           T == LineEnds(t, q)
           N == {i + 1 : i \in lines}
<1>1. /\ lines \in SUBSET (0 .. q) /\ lines \in SUBSET Nat /\ lines \in SUBSET (p .. q - 1)
      /\ IsFiniteSet(lines)
  <2>1. IsFiniteSet(p .. q - 1)
    BY FS_Interval
  <2>2. lines \in SUBSET (p .. q - 1)
    BY DEF LinesBetween
  <2>3. p .. q - 1 \subseteq 0 .. q /\ p .. q - 1 \subseteq Nat
    OBVIOUS
  <2> QED
    BY <2>1, <2>2, <2>3, FS_Subset
<1>2. Max(lines) \in lines /\ \A i \in lines : i <= Max(lines)
  <2>1. lines \in SUBSET (0 .. q)
    BY <1>1
  <2> QED
    BY <2>1, MaxFacts
<1>3. IsFiniteSet(N) /\ Cardinality(N) = Cardinality(lines)
  BY <1>1, Shifted
<1>4. T = S \cup N /\ S \cap N = {}
  <2>1. \A i \in 1 .. q : i \in 1 .. p \/ (i - 1 \in p .. q - 1 /\ (i - 1) + 1 = i)
    OBVIOUS
  <2>2. \A i \in p .. q - 1 : i + 1 \in 1 .. q /\ i + 1 \notin 1 .. p
    OBVIOUS
  <2>3. \A i \in 1 .. p : i \in 1 .. q
    OBVIOUS
  <2>4. ASSUME NEW i \in T  PROVE i \in S \cup N
    <3>1. i \in 1 .. q /\ t[i] = NL
      BY DEF LineEnds, LinesBetween
    <3>2. CASE i \in 1 .. p
      BY <3>1, <3>2 DEF LineEnds, LinesBetween
    <3>3. CASE i - 1 \in p .. q - 1 /\ (i - 1) + 1 = i
      BY <3>1, <3>3 DEF LinesBetween
    <3> QED
      BY <2>1, <3>1, <3>2, <3>3
  <2>5. S \subseteq T
    BY <2>3 DEF LineEnds, LinesBetween
  <2>6. N \subseteq T
    BY <2>2 DEF LineEnds, LinesBetween
  <2>7. S \cap N = {}
    BY <2>2 DEF LineEnds, LinesBetween
  <2> QED
    BY <2>4, <2>5, <2>6, <2>7
<1>5. /\ IsFiniteSet(S) /\ Cardinality(S) \in Nat
      /\ IsFiniteSet(T) /\ T \in SUBSET (0 .. q)
  BY LineEndsFinite
<1>6. Cardinality(lines) \in Nat
  BY <1>1, FS_CardinalityType
<1>7. Cardinality(T) = Cardinality(S) + Cardinality(lines)
  <2> HIDE DEF S, T, N
  <2>1. Cardinality(S \cup N) = Cardinality(S) + Cardinality(N) - Cardinality(S \cap N)
    BY <1>3, <1>5, FS_Union
  <2>2. Cardinality(S \cap N) = 0
    BY <1>4, FS_EmptySet
  <2> QED
    BY <1>3, <1>4, <1>5, <1>6, <2>1, <2>2
<1>8. Max(lines) + 1 \in T
  BY <1>2, <1>4
<1>9. Max(T) = Max(lines) + 1
  <2>1. Max(T) \in T /\ \A i \in T : i <= Max(T)
    <3> HIDE DEF T
    <3> QED
      BY <1>5, <1>8, MaxFacts
  <2>2. \A i \in T : i <= Max(lines) + 1
    <3> TAKE i \in T
    <3>1. CASE i \in S
      BY <1>1, <1>2, <3>1 DEF LineEnds, LinesBetween
    <3>2. CASE i \in N
      BY <1>1, <1>2, <3>2
    <3> QED
      BY <1>4, <3>1, <3>2
  <2>3. Max(T) \in Int /\ Max(lines) \in Int
    BY <1>1, <1>2, <1>5, <2>1
  <2>4. Max(T) <= Max(lines) + 1
    BY <2>1, <2>2
  <2>5. Max(lines) + 1 <= Max(T)
    BY <1>8, <2>1
  <2> HIDE DEF T
  <2> QED
    BY <2>3, <2>4, <2>5
<1>10. Place(t, q) = Pos(Cardinality(T), IF T = {} THEN q ELSE q - Max(T))
  BY DEF Place, LineEnds
<1>11. Place(t, p).line = Cardinality(S)
  BY DEF Place, LineEnds, Pos
<1>12. T # {} /\ q - Max(T) = q - 1 - Max(lines)
  <2>1. Max(lines) \in Int
    BY <1>1, <1>2
  <2> HIDE DEF T
  <2> QED
    BY <1>8, <1>9, <2>1
<1> HIDE DEF S, T, N
<1> QED
  BY <1>1, <1>2, <1>6, <1>7, <1>10, <1>11, <1>12


(* advance over characters of one line.                                    *)
LEMMA AdvanceFacts ==
  ASSUME Text \in Seq(Chars), buffer_pos \in 0 .. Len(Text), source_pos \in Places,
         NEW q \in Nat, buffer_pos <= q, AdvanceTo(q)
  PROVE  /\ buffer_pos' = q /\ source_pos' \in Places
         /\ source_pos' = [source_pos EXCEPT !.column = @ + (q - buffer_pos)]
         /\ /\ q <= Len(Text) /\ source_pos = Place(Text, buffer_pos)
            /\ (\A k \in buffer_pos .. q - 1 : c(k) # NL)
            => source_pos' = Place(Text, q)
<1>1. buffer_pos' = q /\ source_pos' = [source_pos EXCEPT !.column = @ + (q - buffer_pos)]
  BY DEF AdvanceTo
<1>2. buffer_pos \in Nat /\ q - buffer_pos \in Nat
  BY CharFacts
<1>3. source_pos' \in Places
  BY <1>1, <1>2 DEF Places
<1>4. ASSUME q <= Len(Text), \A k \in buffer_pos .. q - 1 : c(k) # NL,
             source_pos = Place(Text, buffer_pos)
      PROVE  source_pos' = Place(Text, q)
  <2>1. ASSUME NEW i \in buffer_pos + 1 .. q  PROVE Text[i] # NL
    <3>1. i - 1 \in buffer_pos .. q - 1 /\ (i - 1) + 1 = i /\ i - 1 < Len(Text)
      BY <1>2, <1>4, CharFacts
    <3>2. c(i - 1) = Text[i]
      BY <3>1 DEF c
    <3> QED
      BY <1>4, <3>1, <3>2
  <2>2. Place(Text, q) = [Place(Text, buffer_pos) EXCEPT !.column = @ + (q - buffer_pos)]
    BY <1>2, <2>1, PlaceAlong
  <2> QED
    BY <1>1, <1>4, <2>2
<1> QED
  BY <1>1, <1>3, <1>4

(* advance and new_line, whichever the character is for.                   *)
LEMMA LinesFacts ==
  ASSUME Text \in Seq(Chars), buffer_pos \in 0 .. Len(Text), source_pos \in Places,
         NEW q \in Nat, buffer_pos <= q, q <= Len(Text), LinesTo(q)
  PROVE  /\ buffer_pos' = q /\ source_pos' \in Places
         /\ source_pos = Place(Text, buffer_pos) => source_pos' = Place(Text, q)
<1> DEFINE lines == {i \in buffer_pos .. q - 1 : c(i) = NL}
<1>1. /\ buffer_pos' = q
      /\ source_pos' = IF lines = {}
                         THEN [source_pos EXCEPT !.column = @ + (q - buffer_pos)]
                         ELSE Pos(source_pos.line + Cardinality(lines), q - 1 - Max(lines))
  BY DEF LinesTo
<1>2. buffer_pos \in Nat /\ Len(Text) \in Nat
  BY CharFacts
<1>3. CASE lines = {}
  <2>1. AdvanceTo(q)
    BY <1>1, <1>3 DEF AdvanceTo
  <2>2. \A k \in buffer_pos .. q - 1 : c(k) # NL
    BY <1>3
  <2> QED
    BY <2>1, <2>2, AdvanceFacts
<1>4. CASE lines # {}
  <2>1. lines = LinesBetween(Text, buffer_pos, q)
    <3>1. \A i \in buffer_pos .. q - 1 : i < Len(Text)
      BY <1>2
    <3>2. \A i \in buffer_pos .. q - 1 : c(i) = Text[i + 1]
      BY <3>1 DEF c
    <3> QED
      BY <3>2 DEF LinesBetween
  <2> HIDE DEF lines
  <2>2. /\ Cardinality(lines) \in Nat /\ Max(lines) \in buffer_pos .. q - 1
        /\ Place(Text, q) = Pos(Place(Text, buffer_pos).line + Cardinality(lines),
                                q - 1 - Max(lines))
    <3>1. buffer_pos \in Nat
      BY <1>2
    <3> QED
      <4>1. PICK t : t = Text
        OBVIOUS
      <4>2. PICK p : p = buffer_pos
        OBVIOUS
      <4>3. PICK l : l = lines
        OBVIOUS
      <4>4. p \in Nat /\ p <= q /\ l # {} /\ l = LinesBetween(t, p, q)
        BY <1>4, <2>1, <3>1, <4>1, <4>2, <4>3
      <4>5. /\ Cardinality(l) \in Nat /\ Max(l) \in p .. q - 1
            /\ Place(t, q) = Pos(Place(t, p).line + Cardinality(l), q - 1 - Max(l))
        BY <4>4, PlaceBehindLines, ZenonT(60)
      <4> QED
        BY <4>1, <4>2, <4>3, <4>5
  <2>3. source_pos' = Pos(source_pos.line + Cardinality(lines), q - 1 - Max(lines))
    BY <1>1, <1>4
  <2>4. q - 1 - Max(lines) \in Nat
    BY <1>2, <2>2
  <2>5. source_pos' \in Places
    BY <2>2, <2>3, <2>4 DEF Places, Pos
  <2> QED
    BY <1>1, <2>2, <2>3, <2>5
<1> QED
  BY <1>3, <1>4

-----------------------------------------------------------------------------
(***************************************************************************)
(* The loop of ktl_token_str_lit                                           *)
(***************************************************************************)
Signs == Chars \cup {NUL, NL}

Scans == [end : Nat, how : {"past", "open", "closed"}, text : Seq(Signs),
          known : BOOLEAN, lines : Nat, line_at : Nat]

Ends_(p, how) == [end |-> p, how |-> how, text |-> <<>>, known |-> TRUE,
                  lines |-> 0, line_at |-> 0]
Keep_(sym, rest) == [rest EXCEPT !.text = <<sym>> \o @]

(* What the loop makes of the character at p, and of what comes after.     *)
Scanned(p, s) ==
  IF p > Len(Text) THEN Ends_(p, "past")
  ELSE CASE c(p) = NUL   -> Ends_(p, "open")
         [] c(p) = Quote -> Ends_(p + 1, "closed")
         [] c(p) = Back  -> [Keep_(Escaped(c(p + 1)), s[p + 2])
                              EXCEPT !.known = @ /\ c(p + 1) \in DOMAIN Escapes]
         [] c(p) = NL    -> [Keep_(NL, s[p + 2]) EXCEPT !.lines = @ + 1,
                              !.line_at = IF s[p + 2].lines = 0 THEN p + 1 ELSE @]
         [] OTHER        -> Keep_(c(p), s[p + 1])

LEMMA SignsFacts ==
  ASSUME Text \in Seq(Chars)
  PROVE  /\ \A p \in Nat : c(p) \in Signs /\ Escaped(c(p)) \in Signs
         /\ NL \in Signs
<1>1. Len(Text) \in Nat /\ \A p \in Nat : p < Len(Text) => Text[p + 1] \in Chars
  OBVIOUS
<1>2. \A p \in Nat : c(p) \in Signs
  BY <1>1 DEF c, Signs
<1>3. \A x \in Signs : Escaped(x) \in Signs
  BY DEF Escaped, Escapes, Signs
<1> QED
  BY <1>2, <1>3 DEF Signs

LEMMA KeepFacts ==
  ASSUME NEW r \in Scans, NEW x \in Signs
  PROVE  /\ Keep_(x, r) \in Scans
         /\ Keep_(x, r).end = r.end /\ Keep_(x, r).how = r.how
         /\ Keep_(x, r).known = r.known /\ Keep_(x, r).lines = r.lines
         /\ Keep_(x, r).line_at = r.line_at
<1>1. <<x>> \in Seq(Signs)
  OBVIOUS
<1>2. r.text \in Seq(Signs)
  BY DEF Scans
<1>3. <<x>> \o r.text \in Seq(Signs)
  BY <1>1, <1>2
<1> QED
  BY <1>3 DEF Keep_, Scans

(* One round, from what comes after: r is for the next place the round     *)
(* looks at.                                                               *)
Round(p, r) ==
  CASE c(p) = Back  -> [Keep_(Escaped(c(p + 1)), r)
                          EXCEPT !.known = @ /\ c(p + 1) \in DOMAIN Escapes]
    [] c(p) = NL    -> [Keep_(NL, r) EXCEPT !.lines = @ + 1,
                          !.line_at = IF r.lines = 0 THEN p + 1 ELSE @]
    [] OTHER        -> Keep_(c(p), r)

LEMMA RoundFacts ==
  ASSUME Text \in Seq(Chars), NEW p \in Nat, NEW r \in Scans, NEW o, o = Round(p, r)
  PROVE  /\ o \in Scans /\ o.end = r.end /\ o.how = r.how
         /\ c(p) = Back => /\ o.known = (r.known /\ c(p + 1) \in DOMAIN Escapes)
                           /\ o.lines = r.lines /\ o.line_at = r.line_at
         /\ c(p) # Back /\ c(p) = NL =>
              /\ o.known = r.known /\ o.lines = r.lines + 1
              /\ o.line_at = IF r.lines = 0 THEN p + 1 ELSE r.line_at
         /\ c(p) # Back /\ c(p) # NL =>
              o.known = r.known /\ o.lines = r.lines /\ o.line_at = r.line_at
<1>0. /\ c(p) \in Signs /\ Escaped(c(p + 1)) \in Signs /\ NL \in Signs
      /\ r.lines \in Nat /\ r.known \in BOOLEAN
  BY SignsFacts DEF Scans
<1>1. CASE c(p) = Back
  <2>1. PICK k : k = Keep_(Escaped(c(p + 1)), r)
    OBVIOUS
  <2>2. /\ k \in Scans /\ k.end = r.end /\ k.how = r.how /\ k.known = r.known
        /\ k.lines = r.lines /\ k.line_at = r.line_at
    BY <1>0, <2>1, KeepFacts
  <2>3. PICK b \in BOOLEAN : b = (r.known /\ c(p + 1) \in DOMAIN Escapes)
    BY <1>0
  <2>4. o = [k EXCEPT !.known = b]
    <3>1. o = [k EXCEPT !.known = k.known /\ c(p + 1) \in DOMAIN Escapes]
      <4>1. c(p) # NL
        BY <1>1 DEF Back, NL
      <4> QED
        BY <1>1, <2>1, <4>1, Zenon DEF Round
    <3> QED
      BY <2>2, <2>3, <3>1, Zenon
  <2> QED
    BY <1>1, <2>2, <2>3, <2>4 DEF Scans
<1>2. CASE c(p) # Back /\ c(p) = NL
  <2>1. PICK k : k = Keep_(NL, r)
    OBVIOUS
  <2>2. /\ k \in Scans /\ k.end = r.end /\ k.how = r.how /\ k.known = r.known
        /\ k.lines = r.lines /\ k.line_at = r.line_at
    BY <1>0, <2>1, KeepFacts
  <2>3. o = [k EXCEPT !.lines = @ + 1, !.line_at = IF r.lines = 0 THEN p + 1 ELSE @]
    BY <1>2, <2>1 DEF Round
  <2>4. o = [k EXCEPT !.lines = r.lines + 1,
                      !.line_at = IF r.lines = 0 THEN p + 1 ELSE r.line_at]
    BY <2>2, <2>3
  <2>5. PICK a \in Nat : a = IF r.lines = 0 THEN p + 1 ELSE r.line_at
    BY DEF Scans
  <2>6. PICK n \in Nat : n = r.lines + 1
    BY <1>0
  <2>7. o = [k EXCEPT !.lines = n, !.line_at = a]
    BY <2>4, <2>5, <2>6
  <2>8. o \in Scans
    BY <2>2, <2>5, <2>6, <2>7 DEF Scans
  <2>9. /\ o.end = k.end /\ o.how = k.how /\ o.known = k.known
        /\ o.lines = n /\ o.line_at = a
    BY <2>2, <2>7 DEF Scans
  <2> QED
    BY <1>2, <2>2, <2>5, <2>6, <2>8, <2>9
<1>3. CASE c(p) # Back /\ c(p) # NL
  <2>1. o = Keep_(c(p), r)
    BY <1>3 DEF Round
  <2> QED
    BY <1>0, <1>3, <2>1, KeepFacts
<1> QED
  BY <1>1, <1>2, <1>3


LEMMA ScannedIsRound ==
  ASSUME Text \in Seq(Chars), NEW p \in 0 .. Len(Text) + 1, NEW s
  PROVE  Scanned(p, s) =
           IF p > Len(Text) THEN Ends_(p, "past")
           ELSE IF c(p) = NUL THEN Ends_(p, "open")
           ELSE IF c(p) = Quote THEN Ends_(p + 1, "closed")
           ELSE Round(p, IF c(p) \in {Back, NL} THEN s[p + 2] ELSE s[p + 1])
<1>1. /\ Back # NUL /\ Back # Quote /\ Back # NL /\ NL # NUL /\ NL # Quote /\ NUL # Quote
  BY DEF Back, NUL, NL, Quote
<1>2. CASE p > Len(Text)
  BY <1>2 DEF Scanned
<1>3. CASE ~(p > Len(Text)) /\ c(p) \in {NUL, Quote}
  <2>1. CASE c(p) = NUL
    BY <1>1, <1>3, <2>1 DEF Scanned
  <2>2. CASE c(p) = Quote
    BY <1>1, <1>3, <2>2 DEF Scanned
  <2> QED
    BY <1>3, <2>1, <2>2
<1>4. CASE ~(p > Len(Text)) /\ c(p) = Back
  BY <1>1, <1>4, Zenon DEF Scanned, Round
<1>5. CASE ~(p > Len(Text)) /\ c(p) = NL
  BY <1>1, <1>5, Zenon DEF Scanned, Round
<1>6. CASE ~(p > Len(Text)) /\ c(p) \notin {NUL, Quote, Back, NL}
  BY <1>1, <1>6, Zenon DEF Scanned, Round
<1> QED
  BY <1>2, <1>3, <1>4, <1>5, <1>6

LEMMA EndsFacts ==
  ASSUME NEW p \in Nat, NEW how \in {"past", "open", "closed"}, NEW o, o = Ends_(p, how)
  PROVE  o \in Scans /\ o.end = p /\ o.how = how /\ o.known = TRUE /\ o.lines = 0
<1>1. <<>> \in Seq(Signs)
  OBVIOUS
<1> QED
  BY <1>1 DEF Ends_, Scans

LEMMA ScanExists ==
  ASSUME Text \in Seq(Chars)
  PROVE  \E s \in [0 .. Len(Text) + 1 -> Scans] :
           s = [p \in 0 .. Len(Text) + 1 |-> Scanned(p, s)]
<1> DEFINE N == Len(Text) + 2
           B == {n \in 1 .. N : N - n > Len(Text) \/ c(N - n) \in {NUL, Quote}}
           base == [n \in 1 .. N |-> IF N - n > Len(Text) THEN Ends_(N - n, "past")
                                     ELSE IF c(N - n) = NUL THEN Ends_(N - n, "open")
                                     ELSE Ends_(N - n + 1, "closed")]
           prev == [n \in 1 .. N |-> IF c(N - n) \in {Back, NL} THEN n - 2 ELSE n - 1]
           step == [x \in Scans \X (1 .. N) |-> Round(N - x[2], x[1])]
<1>1. Len(Text) \in Nat /\ N \in Nat /\ \A n \in 1 .. N : N - n \in 0 .. Len(Text) + 1
  BY CharFacts
<1>2. \A n \in 1 .. N : base[n] \in Scans
  <2> TAKE n \in 1 .. N
  <2>1. N - n \in Nat /\ N - n + 1 \in Nat
    BY <1>1
  <2>2. \A m \in Nat, how \in {"past", "open", "closed"} : Ends_(m, how) \in Scans
    BY EndsFacts
  <2> HIDE DEF N
  <2> QED
    BY <2>1, <2>2
<1>3. \A n \in 1 .. N : n \notin B => prev[n] \in 1 .. n - 1
  <2> TAKE n \in 1 .. N
  <2>1. ASSUME n \notin B  PROVE n >= 3
    <3>1. N - n <= Len(Text) /\ c(N - n) # NUL /\ N - n \in Nat
      BY <1>1, <2>1
    <3>2. ~(Len(Text) <= N - n)
      BY <3>1, CharFacts
    <3> QED
      BY <1>1, <3>1, <3>2
  <2> QED
    BY <2>1
<1>4. /\ step \in [Scans \X (1 .. N) -> Scans]
      /\ \A r \in Scans, n \in 1 .. N : step[<<r, n>>] = Round(N - n, r)
  <2>1. ASSUME NEW r \in Scans, NEW n \in 1 .. N  PROVE Round(N - n, r) \in Scans
    <3>1. N - n \in Nat
      BY <1>1
    <3>2. PICK o : o = Round(N - n, r)
      OBVIOUS
    <3>3. o \in Scans
      BY <3>1, <3>2, RoundFacts
    <3> QED
      BY <3>2, <3>3
  <2> HIDE DEF N
  <2> QED
    BY <2>1
<1>5. PICK g \in [1 .. N -> Scans] : \A n \in 1 .. N :
        g[n] = IF n \in B THEN base[n] ELSE step[<<g[prev[n]], n>>]
  <2>1. \A n \in 1 .. N : n \in B => base[n] \in Scans
    BY <1>2
  <2>2. step \in [Scans \X (1 .. N) -> Scans]
    BY <1>4
  <2>3. N \in Nat
    BY <1>1
  <2> HIDE DEF N, B, base, prev, step
  <2>4. Descends(N, Scans, B, base, prev, step) # {}
    BY <1>3, <2>1, <2>2, <2>3, Descending, Zenon
  <2> QED
    BY <2>4 DEF Descends
<1> DEFINE s == [p \in 0 .. Len(Text) + 1 |-> g[N - p]]
<1>6. s \in [0 .. Len(Text) + 1 -> Scans]
  <2>1. \A p \in 0 .. Len(Text) + 1 : N - p \in 1 .. N
    BY <1>1
  <2> HIDE DEF N
  <2> QED
    BY <1>5, <2>1
<1>7. ASSUME NEW p \in 0 .. Len(Text) + 1  PROVE s[p] = Scanned(p, s)
  <2>1. PICK n \in 1 .. N : n = N - p /\ N - n = p
    <3>1. p \in Int /\ 0 <= p /\ p <= Len(Text) + 1
      BY <1>1
    <3>2. N - p \in 1 .. N /\ N - (N - p) = p
      BY <1>1, <3>1
    <3> HIDE DEF N
    <3> QED
      BY <3>2
  <2>2. s[p] = g[n]
    BY <2>1
  <2>3. CASE p > Len(Text) \/ c(p) \in {NUL, Quote}
    <3>1. n \in B
      BY <2>1, <2>3
    <3>2. g[n] = base[n]
      <4> HIDE DEF N, B, base, prev, step, s
      <4> QED
        BY <1>5, <3>1
    <3>3. base[n] = IF p > Len(Text) THEN Ends_(p, "past")
                    ELSE IF c(p) = NUL THEN Ends_(p, "open") ELSE Ends_(p + 1, "closed")
      <4> HIDE DEF N
      <4> QED
        BY <2>1
    <3> HIDE DEF N, B, base, prev, step, s
    <3> QED
      BY <2>2, <2>3, <3>2, <3>3, ScannedIsRound
  <2>4. CASE ~(p > Len(Text)) /\ c(p) \notin {NUL, Quote}
    <3>1. n \notin B
      BY <2>1, <2>4
    <3>2. prev[n] \in 1 .. n - 1 /\ prev[n] \in 1 .. N
      <4>1. prev[n] \in 1 .. n - 1
        BY <1>3, <3>1
      <4> QED
        BY <1>1, <4>1
    <3>3. g[n] = Round(p, g[prev[n]])
      <4>1. g[prev[n]] \in Scans
        BY <1>5, <3>2
      <4>2. g[n] = step[<<g[prev[n]], n>>]
        <5> HIDE DEF N, B, base, prev, step, s
        <5> QED
          BY <1>5, <3>1
      <4> HIDE DEF N, B, base, prev, step, s
      <4> QED
        BY <1>4, <2>1, <4>1, <4>2
    <3>4. /\ p < Len(Text) /\ p + 1 \in 0 .. Len(Text) + 1 /\ p + 2 \in 0 .. Len(Text) + 1
          /\ N - (p + 2) = n - 2 /\ N - (p + 1) = n - 1
      <4>1. ~(Len(Text) <= p)
        BY <2>4, CharFacts
      <4> QED
        BY <1>1, <2>1, <4>1
    <3>5. s[p + 2] = g[n - 2] /\ s[p + 1] = g[n - 1]
      BY <3>4
    <3>6. prev[n] = IF c(p) \in {Back, NL} THEN n - 2 ELSE n - 1
      <4> HIDE DEF N
      <4> QED
        BY <2>1
    <3> HIDE DEF N, B, base, prev, step, s
    <3> QED
      BY <2>2, <2>4, <3>3, <3>5, <3>6, ScannedIsRound
  <2> QED
    BY <2>3, <2>4
<1>8. s = [p \in 0 .. Len(Text) + 1 |-> Scanned(p, s)]
  <2> HIDE DEF N
  <2>1. s = [p \in 0 .. Len(Text) + 1 |-> s[p]]
    OBVIOUS
  <2> HIDE DEF s
  <2> QED
    BY <1>7, <2>1
<1> HIDE DEF s
<1> QED
  BY <1>6, <1>8


(* Where the loop ends, from p on, and what it has counted.                *)
ScanOK(p, o) ==
  /\ o \in Scans /\ p <= o.end
  /\ o.how = "closed" => o.end <= Len(Text)
  /\ o.how = "open" => o.end = Len(Text)
  /\ o.how = "past" => o.end = Len(Text) + 1
  /\ o.lines # 0 => o.line_at <= o.end
  /\ o.known /\ o.lines = 0 => \A k \in p .. o.end - 1 : c(k) # NL
  /\ o.lines # 0 => \E k \in p .. o.end - 1 : c(k) = NL
  /\ o.known /\ o.how = "past" /\ p <= Len(Text) => c(Len(Text) - 1) = NL

LEMMA ScanStep ==
  ASSUME Text \in Seq(Chars), NEW p \in 0 .. Len(Text), NEW s,
         s = [q \in 0 .. Len(Text) + 1 |-> Scanned(q, s)],
         \A q \in p + 1 .. Len(Text) + 1 : ScanOK(q, s[q])
  PROVE  ScanOK(p, s[p])
<1>0. <<>> \in Seq(Signs)
  OBVIOUS
<1>1. /\ Len(Text) \in Nat /\ p \in Nat /\ ~(p > Len(Text)) /\ p \in 0 .. Len(Text) + 1
      /\ c(p) = NUL <=> p = Len(Text)
  BY CharFacts
<1>2. s[p] = IF c(p) = NUL THEN Ends_(p, "open")
             ELSE IF c(p) = Quote THEN Ends_(p + 1, "closed")
             ELSE Round(p, IF c(p) \in {Back, NL} THEN s[p + 2] ELSE s[p + 1])
  <2>1. s[p] = Scanned(p, s)
    BY <1>1
  <2> QED
    BY <1>1, <2>1, ScannedIsRound
<1>3. PICK o : o = s[p]
  OBVIOUS
<1>4. /\ Back # NUL /\ Back # Quote /\ Back # NL /\ NL # NUL /\ NL # Quote /\ NUL # Quote
      /\ NL \notin DOMAIN Escapes /\ NUL \notin DOMAIN Escapes
  BY DEF Back, NUL, NL, Quote, Escapes
<1>5. CASE c(p) = NUL
  <2>1. o = Ends_(p, "open")
    BY <1>2, <1>3, <1>5
  <2>2. o \in Scans /\ o.end = p /\ o.how = "open" /\ o.known = TRUE /\ o.lines = 0
    BY <1>0, <1>1, <2>1 DEF Ends_, Scans
  <2> QED
    BY <1>1, <1>3, <1>5, <2>2 DEF ScanOK
<1>6. CASE c(p) = Quote
  <2>1. o = Ends_(p + 1, "closed") /\ p + 1 \in Nat /\ p < Len(Text)
    BY <1>1, <1>2, <1>3, <1>4, <1>6
  <2>2. o \in Scans /\ o.end = p + 1 /\ o.how = "closed" /\ o.known = TRUE /\ o.lines = 0
    BY <1>0, <2>1 DEF Ends_, Scans
  <2>3. \A k \in p .. p + 1 - 1 : k = p
    BY <1>1
  <2> QED
    BY <1>1, <1>3, <1>4, <1>6, <2>1, <2>2, <2>3 DEF ScanOK
<1>7. CASE c(p) \notin {NUL, Quote}
  <2>1. p < Len(Text) /\ p + 1 \in p + 1 .. Len(Text) + 1 /\ p + 2 \in p + 1 .. Len(Text) + 1
    BY <1>1, <1>7
  <2>2. PICK n \in {p + 1, p + 2} : n = IF c(p) \in {Back, NL} THEN p + 2 ELSE p + 1
    OBVIOUS
  <2>3. PICK r : r = s[n]
    OBVIOUS
  <2>4. ScanOK(n, r) /\ n \in p + 1 .. Len(Text) + 1 /\ n \in Nat
    BY <2>1, <2>2, <2>3
  <2>5. o = Round(p, r)
    BY <1>2, <1>3, <1>7, <2>2, <2>3
  <2>6. r \in Scans
    BY <2>4 DEF ScanOK
  <2>7. /\ o \in Scans /\ o.end = r.end /\ o.how = r.how
        /\ c(p) = Back => /\ o.known = (r.known /\ c(p + 1) \in DOMAIN Escapes)
                          /\ o.lines = r.lines /\ o.line_at = r.line_at
        /\ c(p) # Back /\ c(p) = NL =>
             /\ o.known = r.known /\ o.lines = r.lines + 1
             /\ o.line_at = IF r.lines = 0 THEN p + 1 ELSE r.line_at
        /\ c(p) # Back /\ c(p) # NL =>
             o.known = r.known /\ o.lines = r.lines /\ o.line_at = r.line_at
    BY <1>1, <2>5, <2>6, RoundFacts
  <2>8. r.end \in Nat /\ n <= r.end /\ p <= r.end /\ r.lines \in Nat /\ r.known \in BOOLEAN
    <3>1. n <= r.end
      BY <2>4 DEF ScanOK
    <3>2. r.end \in Nat /\ r.lines \in Nat /\ r.known \in BOOLEAN
      BY <2>6 DEF Scans
    <3> QED
      BY <1>1, <2>4, <3>1, <3>2
  <2>9. /\ o.how = "closed" => o.end <= Len(Text)
        /\ o.how = "open" => o.end = Len(Text)
        /\ o.how = "past" => o.end = Len(Text) + 1
    BY <2>4, <2>7 DEF ScanOK
  <2>10. o.lines # 0 => o.line_at <= o.end
    <3>1. r.lines # 0 => r.line_at <= r.end
      BY <2>4 DEF ScanOK
    <3>2. CASE c(p) = NL
      <4>1. n = p + 2 /\ p + 1 <= r.end
        BY <1>1, <2>2, <2>8, <3>2
      <4> QED
        BY <1>4, <2>7, <3>1, <3>2, <4>1
    <3>3. CASE c(p) # NL
      BY <2>7, <3>1, <3>3
    <3> QED
      BY <3>2, <3>3
  <2>11. ASSUME o.known, o.lines = 0, NEW k \in p .. o.end - 1  PROVE c(k) # NL
    <3>1. c(p) # NL
      <4> SUFFICES ASSUME c(p) = NL  PROVE FALSE
        OBVIOUS
      <4>1. c(p) # Back
        BY <1>4
      <4>2. o.lines = r.lines + 1
        BY <2>7, <4>1
      <4> QED
        BY <2>8, <2>11, <4>2
    <3>2. r.known /\ r.lines = 0 /\ (c(p) = Back => c(p + 1) \in DOMAIN Escapes)
      BY <2>7, <2>11, <3>1
    <3>3. \A j \in n .. r.end - 1 : c(j) # NL
      BY <2>4, <3>2 DEF ScanOK
    <3>4. k = p \/ k \in n .. r.end - 1 \/ (c(p) = Back /\ k = p + 1)
      BY <1>1, <2>2, <2>7, <2>8, <3>1
    <3>5. c(p) = Back => c(p + 1) # NL
      BY <1>4, <3>2
    <3> QED
      BY <3>1, <3>3, <3>4, <3>5
  <2>12. ASSUME o.known, o.how = "past"  PROVE c(Len(Text) - 1) = NL
    <3>1. r.known /\ r.how = "past" /\ (c(p) = Back => c(p + 1) \in DOMAIN Escapes)
      BY <2>7, <2>12
    <3>2. CASE n <= Len(Text)
      BY <2>4, <3>1, <3>2 DEF ScanOK
    <3>3. CASE n = Len(Text) + 1
      <4>1. n = p + 2 /\ c(p) \in {Back, NL} /\ p = Len(Text) - 1 /\ p + 1 = Len(Text)
        BY <1>1, <2>1, <2>2, <3>3
      <4>2. c(p + 1) = NUL
        BY <1>1, <4>1, CharFacts
      <4>3. c(p) = NL
        BY <1>4, <3>1, <4>1, <4>2
      <4> QED
        BY <4>1, <4>3
    <3> QED
      BY <1>1, <2>4, <3>2, <3>3
  <2>13. ASSUME o.lines # 0  PROVE \E k \in p .. o.end - 1 : c(k) = NL
    <3>1. CASE c(p) = NL
      <4>1. p \in p .. o.end - 1
        BY <1>1, <2>4, <2>7, <2>8, <2>2
      <4> QED
        BY <3>1, <4>1
    <3>2. CASE c(p) # NL
      <4>1. r.lines # 0
        BY <2>7, <2>13, <3>2
      <4>2. PICK k \in n .. r.end - 1 : c(k) = NL
        BY <2>4, <4>1 DEF ScanOK
      <4>3. k \in p .. o.end - 1
        BY <1>1, <2>2, <2>7, <2>8
      <4> QED
        BY <4>2, <4>3
    <3> QED
      BY <3>1, <3>2
  <2> QED
    BY <1>3, <2>7, <2>8, <2>9, <2>10, <2>11, <2>12, <2>13 DEF ScanOK
<1> QED
  BY <1>5, <1>6, <1>7

LEMMA LiteralFacts ==
  ASSUME Text \in Seq(Chars), NEW from \in 0 .. Len(Text), NEW lit, lit = Literal(from)
  PROVE  ScanOK(from, lit)
<1>1. PICK s :
        s = [p \in 0 .. Len(Text) + 1 |-> Scanned(p, s)] /\ lit = s[from]
  <2>1. PICK f \in [0 .. Len(Text) + 1 -> Scans] :
          f = [p \in 0 .. Len(Text) + 1 |-> Scanned(p, f)]
    BY ScanExists
  <2> DEFINE Scan == CHOOSE f_1 : f_1 = [p \in 0 .. Len(Text) + 1 |-> Scanned(p, f_1)]
  <2>2. lit = Scan[from]
    BY DEF Literal, Scanned, Ends_, Keep_
  <2>3. Scan = [p \in 0 .. Len(Text) + 1 |-> Scanned(p, Scan)]
    BY <2>1
  <2> HIDE DEF Scan
  <2> QED
    BY <2>2, <2>3
<1>2. Len(Text) \in Nat
  BY CharFacts
<1>3. ScanOK(Len(Text) + 1, s[Len(Text) + 1])
  <2>1. Len(Text) + 1 \in 0 .. Len(Text) + 1 /\ Len(Text) + 1 > Len(Text) /\ Len(Text) + 1 \in Nat
    BY <1>2
  <2>2. s[Len(Text) + 1] = Ends_(Len(Text) + 1, "past")
    BY <1>1, <2>1, ScannedIsRound
  <2>3. PICK o : o = s[Len(Text) + 1]
    OBVIOUS
  <2>4. o \in Scans /\ o.end = Len(Text) + 1 /\ o.how = "past" /\ o.known = TRUE /\ o.lines = 0
    <3>1. PICK n : n = Len(Text) + 1
      OBVIOUS
    <3>2. n \in Nat /\ o = Ends_(n, "past")
      BY <2>1, <2>2, <2>3, <3>1
    <3>3. o \in Scans /\ o.end = n /\ o.how = "past" /\ o.known = TRUE /\ o.lines = 0
      <4>1. <<>> \in Seq(Signs)
        OBVIOUS
      <4> QED
        BY <3>2, <4>1 DEF Ends_, Scans
    <3> QED
      BY <3>1, <3>3
  <2>5. \A k \in Len(Text) + 1 .. Len(Text) + 1 - 1 : FALSE
    BY <1>2
  <2> QED
    BY <1>2, <2>3, <2>4, <2>5 DEF ScanOK
<1> DEFINE N == Len(Text) + 1
           T == {m \in 0 .. N : \A q \in N - m .. N : ScanOK(q, s[q])}
<1>4. 0 \in T
  <2>1. \A q \in N - 0 .. N : q = N
    BY <1>2
  <2>2. 0 \in 0 .. N
    BY <1>2
  <2> QED
    BY <1>3, <2>1, <2>2
<1>5. ASSUME NEW m \in 1 .. N, m - 1 \in T  PROVE m \in T
  <2>1. N - m \in 0 .. Len(Text) /\ m \in 0 .. N
    BY <1>2
  <2>2. \A q \in (N - m) + 1 .. Len(Text) + 1 : q \in N - (m - 1) .. N
    BY <1>2
  <2>3. \A q \in (N - m) + 1 .. Len(Text) + 1 : ScanOK(q, s[q])
    BY <1>5, <2>2
  <2>4. ScanOK(N - m, s[N - m])
    <3> HIDE DEF N
    <3> QED
      BY <1>1, <2>1, <2>3, ScanStep
  <2>5. \A q \in N - m .. N : q = N - m \/ q \in N - (m - 1) .. N
    BY <1>2
  <2> QED
    BY <1>5, <2>1, <2>4, <2>5
<1>6. N \in T
  <2>1. N \in Nat
    BY <1>2
  <2> HIDE DEF T, N
  <2>2. \A m \in 1 .. N : m - 1 \in T => m \in T
    BY <1>5, Zenon
  <2>3. \A m \in 0 .. N : m \in T
    BY <1>4, <2>1, <2>2, UpTo, Zenon
  <2> QED
    BY <2>1, <2>3
<1>7. from \in N - N .. N
  BY <1>2
<1> QED
  BY <1>1, <1>6, <1>7


-----------------------------------------------------------------------------
(***************************************************************************)
(* The inductive invariant                                                 *)
(***************************************************************************)
Single(F, k) == \A i \in k.from + 1 .. k.to : i <= Len(F[k.file]) => F[k.file][i] # NL
AllSingle(F, T) == \A j \in 1 .. Len(T) : Single(F, T[j])
RightTokens(F, T) ==
  \A i \in 1 .. Len(T) :
    (\A j \in 1 .. i : Single(F, T[j])) => T[i].pos = Place(F[T[i].file], T[i].from)
RightCallers(F, S) ==
  \A i \in 1 .. Len(S) : S[i].source_pos = Place(F[S[i].buffer], S[i].buffer_pos)

GoodTexts(F)      == \A f \in DOMAIN F : F[f] \in Seq(Chars)
GoodTokens(F, T)  == IsSequence(T) /\ \A i \in 1 .. Len(T) : T[i].file \in DOMAIN F
GoodCallers(F, S) ==
  /\ IsSequence(S)
  /\ \A i \in 1 .. Len(S) :
       /\ S[i].buffer \in DOMAIN F /\ S[i].source_pos \in Places
       /\ S[i].buffer_capacity = Len(F[S[i].buffer])
       /\ S[i].buffer_pos \in 1 .. S[i].buffer_capacity

(* The context: that of the text the cursor is in, and of the texts that   *)
(* are waited for.                                                         *)
ContextInv ==
  /\ GoodTexts(files) /\ GoodTokens(files, tokens) /\ GoodCallers(files, callers)
  /\ buffer \in DOMAIN files /\ buffer_capacity = Len(Text)
  /\ buffer_pos \in Nat /\ (at # "undefined" => buffer_pos <= Len(Text))
  /\ source_pos \in Places
  /\ token_capacity \in Nat \ {0} /\ Len(tokens) <= token_capacity
  /\ error \in BOOLEAN
  /\ Len(callers) <= MaxDepth + 1 /\ (at # "deep" => Len(callers) <= MaxDepth)
  /\ at \in {"trivia", "include", "token", "eof", "done", "undefined", "deep"}

(* Where the positions are right: up to the first literal over a line end, *)
(* and, until there is one, that of the cursor and those waited for.       *)
PlaceInv ==
  ~error =>
    /\ RightTokens(files, tokens)
    /\ AllSingle(files, tokens) /\ at # "undefined" =>
         source_pos = Place(Text, buffer_pos) /\ RightCallers(files, callers)

IInv == ContextInv /\ PlaceInv /\ OverrunIsReported

(* What every action but Include and the end of an included text does: it  *)
(* reads up to q, and adds a token or none.                                *)
ReadTo(q) ==
  /\ UNCHANGED <<files, buffer, buffer_capacity, callers>>
  /\ buffer_pos' = q /\ source_pos' \in Places
  /\ error' \in BOOLEAN /\ (error => error')
  /\ at' \in {"trivia", "include", "token", "eof", "done", "undefined"}
  /\ at' # "undefined" => q <= Len(Text)
  /\ at' = "undefined" /\ ~error' => Text[Len(Text)] \in {"'", NL}
  /\ \/ /\ UNCHANGED array
        /\ ~error' /\ at' # "undefined" /\ source_pos = Place(Text, buffer_pos) =>
             source_pos' = Place(Text, q)
     \/ \E kind, text, from, to, pos :
          /\ AddToken(kind, text, from, to, pos)
          /\ source_pos = Place(Text, buffer_pos) => pos = Place(Text, from)
          /\ /\ ~error' /\ at' # "undefined" /\ source_pos = Place(Text, buffer_pos)
             /\ (\A i \in from + 1 .. to : i <= Len(Text) => Text[i] # NL)
             => source_pos' = Place(Text, q)

-----------------------------------------------------------------------------
LEMMA TokenAdded ==
  ASSUME NEW F, NEW T, IsSequence(T), NEW k, NEW U, U = Append(T, k)
  PROVE  /\ AllSingle(F, U) => AllSingle(F, T) /\ Single(F, k)
         /\ RightTokens(F, T) /\ (AllSingle(F, T) /\ Single(F, k) => k.pos = Place(F[k.file], k.from))
              => RightTokens(F, U)
         /\ GoodTokens(F, T) /\ k.file \in DOMAIN F => GoodTokens(F, U)
         /\ Len(U) = Len(T) + 1 /\ Len(T) \in Nat
<1>1. /\ Len(T) \in Nat /\ IsSequence(U) /\ Len(U) = Len(T) + 1 /\ U[Len(T) + 1] = k
      /\ \A i \in 1 .. Len(T) : U[i] = T[i]
  BY SequenceFacts
<1>2. \A i \in 1 .. Len(U) : i \in 1 .. Len(T) \/ i = Len(T) + 1
  BY <1>1
<1>3. \A i \in 1 .. Len(T) : i \in 1 .. Len(U) /\ \A j \in 1 .. i : j \in 1 .. Len(T)
  BY <1>1
<1>4. Len(T) + 1 \in 1 .. Len(U) /\ \A j \in 1 .. Len(T) : j \in 1 .. Len(T) + 1
  BY <1>1
<1>5. AllSingle(F, U) => AllSingle(F, T) /\ Single(F, k)
  BY <1>1, <1>3, <1>4 DEF AllSingle
<1>6. ASSUME RightTokens(F, T), AllSingle(F, T) /\ Single(F, k) => k.pos = Place(F[k.file], k.from)
      PROVE  RightTokens(F, U)
  <2> SUFFICES ASSUME NEW i \in 1 .. Len(U), \A j \in 1 .. i : Single(F, U[j])
               PROVE  U[i].pos = Place(F[U[i].file], U[i].from)
    BY DEF RightTokens
  <2>1. CASE i \in 1 .. Len(T)
    <3>1. \A j \in 1 .. i : Single(F, T[j])
      BY <1>1, <1>3, <2>1
    <3> QED
      BY <1>1, <1>6, <2>1, <3>1 DEF RightTokens
  <2>2. CASE i = Len(T) + 1
    <3>1. AllSingle(F, T) /\ Single(F, k)
      <4>1. \A j \in 1 .. Len(T) : Single(F, T[j])
        BY <1>1, <1>4, <2>2
      <4>2. Single(F, U[Len(T) + 1])
        BY <1>1, <2>2
      <4> QED
        BY <1>1, <4>1, <4>2 DEF AllSingle
    <3> QED
      BY <1>1, <1>6, <2>2, <3>1
  <2> QED
    BY <1>2, <2>1, <2>2
<1>7. GoodTokens(F, T) /\ k.file \in DOMAIN F => GoodTokens(F, U)
  BY <1>1, <1>2 DEF GoodTokens
<1> QED
  BY <1>1, <1>5, <1>6, <1>7

(* When another file is opened.                                            *)
LEMMA FilesKept ==
  ASSUME NEW F, NEW G, DOMAIN F \subseteq DOMAIN G, \A f \in DOMAIN F : G[f] = F[f],
         NEW T, GoodTokens(F, T), NEW S, GoodCallers(F, S)
  PROVE  /\ GoodTokens(G, T) /\ GoodCallers(G, S)
         /\ AllSingle(G, T) => AllSingle(F, T)
         /\ RightTokens(F, T) => RightTokens(G, T)
         /\ RightCallers(F, S) => RightCallers(G, S)
<1>1. Len(T) \in Nat /\ IsSequence(T) /\ \A i \in 1 .. Len(T) : G[T[i].file] = F[T[i].file]
  <2>1. Len(T) \in Nat
    BY SequenceFacts DEF GoodTokens
  <2> QED
    BY <2>1 DEF GoodTokens
<1>2. \A i \in 1 .. Len(S) : G[S[i].buffer] = F[S[i].buffer]
  BY DEF GoodCallers
<1>3. \A i \in 1 .. Len(T) : Single(G, T[i]) <=> Single(F, T[i])
  BY <1>1 DEF Single
<1>4. \A i \in 1 .. Len(T) : \A j \in 1 .. i : j \in 1 .. Len(T)
  BY <1>1
<1>5. AllSingle(G, T) => AllSingle(F, T)
  BY <1>3 DEF AllSingle
<1>6. RightTokens(F, T) => RightTokens(G, T)
  BY <1>1, <1>3, <1>4 DEF RightTokens
<1>7. RightCallers(F, S) => RightCallers(G, S)
  BY <1>2 DEF RightCallers
<1>8. GoodTokens(G, T)
  BY DEF GoodTokens
<1>9. GoodCallers(G, S)
  BY <1>2 DEF GoodCallers
<1> QED
  BY <1>5, <1>6, <1>7, <1>8, <1>9

LEMMA ReadToInv ==
  ASSUME IInv, NEW q \in Nat, ReadTo(q), at \notin {"deep", "undefined"}
  PROVE  IInv'
<1>1. /\ files' = files /\ buffer' = buffer /\ buffer_capacity' = buffer_capacity
      /\ callers' = callers /\ buffer_pos' = q /\ source_pos' \in Places
      /\ error' \in BOOLEAN /\ (error => error')
      /\ at' \in {"trivia", "include", "token", "eof", "done", "undefined"}
      /\ at' # "undefined" => q <= Len(Text)
      /\ at' = "undefined" /\ ~error' => Text[Len(Text)] \in {"'", NL}
  BY DEF ReadTo
<1>2. Text' = Text
  BY <1>1 DEF Text
<1>3. OverrunIsReported'
  BY <1>1, <1>2 DEF OverrunIsReported
<1>4. /\ GoodTexts(files) /\ GoodTokens(files, tokens) /\ GoodCallers(files, callers)
      /\ buffer \in DOMAIN files /\ buffer_capacity = Len(Text)
      /\ token_capacity \in Nat \ {0} /\ Len(tokens) <= token_capacity
      /\ Len(callers) <= MaxDepth + 1 /\ Len(callers) <= MaxDepth
  BY DEF IInv, ContextInv
<1>5. PICK F : F = files
  OBVIOUS
<1>6. PICK S : S = callers
  OBVIOUS
<1>7. PICK T : T = tokens
  OBVIOUS
<1>8. PICK U : U = tokens'
  OBVIOUS
<1>9. /\ error \in BOOLEAN
      /\ ~error => /\ RightTokens(F, T)
                   /\ AllSingle(F, T) =>
                        source_pos = Place(Text, buffer_pos) /\ RightCallers(F, S)
  BY <1>5, <1>6, <1>7 DEF IInv, ContextInv, PlaceInv
<1>10. /\ GoodTokens(F, U) /\ token_capacity' \in Nat \ {0} /\ Len(U) <= token_capacity'
       /\ ~error' =>
            /\ RightTokens(F, U)
            /\ AllSingle(F, U) /\ at' # "undefined" =>
                 source_pos' = Place(Text, q) /\ RightCallers(F, S)
  <2>1. CASE /\ UNCHANGED array
             /\ ~error' /\ at' # "undefined" /\ source_pos = Place(Text, buffer_pos) =>
                  source_pos' = Place(Text, q)
    <3>1. U = T /\ token_capacity' = token_capacity
      BY <1>7, <1>8, <2>1 DEF array
    <3> QED
      BY <1>1, <1>4, <1>5, <1>7, <1>9, <2>1, <3>1
  <2>2. ASSUME NEW kind, NEW text, NEW from, NEW to, NEW pos,
               AddToken(kind, text, from, to, pos),
               source_pos = Place(Text, buffer_pos) => pos = Place(Text, from),
               (/\ ~error' /\ at' # "undefined" /\ source_pos = Place(Text, buffer_pos)
                /\ (\A i \in from + 1 .. to : i <= Len(Text) => Text[i] # NL))
               => source_pos' = Place(Text, q)
        PROVE  /\ GoodTokens(F, U) /\ token_capacity' \in Nat \ {0} /\ Len(U) <= token_capacity'
               /\ ~error' =>
                    /\ RightTokens(F, U)
                    /\ AllSingle(F, U) /\ at' # "undefined" =>
                         source_pos' = Place(Text, q) /\ RightCallers(F, S)
    <3>1. PICK k : k = [kind |-> kind, text |-> text, pos |-> pos,
                        file |-> buffer, from |-> from, to |-> to]
      OBVIOUS
    <3>2. U = Append(T, k) /\ F[k.file] = Text /\ k.pos = pos /\ k.from = from /\ k.to = to
          /\ k.file = buffer
      BY <1>5, <1>7, <1>8, <2>2, <3>1 DEF AddToken, Text
    <3>3. IsSequence(T)
      BY <1>4, <1>7 DEF GoodTokens
    <3>4. /\ AllSingle(F, U) => AllSingle(F, T) /\ Single(F, k)
          /\ RightTokens(F, T)
             /\ (AllSingle(F, T) /\ Single(F, k) => k.pos = Place(F[k.file], k.from))
               => RightTokens(F, U)
          /\ GoodTokens(F, T) /\ k.file \in DOMAIN F => GoodTokens(F, U)
          /\ Len(U) = Len(T) + 1 /\ Len(T) \in Nat
      BY <3>2, <3>3, TokenAdded
    <3>5. GoodTokens(F, U)
      BY <1>4, <1>5, <1>7, <3>2, <3>4
    <3>6. token_capacity' \in Nat \ {0} /\ Len(U) <= token_capacity'
      <4>1. token_capacity' = IF Len(T) + 1 >= token_capacity
                                THEN 2 * token_capacity ELSE token_capacity
        BY <1>7, <2>2 DEF AddToken
      <4> QED
        BY <1>4, <1>7, <3>4, <4>1
    <3>7. Single(F, k) => \A i \in from + 1 .. to : i <= Len(Text) => Text[i] # NL
      BY <3>2 DEF Single
    <3>8. ASSUME ~error'  PROVE RightTokens(F, U)
      <4>1. AllSingle(F, T) => k.pos = Place(F[k.file], k.from)
        BY <1>1, <1>9, <2>2, <3>2, <3>8
      <4> QED
        BY <1>1, <1>9, <3>4, <3>8, <4>1
    <3>9. ASSUME ~error', AllSingle(F, U), at' # "undefined"
          PROVE  source_pos' = Place(Text, q) /\ RightCallers(F, S)
      <4>1. ~error /\ AllSingle(F, T) /\ Single(F, k)
        BY <1>1, <3>4, <3>9
      <4>2. source_pos = Place(Text, buffer_pos) /\ RightCallers(F, S)
        BY <1>9, <4>1
      <4>3. \A i \in from + 1 .. to : i <= Len(Text) => Text[i] # NL
        BY <3>7, <4>1
      <4>4. source_pos' = Place(Text, q)
        BY <2>2, <3>9, <4>2, <4>3, Zenon
      <4> QED
        BY <4>2, <4>4
    <3> QED
      BY <3>5, <3>6, <3>8, <3>9
  <2> QED
    BY <2>1, <2>2 DEF ReadTo
<1>11. ContextInv'
  BY <1>1, <1>2, <1>4, <1>5, <1>8, <1>10 DEF ContextInv
<1>12. PlaceInv'
  BY <1>1, <1>2, <1>5, <1>6, <1>8, <1>10 DEF PlaceInv
<1> QED
  BY <1>3, <1>11, <1>12 DEF IInv


-----------------------------------------------------------------------------
(***************************************************************************)
(* The actions                                                             *)
(***************************************************************************)
LEMMA Reading ==
  ASSUME IInv, at \in {"trivia", "include", "token", "eof"}
  PROVE  /\ Text \in Seq(Chars) /\ Len(Text) \in Nat
         /\ buffer_pos \in 0 .. Len(Text) /\ buffer_pos \in Nat
         /\ source_pos \in Places /\ error \in BOOLEAN
         /\ c(buffer_pos) # NUL => buffer_pos < Len(Text)
<1>1. Text \in Seq(Chars)
  BY DEF IInv, ContextInv, GoodTexts, Text
<1>2. Len(Text) \in Nat
  BY <1>1
<1>3. buffer_pos \in Nat /\ buffer_pos <= Len(Text) /\ source_pos \in Places /\ error \in BOOLEAN
  BY DEF IInv, ContextInv
<1>4. c(buffer_pos) = NUL <=> Len(Text) <= buffer_pos
  BY <1>1, <1>3, CharFacts
<1> QED
  BY <1>1, <1>2, <1>3, <1>4

Gap == {" ", "tab"}

LEMMA StringsDiffer ==
  /\ NL # NUL /\ INC # NUL /\ Quote # NUL /\ Back # NUL /\ "'" # NUL /\ "/" # NUL /\ "*" # NUL /\ "=" # NUL
  /\ NL \notin {INC, Quote, Back, "'", "/", "*", "="} \cup Gap
  /\ NUL \notin Blanks \cup Digits \cup IdStart \cup IdCont \cup Puncts \cup Gap \cup {NL}
  /\ NL \notin Digits \cup IdStart \cup IdCont \cup Puncts
BY DEF NL, INC, NUL, Quote, Back, Gap, Blanks, Digits, IdStart, IdCont, Puncts

LEMMA BlankReads ==
  ASSUME IInv, Blank
  PROVE  \E q \in Nat : ReadTo(q)
<1>1. /\ Text \in Seq(Chars) /\ Len(Text) \in Nat /\ buffer_pos \in 0 .. Len(Text)
      /\ buffer_pos \in Nat /\ source_pos \in Places /\ error \in BOOLEAN
      /\ c(buffer_pos) # NUL => buffer_pos < Len(Text)
  BY Reading DEF Blank
<1>2. /\ at = "trivia" /\ c(buffer_pos) \in Blanks \cup {NL} /\ LinesTo(buffer_pos + 1)
      /\ UNCHANGED <<files, buffer, buffer_capacity, array, error, callers, at>>
  BY DEF Blank
<1>3. PICK q \in Nat : q = buffer_pos + 1
  BY <1>1
<1>4. buffer_pos <= q /\ q <= Len(Text) /\ LinesTo(q)
  <2>1. c(buffer_pos) # NUL
    BY <1>2, StringsDiffer
  <2>2. LinesTo(q)
    BY <1>2, <1>3, Zenon
  <2> QED
    BY <1>1, <1>3, <2>1, <2>2
<1>5. /\ buffer_pos' = q /\ source_pos' \in Places
      /\ source_pos = Place(Text, buffer_pos) => source_pos' = Place(Text, q)
  BY <1>1, <1>4, LinesFacts
<1>6. ReadTo(q)
  BY <1>1, <1>2, <1>4, <1>5 DEF ReadTo, array
<1> QED
  BY <1>6

LEMMA LineCommentReads ==
  ASSUME IInv, LineComment
  PROVE  \E q \in Nat : ReadTo(q)
<1>1. /\ Text \in Seq(Chars) /\ Len(Text) \in Nat /\ buffer_pos \in 0 .. Len(Text)
      /\ buffer_pos \in Nat /\ source_pos \in Places /\ error \in BOOLEAN
      /\ c(buffer_pos) # NUL => buffer_pos < Len(Text)
  BY Reading DEF LineComment
<1>2. /\ at = "trivia" /\ c(buffer_pos) = "/" /\ c(buffer_pos + 1) = "/"
      /\ AdvanceTo(Until(buffer_pos + 2, {NL}))
      /\ UNCHANGED <<files, buffer, buffer_capacity, array, error, callers, at>>
  BY DEF LineComment, IsComment
<1>3. buffer_pos + 2 \in 0 .. Len(Text)
  <2>1. c(buffer_pos + 1) = NUL <=> Len(Text) <= buffer_pos + 1
    BY <1>1, CharFacts
  <2>2. c(buffer_pos) # NUL /\ c(buffer_pos + 1) # NUL
    BY <1>2, StringsDiffer
  <2> QED
    BY <1>1, <2>1, <2>2
<1>4. PICK q : q = Until(buffer_pos + 2, {NL})
  OBVIOUS
<1>5. /\ q \in buffer_pos + 2 .. Len(Text)
      /\ \A k \in buffer_pos + 2 .. q - 1 : c(k) \notin {NL} \cup {NUL}
  BY <1>1, <1>3, <1>4, UntilFacts
<1>6. q \in Nat /\ buffer_pos <= q /\ q <= Len(Text) /\ AdvanceTo(q)
  BY <1>1, <1>2, <1>4, <1>5
<1>7. \A k \in buffer_pos .. q - 1 : c(k) # NL
  <2>1. \A k \in buffer_pos .. q - 1 :
          k = buffer_pos \/ k = buffer_pos + 1 \/ k \in buffer_pos + 2 .. q - 1
    BY <1>1, <1>5
  <2> QED
    BY <1>2, <1>5, <2>1, StringsDiffer
<1>8. /\ buffer_pos' = q /\ source_pos' \in Places
      /\ source_pos = Place(Text, buffer_pos) => source_pos' = Place(Text, q)
  BY <1>1, <1>6, <1>7, AdvanceFacts
<1>9. ReadTo(q)
  BY <1>1, <1>2, <1>6, <1>8 DEF ReadTo, array
<1> QED
  BY <1>6, <1>9

LEMMA BlockCommentReads ==
  ASSUME IInv, BlockComment
  PROVE  \E q \in Nat : ReadTo(q)
<1> DEFINE ends == {q \in buffer_pos + 4 .. Len(Text) : c(q - 2) = "*" /\ c(q - 1) = "/"}
<1>1. /\ Text \in Seq(Chars) /\ Len(Text) \in Nat /\ buffer_pos \in 0 .. Len(Text)
      /\ buffer_pos \in Nat /\ source_pos \in Places /\ error \in BOOLEAN
      /\ c(buffer_pos) # NUL => buffer_pos < Len(Text)
  BY Reading DEF BlockComment
<1>2. /\ at = "trivia" /\ LinesTo(IF ends = {} THEN Len(Text) ELSE Min(ends))
      /\ error' = (error \/ ends = {})
      /\ UNCHANGED <<files, buffer, buffer_capacity, array, callers, at>>
  BY DEF BlockComment
<1>3. PICK q : q = IF ends = {} THEN Len(Text) ELSE Min(ends)
  OBVIOUS
<1>4. q \in Nat /\ buffer_pos <= q /\ q <= Len(Text) /\ LinesTo(q)
  <2>1. ends \in SUBSET Nat /\ \A x \in ends : buffer_pos <= x /\ x <= Len(Text)
    BY <1>1
  <2> HIDE DEF ends
  <2>2. ends # {} => Min(ends) \in ends
    BY <2>1, MinFacts
  <2>3. LinesTo(q)
    BY <1>2, <1>3, Zenon
  <2>4. CASE ends = {}
    BY <1>1, <1>3, <2>3, <2>4
  <2>5. CASE ends # {}
    <3>1. q \in ends
      BY <1>3, <2>2, <2>5
    <3>2. q \in Nat /\ buffer_pos <= q /\ q <= Len(Text)
      BY <2>1, <3>1
    <3> QED
      BY <2>3, <3>2
  <2> QED
    BY <2>4, <2>5
<1>5. /\ buffer_pos' = q /\ source_pos' \in Places
      /\ source_pos = Place(Text, buffer_pos) => source_pos' = Place(Text, q)
  BY <1>1, <1>4, LinesFacts
<1>6. error' \in BOOLEAN /\ (error => error')
  BY <1>1, <1>2
<1>7. ReadTo(q)
  <2> HIDE DEF ends
  <2> QED
    BY <1>1, <1>2, <1>4, <1>5, <1>6 DEF ReadTo, array
<1> QED
  BY <1>4, <1>7

LEMMA TriviaEndReads ==
  ASSUME IInv, TriviaEnd \/ NotInclude
  PROVE  \E q \in Nat : ReadTo(q)
<1>1. /\ buffer_pos <= Len(Text) /\ buffer_pos \in Nat /\ source_pos \in Places
      /\ error \in BOOLEAN
  <2>1. at \in {"trivia", "include"}
    BY DEF TriviaEnd, NotInclude
  <2> QED
    BY <2>1, Reading
<1>2. /\ at' \in {"include", "token"}
      /\ UNCHANGED <<files, cursor, source_pos, array, error, callers>>
  BY DEF TriviaEnd, NotInclude
<1>3. ReadTo(buffer_pos)
  BY <1>1, <1>2 DEF ReadTo, array, cursor
<1> QED
  BY <1>1, <1>3


(* The name in quotes behind include: opened at o, closed at n, on the     *)
(* line of the word.                                                       *)
LEMMA NameFacts ==
  ASSUME IInv, at = "include", IsInclude, NEW o, o = NameOpens, NEW n, n = NameCloses
  PROVE  /\ o \in buffer_pos + 1 .. Len(Text)
         /\ c(o) = Quote =>
              /\ o < Len(Text) /\ n \in o + 1 .. Len(Text)
              /\ Len(Name) = n - o - 1
              /\ c(n) = Quote =>
                   n < Len(Text) /\ \A k \in buffer_pos .. n : c(k) # NL
<1>1. /\ Text \in Seq(Chars) /\ Len(Text) \in Nat /\ buffer_pos \in 0 .. Len(Text)
      /\ buffer_pos \in Nat
      /\ c(buffer_pos) # NUL => buffer_pos < Len(Text)
  BY Reading
<1>2. c(buffer_pos) = INC /\ c(buffer_pos) # NUL
  BY StringsDiffer DEF IsInclude
<1>3. buffer_pos + 1 \in 0 .. Len(Text)
  BY <1>1, <1>2
<1>4. /\ o \in buffer_pos + 1 .. Len(Text) /\ o \in Nat
      /\ \A k \in buffer_pos + 1 .. o - 1 : c(k) \in Gap
  <2>1. NUL \notin Gap
    BY StringsDiffer
  <2>2. o = EndOfRun(buffer_pos + 1, Gap)
    BY DEF NameOpens, Gap
  <2>3. /\ o \in buffer_pos + 1 .. Len(Text)
        /\ \A k \in buffer_pos + 1 .. o - 1 : c(k) \in Gap
    BY <1>1, <1>3, <2>1, <2>2, RunFacts
  <2> QED
    BY <1>1, <2>3
<1>5. ASSUME c(o) = Quote
      PROVE  /\ o < Len(Text) /\ n \in o + 1 .. Len(Text)
             /\ Len(Name) = n - o - 1
             /\ c(n) = Quote =>
                  n < Len(Text) /\ \A k \in buffer_pos .. n : c(k) # NL
  <2>1. o < Len(Text)
    <3>1. c(o) = NUL <=> Len(Text) <= o
      BY <1>1, <1>4, CharFacts
    <3>2. c(o) # NUL
      BY <1>5, StringsDiffer
    <3> QED
      BY <1>1, <1>4, <3>1, <3>2
  <2>2. /\ n \in o + 1 .. Len(Text) /\ n \in Nat
        /\ \A k \in o + 1 .. n - 1 : c(k) \notin {Quote, NL} \cup {NUL}
    <3>1. n = Until(o + 1, {Quote, NL})
      BY DEF NameCloses
    <3>2. o + 1 \in 0 .. Len(Text)
      BY <1>1, <1>4, <2>1
    <3>3. /\ n \in o + 1 .. Len(Text)
          /\ \A k \in o + 1 .. n - 1 : c(k) \notin {Quote, NL} \cup {NUL}
      BY <1>1, <3>1, <3>2, UntilFacts
    <3> QED
      BY <1>1, <1>4, <3>3
  <2>3. Len(Name) = n - o - 1
    <3>1. Name = SubSeq(Text, o + 1 + 1, n)
      BY DEF Name, Chars_
    <3>2. o + 1 + 1 \in 1 .. Len(Text) + 1 /\ n \in o + 1 .. Len(Text) /\ o + 1 + 1 <= n + 1
      BY <1>1, <1>4, <2>1, <2>2
    <3>3. Len(SubSeq(Text, o + 1 + 1, n)) = n - (o + 1 + 1) + 1
      BY <1>1, <1>4, <2>2, <3>2
    <3> QED
      BY <1>4, <2>2, <3>1, <3>3
  <2>4. ASSUME c(n) = Quote  PROVE n < Len(Text) /\ \A k \in buffer_pos .. n : c(k) # NL
    <3>1. c(n) = NUL <=> Len(Text) <= n
      BY <1>1, <2>2, CharFacts
    <3>2. c(n) # NUL
      BY <2>4, StringsDiffer
    <3>3. n < Len(Text)
      BY <1>1, <2>2, <3>1, <3>2
    <3>4. \A k \in buffer_pos .. n :
            \/ k = buffer_pos \/ k \in buffer_pos + 1 .. o - 1 \/ k = o
            \/ k \in o + 1 .. n - 1 \/ k = n
      BY <1>1, <1>4, <2>2
    <3>5. ASSUME NEW k \in buffer_pos .. n  PROVE c(k) # NL
      <4>1. CASE k = buffer_pos
        BY <1>2, <4>1, StringsDiffer
      <4>2. CASE k \in buffer_pos + 1 .. o - 1
        BY <1>4, <4>2, StringsDiffer
      <4>3. CASE k = o \/ k = n
        BY <1>5, <2>4, <4>3, StringsDiffer
      <4>4. CASE k \in o + 1 .. n - 1
        BY <2>2, <4>4
      <4> QED
        BY <3>4, <4>1, <4>2, <4>3, <4>4
    <3> QED
      BY <3>3, <3>5
  <2> QED
    BY <2>1, <2>2, <2>3, <2>4
<1> QED
  BY <1>4, <1>5

LEMMA IncludeFailsReads ==
  ASSUME IInv, IncludeFails
  PROVE  \E q \in Nat : ReadTo(q)
<1>1. /\ Text \in Seq(Chars) /\ Len(Text) \in Nat /\ buffer_pos \in 0 .. Len(Text)
      /\ buffer_pos \in Nat /\ source_pos \in Places
  BY Reading DEF IncludeFails
<1>2. PICK o : o = NameOpens
  OBVIOUS
<1>3. PICK n : n = NameCloses
  OBVIOUS
<1>4. /\ \/ c(o) # Quote /\ AdvanceTo(o)
         \/ c(o) = Quote /\ Len(Name) >= MaxWord /\ AdvanceTo(o + MaxWord)
         \/ c(o) = Quote /\ c(n) # Quote /\ AdvanceTo(n)
         \/ c(o) = Quote /\ c(n) = Quote /\ AdvanceTo(n + 1)
      /\ at = "include" /\ IsInclude
      /\ error' = TRUE /\ at' = "token"
      /\ UNCHANGED <<files, buffer, buffer_capacity, array, callers>>
  BY <1>2, <1>3 DEF IncludeFails
<1>5. /\ o \in buffer_pos + 1 .. Len(Text)
      /\ c(o) = Quote =>
           /\ o < Len(Text) /\ n \in o + 1 .. Len(Text)
           /\ Len(Name) = n - o - 1
           /\ c(n) = Quote =>
                n < Len(Text) /\ \A k \in buffer_pos .. n : c(k) # NL
  BY <1>2, <1>3, <1>4, NameFacts
<1>6. MaxWord \in Nat \ {0}
  BY TokenizerAssumption DEF TokenizerAssumption
<1>7. \E q \in Nat : buffer_pos <= q /\ q <= Len(Text) /\ AdvanceTo(q)
  <2>1. CASE c(o) # Quote /\ AdvanceTo(o)
    BY <1>1, <1>5, <2>1
  <2>2. CASE c(o) = Quote /\ Len(Name) >= MaxWord /\ AdvanceTo(o + MaxWord)
    <3>1. o + MaxWord \in Nat /\ buffer_pos <= o + MaxWord /\ o + MaxWord <= Len(Text)
      BY <1>1, <1>5, <1>6, <2>2
    <3> QED
      BY <2>2, <3>1
  <2>3. CASE c(o) = Quote /\ c(n) # Quote /\ AdvanceTo(n)
    BY <1>1, <1>5, <2>3
  <2>4. CASE c(o) = Quote /\ c(n) = Quote /\ AdvanceTo(n + 1)
    <3>1. n + 1 \in Nat /\ buffer_pos <= n + 1 /\ n + 1 <= Len(Text)
      BY <1>1, <1>5, <2>4
    <3> QED
      BY <2>4, <3>1
  <2> QED
    BY <1>4, <2>1, <2>2, <2>3, <2>4
<1>8. PICK q \in Nat : buffer_pos <= q /\ q <= Len(Text) /\ AdvanceTo(q)
  BY <1>7
<1>9. buffer_pos' = q /\ source_pos' \in Places
  BY <1>1, <1>8, AdvanceFacts
<1>10. ReadTo(q)
  BY <1>4, <1>8, <1>9 DEF ReadTo, array
<1> QED
  BY <1>10


LEMMA TextsFacts ==
  ASSUME NEW m \in Nat, NEW text \in Texts(m)
  PROVE  text \in Seq(Chars)
<1>1. PICK k \in 0 .. m : text \in [1 .. k -> Chars]
  BY DEF Texts
<1> QED
  BY <1>1, FunctionIsSequence

(* When one more text is waited for.                                       *)
LEMMA CallerAdded ==
  ASSUME NEW F, NEW S, GoodCallers(F, S), NEW e, e.buffer \in DOMAIN F, e.source_pos \in Places,
         e.buffer_capacity = Len(F[e.buffer]), e.buffer_pos \in 1 .. e.buffer_capacity,
         NEW U, U = Append(S, e)
  PROVE  /\ GoodCallers(F, U) /\ Len(U) = Len(S) + 1 /\ Len(S) \in Nat
         /\ RightCallers(F, S) /\ e.source_pos = Place(F[e.buffer], e.buffer_pos)
              => RightCallers(F, U)
<1>1. IsSequence(S)
  BY DEF GoodCallers
<1>2. /\ Len(S) \in Nat /\ IsSequence(U) /\ Len(U) = Len(S) + 1 /\ U[Len(S) + 1] = e
      /\ \A i \in 1 .. Len(S) : U[i] = S[i]
  BY <1>1, SequenceFacts
<1>3. \A i \in 1 .. Len(U) : i \in 1 .. Len(S) \/ i = Len(S) + 1
  BY <1>2
<1>4. GoodCallers(F, U)
  BY <1>2, <1>3 DEF GoodCallers
<1>5. RightCallers(F, S) /\ e.source_pos = Place(F[e.buffer], e.buffer_pos)
        => RightCallers(F, U)
  BY <1>2, <1>3 DEF RightCallers
<1> QED
  BY <1>2, <1>4, <1>5

LEMMA PlaceAtStart ==
  ASSUME NEW t
  PROVE  Place(t, 0) = Pos(0, 0)
<1>1. {i \in 1 .. 0 : t[i] = NL} = {}
  OBVIOUS
<1>2. Cardinality({}) = 0
  BY FS_EmptySet
<1> QED
  BY <1>1, <1>2 DEF Place

LEMMA IncludeInv ==
  ASSUME IInv, Include
  PROVE  IInv'
<1>1. /\ Text \in Seq(Chars) /\ Len(Text) \in Nat /\ buffer_pos \in 0 .. Len(Text)
      /\ buffer_pos \in Nat /\ source_pos \in Places
  BY Reading DEF Include
<1>2. PICK o : o = NameOpens
  OBVIOUS
<1>3. PICK n : n = NameCloses
  OBVIOUS
<1>4. PICK F : F = files
  OBVIOUS
<1>5. PICK G : G = files'
  OBVIOUS
<1>6. PICK S : S = callers
  OBVIOUS
<1>7. PICK name : name = Name
  OBVIOUS
<1>8. PICK e : e = [buffer |-> buffer, buffer_pos |-> n + 1, buffer_capacity |-> buffer_capacity,
                    source_pos |-> [source_pos EXCEPT !.column = @ + (n + 1 - buffer_pos)]]
  OBVIOUS
<1>9. /\ at = "include" /\ IsInclude /\ c(o) = Quote /\ c(n) = Quote
      /\ callers' = Append(S, e)
      /\ buffer' = name /\ buffer_pos' = 0 /\ buffer_capacity' = Len(G[name])
      /\ source_pos' = Pos(0, 0)
      /\ at' = IF Len(S) < MaxDepth THEN "trivia" ELSE "deep"
      /\ tokens' = tokens /\ token_capacity' = token_capacity /\ error' = error
  BY <1>2, <1>3, <1>5, <1>6, <1>7, <1>8 DEF Include, array
<1>10. /\ o \in buffer_pos + 1 .. Len(Text) /\ n \in o + 1 .. Len(Text) /\ n < Len(Text)
       /\ \A k \in buffer_pos .. n : c(k) # NL
  BY <1>2, <1>3, <1>9, NameFacts
<1>11. /\ GoodTexts(F) /\ GoodTokens(F, tokens) /\ GoodCallers(F, S)
       /\ buffer \in DOMAIN F /\ buffer_capacity = Len(Text) /\ F[buffer] = Text
       /\ token_capacity \in Nat \ {0} /\ Len(tokens) <= token_capacity
       /\ error \in BOOLEAN /\ Len(S) <= MaxDepth
  BY <1>4, <1>6, <1>9 DEF IInv, ContextInv, Text
<1>12. ~error => /\ RightTokens(F, tokens)
                 /\ AllSingle(F, tokens) =>
                      source_pos = Place(Text, buffer_pos) /\ RightCallers(F, S)
  BY <1>4, <1>6, <1>9 DEF IInv, PlaceInv
<1>13. /\ DOMAIN F \subseteq DOMAIN G /\ (\A f \in DOMAIN F : G[f] = F[f])
       /\ GoodTexts(G) /\ name \in DOMAIN G
  <2>1. CASE name \in DOMAIN F
    <3>1. G = F
      BY <1>4, <1>5, <1>7, <2>1 DEF Include, Open
    <3> QED
      BY <1>11, <2>1, <3>1
  <2>2. CASE name \notin DOMAIN F
    <3>1. PICK text \in Texts(MaxOther) :
            G = [f \in DOMAIN F \cup {name} |-> IF f = name THEN text ELSE F[f]]
      BY <1>4, <1>5, <1>7, <2>2 DEF Include, Open
    <3>2. MaxOther \in Nat
      BY TokenizerAssumption DEF TokenizerAssumption
    <3>3. text \in Seq(Chars)
      BY <3>1, <3>2, TextsFacts
    <3> QED
      BY <1>11, <2>2, <3>1, <3>3 DEF GoodTexts
  <2> QED
    BY <2>1, <2>2
<1>14. /\ GoodTokens(G, tokens) /\ GoodCallers(G, S)
       /\ AllSingle(G, tokens) => AllSingle(F, tokens)
       /\ RightTokens(F, tokens) => RightTokens(G, tokens)
       /\ RightCallers(F, S) => RightCallers(G, S)
  BY <1>11, <1>13, FilesKept
<1>15. n + 1 \in Nat /\ n + 1 \in 1 .. Len(Text) /\ buffer_pos <= n + 1 /\ n + 1 - buffer_pos \in Nat
  BY <1>1, <1>10
<1>16. /\ e.buffer = buffer /\ e.buffer_pos = n + 1 /\ e.buffer_capacity = Len(Text)
       /\ e.source_pos = [source_pos EXCEPT !.column = @ + (n + 1 - buffer_pos)]
  BY <1>8, <1>11
<1>17. e.source_pos \in Places
  BY <1>1, <1>15, <1>16 DEF Places
<1>18. source_pos = Place(Text, buffer_pos) => e.source_pos = Place(Text, n + 1)
  <2>1. \A i \in buffer_pos + 1 .. n + 1 : Text[i] # NL
    <3> TAKE i \in buffer_pos + 1 .. n + 1
    <3>1. i - 1 \in Nat /\ i - 1 \in buffer_pos .. n /\ i - 1 < Len(Text) /\ (i - 1) + 1 = i
      BY <1>1, <1>10
    <3>2. c(i - 1) = Text[i]
      BY <1>1, <3>1, CharFacts
    <3> QED
      BY <1>10, <3>1, <3>2
  <2>2. PICK q \in Nat : q = n + 1
    BY <1>15
  <2>3. PICK p \in Nat : p = buffer_pos
    BY <1>1
  <2>4. PICK t : t = Text
    OBVIOUS
  <2>5. PICK a : a = Place(t, p)
    OBVIOUS
  <2>6. p <= q /\ \A i \in p + 1 .. q : t[i] # NL
    BY <1>15, <2>1, <2>2, <2>3, <2>4
  <2>7. Place(t, q) = [a EXCEPT !.column = @ + (q - p)]
    BY <2>5, <2>6, PlaceAlong
  <2>8. e.source_pos = [source_pos EXCEPT !.column = @ + (q - p)]
    <3>1. PICK d : d = n + 1 - buffer_pos
      OBVIOUS
    <3>2. d = q - p
      BY <1>1, <1>10, <2>2, <2>3, <3>1
    <3>3. e.source_pos = [source_pos EXCEPT !.column = @ + d]
      BY <1>8, <3>1
    <3> QED
      BY <3>2, <3>3
  <2>9. source_pos = Place(Text, buffer_pos) => source_pos = a
    BY <2>3, <2>4, <2>5
  <2>10. Place(t, q) = Place(Text, n + 1)
    BY <2>2, <2>4
  <2> QED
    BY <2>7, <2>8, <2>9, <2>10
<1>19. /\ GoodCallers(G, callers') /\ Len(callers') = Len(S) + 1 /\ Len(S) \in Nat
       /\ RightCallers(G, S) /\ source_pos = Place(Text, buffer_pos)
            => RightCallers(G, callers')
  <2>1. PICK U : U = callers'
    OBVIOUS
  <2>2. /\ e.buffer \in DOMAIN G /\ G[e.buffer] = Text
        /\ e.buffer_capacity = Len(G[e.buffer]) /\ e.buffer_pos \in 1 .. e.buffer_capacity
    BY <1>11, <1>13, <1>15, <1>16
  <2>3. U = Append(S, e)
    BY <1>9, <2>1
  <2>4. /\ GoodCallers(G, U) /\ Len(U) = Len(S) + 1 /\ Len(S) \in Nat
        /\ RightCallers(G, S) /\ e.source_pos = Place(G[e.buffer], e.buffer_pos)
             => RightCallers(G, U)
    BY <1>14, <1>17, <2>2, <2>3, CallerAdded
  <2> QED
    BY <1>16, <1>18, <2>1, <2>2, <2>4
<1>20. Text' = G[name] /\ Len(Text') \in Nat
  <2>1. Text' = G[name]
    BY <1>5, <1>9 DEF Text
  <2>2. G[name] \in Seq(Chars)
    BY <1>13 DEF GoodTexts
  <2> QED
    BY <2>1, <2>2
<1>21. MaxDepth \in Nat
  BY TokenizerAssumption DEF TokenizerAssumption
<1>22. source_pos' \in Places /\ source_pos' = Place(Text', 0)
  BY <1>9, PlaceAtStart DEF Places, Pos
<1>23. ContextInv'
  BY <1>5, <1>9, <1>11, <1>13, <1>14, <1>19, <1>20, <1>21, <1>22 DEF ContextInv
<1>24. PlaceInv'
  BY <1>5, <1>9, <1>12, <1>14, <1>19, <1>22 DEF PlaceInv
<1>25. OverrunIsReported'
  BY <1>9 DEF OverrunIsReported
<1> QED
  BY <1>23, <1>24, <1>25 DEF IInv


(* The end of the text: of the main file the end, of an included one the   *)
(* return to where it was included.                                        *)
LEMMA TextEndInv ==
  ASSUME IInv, TextEnd
  PROVE  IInv'
<1>1. /\ buffer_pos <= Len(Text) /\ buffer_pos \in Nat /\ source_pos \in Places
      /\ error \in BOOLEAN
  BY Reading DEF TextEnd
<1>2. /\ at = "trivia" /\ files' = files /\ UNCHANGED array /\ error' = error
  BY DEF TextEnd
<1>3. CASE callers = <<>>
  <2>1. at' = "eof" /\ UNCHANGED <<cursor, source_pos, callers>>
    BY <1>3 DEF TextEnd
  <2>2. ReadTo(buffer_pos)
    BY <1>1, <1>2, <2>1 DEF ReadTo, cursor
  <2> QED
    BY <1>1, <1>2, <2>2, ReadToInv
<1>4. CASE callers # <<>>
  <2>1. PICK S : S = callers
    OBVIOUS
  <2>2. PICK F : F = files
    OBVIOUS
  <2>3. PICK saved : saved = S[Len(S)]
    OBVIOUS
  <2>4. PICK U : U = SubSeq(S, 1, Len(S) - 1)
    OBVIOUS
  <2>5. /\ buffer' = saved.buffer /\ buffer_pos' = saved.buffer_pos
        /\ buffer_capacity' = saved.buffer_capacity /\ source_pos' = saved.source_pos
        /\ callers' = U /\ at' = at
    BY <1>4, <2>1, <2>3, <2>4 DEF TextEnd
  <2>6. /\ GoodTexts(F) /\ GoodTokens(F, tokens) /\ GoodCallers(F, S)
        /\ token_capacity \in Nat \ {0} /\ Len(tokens) <= token_capacity
        /\ Len(S) <= MaxDepth
    BY <1>2, <2>1, <2>2 DEF IInv, ContextInv
  <2>7. ~error => /\ RightTokens(F, tokens)
                  /\ AllSingle(F, tokens) =>
                       source_pos = Place(Text, buffer_pos) /\ RightCallers(F, S)
    BY <1>2, <2>1, <2>2 DEF IInv, PlaceInv
  <2>8. IsSequence(S)
    BY <2>6 DEF GoodCallers
  <2>9. Len(S) \in Nat
    BY <2>8, SequenceFacts
  <2>10. Len(S) # 0
    <3>1. S \in Seq({S[i] : i \in DOMAIN S}) /\ S # <<>>
      BY <1>4, <2>1, <2>8 DEF IsSequence
    <3> QED
      BY <3>1
  <2>11. /\ IsSequence(U) /\ Len(U) = Len(S) - 1
         /\ \A i \in 1 .. Len(U) : i \in 1 .. Len(S) /\ U[i] = S[i]
    BY <2>4, <2>8, <2>10, SequenceShortened
  <2>12. Len(S) \in 1 .. Len(S)
    BY <2>9, <2>10
  <2>13. /\ saved.buffer \in DOMAIN F /\ saved.source_pos \in Places
         /\ saved.buffer_capacity = Len(F[saved.buffer])
         /\ saved.buffer_pos \in 1 .. saved.buffer_capacity
    BY <2>3, <2>6, <2>12 DEF GoodCallers
  <2>14. RightCallers(F, S) =>
           RightCallers(F, U) /\ saved.source_pos = Place(F[saved.buffer], saved.buffer_pos)
    BY <2>3, <2>11, <2>12 DEF RightCallers
  <2>15. GoodCallers(F, U)
    BY <2>6, <2>11 DEF GoodCallers
  <2>16. Text' = F[saved.buffer] /\ Len(F[saved.buffer]) \in Nat
    <3>1. Text' = F[saved.buffer]
      BY <1>2, <2>2, <2>5 DEF Text
    <3>2. F[saved.buffer] \in Seq(Chars)
      BY <2>6, <2>13 DEF GoodTexts
    <3> QED
      BY <3>1, <3>2
  <2>17. /\ tokens' = tokens /\ token_capacity' = token_capacity /\ files' = F
    BY <1>2, <2>2 DEF array
  <2>18. /\ buffer_pos' \in Nat /\ buffer_pos' <= Len(F[saved.buffer])
         /\ Len(U) <= MaxDepth + 1 /\ Len(U) <= MaxDepth
    <3>1. MaxDepth \in Nat
      BY TokenizerAssumption DEF TokenizerAssumption
    <3>2. Len(U) <= MaxDepth + 1 /\ Len(U) <= MaxDepth
      BY <2>6, <2>9, <2>10, <2>11, <3>1
    <3> QED
      BY <2>5, <2>13, <2>16, <3>2
  <2>19. ContextInv'
    BY <1>1, <1>2, <2>5, <2>6, <2>13, <2>15, <2>16, <2>17, <2>18 DEF ContextInv
  <2>20. PlaceInv'
    BY <1>2, <2>5, <2>7, <2>14, <2>16, <2>17 DEF PlaceInv
  <2>21. OverrunIsReported'
    BY <1>2, <2>5 DEF OverrunIsReported
  <2> QED
    BY <2>19, <2>20, <2>21 DEF IInv
<1> QED
  BY <1>3, <1>4

-----------------------------------------------------------------------------
(* A recogniser that reads characters of one line, up to q, and makes one  *)
(* token of them.                                                          *)
LEMMA RunReads ==
  ASSUME IInv, at = "token", NEW q \in Nat, buffer_pos <= q, q <= Len(Text),
         \A k \in buffer_pos .. q - 1 : c(k) # NL,
         NEW kind, NEW text, AddToken(kind, text, buffer_pos, q, source_pos),
         AdvanceTo(q), ReadOn(q),
         UNCHANGED <<files, buffer, buffer_capacity, error, callers>>
  PROVE  ReadTo(q)
<1>1. /\ Text \in Seq(Chars) /\ Len(Text) \in Nat /\ buffer_pos \in 0 .. Len(Text)
      /\ buffer_pos \in Nat /\ source_pos \in Places /\ error \in BOOLEAN
  BY Reading
<1>2. /\ buffer_pos' = q /\ source_pos' \in Places
      /\ source_pos = Place(Text, buffer_pos) => source_pos' = Place(Text, q)
  BY <1>1, AdvanceFacts
<1>3. at' = "trivia"
  BY <1>1 DEF ReadOn
<1>4. PICK from : from = buffer_pos
  OBVIOUS
<1>5. PICK pos : pos = source_pos
  OBVIOUS
<1>6. /\ AddToken(kind, text, from, q, pos)
      /\ source_pos = Place(Text, buffer_pos) => pos = Place(Text, from)
      /\ /\ ~error' /\ at' # "undefined" /\ source_pos = Place(Text, buffer_pos)
         /\ (\A i \in from + 1 .. q : i <= Len(Text) => Text[i] # NL)
         => source_pos' = Place(Text, q)
  BY <1>2, <1>4, <1>5
<1> QED
  BY <1>1, <1>2, <1>3, <1>6 DEF ReadTo

LEMMA NumberReads ==
  ASSUME IInv, Number
  PROVE  \E q \in Nat : ReadTo(q)
<1>1. PICK q : q = EndOfRun(buffer_pos, Digits)
  OBVIOUS
<1>2. /\ at = "token"
      /\ AddToken("value", Chars_(buffer_pos, q), buffer_pos, q, source_pos)
      /\ AdvanceTo(q) /\ ReadOn(q)
      /\ UNCHANGED <<files, buffer, buffer_capacity, error, callers>>
  BY <1>1 DEF Number
<1>3. /\ Text \in Seq(Chars) /\ Len(Text) \in Nat /\ buffer_pos \in 0 .. Len(Text)
  BY <1>2, Reading
<1>4. /\ q \in buffer_pos .. Len(Text) /\ \A k \in buffer_pos .. q - 1 : c(k) \in Digits
  BY <1>1, <1>3, StringsDiffer, RunFacts
<1>5. q \in Nat /\ buffer_pos <= q /\ q <= Len(Text)
  BY <1>3, <1>4
<1>6. \A k \in buffer_pos .. q - 1 : c(k) # NL
  BY <1>4, StringsDiffer
<1>7. PICK text : text = Chars_(buffer_pos, q)
  OBVIOUS
<1>8. ReadTo(q)
  BY <1>2, <1>5, <1>6, <1>7, RunReads
<1> QED
  BY <1>5, <1>8

LEMMA WordReads ==
  ASSUME IInv, Word
  PROVE  \E q \in Nat : ReadTo(q)
<1>1. PICK e : e = EndOfRun(buffer_pos, IdCont)
  OBVIOUS
<1>2. PICK q : q = Min({e, buffer_pos + MaxWord - 1})
  OBVIOUS
<1>3. /\ at = "token"
      /\ AddToken("string", Chars_(buffer_pos, q), buffer_pos, q, source_pos)
      /\ AdvanceTo(q) /\ ReadOn(q)
      /\ UNCHANGED <<files, buffer, buffer_capacity, error, callers>>
  BY <1>1, <1>2 DEF Word
<1>4. /\ Text \in Seq(Chars) /\ Len(Text) \in Nat /\ buffer_pos \in 0 .. Len(Text)
      /\ MaxWord \in Nat \ {0}
  BY <1>3, Reading, TokenizerAssumption DEF TokenizerAssumption
<1>5. /\ e \in buffer_pos .. Len(Text) /\ \A k \in buffer_pos .. e - 1 : c(k) \in IdCont
  BY <1>1, <1>4, StringsDiffer, RunFacts
<1>6. q \in Nat /\ buffer_pos <= q /\ q <= e
  <2>1. PICK m : m = buffer_pos + MaxWord - 1
    OBVIOUS
  <2>2. m \in Nat /\ e \in Nat /\ buffer_pos <= m /\ buffer_pos <= e
    BY <1>4, <1>5, <2>1
  <2>3. PICK S \in SUBSET Nat : S = {e, m}
    BY <2>2
  <2>4. Min(S) \in S /\ \A y \in S : Min(S) <= y
    BY <2>3, MinFacts
  <2> QED
    BY <1>2, <2>1, <2>2, <2>3, <2>4
<1>7. \A k \in buffer_pos .. q - 1 : c(k) # NL
  <2>1. \A k \in buffer_pos .. q - 1 : k \in buffer_pos .. e - 1
    BY <1>4, <1>5, <1>6
  <2> QED
    BY <1>5, <2>1, StringsDiffer
<1>8. PICK text : text = Chars_(buffer_pos, q)
  OBVIOUS
<1>9. q <= Len(Text)
  BY <1>4, <1>5, <1>6
<1>10. ReadTo(q)
  BY <1>3, <1>6, <1>7, <1>8, <1>9, RunReads
<1> QED
  BY <1>6, <1>10

LEMMA PunctReads ==
  ASSUME IInv, Punct
  PROVE  \E q \in Nat : ReadTo(q)
<1>1. PICK q : q = IF Punct2(buffer_pos) THEN buffer_pos + 2 ELSE buffer_pos + 1
  OBVIOUS
<1>2. /\ at = "token" /\ c(buffer_pos) \in Puncts
      /\ AddToken("punct", Chars_(buffer_pos, q), buffer_pos, q, source_pos)
      /\ AdvanceTo(q) /\ ReadOn(q)
      /\ UNCHANGED <<files, buffer, buffer_capacity, error, callers>>
  BY <1>1 DEF Punct, IsPunct
<1>3. /\ Text \in Seq(Chars) /\ Len(Text) \in Nat /\ buffer_pos \in Nat
      /\ buffer_pos < Len(Text)
  BY <1>2, Reading, StringsDiffer
<1>4. Punct2(buffer_pos) => c(buffer_pos + 1) = "=" /\ buffer_pos + 1 < Len(Text)
  <2>1. c(buffer_pos + 1) = NUL <=> Len(Text) <= buffer_pos + 1
    BY <1>3, CharFacts
  <2>2. "=" # NUL
    BY StringsDiffer
  <2> QED
    BY <1>3, <2>1, <2>2 DEF Punct2
<1>5. q \in Nat /\ buffer_pos <= q /\ q <= Len(Text)
  BY <1>1, <1>3, <1>4
<1>6. \A k \in buffer_pos .. q - 1 : c(k) # NL
  <2>1. \A k \in buffer_pos .. q - 1 :
          k = buffer_pos \/ (Punct2(buffer_pos) /\ k = buffer_pos + 1)
    BY <1>1, <1>3
  <2>2. c(buffer_pos) # NL /\ "=" # NL
    BY <1>2, StringsDiffer
  <2> QED
    BY <1>4, <2>1, <2>2
<1>7. PICK text : text = Chars_(buffer_pos, q)
  OBVIOUS
<1>8. ReadTo(q)
  BY <1>2, <1>5, <1>6, <1>7, RunReads
<1> QED
  BY <1>5, <1>8


LEMMA UnknownReads ==
  ASSUME IInv, Unknown
  PROVE  \E q \in Nat : ReadTo(q)
<1>1. PICK q : q = buffer_pos + 1
  OBVIOUS
<1>2. /\ at = "token" /\ error' = TRUE /\ AdvanceTo(q) /\ ReadOn(q)
      /\ UNCHANGED <<files, buffer, buffer_capacity, array, callers>>
  BY <1>1 DEF Unknown
<1>3. /\ Text \in Seq(Chars) /\ Len(Text) \in Nat /\ buffer_pos \in Nat
      /\ buffer_pos \in 0 .. Len(Text) /\ source_pos \in Places
  BY <1>2, Reading
<1>4. q \in Nat /\ buffer_pos <= q
  BY <1>1, <1>3
<1>5. buffer_pos' = q /\ source_pos' \in Places
  BY <1>2, <1>3, <1>4, AdvanceFacts
<1>6. at' \in {"trivia", "undefined"} /\ (at' # "undefined" => q <= Len(Text))
  BY <1>2 DEF ReadOn
<1>7. ReadTo(q)
  BY <1>2, <1>5, <1>6 DEF ReadTo
<1> QED
  BY <1>4, <1>7

LEMMA EofReads ==
  ASSUME IInv, Eof
  PROVE  \E q \in Nat : ReadTo(q)
<1>1. /\ buffer_pos \in Nat /\ buffer_pos <= Len(Text) /\ source_pos \in Places
      /\ error \in BOOLEAN
  BY Reading DEF Eof
<1>2. /\ UNCHANGED <<files, buffer, buffer_capacity, callers>>
      /\ buffer_pos' = buffer_pos /\ source_pos' = source_pos /\ error' = error
  BY DEF Eof, cursor
<1>3. \/ /\ at = "eof" /\ at' = at
         /\ AddToken("eof", <<>>, buffer_pos, buffer_pos, source_pos)
      \/ at' = "done" /\ UNCHANGED array
  BY DEF Eof
<1>4. CASE at' = "done" /\ UNCHANGED array
  <2>1. ReadTo(buffer_pos)
    BY <1>1, <1>2, <1>4 DEF ReadTo
  <2> QED
    BY <1>1, <2>1
<1>5. CASE /\ at = "eof" /\ at' = at
           /\ AddToken("eof", <<>>, buffer_pos, buffer_pos, source_pos)
  <2>1. PICK from : from = buffer_pos
    OBVIOUS
  <2>2. PICK pos : pos = source_pos
    OBVIOUS
  <2>3. /\ AddToken("eof", <<>>, from, from, pos)
        /\ source_pos = Place(Text, buffer_pos) => pos = Place(Text, from)
        /\ source_pos = Place(Text, buffer_pos) => source_pos' = Place(Text, buffer_pos)
    BY <1>2, <1>5, <2>1, <2>2
  <2>4. ReadTo(buffer_pos)
    BY <1>1, <1>2, <1>5, <2>3 DEF ReadTo
  <2> QED
    BY <1>1, <2>4
<1> QED
  BY <1>3, <1>4, <1>5

(* A character in quotes: its place is 1 or 2 behind the quote; what       *)
(* follows is skipped.                                                     *)
LEMMA CharReads ==
  ASSUME IInv, Char
  PROVE  \E q \in Nat : ReadTo(q)
<1> DEFINE escape == c(buffer_pos + 1) = Back
           known  == escape => c(IF escape THEN buffer_pos + 2 ELSE buffer_pos + 1) \in DOMAIN Escapes
<1>1. PICK place : place = IF escape THEN buffer_pos + 2 ELSE buffer_pos + 1
  OBVIOUS
<1>2. PICK q : q = place + 2
  OBVIOUS
<1>3. PICK from : from = buffer_pos + 1
  OBVIOUS
<1>4. PICK pos : pos = [source_pos EXCEPT !.column = @ + 1]
  OBVIOUS
<1>5. PICK text : AddToken("char", text, from, q, pos)
  BY <1>1, <1>2, <1>3, <1>4 DEF Char
<1>6. /\ at = "token" /\ c(buffer_pos) = "'" /\ AdvanceTo(q) /\ ReadOn(q)
      /\ UNCHANGED <<files, buffer, buffer_capacity, callers>>
  BY <1>1, <1>2 DEF Char
<1>7. IF place + 1 > Len(Text) THEN error' = (error \/ ~known)
      ELSE error' = (error \/ ~known \/ c(place + 1) # "'")
  BY <1>1 DEF Char
<1>8. /\ Text \in Seq(Chars) /\ Len(Text) \in Nat /\ buffer_pos \in Nat
      /\ buffer_pos \in 0 .. Len(Text) /\ buffer_pos < Len(Text)
      /\ source_pos \in Places /\ error \in BOOLEAN
  BY <1>6, Reading, StringsDiffer
<1>9. place \in Nat /\ place \in {buffer_pos + 1, buffer_pos + 2} /\ q \in Nat /\ buffer_pos <= q
  BY <1>1, <1>2, <1>8
<1>10. buffer_pos' = q /\ source_pos' \in Places
       /\ source_pos' = [source_pos EXCEPT !.column = @ + (q - buffer_pos)]
  BY <1>6, <1>8, <1>9, AdvanceFacts
<1>11. at' \in {"trivia", "undefined"} /\ (at' # "undefined" <=> q <= Len(Text))
  BY <1>6 DEF ReadOn
<1>12. error' \in BOOLEAN /\ (error => error')
  BY <1>7, <1>8, Zenon
<1>13. ASSUME at' = "undefined", ~error'  PROVE Text[Len(Text)] \in {"'", NL}
  <2>1. place + 2 > Len(Text)
    BY <1>2, <1>8, <1>9, <1>11, <1>13
  <2>2. CASE place + 1 > Len(Text)
    <3>1. known
      BY <1>7, <1>13, <2>2, Zenon
    <3>2. ~escape
      <4> SUFFICES ASSUME escape  PROVE FALSE
        OBVIOUS
      <4>1. place = buffer_pos + 2 /\ buffer_pos + 1 \in Nat
        BY <1>1, <1>8
      <4>2. c(place) \in DOMAIN Escapes
        BY <3>1, <1>1, <4>1
      <4>3. c(buffer_pos + 1) = NUL <=> Len(Text) <= buffer_pos + 1
        BY <1>8, <4>1, CharFacts
      <4>4. c(buffer_pos + 1) # NUL
        BY StringsDiffer
      <4>5. c(place) = NUL
        <5>1. c(place) = NUL <=> Len(Text) <= place
          BY <1>8, <1>9, CharFacts
        <5> QED
          BY <1>8, <1>9, <2>2, <4>1, <4>3, <4>4, <5>1
      <4>6. NUL \notin DOMAIN Escapes
        BY DEF NUL, Escapes, Back, Quote
      <4> QED
        BY <4>2, <4>5, <4>6
    <3>3. place = buffer_pos + 1 /\ buffer_pos + 1 = Len(Text)
      BY <1>1, <1>8, <2>2, <3>2
    <3>4. c(buffer_pos) = Text[buffer_pos + 1]
      BY <1>8, CharFacts
    <3> QED
      BY <1>6, <3>3, <3>4
  <2>3. CASE ~(place + 1 > Len(Text))
    <3>1. c(place + 1) = "'"
      BY <1>7, <1>13, <2>3, Zenon
    <3>2. place + 1 \in Nat /\ place + 1 = Len(Text)
      BY <1>8, <1>9, <2>1, <2>3
    <3>3. c(place + 1) = NUL <=> Len(Text) <= place + 1
      BY <1>8, <3>2, CharFacts
    <3>4. "'" # NUL
      BY StringsDiffer
    <3> QED
      BY <1>8, <3>1, <3>2, <3>3, <3>4
  <2> QED
    BY <2>2, <2>3
<1>14. ASSUME source_pos = Place(Text, buffer_pos)  PROVE pos = Place(Text, from)
  <2>1. PICK t : t = Text
    OBVIOUS
  <2>2. PICK p \in Nat : p = buffer_pos
    BY <1>8
  <2>3. from \in Nat /\ p <= from /\ from - p = 1
    BY <1>3, <2>2
  <2>4. \A i \in p + 1 .. from : t[i] # NL
    <3>1. \A i \in p + 1 .. from : i = p + 1
      BY <1>3, <2>2
    <3>2. c(buffer_pos) = Text[buffer_pos + 1] /\ "'" # NL
      BY <1>8, CharFacts, StringsDiffer
    <3> QED
      BY <1>6, <2>1, <2>2, <3>1, <3>2
  <2>5. PICK a : a = Place(t, p)
    OBVIOUS
  <2>6. Place(t, from) = [a EXCEPT !.column = @ + (from - p)]
    BY <2>3, <2>4, <2>5, PlaceAlong
  <2>7. source_pos = a /\ pos = [a EXCEPT !.column = @ + 1]
    BY <1>4, <1>14, <2>1, <2>2, <2>5
  <2> QED
    BY <2>1, <2>3, <2>6, <2>7
<1>15. ASSUME at' # "undefined", source_pos = Place(Text, buffer_pos),
              \A i \in from + 1 .. q : i <= Len(Text) => Text[i] # NL
       PROVE  source_pos' = Place(Text, q)
  <2>1. \A k \in buffer_pos .. q - 1 : c(k) # NL
    <3> TAKE k \in buffer_pos .. q - 1
    <3>1. k \in Nat /\ k < Len(Text)
      BY <1>8, <1>9, <1>11, <1>15
    <3>2. c(k) = Text[k + 1]
      BY <1>8, <3>1, CharFacts
    <3>3. CASE k = buffer_pos
      BY <1>6, <3>3, StringsDiffer
    <3>4. CASE k # buffer_pos
      <4>1. k + 1 \in from + 1 .. q /\ k + 1 <= Len(Text)
        BY <1>3, <1>8, <1>9, <3>1, <3>4
      <4> QED
        BY <1>15, <3>2, <4>1
    <3> QED
      BY <3>3, <3>4
  <2> QED
    BY <1>6, <1>8, <1>9, <1>11, <1>15, <2>1, AdvanceFacts
<1>16. ReadTo(q)
  <2> HIDE DEF escape, known
  <2> QED
    BY <1>5, <1>6, <1>10, <1>11, <1>12, <1>13, <1>14, <1>15 DEF ReadTo
<1> QED
  BY <1>9, <1>16

LEMMA StrLitReads ==
  ASSUME IInv, StrLit
  PROVE  \E q \in Nat : ReadTo(q)
<1>1. PICK lit : lit = Literal(buffer_pos + 1)
  OBVIOUS
<1> DEFINE fits == Len(lit.text) < MaxLiteral
<1>3. /\ at = "token" /\ c(buffer_pos) = Quote
      /\ buffer_pos' = lit.end
      /\ source_pos' = IF lit.lines = 0
                         THEN [source_pos EXCEPT !.column = @ + (lit.end - buffer_pos)]
                         ELSE Pos(source_pos.line + lit.lines, lit.end - lit.line_at)
      /\ error' = (error \/ ~lit.known \/ ~fits \/ lit.how = "open")
      /\ UNCHANGED <<files, buffer, buffer_capacity, callers>>
  BY <1>1 DEF StrLit
<1> HIDE DEF fits
<1>4. \/ /\ lit.how = "closed" /\ at' = "trivia"
         /\ \E text : AddToken("str_literal", text, buffer_pos, lit.end, source_pos)
      \/ lit.how = "open" /\ UNCHANGED <<at, array>>
      \/ lit.how = "past" /\ at' = "undefined" /\ UNCHANGED array
  BY <1>1 DEF StrLit
<1>5. /\ Text \in Seq(Chars) /\ Len(Text) \in Nat /\ buffer_pos \in Nat
      /\ buffer_pos \in 0 .. Len(Text) /\ buffer_pos < Len(Text)
      /\ source_pos \in Places /\ error \in BOOLEAN
  BY <1>3, Reading, StringsDiffer
<1>6. PICK from \in 0 .. Len(Text) : from = buffer_pos + 1
  BY <1>5
<1>7. ScanOK(from, lit)
  BY <1>1, <1>5, <1>6, LiteralFacts
<1>8. /\ lit.end \in Nat /\ lit.lines \in Nat /\ lit.line_at \in Nat /\ lit.known \in BOOLEAN
      /\ from <= lit.end
      /\ lit.how = "closed" => lit.end <= Len(Text)
      /\ lit.how = "open" => lit.end = Len(Text)
      /\ lit.how = "past" => lit.end = Len(Text) + 1
      /\ lit.lines # 0 => lit.line_at <= lit.end
      /\ lit.known /\ lit.lines = 0 => \A k \in from .. lit.end - 1 : c(k) # NL
      /\ lit.lines # 0 => \E k \in from .. lit.end - 1 : c(k) = NL
      /\ lit.known /\ lit.how = "past" => c(Len(Text) - 1) = NL
  BY <1>6, <1>7 DEF ScanOK, Scans
<1>9. PICK q \in Nat : q = lit.end
  BY <1>8
<1>10. buffer_pos <= q /\ q - buffer_pos \in Nat
  BY <1>5, <1>6, <1>8, <1>9
<1>11. source_pos' \in Places
  <2>1. CASE lit.lines = 0
    <3>1. source_pos' = [source_pos EXCEPT !.column = @ + (q - buffer_pos)]
      BY <1>3, <1>9, <2>1
    <3> QED
      BY <1>5, <1>10, <3>1 DEF Places
  <2>2. CASE lit.lines # 0
    <3>1. source_pos' = Pos(source_pos.line + lit.lines, lit.end - lit.line_at)
      BY <1>3, <2>2
    <3>2. source_pos.line \in Nat
      BY <1>5 DEF Places
    <3>3. source_pos.line + lit.lines \in Nat /\ lit.end - lit.line_at \in Nat
      BY <1>8, <2>2, <3>2
    <3> QED
      BY <3>1, <3>3 DEF Places, Pos
  <2> QED
    BY <2>1, <2>2
<1>12. error' \in BOOLEAN /\ (error => error')
  BY <1>3, <1>5, <1>8, Zenon
<1>13. ASSUME ~error'  PROVE lit.known /\ lit.how # "open"
  BY <1>3, <1>13, Zenon
<1>14. CASE lit.how = "open" /\ UNCHANGED <<at, array>>
  <2>1. error'
    BY <1>13, <1>14, <1>12
  <2>2. q <= Len(Text)
    BY <1>5, <1>8, <1>9, <1>14
  <2> QED
    BY <1>3, <1>9, <1>11, <1>12, <1>14, <2>1, <2>2 DEF ReadTo
<1>15. CASE lit.how = "past" /\ at' = "undefined" /\ UNCHANGED array
  <2>1. ASSUME ~error'  PROVE Text[Len(Text)] \in {"'", NL}
    <3>1. c(Len(Text) - 1) = NL
      BY <1>8, <1>13, <1>15, <2>1
    <3>2. Len(Text) - 1 \in Nat /\ Len(Text) - 1 < Len(Text) /\ (Len(Text) - 1) + 1 = Len(Text)
      BY <1>5
    <3>3. c(Len(Text) - 1) = Text[Len(Text)]
      BY <3>2 DEF c
    <3> QED
      BY <3>1, <3>3
  <2> QED
    BY <1>3, <1>9, <1>11, <1>12, <1>15, <2>1 DEF ReadTo
<1>16. CASE /\ lit.how = "closed" /\ at' = "trivia"
            /\ \E text : AddToken("str_literal", text, buffer_pos, lit.end, source_pos)
  <2>1. q <= Len(Text)
    BY <1>8, <1>9, <1>16
  <2>2. PICK begin : begin = buffer_pos
    OBVIOUS
  <2>3. PICK pos : pos = source_pos
    OBVIOUS
  <2>4. PICK text : AddToken("str_literal", text, begin, q, pos)
    BY <1>9, <1>16, <2>2, <2>3
  <2>5. ASSUME ~error', source_pos = Place(Text, buffer_pos),
               \A i \in begin + 1 .. q : i <= Len(Text) => Text[i] # NL
        PROVE  source_pos' = Place(Text, q)
    <3>1. \A k \in buffer_pos .. q - 1 : c(k) # NL
      <4> TAKE k \in buffer_pos .. q - 1
      <4>1. k \in Nat /\ k < Len(Text) /\ k + 1 \in begin + 1 .. q /\ k + 1 <= Len(Text)
        BY <1>5, <2>1, <2>2
      <4>2. c(k) = Text[k + 1]
        BY <1>5, <4>1, CharFacts
      <4> QED
        BY <2>5, <4>1, <4>2
    <3>2. lit.lines = 0
      <4>1. \A k \in from .. lit.end - 1 : k \in buffer_pos .. q - 1
        BY <1>5, <1>6, <1>9
      <4> QED
        BY <1>8, <3>1, <4>1
    <3>3. AdvanceTo(q)
      <4>1. buffer_pos' = q /\ source_pos' = [source_pos EXCEPT !.column = @ + (q - buffer_pos)]
        BY <1>3, <1>9, <3>2
      <4> QED
        BY <4>1 DEF AdvanceTo
    <3> QED
      BY <1>5, <1>10, <2>1, <2>5, <3>1, <3>3, AdvanceFacts
  <2>6. source_pos = Place(Text, buffer_pos) => pos = Place(Text, begin)
    BY <2>2, <2>3
  <2> QED
    BY <1>3, <1>9, <1>11, <1>12, <1>16, <2>1, <2>4, <2>5, <2>6 DEF ReadTo
<1> QED
  BY <1>4, <1>14, <1>15, <1>16


-----------------------------------------------------------------------------
(***************************************************************************)
(* What a text means                                                       *)
(***************************************************************************)
Kinds == {"bad", "value", "char", "str_literal", "string", "punct"}
Toks  == [kind : Kinds, text : Seq(Signs), cut : BOOLEAN]

LEMMA ToldFacts ==
  ASSUME NEW kind \in Kinds, NEW text \in Seq(Signs), NEW cut \in BOOLEAN
  PROVE  /\ Told(kind, text, cut) \in Toks /\ Told(kind, text, cut).kind = kind
         /\ Told(kind, text, cut).text = text /\ Told(kind, text, cut).cut = cut
BY DEF Told, Toks

LEMMA TextFacts ==
  ASSUME NEW t \in Seq(Chars)
  PROVE  /\ Len(t) \in Nat /\ DOMAIN t = 1 .. Len(t)
         /\ \A i \in 1 .. Len(t) : t[i] \in Chars /\ t[i] \in Signs /\ Sign(t, i) = t[i]
         /\ \A i \in Nat : i > Len(t) => Sign(t, i) = NUL
         /\ \A i \in Nat : Sign(t, i) = NUL <=> i \notin 1 .. Len(t)
         /\ \A i, j \in Nat : 1 <= i /\ j <= Len(t) => SubSeq(t, i, j) \in Seq(Signs)
<1>1. /\ Len(t) \in Nat /\ DOMAIN t = 1 .. Len(t)
      /\ \A i \in 1 .. Len(t) : t[i] \in Chars
  OBVIOUS
<1>2. \A i \in 1 .. Len(t) : t[i] \in Signs /\ t[i] # NUL
  BY <1>1, NulIsNoChar DEF Signs
<1>3. t \in Seq(Signs)
  <2>1. t \in [1 .. Len(t) -> Signs]
    BY <1>1, <1>2
  <2> QED
    BY <1>1, <2>1, FunctionIsSequence
<1>4. ASSUME NEW i \in Nat, NEW j \in Nat, 1 <= i, j <= Len(t)
      PROVE  SubSeq(t, i, j) \in Seq(Signs)
  BY <1>1, <1>3, <1>4
<1> QED
  BY <1>1, <1>2, <1>4 DEF Sign

LEMMA LongestFacts ==
  ASSUME NEW t \in Seq(Chars), NEW i \in 1 .. Len(t) + 1, NEW set, NUL \notin set
  PROVE  /\ Longest(t, i, set) \in i .. Len(t) + 1
         /\ Sign(t, Longest(t, i, set)) \notin set
         /\ \A k \in i .. Longest(t, i, set) - 1 : t[k] \in set
<1> DEFINE S == {j \in i .. Len(t) + 1 : Sign(t, j) \notin set}
<1>1. Len(t) \in Nat /\ i \in Nat
  BY TextFacts
<1>2. S \in SUBSET Nat /\ Len(t) + 1 \in S
  <2>1. Sign(t, Len(t) + 1) = NUL
    BY <1>1, TextFacts
  <2> QED
    BY <1>1, <2>1
<1>3. PICK j \in S : \A k \in S : j <= k
  <2> HIDE DEF S
  <2> QED
    BY <1>2, LeastNat
<1>4. ASSUME NEW k \in i .. j - 1  PROVE t[k] \in set
  <2>1. k \in 1 .. Len(t) /\ k \in i .. Len(t) + 1 /\ k < j
    BY <1>1, <1>3
  <2>2. Sign(t, k) \in set
    BY <1>3, <2>1
  <2> QED
    BY <2>1, <2>2, TextFacts
<1>5. \E l \in i .. Len(t) + 1 : Sign(t, l) \notin set /\ \A k \in i .. l - 1 : t[k] \in set
  BY <1>3, <1>4
<1> QED
  BY <1>5 DEF Longest

(* There is one such place only.                                           *)
LEMMA LongestIs ==
  ASSUME NEW t \in Seq(Chars), NEW i \in 1 .. Len(t) + 1, NEW set, NUL \notin set,
         NEW j \in i .. Len(t) + 1, Sign(t, j) \notin set,
         \A k \in i .. j - 1 : Sign(t, k) \in set
  PROVE  Longest(t, i, set) = j
<1>1. PICK l \in i .. Len(t) + 1 : l = Longest(t, i, set) /\ Sign(t, l) \notin set
         /\ \A k \in i .. l - 1 : t[k] \in set
  BY LongestFacts
<1>2. Len(t) \in Nat
  BY TextFacts
<1>3. ~(l < j)
  BY <1>1, <1>2
<1>4. ~(j < l)
  <2> SUFFICES ASSUME j < l  PROVE FALSE
    OBVIOUS
  <2>1. j \in i .. l - 1 /\ j \in 1 .. Len(t)
    BY <1>1, <1>2
  <2>2. Sign(t, j) = t[j]
    BY <2>1, TextFacts
  <2> QED
    BY <1>1, <2>1, <2>2
<1> QED
  BY <1>1, <1>2, <1>3, <1>4

(* Descending, from a on upwards, one at a time.                           *)
Ascends(a, b, S, s0, step_) ==
  {g \in [a .. b -> S] : \A n \in a .. b :
     g[n] = IF n = a THEN s0 ELSE step_[<<g[n - 1], n>>]}

LEMMA Upwards ==
  ASSUME NEW a \in Nat, NEW b \in Nat, a <= b, NEW S, NEW s0 \in S,
         NEW step_ \in [S \X (a .. b) -> S]
  PROVE  Ascends(a, b, S, s0, step_) # {}
<1> DEFINE N == b - a + 1
           base == [n \in 1 .. N |-> s0]
           prev == [n \in 1 .. N |-> n - 1]
           st   == [x \in S \X (1 .. N) |-> step_[<<x[1], x[2] + a - 1>>]]
<1>1. /\ N \in Nat /\ 1 \in 1 .. N
      /\ \A n \in 1 .. N : n + a - 1 \in a .. b /\ (n \notin {1} => n - 1 \in 1 .. n - 1)
      /\ \A n \in a .. b : n - a + 1 \in 1 .. N /\ (n - a + 1) + a - 1 = n
      /\ \A n \in a .. b : n # a => /\ n - 1 \in a .. b /\ (n - a + 1) - 1 = (n - 1) - a + 1
                                    /\ n - a + 1 \notin {1}
      /\ a - a + 1 = 1
  OBVIOUS
<1>2. \A n \in 1 .. N : n \in {1} => base[n] \in S
  OBVIOUS
<1>3. \A n \in 1 .. N : n \notin {1} => prev[n] \in 1 .. n - 1
  <2> TAKE n \in 1 .. N
  <2>1. prev[n] = n - 1
    OBVIOUS
  <2> HIDE DEF N, prev
  <2> QED
    BY <1>1, <2>1
<1>4. st \in [S \X (1 .. N) -> S]
  <2>1. ASSUME NEW x \in S \X (1 .. N)  PROVE step_[<<x[1], x[2] + a - 1>>] \in S
    <3>1. x[1] \in S /\ x[2] \in 1 .. N
      OBVIOUS
    <3> HIDE DEF N
    <3>2. x[2] + a - 1 \in a .. b
      BY <1>1, <3>1
    <3>3. <<x[1], x[2] + a - 1>> \in S \X (a .. b)
      BY <3>1, <3>2
    <3> QED
      BY <3>3
  <2> HIDE DEF N
  <2> QED
    BY <2>1
<1>5. PICK f \in [1 .. N -> S] : \A n \in 1 .. N :
        f[n] = IF n \in {1} THEN base[n] ELSE st[<<f[prev[n]], n>>]
  <2>1. N \in Nat
    BY <1>1
  <2> HIDE DEF N, base, prev, st
  <2>2. Descends(N, S, {1}, base, prev, st) # {}
    BY <1>2, <1>3, <1>4, <2>1, Descending, Zenon
  <2> QED
    BY <2>2 DEF Descends
<1>6. f[1] = s0 /\ \A n \in 1 .. N : n # 1 => f[n] = step_[<<f[n - 1], n + a - 1>>]
  <2>1. f[1] = s0
    <3>1. base[1] = s0
      BY <1>1
    <3> HIDE DEF N, base, prev, st
    <3> QED
      BY <1>1, <1>5, <3>1
  <2>2. ASSUME NEW n \in 1 .. N, n # 1  PROVE f[n] = step_[<<f[n - 1], n + a - 1>>]
    <3>1. prev[n] = n - 1
      OBVIOUS
    <3>2. f[n] = st[<<f[n - 1], n>>]
      <4> HIDE DEF N, base, prev, st
      <4> QED
        BY <1>5, <2>2, <3>1
    <3>3. f[n - 1] \in S
      <4> HIDE DEF N
      <4>1. n - 1 \in 1 .. N
        BY <1>1, <2>2
      <4> QED
        BY <1>5, <4>1
    <3>4. st[<<f[n - 1], n>>] = step_[<<f[n - 1], n + a - 1>>]
      <4> HIDE DEF N
      <4> QED
        BY <3>3
    <3> QED
      BY <3>2, <3>4
  <2> QED
    BY <2>1, <2>2
<1> DEFINE g == [n \in a .. b |-> f[n - a + 1]]
<1> HIDE DEF N, base, prev, st
<1>7. g \in [a .. b -> S]
  BY <1>1, <1>5
<1>8. \A n \in a .. b : g[n] = IF n = a THEN s0 ELSE step_[<<g[n - 1], n>>]
  <2> TAKE n \in a .. b
  <2>1. g[n] = f[n - a + 1]
    OBVIOUS
  <2>2. CASE n = a
    BY <1>1, <1>6, <2>1, <2>2
  <2>3. CASE n # a
    <3>1. g[n - 1] = f[(n - 1) - a + 1]
      BY <1>1, <2>3
    <3>2. PICK m \in 1 .. N : m = n - a + 1 /\ m # 1 /\ m - 1 = (n - 1) - a + 1 /\ m + a - 1 = n
      BY <1>1, <2>3
    <3>3. f[m] = step_[<<f[m - 1], m + a - 1>>]
      BY <1>6, <3>2
    <3> HIDE DEF g
    <3> QED
      BY <2>1, <2>3, <3>1, <3>2, <3>3
  <2> QED
    BY <2>2, <2>3
<1> HIDE DEF g
<1> QED
  BY <1>7, <1>8 DEF Ascends

LEMMA OddFacts ==
  ASSUME NEW t \in Seq(Chars), NEW i \in 1 .. Len(t)
  PROVE  /\ Odd(t, i) \in [i .. Len(t) -> {0, 1}]
         /\ Odd(t, i)[i] = 0
         /\ \A j \in i + 1 .. Len(t) :
              Odd(t, i)[j] = IF t[j] # Back THEN 0 ELSE 1 - Odd(t, i)[j - 1]
<1>1. /\ Len(t) \in Nat /\ i \in Nat /\ i <= Len(t) /\ i \in i .. Len(t)
      /\ \A j \in i + 1 .. Len(t) : j \in i .. Len(t) /\ j # i /\ j - 1 \in i .. Len(t)
      /\ \A j \in i .. Len(t) : j = i \/ j \in i + 1 .. Len(t)
  BY TextFacts
<1> DEFINE st == [x \in {0, 1} \X (i .. Len(t)) |-> IF t[x[2]] # Back THEN 0 ELSE 1 - x[1]]
<1>2. st \in [{0, 1} \X (i .. Len(t)) -> {0, 1}]
  OBVIOUS
<1>3. PICK g \in [i .. Len(t) -> {0, 1}] :
        \A n \in i .. Len(t) : g[n] = IF n = i THEN 0 ELSE st[<<g[n - 1], n>>]
  <2>1. 0 \in {0, 1}
    OBVIOUS
  <2> HIDE DEF st
  <2>2. Ascends(i, Len(t), {0, 1}, 0, st) # {}
    BY <1>1, <1>2, <2>1, Upwards, Zenon
  <2> QED
    BY <2>2 DEF Ascends
<1>4. \A j \in i .. Len(t) :
        g[j] = IF j = i \/ t[j] # Back THEN 0 ELSE 1 - g[j - 1]
  <2> TAKE j \in i .. Len(t)
  <2>1. CASE j = i
    BY <1>3, <2>1
  <2>2. CASE j # i
    <3>1. g[j - 1] \in {0, 1}
      BY <1>1, <1>3, <2>2
    <3>2. st[<<g[j - 1], j>>] = IF t[j] # Back THEN 0 ELSE 1 - g[j - 1]
      BY <3>1
    <3> HIDE DEF st
    <3> QED
      BY <1>3, <2>2, <3>2
  <2> QED
    BY <2>1, <2>2
<1> DEFINE O == CHOOSE o : o = [j \in i .. Len(t) |-> IF j = i \/ t[j] # Back THEN 0 ELSE 1 - o[j - 1]]
<1>5. Odd(t, i) = O
  BY DEF Odd
<1>6. O = [j \in i .. Len(t) |-> IF j = i \/ t[j] # Back THEN 0 ELSE 1 - O[j - 1]]
  <2> HIDE DEF st
  <2>1. g = [j \in i .. Len(t) |-> g[j]]
    BY <1>3
  <2>2. g = [j \in i .. Len(t) |-> IF j = i \/ t[j] # Back THEN 0 ELSE 1 - g[j - 1]]
    BY <1>4, <2>1
  <2> QED
    BY <2>2
<1> HIDE DEF O, st
<1>7. \A j \in i .. Len(t) : O[j] = IF j = i \/ t[j] # Back THEN 0 ELSE 1 - O[j - 1]
  BY <1>6, Zenon
<1> DEFINE T == {n \in 0 .. Len(t) : n \in i .. Len(t) => O[n] \in {0, 1}}
<1>8. ASSUME NEW n \in 1 .. Len(t), n - 1 \in T  PROVE n \in T
  <2>1. n \in i .. Len(t) => n = i \/ n - 1 \in i .. Len(t)
    BY <1>1
  <2>2. n \in i + 1 .. Len(t) => O[n - 1] \in {0, 1}
    BY <1>1, <1>8
  <2>3. n \in i .. Len(t) => O[n] \in {0, 1}
    BY <1>1, <1>7, <2>1, <2>2
  <2> HIDE DEF T
  <2> QED
    BY <1>1, <2>3 DEF T
<1>9. 0 \in T
  BY <1>1
<1>10. \A n \in 0 .. Len(t) : n \in T
  <2> HIDE DEF T
  <2> QED
    BY ONLY <1>1, <1>8, <1>9, UpTo
<1>11. \A j \in i .. Len(t) : O[j] \in {0, 1}
  BY <1>1, <1>10
<1>12. O \in [i .. Len(t) -> {0, 1}]
  BY <1>6, <1>11
<1> HIDE DEF T
<1> QED
  BY <1>1, <1>5, <1>7, <1>12

(* What a character of a literal adds to what was said.                    *)
Says(t, i, j) == IF Odd(t, i)[j - 1] = 1 THEN Escaped(t[j]) ELSE t[j]

LEMMA SaidFacts ==
  ASSUME NEW t \in Seq(Chars), NEW i \in 1 .. Len(t)
  PROVE  /\ Said(t, i) \in [i .. Len(t) -> Seq(Signs)]
         /\ Said(t, i)[i] = <<>>
         /\ \A j \in i + 1 .. Len(t) :
              /\ Odd(t, i)[j] = 1 => Said(t, i)[j] = Said(t, i)[j - 1]
              /\ Odd(t, i)[j] # 1 => Said(t, i)[j] = Append(Said(t, i)[j - 1], Says(t, i, j))
              /\ Says(t, i, j) \in Signs
<1>1. /\ Len(t) \in Nat /\ i \in Nat /\ i <= Len(t) /\ i \in i .. Len(t)
      /\ \A j \in i + 1 .. Len(t) : j \in i .. Len(t) /\ j # i /\ j - 1 \in i .. Len(t)
      /\ \A j \in i .. Len(t) : j = i \/ j \in i + 1 .. Len(t)
      /\ \A j \in i .. Len(t) : t[j] \in Chars
  BY TextFacts
<1>2. \A j \in i .. Len(t) : Says(t, i, j) \in Signs
  BY <1>1 DEF Says, Escaped, Escapes, Signs
<1> DEFINE odd == Odd(t, i)
           Add(s, j) == IF odd[j] = 1 THEN s ELSE Append(s, Says(t, i, j))
           st == [x \in Seq(Signs) \X (i .. Len(t)) |-> Add(x[1], x[2])]
           Rule(s, j) == IF j = i THEN <<>> ELSE Add(s, j)
<1>3. \A s \in Seq(Signs), j \in i .. Len(t) : Add(s, j) \in Seq(Signs)
  <2> TAKE s \in Seq(Signs), j \in i .. Len(t)
  <2>1. Says(t, i, j) \in Signs
    BY <1>2
  <2> QED
    BY <2>1
<1> HIDE DEF odd
<1>4. st \in [Seq(Signs) \X (i .. Len(t)) -> Seq(Signs)]
  <2> HIDE DEF Add
  <2> QED
    BY <1>3
<1>5. PICK g \in [i .. Len(t) -> Seq(Signs)] :
        \A n \in i .. Len(t) : g[n] = IF n = i THEN <<>> ELSE st[<<g[n - 1], n>>]
  <2>1. <<>> \in Seq(Signs)
    OBVIOUS
  <2> HIDE DEF st
  <2>2. Ascends(i, Len(t), Seq(Signs), <<>>, st) # {}
    BY <1>1, <1>4, <2>1, Upwards, Zenon
  <2> QED
    BY <2>2 DEF Ascends
<1>6. \A j \in i .. Len(t) : g[j] = Rule(g[j - 1], j)
  <2> TAKE j \in i .. Len(t)
  <2> HIDE DEF Add
  <2>1. CASE j = i
    BY <1>5, <2>1
  <2>2. CASE j # i
    <3>1. g[j - 1] \in Seq(Signs)
      BY <1>1, <1>5, <2>2
    <3>2. st[<<g[j - 1], j>>] = Add(g[j - 1], j)
      BY <3>1
    <3> HIDE DEF st
    <3> QED
      BY <1>5, <2>2, <3>2
  <2> QED
    BY <2>1, <2>2
<1> DEFINE S == CHOOSE s : s = [j \in i .. Len(t) |-> Rule(s[j - 1], j)]
<1>7. Said(t, i) = S
  BY Zenon DEF Said, Says, odd
<1> HIDE DEF Add
<1>8. S = [j \in i .. Len(t) |-> Rule(S[j - 1], j)]
  <2> HIDE DEF st, Rule
  <2>1. g = [j \in i .. Len(t) |-> g[j]]
    BY <1>5
  <2>2. g = [j \in i .. Len(t) |-> Rule(g[j - 1], j)]
    BY <1>6, <2>1
  <2> QED
    BY <2>2
<1> HIDE DEF S, st
<1>9. \A j \in i .. Len(t) : S[j] = Rule(S[j - 1], j)
  BY <1>8, Zenon
<1>10. S[i] = <<>> /\ \A j \in i + 1 .. Len(t) : S[j] = Add(S[j - 1], j)
  BY <1>1, <1>9
<1> DEFINE T == {n \in 0 .. Len(t) : n \in i .. Len(t) => S[n] \in Seq(Signs)}
<1>11. ASSUME NEW n \in 1 .. Len(t), n - 1 \in T  PROVE n \in T
  <2>1. n \in i .. Len(t) => n = i \/ (n \in i + 1 .. Len(t) /\ n - 1 \in i .. Len(t))
    BY <1>1
  <2>2. n \in i + 1 .. Len(t) => S[n - 1] \in Seq(Signs)
    BY <1>1, <1>11
  <2>3. n \in i .. Len(t) => S[n] \in Seq(Signs)
    <3>1. <<>> \in Seq(Signs)
      OBVIOUS
    <3> HIDE DEF T, Rule
    <3> QED
      BY <1>1, <1>3, <1>10, <2>1, <2>2, <3>1
  <2> HIDE DEF T
  <2> QED
    BY <1>1, <2>3 DEF T
<1>12. 0 \in T
  BY <1>1
<1>13. \A n \in 0 .. Len(t) : n \in T
  <2> HIDE DEF T
  <2> QED
    BY ONLY <1>1, <1>11, <1>12, UpTo
<1>14. \A j \in i .. Len(t) : S[j] \in Seq(Signs)
  BY <1>1, <1>13
<1>15. S \in [i .. Len(t) -> Seq(Signs)]
  <2> HIDE DEF Rule
  <2> QED
    BY <1>8, <1>14
<1> HIDE DEF T, Rule
<1>16. \A j \in i + 1 .. Len(t) :
         /\ odd[j] = 1 => S[j] = S[j - 1]
         /\ odd[j] # 1 => S[j] = Append(S[j - 1], Says(t, i, j))
  BY <1>10 DEF Add
<1> QED
  BY <1>1, <1>2, <1>7, <1>10, <1>15, <1>16, Zenon DEF odd

GoodPiece(t, i, p) == p.says \in Seq(Toks) /\ p.next \in i + 1 .. Len(t) + 1

LEMMA PieceFacts ==
  ASSUME NEW says, NEW next
  PROVE  Piece(says, next).says = says /\ Piece(says, next).next = next
BY DEF Piece

LEMMA OneToken ==
  ASSUME NEW t, NEW i, NEW k \in Toks, NEW n \in i + 1 .. Len(t) + 1
  PROVE  GoodPiece(t, i, Piece(<<k>>, n))
<1>1. <<k>> \in Seq(Toks)
  OBVIOUS
<1> QED
  BY <1>1, PieceFacts DEF GoodPiece

LEMMA NoToken ==
  ASSUME NEW t, NEW i, NEW n \in i + 1 .. Len(t) + 1
  PROVE  GoodPiece(t, i, Piece(<<>>, n))
<1>1. <<>> \in Seq(Toks)
  OBVIOUS
<1> QED
  BY <1>1, PieceFacts DEF GoodPiece

LEMMA BadFacts ==
  /\ Bad \in Toks /\ Bad.kind = "bad"
  /\ \A cut \in BOOLEAN : Told("bad", <<>>, cut) \in Toks /\ Told("bad", <<>>, cut).kind = "bad"
<1>1. <<>> \in Seq(Signs) /\ "bad" \in Kinds
  BY DEF Kinds
<1>2. \A cut \in BOOLEAN : Told("bad", <<>>, cut) \in Toks /\ Told("bad", <<>>, cut).kind = "bad"
  BY <1>1, ToldFacts
<1> QED
  BY <1>2 DEF Bad, Meant

LEMMA WrongGood ==
  ASSUME NEW t \in Seq(Chars), NEW i \in 1 .. Len(t)
  PROVE  GoodPiece(t, i, Wrong(t))
<1>1. Len(t) + 1 \in i + 1 .. Len(t) + 1
  BY TextFacts
<1> QED
  BY <1>1, BadFacts, OneToken DEF Wrong

(* A run of characters: one token.                                         *)
LEMMA RunGood ==
  ASSUME NEW t \in Seq(Chars), NEW i \in 1 .. Len(t), NEW set, NUL \notin set, t[i] \in set,
         NEW j, j = Longest(t, i, set)
  PROVE  j \in i + 1 .. Len(t) + 1 /\ SubSeq(t, i, j - 1) \in Seq(Signs)
<1>1. /\ Len(t) \in Nat /\ i \in Nat /\ i <= Len(t) /\ i \in 1 .. Len(t) + 1 /\ i >= 1
      /\ Sign(t, i) = t[i]
  BY TextFacts
<1>2. j \in i .. Len(t) + 1 /\ Sign(t, j) \notin set
  BY <1>1, LongestFacts
<1>3. j # i
  BY <1>1, <1>2
<1>4. j \in i + 1 .. Len(t) + 1 /\ j - 1 \in Nat /\ j - 1 <= Len(t)
  BY <1>1, <1>2, <1>3
<1>5. \A a, b \in Nat : 1 <= a /\ b <= Len(t) => SubSeq(t, a, b) \in Seq(Signs)
  BY TextFacts
<1> QED
  BY <1>1, <1>4, <1>5

LEMMA SetFacts ==
  /\ NUL \notin Digits /\ NUL \notin IdCont /\ NUL \notin IdStart /\ NUL \notin Chars
  /\ NUL \notin {" ", "tab"} /\ IdStart \subseteq IdCont /\ NUL \notin Blanks \cup {NL}
  /\ NUL \notin Puncts /\ NUL \notin DOMAIN Escapes /\ NUL \notin {"'", "*", "/", "=", INC, Quote, Back, NL}
<1>1. NUL = "nul" /\ INC = "include" /\ NL = "nl" /\ Quote = "\"" /\ Back = "\\"
  BY DEF NUL, INC, NL, Quote, Back
<1>2. NUL \notin Digits /\ NUL \notin IdStart /\ NUL \notin Blanks /\ NUL \notin Puncts
  BY <1>1 DEF Digits, IdStart, Blanks, Puncts
<1>3. DOMAIN Escapes = {"n", Back, Quote}
  BY DEF Escapes
<1>4. "nul" # "include" /\ "nul" # "nl" /\ "nul" # "\"" /\ "nul" # "\\" /\ "nul" # "n" /\ "nul" # "'"
      /\ "nul" # "*" /\ "nul" # "/" /\ "nul" # "=" /\ "nul" # " " /\ "nul" # "tab"
  OBVIOUS
<1> QED
  BY <1>1, <1>2, <1>3, <1>4, NulIsNoChar DEF IdCont

LEMMA WordGood ==
  ASSUME NEW t \in Seq(Chars), NEW i \in 1 .. Len(t), t[i] \in IdStart
  PROVE  GoodPiece(t, i, WordAt(t, i))
<1> DEFINE j == Longest(t, i, IdCont)
<1>1. NUL \notin IdCont /\ t[i] \in IdCont
  BY SetFacts
<1>2. j \in i + 1 .. Len(t) + 1 /\ SubSeq(t, i, j - 1) \in Seq(Signs)
  BY <1>1, RunGood
<1>3. Told("string", SubSeq(t, i, j - 1), j - i >= MaxWord) \in Toks
  <2>1. "string" \in Kinds /\ (j - i >= MaxWord) \in BOOLEAN
    BY DEF Kinds
  <2> HIDE DEF j
  <2>2. PICK b \in BOOLEAN : b = (j - i >= MaxWord)
    BY <2>1
  <2> QED
    BY <1>2, <2>1, <2>2, ToldFacts, Zenon
<1> HIDE DEF j
<1>4. GoodPiece(t, i, Piece(<<Told("string", SubSeq(t, i, j - 1), j - i >= MaxWord)>>, j))
  BY <1>2, <1>3, OneToken, Zenon
<1> QED
  BY <1>4, Zenon DEF WordAt, j

LEMMA NumberGood ==
  ASSUME NEW t \in Seq(Chars), NEW i \in 1 .. Len(t), t[i] \in Digits
  PROVE  GoodPiece(t, i, Run("value", t, i, Digits))
<1> DEFINE j == Longest(t, i, Digits)
<1>2. j \in i + 1 .. Len(t) + 1 /\ SubSeq(t, i, j - 1) \in Seq(Signs)
  BY SetFacts, RunGood
<1>3. Meant("value", SubSeq(t, i, j - 1)) \in Toks
  <2>1. "value" \in Kinds /\ FALSE \in BOOLEAN
    BY DEF Kinds
  <2> HIDE DEF j
  <2> QED
    BY <1>2, <2>1, ToldFacts, Zenon DEF Meant
<1> HIDE DEF j
<1>4. GoodPiece(t, i, Piece(<<Meant("value", SubSeq(t, i, j - 1))>>, j))
  BY <1>2, <1>3, OneToken, Zenon
<1> QED
  BY <1>4, Zenon DEF Run, j

LEMMA BlockCommentGood ==
  ASSUME NEW t \in Seq(Chars), NEW i \in 1 .. Len(t)
  PROVE  GoodPiece(t, i, BlockCommentAt(t, i))
<1> DEFINE ends == {j \in i + 4 .. Len(t) + 1 : t[j - 2] = "*" /\ t[j - 1] = "/"}
<1>0. Len(t) \in Nat /\ i \in Nat
  BY TextFacts
<1>1. ends \in SUBSET Nat
  BY <1>0
<1>2. CASE ends = {}
  BY <1>2, WrongGood DEF BlockCommentAt
<1>3. CASE ends # {}
  <2>1. Min(ends) \in ends
    <3> HIDE DEF ends
    <3> QED
      BY <1>1, <1>3, MinFacts
  <2>2. Min(ends) \in i + 1 .. Len(t) + 1
    <3>1. \A j \in ends : j \in i + 1 .. Len(t) + 1
      BY <1>0
    <3> HIDE DEF ends
    <3> QED
      BY <2>1, <3>1
  <2>3. BlockCommentAt(t, i) = Piece(<<>>, Min(ends))
    BY <1>3 DEF BlockCommentAt
  <2> HIDE DEF ends
  <2> QED
    BY <2>2, <2>3, NoToken
<1> QED
  BY <1>2, <1>3

LEMMA IncludeGood ==
  ASSUME NEW t \in Seq(Chars), NEW i \in 1 .. Len(t), i < Len(t), NEW others,
         \A f \in DOMAIN others : others[f] \in Seq(Toks)
  PROVE  GoodPiece(t, i, IncludeAt(t, i, others))
<1> DEFINE opens  == Longest(t, i + 1, {" ", "tab"})
           closes == {j \in opens + 1 .. Len(t) : t[j] = Quote
                        /\ \A k \in opens + 1 .. j - 1 : t[k] # NL}
           name   == SubSeq(t, opens + 1, Min(closes) - 1)
           wrong  == \/ Sign(t, opens) # Quote \/ closes = {}
                     \/ Min(closes) - opens > MaxWord \/ name \notin DOMAIN others
<1>0. Len(t) \in Nat /\ i \in Nat /\ i + 1 \in 1 .. Len(t) + 1
  BY TextFacts
<1>1. opens \in i + 1 .. Len(t) + 1
  BY <1>0, LongestFacts, SetFacts
<1>2. IncludeAt(t, i, others) = IF wrong THEN Wrong(t) ELSE Piece(others[name], Min(closes) + 1)
  BY DEF IncludeAt
<1>3. CASE wrong
  <2> HIDE DEF wrong
  <2> QED
    BY <1>2, <1>3, WrongGood
<1>4. CASE ~wrong
  <2>1. closes # {} /\ name \in DOMAIN others
    BY <1>4
  <2>2. Min(closes) \in closes
    <3>1. closes \in SUBSET Nat
      <4> HIDE DEF opens
      <4> QED
        BY <1>0, <1>1
    <3> HIDE DEF closes
    <3> QED
      BY <2>1, <3>1, MinFacts
  <2>3. Min(closes) + 1 \in i + 1 .. Len(t) + 1
    <3>1. \A j \in closes : j + 1 \in i + 1 .. Len(t) + 1
      <4> HIDE DEF opens
      <4> QED
        BY <1>0, <1>1
    <3> HIDE DEF closes
    <3> QED
      BY <2>2, <3>1
  <2> HIDE DEF wrong, name, closes
  <2> QED
    BY <1>2, <1>4, <2>1, <2>3, PieceFacts DEF GoodPiece
<1> HIDE DEF wrong
<1> QED
  BY <1>3, <1>4

LEMMA CharGood ==
  ASSUME NEW t \in Seq(Chars), NEW i \in 1 .. Len(t)
  PROVE  GoodPiece(t, i, CharAt(t, i))
<1>0. /\ Len(t) \in Nat /\ i \in Nat
      /\ \A j \in Nat : Sign(t, j) # NUL => j \in 1 .. Len(t) /\ t[j] \in Signs /\ Sign(t, j) = t[j]
      /\ "'" # NUL
  <2>1. \A j \in Nat : Sign(t, j) # NUL => j \in 1 .. Len(t)
    BY TextFacts
  <2>2. "'" # NUL
    BY SetFacts
  <2> QED
    BY <2>1, <2>2, TextFacts
<1>1. ASSUME NEW x \in Signs, NEW n \in {i + 3, i + 4}, n - 1 <= Len(t)
      PROVE  GoodPiece(t, i, Piece(<<Meant("char", <<x>>)>>, n))
  <2>1. "char" \in Kinds /\ <<x>> \in Seq(Signs) /\ FALSE \in BOOLEAN
    BY DEF Kinds
  <2>2. Meant("char", <<x>>) \in Toks
    BY <2>1, ToldFacts, Zenon DEF Meant
  <2>3. n \in i + 1 .. Len(t) + 1
    BY <1>0, <1>1
  <2> QED
    BY <2>2, <2>3, OneToken, Zenon
<1>2. CASE Sign(t, i + 1) = Back /\ Sign(t, i + 2) \in DOMAIN Escapes /\ Sign(t, i + 3) = "'"
  <2>1. i + 3 \in 1 .. Len(t) /\ t[i + 2] \in Signs
    <3>1. i + 3 \in Nat /\ i + 2 \in Nat /\ Sign(t, i + 3) # NUL /\ Sign(t, i + 2) # NUL
      <4>1. "'" # NUL /\ \A x \in DOMAIN Escapes : x # NUL
        BY SetFacts
      <4> QED
        BY <1>0, <1>2, <4>1
    <3> QED
      BY <1>0, <3>1
  <2>2. Escaped(t[i + 2]) \in Signs
    BY <2>1 DEF Escaped, Escapes, Signs
  <2>3. CharAt(t, i) = Piece(<<Meant("char", <<Escaped(t[i + 2])>>)>>, i + 4)
    BY <1>2 DEF CharAt
  <2> QED
    BY <1>0, <1>1, <2>1, <2>2, <2>3
<1>3. CASE Sign(t, i + 1) # Back /\ Sign(t, i + 2) = "'"
  <2>1. i + 2 \in 1 .. Len(t) /\ i + 1 \in 1 .. Len(t)
    BY <1>0, <1>3
  <2>2. t[i + 1] \in Signs
    BY <2>1, TextFacts
  <2>3. CharAt(t, i) = Piece(<<Meant("char", <<t[i + 1]>>)>>, i + 3)
    BY <1>3 DEF CharAt
  <2> QED
    BY <1>0, <1>1, <2>1, <2>2, <2>3
<1>4. CASE \/ Sign(t, i + 1) = Back /\ ~(Sign(t, i + 2) \in DOMAIN Escapes /\ Sign(t, i + 3) = "'")
           \/ Sign(t, i + 1) # Back /\ Sign(t, i + 2) # "'"
  <2>1. CharAt(t, i) = Wrong(t)
    BY <1>4 DEF CharAt
  <2> QED
    BY <2>1, WrongGood
<1> QED
  BY <1>2, <1>3, <1>4

(* Where a literal that starts at i ends, and whether it is one.           *)
StringClosers(t, i) == {j \in i + 1 .. Len(t) : t[j] = Quote /\ Odd(t, i)[j - 1] = 0}
StringLast(t, i) == IF StringClosers(t, i) = {} THEN Len(t) ELSE Min(StringClosers(t, i))
StringFine(t, i) ==
  /\ StringClosers(t, i) # {} /\ Len(Said(t, i)[StringLast(t, i) - 1]) < MaxLiteral
  /\ \A k \in i + 1 .. StringLast(t, i) - 1 : Odd(t, i)[k] = 1 => t[k + 1] \in DOMAIN Escapes
StringCut(t, i) == \E k \in i .. StringLast(t, i) : t[k] = NL

LEMMA StringIs ==
  ASSUME NEW t, NEW i
  PROVE  StringAt(t, i) =
           Piece(<<IF StringFine(t, i)
                   THEN Told("str_literal", Said(t, i)[StringLast(t, i) - 1], StringCut(t, i))
                   ELSE Told("bad", <<>>, StringCut(t, i))>>,
                 StringLast(t, i) + 1)
BY Zenon DEF StringAt, StringFine, StringCut, StringLast, StringClosers

LEMMA StringLastFacts ==
  ASSUME NEW t \in Seq(Chars), NEW i \in 1 .. Len(t), NEW l, l = StringLast(t, i)
  PROVE  /\ l \in i .. Len(t) /\ Len(t) \in Nat /\ i \in Nat
         /\ StringClosers(t, i) # {} =>
              /\ l \in i + 1 .. Len(t) /\ t[l] = Quote /\ Odd(t, i)[l - 1] = 0
              /\ \A j \in i + 1 .. l - 1 : ~(t[j] = Quote /\ Odd(t, i)[j - 1] = 0)
         /\ StringClosers(t, i) = {} =>
              l = Len(t) /\ \A j \in i + 1 .. Len(t) : ~(t[j] = Quote /\ Odd(t, i)[j - 1] = 0)
<1>0. Len(t) \in Nat /\ i \in Nat /\ i <= Len(t)
  BY TextFacts
<1>1. CASE StringClosers(t, i) = {}
  BY <1>0, <1>1 DEF StringLast, StringClosers
<1>2. CASE StringClosers(t, i) # {}
  <2>1. StringClosers(t, i) \in SUBSET Nat
    BY <1>0 DEF StringClosers
  <2>2. l \in StringClosers(t, i) /\ \A y \in StringClosers(t, i) : l <= y
    BY <1>2, <2>1, MinFacts DEF StringLast
  <2>3. l \in i + 1 .. Len(t) /\ t[l] = Quote /\ Odd(t, i)[l - 1] = 0
    BY <2>2 DEF StringClosers
  <2>4. ASSUME NEW j \in i + 1 .. l - 1  PROVE ~(t[j] = Quote /\ Odd(t, i)[j - 1] = 0)
    <3>1. j \in i + 1 .. Len(t) /\ ~(l <= j)
      BY <1>0, <2>3
    <3> QED
      BY <2>2, <3>1 DEF StringClosers
  <2> QED
    BY <1>0, <1>2, <2>3, <2>4
<1> QED
  BY <1>1, <1>2

LEMMA StringGood ==
  ASSUME NEW t \in Seq(Chars), NEW i \in 1 .. Len(t)
  PROVE  GoodPiece(t, i, StringAt(t, i))
<1>1. PICK l \in i .. Len(t) : l = StringLast(t, i)
  BY StringLastFacts
<1>2. l + 1 \in i + 1 .. Len(t) + 1
  BY <1>1, TextFacts
<1>3. PICK b \in BOOLEAN : b = StringCut(t, i)
  BY DEF StringCut
<1>4. Told("bad", <<>>, b) \in Toks
  BY BadFacts
<1>5. ASSUME StringFine(t, i)  PROVE Told("str_literal", Said(t, i)[l - 1], b) \in Toks
  <2>1. l \in i + 1 .. Len(t)
    BY <1>1, <1>5, StringLastFacts DEF StringFine
  <2>2. l - 1 \in i .. Len(t)
    BY <2>1, TextFacts
  <2>3. Said(t, i)[l - 1] \in Seq(Signs)
    BY <2>2, SaidFacts
  <2>4. "str_literal" \in Kinds
    BY DEF Kinds
  <2> QED
    BY <2>3, <2>4, ToldFacts
<1>6. PICK k \in Toks :
        k = IF StringFine(t, i) THEN Told("str_literal", Said(t, i)[l - 1], b) ELSE Told("bad", <<>>, b)
  BY <1>4, <1>5
<1>7. StringAt(t, i) = Piece(<<k>>, l + 1)
  BY <1>1, <1>3, <1>6, StringIs, Zenon
<1> QED
  BY <1>2, <1>6, <1>7, OneToken, Zenon

LEMMA PunctGood ==
  ASSUME NEW t \in Seq(Chars), NEW i \in 1 .. Len(t)
  PROVE  GoodPiece(t, i, PunctAt(t, i))
<1>0. Len(t) \in Nat /\ i \in Nat /\ i <= Len(t) /\ t[i] \in Signs
  BY TextFacts
<1>1. "punct" \in Kinds /\ FALSE \in BOOLEAN
  BY DEF Kinds
<1>2. CASE t[i] = "=" /\ Sign(t, i + 1) = "="
  <2>1. i + 1 \in 1 .. Len(t)
    <3>1. Sign(t, i + 1) # NUL /\ i + 1 \in Nat
      <4>1. "=" # NUL
        BY SetFacts
      <4> QED
        BY <1>0, <1>2, <4>1
    <3> QED
      BY <3>1, TextFacts
  <2>2. <<"=", "=">> \in Seq(Signs) /\ i + 2 \in i + 1 .. Len(t) + 1
    BY <1>0, <1>2, <2>1
  <2>3. Meant("punct", <<"=", "=">>) \in Toks
    BY <1>1, <2>2, ToldFacts, Zenon DEF Meant
  <2>4. PunctAt(t, i) = Piece(<<Meant("punct", <<"=", "=">>)>>, i + 2)
    BY <1>2 DEF PunctAt
  <2> QED
    BY <2>2, <2>3, <2>4, OneToken, Zenon
<1>3. CASE ~(t[i] = "=" /\ Sign(t, i + 1) = "=")
  <2>2. <<t[i]>> \in Seq(Signs) /\ i + 1 \in i + 1 .. Len(t) + 1
    BY <1>0
  <2>3. Meant("punct", <<t[i]>>) \in Toks
    BY <1>1, <2>2, ToldFacts, Zenon DEF Meant
  <2>4. PunctAt(t, i) = Piece(<<Meant("punct", <<t[i]>>)>>, i + 1)
    BY <1>3 DEF PunctAt
  <2> QED
    BY <2>2, <2>3, <2>4, OneToken, Zenon
<1> QED
  BY <1>2, <1>3

(* Each character begins one kind of piece.                                *)
LEMMA ClassesApart ==
  ASSUME NEW x
  PROVE  /\ x \in Blanks \cup {NL} => /\ x # "/" /\ x # INC /\ x \notin Digits /\ x # "'" /\ x # Quote
                                      /\ x \notin IdStart /\ x \notin Puncts
         /\ x = "/" => x # INC /\ x \notin Digits /\ x # "'" /\ x # Quote /\ x \notin IdStart
         /\ x = INC => x \notin Digits /\ x # "'" /\ x # Quote /\ x \notin Puncts
         /\ x \in Digits => x # "'" /\ x # Quote /\ x \notin IdStart /\ x \notin Puncts
         /\ x = "'" => x # Quote /\ x \notin IdStart /\ x \notin Puncts
         /\ x = Quote => x \notin IdStart /\ x \notin Puncts
         /\ x \in IdStart => x \notin Puncts
BY DEF Blanks, NL, INC, Digits, Quote, IdStart, Puncts

Comment(t, i, second) == t[i] = "/" /\ Sign(t, i + 1) = second

LEMMA PieceIs ==
  ASSUME NEW t, NEW i, NEW others, NEW p, p = PieceAt(t, i, others)
  PROVE  /\ t[i] \in Blanks \cup {NL} => p = Piece(<<>>, i + 1)
         /\ Comment(t, i, "/") => p = Piece(<<>>, Longest(t, i, Chars \ {NL}))
         /\ Comment(t, i, "*") => p = BlockCommentAt(t, i)
         /\ IncludeWord(t, i) => p = IncludeAt(t, i, others)
         /\ t[i] \in Digits => p = Run("value", t, i, Digits)
         /\ t[i] = "'" => p = CharAt(t, i)
         /\ t[i] = Quote => p = StringAt(t, i)
         /\ t[i] \in IdStart /\ ~IncludeWord(t, i) => p = WordAt(t, i)
         /\ t[i] \in Puncts /\ ~Comment(t, i, "/") /\ ~Comment(t, i, "*") => p = PunctAt(t, i)
         /\ (/\ t[i] \notin Blanks \cup {NL} /\ t[i] \notin Puncts
             /\ t[i] \notin Digits \cup IdStart \cup {"'", Quote}) => p = Wrong(t)
<1> DEFINE G1 == t[i] \in Blanks \cup {NL}
           G2 == Comment(t, i, "/")
           G3 == Comment(t, i, "*")
           G4 == IncludeWord(t, i)
           G5 == t[i] \in Digits
           G6 == t[i] = "'"
           G7 == t[i] = Quote
           G8 == t[i] \in IdStart
           G9 == t[i] \in Puncts
<1>1. p = CASE G1 -> Piece(<<>>, i + 1)
            [] G2 -> Piece(<<>>, Longest(t, i, Chars \ {NL}))
            [] G3 -> BlockCommentAt(t, i)
            [] G4 -> IncludeAt(t, i, others)
            [] G5 -> Run("value", t, i, Digits)
            [] G6 -> CharAt(t, i)
            [] G7 -> StringAt(t, i)
            [] G8 /\ ~G4 -> WordAt(t, i)
            [] G9 /\ ~G2 /\ ~G3 -> PunctAt(t, i)
            [] OTHER -> Wrong(t)
  BY Zenon DEF PieceAt, Comment
<1>2. /\ G1 => ~G2 /\ ~G3 /\ ~G4 /\ ~G5 /\ ~G6 /\ ~G7 /\ ~G8 /\ ~G9
      /\ G2 => ~G3 /\ ~G4 /\ ~G5 /\ ~G6 /\ ~G7 /\ ~G8
      /\ G3 => ~G4 /\ ~G5 /\ ~G6 /\ ~G7 /\ ~G8
      /\ G4 => ~G5 /\ ~G6 /\ ~G7 /\ ~G9
      /\ G5 => ~G6 /\ ~G7 /\ ~G8 /\ ~G9
      /\ G6 => ~G7 /\ ~G8 /\ ~G9
      /\ G7 => ~G8 /\ ~G9
      /\ G8 => ~G9
  <2>1. "/" # "*"
    OBVIOUS
  <2> QED
    BY ClassesApart, <2>1, Zenon DEF Comment, IncludeWord
<1>3. G4 => G8
  BY DEF IncludeWord, IdStart
<1>4. ~G9 => ~G2 /\ ~G3
  BY DEF Comment, Puncts
<1>5. t[i] \notin Digits \cup IdStart \cup {"'", Quote} => ~G5 /\ ~G8 /\ ~G6 /\ ~G7
  OBVIOUS
<1> HIDE DEF G1, G2, G3, G4, G5, G6, G7, G8, G9
<1>6. /\ G1 => p = Piece(<<>>, i + 1)
      /\ G2 => p = Piece(<<>>, Longest(t, i, Chars \ {NL}))
      /\ G3 => p = BlockCommentAt(t, i)
      /\ G4 => p = IncludeAt(t, i, others)
      /\ G5 => p = Run("value", t, i, Digits)
      /\ G6 => p = CharAt(t, i)
      /\ G7 => p = StringAt(t, i)
      /\ G8 /\ ~G4 => p = WordAt(t, i)
      /\ G9 /\ ~G2 /\ ~G3 => p = PunctAt(t, i)
      /\ ~G1 /\ ~G5 /\ ~G8 /\ ~G6 /\ ~G7 /\ ~G9 => p = Wrong(t)
  BY <1>1, <1>2, <1>3, <1>4
<1>7. ~G1 /\ ~G9 /\ t[i] \notin Digits \cup IdStart \cup {"'", Quote} => p = Wrong(t)
  BY <1>5, <1>6
<1>8. /\ G1 => p = Piece(<<>>, i + 1)
      /\ G2 => p = Piece(<<>>, Longest(t, i, Chars \ {NL}))
      /\ G4 => p = IncludeAt(t, i, others)
      /\ G5 => p = Run("value", t, i, Digits)
      /\ G6 => p = CharAt(t, i)
      /\ G7 => p = StringAt(t, i)
      /\ G8 /\ ~G4 => p = WordAt(t, i)
  BY <1>6
<1>9. /\ G3 => p = BlockCommentAt(t, i)
      /\ G9 /\ ~G2 /\ ~G3 => p = PunctAt(t, i)
  BY <1>6
<1>10. /\ t[i] \in Blanks \cup {NL} => p = Piece(<<>>, i + 1)
       /\ Comment(t, i, "/") => p = Piece(<<>>, Longest(t, i, Chars \ {NL}))
       /\ IncludeWord(t, i) => p = IncludeAt(t, i, others)
       /\ t[i] \in Digits => p = Run("value", t, i, Digits)
       /\ t[i] = "'" => p = CharAt(t, i)
       /\ t[i] = Quote => p = StringAt(t, i)
       /\ t[i] \in IdStart /\ ~IncludeWord(t, i) => p = WordAt(t, i)
  BY <1>8, Zenon DEF G1, G2, G4, G5, G6, G7, G8
<1>11. Comment(t, i, "*") => p = BlockCommentAt(t, i)
  BY <1>9 DEF G3
<1>12. t[i] \in Puncts /\ ~Comment(t, i, "/") /\ ~Comment(t, i, "*") => p = PunctAt(t, i)
  BY <1>9 DEF G2, G3, G9
<1>13. (/\ t[i] \notin Blanks \cup {NL} /\ t[i] \notin Puncts
        /\ t[i] \notin Digits \cup IdStart \cup {"'", Quote}) => p = Wrong(t)
  BY <1>7, Zenon DEF G1, G9
<1> QED
  BY ONLY <1>10, <1>11, <1>12, <1>13

(* The meanings others are taken from.                                     *)
Sound(others) == \A f \in DOMAIN others : others[f] \in Seq(Toks)

LEMMA PieceGood ==
  ASSUME NEW t \in Seq(Chars), NEW i \in 1 .. Len(t), NEW others, Sound(others)
  PROVE  GoodPiece(t, i, PieceAt(t, i, others))
<1>0. /\ Len(t) \in Nat /\ i \in Nat /\ i <= Len(t) /\ i + 1 \in i + 1 .. Len(t) + 1
      /\ t[i] \in Chars
  BY TextFacts
<1>1. PICK p : p = PieceAt(t, i, others)
  OBVIOUS
<1>2. CASE t[i] \in Blanks \cup {NL}
  <2>1. p = Piece(<<>>, i + 1)
    BY <1>1, <1>2, PieceIs, Zenon
  <2> QED
    BY <1>0, <1>1, <2>1, NoToken
<1>3. CASE Comment(t, i, "/")
  <2>1. p = Piece(<<>>, Longest(t, i, Chars \ {NL}))
    BY <1>1, <1>3, PieceIs, Zenon
  <2>2. t[i] \in Chars \ {NL} /\ NUL \notin Chars \ {NL}
    <3>1. "/" # NL
      BY DEF NL
    <3> QED
      BY <1>0, <1>3, <3>1, NulIsNoChar DEF Comment
  <2>3. Longest(t, i, Chars \ {NL}) \in i + 1 .. Len(t) + 1
    BY <2>2, RunGood
  <2> QED
    BY <1>1, <2>1, <2>3, NoToken
<1>4. CASE Comment(t, i, "*")
  <2>1. p = BlockCommentAt(t, i)
    BY <1>1, <1>4, PieceIs
  <2> QED
    BY <1>1, <2>1, BlockCommentGood
<1>5. CASE IncludeWord(t, i)
  <2>1. p = IncludeAt(t, i, others)
    BY <1>1, <1>5, PieceIs, Zenon
  <2>2. i < Len(t)
    BY <1>5 DEF IncludeWord
  <2> QED
    BY <1>1, <2>1, <2>2, IncludeGood DEF Sound
<1>6. CASE t[i] \in Digits
  <2>1. p = Run("value", t, i, Digits)
    BY <1>1, <1>6, PieceIs
  <2> QED
    BY <1>1, <1>6, <2>1, NumberGood
<1>7. CASE t[i] = "'"
  <2>1. p = CharAt(t, i)
    BY <1>1, <1>7, PieceIs
  <2> QED
    BY <1>1, <1>7, <2>1, CharGood
<1>8. CASE t[i] = Quote
  <2>1. p = StringAt(t, i)
    BY <1>1, <1>8, PieceIs
  <2> QED
    BY <1>1, <1>8, <2>1, StringGood
<1>9. CASE t[i] \in IdStart /\ ~IncludeWord(t, i)
  <2>1. p = WordAt(t, i)
    BY <1>1, <1>9, PieceIs
  <2> QED
    BY <1>1, <1>9, <2>1, WordGood
<1>10. CASE t[i] \in Puncts /\ ~Comment(t, i, "/") /\ ~Comment(t, i, "*")
  <2>1. p = PunctAt(t, i)
    BY <1>1, <1>10, PieceIs
  <2> QED
    BY <1>1, <2>1, PunctGood
<1>11. CASE /\ t[i] \notin Blanks \cup {NL} /\ t[i] \notin Digits \cup IdStart \cup {"'", Quote}
            /\ t[i] \notin Puncts
  <2>1. p = Wrong(t)
    BY <1>1, <1>11, PieceIs
  <2> QED
    BY <1>1, <1>11, <2>1, WrongGood
<1>12. t[i] \in Digits \cup IdStart \cup {"'", Quote} =>
         t[i] \in Digits \/ t[i] \in IdStart \/ t[i] = "'" \/ t[i] = Quote
  OBVIOUS
<1> QED
  BY <1>2, <1>3, <1>4, <1>5, <1>6, <1>7, <1>8, <1>9, <1>10, <1>11, <1>12, Zenon

LEMMA ConcatFacts ==
  ASSUME NEW S, NEW a \in Seq(S), NEW b \in Seq(S)
  PROVE  /\ a \o b \in Seq(S) /\ Len(a \o b) = Len(a) + Len(b)
         /\ DOMAIN (a \o b) = 1 .. Len(a) + Len(b) /\ Len(a) \in Nat /\ Len(b) \in Nat
         /\ \A k \in 1 .. Len(a) : (a \o b)[k] = a[k]
         /\ \A k \in 1 .. Len(b) : (a \o b)[Len(a) + k] = b[k]
OBVIOUS

(* What a text means from its places on is told by these equations.        *)
LEMMA FromFacts ==
  ASSUME NEW t \in Seq(Chars), NEW others, Sound(others), NEW M, M = From(t, others)
  PROVE  /\ M \in [1 .. Len(t) + 1 -> Seq(Toks)]
         /\ M[Len(t) + 1] = <<>>
         /\ \A i \in 1 .. Len(t) :
              M[i] = PieceAt(t, i, others).says \o M[PieceAt(t, i, others).next]
<1> DEFINE P(i) == PieceAt(t, i, others)
           N == Len(t) + 1
           Rule(m, i) == IF i > Len(t) THEN <<>> ELSE P(i).says \o m[P(i).next]
           base == [n \in 1 .. N |-> <<>>]
           prev == [n \in 1 .. N |-> N + 1 - P(N + 1 - n).next]
           st   == [x \in Seq(Toks) \X (1 .. N) |->
                      IF x[2] = 1 THEN <<>> ELSE P(N + 1 - x[2]).says \o x[1]]
<1>1. /\ Len(t) \in Nat /\ N \in Nat /\ 1 \in 1 .. N
      /\ \A n \in 1 .. N : n # 1 => N + 1 - n \in 1 .. Len(t)
      /\ \A i \in 1 .. N : N + 1 - i \in 1 .. N /\ N + 1 - (N + 1 - i) = i
      /\ \A i \in 1 .. Len(t) : N + 1 - i # 1 /\ ~(i > Len(t)) /\ i \in 1 .. N
      /\ N + 1 - N = 1 /\ N > Len(t) /\ N \in 1 .. N
      /\ \A i \in 1 .. N : i = N \/ i \in 1 .. Len(t)
  BY TextFacts
<1>0. Len(t) \in Nat /\ N = Len(t) + 1
  BY TextFacts
<1>2. \A i \in 1 .. Len(t) : P(i).says \in Seq(Toks) /\ P(i).next \in i + 1 .. N
  BY PieceGood DEF GoodPiece
<1> HIDE DEF P
<1>3. \A n \in 1 .. N : n \notin {1} => prev[n] \in 1 .. n - 1
  <2> TAKE n \in 1 .. N
  <2> SUFFICES ASSUME n # 1  PROVE prev[n] \in 1 .. n - 1
    OBVIOUS
  <2>1. PICK i \in 1 .. Len(t) : i = N + 1 - n
    BY <1>1
  <2>2. P(i).next \in i + 1 .. N
    BY <1>2
  <2>3. PICK q \in i + 1 .. N : q = P(i).next
    BY <2>2
  <2>4. prev[n] = N + 1 - q
    BY <2>1, <2>3
  <2> HIDE DEF prev
  <2> QED
    BY <1>1, <2>1, <2>3, <2>4
<1>4. st \in [Seq(Toks) \X (1 .. N) -> Seq(Toks)]
  <2>1. ASSUME NEW x \in Seq(Toks) \X (1 .. N)
        PROVE  (IF x[2] = 1 THEN <<>> ELSE P(N + 1 - x[2]).says \o x[1]) \in Seq(Toks)
    <3>1. x[1] \in Seq(Toks) /\ x[2] \in 1 .. N
      OBVIOUS
    <3>2. CASE x[2] = 1
      BY <3>2
    <3>3. CASE x[2] # 1
      <4>1. N + 1 - x[2] \in 1 .. Len(t)
        BY <1>1, <3>1, <3>3
      <4>2. PICK a \in Seq(Toks) : a = P(N + 1 - x[2]).says
        BY <1>2, <4>1
      <4>3. a \o x[1] \in Seq(Toks)
        BY <3>1, <4>2
      <4> QED
        BY <3>3, <4>2, <4>3
    <3> QED
      BY <3>2, <3>3
  <2> HIDE DEF N
  <2> QED
    BY <2>1
<1>5. PICK g \in [1 .. N -> Seq(Toks)] : \A n \in 1 .. N :
        g[n] = IF n \in {1} THEN base[n] ELSE st[<<g[prev[n]], n>>]
  <2>1. \A n \in 1 .. N : n \in {1} => base[n] \in Seq(Toks)
    OBVIOUS
  <2>2. N \in Nat
    BY <1>1
  <2> HIDE DEF N, base, prev, st
  <2>3. Descends(N, Seq(Toks), {1}, base, prev, st) # {}
    BY <1>3, <1>4, <2>1, <2>2, Descending, Zenon
  <2> QED
    BY <2>3 DEF Descends
<1> DEFINE m == [i \in 1 .. N |-> g[N + 1 - i]]
<1>6. m \in [1 .. N -> Seq(Toks)]
  <2> HIDE DEF N
  <2> QED
    BY <1>1, <1>5
<1>7. m[N] = <<>>
  <2>1. base[1] = <<>>
    BY <1>1
  <2>2. m[N] = g[1]
    BY <1>1
  <2> HIDE DEF N, base, prev, st, m
  <2> QED
    BY <1>1, <1>5, <2>1, <2>2
<1>8. \A i \in 1 .. Len(t) : m[i] = P(i).says \o m[P(i).next]
  <2> TAKE i \in 1 .. Len(t)
  <2>1. PICK n \in 1 .. N : n = N + 1 - i /\ N + 1 - n = i /\ n # 1
    BY <1>1
  <2>2. PICK q \in 1 .. N : q = P(i).next
    <3>1. P(i).next \in i + 1 .. N
      BY <1>2
    <3> QED
      BY <1>1, <3>1
  <2>3. prev[n] = N + 1 - q
    BY <2>1, <2>2
  <2>4. m[i] = g[n] /\ m[q] = g[N + 1 - q]
    BY <1>1, <2>1, <2>2
  <2>5. PICK r \in Seq(Toks) : r = g[N + 1 - q]
    <3> HIDE DEF N
    <3> QED
      BY <1>1, <1>5, <2>2
  <2>6. st[<<r, n>>] = P(i).says \o r
    <3> HIDE DEF N
    <3> QED
      BY <2>1, <2>5
  <2>7. g[n] = st[<<r, n>>]
    <3> HIDE DEF N, base, prev, st, m
    <3> QED
      BY <1>5, <2>1, <2>3, <2>5
  <2> HIDE DEF N, base, prev, st, m
  <2> QED
    BY <2>2, <2>4, <2>5, <2>6, <2>7
<1> DEFINE C == CHOOSE f : f = [i \in 1 .. N |-> Rule(f, i)]
<1>9. M = C
  BY Zenon DEF From, P, Rule
<1>10. C = [i \in 1 .. N |-> Rule(C, i)]
  <2> HIDE DEF base, prev, st, m
  <2>1. \A i \in 1 .. N : m[i] = Rule(m, i)
    BY <1>1, <1>7, <1>8
  <2>2. m = [i \in 1 .. N |-> m[i]]
    BY <1>6
  <2>3. m = [i \in 1 .. N |-> Rule(m, i)]
    <3> HIDE DEF Rule, N
    <3> QED
      BY <2>1, <2>2
  <2> HIDE DEF Rule
  <2> QED
    BY <2>3
<1> HIDE DEF C, base, prev, st, m
<1>11. \A i \in 1 .. N : C[i] = Rule(C, i)
  <2> HIDE DEF Rule
  <2> QED
    BY <1>10, Zenon
<1>12. C[N] = <<>> /\ \A i \in 1 .. Len(t) : C[i] = P(i).says \o C[P(i).next]
  BY <1>1, <1>11
<1> HIDE DEF Rule
<1> DEFINE T == {n \in 0 .. Len(t) : \A i \in N - n .. N : C[i] \in Seq(Toks)}
<1>13. 0 \in T
  <2>1. \A i \in N - 0 .. N : i = N
    BY <1>1
  <2>2. <<>> \in Seq(Toks)
    OBVIOUS
  <2>3. 0 \in 0 .. Len(t)
    BY <1>0
  <2> QED
    BY <1>12, <2>1, <2>2, <2>3
<1>14. ASSUME NEW n \in 1 .. Len(t), n - 1 \in T  PROVE n \in T
  <2>1. PICK i \in 1 .. Len(t) : i = N - n
    BY <1>0
  <2>2. \A j \in i + 1 .. N : C[j] \in Seq(Toks)
    <3>1. \A j \in i + 1 .. N : j \in N - (n - 1) .. N
      BY <1>1, <2>1
    <3> QED
      BY <1>14, <3>1
  <2>3. PICK a \in Seq(Toks), b \in Seq(Toks) : a = P(i).says /\ b = C[P(i).next]
    BY <1>2, <2>2
  <2>4. a \o b \in Seq(Toks)
    OBVIOUS
  <2>5. C[i] \in Seq(Toks)
    BY <1>12, <2>3, <2>4
  <2>6. \A j \in i .. N : j = i \/ j \in i + 1 .. N
    BY <1>0
  <2>7. n \in 0 .. Len(t)
    BY <1>1
  <2>8. \A j \in N - n .. N : C[j] \in Seq(Toks)
    <3> HIDE DEF N
    <3> QED
      BY <2>1, <2>2, <2>5, <2>6
  <2> QED
    BY <2>7, <2>8
<1>15. Len(t) \in T
  <2> HIDE DEF T, N
  <2>1. \A n \in 0 .. Len(t) : n \in T
    BY ONLY <1>1, <1>13, <1>14, UpTo
  <2> QED
    BY <1>1, <2>1
<1>16. \A i \in 1 .. N : C[i] \in Seq(Toks)
  <2>1. \A i \in 1 .. N : i \in N - Len(t) .. N
    BY <1>1
  <2> QED
    BY <1>15, <2>1
<1>17. C \in [1 .. N -> Seq(Toks)]
  <2> HIDE DEF N
  <2> QED
    BY <1>10, <1>16
<1> HIDE DEF T
<1> QED
  BY <1>9, <1>12, <1>17, Zenon DEF P

(* What the files mean that a text read d includes from the innermost one  *)
(* allowed may include.                                                    *)
Others(F, d) == IF d = 0 THEN [f \in DOMAIN F |-> <<>>] ELSE Meanings(F)[d - 1]

LEMMA MeaningsFacts ==
  ASSUME NEW F, GoodTexts(F)
  PROVE  /\ Meanings(F) \in [0 .. MaxDepth -> [DOMAIN F -> Seq(Toks)]]
         /\ \A d \in 0 .. MaxDepth :
              /\ Sound(Others(F, d)) /\ DOMAIN Others(F, d) = DOMAIN F
              /\ \A f \in DOMAIN F : Meanings(F)[d][f] = From(F[f], Others(F, d))[1]
<1> DEFINE D == DOMAIN F
           S == [D -> Seq(Toks)]
           none == [f \in D |-> <<>>]
           All(o) == [f \in D |-> From(F[f], o)[1]]
           Rule(m, d) == All(IF d = 0 THEN none ELSE m[d - 1])
           st == [x \in S \X (0 .. MaxDepth) |-> All(x[1])]
<1>1. MaxDepth \in Nat /\ 0 \in 0 .. MaxDepth
  BY TokenizerAssumption
<1>2. none \in S
  OBVIOUS
<1>3. \A o \in S : All(o) \in S
  <2> SUFFICES ASSUME NEW o \in S, NEW f \in D  PROVE From(F[f], o)[1] \in Seq(Toks)
    OBVIOUS
  <2>1. F[f] \in Seq(Chars) /\ Len(F[f]) \in Nat
    <3>1. F[f] \in Seq(Chars)
      BY DEF GoodTexts
    <3> QED
      BY <3>1
  <2>2. Sound(o)
    BY DEF Sound
  <2>3. From(F[f], o) \in [1 .. Len(F[f]) + 1 -> Seq(Toks)]
    BY <2>1, <2>2, FromFacts
  <2>4. 1 \in 1 .. Len(F[f]) + 1
    BY <2>1
  <2> QED
    BY <2>3, <2>4
<1> HIDE DEF All, none, S
<1>4. st \in [S \X (0 .. MaxDepth) -> S]
  BY <1>3
<1>5. PICK g \in [0 .. MaxDepth -> S] : \A n \in 0 .. MaxDepth :
        g[n] = IF n = 0 THEN All(none) ELSE st[<<g[n - 1], n>>]
  <2>1. All(none) \in S
    BY <1>2, <1>3
  <2>2. 0 <= MaxDepth /\ 0 \in Nat
    BY <1>1
  <2> HIDE DEF st
  <2>3. Ascends(0, MaxDepth, S, All(none), st) # {}
    BY <1>1, <1>4, <2>1, <2>2, Upwards, Zenon
  <2> QED
    BY <2>3 DEF Ascends
<1>6. \A n \in 0 .. MaxDepth : g[n] = Rule(g, n)
  <2> TAKE n \in 0 .. MaxDepth
  <2>1. CASE n = 0
    BY <1>5, <2>1
  <2>2. CASE n # 0
    <3>1. n - 1 \in 0 .. MaxDepth
      BY <1>1, <2>2
    <3>2. g[n - 1] \in S
      BY <1>5, <3>1
    <3>3. st[<<g[n - 1], n>>] = All(g[n - 1])
      BY <3>2
    <3> HIDE DEF st
    <3> QED
      BY <1>5, <2>2, <3>3
  <2> QED
    BY <2>1, <2>2
<1> DEFINE C == CHOOSE m : m = [d \in 0 .. MaxDepth |-> Rule(m, d)]
<1>7. Meanings(F) = C
  BY Zenon DEF Meanings, All, none
<1>8. C = [d \in 0 .. MaxDepth |-> Rule(C, d)]
  <2> HIDE DEF st, Rule
  <2>1. g = [d \in 0 .. MaxDepth |-> g[d]]
    BY <1>5
  <2>2. g = [d \in 0 .. MaxDepth |-> Rule(g, d)]
    BY <1>6, <2>1
  <2> QED
    BY <2>2
<1> HIDE DEF C, st
<1>9. \A d \in 0 .. MaxDepth : C[d] = Rule(C, d)
  <2> HIDE DEF Rule
  <2> QED
    BY <1>8, Zenon
<1> DEFINE T == {n \in 0 .. MaxDepth : C[n] \in S}
<1>10. 0 \in T
  BY <1>1, <1>2, <1>3, <1>9
<1>11. ASSUME NEW n \in 1 .. MaxDepth, n - 1 \in T  PROVE n \in T
  <2>1. n \in 0 .. MaxDepth /\ n # 0
    BY <1>1
  <2>2. C[n] = All(C[n - 1])
    BY <1>9, <2>1
  <2> QED
    BY <1>3, <1>11, <2>1, <2>2
<1>12. \A n \in 0 .. MaxDepth : n \in T
  <2> HIDE DEF T
  <2> QED
    BY ONLY <1>1, <1>10, <1>11, UpTo
<1>13. C \in [0 .. MaxDepth -> S]
  <2> HIDE DEF Rule
  <2> QED
    BY <1>8, <1>12
<1> HIDE DEF T
<1>14. ASSUME NEW d \in 0 .. MaxDepth
       PROVE  /\ Others(F, d) \in S /\ C[d] = All(Others(F, d))
  <2>1. Others(F, d) = IF d = 0 THEN none ELSE C[d - 1]
    BY <1>7 DEF Others, none
  <2>2. d # 0 => d - 1 \in 0 .. MaxDepth
    BY <1>1
  <2>3. C[d] = All(IF d = 0 THEN none ELSE C[d - 1])
    BY <1>9
  <2> QED
    BY <1>2, <1>13, <2>1, <2>2, <2>3
<1>15. ASSUME NEW d \in 0 .. MaxDepth
       PROVE  /\ Sound(Others(F, d)) /\ DOMAIN Others(F, d) = DOMAIN F
              /\ \A f \in DOMAIN F : C[d][f] = From(F[f], Others(F, d))[1]
  <2>1. Others(F, d) \in [DOMAIN F -> Seq(Toks)]
    BY <1>14 DEF S
  <2>2. C[d] = [f \in DOMAIN F |-> From(F[f], Others(F, d))[1]]
    BY <1>14, Zenon DEF All
  <2> QED
    BY <2>1, <2>2 DEF Sound
<1> QED
  BY <1>7, <1>13, <1>15, Zenon DEF S

-----------------------------------------------------------------------------
(* What is still to be read of a text from p on.                           *)
Rest(F, d, f, p) == From(F[f], Others(F, d))[p + 1]

LEMMA RestFacts ==
  ASSUME NEW F, GoodTexts(F), NEW d \in 0 .. MaxDepth, NEW f \in DOMAIN F,
         NEW p \in 0 .. Len(F[f])
  PROVE  /\ Rest(F, d, f, p) \in Seq(Toks)
         /\ p = Len(F[f]) => Rest(F, d, f, p) = <<>>
         /\ p # Len(F[f]) =>
              \E piece : /\ piece = PieceAt(F[f], p + 1, Others(F, d))
                         /\ GoodPiece(F[f], p + 1, piece)
                         /\ Rest(F, d, f, p) = piece.says \o Rest(F, d, f, piece.next - 1)
                         /\ Rest(F, d, f, piece.next - 1) \in Seq(Toks)
<1>1. F[f] \in Seq(Chars)
  BY DEF GoodTexts
<1>2. PICK t \in Seq(Chars) : t = F[f]
  BY <1>1
<1>3. PICK o : o = Others(F, d) /\ Sound(o)
  BY MeaningsFacts
<1>4. PICK M : /\ M = From(t, o) /\ M \in [1 .. Len(t) + 1 -> Seq(Toks)]
               /\ M[Len(t) + 1] = <<>>
               /\ \A i \in 1 .. Len(t) : M[i] = PieceAt(t, i, o).says \o M[PieceAt(t, i, o).next]
  <2>1. PICK M : M = From(t, o)
    OBVIOUS
  <2>2. Sound(o) /\ t \in Seq(Chars)
    BY <1>2, <1>3
  <2>3. /\ M \in [1 .. Len(t) + 1 -> Seq(Toks)]
        /\ M[Len(t) + 1] = <<>>
        /\ \A i \in 1 .. Len(t) : M[i] = PieceAt(t, i, o).says \o M[PieceAt(t, i, o).next]
    BY ONLY <2>1, <2>2, FromFacts, Zenon
  <2> QED
    BY <2>1, <2>3, Zenon
<1>5. Len(t) \in Nat /\ p \in 0 .. Len(t)
  BY <1>2, TextFacts
<1>6. \A q : Rest(F, d, f, q) = M[q + 1]
  BY <1>2, <1>3, <1>4 DEF Rest
<1>7. p + 1 \in 1 .. Len(t) + 1 /\ (p # Len(t) => p + 1 \in 1 .. Len(t))
  BY <1>5
<1>8. Rest(F, d, f, p) \in Seq(Toks)
  BY <1>4, <1>6, <1>7
<1>9. ASSUME p # Len(t)
      PROVE  \E piece : /\ piece = PieceAt(t, p + 1, o)
                        /\ GoodPiece(t, p + 1, piece)
                        /\ Rest(F, d, f, p) = piece.says \o Rest(F, d, f, piece.next - 1)
                        /\ Rest(F, d, f, piece.next - 1) \in Seq(Toks)
  <2>1. PICK piece : piece = PieceAt(t, p + 1, o)
    OBVIOUS
  <2>2. GoodPiece(t, p + 1, piece)
    BY <1>3, <1>7, <1>9, <2>1, PieceGood
  <2>3. PICK n \in p + 2 .. Len(t) + 1 : n = piece.next
    <3>1. p + 1 + 1 = p + 2
      BY <1>5
    <3> QED
      BY <2>2, <3>1 DEF GoodPiece
  <2>4. n - 1 + 1 = n /\ n \in 1 .. Len(t) + 1
    BY <1>5
  <2>5. Rest(F, d, f, piece.next - 1) = M[n]
    BY <1>6, <2>3, <2>4
  <2>6. Rest(F, d, f, p) = piece.says \o M[n]
    BY <1>4, <1>6, <1>7, <1>9, <2>1, <2>3
  <2> QED
    BY <1>4, <2>1, <2>2, <2>4, <2>5, <2>6
<1> QED
  BY <1>2, <1>3, <1>4, <1>5, <1>6, <1>8, <1>9

(* The text of a file that is included.                                    *)
LEMMA IncludedMeans ==
  ASSUME NEW F, GoodTexts(F), NEW d \in 1 .. MaxDepth, NEW f \in DOMAIN F
  PROVE  Others(F, d)[f] = Rest(F, d - 1, f, 0)
<1>1. MaxDepth \in Nat /\ d # 0 /\ d - 1 \in 0 .. MaxDepth
  BY TokenizerAssumption
<1>2. Others(F, d) = Meanings(F)[d - 1]
  BY <1>1 DEF Others
<1>3. Meanings(F)[d - 1][f] = From(F[f], Others(F, d - 1))[1]
  BY <1>1, MeaningsFacts
<1> QED
  BY <1>2, <1>3 DEF Rest

-----------------------------------------------------------------------------
LEMMA JoinedFacts ==
  ASSUME NEW a \in Seq(Toks), NEW b \in Seq(Toks)
  PROVE  /\ IsBad(a) \/ IsBad(b) => IsBad(a \o b)
         /\ IsCut(a) \/ IsCut(b) => IsCut(a \o b)
         /\ ~IsBad(a) /\ ~IsBad(b) => ~IsBad(a \o b)
<1>1. /\ DOMAIN (a \o b) = 1 .. Len(a) + Len(b) /\ Len(a) \in Nat /\ Len(b) \in Nat
      /\ DOMAIN a = 1 .. Len(a) /\ DOMAIN b = 1 .. Len(b)
      /\ \A k \in 1 .. Len(a) : (a \o b)[k] = a[k]
      /\ \A k \in 1 .. Len(b) : (a \o b)[Len(a) + k] = b[k]
  BY ConcatFacts
<1>2. \A k \in 1 .. Len(a) : k \in DOMAIN (a \o b)
  BY <1>1
<1>3. \A k \in 1 .. Len(b) : Len(a) + k \in DOMAIN (a \o b)
  BY <1>1
<1>4. \A k \in DOMAIN (a \o b) : k \in 1 .. Len(a) \/ \E j \in 1 .. Len(b) : k = Len(a) + j
  <2> TAKE k \in DOMAIN (a \o b)
  <2>1. k \in 1 .. Len(a) + Len(b)
    BY <1>1
  <2>2. \/ k \in 1 .. Len(a)
        \/ k - Len(a) \in 1 .. Len(b) /\ k = Len(a) + (k - Len(a))
    BY <1>1, <2>1
  <2> QED
    BY <2>2
<1>5. IsBad(a) \/ IsBad(b) => IsBad(a \o b)
  BY <1>1, <1>2, <1>3, Zenon DEF IsBad
<1>6. IsCut(a) \/ IsCut(b) => IsCut(a \o b)
  BY <1>1, <1>2, <1>3, Zenon DEF IsCut
<1>7. ~IsBad(a) /\ ~IsBad(b) => ~IsBad(a \o b)
  BY <1>1, <1>4, Zenon DEF IsBad
<1> QED
  BY <1>5, <1>6, <1>7

Regrouped(a, b, x, y) ==
  /\ a \o ((b \o x) \o y) = (a \o b) \o (x \o y)
  /\ a \o ((b \o x) \o y) = a \o (b \o (x \o y))

LEMMA Reassociated ==
  ASSUME NEW a \in Seq(Toks), NEW b \in Seq(Toks), NEW x \in Seq(Toks), NEW y \in Seq(Toks)
  PROVE  Regrouped(a, b, x, y)
<1>1. \A u, v, w \in Seq(Toks) : (u \o v) \o w = u \o (v \o w)
  OBVIOUS
<1>2. b \o x \in Seq(Toks) /\ x \o y \in Seq(Toks)
  OBVIOUS
<1>3. a \o ((b \o x) \o y) = a \o (b \o (x \o y))
  BY <1>1
<1>4. (a \o b) \o (x \o y) = a \o (b \o (x \o y))
  BY <1>1, <1>2
<1> QED
  BY <1>3, <1>4 DEF Regrouped

-----------------------------------------------------------------------------
(***************************************************************************)
(* What is written is read                                                 *)
(***************************************************************************)
(* The files as they may be when all includes are read.                    *)
Later(F) ==
  /\ DOMAIN files \subseteq DOMAIN F /\ DOMAIN F \subseteq OnDisk
  /\ GoodTexts(F) /\ \A f \in DOMAIN files : F[f] = files[f]

Total(F) == Meanings(F)[MaxDepth][MainFile]

(* What the texts mean from where they were left on, the outermost first.  *)
Awaited(F, S, R) ==
  /\ R \in [0 .. Len(S) -> Seq(Toks)] /\ R[0] = <<>>
  /\ \A k \in 1 .. Len(S) :
       R[k] = Rest(F, MaxDepth - (k - 1), S[k].buffer, S[k].buffer_pos) \o R[k - 1]

Ahead(F) == Rest(F, MaxDepth - Len(callers), buffer, buffer_pos)
HalfRead(F) ==
  \E R : Awaited(F, callers, R) /\ Total(F) = Read \o (Ahead(F) \o R[Len(callers)])

EofsUpTo(n) == [i \in 1 .. n |-> Meant("eof", <<>>)]

(* What was read and what is ahead make up what is meant; until an error,  *)
(* which is meant too, or a token the code has its own way with.           *)
SoFar(F) ==
  \/ IsCut(Total(F))
  \/ error /\ IsBad(Total(F))
  \/ ~error /\ at \notin {"eof", "done"} /\ Read \in Seq(Toks) /\ ~IsBad(Read) /\ HalfRead(F)
  \/ /\ ~error /\ at \in {"eof", "done"} /\ ~IsBad(Total(F))
     /\ \E n \in 0 .. EofTokens : /\ Read = Total(F) \o EofsUpTo(n)
                                  /\ at = "done" => n = EofTokens

(* What the recognisers know of the character they are tried on.           *)
Tried ==
  /\ ~error /\ at \in {"include", "token"} =>
       /\ buffer_pos < Len(Text) /\ c(buffer_pos) \notin Blanks \cup {NL}
       /\ ~IsComment("/") /\ ~IsComment("*")
  /\ ~error /\ at = "token" => ~IsInclude

MeantInv ==
  /\ MainFile \in DOMAIN files /\ DOMAIN files \subseteq OnDisk /\ Tried
  /\ at \notin {"undefined", "deep"} => \A F : Later(F) => SoFar(F)

(* What holds of the cursor, from IInv.                                    *)
Cursor ==
  /\ Text \in Seq(Chars) /\ Len(Text) \in Nat /\ buffer_pos \in 0 .. Len(Text)
  /\ buffer_capacity = Len(Text) /\ buffer \in DOMAIN files /\ error \in BOOLEAN
  /\ GoodTexts(files) /\ IsSequence(callers) /\ Len(callers) \in 0 .. MaxDepth
  /\ MaxDepth - Len(callers) \in 0 .. MaxDepth /\ IsSequence(tokens)

LEMMA CursorFacts ==
  ASSUME IInv, at \notin {"undefined", "deep"}
  PROVE  Cursor
<1>1. /\ GoodTexts(files) /\ GoodTokens(files, tokens) /\ GoodCallers(files, callers)
      /\ buffer \in DOMAIN files /\ buffer_capacity = Len(Text)
      /\ buffer_pos \in Nat /\ buffer_pos <= Len(Text) /\ error \in BOOLEAN
      /\ Len(callers) <= MaxDepth
  BY DEF IInv, ContextInv
<1>2. Text \in Seq(Chars)
  BY <1>1 DEF GoodTexts, Text
<1>3. Len(Text) \in Nat
  BY <1>2
<1>4. IsSequence(callers) /\ IsSequence(tokens)
  BY <1>1 DEF GoodCallers, GoodTokens
<1>5. Len(callers) \in Nat
  BY <1>4, SequenceFacts
<1>6. MaxDepth \in Nat
  BY TokenizerAssumption
<1> QED
  BY <1>1, <1>2, <1>3, <1>4, <1>5, <1>6 DEF Cursor

LEMMA SignIs ==
  ASSUME Cursor
  PROVE  /\ \A p \in Nat : c(p) = Sign(Text, p + 1)
         /\ \A p \in Nat : p < Len(Text) => c(p) = Text[p + 1] /\ c(p) # NUL
         /\ \A p \in Nat : c(p) # NUL => p < Len(Text)
<1>1. /\ Text \in Seq(Chars) /\ Len(Text) \in Nat
  BY DEF Cursor
<1>2. DOMAIN Text = 1 .. Len(Text)
  BY <1>1, TextFacts
<1>3. \A p \in Nat : p + 1 \in 1 .. Len(Text) <=> p < Len(Text)
  BY <1>1
<1>4. \A p \in Nat : c(p) = Sign(Text, p + 1)
  BY <1>2, <1>3 DEF c, Sign
<1>5. \A p \in Nat : /\ c(p) = NUL <=> Len(Text) <= p
                     /\ p < Len(Text) => c(p) = Text[p + 1] /\ c(p) # NUL
  BY <1>1, CharFacts
<1> QED
  BY <1>1, <1>4, <1>5

(* Reading on in the same text.                                            *)
Told_(others, piece) ==
  \/ IsCut(piece.says)
  \/ error' /\ IsBad(piece.says)
  \/ /\ ~error' /\ ~IsBad(piece.says) /\ piece.next = buffer_pos' + 1
     /\ Read' = Read \o piece.says

(* It is enough that a step reads the piece that stands at the cursor.     *)
LEMMA ReadingOn ==
  ASSUME Cursor, MeantInv, UNCHANGED <<files, buffer, callers>>,
         at \in {"trivia", "include", "token"}, at' \in {"trivia", "include", "token"},
         error => error', error' \in BOOLEAN, ~error => buffer_pos < Len(Text),
         buffer_pos' \in Nat,
         \A others, piece :
           /\ ~error /\ Sound(others) /\ DOMAIN others \subseteq OnDisk
           /\ piece = PieceAt(Text, buffer_pos + 1, others)
           /\ GoodPiece(Text, buffer_pos + 1, piece)
           => Told_(others, piece)
  PROVE  \A F : Later(F)' => SoFar(F)'
<1> SUFFICES ASSUME NEW F, Later(F)  PROVE SoFar(F)'
  BY DEF Later, OnDisk
<1>1. SoFar(F)
  BY DEF MeantInv
<1>2. CASE IsCut(Total(F))
  BY <1>2 DEF SoFar
<1>3. CASE error /\ IsBad(Total(F))
  BY <1>3 DEF SoFar
<1>4. CASE ~error /\ Read \in Seq(Toks) /\ ~IsBad(Read) /\ HalfRead(F)
  <2>1. PICK R : Awaited(F, callers, R) /\ Total(F) = Read \o (Ahead(F) \o R[Len(callers)])
    BY <1>4 DEF HalfRead
  <2>2. /\ GoodTexts(F) /\ DOMAIN F \subseteq OnDisk /\ buffer \in DOMAIN F /\ F[buffer] = Text
    BY DEF Later, Cursor, Text
  <2>3. PICK D : D = MaxDepth - Len(callers) /\ D \in 0 .. MaxDepth
    BY DEF Cursor
  <2>4. /\ buffer_pos \in 0 .. Len(F[buffer]) /\ buffer_pos # Len(F[buffer])
    BY <1>4, <2>2 DEF Cursor
  <2>5. PICK piece : /\ piece = PieceAt(Text, buffer_pos + 1, Others(F, D))
                     /\ GoodPiece(Text, buffer_pos + 1, piece)
                     /\ Rest(F, D, buffer, buffer_pos) = piece.says \o Rest(F, D, buffer, piece.next - 1)
                     /\ Rest(F, D, buffer, piece.next - 1) \in Seq(Toks)
    BY <2>2, <2>3, <2>4, RestFacts, Zenon
  <2>6. Sound(Others(F, D)) /\ DOMAIN Others(F, D) \subseteq OnDisk
    BY <2>2, <2>3, MeaningsFacts
  <2>7. Told_(Others(F, D), piece)
    BY <1>4, <2>5, <2>6, Zenon
  <2>8. PICK x \in Seq(Toks), y \in Seq(Toks) :
          /\ x = Rest(F, D, buffer, piece.next - 1) /\ y = R[Len(callers)]
          /\ piece.says \in Seq(Toks)
    <3>1. Len(callers) \in 0 .. Len(callers)
      BY DEF Cursor
    <3>2. R[Len(callers)] \in Seq(Toks)
      BY <2>1, <3>1 DEF Awaited
    <3>3. piece.says \in Seq(Toks)
      BY <2>5 DEF GoodPiece
    <3> QED
      BY <2>5, <3>2, <3>3
  <2>9. PICK s \in Seq(Toks) : s = piece.says
    BY <2>8
  <2>10. Total(F) = Read \o ((s \o x) \o y)
    BY <2>1, <2>3, <2>5, <2>8, <2>9 DEF Ahead
  <2>11. s \o x \in Seq(Toks) /\ (s \o x) \o y \in Seq(Toks)
    BY ConcatFacts
  <2>12. PICK r \in Seq(Toks) : r = Read
    BY <1>4
  <2>13. IsCut(s) => IsCut(Total(F))
    <3>1. IsCut(s) => IsCut((s \o x) \o y)
      BY <2>11, JoinedFacts
    <3>2. IsCut((s \o x) \o y) => IsCut(r \o ((s \o x) \o y))
      BY <2>11, JoinedFacts
    <3> QED
      BY <2>10, <2>12, <3>1, <3>2
  <2>14. IsBad(s) => IsBad(Total(F))
    <3>1. IsBad(s) => IsBad((s \o x) \o y)
      BY <2>11, JoinedFacts
    <3>2. IsBad((s \o x) \o y) => IsBad(r \o ((s \o x) \o y))
      BY <2>11, JoinedFacts
    <3> QED
      BY <2>10, <2>12, <3>1, <3>2
  <2>15. Total(F)' = Total(F)
    BY DEF Total
  <2>16. CASE IsCut(s) \/ (error' /\ IsBad(s))
    BY <2>13, <2>14, <2>15, <2>16 DEF SoFar
  <2>17. CASE ~error' /\ ~IsBad(s) /\ piece.next = buffer_pos' + 1 /\ Read' = Read \o s
    <3>1. PICK q \in Seq(Toks) : q = Read' /\ q = r \o s
      BY <2>12, <2>17, ConcatFacts
    <3>2. ~IsBad(q)
      BY <1>4, <2>12, <2>17, <3>1, JoinedFacts
    <3>3. r \o ((s \o x) \o y) = (r \o s) \o (x \o y)
      <4>1. Regrouped(r, s, x, y)
        BY Reassociated
      <4> QED
        BY <4>1, Zenon DEF Regrouped
    <3>4. Total(F)' = Read' \o (x \o y)
      BY <2>10, <2>12, <2>15, <3>1, <3>3
    <3>5. piece.next - 1 = buffer_pos'
      <4>1. PICK n \in Nat : n = buffer_pos'
        OBVIOUS
      <4>2. PICK m : m = piece.next
        OBVIOUS
      <4>3. m = n + 1
        BY <2>17, <4>1, <4>2
      <4>4. m - 1 = n
        BY <4>3
      <4> QED
        BY <4>1, <4>2, <4>4
    <3>6. x = Ahead(F)'
      BY <2>3, <2>8, <3>5 DEF Ahead
    <3>7. HalfRead(F)'
      BY <2>1, <2>8, <3>4, <3>6 DEF HalfRead, Awaited
    <3> QED
      BY <2>17, <3>1, <3>2, <3>7 DEF SoFar
  <2>18. \/ IsCut(s) \/ (error' /\ IsBad(s))
         \/ ~error' /\ ~IsBad(s) /\ piece.next = buffer_pos' + 1 /\ Read' = Read \o s
    BY <2>7, <2>9 DEF Told_
  <2> QED
    BY <2>16, <2>17, <2>18
<1> QED
  BY <1>1, <1>2, <1>3, <1>4 DEF SoFar

(* What one token makes bad or cut.                                        *)
LEMMA SingleFacts ==
  ASSUME NEW k
  PROVE  /\ ~IsBad(<<>>) /\ ~IsCut(<<>>)
         /\ IsBad(<<k>>) <=> k.kind = "bad"
         /\ IsCut(<<k>>) <=> k.cut
<1>1. /\ DOMAIN <<>> = {} /\ DOMAIN <<k>> = {1} /\ <<k>>[1] = k
  OBVIOUS
<1> QED
  BY <1>1 DEF IsBad, IsCut

(* What is added to the tokens is added to what was read.                  *)
LEMMA ReadWith ==
  ASSUME IsSequence(tokens), NEW kind, NEW text, NEW from, NEW to, NEW pos,
         AddToken(kind, text, from, to, pos)
  PROVE  Read' = Read \o <<Meant(kind, text)>>
<1> DEFINE k == [kind |-> kind, text |-> text, pos |-> pos, file |-> buffer, from |-> from, to |-> to]
           m == Meant(kind, text)
           S == {Meant(tokens[i].kind, tokens[i].text) : i \in DOMAIN tokens} \cup {m}
<1>1. tokens' = Append(tokens, k)
  BY DEF AddToken
<1>2. k.kind = kind /\ k.text = text
  OBVIOUS
<1> HIDE DEF k
<1>3. /\ Len(tokens) \in Nat /\ DOMAIN tokens = 1 .. Len(tokens)
      /\ IsSequence(tokens') /\ Len(tokens') = Len(tokens) + 1 /\ tokens'[Len(tokens) + 1] = k
      /\ \A i \in 1 .. Len(tokens) : tokens'[i] = tokens[i]
  BY <1>1, SequenceFacts
<1>4. DOMAIN tokens' = 1 .. Len(tokens) + 1
  BY <1>3, SequenceFacts
<1>5. PICK r : r = Read
  OBVIOUS
<1>6. PICK n \in Nat : n = Len(tokens)
  BY <1>3
<1>7. PICK e : e = Read'
  OBVIOUS
<1>8. /\ r = [i \in 1 .. n |-> Meant(tokens[i].kind, tokens[i].text)]
      /\ r \in Seq(S) /\ Len(r) = n
  <2>1. r = [i \in 1 .. n |-> Meant(tokens[i].kind, tokens[i].text)]
    BY <1>3, <1>5, <1>6 DEF Read
  <2>2. r \in [1 .. n -> S]
    BY <1>3, <1>6, <2>1
  <2> HIDE DEF S
  <2> QED
    BY <2>1, <2>2, FunctionIsSequence
<1>9. e = [i \in 1 .. n + 1 |-> Meant(tokens'[i].kind, tokens'[i].text)]
  BY <1>4, <1>6, <1>7 DEF Read
<1>10. m \in S
  OBVIOUS
<1>11. /\ \A i \in 1 .. n : e[i] = r[i]
       /\ e[n + 1] = m
  <2>1. \A i \in 1 .. n : tokens'[i] = tokens[i] /\ i \in 1 .. n + 1
    BY <1>3, <1>6
  <2>2. tokens'[n + 1] = k /\ n + 1 \in 1 .. n + 1
    BY <1>3, <1>6
  <2> QED
    BY <1>2, <1>8, <1>9, <2>1, <2>2, Zenon
<1> HIDE DEF S, m
<1>12. e \in Seq(S) /\ Len(e) = n + 1
  <2>1. \A i \in 1 .. n + 1 : i \in 1 .. n \/ i = n + 1
    OBVIOUS
  <2>2. \A i \in 1 .. n : r[i] \in S
    BY <1>8
  <2>3. DOMAIN e = 1 .. n + 1 /\ e = [i \in 1 .. n + 1 |-> e[i]]
    BY <1>9
  <2>4. e \in [1 .. n + 1 -> S]
    BY <1>10, <1>11, <2>1, <2>2, <2>3
  <2>5. n + 1 \in Nat
    OBVIOUS
  <2> QED
    BY <2>4, <2>5, FunctionIsSequence
<1>13. e = r \o <<m>>
  BY <1>8, <1>10, <1>11, <1>12
<1> QED
  BY <1>5, <1>7, <1>13 DEF m

LEMMA NothingRead ==
  ASSUME IsSequence(tokens)
  PROVE  Read = Read \o <<>>
<1> DEFINE S == {Meant(tokens[i].kind, tokens[i].text) : i \in DOMAIN tokens}
<1>1. PICK n \in Nat : n = Len(tokens) /\ DOMAIN tokens = 1 .. n
  BY SequenceFacts
<1>2. PICK r : r = Read
  OBVIOUS
<1>3. r \in [1 .. n -> S]
  BY <1>1, <1>2 DEF Read
<1> HIDE DEF S
<1>4. r \in Seq(S)
  BY <1>3, FunctionIsSequence
<1>5. r \o <<>> = r
  BY <1>4
<1> QED
  BY <1>2, <1>5

(* Reading on, to a place where the recognisers are not yet tried, or      *)
(* behind an error.                                                        *)
LEMMA MeantOn ==
  ASSUME Cursor, MeantInv, UNCHANGED <<files, buffer, callers>>,
         at \in {"trivia", "include", "token"}, at' \in {"trivia", "token", "undefined"},
         at' = "token" => error', error => error', error' \in BOOLEAN,
         ~error => buffer_pos < Len(Text),
         at' # "undefined" =>
           /\ buffer_pos' \in Nat
           /\ \A others, piece :
                /\ ~error /\ Sound(others) /\ DOMAIN others \subseteq OnDisk
                /\ piece = PieceAt(Text, buffer_pos + 1, others)
                /\ GoodPiece(Text, buffer_pos + 1, piece)
                => Told_(others, piece)
  PROVE  MeantInv'
<1>1. MainFile \in DOMAIN files /\ DOMAIN files \subseteq OnDisk
  BY DEF MeantInv
<1>2. (MainFile \in DOMAIN files /\ DOMAIN files \subseteq OnDisk)'
  BY <1>1 DEF OnDisk
<1>3. Tried'
  BY DEF Tried
<1>4. ASSUME at' # "undefined"  PROVE \A F : Later(F)' => SoFar(F)'
  <2>1. at' \in {"trivia", "include", "token"}
    BY <1>4
  <2> QED
    BY <1>4, <2>1, ReadingOn, Zenon
<1> QED
  BY <1>2, <1>3, <1>4, Zenon DEF MeantInv

-----------------------------------------------------------------------------
(* One lemma for each action: what was read and what is ahead go on making *)
(* up what is meant.                                                       *)
LEMMA TriviaEndMeant ==
  ASSUME IInv, MeantInv, TriviaEnd \/ NotInclude
  PROVE  MeantInv'
<1>0. at \in {"trivia", "include"}
  BY DEF TriviaEnd, NotInclude
<1>1. /\ at' \in {"include", "token"}
      /\ files' = files /\ buffer' = buffer /\ buffer_pos' = buffer_pos
      /\ buffer_capacity' = buffer_capacity /\ tokens' = tokens
      /\ error' = error /\ callers' = callers
  BY DEF TriviaEnd, NotInclude, cursor, array
<1>2. Cursor
  BY <1>0, CursorFacts
<1>3. (MainFile \in DOMAIN files /\ DOMAIN files \subseteq OnDisk)'
  BY <1>1 DEF MeantInv, OnDisk
<1>4. \A p : c(p)' = c(p)
  BY <1>1 DEF c, Text
<1>5. Tried'
  <2>1. CASE TriviaEnd
    <3>1. /\ at' = "include" /\ c(buffer_pos) \notin Blanks \cup {NL, NUL}
          /\ ~IsComment("/") /\ ~IsComment("*")
      BY <2>1 DEF TriviaEnd
    <3>2. buffer_pos < Len(Text)
      BY <1>2, <3>1, SignIs DEF Cursor
    <3>3. (buffer_pos < Len(Text) /\ c(buffer_pos) \notin Blanks \cup {NL})'
      BY <1>1, <3>1, <3>2 DEF c, Text
    <3>4. (~IsComment("/") /\ ~IsComment("*"))'
      BY <1>1, <3>1 DEF IsComment, c, Text
    <3> QED
      BY <3>1, <3>3, <3>4 DEF Tried
  <2>2. CASE NotInclude
    <3>1. at = "include" /\ at' = "token" /\ ~IsInclude
      BY <2>2 DEF NotInclude
    <3>2. ~error => /\ buffer_pos < Len(Text) /\ c(buffer_pos) \notin Blanks \cup {NL}
                    /\ ~IsComment("/") /\ ~IsComment("*")
      BY <3>1 DEF MeantInv, Tried
    <3>3. ~error => (buffer_pos < Len(Text) /\ c(buffer_pos) \notin Blanks \cup {NL})'
      BY <1>1, <3>2 DEF c, Text
    <3>4. ~error => (~IsComment("/") /\ ~IsComment("*"))'
      BY <1>1, <3>2 DEF IsComment, c, Text
    <3>5. ~IsInclude'
      BY <1>1, <3>1 DEF IsInclude, c, Text
    <3> QED
      BY <1>1, <3>1, <3>3, <3>4, <3>5 DEF Tried
  <2> QED
    BY <2>1, <2>2
<1>6. ASSUME NEW F, Later(F)'  PROVE SoFar(F)'
  <2>1. Later(F)
    BY <1>1, <1>6 DEF Later, OnDisk
  <2>2. SoFar(F)
    BY <1>0, <2>1 DEF MeantInv
  <2>3. Read' = Read /\ Total(F)' = Total(F) /\ HalfRead(F)' = HalfRead(F)
    BY <1>1 DEF Read, Total, HalfRead, Ahead, Awaited
  <2> QED
    BY <1>0, <1>1, <2>2, <2>3 DEF SoFar
<1> QED
  BY <1>3, <1>5, <1>6, Zenon DEF MeantInv

(* A place in the text that is not behind it.                              *)
LEMMA Here ==
  ASSUME Cursor, buffer_pos < Len(Text)
  PROVE  \E t \in Seq(Chars) : \E i \in 1 .. Len(t) :
           /\ t = Text /\ i = buffer_pos + 1 /\ i - 1 = buffer_pos /\ Len(t) \in Nat /\ i \in Nat
           /\ \A p \in Nat : c(p) = Sign(t, p + 1)
           /\ c(buffer_pos) = t[i]
<1>1. PICK t \in Seq(Chars) : t = Text
  BY DEF Cursor
<1>2. PICK p \in Nat : p = buffer_pos /\ p < Len(t) /\ Len(t) \in Nat
  BY <1>1 DEF Cursor
<1>3. PICK i \in 1 .. Len(t) : i = p + 1
  BY <1>2
<1>4. c(buffer_pos) = t[i]
  BY <1>1, <1>2, <1>3, SignIs
<1>5. \A q \in Nat : c(q) = Sign(t, q + 1)
  BY <1>1, SignIs
<1>6. i - 1 = p /\ i \in Nat
  BY <1>3
<1> QED
  BY <1>1, <1>2, <1>3, <1>4, <1>5, <1>6

LEMMA BlankMeant ==
  ASSUME IInv, MeantInv, Blank
  PROVE  MeantInv'
<1>1. /\ at = "trivia" /\ at' = at /\ c(buffer_pos) \in Blanks \cup {NL}
      /\ buffer_pos' = buffer_pos + 1
      /\ UNCHANGED <<files, buffer, callers>> /\ tokens' = tokens /\ error' = error
  BY DEF Blank, LinesTo, array
<1>2. Cursor
  BY <1>1, CursorFacts
<1>3. c(buffer_pos) # NUL
  BY <1>1, SetFacts
<1>4. buffer_pos < Len(Text)
  BY <1>2, <1>3, SignIs DEF Cursor
<1>5. PICK t \in Seq(Chars) : \E i \in 1 .. Len(t) :
         /\ t = Text /\ i = buffer_pos + 1 /\ i - 1 = buffer_pos /\ Len(t) \in Nat /\ i \in Nat
         /\ \A p \in Nat : c(p) = Sign(t, p + 1)
         /\ c(buffer_pos) = t[i]
  BY <1>2, <1>4, Here
<1>6. PICK i \in 1 .. Len(t) :
         /\ t = Text /\ i = buffer_pos + 1 /\ i - 1 = buffer_pos /\ Len(t) \in Nat /\ i \in Nat
         /\ \A p \in Nat : c(p) = Sign(t, p + 1)
         /\ c(buffer_pos) = t[i]
  BY <1>5
<1>7. ASSUME NEW others, NEW piece, piece = PieceAt(Text, buffer_pos + 1, others), ~error
      PROVE  Told_(others, piece)
  <2>1. piece = Piece(<<>>, i + 1)
    BY <1>1, <1>6, <1>7, PieceIs
  <2>2. piece.says = <<>> /\ piece.next = i + 1
    BY <2>1, PieceFacts
  <2>3. piece.next = buffer_pos' + 1
    BY <1>1, <1>6, <2>2
  <2>4. Read' = Read /\ IsSequence(tokens)
    BY <1>1, <1>2 DEF Read, Cursor
  <2>5. Read' = Read \o <<>>
    BY <2>4, NothingRead
  <2> QED
    BY <1>1, <1>7, <2>2, <2>3, <2>5, SingleFacts DEF Told_
<1>8. buffer_pos' \in Nat /\ error \in BOOLEAN
  BY <1>1, <1>2, <1>6 DEF Cursor
<1> QED
  BY <1>1, <1>2, <1>4, <1>7, <1>8, MeantOn, Zenon

(* The character the cursor is on, of a text told by its places.           *)
AtPlace(t, i) ==
  /\ t = Text /\ i = buffer_pos + 1 /\ i - 1 = buffer_pos /\ Len(t) \in Nat /\ i \in Nat
  /\ \A p \in Nat : c(p) = Sign(t, p + 1)
  /\ c(buffer_pos) = t[i]

LEMMA OnSign ==
  ASSUME Cursor, c(buffer_pos) # NUL
  PROVE  buffer_pos < Len(Text) /\ \E t \in Seq(Chars) : \E i \in 1 .. Len(t) : AtPlace(t, i)
<1>1. buffer_pos < Len(Text)
  BY SignIs DEF Cursor
<1> QED
  BY <1>1, Here DEF AtPlace

LEMMA LineCommentMeant ==
  ASSUME IInv, MeantInv, LineComment
  PROVE  MeantInv'
<1>1. /\ at = "trivia" /\ at' = at /\ c(buffer_pos) = "/" /\ c(buffer_pos + 1) = "/"
      /\ buffer_pos' = Until(buffer_pos + 2, {NL})
      /\ UNCHANGED <<files, buffer, callers>> /\ tokens' = tokens /\ error' = error
  BY DEF LineComment, IsComment, AdvanceTo, array
<1>2. Cursor
  BY <1>1, CursorFacts
<1>3. c(buffer_pos) # NUL /\ c(buffer_pos + 1) # NUL
  BY <1>1, SetFacts
<1>4. PICK t \in Seq(Chars) : \E i \in 1 .. Len(t) : AtPlace(t, i)
  BY <1>2, <1>3, OnSign
<1>5. PICK i \in 1 .. Len(t) : AtPlace(t, i)
  BY <1>4
<1>6. /\ t = Text /\ i = buffer_pos + 1 /\ i - 1 = buffer_pos /\ Len(t) \in Nat /\ i \in Nat
      /\ \A p \in Nat : c(p) = Sign(t, p + 1)
      /\ c(buffer_pos) = t[i]
  BY <1>5 DEF AtPlace
<1>7. buffer_pos + 2 \in 0 .. Len(Text) /\ buffer_pos \in Nat /\ buffer_pos < Len(Text)
  <2>1. buffer_pos \in Nat /\ buffer_pos + 1 \in Nat /\ Len(Text) \in Nat
    BY <1>2 DEF Cursor
  <2>2. buffer_pos + 1 < Len(Text)
    BY <1>2, <1>3, <2>1, SignIs
  <2> QED
    BY <2>1, <2>2
<1>8. PICK q \in buffer_pos + 2 .. Len(Text) :
        /\ q = buffer_pos' /\ c(q) \in {NL} \cup {NUL}
        /\ \A k \in buffer_pos + 2 .. q - 1 : c(k) \notin {NL} \cup {NUL}
  <2>1. Text \in Seq(Chars)
    BY <1>2 DEF Cursor
  <2> QED
    BY <1>1, <1>7, <2>1, UntilFacts
<1>9. Longest(t, i, Chars \ {NL}) = q + 1
  <2>1. q + 1 \in i .. Len(t) + 1 /\ i \in 1 .. Len(t) + 1 /\ q \in Nat
    BY <1>6, <1>7
  <2>2. Sign(t, q + 1) \notin Chars \ {NL} /\ NUL \notin Chars \ {NL}
    BY <1>6, <1>8, <2>1, NulIsNoChar
  <2>3. \A k \in i .. q + 1 - 1 : Sign(t, k) \in Chars \ {NL}
    <3> TAKE k \in i .. q + 1 - 1
    <3>1. k \in 1 .. Len(t) /\ k - 1 \in Nat /\ k - 1 + 1 = k
      BY <1>6, <1>7
    <3>2. k - 1 = buffer_pos \/ k - 1 = buffer_pos + 1 \/ k - 1 \in buffer_pos + 2 .. q - 1
      BY <1>6, <1>7
    <3>3. c(k - 1) # NL
      BY <1>1, <1>8, <3>2, StringsDiffer
    <3>4. Sign(t, k) = c(k - 1)
      BY <1>6, <3>1
    <3>5. Sign(t, k) \in Chars
      BY <3>1, TextFacts
    <3> QED
      BY <3>3, <3>4, <3>5
  <2> QED
    BY <2>1, <2>2, <2>3, LongestIs
<1>10. ASSUME NEW others, NEW piece, piece = PieceAt(Text, buffer_pos + 1, others), ~error
       PROVE  Told_(others, piece)
  <2>1. Comment(t, i, "/")
    BY <1>1, <1>6, <1>7 DEF Comment
  <2>2. piece = Piece(<<>>, q + 1)
    BY <1>6, <1>9, <1>10, <2>1, PieceIs
  <2>3. piece.says = <<>> /\ piece.next = q + 1
    BY <2>2, PieceFacts
  <2>4. Read' = Read /\ IsSequence(tokens)
    BY <1>1, <1>2 DEF Read, Cursor
  <2>5. Read' = Read \o <<>>
    BY <2>4, NothingRead
  <2> QED
    BY <1>1, <1>8, <1>10, <2>3, <2>5, SingleFacts DEF Told_
<1>11. buffer_pos' \in Nat /\ error \in BOOLEAN
  BY <1>2, <1>7, <1>8 DEF Cursor
<1> QED
  BY <1>1, <1>2, <1>7, <1>10, <1>11, MeantOn, Zenon

LEMMA LeastShifted ==
  ASSUME NEW E \in SUBSET Nat, NEW G \in SUBSET Nat, \A x \in Nat : x + 1 \in G <=> x \in E,
         0 \notin G
  PROVE  /\ G = {} <=> E = {}
         /\ E # {} => Min(E) \in Nat /\ Min(G) = Min(E) + 1
<1>1. \A y \in G : y \in Nat /\ y # 0 /\ y - 1 \in Nat /\ y - 1 + 1 = y
  OBVIOUS
<1>2. \A y \in G : y - 1 \in E
  BY <1>1
<1>3. G = {} <=> E = {}
  BY <1>2
<1>4. ASSUME E # {}  PROVE Min(E) \in Nat /\ Min(G) = Min(E) + 1
  <2>1. Min(E) \in E /\ \A y \in E : Min(E) <= y
    BY <1>4, MinFacts
  <2>2. Min(G) \in G /\ \A y \in G : Min(G) <= y
    BY <1>3, <1>4, MinFacts
  <2>3. PICK m \in Nat : m = Min(E)
    BY <2>1
  <2>4. PICK g \in Nat : g = Min(G)
    BY <2>2
  <2>5. m <= g - 1
    BY <1>2, <2>1, <2>2, <2>3, <2>4
  <2>6. g <= m + 1
    BY <2>1, <2>2, <2>3, <2>4
  <2> QED
    BY <2>3, <2>4, <2>5, <2>6
<1> QED
  BY <1>3, <1>4

LEMMA BlockCommentMeant ==
  ASSUME IInv, MeantInv, BlockComment
  PROVE  MeantInv'
<1> DEFINE ends == {q \in buffer_pos + 4 .. Len(Text) : c(q - 2) = "*" /\ c(q - 1) = "/"}
<1>1. /\ at = "trivia" /\ at' = at /\ c(buffer_pos) = "/" /\ c(buffer_pos + 1) = "*"
      /\ buffer_pos' = IF ends = {} THEN Len(Text) ELSE Min(ends)
      /\ UNCHANGED <<files, buffer, callers>> /\ tokens' = tokens
      /\ error' = (error \/ ends = {})
  BY DEF BlockComment, IsComment, LinesTo, array
<1>2. Cursor
  BY <1>1, CursorFacts
<1>3. c(buffer_pos) # NUL
  BY <1>1, SetFacts
<1>4. PICK t \in Seq(Chars) : \E i \in 1 .. Len(t) : AtPlace(t, i)
  BY <1>2, <1>3, OnSign
<1>5. PICK i \in 1 .. Len(t) : AtPlace(t, i)
  BY <1>4
<1>6. /\ t = Text /\ i = buffer_pos + 1 /\ i - 1 = buffer_pos /\ Len(t) \in Nat /\ i \in Nat
      /\ \A p \in Nat : c(p) = Sign(t, p + 1)
      /\ c(buffer_pos) = t[i]
  BY <1>5 DEF AtPlace
<1>7. /\ buffer_pos \in Nat /\ buffer_pos < Len(Text) /\ error \in BOOLEAN
      /\ Len(Text) \in Nat /\ Len(Text) = Len(t)
  BY <1>2, <1>3, <1>6, OnSign DEF Cursor
<1> DEFINE shut == {j \in i + 4 .. Len(t) + 1 : t[j - 2] = "*" /\ t[j - 1] = "/"}
<1>8. /\ shut = {} <=> ends = {}
      /\ ends # {} => Min(ends) \in Nat /\ Min(shut) = Min(ends) + 1
  <2>1. ends \in SUBSET Nat /\ shut \in SUBSET Nat /\ 0 \notin shut
    <3>1. \A j \in i + 4 .. Len(t) + 1 : j \in Nat /\ j # 0
      BY <1>6
    <3>2. \A q \in buffer_pos + 4 .. Len(Text) : q \in Nat
      BY <1>7
    <3> QED
      BY <3>1, <3>2
  <2>2. ASSUME NEW x \in Nat  PROVE x + 1 \in shut <=> x \in ends
    <3>1. x + 1 \in i + 4 .. Len(t) + 1 <=> x \in buffer_pos + 4 .. Len(Text)
      BY <1>6, <1>7
    <3>2. ASSUME x \in buffer_pos + 4 .. Len(Text)
          PROVE  c(x - 2) = t[x - 1] /\ c(x - 1) = t[x] /\ x + 1 - 2 = x - 1 /\ x + 1 - 1 = x
      <4>1. x - 2 \in Nat /\ x - 1 \in Nat /\ x - 2 < Len(Text) /\ x - 1 < Len(Text)
            /\ x - 2 + 1 = x - 1 /\ x - 1 + 1 = x
        BY <1>7, <3>2
      <4>2. c(x - 2) = t[x - 2 + 1] /\ c(x - 1) = t[x - 1 + 1]
        BY <1>2, <1>6, <4>1, SignIs
      <4> QED
        BY <4>1, <4>2
    <3> QED
      BY <3>1, <3>2
  <2> HIDE DEF ends, shut
  <2> QED
    BY <2>1, <2>2, LeastShifted
<1>9. BlockCommentAt(t, i) = IF shut = {} THEN Wrong(t) ELSE Piece(<<>>, Min(shut))
  BY DEF BlockCommentAt
<1> HIDE DEF ends, shut
<1>10. ASSUME NEW others, NEW piece, piece = PieceAt(Text, buffer_pos + 1, others), ~error
       PROVE  Told_(others, piece)
  <2>1. Comment(t, i, "*")
    <3>1. c(buffer_pos + 1) = Sign(t, buffer_pos + 1 + 1)
      <4>1. buffer_pos + 1 \in Nat
        BY <1>7
      <4> QED
        BY <1>6, <4>1
    <3>2. buffer_pos + 1 + 1 = i + 1 /\ t[i] = "/"
      BY <1>1, <1>6, <1>7
    <3> QED
      BY <1>1, <3>1, <3>2, SMT DEF Comment
  <2>2. piece = BlockCommentAt(t, i)
    BY <1>6, <1>10, <2>1, PieceIs
  <2>3. CASE ends = {}
    <3>1. piece = Piece(<<Bad>>, Len(t) + 1)
      BY <1>8, <1>9, <2>2, <2>3 DEF Wrong
    <3>2. IsBad(piece.says)
      BY <3>1, PieceFacts, SingleFacts, BadFacts
    <3> QED
      BY <1>1, <2>3, <3>2 DEF Told_
  <2>4. CASE ends # {}
    <3>1. piece = Piece(<<>>, Min(ends) + 1) /\ buffer_pos' = Min(ends)
      BY <1>1, <1>8, <1>9, <2>2, <2>4
    <3>2. piece.says = <<>> /\ piece.next = buffer_pos' + 1
      BY <3>1, PieceFacts
    <3>3. Read' = Read /\ IsSequence(tokens)
      BY <1>1, <1>2 DEF Read, Cursor
    <3>4. Read' = Read \o <<>>
      BY <3>3, NothingRead
    <3>5. ~error'
      BY <1>1, <1>10, <2>4
    <3> QED
      BY <3>2, <3>4, <3>5, SingleFacts DEF Told_
  <2> QED
    BY <2>3, <2>4
<1>11. buffer_pos' \in Nat /\ error' \in BOOLEAN /\ (error => error')
  BY <1>1, <1>6, <1>7, <1>8
<1> QED
  BY <1>1, <1>2, <1>7, <1>10, <1>11, MeantOn, Zenon

(* Up to the same place: the code's run and the longest of the grammar.    *)
LEMMA RunIsLongest ==
  ASSUME Cursor, NEW p \in 0 .. Len(Text), NEW set, NUL \notin set
  PROVE  /\ EndOfRun(p, set) \in p .. Len(Text) /\ c(EndOfRun(p, set)) \notin set
         /\ Longest(Text, p + 1, set) = EndOfRun(p, set) + 1
<1>1. PICK t \in Seq(Chars) : t = Text
  BY DEF Cursor
<1>2. PICK n \in Nat : n = Len(Text) /\ n = Len(t) /\ p \in Nat
  BY <1>1 DEF Cursor
<1>3. PICK q \in p .. n : /\ q = EndOfRun(p, set) /\ c(q) \notin set
                          /\ \A k \in p .. q - 1 : c(k) \in set
  BY <1>1, <1>2, RunFacts
<1>4. \A k \in Nat : c(k) = Sign(t, k + 1)
  BY <1>1, SignIs
<1>5. p + 1 \in 1 .. Len(t) + 1 /\ q + 1 \in p + 1 .. Len(t) + 1 /\ q \in Nat
  BY <1>2
<1>6. Sign(t, q + 1) \notin set
  BY <1>3, <1>4, <1>5
<1>7. \A k \in p + 1 .. q + 1 - 1 : Sign(t, k) \in set
  <2> TAKE k \in p + 1 .. q + 1 - 1
  <2>1. k - 1 \in p .. q - 1 /\ k - 1 \in Nat /\ k - 1 + 1 = k
    BY <1>2
  <2>2. Sign(t, k - 1 + 1) \in set
    BY <1>3, <1>4, <2>1
  <2> QED
    BY <2>1, <2>2
<1>8. Longest(t, p + 1, set) = q + 1
  BY <1>5, <1>6, <1>7, LongestIs
<1> QED
  BY <1>1, <1>2, <1>3, <1>8

(* What is known where the recognisers are tried.                          *)
LEMMA AtToken ==
  ASSUME Cursor, MeantInv, at = "token", ~error
  PROVE  /\ buffer_pos < Len(Text)
         /\ \E t \in Seq(Chars) : \E i \in 1 .. Len(t) :
              /\ AtPlace(t, i) /\ t[i] \notin Blanks \cup {NL} /\ ~IncludeWord(t, i)
              /\ ~Comment(t, i, "/") /\ ~Comment(t, i, "*")
<1>1. /\ buffer_pos < Len(Text) /\ c(buffer_pos) \notin Blanks \cup {NL}
      /\ ~IsComment("/") /\ ~IsComment("*") /\ ~IsInclude
  BY DEF MeantInv, Tried
<1>2. PICK t \in Seq(Chars) : \E i \in 1 .. Len(t) : AtPlace(t, i)
  BY <1>1, Here DEF AtPlace
<1>3. PICK i \in 1 .. Len(t) : AtPlace(t, i)
  BY <1>2
<1>4. PICK p \in Nat : /\ p = buffer_pos /\ i = p + 1 /\ t = Text /\ c(p) = t[i]
                       /\ c(p + 1) = Sign(t, i + 1) /\ buffer_capacity = Len(t) /\ Len(t) \in Nat
  <2>1. buffer_pos \in Nat /\ buffer_capacity = Len(Text) /\ Len(Text) \in Nat
    BY DEF Cursor
  <2>2. /\ i = buffer_pos + 1 /\ t = Text /\ c(buffer_pos) = t[i]
        /\ \A q \in Nat : c(q) = Sign(t, q + 1)
    BY <1>3 DEF AtPlace
  <2>3. buffer_pos + 1 \in Nat
    BY <2>1
  <2> QED
    BY <2>1, <2>2, <2>3
<1>5. ~Comment(t, i, "/") /\ ~Comment(t, i, "*")
  BY <1>1, <1>4, SMT DEF Comment, IsComment
<1>6. ~IncludeWord(t, i)
  <2>1. i < Len(t) <=> buffer_pos + 1 < buffer_capacity
    BY <1>4
  <2> QED
    BY <1>1, <1>4, <2>1 DEF IncludeWord, IsInclude
<1>7. t[i] \notin Blanks \cup {NL}
  BY <1>1, <1>4
<1> QED
  BY <1>1, <1>3, <1>5, <1>6, <1>7

(* A recogniser adds the token the grammar has there.                      *)
LEMMA ReadsOne ==
  ASSUME Cursor, NEW kind, NEW text, NEW from, NEW to, NEW pos,
         AddToken(kind, text, from, to, pos), kind # "bad", ~error',
         NEW piece, piece = Piece(<<Meant(kind, text)>>, buffer_pos' + 1), NEW others
  PROVE  Told_(others, piece)
<1>1. piece.says = <<Meant(kind, text)>> /\ piece.next = buffer_pos' + 1
  BY PieceFacts
<1>2. Meant(kind, text).kind = kind
  BY DEF Meant, Told
<1>3. ~IsBad(piece.says)
  BY <1>1, <1>2, SingleFacts
<1>4. Read' = Read \o <<Meant(kind, text)>>
  BY ReadWith DEF Cursor
<1> QED
  BY <1>1, <1>3, <1>4 DEF Told_

(* It reports what no rule allows.                                         *)
LEMMA ReadsWrong ==
  ASSUME NEW t, NEW piece, piece = Wrong(t), error', NEW others
  PROVE  Told_(others, piece)
<1>1. piece.says = <<Bad>>
  BY PieceFacts DEF Wrong
<1>2. IsBad(piece.says)
  BY <1>1, BadFacts, SingleFacts
<1> QED
  BY <1>2 DEF Told_

LEMMA NumberMeant ==
  ASSUME IInv, MeantInv, Number
  PROVE  MeantInv'
<1>1. PICK q : q = EndOfRun(buffer_pos, Digits)
  OBVIOUS
<1>2. /\ at = "token" /\ c(buffer_pos) \in Digits
      /\ AddToken("value", Chars_(buffer_pos, q), buffer_pos, q, source_pos)
      /\ buffer_pos' = q /\ at' \in {"trivia", "undefined"}
      /\ UNCHANGED <<files, buffer, callers>> /\ error' = error
  BY <1>1 DEF Number, AdvanceTo, ReadOn
<1>3. Cursor
  BY <1>2, CursorFacts
<1>4. c(buffer_pos) # NUL
  BY <1>2, SetFacts
<1>5. buffer_pos < Len(Text) /\ buffer_pos \in 0 .. Len(Text) /\ Len(Text) \in Nat
  BY <1>3, <1>4, OnSign DEF Cursor
<1>6. /\ q \in buffer_pos .. Len(Text)
      /\ Longest(Text, buffer_pos + 1, Digits) = q + 1
  BY <1>1, <1>3, <1>5, SetFacts, RunIsLongest
<1>7. q \in Nat /\ q + 1 - 1 = q /\ error \in BOOLEAN
  BY <1>3, <1>5, <1>6 DEF Cursor
<1>8. ASSUME NEW others, NEW piece, piece = PieceAt(Text, buffer_pos + 1, others), ~error
      PROVE  Told_(others, piece)
  <2>1. Text[buffer_pos + 1] \in Digits
    <3>1. buffer_pos \in Nat
      BY <1>5
    <3>2. c(buffer_pos) = Text[buffer_pos + 1]
      BY <1>3, <1>5, <3>1, SignIs
    <3> QED
      BY <1>2, <3>2
  <2>2. piece = Run("value", Text, buffer_pos + 1, Digits)
    BY <1>8, <2>1, PieceIs, Zenon
  <2>3. PICK j : j = Longest(Text, buffer_pos + 1, Digits) /\ j = q + 1
    BY <1>6
  <2>4. piece = Piece(<<Meant("value", SubSeq(Text, buffer_pos + 1, j - 1))>>, j)
    BY <2>2, <2>3, Zenon DEF Run
  <2>5. PICK text : text = Chars_(buffer_pos, q) /\ piece = Piece(<<Meant("value", text)>>, buffer_pos' + 1)
    <3>1. PICK text : text = Chars_(buffer_pos, q)
      OBVIOUS
    <3>2. j - 1 = q
      BY <1>7, <2>3
    <3>3. SubSeq(Text, buffer_pos + 1, j - 1) = text
      BY <3>1, <3>2, Zenon DEF Chars_
    <3> QED
      BY <1>2, <2>3, <2>4, <3>1, <3>3, Zenon
  <2>6. ~error' /\ "value" # "bad"
    BY <1>2, <1>8
  <2>7. PICK from : from = buffer_pos
    OBVIOUS
  <2>8. PICK pos : pos = source_pos
    OBVIOUS
  <2>9. AddToken("value", text, from, q, pos)
    BY <1>2, <2>5, <2>7, <2>8
  <2> QED
    BY <1>3, <2>5, <2>6, <2>9, ReadsOne, Zenon
<1>9. /\ at \in {"trivia", "include", "token"} /\ at' \in {"trivia", "token", "undefined"}
      /\ at' = "token" => error'
      /\ error => error'
      /\ error' \in BOOLEAN /\ buffer_pos' \in Nat
  BY <1>2, <1>7
<1> QED
  BY <1>2, <1>3, <1>5, <1>8, <1>9, MeantOn, Zenon

LEMMA WordMeant ==
  ASSUME IInv, MeantInv, Word
  PROVE  MeantInv'
<1>1. PICK e : e = EndOfRun(buffer_pos, IdCont)
  OBVIOUS
<1>2. PICK q : q = Min({e, buffer_pos + MaxWord - 1})
  OBVIOUS
<1>3. /\ at = "token" /\ c(buffer_pos) \in IdStart
      /\ AddToken("string", Chars_(buffer_pos, q), buffer_pos, q, source_pos)
      /\ buffer_pos' = q /\ at' \in {"trivia", "undefined"}
      /\ UNCHANGED <<files, buffer, callers>> /\ error' = error
  BY <1>1, <1>2 DEF Word, AdvanceTo, ReadOn
<1>4. Cursor /\ MaxWord \in Nat \ {0}
  BY <1>3, CursorFacts, TokenizerAssumption
<1>5. c(buffer_pos) # NUL
  BY <1>3, SetFacts
<1>6. buffer_pos < Len(Text) /\ buffer_pos \in 0 .. Len(Text) /\ Len(Text) \in Nat
  BY <1>4, <1>5, OnSign DEF Cursor
<1>7. /\ e \in buffer_pos .. Len(Text)
      /\ Longest(Text, buffer_pos + 1, IdCont) = e + 1
  BY <1>1, <1>4, <1>6, SetFacts, RunIsLongest
<1>8. q \in Nat /\ (e - buffer_pos < MaxWord => q = e) /\ error \in BOOLEAN /\ e \in Nat
  <2>1. PICK m : m = buffer_pos + MaxWord - 1
    OBVIOUS
  <2>2. m \in Nat /\ e \in Nat /\ (e - buffer_pos < MaxWord => e <= m)
    BY <1>4, <1>6, <1>7, <2>1
  <2>3. PICK S \in SUBSET Nat : S = {e, m}
    BY <2>2
  <2>4. Min(S) \in S /\ \A y \in S : Min(S) <= y
    BY <2>3, MinFacts
  <2>5. q \in {e, m} /\ q <= e /\ q <= m
    BY <1>2, <2>1, <2>3, <2>4
  <2> QED
    BY <1>4, <2>2, <2>5 DEF Cursor
<1>9. ASSUME NEW others, NEW piece, piece = PieceAt(Text, buffer_pos + 1, others), ~error
      PROVE  Told_(others, piece)
  <2>1. PICK t \in Seq(Chars) : \E i \in 1 .. Len(t) :
          AtPlace(t, i) /\ ~IncludeWord(t, i)
    BY <1>3, <1>4, <1>9, AtToken
  <2>2. PICK i \in 1 .. Len(t) : AtPlace(t, i) /\ ~IncludeWord(t, i)
    BY <2>1
  <2>3. t = Text /\ i = buffer_pos + 1 /\ t[i] \in IdStart
    BY <1>3, <2>2 DEF AtPlace
  <2>4. piece = WordAt(t, i)
    BY <1>9, <2>2, <2>3, PieceIs, Zenon
  <2>5. PICK j : j = Longest(t, i, IdCont) /\ j = e + 1
    BY <1>7, <2>3
  <2>6. piece = Piece(<<Told("string", SubSeq(t, i, j - 1), j - i >= MaxWord)>>, j)
    BY <2>4, <2>5, Zenon DEF WordAt
  <2>7. CASE j - i >= MaxWord
    <3>1. PICK says : says = Told("string", SubSeq(t, i, j - 1), j - i >= MaxWord)
      OBVIOUS
    <3>2. says.cut
      BY <2>7, <3>1 DEF Told
    <3>3. piece.says = <<says>>
      BY <2>6, <3>1, PieceFacts, Zenon
    <3>4. IsCut(piece.says)
      BY <3>2, <3>3, SingleFacts
    <3> QED
      BY <3>4 DEF Told_
  <2>8. CASE ~(j - i >= MaxWord)
    <3>1. q = e /\ j - 1 = q /\ j = q + 1
      <4>1. buffer_pos \in Nat /\ i = buffer_pos + 1
        BY <1>6, <2>3
      <4>2. ~(e + 1 - i >= MaxWord)
        BY <1>8, <2>5, <2>8, <4>1
      <4>3. e - buffer_pos < MaxWord
        BY <1>4, <1>8, <4>1, <4>2
      <4> QED
        BY <1>8, <2>5, <4>3
    <3>2. PICK text : text = Chars_(buffer_pos, q)
      OBVIOUS
    <3>3. SubSeq(t, i, j - 1) = text
      BY <2>3, <3>1, <3>2, Zenon DEF Chars_
    <3>4. (j - i >= MaxWord) = FALSE
      BY <2>8
    <3>5. piece = Piece(<<Meant("string", text)>>, buffer_pos' + 1)
      BY <1>3, <2>6, <3>1, <3>3, <3>4, Zenon DEF Meant
    <3>6. ~error' /\ "string" # "bad"
      BY <1>3, <1>9
    <3>7. PICK from : from = buffer_pos
      OBVIOUS
    <3>8. PICK pos : pos = source_pos
      OBVIOUS
    <3>9. AddToken("string", text, from, q, pos)
      BY <1>3, <3>2, <3>7, <3>8
    <3> QED
      BY <1>4, <3>5, <3>6, <3>9, ReadsOne, Zenon
  <2> QED
    BY <2>7, <2>8
<1>10. /\ at \in {"trivia", "include", "token"} /\ at' \in {"trivia", "token", "undefined"}
       /\ at' = "token" => error'
       /\ error => error'
       /\ error' \in BOOLEAN /\ buffer_pos' \in Nat
  BY <1>3, <1>8
<1> QED
  BY <1>3, <1>4, <1>6, <1>9, <1>10, MeantOn, Zenon

LEMMA UnknownMeant ==
  ASSUME IInv, MeantInv, Unknown
  PROVE  MeantInv'
<1>1. /\ at = "token" /\ c(buffer_pos) \notin Puncts
      /\ c(buffer_pos) \notin Digits \cup IdStart \cup {"'", Quote}
      /\ error' = TRUE /\ buffer_pos' = buffer_pos + 1 /\ at' \in {"trivia", "undefined"}
      /\ UNCHANGED <<files, buffer, callers>>
  BY DEF Unknown, IsPunct, AdvanceTo, ReadOn
<1>2. Cursor
  BY <1>1, CursorFacts
<1>3. ~error => buffer_pos < Len(Text)
  BY <1>1, <1>2, AtToken
<1>4. ASSUME NEW others, NEW piece, piece = PieceAt(Text, buffer_pos + 1, others), ~error
      PROVE  Told_(others, piece)
  <2>1. PICK t \in Seq(Chars) : \E i \in 1 .. Len(t) :
          AtPlace(t, i) /\ t[i] \notin Blanks \cup {NL}
    BY <1>1, <1>2, <1>4, AtToken
  <2>2. PICK i \in 1 .. Len(t) : AtPlace(t, i) /\ t[i] \notin Blanks \cup {NL}
    BY <2>1
  <2>3. t = Text /\ i = buffer_pos + 1 /\ t[i] = c(buffer_pos)
    BY <2>2 DEF AtPlace
  <2>4. t[i] \notin Puncts /\ t[i] \notin Digits \cup IdStart \cup {"'", Quote}
    BY <1>1, <2>3
  <2>5. piece = Wrong(t)
    BY <1>4, <2>2, <2>3, <2>4, PieceIs, Zenon
  <2> QED
    BY <1>1, <2>5, ReadsWrong
<1>5. buffer_pos' \in Nat
  BY <1>1, <1>2 DEF Cursor
<1> QED
  BY <1>1, <1>2, <1>3, <1>4, <1>5, MeantOn

LEMMA ShortFacts ==
  ASSUME NEW S, NEW t \in Seq(S), NEW i \in 1 .. Len(t)
  PROVE  /\ SubSeq(t, i, i) = <<t[i]>>
         /\ i + 1 \in 1 .. Len(t) => SubSeq(t, i, i + 1) = <<t[i], t[i + 1]>>
<1>1. /\ Len(t) \in Nat /\ i \in Nat /\ i >= 1 /\ i <= Len(t) /\ t[i] \in S
      /\ i + 1 \in 1 .. Len(t) => t[i + 1] \in S
  OBVIOUS
<1>4. ASSUME NEW a \in Nat, NEW b \in Nat, 1 <= a, b <= Len(t)
      PROVE  SubSeq(t, a, b) \in Seq(S)
  BY <1>1, <1>4
<1>2. SubSeq(t, i, i) = <<t[i]>>
  <2>1. PICK u \in Seq(S) : u = SubSeq(t, i, i)
    BY <1>1, <1>4
  <2>2. Len(u) = 1 /\ u[1] = t[i]
    BY <1>1, <2>1
  <2>3. u = <<t[i]>>
    BY <1>1, <2>2
  <2> QED
    BY <2>1, <2>3
<1>3. ASSUME i + 1 \in 1 .. Len(t)  PROVE SubSeq(t, i, i + 1) = <<t[i], t[i + 1]>>
  <2>0. i + 1 \in Nat /\ i + 1 <= Len(t)
    BY <1>1, <1>3
  <2>1. PICK u \in Seq(S) : u = SubSeq(t, i, i + 1)
    BY <1>1, <1>4, <2>0
  <2>2. Len(u) = 2 /\ u[1] = t[i] /\ u[2] = t[i + 1]
    BY <1>1, <1>3, <2>1
  <2>3. u = <<t[i], t[i + 1]>>
    BY <1>1, <1>3, <2>2
  <2> QED
    BY <2>1, <2>3
<1> QED
  BY <1>2, <1>3

LEMMA PunctMeant ==
  ASSUME IInv, MeantInv, Punct
  PROVE  MeantInv'
<1>1. PICK q : q = IF Punct2(buffer_pos) THEN buffer_pos + 2 ELSE buffer_pos + 1
  OBVIOUS
<1>2. /\ at = "token" /\ c(buffer_pos) \in Puncts
      /\ AddToken("punct", Chars_(buffer_pos, q), buffer_pos, q, source_pos)
      /\ buffer_pos' = q /\ at' \in {"trivia", "undefined"}
      /\ UNCHANGED <<files, buffer, callers>> /\ error' = error
  BY <1>1 DEF Punct, IsPunct, AdvanceTo, ReadOn
<1>3. Cursor
  BY <1>2, CursorFacts
<1>4. c(buffer_pos) # NUL
  BY <1>2, SetFacts
<1>5. buffer_pos < Len(Text) /\ buffer_pos \in Nat /\ Len(Text) \in Nat /\ error \in BOOLEAN
  BY <1>3, <1>4, OnSign DEF Cursor
<1>6. q \in Nat
  BY <1>1, <1>5
<1>7. ASSUME NEW others, NEW piece, piece = PieceAt(Text, buffer_pos + 1, others), ~error
      PROVE  Told_(others, piece)
  <2>1. PICK t \in Seq(Chars) : \E i \in 1 .. Len(t) :
          AtPlace(t, i) /\ ~Comment(t, i, "/") /\ ~Comment(t, i, "*")
    BY <1>2, <1>3, <1>7, AtToken
  <2>2. PICK i \in 1 .. Len(t) : AtPlace(t, i) /\ ~Comment(t, i, "/") /\ ~Comment(t, i, "*")
    BY <2>1
  <2>3. /\ t = Text /\ i = buffer_pos + 1 /\ t[i] = c(buffer_pos) /\ i \in Nat /\ Len(t) \in Nat
        /\ c(buffer_pos + 1) = Sign(t, i + 1)
    <3>1. /\ t = Text /\ i = buffer_pos + 1 /\ t[i] = c(buffer_pos) /\ i \in Nat /\ Len(t) \in Nat
          /\ \A p \in Nat : c(p) = Sign(t, p + 1)
      BY <2>2 DEF AtPlace
    <3>2. i \in Nat /\ c(i) = Sign(t, i + 1)
      BY <3>1
    <3> QED
      BY <3>1, <3>2
  <2>4. piece = PunctAt(t, i)
    BY <1>2, <1>7, <2>2, <2>3, PieceIs, Zenon
  <2>5. PICK text : text = Chars_(buffer_pos, q)
    OBVIOUS
  <2>6. text = SubSeq(t, i, q)
    BY <2>3, <2>5, Zenon DEF Chars_
  <2>7. piece = Piece(<<Meant("punct", text)>>, buffer_pos' + 1)
    <3>1. CASE Punct2(buffer_pos)
      <4>1. c(buffer_pos) = "=" /\ c(buffer_pos + 1) = "="
        BY <3>1 DEF Punct2
      <4>2. t[i] = "=" /\ Sign(t, i + 1) = "="
        BY <2>3, <4>1
      <4>3. i + 1 \in 1 .. Len(t) /\ t[i + 1] = "="
        <5>1. i + 1 \in 1 .. Len(t)
          <6>1. "=" # NUL
            BY SetFacts
          <6>2. i + 1 \in Nat
            BY <2>3
          <6> QED
            BY <4>2, <6>1, <6>2, TextFacts
        <5>2. Sign(t, i + 1) = t[i + 1]
          BY <5>1, TextFacts
        <5> QED
          BY <4>2, <5>1, <5>2
      <4>4. q = i + 1 /\ q + 1 = i + 2
        BY <1>1, <1>5, <2>3, <3>1
      <4>5. text = <<t[i], t[i + 1]>>
        <5>1. SubSeq(t, i, i + 1) = <<t[i], t[i + 1]>>
          BY <4>3, ShortFacts, Zenon
        <5> QED
          BY <2>6, <4>4, <5>1
      <4>6. text = <<"=", "=">>
        BY <4>2, <4>3, <4>5
      <4>7. piece = Piece(<<Meant("punct", <<"=", "=">>)>>, i + 2)
        BY <2>4, <4>2 DEF PunctAt
      <4> QED
        BY <1>2, <4>4, <4>6, <4>7
    <3>2. CASE ~Punct2(buffer_pos)
      <4>1. ~(t[i] = "=" /\ Sign(t, i + 1) = "=")
        BY <2>3, <3>2 DEF Punct2
      <4>2. q = i /\ q + 1 = i + 1
        BY <1>1, <1>5, <2>3, <3>2
      <4>3. text = <<t[i]>>
        <5>1. SubSeq(t, i, i) = <<t[i]>>
          BY ShortFacts, Zenon
        <5> QED
          BY <2>6, <4>2, <5>1
      <4>4. piece = Piece(<<Meant("punct", <<t[i]>>)>>, i + 1)
        BY <2>4, <4>1 DEF PunctAt
      <4> QED
        BY <1>2, <4>2, <4>3, <4>4
    <3> QED
      BY <3>1, <3>2
  <2>8. ~error' /\ "punct" # "bad"
    BY <1>2, <1>7
  <2>9. PICK from : from = buffer_pos
    OBVIOUS
  <2>10. PICK pos : pos = source_pos
    OBVIOUS
  <2>11. AddToken("punct", text, from, q, pos)
    BY <1>2, <2>5, <2>9, <2>10
  <2> QED
    BY <1>3, <2>7, <2>8, <2>11, ReadsOne, Zenon
<1>8. /\ at \in {"trivia", "include", "token"} /\ at' \in {"trivia", "token", "undefined"}
      /\ at' = "token" => error'
      /\ error => error'
      /\ error' \in BOOLEAN /\ buffer_pos' \in Nat
  BY <1>2, <1>5, <1>6
<1> QED
  BY <1>2, <1>3, <1>5, <1>7, <1>8, MeantOn, Zenon

LEMMA CharMeant ==
  ASSUME IInv, MeantInv, Char
  PROVE  MeantInv'
<1> DEFINE escape == c(buffer_pos + 1) = Back
           sym    == IF escape THEN Escaped(c(buffer_pos + 2)) ELSE c(buffer_pos + 1)
           known  == escape => c(buffer_pos + 2) \in DOMAIN Escapes
<1>1. PICK place : place = IF escape THEN buffer_pos + 2 ELSE buffer_pos + 1
  OBVIOUS
<1>2. /\ at = "token" /\ c(buffer_pos) = "'" /\ buffer_pos' = place + 2
      /\ at' = IF place + 2 <= Len(Text) THEN "trivia" ELSE "undefined"
      /\ UNCHANGED <<files, buffer, callers>>
  BY <1>1 DEF Char, AdvanceTo, ReadOn
<1>3. IF place + 1 > Len(Text) THEN error' = (error \/ ~known)
      ELSE error' = (error \/ ~known \/ c(place + 1) # "'")
  BY <1>1 DEF Char
<1>4. \E from, pos : AddToken("char", <<sym>>, from, place + 2, pos)
  BY <1>1 DEF Char
<1> HIDE DEF known, sym
<1>5. Cursor
  BY <1>2, CursorFacts
<1>6. c(buffer_pos) # NUL
  BY <1>2, SetFacts
<1>7. buffer_pos < Len(Text) /\ buffer_pos \in Nat /\ Len(Text) \in Nat /\ error \in BOOLEAN
  BY <1>5, <1>6, OnSign DEF Cursor
<1>8. place \in Nat /\ place \in {buffer_pos + 1, buffer_pos + 2}
  BY <1>1, <1>7
<1>9. ASSUME NEW others, NEW piece, piece = PieceAt(Text, buffer_pos + 1, others), ~error,
             at' # "undefined"
      PROVE  Told_(others, piece)
  <2>1. PICK t \in Seq(Chars) : \E i \in 1 .. Len(t) : AtPlace(t, i)
    BY <1>5, <1>6, OnSign
  <2>2. PICK i \in 1 .. Len(t) : AtPlace(t, i)
    BY <2>1
  <2>3. PICK p \in Nat :
          /\ p = buffer_pos /\ t = Text /\ i = p + 1 /\ t[i] = "'" /\ Len(t) \in Nat
          /\ c(p + 1) = Sign(t, i + 1) /\ c(p + 2) = Sign(t, i + 2) /\ c(p + 3) = Sign(t, i + 3)
    <3>1. /\ t = Text /\ i = buffer_pos + 1 /\ t[i] = "'" /\ Len(t) \in Nat
          /\ \A p \in Nat : c(p) = Sign(t, p + 1)
      BY <1>2, <2>2 DEF AtPlace
    <3>2. PICK p \in Nat : p = buffer_pos
      BY <1>7
    <3>3. c(p + 1) = Sign(t, p + 1 + 1) /\ c(p + 2) = Sign(t, p + 2 + 1) /\ c(p + 3) = Sign(t, p + 3 + 1)
      <4>1. p + 1 \in Nat /\ p + 2 \in Nat /\ p + 3 \in Nat
        OBVIOUS
      <4> QED
        BY <3>1, <4>1
    <3>4. p + 1 + 1 = i + 1 /\ p + 2 + 1 = i + 2 /\ p + 3 + 1 = i + 3
      BY <3>1, <3>2
    <3> QED
      BY <3>1, <3>2, <3>3, <3>4
  <2>4. place + 2 <= Len(t)
    BY <1>2, <1>9, <2>3
  <2>5. piece = CharAt(t, i)
    BY <1>9, <2>3, PieceIs
  <2>6. error' = (~known \/ c(place + 1) # "'")
    BY <1>3, <1>8, <1>9, <2>3, <2>4
  <2>7. CASE escape
    <3>1. /\ place = p + 2 /\ c(place + 1) = Sign(t, i + 3) /\ Sign(t, i + 1) = Back
          /\ known <=> Sign(t, i + 2) \in DOMAIN Escapes
      <4>1. place = p + 2 /\ place + 1 = p + 3
        BY <1>1, <2>3, <2>7
      <4> QED
        BY <2>3, <2>7, <4>1 DEF known
    <3>2. CASE error'
      <4>1. ~(Sign(t, i + 2) \in DOMAIN Escapes /\ Sign(t, i + 3) = "'")
        BY <2>6, <3>1, <3>2
      <4>2. piece = Wrong(t)
        BY <2>5, <3>1, <4>1 DEF CharAt
      <4> QED
        BY <3>2, <4>2, ReadsWrong
    <3>3. CASE ~error'
      <4>1. Sign(t, i + 2) \in DOMAIN Escapes /\ Sign(t, i + 3) = "'"
        BY <2>6, <3>1, <3>3
      <4>2. piece = Piece(<<Meant("char", <<Escaped(t[i + 2])>>)>>, i + 4)
        BY <2>5, <3>1, <4>1 DEF CharAt
      <4>3. t[i + 2] = Sign(t, i + 2)
        <5>1. i + 2 \in 1 .. Len(t)
          BY <2>3, <2>4, <3>1
        <5> QED
          BY <5>1, TextFacts
      <4>4. sym = Escaped(t[i + 2])
        BY <2>3, <2>7, <4>3 DEF sym
      <4>5. i + 4 = buffer_pos' + 1
        BY <1>2, <2>3, <3>1
      <4>6. piece = Piece(<<Meant("char", <<sym>>)>>, buffer_pos' + 1)
        BY <4>2, <4>4, <4>5
      <4>7. PICK from, to, pos : AddToken("char", <<sym>>, from, to, pos)
        BY <1>4
      <4>8. PICK text : text = <<sym>>
        OBVIOUS
      <4>9. "char" # "bad"
        OBVIOUS
      <4> QED
        BY <1>5, <3>3, <4>6, <4>7, <4>8, <4>9, ReadsOne, Zenon
    <3> QED
      BY <3>2, <3>3
  <2>8. CASE ~escape
    <3>1. /\ place = p + 1 /\ c(place + 1) = Sign(t, i + 2) /\ Sign(t, i + 1) # Back
          /\ known
      <4>1. place = p + 1 /\ place + 1 = p + 2
        BY <1>1, <2>3, <2>8
      <4> QED
        BY <2>3, <2>8, <4>1 DEF known
    <3>2. CASE error'
      <4>1. Sign(t, i + 2) # "'"
        BY <2>6, <3>1, <3>2
      <4>2. piece = Wrong(t)
        BY <2>5, <3>1, <4>1 DEF CharAt
      <4> QED
        BY <3>2, <4>2, ReadsWrong
    <3>3. CASE ~error'
      <4>1. Sign(t, i + 2) = "'"
        BY <2>6, <3>1, <3>3
      <4>2. piece = Piece(<<Meant("char", <<t[i + 1]>>)>>, i + 3)
        BY <2>5, <3>1, <4>1 DEF CharAt
      <4>3. t[i + 1] = Sign(t, i + 1)
        <5>1. i + 1 \in 1 .. Len(t)
          BY <2>3, <2>4, <3>1
        <5> QED
          BY <5>1, TextFacts
      <4>4. sym = t[i + 1]
        BY <2>3, <2>8, <4>3 DEF sym
      <4>5. i + 3 = buffer_pos' + 1
        BY <1>2, <2>3, <3>1
      <4>6. piece = Piece(<<Meant("char", <<sym>>)>>, buffer_pos' + 1)
        BY <4>2, <4>4, <4>5
      <4>7. PICK from, to, pos : AddToken("char", <<sym>>, from, to, pos)
        BY <1>4
      <4>8. PICK text : text = <<sym>>
        OBVIOUS
      <4>9. "char" # "bad"
        OBVIOUS
      <4> QED
        BY <1>5, <3>3, <4>6, <4>7, <4>8, <4>9, ReadsOne, Zenon
    <3> QED
      BY <3>2, <3>3
  <2> QED
    BY <2>7, <2>8
<1>10. /\ at \in {"trivia", "include", "token"} /\ at' \in {"trivia", "token", "undefined"}
       /\ at' = "token" => error'
       /\ error => error'
       /\ error' \in BOOLEAN /\ buffer_pos' \in Nat
  <2>1. error' \in BOOLEAN /\ (error => error')
    BY <1>3, <1>7, Zenon
  <2>2. buffer_pos' \in Nat
    BY <1>2, <1>8
  <2>3. at' \in {"trivia", "undefined"}
    BY <1>2
  <2> QED
    BY <1>2, <2>1, <2>2, <2>3
<1> QED
  BY <1>2, <1>5, <1>7, <1>9, <1>10, MeantOn, Zenon

(* Where a name that opens at a place of a text may end.                   *)
Closes(t, opens) ==
  {j \in opens + 1 .. Len(t) : t[j] = Quote /\ \A k \in opens + 1 .. j - 1 : t[k] # NL}

LEMMA NameIs ==
  ASSUME IInv, at = "include", IsInclude, NEW t \in Seq(Chars), NEW i \in 1 .. Len(t),
         AtPlace(t, i), NEW o, o = NameOpens, NEW n, n = NameCloses, NEW opens,
         opens = Longest(t, i + 1, Gap)
  PROVE  /\ o \in Nat /\ opens = o + 1 /\ Sign(t, opens) = c(o) /\ IncludeWord(t, i)
         /\ c(o) = Quote =>
              /\ n \in Nat /\ Len(Name) = n - o - 1 /\ n \in o + 1 .. Len(t)
              /\ Closes(t, opens) = {} <=> c(n) # Quote
              /\ Closes(t, opens) # {} => n < Len(t) /\ Min(Closes(t, opens)) = n + 1
              /\ Name = SubSeq(t, opens + 1, n)
<1>1. Cursor
  BY CursorFacts
<1>2. /\ t = Text /\ i = buffer_pos + 1 /\ Len(t) \in Nat /\ i \in Nat
      /\ \A p \in Nat : c(p) = Sign(t, p + 1)
      /\ c(buffer_pos) = t[i]
  BY DEF AtPlace
<1>3. PICK p \in Nat : p = buffer_pos /\ i = p + 1 /\ p \in 0 .. Len(t) /\ buffer_capacity = Len(t)
  BY <1>1, <1>2 DEF Cursor
<1>4. c(p) = INC /\ p + 1 < Len(t) /\ c(p + 1) \notin IdCont
  BY <1>3 DEF IsInclude
<1>5. IncludeWord(t, i)
  <2>1. p + 1 \in Nat /\ p + 1 + 1 = i + 1
    BY <1>3
  <2>2. c(p + 1) = Sign(t, i + 1)
    BY <1>2, <2>1
  <2> QED
    BY <1>2, <1>3, <1>4, <2>2 DEF IncludeWord
<1>6. /\ o \in p + 1 .. Len(t) /\ opens = o + 1 /\ o \in Nat /\ Sign(t, opens) = c(o)
  <2>1. i \in 0 .. Len(Text)
    BY <1>2, <1>3
  <2>2. o = EndOfRun(i, Gap)
    BY <1>2 DEF NameOpens, Gap
  <2>3. o \in i .. Len(Text) /\ Longest(Text, i + 1, Gap) = o + 1
    BY <1>1, <2>1, <2>2, StringsDiffer, RunIsLongest
  <2>4. o \in p + 1 .. Len(t) /\ opens = o + 1 /\ o \in Nat
    BY <1>2, <1>3, <2>3
  <2> QED
    BY <1>2, <2>4
<1>7. ASSUME c(o) = Quote
      PROVE  /\ n \in Nat /\ Len(Name) = n - o - 1 /\ n \in o + 1 .. Len(t)
             /\ Closes(t, opens) = {} <=> c(n) # Quote
             /\ Closes(t, opens) # {} => n < Len(t) /\ Min(Closes(t, opens)) = n + 1
             /\ Name = SubSeq(t, opens + 1, n)
  <2>1. o < Len(t) /\ n \in o + 1 .. Len(t) /\ Len(Name) = n - o - 1
    BY <1>2, <1>7, NameFacts
  <2>0. n \in Nat /\ o \in Nat /\ Len(t) \in Nat /\ n >= o + 1
    BY <1>2, <1>6, <2>1
  <2>2. n \in Nat /\ c(n) \in {Quote, NL, NUL} /\ \A k \in o + 1 .. n - 1 : c(k) \notin {Quote, NL}
    <3>1. n = Until(o + 1, {Quote, NL}) /\ o + 1 \in 0 .. Len(Text) /\ Text \in Seq(Chars)
      BY <1>2, <1>6, <2>1 DEF NameCloses
    <3>2. c(n) \in {Quote, NL} \cup {NUL} /\ \A k \in o + 1 .. n - 1 : c(k) \notin {Quote, NL} \cup {NUL}
      BY <3>1, UntilFacts
    <3>3. n \in Nat
      BY <1>6, <2>1
    <3> QED
      BY <3>2, <3>3
  <2>3. \A k \in Nat : k < Len(t) => c(k) = t[k + 1] /\ c(k) # NUL
    BY <1>1, <1>2, SignIs
  <2>4. Quote # NL /\ Quote # NUL
    BY SetFacts DEF Quote, NL
  <2>5. ASSUME NEW j \in Closes(t, opens)  PROVE c(n) = Quote /\ n + 1 <= j
    <3>1. /\ j \in o + 2 .. Len(t) /\ t[j] = Quote
          /\ \A k \in o + 2 .. j - 1 : t[k] # NL
      <4>1. opens + 1 = o + 2
        BY <1>6
      <4> QED
        BY <4>1 DEF Closes
    <3>2. PICK m \in Nat : m = j - 1 /\ m \in o + 1 .. Len(t) - 1 /\ m + 1 = j /\ c(m) = Quote
      <4>1. j - 1 \in Nat /\ j - 1 \in o + 1 .. Len(t) - 1 /\ j - 1 + 1 = j /\ j - 1 < Len(t)
        BY <1>2, <1>6, <3>1
      <4>2. c(j - 1) = t[j - 1 + 1]
        BY <2>3, <4>1
      <4> QED
        BY <3>1, <4>1, <4>2
    <3>3. ~(m < n)
      <4>1. m < n => m \in o + 1 .. n - 1
        BY <2>2, <3>2
      <4> QED
        BY <2>2, <3>2, <4>1
    <3>4. n < Len(t) /\ n <= m
      <4>1. m \in Nat /\ m \in o + 1 .. Len(t) - 1
        BY <3>2
      <4> QED
        BY <2>0, <3>3, <4>1
    <3>5. c(n) # NUL /\ c(n) = t[n + 1]
      BY <2>2, <2>3, <3>4
    <3>6. c(n) # NL
      <4> SUFFICES ASSUME c(n) = NL  PROVE FALSE
        OBVIOUS
      <4>1. n # m
        BY <2>4, <3>2
      <4>2. n + 1 \in o + 2 .. j - 1
        BY <1>6, <2>1, <2>2, <3>2, <3>4, <4>1
      <4> QED
        BY <3>1, <3>5, <4>2
    <3> QED
      BY <2>2, <3>2, <3>4, <3>5, <3>6
  <2>6. ASSUME c(n) = Quote  PROVE n + 1 \in Closes(t, opens) /\ n < Len(t)
    <3>1. n < Len(t)
      <4>1. c(n) # NUL
        BY <2>4, <2>6
      <4> QED
        BY <1>1, <1>2, <2>2, <4>1, SignIs
    <3>2. t[n + 1] = Quote
      BY <2>2, <2>3, <2>6, <3>1
    <3>3. \A k \in o + 2 .. n : t[k] # NL
      <4> TAKE k \in o + 2 .. n
      <4>1. k - 1 \in o + 1 .. n - 1 /\ k - 1 \in Nat /\ k - 1 < Len(t) /\ k - 1 + 1 = k
        BY <1>2, <1>6, <2>2, <3>1
      <4>2. c(k - 1) # NL /\ c(k - 1) = t[k - 1 + 1]
        BY <2>2, <2>3, <4>1
      <4> QED
        BY <4>1, <4>2
    <3>4. PICK a \in Nat : a = opens + 1 /\ a = o + 2
      BY <1>6
    <3>8. PICK b \in Nat : b = n + 1
      BY <2>0
    <3>9. b - 1 = n /\ b \in a .. Len(t)
      BY <2>0, <3>1, <3>4, <3>8
    <3>5. Closes(t, opens) = {j \in a .. Len(t) : t[j] = Quote /\ \A k \in a .. j - 1 : t[k] # NL}
      BY <3>4 DEF Closes
    <3>6. t[b] = Quote /\ \A k \in a .. b - 1 : t[k] # NL
      BY <3>2, <3>3, <3>4, <3>8, <3>9
    <3>7. b \in Closes(t, opens)
      BY <3>5, <3>6, <3>9
    <3> QED
      BY <3>1, <3>8, <3>7
  <2>7. Closes(t, opens) = {} <=> c(n) # Quote
    BY <2>5, <2>6
  <2>8. ASSUME Closes(t, opens) # {}  PROVE n < Len(t) /\ Min(Closes(t, opens)) = n + 1
    <3>1. Closes(t, opens) \in SUBSET Nat
      BY <1>2, <1>6 DEF Closes
    <3>2. PICK m \in Nat : /\ m = Min(Closes(t, opens)) /\ m \in Closes(t, opens)
                           /\ \A y \in Closes(t, opens) : m <= y
      BY <2>8, <3>1, MinFacts
    <3>3. c(n) = Quote /\ n + 1 <= m
      BY <2>5, <3>2
    <3>4. n < Len(t) /\ m <= n + 1
      BY <2>6, <3>2, <3>3
    <3> QED
      BY <2>2, <3>2, <3>3, <3>4
  <2>9. Name = SubSeq(t, opens + 1, n)
    BY <1>2, <1>6 DEF Name, Chars_
  <2> QED
    BY <2>1, <2>2, <2>7, <2>8, <2>9
<1> QED
  BY <1>5, <1>6, <1>7

LEMMA IncludeAtIs ==
  ASSUME NEW t, NEW i, NEW others, NEW opens, opens = Longest(t, i + 1, Gap)
  PROVE  IncludeAt(t, i, others) =
           IF \/ Sign(t, opens) # Quote \/ Closes(t, opens) = {}
              \/ Min(Closes(t, opens)) - opens > MaxWord
              \/ SubSeq(t, opens + 1, Min(Closes(t, opens)) - 1) \notin DOMAIN others
           THEN Wrong(t)
           ELSE Piece(others[SubSeq(t, opens + 1, Min(Closes(t, opens)) - 1)],
                      Min(Closes(t, opens)) + 1)
BY Zenon DEF IncludeAt, Closes, Gap

LEMMA IncludeFailsMeant ==
  ASSUME IInv, MeantInv, IncludeFails
  PROVE  MeantInv'
<1>1. PICK o : o = NameOpens
  OBVIOUS
<1>2. PICK n : n = NameCloses
  OBVIOUS
<1>3. /\ at = "include" /\ IsInclude /\ error' = TRUE /\ at' = "token"
      /\ UNCHANGED <<files, buffer, callers>>
      /\ \/ c(o) # Quote
         \/ c(o) = Quote /\ Len(Name) >= MaxWord
         \/ c(o) = Quote /\ c(n) # Quote
         \/ c(o) = Quote /\ c(n) = Quote /\ Name \notin OnDisk
  BY <1>1, <1>2 DEF IncludeFails
<1>4. Cursor
  BY <1>3, CursorFacts
<1>5. c(buffer_pos) # NUL
  BY <1>3, SetFacts DEF IsInclude
<1>6. buffer_pos < Len(Text)
  BY <1>4, <1>5, OnSign
<1>7. PICK t \in Seq(Chars) : \E i \in 1 .. Len(t) : AtPlace(t, i)
  BY <1>4, <1>5, OnSign
<1>8. PICK i \in 1 .. Len(t) : AtPlace(t, i)
  BY <1>7
<1>9. PICK opens : opens = Longest(t, i + 1, Gap)
  OBVIOUS
<1>10. /\ o \in Nat /\ opens = o + 1 /\ Sign(t, opens) = c(o) /\ IncludeWord(t, i)
       /\ c(o) = Quote =>
            /\ n \in Nat /\ Len(Name) = n - o - 1
            /\ Closes(t, opens) = {} <=> c(n) # Quote
            /\ Closes(t, opens) # {} => Min(Closes(t, opens)) = n + 1
            /\ Name = SubSeq(t, opens + 1, n)
  BY <1>1, <1>2, <1>3, <1>8, <1>9, NameIs
<1>11. ASSUME NEW others, NEW piece, piece = PieceAt(Text, buffer_pos + 1, others),
              DOMAIN others \subseteq OnDisk
       PROVE  Told_(others, piece)
  <2>1. t = Text /\ i = buffer_pos + 1
    BY <1>8 DEF AtPlace
  <2>2. piece = IncludeAt(t, i, others)
    BY <1>10, <1>11, <2>1, PieceIs, Zenon
  <2>3. \/ Sign(t, opens) # Quote \/ Closes(t, opens) = {}
        \/ Min(Closes(t, opens)) - opens > MaxWord
        \/ SubSeq(t, opens + 1, Min(Closes(t, opens)) - 1) \notin DOMAIN others
    <3>1. CASE c(o) # Quote
      BY <1>10, <3>1
    <3>2. CASE c(o) = Quote /\ Closes(t, opens) # {} /\ Len(Name) >= MaxWord
      <4>1. MaxWord \in Nat
        BY TokenizerAssumption
      <4>2. Min(Closes(t, opens)) = n + 1 /\ n - o - 1 >= MaxWord /\ n \in Nat
        BY <1>10, <3>2
      <4>3. PICK m \in Nat : m = Min(Closes(t, opens)) /\ m = n + 1
        BY <4>2
      <4>4. m - opens > MaxWord
        BY <1>10, <4>1, <4>2, <4>3
      <4> QED
        BY <4>3, <4>4
    <3>3. CASE c(o) = Quote /\ c(n) # Quote
      BY <1>10, <3>3
    <3>4. CASE c(o) = Quote /\ Closes(t, opens) # {} /\ Name \notin OnDisk
      <4>1. Min(Closes(t, opens)) = n + 1 /\ Name = SubSeq(t, opens + 1, n) /\ n + 1 - 1 = n
        BY <1>10, <3>4
      <4>2. SubSeq(t, opens + 1, Min(Closes(t, opens)) - 1) = Name
        <5>1. PICK m \in Nat : m = Min(Closes(t, opens))
          BY <1>10, <3>4, <4>1
        <5>2. m - 1 = n
          BY <1>10, <3>4, <4>1, <5>1
        <5>3. SubSeq(t, opens + 1, m - 1) = Name
          BY <4>1, <5>2
        <5> QED
          BY <5>1, <5>3, Zenon
      <4> QED
        BY <1>11, <3>4, <4>2
    <3> QED
      BY <1>3, <3>1, <3>2, <3>3, <3>4
  <2>4. piece = Wrong(t)
    BY <1>9, <2>2, <2>3, IncludeAtIs, Zenon
  <2> QED
    BY <1>3, <2>4, ReadsWrong
<1>12. buffer_pos' \in Nat
  <2>1. PICK q \in Nat : ReadTo(q)
    BY IncludeFailsReads
  <2> QED
    BY <2>1 DEF ReadTo
<1> QED
  BY <1>3, <1>4, <1>6, <1>11, <1>12, MeantOn

LEMMA EmptyFacts ==
  ASSUME NEW S, NEW a \in Seq(S)
  PROVE  <<>> \in Seq(S) /\ a \o <<>> = a /\ <<>> \o a = a
OBVIOUS

LEMMA IncludeMeant ==
  ASSUME IInv, MeantInv, Include
  PROVE  MeantInv'
<1>1. PICK o : o = NameOpens
  OBVIOUS
<1>2. PICK n : n = NameCloses
  OBVIOUS
<1>3. PICK name : name = Name
  OBVIOUS
<1>4. PICK e : e = [buffer |-> buffer, buffer_pos |-> n + 1, buffer_capacity |-> buffer_capacity,
                    source_pos |-> [source_pos EXCEPT !.column = @ + (n + 1 - buffer_pos)]]
  OBVIOUS
<1>5. /\ at = "include" /\ IsInclude /\ c(o) = Quote /\ Len(name) < MaxWord /\ c(n) = Quote
      /\ name \in OnDisk /\ Open(name) /\ callers' = Append(callers, e)
      /\ buffer' = name /\ buffer_pos' = 0
      /\ at' = IF Len(callers) < MaxDepth THEN "trivia" ELSE "deep"
      /\ tokens' = tokens /\ error' = error
  BY <1>1, <1>2, <1>3, <1>4 DEF Include, array
<1>6. Cursor
  BY <1>5, CursorFacts
<1>7. /\ DOMAIN files' = DOMAIN files \cup {name} /\ \A f \in DOMAIN files : files'[f] = files[f]
  BY <1>5 DEF Open
<1>8. (MainFile \in DOMAIN files /\ DOMAIN files \subseteq OnDisk)'
  BY <1>5, <1>7 DEF MeantInv, OnDisk
<1>9. Tried'
  BY <1>5 DEF Tried
<1>10. ASSUME NEW F, Later(F)', at' # "deep"  PROVE SoFar(F)'
  <2>1. Later(F) /\ name \in DOMAIN F
    BY <1>7, <1>10 DEF Later, OnDisk
  <2>2. SoFar(F)
    BY <1>5, <2>1 DEF MeantInv
  <2>3. Total(F)' = Total(F) /\ Read' = Read
    BY <1>5 DEF Total, Read
  <2>4. CASE IsCut(Total(F)) \/ (error /\ IsBad(Total(F)))
    BY <1>5, <2>3, <2>4 DEF SoFar
  <2>5. CASE ~error /\ Read \in Seq(Toks) /\ ~IsBad(Read) /\ HalfRead(F)
    <3>1. PICK R : Awaited(F, callers, R) /\ Total(F) = Read \o (Ahead(F) \o R[Len(callers)])
      BY <2>5 DEF HalfRead
    <3>2. PICK L \in Nat : L = Len(callers) /\ L < MaxDepth /\ MaxDepth \in Nat
      <4>1. MaxDepth \in Nat /\ Len(callers) \in Nat
        BY <1>6, TokenizerAssumption DEF Cursor
      <4>2. Len(callers) < MaxDepth
        BY <1>5, <1>10
      <4> QED
        BY <4>1, <4>2
    <3>3. PICK D \in 1 .. MaxDepth : D = MaxDepth - L /\ D \in 0 .. MaxDepth
      BY <3>2
    <3>4. PICK t \in Seq(Chars) : \E i \in 1 .. Len(t) : AtPlace(t, i)
      <4>1. c(buffer_pos) # NUL
        BY <1>5, SetFacts DEF IsInclude
      <4> QED
        BY <1>6, <4>1, OnSign
    <3>5. PICK i \in 1 .. Len(t) : AtPlace(t, i)
      BY <3>4
    <3>6. /\ t = Text /\ i = buffer_pos + 1 /\ i \in Nat /\ Len(t) \in Nat
          /\ buffer_pos \in 0 .. Len(t) /\ buffer_pos # Len(t)
      <4>1. t = Text /\ i = buffer_pos + 1 /\ i \in Nat /\ Len(t) \in Nat
        BY <3>5 DEF AtPlace
      <4>2. PICK p \in Nat : p = buffer_pos /\ p \in 0 .. Len(t)
        BY <1>6, <4>1 DEF Cursor
      <4>3. p + 1 \in 1 .. Len(t)
        BY <3>5, <4>1, <4>2
      <4>4. p # Len(t)
        BY <4>1, <4>3
      <4> QED
        BY <4>1, <4>2, <4>4
    <3>7. GoodTexts(F) /\ buffer \in DOMAIN F /\ F[buffer] = t
      BY <1>6, <2>1, <3>6 DEF Later, Cursor, Text
    <3>8. PICK piece :
            /\ piece = PieceAt(t, i, Others(F, D))
            /\ GoodPiece(t, i, piece)
            /\ Rest(F, D, buffer, buffer_pos) = piece.says \o Rest(F, D, buffer, piece.next - 1)
            /\ Rest(F, D, buffer, piece.next - 1) \in Seq(Toks)
      <4>1. buffer_pos \in 0 .. Len(F[buffer]) /\ buffer_pos # Len(F[buffer])
        BY <3>6, <3>7
      <4>2. PICK piece :
              /\ piece = PieceAt(F[buffer], buffer_pos + 1, Others(F, D))
              /\ GoodPiece(F[buffer], buffer_pos + 1, piece)
              /\ Rest(F, D, buffer, buffer_pos) = piece.says \o Rest(F, D, buffer, piece.next - 1)
              /\ Rest(F, D, buffer, piece.next - 1) \in Seq(Toks)
        BY <3>3, <3>7, <4>1, RestFacts
      <4>3. piece = PieceAt(t, i, Others(F, D)) /\ GoodPiece(t, i, piece)
        BY <3>6, <3>7, <4>2
      <4> QED
        BY <4>2, <4>3, Zenon
    <3>9. PICK opens : opens = Longest(t, i + 1, Gap)
      OBVIOUS
    <3>10. /\ o \in Nat /\ opens = o + 1 /\ Sign(t, opens) = c(o) /\ IncludeWord(t, i)
           /\ n \in Nat /\ Len(name) = n - o - 1
           /\ Closes(t, opens) # {} /\ Min(Closes(t, opens)) = n + 1
           /\ name = SubSeq(t, opens + 1, n)
      BY <1>1, <1>2, <1>3, <1>5, <3>5, <3>9, NameIs
    <3>11. PICK m \in Nat : m = Min(Closes(t, opens)) /\ m = n + 1 /\ m - 1 = n
      BY <3>10
    <3>12. /\ Sign(t, opens) = Quote /\ ~(m - opens > MaxWord)
           /\ SubSeq(t, opens + 1, m - 1) = name
      <4>1. MaxWord \in Nat
        BY TokenizerAssumption
      <4>2. ~(m - opens > MaxWord)
        BY <1>5, <3>10, <3>11, <4>1
      <4> QED
        BY <1>5, <3>10, <3>11, <4>2
    <3>13. piece = IncludeAt(t, i, Others(F, D))
      BY <3>8, <3>10, PieceIs, Zenon
    <3>14. DOMAIN Others(F, D) = DOMAIN F
      BY <3>3, <3>7, MeaningsFacts
    <3>15. piece = Piece(Others(F, D)[name], m + 1)
      <4>1. ~(\/ Sign(t, opens) # Quote \/ Closes(t, opens) = {}
              \/ m - opens > MaxWord \/ name \notin DOMAIN Others(F, D))
        BY <2>1, <3>10, <3>12, <3>14
      <4>2. IncludeAt(t, i, Others(F, D)) =
              IF \/ Sign(t, opens) # Quote \/ Closes(t, opens) = {}
                 \/ m - opens > MaxWord
                 \/ SubSeq(t, opens + 1, m - 1) \notin DOMAIN Others(F, D)
              THEN Wrong(t)
              ELSE Piece(Others(F, D)[SubSeq(t, opens + 1, m - 1)], m + 1)
        BY <3>9, <3>11, IncludeAtIs, Zenon
      <4>3. IncludeAt(t, i, Others(F, D)) =
              IF \/ Sign(t, opens) # Quote \/ Closes(t, opens) = {}
                 \/ m - opens > MaxWord \/ name \notin DOMAIN Others(F, D)
              THEN Wrong(t) ELSE Piece(Others(F, D)[name], m + 1)
        BY <3>12, <4>2, Zenon
      <4> QED
        BY <3>13, <4>1, <4>3, Zenon
    <3>16. piece.says = Others(F, D)[name] /\ piece.next - 1 = n + 1
      <4>1. piece.says = Others(F, D)[name] /\ piece.next = m + 1
        BY <3>15, PieceFacts
      <4> QED
        BY <3>11, <4>1
    <3>17. PICK x \in Seq(Toks), y \in Seq(Toks), s \in Seq(Toks) :
             /\ x = Rest(F, D, buffer, n + 1) /\ y = R[L] /\ s = piece.says
      <4>1. L \in 0 .. Len(callers)
        BY <3>2
      <4>2. R[L] \in Seq(Toks)
        BY <3>1, <4>1 DEF Awaited
      <4>3. piece.says \in Seq(Toks)
        BY <3>8 DEF GoodPiece
      <4>4. Rest(F, D, buffer, n + 1) \in Seq(Toks)
        BY <3>8, <3>16
      <4> QED
        BY <4>2, <4>3, <4>4
    <3>18. Ahead(F) = s \o x
      BY <3>2, <3>3, <3>8, <3>16, <3>17 DEF Ahead
    <3>19. s = Rest(F, D - 1, name, 0)
      BY <2>1, <3>3, <3>7, <3>16, <3>17, IncludedMeans
    <3>20. /\ IsSequence(callers') /\ Len(callers') = L + 1 /\ callers'[L + 1] = e
           /\ \A k \in 1 .. L : callers'[k] = callers[k]
      BY <1>5, <1>6, <3>2, SequenceFacts DEF Cursor
    <3>21. MaxDepth - (L + 1) = D - 1
      BY <3>2, <3>3
    <3>22. Ahead(F)' = s
      BY <1>5, <3>19, <3>20, <3>21 DEF Ahead
    <3> DEFINE Q == [k \in 0 .. L + 1 |-> IF k = L + 1 THEN x \o y ELSE R[k]]
    <3>23. x \o y \in Seq(Toks)
      OBVIOUS
    <3>24. Q[L + 1] = x \o y /\ \A k \in 0 .. L : Q[k] = R[k]
      BY <3>2
    <3>25. Q \in [0 .. L + 1 -> Seq(Toks)]
      <4>1. \A k \in 0 .. L + 1 : k = L + 1 \/ k \in 0 .. L
        OBVIOUS
      <4>2. \A k \in 0 .. L : R[k] \in Seq(Toks)
        BY <3>1, <3>2 DEF Awaited
      <4> QED
        BY <3>23, <4>1, <4>2
    <3> HIDE DEF Q
    <3>26. Awaited(F, callers', Q)
      <4>1. Q[0] = <<>>
        BY <3>1, <3>24 DEF Awaited
      <4>2. ASSUME NEW k \in 1 .. L + 1
            PROVE  Q[k] = Rest(F, MaxDepth - (k - 1), callers'[k].buffer, callers'[k].buffer_pos) \o Q[k - 1]
        <5>1. CASE k = L + 1
          <6>1. k - 1 = L /\ MaxDepth - (k - 1) = D
            BY <3>2, <3>3, <5>1
          <6>2. e.buffer = buffer /\ e.buffer_pos = n + 1
            BY <1>4
          <6>3. Q[k - 1] = y
            BY <3>2, <3>17, <3>24, <6>1
          <6>4. callers'[k] = e /\ Q[k] = x \o y
            BY <3>20, <3>24, <5>1
          <6>5. Rest(F, MaxDepth - (k - 1), callers'[k].buffer, callers'[k].buffer_pos) = x
            BY <3>17, <6>1, <6>2, <6>4
          <6> QED
            BY <6>3, <6>4, <6>5
        <5>2. CASE k # L + 1
          <6>1. k \in 1 .. L /\ k \in 0 .. L /\ k - 1 \in 0 .. L
            BY <5>2
          <6>2. R[k] = Rest(F, MaxDepth - (k - 1), callers[k].buffer, callers[k].buffer_pos) \o R[k - 1]
            BY <3>1, <3>2, <6>1 DEF Awaited
          <6>3. callers'[k] = callers[k] /\ Q[k] = R[k] /\ Q[k - 1] = R[k - 1]
            BY <3>20, <3>24, <6>1
          <6> QED
            BY <6>2, <6>3
        <5> QED
          BY <5>1, <5>2
      <4> QED
        BY <3>20, <3>25, <4>1, <4>2 DEF Awaited
    <3>27. Total(F)' = Read' \o (Ahead(F)' \o Q[Len(callers')])
      <4>1. PICK r \in Seq(Toks) : r = Read
        BY <2>5
      <4>2. /\ r \o ((s \o x) \o y) = (r \o s) \o (x \o y)
            /\ r \o ((s \o x) \o y) = r \o (s \o (x \o y))
        <5>1. Regrouped(r, s, x, y)
          BY Reassociated
        <5> QED
          BY <5>1, Zenon DEF Regrouped
      <4>3. Total(F) = r \o ((s \o x) \o y)
        BY <3>1, <3>2, <3>17, <3>18, <4>1
      <4> QED
        BY <2>3, <3>20, <3>22, <3>24, <4>1, <4>2, <4>3
    <3>28. HalfRead(F)'
      BY <3>26, <3>27 DEF HalfRead, Awaited
    <3>29. Read' \in Seq(Toks) /\ ~IsBad(Read') /\ ~error' /\ at' = "trivia"
      BY <1>5, <1>10, <2>3, <2>5
    <3> QED
      BY <3>28, <3>29 DEF SoFar
  <2> QED
    BY <1>5, <2>2, <2>4, <2>5 DEF SoFar
<1> QED
  BY <1>8, <1>9, <1>10, Zenon DEF MeantInv

(* Nothing is ahead at the end of a text.                                  *)
LEMMA AheadAtEnd ==
  ASSUME Cursor, buffer_pos = Len(Text), NEW F, Later(F)
  PROVE  Ahead(F) = <<>>
<1>1. PICK D : D = MaxDepth - Len(callers) /\ D \in 0 .. MaxDepth
  BY DEF Cursor
<1>2. GoodTexts(F) /\ buffer \in DOMAIN F /\ F[buffer] = Text
  BY DEF Later, Cursor, Text
<1>3. buffer_pos \in 0 .. Len(F[buffer]) /\ buffer_pos = Len(F[buffer])
  BY <1>2 DEF Cursor
<1>4. Rest(F, D, buffer, buffer_pos) = <<>>
  BY <1>1, <1>2, <1>3, RestFacts, Zenon
<1> QED
  BY <1>1, <1>4 DEF Ahead

(* The end of a text: of the main file, all is read; of an included one,   *)
(* what is behind its include is ahead.                                    *)
LEMMA TextEndMeant ==
  ASSUME IInv, MeantInv, TextEnd
  PROVE  MeantInv'
<1>1. /\ at = "trivia" /\ c(buffer_pos) = NUL /\ files' = files /\ tokens' = tokens /\ error' = error
  BY DEF TextEnd, array
<1>2. Cursor
  BY <1>1, CursorFacts
<1>3. (MainFile \in DOMAIN files /\ DOMAIN files \subseteq OnDisk)'
  BY <1>1 DEF MeantInv, OnDisk
<1>4. PICK L \in Nat : L = Len(callers)
  BY <1>2 DEF Cursor
<1>5. buffer_pos = Len(Text)
  <2>1. PICK p \in Nat : p = buffer_pos /\ p <= Len(Text)
    BY <1>2 DEF Cursor
  <2>2. Len(Text) <= p
    BY <1>1, <1>2, <2>1, CharFacts DEF Cursor
  <2> QED
    BY <1>2, <2>1, <2>2 DEF Cursor
<1>6. CASE callers = <<>>
  <2>1. at' = "eof" /\ callers' = callers /\ L = 0
    BY <1>4, <1>6 DEF TextEnd
  <2>2. Tried'
    BY <2>1 DEF Tried
  <2>3. ASSUME NEW F, Later(F)'  PROVE SoFar(F)'
    <3>1. Later(F)
      BY <1>1, <2>3 DEF Later, OnDisk
    <3>2. SoFar(F)
      BY <1>1, <3>1 DEF MeantInv
    <3>3. Total(F)' = Total(F) /\ Read' = Read
      BY <1>1 DEF Total, Read
    <3>4. CASE IsCut(Total(F)) \/ (error /\ IsBad(Total(F)))
      BY <1>1, <3>3, <3>4 DEF SoFar
    <3>5. CASE ~error /\ Read \in Seq(Toks) /\ ~IsBad(Read) /\ HalfRead(F)
      <4>1. PICK R : Awaited(F, callers, R) /\ Total(F) = Read \o (Ahead(F) \o R[Len(callers)])
        BY <3>5 DEF HalfRead
      <4>2. R[Len(callers)] = <<>>
        BY <1>4, <2>1, <4>1 DEF Awaited
      <4>3. Ahead(F) = <<>>
        BY <1>2, <1>5, <3>1, AheadAtEnd
      <4>4. PICK r \in Seq(Toks) : r = Read
        BY <3>5
      <4>5. r \o (<<>> \o <<>>) = r
        OBVIOUS
      <4>6. Total(F) = r
        BY <4>1, <4>2, <4>3, <4>4, <4>5
      <4>7. EofsUpTo(0) = <<>>
        BY DEF EofsUpTo
      <4>8. Read' = Total(F)' \o EofsUpTo(0)
        BY <3>3, <4>4, <4>6, <4>7
      <4>9. 0 \in 0 .. EofTokens
        BY TokenizerAssumption
      <4>10. ~IsBad(Total(F)') /\ ~error' /\ at' = "eof" /\ at' # "done"
        BY <1>1, <2>1, <3>3, <3>5, <4>4, <4>6
      <4> QED
        BY <4>8, <4>9, <4>10 DEF SoFar
    <3> QED
      BY <1>1, <3>2, <3>4, <3>5 DEF SoFar
  <2> QED
    BY <1>3, <2>2, <2>3, Zenon DEF MeantInv
<1>7. CASE callers # <<>>
  <2>1. PICK e : e = callers[L]
    OBVIOUS
  <2>2. /\ buffer' = e.buffer /\ buffer_pos' = e.buffer_pos
        /\ callers' = SubSeq(callers, 1, Len(callers) - 1) /\ at' = at
    BY <1>4, <1>7, <2>1 DEF TextEnd
  <2>3. L # 0
    <3>1. DOMAIN callers = 1 .. L
      BY <1>2, <1>4, SequenceFacts DEF Cursor
    <3>2. callers \in Seq({callers[i] : i \in DOMAIN callers})
      BY <1>2 DEF Cursor, IsSequence
    <3> QED
      BY <1>4, <1>7, <3>2
  <2>4. /\ Len(callers') = L - 1
        /\ \A k \in 1 .. L - 1 : callers'[k] = callers[k]
    <3>1. /\ Len(callers') = Len(callers) - 1
          /\ \A k \in 1 .. Len(callers') : callers'[k] = callers[k]
      BY <1>2, <1>4, <2>2, <2>3, SequenceShortened DEF Cursor
    <3> QED
      BY <1>4, <3>1
  <2>5. Tried'
    BY <1>1, <2>2 DEF Tried
  <2>6. ASSUME NEW F, Later(F)'  PROVE SoFar(F)'
    <3>1. Later(F)
      BY <1>1, <2>6 DEF Later, OnDisk
    <3>2. SoFar(F)
      BY <1>1, <3>1 DEF MeantInv
    <3>3. Total(F)' = Total(F) /\ Read' = Read
      BY <1>1 DEF Total, Read
    <3>4. CASE IsCut(Total(F)) \/ (error /\ IsBad(Total(F)))
      BY <1>1, <3>3, <3>4 DEF SoFar
    <3>5. CASE ~error /\ Read \in Seq(Toks) /\ ~IsBad(Read) /\ HalfRead(F)
      <4>1. PICK R : Awaited(F, callers, R) /\ Total(F) = Read \o (Ahead(F) \o R[Len(callers)])
        BY <3>5 DEF HalfRead
      <4>2. R \in [0 .. L -> Seq(Toks)] /\ R[0] = <<>>
        BY <1>4, <4>1 DEF Awaited
      <4>3. PICK K \in Nat : K = L - 1 /\ L \in 1 .. L /\ L \in 0 .. L
        BY <2>3
      <4>4. PICK z \in Seq(Toks) : z = R[L]
        BY <4>2, <4>3
      <4>5. z = Rest(F, MaxDepth - K, e.buffer, e.buffer_pos) \o R[K]
        BY <1>4, <2>1, <4>1, <4>3, <4>4 DEF Awaited
      <4>6. Ahead(F) = <<>>
        BY <1>2, <1>5, <3>1, AheadAtEnd
      <4>7. <<>> \o z = z
        BY EmptyFacts
      <4>8. Total(F) = Read \o z
        BY <1>4, <4>1, <4>4, <4>6, <4>7
      <4>9. Ahead(F)' = Rest(F, MaxDepth - K, e.buffer, e.buffer_pos)
        BY <2>2, <2>4, <4>3 DEF Ahead
      <4>10. PICK Q : Q = [k \in 0 .. K |-> R[k]]
        OBVIOUS
      <4>11. /\ Q \in [0 .. K -> Seq(Toks)]
             /\ \A k \in 0 .. K : Q[k] = R[k]
        <5>1. \A k \in 0 .. K : k \in 0 .. L
          BY <4>3
        <5> QED
          BY <4>2, <4>10, <5>1
      <4>12. Awaited(F, callers', Q)
        <5>1. Q[0] = <<>>
          BY <4>2, <4>11
        <5>2. ASSUME NEW k \in 1 .. K
              PROVE  Q[k] = Rest(F, MaxDepth - (k - 1), callers'[k].buffer, callers'[k].buffer_pos) \o Q[k - 1]
          <6>1. k \in 1 .. L /\ k \in 0 .. K /\ k - 1 \in 0 .. K
            BY <4>3
          <6>2. R[k] = Rest(F, MaxDepth - (k - 1), callers[k].buffer, callers[k].buffer_pos) \o R[k - 1]
            BY <1>4, <4>1, <6>1 DEF Awaited
          <6>3. callers'[k] = callers[k] /\ Q[k] = R[k] /\ Q[k - 1] = R[k - 1]
            BY <2>4, <4>3, <4>11, <6>1
          <6> QED
            BY <6>2, <6>3
        <5> QED
          BY <2>4, <4>3, <4>11, <5>1, <5>2 DEF Awaited
      <4>13. Total(F)' = Read' \o (Ahead(F)' \o Q[Len(callers')])
        <5>1. Q[Len(callers')] = R[K]
          BY <2>4, <4>3, <4>11
        <5> QED
          BY <3>3, <4>5, <4>8, <4>9, <5>1
      <4>14. HalfRead(F)'
        BY <4>12, <4>13 DEF HalfRead, Awaited
      <4>15. ~error' /\ Read' \in Seq(Toks) /\ ~IsBad(Read') /\ at' = "trivia"
        BY <1>1, <2>2, <3>3, <3>5
      <4> QED
        BY <4>14, <4>15 DEF SoFar
    <3> QED
      BY <1>1, <3>2, <3>4, <3>5 DEF SoFar
  <2> QED
    BY <1>3, <2>5, <2>6, Zenon DEF MeantInv
<1> QED
  BY <1>6, <1>7

(* The tokens of the end, behind others.                                   *)
LEMMA EofsFacts ==
  ASSUME NEW T \in Seq(Toks), NEW n \in Nat
  PROVE  /\ DOMAIN (T \o EofsUpTo(n)) = 1 .. Len(T) + n
         /\ \A i \in 1 .. Len(T) : (T \o EofsUpTo(n))[i] = T[i]
         /\ \A i \in Len(T) + 1 .. Len(T) + n : (T \o EofsUpTo(n))[i] = Meant("eof", <<>>)
         /\ (T \o EofsUpTo(n)) \o <<Meant("eof", <<>>)>> = T \o EofsUpTo(n + 1)
<1>1. PICK m : m = Meant("eof", <<>>)
  OBVIOUS
<1>2. PICK E : E = EofsUpTo(n)
  OBVIOUS
<1>3. PICK G : G = EofsUpTo(n + 1)
  OBVIOUS
<1>4. PICK N \in Nat : N = Len(T)
  OBVIOUS
<1>5. E = [i \in 1 .. n |-> m] /\ G = [i \in 1 .. n + 1 |-> m]
  BY <1>1, <1>2, <1>3 DEF EofsUpTo
<1> DEFINE S == Toks \cup {m}
<1>6. T \in [1 .. N -> Toks] /\ T \in Seq(S)
  <2>1. T \in [1 .. N -> Toks]
    BY <1>4
  <2>2. T \in [1 .. N -> S]
    BY <2>1
  <2> HIDE DEF S
  <2> QED
    BY <2>1, <2>2, FunctionIsSequence
<1>7. E \in Seq(S) /\ Len(E) = n
  <2>1. E \in [1 .. n -> S]
    BY <1>5
  <2> HIDE DEF S
  <2> QED
    BY <2>1, FunctionIsSequence
<1>8. G \in Seq(S) /\ Len(G) = n + 1
  <2>1. G \in [1 .. n + 1 -> S] /\ n + 1 \in Nat
    BY <1>5
  <2> HIDE DEF S
  <2> QED
    BY <2>1, FunctionIsSequence
<1>9. m \in S
  OBVIOUS
<1> HIDE DEF S
<1>10. /\ DOMAIN (T \o E) = 1 .. N + n
       /\ \A i \in 1 .. N : (T \o E)[i] = T[i]
       /\ \A i \in 1 .. n : (T \o E)[N + i] = E[i]
  BY <1>4, <1>6, <1>7, ConcatFacts
<1>11. ASSUME NEW i \in N + 1 .. N + n  PROVE (T \o E)[i] = m
  <2>1. PICK k \in 1 .. n : i = N + k
    <3>1. i - N \in 1 .. n /\ i = N + (i - N)
      OBVIOUS
    <3> QED
      BY <3>1
  <2> QED
    BY <1>5, <1>10, <2>1
<1>12. E \o <<m>> = G
  <2>1. \A i \in 1 .. n : E[i] = m /\ G[i] = m
    BY <1>5
  <2>2. G[n + 1] = m
    BY <1>5
  <2> QED
    BY <1>7, <1>8, <1>9, <2>1, <2>2
<1>13. (T \o E) \o <<m>> = T \o (E \o <<m>>)
  BY <1>6, <1>7, <1>9
<1> QED
  BY <1>1, <1>2, <1>3, <1>4, <1>10, <1>11, <1>12, <1>13

LEMMA EofMeant ==
  ASSUME IInv, MeantInv, Eof
  PROVE  MeantInv'
<1>1. at = "eof" /\ files' = files /\ error' = error /\ at' \in {"eof", "done"}
  BY DEF Eof
<1>2. Cursor
  BY <1>1, CursorFacts
<1>3. (MainFile \in DOMAIN files /\ DOMAIN files \subseteq OnDisk)' /\ Tried'
  BY <1>1 DEF MeantInv, OnDisk, Tried
<1>4. ASSUME NEW F, Later(F)'  PROVE SoFar(F)'
  <2>1. Later(F)
    BY <1>1, <1>4 DEF Later, OnDisk
  <2>2. SoFar(F)
    BY <1>1, <2>1 DEF MeantInv
  <2>3. PICK T : T = Total(F) /\ T = Total(F)'
    BY <1>1 DEF Total
  <2>4. CASE IsCut(T) \/ (error /\ IsBad(T))
    BY <1>1, <2>3, <2>4 DEF SoFar
  <2>5. CASE /\ ~error /\ ~IsBad(T)
             /\ \E n \in 0 .. EofTokens : Read = T \o EofsUpTo(n)
    <3>1. PICK n \in 0 .. EofTokens : Read = T \o EofsUpTo(n)
      BY <2>5
    <3>2. T \in Seq(Toks)
      <4>1. GoodTexts(F) /\ MainFile \in DOMAIN F /\ MaxDepth \in 0 .. MaxDepth
        BY <2>1, TokenizerAssumption DEF MeantInv, Later
      <4>2. Meanings(F)[MaxDepth][MainFile] \in Seq(Toks)
        BY <4>1, MeaningsFacts
      <4> QED
        BY <2>3, <4>2 DEF Total
    <3>3. n \in Nat /\ EofTokens \in Nat /\ n <= EofTokens
      BY TokenizerAssumption
    <3>4. PICK N \in Nat : N = Len(T)
      BY <3>2
    <3>5. PICK r : r = Read
      OBVIOUS
    <3>6. DOMAIN r = DOMAIN tokens
      BY <3>5 DEF Read
    <3>7. /\ DOMAIN r = 1 .. N + n
          /\ \A i \in 1 .. N : r[i] = T[i]
          /\ \A i \in N + 1 .. N + n : r[i] = Meant("eof", <<>>)
      BY <3>1, <3>2, <3>3, <3>4, <3>5, EofsFacts
    <3>8. \A i \in DOMAIN tokens : r[i].kind = tokens[i].kind
      BY <3>5 DEF Read, Meant, Told
    <3>9. {i \in DOMAIN tokens : tokens[i].kind = "eof"} = N + 1 .. N + n
      <4>1. \A i \in 1 .. N : T[i].kind # "eof"
        <5>1. \A i \in 1 .. N : T[i] \in Toks
          BY <3>2, <3>4
        <5> QED
          BY <5>1 DEF Toks, Kinds
      <4>2. \A i \in 1 .. N : i \in DOMAIN tokens /\ tokens[i].kind # "eof"
        <5>1. \A i \in 1 .. N : i \in 1 .. N + n
          BY <3>3
        <5> QED
          BY <3>6, <3>7, <3>8, <4>1, <5>1, Zenon
      <4>3. \A i \in N + 1 .. N + n : i \in DOMAIN tokens /\ tokens[i].kind = "eof"
        <5>1. \A i \in N + 1 .. N + n : i \in 1 .. N + n
          BY <3>3
        <5>2. Meant("eof", <<>>).kind = "eof"
          BY DEF Meant, Told
        <5> QED
          BY <3>6, <3>7, <3>8, <5>1, <5>2, Zenon
      <4>4. \A i \in 1 .. N + n : i \in 1 .. N \/ i \in N + 1 .. N + n
        BY <3>3
      <4> QED
        BY <3>6, <3>7, <4>2, <4>3, <4>4, Zenon
    <3>10. Cardinality({i \in DOMAIN tokens : tokens[i].kind = "eof"}) = n
      <4>1. Cardinality(N + 1 .. N + n) = n
        <5>1. N + 1 \in Int /\ N + n \in Int
          BY <3>3
        <5>2. Cardinality(N + 1 .. N + n) = IF N + 1 > N + n THEN 0 ELSE (N + n) - (N + 1) + 1
          BY <5>1, FS_Interval, Zenon
        <5> QED
          BY <3>3, <5>2
      <4> QED
        BY <3>9, <4>1
    <3>11. CASE n < EofTokens
      <4>1. AddToken("eof", <<>>, buffer_pos, buffer_pos, source_pos) /\ at' = at
        BY <3>10, <3>11 DEF Eof
      <4>2. PICK b, pos : AddToken("eof", <<>>, b, b, pos)
        BY <4>1
      <4>3. Read' = Read \o <<Meant("eof", <<>>)>>
        BY <1>2, <4>2, ReadWith DEF Cursor
      <4>4. Read' = T \o EofsUpTo(n + 1)
        BY <3>1, <3>2, <3>3, <4>3, EofsFacts
      <4>5. n + 1 \in 0 .. EofTokens
        BY <3>3, <3>11
      <4> QED
        BY <1>1, <2>3, <2>5, <4>1, <4>4, <4>5 DEF SoFar
    <3>12. CASE ~(n < EofTokens)
      <4>1. at' = "done" /\ tokens' = tokens
        BY <3>10, <3>12 DEF Eof, array
      <4>2. Read' = Read /\ n = EofTokens
        BY <3>3, <3>12, <4>1 DEF Read
      <4> QED
        BY <1>1, <2>3, <2>5, <3>1, <4>1, <4>2 DEF SoFar
    <3> QED
      BY <3>11, <3>12
  <2> QED
    BY <1>1, <2>2, <2>3, <2>4, <2>5 DEF SoFar
<1> QED
  BY <1>3, <1>4, Zenon DEF MeantInv

LEMMA InitMeant ==
  ASSUME Init
  PROVE  MeantInv
<1>1. /\ DOMAIN files = {MainFile} /\ buffer = MainFile /\ buffer_pos = 0 /\ tokens = <<>>
      /\ error = FALSE /\ callers = <<>> /\ at = "trivia"
  BY DEF Init
<1>2. MainFile \in DOMAIN files /\ DOMAIN files \subseteq OnDisk /\ Tried
  BY <1>1 DEF OnDisk, Tried
<1>3. ASSUME NEW F, Later(F)  PROVE SoFar(F)
  <2>1. GoodTexts(F) /\ MainFile \in DOMAIN F /\ MaxDepth \in 0 .. MaxDepth /\ MaxDepth \in Nat
    BY <1>2, <1>3, TokenizerAssumption DEF Later
  <2>2. PICK T \in Seq(Toks) : T = Total(F)
    BY <2>1, MeaningsFacts DEF Total
  <2>3. T = From(F[MainFile], Others(F, MaxDepth))[1]
    BY <2>1, <2>2, MeaningsFacts DEF Total
  <2>4. T = Ahead(F)
    <3>1. Len(callers) = 0 /\ MaxDepth - 0 = MaxDepth /\ 0 + 1 = 1
      BY <1>1, <2>1
    <3> QED
      BY <1>1, <2>3, <3>1 DEF Ahead, Rest
  <2>5. PICK R : R = [k \in 0 .. 0 |-> <<>>]
    OBVIOUS
  <2>6. Awaited(F, callers, R) /\ R[Len(callers)] = <<>>
    <3>1. Len(callers) = 0 /\ R \in [0 .. 0 -> Seq(Toks)] /\ R[0] = <<>>
      BY <1>1, <2>5
    <3> QED
      BY <3>1 DEF Awaited
  <2>7. Read = <<>>
    BY <1>1 DEF Read
  <2>8. T = <<>> \o (T \o <<>>)
    BY EmptyFacts
  <2>9. HalfRead(F)
    BY <2>2, <2>4, <2>6, <2>7, <2>8 DEF HalfRead
  <2>10. Read \in Seq(Toks) /\ ~IsBad(Read)
    BY <2>7 DEF IsBad
  <2> QED
    BY <1>1, <2>9, <2>10 DEF SoFar
<1> QED
  BY <1>2, <1>3, Zenon DEF MeantInv

-----------------------------------------------------------------------------
(***************************************************************************)
(* The loop of ktl_token_str_lit and the grammar of strings                *)
(***************************************************************************)
(* Induction from b down to a.                                             *)
LEMMA FromTheEnd ==
  ASSUME NEW a \in Nat, NEW b \in Nat, NEW T,
         \A p \in a .. b : (\A q \in p + 1 .. b : q \in T) => p \in T
  PROVE  \A p \in a .. b : p \in T
<1> DEFINE U == {m \in 0 .. b + 1 : \A q \in a .. b : b + 1 - m <= q => q \in T}
<1>1. 0 \in U
  OBVIOUS
<1>2. ASSUME NEW m \in 1 .. b + 1, m - 1 \in U  PROVE m \in U
  <2>1. ASSUME NEW q \in a .. b, b + 1 - m <= q  PROVE q \in T
    <3>1. \A k \in q + 1 .. b : k \in a .. b /\ b + 1 - (m - 1) <= k
      BY <1>2, <2>1
    <3>2. \A k \in q + 1 .. b : k \in T
      BY <1>2, <3>1
    <3> QED
      BY <3>2
  <2>2. m \in 0 .. b + 1
    OBVIOUS
  <2> QED
    BY <2>1, <2>2
<1>3. b + 1 \in U
  <2>1. b + 1 \in Nat
    OBVIOUS
  <2> HIDE DEF U
  <2>2. \A m \in 1 .. b + 1 : m - 1 \in U => m \in U
    BY <1>2, Zenon
  <2>3. \A m \in 0 .. b + 1 : m \in U
    BY <1>1, <2>1, <2>2, UpTo, Zenon
  <2> QED
    BY <2>1, <2>3
<1>4. \A q \in a .. b : b + 1 - (b + 1) <= q
  OBVIOUS
<1> QED
  BY <1>3, <1>4

LEMMA RoundSays ==
  ASSUME Text \in Seq(Chars), NEW p \in Nat, NEW r \in Scans, NEW o, o = Round(p, r), c(p) # NL
  PROVE  /\ c(p) = Back => o.text = <<Escaped(c(p + 1))>> \o r.text
         /\ c(p) # Back => o.text = <<c(p)>> \o r.text
<1>1. \A x : Keep_(x, r).text = <<x>> \o r.text
  BY DEF Keep_, Scans
<1>2. CASE c(p) = Back
  <2>1. PICK k : k = Keep_(Escaped(c(p + 1)), r)
    OBVIOUS
  <2>2. k \in Scans
    <3>1. Escaped(c(p + 1)) \in Signs
      BY SignsFacts
    <3> QED
      BY <2>1, <3>1, KeepFacts
  <2>3. PICK b : o = [k EXCEPT !.known = b]
    BY <1>2, <2>1, Zenon DEF Round
  <2>4. o.text = k.text
    BY <2>2, <2>3 DEF Scans
  <2> QED
    BY <1>1, <1>2, <2>1, <2>4
<1>3. CASE c(p) # Back
  <2>1. o = Keep_(c(p), r)
    BY <1>3, Zenon DEF Round
  <2> QED
    BY <1>1, <1>3, <2>1
<1> QED
  BY <1>2, <1>3

(* The loop from p on, by the rounds it makes.                             *)
LEMMA LiteralIs ==
  ASSUME Text \in Seq(Chars), NEW p \in 0 .. Len(Text) + 1
  PROVE  Literal(p) =
           IF p > Len(Text) THEN Ends_(p, "past")
           ELSE IF c(p) = NUL THEN Ends_(p, "open")
           ELSE IF c(p) = Quote THEN Ends_(p + 1, "closed")
           ELSE Round(p, IF c(p) \in {Back, NL} THEN Literal(p + 2) ELSE Literal(p + 1))
<1>1. PICK s :
        s = [q \in 0 .. Len(Text) + 1 |-> Scanned(q, s)] /\ \A q : Literal(q) = s[q]
  <2>1. PICK f \in [0 .. Len(Text) + 1 -> Scans] :
          f = [q \in 0 .. Len(Text) + 1 |-> Scanned(q, f)]
    BY ScanExists
  <2> DEFINE Scan == CHOOSE f_1 : f_1 = [q \in 0 .. Len(Text) + 1 |-> Scanned(q, f_1)]
  <2>2. \A q : Literal(q) = Scan[q]
    BY DEF Literal, Scanned, Ends_, Keep_
  <2>3. Scan = [q \in 0 .. Len(Text) + 1 |-> Scanned(q, Scan)]
    BY <2>1
  <2> HIDE DEF Scan
  <2> QED
    BY <2>2, <2>3
<1>2. s[p] = Scanned(p, s)
  BY <1>1
<1>3. s[p] =  IF p > Len(Text) THEN Ends_(p, "past")
              ELSE IF c(p) = NUL THEN Ends_(p, "open")
              ELSE IF c(p) = Quote THEN Ends_(p + 1, "closed")
              ELSE Round(p, IF c(p) \in {Back, NL} THEN s[p + 2] ELSE s[p + 1])
  BY <1>2, ScannedIsRound, Zenon
<1>4. Literal(p) = s[p] /\ Literal(p + 1) = s[p + 1] /\ Literal(p + 2) = s[p + 2]
  BY <1>1
<1> QED
  BY <1>3, <1>4, Zenon

LEMMA EndsAre ==
  ASSUME NEW q \in Nat
  PROVE  /\ Ends_(q, "past") \in Scans /\ Ends_(q, "past").how = "past"
         /\ Ends_(q, "open").how = "open"
         /\ Ends_(q, "closed") \in Scans /\ Ends_(q, "closed").how = "closed"
         /\ Ends_(q, "closed").end = q /\ Ends_(q, "closed").known = TRUE
         /\ Ends_(q, "closed").text = <<>>
<1>1. <<>> \in Seq(Signs)
  OBVIOUS
<1> QED
  BY <1>1 DEF Ends_, Scans

LEMMA LiteralTyped ==
  ASSUME Text \in Seq(Chars), NEW p \in 0 .. Len(Text) + 1
  PROVE  /\ Literal(p) \in Scans
         /\ p = Len(Text) + 1 => Literal(p).how = "past"
<1>1. Len(Text) \in Nat /\ p \in Nat
  OBVIOUS
<1>2. CASE p = Len(Text) + 1
  <2>1. p > Len(Text)
    BY <1>1, <1>2
  <2>2. Literal(p) = Ends_(p, "past")
    BY <2>1, LiteralIs, Zenon
  <2>3. PICK q \in Nat : q = p
    BY <1>1
  <2>4. Ends_(q, "past") \in Scans /\ Ends_(q, "past").how = "past"
    BY EndsAre, Zenon
  <2>5. Literal(p) = Ends_(q, "past")
    BY <2>2, <2>3
  <2>6. Literal(p) \in Scans /\ Literal(p).how = "past"
    BY <2>4, <2>5
  <2> QED
    BY <2>6
<1>3. CASE p # Len(Text) + 1
  <2>1. p \in 0 .. Len(Text)
    BY <1>1, <1>3
  <2>2. ScanOK(p, Literal(p))
    BY <2>1, LiteralFacts
  <2> QED
    BY <1>3, <2>2 DEF ScanOK
<1> QED
  BY <1>2, <1>3

(* The same, told of the places of the text.                               *)
RoundAt(t, p, o) ==
  /\ p = Len(t) => o.how = "open"
  /\ p < Len(t) /\ t[p + 1] = Quote =>
       /\ o \in Scans /\ o.how = "closed" /\ o.end = p + 1
       /\ o.known = TRUE /\ o.text = <<>>
  /\ p < Len(t) /\ t[p + 1] = Back =>
       \E r \in Scans :
         /\ r = Literal(p + 2) /\ o \in Scans /\ o.how = r.how /\ o.end = r.end
         /\ p + 2 <= Len(t) =>
              /\ o.known = (r.known /\ t[p + 2] \in DOMAIN Escapes)
              /\ o.text = <<Escaped(t[p + 2])>> \o r.text
  /\ p < Len(t) /\ t[p + 1] \notin {Quote, Back, NL} =>
       \E r \in Scans :
         /\ r = Literal(p + 1) /\ o \in Scans /\ o.how = r.how /\ o.end = r.end
         /\ o.known = r.known /\ o.text = <<t[p + 1]>> \o r.text

LEMMA LiteralAt ==
  ASSUME NEW t \in Seq(Chars), t = Text, NEW p \in 0 .. Len(t), NEW o, o = Literal(p)
  PROVE  RoundAt(t, p, o)
<1> USE DEF RoundAt
<1>1. /\ Len(t) \in Nat /\ p \in Nat /\ Len(Text) = Len(t) /\ ~(p > Len(Text))
      /\ p \in 0 .. Len(Text) + 1
  OBVIOUS
<1>2. \A q \in Nat : /\ c(q) = NUL <=> Len(t) <= q
                     /\ q < Len(t) => c(q) = t[q + 1] /\ c(q) # NUL
  BY CharFacts
<1>3. o = IF c(p) = NUL THEN Ends_(p, "open")
          ELSE IF c(p) = Quote THEN Ends_(p + 1, "closed")
          ELSE Round(p, IF c(p) \in {Back, NL} THEN Literal(p + 2) ELSE Literal(p + 1))
  BY <1>1, LiteralIs, Zenon
<1>4. Back # Quote /\ Back # NL /\ Quote # NUL /\ NL # NUL
  BY DEF Back, Quote, NL, NUL
<1>5. CASE p = Len(t)
  <2>1. o = Ends_(p, "open")
    BY <1>1, <1>2, <1>3, <1>5
  <2>2. o.how = "open"
    <3>1. PICK q \in Nat : q = p
      BY <1>1
    <3>2. Ends_(q, "open").how = "open"
      BY EndsAre, Zenon
    <3> QED
      BY <2>1, <3>1, <3>2
  <2>3. ~(p < Len(t))
    BY <1>1, <1>5
  <2> QED
    BY <2>2, <2>3
<1>6. CASE p < Len(t)
  <2>1. c(p) = t[p + 1] /\ c(p) # NUL /\ p # Len(t) /\ p + 1 \in Nat
        /\ p + 1 \in 0 .. Len(Text) + 1 /\ p + 2 \in 0 .. Len(Text) + 1
    BY <1>1, <1>2, <1>6
  <2>2. CASE t[p + 1] = Quote
    <3>1. o = Ends_(p + 1, "closed")
      BY <1>3, <2>1, <2>2
    <3>2. /\ o \in Scans /\ o.how = "closed" /\ o.end = p + 1 /\ o.known = TRUE
         /\ o.text = <<>>
      <4>1. PICK q \in Nat : q = p + 1
        BY <2>1
      <4>2. PICK e : /\ e = Ends_(q, "closed") /\ e \in Scans /\ e.how = "closed"
                     /\ e.end = q /\ e.known = TRUE /\ e.text = <<>>
        BY EndsAre, Zenon
      <4>3. e = o
        BY <3>1, <4>1, <4>2
      <4> QED
        BY <4>1, <4>2, <4>3
    <3> QED
      BY <1>4, <2>1, <2>2, <3>2
  <2>3. CASE t[p + 1] = Back
    <3>1. PICK r \in Scans : r = Literal(p + 2)
      BY <2>1, LiteralTyped
    <3>2. o = Round(p, r)
      BY <1>3, <1>4, <2>1, <2>3, <3>1
    <3>3. /\ o \in Scans /\ o.end = r.end /\ o.how = r.how
          /\ o.known = (r.known /\ c(p + 1) \in DOMAIN Escapes)
      BY <1>1, <2>1, <2>3, <3>2, RoundFacts
    <3>4. o.text = <<Escaped(c(p + 1))>> \o r.text
      BY <1>1, <1>4, <2>1, <2>3, <3>2, RoundSays
    <3>5. p + 2 <= Len(t) => c(p + 1) = t[p + 2]
      <4>1. p + 2 <= Len(t) => p + 1 < Len(t)
        BY <1>1
      <4>2. p + 1 + 1 = p + 2
        BY <1>1
      <4> QED
        BY <1>2, <2>1, <4>1, <4>2
    <3> QED
      BY <1>4, <2>1, <2>3, <3>1, <3>3, <3>4, <3>5
  <2>4. CASE t[p + 1] \notin {Quote, Back, NL}
    <3>1. PICK r \in Scans : r = Literal(p + 1)
      BY <2>1, LiteralTyped
    <3>2. o = Round(p, r)
      BY <1>3, <2>1, <2>4, <3>1
    <3>3. /\ o \in Scans /\ o.end = r.end /\ o.how = r.how /\ o.known = r.known
      BY <1>1, <2>1, <2>4, <3>2, RoundFacts
    <3>4. o.text = <<t[p + 1]>> \o r.text
      BY <1>1, <2>1, <2>4, <3>2, RoundSays
    <3> QED
      BY <2>1, <2>4, <3>1, <3>3, <3>4
  <2>5. CASE t[p + 1] = NL
    BY <1>4, <2>1, <2>5, StringsDiffer
  <2> QED
    BY <2>2, <2>3, <2>4, <2>5
<1> QED
  BY <1>1, <1>5, <1>6

(* From p on, the loop keeps what the literal says behind p.               *)
KnownFrom(t, i, l, p) == \A k \in p + 1 .. l - 1 : Odd(t, i)[k] = 1 => t[k + 1] \in DOMAIN Escapes
Matches(t, i, l, p, o) ==
  /\ o \in Scans /\ o.how = "closed" /\ o.end = l
  /\ o.known <=> KnownFrom(t, i, l, p)
  /\ Said(t, i)[l - 1] = Said(t, i)[p] \o o.text

LEMMA AppendedThen ==
  ASSUME NEW a \in Seq(Signs), NEW x \in Signs, NEW b \in Seq(Signs)
  PROVE  Append(a, x) \o b = a \o (<<x>> \o b)
<1>1. Append(a, x) = a \o <<x>> /\ <<x>> \in Seq(Signs)
  OBVIOUS
<1>2. (a \o <<x>>) \o b = a \o (<<x>> \o b)
  BY <1>1
<1> QED
  BY <1>1, <1>2

(* One round of the loop before the closing quote.                         *)
LEMMA ClosedStep ==
  ASSUME NEW t \in Seq(Chars), t = Text, NEW i \in 1 .. Len(t), NEW l, l = StringLast(t, i),
         StringClosers(t, i) # {}, \A k \in i .. l : t[k] # NL,
         NEW p \in i .. l - 1, Odd(t, i)[p] = 0,
         \A q \in p + 1 .. l - 1 : Odd(t, i)[q] = 0 => Matches(t, i, l, q, Literal(q))
  PROVE  Matches(t, i, l, p, Literal(p))
<1>1. PICK N \in Nat : N = Len(t) /\ i \in Nat /\ i <= N
  BY TextFacts
<1>2. PICK Q : Q = Odd(t, i)
  OBVIOUS
<1>3. PICK W : W = Said(t, i)
  OBVIOUS
<1>4. /\ l \in i + 1 .. N /\ t[l] = Quote /\ Q[l - 1] = 0
      /\ \A j \in i + 1 .. l - 1 : ~(t[j] = Quote /\ Q[j - 1] = 0)
  BY <1>1, <1>2, StringLastFacts
<1>5. l \in Nat /\ p \in Nat /\ p \in 0 .. N /\ p < N /\ i <= p /\ p <= l - 1 /\ l <= N
  BY <1>1, <1>4
<1>6. /\ Q \in [i .. N -> {0, 1}]
      /\ \A j \in i + 1 .. N : Q[j] = IF t[j] # Back THEN 0 ELSE 1 - Q[j - 1]
  BY <1>1, <1>2, OddFacts
<1>7. /\ W \in [i .. N -> Seq(Signs)]
      /\ \A j \in i + 1 .. N :
           /\ Q[j] = 1 => W[j] = W[j - 1]
           /\ Q[j] # 1 => W[j] = Append(W[j - 1], Says(t, i, j))
           /\ Says(t, i, j) \in Signs
           /\ Says(t, i, j) = IF Q[j - 1] = 1 THEN Escaped(t[j]) ELSE t[j]
  <2>1. /\ W \in [i .. N -> Seq(Signs)]
        /\ \A j \in i + 1 .. N :
             /\ Q[j] = 1 => W[j] = W[j - 1]
             /\ Q[j] # 1 => W[j] = Append(W[j - 1], Says(t, i, j))
             /\ Says(t, i, j) \in Signs
    <3>1. /\ Said(t, i) \in [i .. Len(t) -> Seq(Signs)]
          /\ \A j \in i + 1 .. Len(t) :
               /\ Odd(t, i)[j] = 1 => Said(t, i)[j] = Said(t, i)[j - 1]
               /\ Odd(t, i)[j] # 1 => Said(t, i)[j] = Append(Said(t, i)[j - 1], Says(t, i, j))
               /\ Says(t, i, j) \in Signs
      BY SaidFacts
    <3> QED
      BY <1>1, <1>2, <1>3, <3>1, Zenon
  <2>2. \A j : Says(t, i, j) = IF Q[j - 1] = 1 THEN Escaped(t[j]) ELSE t[j]
    BY <1>2 DEF Says
  <2> QED
    BY <2>1, <2>2
<1>8. PICK o : o = Literal(p)
  OBVIOUS
<1>9. /\ Back # Quote
      /\ t[p + 1] = Quote =>
           /\ o \in Scans /\ o.how = "closed" /\ o.end = p + 1
           /\ o.known = TRUE /\ o.text = <<>>
      /\ t[p + 1] = Back =>
           \E r \in Scans :
             /\ r = Literal(p + 2) /\ o \in Scans /\ o.how = r.how /\ o.end = r.end
             /\ p + 2 <= N =>
                  /\ o.known = (r.known /\ t[p + 2] \in DOMAIN Escapes)
                  /\ o.text = <<Escaped(t[p + 2])>> \o r.text
      /\ t[p + 1] \notin {Quote, Back, NL} =>
           \E r \in Scans :
             /\ r = Literal(p + 1) /\ o \in Scans /\ o.how = r.how /\ o.end = r.end
             /\ o.known = r.known /\ o.text = <<t[p + 1]>> \o r.text
  <2>1. Back # Quote
    BY DEF Back, Quote
  <2>2. p \in 0 .. Len(t) /\ p < Len(t) /\ RoundAt(t, p, o)
    BY <1>1, <1>5, <1>8, LiteralAt
  <2>3. t[p + 1] = Quote =>
           /\ o \in Scans /\ o.how = "closed" /\ o.end = p + 1
           /\ o.known = TRUE /\ o.text = <<>>
    BY <2>2, Zenon DEF RoundAt
  <2>4. t[p + 1] = Back =>
           \E r \in Scans :
             /\ r = Literal(p + 2) /\ o \in Scans /\ o.how = r.how /\ o.end = r.end
             /\ p + 2 <= Len(t) =>
                  /\ o.known = (r.known /\ t[p + 2] \in DOMAIN Escapes)
                  /\ o.text = <<Escaped(t[p + 2])>> \o r.text
    BY <2>2, Zenon DEF RoundAt
  <2>5. t[p + 1] \notin {Quote, Back, NL} =>
           \E r \in Scans :
             /\ r = Literal(p + 1) /\ o \in Scans /\ o.how = r.how /\ o.end = r.end
             /\ o.known = r.known /\ o.text = <<t[p + 1]>> \o r.text
    BY <2>2, Zenon DEF RoundAt
  <2> QED
    BY <1>1, <2>1, <2>3, <2>4, <2>5
<1>10. p + 1 \in i + 1 .. N /\ p + 1 \in i .. l /\ p + 1 - 1 = p /\ p \in i .. N /\ l - 1 \in i .. N
  BY <1>1, <1>4, <1>5
<1>11. W[p] \in Seq(Signs) /\ W[l - 1] \in Seq(Signs)
  BY <1>7, <1>10
<1>12. Q[p] = 0 /\ t[p + 1] # NL
  BY <1>2, <1>10
<1>13. CASE p + 1 = l
  <2>1. /\ o \in Scans /\ o.how = "closed" /\ o.end = l /\ o.known = TRUE /\ o.text = <<>>
    BY <1>4, <1>9, <1>13
  <2>2. KnownFrom(t, i, l, p)
    BY <1>5, <1>13 DEF KnownFrom
  <2>3. l - 1 = p
    BY <1>5, <1>13
  <2>4. W[l - 1] = W[p] \o <<>>
    BY <1>11, <2>3
  <2> QED
    BY <1>3, <1>8, <2>1, <2>2, <2>4 DEF Matches
<1>14. CASE p + 1 # l /\ t[p + 1] = Back
  <2>1. Q[p + 1] = 1
    BY <1>6, <1>10, <1>12, <1>14
  <2>2. p + 1 # l - 1
    BY <1>4, <2>1
  <2>3. /\ p + 2 \in p + 1 .. l - 1 /\ p + 2 \in i + 1 .. N /\ p + 2 <= N /\ p + 2 - 1 = p + 1
        /\ p + 2 \in i .. N /\ p + 2 \in Nat
    BY <1>1, <1>5, <1>14, <2>2
  <2>4. Q[p + 2] = 0
    BY <1>6, <2>1, <2>3
  <2>5. PICK n \in p + 1 .. l - 1 : n = p + 2
    BY <2>3
  <2>6. PICK r \in Scans :
          /\ r = Literal(n) /\ o \in Scans /\ o.how = r.how /\ o.end = r.end
          /\ o.known = (r.known /\ t[n] \in DOMAIN Escapes)
          /\ o.text = <<Escaped(t[n])>> \o r.text
    BY <1>9, <1>14, <2>3, <2>5
  <2>7. Matches(t, i, l, n, r)
    BY <1>2, <2>4, <2>5, <2>6
  <2>8. o.how = "closed" /\ o.end = l
    BY <2>6, <2>7 DEF Matches
  <2>9. o.known <=> KnownFrom(t, i, l, p)
    <3>1. r.known <=> \A k \in n + 1 .. l - 1 : Q[k] = 1 => t[k + 1] \in DOMAIN Escapes
      BY <1>2, <2>7 DEF Matches, KnownFrom
    <3>2. (\A k \in p + 1 .. l - 1 : Q[k] = 1 => t[k + 1] \in DOMAIN Escapes)
            <=> (/\ t[n] \in DOMAIN Escapes
                 /\ \A k \in n + 1 .. l - 1 : Q[k] = 1 => t[k + 1] \in DOMAIN Escapes)
      <4>1. p + 1 \in p + 1 .. l - 1 /\ (p + 1) + 1 = n
        BY <1>5, <2>3, <2>5
      <4>2. \A k \in n + 1 .. l - 1 : k \in p + 1 .. l - 1
        BY <1>5, <2>5
      <4>3. \A k \in p + 1 .. l - 1 : k = p + 1 \/ k = n \/ k \in n + 1 .. l - 1
        BY <1>5, <2>5
      <4>4. Q[n] # 1
        BY <2>4, <2>5
      <4> QED
        BY <2>1, <4>1, <4>2, <4>3, <4>4, Zenon
    <3> QED
      BY <1>2, <2>6, <3>1, <3>2, Zenon DEF KnownFrom
  <2>10. W[l - 1] = W[p] \o o.text
    <3>1. W[p + 1] = W[p]
      BY <1>7, <1>10, <2>1
    <3>2. W[n] = Append(W[p + 1], Says(t, i, n)) /\ Says(t, i, n) \in Signs
          /\ Says(t, i, n) = Escaped(t[n])
      <4>1. n \in i + 1 .. N /\ n - 1 = p + 1 /\ Q[n] # 1 /\ Q[n - 1] = 1
        BY <2>1, <2>3, <2>4, <2>5
      <4> QED
        BY <1>7, <4>1
    <3>3. PICK x \in Signs : x = Escaped(t[n])
      BY <3>2
    <3>4. PICK a \in Seq(Signs) : a = W[p]
      BY <1>11
    <3>5. PICK b \in Seq(Signs) : b = r.text
      BY <2>6 DEF Scans
    <3>6. W[l - 1] = Append(a, x) \o b
      BY <1>3, <2>7, <3>1, <3>2, <3>3, <3>4, <3>5 DEF Matches
    <3>7. Append(a, x) \o b = a \o (<<x>> \o b)
      BY AppendedThen, Zenon
    <3> QED
      BY <2>6, <3>3, <3>4, <3>5, <3>6, <3>7
  <2> QED
    BY <1>3, <1>8, <2>6, <2>8, <2>9, <2>10 DEF Matches
<1>15. CASE p + 1 # l /\ t[p + 1] # Back
  <2>1. p + 1 \in i + 1 .. l - 1 /\ p + 1 \in p + 1 .. l - 1
    BY <1>4, <1>5, <1>10, <1>15
  <2>2. t[p + 1] \notin {Quote, Back, NL}
    BY <1>4, <1>10, <1>12, <1>15, <2>1
  <2>3. Q[p + 1] = 0
    BY <1>6, <1>10, <1>15
  <2>5. PICK n \in p + 1 .. l - 1 : n = p + 1 /\ n \in i + 1 .. N /\ n - 1 = p
    BY <1>10, <2>1
  <2>6. PICK r \in Scans :
          /\ r = Literal(n) /\ o \in Scans /\ o.how = r.how /\ o.end = r.end
          /\ o.known = r.known
          /\ o.text = <<t[n]>> \o r.text
    BY <1>9, <2>2, <2>5
  <2>7. Matches(t, i, l, n, r)
    BY <1>2, <2>3, <2>5, <2>6
  <2>8. o.how = "closed" /\ o.end = l
    BY <2>6, <2>7 DEF Matches
  <2>9. o.known <=> KnownFrom(t, i, l, p)
    <3>1. r.known <=> \A k \in n + 1 .. l - 1 : Q[k] = 1 => t[k + 1] \in DOMAIN Escapes
      BY <1>2, <2>7 DEF Matches, KnownFrom
    <3>2. (\A k \in p + 1 .. l - 1 : Q[k] = 1 => t[k + 1] \in DOMAIN Escapes)
            <=> (\A k \in n + 1 .. l - 1 : Q[k] = 1 => t[k + 1] \in DOMAIN Escapes)
      <4>2. \A k \in n + 1 .. l - 1 : k \in p + 1 .. l - 1
        BY <1>5, <2>5
      <4>3. \A k \in p + 1 .. l - 1 : k = n \/ k \in n + 1 .. l - 1
        BY <1>5, <2>5
      <4>4. Q[n] # 1
        BY <2>3, <2>5
      <4> QED
        BY <4>2, <4>3, <4>4, Zenon
    <3> QED
      BY <1>2, <2>6, <3>1, <3>2, Zenon DEF KnownFrom
  <2>10. W[l - 1] = W[p] \o o.text
    <3>2. W[n] = Append(W[p], Says(t, i, n)) /\ Says(t, i, n) \in Signs
          /\ Says(t, i, n) = t[n]
      BY <1>7, <1>12, <2>3, <2>5
    <3>3. PICK x \in Signs : x = t[n]
      BY <3>2
    <3>4. PICK a \in Seq(Signs) : a = W[p]
      BY <1>11
    <3>5. PICK b \in Seq(Signs) : b = r.text
      BY <2>6 DEF Scans
    <3>6. W[l - 1] = Append(a, x) \o b
      BY <1>3, <2>7, <3>2, <3>3, <3>4, <3>5 DEF Matches
    <3>7. Append(a, x) \o b = a \o (<<x>> \o b)
      BY AppendedThen, Zenon
    <3> QED
      BY <2>6, <3>3, <3>4, <3>5, <3>6, <3>7
  <2> QED
    BY <1>3, <1>8, <2>6, <2>8, <2>9, <2>10 DEF Matches
<1> QED
  BY <1>13, <1>14, <1>15

(* The loop comes to the closing quote of the grammar and has kept what    *)
(* the literal says.                                                       *)
LEMMA ClosedLiteral ==
  ASSUME NEW t \in Seq(Chars), t = Text, NEW i \in 1 .. Len(t), NEW l, l = StringLast(t, i),
         StringClosers(t, i) # {}, \A k \in i .. l : t[k] # NL
  PROVE  Matches(t, i, l, i, Literal(i))
<1>1. i \in Nat /\ l \in i + 1 .. Len(t) /\ Len(t) \in Nat
  BY StringLastFacts
<1>2. PICK b \in Nat : b = l - 1 /\ i \in i .. b
  BY <1>1
<1> DEFINE T == {p \in i .. b : Odd(t, i)[p] = 0 => Matches(t, i, l, p, Literal(p))}
<1>3. ASSUME NEW p \in i .. b, \A q \in p + 1 .. b : q \in T  PROVE p \in T
  <2>1. \A q \in p + 1 .. l - 1 : Odd(t, i)[q] = 0 => Matches(t, i, l, q, Literal(q))
    BY <1>2, <1>3
  <2>2. p \in i .. l - 1
    BY <1>2
  <2>3. Odd(t, i)[p] = 0 => Matches(t, i, l, p, Literal(p))
    BY <2>1, <2>2, ClosedStep
  <2> QED
    BY <2>3
<1>4. \A p \in i .. b : p \in T
  <2>1. \A p \in i .. b : (\A q \in p + 1 .. b : q \in T) => p \in T
    BY <1>3
  <2> HIDE DEF T
  <2>2. i \in Nat
    BY <1>1
  <2> QED
    BY ONLY <2>1, <2>2, b \in Nat, FromTheEnd
<1>5. Odd(t, i)[i] = 0
  BY OddFacts
<1> QED
  BY <1>2, <1>4, <1>5

(* Without a closing quote the loop does not come to one.                  *)
LEMMA OpenLiteral ==
  ASSUME NEW t \in Seq(Chars), t = Text, NEW i \in 1 .. Len(t),
         StringClosers(t, i) = {}, \A k \in i .. Len(t) : t[k] # NL
  PROVE  Literal(i).how # "closed"
<1>1. PICK N \in Nat : N = Len(t) /\ i \in Nat /\ i \in i .. N
  BY TextFacts
<1>2. PICK Q : Q = Odd(t, i)
  OBVIOUS
<1>3. \A j \in i + 1 .. N : ~(t[j] = Quote /\ Q[j - 1] = 0)
  BY <1>1, <1>2, StringLastFacts
<1>4. /\ Q \in [i .. N -> {0, 1}] /\ Q[i] = 0
      /\ \A j \in i + 1 .. N : Q[j] = IF t[j] # Back THEN 0 ELSE 1 - Q[j - 1]
  BY <1>1, <1>2, OddFacts
<1> DEFINE T == {p \in i .. N : Q[p] = 0 => Literal(p).how # "closed"}
<1>5. ASSUME NEW p \in i .. N, \A q \in p + 1 .. N : q \in T, Q[p] = 0
      PROVE  Literal(p).how # "closed"
  <2>1. PICK o : o = Literal(p)
    OBVIOUS
  <2>2. p \in Nat /\ p \in 0 .. N
    BY <1>1
  <2>3. /\ p = N => o.how = "open"
        /\ p < N /\ t[p + 1] = Back => \E r : r = Literal(p + 2) /\ o.how = r.how
        /\ p < N /\ t[p + 1] \notin {Quote, Back, NL} => \E r : r = Literal(p + 1) /\ o.how = r.how
    <3>1. RoundAt(t, p, o)
      BY <1>1, <2>1, <2>2, LiteralAt
    <3> QED
      BY <1>1, <3>1 DEF RoundAt
  <2>4. CASE p = N
    BY <2>1, <2>3, <2>4
  <2>5. CASE p < N
    <3>1. p + 1 \in i + 1 .. N /\ p + 1 \in i .. Len(t) /\ p + 1 - 1 = p /\ p + 1 \in p + 1 .. N
      BY <1>1, <2>5
    <3>2. t[p + 1] # Quote /\ t[p + 1] # NL
      BY <1>3, <1>5, <3>1
    <3>3. CASE t[p + 1] = Back
      <4>1. o.how = Literal(p + 2).how
        BY <2>3, <2>5, <3>3
      <4>2. Q[p + 1] = 1
        BY <1>4, <1>5, <3>1, <3>3
      <4>3. CASE p + 1 = N
        <5>1. p + 2 \in 0 .. Len(Text) + 1 /\ p + 2 = Len(Text) + 1
          BY <1>1, <2>2, <4>3
        <5>2. Literal(p + 2).how = "past"
          BY <5>1, LiteralTyped
        <5> QED
          BY <2>1, <4>1, <5>2
      <4>4. CASE p + 1 # N
        <5>1. p + 2 \in i + 1 .. N /\ p + 2 - 1 = p + 1 /\ p + 2 \in p + 1 .. N
          BY <2>2, <3>1, <4>4
        <5>2. Q[p + 2] = 0
          BY <1>4, <4>2, <5>1
        <5>3. p + 2 \in T
          BY <1>5, <5>1
        <5> QED
          BY <2>1, <4>1, <5>2, <5>3
      <4> QED
        BY <4>3, <4>4
    <3>4. CASE t[p + 1] # Back
      <4>1. o.how = Literal(p + 1).how
        BY <2>3, <2>5, <3>2, <3>4
      <4>2. Q[p + 1] = 0
        BY <1>4, <3>1, <3>4
      <4>3. p + 1 \in T
        BY <1>5, <3>1
      <4> QED
        BY <2>1, <4>1, <4>2, <4>3
    <3> QED
      BY <3>3, <3>4
  <2> QED
    BY <1>1, <2>2, <2>4, <2>5
<1>6. \A p \in i .. N : p \in T
  <2>1. \A p \in i .. N : (\A q \in p + 1 .. N : q \in T) => p \in T
    BY <1>5
  <2> HIDE DEF T
  <2> QED
    BY <1>1, <2>1, FromTheEnd
<1> QED
  BY <1>1, <1>4, <1>6

-----------------------------------------------------------------------------
LEMMA StrLitMeant ==
  ASSUME IInv, MeantInv, StrLit
  PROVE  MeantInv'
<1>1. PICK lit : lit = Literal(buffer_pos + 1)
  OBVIOUS
<1> DEFINE fits == Len(lit.text) < MaxLiteral
<1>2. /\ at = "token" /\ c(buffer_pos) = Quote /\ buffer_pos' = lit.end
      /\ error' = (error \/ ~lit.known \/ ~fits \/ lit.how = "open")
      /\ UNCHANGED <<files, buffer, callers>>
  BY <1>1 DEF StrLit
<1>3. \/ /\ lit.how = "closed" /\ at' = "trivia"
         /\ \E from, to, pos :
              AddToken("str_literal", IF fits THEN lit.text ELSE SubSeq(lit.text, 1, MaxLiteral - 1),
                       from, to, pos)
      \/ lit.how = "open" /\ at' = at
      \/ lit.how = "past" /\ at' = "undefined"
  BY <1>1 DEF StrLit
<1> HIDE DEF fits
<1>4. Cursor
  BY <1>2, CursorFacts
<1>5. c(buffer_pos) # NUL
  BY <1>2, SetFacts
<1>6. buffer_pos < Len(Text) /\ buffer_pos \in Nat /\ Len(Text) \in Nat /\ error \in BOOLEAN
  BY <1>4, <1>5, OnSign DEF Cursor
<1>7. PICK t \in Seq(Chars) : \E i \in 1 .. Len(t) : AtPlace(t, i)
  BY <1>4, <1>5, OnSign
<1>8. PICK i \in 1 .. Len(t) :
        t = Text /\ i = buffer_pos + 1 /\ t[i] = Quote /\ Len(t) \in Nat /\ i \in Nat
  BY <1>2, <1>7 DEF AtPlace
<1>9. lit = Literal(i)
  BY <1>1, <1>8
<1>10. lit \in Scans
  <2>1. i \in 0 .. Len(Text) + 1
    BY <1>8
  <2> QED
    BY <1>8, <1>9, <2>1, LiteralTyped
<1>11. lit.end \in Nat /\ lit.known \in BOOLEAN
  BY <1>10 DEF Scans
<1>12. PICK l : l = StringLast(t, i)
  OBVIOUS
<1>13. ASSUME NEW others, NEW piece, piece = PieceAt(Text, buffer_pos + 1, others), ~error,
              at' # "undefined"
       PROVE  Told_(others, piece)
  <2>1. piece = StringAt(t, i)
    BY <1>8, <1>13, PieceIs
  <2>2. PICK cut \in BOOLEAN : cut = StringCut(t, i)
    BY DEF StringCut
  <2>3. PICK k : /\ k = IF StringFine(t, i) THEN Told("str_literal", Said(t, i)[l - 1], cut)
                        ELSE Told("bad", <<>>, cut)
                 /\ piece = Piece(<<k>>, l + 1)
    BY <1>12, <2>1, <2>2, StringIs
  <2>4. piece.says = <<k>> /\ piece.next = l + 1 /\ k.cut = cut
    BY <2>3, PieceFacts DEF Told
  <2>5. CASE cut
    BY <2>4, <2>5, SingleFacts DEF Told_
  <2>6. CASE ~cut
    <3>1. \A j \in i .. l : t[j] # NL
      BY <1>12, <2>2, <2>6 DEF StringCut
    <3>2. CASE StringClosers(t, i) = {}
      <4>1. l = Len(t)
        BY <1>12, <3>2, StringLastFacts
      <4>2. lit.how # "closed"
        BY <1>8, <1>9, <3>1, <3>2, <4>1, OpenLiteral
      <4>3. lit.how = "open"
        BY <1>3, <1>13, <4>2
      <4>4. error'
        BY <1>2, <4>3, Zenon
      <4>5. k.kind = "bad"
        BY <2>3, <3>2 DEF StringFine, Told
      <4> QED
        BY <2>4, <4>4, <4>5, SingleFacts DEF Told_
    <3>3. CASE StringClosers(t, i) # {}
      <4>1. Matches(t, i, l, i, lit)
        BY <1>8, <1>9, <1>12, <3>1, <3>3, ClosedLiteral
      <4>2. lit.how = "closed" /\ lit.end = l
        BY <4>1 DEF Matches
      <4>3. lit.text = Said(t, i)[l - 1]
        <5>1. Said(t, i)[i] = <<>>
          BY SaidFacts
        <5>2. PICK x \in Seq(Signs) : x = lit.text
          BY <1>10 DEF Scans
        <5>3. <<>> \o x = x
          BY EmptyFacts
        <5> QED
          BY <4>1, <5>1, <5>2, <5>3 DEF Matches
      <4>4. lit.known <=> \A j \in i + 1 .. l - 1 : Odd(t, i)[j] = 1 => t[j + 1] \in DOMAIN Escapes
        BY <4>1 DEF Matches, KnownFrom
      <4>5. StringFine(t, i) <=> lit.known /\ fits
        BY <1>12, <3>3, <4>3, <4>4, Zenon DEF StringFine, fits
      <4>6. error' <=> ~(lit.known /\ fits)
        BY <1>2, <1>13, <4>2
      <4>7. CASE error'
        <5>1. k = Told("bad", <<>>, cut)
          BY <2>3, <4>5, <4>6, <4>7
        <5>2. k.kind = "bad"
          BY <5>1 DEF Told
        <5> QED
          BY <2>4, <4>7, <5>2, SingleFacts DEF Told_
      <4>8. CASE ~error'
        <5>1. k = Told("str_literal", lit.text, FALSE)
          BY <2>3, <2>6, <4>3, <4>5, <4>6, <4>8
        <5>2. PICK text : text = lit.text
          OBVIOUS
        <5>3. piece = Piece(<<Meant("str_literal", text)>>, buffer_pos' + 1)
          BY <1>2, <2>3, <4>2, <5>1, <5>2 DEF Meant
        <5>4. PICK from, to, pos : AddToken("str_literal", text, from, to, pos)
          BY <1>3, <4>2, <4>6, <4>8, <5>2
        <5>5. "str_literal" # "bad"
          OBVIOUS
        <5> QED
          BY <1>4, <4>8, <5>3, <5>4, <5>5, ReadsOne, Zenon
      <4> QED
        BY <4>7, <4>8
    <3> QED
      BY <3>2, <3>3
  <2> QED
    BY <2>5, <2>6
<1>14. /\ at \in {"trivia", "include", "token"} /\ at' \in {"trivia", "token", "undefined"}
       /\ at' = "token" => error'
       /\ error => error'
       /\ error' \in BOOLEAN /\ buffer_pos' \in Nat
  <2>1. error' \in BOOLEAN /\ (error => error')
    BY <1>2, <1>6, <1>11, Zenon
  <2>2. buffer_pos' \in Nat
    BY <1>2, <1>11
  <2>3. lit.how = "open" => error'
    BY <1>2, Zenon
  <2> QED
    BY <1>2, <1>3, <2>1, <2>2, <2>3
<1> QED
  BY <1>2, <1>4, <1>6, <1>13, <1>14, MeantOn, Zenon

LEMMA StepMeant == IInv /\ MeantInv /\ [Next]_vars => MeantInv'
<1> SUFFICES ASSUME IInv, MeantInv, [Next]_vars  PROVE MeantInv'
  OBVIOUS
<1>1. CASE Blank
  BY <1>1, BlankMeant
<1>2. CASE LineComment
  BY <1>2, LineCommentMeant
<1>3. CASE BlockComment
  BY <1>3, BlockCommentMeant
<1>4. CASE TriviaEnd \/ NotInclude
  BY <1>4, TriviaEndMeant
<1>5. CASE IncludeFails
  BY <1>5, IncludeFailsMeant
<1>6. CASE Include
  BY <1>6, IncludeMeant
<1>7. CASE TextEnd
  BY <1>7, TextEndMeant
<1>8. CASE Number
  BY <1>8, NumberMeant
<1>9. CASE Char
  BY <1>9, CharMeant
<1>10. CASE StrLit
  BY <1>10, StrLitMeant
<1>11. CASE Word
  BY <1>11, WordMeant
<1>12. CASE Punct
  BY <1>12, PunctMeant
<1>13. CASE Unknown
  BY <1>13, UnknownMeant
<1>14. CASE Eof
  BY <1>14, EofMeant
<1>15. CASE UNCHANGED vars
  <2>1. /\ files' = files /\ buffer' = buffer /\ buffer_pos' = buffer_pos
        /\ buffer_capacity' = buffer_capacity /\ tokens' = tokens
        /\ error' = error /\ callers' = callers /\ at' = at
    BY <1>15 DEF vars, cursor, array
  <2>2. Tried'
    BY <2>1 DEF MeantInv, Tried, IsComment, IsInclude, c, Text
  <2>3. (MainFile \in DOMAIN files /\ DOMAIN files \subseteq OnDisk)'
    BY <2>1 DEF MeantInv, OnDisk
  <2>4. ASSUME NEW F, Later(F)', at' \notin {"undefined", "deep"}  PROVE SoFar(F)'
    <3>1. Later(F)
      BY <2>1, <2>4 DEF Later, OnDisk
    <3>2. SoFar(F)
      BY <2>1, <2>4, <3>1 DEF MeantInv
    <3>3. Read' = Read /\ Total(F)' = Total(F) /\ HalfRead(F)' = HalfRead(F)
      BY <2>1 DEF Read, Total, HalfRead, Ahead, Awaited
    <3> QED
      BY <2>1, <3>2, <3>3 DEF SoFar
  <2> QED
    BY <2>2, <2>3, <2>4, Zenon DEF MeantInv
<1> QED
  BY <1>1, <1>2, <1>3, <1>4, <1>5, <1>6, <1>7, <1>8, <1>9, <1>10, <1>11, <1>12, <1>13,
     <1>14, <1>15 DEF Next

(* At the end nothing is ahead.                                            *)
LEMMA ReadAtEnd == IInv /\ MeantInv => WrittenIsRead
<1> SUFFICES ASSUME IInv, MeantInv, at = "done", ~IsCut(Meaning)
             PROVE  /\ error <=> IsBad(Meaning)
                    /\ ~error => Read = Meaning \o Eofs
  BY DEF WrittenIsRead
<1>1. Later(files)
  BY DEF Later, MeantInv, IInv, ContextInv
<1>2. SoFar(files)
  BY <1>1 DEF MeantInv
<1>3. Total(files) = Meaning /\ Eofs = EofsUpTo(EofTokens)
  BY DEF Total, Meaning, Eofs, EofsUpTo
<1>4. CASE error /\ IsBad(Meaning)
  BY <1>4
<1>5. CASE /\ ~error /\ ~IsBad(Meaning)
           /\ \E n \in 0 .. EofTokens : Read = Meaning \o EofsUpTo(n) /\ n = EofTokens
  BY <1>3, <1>5
<1> QED
  BY <1>2, <1>3, <1>4, <1>5 DEF SoFar

-----------------------------------------------------------------------------
(***************************************************************************)
(* The theorems                                                            *)
(***************************************************************************)
LEMMA InitInv == Init => IInv
<1> SUFFICES ASSUME Init  PROVE IInv
  OBVIOUS
<1>1. /\ buffer = MainFile /\ buffer_pos = 0 /\ buffer_capacity = Len(files[MainFile])
      /\ source_pos = Pos(0, 0) /\ tokens = <<>> /\ token_capacity = StartTokens
      /\ error = FALSE /\ callers = <<>> /\ at = "trivia"
  BY DEF Init
<1>2. PICK main \in Texts(MaxMain) : files = [f \in {MainFile} |-> main]
  BY DEF Init
<1>3. MaxMain \in Nat /\ MaxDepth \in Nat /\ StartTokens \in Nat \ {0}
  BY TokenizerAssumption DEF TokenizerAssumption
<1>4. main \in Seq(Chars)
  BY <1>2, <1>3, TextsFacts
<1>5. GoodTexts(files) /\ buffer \in DOMAIN files /\ Len(Text) \in Nat
      /\ buffer_capacity = Len(Text)
  BY <1>1, <1>2, <1>4 DEF GoodTexts, Text
<1>6. IsSequence(<<>>) /\ Len(<<>>) = 0
  BY DEF IsSequence
<1>7. GoodTokens(files, tokens) /\ GoodCallers(files, callers)
  BY <1>1, <1>6 DEF GoodTokens, GoodCallers
<1>8. ContextInv
  <2>1. source_pos \in Places
    BY <1>1 DEF Places, Pos
  <2>2. Len(tokens) = 0 /\ Len(callers) = 0
    BY <1>1, <1>6
  <2>3. token_capacity \in Nat \ {0} /\ Len(tokens) <= token_capacity
    BY <1>1, <1>3, <2>2
  <2>4. Len(callers) <= MaxDepth + 1 /\ Len(callers) <= MaxDepth
    BY <1>3, <2>2
  <2>5. buffer_pos \in Nat /\ buffer_pos <= Len(Text)
    BY <1>1, <1>5
  <2>6. at = "trivia" /\ error \in BOOLEAN
    BY <1>1
  <2> QED
    BY <1>5, <1>7, <2>1, <2>3, <2>4, <2>5, <2>6 DEF ContextInv
<1>9. PlaceInv
  BY <1>1, <1>6, PlaceAtStart DEF PlaceInv, RightTokens, RightCallers
<1> QED
  BY <1>1, <1>8, <1>9 DEF IInv, OverrunIsReported

LEMMA StepInv == IInv /\ [Next]_vars => IInv'
<1> SUFFICES ASSUME IInv, [Next]_vars  PROVE IInv'
  OBVIOUS
<1>1. CASE UNCHANGED vars
  <2>1. /\ files' = files /\ buffer' = buffer /\ buffer_pos' = buffer_pos
        /\ buffer_capacity' = buffer_capacity /\ source_pos' = source_pos
        /\ tokens' = tokens /\ token_capacity' = token_capacity /\ error' = error
        /\ callers' = callers /\ at' = at
    BY <1>1 DEF vars, cursor, array
  <2> QED
    BY <2>1 DEF IInv, ContextInv, PlaceInv, OverrunIsReported, Text
<1>2. ASSUME NEW q \in Nat, ReadTo(q), at \in {"trivia", "include", "token", "eof"}
      PROVE  IInv'
  BY <1>2, ReadToInv
<1>3. CASE Blank
  BY <1>2, <1>3, BlankReads DEF Blank
<1>4. CASE LineComment
  BY <1>2, <1>4, LineCommentReads DEF LineComment
<1>5. CASE BlockComment
  <2>1. at = "trivia"
    BY <1>5 DEF BlockComment
  <2> QED
    BY <1>2, <1>5, <2>1, BlockCommentReads
<1>6. CASE TriviaEnd \/ NotInclude
  <2>1. at \in {"trivia", "include"}
    BY <1>6 DEF TriviaEnd, NotInclude
  <2> QED
    BY <1>2, <1>6, <2>1, TriviaEndReads
<1>7. CASE IncludeFails
  <2>1. at = "include"
    BY <1>7 DEF IncludeFails
  <2> QED
    BY <1>2, <1>7, <2>1, IncludeFailsReads
<1>8. CASE Include
  BY <1>8, IncludeInv
<1>9. CASE TextEnd
  BY <1>9, TextEndInv
<1>10. CASE Number \/ Char \/ StrLit \/ Word \/ Punct \/ Unknown
  <2>1. at = "token"
    BY <1>10 DEF Number, Char, StrLit, Word, Punct, Unknown
  <2> QED
    BY <1>2, <1>10, <2>1, NumberReads, CharReads, StrLitReads, WordReads, PunctReads, UnknownReads
<1>11. CASE Eof
  <2>1. at = "eof"
    BY <1>11 DEF Eof
  <2> QED
    BY <1>2, <1>11, <2>1, EofReads
<1> QED
  BY <1>1, <1>3, <1>4, <1>5, <1>6, <1>7, <1>8, <1>9, <1>10, <1>11 DEF Next

(* The invariant holds in every state the tokenizer (Token.cpp) can reach. *)
THEOREM TokenizerInductive == Spec => []IInv
<1>1. Init => IInv
  BY InitInv
<1>2. IInv /\ [Next]_vars => IInv'
  BY StepInv
<1> QED
  BY <1>1, <1>2, PTL DEF Spec

(* The cursor is in the text the context is of, before, in and after every *)
(* include, at whatever depth (ktl_token_include saves and restores the    *)
(* context), and every token, those of the end too, is written inside the  *)
(* array that was there for it (ktl_add_token).                            *)
THEOREM TypeInvCorrect == Spec => []TypeInv
<1>1. IInv => TypeInv
  <2> SUFFICES ASSUME IInv  PROVE TypeInv
    OBVIOUS
  <2>1. Text \in Seq(Chars) /\ Len(Text) \in Nat
    <3>1. Text \in Seq(Chars)
      BY DEF IInv, ContextInv, GoodTexts, Text
    <3> QED
      BY <3>1
  <2>2. DOMAIN callers = 1 .. Len(callers)
    <3>1. IsSequence(callers)
      BY DEF IInv, ContextInv, GoodCallers
    <3> QED
      BY <3>1, SequenceFacts
  <2>3. at # "undefined" => buffer_pos \in 0 .. Len(Text)
    BY <2>1 DEF IInv, ContextInv
  <2> QED
    BY <2>2, <2>3 DEF IInv, ContextInv, GoodCallers, Places, TypeInv
<1> QED
  BY <1>1, TokenizerInductive, PTL

(* While no error is on record, the position of a token is that of its     *)
(* first character in the file it was read from, whatever was skipped,     *)
(* included or read before it, up to the first literal over a line end     *)
(* (advance, new_line, ktl_token_include, ktl_token_str_lit).              *)
THEOREM PlacesRightCorrect == Spec => []PlacesRight
<1>1. IInv => PlacesRight
  <2> SUFFICES ASSUME IInv, ~error, NEW i \in DOMAIN tokens, \A j \in 1 .. i : OneLine(tokens[j])
               PROVE  tokens[i].pos = Place(files[tokens[i].file], tokens[i].from)
    BY DEF PlacesRight
  <2>1. DOMAIN tokens = 1 .. Len(tokens)
    <3>1. IsSequence(tokens)
      BY DEF IInv, ContextInv, GoodTokens
    <3> QED
      BY <3>1, SequenceFacts
  <2>2. \A j \in 1 .. i : Single(files, tokens[j])
    BY DEF OneLine, Single
  <2> QED
    BY <2>1, <2>2 DEF IInv, PlaceInv, RightTokens
<1> QED
  BY <1>1, TokenizerInductive, PTL

(* The loop leaves a text behind its end without a diagnostic only where a *)
(* character literal is never closed, or a string is open at a last line   *)
(* end, which ktl_token_str_lit steps over twice.                          *)
THEOREM OverrunIsReportedCorrect == Spec => []OverrunIsReported
<1>1. IInv => OverrunIsReported
  BY DEF IInv
<1> QED
  BY <1>1, TokenizerInductive, PTL

(* When the tokenizer comes to the end of a program (KTL_TokenProcess),    *)
(* the tokens are those the grammar gives the program, in their order,     *)
(* with every include replaced by what its file says and the tokens of the *)
(* end behind them; and an error is on record exactly when there is a      *)
(* place where no rule of the grammar fits.  Strings that go over a line   *)
(* end and names longer than their buffer are set aside.                   *)
THEOREM WrittenIsReadCorrect == Spec => []WrittenIsRead
<1>1. Init => MeantInv
  BY InitMeant
<1>2. IInv /\ MeantInv /\ [Next]_vars => MeantInv'
  BY StepMeant
<1>3. IInv /\ MeantInv => WrittenIsRead
  BY ReadAtEnd
<1>4. Spec => []IInv
  BY TokenizerInductive
<1> QED
  BY <1>1, <1>2, <1>3, <1>4, PTL DEF Spec
=============================================================================
