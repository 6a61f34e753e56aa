----------------------------- MODULE ElfProofs -----------------------------
(***************************************************************************)
(* Proofs about the ELF writer, for programs with any number of imports,   *)
(* instructions and literals, and for any page size and hash function.     *)
(***************************************************************************)
EXTENDS Elf, AssembleProofs, NaturalsInduction, WellFoundedInduction

(* Every call of an imported function waits in outside_fix; of the data    *)
(* nothing but zeros is written, since emit_data reads one item only.      *)
OutsideFixes ==
  \A k \in DOMAIN outside_fix.data :
    outside_fix.data[k].kind = "GOT_FUNC" /\ Describes(outside_fix.data[k], "import")

ImportsWait ==
  \A i \in DOMAIN code : code[i].kind = "import" =>
    \E k \in DOMAIN outside_fix.data : outside_fix.data[k].index = i

OnlyZeros == out_data \in Seq([kind : {"zero"}, len : Int])

OutInv ==
  /\ OutsideFixes /\ ImportsWait /\ OnlyZeros
  /\ stage = "done" => units # <<>>

-----------------------------------------------------------------------------
(***************************************************************************)
(* Induction and recursion over the natural numbers                        *)
(***************************************************************************)
LEMMA LeastNat ==
  ASSUME NEW T \in SUBSET Nat, T # {}
  PROVE  \E x \in T : \A y \in T : x <= y
<1>1. IsWellFoundedOn(OpToRel(<, Nat), Nat)
  BY NatLessThanWellFounded
<1>2. PICK x \in T : \A y \in T : <<y, x>> \notin OpToRel(<, Nat)
  BY <1>1, WFMin
<1>3. \A y \in T : ~(y < x)
  BY <1>2, Zenon DEF OpToRel
<1> QED
  BY <1>3

(* Induction up to N: what holds of 0 and goes on from n - 1 to n.         *)
LEMMA UpTo ==
  ASSUME NEW N \in Nat, NEW T, 0 \in T, \A n \in 1 .. N : n - 1 \in T => n \in T
  PROVE  \A n \in 0 .. N : n \in T
<1> DEFINE B == {n \in 0 .. N : n \notin T}
<1>1. SUFFICES ASSUME B # {} PROVE FALSE
  OBVIOUS
<1>2. PICK n \in B : \A m \in B : n <= m
  <2>1. B \in SUBSET Nat /\ B # {}
    BY <1>1
  <2> HIDE DEF B
  <2> QED
    BY <2>1, LeastNat
<1>3. n \in 1 .. N /\ n - 1 \in 0 .. N /\ n - 1 \notin B
  BY <1>2
<1> QED
  BY <1>2, <1>3

(* The functions defined by recursion up to N: step_ is what one value     *)
(* becomes at n.  There is one.                                            *)
Recursive(N, S, base, step_) ==
  {g \in [0 .. N -> S] :
     \A n \in 0 .. N : g[n] = IF n = 0 THEN base ELSE step_[<<g[n - 1], n>>]}

LEMMA Recursion ==
  ASSUME NEW N \in Nat, NEW S, NEW base \in S, NEW step_ \in [S \X (1 .. N) -> S]
  PROVE  Recursive(N, S, base, step_) # {}
<1> DEFINE T == {m \in 0 .. N : \E g \in [0 .. m -> S] :
                   \A n \in 0 .. m : g[n] = IF n = 0 THEN base ELSE step_[<<g[n - 1], n>>]}
<1>1. 0 \in T
  <2> DEFINE g == [n \in 0 .. 0 |-> base]
  <2>1. g \in [0 .. 0 -> S] /\ \A n \in 0 .. 0 : n = 0 /\ g[n] = base
    OBVIOUS
  <2> HIDE DEF g
  <2>2. \A n \in 0 .. 0 : g[n] = IF n = 0 THEN base ELSE step_[<<g[n - 1], n>>]
    BY <2>1
  <2> QED
    BY <2>1, <2>2
<1>2. ASSUME NEW m \in 1 .. N, m - 1 \in T PROVE m \in T
  <2>1. PICK g \in [0 .. m - 1 -> S] :
          \A n \in 0 .. m - 1 : g[n] = IF n = 0 THEN base ELSE step_[<<g[n - 1], n>>]
    BY <1>2
  <2> DEFINE h == [n \in 0 .. m |-> IF n = m THEN step_[<<g[m - 1], m>>] ELSE g[n]]
  <2>2. m - 1 \in 0 .. m - 1 /\ \A n \in 0 .. m : n # m => n \in 0 .. m - 1
    OBVIOUS
  <2>3. h \in [0 .. m -> S]
    BY <2>2
  <2>4. \A n \in 0 .. m : h[n] = IF n = 0 THEN base ELSE step_[<<h[n - 1], n>>]
    <3> TAKE n \in 0 .. m
    <3>1. CASE n = m
      BY <2>2, <3>1
    <3>2. CASE n # m
      <4>1. n \in 0 .. m - 1 /\ h[n] = g[n] /\ (n # 0 => h[n - 1] = g[n - 1])
        BY <2>2, <3>2
      <4> QED
        BY <2>1, <4>1
    <3> QED
      BY <3>1, <3>2
  <2> HIDE DEF h
  <2> QED
    BY <2>3, <2>4
<1>3. N \in T
  <2> HIDE DEF T
  <2> QED
    BY <1>1, <1>2, UpTo
<1> QED
  BY <1>3 DEF Recursive

-----------------------------------------------------------------------------
(***************************************************************************)
(* Behind the assembler                                                    *)
(***************************************************************************)
LEMMA InitOut == Init => OutInv
<1> SUFFICES ASSUME Init PROVE OutInv
  OBVIOUS
<1>1. /\ code = <<>> /\ out_data = <<>> /\ stage = "rodata" /\ DOMAIN outside_fix.data = {}
  BY EmptyFacts DEF Init
<1> QED
  BY <1>1 DEF OutInv, OutsideFixes, ImportsWait, OnlyZeros

(* Neither instructions nor calls of imports are touched.                  *)
LEMMA OutQuiet ==
  ASSUME IInv, OutInv, UNCHANGED <<code, outside_fix>>, OnlyZeros', stage' # "done"
  PROVE  OutInv'
BY DEF OutInv, OutsideFixes, ImportsWait, Describes

(* An instruction is written.                                              *)
LEMMA OutWrite ==
  ASSUME IInv, OutInv, Writing,
         NEW kind \in {"plain", "jump", "call", "address"},
         NEW ref \in Labels \cup Names \cup Imports, NEW len \in 1 .. 15, NEW inner \in 0 .. 15,
         out_write(Instruction(kind, ref, len, inner)),
         UNCHANGED <<stage, data_vars, ro_vars, units, marks, outside_fix>>
  PROVE  OutInv'
<1>1. /\ DOMAIN code = 1 .. Len(code) /\ DOMAIN code' = 1 .. Len(code) + 1 /\ Len(code) \in Nat
      /\ \A i \in DOMAIN code : code'[i] = code[i]
      /\ code'[Len(code) + 1] = Instruction(kind, ref, len, inner)
      /\ \A fix, k : Describes(fix, k) => Describes(fix, k)'
  <2>1. code \in Seq(Code)
    BY DEF IInv, TypeInv
  <2>2. code' = Append(code, Instruction(kind, ref, len, inner))
    BY DEF out_write
  <2>3. /\ DOMAIN code = 1 .. Len(code) /\ DOMAIN code' = 1 .. Len(code) + 1 /\ Len(code) \in Nat
        /\ \A i \in DOMAIN code : code'[i] = code[i]
        /\ code'[Len(code) + 1] = Instruction(kind, ref, len, inner)
    BY <2>1, <2>2
  <2> QED
    BY <2>3 DEF Describes
<1>2. code'[Len(code) + 1].kind # "import"
  BY <1>1 DEF Instruction
<1>3. OutsideFixes'
  BY <1>1 DEF OutInv, OutsideFixes
<1>4. ImportsWait'
  BY <1>1, <1>2 DEF OutInv, ImportsWait
<1>5. OnlyZeros' /\ stage' # "done"
  BY DEF OutInv, OnlyZeros, data_vars, Writing, At
<1> QED
  BY <1>3, <1>4, <1>5 DEF OutInv

LEMMA OutImport ==
  ASSUME IInv, OutInv, NEW q \in Imports, CallImport(q)
  PROVE  OutInv'
<1> DEFINE i == Instruction("import", q, 5, 1)
<1>0. PICK fix : fix = Fix("GOT_FUNC", i)
  OBVIOUS
<1>1. /\ Writing /\ out_write(i) /\ outside_fix' = Add(outside_fix, fix)
      /\ UNCHANGED <<stage, data_vars, ro_vars, units, marks>>
  BY <1>0 DEF CallImport
<1>2. 5 \in 1 .. 15 /\ 1 \in 0 .. 15 /\ 1 \in 0 .. 11 /\ 1 + 4 = 5
      /\ q \in Labels \cup Names \cup Imports
  OBVIOUS
<1>3. /\ DOMAIN code = 1 .. Len(code) /\ DOMAIN code' = 1 .. Len(code) + 1 /\ Len(code) \in Nat
      /\ \A j \in DOMAIN code : code'[j] = code[j]
      /\ code'[Len(code) + 1] = i
      /\ \A f, k : Describes(f, k) => Describes(f, k)'
  <2>1. code \in Seq(Code)
    BY DEF IInv, TypeInv
  <2>2. code' = Append(code, i)
    BY <1>1 DEF out_write
  <2> HIDE DEF i
  <2>3. /\ DOMAIN code = 1 .. Len(code) /\ DOMAIN code' = 1 .. Len(code) + 1 /\ Len(code) \in Nat
        /\ \A j \in DOMAIN code : code'[j] = code[j]
        /\ code'[Len(code) + 1] = i
    BY <2>1, <2>2
  <2> QED
    BY <2>3 DEF Describes
<1>4. /\ fix \in FixEntry
  <2>1. PICK j : j = i
    OBVIOUS
  <2>a. j.kind = "import" /\ j.ref = q /\ j.len = 5 /\ j.inner = 1
    BY <2>1 DEF Instruction
  <2>2. j = Instruction(j.kind, j.ref, j.len, j.inner) /\ out_write(j) /\ fix = Fix("GOT_FUNC", j)
    BY <1>0, <1>1, <2>1, <2>a
  <2>3. Writing /\ UNCHANGED <<stage, ro_vars, units, marks>>
    BY <1>1
  <2> HIDE DEF i
  <2> QED
    BY <1>2, <2>a, <2>2, <2>3, NewFix
<1>5. /\ fix.kind = "GOT_FUNC" /\ fix.index = Len(code) + 1 /\ fix.target = i.ref
      /\ fix.ads_offset = i.at /\ fix.inner_offset = i.inner
  BY <1>0 DEF Fix
<1>6. i.kind = "import" /\ i.ref = q /\ i.len = 5 /\ i.inner = 1
  BY DEF Instruction
<1> HIDE DEF i
<1>7. /\ DOMAIN outside_fix'.data = DOMAIN outside_fix.data \cup {Len(outside_fix.data) + 1}
      /\ \A k \in DOMAIN outside_fix.data : outside_fix'.data[k] = outside_fix.data[k]
      /\ outside_fix'.data[Len(outside_fix.data) + 1] = fix
  <2>1. outside_fix \in Entries(FixEntry) /\ Roomy(outside_fix)
    BY DEF IInv, TypeInv, Tables
  <2> QED
    BY <1>1, <1>4, <2>1, AddFix
<1>8. Describes(fix, "import")'
  BY <1>3, <1>5, <1>6 DEF Describes
<1>9. OutsideFixes'
  <2>1. \A k \in DOMAIN outside_fix.data : \A f : f = outside_fix.data[k] =>
          f.kind = "GOT_FUNC" /\ Describes(f, "import")'
    BY <1>3 DEF OutInv, OutsideFixes
  <2> QED
    BY <1>5, <1>7, <1>8, <2>1 DEF OutsideFixes
<1>10. ImportsWait'
  <2> SUFFICES ASSUME NEW j \in DOMAIN code', code'[j].kind = "import"
               PROVE  \E k \in DOMAIN outside_fix'.data : outside_fix'.data[k].index = j
    BY DEF ImportsWait
  <2>1. CASE j = Len(code) + 1
    BY <1>5, <1>7, <2>1
  <2>2. CASE j \in DOMAIN code
    BY <1>3, <1>7, <2>2 DEF OutInv, ImportsWait
  <2> QED
    BY <1>3, <2>1, <2>2
<1>11. OnlyZeros' /\ stage' # "done"
  BY <1>1 DEF OutInv, OnlyZeros, data_vars, Writing, At
<1> QED
  BY <1>9, <1>10, <1>11 DEF OutInv

(* Displacements are patched.                                              *)
LEMMA OutPatched ==
  ASSUME IInv, OutInv, UNCHANGED <<data_vars, outside_fix>>,
         DOMAIN code' = DOMAIN code,
         \A i \in DOMAIN code :
           /\ code'[i].kind = code[i].kind
           /\ \A fix, kind : Describes(fix, kind)' <=> Describes(fix, kind),
         stage' = "done" => units' # <<>>
  PROVE  OutInv'
<1>1. OutsideFixes'
  BY DEF OutInv, OutsideFixes, Describes
<1>2. ImportsWait' /\ OnlyZeros'
  BY DEF OutInv, ImportsWait, OnlyZeros, data_vars
<1> QED
  BY <1>1, <1>2 DEF OutInv

LEMMA OutGlobalLabel ==
  ASSUME IInv, OutInv, NEW f \in Functions \cup {start}, GlobalLabel(f)
  PROVE  OutInv'
<1>1. /\ At("text") /\ LabelsClosed /\ fix_labels_inside_func
      /\ UNCHANGED <<stage, data_vars, offset, marks, outside_fix>> /\ stage = "text"
  BY DEF GlobalLabel, At
<1>2. /\ DOMAIN code' = DOMAIN code /\ \A i \in DOMAIN code : code'[i].kind = code[i].kind
      /\ \A fix, kind : Describes(fix, kind)' <=> Describes(fix, kind)
  BY <1>1, FixFunc
<1> QED
  BY <1>1, <1>2, OutPatched

LEMMA OutAbort ==
  ASSUME IInv, OutInv, Abort
  PROVE  OutInv'
<1>1. /\ At("text") /\ LabelsClosed /\ fix_labels_inside_func
      /\ UNCHANGED <<data_vars, offset, marks, outside_fix>> /\ stage' = "aborted"
  BY DEF Abort, EndOfText
<1>2. /\ DOMAIN code' = DOMAIN code /\ \A i \in DOMAIN code : code'[i].kind = code[i].kind
      /\ \A fix, kind : Describes(fix, kind)' <=> Describes(fix, kind)
  BY <1>1, FixFunc
<1> QED
  BY <1>1, <1>2, OutPatched

LEMMA OutFinish ==
  ASSUME IInv, OutInv, Finish
  PROVE  OutInv'
<1> DEFINE c == Patched(code, func_fix, func_decl)
<1>1. /\ At("text") /\ LabelsClosed /\ units # <<>>
      /\ Targets(file_fix) \subseteq Declared(file_decl)
      /\ code' = Patched(c, file_fix, file_decl)
      /\ UNCHANGED <<data_vars, offset, units, outside_fix>>
  BY DEF Finish, EndOfText
<1>2. /\ c \in Seq(Code) /\ Len(c) = Len(code) /\ DOMAIN c = DOMAIN code
      /\ \A i \in DOMAIN code :
            /\ c[i].kind = code[i].kind /\ c[i].ref = code[i].ref /\ c[i].fn = code[i].fn
            /\ c[i].at = code[i].at /\ c[i].len = code[i].len
  BY <1>1, FuncPatched
<1> HIDE DEF c
<1>3. /\ file_fix \in Entries(FixEntry) /\ file_decl \in Entries(DeclEntry) /\ First(file_decl)
  BY DEF IInv, TypeInv
<1>4. /\ Len(code') = Len(c) /\ DOMAIN code' = DOMAIN c
      /\ \A i \in DOMAIN c :
           /\ code'[i].kind = c[i].kind /\ code'[i].ref = c[i].ref /\ code'[i].fn = c[i].fn
           /\ code'[i].at = c[i].at /\ code'[i].len = c[i].len
  BY <1>1, <1>2, <1>3, PatchedFacts
<1>5. /\ Len(code') = Len(code) /\ DOMAIN code' = DOMAIN code
      /\ \A i \in DOMAIN code :
            /\ code'[i].kind = code[i].kind /\ code'[i].ref = code[i].ref
            /\ code'[i].fn = code[i].fn
            /\ code'[i].at = code[i].at /\ code'[i].len = code[i].len
  BY <1>2, <1>4
<1>6. TypeInv /\ Bounds /\ OffsetsAreBytes
  BY DEF IInv
<1>7. \A fix, kind : Describes(fix, kind)' <=> Describes(fix, kind)
  BY <1>1, <1>5, <1>6, SameAddresses
<1> QED
  BY <1>1, <1>5, <1>7, OutPatched


LEMMA OutEmitData ==
  ASSUME IInv, OutInv, EmitData
  PROVE  OutInv'
<1> DEFINE item == in_data[1]
<1>1. /\ stage = "data" /\ data_read < Len(in_data)
      /\ UNCHANGED <<stage, text_vars, outside_fix>>
  BY DEF EmitData, At
<1>2. data_read \in 0 .. Len(in_data) /\ data_size \in Nat
  BY DEF IInv, TypeInv
<1>3. PICK g \in Globals : in_data = Variable(g, 8)
  <2>1. in_data # <<>>
    BY <1>1, <1>2
  <2> QED
    BY <2>1 DEF IInv, InData
<1>4. item.kind = "align" /\ item.size = 8
  BY <1>3 DEF Variable
<1>5. PICK size : size = align_up(data_size, item.size) - data_size
  OBVIOUS
<1>6. size \in Int
  BY <1>2, <1>4, <1>5 DEF align_up
<1>7. out_data' = Append(out_data, [kind |-> "zero", len |-> size])
  BY <1>4, <1>5 DEF EmitData
<1>8. OnlyZeros'
  BY <1>6, <1>7 DEF OutInv, OnlyZeros
<1> QED
  BY <1>1, <1>8, OutQuiet DEF text_vars

LEMMA NextOut == ASSUME IInv, OutInv, [Next]_vars PROVE OutInv'
<1>1. CASE UNCHANGED vars
  <2>1. UNCHANGED <<stage, code, outside_fix, out_data, units>>
    BY <1>1 DEF vars, text_vars, maps, data_vars
  <2> QED
    BY <2>1 DEF OutInv, OutsideFixes, ImportsWait, OnlyZeros, Describes
<1>2. CASE Undefined \/ EndRodata \/ EndData
  <2>1. UNCHANGED <<code, outside_fix, out_data>> /\ stage' # "done"
    BY <1>2 DEF Undefined, EndRodata, EndData, text_vars, maps, data_vars
  <2> QED
    BY <2>1, OutQuiet DEF OutInv, OnlyZeros
<1>3. ASSUME NEW s \in Strings, EmitString(s) PROVE OutInv'
  <2>1. UNCHANGED <<code, outside_fix, out_data>> /\ stage' # "done"
    BY <1>3 DEF EmitString, At, text_vars, data_vars
  <2> QED
    BY <2>1, OutQuiet DEF OutInv, OnlyZeros
<1>4. CASE EmitData
  BY <1>4, OutEmitData
<1>5. ASSUME NEW n \in Lengths, Plain(n) PROVE OutInv'
  <2>1. /\ Writing /\ out_write(Instruction("plain", start, n, 0))
        /\ UNCHANGED <<stage, data_vars, ro_vars, units, marks, outside_fix>>
    BY <1>5 DEF Plain, maps
  <2>2. n \in 1 .. 15 /\ 0 \in 0 .. 15 /\ start \in Names
    BY AssembleAssumption DEF AssembleAssumption, Names
  <2> QED
    BY <2>1, <2>2, OutWrite
<1>6. ASSUME NEW l \in Labels, LocalLabel(l) PROVE OutInv'
  <2>1. UNCHANGED <<code, outside_fix, out_data>> /\ stage' # "done"
    BY <1>6 DEF LocalLabel, At, data_vars
  <2> QED
    BY <2>1, OutQuiet DEF OutInv, OnlyZeros
<1>7. ASSUME NEW l \in Labels, NEW inner \in {1, 2}, Jump(l, inner) PROVE OutInv'
  <2>1. /\ Writing /\ out_write(Instruction("jump", l, inner + 4, inner))
        /\ UNCHANGED <<stage, data_vars, ro_vars, units, marks, outside_fix>>
    BY <1>7 DEF Jump
  <2>2. inner + 4 \in 1 .. 15 /\ inner \in 0 .. 15
    OBVIOUS
  <2> QED
    BY <2>1, <2>2, OutWrite
<1>8. ASSUME NEW f \in Functions, Call(f) PROVE OutInv'
  <2>1. /\ Writing /\ out_write(Instruction("call", f, 5, 1))
        /\ UNCHANGED <<stage, data_vars, ro_vars, units, marks, outside_fix>>
    BY <1>8 DEF Call
  <2>2. 5 \in 1 .. 15 /\ 1 \in 0 .. 15 /\ f \in Names
    BY DEF Names
  <2> QED
    BY <2>1, <2>2, OutWrite
<1>9. ASSUME NEW q \in Imports, CallImport(q) PROVE OutInv'
  BY <1>9, OutImport
<1>10. ASSUME NEW s \in Strings \cup Globals, Lea(s) PROVE OutInv'
  <2>1. /\ Writing /\ out_write(Instruction("address", s, 7, 3))
        /\ UNCHANGED <<stage, data_vars, ro_vars, units, marks, outside_fix>>
    BY <1>10 DEF Lea
  <2>2. 7 \in 1 .. 15 /\ 3 \in 0 .. 15 /\ s \in Names
    BY DEF Names
  <2> QED
    BY <2>1, <2>2, OutWrite
<1>11. ASSUME NEW f \in Functions \cup {start}, GlobalLabel(f) PROVE OutInv'
  BY <1>11, OutGlobalLabel
<1>12. CASE Finish
  BY <1>12, OutFinish
<1>13. CASE Abort
  BY <1>13, OutAbort
<1> QED
  BY <1>1, <1>2, <1>3, <1>4, <1>5, <1>6, <1>7, <1>8, <1>9, <1>10, <1>11, <1>12, <1>13 DEF Next

-----------------------------------------------------------------------------
(***************************************************************************)
(* Sums: the recursive function exists, so it is what its equation says.   *)
(***************************************************************************)
LEMMA SumsFacts ==
  ASSUME NEW len, Len(len) \in Nat, \A k \in 1 .. Len(len) : len[k] \in Nat
  PROVE  /\ Sums(len) \in [0 .. Len(len) -> Nat] /\ Sums(len)[0] = 0
         /\ \A k \in 1 .. Len(len) : Sums(len)[k] = Sums(len)[k - 1] + len[k]
<1> DEFINE N == Len(len)
           F == [x \in Nat \X (1 .. N) |-> x[1] + len[x[2]]]
           s == Sums(len)
<1>1. F \in [Nat \X (1 .. N) -> Nat]
  OBVIOUS
<1>2. PICK g \in [0 .. N -> Nat] :
        \A n \in 0 .. N : g[n] = IF n = 0 THEN 0 ELSE F[<<g[n - 1], n>>]
  <2>1. N \in Nat /\ 0 \in Nat
    OBVIOUS
  <2> HIDE DEF F, N
  <2>2. Recursive(N, Nat, 0, F) # {}
    BY <1>1, <2>1, Recursion
  <2> QED
    BY <2>2 DEF Recursive
<1>3. g = [k \in 0 .. N |-> IF k = 0 THEN 0 ELSE g[k - 1] + len[k]]
  <2>1. \A k \in 0 .. N : k # 0 => F[<<g[k - 1], k>>] = g[k - 1] + len[k]
    <3>1. \A a \in Nat, k \in 1 .. N : F[<<a, k>>] = a + len[k]
      OBVIOUS
    <3> HIDE DEF F
    <3>2. \A k \in 0 .. N : k # 0 => k \in 1 .. N /\ g[k - 1] \in Nat
      BY <1>2
    <3> QED
      BY <3>1, <3>2
  <2> HIDE DEF F
  <2>2. \A k \in 0 .. N : g[k] = IF k = 0 THEN 0 ELSE g[k - 1] + len[k]
    BY <1>2, <2>1
  <2> QED
    BY <2>2
<1>4. s = [k \in 0 .. N |-> IF k = 0 THEN 0 ELSE s[k - 1] + len[k]]
  BY <1>3 DEF Sums
<1> HIDE DEF s
<1>5. s[0] = 0 /\ \A k \in 1 .. N : s[k] = s[k - 1] + len[k]
  BY <1>4
<1>6. \A k \in 0 .. N : s[k] \in Nat
  <2> DEFINE T == {k \in 0 .. N : s[k] \in Nat}
  <2>1. 0 \in T /\ \A k \in 1 .. N : k - 1 \in T => k \in T
    BY <1>5
  <2> HIDE DEF T
  <2>2. \A k \in 0 .. N : k \in T
    BY <2>1, UpTo
  <2> QED
    BY <2>2 DEF T
<1>7. s \in [0 .. N -> Nat]
  BY <1>4, <1>6
<1> QED
  BY <1>5, <1>7 DEF s


-----------------------------------------------------------------------------
(***************************************************************************)
(* Imports                                                                 *)
(***************************************************************************)
ImportEntry == [name : Imports, got_idx : Nat, plt_idx : Nat, dynsym_offset : Nat]

(* The indices of an import follow from its place.                         *)
ImportTables ==
  {is \in Seq(ImportEntry) :
     \A k \in 1 .. Len(is) :
       is[k].got_idx = 2 + k /\ is[k].plt_idx = k - 1 /\ is[k].dynsym_offset = k}

LEMMA ImportOne ==
  ASSUME NEW is \in ImportTables, NEW fix, fix.target \in Imports
  PROVE  /\ Import(is, fix) \in ImportTables
         /\ find_import(Import(is, fix), fix.target) # {}
         /\ \A x : find_import(is, x) # {} => find_import(Import(is, fix), x) # {}
<1>1. CASE find_import(is, fix.target) # {}
  BY <1>1 DEF Import
<1>2. CASE find_import(is, fix.target) = {}
  <2>1. is \in Seq(ImportEntry) /\ Len(is) \in Nat
    BY DEF ImportTables
  <2>2. PICK e : e = [name |-> fix.target, got_idx |-> 3 + Len(is), plt_idx |-> Len(is),
                      dynsym_offset |-> Len(is) + 1]
    OBVIOUS
  <2>3. e \in ImportEntry /\ Import(is, fix) = Append(is, e)
    BY <1>2, <2>1, <2>2 DEF Import, ImportEntry
  <2>4. PICK js : js = Append(is, e)
    OBVIOUS
  <2>5. /\ js \in Seq(ImportEntry) /\ Len(js) = Len(is) + 1
        /\ DOMAIN js = 1 .. Len(is) + 1 /\ DOMAIN is = 1 .. Len(is)
        /\ \A i \in DOMAIN is : js[i] = is[i]
        /\ js[Len(is) + 1] = e
    BY <2>1, <2>3, <2>4, AppendFacts
  <2>6. js \in ImportTables
    BY <2>1, <2>2, <2>5, SMTT(30) DEF ImportTables
  <2>7. find_import(js, fix.target) # {}
    <3>1. Len(is) + 1 \in find_import(js, fix.target)
      BY <2>1, <2>2, <2>5 DEF find_import
    <3> QED
      BY <3>1
  <2>8. \A x : find_import(is, x) # {} => find_import(js, x) # {}
    BY <2>1, <2>5 DEF find_import
  <2> QED
    BY <2>3, <2>4, <2>6, <2>7, <2>8
<1> QED
  BY <1>1, <1>2

(* What the imports are after every call, and that each one has its place. *)
LEMMA ImportedFacts ==
  ASSUME IInv, OutInv
  PROVE  LET is == Imported[Len(outside_fix.data)] IN
         /\ is \in ImportTables
         /\ \A k \in DOMAIN outside_fix.data : find_import(is, outside_fix.data[k].target) # {}
<1> DEFINE N == Len(outside_fix.data)
           F == [x \in ImportTables \X (1 .. N) |-> Import(x[1], outside_fix.data[x[2]])]
<1>1. N \in Nat /\ DOMAIN outside_fix.data = 1 .. N
  BY DEF IInv, TypeInv, Entries
<1>2. \A k \in 1 .. N : outside_fix.data[k].target \in Imports
  BY <1>1 DEF IInv, TypeInv, Targets
<1> HIDE DEF N
<1>3. F \in [ImportTables \X (1 .. N) -> ImportTables]
  BY <1>2, ImportOne
<1>4. \A a \in ImportTables, k \in 1 .. N : F[<<a, k>>] = Import(a, outside_fix.data[k])
  OBVIOUS
<1>5. <<>> \in ImportTables
  BY DEF ImportTables
<1> HIDE DEF F
<1>6. PICK g \in Recursive(N, ImportTables, <<>>, F) : TRUE
  BY <1>1, <1>3, <1>5, Recursion
<1>7. /\ g \in [0 .. N -> ImportTables]
      /\ \A n \in 0 .. N : g[n] = IF n = 0 THEN <<>> ELSE F[<<g[n - 1], n>>]
  BY <1>6 DEF Recursive
<1>8. g = [n \in 0 .. N |-> IF n = 0 THEN <<>> ELSE Import(g[n - 1], outside_fix.data[n])]
  <2>1. \A n \in 0 .. N : n # 0 => n \in 1 .. N /\ g[n - 1] \in ImportTables
    BY <1>1, <1>7
  <2>2. \A n \in 0 .. N : g[n] = IF n = 0 THEN <<>> ELSE Import(g[n - 1], outside_fix.data[n])
    BY <1>4, <1>7, <2>1
  <2> QED
    BY <1>7, <2>2
<1>9. Imported = [n \in 0 .. N |-> IF n = 0 THEN <<>> ELSE Import(Imported[n - 1], outside_fix.data[n])]
  BY <1>8 DEF Imported, N
<1> DEFINE T == {n \in 0 .. N :
                   /\ Imported[n] \in ImportTables
                   /\ \A k \in 1 .. n : find_import(Imported[n], outside_fix.data[k].target) # {}}
<1>10. 0 \in T
  BY <1>1, <1>5, <1>9
<1>11. ASSUME NEW n \in 1 .. N, n - 1 \in T PROVE n \in T
  <2>1. /\ n \in 0 .. N /\ n - 1 \in 0 .. N /\ n # 0
        /\ Imported[n - 1] \in ImportTables
        /\ \A k \in 1 .. n - 1 : find_import(Imported[n - 1], outside_fix.data[k].target) # {}
    BY <1>1, <1>11
  <2>2. Imported[n] = Import(Imported[n - 1], outside_fix.data[n])
    BY <1>9, <2>1
  <2>3. \A k \in 1 .. n : k = n \/ k \in 1 .. n - 1
    OBVIOUS
  <2> QED
    BY <1>2, <2>1, <2>2, <2>3, ImportOne
<1>12. N \in T
  <2> HIDE DEF T
  <2> QED
    BY <1>1, <1>10, <1>11, UpTo
<1> QED
  BY <1>1, <1>12 DEF N


(***************************************************************************)
(* The hash table                                                          *)
(***************************************************************************)
(* Every symbol is the first of its bucket or the next one of a later one. *)
Hangs(h, k, n) ==
  \/ h.buckets[Bucket(dynsym[k])] = k
  \/ \E j \in k + 1 .. n : Bucket(dynsym[j]) = Bucket(dynsym[k]) /\ h.chains[j] = k

HashTable(h, n) ==
  /\ h.buckets \in [0 .. nbucket - 1 -> 0 .. n]
  /\ h.chains \in Seq(Nat) /\ Len(h.chains) = n
  /\ \A k \in 1 .. n : h.chains[k] < k /\ Hangs(h, k, n)

LEMMA BucketFacts == \A q \in Imports : Bucket(q) \in 0 .. nbucket - 1
<1> SUFFICES ASSUME NEW q \in Imports PROVE Bucket(q) \in 0 .. nbucket - 1
  OBVIOUS
<1>1. PICK a \in Nat : a = elf_hash[q]
  BY ElfAssumption DEF ElfAssumption
<1>2. PICK b \in Nat \ {0} : b = nbucket
  BY ElfAssumption DEF ElfAssumption
<1>3. a % b \in 0 .. b - 1
  OBVIOUS
<1> QED
  BY <1>1, <1>2, <1>3 DEF Bucket

LEMMA ChainOne ==
  ASSUME dynsym \in Seq(Imports), NEW n \in 1 .. Len(dynsym), NEW h, HashTable(h, n - 1)
  PROVE  HashTable(Chained(h, n), n)
<1> DEFINE B == 0 .. nbucket - 1
<1>1. PICK b \in B : b = Bucket(dynsym[n])
  BY BucketFacts
<1>2. PICK m : m = n - 1
  OBVIOUS
<1>3. m \in Nat /\ n = m + 1 /\ \A k \in 1 .. n : k = n \/ k \in 1 .. m
  BY <1>2
<1>4. /\ h.buckets \in [B -> 0 .. m] /\ h.chains \in Seq(Nat) /\ Len(h.chains) = m
      /\ \A k \in 1 .. m : h.chains[k] < k /\ Hangs(h, k, m)
  BY <1>2 DEF HashTable
<1>5. PICK bs : bs = [h.buckets EXCEPT ![b] = n]
  OBVIOUS
<1>6. PICK cs : cs = Append(h.chains, h.buckets[b])
  OBVIOUS
<1>7. PICK g : g = Chained(h, n)
  OBVIOUS
<1>8. g.buckets = bs /\ g.chains = cs
  BY <1>1, <1>5, <1>6, <1>7 DEF Chained
<1>9. bs \in [B -> 0 .. n] /\ bs[b] = n /\ \A c \in B : c # b => bs[c] = h.buckets[c]
  <2> HIDE DEF B
  <2>1. \A x \in 0 .. m : x \in 0 .. n
    BY <1>3
  <2>2. n \in 0 .. n
    OBVIOUS
  <2> QED
    BY <1>4, <1>5, <2>1, <2>2
<1>10. h.buckets[b] \in 0 .. m
  BY <1>4
<1>11. /\ cs \in Seq(Nat) /\ Len(cs) = n /\ cs[n] = h.buckets[b]
       /\ \A k \in 1 .. m : cs[k] = h.chains[k]
  BY <1>3, <1>4, <1>6, <1>10, AppendFacts
<1>12. ASSUME NEW k \in 1 .. n PROVE g.chains[k] < k /\ Hangs(g, k, n)
  <2>1. CASE k = n
    BY <1>1, <1>3, <1>8, <1>9, <1>10, <1>11, <2>1 DEF Hangs
  <2>2. CASE k \in 1 .. m
    <3>0. g.chains[k] < k
      BY <1>4, <1>8, <1>11, <2>2
    <3>1. Bucket(dynsym[k]) \in B
      BY BucketFacts
    <3>2. CASE h.buckets[Bucket(dynsym[k])] = k
      <4>1. CASE Bucket(dynsym[k]) = b
        <5>1. n \in k + 1 .. n /\ Bucket(dynsym[n]) = Bucket(dynsym[k]) /\ g.chains[n] = k
          BY <1>1, <1>3, <1>8, <1>11, <2>2, <3>2, <4>1
        <5> QED
          BY <3>0, <5>1 DEF Hangs
      <4>2. CASE Bucket(dynsym[k]) # b
        BY <1>4, <1>8, <1>9, <1>11, <2>2, <3>1, <3>2, <4>2 DEF Hangs
      <4> QED
        BY <4>1, <4>2
    <3>3. CASE \E j \in k + 1 .. m : Bucket(dynsym[j]) = Bucket(dynsym[k]) /\ h.chains[j] = k
      <4>1. PICK j \in k + 1 .. m : Bucket(dynsym[j]) = Bucket(dynsym[k]) /\ h.chains[j] = k
        BY <3>3
      <4>2. j \in 1 .. m /\ j \in k + 1 .. n
        BY <1>3, <2>2
      <4>3. g.chains[j] = k
        BY <1>8, <1>11, <4>1, <4>2
      <4> QED
        BY <3>0, <4>1, <4>2, <4>3 DEF Hangs
    <3> QED
      BY <1>4, <2>2, <3>2, <3>3 DEF Hangs
  <2> QED
    BY <1>3, <2>1, <2>2
<1> QED
  BY <1>7, <1>8, <1>9, <1>11, <1>12 DEF HashTable

LEMMA HashedFacts ==
  ASSUME dynsym \in Seq(Imports), imps \in ImportTables, Len(imps) = Len(dynsym)
  PROVE  HashTable(Hashed[Len(imps)], Len(imps))
<1> DEFINE N == Len(imps)
           S == [buckets : [0 .. nbucket - 1 -> Nat], chains : Seq(Nat)]
           F == [x \in S \X (1 .. N) |-> Chained(x[1], x[2])]
<1>1. N \in Nat
  BY DEF ImportTables
<1>2. NoSymbols \in S
  BY DEF NoSymbols
<1>3. ASSUME NEW h \in S, NEW n \in 1 .. N PROVE Chained(h, n) \in S
  <2>1. Bucket(dynsym[n]) \in 0 .. nbucket - 1
    BY BucketFacts
  <2>2. h.buckets[Bucket(dynsym[n])] \in Nat
    BY <2>1
  <2>3. Append(h.chains, h.buckets[Bucket(dynsym[n])]) \in Seq(Nat)
    BY <2>2
  <2>4. [h.buckets EXCEPT ![Bucket(dynsym[n])] = n] \in [0 .. nbucket - 1 -> Nat]
    <3>1. n \in Nat /\ h.buckets \in [0 .. nbucket - 1 -> Nat]
      BY <1>1
    <3> QED
      BY <3>1
  <2> QED
    BY <2>3, <2>4 DEF Chained
<1> HIDE DEF N, S
<1>4. F \in [S \X (1 .. N) -> S]
  BY <1>3
<1>5. \A a \in S, k \in 1 .. N : F[<<a, k>>] = Chained(a, k)
  OBVIOUS
<1> HIDE DEF F
<1>6. PICK g \in Recursive(N, S, NoSymbols, F) : TRUE
  BY <1>1, <1>2, <1>4, Recursion
<1>7. /\ g \in [0 .. N -> S]
      /\ \A n \in 0 .. N : g[n] = IF n = 0 THEN NoSymbols ELSE F[<<g[n - 1], n>>]
  BY <1>6 DEF Recursive
<1>8. g = [n \in 0 .. N |-> IF n = 0 THEN NoSymbols ELSE Chained(g[n - 1], n)]
  <2>1. \A n \in 0 .. N : n # 0 => n \in 1 .. N /\ g[n - 1] \in S
    BY <1>1, <1>7
  <2>2. \A n \in 0 .. N : g[n] = IF n = 0 THEN NoSymbols ELSE Chained(g[n - 1], n)
    BY <1>5, <1>7, <2>1
  <2> QED
    BY <1>7, <2>2
<1>9. Hashed = [n \in 0 .. N |-> IF n = 0 THEN NoSymbols ELSE Chained(Hashed[n - 1], n)]
  BY <1>8 DEF Hashed, N
<1> DEFINE T == {n \in 0 .. N : HashTable(Hashed[n], n)}
<1>10. 0 \in T
  <2>1. Hashed[0] = NoSymbols
    BY <1>1, <1>9
  <2>2. NoSymbols.buckets \in [0 .. nbucket - 1 -> 0 .. 0] /\ NoSymbols.chains = <<>>
    BY DEF NoSymbols
  <2>3. <<>> \in Seq(Nat) /\ Len(<<>>) = 0
    OBVIOUS
  <2>4. HashTable(NoSymbols, 0)
    BY <2>2, <2>3 DEF HashTable
  <2> QED
    BY <1>1, <2>1, <2>4
<1>11. ASSUME NEW n \in 1 .. N, n - 1 \in T PROVE n \in T
  <2>1. n \in 0 .. N /\ n # 0 /\ HashTable(Hashed[n - 1], n - 1) /\ n \in 1 .. Len(dynsym)
    BY <1>1, <1>11 DEF N
  <2>2. Hashed[n] = Chained(Hashed[n - 1], n)
    BY <1>9, <2>1
  <2> QED
    BY <2>1, <2>2, ChainOne
<1>12. N \in T
  <2>1. \A n \in 1 .. N : n - 1 \in T => n \in T
    BY <1>11, Zenon
  <2> HIDE DEF T
  <2>2. \A n \in 0 .. N : n \in T
    BY <1>1, <1>10, <2>1, UpTo, Zenon
  <2> QED
    BY <1>1, <2>2
<1> QED
  BY <1>12 DEF N


(* What the walk through a bucket does: it goes down, and ends at 0.       *)
LEMMA WalkFacts ==
  ASSUME Len(dynsym) \in Nat, HashTable(hash, Len(dynsym)), NEW b \in 0 .. nbucket - 1
  PROVE  /\ Walk(b)[0] = hash.buckets[b]
         /\ \A n \in 1 .. Len(dynsym) :
              Walk(b)[n] = IF Walk(b)[n - 1] = 0 THEN 0 ELSE hash.chains[Walk(b)[n - 1]]
         /\ \A n \in 0 .. Len(dynsym) : Walk(b)[n] \in 0 .. Len(dynsym) - n
<1> DEFINE N == Len(dynsym)
           w == Walk(b)
           F == [x \in (0 .. N) \X (1 .. N) |-> IF x[1] = 0 THEN 0 ELSE hash.chains[x[1]]]
<1>1. N \in Nat
  OBVIOUS
<1>2. hash.buckets[b] \in 0 .. N
  BY DEF HashTable
<1>3. \A k \in 1 .. N : hash.chains[k] \in 0 .. N /\ hash.chains[k] \in Nat /\ hash.chains[k] < k
  <2>1. hash.chains \in Seq(Nat) /\ Len(hash.chains) = N
    BY DEF HashTable
  <2>2. \A k \in 1 .. N : hash.chains[k] \in Nat /\ hash.chains[k] < k
    BY <2>1 DEF HashTable
  <2> QED
    BY <1>1, <2>2
<1> HIDE DEF N
<1>4. F \in [(0 .. N) \X (1 .. N) -> 0 .. N]
  BY <1>1, <1>3
<1>5. \A a \in 0 .. N, k \in 1 .. N : F[<<a, k>>] = IF a = 0 THEN 0 ELSE hash.chains[a]
  OBVIOUS
<1> HIDE DEF F
<1>6. PICK g \in Recursive(N, 0 .. N, hash.buckets[b], F) : TRUE
  <2>1. Recursive(N, 0 .. N, hash.buckets[b], F) # {}
    BY <1>1, <1>2, <1>4, Recursion, Zenon
  <2> QED
    BY <2>1
<1>7. /\ g \in [0 .. N -> 0 .. N]
      /\ \A n \in 0 .. N : g[n] = IF n = 0 THEN hash.buckets[b] ELSE F[<<g[n - 1], n>>]
  BY <1>6 DEF Recursive
<1>8. g = [n \in 0 .. N |-> IF n = 0 THEN hash.buckets[b]
                            ELSE IF g[n - 1] = 0 THEN 0 ELSE hash.chains[g[n - 1]]]
  <2>1. \A n \in 0 .. N : n # 0 => n \in 1 .. N /\ g[n - 1] \in 0 .. N
    BY <1>1, <1>7
  <2>2. \A n \in 0 .. N : g[n] = IF n = 0 THEN hash.buckets[b]
                                 ELSE IF g[n - 1] = 0 THEN 0 ELSE hash.chains[g[n - 1]]
    BY <1>5, <1>7, <2>1
  <2> QED
    BY <1>7, <2>2
<1>9. w = [n \in 0 .. N |-> IF n = 0 THEN hash.buckets[b]
                            ELSE IF w[n - 1] = 0 THEN 0 ELSE hash.chains[w[n - 1]]]
  BY <1>8 DEF Walk, N
<1> HIDE DEF w
<1>10. /\ w[0] = hash.buckets[b]
       /\ \A n \in 1 .. N : w[n] = IF w[n - 1] = 0 THEN 0 ELSE hash.chains[w[n - 1]]
  <2>1. \A n \in 1 .. N : n \in 0 .. N /\ n # 0
    OBVIOUS
  <2> QED
    BY <1>1, <1>9, <2>1
<1> DEFINE T == {n \in 0 .. N : w[n] \in 0 .. N - n}
<1>11. 0 \in T /\ \A n \in 1 .. N : n - 1 \in T => n \in T
  <2>1. 0 \in T
    BY <1>1, <1>2, <1>10
  <2>2. ASSUME NEW n \in 1 .. N, n - 1 \in T PROVE n \in T
    <3>1. PICK a : a = w[n - 1]
      OBVIOUS
    <3>2. a \in 0 .. N - (n - 1)
      BY <2>2, <3>1
    <3>3. CASE a = 0
      <4>1. w[n] = 0
        BY <1>10, <3>1, <3>3
      <4>2. n \in 0 .. N /\ 0 \in 0 .. N - n
        BY <1>1
      <4> QED
        BY <4>1, <4>2
    <3>4. CASE a # 0
      BY <1>1, <1>3, <1>10, <3>1, <3>2, <3>4
    <3> QED
      BY <3>3, <3>4
  <2> QED
    BY <2>1, <2>2, Zenon
<1>12. \A n \in 0 .. N : n \in T
  <2> HIDE DEF T
  <2> QED
    BY <1>1, <1>11, UpTo, Zenon
<1> QED
  BY <1>10, <1>12 DEF N, w

LEMMA HashFound ==
  ASSUME dynsym \in Seq(Imports), HashTable(hash, Len(dynsym))
  PROVE  HashFinds
<1> DEFINE N == Len(dynsym)
           Reached(k) == \E n \in 0 .. N : Walk(Bucket(dynsym[k]))[n] = k
           T == {m \in 0 .. N : \A k \in 1 .. N : k > N - m => Reached(k)}
<1>1. N \in Nat /\ DOMAIN dynsym = 1 .. N
  OBVIOUS
<1>2. 0 \in T
  BY <1>1
<1>3. ASSUME NEW m \in 1 .. N, m - 1 \in T PROVE m \in T
  <2>1. SUFFICES ASSUME NEW k \in 1 .. N, k > N - m PROVE Reached(k)
    BY <1>1
  <2>2. \A j \in 1 .. N : j > N - (m - 1) => Reached(j)
    BY <1>3
  <2>3. PICK b \in 0 .. nbucket - 1 : b = Bucket(dynsym[k])
    BY BucketFacts
  <2>4. PICK w : w = Walk(b)
    OBVIOUS
  <2>5. /\ w[0] = hash.buckets[b]
        /\ \A n \in 1 .. N : w[n] = IF w[n - 1] = 0 THEN 0 ELSE hash.chains[w[n - 1]]
        /\ \A n \in 0 .. N : w[n] \in 0 .. N - n
    BY <1>1, <2>4, WalkFacts
  <2>6. hash.buckets[b] = k \/ \E j \in k + 1 .. N : Bucket(dynsym[j]) = b /\ hash.chains[j] = k
    BY <2>3 DEF HashTable, Hangs
  <2>7. CASE hash.buckets[b] = k
    BY <1>1, <2>3, <2>4, <2>5, <2>7
  <2>8. ASSUME NEW j \in k + 1 .. N, Bucket(dynsym[j]) = b, hash.chains[j] = k PROVE Reached(k)
    <3>1. j \in 1 .. N /\ j > N - (m - 1)
      BY <1>1, <2>1
    <3>2. PICK n \in 0 .. N : w[n] = j
      BY <2>2, <2>4, <2>8, <3>1
    <3>3. n + 1 \in 1 .. N /\ (n + 1) - 1 = n /\ j # 0
      BY <1>1, <2>5, <3>1, <3>2
    <3>4. w[n + 1] = k
      BY <2>5, <2>8, <3>2, <3>3
    <3> QED
      BY <2>3, <2>4, <3>3, <3>4
  <2> QED
    BY <2>6, <2>7, <2>8
<1>4. N \in T
  <2> HIDE DEF T
  <2>1. \A m \in 1 .. N : m - 1 \in T => m \in T
    BY <1>3, Zenon
  <2>2. \A m \in 0 .. N : m \in T
    BY <1>1, <1>2, <2>1, UpTo, Zenon
  <2> QED
    BY <1>1, <2>2
<1>5. \A k \in 1 .. N : Reached(k)
  BY <1>1, <1>4
<1> QED
  BY <1>1, <1>5 DEF HashFinds


-----------------------------------------------------------------------------
(***************************************************************************)
(* Pages                                                                   *)
(***************************************************************************)
LEMMA Division ==
  ASSUME NEW P \in Nat \ {0}, NEW x \in Nat
  PROVE  \E q \in Nat, r \in 0 .. P - 1 : x = q * P + r /\ x \div P = q /\ x % P = r
<1>1. x \div P \in Nat
  OBVIOUS
<1>2. x % P \in 0 .. P - 1
  OBVIOUS
<1>3. x = (x \div P) * P + (x % P)
  OBVIOUS
<1> QED
  BY <1>1, <1>2, <1>3

LEMMA Quotient ==
  ASSUME NEW P \in Nat \ {0}, NEW q \in Nat, NEW r \in 0 .. P - 1
  PROVE  (q * P + r) \div P = q /\ (q * P + r) % P = r
OBVIOUS


LEMMA Product == ASSUME NEW P \in Nat, NEW q \in Nat PROVE q * P \in Nat
OBVIOUS

(* The next page: the smallest multiple that is not before.                *)
LEMMA PagedFacts ==
  ASSUME NEW off \in Nat
  PROVE  \E q \in Nat : Paged(off) = q * PAGE_SIZE /\ off <= q * PAGE_SIZE /\ q * PAGE_SIZE \in Nat
<1>1. PICK P \in Nat \ {0} : P = PAGE_SIZE
  BY ElfAssumption DEF ElfAssumption
<1>2. PICK x \in Nat : x = off + P - 1
  OBVIOUS
<1>3. PICK q \in Nat, r \in 0 .. P - 1 : x = q * P + r /\ x \div P = q
  BY Division
<1>4. PICK p \in Nat : p = q * P
  BY Product
<1>5. off <= p
  BY <1>2, <1>3, <1>4
<1>6. Paged(off) = p
  BY <1>1, <1>2, <1>3, <1>4 DEF Paged, align_up_u64
<1> QED
  BY <1>1, <1>4, <1>5, <1>6

LEMMA BasePage == \E v \in Nat : virt_adr = v * PAGE_SIZE
<1>1. PICK P \in Nat \ {0} : P = PAGE_SIZE
  BY ElfAssumption DEF ElfAssumption
<1>2. PICK x \in Nat : x = virt_adr /\ x % P = 0
  BY <1>1, ElfAssumption DEF ElfAssumption
<1>3. PICK q \in Nat, r \in 0 .. P - 1 : x = q * P + r /\ x % P = r
  BY Division
<1> QED
  BY <1>1, <1>2, <1>3

(* A page of the file is a page in memory.                                 *)
LEMMA PagedAddress ==
  ASSUME NEW q \in Nat
  PROVE  /\ Paged(virt_adr + q * PAGE_SIZE) = virt_adr + q * PAGE_SIZE
         /\ (virt_adr + q * PAGE_SIZE) % PAGE_SIZE = 0 /\ (q * PAGE_SIZE) % PAGE_SIZE = 0
         /\ \A a \in Nat : a < virt_adr + q * PAGE_SIZE =>
              a \div PAGE_SIZE < (virt_adr + q * PAGE_SIZE) \div PAGE_SIZE
<1>1. PICK P \in Nat \ {0} : P = PAGE_SIZE
  BY ElfAssumption DEF ElfAssumption
<1>2. PICK v \in Nat : virt_adr = v * P
  BY <1>1, BasePage
<1>3. PICK w \in Nat : w = v + q
  OBVIOUS
<1>4. virt_adr + q * P = w * P
  BY <1>2, <1>3
<1>5. (w * P + 0) \div P = w /\ (w * P + 0) % P = 0 /\ (q * P + 0) % P = 0
  <2>1. 0 \in 0 .. P - 1
    OBVIOUS
  <2> QED
    BY <2>1, Quotient
<1>6. w * P \in Nat /\ q * P \in Nat /\ w * P + 0 = w * P /\ q * P + 0 = q * P
  BY Product
<1>7. Paged(w * P) = w * P
  <2>1. PICK p \in Nat : p = w * P
    BY <1>6
  <2>2. (w * P + (P - 1)) \div P = w
    BY Quotient
  <2>3. p + P - 1 = w * P + (P - 1)
    BY <2>1
  <2>4. Paged(p) = ((p + P - 1) \div P) * P
    BY <1>1 DEF Paged, align_up_u64
  <2>5. (p + P - 1) \div P = w
    BY <2>2, <2>3
  <2> QED
    BY <2>1, <2>4, <2>5
<1>8. ASSUME NEW a \in Nat, a < w * P PROVE a \div P < w
  <2>1. PICK c \in Nat, r \in 0 .. P - 1 : a = c * P + r /\ a \div P = c
    BY Division
  <2>2. c * P < w * P
    BY <1>8, <2>1
  <2>3. ~ (w <= c)
    BY <2>2
  <2> QED
    BY <2>1, <2>3
<1> QED
  BY <1>1, <1>4, <1>5, <1>6, <1>7, <1>8


-----------------------------------------------------------------------------
(***************************************************************************)
(* The inductive invariant: what the fields hold that a function has set,  *)
(* once it has run, in terms of each other.                                *)
(***************************************************************************)
PlaceSet == [file_off : Nat, vaddr : Nat, size : Nat]

InterpPlaced == sec["interp"] = Place(PHDR_AMOUNT * Phdr + Ehdr, LoaderLen)

SymbolsPlaced ==
  /\ sec["dynsym"] = Place(End(sec["interp"]) + get_size_hash(imps), (Len(imps) + 1) * Sym)
  /\ sec["dynstr"] = Place(End(sec["interp"]) + get_size_hash(imps) + (Len(imps) + 1) * Sym,
                           dynstr_size(imps))

ImportsCounted ==
  /\ imps \in ImportTables
  /\ dynsym \in Seq(Imports) /\ Len(dynsym) = Len(imps)
  /\ \A k \in 1 .. Len(imps) : dynsym[k] = imps[k].name
  /\ \A k \in DOMAIN outside_fix.data : find_import(imps, outside_fix.data[k].target) # {}

HashPlaced == sec["hash"] = Place(End(sec["interp"]), get_size_hash(imps))

LayoutPlaced ==
  /\ sec["rela_plt"] = Place(End(sec["dynstr"]), Len(imps) * Rela)
  /\ sec["plt"] = Place(End(sec["rela_plt"]), (Len(imps) + 1) * SIZE_PLT_STAB)
  /\ sec["text"] = Place(End(sec["plt"]), offset)
  /\ sec["rodata"] = Place(End(sec["text"]), rodata_size)
  /\ \E q \in Nat :
       /\ End(sec["rodata"]) <= q * PAGE_SIZE
       /\ sec["dynamic"] = Place(q * PAGE_SIZE, DYNAMIC_AMOUNT * Dyn)
  /\ sec["got_plt"] = Place(End(sec["dynamic"]), (3 + Len(imps)) * Word)
  /\ sec["data"] = Place(End(sec["got_plt"]), flat_len(out_data))

RelaFilled ==
  /\ Len(rela) = Len(imps) /\ DOMAIN rela = 1 .. Len(imps)
  /\ \A k \in 1 .. Len(imps) : rela[k].r_offset = Slot(k) /\ rela[k].sym = k

PltFilled ==
  /\ plt.push = sec["got_plt"].vaddr + 8 /\ plt.jump = sec["got_plt"].vaddr + 16
  /\ \A k \in 1 .. Len(imps) : plt.stubs[k] = StubEntry(k)

GotFilled ==
  /\ Len(got) = 3 + Len(imps) /\ got[1] = sec["dynamic"].vaddr
  /\ \A k \in 1 .. Len(imps) : got[3 + k] = Stub(k) + 6

DynamicFilled ==
  /\ dynamic.pltgot = sec["got_plt"].vaddr
  /\ dynamic.jmprel = sec["rela_plt"].vaddr /\ dynamic.pltrelsz = sec["rela_plt"].size

CodeFinished ==
  /\ units[1] = [name |-> start, first |-> 1] /\ Address(1) = 0
  /\ \A i \in DOMAIN code :
       /\ code[i].kind = "import" =>
            \E k \in 1 .. Len(imps) :
              imps[k].name = code[i].ref /\ sec["text"].vaddr + After(i) + code[i].disp = Stub(k)
       /\ code[i].kind = "address" =>
            \E r \in DOMAIN rodata :
              /\ rodata[r].name = code[i].ref
              /\ sec["text"].vaddr + After(i) + code[i].disp
                   = virt_adr + sec["rodata"].file_off + rodata[r].at

PhdrFilled ==
  /\ phdr.entry = sec["text"].vaddr
  /\ phdr.rx = [off |-> 0, vaddr |-> virt_adr, size |-> End(sec["rodata"])]
  /\ phdr.rw = [off   |-> sec["dynamic"].file_off, vaddr |-> sec["dynamic"].vaddr,
                size  |-> End(sec["data"]) - sec["dynamic"].file_off]

FileWritten ==
  /\ DOMAIN file = 1 .. 11
  /\ \A k \in 1 .. 8 : file[k] = [name |-> ReadOnly[k], at |-> sec[ReadOnly[k]].file_off]
  /\ \A k \in 1 .. 3 : file[8 + k] = [name |-> ReadWrite[k], at |-> sec[ReadWrite[k]].file_off]

Steps == {"interp", "import_symbol", "hash", "layout_context", "rela_plt", "plt", "got_plt",
          "dynamic", "symbols", "phdr", "file", "end"}

(* The steps that come after a function has run.                           *)
FromPhdr    == {"phdr", "file", "end"}
FromSymbols == {"symbols"} \cup FromPhdr
FromGot     == {"got_plt", "dynamic"} \cup FromSymbols
FromRela    == {"rela_plt", "plt"} \cup FromGot
FromHash    == {"hash", "layout_context"} \cup FromRela

SetUp ==
  /\ step # "interp" => stage = "done" /\ InterpPlaced
  /\ step \in FromHash => ImportsCounted /\ SymbolsPlaced
  /\ step \in FromHash \ {"hash"} => HashPlaced /\ HashTable(hash, Len(dynsym))
  /\ step \in FromRela => LayoutPlaced

Filled ==
  /\ step \in FromRela \ {"rela_plt"} => RelaFilled
  /\ step \in FromGot => PltFilled
  /\ step \in FromGot \ {"got_plt"} => GotFilled
  /\ step \in FromSymbols => DynamicFilled
  /\ step \in FromPhdr => CodeFinished
  /\ step \in {"file", "end"} => PhdrFilled
  /\ step = "end" => FileWritten

ElfIInv ==
  /\ step \in Steps /\ sec \in [Sections -> PlaceSet]
  /\ step \notin FromPhdr => IInv /\ OutInv
  /\ SetUp /\ Filled

LEMMA InitElfIInv == ElfInit => ElfIInv
<1> SUFFICES ASSUME ElfInit PROVE ElfIInv
  OBVIOUS
<1>1. IInv /\ OutInv
  BY InitIInv, InitOut DEF ElfInit
<1>2. step = "interp" /\ sec = [s \in Sections |-> Unset]
  BY DEF ElfInit
<1>3. Unset \in PlaceSet
  BY DEF Unset, PlaceSet
<1>4. sec \in [Sections -> PlaceSet]
  BY <1>2, <1>3
<1>5. SetUp /\ Filled
  BY <1>2 DEF SetUp, Filled, FromHash, FromRela, FromGot, FromSymbols, FromPhdr
<1> QED
  BY <1>1, <1>2, <1>4, <1>5 DEF ElfIInv, Steps, FromPhdr

(* A step of the assembler.                                                *)
LEMMA AssemblerStep ==
  ASSUME ElfIInv, Next, UNCHANGED elf_vars
  PROVE  ElfIInv'
<1>1. stage # "done"
  BY DEF Next, Undefined, EmitString, EndRodata, EmitData, EndData, Plain, LocalLabel, Jump,
         Call, CallImport, Lea, GlobalLabel, Finish, Abort, EndOfText, Writing, At
<1>2. step = "interp" /\ step' = "interp" /\ sec' = sec
  BY <1>1 DEF ElfIInv, SetUp, elf_vars
<1>3. IInv /\ OutInv
  BY <1>2 DEF ElfIInv, FromPhdr
<1>4. IInv' /\ OutInv'
  BY <1>3, NextIInv, NextOut
<1>5. (SetUp /\ Filled)'
  BY <1>2 DEF SetUp, Filled, FromHash, FromRela, FromGot, FromSymbols, FromPhdr
<1> QED
  BY <1>2, <1>4, <1>5 DEF ElfIInv, FromPhdr


-----------------------------------------------------------------------------
(***************************************************************************)
(* What a function leaves alone                                            *)
(***************************************************************************)
LEMMA AssemblerKept ==
  ASSUME ElfIInv, step \notin FromPhdr, UNCHANGED asm_vars
  PROVE  IInv' /\ OutInv'
<1>1. IInv /\ OutInv
  BY DEF ElfIInv
<1>2. [Next]_vars
  BY DEF asm_vars
<1> QED
  BY <1>1, <1>2, NextIInv, NextOut

LEMMA ImportsKept ==
  ASSUME UNCHANGED <<outside_fix, imps, dynsym>>, ImportsCounted
  PROVE  ImportsCounted'
BY DEF ImportsCounted

LEMMA HashKept ==
  ASSUME UNCHANGED <<hash, dynsym>>, HashTable(hash, Len(dynsym))
  PROVE  HashTable(hash, Len(dynsym))'
BY DEF HashTable, Hangs

LEMMA LayoutKept ==
  ASSUME UNCHANGED <<sec, imps, offset, rodata_size, out_data>>, LayoutPlaced
  PROVE  LayoutPlaced'
BY DEF LayoutPlaced

LEMMA SetUpKept ==
  ASSUME UNCHANGED <<stage, offset, rodata_size, out_data, outside_fix, sec, imps, dynsym, hash>>,
         InterpPlaced, SymbolsPlaced, ImportsCounted, HashPlaced, HashTable(hash, Len(dynsym)),
         LayoutPlaced, stage = "done"
  PROVE  SetUp'
<1>1. InterpPlaced' /\ SymbolsPlaced' /\ HashPlaced' /\ stage' = "done"
  BY DEF InterpPlaced, SymbolsPlaced, HashPlaced
<1>2. ImportsCounted' /\ HashTable(hash, Len(dynsym))' /\ LayoutPlaced'
  BY ImportsKept, HashKept, LayoutKept
<1> QED
  BY <1>1, <1>2 DEF SetUp

LEMMA FilledKept ==
  ASSUME UNCHANGED <<sec, imps>>
  PROVE  /\ UNCHANGED rela /\ RelaFilled => RelaFilled'
         /\ UNCHANGED plt /\ PltFilled => PltFilled'
         /\ UNCHANGED got /\ GotFilled => GotFilled'
         /\ UNCHANGED dynamic /\ DynamicFilled => DynamicFilled'
         /\ UNCHANGED phdr /\ PhdrFilled => PhdrFilled'
         /\ UNCHANGED asm_vars /\ CodeFinished => CodeFinished'
<1>1. UNCHANGED rela /\ RelaFilled => RelaFilled'
  BY DEF RelaFilled, Slot
<1>2. UNCHANGED plt /\ PltFilled => PltFilled'
  BY DEF PltFilled, StubEntry, Slot
<1>3. UNCHANGED got /\ GotFilled => GotFilled'
  BY DEF GotFilled, Stub
<1>4. UNCHANGED dynamic /\ DynamicFilled => DynamicFilled'
  BY DEF DynamicFilled
<1>5. UNCHANGED phdr /\ PhdrFilled => PhdrFilled'
  BY DEF PhdrFilled
<1>6. UNCHANGED asm_vars /\ CodeFinished => CodeFinished'
  BY DEF CodeFinished, Address, After, Stub, asm_vars, vars, text_vars, ro_vars
<1> QED
  BY <1>1, <1>2, <1>3, <1>4, <1>5, <1>6

-----------------------------------------------------------------------------
(***************************************************************************)
(* One lemma for each function                                             *)
(***************************************************************************)
LEMMA PlaceFacts ==
  ASSUME NEW off \in Nat, NEW size \in Nat
  PROVE  /\ Place(off, size) \in PlaceSet
         /\ Place(off, size).file_off = off /\ Place(off, size).size = size
         /\ Place(off, size).vaddr = virt_adr + off
<1>1. virt_adr \in Nat
  BY ElfAssumption DEF ElfAssumption
<1> QED
  BY <1>1 DEF Place, PlaceSet

LEMMA InterpStep == ASSUME ElfIInv, fill_interp PROVE ElfIInv'
<1>1. /\ step = "interp" /\ step' = "import_symbol" /\ stage = "done" /\ stage' = stage
      /\ UNCHANGED asm_vars
      /\ sec' = [sec EXCEPT !["interp"] = Place(PHDR_AMOUNT * Phdr + Ehdr, LoaderLen)]
  BY DEF fill_interp, Run, asm_vars, vars
<1>2. IInv' /\ OutInv'
  BY <1>1, AssemblerKept DEF FromPhdr
<1>3. PICK p \in PlaceSet : p = Place(PHDR_AMOUNT * Phdr + Ehdr, LoaderLen)
  <2>1. PHDR_AMOUNT * Phdr + Ehdr = 400 /\ LoaderLen \in Nat /\ virt_adr \in Nat
    BY ElfAssumption DEF ElfAssumption, PHDR_AMOUNT, Phdr, Ehdr
  <2> QED
    BY <2>1, PlaceFacts
<1>4. sec' \in [Sections -> PlaceSet] /\ sec'["interp"] = p
  <2>1. sec \in [Sections -> PlaceSet] /\ "interp" \in Sections
    BY DEF ElfIInv, Sections
  <2> QED
    BY <1>1, <1>3, <2>1
<1>5. InterpPlaced'
  BY <1>3, <1>4 DEF InterpPlaced
<1>6. (SetUp /\ Filled)'
  BY <1>1, <1>5 DEF SetUp, Filled, FromHash, FromRela, FromGot, FromSymbols, FromPhdr
<1> QED
  BY <1>1, <1>2, <1>4, <1>6 DEF ElfIInv, Steps


LEMMA TotalFacts ==
  ASSUME NEW n \in Nat, NEW f \in [1 .. n -> Nat]
  PROVE  Sums(f)[n] \in Nat
<1>1. f \in Seq(Nat) /\ Len(f) = n
  OBVIOUS
<1>2. Sums(f) \in [0 .. Len(f) -> Nat]
  BY <1>1, SumsFacts
<1> QED
  BY <1>1, <1>2

LEMMA HashSize == ASSUME NEW is, Len(is) \in Nat PROVE get_size_hash(is) \in Nat
BY ElfAssumption DEF ElfAssumption, get_size_hash

LEMMA ImportTypes ==
  ASSUME NEW is \in ImportTables
  PROVE  /\ Len(is) \in Nat /\ DOMAIN is = 1 .. Len(is)
         /\ \A k \in 1 .. Len(is) : is[k].name \in Imports
<1>1. is \in Seq(ImportEntry)
  BY DEF ImportTables
<1>2. \A k \in 1 .. Len(is) : is[k] \in ImportEntry
  BY <1>1
<1>3. \A e \in ImportEntry : e.name \in Imports
  BY DEF ImportEntry
<1> QED
  BY <1>1, <1>2, <1>3

LEMMA NamesSize == ASSUME NEW is \in ImportTables PROVE dynstr_size(is) \in Nat
<1>1. Len(is) \in Nat /\ DOMAIN is = 1 .. Len(is) /\ \A k \in 1 .. Len(is) : is[k].name \in Imports
  BY ImportTypes
<1>2. PICK f : f = [k \in DOMAIN is |-> NameLen[is[k].name] + 1]
  OBVIOUS
<1>3. \A q \in Imports : NameLen[q] \in Nat
  BY ElfAssumption DEF ElfAssumption
<1>4. f \in [1 .. Len(is) -> Nat]
  BY <1>1, <1>2, <1>3
<1>5. Sums(f)[Len(is)] \in Nat
  BY <1>1, <1>4, TotalFacts
<1>6. LibsLen \in Nat
  BY ElfAssumption DEF ElfAssumption
<1> QED
  BY <1>2, <1>5, <1>6 DEF dynstr_size

LEMMA ImportSymbolStep == ASSUME ElfIInv, fill_import_symbol PROVE ElfIInv'
<1> DEFINE h == get_size_hash(imps')
           off == End(sec["interp"]) + h
           sym == (Len(imps') + 1) * Sym
<1>1. /\ step = "import_symbol" /\ step' = "hash" /\ stage = "done" /\ stage' = stage
      /\ UNCHANGED asm_vars /\ UNCHANGED outside_fix
      /\ imps' = Imported[Len(outside_fix.data)]
      /\ dynsym' = [i \in DOMAIN imps' |-> imps'[i].name]
  BY DEF fill_import_symbol, Run, asm_vars, vars, maps
<1>2. sec' = [sec EXCEPT !["dynsym"] = Place(off, sym),
                         !["dynstr"] = Place(off + sym, dynstr_size(imps'))]
  BY DEF fill_import_symbol
<1>3. IInv' /\ OutInv' /\ IInv /\ OutInv
  BY <1>1, AssemblerKept DEF FromPhdr, ElfIInv
<1>4. /\ imps' \in ImportTables
      /\ \A k \in DOMAIN outside_fix.data : find_import(imps', outside_fix.data[k].target) # {}
  BY <1>1, <1>3, ImportedFacts
<1>5. PICK n \in Nat : n = Len(imps')
  BY <1>4 DEF ImportTables
<1>6. /\ DOMAIN imps' = 1 .. n /\ \A k \in 1 .. n : imps'[k].name \in Imports
  BY <1>4, <1>5, ImportTypes
<1>7. /\ dynsym' \in Seq(Imports) /\ Len(dynsym') = n
      /\ \A k \in 1 .. n : dynsym'[k] = imps'[k].name
  BY <1>1, <1>5, <1>6
<1>8. ImportsCounted'
  BY <1>1, <1>4, <1>5, <1>7 DEF ImportsCounted
<1>9. sec \in [Sections -> PlaceSet] /\ {"interp", "dynsym", "dynstr"} \subseteq Sections
  BY DEF ElfIInv, Sections
<1>10. off \in Nat /\ sym \in Nat
  <2>1. h \in Nat
    BY <1>5, HashSize
  <2>2. sec["interp"].file_off \in Nat /\ sec["interp"].size \in Nat
    BY <1>9 DEF PlaceSet
  <2>3. sym \in Nat
    BY <1>5 DEF Sym
  <2> HIDE DEF h, sym
  <2> QED
    BY <2>1, <2>2, <2>3 DEF End
<1> HIDE DEF off, sym
<1>11. PICK a : a = Place(off, sym)
  OBVIOUS
<1>12. PICK b : b = Place(off + sym, dynstr_size(imps'))
  OBVIOUS
<1>13. a \in PlaceSet /\ b \in PlaceSet
  BY <1>4, <1>10, <1>11, <1>12, NamesSize, PlaceFacts
<1>14. /\ sec' \in [Sections -> PlaceSet]
       /\ sec'["interp"] = sec["interp"] /\ sec'["dynsym"] = a /\ sec'["dynstr"] = b
  BY <1>2, <1>9, <1>11, <1>12, <1>13
<1>15. SymbolsPlaced'
  BY <1>11, <1>12, <1>14 DEF SymbolsPlaced, off, sym, h
<1>16. InterpPlaced'
  BY <1>1, <1>14 DEF InterpPlaced, ElfIInv, SetUp
<1>17. (SetUp /\ Filled)'
  BY <1>1, <1>8, <1>15, <1>16 DEF SetUp, Filled, FromHash, FromRela, FromGot, FromSymbols, FromPhdr
<1> QED
  BY <1>1, <1>3, <1>14, <1>17 DEF ElfIInv, Steps

LEMMA HashStep == ASSUME ElfIInv, fill_hash PROVE ElfIInv'
<1>1. /\ step = "hash" /\ step' = "layout_context" /\ stage = "done" /\ stage' = stage
      /\ UNCHANGED asm_vars /\ UNCHANGED <<outside_fix, imps, dynsym>>
      /\ hash' = Hashed[Len(imps)]
      /\ sec' = [sec EXCEPT !["hash"] = Place(End(sec["interp"]), get_size_hash(imps))]
  BY DEF fill_hash, Run, asm_vars, vars, maps
<1>2. IInv' /\ OutInv'
  BY <1>1, AssemblerKept DEF FromPhdr
<1>3. InterpPlaced /\ ImportsCounted /\ SymbolsPlaced
  BY <1>1 DEF ElfIInv, SetUp, FromHash
<1>4. ImportsCounted'
  BY <1>1, <1>3, ImportsKept
<1>5. HashTable(hash, Len(dynsym))'
  <2>1. HashTable(Hashed[Len(imps)], Len(imps))
    BY <1>3, HashedFacts DEF ImportsCounted
  <2>2. HashTable(hash', Len(dynsym))
    BY <1>1, <1>3, <2>1 DEF ImportsCounted
  <2> QED
    BY <1>1, <2>2 DEF HashTable, Hangs
<1>6. sec \in [Sections -> PlaceSet] /\ {"interp", "dynsym", "dynstr", "hash"} \subseteq Sections
  BY DEF ElfIInv, Sections
<1>7. PICK a : a = Place(End(sec["interp"]), get_size_hash(imps))
  OBVIOUS
<1>8. a \in PlaceSet
  <2>1. sec["interp"].file_off \in Nat /\ sec["interp"].size \in Nat
    BY <1>6 DEF PlaceSet
  <2>2. End(sec["interp"]) \in Nat
    BY <2>1 DEF End
  <2>3. get_size_hash(imps) \in Nat
    BY <1>3, HashSize DEF ImportsCounted, ImportTables
  <2> QED
    BY <1>7, <2>2, <2>3, PlaceFacts
<1>9. /\ sec' \in [Sections -> PlaceSet] /\ sec'["hash"] = a
      /\ \A s \in {"interp", "dynsym", "dynstr"} : sec'[s] = sec[s]
  BY <1>1, <1>6, <1>7, <1>8
<1>10. InterpPlaced' /\ SymbolsPlaced' /\ HashPlaced'
  BY <1>1, <1>3, <1>7, <1>9 DEF InterpPlaced, SymbolsPlaced, HashPlaced
<1>11. (SetUp /\ Filled)'
  BY <1>1, <1>4, <1>5, <1>10 DEF SetUp, Filled, FromHash, FromRela, FromGot, FromSymbols, FromPhdr
<1> QED
  BY <1>1, <1>2, <1>9, <1>11 DEF ElfIInv, Steps


LEMMA ElementFacts ==
  ASSUME NEW S, NEW s \in Seq(S)
  PROVE  /\ Len(s) \in Nat /\ DOMAIN s = 1 .. Len(s)
         /\ \A k \in 1 .. Len(s) : s[k] \in S
OBVIOUS

LEMMA DataSize == ASSUME OutInv PROVE flat_len(out_data) \in Nat
<1>1. out_data \in Seq([kind : {"zero"}, len : Int])
  BY DEF OutInv, OnlyZeros
<1>2. Len(out_data) \in Nat /\ DOMAIN out_data = 1 .. Len(out_data)
  BY <1>1
<1>3. PICK f : f = [k \in DOMAIN out_data |-> IF out_data[k].kind = "zero" THEN 0
                                              ELSE 2 * out_data[k].len]
  OBVIOUS
<1>4. f \in [1 .. Len(out_data) -> Nat]
  <2>1. \A k \in 1 .. Len(out_data) : out_data[k] \in [kind : {"zero"}, len : Int]
    BY <1>1, ElementFacts
  <2>2. \A e \in [kind : {"zero"}, len : Int] : e.kind = "zero"
    OBVIOUS
  <2>3. \A k \in 1 .. Len(out_data) : out_data[k].kind = "zero"
    BY <2>1, <2>2, Zenon
  <2> QED
    BY <1>2, <1>3, <2>3
<1>5. Sums(f)[Len(out_data)] \in Nat
  BY <1>2, <1>4, TotalFacts
<1> QED
  BY <1>3, <1>5 DEF flat_len

LEMMA LayoutStep == ASSUME ElfIInv, fill_layout_context PROVE ElfIInv'
<1>1. /\ step = "layout_context" /\ step' = "rela_plt" /\ stage = "done" /\ stage' = stage
      /\ UNCHANGED asm_vars /\ UNCHANGED <<outside_fix, offset, rodata_size, out_data>>
      /\ UNCHANGED <<imps, dynsym, hash>>
  BY DEF fill_layout_context, Run, asm_vars, vars, maps, text_vars, ro_vars, data_vars
<1>2. IInv /\ OutInv /\ IInv' /\ OutInv'
  BY <1>1, AssemblerKept DEF FromPhdr, ElfIInv
<1>3. InterpPlaced /\ ImportsCounted /\ SymbolsPlaced /\ HashPlaced /\ HashTable(hash, Len(dynsym))
  BY <1>1 DEF ElfIInv, SetUp, FromHash, FromRela, FromGot, FromSymbols, FromPhdr
<1>4. sec \in [Sections -> PlaceSet]
  BY DEF ElfIInv
<1>5. PICK n \in Nat : n = Len(imps)
  BY <1>3, ImportTypes DEF ImportsCounted
<1>6. PICK d \in Nat : d = End(sec["dynstr"])
  <2>1. sec["dynstr"] \in PlaceSet
    BY <1>4 DEF Sections
  <2> QED
    BY <2>1 DEF End, PlaceSet
<1>7. n * Rela \in Nat /\ (n + 1) * SIZE_PLT_STAB \in Nat /\ (3 + n) * Word \in Nat
      /\ DYNAMIC_AMOUNT * Dyn \in Nat
  BY DEF Rela, SIZE_PLT_STAB, Word, DYNAMIC_AMOUNT, Dyn
<1>8. offset \in Nat /\ rodata_size \in Nat /\ flat_len(out_data) \in Nat
  BY <1>2, DataSize DEF IInv, TypeInv
<1>9. \A off \in Nat, size \in Nat :
        Place(off, size) \in PlaceSet /\ End(Place(off, size)) = off + size
        /\ End(Place(off, size)) \in Nat
  BY PlaceFacts DEF End
<1>10. PICK rp \in PlaceSet : rp = Place(d, n * Rela) /\ End(rp) \in Nat
  BY <1>7, <1>9
<1>11. PICK pl \in PlaceSet : pl = Place(End(rp), (n + 1) * SIZE_PLT_STAB) /\ End(pl) \in Nat
  BY <1>7, <1>9, <1>10
<1>12. PICK tx \in PlaceSet : tx = Place(End(pl), offset) /\ End(tx) \in Nat
  BY <1>8, <1>9, <1>11
<1>13. PICK ro \in PlaceSet : ro = Place(End(tx), rodata_size) /\ End(ro) \in Nat
  BY <1>8, <1>9, <1>12
<1>14. PICK q \in Nat : /\ Paged(End(ro)) = q * PAGE_SIZE
                        /\ End(ro) <= q * PAGE_SIZE /\ q * PAGE_SIZE \in Nat
  BY <1>13, PagedFacts
<1>15. PICK m \in Nat : m = q * PAGE_SIZE
  BY <1>14
<1>16. PICK dy \in PlaceSet : dy = Place(m, DYNAMIC_AMOUNT * Dyn) /\ End(dy) \in Nat
  BY <1>7, <1>9
<1>17. PICK gp \in PlaceSet : gp = Place(End(dy), (3 + n) * Word) /\ End(gp) \in Nat
  BY <1>7, <1>9, <1>16
<1>18. PICK da \in PlaceSet : da = Place(End(gp), flat_len(out_data))
  BY <1>8, <1>9, <1>17
<1>19. dy = [Place(Paged(End(ro)), DYNAMIC_AMOUNT * Dyn) EXCEPT
               !.vaddr = Paged(virt_adr + Paged(End(ro)))]
  <2>1. Paged(virt_adr + Paged(End(ro))) = virt_adr + m
    BY <1>14, <1>15, PagedAddress
  <2>2. [Place(m, DYNAMIC_AMOUNT * Dyn) EXCEPT !.vaddr = virt_adr + m]
          = Place(m, DYNAMIC_AMOUNT * Dyn)
    BY DEF Place
  <2> QED
    BY <1>14, <1>15, <1>16, <2>1, <2>2
<1>20. sec' = [sec EXCEPT !["rela_plt"] = rp, !["plt"] = pl, !["text"] = tx, !["rodata"] = ro,
                          !["dynamic"] = dy, !["got_plt"] = gp, !["data"] = da]
  BY <1>5, <1>6, <1>10, <1>11, <1>12, <1>13, <1>17, <1>18, <1>19 DEF fill_layout_context
<1>21. /\ sec' \in [Sections -> PlaceSet]
       /\ sec'["rela_plt"] = rp /\ sec'["plt"] = pl /\ sec'["text"] = tx /\ sec'["rodata"] = ro
       /\ sec'["dynamic"] = dy /\ sec'["got_plt"] = gp /\ sec'["data"] = da
       /\ \A s \in {"interp", "hash", "dynsym", "dynstr"} : sec'[s] = sec[s]
  BY <1>4, <1>20 DEF Sections
<1>22. LayoutPlaced'
  BY <1>1, <1>5, <1>6, <1>10, <1>11, <1>12, <1>13, <1>14, <1>15, <1>16, <1>17, <1>18, <1>21
     DEF LayoutPlaced
<1>23. InterpPlaced' /\ SymbolsPlaced' /\ HashPlaced'
  BY <1>1, <1>3, <1>21 DEF InterpPlaced, SymbolsPlaced, HashPlaced
<1>24. ImportsCounted' /\ HashTable(hash, Len(dynsym))'
  BY <1>1, <1>3, ImportsKept, HashKept
<1>25. (SetUp /\ Filled)'
  BY <1>1, <1>22, <1>23, <1>24
     DEF SetUp, Filled, FromHash, FromRela, FromGot, FromSymbols, FromPhdr
<1> QED
  BY <1>1, <1>2, <1>21, <1>25 DEF ElfIInv, Steps

(* From here on the places stay.                                           *)
LEMMA PlacedKept ==
  ASSUME ElfIInv, step \in FromRela,
         UNCHANGED <<stage, offset, rodata_size, out_data, outside_fix, sec, imps, dynsym, hash>>
  PROVE  SetUp' /\ sec' \in [Sections -> PlaceSet]
<1>1. /\ InterpPlaced /\ SymbolsPlaced /\ ImportsCounted /\ HashPlaced
      /\ HashTable(hash, Len(dynsym)) /\ LayoutPlaced /\ stage = "done"
  BY DEF ElfIInv, SetUp, FromHash, FromRela, FromGot, FromSymbols, FromPhdr
<1> QED
  BY <1>1, SetUpKept DEF ElfIInv

LEMMA RelaStep == ASSUME ElfIInv, fill_rela_plt PROVE ElfIInv'
<1>1. /\ step = "rela_plt" /\ step' = "plt" /\ UNCHANGED asm_vars
      /\ UNCHANGED <<stage, offset, rodata_size, out_data, outside_fix, sec, imps, dynsym, hash>>
      /\ rela' = [i \in DOMAIN imps |->
                    [r_offset |-> sec["got_plt"].vaddr + (3 + i - 1) * Word,
                     sym      |-> imps[i].dynsym_offset]]
  BY DEF fill_rela_plt, Run, asm_vars, vars, maps, text_vars, ro_vars, data_vars
<1>2. IInv' /\ OutInv' /\ SetUp' /\ sec' \in [Sections -> PlaceSet]
  BY <1>1, AssemblerKept, PlacedKept DEF FromPhdr, FromRela
<1>3. imps \in ImportTables
  BY <1>1 DEF ElfIInv, SetUp, FromHash, FromRela, ImportsCounted
<1>4. /\ Len(imps) \in Nat /\ DOMAIN imps = 1 .. Len(imps)
      /\ \A k \in 1 .. Len(imps) : imps[k].dynsym_offset = k
  BY <1>3, ImportTypes DEF ImportTables
<1>5. RelaFilled'
  BY <1>1, <1>4 DEF RelaFilled, Slot
<1>6. Filled'
  BY <1>1, <1>5 DEF Filled, FromRela, FromGot, FromSymbols, FromPhdr
<1> QED
  BY <1>1, <1>2, <1>6 DEF ElfIInv, Steps

LEMMA PltStep == ASSUME ElfIInv, fill_plt PROVE ElfIInv'
<1>1. /\ step = "plt" /\ step' = "got_plt" /\ UNCHANGED asm_vars /\ UNCHANGED rela
      /\ UNCHANGED <<stage, offset, rodata_size, out_data, outside_fix, sec, imps, dynsym, hash>>
      /\ plt' = [push  |-> sec["got_plt"].vaddr + 8, jump |-> sec["got_plt"].vaddr + 16,
                 stubs |-> [i \in DOMAIN imps |-> StubEntry(i)]]
  BY DEF fill_plt, Run, asm_vars, vars, maps, text_vars, ro_vars, data_vars
<1>2. IInv' /\ OutInv' /\ SetUp' /\ sec' \in [Sections -> PlaceSet]
  BY <1>1, AssemblerKept, PlacedKept DEF FromPhdr, FromRela
<1>3. imps \in ImportTables /\ RelaFilled
  BY <1>1 DEF ElfIInv, SetUp, Filled, FromHash, FromRela, ImportsCounted
<1>4. DOMAIN imps = 1 .. Len(imps)
  BY <1>3, ImportTypes
<1>5. PltFilled' /\ RelaFilled'
  <2>1. RelaFilled'
    BY <1>1, <1>3, FilledKept
  <2>2. PltFilled'
    BY <1>1, <1>4 DEF PltFilled, StubEntry, Slot
  <2> QED
    BY <2>1, <2>2
<1>6. Filled'
  BY <1>1, <1>5 DEF Filled, FromRela, FromGot, FromSymbols, FromPhdr
<1> QED
  BY <1>1, <1>2, <1>6 DEF ElfIInv, Steps

(* What concatenation gives, index by index.                               *)
LEMMA ConcatFacts ==
  ASSUME NEW S, NEW s \in Seq(S), NEW t \in Seq(S)
  PROVE  /\ Len(s \o t) = Len(s) + Len(t)
         /\ DOMAIN (s \o t) = 1 .. Len(s) + Len(t)
         /\ \A i \in 1 .. Len(s) : (s \o t)[i] = s[i]
         /\ \A i \in 1 .. Len(t) : (s \o t)[Len(s) + i] = t[i]
OBVIOUS

LEMMA GotStep == ASSUME ElfIInv, fill_got_plt PROVE ElfIInv'
<1>1. /\ step = "got_plt" /\ step' = "dynamic" /\ UNCHANGED asm_vars /\ UNCHANGED <<rela, plt>>
      /\ UNCHANGED <<stage, offset, rodata_size, out_data, outside_fix, sec, imps, dynsym, hash>>
      /\ got' = <<sec["dynamic"].vaddr, 0, 0>> \o [i \in DOMAIN imps |-> Stub(i) + 6]
  BY DEF fill_got_plt, Run, asm_vars, vars, maps, text_vars, ro_vars, data_vars
<1>2. IInv' /\ OutInv' /\ SetUp' /\ sec' \in [Sections -> PlaceSet]
  BY <1>1, AssemblerKept, PlacedKept DEF FromPhdr, FromRela, FromGot
<1>3. imps \in ImportTables /\ RelaFilled /\ PltFilled
  BY <1>1 DEF ElfIInv, SetUp, Filled, FromHash, FromRela, FromGot, ImportsCounted
<1>4. DOMAIN imps = 1 .. Len(imps) /\ Len(imps) \in Nat
  BY <1>3, ImportTypes
<1>5. RelaFilled' /\ PltFilled'
  BY <1>1, <1>3, FilledKept
<1>6. GotFilled'
  <2>1. PICK n \in Nat : n = Len(imps)
    BY <1>4
  <2>2. PICK a : a = <<sec["dynamic"].vaddr, 0, 0>>
    OBVIOUS
  <2>3. PICK b : b = [i \in 1 .. n |-> Stub(i) + 6]
    OBVIOUS
  <2>4. /\ sec["plt"].vaddr \in Nat /\ sec["dynamic"].vaddr \in Nat
    <3>1. sec["plt"] \in PlaceSet /\ sec["dynamic"] \in PlaceSet
      BY DEF ElfIInv, Sections
    <3> QED
      BY <3>1 DEF PlaceSet
  <2>5. a \in Seq(Nat) /\ Len(a) = 3 /\ a[1] = sec["dynamic"].vaddr
    BY <2>2, <2>4
  <2>6. b \in Seq(Nat) /\ Len(b) = n /\ \A k \in 1 .. n : b[k] = Stub(k) + 6
    <3>1. \A k \in 1 .. n : Stub(k) + 6 \in Nat
      BY <2>4 DEF Stub, SIZE_PLT_STAB
    <3> QED
      BY <2>3, <3>1
  <2>7. got' = a \o b
    BY <1>1, <1>4, <2>1, <2>2, <2>3
  <2>8. Len(a \o b) = 3 + n /\ (a \o b)[1] = a[1] /\ \A k \in 1 .. n : (a \o b)[3 + k] = b[k]
    <3>1. 1 \in 1 .. Len(a)
      BY <2>5
    <3>2. /\ Len(a \o b) = Len(a) + Len(b)
          /\ \A i \in 1 .. Len(a) : (a \o b)[i] = a[i]
          /\ \A i \in 1 .. Len(b) : (a \o b)[Len(a) + i] = b[i]
      <4>1. a \in Seq(Nat) /\ b \in Seq(Nat)
        BY <2>5, <2>6
      <4> QED
        BY <4>1, ConcatFacts
    <3> QED
      BY <2>5, <2>6, <3>1, <3>2
  <2>9. \A k \in 1 .. n : got'[3 + k] = Stub(k) + 6
    BY <2>6, <2>7, <2>8
  <2> QED
    BY <1>1, <2>1, <2>5, <2>7, <2>8, <2>9 DEF GotFilled, Stub
<1>7. Filled'
  BY <1>1, <1>5, <1>6 DEF Filled, FromRela, FromGot, FromSymbols, FromPhdr
<1> QED
  BY <1>1, <1>2, <1>7 DEF ElfIInv, Steps

LEMMA DynamicStep == ASSUME ElfIInv, fill_dynamic PROVE ElfIInv'
<1>1. /\ step = "dynamic" /\ step' = "symbols" /\ UNCHANGED asm_vars /\ UNCHANGED <<rela, plt, got>>
      /\ UNCHANGED <<stage, offset, rodata_size, out_data, outside_fix, sec, imps, dynsym, hash>>
  BY DEF fill_dynamic, Run, asm_vars, vars, maps, text_vars, ro_vars, data_vars
<1>2. IInv' /\ OutInv' /\ SetUp' /\ sec' \in [Sections -> PlaceSet]
  BY <1>1, AssemblerKept, PlacedKept DEF FromPhdr, FromRela, FromGot
<1>3. RelaFilled /\ PltFilled /\ GotFilled
  BY <1>1 DEF ElfIInv, Filled, FromRela, FromGot
<1>4. RelaFilled' /\ PltFilled' /\ GotFilled'
  BY <1>1, <1>3, FilledKept
<1>5. DynamicFilled'
  BY DEF fill_dynamic, DynamicFilled
<1>6. Filled'
  BY <1>1, <1>4, <1>5 DEF Filled, FromRela, FromGot, FromSymbols, FromPhdr
<1> QED
  BY <1>1, <1>2, <1>6 DEF ElfIInv, Steps, FromSymbols


(* The displacement of a call waits in outside_fix; what is noted there    *)
(* says where the instruction ends.                                        *)
LEMMA CallDisplaced ==
  ASSUME IInv, OutInv, ImportsCounted,
         sec["plt"] \in PlaceSet, sec["text"] \in PlaceSet,
         NEW i \in DOMAIN code, code[i].kind = "import"
  PROVE  /\ Waiting(i, outside_fix, "GOT_FUNC") # {} /\ Waiting(i, file_fix, "LOCAL_VAR") = {}
         /\ LET fix == outside_fix.data[CHOOSE k \in Waiting(i, outside_fix, "GOT_FUNC") : TRUE]
            IN  \E k \in 1 .. Len(imps) :
                  /\ imps[k].name = code[i].ref
                  /\ sec["text"].vaddr + After(i) + Rel32(CallTarget(fix), fix) = Stub(k)
<1>0. Waiting(i, file_fix, "LOCAL_VAR") = {}
  BY DEF Waiting, IInv, FileFixes, Describes
<1>1. Waiting(i, outside_fix, "GOT_FUNC") # {}
  <2>1. PICK k \in DOMAIN outside_fix.data : outside_fix.data[k].index = i
    BY DEF OutInv, ImportsWait
  <2>2. k \in Waiting(i, outside_fix, "GOT_FUNC")
    BY <2>1 DEF Waiting, OutInv, OutsideFixes
  <2> QED
    BY <2>2
<1>2. PICK w : w = CHOOSE k \in Waiting(i, outside_fix, "GOT_FUNC") : TRUE
  OBVIOUS
<1>3. w \in DOMAIN outside_fix.data /\ outside_fix.data[w].index = i
  <2>1. w \in Waiting(i, outside_fix, "GOT_FUNC")
    BY <1>1, <1>2
  <2> QED
    BY <2>1 DEF Waiting
<1>4. PICK fix : fix = outside_fix.data[w]
  OBVIOUS
<1>5. /\ code[i].ref = fix.target /\ fix.ads_offset = code[i].at
      /\ fix.inner_offset + 4 = code[i].len
  BY <1>3, <1>4 DEF OutInv, OutsideFixes, Describes
<1>6. fix.ads_offset \in Nat /\ fix.inner_offset \in Nat
  <2>1. fix \in FixEntry
    BY <1>3, <1>4, ElementFacts DEF IInv, TypeInv, Entries
  <2>2. \A f \in FixEntry : f.ads_offset \in Nat /\ f.inner_offset \in Nat
    BY DEF FixEntry
  <2> QED
    BY <2>1, <2>2
<1>7. PICK k : k = CHOOSE j \in find_import(imps, fix.target) : TRUE
  OBVIOUS
<1>8. k \in 1 .. Len(imps) /\ imps[k].name = fix.target
  <2>1. find_import(imps, fix.target) # {}
    BY <1>3, <1>4 DEF ImportsCounted
  <2>2. k \in find_import(imps, fix.target)
    BY <1>7, <2>1
  <2>3. imps \in ImportTables
    BY DEF ImportsCounted
  <2> QED
    BY <2>2, <2>3, ImportTypes DEF find_import
<1>9. imps[k].plt_idx + 1 = k
  BY <1>8 DEF ImportsCounted, ImportTables
<1>10. CallTarget(fix) = Stub(k)
  BY <1>7, <1>9 DEF CallTarget
<1>11. PICK t \in Nat : t = sec["text"].vaddr
  BY DEF PlaceSet
<1>12. Stub(k) \in Nat
  <2>1. sec["plt"].vaddr \in Nat
    BY DEF PlaceSet
  <2> QED
    BY <1>8, <2>1 DEF Stub, SIZE_PLT_STAB
<1>13. PICK a \in Nat, b \in Nat : a = fix.ads_offset /\ b = fix.inner_offset
  BY <1>6
<1>14. After(i) = a + b + 4
  BY <1>5, <1>13 DEF After
<1>15. Rel32(CallTarget(fix), fix) = Stub(k) - (t + a + b + 4)
  BY <1>10, <1>11, <1>13 DEF Rel32
<1>16. sec["text"].vaddr + After(i) + Rel32(CallTarget(fix), fix) = Stub(k)
  <2>1. PICK s \in Nat : s = Stub(k)
    BY <1>12
  <2>2. t + (a + b + 4) + (s - (t + a + b + 4)) = s
    OBVIOUS
  <2> QED
    BY <1>11, <1>14, <1>15, <2>1, <2>2
<1> QED
  BY <1>0, <1>1, <1>2, <1>4, <1>5, <1>8, <1>16

LEMMA AddressDisplaced ==
  ASSUME IInv, OutInv, stage = "done", sec["rodata"] \in PlaceSet, sec["text"] \in PlaceSet,
         NEW i \in DOMAIN code, code[i].kind = "address"
  PROVE  /\ Waiting(i, outside_fix, "GOT_FUNC") = {}
         /\ Waiting(i, file_fix, "LOCAL_VAR") # {}
         /\ LET fix == file_fix.data[CHOOSE k \in Waiting(i, file_fix, "LOCAL_VAR") : TRUE]
            IN  \E r \in DOMAIN rodata :
                  /\ rodata[r].name = code[i].ref
                  /\ sec["text"].vaddr + After(i) + Rel32(AddressTarget(i), fix)
                       = virt_adr + sec["rodata"].file_off + rodata[r].at
<1>1. Waiting(i, outside_fix, "GOT_FUNC") = {}
  BY DEF Waiting, OutInv, OutsideFixes, Describes
<1>2. Waiting(i, file_fix, "LOCAL_VAR") # {}
  <2>1. PICK k \in DOMAIN file_fix.data : file_fix.data[k].index = i
    BY DEF IInv, ReferencesWait
  <2>2. k \in Waiting(i, file_fix, "LOCAL_VAR")
    BY <2>1 DEF Waiting, IInv, FileFixes, Describes
  <2> QED
    BY <2>2
<1>3. PICK w : w = CHOOSE k \in Waiting(i, file_fix, "LOCAL_VAR") : TRUE
  OBVIOUS
<1>4. w \in DOMAIN file_fix.data /\ file_fix.data[w].index = i /\ file_fix.data[w].kind = "LOCAL_VAR"
  <2>1. w \in Waiting(i, file_fix, "LOCAL_VAR")
    BY <1>2, <1>3
  <2> QED
    BY <2>1 DEF Waiting
<1>5. PICK fix : fix = file_fix.data[w]
  OBVIOUS
<1>6. fix.ads_offset = code[i].at /\ fix.inner_offset + 4 = code[i].len
  BY <1>4, <1>5 DEF IInv, FileFixes, Describes
<1>7. fix.ads_offset \in Nat /\ fix.inner_offset \in Nat
  <2>1. fix \in FixEntry
    BY <1>4, <1>5, ElementFacts DEF IInv, TypeInv, Entries
  <2>2. \A f \in FixEntry : f.ads_offset \in Nat /\ f.inner_offset \in Nat
    BY DEF FixEntry
  <2> QED
    BY <2>1, <2>2
<1>8. PICK r \in DOMAIN rodata : rodata[r].name = code[i].ref /\ rodata[r].at = code[i].disp
  BY DEF IInv, AddressesWait
<1>9. rodata[r].at \in Nat
  <2>1. rodata[r] \in [name : Strings, at : Nat]
    BY ElementFacts DEF IInv, TypeInv
  <2> QED
    BY <2>1
<1>10. PICK t \in Nat, o \in Nat, v \in Nat, m \in Nat :
         t = sec["text"].vaddr /\ o = sec["rodata"].file_off /\ v = virt_adr /\ m = rodata[r].at
  BY <1>9, ElfAssumption DEF PlaceSet, ElfAssumption
<1>11. PICK a \in Nat, b \in Nat : a = fix.ads_offset /\ b = fix.inner_offset
  BY <1>7
<1>12. After(i) = a + b + 4
  BY <1>6, <1>11 DEF After
<1>13. Rel32(AddressTarget(i), fix) = (v + o + m) - (t + a + b + 4)
  BY <1>8, <1>10, <1>11 DEF Rel32, AddressTarget
<1>14. sec["text"].vaddr + After(i) + Rel32(AddressTarget(i), fix)
         = virt_adr + sec["rodata"].file_off + rodata[r].at
  <2>1. t + (a + b + 4) + ((v + o + m) - (t + a + b + 4)) = v + o + m
    OBVIOUS
  <2> QED
    BY <1>10, <1>12, <1>13, <2>1
<1> QED
  BY <1>1, <1>2, <1>3, <1>5, <1>8, <1>14


LEMMA SymbolsStep == ASSUME ElfIInv, fill_symbols PROVE ElfIInv'
<1>1. /\ step = "symbols" /\ step' = "phdr" /\ stage = "done"
      /\ UNCHANGED <<stage, offset, rodata_size, out_data, outside_fix, sec, imps, dynsym, hash>>
      /\ UNCHANGED <<rela, plt, got, dynamic>> /\ UNCHANGED <<units, rodata>>
  BY DEF fill_symbols, Run, maps, ro_vars, data_vars
<1>2. /\ IInv /\ OutInv /\ ImportsCounted /\ RelaFilled /\ PltFilled /\ GotFilled /\ DynamicFilled
      /\ sec["plt"] \in PlaceSet /\ sec["text"] \in PlaceSet /\ sec["rodata"] \in PlaceSet
  BY <1>1 DEF ElfIInv, SetUp, Filled, FromHash, FromRela, FromGot, FromSymbols, FromPhdr, Sections
<1>3. SetUp' /\ sec' \in [Sections -> PlaceSet]
  BY <1>1, PlacedKept DEF FromRela, FromGot, FromSymbols
<1>4. RelaFilled' /\ PltFilled' /\ GotFilled' /\ DynamicFilled'
  BY <1>1, <1>2, FilledKept
<1>5. /\ DOMAIN code' = DOMAIN code
      /\ \A i \in DOMAIN code :
           /\ /\ Waiting(i, outside_fix, "GOT_FUNC") # {}
              /\ Waiting(i, file_fix, "LOCAL_VAR") = {}
              => \E fix : /\ fix = outside_fix.data[CHOOSE k \in Waiting(i, outside_fix, "GOT_FUNC") : TRUE]
                          /\ code'[i] = [code[i] EXCEPT !.disp = Rel32(CallTarget(fix), fix)]
           /\ /\ Waiting(i, outside_fix, "GOT_FUNC") = {}
              /\ Waiting(i, file_fix, "LOCAL_VAR") # {}
              => \E fix : /\ fix = file_fix.data[CHOOSE k \in Waiting(i, file_fix, "LOCAL_VAR") : TRUE]
                          /\ code'[i] = [code[i] EXCEPT !.disp = Rel32(AddressTarget(i), fix)]
           /\ \/ code'[i] = code[i]
              \/ \E d : code'[i] = [code[i] EXCEPT !.disp = d]
  <2> DEFINE far(i) == Waiting(i, outside_fix, "GOT_FUNC")
             near(i) == Waiting(i, file_fix, "LOCAL_VAR")
             out(i) == LET fix == outside_fix.data[CHOOSE k \in far(i) : TRUE]
                       IN  [code[i] EXCEPT !.disp = Rel32(CallTarget(fix), fix)]
             adr(i) == LET fix == file_fix.data[CHOOSE k \in near(i) : TRUE]
                       IN  [code[i] EXCEPT !.disp = Rel32(AddressTarget(i), fix)]
  <2>1. code' = [i \in DOMAIN code |-> CASE far(i) # {} -> out(i)
                                         [] near(i) # {} -> adr(i)
                                         [] OTHER -> code[i]]
    BY DEF fill_symbols
  <2>2. \A i \in DOMAIN code :
          /\ far(i) # {} => code'[i] = out(i) \/ (near(i) # {} /\ code'[i] = adr(i))
          /\ far(i) = {} /\ near(i) # {} => code'[i] = adr(i)
          /\ far(i) = {} /\ near(i) = {} => code'[i] = code[i]
    <3> HIDE DEF far, near, out, adr
    <3> QED
      BY <2>1
  <2> QED
    BY <2>1, <2>2
<1>6. /\ DOMAIN code = 1 .. Len(code) /\ Len(code) \in Nat /\ \A i \in DOMAIN code : code[i] \in Code
      /\ code \in Seq(Code)
  BY <1>2, ElementFacts DEF IInv, TypeInv
<1>7. \A d : \A c \in Code :
        LET e == [c EXCEPT !.disp = d] IN
        /\ e.disp = d /\ e.kind = c.kind /\ e.ref = c.ref /\ e.at = c.at /\ e.len = c.len
  BY DEF Code
<1>8. \A i \in DOMAIN code : /\ code'[i].kind = code[i].kind /\ code'[i].ref = code[i].ref
                             /\ code'[i].at = code[i].at /\ After(i)' = After(i)
  <2> SUFFICES ASSUME NEW i \in DOMAIN code
               PROVE  /\ code'[i].kind = code[i].kind /\ code'[i].ref = code[i].ref
                      /\ code'[i].at = code[i].at /\ code'[i].len = code[i].len
    BY DEF After
  <2>1. CASE code'[i] = code[i]
    BY <2>1
  <2>2. ASSUME NEW d, code'[i] = [code[i] EXCEPT !.disp = d]
        PROVE  /\ code'[i].kind = code[i].kind /\ code'[i].ref = code[i].ref
               /\ code'[i].at = code[i].at /\ code'[i].len = code[i].len
    BY <1>6, <1>7, <2>2
  <2> QED
    BY <1>5, <2>1, <2>2
<1>9. ASSUME NEW i \in DOMAIN code, code[i].kind = "import"
      PROVE  \E k \in 1 .. Len(imps) :
               /\ imps[k].name = code[i].ref
               /\ sec["text"].vaddr + After(i) + code'[i].disp = Stub(k)
  <2>1. PICK fix :
          /\ fix = outside_fix.data[CHOOSE k \in Waiting(i, outside_fix, "GOT_FUNC") : TRUE]
          /\ code'[i] = [code[i] EXCEPT !.disp = Rel32(CallTarget(fix), fix)]
    BY <1>2, <1>5, <1>9, CallDisplaced
  <2>2. code'[i].disp = Rel32(CallTarget(fix), fix)
    BY <1>6, <1>7, <2>1
  <2> QED
    BY <1>2, <1>9, <2>1, <2>2, CallDisplaced
<1>10. ASSUME NEW i \in DOMAIN code, code[i].kind = "address"
       PROVE  \E r \in DOMAIN rodata :
                /\ rodata[r].name = code[i].ref
                /\ sec["text"].vaddr + After(i) + code'[i].disp
                     = virt_adr + sec["rodata"].file_off + rodata[r].at
  <2>1. PICK fix :
          /\ fix = file_fix.data[CHOOSE k \in Waiting(i, file_fix, "LOCAL_VAR") : TRUE]
          /\ code'[i] = [code[i] EXCEPT !.disp = Rel32(AddressTarget(i), fix)]
    BY <1>1, <1>2, <1>5, <1>10, AddressDisplaced
  <2>2. code'[i].disp = Rel32(AddressTarget(i), fix)
    BY <1>6, <1>7, <2>1
  <2> QED
    BY <1>1, <1>2, <1>10, <2>1, <2>2, AddressDisplaced
<1>11. units'[1] = [name |-> start, first |-> 1] /\ Address(1)' = 0
  <2>1. units[1] = [name |-> start, first |-> 1] /\ Address(1) = 0
    BY <1>1, <1>2 DEF IInv, TypeInv, OffsetsAreBytes, OutInv
  <2>2. Len(code') = Len(code)
    BY <1>5, <1>6 DEF fill_symbols
  <2> QED
    BY <1>1, <1>6, <1>8, <2>1, <2>2 DEF Address
<1>12. CodeFinished'
  <2>1. \A k : Stub(k)' = Stub(k)
    BY <1>1 DEF Stub
  <2> QED
    BY <1>1, <1>5, <1>8, <1>9, <1>10, <1>11, <2>1 DEF CodeFinished
<1>13. Filled'
  BY <1>1, <1>4, <1>12 DEF Filled, FromRela, FromGot, FromSymbols, FromPhdr
<1> QED
  BY <1>1, <1>3, <1>13 DEF ElfIInv, Steps, FromPhdr

LEMMA PhdrStep == ASSUME ElfIInv, emit_phdr PROVE ElfIInv'
<1>1. /\ step = "phdr" /\ step' = "file" /\ UNCHANGED asm_vars /\ UNCHANGED <<rela, plt, got, dynamic>>
      /\ UNCHANGED <<stage, offset, rodata_size, out_data, outside_fix, sec, imps, dynsym, hash>>
      /\ phdr' = [entry |-> sec["text"].vaddr,
                  rx |-> [off |-> 0, vaddr |-> virt_adr, size |-> End(sec["rodata"])],
                  rw |-> [off   |-> sec["dynamic"].file_off, vaddr |-> sec["dynamic"].vaddr,
                          size  |-> End(sec["data"]) - sec["dynamic"].file_off]]
  BY DEF emit_phdr, Run, asm_vars, vars, maps, text_vars, ro_vars, data_vars
<1>2. SetUp' /\ sec' \in [Sections -> PlaceSet]
  BY <1>1, PlacedKept DEF FromRela, FromGot, FromSymbols, FromPhdr
<1>3. RelaFilled /\ PltFilled /\ GotFilled /\ DynamicFilled /\ CodeFinished
  BY <1>1 DEF ElfIInv, Filled, FromRela, FromGot, FromSymbols, FromPhdr
<1>4. RelaFilled' /\ PltFilled' /\ GotFilled' /\ DynamicFilled' /\ CodeFinished'
  BY <1>1, <1>3, FilledKept
<1>5. PhdrFilled'
  BY <1>1 DEF PhdrFilled
<1>6. Filled'
  BY <1>1, <1>4, <1>5 DEF Filled, FromRela, FromGot, FromSymbols, FromPhdr
<1> QED
  BY <1>1, <1>2, <1>6 DEF ElfIInv, Steps, FromPhdr

(* Sections whose places follow each other are written there.              *)
LEMMA WrittenFacts ==
  ASSUME NEW names \in Seq(Sections), NEW from \in Nat, sec \in [Sections -> PlaceSet],
         Len(names) > 0, sec[names[1]].file_off = from,
         \A k \in 2 .. Len(names) : sec[names[k]].file_off = End(sec[names[k - 1]])
  PROVE  /\ Len(Written(names, from)) = Len(names)
         /\ Written(names, from) \in Seq([name : Sections, at : Nat])
         /\ \A k \in 1 .. Len(names) :
              Written(names, from)[k] = [name |-> names[k], at |-> sec[names[k]].file_off]
<1>1. PICK n \in Nat : n = Len(names) /\ DOMAIN names = 1 .. n /\ n > 0
  OBVIOUS
<1>2. \A k \in 1 .. n : names[k] \in Sections
  BY <1>1, ElementFacts
<1>3. \A s \in Sections : sec[s].file_off \in Nat /\ sec[s].size \in Nat
  <2>1. \A s \in Sections : sec[s] \in PlaceSet
    OBVIOUS
  <2>2. \A p \in PlaceSet : p.file_off \in Nat /\ p.size \in Nat
    BY DEF PlaceSet
  <2> QED
    BY <2>1, <2>2
<1>4. PICK f : f = [k \in DOMAIN names |-> sec[names[k]].size]
  OBVIOUS
<1>5. f \in Seq(Nat) /\ Len(f) = n /\ \A k \in 1 .. n : f[k] = sec[names[k]].size /\ f[k] \in Nat
  BY <1>1, <1>2, <1>3, <1>4
<1>6. PICK s : s = Sums(f)
  OBVIOUS
<1>7. /\ s \in [0 .. n -> Nat] /\ s[0] = 0
      /\ \A k \in 1 .. n : s[k] = s[k - 1] + f[k]
  BY <1>1, <1>5, <1>6, SumsFacts
<1> DEFINE T == {k \in 0 .. n - 1 : sec[names[k + 1]].file_off = from + s[k]}
<1>8. 0 \in T
  BY <1>1, <1>7
<1>9. ASSUME NEW k \in 1 .. n - 1, k - 1 \in T PROVE k \in T
  <2>1. k + 1 \in 2 .. n /\ k \in 1 .. n /\ k + 1 \in 1 .. n /\ (k + 1) - 1 = k /\ (k - 1) + 1 = k
    BY <1>1
  <2>2. sec[names[k + 1]].file_off = End(sec[names[k]])
    BY <1>1, <2>1
  <2>3. sec[names[k]].file_off = from + s[k - 1]
    BY <1>9, <2>1
  <2>4. s[k] = s[k - 1] + sec[names[k]].size /\ s[k - 1] \in Nat
    <3>1. k - 1 \in 0 .. n
      BY <1>1, <2>1
    <3> QED
      BY <1>5, <1>7, <2>1, <3>1
  <2>5. sec[names[k]].size \in Nat
    BY <1>2, <1>3, <2>1
  <2>6. sec[names[k + 1]].file_off = from + s[k]
    BY <2>2, <2>3, <2>4, <2>5 DEF End
  <2> QED
    BY <1>1, <2>6
<1>10. \A k \in 0 .. n - 1 : k \in T
  <2>1. \A k \in 1 .. n - 1 : k - 1 \in T => k \in T
    BY <1>9, Zenon
  <2>2. n - 1 \in Nat
    BY <1>1
  <2> HIDE DEF T
  <2> QED
    BY <1>8, <2>1, <2>2, UpTo, Zenon
<1>11. \A k \in 1 .. n : k - 1 \in 0 .. n - 1 /\ (k - 1) + 1 = k
  BY <1>1
<1>12. \A k \in 1 .. n : from + s[k - 1] = sec[names[k]].file_off
  BY <1>10, <1>11
<1>13. Written(names, from) = [k \in 1 .. n |-> [name |-> names[k], at |-> from + s[k - 1]]]
  BY <1>1, <1>4, <1>6 DEF Written
<1>14. PICK w : w = Written(names, from)
  OBVIOUS
<1>15. /\ DOMAIN w = 1 .. n
       /\ \A k \in 1 .. n : w[k] = [name |-> names[k], at |-> sec[names[k]].file_off]
  BY <1>12, <1>13, <1>14
<1>16. \A k \in 1 .. n : w[k] \in [name : Sections, at : Nat]
  BY <1>2, <1>3, <1>15
<1>17. w = [k \in 1 .. n |-> w[k]]
  BY <1>13, <1>14
<1>18. w \in Seq([name : Sections, at : Nat]) /\ Len(w) = n
  BY <1>1, <1>16, <1>17
<1> QED
  BY <1>1, <1>14, <1>15, <1>18


(* One section follows the other, in the file and in memory alike.         *)
LEMMA PlacedFacts ==
  ASSUME ElfIInv, step \in FromRela
  PROVE  /\ sec["interp"].file_off = 400
         /\ sec["hash"].file_off = End(sec["interp"])
         /\ sec["dynsym"].file_off = End(sec["hash"])
         /\ sec["dynstr"].file_off = End(sec["dynsym"])
         /\ sec["rela_plt"].file_off = End(sec["dynstr"])
         /\ sec["plt"].file_off = End(sec["rela_plt"])
         /\ sec["text"].file_off = End(sec["plt"])
         /\ sec["rodata"].file_off = End(sec["text"])
         /\ \E q \in Nat : End(sec["rodata"]) <= q * PAGE_SIZE /\ sec["dynamic"].file_off = q * PAGE_SIZE
         /\ sec["dynamic"].size = 240
         /\ sec["got_plt"].file_off = End(sec["dynamic"])
         /\ sec["data"].file_off = End(sec["got_plt"])
         /\ \A s \in Sections : sec[s].vaddr = virt_adr + sec[s].file_off
         /\ \A s \in Sections : sec[s].file_off \in Nat /\ sec[s].size \in Nat
<1>1. InterpPlaced /\ ImportsCounted /\ SymbolsPlaced /\ HashPlaced /\ LayoutPlaced
  BY DEF ElfIInv, SetUp, FromHash, FromRela, FromGot, FromSymbols, FromPhdr
<1>2. \A off, size : /\ Place(off, size).file_off = off /\ Place(off, size).size = size
                     /\ Place(off, size).vaddr = virt_adr + off
  BY DEF Place
<1>3. sec["interp"].file_off = 400
  <2>1. PHDR_AMOUNT * Phdr + Ehdr = 400
    BY DEF PHDR_AMOUNT, Phdr, Ehdr
  <2> QED
    BY <1>1, <1>2, <2>1 DEF InterpPlaced
<1>4. /\ sec["hash"].file_off = End(sec["interp"])
      /\ sec["hash"].size = get_size_hash(imps)
  BY <1>1, <1>2 DEF HashPlaced
<1>5. sec["dynsym"].file_off = End(sec["interp"]) + get_size_hash(imps)
  BY <1>1, <1>2 DEF SymbolsPlaced
<1>6. sec["dynsym"].file_off = End(sec["hash"])
  BY <1>4, <1>5 DEF End
<1>7. sec["dynstr"].file_off = End(sec["dynsym"])
  <2>1. sec["dynsym"].size = (Len(imps) + 1) * Sym
    BY <1>1, <1>2 DEF SymbolsPlaced
  <2>2. sec["dynstr"].file_off = End(sec["interp"]) + get_size_hash(imps) + (Len(imps) + 1) * Sym
    BY <1>1, <1>2 DEF SymbolsPlaced
  <2> QED
    BY <1>5, <2>1, <2>2 DEF End
<1>8. /\ sec["rela_plt"].file_off = End(sec["dynstr"])
      /\ sec["plt"].file_off = End(sec["rela_plt"])
      /\ sec["text"].file_off = End(sec["plt"])
      /\ sec["rodata"].file_off = End(sec["text"])
      /\ sec["got_plt"].file_off = End(sec["dynamic"])
      /\ sec["data"].file_off = End(sec["got_plt"])
  BY <1>1, <1>2 DEF LayoutPlaced
<1>9. /\ \E q \in Nat : End(sec["rodata"]) <= q * PAGE_SIZE /\ sec["dynamic"].file_off = q * PAGE_SIZE
      /\ sec["dynamic"].size = 240
  BY <1>1, <1>2 DEF LayoutPlaced, DYNAMIC_AMOUNT, Dyn
<1>10. \A s \in Sections : \E off, size : sec[s] = Place(off, size)
  <2>1. \E off, size : sec["interp"] = Place(off, size)
    BY <1>1 DEF InterpPlaced
  <2>2. \E off, size : sec["hash"] = Place(off, size)
    BY <1>1 DEF HashPlaced
  <2>3. \A s \in {"dynsym", "dynstr"} : \E off, size : sec[s] = Place(off, size)
    BY <1>1 DEF SymbolsPlaced
  <2>4. \A s \in {"rela_plt", "plt", "text", "rodata", "dynamic", "got_plt", "data"} :
          \E off, size : sec[s] = Place(off, size)
    BY <1>1 DEF LayoutPlaced
  <2> QED
    BY <2>1, <2>2, <2>3, <2>4 DEF Sections
<1>11. \A s \in Sections : sec[s].vaddr = virt_adr + sec[s].file_off
  BY <1>2, <1>10
<1>12. \A s \in Sections : sec[s].file_off \in Nat /\ sec[s].size \in Nat
  <2>1. \A s \in Sections : sec[s] \in PlaceSet
    BY DEF ElfIInv
  <2>2. \A p \in PlaceSet : p.file_off \in Nat /\ p.size \in Nat
    BY DEF PlaceSet
  <2> QED
    BY <2>1, <2>2
<1> QED
  BY <1>3, <1>4, <1>6, <1>7, <1>8, <1>9, <1>11, <1>12

LEMMA FileStep == ASSUME ElfIInv, write_to_file PROVE ElfIInv'
<1>1. /\ step = "file" /\ step' = "end" /\ UNCHANGED asm_vars
      /\ UNCHANGED <<rela, plt, got, dynamic, phdr>>
      /\ UNCHANGED <<stage, offset, rodata_size, out_data, outside_fix, sec, imps, dynsym, hash>>
      /\ file' = Written(ReadOnly, Headers) \o Written(ReadWrite, sec["dynamic"].file_off)
  BY DEF write_to_file, Run, asm_vars, vars, maps, text_vars, ro_vars, data_vars
<1>2. SetUp' /\ sec' \in [Sections -> PlaceSet]
  BY <1>1, PlacedKept DEF FromRela, FromGot, FromSymbols, FromPhdr
<1>3. RelaFilled /\ PltFilled /\ GotFilled /\ DynamicFilled /\ CodeFinished /\ PhdrFilled
  BY <1>1 DEF ElfIInv, Filled, FromRela, FromGot, FromSymbols, FromPhdr
<1>4. RelaFilled' /\ PltFilled' /\ GotFilled' /\ DynamicFilled' /\ CodeFinished' /\ PhdrFilled'
  BY <1>1, <1>3, FilledKept
<1>5. step \in FromRela
  BY <1>1 DEF FromRela, FromGot, FromSymbols, FromPhdr
<1>6. sec \in [Sections -> PlaceSet]
  BY DEF ElfIInv
<1>7. /\ Headers \in Nat /\ sec["interp"].file_off = Headers
      /\ sec["dynamic"].file_off \in Nat
  <2>1. Headers = 400
    BY DEF Headers, PHDR_AMOUNT, Phdr, Ehdr
  <2>2. "dynamic" \in Sections
    BY DEF Sections
  <2> QED
    BY <1>5, <2>1, <2>2, PlacedFacts
<1>8. /\ ReadOnly \in Seq(Sections) /\ Len(ReadOnly) = 8 /\ ReadOnly[1] = "interp"
      /\ \A k \in 2 .. 8 : sec[ReadOnly[k]].file_off = End(sec[ReadOnly[k - 1]])
  <2>1. ReadOnly \in Seq(Sections) /\ Len(ReadOnly) = 8
    BY DEF ReadOnly, Sections
  <2>2. /\ ReadOnly[1] = "interp" /\ ReadOnly[2] = "hash" /\ ReadOnly[3] = "dynsym"
        /\ ReadOnly[4] = "dynstr" /\ ReadOnly[5] = "rela_plt" /\ ReadOnly[6] = "plt"
        /\ ReadOnly[7] = "text" /\ ReadOnly[8] = "rodata"
    BY DEF ReadOnly
  <2>3. \A k \in 2 .. 8 : sec[ReadOnly[k]].file_off = End(sec[ReadOnly[k - 1]])
    BY <1>5, <2>2, PlacedFacts
  <2> QED
    BY <2>1, <2>2, <2>3
<1>9. /\ ReadWrite \in Seq(Sections) /\ Len(ReadWrite) = 3 /\ ReadWrite[1] = "dynamic"
      /\ \A k \in 2 .. 3 : sec[ReadWrite[k]].file_off = End(sec[ReadWrite[k - 1]])
  <2>1. ReadWrite \in Seq(Sections) /\ Len(ReadWrite) = 3
    BY DEF ReadWrite, Sections
  <2>2. ReadWrite[1] = "dynamic" /\ ReadWrite[2] = "got_plt" /\ ReadWrite[3] = "data"
    BY DEF ReadWrite
  <2>3. \A k \in 2 .. 3 : sec[ReadWrite[k]].file_off = End(sec[ReadWrite[k - 1]])
    BY <1>5, <2>2, PlacedFacts
  <2> QED
    BY <2>1, <2>2, <2>3
<1>10. PICK a : a = Written(ReadOnly, Headers)
  OBVIOUS
<1>11. PICK b : b = Written(ReadWrite, sec["dynamic"].file_off)
  OBVIOUS
<1>12. /\ a \in Seq([name : Sections, at : Nat]) /\ Len(a) = 8
       /\ \A k \in 1 .. 8 : a[k] = [name |-> ReadOnly[k], at |-> sec[ReadOnly[k]].file_off]
  <2>1. ReadOnly[1] \in Sections /\ Len(ReadOnly) > 0 /\ sec[ReadOnly[1]].file_off = Headers
    BY <1>7, <1>8 DEF Sections
  <2>2. \A k \in 2 .. Len(ReadOnly) : sec[ReadOnly[k]].file_off = End(sec[ReadOnly[k - 1]])
    BY <1>8
  <2>3. /\ Len(a) = Len(ReadOnly)
        /\ a \in Seq([name : Sections, at : Nat])
        /\ \A k \in 1 .. Len(ReadOnly) :
             a[k] = [name |-> ReadOnly[k], at |-> sec[ReadOnly[k]].file_off]
    <3>1. ReadOnly \in Seq(Sections) /\ Headers \in Nat
      BY <1>7, <1>8
    <3> QED
      BY <1>6, <1>10, <2>1, <2>2, <3>1, WrittenFacts
  <2> QED
    BY <1>8, <2>3
<1>13. /\ b \in Seq([name : Sections, at : Nat]) /\ Len(b) = 3
       /\ \A k \in 1 .. 3 : b[k] = [name |-> ReadWrite[k], at |-> sec[ReadWrite[k]].file_off]
  <2>1. ReadWrite[1] \in Sections /\ Len(ReadWrite) > 0 /\ sec[ReadWrite[1]].file_off = sec["dynamic"].file_off
    BY <1>7, <1>9 DEF Sections
  <2>2. \A k \in 2 .. Len(ReadWrite) : sec[ReadWrite[k]].file_off = End(sec[ReadWrite[k - 1]])
    BY <1>9
  <2>3. /\ Len(b) = Len(ReadWrite)
        /\ b \in Seq([name : Sections, at : Nat])
        /\ \A k \in 1 .. Len(ReadWrite) :
             b[k] = [name |-> ReadWrite[k], at |-> sec[ReadWrite[k]].file_off]
    <3>1. ReadWrite \in Seq(Sections) /\ sec["dynamic"].file_off \in Nat
      BY <1>7, <1>9
    <3> QED
      BY <1>6, <1>11, <2>1, <2>2, <3>1, WrittenFacts
  <2> QED
    BY <1>9, <2>3
<1>14. /\ DOMAIN (a \o b) = 1 .. Len(a) + Len(b)
       /\ \A k \in 1 .. Len(a) : (a \o b)[k] = a[k]
       /\ \A k \in 1 .. Len(b) : (a \o b)[Len(a) + k] = b[k]
  <2>1. a \in Seq([name : Sections, at : Nat]) /\ b \in Seq([name : Sections, at : Nat])
    BY <1>12, <1>13
  <2> QED
    BY <2>1, ConcatFacts
<1>15. FileWritten'
  <2>1. file' = a \o b
    BY <1>1, <1>10, <1>11
  <2>2. /\ DOMAIN file' = 1 .. 11
        /\ \A k \in 1 .. 8 : file'[k] = a[k]
        /\ \A k \in 1 .. 3 : file'[8 + k] = b[k]
    <3>1. Len(a) = 8 /\ Len(b) = 3
      BY <1>12, <1>13
    <3>2. DOMAIN file' = 1 .. 8 + 3
      BY <1>14, <2>1, <3>1
    <3>3. DOMAIN file' = 1 .. 11
      BY <3>2
    <3>4. \A k \in 1 .. 8 : file'[k] = a[k]
      <4>1. \A k \in 1 .. Len(a) : file'[k] = a[k]
        BY <1>14, <2>1, Zenon
      <4> QED
        BY <3>1, <4>1
    <3>5. \A k \in 1 .. 3 : file'[8 + k] = b[k]
      <4>1. \A k \in 1 .. Len(b) : file'[Len(a) + k] = b[k]
        BY <1>14, <2>1, Zenon
      <4> QED
        BY <3>1, <4>1
    <3> QED
      BY <3>3, <3>4, <3>5
  <2> QED
    BY <1>1, <1>12, <1>13, <2>2 DEF FileWritten
<1>16. Filled'
  BY <1>1, <1>4, <1>15 DEF Filled, FromRela, FromGot, FromSymbols, FromPhdr
<1> QED
  BY <1>1, <1>2, <1>16 DEF ElfIInv, Steps, FromPhdr

LEMMA ElfStutter == ASSUME ElfIInv, UNCHANGED <<vars, elf_vars>> PROVE ElfIInv'
<1>1. /\ UNCHANGED <<stage, offset, rodata_size, out_data, outside_fix, sec, imps, dynsym, hash>>
      /\ UNCHANGED <<rela, plt, got, dynamic, phdr, file, step>> /\ UNCHANGED asm_vars
  BY DEF asm_vars, vars, elf_vars, maps, text_vars, ro_vars, data_vars
<1>2. step \notin FromPhdr => IInv' /\ OutInv'
  BY <1>1, AssemblerKept
<1>3. SetUp'
  <2>1. InterpPlaced => InterpPlaced'
    BY <1>1 DEF InterpPlaced
  <2>2. SymbolsPlaced => SymbolsPlaced'
    BY <1>1 DEF SymbolsPlaced
  <2>3. HashPlaced => HashPlaced'
    BY <1>1 DEF HashPlaced
  <2> QED
    BY <1>1, <2>1, <2>2, <2>3, ImportsKept, HashKept, LayoutKept DEF ElfIInv, SetUp
<1>4. Filled'
  <2>1. FileWritten => FileWritten'
    BY <1>1 DEF FileWritten
  <2> QED
    BY <1>1, <2>1, FilledKept DEF ElfIInv, Filled
<1> QED
  BY <1>1, <1>2, <1>3, <1>4 DEF ElfIInv

LEMMA NextElfIInv == ElfIInv /\ [ElfNext]_<<vars, elf_vars>> => ElfIInv'
<1> SUFFICES ASSUME ElfIInv, [ElfNext]_<<vars, elf_vars>> PROVE ElfIInv'
  OBVIOUS
<1>1. CASE UNCHANGED <<vars, elf_vars>>
  BY <1>1, ElfStutter
<1>2. CASE Next /\ UNCHANGED elf_vars
  BY <1>2, AssemblerStep
<1> QED
  BY <1>1, <1>2, InterpStep, ImportSymbolStep, HashStep, LayoutStep, RelaStep, PltStep, GotStep,
     DynamicStep, SymbolsStep, PhdrStep, FileStep DEF ElfNext

LEMMA ElfInvariance == ElfSpec => []ElfIInv
  BY InitElfIInv, NextElfIInv, PTL DEF ElfSpec


-----------------------------------------------------------------------------
(***************************************************************************)
(* The finished file                                                       *)
(***************************************************************************)
LEMMA PositionFacts ==
  ASSUME ElfIInv, Finished
  PROVE  \A s \in Sections : Position(s) = sec[s].file_off
<1>1. FileWritten
  BY DEF ElfIInv, Filled, Finished
<1>2. /\ ReadOnly[1] = "interp" /\ ReadOnly[2] = "hash" /\ ReadOnly[3] = "dynsym"
      /\ ReadOnly[4] = "dynstr" /\ ReadOnly[5] = "rela_plt" /\ ReadOnly[6] = "plt"
      /\ ReadOnly[7] = "text" /\ ReadOnly[8] = "rodata"
      /\ ReadWrite[1] = "dynamic" /\ ReadWrite[2] = "got_plt" /\ ReadWrite[3] = "data"
  BY DEF ReadOnly, ReadWrite
<1>3. \A k \in 1 .. 11 : k \in 1 .. 8 \/ (k - 8 \in 1 .. 3 /\ 8 + (k - 8) = k)
  OBVIOUS
<1>4. \A k \in 1 .. 11 : \E s \in Sections : file[k] = [name |-> s, at |-> sec[s].file_off]
  <2>1. \A k \in 1 .. 8 : ReadOnly[k] \in Sections
    BY <1>2 DEF Sections
  <2>2. \A k \in 1 .. 3 : ReadWrite[k] \in Sections
    BY <1>2 DEF Sections
  <2> QED
    BY <1>1, <1>3, <2>1, <2>2 DEF FileWritten
<1>5. \A s \in Sections : \E k \in 1 .. 11 : file[k].name = s
  <2>1. /\ file[1].name = "interp" /\ file[2].name = "hash" /\ file[3].name = "dynsym"
        /\ file[4].name = "dynstr" /\ file[5].name = "rela_plt" /\ file[6].name = "plt"
        /\ file[7].name = "text" /\ file[8].name = "rodata"
    BY <1>1, <1>2 DEF FileWritten
  <2>2. file[8 + 1].name = "dynamic" /\ file[8 + 2].name = "got_plt" /\ file[8 + 3].name = "data"
    BY <1>1, <1>2 DEF FileWritten
  <2>3. file[9].name = "dynamic" /\ file[10].name = "got_plt" /\ file[11].name = "data"
    BY <2>2
  <2> QED
    BY <2>1, <2>3 DEF Sections
<1> SUFFICES ASSUME NEW s \in Sections PROVE Position(s) = sec[s].file_off
  OBVIOUS
<1>6. PICK k : k = CHOOSE j \in DOMAIN file : file[j].name = s
  OBVIOUS
<1>7. k \in 1 .. 11 /\ file[k].name = s
  BY <1>1, <1>5, <1>6 DEF FileWritten
<1>8. PICK t \in Sections : file[k] = [name |-> t, at |-> sec[t].file_off]
  BY <1>4, <1>7
<1>9. file[k].at = sec[s].file_off
  BY <1>7, <1>8
<1> QED
  BY <1>6, <1>9 DEF Position

ExecuteSet == {"interp", "hash", "dynsym", "dynstr", "rela_plt", "plt", "text", "rodata"}
WriteSet   == {"dynamic", "got_plt", "data"}

(* The sections one after another, as numbers.                             *)
LEMMA OrderFacts ==
  ASSUME ElfIInv, Finished
  PROVE  /\ \A s \in ExecuteSet : End(sec[s]) <= End(sec["rodata"])
         /\ \A s \in WriteSet : /\ sec["dynamic"].file_off <= sec[s].file_off
                                /\ End(sec["rodata"]) < End(sec[s])
                                /\ End(sec[s]) <= End(sec["data"])
         /\ \A s \in Sections : \A t \in Sections \ {s} :
              End(sec[s]) <= sec[t].file_off \/ End(sec[t]) <= sec[s].file_off
<1>1. step \in FromRela
  BY DEF Finished, FromRela, FromGot, FromSymbols, FromPhdr
<1>2. PICK o \in [Sections -> Nat] : \A s \in Sections : o[s] = sec[s].file_off
  <2>1. [s \in Sections |-> sec[s].file_off] \in [Sections -> Nat]
    BY <1>1, PlacedFacts
  <2> QED
    BY <2>1
<1>3. PICK e \in [Sections -> Nat] : \A s \in Sections : e[s] = End(sec[s])
  <2>1. [s \in Sections |-> End(sec[s])] \in [Sections -> Nat]
    BY <1>1, PlacedFacts DEF End
  <2> QED
    BY <2>1
<1>4. \A s \in Sections : o[s] <= e[s]
  BY <1>1, <1>2, <1>3, PlacedFacts DEF End
<1>5. /\ o["hash"] = e["interp"] /\ o["dynsym"] = e["hash"] /\ o["dynstr"] = e["dynsym"]
      /\ o["rela_plt"] = e["dynstr"] /\ o["plt"] = e["rela_plt"] /\ o["text"] = e["plt"]
      /\ o["rodata"] = e["text"]
      /\ o["got_plt"] = e["dynamic"] /\ o["data"] = e["got_plt"]
  BY <1>1, <1>2, <1>3, PlacedFacts DEF Sections
<1>6. e["rodata"] <= o["dynamic"] /\ o["dynamic"] < e["dynamic"]
  <2>1. PICK m : m = sec["dynamic"].file_off /\ End(sec["rodata"]) <= m
    BY <1>1, PlacedFacts
  <2>2. "dynamic" \in Sections /\ "rodata" \in Sections
    BY DEF Sections
  <2>3. e["dynamic"] = o["dynamic"] + 240
    BY <1>1, <1>2, <1>3, <2>2, PlacedFacts DEF End
  <2> QED
    BY <1>2, <1>3, <2>1, <2>2, <2>3
<1>7. /\ \A s \in ExecuteSet : e[s] <= e["rodata"]
      /\ \A s \in WriteSet : o["dynamic"] <= o[s] /\ e["rodata"] < e[s] /\ e[s] <= e["data"]
  BY <1>4, <1>5, <1>6 DEF Sections, ExecuteSet, WriteSet
<1>8. \A s \in Sections : \A t \in Sections \ {s} : e[s] <= o[t] \/ e[t] <= o[s]
  BY <1>4, <1>5, <1>6 DEF Sections
<1>9. ExecuteSet \subseteq Sections /\ WriteSet \subseteq Sections
      /\ {"dynamic", "rodata", "data"} \subseteq Sections
  BY DEF Sections, ExecuteSet, WriteSet
<1> QED
  BY <1>2, <1>3, <1>7, <1>8, <1>9


LEMMA LoadedFacts ==
  ASSUME ElfIInv, Finished
  PROVE  /\ \A s \in ExecuteSet : Inside(phdr.rx, s)
         /\ \A s \in WriteSet : Inside(phdr.rw, s)
         /\ \A s \in Sections : Loaded(s) = sec[s].vaddr
<1>1. step \in FromRela /\ PhdrFilled
  BY DEF Finished, FromRela, FromGot, FromSymbols, FromPhdr, ElfIInv, Filled
<1>2. \A s \in Sections : /\ Position(s) = sec[s].file_off /\ sec[s].vaddr = virt_adr + sec[s].file_off
                          /\ sec[s].file_off \in Nat /\ sec[s].size \in Nat
  BY <1>1, PositionFacts, PlacedFacts
<1>3. PICK v \in Nat : v = virt_adr
  BY ElfAssumption DEF ElfAssumption
<1>4. ExecuteSet \subseteq Sections /\ WriteSet \subseteq Sections
      /\ {"dynamic", "rodata", "data"} \subseteq Sections
      /\ \A s \in Sections : s \in ExecuteSet \/ s \in WriteSet
  BY DEF Sections, ExecuteSet, WriteSet
<1>5. PICK r \in Nat : r = End(sec["rodata"])
  BY <1>2, <1>4 DEF End
<1>6. PICK d \in Nat : d = sec["dynamic"].file_off
  BY <1>2, <1>4
<1>7. PICK e \in Nat : e = End(sec["data"])
  BY <1>2, <1>4 DEF End
<1>8. /\ phdr.rx.off = 0 /\ phdr.rx.vaddr = v /\ phdr.rx.size = r
      /\ phdr.rw.off = d /\ phdr.rw.vaddr = v + d /\ phdr.rw.size = e - d
  BY <1>1, <1>2, <1>3, <1>4, <1>5, <1>6, <1>7 DEF PhdrFilled
<1>9. ASSUME NEW s \in ExecuteSet PROVE Inside(phdr.rx, s) /\ Loaded(s) = sec[s].vaddr
  <2>1. Position(s) + sec[s].size <= r /\ Position(s) \in Nat /\ sec[s].size \in Nat
    BY <1>2, <1>4, <1>5, OrderFacts DEF End
  <2>2. Inside(phdr.rx, s)
    BY <1>8, <2>1 DEF Inside
  <2>3. Loaded(s) = v + Position(s) - 0
    BY <1>8, <2>2 DEF Loaded
  <2> QED
    BY <1>2, <1>3, <1>4, <2>1, <2>2, <2>3
<1>10. ASSUME NEW s \in WriteSet PROVE Inside(phdr.rw, s) /\ Loaded(s) = sec[s].vaddr
  <2>1. /\ Position(s) \in Nat /\ sec[s].size \in Nat
        /\ r < Position(s) + sec[s].size /\ d <= Position(s) /\ Position(s) + sec[s].size <= e
    BY <1>2, <1>4, <1>5, <1>6, <1>7, OrderFacts DEF End
  <2>2. ~ Inside(phdr.rx, s) /\ Inside(phdr.rw, s)
    BY <1>8, <2>1 DEF Inside
  <2>3. Loaded(s) = v + d + Position(s) - d
    BY <1>8, <2>2 DEF Loaded
  <2> QED
    BY <1>2, <1>3, <1>4, <2>1, <2>2, <2>3
<1> QED
  BY <1>4, <1>9, <1>10

LEMMA FinishedPages == ASSUME ElfIInv, Finished PROVE PagesApart
<1>1. step \in FromRela /\ PhdrFilled
  BY DEF Finished, FromRela, FromGot, FromSymbols, FromPhdr, ElfIInv, Filled
<1>2. PICK q \in Nat : End(sec["rodata"]) <= q * PAGE_SIZE /\ sec["dynamic"].file_off = q * PAGE_SIZE
  BY <1>1, PlacedFacts
<1>3. {"dynamic", "rodata", "interp"} \subseteq Sections
  BY DEF Sections
<1>4. PICK m \in Nat, v \in Nat : m = q * PAGE_SIZE /\ v = virt_adr
  BY <1>1, <1>2, <1>3, PlacedFacts, ElfAssumption DEF ElfAssumption
<1>5. /\ phdr.rx.off = 0 /\ phdr.rx.vaddr = v /\ phdr.rx.size = End(sec["rodata"])
      /\ phdr.rw.off = m /\ phdr.rw.vaddr = v + m
  BY <1>1, <1>2, <1>3, <1>4, PlacedFacts DEF PhdrFilled
<1>6. End(sec["rodata"]) \in Nat /\ End(sec["rodata"]) >= 1
  <2>1. \A s \in Sections : sec[s].file_off \in Nat /\ sec[s].size \in Nat
    BY <1>1, PlacedFacts
  <2>2. End(sec["interp"]) <= End(sec["rodata"])
    BY OrderFacts DEF ExecuteSet
  <2>3. End(sec["interp"]) >= 1
    BY <1>1, <1>3, <2>1, PlacedFacts DEF End
  <2>4. End(sec["interp"]) \in Nat /\ End(sec["rodata"]) \in Nat
    BY <1>3, <2>1 DEF End
  <2> QED
    BY <2>2, <2>3, <2>4
<1>7. /\ (v + m) % PAGE_SIZE = 0 /\ m % PAGE_SIZE = 0
      /\ \A a \in Nat : a < v + m => a \div PAGE_SIZE < (v + m) \div PAGE_SIZE
  BY <1>4, PagedAddress
<1>8. PICK a \in Nat : a = v + End(sec["rodata"]) - 1
  BY <1>6
<1>9. a < v + m
  BY <1>2, <1>4, <1>6, <1>8
<1>10. (phdr.rx.vaddr + phdr.rx.size - 1) \div PAGE_SIZE < phdr.rw.vaddr \div PAGE_SIZE
  BY <1>5, <1>7, <1>8, <1>9
<1>11. v % PAGE_SIZE = 0 /\ 0 % PAGE_SIZE = 0
  <2>1. v % PAGE_SIZE = 0
    BY <1>4, ElfAssumption DEF ElfAssumption
  <2>2. (0 * PAGE_SIZE) % PAGE_SIZE = 0
    BY PagedAddress
  <2>3. PICK P \in Nat : P = PAGE_SIZE
    BY ElfAssumption DEF ElfAssumption
  <2>4. 0 * P = 0
    OBVIOUS
  <2> QED
    BY <2>1, <2>2, <2>3, <2>4
<1> QED
  BY <1>5, <1>7, <1>10, <1>11 DEF PagesApart

LEMMA FinishedPlaces == ElfIInv => PlacesHold
<1> SUFFICES ASSUME ElfIInv, Finished PROVE PlacesHold
  BY DEF PlacesHold
<1>1. {ReadOnly[k] : k \in DOMAIN ReadOnly} = ExecuteSet
  <2>1. DOMAIN ReadOnly = 1 .. 8
    BY DEF ReadOnly
  <2>2. /\ ReadOnly[1] = "interp" /\ ReadOnly[2] = "hash" /\ ReadOnly[3] = "dynsym"
        /\ ReadOnly[4] = "dynstr" /\ ReadOnly[5] = "rela_plt" /\ ReadOnly[6] = "plt"
        /\ ReadOnly[7] = "text" /\ ReadOnly[8] = "rodata"
    BY DEF ReadOnly
  <2> QED
    BY <2>1, <2>2 DEF ExecuteSet
<1>2. \A s \in Sections : Position(s) = sec[s].file_off
  BY PositionFacts
<1>3. ASSUME NEW s \in Sections, NEW t \in Sections \ {s}
      PROVE  \/ Position(s) + sec[s].size <= Position(t)
             \/ Position(t) + sec[t].size <= Position(s)
  BY <1>2, OrderFacts DEF End
<1> QED
  BY <1>1, <1>2, <1>3, LoadedFacts, FinishedPages DEF PlacesHold, WriteSet

LEMMA FinishedImports == ElfIInv => ImportsLand
<1> SUFFICES ASSUME ElfIInv, Finished PROVE ImportsLand
  BY DEF ImportsLand
<1>1. /\ step \in FromRela /\ ImportsCounted /\ HashTable(hash, Len(dynsym)) /\ LayoutPlaced
      /\ RelaFilled /\ PltFilled /\ GotFilled /\ DynamicFilled /\ CodeFinished /\ PhdrFilled
  BY DEF Finished, FromHash, FromRela, FromGot, FromSymbols, FromPhdr, ElfIInv, Filled, SetUp
<1>2. \A s \in Sections : Loaded(s) = sec[s].vaddr
  BY LoadedFacts
<1>3. /\ Loaded("text") = sec["text"].vaddr /\ Loaded("plt") = sec["plt"].vaddr
      /\ Loaded("got_plt") = sec["got_plt"].vaddr /\ Loaded("dynamic") = sec["dynamic"].vaddr
      /\ Loaded("rela_plt") = sec["rela_plt"].vaddr
  BY <1>2 DEF Sections
<1>4. PICK n \in Nat : n = Len(imps) /\ DOMAIN imps = 1 .. n
  BY <1>1, ImportTypes DEF ImportsCounted
<1>5. PICK g \in Nat, p \in Nat, t \in Nat :
        g = sec["got_plt"].vaddr /\ p = sec["plt"].vaddr /\ t = sec["text"].vaddr
  <2>1. \A s \in Sections : sec[s] \in PlaceSet
    BY DEF ElfIInv
  <2>2. \A q \in PlaceSet : q.vaddr \in Nat
    BY DEF PlaceSet
  <2> QED
    BY <2>1, <2>2 DEF Sections
<1>6. /\ DOMAIN rela = 1 .. n /\ Len(rela) = n
      /\ \A k \in 1 .. n : rela[k].r_offset = g + (2 + k) * 8 /\ rela[k].sym = k
  BY <1>1, <1>4, <1>5 DEF RelaFilled, Slot, Word
<1>7. /\ plt.push = g + 8 /\ plt.jump = g + 16
      /\ \A k \in 1 .. n : /\ plt.stubs[k].slot = g + (2 + k) * 8
                           /\ plt.stubs[k].reloc = k - 1 /\ plt.stubs[k].back = p
  <2>1. plt.push = g + 8 /\ plt.jump = g + 16
    BY <1>1, <1>5 DEF PltFilled
  <2>2. ASSUME NEW k \in 1 .. n
        PROVE  /\ plt.stubs[k].slot = g + (2 + k) * 8
               /\ plt.stubs[k].reloc = k - 1 /\ plt.stubs[k].back = p
    <3>1. plt.stubs[k] = [slot |-> Slot(k), reloc |-> k - 1, back |-> sec["plt"].vaddr]
      BY <1>1, <1>4 DEF PltFilled, StubEntry
    <3>2. Slot(k) = g + (2 + k) * 8
      BY <1>5 DEF Slot, Word
    <3> QED
      BY <1>5, <3>1, <3>2
  <2> QED
    BY <2>1, <2>2
<1>8. /\ Len(got) = 3 + n /\ \A k \in 1 .. n : got[3 + k] = p + 16 * k + 6
  BY <1>1, <1>4, <1>5 DEF GotFilled, Stub, SIZE_PLT_STAB
<1>9. CallsReachSymbols
  <2> SUFFICES ASSUME NEW i \in DOMAIN code, code[i].kind = "import"
               PROVE  \E k \in DOMAIN imps, r \in DOMAIN rela :
                        /\ Loaded("text") + After(i) + code[i].disp = Loaded("plt") + SIZE_PLT_STAB * k
                        /\ plt.stubs[k].slot = rela[r].r_offset
                        /\ dynsym[rela[r].sym] = code[i].ref
    BY DEF CallsReachSymbols
  <2>1. PICK k \in 1 .. n :
          imps[k].name = code[i].ref /\ sec["text"].vaddr + After(i) + code[i].disp = Stub(k)
    BY <1>1, <1>4 DEF CodeFinished
  <2>2. dynsym[k] = code[i].ref
    BY <1>1, <1>4, <2>1 DEF ImportsCounted
  <2>3. Loaded("text") + After(i) + code[i].disp = Loaded("plt") + SIZE_PLT_STAB * k
    BY <1>3, <2>1 DEF Stub
  <2>4. plt.stubs[k].slot = rela[k].r_offset /\ rela[k].sym = k
    BY <1>6, <1>7
  <2> QED
    BY <1>4, <1>6, <2>2, <2>3, <2>4
<1>10. LazyBinding
  <2>1. /\ plt.push = Loaded("got_plt") + Word /\ plt.jump = Loaded("got_plt") + 2 * Word
        /\ dynamic.pltgot = Loaded("got_plt") /\ got[1] = Loaded("dynamic")
        /\ dynamic.jmprel = Loaded("rela_plt")
    BY <1>1, <1>3, <1>5, <1>7 DEF DynamicFilled, GotFilled, Word
  <2>2. dynamic.pltrelsz = Rela * Len(rela)
    <3>1. sec["rela_plt"].size = n * 24
      BY <1>1, <1>4 DEF LayoutPlaced, Place, Rela
    <3> QED
      BY <1>1, <1>6, <3>1 DEF DynamicFilled, Rela
  <2>3. ASSUME NEW k \in 1 .. n
        PROVE  LET stub == plt.stubs[k]
                   word == (stub.slot - Loaded("got_plt")) \div Word
               IN  /\ word \in 3 .. Len(got) - 1 /\ stub.slot = Loaded("got_plt") + word * Word
                   /\ got[word + 1] = Loaded("plt") + SIZE_PLT_STAB * k + 6
                   /\ stub.reloc + 1 \in DOMAIN rela /\ rela[stub.reloc + 1].r_offset = stub.slot
                   /\ stub.back = Loaded("plt")
    <3>1. PICK w \in Nat : w = 2 + k
      OBVIOUS
    <3>2. plt.stubs[k].slot = g + w * 8
      BY <1>7, <3>1
    <3>3. (plt.stubs[k].slot - Loaded("got_plt")) \div Word = w
      <4>1. (g + w * 8 - g) \div 8 = w
        OBVIOUS
      <4> QED
        BY <1>3, <1>5, <3>2, <4>1 DEF Word
    <3>4. w \in 3 .. Len(got) - 1 /\ w + 1 = 3 + k
      BY <1>8, <3>1
    <3>5. got[w + 1] = Loaded("plt") + SIZE_PLT_STAB * k + 6
      BY <1>3, <1>5, <1>8, <3>4 DEF SIZE_PLT_STAB
    <3>6. plt.stubs[k].reloc + 1 = k
      BY <1>7
    <3> QED
      BY <1>3, <1>5, <1>6, <1>7, <3>1, <3>2, <3>3, <3>4, <3>5, <3>6 DEF Word
  <2> QED
    BY <1>4, <2>1, <2>2, <2>3 DEF LazyBinding
<1>11. HashFinds
  BY <1>1, HashFound DEF ImportsCounted
<1>12. phdr.entry = Loaded("text") + Address(units[1].first) /\ units[1].name = start
  BY <1>1, <1>3, <1>5 DEF PhdrFilled, CodeFinished
<1> QED
  BY <1>9, <1>10, <1>11, <1>12 DEF ImportsLand

LEMMA FinishedAddresses == ElfIInv => AddressesLand
<1> SUFFICES ASSUME ElfIInv, Finished PROVE AddressesLand
  BY DEF AddressesLand
<1>1. step \in FromRela /\ CodeFinished
  BY DEF Finished, FromRela, FromGot, FromSymbols, FromPhdr, ElfIInv, Filled
<1>2. Loaded("text") = sec["text"].vaddr /\ Loaded("rodata") = sec["rodata"].vaddr
  BY LoadedFacts DEF Sections
<1>3. sec["rodata"].vaddr = virt_adr + sec["rodata"].file_off
  BY <1>1, PlacedFacts DEF Sections
<1> QED
  BY <1>1, <1>2, <1>3 DEF AddressesLand, CodeFinished

-----------------------------------------------------------------------------
(* Every section is written where its header says it is and loaded where   *)
(* the tables refer to it, none overlaps another, and no page is both      *)
(* executed and written (KTL_ElfEmit), for any sizes, page and load        *)
(* address.                                                                *)
THEOREM PlacesHoldCorrect == ElfSpec => []PlacesHold
  BY ElfInvariance, FinishedPlaces, PTL

(* The process starts in main, and a call of an imported function lands on *)
(* the stub that jumps through the word of the GOT the relocations bind to *)
(* the symbol of that name, which the chain of its hash bucket leads to,   *)
(* for any number of imports and any hash function.                        *)
THEOREM ImportsLandCorrect == ElfSpec => []ImportsLand
  BY ElfInvariance, FinishedImports, PTL

(* The address of a literal, patched by the assembler and finished by      *)
(* fill_symbols, is that of its bytes in memory.                           *)
THEOREM AddressesLandCorrect == ElfSpec => []AddressesLand
  BY ElfInvariance, FinishedAddresses, PTL
=============================================================================
