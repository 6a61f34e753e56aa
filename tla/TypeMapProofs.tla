--------------------------- MODULE TypeMapProofs ---------------------------
(***************************************************************************)
(* Proofs about the type registry, for every set of names, every array     *)
(* length, every list of standard types and every growth policy.  All      *)
(* invariants are inductive together with the type invariant; the model's  *)
(* bounds on the number of types only restrict the steps.                  *)
(***************************************************************************)
EXTENDS TypeMap, TLAPS, NaturalsInduction, WellFoundedInduction

LEMMA ElementOf ==
  ASSUME NEW S, NEW s \in Seq(S), NEW i \in 1 .. Len(s)
  PROVE  s[i] \in S
OBVIOUS

LEMMA SequenceOver ==
  ASSUME NEW S, NEW T, S \subseteq T, NEW s \in Seq(S)
  PROVE  s \in Seq(T)
<1>1. s \in [1 .. Len(s) -> T] /\ Len(s) \in Nat
  OBVIOUS
<1> QED
  BY <1>1

LEMMA FunctionIsSequence ==
  ASSUME NEW T, NEW n \in Nat, NEW t \in [1 .. n -> T]
  PROVE  t \in Seq(T) /\ Len(t) = n
OBVIOUS

(* A sequence is a sequence over its own elements, and stays one when it   *)
(* is extended or when one element is replaced.                            *)
LEMMA SequenceFacts ==
  ASSUME NEW s, IsSequence(s)
  PROVE  /\ Len(s) \in Nat /\ DOMAIN s = 1 .. Len(s)
         /\ \A e : /\ IsSequence(Append(s, e))
                   /\ Len(Append(s, e)) = Len(s) + 1
                   /\ Append(s, e)[Len(s) + 1] = e
                   /\ \A i \in 1 .. Len(s) : Append(s, e)[i] = s[i]
         /\ \A e, k : /\ IsSequence([s EXCEPT ![k] = e])
                      /\ Len([s EXCEPT ![k] = e]) = Len(s)
<1> DEFINE S == {s[i] : i \in DOMAIN s}
<1>1. s \in Seq(S)
  BY DEF IsSequence
<1>2. Len(s) \in Nat /\ DOMAIN s = 1 .. Len(s)
  BY <1>1
<1>3. ASSUME NEW e
      PROVE  /\ IsSequence(Append(s, e))
             /\ Len(Append(s, e)) = Len(s) + 1
             /\ Append(s, e)[Len(s) + 1] = e
             /\ \A i \in 1 .. Len(s) : Append(s, e)[i] = s[i]
  <2> DEFINE t == Append(s, e)
             T == {t[i] : i \in DOMAIN t}
  <2>1. s \in Seq(S \cup {e})
    BY <1>1
  <2>2. /\ t \in Seq(S \cup {e})
        /\ Len(t) = Len(s) + 1 /\ DOMAIN t = 1 .. Len(s) + 1
        /\ t[Len(s) + 1] = e
        /\ \A i \in 1 .. Len(s) : t[i] = s[i]
    BY <2>1, <1>2
  <2>3. \A i \in 1 .. Len(t) : t[i] \in T
    BY <2>2
  <2>4. t \in Seq(T)
    BY <2>2, <2>3
  <2> QED
    BY <2>2, <2>4 DEF IsSequence
<1>4. ASSUME NEW e, NEW k
      PROVE  /\ IsSequence([s EXCEPT ![k] = e])
             /\ Len([s EXCEPT ![k] = e]) = Len(s)
  <2> DEFINE t == [s EXCEPT ![k] = e]
             T == {t[i] : i \in DOMAIN t}
  <2>1. DOMAIN t = 1 .. Len(s) /\ t = [i \in 1 .. Len(s) |-> t[i]]
    BY <1>2, <1>1
  <2>2. t \in [1 .. Len(s) -> T]
    BY <2>1
  <2>3. t \in Seq(T) /\ Len(t) = Len(s)
    <3> HIDE DEF t, T
    <3> QED
      BY <2>2, <1>2, FunctionIsSequence
  <2> QED
    BY <2>3 DEF IsSequence
<1> QED
  BY <1>2, <1>3, <1>4

(* The state after ktl_register_standard_types.                            *)
LEMMA InitInv == Init => TypeInv /\ NamesUnique /\ OneIdPerType /\ NoOverrun
<1> SUFFICES ASSUME Init
             PROVE  TypeInv /\ NamesUnique /\ OneIdPerType /\ NoOverrun
  OBVIOUS
<1> DEFINE n == Len(Standard)
           E(i) == Base(Standard[i].name, Standard[i].size, Standard[i].align)
<1>0. Standard \in Seq([name : Names, size : Nat, align : Nat \ {0}])
  BY StandardAssumption
<1>1. /\ n \in Nat
      /\ \A i \in 1 .. n : /\ Standard[i].name \in Names
                           /\ Standard[i].size \in Nat
                           /\ Standard[i].align \in Nat \ {0}
  <2>1. n \in Nat
    BY <1>0
  <2>2. ASSUME NEW i \in 1 .. n
        PROVE  Standard[i] \in [name : Names, size : Nat, align : Nat \ {0}]
    BY <1>0, ElementOf
  <2> QED
    BY <2>1, <2>2
<1>2. data = [i \in 1 .. n |-> E(i)]
  BY DEF Init
<1>3. IsSequence(data) /\ Len(data) = n
  <2> DEFINE T == {data[i] : i \in DOMAIN data}
  <2>1. data \in [1 .. n -> T]
    BY <1>2
  <2>2. data \in Seq(T) /\ Len(data) = n
    <3> HIDE DEF T
    <3> QED BY <2>1, <1>1, FunctionIsSequence
  <2> QED
    BY <2>2 DEF IsSequence
<1>4. \A i \in Ids : i \in 1 .. n /\ data[i] = E(i)
  BY <1>2, <1>3 DEF Ids
<1>5. ASSUME NEW i \in Ids  PROVE EntryOK(i) /\ data[i].kind = "base"
  <2>1. i \in 1 .. n /\ data[i] = E(i)
    BY <1>4
  <2>2. data[i] = Base(data[i].name, data[i].size, data[i].align)
    BY <2>1 DEF Base
  <2>3. data[i].kind = "base" /\ data[i].name = Standard[i].name
        /\ data[i].size = Standard[i].size /\ data[i].align = Standard[i].align
    BY <2>1 DEF Base
  <2> QED
    BY <2>1, <2>2, <2>3, <1>1 DEF EntryOK
<1>6. aliases \in Seq([name : Names, target : Ids])
  BY <1>3, StandardAssumption DEF Init, Ids
<1>7. TypeInv
  BY <1>3, <1>5, <1>6, SizesAssumption DEF TypeInv, Init, BAD
<1>8. NamesUnique
  <2>1. ASSUME NEW i \in Ids, NEW m, Named(i, m)
        PROVE  i \in 1 .. n /\ Standard[i].name = m
    <3>1. i \in 1 .. n /\ data[i] = E(i)
      BY <1>4
    <3>2. data[i].name = Standard[i].name
      BY <3>1 DEF Base
    <3> QED
      BY <2>1, <3>1, <3>2 DEF Named
  <2>2. aliases = StandardAlias
    BY DEF Init
  <2>3. \A i, j \in Ids, m \in Names : Named(i, m) /\ Named(j, m) => i = j
    BY <2>1, StandardAssumption
  <2>4. \A i \in 1 .. Len(aliases), id \in Ids : ~Named(id, aliases[i].name)
    <3> SUFFICES ASSUME NEW i \in 1 .. Len(aliases), NEW id \in Ids,
                        Named(id, aliases[i].name)
                 PROVE  FALSE
      OBVIOUS
    <3>1. id \in 1 .. n /\ Standard[id].name = aliases[i].name
      BY <2>1
    <3> QED
      BY <3>1, <2>2, StandardAssumption
  <2> QED
    BY <2>2, <2>3, <2>4, StandardAssumption DEF NamesUnique
<1>9. OneIdPerType
  BY <1>5 DEF OneIdPerType
<1>10. NoOverrun
  BY <1>3, <1>5, StandardAssumption DEF NoOverrun, IsBlock, Init
<1> QED
  BY <1>7, <1>8, <1>9, <1>10

-----------------------------------------------------------------------------
(* The two ways data is written: one entry at the end, or the open block.  *)
LEMMA EntryAdded ==
  ASSUME TypeInv, NEW e, AddEntry(e)
  PROVE  /\ IsSequence(data') /\ Len(data) \in Nat
         /\ Len(data') = Len(data) + 1
         /\ Ids' = Ids \cup {Len(data) + 1}
         /\ data'[Len(data) + 1] = e
         /\ \A id \in Ids : data'[id] = data[id]
         /\ UNCHANGED <<aliases, alias_capacity>>
<1>1. IsSequence(data) /\ data' = Append(data, e)
      /\ UNCHANGED <<aliases, alias_capacity>>
  BY DEF TypeInv, AddEntry
<1> QED
  BY <1>1, SequenceFacts DEF Ids

LEMMA BlockWritten ==
  ASSUME TypeInv, open \in Ids, NEW b, data' = [data EXCEPT ![open] = b]
  PROVE  /\ IsSequence(data') /\ Len(data') = Len(data) /\ Ids' = Ids
         /\ data'[open] = b
         /\ \A id \in Ids : id # open => data'[id] = data[id]
<1>1. IsSequence(data)
  BY DEF TypeInv
<1>2. DOMAIN data = Ids
  BY <1>1, SequenceFacts DEF Ids
<1> QED
  BY <1>1, <1>2, SequenceFacts DEF Ids

LEMMA EntryKept ==
  ASSUME NEW id, EntryOK(id), data'[id] = data[id], Ids \subseteq Ids'
  PROVE  EntryOK(id)'
BY DEF EntryOK, FieldsOK

LEMMA AliasesKept ==
  ASSUME aliases \in Seq([name : Names, target : Ids]), Ids \subseteq Ids',
         UNCHANGED aliases
  PROVE  (aliases \in Seq([name : Names, target : Ids]))'
<1>1. [name : Names, target : Ids] \subseteq [name : Names, target : Ids']
  OBVIOUS
<1> QED
  BY <1>1, SequenceOver

(* KTL_TypeBlockFinish keeps the block's name and its fields' names and    *)
(* types, whatever the layout comes to.                                    *)
LEMMA FinishedShape ==
  ASSUME TypeInv, open \in Ids, IsBlock(open), ~data[open].complete
  PROVE  \E G, s, a, c :
           /\ Finished(data[open]) =
                BlockOf(data[open].name, G, data[open].cap, s, a, c)
           /\ FieldsOK(G) /\ Len(G) = Len(data[open].fields)
           /\ c \in BOOLEAN
<1> DEFINE b == data[open]
           F == b.fields
           L == Layout(F)
           G == Placed(F, L)
<1>1. FieldsOK(F) /\ b.complete \in BOOLEAN
  BY DEF TypeInv, EntryOK, IsBlock, Base, Pointer, Array
<1>2. Len(F) \in Nat
  BY <1>1, SequenceFacts DEF FieldsOK
<1>3. /\ IsSequence(G) /\ Len(G) = Len(F)
      /\ \A k \in 1 .. Len(F) :
           G[k] = IF k <= L.laid THEN Field(F[k].type, F[k].name, L.offset[k])
                  ELSE F[k]
  <2> DEFINE T == {G[i] : i \in DOMAIN G}
  <2>1. DOMAIN G = 1 .. Len(F) /\ G \in [1 .. Len(F) -> T]
    BY DEF Placed
  <2>2. G \in Seq(T) /\ Len(G) = Len(F)
    <3> HIDE DEF T, G
    <3> QED BY <2>1, <1>2, FunctionIsSequence
  <2> QED
    BY <2>2 DEF IsSequence, Placed
<1>4. ASSUME NEW k \in 1 .. Len(F)
      PROVE  G[k].type \in Ids /\ G[k].name \in FieldNames
  <2>1. F[k].type \in Ids /\ F[k].name \in FieldNames
    BY <1>1 DEF FieldsOK
  <2>2. G[k] = IF k <= L.laid THEN Field(F[k].type, F[k].name, L.offset[k])
               ELSE F[k]
    BY <1>3
  <2> QED
    BY <2>1, <2>2 DEF Field
<1>5. FieldsOK(G)
  BY <1>3, <1>4 DEF FieldsOK
<1>6. CASE L.laid = Len(F)
  <2>1. Finished(b) = BlockOf(b.name, G, b.cap, L.size, L.align, TRUE)
    BY <1>6 DEF Finished
  <2> QED
    BY <2>1, <1>3, <1>5
<1>7. CASE L.laid # Len(F)
  <2>1. Finished(b) = BlockOf(b.name, G, b.cap, b.size, b.align, b.complete)
    BY <1>7 DEF Finished
  <2> QED
    BY <2>1, <1>1, <1>3, <1>5
<1> QED
  BY <1>6, <1>7

-----------------------------------------------------------------------------
LEMMA BlockAddFieldShape ==
  ASSUME TypeInv, NEW id \in Ids, NEW n \in FieldNames, BlockAddField(id, n)
  PROVE  \E F : \E cap \in Nat :
           /\ open \in Ids /\ data[open].name \in Names
           /\ FieldsOK(F) /\ cap = GrowFields(data[open])
           /\ Len(data[open].fields) \in Nat /\ data[open].cap \in Nat
           /\ Len(F) = Len(data[open].fields) + 1
           /\ data' = [data EXCEPT ![open] =
                 BlockOf(data[open].name, F, cap, data[open].size,
                         data[open].align, data[open].complete)]
           /\ data[open].complete \in BOOLEAN /\ ~data[open].complete
<1> DEFINE b == data[open]
           F == Append(b.fields, Field(id, n, 0))
<1>1. /\ open \in Ids /\ ~b.complete /\ b.complete \in BOOLEAN /\ b.cap \in Nat
      /\ b.name \in Names /\ FieldsOK(b.fields)
  BY DEF BlockAddField, TypeInv, EntryOK, IsBlock, BAD, Base, Pointer, Array
<1>2. /\ IsSequence(F) /\ Len(b.fields) \in Nat
      /\ Len(F) = Len(b.fields) + 1
      /\ F[Len(b.fields) + 1] = Field(id, n, 0)
      /\ \A k \in 1 .. Len(b.fields) : F[k] = b.fields[k]
  BY <1>1, SequenceFacts DEF FieldsOK
<1>3. ASSUME NEW k \in 1 .. Len(F)
      PROVE  F[k].type \in Ids /\ F[k].name \in FieldNames
  <2>1. CASE k = Len(b.fields) + 1
    BY <2>1, <1>2 DEF Field
  <2>2. CASE k \in 1 .. Len(b.fields)
    BY <2>2, <1>1, <1>2 DEF FieldsOK
  <2> QED
    BY <2>1, <2>2, <1>2
<1>4. FieldsOK(F)
  BY <1>2, <1>3 DEF FieldsOK
<1>5. GrowFields(b) \in Nat
  BY <1>1, <1>2, SizesAssumption DEF GrowFields
<1>6. data' = [data EXCEPT ![open] =
                 BlockOf(b.name, F, GrowFields(b), b.size, b.align, b.complete)]
  BY DEF BlockAddField
<1> HIDE DEF F
<1> QED
  BY <1>1, <1>2, <1>4, <1>5, <1>6

(* A well-formed block written in place of the open one.                   *)
LEMMA WriteKeepsEntries ==
  ASSUME TypeInv, open \in Ids,
         NEW n \in Names, NEW F, FieldsOK(F), NEW cap \in Nat, NEW s, NEW a,
         NEW c \in BOOLEAN,
         data' = [data EXCEPT ![open] = BlockOf(n, F, cap, s, a, c)]
  PROVE  /\ IsSequence(data') /\ Ids' = Ids
         /\ \A id \in Ids' : EntryOK(id)'
         /\ \A id \in Ids : id # open => data'[id] = data[id]
         /\ data'[open] = BlockOf(n, F, cap, s, a, c)
<1> DEFINE b == BlockOf(n, F, cap, s, a, c)
<1>1. /\ IsSequence(data') /\ Ids' = Ids /\ data'[open] = b
      /\ \A id \in Ids : id # open => data'[id] = data[id]
  BY BlockWritten
<1>2. ASSUME NEW id \in Ids, id # open  PROVE EntryOK(id)'
  BY <1>1, <1>2, EntryKept DEF TypeInv
<1>3. ASSUME NEW id \in Ids, id = open  PROVE EntryOK(id)'
  <2>1. b.kind = "block" /\ b.name = n /\ b.fields = F /\ b.cap = cap
        /\ b.size = s /\ b.align = a /\ b.complete = c
    BY DEF BlockOf
  <2>2. b = BlockOf(b.name, b.fields, b.cap, b.size, b.align, b.complete)
    BY <2>1
  <2>3. FieldsOK(b.fields)'
    BY <2>1, <1>1 DEF FieldsOK
  <2> HIDE DEF b
  <2> QED
    BY <1>1, <1>3, <2>1, <2>2, <2>3 DEF EntryOK
<1> QED
  BY <1>1, <1>2, <1>3

(* A well-formed entry appended.                                           *)
LEMMA AppendKeepsEntries ==
  ASSUME TypeInv, NEW e, AddEntry(e),
         \A id : id = Len(data) + 1 /\ data'[id] = e => EntryOK(id)'
  PROVE  /\ IsSequence(data') /\ \A id \in Ids' : EntryOK(id)'
         /\ capacity' \in Nat /\ alias_capacity' \in Nat
         /\ (aliases \in Seq([name : Names, target : Ids]))'
<1>1. /\ IsSequence(data') /\ Ids' = Ids \cup {Len(data) + 1}
      /\ data'[Len(data) + 1] = e
      /\ \A id \in Ids : data'[id] = data[id]
      /\ UNCHANGED <<aliases, alias_capacity>>
  BY EntryAdded
<1>2. ASSUME NEW id \in Ids  PROVE EntryOK(id)'
  BY <1>1, EntryKept DEF TypeInv
<1>3. capacity' \in Nat /\ alias_capacity' \in Nat
  BY <1>1, SizesAssumption DEF AddEntry, GrowData, TypeInv
<1> QED
  BY <1>1, <1>2, <1>3, AliasesKept DEF TypeInv

-----------------------------------------------------------------------------
LEMMA TypeStep == TypeInv /\ [Next]_vars => TypeInv'
<1> SUFFICES ASSUME TypeInv, [Next]_vars
             PROVE  TypeInv'
  OBVIOUS
<1> USE DEF BAD
<1>1. ASSUME NEW id \in Ids, NEW n \in Names, AddDefine(id, n)
      PROVE  TypeInv'
  <2> DEFINE al == [name |-> n, target |-> id]
  <2>1. UNCHANGED <<data, capacity, open>> /\ aliases' = Append(aliases, al)
    BY <1>1 DEF AddDefine
  <2>2. /\ aliases \in Seq([name : Names, target : Ids])
        /\ al \in [name : Names, target : Ids] /\ alias_capacity \in Nat
    BY DEF TypeInv
  <2>3. aliases' \in Seq([name : Names, target : Ids])
    <3> HIDE DEF al
    <3> QED BY <2>1, <2>2
  <2>4. alias_capacity' \in Nat
    BY <1>1, <2>2 DEF AddDefine, GrowAliases
  <2>5. \A i \in Ids : EntryOK(i)'
    BY <2>1, EntryKept DEF Ids, TypeInv
  <2> QED
    BY <2>1, <2>3, <2>4, <2>5 DEF TypeInv, Ids, IsBlock
<1>2. ASSUME NEW e, AddEntry(e),
             \A k : k = Len(data) + 1 /\ data'[k] = e => EntryOK(k)',
             open' = open \/ (open' = Len(data) + 1 /\ \E n : e = Block(n))
      PROVE  TypeInv'
  <2>1. /\ IsSequence(data') /\ \A i \in Ids' : EntryOK(i)'
        /\ capacity' \in Nat /\ alias_capacity' \in Nat
        /\ (aliases \in Seq([name : Names, target : Ids]))'
    BY <1>2, AppendKeepsEntries
  <2>2. /\ Len(data) \in Nat /\ Ids' = Ids \cup {Len(data) + 1}
        /\ data'[Len(data) + 1] = e
        /\ \A i \in Ids : data'[i] = data[i]
    BY <1>2, EntryAdded
  <2>3. /\ (open \in Ids \cup {BAD})'
        /\ (open # BAD => IsBlock(open) /\ ~data[open].complete)'
    <3>1. CASE open' = open
      BY <3>1, <2>2 DEF TypeInv, IsBlock
    <3>2. CASE open' = Len(data) + 1 /\ \E n : e = Block(n)
      <4>1. PICK n : e = Block(n)
        BY <3>2
      <4> QED
        BY <3>2, <4>1, <2>2 DEF IsBlock, Block, BlockOf
    <3> QED
      BY <1>2, <3>1, <3>2
  <2> QED
    BY <2>1, <2>3 DEF TypeInv
<1>3. ASSUME NEW id \in Ids, AddPointer(id)
      PROVE  TypeInv'
  <2>1. Len(data) \in Nat
    BY SequenceFacts DEF TypeInv
  <2>2. ASSUME NEW k, k = Len(data) + 1, data'[k] = Pointer(id)
        PROVE  EntryOK(k)'
    BY <2>1, <2>2 DEF EntryOK, Pointer, Ids
  <2> QED
    BY <1>2, <1>3, <2>2 DEF AddPointer
<1>4. ASSUME NEW id \in Ids, NEW cnt \in Counts, AddArray(id, cnt)
      PROVE  TypeInv'
  <2>1. Len(data) \in Nat
    BY SequenceFacts DEF TypeInv
  <2>2. ASSUME NEW k, k = Len(data) + 1, data'[k] = Array(id, cnt)
        PROVE  EntryOK(k)'
    BY <2>1, <2>2 DEF EntryOK, Array, Ids
  <2> QED
    BY <1>2, <1>4, <2>2 DEF AddArray
<1>5. ASSUME NEW n \in Names, AddBlock(n)
      PROVE  TypeInv'
  <2>1. FieldsOK(<<>>)'
    BY DEF FieldsOK, IsSequence
  <2>2. ASSUME NEW k, k = Len(data) + 1, data'[k] = Block(n)
        PROVE  EntryOK(k)'
    BY <2>1, <2>2 DEF EntryOK, Block, BlockOf
  <2> QED
    BY <1>2, <1>5, <2>2 DEF AddBlock
<1>6. ASSUME NEW id \in Ids, NEW n \in FieldNames, BlockAddField(id, n)
      PROVE  TypeInv'
  <2>1. PICK F : \E cap \in Nat :
          /\ open \in Ids /\ FieldsOK(F) /\ data[open].name \in Names
          /\ data[open].complete \in BOOLEAN /\ ~data[open].complete
          /\ data' = [data EXCEPT ![open] =
                BlockOf(data[open].name, F, cap, data[open].size,
                        data[open].align, data[open].complete)]
    BY <1>6, BlockAddFieldShape
  <2>2. PICK cap, s, a, c :
          /\ cap \in Nat /\ c \in BOOLEAN
          /\ open \in Ids /\ FieldsOK(F) /\ data[open].name \in Names
          /\ data' = [data EXCEPT ![open] =
                         BlockOf(data[open].name, F, cap, s, a, c)]
          /\ ~c
    BY <2>1
  <2>3. UNCHANGED <<capacity, aliases, alias_capacity, open>>
    BY <1>6 DEF BlockAddField
  <2>4. IsSequence(data') /\ Ids' = Ids /\ \A i \in Ids' : EntryOK(i)'
    BY <2>2, WriteKeepsEntries
  <2>5. data'[open] = BlockOf(data[open].name, F, cap, s, a, c)
    BY <2>2, BlockWritten
  <2> QED
    BY <2>2, <2>3, <2>4, <2>5 DEF TypeInv, IsBlock, BlockOf
<1>7. CASE BlockFinish
  <2>1. /\ open \in Ids /\ IsBlock(open) /\ ~data[open].complete
        /\ data[open].name \in Names /\ data[open].cap \in Nat
    BY <1>7 DEF BlockFinish, TypeInv, EntryOK, IsBlock, Base, Pointer, Array
  <2>2. open' = BAD /\ UNCHANGED <<capacity, aliases, alias_capacity>>
    BY <1>7 DEF BlockFinish
  <2>3. CASE data[open].fields = <<>>
    <3>1. data' = data
      BY <1>7, <2>3 DEF BlockFinish
    <3>2. \A i \in Ids : EntryOK(i)'
      BY <3>1, EntryKept DEF Ids, TypeInv
    <3> QED
      BY <2>2, <3>1, <3>2 DEF TypeInv, Ids
  <2>4. CASE data[open].fields # <<>>
    <3>1. PICK G, s, a, c :
            /\ Finished(data[open]) =
                 BlockOf(data[open].name, G, data[open].cap, s, a, c)
            /\ FieldsOK(G) /\ c \in BOOLEAN
      BY <2>1, FinishedShape
    <3>2. data' = [data EXCEPT ![open] =
                     BlockOf(data[open].name, G, data[open].cap, s, a, c)]
      BY <1>7, <2>4, <3>1 DEF BlockFinish
    <3>3. IsSequence(data') /\ Ids' = Ids /\ \A i \in Ids' : EntryOK(i)'
      BY <2>1, <3>1, <3>2, WriteKeepsEntries
    <3> QED
      BY <2>2, <3>3 DEF TypeInv
  <2> QED
    BY <2>3, <2>4
<1>8. CASE Abandon \/ UNCHANGED vars
  <2>1. data' = data /\ UNCHANGED <<capacity, aliases, alias_capacity>>
        /\ open' \in {open, BAD}
    BY <1>8 DEF Abandon, vars
  <2>2. \A i \in Ids : EntryOK(i)'
    BY <2>1, EntryKept DEF Ids, TypeInv
  <2> QED
    BY <2>1, <2>2 DEF TypeInv, Ids, IsBlock
<1> QED
  BY <1>1, <1>3, <1>4, <1>5, <1>6, <1>7, <1>8 DEF Next

(* The registry is well formed in every reachable state.                   *)
THEOREM TypeCorrect == Spec => []TypeInv
<1>1. Init => TypeInv
  BY InitInv
<1>2. TypeInv /\ [Next]_vars => TypeInv'
  BY TypeStep
<1> QED
  BY <1>1, <1>2, PTL DEF Spec

-----------------------------------------------------------------------------
(* The steps, seen from the list of types: a refused or unrelated call     *)
(* leaves it alone, three calls append to it, two write the open block and *)
(* keep its name.                                                          *)
OpenWritten ==
  /\ open \in Ids /\ IsBlock(open) /\ ~data[open].complete
  /\ Ids' = Ids /\ Len(data') = Len(data)
  /\ \A id \in Ids : id # open => data'[id] = data[id]
  /\ data'[open].kind = "block" /\ data'[open].name = data[open].name
  /\ UNCHANGED <<capacity, aliases, alias_capacity>>

LEMMA AddFieldWrites ==
  ASSUME TypeInv, NEW id \in Ids, NEW n \in FieldNames, BlockAddField(id, n)
  PROVE  /\ OpenWritten
         /\ Len(data[open].fields) \in Nat /\ data[open].cap \in Nat
         /\ Len(data'[open].fields) = Len(data[open].fields) + 1
         /\ data'[open].cap = GrowFields(data[open])
<1>1. PICK F, cap, s, a, c :
        /\ open \in Ids /\ cap = GrowFields(data[open])
        /\ Len(data[open].fields) \in Nat /\ data[open].cap \in Nat
        /\ Len(F) = Len(data[open].fields) + 1
        /\ data' = [data EXCEPT ![open] =
                       BlockOf(data[open].name, F, cap, s, a, c)]
  BY BlockAddFieldShape
<1>2. /\ Ids' = Ids /\ Len(data') = Len(data)
      /\ data'[open] = BlockOf(data[open].name, F, cap, s, a, c)
      /\ \A i \in Ids : i # open => data'[i] = data[i]
  BY <1>1, BlockWritten
<1>3. /\ IsBlock(open) /\ ~data[open].complete
      /\ UNCHANGED <<capacity, aliases, alias_capacity>>
  BY DEF BlockAddField
<1> QED
  BY <1>1, <1>2, <1>3 DEF BlockOf, OpenWritten

LEMMA FinishWrites ==
  ASSUME TypeInv, BlockFinish
  PROVE  /\ OpenWritten
         /\ Len(data'[open].fields) = Len(data[open].fields)
         /\ data'[open].cap = data[open].cap
<1>1. /\ open \in Ids /\ IsBlock(open) /\ ~data[open].complete
      /\ UNCHANGED <<capacity, aliases, alias_capacity>>
  BY DEF BlockFinish, TypeInv
<1>2. CASE data' = data
  BY <1>1, <1>2 DEF OpenWritten, IsBlock, Ids
<1>3. CASE data' # data
  <2>1. PICK G, s, a, c :
          /\ Finished(data[open]) =
               BlockOf(data[open].name, G, data[open].cap, s, a, c)
          /\ Len(G) = Len(data[open].fields)
    BY <1>1, FinishedShape
  <2>2. data' = [data EXCEPT ![open] =
                   BlockOf(data[open].name, G, data[open].cap, s, a, c)]
    BY <1>3, <2>1 DEF BlockFinish
  <2>3. /\ Ids' = Ids /\ Len(data') = Len(data)
        /\ data'[open] = BlockOf(data[open].name, G, data[open].cap, s, a, c)
        /\ \A i \in Ids : i # open => data'[i] = data[i]
    BY <1>1, <2>2, BlockWritten
  <2> QED
    BY <1>1, <2>1, <2>3 DEF BlockOf, OpenWritten
<1> QED
  BY <1>2, <1>3

-----------------------------------------------------------------------------
(* Named entries and aliases keep their meaning under each kind of step.   *)
LEMMA NamedKept ==
  ASSUME OpenWritten
  PROVE  \A id \in Ids : \A n : Named(id, n)' <=> Named(id, n)
<1> SUFFICES ASSUME NEW id \in Ids, NEW n
             PROVE  Named(id, n)' <=> Named(id, n)
  OBVIOUS
<1>1. CASE id = open
  BY <1>1 DEF OpenWritten, Named, IsBlock
<1>2. CASE id # open
  BY <1>2 DEF OpenWritten, Named
<1> QED
  BY <1>1, <1>2

(* A new entry either has no name, or one that neither list knew.          *)
NewName(e) == e.kind \in {"base", "block"} => Unused(e.name)

LEMMA NamesStep == TypeInv /\ NamesUnique /\ [Next]_vars => NamesUnique'
<1> SUFFICES ASSUME TypeInv, NamesUnique, [Next]_vars
             PROVE  NamesUnique'
  OBVIOUS
<1>1. ASSUME NEW id \in Ids, NEW n \in Names, AddDefine(id, n)
      PROVE  NamesUnique'
  <2> DEFINE al == [name |-> n, target |-> id]
  <2>1. aliases \in Seq([name : Names, target : Ids]) /\ Len(aliases) \in Nat
    BY DEF TypeInv
  <2>2. /\ data' = data /\ Ids' = Ids
        /\ aliases' = Append(aliases, al) /\ Unused(n)
    BY <1>1 DEF AddDefine, Ids
  <2>3. /\ Len(aliases') = Len(aliases) + 1
        /\ aliases'[Len(aliases) + 1] = al
        /\ \A i \in 1 .. Len(aliases) : aliases'[i] = aliases[i]
    <3> HIDE DEF al
    <3>1. al \in [name : Names, target : Ids]
      BY DEF al
    <3> QED BY <2>1, <2>2, <3>1
  <2>4. \A i \in Ids : \A m : Named(i, m)' <=> Named(i, m)
    BY <2>2 DEF Named
  <2>5. aliases'[Len(aliases) + 1].name = n
    BY <2>3
  <2> QED
    BY <2>1, <2>2, <2>3, <2>4, <2>5 DEF NamesUnique, Unused
<1>2. ASSUME NEW e, AddEntry(e), NewName(e)
      PROVE  NamesUnique'
  <2>1. /\ Len(data) \in Nat /\ Ids' = Ids \cup {Len(data) + 1}
        /\ data'[Len(data) + 1] = e
        /\ \A i \in Ids : data'[i] = data[i]
        /\ aliases' = aliases
    BY <1>2, EntryAdded
  <2>2. \A i \in Ids : \A m : Named(i, m)' <=> Named(i, m)
    BY <2>1 DEF Named
  <2>3. ASSUME NEW m, NEW k, k = Len(data) + 1, Named(k, m)'
        PROVE  Unused(m)
    BY <1>2, <2>1, <2>3 DEF Named, NewName
  <2> QED
    BY <2>1, <2>2, <2>3 DEF NamesUnique, Unused
<1>3. ASSUME OpenWritten  PROVE NamesUnique'
  <2>1. \A id \in Ids : \A n : Named(id, n)' <=> Named(id, n)
    BY <1>3, NamedKept
  <2>2. Ids' = Ids /\ aliases' = aliases
    BY <1>3 DEF OpenWritten
  <2> QED
    BY <2>1, <2>2 DEF NamesUnique
<1>4. ASSUME NEW id \in Ids, AddPointer(id)  PROVE NamesUnique'
  BY <1>2, <1>4 DEF AddPointer, NewName, Pointer
<1>5. ASSUME NEW id \in Ids, NEW cnt \in Counts, AddArray(id, cnt)
      PROVE  NamesUnique'
  BY <1>2, <1>5 DEF AddArray, NewName, Array
<1>6. ASSUME NEW n \in Names, AddBlock(n)  PROVE NamesUnique'
  BY <1>2, <1>6 DEF AddBlock, NewName, Block, BlockOf
<1>7. ASSUME NEW id \in Ids, NEW n \in FieldNames, BlockAddField(id, n)
      PROVE  NamesUnique'
  BY <1>3, <1>7, AddFieldWrites
<1>8. CASE BlockFinish
  BY <1>3, <1>8, FinishWrites
<1>9. CASE Abandon \/ UNCHANGED vars
  BY <1>9 DEF Abandon, vars, NamesUnique, Named, Ids
<1> QED
  BY <1>1, <1>4, <1>5, <1>6, <1>7, <1>8, <1>9 DEF Next

(* A name means one thing: the two-list lookup of the registry never has   *)
(* two answers, however types and aliases are interleaved.                 *)
THEOREM NamesCorrect == Spec => []NamesUnique
<1>1. Init => TypeInv /\ NamesUnique
  BY InitInv
<1>2. TypeInv /\ NamesUnique /\ [Next]_vars => TypeInv' /\ NamesUnique'
  BY TypeStep, NamesStep
<1> QED
  BY <1>1, <1>2, PTL DEF Spec

-----------------------------------------------------------------------------
(* Doubling only makes room because the alias capacity is never zero: the  *)
(* strengthening that NoOverrun needs to be inductive.                     *)
Roomy == NoOverrun /\ alias_capacity # 0

LEMMA RoomyStep == TypeInv /\ Roomy /\ [Next]_vars => Roomy'
<1> SUFFICES ASSUME TypeInv, Roomy, [Next]_vars
             PROVE  Roomy'
  OBVIOUS
<1>0. /\ Len(data) \in Nat /\ Len(aliases) \in Nat
      /\ capacity \in Nat /\ alias_capacity \in Nat
      /\ MapGrow \in Nat \ {0} /\ FieldGrow \in Nat \ {0}
  BY SequenceFacts, SizesAssumption DEF TypeInv
<1>1. ASSUME NEW id \in Ids, NEW n \in Names, AddDefine(id, n)
      PROVE  Roomy'
  <2> DEFINE al == [name |-> n, target |-> id]
  <2>1. UNCHANGED <<data, capacity>> /\ aliases' = Append(aliases, al)
    BY <1>1 DEF AddDefine
  <2>2. Len(aliases') = Len(aliases) + 1
    <3>1. aliases \in Seq([name : Names, target : Ids])
          /\ al \in [name : Names, target : Ids]
      BY DEF TypeInv
    <3> HIDE DEF al
    <3> QED BY <2>1, <3>1
  <2>3. alias_capacity' = IF Len(aliases) = alias_capacity
                          THEN alias_capacity * 2 ELSE alias_capacity
    BY <1>1 DEF AddDefine, GrowAliases
  <2>4. Len(aliases') <= alias_capacity' /\ alias_capacity' # 0
    BY <1>0, <2>2, <2>3 DEF Roomy, NoOverrun
  <2> QED
    BY <2>1, <2>4 DEF Roomy, NoOverrun, Ids, IsBlock
<1>2. ASSUME NEW e, AddEntry(e), e.kind = "block" => e.fields = <<>> /\ e.cap = 0
      PROVE  Roomy'
  <2>1. /\ Ids' = Ids \cup {Len(data) + 1} /\ Len(data') = Len(data) + 1
        /\ data'[Len(data) + 1] = e
        /\ \A i \in Ids : data'[i] = data[i]
        /\ aliases' = aliases /\ alias_capacity' = alias_capacity
    BY <1>2, EntryAdded
  <2>2. capacity' = IF Len(data) = capacity THEN capacity + MapGrow ELSE capacity
    BY <1>2 DEF AddEntry, GrowData
  <2>3. Len(data') <= capacity' /\ Len(aliases') <= alias_capacity'
        /\ alias_capacity' # 0
    BY <1>0, <2>1, <2>2 DEF Roomy, NoOverrun
  <2>4. ASSUME NEW i \in Ids', IsBlock(i)'
        PROVE  Len(data'[i].fields) <= data'[i].cap
    <3>1. CASE i \in Ids
      BY <2>1, <2>4, <3>1 DEF Roomy, NoOverrun, IsBlock
    <3>2. CASE i = Len(data) + 1
      BY <1>2, <2>1, <2>4, <3>2 DEF IsBlock
    <3> QED
      BY <2>1, <3>1, <3>2
  <2> QED
    BY <2>3, <2>4 DEF Roomy, NoOverrun
<1>3. ASSUME OpenWritten, Len(data'[open].fields) <= data'[open].cap
      PROVE  Roomy'
  <2>1. \A i \in Ids : IsBlock(i)' => Len(data'[i].fields) <= data'[i].cap
    BY <1>3 DEF OpenWritten, Roomy, NoOverrun, IsBlock
  <2> QED
    BY <1>3, <2>1 DEF OpenWritten, Roomy, NoOverrun
<1>4. ASSUME NEW id \in Ids, AddPointer(id)  PROVE Roomy'
  BY <1>2, <1>4 DEF AddPointer, Pointer
<1>5. ASSUME NEW id \in Ids, NEW cnt \in Counts, AddArray(id, cnt)
      PROVE  Roomy'
  BY <1>2, <1>5 DEF AddArray, Array
<1>6. ASSUME NEW n \in Names, AddBlock(n)  PROVE Roomy'
  BY <1>2, <1>6 DEF AddBlock, Block, BlockOf
<1>7. ASSUME NEW id \in Ids, NEW n \in FieldNames, BlockAddField(id, n)
      PROVE  Roomy'
  <2>1. /\ OpenWritten
        /\ Len(data[open].fields) \in Nat /\ data[open].cap \in Nat
        /\ Len(data'[open].fields) = Len(data[open].fields) + 1
        /\ data'[open].cap = GrowFields(data[open])
    BY <1>7, AddFieldWrites
  <2>2. Len(data[open].fields) <= data[open].cap
    BY <2>1 DEF OpenWritten, Roomy, NoOverrun
  <2> QED
    BY <1>0, <1>3, <2>1, <2>2 DEF GrowFields
<1>8. CASE BlockFinish
  BY <1>3, <1>8, FinishWrites DEF OpenWritten, Roomy, NoOverrun
<1>9. CASE Abandon \/ UNCHANGED vars
  BY <1>9 DEF Abandon, vars, Roomy, NoOverrun, Ids, IsBlock
<1> QED
  BY <1>1, <1>4, <1>5, <1>6, <1>7, <1>8, <1>9 DEF Next

(* No list of the registry is written past its allocation, for every       *)
(* initial capacity and growth step that is not zero.                      *)
THEOREM NoOverrunCorrect == Spec => []NoOverrun
<1>1. Init => TypeInv /\ Roomy
  BY InitInv, SizesAssumption DEF Roomy, Init
<1>2. TypeInv /\ Roomy /\ [Next]_vars => TypeInv' /\ Roomy'
  BY TypeStep, RoomyStep
<1>3. Roomy => NoOverrun
  BY DEF Roomy
<1> QED
  BY <1>1, <1>2, <1>3, PTL DEF Spec

-----------------------------------------------------------------------------
LEMMA FrozenStep ==
  TypeInv /\ [Next]_vars =>
    \A id \in Ids : ~(IsBlock(id) /\ ~data[id].complete) => data'[id] = data[id]
<1> SUFFICES ASSUME TypeInv, [Next]_vars, NEW i \in Ids,
                    ~(IsBlock(i) /\ ~data[i].complete)
             PROVE  data'[i] = data[i]
  OBVIOUS
<1>1. ASSUME NEW e, AddEntry(e)  PROVE data'[i] = data[i]
  BY <1>1, EntryAdded
<1>2. ASSUME OpenWritten  PROVE data'[i] = data[i]
  BY <1>2 DEF OpenWritten
<1>3. ASSUME NEW id \in Ids, NEW n \in Names, AddDefine(id, n)
      PROVE  data'[i] = data[i]
  BY <1>3 DEF AddDefine
<1>4. ASSUME NEW id \in Ids, AddPointer(id)  PROVE data'[i] = data[i]
  BY <1>1, <1>4 DEF AddPointer
<1>5. ASSUME NEW id \in Ids, NEW cnt \in Counts, AddArray(id, cnt)
      PROVE  data'[i] = data[i]
  BY <1>1, <1>5 DEF AddArray
<1>6. ASSUME NEW n \in Names, AddBlock(n)  PROVE data'[i] = data[i]
  BY <1>1, <1>6 DEF AddBlock
<1>7. ASSUME NEW id \in Ids, NEW n \in FieldNames, BlockAddField(id, n)
      PROVE  data'[i] = data[i]
  BY <1>2, <1>7, AddFieldWrites
<1>8. CASE BlockFinish
  BY <1>2, <1>8, FinishWrites
<1>9. CASE Abandon \/ UNCHANGED vars
  BY <1>9 DEF Abandon, vars
<1> QED
  BY <1>3, <1>4, <1>5, <1>6, <1>7, <1>8, <1>9 DEF Next

(* Once a type is finished, every later stage may rely on its size, its    *)
(* fields and its element type.                                            *)
THEOREM FinishedTypesStay == Spec => FinishedTypesFrozen
<1>1. Init => TypeInv
  BY InitInv
<1>2. TypeInv /\ [Next]_vars => TypeInv'
  BY TypeStep
<1>3. TypeInv /\ [Next]_vars =>
        [\A id \in Ids : ~(IsBlock(id) /\ ~data[id].complete)
                           => data'[id] = data[id]]_vars
  BY FrozenStep
<1> QED
  BY <1>1, <1>2, <1>3, PTL DEF Spec, FinishedTypesFrozen

-----------------------------------------------------------------------------
LEMMA OneIdStep == TypeInv /\ OneIdPerType /\ [Next]_vars => OneIdPerType'
<1> SUFFICES ASSUME TypeInv, OneIdPerType, [Next]_vars
             PROVE  OneIdPerType'
  OBVIOUS
<1>1. ASSUME NEW e, AddEntry(e),
             e.kind \in {"ptr", "array"} => \A i \in Ids : data[i] # e
      PROVE  OneIdPerType'
  <2>1. /\ Len(data) \in Nat /\ Ids' = Ids \cup {Len(data) + 1}
        /\ data'[Len(data) + 1] = e
        /\ \A i \in Ids : data'[i] = data[i]
    BY <1>1, EntryAdded
  <2> QED
    BY <1>1, <2>1 DEF OneIdPerType
<1>2. ASSUME OpenWritten  PROVE OneIdPerType'
  BY <1>2 DEF OpenWritten, OneIdPerType
<1>3. ASSUME NEW id \in Ids, AddPointer(id)  PROVE OneIdPerType'
  BY <1>1, <1>3 DEF AddPointer
<1>4. ASSUME NEW id \in Ids, NEW cnt \in Counts, AddArray(id, cnt)
      PROVE  OneIdPerType'
  BY <1>1, <1>4 DEF AddArray
<1>5. ASSUME NEW n \in Names, AddBlock(n)  PROVE OneIdPerType'
  BY <1>1, <1>5 DEF AddBlock, Block, BlockOf
<1>6. ASSUME NEW id \in Ids, NEW n \in FieldNames, BlockAddField(id, n)
      PROVE  OneIdPerType'
  BY <1>2, <1>6, AddFieldWrites
<1>7. CASE BlockFinish
  BY <1>2, <1>7, FinishWrites
<1>8. CASE data' = data
  BY <1>8 DEF OneIdPerType, Ids
<1> QED
  BY <1>3, <1>4, <1>5, <1>6, <1>7, <1>8 DEF Next, AddDefine, Abandon, vars

(* Equal types have equal ids, so comparing ids (as semantic analysis      *)
(* does) compares types.                                                   *)
THEOREM OneIdCorrect == Spec => []OneIdPerType
<1>1. Init => TypeInv /\ OneIdPerType
  BY InitInv
<1>2. TypeInv /\ OneIdPerType /\ [Next]_vars => TypeInv' /\ OneIdPerType'
  BY TypeStep, OneIdStep
<1> QED
  BY <1>1, <1>2, PTL DEF Spec

-----------------------------------------------------------------------------
LEMMA FirstOfOne ==
  ASSUME NEW x \in Int, NEW S, S = {x}
  PROVE  First(S) = x
<1>1. S # {} /\ \E i \in S : \A j \in S : i <= j
  OBVIOUS
<1>2. First(S) \in S
  BY <1>1 DEF First
<1> QED
  BY <1>2

(* What a name resolves to.                                                *)
Resolved ==
  \A n \in Names :
    /\ \A id \in Ids : Named(id, n) => FindByName(n) = id
    /\ \A i \in 1 .. Len(aliases) :
         aliases[i].name = n => FindByName(n) = aliases[i].target
    /\ FindByName(n) # BAD =>
         \/ \E id \in Ids : Named(id, n)
         \/ \E i \in 1 .. Len(aliases) : aliases[i].name = n

LEMMA NamesResolve == TypeInv /\ NamesUnique => Resolved
<1> SUFFICES ASSUME TypeInv, NamesUnique, NEW n \in Names
             PROVE  /\ \A id \in Ids : Named(id, n) => FindByName(n) = id
                    /\ \A i \in 1 .. Len(aliases) :
                         aliases[i].name = n => FindByName(n) = aliases[i].target
                    /\ FindByName(n) # BAD =>
                         \/ \E id \in Ids : Named(id, n)
                         \/ \E i \in 1 .. Len(aliases) : aliases[i].name = n
  BY DEF Resolved
<1> DEFINE M == {id \in Ids : Named(id, n)}
           A == {i \in 1 .. Len(aliases) : aliases[i].name = n}
<1>1. ASSUME NEW id \in Ids, Named(id, n)  PROVE FindByName(n) = id
  <2>1. M = {id}
    BY <1>1 DEF NamesUnique
  <2>2. id \in Int /\ id # BAD
    BY SequenceFacts DEF TypeInv, Ids, BAD
  <2>3. FindMain(n) = id
    BY <2>1, <2>2, FirstOfOne DEF FindMain
  <2> QED
    BY <2>2, <2>3 DEF FindByName
<1>2. M = {} => FindMain(n) = BAD
  BY DEF FindMain, First
<1>3. ASSUME NEW i \in 1 .. Len(aliases), aliases[i].name = n
      PROVE  FindByName(n) = aliases[i].target
  <2>1. M = {}
    BY <1>3 DEF NamesUnique
  <2>2. A = {i}
    BY <1>3 DEF NamesUnique
  <2>3. i \in Int /\ i # BAD
    BY DEF TypeInv, BAD
  <2>4. First(A) = i
    <3> HIDE DEF A
    <3> QED BY <2>2, <2>3, FirstOfOne
  <2> QED
    BY <1>2, <2>1, <2>3, <2>4 DEF FindByName, FindAlias
<1>4. ASSUME FindByName(n) # BAD, M = {}  PROVE A # {}
  <2>1. FindAlias(n) # BAD
    BY <1>2, <1>4 DEF FindByName
  <2> QED
    BY <2>1 DEF FindAlias, First
<1> QED
  BY <1>1, <1>3, <1>4

(* No step takes a name away.                                              *)
LEMMA NamesStay ==
  ASSUME TypeInv, [Next]_vars, NEW n
  PROVE  /\ \A id \in Ids : Named(id, n) => id \in Ids' /\ Named(id, n)'
         /\ \A i \in 1 .. Len(aliases) :
              i \in 1 .. Len(aliases') /\ aliases'[i] = aliases[i]
<1> DEFINE Kept ==
      /\ \A id \in Ids : Named(id, n) => id \in Ids' /\ Named(id, n)'
      /\ \A i \in 1 .. Len(aliases) :
           i \in 1 .. Len(aliases') /\ aliases'[i] = aliases[i]
<1>1. ASSUME NEW e, AddEntry(e)  PROVE Kept
  BY <1>1, EntryAdded DEF Named
<1>2. ASSUME OpenWritten  PROVE Kept
  BY <1>2, NamedKept DEF OpenWritten
<1>3. ASSUME NEW id \in Ids, NEW m \in Names, AddDefine(id, m)
      PROVE  Kept
  <2> DEFINE al == [name |-> m, target |-> id]
  <2>1. data' = data /\ aliases' = Append(aliases, al)
    BY <1>3 DEF AddDefine
  <2>2. aliases \in Seq([name : Names, target : Ids])
        /\ al \in [name : Names, target : Ids]
    BY DEF TypeInv
  <2>3. /\ Len(aliases) \in Nat /\ Len(aliases') = Len(aliases) + 1
        /\ \A i \in 1 .. Len(aliases) : aliases'[i] = aliases[i]
    <3> HIDE DEF al
    <3> QED BY <2>1, <2>2
  <2> QED
    BY <2>1, <2>3 DEF Named, Ids
<1>4. ASSUME NEW id \in Ids, AddPointer(id)  PROVE Kept
  BY <1>1, <1>4 DEF AddPointer
<1>5. ASSUME NEW id \in Ids, NEW cnt \in Counts, AddArray(id, cnt)
      PROVE  Kept
  BY <1>1, <1>5 DEF AddArray
<1>6. ASSUME NEW m \in Names, AddBlock(m)  PROVE Kept
  BY <1>1, <1>6 DEF AddBlock
<1>7. ASSUME NEW id \in Ids, NEW m \in FieldNames, BlockAddField(id, m)
      PROVE  Kept
  BY <1>2, <1>7, AddFieldWrites
<1>8. CASE BlockFinish
  BY <1>2, <1>8, FinishWrites
<1>9. CASE Abandon \/ UNCHANGED vars
  BY <1>9 DEF Abandon, vars, Named, Ids
<1> QED
  BY <1>3, <1>4, <1>5, <1>6, <1>7, <1>8, <1>9 DEF Next

LEMMA ResolutionStep ==
  TypeInv /\ Resolved /\ Resolved' /\ [Next]_vars =>
    \A n \in Names : FindByName(n) # BAD => FindByName(n)' = FindByName(n)
<1> SUFFICES ASSUME TypeInv, Resolved, Resolved', [Next]_vars,
                    NEW n \in Names, FindByName(n) # BAD
             PROVE  FindByName(n)' = FindByName(n)
  OBVIOUS
<1>1. ASSUME NEW id \in Ids, Named(id, n)
      PROVE  FindByName(n)' = FindByName(n)
  <2>1. id \in Ids' /\ Named(id, n)'
    BY <1>1, NamesStay
  <2>2. FindByName(n)' = id
    BY <2>1 DEF Resolved
  <2>3. FindByName(n) = id
    BY <1>1 DEF Resolved
  <2> QED
    BY <2>2, <2>3
<1>2. ASSUME NEW i \in 1 .. Len(aliases), aliases[i].name = n
      PROVE  FindByName(n)' = FindByName(n)
  <2>1. i \in 1 .. Len(aliases') /\ aliases'[i] = aliases[i]
    BY NamesStay
  <2>2. FindByName(n)' = aliases[i].target
    BY <1>2, <2>1 DEF Resolved
  <2>3. FindByName(n) = aliases[i].target
    BY <1>2 DEF Resolved
  <2> QED
    BY <2>2, <2>3
<1> QED
  BY <1>1, <1>2 DEF Resolved

(* The parser resolves a name once and keeps the id: a later declaration,  *)
(* pointer type or typedef never gives the name another meaning.           *)
THEOREM ResolutionStays == Spec => ResolutionStable
<1>1. Init => TypeInv /\ NamesUnique
  BY InitInv
<1>2. TypeInv /\ NamesUnique /\ [Next]_vars => TypeInv' /\ NamesUnique'
  BY TypeStep, NamesStep
<1>3. TypeInv /\ NamesUnique => Resolved
  BY NamesResolve
<1>4. TypeInv /\ Resolved /\ Resolved' /\ [Next]_vars =>
        [\A n \in Names : FindByName(n) # BAD
                            => FindByName(n)' = FindByName(n)]_vars
  BY ResolutionStep
<1> QED
  BY <1>1, <1>2, <1>3, <1>4, PTL DEF Spec, ResolutionStable

-----------------------------------------------------------------------------
(***************************************************************************)
(* Induction and recursion over the natural numbers                        *)
(***************************************************************************)
LEMMA LeastNat ==
  ASSUME NEW T \in SUBSET Nat, T # {}
  PROVE  \E x \in T : \A y \in T : x <= y
<1>1. IsWellFoundedOn(OpToRel(<, Nat), Nat)
  BY NatLessThanWellFounded
<1>2. PICK x \in T : \A y \in T : <<y, x>> \notin OpToRel(<, Nat)
  BY <1>1, WFMin
<1>3. \A y \in T : ~(y < x)
  BY <1>2, Zenon DEF OpToRel
<1> QED
  BY <1>3

(* Induction up to N: what holds of 0 and goes on from n - 1 to n.         *)
LEMMA UpTo ==
  ASSUME NEW N \in Nat, NEW T, 0 \in T, \A n \in 1 .. N : n - 1 \in T => n \in T
  PROVE  \A n \in 0 .. N : n \in T
<1> DEFINE B == {n \in 0 .. N : n \notin T}
<1>1. SUFFICES ASSUME B # {} PROVE FALSE
  OBVIOUS
<1>2. PICK n \in B : \A m \in B : n <= m
  <2>1. B \in SUBSET Nat /\ B # {}
    BY <1>1
  <2> HIDE DEF B
  <2> QED
    BY <2>1, LeastNat
<1>3. n \in 1 .. N /\ n - 1 \in 0 .. N /\ n - 1 \notin B
  BY <1>2
<1> QED
  BY <1>2, <1>3

(* The functions defined by recursion up to N: step_ is what one value     *)
(* becomes at n.  There is one.                                            *)
Recursive(N, S, base, step_) ==
  {g \in [0 .. N -> S] :
     \A n \in 0 .. N : g[n] = IF n = 0 THEN base ELSE step_[<<g[n - 1], n>>]}

LEMMA Recursion ==
  ASSUME NEW N \in Nat, NEW S, NEW base \in S, NEW step_ \in [S \X (1 .. N) -> S]
  PROVE  Recursive(N, S, base, step_) # {}
<1> DEFINE T == {m \in 0 .. N : \E g \in [0 .. m -> S] :
                   \A n \in 0 .. m : g[n] = IF n = 0 THEN base ELSE step_[<<g[n - 1], n>>]}
<1>1. 0 \in T
  <2> DEFINE g == [n \in 0 .. 0 |-> base]
  <2>1. g \in [0 .. 0 -> S] /\ \A n \in 0 .. 0 : n = 0 /\ g[n] = base
    OBVIOUS
  <2> HIDE DEF g
  <2>2. \A n \in 0 .. 0 : g[n] = IF n = 0 THEN base ELSE step_[<<g[n - 1], n>>]
    BY <2>1
  <2> QED
    BY <2>1, <2>2
<1>2. ASSUME NEW m \in 1 .. N, m - 1 \in T PROVE m \in T
  <2>1. PICK g \in [0 .. m - 1 -> S] :
          \A n \in 0 .. m - 1 : g[n] = IF n = 0 THEN base ELSE step_[<<g[n - 1], n>>]
    BY <1>2
  <2> DEFINE h == [n \in 0 .. m |-> IF n = m THEN step_[<<g[m - 1], m>>] ELSE g[n]]
  <2>2. m - 1 \in 0 .. m - 1 /\ \A n \in 0 .. m : n # m => n \in 0 .. m - 1
    OBVIOUS
  <2>3. h \in [0 .. m -> S]
    BY <2>2
  <2>4. \A n \in 0 .. m : h[n] = IF n = 0 THEN base ELSE step_[<<h[n - 1], n>>]
    <3> TAKE n \in 0 .. m
    <3>1. CASE n = m
      BY <2>2, <3>1
    <3>2. CASE n # m
      <4>1. n \in 0 .. m - 1 /\ h[n] = g[n] /\ (n # 0 => h[n - 1] = g[n - 1])
        BY <2>2, <3>2
      <4> QED
        BY <2>1, <4>1
    <3> QED
      BY <3>1, <3>2
  <2> HIDE DEF h
  <2> QED
    BY <2>3, <2>4
<1>3. N \in T
  <2> HIDE DEF T
  <2> QED
    BY <1>1, <1>2, UpTo
<1> QED
  BY <1>3 DEF Recursive


(* The same where a value is given, on B, or comes from the value at a     *)
(* smaller number.                                                         *)
Descends(N, S, B, base, prev, step_) ==
  {g \in [1 .. N -> S] : \A n \in 1 .. N :
     g[n] = IF n \in B THEN base[n] ELSE step_[<<g[prev[n]], n>>]}

LEMMA Descending ==
  ASSUME NEW N \in Nat, NEW S, NEW B, NEW base, \A n \in 1 .. N : n \in B => base[n] \in S,
         NEW prev, \A n \in 1 .. N : n \notin B => prev[n] \in 1 .. n - 1,
         NEW step_ \in [S \X (1 .. N) -> S]
  PROVE  Descends(N, S, B, base, prev, step_) # {}
<1> DEFINE T == {m \in 0 .. N : \E g \in [1 .. m -> S] : \A n \in 1 .. m :
                   g[n] = IF n \in B THEN base[n] ELSE step_[<<g[prev[n]], n>>]}
<1>1. 0 \in T
  <2> DEFINE g == [n \in 1 .. 0 |-> base]
  <2>1. g \in [1 .. 0 -> S]
    OBVIOUS
  <2> HIDE DEF g
  <2>2. \A n \in 1 .. 0 : g[n] = IF n \in B THEN base[n] ELSE step_[<<g[prev[n]], n>>]
    OBVIOUS
  <2>3. 0 \in 0 .. N
    OBVIOUS
  <2> QED
    BY <2>1, <2>2, <2>3, Zenon
<1>2. ASSUME NEW m \in 1 .. N, m - 1 \in T PROVE m \in T
  <2>1. PICK g \in [1 .. m - 1 -> S] : \A n \in 1 .. m - 1 :
          g[n] = IF n \in B THEN base[n] ELSE step_[<<g[prev[n]], n>>]
    BY <1>2
  <2> DEFINE h == [n \in 1 .. m |->
                     IF n = m THEN IF m \in B THEN base[m] ELSE step_[<<g[prev[m]], m>>]
                     ELSE g[n]]
  <2>2. \A n \in 1 .. m : n \in 1 .. N /\ (n # m => n \in 1 .. m - 1)
    OBVIOUS
  <2>3. (IF m \in B THEN base[m] ELSE step_[<<g[prev[m]], m>>]) \in S
    <3>1. CASE m \in B
      BY <3>1
    <3>2. CASE m \notin B
      <4>1. prev[m] \in 1 .. m - 1
        BY <3>2
      <4>2. g[prev[m]] \in S
        BY <4>1
      <4>3. <<g[prev[m]], m>> \in S \X (1 .. N)
        BY <4>2
      <4> QED
        BY <3>2, <4>3
    <3> QED
      BY <3>1, <3>2
  <2>4. h \in [1 .. m -> S]
    BY <2>2, <2>3
  <2>5. \A n \in 1 .. m : h[n] = IF n \in B THEN base[n] ELSE step_[<<h[prev[n]], n>>]
    <3> TAKE n \in 1 .. m
    <3>1. n \notin B => prev[n] \in 1 .. n - 1
      BY <2>2
    <3>2. n \notin B => h[prev[n]] = g[prev[n]]
      <4>1. n \notin B => prev[n] \in 1 .. m /\ prev[n] # m
        BY <3>1
      <4> QED
        BY <4>1
    <3>3. CASE n = m
      BY <3>2, <3>3
    <3>4. CASE n # m
      BY <2>1, <2>2, <3>2, <3>4
    <3> QED
      BY <3>3, <3>4
  <2> HIDE DEF h
  <2> QED
    BY <2>4, <2>5
<1>3. N \in T
  <2> HIDE DEF T
  <2>1. \A n \in 1 .. N : n - 1 \in T => n \in T
    BY <1>2, Zenon
  <2>2. \A n \in 0 .. N : n \in T
    BY <1>1, <2>1, UpTo, Zenon
  <2> QED
    BY <2>2
<1> QED
  BY <1>3 DEF Descends


-----------------------------------------------------------------------------
(***************************************************************************)
(* Sizes and alignments                                                    *)
(***************************************************************************)

(* SizeOf and AlignOf of any list of entries d.                            *)
SizesOf(d) ==
  LET size[id \in 1 .. Len(d)] ==
        LET e == d[id] IN
        CASE e.kind = "base"  -> e.size
          [] e.kind = "ptr"   -> PtrSize
          [] e.kind = "array" -> IF size[e.elem] <= 0 THEN -1
                                 ELSE e.count * size[e.elem]
          [] e.kind = "block" -> IF e.complete THEN e.size ELSE -1
  IN  size

AlignsOf(d) ==
  LET align[id \in 1 .. Len(d)] ==
        LET e == d[id] IN
        CASE e.kind = "base"  -> e.align
          [] e.kind = "ptr"   -> PtrSize
          [] e.kind = "array" -> align[e.elem]
          [] e.kind = "block" -> IF e.complete THEN e.align ELSE -1
  IN  align

(* What the two recursions need: numbers where a size is taken from an     *)
(* entry, and an array younger than its element.                           *)
MeasuredEntry(i, e) ==
  /\ e.kind \in {"base", "ptr", "array", "block"}
  /\ e.kind = "base" => e.size \in Nat /\ e.align \in Aligns
  /\ e.kind = "array" => e.elem \in 1 .. i - 1 /\ e.count \in Nat \ {0}
  /\ e.kind = "block" => /\ e.complete \in BOOLEAN
                         /\ e.complete => e.size \in Nat /\ e.align \in Aligns

Measured(d) == Len(d) \in Nat /\ \A i \in 1 .. Len(d) : MeasuredEntry(i, d[i])

LEMMA AlignsFacts ==
  /\ Aligns \subseteq Nat \ {0} /\ PtrSize \in Aligns /\ 1 \in Aligns
  /\ \A i \in 1 .. Len(Standard) : Standard[i].align \in Aligns
<1>1. \A i \in 1 .. Len(Standard) : Standard[i].align \in Nat \ {0}
  <2>1. Standard \in Seq([name : Names, size : Nat, align : Nat \ {0}])
    BY StandardAssumption
  <2>2. ASSUME NEW i \in 1 .. Len(Standard)
        PROVE  Standard[i] \in [name : Names, size : Nat, align : Nat \ {0}]
    BY <2>1, ElementOf
  <2> QED
    BY <2>2
<1> QED
  BY <1>1, SizesAssumption DEF Aligns

LEMMA AlignsPositive == \A x \in Aligns : x \in Nat \ {0} /\ x \in Nat /\ x > 0
<1>1. \A x \in Aligns : x \in Nat \ {0}
  BY AlignsFacts, Zenon
<1>2. \A x \in Nat \ {0} : x \in Nat /\ x > 0
  OBVIOUS
<1> QED
  BY <1>1, <1>2, Zenon

(* The recursion ends, so SizesOf is what its equation says.               *)
LEMMA SizesFacts ==
  ASSUME NEW d, Measured(d), NEW s, s = SizesOf(d)
  PROVE  \A i \in 1 .. Len(d) :
           /\ s[i] \in Int
           /\ d[i].kind = "base" => s[i] = d[i].size
           /\ d[i].kind = "ptr" => s[i] = PtrSize
           /\ d[i].kind = "array" =>
                s[i] = IF s[d[i].elem] <= 0 THEN -1 ELSE d[i].count * s[d[i].elem]
           /\ d[i].kind = "block" => s[i] = IF d[i].complete THEN d[i].size ELSE -1
<1> DEFINE N == Len(d)
           B == {i \in 1 .. N : d[i].kind # "array"}
           given == [i \in 1 .. N |-> IF d[i].kind = "base" THEN d[i].size
                                      ELSE IF d[i].kind = "ptr" THEN PtrSize
                                      ELSE IF d[i].complete THEN d[i].size ELSE -1]
           elem == [i \in 1 .. N |-> d[i].elem]
           times == [x \in Int \X (1 .. N) |->
                       IF x[2] \in B \/ x[1] <= 0 THEN -1 ELSE d[x[2]].count * x[1]]
<1>1. N \in Nat /\ \A i \in 1 .. N : MeasuredEntry(i, d[i])
  BY DEF Measured
<1>2. \A i \in 1 .. N : i \in B => given[i] \in Int
  BY <1>1, SizesAssumption DEF MeasuredEntry
<1>3. \A i \in 1 .. N : i \notin B => elem[i] \in 1 .. i - 1
  BY <1>1 DEF MeasuredEntry
<1>4. \A i \in 1 .. N, a \in Int :
        (IF i \in B \/ a <= 0 THEN -1 ELSE d[i].count * a) \in Int
  <2> TAKE i \in 1 .. N, a \in Int
  <2>1. i \notin B => d[i].count \in Int
    BY <1>1 DEF MeasuredEntry
  <2>2. i \notin B => d[i].count * a \in Int
    BY <2>1
  <2> HIDE DEF B
  <2> QED
    BY <2>2
<1>5. /\ times \in [Int \X (1 .. N) -> Int]
      /\ \A i \in 1 .. N, a \in Int :
           times[<<a, i>>] = IF i \in B \/ a <= 0 THEN -1 ELSE d[i].count * a
  <2> HIDE DEF B
  <2> QED
    BY <1>4
<1>6. PICK g \in [1 .. N -> Int] : \A i \in 1 .. N :
        g[i] = IF i \in B THEN given[i] ELSE times[<<g[elem[i]], i>>]
  <2>1. N \in Nat
    BY <1>1
  <2>2. times \in [Int \X (1 .. N) -> Int]
    BY <1>5
  <2> HIDE DEF N, B, given, elem, times
  <2>3. Descends(N, Int, B, given, elem, times) # {}
    BY <1>2, <1>3, <2>1, <2>2, Descending, Zenon
  <2> QED
    BY <2>3 DEF Descends
<1>7. \A i \in 1 .. N :
        g[i] = CASE d[i].kind = "base"  -> d[i].size
                 [] d[i].kind = "ptr"   -> PtrSize
                 [] d[i].kind = "array" -> IF g[d[i].elem] <= 0 THEN -1
                                           ELSE d[i].count * g[d[i].elem]
                 [] d[i].kind = "block" -> IF d[i].complete THEN d[i].size ELSE -1
  <2> TAKE i \in 1 .. N
  <2>1. CASE d[i].kind = "array"
    <3>1. i \notin B /\ elem[i] = d[i].elem /\ elem[i] \in 1 .. N
      BY <2>1, <1>1, <1>3
    <3>2. g[i] = times[<<g[d[i].elem], i>>] /\ g[d[i].elem] \in Int
      BY <1>6, <3>1
    <3>3. g[i] = IF g[d[i].elem] <= 0 THEN -1 ELSE d[i].count * g[d[i].elem]
      <4> HIDE DEF B, times
      <4> QED
        BY <1>5, <3>1, <3>2
    <3> QED
      BY <2>1, <3>3
  <2>2. CASE d[i].kind # "array"
    <3>1. i \in B /\ g[i] = given[i]
      BY <2>2, <1>6
    <3> QED
      BY <2>2, <3>1, <1>1 DEF MeasuredEntry
  <2> QED
    BY <2>1, <2>2
<1>8. g = [i \in 1 .. N |->
             CASE d[i].kind = "base"  -> d[i].size
               [] d[i].kind = "ptr"   -> PtrSize
               [] d[i].kind = "array" -> IF g[d[i].elem] <= 0 THEN -1
                                         ELSE d[i].count * g[d[i].elem]
               [] d[i].kind = "block" -> IF d[i].complete THEN d[i].size ELSE -1]
  <2> HIDE DEF N
  <2> QED
    BY <1>6, <1>7
<1>9. s = [i \in 1 .. N |->
             CASE d[i].kind = "base"  -> d[i].size
               [] d[i].kind = "ptr"   -> PtrSize
               [] d[i].kind = "array" -> IF s[d[i].elem] <= 0 THEN -1
                                         ELSE d[i].count * s[d[i].elem]
               [] d[i].kind = "block" -> IF d[i].complete THEN d[i].size ELSE -1]
  BY <1>8 DEF SizesOf
<1>10. \A i \in 1 .. N :
         s[i] = CASE d[i].kind = "base"  -> d[i].size
                  [] d[i].kind = "ptr"   -> PtrSize
                  [] d[i].kind = "array" -> IF s[d[i].elem] <= 0 THEN -1
                                            ELSE d[i].count * s[d[i].elem]
                  [] d[i].kind = "block" -> IF d[i].complete THEN d[i].size ELSE -1
  BY <1>9
<1>11. \A i \in 1 .. N : s[i] \in Int
  <2> DEFINE T == {m \in 0 .. N : \A i \in 1 .. m : s[i] \in Int}
  <2>1. 0 \in T
    BY <1>1
  <2>2. ASSUME NEW m \in 1 .. N, m - 1 \in T  PROVE m \in T
    <3>1. s[m] \in Int
      <4>1. CASE d[m].kind = "array"
        <5>1. s[m] = IF s[d[m].elem] <= 0 THEN -1 ELSE d[m].count * s[d[m].elem]
          BY <4>1, <1>10
        <5>2. d[m].elem \in 1 .. m - 1 /\ d[m].count \in Int
          BY <4>1, <1>1 DEF MeasuredEntry
        <5>3. s[d[m].elem] \in Int
          BY <2>2, <5>2
        <5>4. d[m].count * s[d[m].elem] \in Int
          BY <5>2, <5>3
        <5> QED
          BY <5>1, <5>4
      <4>2. CASE d[m].kind = "base"
        BY <4>2, <1>10, <1>1 DEF MeasuredEntry
      <4>3. CASE d[m].kind = "ptr"
        BY <4>3, <1>10, SizesAssumption
      <4>4. CASE d[m].kind = "block"
        BY <4>4, <1>10, <1>1 DEF MeasuredEntry
      <4> QED
        BY <4>1, <4>2, <4>3, <4>4, <1>1 DEF MeasuredEntry
    <3>2. \A i \in 1 .. m : i = m \/ i \in 1 .. m - 1
      OBVIOUS
    <3> QED
      BY <2>2, <3>1, <3>2
  <2> HIDE DEF T
  <2>3. \A m \in 1 .. N : m - 1 \in T => m \in T
    BY <2>2, Zenon
  <2>4. \A m \in 0 .. N : m \in T
    BY <1>1, <2>1, <2>3, UpTo, Zenon
  <2>5. N \in T
    BY <1>1, <2>4
  <2> QED
    BY <2>5 DEF T
<1> QED
  BY <1>10, <1>11


(* AlignsOf likewise; it has the alignment of some entry, or none.         *)
LEMMA AlignsOfFacts ==
  ASSUME NEW d, Measured(d), NEW a, a = AlignsOf(d)
  PROVE  \A i \in 1 .. Len(d) :
           /\ a[i] \in Aligns \cup {-1}
           /\ d[i].kind = "base" => a[i] = d[i].align
           /\ d[i].kind = "ptr" => a[i] = PtrSize
           /\ d[i].kind = "array" => a[i] = a[d[i].elem]
           /\ d[i].kind = "block" => a[i] = IF d[i].complete THEN d[i].align ELSE -1
<1> DEFINE N == Len(d)
           S == Aligns \cup {-1}
           B == {i \in 1 .. N : d[i].kind # "array"}
           given == [i \in 1 .. N |-> IF d[i].kind = "base" THEN d[i].align
                                      ELSE IF d[i].kind = "ptr" THEN PtrSize
                                      ELSE IF d[i].complete THEN d[i].align ELSE -1]
           elem == [i \in 1 .. N |-> d[i].elem]
           same == [x \in S \X (1 .. N) |-> x[1]]
<1>1. N \in Nat /\ \A i \in 1 .. N : MeasuredEntry(i, d[i])
  BY DEF Measured
<1>2. \A i \in 1 .. N : i \in B => given[i] \in S
  BY <1>1, AlignsFacts DEF MeasuredEntry
<1>3. \A i \in 1 .. N : i \notin B => elem[i] \in 1 .. i - 1
  BY <1>1 DEF MeasuredEntry
<1>5. /\ same \in [S \X (1 .. N) -> S]
      /\ \A i \in 1 .. N, x \in S : same[<<x, i>>] = x
  <2> HIDE DEF S
  <2> QED
    OBVIOUS
<1>6. PICK g \in [1 .. N -> S] : \A i \in 1 .. N :
        g[i] = IF i \in B THEN given[i] ELSE same[<<g[elem[i]], i>>]
  <2>1. N \in Nat
    BY <1>1
  <2>2. same \in [S \X (1 .. N) -> S]
    BY <1>5
  <2> HIDE DEF N, S, B, given, elem, same
  <2>3. Descends(N, S, B, given, elem, same) # {}
    BY <1>2, <1>3, <2>1, <2>2, Descending, Zenon
  <2> QED
    BY <2>3 DEF Descends
<1>7. \A i \in 1 .. N :
        g[i] = CASE d[i].kind = "base"  -> d[i].align
                 [] d[i].kind = "ptr"   -> PtrSize
                 [] d[i].kind = "array" -> g[d[i].elem]
                 [] d[i].kind = "block" -> IF d[i].complete THEN d[i].align ELSE -1
  <2> TAKE i \in 1 .. N
  <2>1. CASE d[i].kind = "array"
    <3>1. i \notin B /\ elem[i] = d[i].elem /\ elem[i] \in 1 .. N
      BY <2>1, <1>1, <1>3
    <3>2. g[i] = same[<<g[d[i].elem], i>>] /\ g[d[i].elem] \in S
      BY <1>6, <3>1
    <3>3. g[i] = g[d[i].elem]
      <4> HIDE DEF B, same, S
      <4> QED
        BY <1>5, <3>1, <3>2
    <3> QED
      BY <2>1, <3>3
  <2>2. CASE d[i].kind # "array"
    <3>1. i \in B /\ g[i] = given[i]
      BY <2>2, <1>6
    <3> QED
      BY <2>2, <3>1, <1>1 DEF MeasuredEntry
  <2> QED
    BY <2>1, <2>2
<1>8. g = [i \in 1 .. N |->
             CASE d[i].kind = "base"  -> d[i].align
               [] d[i].kind = "ptr"   -> PtrSize
               [] d[i].kind = "array" -> g[d[i].elem]
               [] d[i].kind = "block" -> IF d[i].complete THEN d[i].align ELSE -1]
  <2> HIDE DEF N
  <2> QED
    BY <1>6, <1>7
<1>9. a = [i \in 1 .. N |->
             CASE d[i].kind = "base"  -> d[i].align
               [] d[i].kind = "ptr"   -> PtrSize
               [] d[i].kind = "array" -> a[d[i].elem]
               [] d[i].kind = "block" -> IF d[i].complete THEN d[i].align ELSE -1]
  BY <1>8 DEF AlignsOf
<1>10. \A i \in 1 .. N :
         a[i] = CASE d[i].kind = "base"  -> d[i].align
                  [] d[i].kind = "ptr"   -> PtrSize
                  [] d[i].kind = "array" -> a[d[i].elem]
                  [] d[i].kind = "block" -> IF d[i].complete THEN d[i].align ELSE -1
  BY <1>9
<1>11. \A i \in 1 .. N : a[i] \in S
  <2> DEFINE T == {m \in 0 .. N : \A i \in 1 .. m : a[i] \in S}
  <2>1. 0 \in T
    BY <1>1
  <2>2. ASSUME NEW m \in 1 .. N, m - 1 \in T  PROVE m \in T
    <3>1. a[m] \in S
      <4>1. CASE d[m].kind = "array"
        <5>1. d[m].elem \in 1 .. m - 1
          BY <4>1, <1>1 DEF MeasuredEntry
        <5> QED
          BY <4>1, <1>10, <2>2, <5>1
      <4>2. CASE d[m].kind # "array"
        BY <4>2, <1>10, <1>1, AlignsFacts DEF MeasuredEntry
      <4> QED
        BY <4>1, <4>2
    <3>2. \A i \in 1 .. m : i = m \/ i \in 1 .. m - 1
      OBVIOUS
    <3> QED
      BY <2>2, <3>1, <3>2
  <2> HIDE DEF T
  <2>3. \A m \in 1 .. N : m - 1 \in T => m \in T
    BY <2>2, Zenon
  <2>4. \A m \in 0 .. N : m \in T
    BY <1>1, <2>1, <2>3, UpTo, Zenon
  <2>5. N \in T
    BY <1>1, <2>4
  <2> QED
    BY <2>5 DEF T
<1> QED
  BY <1>10, <1>11

(* A list grown at the end, in which only incomplete blocks were written:  *)
(* what had a size keeps it, and its alignment.                            *)
LEMMA SizesKept ==
  ASSUME NEW d, Measured(d), NEW e, Measured(e), Len(d) <= Len(e),
         \A i \in 1 .. Len(d) : ~(d[i].kind = "block" /\ ~d[i].complete) => e[i] = d[i]
  PROVE  \A i \in 1 .. Len(d) :
           /\ SizesOf(d)[i] > 0 => SizesOf(e)[i] = SizesOf(d)[i]
           /\ AlignsOf(d)[i] > 0 => AlignsOf(e)[i] = AlignsOf(d)[i]
<1>1. PICK s : s = SizesOf(d)
  OBVIOUS
<1>2. PICK t : t = SizesOf(e)
  OBVIOUS
<1>3. PICK a : a = AlignsOf(d)
  OBVIOUS
<1>4. PICK b : b = AlignsOf(e)
  OBVIOUS
<1> DEFINE N == Len(d)
           T == {m \in 0 .. N : \A i \in 1 .. m : /\ s[i] > 0 => t[i] = s[i]
                                                  /\ a[i] > 0 => b[i] = a[i]}
<1>5. N \in Nat /\ \A i \in 1 .. N : i \in 1 .. Len(e) /\ MeasuredEntry(i, d[i])
  BY DEF Measured
<1>6. 0 \in T
  BY <1>5
<1>7. ASSUME NEW m \in 1 .. N, m - 1 \in T  PROVE m \in T
  <2>1. m \in 1 .. Len(e) /\ MeasuredEntry(m, d[m])
    BY <1>5
  <2>2. (s[m] > 0 => t[m] = s[m]) /\ (a[m] > 0 => b[m] = a[m])
    <3>1. CASE d[m].kind = "block" /\ ~d[m].complete
      <4>1. s[m] = -1
        BY <1>1, <3>1, SizesFacts
      <4>2. a[m] = -1
        BY <1>3, <3>1, AlignsOfFacts
      <4> QED
        BY <4>1, <4>2
    <3>2. CASE d[m].kind = "array"
      <4>1. e[m] = d[m]
        BY <3>2
      <4> DEFINE j == d[m].elem
      <4>2. j \in 1 .. m - 1 /\ j \in 1 .. N
        BY <2>1, <3>2 DEF MeasuredEntry
      <4>3. /\ s[m] = IF s[j] <= 0 THEN -1 ELSE d[m].count * s[j]
            /\ s[j] \in Int
        BY <1>1, <3>2, <4>2, SizesFacts
      <4>4. t[m] = IF t[j] <= 0 THEN -1 ELSE d[m].count * t[j]
        BY <1>2, <2>1, <3>2, <4>1, SizesFacts
      <4>5. a[m] = a[j]
        BY <1>3, <3>2, AlignsOfFacts
      <4>6. b[m] = b[j]
        BY <1>4, <2>1, <3>2, <4>1, AlignsOfFacts
      <4>7. (s[j] > 0 => t[j] = s[j]) /\ (a[j] > 0 => b[j] = a[j])
        BY <1>7, <4>2
      <4> HIDE DEF j
      <4> QED
        BY <4>3, <4>4, <4>5, <4>6, <4>7
    <3>3. CASE d[m].kind \in {"base", "ptr"} \/ (d[m].kind = "block" /\ d[m].complete)
      <4>1. e[m] = d[m]
        BY <3>3
      <4>2. s[m] = t[m]
        <5>1. CASE d[m].kind = "base"
          BY <1>1, <1>2, <2>1, <4>1, <5>1, SizesFacts
        <5>2. CASE d[m].kind = "ptr"
          BY <1>1, <1>2, <2>1, <4>1, <5>2, SizesFacts
        <5>3. CASE d[m].kind = "block"
          BY <1>1, <1>2, <2>1, <4>1, <5>3, SizesFacts
        <5> QED
          BY <3>3, <5>1, <5>2, <5>3
      <4>3. a[m] = b[m]
        <5>1. CASE d[m].kind = "base"
          BY <1>3, <1>4, <2>1, <4>1, <5>1, AlignsOfFacts
        <5>2. CASE d[m].kind = "ptr"
          BY <1>3, <1>4, <2>1, <4>1, <5>2, AlignsOfFacts
        <5>3. CASE d[m].kind = "block"
          BY <1>3, <1>4, <2>1, <4>1, <5>3, AlignsOfFacts
        <5> QED
          BY <3>3, <5>1, <5>2, <5>3
      <4> QED
        BY <4>2, <4>3
    <3> QED
      BY <2>1, <3>1, <3>2, <3>3 DEF MeasuredEntry
  <2>3. \A i \in 1 .. m : i = m \/ i \in 1 .. m - 1
    OBVIOUS
  <2> QED
    BY <1>7, <2>2, <2>3
<1> HIDE DEF T
<1>8. \A m \in 1 .. N : m - 1 \in T => m \in T
  BY <1>7, Zenon
<1>9. \A m \in 0 .. N : m \in T
  BY <1>5, <1>6, <1>8, UpTo, Zenon
<1>10. N \in T
  BY <1>5, <1>9
<1> QED
  BY <1>1, <1>2, <1>3, <1>4, <1>10 DEF T


-----------------------------------------------------------------------------
(***************************************************************************)
(* The layout of a block                                                   *)
(***************************************************************************)
LEMMA Division ==
  ASSUME NEW x \in Nat, NEW a \in Nat \ {0}
  PROVE  \E q \in Nat, r \in 0 .. a - 1 : x = q * a + r /\ x \div a = q
<1>1. x \div a \in Nat
  OBVIOUS
<1>2. x % a \in 0 .. a - 1
  OBVIOUS
<1>3. x = (x \div a) * a + (x % a)
  OBVIOUS
<1> QED
  BY <1>1, <1>2, <1>3

LEMMA AlignUpFacts ==
  ASSUME NEW offset \in Nat, NEW align \in Nat \ {0}, NEW up, up = AlignUp(offset, align)
  PROVE  up \in Nat /\ up % align = 0 /\ offset <= up
<1>1. offset + align - 1 \in Nat
  OBVIOUS
<1>2. PICK q \in Nat, r \in 0 .. align - 1 :
        /\ offset + align - 1 = q * align + r
        /\ (offset + align - 1) \div align = q
  BY <1>1, Division
<1>3. q * align \in Nat /\ (q * align) % align = 0
  BY <1>2
<1>4. up = q * align
  BY <1>2 DEF AlignUp
<1>5. offset <= q * align
  BY <1>2, <1>3
<1> QED
  BY <1>3, <1>4, <1>5

LEMMA StricterIsMultiple ==
  ASSUME NEW a \in Aligns, NEW b \in Aligns, b <= a
  PROVE  a % b = 0
<1>1. a \in Nat \ {0} /\ b \in Nat \ {0}
  BY AlignsFacts
<1>2. a % b = 0 \/ b % a = 0
  BY AlignsAssumption
<1>3. CASE b % a = 0
  <2>1. b < a => b % a = b
    BY <1>1
  <2>2. a = b
    BY <1>1, <1>3, <2>1
  <2> QED
    BY <1>1, <2>2
<1> QED
  BY <1>2, <1>3

(* Fields whose types all have a size and one of the alignments.           *)
AllSized(F) ==
  /\ Len(F) \in Nat
  /\ \A k \in 1 .. Len(F) : /\ SizeOf[F[k].type] \in Nat \ {0}
                            /\ AlignOf[F[k].type] \in Aligns

LEMMA LaidFacts ==
  ASSUME NEW F, Len(F) \in Nat
  PROVE  /\ Laid(F) \in 0 .. Len(F)
         /\ \A k \in 1 .. Laid(F) : Sized(F[k])
<1> DEFINE P(n) == (\A k \in 1 .. n : Sized(F[k])) /\ (n < Len(F) => ~Sized(F[n + 1]))
           Stops == {n \in 0 .. Len(F) : n = Len(F) \/ ~Sized(F[n + 1])}
<1>1. Stops \in SUBSET Nat /\ Len(F) \in Stops
  OBVIOUS
<1>2. PICK n \in Stops : \A m \in Stops : n <= m
  <2> HIDE DEF Stops
  <2> QED
    BY <1>1, LeastNat
<1>3. n \in 0 .. Len(F) /\ (n < Len(F) => ~Sized(F[n + 1]))
  BY <1>2
<1>4. ASSUME NEW k \in 1 .. n  PROVE Sized(F[k])
  <2>1. k - 1 \in 0 .. Len(F) /\ k - 1 # Len(F) /\ ~(n <= k - 1) /\ (k - 1) + 1 = k
    BY <1>3
  <2>2. k - 1 \notin Stops
    BY <1>2, <2>1
  <2> QED
    BY <2>1, <2>2
<1>5. \E m \in 0 .. Len(F) : P(m)
  BY <1>3, <1>4
<1>6. Laid(F) = CHOOSE m \in 0 .. Len(F) : P(m)
  BY DEF Laid
<1> HIDE DEF P
<1>7. Laid(F) \in 0 .. Len(F) /\ P(Laid(F))
  BY <1>5, <1>6
<1> QED
  BY <1>7 DEF P

(* Where the fields end: each at its size after the first place its        *)
(* alignment allows behind the one before.                                 *)
LEMMA EndFacts ==
  ASSUME NEW F, AllSized(F), NEW end, end = End(F)
  PROVE  /\ end \in [0 .. Len(F) -> Nat]
         /\ \A k \in 1 .. Len(F) :
              end[k] = AlignUp(end[k - 1], AlignOf[F[k].type]) + SizeOf[F[k].type]
         /\ \A k \in 0 .. Len(F) : end[k] <= end[Len(F)]
<1> DEFINE N == Len(F)
           step == [x \in Nat \X (1 .. N) |->
                      AlignUp(x[1], AlignOf[F[x[2]].type]) + SizeOf[F[x[2]].type]]
<1>1. N \in Nat /\ \A k \in 1 .. N : /\ SizeOf[F[k].type] \in Nat \ {0}
                                     /\ AlignOf[F[k].type] \in Nat \ {0}
  BY AlignsFacts DEF AllSized
<1>2. \A x \in Nat, k \in 1 .. N :
        /\ AlignUp(x, AlignOf[F[k].type]) \in Nat
        /\ x <= AlignUp(x, AlignOf[F[k].type])
  <2> TAKE x \in Nat, k \in 1 .. N
  <2>1. PICK u : u = AlignUp(x, AlignOf[F[k].type])
    OBVIOUS
  <2>2. u \in Nat /\ x <= u
    BY <1>1, <2>1, AlignUpFacts
  <2> QED
    BY <2>1, <2>2
<1>3. /\ step \in [Nat \X (1 .. N) -> Nat]
      /\ \A x \in Nat, k \in 1 .. N :
           step[<<x, k>>] = AlignUp(x, AlignOf[F[k].type]) + SizeOf[F[k].type]
  <2>1. \A x \in Nat, k \in 1 .. N :
          AlignUp(x, AlignOf[F[k].type]) + SizeOf[F[k].type] \in Nat
    <3> HIDE DEF N
    <3> QED
      BY <1>1, <1>2
  <2> QED
    BY <2>1, Zenon
<1>4. PICK g \in [0 .. N -> Nat] :
        \A n \in 0 .. N : g[n] = IF n = 0 THEN 0 ELSE step[<<g[n - 1], n>>]
  <2>1. N \in Nat /\ 0 \in Nat
    BY <1>1
  <2>2. step \in [Nat \X (1 .. N) -> Nat]
    BY <1>3
  <2> HIDE DEF step, N
  <2>3. Recursive(N, Nat, 0, step) # {}
    BY <2>1, <2>2, Recursion
  <2> QED
    BY <2>3 DEF Recursive
<1>5. g = [k \in 0 .. N |->
             IF k = 0 THEN 0
             ELSE AlignUp(g[k - 1], AlignOf[F[k].type]) + SizeOf[F[k].type]]
  <2> HIDE DEF step
  <2>1. \A k \in 0 .. N : k # 0 => k \in 1 .. N /\ g[k - 1] \in Nat
    BY <1>4
  <2>2. \A k \in 0 .. N :
          g[k] = IF k = 0 THEN 0
                 ELSE AlignUp(g[k - 1], AlignOf[F[k].type]) + SizeOf[F[k].type]
    BY <1>3, <1>4, <2>1
  <2> QED
    BY <2>2
<1>6. end = [k \in 0 .. N |->
               IF k = 0 THEN 0
               ELSE AlignUp(end[k - 1], AlignOf[F[k].type]) + SizeOf[F[k].type]]
  BY <1>5 DEF End
<1>7. /\ end[0] = 0
      /\ \A k \in 1 .. N :
           end[k] = AlignUp(end[k - 1], AlignOf[F[k].type]) + SizeOf[F[k].type]
  BY <1>1, <1>6
<1> HIDE DEF step
<1> DEFINE T == {m \in 0 .. N : \A k \in 0 .. m : end[k] \in Nat /\ end[k] <= end[m]}
<1>8. 0 \in T
  BY <1>1, <1>7
<1>9. ASSUME NEW m \in 1 .. N, m - 1 \in T  PROVE m \in T
  <2>1. end[m - 1] \in Nat /\ \A k \in 0 .. m - 1 : end[k] \in Nat /\ end[k] <= end[m - 1]
    BY <1>9
  <2>2. end[m] \in Nat /\ end[m - 1] <= end[m]
    <3>1. PICK u : u = AlignUp(end[m - 1], AlignOf[F[m].type])
      OBVIOUS
    <3>2. u \in Nat /\ end[m - 1] <= u
      BY <1>2, <2>1, <3>1
    <3>3. end[m] = u + SizeOf[F[m].type]
      BY <1>7, <3>1
    <3> QED
      BY <1>1, <2>1, <3>2, <3>3
  <2>3. \A k \in 0 .. m : k = m \/ k \in 0 .. m - 1
    OBVIOUS
  <2> QED
    BY <2>1, <2>2, <2>3
<1>10. N \in T
  <2> HIDE DEF T
  <2>1. \A m \in 1 .. N : m - 1 \in T => m \in T
    BY <1>9, Zenon
  <2>2. \A m \in 0 .. N : m \in T
    BY <1>1, <1>8, <2>1, UpTo, Zenon
  <2> QED
    BY <1>1, <2>2
<1>11. end \in [0 .. N -> Nat]
  BY <1>6, <1>10
<1> QED
  BY <1>7, <1>10, <1>11

(* The strictest alignment is that of some field, and a multiple of every  *)
(* field's.                                                                *)
LEMMA StrictestFacts ==
  ASSUME NEW F, AllSized(F), NEW max, max = Strictest(F)
  PROVE  /\ max[Len(F)] \in Aligns
         /\ \A k \in 1 .. Len(F) : max[Len(F)] % AlignOf[F[k].type] = 0
<1> DEFINE N == Len(F)
           step == [x \in Aligns \X (1 .. N) |->
                      IF AlignOf[F[x[2]].type] > x[1] THEN AlignOf[F[x[2]].type] ELSE x[1]]
<1>1. N \in Nat /\ \A k \in 1 .. N : AlignOf[F[k].type] \in Aligns
  BY DEF AllSized
<1>2. Aligns \subseteq Nat \ {0} /\ 1 \in Aligns
  BY AlignsFacts
<1>3. /\ step \in [Aligns \X (1 .. N) -> Aligns]
      /\ \A x \in Aligns, k \in 1 .. N :
           step[<<x, k>>] = IF AlignOf[F[k].type] > x THEN AlignOf[F[k].type] ELSE x
  BY <1>1
<1>4. PICK g \in [0 .. N -> Aligns] :
        \A n \in 0 .. N : g[n] = IF n = 0 THEN 1 ELSE step[<<g[n - 1], n>>]
  <2>1. N \in Nat /\ 1 \in Aligns
    BY <1>1, <1>2
  <2>2. step \in [Aligns \X (1 .. N) -> Aligns]
    BY <1>3
  <2> HIDE DEF step, N
  <2>3. Recursive(N, Aligns, 1, step) # {}
    BY <2>1, <2>2, Recursion
  <2> QED
    BY <2>3 DEF Recursive
<1>5. g = [k \in 0 .. N |->
             IF k = 0 THEN 1
             ELSE IF AlignOf[F[k].type] > g[k - 1] THEN AlignOf[F[k].type] ELSE g[k - 1]]
  <2> HIDE DEF step
  <2>1. \A k \in 0 .. N : k # 0 => k \in 1 .. N /\ g[k - 1] \in Aligns
    BY <1>4
  <2>2. \A k \in 0 .. N :
          g[k] = IF k = 0 THEN 1
                 ELSE IF AlignOf[F[k].type] > g[k - 1] THEN AlignOf[F[k].type] ELSE g[k - 1]
    BY <1>3, <1>4, <2>1
  <2> QED
    BY <2>2
<1>6. max = [k \in 0 .. N |->
               IF k = 0 THEN 1
               ELSE IF AlignOf[F[k].type] > max[k - 1] THEN AlignOf[F[k].type]
                    ELSE max[k - 1]]
  BY <1>5 DEF Strictest
<1>7. /\ max[0] = 1
      /\ \A k \in 1 .. N :
           max[k] = IF AlignOf[F[k].type] > max[k - 1] THEN AlignOf[F[k].type]
                    ELSE max[k - 1]
  BY <1>1, <1>6
<1> HIDE DEF step
<1> DEFINE T == {m \in 0 .. N : /\ max[m] \in Aligns
                                /\ \A k \in 1 .. m : AlignOf[F[k].type] <= max[m]}
<1>8. 0 \in T
  BY <1>1, <1>2, <1>7
<1>9. ASSUME NEW m \in 1 .. N, m - 1 \in T  PROVE m \in T
  <2>1. \A k \in 1 .. m : (k = m \/ k \in 1 .. m - 1) /\ AlignOf[F[k].type] \in Nat
    <3>1. \A k \in 1 .. m : (k = m \/ k \in 1 .. m - 1) /\ k \in 1 .. N
      BY <1>1
    <3> QED
      BY <1>1, <1>2, <3>1, Zenon
  <2>2. max[m - 1] \in Aligns /\ max[m - 1] \in Nat /\ m \in 0 .. N
    <3>1. max[m - 1] \in Aligns
      BY <1>9
    <3>2. \A x \in Aligns : x \in Nat
      BY <1>2
    <3>3. m \in 0 .. N
      BY <1>1
    <3> QED
      BY <3>1, <3>2, <3>3, Zenon
  <2>3. max[m] \in Aligns /\ max[m] \in Nat /\ max[m - 1] <= max[m]
        /\ AlignOf[F[m].type] <= max[m]
    BY <1>1, <1>2, <1>7, <2>1, <2>2
  <2>4. \A k \in 1 .. m - 1 : AlignOf[F[k].type] <= max[m - 1]
    BY <1>9
  <2> QED
    BY <2>1, <2>2, <2>3, <2>4
<1>10. N \in T
  <2> HIDE DEF T
  <2>1. \A m \in 1 .. N : m - 1 \in T => m \in T
    BY <1>9, Zenon
  <2>2. \A m \in 0 .. N : m \in T
    BY <1>1, <1>8, <2>1, UpTo, Zenon
  <2> QED
    BY <1>1, <2>2
<1> QED
  BY <1>1, <1>10, StricterIsMultiple


(* What the loop of KTL_TypeBlockFinish computes when no field stops it.   *)
LEMMA LayoutFacts ==
  ASSUME Measured(data), NEW F, FieldsOK(F), NEW L, L = Layout(F), L.laid = Len(F)
  PROVE  /\ AllSized(F)
         /\ L.align \in Aligns /\ L.size \in Nat /\ L.size % L.align = 0
         /\ \A k \in 1 .. Len(F) :
              /\ L.offset[k] \in Nat
              /\ L.offset[k] % AlignOf[F[k].type] = 0
              /\ L.align % AlignOf[F[k].type] = 0
              /\ L.offset[k] + SizeOf[F[k].type] <= L.size
              /\ k > 1 => L.offset[k - 1] + SizeOf[F[k - 1].type] <= L.offset[k]
<1> DEFINE N == Len(F)
<1>1. N \in Nat /\ \A k \in 1 .. N : F[k].type \in 1 .. Len(data)
  BY SequenceFacts DEF FieldsOK, Ids
<1>2. AllSized(F)
  <2>1. Laid(F) = N
    BY DEF Layout
  <2>2. \A k \in 1 .. N : SizeOf[F[k].type] > 0 /\ AlignOf[F[k].type] > 0
    BY <1>1, <2>1, LaidFacts DEF Sized
  <2>3. PICK s : s = SizesOf(data)
    OBVIOUS
  <2>4. PICK a : a = AlignsOf(data)
    OBVIOUS
  <2>5. s = SizeOf /\ a = AlignOf
    BY <2>3, <2>4 DEF SizesOf, AlignsOf, SizeOf, AlignOf, Ids
  <2>6. \A i \in 1 .. Len(data) : s[i] \in Int
    BY <2>3, SizesFacts
  <2>7. \A i \in 1 .. Len(data) : a[i] \in Aligns \cup {-1}
    BY <2>4, AlignsOfFacts
  <2>8. ASSUME NEW k \in 1 .. N
        PROVE  SizeOf[F[k].type] \in Nat \ {0} /\ AlignOf[F[k].type] \in Aligns
    <3>1. PICK x : x = SizeOf[F[k].type]
      OBVIOUS
    <3>2. PICK y : y = AlignOf[F[k].type]
      OBVIOUS
    <3>3. x \in Int /\ x > 0 /\ y \in Aligns \cup {-1} /\ y > 0
      BY <1>1, <2>2, <2>5, <2>6, <2>7, <3>1, <3>2
    <3> QED
      BY <3>1, <3>2, <3>3
  <2> QED
    BY <1>1, <2>8 DEF AllSized
<1>3. PICK end : end = End(F)
  OBVIOUS
<1>4. PICK max : max = Strictest(F)
  OBVIOUS
<1>5. /\ L.offset = [k \in 1 .. N |-> AlignUp(end[k - 1], AlignOf[F[k].type])]
      /\ L.size = AlignUp(end[N], max[N]) /\ L.align = max[N]
  <2>1. L.laid = Laid(F) /\ Laid(F) = N
    BY DEF Layout
  <2> QED
    BY <1>3, <1>4, <2>1 DEF Layout
<1>6. /\ end \in [0 .. N -> Nat]
      /\ \A k \in 1 .. N :
           end[k] = AlignUp(end[k - 1], AlignOf[F[k].type]) + SizeOf[F[k].type]
      /\ \A k \in 0 .. N : end[k] <= end[N]
  BY <1>2, <1>3, EndFacts
<1>7. max[N] \in Aligns /\ \A k \in 1 .. N : max[N] % AlignOf[F[k].type] = 0
  BY <1>2, <1>4, StrictestFacts
<1>8. L.align \in Aligns /\ L.size \in Nat /\ L.size % L.align = 0 /\ end[N] <= L.size
  <2>1. N \in 0 .. N
    BY <1>1
  <2>2. end[N] \in Nat
    BY <1>6, <2>1
  <2>3. max[N] \in Nat \ {0}
    BY <1>7, AlignsPositive, Zenon
  <2>4. PICK u : u = AlignUp(end[N], max[N])
    OBVIOUS
  <2>5. u \in Nat /\ u % max[N] = 0 /\ end[N] <= u
    BY <2>2, <2>3, <2>4, AlignUpFacts
  <2> QED
    BY <1>5, <1>7, <2>4, <2>5
<1>9. ASSUME NEW k \in 1 .. N
      PROVE  /\ L.offset[k] \in Nat /\ end[k - 1] <= L.offset[k]
             /\ L.offset[k] % AlignOf[F[k].type] = 0
             /\ L.offset[k] + SizeOf[F[k].type] = end[k]
  <2>1. k - 1 \in 0 .. N
    BY <1>1
  <2>2. end[k - 1] \in Nat /\ AlignOf[F[k].type] \in Nat \ {0}
    BY <1>2, <1>6, <2>1, AlignsFacts DEF AllSized
  <2>3. PICK u : u = AlignUp(end[k - 1], AlignOf[F[k].type])
    OBVIOUS
  <2>4. u \in Nat /\ u % AlignOf[F[k].type] = 0 /\ end[k - 1] <= u
    BY <2>2, <2>3, AlignUpFacts
  <2>5. L.offset[k] = u /\ end[k] = u + SizeOf[F[k].type]
    BY <1>5, <1>6, <2>3
  <2> QED
    BY <2>4, <2>5
<1>10. ASSUME NEW k \in 1 .. N
       PROVE  /\ L.offset[k] + SizeOf[F[k].type] <= L.size
              /\ k > 1 => L.offset[k - 1] + SizeOf[F[k - 1].type] <= L.offset[k]
  <2>1. k \in 0 .. N /\ (k > 1 => k - 1 \in 1 .. N)
    BY <1>1
  <2>2. end[k] \in Nat /\ end[N] \in Nat /\ end[k] <= end[N]
    <3>1. N \in 0 .. N
      BY <1>1
    <3> QED
      BY <1>6, <2>1, <3>1
  <2>3. L.offset[k] + SizeOf[F[k].type] <= L.size
    BY <1>8, <1>9, <2>2
  <2>4. k > 1 => L.offset[k - 1] + SizeOf[F[k - 1].type] = end[k - 1]
    BY <1>9, <2>1
  <2>5. end[k - 1] <= L.offset[k]
    BY <1>9
  <2> QED
    BY <2>3, <2>4, <2>5
<1> QED
  BY <1>2, <1>5, <1>7, <1>8, <1>9, <1>10

-----------------------------------------------------------------------------
(* CompleteIsLaidOut of one block, whatever the sizes and alignments.      *)
LaidOut(b, size, align) ==
  /\ Len(b.fields) > 0
  /\ b.size % b.align = 0
  /\ \A k \in 1 .. Len(b.fields) :
       /\ size[b.fields[k].type] > 0 /\ align[b.fields[k].type] > 0
       /\ b.fields[k].offset % align[b.fields[k].type] = 0
       /\ b.align % align[b.fields[k].type] = 0
       /\ b.fields[k].offset + size[b.fields[k].type] <= b.size
       /\ k > 1 => b.fields[k - 1].offset + size[b.fields[k - 1].type]
                     <= b.fields[k].offset

LEMMA LaidOutIsComplete ==
  CompleteIsLaidOut <=>
    \A id \in Ids : IsBlock(id) /\ data[id].complete =>
      LaidOut(data[id], SizeOf, AlignOf)
BY DEF CompleteIsLaidOut, LaidOut

(* The block that BlockFinish completes.                                   *)
LEMMA FinishedLaidOut ==
  ASSUME TypeInv, Measured(data), open # BAD,
         data[open].fields # <<>>, Layout(data[open].fields).laid = Len(data[open].fields)
  PROVE  LET b == Finished(data[open])
         IN  /\ b.complete = TRUE /\ b.kind = "block"
             /\ b.size \in Nat /\ b.align \in Aligns
             /\ Len(b.fields) = Len(data[open].fields)
             /\ \A k \in 1 .. Len(b.fields) : b.fields[k].type \in Ids
             /\ LaidOut(b, SizeOf, AlignOf)
<1> DEFINE F == data[open].fields
<1>1. open \in Ids /\ FieldsOK(F)
  BY DEF TypeInv, EntryOK, IsBlock, Base, Pointer, Array
<1>2. PICK L : L = Layout(F)
  OBVIOUS
<1>3. PICK b : b = Finished(data[open])
  OBVIOUS
<1>4. PICK G : G = Placed(F, L)
  OBVIOUS
<1>5. L.laid = Len(F)
  BY <1>2
<1>6. b = BlockOf(data[open].name, G, data[open].cap, L.size, L.align, TRUE)
  BY <1>2, <1>3, <1>4, <1>5 DEF Finished
<1>7. /\ b.complete = TRUE /\ b.kind = "block" /\ b.fields = G
      /\ b.size = L.size /\ b.align = L.align
  BY <1>6 DEF BlockOf
<1>8. Len(F) \in Nat /\ Len(F) > 0
  <2>1. Len(F) \in Nat /\ DOMAIN F = 1 .. Len(F)
    BY <1>1, SequenceFacts DEF FieldsOK
  <2>2. Len(F) # 0
    <3> SUFFICES ASSUME Len(F) = 0 PROVE F = <<>>
      OBVIOUS
    <3>1. F \in Seq({F[i] : i \in DOMAIN F})
      BY <1>1 DEF FieldsOK, IsSequence
    <3> HIDE DEF F
    <3> QED
      BY <3>1
  <2> QED
    BY <2>1, <2>2
<1>9. /\ AllSized(F)
      /\ L.align \in Aligns /\ L.size \in Nat /\ L.size % L.align = 0
      /\ \A k \in 1 .. Len(F) :
           /\ L.offset[k] \in Nat
           /\ L.offset[k] % AlignOf[F[k].type] = 0
           /\ L.align % AlignOf[F[k].type] = 0
           /\ L.offset[k] + SizeOf[F[k].type] <= L.size
           /\ k > 1 => L.offset[k - 1] + SizeOf[F[k - 1].type] <= L.offset[k]
  BY <1>1, <1>2, <1>5, LayoutFacts
<1>10. /\ Len(G) = Len(F)
       /\ \A k \in 1 .. Len(F) : G[k] = Field(F[k].type, F[k].name, L.offset[k])
  <2>1. G = [k \in 1 .. Len(F) |->
               IF k <= L.laid THEN Field(F[k].type, F[k].name, L.offset[k]) ELSE F[k]]
    BY <1>4 DEF Placed
  <2>2. \A k \in 1 .. Len(F) : k <= L.laid
    BY <1>5, <1>8
  <2>3. \A k \in 1 .. Len(F) : G[k] = Field(F[k].type, F[k].name, L.offset[k])
    BY <2>1, <2>2
  <2>4. G \in [1 .. Len(F) -> {G[i] : i \in 1 .. Len(F)}]
    BY <2>1
  <2>5. Len(G) = Len(F)
    BY <1>8, <2>4, FunctionIsSequence
  <2> QED
    BY <2>3, <2>5
<1>11. \A k \in 1 .. Len(F) : G[k].type = F[k].type /\ G[k].offset = L.offset[k]
  <2> TAKE k \in 1 .. Len(F)
  <2>1. G[k] = Field(F[k].type, F[k].name, L.offset[k])
    BY <1>10
  <2> HIDE DEF F
  <2> QED
    BY <2>1 DEF Field
<1>12. \A k \in 1 .. Len(F) : G[k].type \in Ids
  BY <1>1, <1>11 DEF FieldsOK
<1>13. LaidOut(b, SizeOf, AlignOf)
  <2>1. ASSUME NEW k \in 1 .. Len(F)
        PROVE  /\ SizeOf[G[k].type] > 0 /\ AlignOf[G[k].type] > 0
               /\ G[k].offset % AlignOf[G[k].type] = 0
               /\ L.align % AlignOf[G[k].type] = 0
               /\ G[k].offset + SizeOf[G[k].type] <= L.size
               /\ k > 1 => G[k - 1].offset + SizeOf[G[k - 1].type] <= G[k].offset
    <3>1. SizeOf[F[k].type] \in Nat \ {0} /\ AlignOf[F[k].type] \in Aligns
      BY <1>9 DEF AllSized
    <3>3. SizeOf[F[k].type] > 0 /\ AlignOf[F[k].type] > 0
      BY <3>1, AlignsPositive
    <3>2. k > 1 => k - 1 \in 1 .. Len(F)
      BY <1>8
    <3> HIDE DEF F
    <3> QED
      BY <1>9, <1>11, <3>2, <3>3
  <2> QED
    BY <1>7, <1>8, <1>9, <1>10, <2>1 DEF LaidOut
<1> QED
  BY <1>3, <1>7, <1>9, <1>10, <1>12, <1>13


-----------------------------------------------------------------------------
(* A step, seen from the sizes: nothing, a new entry that is not a         *)
(* complete block, or the open block written, incomplete or laid out.      *)
EntryStarted == \E e : /\ AddEntry(e) /\ MeasuredEntry(Len(data) + 1, e)
                       /\ ~(e.kind = "block" /\ e.complete)

OpenStays == OpenWritten /\ data'[open].complete = FALSE

OpenFinished ==
  /\ OpenWritten
  /\ data'[open].size \in Nat /\ data'[open].align \in Aligns
  /\ data'[open].complete = TRUE
  /\ \A k \in 1 .. Len(data'[open].fields) : data'[open].fields[k].type \in Ids
  /\ LaidOut(data'[open], SizeOf, AlignOf)

LEMMA StepsOfSizes ==
  ASSUME TypeInv, Measured(data), [Next]_vars
  PROVE  data' = data \/ EntryStarted \/ OpenStays \/ OpenFinished
<1>0. Len(data) \in Nat
  BY DEF Measured
<1>1. ASSUME NEW id \in Ids, NEW n \in Names, AddDefine(id, n)  PROVE data' = data
  BY <1>1 DEF AddDefine
<1>2. ASSUME NEW id \in Ids, AddPointer(id)  PROVE EntryStarted
  <2>1. MeasuredEntry(Len(data) + 1, Pointer(id)) /\ Pointer(id).kind = "ptr"
    BY DEF MeasuredEntry, Pointer
  <2> QED
    BY <1>2, <2>1 DEF AddPointer, EntryStarted
<1>3. ASSUME NEW id \in Ids, NEW cnt \in Counts, AddArray(id, cnt)  PROVE EntryStarted
  <2>1. cnt \in Nat \ {0} /\ id \in 1 .. (Len(data) + 1) - 1
    BY <1>0, SizesAssumption DEF Ids
  <2>2. MeasuredEntry(Len(data) + 1, Array(id, cnt)) /\ Array(id, cnt).kind = "array"
    BY <2>1 DEF MeasuredEntry, Array
  <2> QED
    BY <1>3, <2>2 DEF AddArray, EntryStarted
<1>4. ASSUME NEW n \in Names, AddBlock(n)  PROVE EntryStarted
  <2>1. MeasuredEntry(Len(data) + 1, Block(n)) /\ ~Block(n).complete
    BY DEF MeasuredEntry, Block, BlockOf
  <2> QED
    BY <1>4, <2>1 DEF AddBlock, EntryStarted
<1>5. ASSUME NEW id \in Ids, NEW n \in FieldNames, BlockAddField(id, n)  PROVE OpenStays
  <2>1. OpenWritten
    BY <1>5, AddFieldWrites
  <2>2. PICK F, cap :
          /\ open \in Ids
          /\ data' = [data EXCEPT ![open] =
                 BlockOf(data[open].name, F, cap, data[open].size,
                         data[open].align, data[open].complete)]
          /\ data[open].complete \in BOOLEAN /\ ~data[open].complete
    BY <1>5, BlockAddFieldShape
  <2>3. data'[open] = BlockOf(data[open].name, F, cap, data[open].size,
                              data[open].align, data[open].complete)
    BY <2>2, BlockWritten
  <2>4. data'[open].complete = data[open].complete
    BY <2>3 DEF BlockOf
  <2>5. data'[open].complete = FALSE
    BY <2>2, <2>4
  <2> QED
    BY <2>1, <2>5 DEF OpenStays
<1>6. CASE BlockFinish
  <2>1. OpenWritten /\ open # BAD /\ open \in Ids
    BY <1>6, FinishWrites DEF OpenWritten, BlockFinish
  <2>2. CASE data[open].fields = <<>>
    BY <1>6, <2>2 DEF BlockFinish
  <2>3. CASE data[open].fields # <<>>
    <3>1. data' = [data EXCEPT ![open] = Finished(data[open])]
      BY <1>6, <2>3 DEF BlockFinish
    <3>2. data'[open] = Finished(data[open])
      BY <2>1, <3>1, BlockWritten
    <3>3. CASE Layout(data[open].fields).laid = Len(data[open].fields)
      BY <2>1, <2>3, <3>2, <3>3, FinishedLaidOut DEF OpenFinished
    <3>4. CASE Layout(data[open].fields).laid # Len(data[open].fields)
      <4>1. Finished(data[open]).complete = data[open].complete
        BY <3>4 DEF Finished, BlockOf
      <4>2. data[open].complete = FALSE
        <5>1. EntryOK(open) /\ IsBlock(open) /\ ~data[open].complete
          BY <2>1 DEF TypeInv
        <5> QED
          BY <5>1 DEF EntryOK, IsBlock
      <4> QED
        BY <2>1, <3>2, <4>1, <4>2 DEF OpenStays
    <3> QED
      BY <3>3, <3>4
  <2> QED
    BY <2>2, <2>3
<1>7. CASE Abandon \/ UNCHANGED vars
  BY <1>7 DEF Abandon, vars
<1> QED
  BY <1>1, <1>2, <1>3, <1>4, <1>5, <1>6, <1>7 DEF Next

LEMMA MeasuredStep ==
  ASSUME TypeInv, Measured(data), [Next]_vars
  PROVE  Measured(data')
<1>1. Len(data) \in Nat /\ \A i \in 1 .. Len(data) : MeasuredEntry(i, data[i])
  BY DEF Measured
<1>2. CASE data' = data
  BY <1>2
<1>3. CASE EntryStarted
  <2>1. PICK e : AddEntry(e) /\ MeasuredEntry(Len(data) + 1, e)
    BY <1>3 DEF EntryStarted
  <2>2. /\ Len(data') = Len(data) + 1 /\ data'[Len(data) + 1] = e
        /\ \A i \in Ids : data'[i] = data[i]
    BY <2>1, EntryAdded
  <2>3. \A i \in 1 .. Len(data) + 1 : i = Len(data) + 1 \/ i \in 1 .. Len(data)
    BY <1>1
  <2>4. \A i \in 1 .. Len(data) + 1 : MeasuredEntry(i, data'[i])
    BY <1>1, <2>1, <2>2, <2>3 DEF Ids
  <2> QED
    BY <1>1, <2>2, <2>4 DEF Measured
<1>4. CASE OpenStays \/ OpenFinished
  <2>1. /\ Len(data') = Len(data) /\ open \in Ids
        /\ \A i \in Ids : i # open => data'[i] = data[i]
        /\ data'[open].kind = "block"
    BY <1>4 DEF OpenStays, OpenFinished, OpenWritten
  <2>2. MeasuredEntry(open, data'[open])
    BY <1>4, <2>1 DEF MeasuredEntry, OpenStays, OpenFinished
  <2>3. \A i \in 1 .. Len(data) : MeasuredEntry(i, data'[i])
    BY <1>1, <2>1, <2>2 DEF Ids
  <2> QED
    BY <1>1, <2>1, <2>3 DEF Measured
<1> QED
  BY <1>2, <1>3, <1>4, StepsOfSizes

LEMMA MeasuredInit == Init => Measured(data) /\ \A id \in Ids : ~IsBlock(id)
<1> SUFFICES ASSUME Init PROVE Measured(data) /\ \A id \in Ids : ~IsBlock(id)
  OBVIOUS
<1> DEFINE n == Len(Standard)
<1>1. n \in Nat /\ \A i \in 1 .. n : Standard[i].size \in Nat
  <2>1. Standard \in Seq([name : Names, size : Nat, align : Nat \ {0}])
    BY StandardAssumption
  <2>2. ASSUME NEW i \in 1 .. n
        PROVE  Standard[i] \in [name : Names, size : Nat, align : Nat \ {0}]
    BY <2>1, ElementOf
  <2> QED
    BY <2>1, <2>2
<1>2. data = [i \in 1 .. n |-> Base(Standard[i].name, Standard[i].size, Standard[i].align)]
  BY DEF Init
<1>3. Len(data) = n
  <2>1. data \in [1 .. n -> {data[i] : i \in 1 .. n}]
    BY <1>2
  <2> QED
    BY <1>1, <2>1, FunctionIsSequence
<1>4. ASSUME NEW i \in 1 .. n  PROVE MeasuredEntry(i, data[i]) /\ data[i].kind # "block"
  <2>1. data[i] = Base(Standard[i].name, Standard[i].size, Standard[i].align)
    BY <1>2
  <2>2. data[i].kind = "base" /\ data[i].size = Standard[i].size
        /\ data[i].align = Standard[i].align
    BY <2>1 DEF Base
  <2> QED
    BY <1>1, <2>2, AlignsFacts DEF MeasuredEntry
<1> QED
  BY <1>1, <1>3, <1>4 DEF Measured, Ids, IsBlock

(* A block laid out stays so when the sizes of its fields' types stay.     *)
LEMMA LaidOutKept ==
  ASSUME NEW b, NEW s, NEW a, NEW t, NEW c, LaidOut(b, s, a),
         \A k \in 1 .. Len(b.fields) : /\ t[b.fields[k].type] = s[b.fields[k].type]
                                       /\ c[b.fields[k].type] = a[b.fields[k].type],
         Len(b.fields) \in Nat
  PROVE  LaidOut(b, t, c)
<1>1. \A k \in 1 .. Len(b.fields) : k > 1 => k - 1 \in 1 .. Len(b.fields)
  OBVIOUS
<1> QED
  BY <1>1, SMTT(30) DEF LaidOut

LEMMA LaidOutStep ==
  ASSUME TypeInv, Measured(data), CompleteIsLaidOut, [Next]_vars
  PROVE  CompleteIsLaidOut'
<1>1. PICK s : s = SizeOf
  OBVIOUS
<1>2. PICK a : a = AlignOf
  OBVIOUS
<1>3. PICK t : t = SizeOf'
  OBVIOUS
<1>4. PICK c : c = AlignOf'
  OBVIOUS
<1>5. s = SizesOf(data) /\ a = AlignsOf(data) /\ t = SizesOf(data') /\ c = AlignsOf(data')
  BY <1>1, <1>2, <1>3, <1>4 DEF SizeOf, AlignOf, SizesOf, AlignsOf, Ids
<1>6. Measured(data') /\ TypeInv'
  BY MeasuredStep, TypeStep
<1>7. Len(data) <= Len(data') /\ Len(data) \in Nat
  <2>1. CASE data' = data
    BY <2>1 DEF Measured
  <2>2. CASE EntryStarted
    BY <2>2, EntryAdded DEF EntryStarted
  <2>3. CASE OpenStays \/ OpenFinished
    BY <2>3 DEF OpenStays, OpenFinished, OpenWritten, Measured
  <2> QED
    BY <2>1, <2>2, <2>3, StepsOfSizes
<1>8. \A i \in Ids : ~(data[i].kind = "block" /\ ~data[i].complete) => data'[i] = data[i]
  BY FrozenStep DEF IsBlock
<1>9. \A i \in Ids : (s[i] > 0 => t[i] = s[i]) /\ (a[i] > 0 => c[i] = a[i])
  BY <1>5, <1>6, <1>7, <1>8, SizesKept DEF Ids
<1>10. ASSUME NEW b, LaidOut(b, s, a), Len(b.fields) \in Nat,
              \A k \in 1 .. Len(b.fields) : b.fields[k].type \in Ids
       PROVE  LaidOut(b, t, c)
  <2>1. \A k \in 1 .. Len(b.fields) : /\ t[b.fields[k].type] = s[b.fields[k].type]
                                      /\ c[b.fields[k].type] = a[b.fields[k].type]
    BY <1>9, <1>10 DEF LaidOut
  <2> QED
    BY <1>10, <2>1, LaidOutKept
<1>11. ASSUME NEW id \in Ids', IsBlock(id)', data'[id].complete
       PROVE  LaidOut(data'[id], t, c)
  <2>1. /\ Len(data'[id].fields) \in Nat
        /\ \A k \in 1 .. Len(data'[id].fields) : data'[id].fields[k].type \in Ids'
    <3>1. FieldsOK(data[id].fields)'
      BY <1>6, <1>11 DEF TypeInv, EntryOK, IsBlock, Base, Pointer, Array
    <3> QED
      BY <3>1, SequenceFacts DEF FieldsOK
  <2>2. CASE id \in Ids /\ IsBlock(id) /\ data[id].complete
    <3>1. data'[id] = data[id]
      BY <1>8, <2>2
    <3>2. LaidOut(data[id], s, a)
      BY <1>1, <1>2, <2>2, LaidOutIsComplete
    <3>3. FieldsOK(data[id].fields)
      BY <2>2 DEF TypeInv, EntryOK, IsBlock, Base, Pointer, Array
    <3>4. \A k \in 1 .. Len(data[id].fields) : data[id].fields[k].type \in Ids
      BY <3>3 DEF FieldsOK
    <3> QED
      BY <1>10, <2>1, <3>1, <3>2, <3>4
  <2>3. CASE ~(id \in Ids /\ IsBlock(id) /\ data[id].complete)
    <3>1. CASE data' = data
      BY <1>11, <2>3, <3>1 DEF Ids, IsBlock
    <3>2. CASE EntryStarted
      <4>1. PICK e : AddEntry(e) /\ ~(e.kind = "block" /\ e.complete)
        BY <3>2 DEF EntryStarted
      <4>2. /\ Ids' = Ids \cup {Len(data) + 1} /\ data'[Len(data) + 1] = e
            /\ \A i \in Ids : data'[i] = data[i]
        BY <4>1, EntryAdded
      <4> QED
        BY <1>11, <2>3, <4>1, <4>2 DEF IsBlock
    <3>3. CASE OpenStays
      BY <1>11, <2>3, <3>3 DEF OpenStays, OpenWritten, IsBlock
    <3>4. CASE OpenFinished
      <4>1. id = open
        BY <1>11, <2>3, <3>4 DEF OpenFinished, OpenWritten, IsBlock
      <4>2. /\ LaidOut(data'[id], s, a)
            /\ \A k \in 1 .. Len(data'[id].fields) : data'[id].fields[k].type \in Ids
        BY <1>1, <1>2, <3>4, <4>1 DEF OpenFinished
      <4> QED
        BY <1>10, <2>1, <4>2
    <3> QED
      BY <3>1, <3>2, <3>3, <3>4, StepsOfSizes
  <2> QED
    BY <2>2, <2>3
<1>12. \A id \in Ids' : IsBlock(id)' /\ data'[id].complete => LaidOut(data'[id], SizeOf', AlignOf')
  BY <1>3, <1>4, <1>11
<1> QED
  BY <1>12 DEF CompleteIsLaidOut, LaidOut

(* A block declaration is complete only with every field laid out: each    *)
(* of its fields has a size, sits at a multiple of its alignment behind    *)
(* the one before, and lies inside the block; and no type registered later *)
(* changes that.  Every stage that asks KTL_TypeMap for an offset or a     *)
(* size relies on it.                                                      *)
THEOREM CompleteIsLaidOutCorrect == Spec => []CompleteIsLaidOut
<1> DEFINE Inv == TypeInv /\ Measured(data) /\ CompleteIsLaidOut
<1>1. Init => Inv
  BY InitInv, MeasuredInit DEF CompleteIsLaidOut
<1>2. Inv /\ [Next]_vars => Inv'
  <2> SUFFICES ASSUME Inv, [Next]_vars PROVE Inv'
    OBVIOUS
  <2>1. TypeInv'
    BY TypeStep
  <2>2. Measured(data')
    BY MeasuredStep
  <2>3. CompleteIsLaidOut'
    BY LaidOutStep
  <2>4. Measured(data)'
    BY <2>2 DEF Measured, MeasuredEntry
  <2> QED
    BY <2>1, <2>3, <2>4
<1> HIDE DEF Inv
<1>3. Inv => CompleteIsLaidOut
  BY DEF Inv
<1> QED
  BY <1>1, <1>2, <1>3, PTL DEF Spec
=============================================================================
