------------------------------ MODULE TypeMap ------------------------------
(***************************************************************************)
(* The compiler's type registry (Structs/TypeMap/TypeMap.cpp), driven the  *)
(* way the parser drives it: types are created while ktl_parse_type reads  *)
(* a type, a typedef adds an alias, and a block declaration adds the block *)
(* first, its fields one by one, and is laid out when its "}" is read.     *)
(*                                                                         *)
(* A type id is an index of data (1-based here, 0-based in the code, so    *)
(* that KTL_BAD_TYPE_ID is 0).  A call that is refused returns BAD and     *)
(* changes nothing: it is a stuttering step.                               *)
(***************************************************************************)
EXTENDS Integers, Sequences

CONSTANTS
  Names,          \* interned names (KTL_StrID) a program can use for types
  Counts,         \* array lengths a program can write; the parser wants > 0
  FieldNames,     \* names of fields
  Standard,       \* KTL_STANDARD_TYPES: a sequence of [name, size, align]
  StandardAlias,  \* KTL_STANDARD_ALIAS: a sequence of [name, target]
  PtrSize,        \* KTL_SYSTEM_PTR_SIZE
  MapInit, MapGrow, AliasInit, FieldGrow,   \* capacities and growth steps
  MaxTypes, MaxAliases, MaxFields           \* bounds of the model only

ASSUME SizesAssumption ==
  /\ Counts \subseteq Nat \ {0}
  /\ PtrSize \in Nat \ {0}
  /\ MapInit \in Nat \ {0} /\ MapGrow \in Nat \ {0}
  /\ AliasInit \in Nat \ {0} /\ FieldGrow \in Nat \ {0}
  /\ MaxTypes \in Nat /\ MaxAliases \in Nat /\ MaxFields \in Nat

ASSUME StandardAssumption ==
  /\ Standard \in Seq([name : Names, size : Nat, align : Nat \ {0}])
  /\ StandardAlias \in Seq([name : Names, target : 1 .. Len(Standard)])
  /\ Len(Standard) <= MapInit /\ Len(StandardAlias) <= AliasInit
  /\ \A i, j \in 1 .. Len(Standard) :
       Standard[i].name = Standard[j].name => i = j
  /\ \A i, j \in 1 .. Len(StandardAlias) :
       StandardAlias[i].name = StandardAlias[j].name => i = j
  /\ \A i \in 1 .. Len(Standard), j \in 1 .. Len(StandardAlias) :
       Standard[i].name # StandardAlias[j].name

(* Of two alignments (1, 2, 4 and 8 in StdType.h) the stricter is a        *)
(* multiple of the other; that of a block is the strictest of its fields'. *)
Aligns == {Standard[i].align : i \in 1 .. Len(Standard)} \cup {PtrSize, 1}

ASSUME AlignsAssumption == \A a, b \in Aligns : a % b = 0 \/ b % a = 0

VARIABLES
  data,            \* map->data: the entries, in order of creation
  capacity,        \* map->capacity: entries the allocation holds
  aliases,         \* map->aliases
  alias_capacity,  \* map->alias_capacity
  open             \* block id between its "{" and "}" in the parser, or BAD

vars == <<data, capacity, aliases, alias_capacity, open>>

BAD == 0   \* KTL_BAD_TYPE_ID

Ids == 1 .. Len(data)   \* TypeIDCheck(map, id)

Base(n, s, a)  == [kind |-> "base", name |-> n, size |-> s, align |-> a]
Pointer(id)    == [kind |-> "ptr", prev |-> id]
Array(id, cnt) == [kind |-> "array", elem |-> id, count |-> cnt]
BlockOf(n, F, cap, s, a, c) ==
  [kind |-> "block", name |-> n, fields |-> F, cap |-> cap,
   size |-> s, align |-> a, complete |-> c]
Block(n) == BlockOf(n, <<>>, 0, 0, 0, FALSE)
Field(id, n, offset) == [type |-> id, name |-> n, offset |-> offset]

IsBlock(id) == data[id].kind = "block"

-----------------------------------------------------------------------------
(* Lookup: named entries first, then aliases; the first match wins.        *)

Named(id, n) == data[id].kind \in {"base", "block"} /\ data[id].name = n

First(S) == IF S = {} THEN BAD ELSE CHOOSE i \in S : \A j \in S : i <= j

FindMain(n) == First({id \in Ids : Named(id, n)})

FindAlias(n) ==
  LET at == First({i \in 1 .. Len(aliases) : aliases[i].name = n})
  IN  IF at = BAD THEN BAD ELSE aliases[at].target

FindByName(n) == IF FindMain(n) # BAD THEN FindMain(n) ELSE FindAlias(n)

(* Broken forms of Unused: only one of the two lists is searched.          *)
UnusedAsType(n)  == \A id \in Ids : ~Named(id, n)
UnusedAsAlias(n) == \A i \in 1 .. Len(aliases) : aliases[i].name # n

(* Neither ktl_find_in_main nor ktl_find_in_aliases finds the name.        *)
Unused(n) ==
  /\ \A id \in Ids : ~Named(id, n)
  /\ \A i \in 1 .. Len(aliases) : aliases[i].name # n

-----------------------------------------------------------------------------
(* Size and alignment of every type; -1 where the code has no size yet.    *)
(* An array's element has a smaller id, so the recursion is well founded.  *)

SizeOf ==
  LET size[id \in Ids] ==
        LET e == data[id] IN
        CASE e.kind = "base"  -> e.size
          [] e.kind = "ptr"   -> PtrSize
          [] e.kind = "array" -> IF size[e.elem] <= 0 THEN -1
                                 ELSE e.count * size[e.elem]
          [] e.kind = "block" -> IF e.complete THEN e.size ELSE -1
  IN  size

AlignOf ==
  LET align[id \in Ids] ==
        LET e == data[id] IN
        CASE e.kind = "base"  -> e.align
          [] e.kind = "ptr"   -> PtrSize
          [] e.kind = "array" -> align[e.elem]
          [] e.kind = "block" -> IF e.complete THEN e.align ELSE -1
  IN  align

(* Broken form of AlignUp: rounds down.                                    *)
AlignDown(offset, align) == (offset \div align) * align

AlignUp(offset, align) == ((offset + align - 1) \div align) * align

(* The loop of KTL_TypeBlockFinish over the fields F: how many it places   *)
(* before one without a size stops it, where each of them ends, and the    *)
(* strictest alignment up to each of them.                                 *)
Sized(f) == SizeOf[f.type] > 0 /\ AlignOf[f.type] > 0

Laid(F) == CHOOSE n \in 0 .. Len(F) : /\ \A k \in 1 .. n : Sized(F[k])
                                      /\ n < Len(F) => ~Sized(F[n + 1])

End(F) ==
  LET end[k \in 0 .. Len(F)] ==
        IF k = 0 THEN 0
        ELSE AlignUp(end[k - 1], AlignOf[F[k].type]) + SizeOf[F[k].type]
  IN  end

Strictest(F) ==
  LET max[k \in 0 .. Len(F)] ==
        IF k = 0 THEN 1
        ELSE IF AlignOf[F[k].type] > max[k - 1] THEN AlignOf[F[k].type] ELSE max[k - 1]
  IN  max

(* The places of those fields, and the size and alignment of the block if  *)
(* all are placed.                                                         *)
Layout(F) ==
  LET laid == Laid(F)
      end  == End(F)
      max  == Strictest(F)
  IN  [ laid   |-> laid,
        offset |-> [k \in 1 .. laid |-> AlignUp(end[k - 1], AlignOf[F[k].type])],
        size   |-> IF laid = Len(F) THEN AlignUp(end[laid], max[laid]) ELSE 0,
        align  |-> IF laid = Len(F) THEN max[laid] ELSE 0 ]

-----------------------------------------------------------------------------
(* Growth: reallocate when the next entry would not fit.                   *)

(* Broken form of GrowData: grows one entry too late.                      *)
GrowDataLate ==
  capacity' = IF Len(data) > capacity THEN capacity + MapGrow ELSE capacity

GrowData ==
  capacity' = IF Len(data) = capacity THEN capacity + MapGrow ELSE capacity

GrowAliases ==
  alias_capacity' = IF Len(aliases) = alias_capacity
                    THEN alias_capacity * 2 ELSE alias_capacity

GrowFields(b) ==
  IF b.cap = Len(b.fields) THEN b.cap + FieldGrow ELSE b.cap

AddEntry(e) ==
  /\ Len(data) < MaxTypes
  /\ GrowData
  /\ data' = Append(data, e)
  /\ UNCHANGED <<aliases, alias_capacity>>

-----------------------------------------------------------------------------
(* KTL_TypeMapCreate, then ktl_register_standard_types.                    *)
Init ==
  /\ data = [i \in 1 .. Len(Standard) |->
               Base(Standard[i].name, Standard[i].size, Standard[i].align)]
  /\ capacity = MapInit
  /\ aliases = StandardAlias
  /\ alias_capacity = AliasInit
  /\ open = BAD

(* A typedef at top level: refused if the name is taken.                   *)
AddDefine(id, n) ==
  /\ open = BAD
  /\ Len(aliases) < MaxAliases
  /\ Unused(n)
  /\ GrowAliases
  /\ aliases' = Append(aliases, [name |-> n, target |-> id])
  /\ UNCHANGED <<data, capacity, open>>

(* Broken form of AddPointer: no search for an equal type.                 *)
AddPointerTwice(id) ==
  /\ AddEntry(Pointer(id))
  /\ UNCHANGED open

(* "*" after a type: an equal pointer type is found, not added again.      *)
AddPointer(id) ==
  /\ \A i \in Ids : data[i] # Pointer(id)
  /\ AddEntry(Pointer(id))
  /\ UNCHANGED open

(* "[" count "]" after a type, likewise.                                   *)
AddArray(id, cnt) ==
  /\ \A i \in Ids : data[i] # Array(id, cnt)
  /\ AddEntry(Array(id, cnt))
  /\ UNCHANGED open

(* Broken form of AddBlock: a name in use reopens its block.               *)
AddBlockAgain(n) ==
  /\ open = BAD
  /\ \/ Unused(n) /\ AddEntry(Block(n)) /\ open' = Len(data) + 1
     \/ /\ FindMain(n) # BAD /\ IsBlock(FindMain(n))
        /\ data' = [data EXCEPT ![FindMain(n)] = Block(n)]
        /\ open' = FindMain(n)
        /\ UNCHANGED <<capacity, aliases, alias_capacity>>

(* "block" name "{".                                                       *)
AddBlock(n) ==
  /\ open = BAD
  /\ Unused(n)
  /\ AddEntry(Block(n))
  /\ open' = Len(data) + 1

(* A field of the block being declared: refused for a complete block, and  *)
(* for a block that would be its own field.                                *)
BlockAddField(id, n) ==
  /\ open # BAD
  /\ IsBlock(open) /\ ~data[open].complete
  /\ id # open
  /\ Len(data[open].fields) < MaxFields
  /\ LET b == data[open]
     IN  data' = [data EXCEPT ![open] =
                    BlockOf(b.name, Append(b.fields, Field(id, n, 0)),
                            GrowFields(b), b.size, b.align, b.complete)]
  /\ UNCHANGED <<capacity, aliases, alias_capacity, open>>

(* The "}" of the block.  A field without a size stops the layout after    *)
(* the fields before it were placed; the parser drops the error.           *)
Placed(F, L) ==
  [k \in 1 .. Len(F) |->
     IF k <= L.laid THEN Field(F[k].type, F[k].name, L.offset[k]) ELSE F[k]]

Finished(b) ==
  LET F == b.fields
      L == Layout(F)
  IN  IF L.laid = Len(F)
      THEN BlockOf(b.name, Placed(F, L), b.cap, L.size, L.align, TRUE)
      ELSE BlockOf(b.name, Placed(F, L), b.cap, b.size, b.align, b.complete)

BlockFinish ==
  /\ open # BAD
  /\ data' = IF data[open].fields = <<>> THEN data
             ELSE [data EXCEPT ![open] = Finished(data[open])]
  /\ open' = BAD
  /\ UNCHANGED <<capacity, aliases, alias_capacity>>

(* A syntax error inside the block: ktl_parse_block_decl returns at once   *)
(* and the half-declared block stays in the map.                           *)
Abandon ==
  /\ open # BAD
  /\ open' = BAD
  /\ UNCHANGED <<data, capacity, aliases, alias_capacity>>

Next ==
  \/ \E id \in Ids, n \in Names : AddDefine(id, n)
  \/ \E id \in Ids : AddPointer(id)
  \/ \E id \in Ids, cnt \in Counts : AddArray(id, cnt)
  \/ \E n \in Names : AddBlock(n)
  \/ \E id \in Ids, n \in FieldNames : BlockAddField(id, n)
  \/ BlockFinish
  \/ Abandon

Spec == Init /\ [][Next]_vars

-----------------------------------------------------------------------------
IsSequence(s) == s \in Seq({s[i] : i \in DOMAIN s})

FieldsOK(F) ==
  /\ IsSequence(F)
  /\ \A k \in 1 .. Len(F) : F[k].type \in Ids /\ F[k].name \in FieldNames

EntryOK(id) ==
  LET e == data[id] IN
  \/ /\ e.kind = "base" /\ e = Base(e.name, e.size, e.align)
     /\ e.name \in Names /\ e.size \in Nat /\ e.align \in Nat \ {0}
  \/ /\ e.kind = "ptr" /\ e = Pointer(e.prev)
     /\ e.prev \in 1 .. id - 1
  \/ /\ e.kind = "array" /\ e = Array(e.elem, e.count)
     /\ e.elem \in 1 .. id - 1 /\ e.count \in Counts
  \/ /\ e.kind = "block"
     /\ e = BlockOf(e.name, e.fields, e.cap, e.size, e.align, e.complete)
     /\ e.name \in Names /\ FieldsOK(e.fields)
     /\ e.cap \in Nat /\ e.complete \in BOOLEAN

(* Type invariant.  In particular a pointer or array is always younger     *)
(* than the type it is made of, which is why ktl_get_type_size ends; and   *)
(* the block being declared is a block, not complete yet.                  *)
TypeInv ==
  /\ IsSequence(data)
  /\ \A id \in Ids : EntryOK(id)
  /\ aliases \in Seq([name : Names, target : Ids])
  /\ capacity \in Nat /\ alias_capacity \in Nat
  /\ open \in Ids \cup {BAD}
  /\ open # BAD => IsBlock(open) /\ ~data[open].complete

(* No index the code writes lies outside what it allocated.                *)
NoOverrun ==
  /\ Len(data) <= capacity
  /\ Len(aliases) <= alias_capacity
  /\ \A id \in Ids : IsBlock(id) => Len(data[id].fields) <= data[id].cap

(* A name means one thing: no two named types share it, no two aliases,    *)
(* and no alias shares it with a type.                                     *)
NamesUnique ==
  /\ \A i, j \in Ids, n \in Names : Named(i, n) /\ Named(j, n) => i = j
  /\ \A i, j \in 1 .. Len(aliases) :
       aliases[i].name = aliases[j].name => i = j
  /\ \A i \in 1 .. Len(aliases), id \in Ids : ~Named(id, aliases[i].name)

(* Analysis compares types by id: so an id must stand for one structural   *)
(* type, i.e. no pointer or array type is ever in the map twice.           *)
OneIdPerType ==
  \A i, j \in Ids :
    data[i].kind \in {"ptr", "array"} /\ data[i] = data[j] => i = j

(* A block is complete only with all of it laid out: its fields have sizes *)
(* (so none contains an unfinished block by value, itself included), each  *)
(* sits at a multiple of its alignment, after the one before, inside the   *)
(* block, whose size keeps the alignment in an array.  Sizes are those of  *)
(* the current state: types registered later must not disturb it.          *)
CompleteIsLaidOut ==
  \A id \in Ids : IsBlock(id) /\ data[id].complete =>
    LET b == data[id]
        Size(k)  == SizeOf[b.fields[k].type]
        Align(k) == AlignOf[b.fields[k].type]
    IN  /\ Len(b.fields) > 0
        /\ b.size % b.align = 0
        /\ \A k \in 1 .. Len(b.fields) :
             /\ Size(k) > 0 /\ Align(k) > 0
             /\ b.fields[k].offset % Align(k) = 0
             /\ b.align % Align(k) = 0
             /\ b.fields[k].offset + Size(k) <= b.size
             /\ k > 1 => b.fields[k - 1].offset + Size(k - 1)
                           <= b.fields[k].offset

(* What a name resolves to, once it resolves, never changes: the parser    *)
(* keeps ids, not names, in the tree and in the symbol tables.             *)
ResolutionStable ==
  [][\A n \in Names : FindByName(n) # BAD => FindByName(n)' = FindByName(n)]_vars

(* A finished type never changes: sizes, offsets and element types that    *)
(* the tree, the frame layout and the generated code were computed from    *)
(* stay what they were.  Only an incomplete block is ever written.         *)
FinishedTypesFrozen ==
  [][\A id \in Ids : ~(IsBlock(id) /\ ~data[id].complete)
                       => data'[id] = data[id]]_vars

=============================================================================
