--------------------------- MODULE AssembleProofs ---------------------------
(***************************************************************************)
(* Proofs about Assemble.  The inductive invariant follows a displacement  *)
(* from the moment it is written: while its label is unknown a fix notes   *)
(* the place of the instruction, and every label noted in a table is that  *)
(* of an instruction of the text.                                          *)
(***************************************************************************)
EXTENDS Assemble, TLAPS

(* A name in a table has a first entry: what KTL_LabelDecl_Find returns.   *)
First(m) ==
  \A i \in DOMAIN m.data : \E j \in DOMAIN m.data :
    /\ m.data[j].name = m.data[i].name
    /\ \A k \in DOMAIN m.data : m.data[k].name = m.data[i].name => j <= k

(* A table grows once, but for START = 1.                                  *)
Roomy(m) ==
  \/ m.capacity = START /\ m.alloc = START /\ Len(m.data) <= START
  \/ m.capacity = GROW_MOD /\ m.alloc >= GROW_MOD * START /\ Len(m.data) > START

Tables == {func_decl, func_fix, file_decl, file_fix, outside_fix}

InData == in_data = <<>> \/ \E g \in Globals : in_data = Variable(g, 8)

(* A fix describes the instruction it waits for.                           *)
Describes(fix, kind) ==
  /\ fix.index \in DOMAIN code
  /\ code[fix.index].kind = kind
  /\ code[fix.index].ref = fix.target
  /\ fix.ads_offset = code[fix.index].at
  /\ fix.inner_offset + 4 = code[fix.index].len

LocalFixes ==
  \A k \in DOMAIN func_fix.data :
    /\ func_fix.data[k].kind = "label"
    /\ Describes(func_fix.data[k], "jump")
    /\ code[func_fix.data[k].index].fn = Len(units)

FileFixes ==
  \A k \in DOMAIN file_fix.data :
    \/ /\ file_fix.data[k].kind = "LOCAL_FUNC" /\ file_fix.data[k].target \in Functions
       /\ Describes(file_fix.data[k], "call")
    \/ /\ file_fix.data[k].kind = "LOCAL_VAR" /\ file_fix.data[k].target \in Strings \cup Globals
       /\ Describes(file_fix.data[k], "address")

(* No displacement is forgotten.                                           *)
JumpsWait ==
  stage \in {"done", "aborted"} \/
  \A i \in DOMAIN code : code[i].kind = "jump" /\ code[i].fn = Len(units) =>
    \E k \in DOMAIN func_fix.data : func_fix.data[k].index = i

ReferencesWait ==
  \A i \in DOMAIN code : code[i].kind \in {"call", "address"} =>
    \E k \in DOMAIN file_fix.data : file_fix.data[k].index = i

(* What the labels of the tables lie at.                                   *)
LocalDecls ==
  \A d \in DOMAIN func_decl.data : \E m \in marks :
    /\ m.fn = Len(units) /\ m.label = func_decl.data[d].name
    /\ Address(m.next) = func_decl.data[d].offset

FileDecls ==
  \A d \in DOMAIN file_decl.data :
    LET e == file_decl.data[d] IN
    \/ /\ e.name \in Functions \cup {start}
       /\ \E u \in DOMAIN units : units[u].name = e.name /\ Address(units[u].first) = e.offset
    \/ /\ e.name \in Strings
       /\ \E r \in DOMAIN rodata : rodata[r].name = e.name /\ rodata[r].at = e.offset

Bounds ==
  /\ \A i \in DOMAIN code : code[i].fn \in 1 .. Len(units)
  /\ \A u \in DOMAIN units : units[u].first \in 1 .. Len(code) + 1

IInv ==
  /\ TypeInv /\ InData /\ Bounds /\ OffsetsAreBytes
  /\ First(func_decl) /\ First(file_decl)
  /\ LocalFixes /\ FileFixes /\ JumpsWait /\ ReferencesWait
  /\ LocalDecls /\ FileDecls
  /\ JumpsLand /\ CallsLand /\ AddressesWait
  /\ \A m \in Tables : Roomy(m)

-----------------------------------------------------------------------------
(***************************************************************************)
(* Label tables and sequences                                              *)
(***************************************************************************)
(* What Append gives, index by index.                                      *)
LEMMA AppendFacts ==
  ASSUME NEW S, NEW s \in Seq(S), NEW e \in S
  PROVE  /\ Append(s, e) \in Seq(S)
         /\ Len(Append(s, e)) = Len(s) + 1
         /\ DOMAIN Append(s, e) = 1 .. Len(s) + 1
         /\ DOMAIN s = 1 .. Len(s) /\ Len(s) \in Nat
         /\ \A i \in DOMAIN s : Append(s, e)[i] = s[i]
         /\ Append(s, e)[Len(s) + 1] = e
  OBVIOUS

(* grow_decl, grow_fix: the entry is added whether or not the table grew.  *)
LEMMA AddFacts ==
  ASSUME NEW E, NEW m \in Entries(E), NEW e \in E
  PROVE  /\ Add(m, e).data = Append(m.data, e)
         /\ Add(m, e) \in Entries(E)
  <1> DEFINE g == Grow(m)
  <1>1. g.data = m.data BY DEF Grow, Entries
  <1>2. g \in Entries(E)
    <2>1. START \in Nat /\ m.capacity \in {START, 2} /\ m.alloc \in Nat /\ m.data \in Seq(E)
      BY AssembleAssumption DEF AssembleAssumption, Entries, GROW_MOD
    <2>2. m.capacity * 2 \in Nat BY <2>1
    <2>3. m = [data |-> m.data, capacity |-> m.capacity, alloc |-> m.alloc] BY DEF Entries
    <2>4. g = m \/ g = [data |-> m.data, capacity |-> 2, alloc |-> m.capacity * 2]
      BY <2>3 DEF Grow, GROW_MOD
    <2> HIDE DEF g
    <2> QED BY <2>1, <2>2, <2>4 DEF Entries, GROW_MOD
  <1>3. m.data \in Seq(E) BY DEF Entries
  <1>4. Append(m.data, e) \in Seq(E) BY <1>3
  <1>5. Add(m, e) = [g EXCEPT !.data = Append(g.data, e)] BY DEF Add
  <1> HIDE DEF g
  <1> QED BY <1>1, <1>2, <1>4, <1>5 DEF Entries

LEMMA AddRoomy ==
  ASSUME NEW E, NEW m \in Entries(E), NEW e \in E, Roomy(m)
  PROVE  Roomy(Add(m, e))
  <1> DEFINE g == Grow(m)
  <1>1. /\ g.data = m.data /\ Len(m.data) \in Nat
        /\ g.alloc = (IF Len(m.data) = m.capacity THEN m.capacity * 2 ELSE m.alloc)
        /\ g.capacity = (IF Len(m.data) = m.capacity THEN 2 ELSE m.capacity)
    BY DEF Grow, Entries, GROW_MOD
  <1>2. /\ Add(m, e).capacity = g.capacity /\ Add(m, e).alloc = g.alloc
        /\ Len(Add(m, e).data) = Len(m.data) + 1
    <2>1. Add(m, e).data = Append(m.data, e) BY AddFacts
    <2>2. Len(Append(m.data, e)) = Len(m.data) + 1 BY DEF Entries
    <2> QED BY <2>1, <2>2 DEF Add, Grow, Entries
  <1>3. START \in Nat \ {0} BY AssembleAssumption DEF AssembleAssumption
  <1>4. m.capacity \in {START, 2} /\ m.alloc \in Nat BY DEF Entries, GROW_MOD
  <1> HIDE DEF g
  <1> QED BY <1>1, <1>2, <1>3, <1>4 DEF Roomy, GROW_MOD

LEMMA AddFirst ==
  ASSUME NEW E, NEW m \in Entries(E), NEW e \in E, First(m)
  PROVE  First(Add(m, e))
  <1>1. Add(m, e).data = Append(m.data, e) BY AddFacts
  <1>2. m.data \in Seq(E) BY DEF Entries
  <1>3. /\ DOMAIN Add(m, e).data = 1 .. Len(m.data) + 1
        /\ DOMAIN m.data = 1 .. Len(m.data) /\ Len(m.data) \in Nat
        /\ \A i \in DOMAIN m.data : Add(m, e).data[i] = m.data[i]
        /\ Add(m, e).data[Len(m.data) + 1] = e
    BY <1>1, <1>2, AppendFacts
  <1> DEFINE d == Add(m, e).data
  <1> HIDE DEF d
  <1> SUFFICES ASSUME NEW i \in DOMAIN d
      PROVE \E j \in DOMAIN d : /\ d[j].name = d[i].name
                                /\ \A k \in DOMAIN d : d[k].name = d[i].name => j <= k
    BY DEF First, d
  <1>4. CASE \E i0 \in DOMAIN m.data : m.data[i0].name = d[i].name
    <2>1. PICK i0 \in DOMAIN m.data : m.data[i0].name = d[i].name BY <1>4
    <2>2. PICK j \in DOMAIN m.data : /\ m.data[j].name = m.data[i0].name
             /\ \A k \in DOMAIN m.data : m.data[k].name = m.data[i0].name => j <= k
      BY DEF First
    <2>3. \A k \in DOMAIN d : d[k].name = d[i].name => j <= k
      <3> SUFFICES ASSUME NEW k \in DOMAIN d, d[k].name = d[i].name PROVE j <= k OBVIOUS
      <3>1. CASE k \in DOMAIN m.data BY <3>1, <2>1, <2>2, <1>3 DEF d
      <3>2. CASE k = Len(m.data) + 1 BY <3>2, <1>3, <2>2
      <3> QED BY <3>1, <3>2, <1>3 DEF d
    <2>4. j \in DOMAIN d /\ d[j].name = d[i].name BY <2>1, <2>2, <1>3 DEF d
    <2> QED BY <2>3, <2>4
  <1>5. CASE ~ \E i0 \in DOMAIN m.data : m.data[i0].name = d[i].name
    <2>1. i = Len(m.data) + 1 BY <1>5, <1>3 DEF d
    <2>2. \A k \in DOMAIN d : d[k].name = d[i].name => i <= k BY <1>5, <2>1, <1>3 DEF d
    <2> QED BY <2>2
  <1> QED BY <1>4, <1>5

(* KTL_LabelDecl_Find gives an entry of that name.                         *)
LEMMA FoundIt ==
  ASSUME NEW m, NEW name, First(m), name \in Declared(m)
  PROVE  \E d \in DOMAIN m.data : m.data[d].name = name /\ Find(m, name) = m.data[d]
  <1>1. PICK i \in DOMAIN m.data : m.data[i].name = name BY DEF Declared
  <1> DEFINE found == {k \in DOMAIN m.data : m.data[k].name = name}
  <1>2. \E j \in found : \A k \in found : j <= k BY <1>1 DEF First
  <1>3. (CHOOSE j \in found : \A k \in found : j <= k) \in found BY <1>2
  <1> QED BY <1>3 DEF Find

(* A table newly made holds nothing and has its room.                      *)
LEMMA EmptyFacts ==
  ASSUME NEW E
  PROVE  /\ EmptyMap \in Entries(E) /\ EmptyMap.data = <<>> /\ DOMAIN EmptyMap.data = {}
         /\ First(EmptyMap) /\ Roomy(EmptyMap)
         /\ Declared(EmptyMap) = {} /\ Targets(EmptyMap) = {}
  <1>1. EmptyMap.data = <<>> /\ DOMAIN EmptyMap.data = {} BY DEF EmptyMap
  <1>2. EmptyMap \in Entries(E)
    BY AssembleAssumption DEF AssembleAssumption, EmptyMap, Entries
  <1>3. Roomy(EmptyMap)
    BY AssembleAssumption DEF AssembleAssumption, EmptyMap, Roomy
  <1> QED BY <1>1, <1>2, <1>3 DEF First, Declared, Targets

-----------------------------------------------------------------------------
(***************************************************************************)
(* Patching                                                                *)
(***************************************************************************)
(* disp32 is a number, and writing it keeps the rest of an instruction.    *)
LEMMA DisplacementFacts ==
  ASSUME NEW fix \in FixEntry, NEW decl \in DeclEntry
  PROVE  disp32(fix, decl) \in Int
  <1>1. fix.ads_offset \in Nat /\ fix.inner_offset \in 0 .. 15 /\ decl.offset \in Nat
    BY DEF FixEntry, DeclEntry
  <1>2. decl.offset - fix.ads_offset - fix.inner_offset - 4 \in Int BY <1>1
  <1> QED BY <1>1, <1>2 DEF disp32

LEMMA PatchOne ==
  ASSUME NEW r \in Code, NEW x \in Int
  PROVE  LET p == [r EXCEPT !.disp = x] IN
         /\ p \in Code /\ p.disp = x
         /\ p.kind = r.kind /\ p.ref = r.ref /\ p.fn = r.fn /\ p.at = r.at /\ p.len = r.len
  BY DEF Code

(* fix_labels_inside_func and fix_labels_inside_file change displacements  *)
(* and nothing else; a displacement is that of a fix of the instruction    *)
(* and of a label the fix names.                                           *)
LEMMA PatchedFacts ==
  ASSUME NEW c \in Seq(Code), NEW fixes \in Entries(FixEntry),
         NEW decls \in Entries(DeclEntry), First(decls),
         Targets(fixes) \subseteq Declared(decls)
  PROVE  LET p == Patched(c, fixes, decls) IN
         /\ p \in Seq(Code) /\ Len(p) = Len(c) /\ DOMAIN p = DOMAIN c
         /\ \A i \in DOMAIN c :
              /\ p[i].kind = c[i].kind /\ p[i].ref = c[i].ref /\ p[i].fn = c[i].fn
              /\ p[i].at = c[i].at /\ p[i].len = c[i].len
         /\ \A i \in DOMAIN c :
              (~ \E k \in DOMAIN fixes.data : fixes.data[k].index = i) => p[i] = c[i]
         /\ \A i \in DOMAIN c :
              (\E k \in DOMAIN fixes.data : fixes.data[k].index = i) =>
                \E k \in DOMAIN fixes.data, d \in DOMAIN decls.data :
                  /\ fixes.data[k].index = i
                  /\ decls.data[d].name = fixes.data[k].target
                  /\ p[i].disp = disp32(fixes.data[k], decls.data[d])
  <1> DEFINE p == Patched(c, fixes, decls)
             waits(i) == \E k \in DOMAIN fixes.data : fixes.data[k].index = i
             the(i) == CHOOSE k \in DOMAIN fixes.data : fixes.data[k].index = i
             fixed(i) == disp32(fixes.data[the(i)], Find(decls, fixes.data[the(i)].target))
  <1>1. DOMAIN p = DOMAIN c BY DEF Patched
  <1>2. \A i \in DOMAIN c : waits(i) => p[i] = [c[i] EXCEPT !.disp = fixed(i)]
    BY DEF Patched
  <1>3. \A i \in DOMAIN c : ~waits(i) => p[i] = c[i] BY DEF Patched
  <1>4. \A i \in DOMAIN c : c[i] \in Code OBVIOUS
  <1>5. \A i \in DOMAIN c : waits(i) =>
          /\ fixed(i) \in Int
          /\ \E k \in DOMAIN fixes.data, d \in DOMAIN decls.data :
               /\ fixes.data[k].index = i
               /\ decls.data[d].name = fixes.data[k].target
               /\ fixed(i) = disp32(fixes.data[k], decls.data[d])
    <2> SUFFICES ASSUME NEW i \in DOMAIN c, waits(i)
        PROVE /\ fixed(i) \in Int
              /\ \E k \in DOMAIN fixes.data, d \in DOMAIN decls.data :
                   /\ fixes.data[k].index = i
                   /\ decls.data[d].name = fixes.data[k].target
                   /\ fixed(i) = disp32(fixes.data[k], decls.data[d])
      OBVIOUS
    <2>1. the(i) \in DOMAIN fixes.data /\ fixes.data[the(i)].index = i OBVIOUS
    <2>2. fixes.data[the(i)].target \in Declared(decls) BY <2>1 DEF Targets
    <2>3. PICK d \in DOMAIN decls.data :
             /\ decls.data[d].name = fixes.data[the(i)].target
             /\ Find(decls, fixes.data[the(i)].target) = decls.data[d]
      BY <2>2, FoundIt
    <2>4. fixes.data[the(i)] \in FixEntry BY <2>1 DEF Entries
    <2>5. decls.data[d] \in DeclEntry BY <2>3 DEF Entries
    <2>6. disp32(fixes.data[the(i)], decls.data[d]) \in Int BY <2>4, <2>5, DisplacementFacts
    <2> QED BY <2>1, <2>3, <2>6
  <1> HIDE DEF fixed, waits
  <1>6. \A i \in DOMAIN c :
          /\ p[i] \in Code
          /\ p[i].kind = c[i].kind /\ p[i].ref = c[i].ref /\ p[i].fn = c[i].fn
          /\ p[i].at = c[i].at /\ p[i].len = c[i].len
          /\ waits(i) => p[i].disp = fixed(i)
    <2> SUFFICES ASSUME NEW i \in DOMAIN c
        PROVE /\ p[i] \in Code
              /\ p[i].kind = c[i].kind /\ p[i].ref = c[i].ref /\ p[i].fn = c[i].fn
              /\ p[i].at = c[i].at /\ p[i].len = c[i].len
              /\ waits(i) => p[i].disp = fixed(i)
      OBVIOUS
    <2>1. c[i] \in Code BY <1>4
    <2>2. CASE waits(i)
      <3>1. fixed(i) \in Int /\ p[i] = [c[i] EXCEPT !.disp = fixed(i)] BY <1>2, <1>5, <2>2
      <3> HIDE DEF p
      <3> QED BY <2>1, <3>1, PatchOne
    <2>3. CASE ~waits(i) BY <1>3, <2>1, <2>3
    <2> QED BY <2>2, <2>3
  <1>7. p \in Seq(Code) /\ Len(p) = Len(c)
    <2>1. p = [i \in 1 .. Len(c) |-> p[i]] BY <1>1 DEF Patched
    <2> HIDE DEF p
    <2>2. Len(c) \in Nat /\ DOMAIN c = 1 .. Len(c) OBVIOUS
    <2>3. [i \in 1 .. Len(c) |-> p[i]] \in Seq(Code) BY <1>6, <2>2
    <2> QED BY <2>1, <2>2, <2>3
  <1> HIDE DEF p
  <1>9. \A i \in DOMAIN c : waits(i) =>
         \E k \in DOMAIN fixes.data, d \in DOMAIN decls.data :
           /\ fixes.data[k].index = i
           /\ decls.data[d].name = fixes.data[k].target
           /\ p[i].disp = disp32(fixes.data[k], decls.data[d])
    BY <1>5, <1>6
  <1> QED BY <1>1, <1>3, <1>6, <1>7, <1>9 DEF p, waits

(* Where nothing but displacements changes, no address does.               *)
LEMMA SameAddresses ==
  ASSUME TypeInv, Bounds, OffsetsAreBytes, offset' = offset, Len(code') = Len(code),
         DOMAIN code' = DOMAIN code,
         \A i \in DOMAIN code :
           /\ code'[i].kind = code[i].kind /\ code'[i].ref = code[i].ref
           /\ code'[i].fn = code[i].fn /\ code'[i].at = code[i].at
           /\ code'[i].len = code[i].len
  PROVE  /\ \A k \in 1 .. Len(code) + 1 : Address(k)' = Address(k)
         /\ \A i \in DOMAIN code : After(i)' = After(i)
         /\ OffsetsAreBytes'
         /\ \A fix, kind : Describes(fix, kind)' <=> Describes(fix, kind)
  <1>0. DOMAIN code = 1 .. Len(code) /\ Len(code) \in Nat BY DEF TypeInv
  <1>1. \A k \in 1 .. Len(code) + 1 : Address(k)' = Address(k) BY <1>0 DEF Address
  <1>2. \A i \in DOMAIN code : After(i)' = After(i) BY DEF After
  <1>3. OffsetsAreBytes'
    BY <1>0, <1>1, <1>2 DEF OffsetsAreBytes
  <1>4. \A fix, kind : Describes(fix, kind)' <=> Describes(fix, kind) BY DEF Describes
  <1> QED BY <1>1, <1>2, <1>3, <1>4

-----------------------------------------------------------------------------
(***************************************************************************)
(* The inductive invariant                                                 *)
(***************************************************************************)
LEMMA InitIInv == Init => IInv
  <1> SUFFICES ASSUME Init PROVE IInv OBVIOUS
  <1>1. /\ func_decl = EmptyMap /\ func_fix = EmptyMap /\ file_decl = EmptyMap
        /\ file_fix = EmptyMap /\ outside_fix = EmptyMap
        /\ code = <<>> /\ units = <<>> /\ marks = {} /\ rodata = <<>>
        /\ stage = "rodata" /\ offset = 0 /\ data_size = 0 /\ rodata_size = 0 /\ data_read = 0
    BY DEF Init
  <1>2. InData BY DEF Init, InData
  <1>3. TypeInv
    <2>1. Len(in_data) \in Nat BY <1>2 DEF InData, Variable
    <2>2. EmptyMap \in Entries(DeclEntry) /\ EmptyMap \in Entries(FixEntry) BY EmptyFacts
    <2>3. Declared(EmptyMap) = {} /\ Targets(EmptyMap) = {} BY EmptyFacts
    <2> QED BY <1>1, <2>1, <2>2, <2>3 DEF TypeInv
  <1>4. Bounds /\ OffsetsAreBytes BY <1>1 DEF Bounds, OffsetsAreBytes, Address, After
  <1>5. \A m \in Tables : First(m) /\ Roomy(m) BY <1>1, EmptyFacts DEF Tables
  <1>6. DOMAIN EmptyMap.data = {} BY EmptyFacts
  <1>7. LocalFixes /\ FileFixes BY <1>1, <1>6 DEF LocalFixes, FileFixes
  <1>8. JumpsWait /\ ReferencesWait BY <1>1 DEF JumpsWait, ReferencesWait
  <1>9. LocalDecls /\ FileDecls BY <1>1, <1>6 DEF LocalDecls, FileDecls
  <1>10. JumpsLand /\ CallsLand /\ AddressesWait
    BY <1>1 DEF JumpsLand, CallsLand, AddressesWait
  <1> QED BY <1>2, <1>3, <1>4, <1>5, <1>7, <1>8, <1>9, <1>10 DEF IInv, Tables

(* What does not touch text, literals or tables keeps what is said of them.*)
LEMMA QuietStep ==
  ASSUME IInv, UNCHANGED <<in_data, ro_vars, text_vars, maps>>,
         stage \notin {"done", "aborted"}, stage' \in {"rodata", "data", "text", "undefined"},
         data_read' \in 0 .. Len(in_data), data_size' \in Nat
  PROVE  IInv'
  <1> USE DEF IInv, ro_vars, text_vars, maps
  <1>1. TypeInv' BY DEF TypeInv, Entries, Declared, Targets
  <1>2. InData' BY DEF InData
  <1>3. Bounds' /\ OffsetsAreBytes' BY DEF Bounds, OffsetsAreBytes, Address, After
  <1>4. First(func_decl)' /\ First(file_decl)' BY DEF First
  <1>5. LocalFixes' /\ FileFixes' BY DEF LocalFixes, FileFixes, Describes
  <1>6. JumpsWait' /\ ReferencesWait' BY DEF JumpsWait, ReferencesWait
  <1>7. LocalDecls' /\ FileDecls' BY DEF LocalDecls, FileDecls, Address
  <1>8. JumpsLand'
    <2>1. \A i \in DOMAIN code : Fixed(i)' => Fixed(i) BY DEF Fixed
    <2>2. \A i \in DOMAIN code : After(i)' = After(i) BY DEF After
    <2>3. \A k : Address(k)' = Address(k) BY DEF Address
    <2> QED BY <2>1, <2>2, <2>3 DEF JumpsLand
  <1>9. CallsLand' /\ AddressesWait' BY DEF CallsLand, AddressesWait
  <1>10. \A m \in Tables' : Roomy(m) BY DEF Tables
  <1>11. (\A m \in Tables : Roomy(m))' BY <1>10
  <1> QED BY <1>1, <1>2, <1>3, <1>4, <1>5, <1>6, <1>7, <1>8, <1>9, <1>11

LEMMA EmitDataStep == ASSUME IInv, EmitData PROVE IInv'
  <1> DEFINE item == in_data[1]
             up == align_up(data_size, 8)
  <1>1. /\ stage = "data" /\ stage' = stage /\ in_data' = in_data
        /\ data_read < Len(in_data) /\ data_read' = data_read + 1
        /\ UNCHANGED <<ro_vars, text_vars, func_decl, func_fix, file_fix, outside_fix>>
    BY DEF EmitData, At, ro_vars, text_vars
  <1>2. data_read \in 0 .. Len(in_data) /\ data_size \in Nat BY DEF IInv, TypeInv
  <1>3. PICK g \in Globals : in_data = Variable(g, 8)
    <2>1. in_data # <<>> BY <1>1, <1>2
    <2> QED BY <2>1 DEF IInv, InData
  <1>4. Len(in_data) = 3 /\ item = [kind |-> "align", size |-> 8] BY <1>3 DEF Variable
  <1>5. item.kind = "align" /\ item.size = 8 BY <1>4
  <1> HIDE DEF item
  <1>6. file_decl' = file_decl BY <1>5 DEF EmitData, item
  <1>7. data_size' = data_size + (up - data_size) BY <1>5 DEF EmitData, item
  <1>8. up \in Nat
    <2>1. (data_size + 8 - 1) \div 8 \in Nat BY <1>2
    <2> QED BY <2>1 DEF align_up
  <1> HIDE DEF up
  <1>9. data_size' \in Nat BY <1>2, <1>7, <1>8
  <1>10. data_read' \in 0 .. Len(in_data) BY <1>1, <1>2, <1>4
  <1> QED BY <1>1, <1>6, <1>9, <1>10, QuietStep DEF maps

LEMMA EmitStringStep == ASSUME IInv, NEW s \in Strings, EmitString(s) PROVE IInv'
  <1> DEFINE e == Decl(s, rodata_size)
             r == [name |-> s, at |-> rodata_size]
  <1>1. /\ stage = "rodata" /\ stage' = stage /\ file_decl' = Add(file_decl, e)
        /\ rodata' = Append(rodata, r) /\ rodata_size' = rodata_size + StringLen[s]
        /\ UNCHANGED <<data_vars, text_vars, func_decl, func_fix, file_fix, outside_fix>>
    BY DEF EmitString, At
  <1>2. rodata_size \in Nat /\ rodata \in Seq([name : Strings, at : Nat])
        /\ file_decl \in Entries(DeclEntry)
    BY DEF IInv, TypeInv
  <1>3. e \in DeclEntry /\ e.name = s /\ e.offset = rodata_size
    BY <1>2 DEF Decl, DeclEntry, Names
  <1>4. r \in [name : Strings, at : Nat] /\ r.name = s /\ r.at = rodata_size BY <1>2
  <1>5. rodata_size' \in Nat BY <1>1, <1>2, AssembleAssumption DEF AssembleAssumption
  <1> HIDE DEF e, r
  <1>6. file_decl'.data = Append(file_decl.data, e) /\ file_decl' \in Entries(DeclEntry)
        /\ First(file_decl') /\ Roomy(file_decl')
    BY <1>1, <1>2, <1>3, AddFacts, AddFirst, AddRoomy DEF IInv, Tables
  <1>7. file_decl.data \in Seq(DeclEntry) BY <1>2 DEF Entries
  <1>8. /\ DOMAIN file_decl'.data = 1 .. Len(file_decl.data) + 1
        /\ DOMAIN file_decl.data = 1 .. Len(file_decl.data) /\ Len(file_decl.data) \in Nat
        /\ \A i \in DOMAIN file_decl.data : file_decl'.data[i] = file_decl.data[i]
        /\ file_decl'.data[Len(file_decl.data) + 1] = e
    BY <1>3, <1>6, <1>7, AppendFacts
  <1>9. /\ rodata' \in Seq([name : Strings, at : Nat])
        /\ DOMAIN rodata' = 1 .. Len(rodata) + 1
        /\ DOMAIN rodata = 1 .. Len(rodata) /\ Len(rodata) \in Nat
        /\ \A i \in DOMAIN rodata : rodata'[i] = rodata[i]
        /\ rodata'[Len(rodata) + 1] = r
    BY <1>1, <1>2, <1>4, AppendFacts
  <1>10. Declared(file_decl') \subseteq Names
    <2>1. Declared(file_decl) \subseteq Names /\ s \in Names BY DEF IInv, TypeInv, Names
    <2> QED BY <1>3, <1>8, <2>1 DEF Declared
  <1>11. TypeInv'
    BY <1>1, <1>5, <1>6, <1>9, <1>10 DEF IInv, TypeInv, data_vars, text_vars, Declared, Targets
  <1>12. InData' /\ Bounds' /\ OffsetsAreBytes'
    BY <1>1 DEF IInv, InData, Bounds, OffsetsAreBytes, Address, After, data_vars, text_vars
  <1>13. First(func_decl)' /\ First(file_decl)' BY <1>1, <1>6 DEF IInv, First
  <1>14. LocalFixes' /\ FileFixes'
    BY <1>1 DEF IInv, LocalFixes, FileFixes, Describes, text_vars
  <1>15. JumpsWait' /\ ReferencesWait' BY <1>1 DEF IInv, JumpsWait, ReferencesWait, text_vars
  <1>16. LocalDecls' BY <1>1 DEF IInv, LocalDecls, Address, text_vars
  <1>17. FileDecls'
    <2> SUFFICES ASSUME NEW d \in DOMAIN file_decl'.data
        PROVE LET f == file_decl'.data[d] IN
              \/ /\ f.name \in Functions \cup {start}
                 /\ \E u \in DOMAIN units : units[u].name = f.name /\ Address(units[u].first) = f.offset
              \/ /\ f.name \in Strings
                 /\ \E k \in DOMAIN rodata' : rodata'[k].name = f.name /\ rodata'[k].at = f.offset
      BY <1>1 DEF FileDecls, Address, text_vars
    <2>1. CASE d \in DOMAIN file_decl.data
      <3>1. file_decl'.data[d] = file_decl.data[d] BY <2>1, <1>8
      <3>2. \A k \in DOMAIN rodata : k \in DOMAIN rodata' /\ rodata'[k] = rodata[k] BY <1>9
      <3>3. FileDecls BY DEF IInv
      <3> QED BY <2>1, <3>1, <3>2, <3>3 DEF FileDecls
    <2>2. CASE d = Len(file_decl.data) + 1
      <3>1. file_decl'.data[d] = e BY <2>2, <1>8
      <3>2. Len(rodata) + 1 \in DOMAIN rodata' BY <1>9
      <3> QED BY <3>1, <3>2, <1>3, <1>4, <1>9
    <2> QED BY <2>1, <2>2, <1>8
  <1>18. JumpsLand'
    <2>1. \A i \in DOMAIN code : Fixed(i)' => Fixed(i) BY <1>1 DEF Fixed, text_vars
    <2>2. \A i \in DOMAIN code : After(i)' = After(i) BY <1>1 DEF After, text_vars
    <2>3. \A k : Address(k)' = Address(k) BY <1>1 DEF Address, text_vars
    <2> QED BY <1>1, <2>1, <2>2, <2>3 DEF IInv, JumpsLand, text_vars
  <1>19. CallsLand' /\ AddressesWait' BY <1>1 DEF CallsLand, AddressesWait
  <1>20. (\A m \in Tables : Roomy(m))' BY <1>1, <1>6 DEF IInv, Tables
  <1> QED BY <1>11, <1>12, <1>13, <1>14, <1>15, <1>16, <1>17, <1>18, <1>19, <1>20 DEF IInv

(* out_write puts an instruction behind the others and moves none of them. *)
LEMMA WriteFacts ==
  ASSUME IInv, Writing,
         NEW kind \in {"plain", "jump", "call", "import", "address"},
         NEW ref \in Labels \cup Names \cup Imports, NEW len \in 1 .. 15, NEW inner \in 0 .. 15,
         out_write(Instruction(kind, ref, len, inner)),
         UNCHANGED <<stage, ro_vars, units, marks>>
  PROVE  LET n == Len(code) + 1 IN
         /\ n \in Nat \ {0} /\ DOMAIN code = 1 .. Len(code) /\ DOMAIN code' = 1 .. n
         /\ \A i \in DOMAIN code : code'[i] = code[i]
         /\ code'[n] = Instruction(kind, ref, len, inner)
         /\ code' \in Seq(Code) /\ offset \in Nat /\ offset' \in Nat
         /\ marks' \subseteq [fn : 1 .. Len(units'), label : Labels, next : 1 .. Len(code') + 1]
         /\ Bounds' /\ OffsetsAreBytes' /\ JumpsLand' /\ CallsLand' /\ AddressesWait'
         /\ \A k \in 1 .. n : Address(k)' = Address(k)
         /\ \A fix, k : Describes(fix, k) => Describes(fix, k)'
  <1> DEFINE i == Instruction(kind, ref, len, inner)
             n == Len(code) + 1
  <1>1. /\ stage = "text" /\ stage' = stage /\ units' = units /\ units # <<>>
        /\ marks' = marks /\ rodata' = rodata
        /\ code' = Append(code, i) /\ offset' = offset + i.len
    BY DEF Writing, At, out_write, ro_vars
  <1>2. code \in Seq(Code) /\ offset \in Nat /\ units \in Seq([name : Functions \cup {start}, first : Nat \ {0}])
        /\ marks \subseteq [fn : 1 .. Len(units), label : Labels, next : 1 .. Len(code) + 1]
    BY DEF IInv, TypeInv
  <1>3. Len(units) \in Nat \ {0} BY <1>1, <1>2
  <1>4. i \in Code /\ i.fn = Len(units) /\ i.at = offset /\ i.len = len
    BY <1>2, <1>3 DEF Instruction, Code
  <1> HIDE DEF i
  <1>5. /\ code' \in Seq(Code) /\ Len(code') = n /\ DOMAIN code' = 1 .. n
        /\ DOMAIN code = 1 .. Len(code) /\ Len(code) \in Nat
        /\ \A k \in DOMAIN code : code'[k] = code[k]
        /\ code'[n] = i
    BY <1>1, <1>2, <1>4, AppendFacts
  <1>6. offset' = offset + len /\ offset' \in Nat BY <1>1, <1>2, <1>4
  <1>7. \A k \in 1 .. n : Address(k)' = Address(k)
    BY <1>1, <1>4, <1>5 DEF Address
  <1>8. \A k \in DOMAIN code : After(k)' = After(k) BY <1>5 DEF After
  <1>9. \A k : k = n => After(k)' = offset' BY <1>4, <1>5, <1>6 DEF After
  <1>10. OffsetsAreBytes'
    <2>1. Address(1)' = 0 BY <1>5, <1>7 DEF IInv, OffsetsAreBytes
    <2>2. ASSUME NEW k \in DOMAIN code' PROVE After(k)' = Address(k + 1)'
      <3>1. CASE k \in DOMAIN code
        <4>1. k + 1 \in 1 .. n BY <3>1, <1>5
        <4> QED BY <3>1, <4>1, <1>7, <1>8 DEF IInv, OffsetsAreBytes
      <3>2. CASE k = n
        <4>1. Address(k + 1)' = offset' BY <3>2, <1>5 DEF Address
        <4> QED BY <3>2, <4>1, <1>9
      <3> QED BY <3>1, <3>2, <1>5
    <2> QED BY <2>1, <2>2 DEF OffsetsAreBytes
  <1>11. Bounds' BY <1>1, <1>3, <1>4, <1>5 DEF IInv, Bounds
  <1>12. marks' \subseteq [fn : 1 .. Len(units'), label : Labels, next : 1 .. Len(code') + 1]
    BY <1>1, <1>2, <1>5
  <1>13. JumpsLand'
    <2> SUFFICES ASSUME NEW k \in DOMAIN code', code'[k].kind = "jump", Fixed(k)'
        PROVE \E m \in marks : /\ m.fn = code'[k].fn /\ m.label = code'[k].ref
                               /\ After(k)' + code'[k].disp = Address(m.next)'
      BY <1>1 DEF JumpsLand
    <2>1. code'[k].fn < Len(units) BY <1>1 DEF Fixed
    <2>2. k \in DOMAIN code BY <2>1, <1>3, <1>4, <1>5
    <2>3. Fixed(k) /\ code[k].kind = "jump" BY <2>1, <2>2, <1>5 DEF Fixed
    <2>4. PICK m \in marks : /\ m.fn = code[k].fn /\ m.label = code[k].ref
                            /\ After(k) + code[k].disp = Address(m.next)
      BY <2>2, <2>3 DEF IInv, JumpsLand
    <2>5. m.next \in 1 .. n BY <1>2
    <2> QED BY <2>2, <2>4, <2>5, <1>5, <1>7, <1>8
  <1>14. CallsLand' /\ AddressesWait' BY <1>1 DEF CallsLand, AddressesWait
  <1>15. \A fix, k : Describes(fix, k) => Describes(fix, k)' BY <1>5 DEF Describes
  <1> HIDE DEF n
  <1> QED BY <1>2, <1>5, <1>6, <1>7, <1>10, <1>11, <1>12, <1>13, <1>14, <1>15 DEF i, n

(* KTL_LabelFix_AddLocal, AddGlobal: the others stay where they are.       *)
LEMMA AddFix ==
  ASSUME NEW m \in Entries(FixEntry), Roomy(m), NEW fix \in FixEntry
  PROVE  LET a == Add(m, fix) IN
         /\ a \in Entries(FixEntry) /\ Roomy(a)
         /\ Targets(a) = Targets(m) \cup {fix.target}
         /\ DOMAIN a.data = DOMAIN m.data \cup {Len(m.data) + 1}
         /\ \A k \in DOMAIN m.data : a.data[k] = m.data[k]
         /\ a.data[Len(m.data) + 1] = fix
  <1> DEFINE a == Add(m, fix)
  <1>1. m.data \in Seq(FixEntry) BY DEF Entries
  <1>2. a.data = Append(m.data, fix) /\ a \in Entries(FixEntry) /\ Roomy(a)
    BY AddFacts, AddRoomy
  <1> HIDE DEF a
  <1>3. /\ DOMAIN a.data = 1 .. Len(m.data) + 1
        /\ DOMAIN m.data = 1 .. Len(m.data) /\ Len(m.data) \in Nat
        /\ \A k \in DOMAIN m.data : a.data[k] = m.data[k]
        /\ a.data[Len(m.data) + 1] = fix
    BY <1>1, <1>2, AppendFacts
  <1>4. DOMAIN a.data = DOMAIN m.data \cup {Len(m.data) + 1} BY <1>3
  <1>5. Targets(a) = Targets(m) \cup {fix.target} BY <1>3, <1>4 DEF Targets
  <1> QED BY <1>2, <1>3, <1>4, <1>5 DEF a

(* An instruction whose displacement has its fix keeps the invariant.      *)
LEMMA WriteStep ==
  ASSUME IInv, Writing,
         NEW kind \in {"plain", "jump", "call", "import", "address"},
         NEW ref \in Labels \cup Names \cup Imports, NEW len \in 1 .. 15, NEW inner \in 0 .. 15,
         out_write(Instruction(kind, ref, len, inner)),
         UNCHANGED <<stage, data_vars, ro_vars, units, marks, func_decl, file_decl>>,
         \A m \in {func_fix', file_fix', outside_fix'} : m \in Entries(FixEntry) /\ Roomy(m),
         Targets(func_fix') \subseteq Labels, Targets(file_fix') \subseteq Names,
         Targets(outside_fix') \subseteq Imports,
         LocalFixes', FileFixes',
         \A k \in DOMAIN func_fix.data : k \in DOMAIN func_fix'.data /\ func_fix'.data[k] = func_fix.data[k],
         \A k \in DOMAIN file_fix.data : k \in DOMAIN file_fix'.data /\ file_fix'.data[k] = file_fix.data[k],
         kind = "jump" => \E k \in DOMAIN func_fix'.data : func_fix'.data[k].index = Len(code) + 1,
         kind \in {"call", "address"} =>
           \E k \in DOMAIN file_fix'.data : file_fix'.data[k].index = Len(code) + 1
  PROVE  IInv'
  <1> DEFINE n == Len(code) + 1
             i == Instruction(kind, ref, len, inner)
  <1>1. /\ n \in Nat \ {0} /\ DOMAIN code = 1 .. Len(code) /\ DOMAIN code' = 1 .. n
        /\ \A k \in DOMAIN code : code'[k] = code[k]
        /\ code'[n] = i
        /\ code' \in Seq(Code) /\ offset \in Nat /\ offset' \in Nat
        /\ marks' \subseteq [fn : 1 .. Len(units'), label : Labels, next : 1 .. Len(code') + 1]
        /\ \A k \in 1 .. n : Address(k)' = Address(k)
    BY WriteFacts
  <1>2. Bounds' /\ OffsetsAreBytes' /\ JumpsLand' /\ CallsLand' /\ AddressesWait' BY WriteFacts
  <1>3. i.kind = kind BY DEF Instruction
  <1>4. stage = "text" /\ stage' = "text" /\ units' = units BY DEF Writing, At
  <1>5. \A k \in DOMAIN code' : k \in DOMAIN code \/ k = n BY <1>1
  <1> HIDE DEF n, i
  <1>6. TypeInv' BY <1>1, <1>4 DEF IInv, TypeInv, data_vars, ro_vars, Declared
  <1>7. InData' /\ First(func_decl)' /\ First(file_decl)'
    BY DEF IInv, InData, First, data_vars
  <1>8. JumpsWait'
    <2> SUFFICES ASSUME NEW k \in DOMAIN code', code'[k].kind = "jump", code'[k].fn = Len(units)
        PROVE \E f \in DOMAIN func_fix'.data : func_fix'.data[f].index = k
      BY <1>4 DEF JumpsWait
    <2>1. CASE k \in DOMAIN code
      <3>1. \E f \in DOMAIN func_fix.data : func_fix.data[f].index = k
        BY <2>1, <1>1, <1>4 DEF IInv, JumpsWait
      <3> QED BY <3>1
    <2>2. CASE k = n BY <2>2, <1>1, <1>3 DEF n
    <2> QED BY <2>1, <2>2, <1>5
  <1>9. ReferencesWait'
    <2> SUFFICES ASSUME NEW k \in DOMAIN code', code'[k].kind \in {"call", "address"}
        PROVE \E f \in DOMAIN file_fix'.data : file_fix'.data[f].index = k
      BY DEF ReferencesWait
    <2>1. CASE k \in DOMAIN code
      <3>1. \E f \in DOMAIN file_fix.data : file_fix.data[f].index = k
        BY <2>1, <1>1 DEF IInv, ReferencesWait
      <3> QED BY <3>1
    <2>2. CASE k = n BY <2>2, <1>1, <1>3 DEF n
    <2> QED BY <2>1, <2>2, <1>5
  <1>10. LocalDecls'
    <2> SUFFICES ASSUME NEW d \in DOMAIN func_decl.data
        PROVE \E m \in marks : /\ m.fn = Len(units) /\ m.label = func_decl.data[d].name
                               /\ Address(m.next)' = func_decl.data[d].offset
      BY <1>4 DEF LocalDecls
    <2>1. PICK m \in marks : /\ m.fn = Len(units) /\ m.label = func_decl.data[d].name
                            /\ Address(m.next) = func_decl.data[d].offset
      BY DEF IInv, LocalDecls
    <2>2. m.next \in 1 .. n BY DEF IInv, TypeInv, n
    <2> QED BY <2>1, <2>2, <1>1
  <1>11. FileDecls'
    <2>1. \A u \in DOMAIN units : Address(units[u].first)' = Address(units[u].first)
      BY <1>1 DEF IInv, Bounds, n
    <2>2. FileDecls BY DEF IInv
    <2> QED BY <2>1, <2>2, <1>4 DEF FileDecls, ro_vars
  <1>12. (\A m \in Tables : Roomy(m))' BY DEF IInv, Tables
  <1> QED BY <1>2, <1>6, <1>7, <1>8, <1>9, <1>10, <1>11, <1>12 DEF IInv

(* What a table of fixes says of the older instructions stays true.        *)
LEMMA KeptFixes ==
  ASSUME IInv, Writing,
         NEW kind \in {"plain", "jump", "call", "import", "address"},
         NEW ref \in Labels \cup Names \cup Imports, NEW len \in 1 .. 15, NEW inner \in 0 .. 15,
         out_write(Instruction(kind, ref, len, inner)),
         UNCHANGED <<stage, ro_vars, units, marks>>
  PROVE  /\ \A k \in DOMAIN func_fix.data : \A f : f = func_fix.data[k] =>
              f.kind = "label" /\ Describes(f, "jump")' /\ code'[f.index].fn = Len(units')
         /\ \A k \in DOMAIN file_fix.data : \A f : f = file_fix.data[k] =>
              \/ f.kind = "LOCAL_FUNC" /\ f.target \in Functions /\ Describes(f, "call")'
              \/ f.kind = "LOCAL_VAR" /\ f.target \in Strings \cup Globals /\ Describes(f, "address")'
  <1>1. /\ \A i \in DOMAIN code : code'[i] = code[i]
        /\ \A fix, k : Describes(fix, k) => Describes(fix, k)'
    BY WriteFacts
  <1>2. \A k \in DOMAIN func_fix.data : func_fix.data[k].index \in DOMAIN code
    BY DEF IInv, LocalFixes, Describes
  <1>3. LocalFixes /\ FileFixes BY DEF IInv
  <1>4. ASSUME NEW k \in DOMAIN func_fix.data, NEW f, f = func_fix.data[k]
        PROVE
              f.kind = "label" /\ Describes(f, "jump")' /\ code'[f.index].fn = Len(units')
    BY <1>1, <1>2, <1>3, <1>4 DEF LocalFixes
  <1>5. ASSUME NEW k \in DOMAIN file_fix.data, NEW f, f = file_fix.data[k]
        PROVE
              \/ f.kind = "LOCAL_FUNC" /\ f.target \in Functions /\ Describes(f, "call")'
              \/ f.kind = "LOCAL_VAR" /\ f.target \in Strings \cup Globals /\ Describes(f, "address")'
    BY <1>1, <1>3, <1>5 DEF FileFixes
  <1> QED BY <1>4, <1>5

(* The fix noted for an instruction describes it.                          *)
LEMMA NewFix ==
  ASSUME IInv, Writing,
         NEW i, i = Instruction(i.kind, i.ref, i.len, i.inner), out_write(i),
         i.kind \in {"jump", "call", "import", "address"},
         i.ref \in Labels \cup Names \cup Imports, i.inner \in 0 .. 11, i.len = i.inner + 4,
         NEW how \in {"label", "LOCAL_FUNC", "LOCAL_VAR", "GOT_FUNC"},
         NEW fix, fix = Fix(how, i),
         UNCHANGED <<stage, ro_vars, units, marks>>
  PROVE  /\ fix \in FixEntry /\ fix.kind = how /\ fix.target = i.ref /\ fix.index = Len(code) + 1
         /\ Describes(fix, i.kind)'
         /\ code'[fix.index].fn = Len(units')
  <1>a. PICK kind, ref, len, inner :
          kind = i.kind /\ ref = i.ref /\ len = i.len /\ inner = i.inner
    OBVIOUS
  <1>b. /\ i = Instruction(kind, ref, len, inner)
        /\ kind \in {"jump", "call", "import", "address"}
        /\ ref \in Labels \cup Names \cup Imports
    BY <1>a
  <1>c. inner \in 0 .. 11 /\ len = inner + 4 BY <1>a
  <1>0. inner + 4 \in 1 .. 15 /\ inner \in 0 .. 15 BY <1>c
  <1>1. /\ Len(code) + 1 \in Nat \ {0} /\ DOMAIN code' = 1 .. Len(code) + 1
        /\ code'[Len(code) + 1] = i /\ offset \in Nat
    <2>1. len \in 1 .. 15 /\ inner \in 0 .. 15
          /\ kind \in {"plain", "jump", "call", "import", "address"}
      BY <1>b, <1>c
    <2>2. out_write(Instruction(kind, ref, len, inner)) BY <1>b, Zenon DEF out_write
    <2>3. /\ Len(code) + 1 \in Nat \ {0} /\ DOMAIN code' = 1 .. Len(code) + 1
          /\ code'[Len(code) + 1] = Instruction(kind, ref, len, inner) /\ offset \in Nat
      BY <1>b, <2>1, <2>2, WriteFacts
    <2> QED BY <1>b, <2>3
  <1>2. i.kind = kind /\ i.ref = ref /\ i.fn = Len(units) /\ i.at = offset
        /\ i.len = len /\ i.inner = inner
    BY <1>b DEF Instruction
  <1>3. fix = [kind |-> how, target |-> ref, index |-> Len(code) + 1,
               inner_offset |-> inner, ads_offset |-> offset]
    BY <1>2 DEF Fix
  <1>4. fix \in FixEntry BY <1>0, <1>1, <1>3, <1>b DEF FixEntry
  <1>5. fix.kind = how /\ fix.target = ref /\ fix.index = Len(code) + 1
        /\ fix.inner_offset = inner /\ fix.ads_offset = offset
    BY <1>3
  <1>6. Len(code) + 1 \in DOMAIN code' BY <1>1
  <1>7. Describes(fix, kind)' BY <1>1, <1>2, <1>5, <1>6, <1>c DEF Describes
  <1> QED BY <1>1, <1>2, <1>4, <1>5, <1>7

LEMMA PlainStep == ASSUME IInv, NEW n \in Lengths, Plain(n) PROVE IInv'
  <1>1. Writing /\ out_write(Instruction("plain", start, n, 0))
        /\ UNCHANGED <<stage, data_vars, ro_vars, units, marks, maps>>
    BY DEF Plain
  <1>2. n \in 1 .. 15 /\ start \in Labels \cup Names \cup Imports /\ 0 \in 0 .. 15
    BY AssembleAssumption DEF AssembleAssumption, Names
  <1>3. UNCHANGED <<func_decl, func_fix, file_decl, file_fix, outside_fix>> BY <1>1 DEF maps
  <1>4. /\ \A k \in DOMAIN func_fix.data : \A f : f = func_fix.data[k] =>
             f.kind = "label" /\ Describes(f, "jump")' /\ code'[f.index].fn = Len(units')
        /\ \A k \in DOMAIN file_fix.data : \A f : f = file_fix.data[k] =>
             \/ f.kind = "LOCAL_FUNC" /\ f.target \in Functions /\ Describes(f, "call")'
             \/ f.kind = "LOCAL_VAR" /\ f.target \in Strings \cup Globals /\ Describes(f, "address")'
    BY <1>1, <1>2, KeptFixes
  <1>5. LocalFixes' BY <1>3, <1>4 DEF LocalFixes
  <1>6. FileFixes' BY <1>3, <1>4 DEF FileFixes
  <1>7. \A m \in {func_fix', file_fix', outside_fix'} : m \in Entries(FixEntry) /\ Roomy(m)
    BY <1>3 DEF IInv, TypeInv, Tables
  <1>8. /\ Targets(func_fix') \subseteq Labels /\ Targets(file_fix') \subseteq Names
        /\ Targets(outside_fix') \subseteq Imports
    BY <1>3 DEF IInv, TypeInv
  <1> QED BY <1>1, <1>2, <1>3, <1>5, <1>6, <1>7, <1>8, WriteStep

LEMMA JumpStep == ASSUME IInv, NEW l \in Labels, NEW inner \in {1, 2}, Jump(l, inner) PROVE IInv'
  <1> DEFINE i == Instruction("jump", l, inner + 4, inner)
  <1>1. Writing /\ out_write(i) /\ func_fix' = Add(func_fix, Fix("label", i))
        /\ UNCHANGED <<stage, data_vars, ro_vars, units, marks, func_decl, file_decl, file_fix, outside_fix>>
    BY DEF Jump
  <1>2. inner + 4 \in 1 .. 15 /\ inner \in 0 .. 15 /\ inner \in 0 .. 11
        /\ l \in Labels \cup Names \cup Imports
    OBVIOUS
  <1>3. PICK fix : fix = Fix("label", i) OBVIOUS
  <1>4. /\ fix \in FixEntry /\ fix.kind = "label" /\ fix.target = l /\ fix.index = Len(code) + 1
        /\ Describes(fix, "jump")' /\ code'[fix.index].fn = Len(units')
    <2>1. PICK j : j = i OBVIOUS
    <2>a. j.kind = "jump" /\ j.ref = l /\ j.len = inner + 4 /\ j.inner = inner
      BY <2>1 DEF Instruction
    <2>2. j = Instruction(j.kind, j.ref, j.len, j.inner) /\ out_write(j) /\ fix = Fix("label", j)
      BY <1>1, <1>3, <2>1, <2>a
    <2>3. Writing /\ UNCHANGED <<stage, ro_vars, units, marks>> BY <1>1
    <2> HIDE DEF i
    <2> QED BY <1>2, <2>a, <2>2, <2>3, NewFix
  <1>5. /\ \A k \in DOMAIN func_fix.data : \A f : f = func_fix.data[k] =>
             f.kind = "label" /\ Describes(f, "jump")' /\ code'[f.index].fn = Len(units')
        /\ \A k \in DOMAIN file_fix.data : \A f : f = file_fix.data[k] =>
             \/ f.kind = "LOCAL_FUNC" /\ f.target \in Functions /\ Describes(f, "call")'
             \/ f.kind = "LOCAL_VAR" /\ f.target \in Strings \cup Globals /\ Describes(f, "address")'
    BY <1>1, <1>2, KeptFixes
  <1>6. /\ func_fix' \in Entries(FixEntry) /\ Roomy(func_fix')
        /\ Targets(func_fix') = Targets(func_fix) \cup {l}
        /\ DOMAIN func_fix'.data = DOMAIN func_fix.data \cup {Len(func_fix.data) + 1}
        /\ \A k \in DOMAIN func_fix.data : func_fix'.data[k] = func_fix.data[k]
        /\ func_fix'.data[Len(func_fix.data) + 1] = fix
    <2>1. func_fix \in Entries(FixEntry) /\ Roomy(func_fix) BY DEF IInv, TypeInv, Tables
    <2> QED BY <1>1, <1>3, <1>4, <2>1, AddFix
  <1>7. LocalFixes' BY <1>4, <1>5, <1>6 DEF LocalFixes
  <1>8. FileFixes' BY <1>1, <1>5 DEF FileFixes
  <1>9. \A m \in {func_fix', file_fix', outside_fix'} : m \in Entries(FixEntry) /\ Roomy(m)
    BY <1>1, <1>6 DEF IInv, TypeInv, Tables
  <1>10. /\ Targets(func_fix') \subseteq Labels /\ Targets(file_fix') \subseteq Names
         /\ Targets(outside_fix') \subseteq Imports
    BY <1>1, <1>6 DEF IInv, TypeInv
  <1>11. Len(func_fix.data) + 1 \in DOMAIN func_fix'.data
         /\ func_fix'.data[Len(func_fix.data) + 1].index = Len(code) + 1
    BY <1>4, <1>6
  <1>12. \A k \in DOMAIN func_fix.data : k \in DOMAIN func_fix'.data /\ func_fix'.data[k] = func_fix.data[k]
    BY <1>6
  <1> QED BY <1>1, <1>2, <1>7, <1>8, <1>9, <1>10, <1>11, <1>12, WriteStep

(* Calls and addresses wait for the whole file.                            *)
LEMMA ReferenceStep ==
  ASSUME IInv, Writing, NEW kind \in {"call", "address"}, NEW s \in Names,
         NEW inner \in 0 .. 11, NEW how \in {"LOCAL_FUNC", "LOCAL_VAR"},
         \/ kind = "call" /\ how = "LOCAL_FUNC" /\ s \in Functions
         \/ kind = "address" /\ how = "LOCAL_VAR" /\ s \in Strings \cup Globals,
         out_write(Instruction(kind, s, inner + 4, inner)),
         file_fix' = Add(file_fix, Fix(how, Instruction(kind, s, inner + 4, inner))),
         UNCHANGED <<stage, data_vars, ro_vars, units, marks, func_decl, func_fix, file_decl, outside_fix>>
  PROVE  IInv'
  <1> DEFINE i == Instruction(kind, s, inner + 4, inner)
  <1>2. inner + 4 \in 1 .. 15 /\ inner \in 0 .. 15 /\ s \in Labels \cup Names \cup Imports
    OBVIOUS
  <1>3. PICK fix : fix = Fix(how, i) OBVIOUS
  <1>4. /\ fix \in FixEntry /\ fix.kind = how /\ fix.target = s /\ fix.index = Len(code) + 1
        /\ Describes(fix, kind)'
    <2>1. PICK j : j = i OBVIOUS
    <2>a. j.kind = kind /\ j.ref = s /\ j.len = inner + 4 /\ j.inner = inner
      BY <2>1 DEF Instruction
    <2>2. j = Instruction(j.kind, j.ref, j.len, j.inner) /\ out_write(j) /\ fix = Fix(how, j)
      BY <1>3, <2>1, <2>a
    <2>3. UNCHANGED <<stage, ro_vars, units, marks>> OBVIOUS
    <2> HIDE DEF i
    <2> QED BY <1>2, <2>a, <2>2, <2>3, NewFix
  <1>5. /\ \A k \in DOMAIN func_fix.data : \A f : f = func_fix.data[k] =>
             f.kind = "label" /\ Describes(f, "jump")' /\ code'[f.index].fn = Len(units')
        /\ \A k \in DOMAIN file_fix.data : \A f : f = file_fix.data[k] =>
             \/ f.kind = "LOCAL_FUNC" /\ f.target \in Functions /\ Describes(f, "call")'
             \/ f.kind = "LOCAL_VAR" /\ f.target \in Strings \cup Globals /\ Describes(f, "address")'
    BY <1>2, KeptFixes
  <1>6. /\ file_fix' \in Entries(FixEntry) /\ Roomy(file_fix')
        /\ Targets(file_fix') = Targets(file_fix) \cup {s}
        /\ DOMAIN file_fix'.data = DOMAIN file_fix.data \cup {Len(file_fix.data) + 1}
        /\ \A k \in DOMAIN file_fix.data : file_fix'.data[k] = file_fix.data[k]
        /\ file_fix'.data[Len(file_fix.data) + 1] = fix
    <2>1. file_fix \in Entries(FixEntry) /\ Roomy(file_fix) BY DEF IInv, TypeInv, Tables
    <2> QED BY <1>3, <1>4, <2>1, AddFix
  <1>7. LocalFixes' BY <1>5 DEF LocalFixes
  <1>8. FileFixes'
    <2> SUFFICES ASSUME NEW k \in DOMAIN file_fix'.data, NEW f, f = file_fix'.data[k]
        PROVE \/ f.kind = "LOCAL_FUNC" /\ f.target \in Functions /\ Describes(f, "call")'
              \/ f.kind = "LOCAL_VAR" /\ f.target \in Strings \cup Globals /\ Describes(f, "address")'
      BY DEF FileFixes
    <2>1. CASE k \in DOMAIN file_fix.data BY <2>1, <1>5, <1>6
    <2>2. CASE k = Len(file_fix.data) + 1 BY <2>2, <1>4, <1>6
    <2> QED BY <2>1, <2>2, <1>6
  <1>9. \A m \in {func_fix', file_fix', outside_fix'} : m \in Entries(FixEntry) /\ Roomy(m)
    BY <1>6 DEF IInv, TypeInv, Tables
  <1>10. /\ Targets(func_fix') \subseteq Labels /\ Targets(file_fix') \subseteq Names
         /\ Targets(outside_fix') \subseteq Imports
    BY <1>6 DEF IInv, TypeInv
  <1>11. Len(file_fix.data) + 1 \in DOMAIN file_fix'.data
         /\ file_fix'.data[Len(file_fix.data) + 1].index = Len(code) + 1
    BY <1>4, <1>6
  <1>12. \A k \in DOMAIN file_fix.data : k \in DOMAIN file_fix'.data /\ file_fix'.data[k] = file_fix.data[k]
    BY <1>6
  <1> QED BY <1>2, <1>7, <1>8, <1>9, <1>10, <1>11, <1>12, WriteStep

LEMMA CallStep == ASSUME IInv, NEW f \in Functions, Call(f) PROVE IInv'
  <1>1. 1 + 4 = 5 /\ 1 \in 0 .. 11 /\ f \in Names BY DEF Names
  <1>2. Writing /\ out_write(Instruction("call", f, 5, 1))
        /\ file_fix' = Add(file_fix, Fix("LOCAL_FUNC", Instruction("call", f, 5, 1)))
        /\ UNCHANGED <<stage, data_vars, ro_vars, units, marks, func_decl, func_fix, file_decl, outside_fix>>
    BY DEF Call
  <1>3. Writing /\ out_write(Instruction("call", f, 1 + 4, 1))
        /\ file_fix' = Add(file_fix, Fix("LOCAL_FUNC", Instruction("call", f, 1 + 4, 1)))
    BY <1>1, <1>2
  <1> QED BY <1>1, <1>2, <1>3, ReferenceStep

LEMMA LeaStep == ASSUME IInv, NEW s \in Strings \cup Globals, Lea(s) PROVE IInv'
  <1>1. 3 + 4 = 7 /\ 3 \in 0 .. 11 /\ s \in Names BY DEF Names
  <1>2. Writing /\ out_write(Instruction("address", s, 7, 3))
        /\ file_fix' = Add(file_fix, Fix("LOCAL_VAR", Instruction("address", s, 7, 3)))
        /\ UNCHANGED <<stage, data_vars, ro_vars, units, marks, func_decl, func_fix, file_decl, outside_fix>>
    BY DEF Lea
  <1>3. Writing /\ out_write(Instruction("address", s, 3 + 4, 3))
        /\ file_fix' = Add(file_fix, Fix("LOCAL_VAR", Instruction("address", s, 3 + 4, 3)))
    BY <1>1, <1>2
  <1> QED BY <1>1, <1>2, <1>3, ReferenceStep

LEMMA CallImportStep == ASSUME IInv, NEW q \in Imports, CallImport(q) PROVE IInv'
  <1> DEFINE i == Instruction("import", q, 5, 1)
  <1>1. Writing /\ out_write(i) /\ outside_fix' = Add(outside_fix, Fix("GOT_FUNC", i))
        /\ UNCHANGED <<stage, data_vars, ro_vars, units, marks, func_decl, func_fix, file_decl, file_fix>>
    BY DEF CallImport
  <1>2. 5 \in 1 .. 15 /\ 1 \in 0 .. 15 /\ 1 \in 0 .. 11 /\ 1 + 4 = 5
        /\ q \in Labels \cup Names \cup Imports
    OBVIOUS
  <1>4. PICK fix : fix = Fix("GOT_FUNC", i) OBVIOUS
  <1>5. fix \in FixEntry /\ fix.target = q
    <2>1. PICK j : j = i OBVIOUS
    <2>a. j.kind = "import" /\ j.ref = q /\ j.len = 5 /\ j.inner = 1
      BY <2>1 DEF Instruction
    <2>2. j = Instruction(j.kind, j.ref, j.len, j.inner) /\ out_write(j) /\ fix = Fix("GOT_FUNC", j)
      BY <1>1, <1>4, <2>1, <2>a
    <2>3. Writing /\ UNCHANGED <<stage, ro_vars, units, marks>> BY <1>1
    <2> HIDE DEF i
    <2> QED BY <1>2, <2>a, <2>2, <2>3, NewFix
  <1>6. outside_fix' = Add(outside_fix, fix) BY <1>1, <1>2, <1>4
  <1>7. /\ outside_fix' \in Entries(FixEntry) /\ Roomy(outside_fix')
        /\ Targets(outside_fix') = Targets(outside_fix) \cup {q}
    <2>1. outside_fix \in Entries(FixEntry) /\ Roomy(outside_fix) BY DEF IInv, TypeInv, Tables
    <2> QED BY <1>5, <1>6, <2>1, AddFix
  <1>8. /\ \A k \in DOMAIN func_fix.data : \A f : f = func_fix.data[k] =>
             f.kind = "label" /\ Describes(f, "jump")' /\ code'[f.index].fn = Len(units')
        /\ \A k \in DOMAIN file_fix.data : \A f : f = file_fix.data[k] =>
             \/ f.kind = "LOCAL_FUNC" /\ f.target \in Functions /\ Describes(f, "call")'
             \/ f.kind = "LOCAL_VAR" /\ f.target \in Strings \cup Globals /\ Describes(f, "address")'
    BY <1>1, <1>2, KeptFixes
  <1>9. LocalFixes' BY <1>1, <1>8 DEF LocalFixes
  <1>10. FileFixes' BY <1>1, <1>8 DEF FileFixes
  <1>11. \A m \in {func_fix', file_fix', outside_fix'} : m \in Entries(FixEntry) /\ Roomy(m)
    BY <1>1, <1>7 DEF IInv, TypeInv, Tables
  <1>12. /\ Targets(func_fix') \subseteq Labels /\ Targets(file_fix') \subseteq Names
         /\ Targets(outside_fix') \subseteq Imports
    BY <1>1, <1>7 DEF IInv, TypeInv
  <1> QED BY <1>1, <1>2, <1>9, <1>10, <1>11, <1>12, WriteStep

LEMMA LocalLabelStep == ASSUME IInv, NEW l \in Labels, LocalLabel(l) PROVE IInv'
  <1> DEFINE e == Decl(l, offset)
  <1>1. /\ stage = "text" /\ stage' = stage /\ units # <<>>
        /\ func_decl' = Add(func_decl, e) /\ marks' = marks \cup {Mark(l)}
        /\ UNCHANGED <<data_vars, ro_vars, code, offset, units, func_fix, file_decl, file_fix, outside_fix>>
    BY DEF LocalLabel, At
  <1>2. /\ offset \in Nat /\ code \in Seq(Code) /\ func_decl \in Entries(DeclEntry)
        /\ units \in Seq([name : Functions \cup {start}, first : Nat \ {0}])
    BY DEF IInv, TypeInv
  <1>3. Len(units) \in Nat \ {0} /\ Len(code) \in Nat BY <1>1, <1>2
  <1>4. e \in DeclEntry /\ e.name = l /\ e.offset = offset BY <1>2 DEF Decl, DeclEntry
  <1> HIDE DEF e
  <1>5. /\ func_decl' \in Entries(DeclEntry) /\ First(func_decl') /\ Roomy(func_decl')
        /\ func_decl'.data = Append(func_decl.data, e)
    BY <1>1, <1>2, <1>4, AddFacts, AddFirst, AddRoomy DEF IInv, Tables
  <1>6. func_decl.data \in Seq(DeclEntry) BY <1>2 DEF Entries
  <1>7. /\ DOMAIN func_decl'.data = 1 .. Len(func_decl.data) + 1
        /\ DOMAIN func_decl.data = 1 .. Len(func_decl.data) /\ Len(func_decl.data) \in Nat
        /\ \A i \in DOMAIN func_decl.data : func_decl'.data[i] = func_decl.data[i]
        /\ func_decl'.data[Len(func_decl.data) + 1] = e
    BY <1>4, <1>5, <1>6, AppendFacts
  <1>8. /\ Mark(l).fn = Len(units) /\ Mark(l).label = l /\ Mark(l).next = Len(code) + 1
        /\ Mark(l) \in [fn : 1 .. Len(units), label : Labels, next : 1 .. Len(code) + 1]
    BY <1>3 DEF Mark
  <1>9. Declared(func_decl') = Declared(func_decl) \cup {l} BY <1>4, <1>7 DEF Declared
  <1>10. TypeInv'
    BY <1>1, <1>5, <1>8, <1>9 DEF IInv, TypeInv, data_vars, ro_vars, Declared, Targets
  <1>11. InData' /\ Bounds' /\ OffsetsAreBytes'
    BY <1>1 DEF IInv, InData, Bounds, OffsetsAreBytes, Address, After, data_vars
  <1>12. First(func_decl)' /\ First(file_decl)' BY <1>1, <1>5 DEF IInv, First
  <1>13. LocalFixes' /\ FileFixes' BY <1>1 DEF IInv, LocalFixes, FileFixes, Describes
  <1>14. JumpsWait' /\ ReferencesWait' BY <1>1 DEF IInv, JumpsWait, ReferencesWait
  <1>15. Address(Len(code) + 1) = offset BY <1>3 DEF Address
  <1>16. LocalDecls'
    <2> SUFFICES ASSUME NEW d \in DOMAIN func_decl'.data
        PROVE \E m \in marks' : /\ m.fn = Len(units) /\ m.label = func_decl'.data[d].name
                                /\ Address(m.next) = func_decl'.data[d].offset
      BY <1>1 DEF LocalDecls, Address
    <2>1. CASE d \in DOMAIN func_decl.data
      <3>1. func_decl'.data[d] = func_decl.data[d] BY <2>1, <1>7
      <3> QED BY <2>1, <3>1, <1>1 DEF IInv, LocalDecls
    <2>2. CASE d = Len(func_decl.data) + 1
      <3>1. func_decl'.data[d] = e /\ Mark(l) \in marks' BY <2>2, <1>1, <1>7
      <3> QED BY <3>1, <1>4, <1>8, <1>15
    <2> QED BY <2>1, <2>2, <1>7
  <1>17. FileDecls' BY <1>1 DEF IInv, FileDecls, Address, ro_vars
  <1>18. JumpsLand'
    <2>1. \A i \in DOMAIN code : Fixed(i)' => Fixed(i) BY <1>1 DEF Fixed
    <2>2. \A i \in DOMAIN code : After(i)' = After(i) BY <1>1 DEF After
    <2>3. \A k : Address(k)' = Address(k) BY <1>1 DEF Address
    <2> QED BY <1>1, <2>1, <2>2, <2>3 DEF IInv, JumpsLand
  <1>19. CallsLand' /\ AddressesWait' BY <1>1 DEF CallsLand, AddressesWait
  <1>20. (\A m \in Tables : Roomy(m))' BY <1>1, <1>5 DEF IInv, Tables
  <1> QED BY <1>10, <1>11, <1>12, <1>13, <1>14, <1>16, <1>17, <1>18, <1>19, <1>20 DEF IInv

-----------------------------------------------------------------------------
(***************************************************************************)
(* Fixing                                                                  *)
(***************************************************************************)
(* A jump counts from the byte after it: at is where it lies, n where in   *)
(* it the four bytes of the displacement begin, o the label.               *)
LEMMA Displaced ==
  ASSUME NEW o \in Nat, NEW at \in Nat, NEW n \in 0 .. 15
  PROVE  (at + (n + 4)) + (o - at - n - 4) = o
  OBVIOUS

(* When the function's labels are all declared, fix_labels_inside_func     *)
(* makes each of its jumps land.                                           *)
LEMMA FuncPatched ==
  ASSUME IInv, At("text"), LabelsClosed
  PROVE  LET p == Patched(code, func_fix, func_decl) IN
         /\ p \in Seq(Code) /\ Len(p) = Len(code) /\ DOMAIN p = DOMAIN code
         /\ \A i \in DOMAIN code :
              /\ p[i].kind = code[i].kind /\ p[i].ref = code[i].ref /\ p[i].fn = code[i].fn
              /\ p[i].at = code[i].at /\ p[i].len = code[i].len
              /\ code[i].kind = "jump" =>
                   \E m \in marks : /\ m.fn = code[i].fn /\ m.label = code[i].ref
                                    /\ After(i) + p[i].disp = Address(m.next)
  <1> DEFINE p == Patched(code, func_fix, func_decl)
  <1>1. /\ stage = "text" /\ code \in Seq(Code) /\ func_fix \in Entries(FixEntry)
        /\ func_decl \in Entries(DeclEntry) /\ First(func_decl)
        /\ Targets(func_fix) \subseteq Declared(func_decl)
    BY DEF IInv, TypeInv, At, LabelsClosed
  <1>2. /\ p \in Seq(Code) /\ Len(p) = Len(code) /\ DOMAIN p = DOMAIN code
        /\ \A i \in DOMAIN code :
             /\ p[i].kind = code[i].kind /\ p[i].ref = code[i].ref /\ p[i].fn = code[i].fn
             /\ p[i].at = code[i].at /\ p[i].len = code[i].len
    BY <1>1, PatchedFacts
  <1>3. \A i \in DOMAIN code :
          (~ \E k \in DOMAIN func_fix.data : func_fix.data[k].index = i) => p[i] = code[i]
    BY <1>1, PatchedFacts
  <1>4. \A i \in DOMAIN code :
          (\E k \in DOMAIN func_fix.data : func_fix.data[k].index = i) =>
            \E k \in DOMAIN func_fix.data, d \in DOMAIN func_decl.data :
              /\ func_fix.data[k].index = i
              /\ func_decl.data[d].name = func_fix.data[k].target
              /\ p[i].disp = disp32(func_fix.data[k], func_decl.data[d])
    BY <1>1, PatchedFacts
  <1> HIDE DEF p
  <1>5. ASSUME NEW i \in DOMAIN code, code[i].kind = "jump"
        PROVE  \E m \in marks : /\ m.fn = code[i].fn /\ m.label = code[i].ref
                                /\ After(i) + p[i].disp = Address(m.next)
    <2>1. CASE \E k \in DOMAIN func_fix.data : func_fix.data[k].index = i
      <3>1. PICK k \in DOMAIN func_fix.data, d \in DOMAIN func_decl.data :
              /\ func_fix.data[k].index = i
              /\ func_decl.data[d].name = func_fix.data[k].target
              /\ p[i].disp = disp32(func_fix.data[k], func_decl.data[d])
        BY <2>1, <1>4
      <3>2. /\ func_fix.data[k].kind = "label" /\ code[i].fn = Len(units)
            /\ code[i].ref = func_fix.data[k].target
            /\ func_fix.data[k].ads_offset = code[i].at
            /\ func_fix.data[k].inner_offset + 4 = code[i].len
        BY <3>1 DEF IInv, LocalFixes, Describes
      <3>3. PICK m \in marks : /\ m.fn = Len(units) /\ m.label = func_decl.data[d].name
                              /\ Address(m.next) = func_decl.data[d].offset
        BY DEF IInv, LocalDecls
      <3>4. /\ func_fix.data[k].inner_offset \in 0 .. 15 /\ func_decl.data[d].offset \in Nat
            /\ code[i].at \in Nat
        <4>1. func_fix.data[k] \in FixEntry BY <1>1 DEF Entries
        <4>2. func_decl.data[d] \in DeclEntry BY <1>1 DEF Entries
        <4>3. code[i] \in Code BY <1>1
        <4> QED BY <4>1, <4>2, <4>3 DEF FixEntry, DeclEntry, Code
      <3>5. p[i].disp = func_decl.data[d].offset - code[i].at - func_fix.data[k].inner_offset - 4
        BY <3>1, <3>2 DEF disp32
      <3>6. After(i) = code[i].at + (func_fix.data[k].inner_offset + 4) BY <3>2 DEF After
      <3>7. After(i) + p[i].disp = func_decl.data[d].offset
        BY <3>4, <3>5, <3>6, Displaced
      <3> QED BY <3>1, <3>2, <3>3, <3>7
    <2>2. CASE ~ \E k \in DOMAIN func_fix.data : func_fix.data[k].index = i
      <3>1. code[i].fn # Len(units) BY <2>2, <1>1, <1>5 DEF IInv, JumpsWait
      <3>2. code[i].fn \in 1 .. Len(units) /\ Len(units) \in Nat BY DEF IInv, Bounds, TypeInv
      <3>3. Fixed(i) BY <3>1, <3>2 DEF Fixed
      <3> QED BY <3>3, <2>2, <1>3, <1>5 DEF IInv, JumpsLand
    <2> QED BY <2>1, <2>2
  <1> QED BY <1>2, <1>5 DEF p

LEMMA FixFunc ==
  ASSUME IInv, At("text"), LabelsClosed, fix_labels_inside_func, offset' = offset, marks' = marks
  PROVE  /\ code' \in Seq(Code) /\ Len(code') = Len(code) /\ DOMAIN code' = DOMAIN code
         /\ \A i \in DOMAIN code :
              /\ code'[i].kind = code[i].kind /\ code'[i].ref = code[i].ref
              /\ code'[i].fn = code[i].fn
         /\ \A k \in 1 .. Len(code) + 1 : Address(k)' = Address(k)
         /\ OffsetsAreBytes'
         /\ \A fix, kind : Describes(fix, kind)' <=> Describes(fix, kind)
         /\ JumpsLand'
         /\ func_decl'.data = <<>> /\ func_fix'.data = <<>>
         /\ func_decl' \in Entries(DeclEntry) /\ func_fix' \in Entries(FixEntry)
         /\ Declared(func_decl') = {} /\ Targets(func_fix') = {}
         /\ First(func_decl') /\ Roomy(func_decl') /\ Roomy(func_fix')
  <1>1. /\ code' \in Seq(Code) /\ Len(code') = Len(code) /\ DOMAIN code' = DOMAIN code
        /\ \A i \in DOMAIN code :
              /\ code'[i].kind = code[i].kind /\ code'[i].ref = code[i].ref
              /\ code'[i].fn = code[i].fn
              /\ code'[i].at = code[i].at /\ code'[i].len = code[i].len
              /\ code[i].kind = "jump" =>
                   \E m \in marks : /\ m.fn = code[i].fn /\ m.label = code[i].ref
                                    /\ After(i) + code'[i].disp = Address(m.next)
    BY FuncPatched DEF fix_labels_inside_func
  <1>2. TypeInv /\ Bounds /\ OffsetsAreBytes BY DEF IInv
  <1>3. /\ \A k \in 1 .. Len(code) + 1 : Address(k)' = Address(k)
        /\ \A i \in DOMAIN code : After(i)' = After(i)
        /\ OffsetsAreBytes'
        /\ \A fix, kind : Describes(fix, kind)' <=> Describes(fix, kind)
    BY <1>1, <1>2, SameAddresses
  <1>4. \A m \in marks : m.next \in 1 .. Len(code) + 1 BY DEF IInv, TypeInv
  <1>5. JumpsLand' BY <1>1, <1>3, <1>4 DEF JumpsLand
  <1>6. func_decl' = EmptyMap /\ func_fix' = EmptyMap BY DEF fix_labels_inside_func
  <1> QED BY <1>1, <1>3, <1>5, <1>6, EmptyFacts

LEMMA GlobalLabelStep == ASSUME IInv, NEW f \in Functions \cup {start}, GlobalLabel(f) PROVE IInv'
  <1> DEFINE e == Decl(f, offset)
             u == [name |-> f, first |-> Len(code) + 1]
  <1>1. /\ At("text") /\ LabelsClosed /\ fix_labels_inside_func
        /\ stage = "text" /\ stage' = stage /\ (units = <<>> <=> f = start)
        /\ file_decl' = Add(file_decl, e) /\ units' = Append(units, u)
        /\ UNCHANGED <<data_vars, ro_vars, offset, marks, file_fix, outside_fix>>
    BY DEF GlobalLabel, At
  <1>2. /\ code' \in Seq(Code) /\ Len(code') = Len(code) /\ DOMAIN code' = DOMAIN code
        /\ \A i \in DOMAIN code :
              /\ code'[i].kind = code[i].kind /\ code'[i].ref = code[i].ref
              /\ code'[i].fn = code[i].fn
        /\ \A k \in 1 .. Len(code) + 1 : Address(k)' = Address(k)
        /\ OffsetsAreBytes'
        /\ \A fix, kind : Describes(fix, kind)' <=> Describes(fix, kind)
        /\ JumpsLand'
        /\ func_decl'.data = <<>> /\ func_fix'.data = <<>>
        /\ func_decl' \in Entries(DeclEntry) /\ func_fix' \in Entries(FixEntry)
        /\ Declared(func_decl') = {} /\ Targets(func_fix') = {}
        /\ First(func_decl') /\ Roomy(func_decl') /\ Roomy(func_fix')
    BY <1>1, FixFunc
  <1>3. /\ offset \in Nat /\ code \in Seq(Code) /\ file_decl \in Entries(DeclEntry)
        /\ units \in Seq([name : Functions \cup {start}, first : Nat \ {0}])
        /\ \A i \in DOMAIN code : code[i].fn \in 1 .. Len(units)
        /\ \A k \in DOMAIN units : units[k].first \in 1 .. Len(code) + 1
    BY DEF IInv, TypeInv, Bounds
  <1>4. Len(units) \in Nat /\ Len(code) \in Nat /\ DOMAIN code = 1 .. Len(code) BY <1>3
  <1>5. e \in DeclEntry /\ e.name = f /\ e.offset = offset BY <1>3 DEF Decl, DeclEntry, Names
  <1>6. u \in [name : Functions \cup {start}, first : Nat \ {0}] /\ u.name = f /\ u.first = Len(code) + 1
    BY <1>4
  <1>7. units = <<>> => u = [name |-> start, first |-> 1]
    <2> SUFFICES ASSUME units = <<>> PROVE Len(code) = 0 /\ f = start OBVIOUS
    <2>1. DOMAIN code = {} BY <1>3, <1>4
    <2> QED BY <2>1, <1>1, <1>4
  <1> HIDE DEF e, u
  <1>8. /\ file_decl' \in Entries(DeclEntry) /\ First(file_decl') /\ Roomy(file_decl')
        /\ file_decl'.data = Append(file_decl.data, e)
    BY <1>1, <1>3, <1>5, AddFacts, AddFirst, AddRoomy DEF IInv, Tables
  <1>9. file_decl.data \in Seq(DeclEntry) BY <1>3 DEF Entries
  <1>10. /\ DOMAIN file_decl'.data = 1 .. Len(file_decl.data) + 1
         /\ DOMAIN file_decl.data = 1 .. Len(file_decl.data) /\ Len(file_decl.data) \in Nat
         /\ \A i \in DOMAIN file_decl.data : file_decl'.data[i] = file_decl.data[i]
         /\ file_decl'.data[Len(file_decl.data) + 1] = e
    BY <1>5, <1>8, <1>9, AppendFacts
  <1>11. /\ units' \in Seq([name : Functions \cup {start}, first : Nat \ {0}])
         /\ Len(units') = Len(units) + 1
         /\ DOMAIN units' = 1 .. Len(units) + 1 /\ DOMAIN units = 1 .. Len(units)
         /\ \A k \in DOMAIN units : units'[k] = units[k]
         /\ units'[Len(units) + 1] = u
    BY <1>1, <1>3, <1>6, AppendFacts
  <1>12. TypeInv'
    <2>1. units'[1] = [name |-> start, first |-> 1]
      <3>1. CASE units = <<>>
        <4>1. Len(units) = 0 BY <3>1
        <4> QED BY <3>1, <4>1, <1>7, <1>11
      <3>2. CASE units # <<>>
        <4>1. 1 \in DOMAIN units BY <3>2, <1>3
        <4> QED BY <3>2, <4>1, <1>11 DEF IInv, TypeInv
      <3> QED BY <3>1, <3>2
    <2>2. marks' \subseteq [fn : 1 .. Len(units'), label : Labels, next : 1 .. Len(code') + 1]
      <3>1. marks \subseteq [fn : 1 .. Len(units), label : Labels, next : 1 .. Len(code) + 1]
        BY DEF IInv, TypeInv
      <3>2. 1 .. Len(units) \subseteq 1 .. Len(units') BY <1>4, <1>11
      <3> QED BY <3>1, <3>2, <1>1, <1>2
    <2>3. Declared(file_decl') = Declared(file_decl) \cup {f} BY <1>5, <1>10 DEF Declared
    <2>4. f \in Names BY DEF Names
    <2> QED BY <1>1, <1>2, <1>8, <1>11, <2>1, <2>2, <2>3, <2>4 DEF IInv, TypeInv, data_vars, ro_vars
  <1>13. InData' BY <1>1 DEF IInv, InData, data_vars
  <1>14. Bounds'
    <2>1. \A i \in DOMAIN code' : code'[i].fn \in 1 .. Len(units') BY <1>2, <1>3, <1>4, <1>11
    <2>2. \A k \in DOMAIN units' : units'[k].first \in 1 .. Len(code') + 1
      <3>1. \A k \in DOMAIN units : units'[k].first \in 1 .. Len(code) + 1 BY <1>3, <1>11
      <3>2. units'[Len(units) + 1].first \in 1 .. Len(code) + 1 BY <1>4, <1>6, <1>11
      <3>3. \A k \in DOMAIN units' : k \in DOMAIN units \/ k = Len(units) + 1 BY <1>4, <1>11
      <3> QED BY <3>1, <3>2, <3>3, <1>2
    <2> QED BY <2>1, <2>2 DEF Bounds
  <1>15. First(func_decl)' /\ First(file_decl)' BY <1>2, <1>8 DEF First
  <1>16. LocalFixes' BY <1>2 DEF LocalFixes
  <1>17. FileFixes' BY <1>1, <1>2 DEF IInv, FileFixes
  <1>18. JumpsWait'
    <2>1. ASSUME NEW i \in DOMAIN code' PROVE code'[i].fn # Len(units')
      <3>1. code'[i].fn = code[i].fn /\ code[i].fn \in 1 .. Len(units) BY <1>2, <1>3
      <3>2. Len(units') = Len(units) + 1 BY <1>11
      <3> QED BY <3>1, <3>2, <1>4
    <2> QED BY <2>1 DEF JumpsWait
  <1>19. ReferencesWait' BY <1>1, <1>2 DEF IInv, ReferencesWait
  <1>20. LocalDecls' BY <1>2 DEF LocalDecls
  <1>21. FileDecls'
    <2> SUFFICES ASSUME NEW d \in DOMAIN file_decl'.data
        PROVE LET x == file_decl'.data[d] IN
              \/ /\ x.name \in Functions \cup {start}
                 /\ \E k \in DOMAIN units' : units'[k].name = x.name /\ Address(units[k].first)' = x.offset
              \/ /\ x.name \in Strings
                 /\ \E r \in DOMAIN rodata : rodata[r].name = x.name /\ rodata[r].at = x.offset
      BY <1>1 DEF FileDecls, ro_vars
    <2>1. CASE d \in DOMAIN file_decl.data
      <3>1. file_decl'.data[d] = file_decl.data[d] BY <2>1, <1>10
      <3>2. ASSUME NEW k \in DOMAIN units
            PROVE  /\ k \in DOMAIN units' /\ units'[k] = units[k]
                   /\ Address(units[k].first)' = Address(units[k].first)
        <4>1. k \in DOMAIN units' /\ units'[k] = units[k] BY <1>4, <1>11
        <4>2. units[k].first \in 1 .. Len(code) + 1 BY <1>3
        <4>3. \A n : n = units[k].first => Address(n)' = Address(n) BY <4>2, <1>2
        <4> QED BY <4>1, <4>3
      <3>3. FileDecls BY DEF IInv
      <3> QED BY <2>1, <3>1, <3>2, <3>3 DEF FileDecls
    <2>2. CASE d = Len(file_decl.data) + 1
      <3>1. file_decl'.data[d] = e BY <2>2, <1>10
      <3>2. Len(units) + 1 \in DOMAIN units' BY <1>4, <1>11
      <3>3. Address(Len(code) + 1) = offset BY <1>4 DEF Address
      <3>4. \A k : k = Len(code) + 1 => Address(k)' = offset BY <1>2, <1>4, <3>3
      <3>5. units'[Len(units) + 1].first = Len(code) + 1 BY <1>6, <1>11
      <3>6. \A k : k = Len(units) + 1 => Address(units[k].first)' = offset BY <3>4, <3>5
      <3> QED BY <3>1, <3>2, <3>6, <1>5, <1>6, <1>11
    <2> QED BY <2>1, <2>2, <1>10
  <1>22. CallsLand' /\ AddressesWait' BY <1>1 DEF CallsLand, AddressesWait
  <1>23. (\A m \in Tables : Roomy(m))' BY <1>1, <1>2, <1>8 DEF IInv, Tables
  <1> QED BY <1>2, <1>12, <1>13, <1>14, <1>15, <1>16, <1>17, <1>18, <1>19, <1>20, <1>21, <1>22, <1>23
          DEF IInv

(* The assertion of fix_labels_inside_file fails after the function was    *)
(* fixed.                                                                  *)
LEMMA AbortStep == ASSUME IInv, Abort PROVE IInv'
  <1>1. /\ At("text") /\ LabelsClosed /\ fix_labels_inside_func /\ stage' = "aborted"
        /\ UNCHANGED <<data_vars, ro_vars, offset, units, marks, file_decl, file_fix, outside_fix>>
    BY DEF Abort, EndOfText
  <1>2. /\ code' \in Seq(Code) /\ Len(code') = Len(code) /\ DOMAIN code' = DOMAIN code
        /\ \A i \in DOMAIN code :
              /\ code'[i].kind = code[i].kind /\ code'[i].ref = code[i].ref
              /\ code'[i].fn = code[i].fn
        /\ \A k \in 1 .. Len(code) + 1 : Address(k)' = Address(k)
        /\ OffsetsAreBytes'
        /\ \A fix, kind : Describes(fix, kind)' <=> Describes(fix, kind)
        /\ JumpsLand'
        /\ func_decl'.data = <<>> /\ func_fix'.data = <<>>
        /\ func_decl' \in Entries(DeclEntry) /\ func_fix' \in Entries(FixEntry)
        /\ Declared(func_decl') = {} /\ Targets(func_fix') = {}
        /\ First(func_decl') /\ Roomy(func_decl') /\ Roomy(func_fix')
    BY <1>1, FixFunc
  <1>3. TypeInv' BY <1>1, <1>2 DEF IInv, TypeInv, data_vars, ro_vars, Declared, Targets
  <1>4. InData' /\ Bounds' BY <1>1, <1>2 DEF IInv, InData, Bounds, data_vars
  <1>5. First(func_decl)' /\ First(file_decl)' BY <1>1, <1>2 DEF IInv, First
  <1>6. LocalFixes' /\ LocalDecls' BY <1>2 DEF LocalFixes, LocalDecls
  <1>7. FileFixes' BY <1>1, <1>2 DEF IInv, FileFixes
  <1>8. JumpsWait' BY <1>1 DEF JumpsWait
  <1>9. ReferencesWait' BY <1>1, <1>2 DEF IInv, ReferencesWait
  <1>10. FileDecls'
    <2>1. \A u \in DOMAIN units : Address(units[u].first)' = Address(units[u].first)
      BY <1>1, <1>2 DEF IInv, Bounds
    <2>2. FileDecls BY DEF IInv
    <2> QED BY <2>1, <2>2, <1>1 DEF FileDecls, ro_vars
  <1>11. CallsLand' /\ AddressesWait' BY <1>1 DEF CallsLand, AddressesWait
  <1>12. (\A m \in Tables : Roomy(m))' BY <1>1, <1>2 DEF IInv, Tables
  <1> QED BY <1>2, <1>3, <1>4, <1>5, <1>6, <1>7, <1>8, <1>9, <1>10, <1>11, <1>12 DEF IInv

(* Every displacement is written once the file is done: those of the last  *)
(* function, then calls and addresses.                                     *)
LEMMA FinishStep == ASSUME IInv, Finish PROVE IInv'
  <1> DEFINE c == Patched(code, func_fix, func_decl)
  <1>1. /\ At("text") /\ LabelsClosed /\ stage' = "done"
        /\ Targets(file_fix) \subseteq Declared(file_decl)
        /\ code' = Patched(c, file_fix, file_decl)
        /\ func_decl' = EmptyMap /\ func_fix' = EmptyMap
        /\ UNCHANGED <<data_vars, ro_vars, offset, units, marks, file_decl, file_fix, outside_fix>>
    BY DEF Finish, EndOfText
  <1>2. /\ c \in Seq(Code) /\ Len(c) = Len(code) /\ DOMAIN c = DOMAIN code
        /\ \A i \in DOMAIN code :
              /\ c[i].kind = code[i].kind /\ c[i].ref = code[i].ref /\ c[i].fn = code[i].fn
              /\ c[i].at = code[i].at /\ c[i].len = code[i].len
              /\ code[i].kind = "jump" =>
                   \E m \in marks : /\ m.fn = code[i].fn /\ m.label = code[i].ref
                                    /\ After(i) + c[i].disp = Address(m.next)
    BY <1>1, FuncPatched
  <1> HIDE DEF c
  <1>3. /\ file_fix \in Entries(FixEntry) /\ file_decl \in Entries(DeclEntry) /\ First(file_decl)
        /\ code \in Seq(Code)
    BY DEF IInv, TypeInv
  <1>4. /\ code' \in Seq(Code) /\ Len(code') = Len(c) /\ DOMAIN code' = DOMAIN c
        /\ \A i \in DOMAIN c :
             /\ code'[i].kind = c[i].kind /\ code'[i].ref = c[i].ref /\ code'[i].fn = c[i].fn
             /\ code'[i].at = c[i].at /\ code'[i].len = c[i].len
    BY <1>1, <1>2, <1>3, PatchedFacts
  <1>5. \A i \in DOMAIN c :
          (~ \E k \in DOMAIN file_fix.data : file_fix.data[k].index = i) => code'[i] = c[i]
    BY <1>1, <1>2, <1>3, PatchedFacts
  <1>6. \A i \in DOMAIN c :
          (\E k \in DOMAIN file_fix.data : file_fix.data[k].index = i) =>
            \E k \in DOMAIN file_fix.data, d \in DOMAIN file_decl.data :
              /\ file_fix.data[k].index = i
              /\ file_decl.data[d].name = file_fix.data[k].target
              /\ code'[i].disp = disp32(file_fix.data[k], file_decl.data[d])
    BY <1>1, <1>2, <1>3, PatchedFacts
  <1>7. /\ Len(code') = Len(code) /\ DOMAIN code' = DOMAIN code
        /\ \A i \in DOMAIN code :
              /\ code'[i].kind = code[i].kind /\ code'[i].ref = code[i].ref
              /\ code'[i].fn = code[i].fn
              /\ code'[i].at = code[i].at /\ code'[i].len = code[i].len
    BY <1>2, <1>4
  <1>8. TypeInv /\ Bounds /\ OffsetsAreBytes /\ FileFixes /\ FileDecls BY DEF IInv
  <1>9. /\ \A k \in 1 .. Len(code) + 1 : Address(k)' = Address(k)
        /\ \A i \in DOMAIN code : After(i)' = After(i)
        /\ OffsetsAreBytes'
        /\ \A fix, kind : Describes(fix, kind)' <=> Describes(fix, kind)
    BY <1>1, <1>7, <1>8, SameAddresses
  <1>10. JumpsLand'
    <2> SUFFICES ASSUME NEW i \in DOMAIN code, code[i].kind = "jump"
        PROVE \E m \in marks : /\ m.fn = code[i].fn /\ m.label = code[i].ref
                               /\ After(i)' + code'[i].disp = Address(m.next)'
      BY <1>1, <1>7 DEF JumpsLand
    <2>1. ~ \E k \in DOMAIN file_fix.data : file_fix.data[k].index = i
      BY <1>8 DEF FileFixes, Describes
    <2>2. code'[i] = c[i] BY <2>1, <1>2, <1>5
    <2>3. \A m \in marks : m.next \in 1 .. Len(code) + 1 BY <1>8 DEF TypeInv
    <2> QED BY <2>2, <2>3, <1>2, <1>9
  <1>11. CallsLand'
    <2> SUFFICES ASSUME NEW i \in DOMAIN code, code[i].kind = "call"
        PROVE \E u \in DOMAIN units : /\ units[u].name = code[i].ref
                                      /\ After(i)' + code'[i].disp = Address(units[u].first)'
      BY <1>1, <1>7 DEF CallsLand
    <2>1. \E k \in DOMAIN file_fix.data : file_fix.data[k].index = i BY DEF IInv, ReferencesWait
    <2>2. PICK k \in DOMAIN file_fix.data, d \in DOMAIN file_decl.data :
            /\ file_fix.data[k].index = i
            /\ file_decl.data[d].name = file_fix.data[k].target
            /\ code'[i].disp = disp32(file_fix.data[k], file_decl.data[d])
      BY <2>1, <1>2, <1>6
    <2>3. /\ file_fix.data[k].kind = "LOCAL_FUNC" /\ file_fix.data[k].target \in Functions
          /\ Describes(file_fix.data[k], "call")
      BY <2>2, <1>8 DEF FileFixes, Describes
    <2>4. PICK u \in DOMAIN units : /\ units[u].name = file_decl.data[d].name
                                   /\ Address(units[u].first) = file_decl.data[d].offset
      <3>1. file_decl.data[d].name \notin Strings
        BY <2>2, <2>3, AssembleAssumption DEF AssembleAssumption
      <3> QED BY <3>1, <1>8 DEF FileDecls
    <2>5. /\ file_fix.data[k].inner_offset \in 0 .. 15 /\ file_decl.data[d].offset \in Nat
          /\ code[i].at \in Nat
      <3>1. file_fix.data[k] \in FixEntry BY <1>3 DEF Entries
      <3>2. file_decl.data[d] \in DeclEntry BY <1>3 DEF Entries
      <3>3. code[i] \in Code BY <1>3
      <3> QED BY <3>1, <3>2, <3>3 DEF FixEntry, DeclEntry, Code
    <2>6. code'[i].disp = file_decl.data[d].offset - code[i].at - file_fix.data[k].inner_offset - 4
      BY <2>2, <2>3 DEF disp32, Describes
    <2>7. After(i) = code[i].at + (file_fix.data[k].inner_offset + 4)
      BY <2>2, <2>3 DEF After, Describes
    <2>8. After(i) + code'[i].disp = file_decl.data[d].offset BY <2>5, <2>6, <2>7, Displaced
    <2>9. units[u].first \in 1 .. Len(code) + 1 BY <1>8 DEF Bounds
    <2>10. units' = units BY <1>1
    <2>11. \A n : n = units[u].first => Address(n)' = Address(n) BY <2>9, <1>9
    <2>12. Address(units[u].first)' = Address(units[u].first) BY <2>10, <2>11
    <2>13. code[i].ref = file_decl.data[d].name BY <2>2, <2>3 DEF Describes
    <2> QED BY <2>4, <2>8, <2>12, <2>13, <1>9
  <1>12. AddressesWait'
    <2> SUFFICES ASSUME NEW i \in DOMAIN code, code[i].kind = "address"
        PROVE \E r \in DOMAIN rodata : rodata[r].name = code[i].ref /\ rodata[r].at = code'[i].disp
      BY <1>1, <1>7 DEF AddressesWait, ro_vars
    <2>1. \E k \in DOMAIN file_fix.data : file_fix.data[k].index = i BY DEF IInv, ReferencesWait
    <2>2. PICK k \in DOMAIN file_fix.data, d \in DOMAIN file_decl.data :
            /\ file_fix.data[k].index = i
            /\ file_decl.data[d].name = file_fix.data[k].target
            /\ code'[i].disp = disp32(file_fix.data[k], file_decl.data[d])
      BY <2>1, <1>2, <1>6
    <2>3. /\ file_fix.data[k].kind = "LOCAL_VAR" /\ file_fix.data[k].target \in Strings \cup Globals
          /\ Describes(file_fix.data[k], "address")
      BY <2>2, <1>8 DEF FileFixes, Describes
    <2>4. PICK r \in DOMAIN rodata : /\ rodata[r].name = file_decl.data[d].name
                                    /\ rodata[r].at = file_decl.data[d].offset
      <3>1. file_decl.data[d].name \notin Functions \cup {start}
        BY <2>2, <2>3, AssembleAssumption DEF AssembleAssumption
      <3> QED BY <3>1, <1>8 DEF FileDecls
    <2>5. code'[i].disp = file_decl.data[d].offset BY <2>2, <2>3 DEF disp32
    <2>6. code[i].ref = file_decl.data[d].name BY <2>2, <2>3 DEF Describes
    <2> QED BY <2>4, <2>5, <2>6
  <1>13. /\ func_decl'.data = <<>> /\ func_fix'.data = <<>>
         /\ func_decl' \in Entries(DeclEntry) /\ func_fix' \in Entries(FixEntry)
         /\ Declared(func_decl') = {} /\ Targets(func_fix') = {}
         /\ First(func_decl') /\ Roomy(func_decl') /\ Roomy(func_fix')
    BY <1>1, EmptyFacts
  <1>14. TypeInv' BY <1>1, <1>4, <1>7, <1>13 DEF IInv, TypeInv, data_vars, ro_vars, Declared, Targets
  <1>15. InData' /\ Bounds' BY <1>1, <1>7 DEF IInv, InData, Bounds, data_vars
  <1>16. First(func_decl)' /\ First(file_decl)' BY <1>1, <1>13 DEF IInv, First
  <1>17. LocalFixes' /\ LocalDecls' BY <1>13 DEF LocalFixes, LocalDecls
  <1>18. FileFixes' BY <1>1, <1>9 DEF IInv, FileFixes
  <1>19. JumpsWait' BY <1>1 DEF JumpsWait
  <1>20. ReferencesWait' BY <1>1, <1>7 DEF IInv, ReferencesWait
  <1>21. FileDecls'
    <2>1. \A u \in DOMAIN units : Address(units[u].first)' = Address(units[u].first)
      BY <1>1, <1>9 DEF IInv, Bounds
    <2> QED BY <2>1, <1>1, <1>8 DEF FileDecls, ro_vars
  <1>22. (\A m \in Tables : Roomy(m))' BY <1>1, <1>13 DEF IInv, Tables
  <1> QED BY <1>9, <1>10, <1>11, <1>12, <1>14, <1>15, <1>16, <1>17, <1>18, <1>19, <1>20, <1>21, <1>22
          DEF IInv

-----------------------------------------------------------------------------
(***************************************************************************)
(* The theorems                                                            *)
(***************************************************************************)
LEMMA StutterStep == ASSUME IInv, UNCHANGED vars PROVE IInv'
  <1>1. UNCHANGED <<stage, in_data, data_read, data_size, rodata, rodata_size, code, offset,
                    units, marks, func_decl, func_fix, file_decl, file_fix, outside_fix>>
    BY DEF vars, data_vars, ro_vars, text_vars, maps
  <1>2. TypeInv' BY <1>1 DEF IInv, TypeInv, Declared, Targets
  <1>3. InData' /\ Bounds' /\ OffsetsAreBytes' /\ First(func_decl)' /\ First(file_decl)'
    BY <1>1 DEF IInv, InData, Bounds, OffsetsAreBytes, Address, After, First
  <1>4. LocalFixes' /\ FileFixes' BY <1>1 DEF IInv, LocalFixes, FileFixes, Describes
  <1>5. JumpsWait' /\ ReferencesWait' BY <1>1 DEF IInv, JumpsWait, ReferencesWait
  <1>6. LocalDecls' /\ FileDecls' BY <1>1 DEF IInv, LocalDecls, FileDecls, Address
  <1>7. JumpsLand'
    <2>1. \A i \in DOMAIN code : Fixed(i)' => Fixed(i) BY <1>1 DEF Fixed
    <2>2. \A i \in DOMAIN code : After(i)' = After(i) BY <1>1 DEF After
    <2>3. \A k : Address(k)' = Address(k) BY <1>1 DEF Address
    <2> QED BY <1>1, <2>1, <2>2, <2>3 DEF IInv, JumpsLand
  <1>8. CallsLand' BY <1>1 DEF IInv, CallsLand, After, Address
  <1>9. AddressesWait' BY <1>1 DEF IInv, AddressesWait
  <1>10. (\A m \in Tables : Roomy(m))' BY <1>1 DEF IInv, Tables
  <1> QED BY <1>2, <1>3, <1>4, <1>5, <1>6, <1>7, <1>8, <1>9, <1>10 DEF IInv

LEMMA NextIInv == IInv /\ [Next]_vars => IInv'
  <1> SUFFICES ASSUME IInv, [Next]_vars PROVE IInv' OBVIOUS
  <1>1. data_read \in 0 .. Len(in_data) /\ data_size \in Nat BY DEF IInv, TypeInv
  <1>2. CASE UNCHANGED vars BY <1>2, StutterStep
  <1>3. CASE Undefined
    <2>1. /\ UNCHANGED <<data_vars, ro_vars, text_vars, maps>>
          /\ stage \notin {"done", "aborted"} /\ stage' = "undefined"
      BY <1>3 DEF Undefined
    <2> QED BY <2>1, <1>1, QuietStep DEF data_vars
  <1>4. ASSUME NEW s \in Strings, EmitString(s) PROVE IInv' BY <1>4, EmitStringStep
  <1>5. CASE EndRodata
    <2>1. /\ UNCHANGED <<data_vars, ro_vars, text_vars, maps>>
          /\ stage \notin {"done", "aborted"} /\ stage' = "data"
      BY <1>5 DEF EndRodata, At
    <2> QED BY <2>1, <1>1, QuietStep DEF data_vars
  <1>6. CASE EmitData BY <1>6, EmitDataStep
  <1>7. CASE EndData
    <2>1. /\ UNCHANGED <<data_vars, ro_vars, text_vars, maps>>
          /\ stage \notin {"done", "aborted"} /\ stage' = "text"
      BY <1>7 DEF EndData, At
    <2> QED BY <2>1, <1>1, QuietStep DEF data_vars
  <1>8. ASSUME NEW n \in Lengths, Plain(n) PROVE IInv' BY <1>8, PlainStep
  <1>9. ASSUME NEW l \in Labels, LocalLabel(l) PROVE IInv' BY <1>9, LocalLabelStep
  <1>10. ASSUME NEW l \in Labels, NEW inner \in {1, 2}, Jump(l, inner) PROVE IInv'
    BY <1>10, JumpStep
  <1>11. ASSUME NEW f \in Functions, Call(f) PROVE IInv' BY <1>11, CallStep
  <1>12. ASSUME NEW q \in Imports, CallImport(q) PROVE IInv' BY <1>12, CallImportStep
  <1>13. ASSUME NEW s \in Strings \cup Globals, Lea(s) PROVE IInv' BY <1>13, LeaStep
  <1>14. ASSUME NEW f \in Functions \cup {start}, GlobalLabel(f) PROVE IInv'
    BY <1>14, GlobalLabelStep
  <1>15. CASE Finish BY <1>15, FinishStep
  <1>16. CASE Abort BY <1>16, AbortStep
  <1> QED BY <1>2, <1>3, <1>4, <1>5, <1>6, <1>7, <1>8, <1>9, <1>10, <1>11, <1>12, <1>13,
             <1>14, <1>15, <1>16 DEF Next

LEMMA Invariance == Spec => []IInv
  BY InitIInv, NextIInv, PTL DEF Spec

(* Sections, tables and instructions keep their shape, whatever is emitted *)
(* and however often KTL_LabelDecl_Add and KTL_LabelFix_AddLocal and       *)
(* KTL_LabelFix_AddGlobal are called.                                      *)
THEOREM TypeCorrect == Spec => []TypeInv
  <1>1. IInv => TypeInv BY DEF IInv
  <1> QED BY <1>1, Invariance, PTL

(* out.text.offset and the offsets of labels and fixes are positions of    *)
(* bytes in what flatter will lay end to end, for instructions of any      *)
(* length.                                                                 *)
THEOREM OffsetsCorrect == Spec => []OffsetsAreBytes
  <1>1. IInv => OffsetsAreBytes BY DEF IInv
  <1> QED BY <1>1, Invariance, PTL

(* Every jump of a fixed function lands at its label, in every program and *)
(* for every number of labels.                                             *)
THEOREM JumpsCorrect == Spec => []JumpsLand
  <1>1. IInv => JumpsLand BY DEF IInv
  <1> QED BY <1>1, Invariance, PTL

(* Every call of a function of the program lands on its first instruction. *)
THEOREM CallsCorrect == Spec => []CallsLand
  <1>1. IInv => CallsLand BY DEF IInv
  <1> QED BY <1>1, Invariance, PTL

(* Every address of a literal waits for the ELF writer with the place of   *)
(* a copy of the literal.                                                  *)
THEOREM AddressesCorrect == Spec => []AddressesWait
  <1>1. IInv => AddressesWait BY DEF IInv
  <1> QED BY <1>1, Invariance, PTL

(* grow_decl and grow_fix leave room for twice the entries a table starts  *)
(* with, for every START.                                                  *)
THEOREM RoomCorrect == Spec => []RoomForTwice
  <1>1. IInv => RoomForTwice
    <2> SUFFICES ASSUME IInv, NEW m \in Tables, Len(m.data) <= GROW_MOD * START PROVE InRoom(m)
      BY DEF RoomForTwice, Tables
    <2>1. Roomy(m) BY DEF IInv
    <2>2. \E E : m \in Entries(E) BY DEF IInv, TypeInv, Tables
    <2>3. Len(m.data) \in Nat /\ m.alloc \in Nat BY <2>2 DEF Entries
    <2>4. START \in Nat BY AssembleAssumption DEF AssembleAssumption
    <2> QED BY <2>1, <2>3, <2>4 DEF Roomy, InRoom, GROW_MOD
  <1> QED BY <1>1, Invariance, PTL
=============================================================================
