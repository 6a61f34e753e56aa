------------------------------ MODULE Assemble ------------------------------
(***************************************************************************)
(* The assembler (KTL_GenProcess in Backend/Gen/GenByte.cpp) and its label *)
(* tables (Structs/LabelMap/LabelMap.cpp): one pass over the items of the  *)
(* back end writes the bytes, notes where labels lie and which displace-   *)
(* ments wait for one, and patches them at the end of a function or of the *)
(* file.                                                                   *)
(*                                                                         *)
(* An encoded instruction is a record: where it lies (at), how long it is, *)
(* where in it the displacement begins (inner), and the displacement.  To  *)
(* say what is meant by it, kind and ref keep its operand and fn the func- *)
(* tion it stands in.  Every other instruction is its length.              *)
(***************************************************************************)
EXTENDS Integers, Sequences

CONSTANTS
  Functions, start,     \* labels of functions; "_start", the label of main
  Labels,               \* ".L0", ".L1", ...: label_counter is never reset
  Strings, StringLen,   \* labels of string literals; bytes with the NUL
  Globals,              \* labels of global variables
  Imports,              \* functions declared by `use`
  Lengths,              \* of instructions without a label
  START,                \* KTL_START_LABEL_DECL_SIZE, KTL_START_LABEL_FIX_SIZE
  MaxItems, MaxStrings, \* bounds of the model: instructions, literals,
  MaxLabels             \* labels of a function

Names == Functions \cup {start} \cup Strings \cup Globals

ASSUME AssembleAssumption ==
  /\ start \notin Functions
  /\ (Functions \cup {start}) \cap (Strings \cup Globals) = {}
  /\ Strings \cap Globals = {}
  /\ StringLen \in [Strings -> Nat \ {0}]
  /\ Lengths \subseteq 1 .. 15
  /\ START \in Nat \ {0} /\ MaxItems \in Nat /\ MaxStrings \in Nat /\ MaxLabels \in Nat

VARIABLES
  stage,                      \* what KTL_GenProcess is doing, or how it ended
  in_data, data_read,         \* items of the data section, iterations done
  out_data, data_size,        \* data written, cur_offset of emit_data
  rodata, rodata_size,        \* literals written, cur_offset of emit_rodata
  code, offset,               \* out.text: instructions, out.text.offset
  func_decl, func_fix,        \* labels and waiting jumps of this function
  file_decl, file_fix,        \* labels of the file, calls and addresses
  outside_fix,                \* calls of imported functions
  units, marks                \* what the items mean: functions so far, and
                              \* the instruction each local label precedes

data_vars == <<in_data, data_read, out_data, data_size>>
ro_vars   == <<rodata, rodata_size>>
text_vars == <<code, offset, units, marks>>
maps      == <<func_decl, func_fix, file_decl, file_fix, outside_fix>>
vars      == <<stage, data_vars, ro_vars, text_vars, maps>>

(***************************************************************************)
(* Label tables                                                            *)
(***************************************************************************)
GROW_MOD == 2
EmptyMap == [data |-> <<>>, capacity |-> START, alloc |-> START]

(* Broken form of Grow: the table grows when it is already over-full.      *)
GrowLate(m) ==
  IF Len(m.data) > m.capacity
    THEN [m EXCEPT !.alloc = m.capacity * GROW_MOD, !.capacity = GROW_MOD]
    ELSE m

(* grow_decl, grow_fix: alloc is what realloc was asked for.  The capacity *)
(* becomes GROW_MOD itself, not GROW_MOD times what it was.                *)
Grow(m) ==
  IF Len(m.data) = m.capacity
    THEN [m EXCEPT !.alloc = m.capacity * GROW_MOD, !.capacity = GROW_MOD]
    ELSE m

Add(m, e) == LET g == Grow(m) IN [g EXCEPT !.data = Append(g.data, e)]

Decl(name, at) == [name |-> name, offset |-> at]
Declared(m) == {m.data[i].name : i \in DOMAIN m.data}

(* Broken form of Find: the last entry of the name, not the first.         *)
FindLast(m, name) ==
  LET found == {i \in DOMAIN m.data : m.data[i].name = name}
  IN  m.data[CHOOSE i \in found : \A j \in found : i >= j]

Find(m, name) ==
  LET found == {i \in DOMAIN m.data : m.data[i].name = name}
  IN  m.data[CHOOSE i \in found : \A j \in found : i <= j]

(* A write behind the allocation is undefined behaviour: nothing is said   *)
(* of what the program does after it.                                      *)
InRoom(m) == Len(m.data) <= m.alloc
Intact == \A m \in {func_decl, func_fix, file_decl, file_fix, outside_fix} : InRoom(m)

Undefined ==
  /\ stage \in {"rodata", "data", "text"} /\ ~Intact
  /\ stage' = "undefined"
  /\ UNCHANGED <<data_vars, ro_vars, text_vars, maps>>

At(s) == stage = s /\ Intact

(***************************************************************************)
(* Read-only data: emit_strings wrote a label and the bytes per literal    *)
(* in the tree, also when the same literal occurs again.                   *)
(***************************************************************************)
(* Broken form of EmitString: the label lies behind the bytes.             *)
EmitStringEnd(s) ==
  /\ At("rodata") /\ Len(rodata) < MaxStrings
  /\ file_decl' = Add(file_decl, Decl(s, rodata_size + StringLen[s]))
  /\ rodata' = Append(rodata, [name |-> s, at |-> rodata_size])
  /\ rodata_size' = rodata_size + StringLen[s]
  /\ UNCHANGED <<stage, data_vars, text_vars, func_decl, func_fix, file_fix, outside_fix>>

EmitString(s) ==
  /\ At("rodata") /\ Len(rodata) < MaxStrings
  /\ file_decl' = Add(file_decl, Decl(s, rodata_size))
  /\ rodata' = Append(rodata, [name |-> s, at |-> rodata_size])
  /\ rodata_size' = rodata_size + StringLen[s]
  /\ UNCHANGED <<stage, data_vars, text_vars, func_decl, func_fix, file_fix, outside_fix>>

EndRodata ==
  /\ At("rodata")
  /\ stage' = "data"
  /\ UNCHANGED <<data_vars, ro_vars, text_vars, maps>>

(***************************************************************************)
(* Data: emit_global_var wrote an alignment, a label and the value of each *)
(* variable.                                                               *)
(***************************************************************************)
align_up(at, align) == ((at + align - 1) \div align) * align
Variable(g, size) ==
  << [kind |-> "align", size |-> size], [kind |-> "label", name |-> g],
     [kind |-> "int", size |-> size] >>

(* emit_data counts the items but never moves in.data.pos: read_item gives *)
(* the first one each time.                                                *)
EmitData ==
  LET item == in_data[1]
      size == CASE item.kind = "align" -> align_up(data_size, item.size) - data_size
                [] item.kind = "label" -> 0
                [] OTHER               -> item.size
  IN  /\ At("data") /\ data_read < Len(in_data)
      /\ data_read' = data_read + 1
      /\ data_size' = data_size + size
      /\ out_data'  = IF item.kind = "label" THEN out_data
                      ELSE Append(out_data, [kind |-> IF item.kind = "int" THEN "int" ELSE "zero",
                                             len  |-> size])
      /\ file_decl' = IF item.kind = "label" THEN Add(file_decl, Decl(item.name, data_size))
                      ELSE file_decl
      /\ UNCHANGED <<stage, in_data, ro_vars, text_vars, func_decl, func_fix, file_fix, outside_fix>>

EndData ==
  /\ At("data") /\ data_read = Len(in_data)
  /\ stage' = "text"
  /\ UNCHANGED <<data_vars, ro_vars, text_vars, maps>>

(***************************************************************************)
(* Text: encode_one_instr.                                                 *)
(***************************************************************************)
Writing == At("text") /\ units # <<>> /\ Len(code) < MaxItems

Instruction(kind, ref, len, inner) ==
  [kind |-> kind, ref |-> ref, fn |-> Len(units), at |-> offset,
   len |-> len, inner |-> inner, disp |-> 0]

out_write(i) == code' = Append(code, i) /\ offset' = offset + i.len

Fix(kind, i) ==
  [kind |-> kind, target |-> i.ref, index |-> Len(code) + 1,
   inner_offset |-> i.inner, ads_offset |-> i.at]

Plain(n) ==
  /\ Writing
  /\ out_write(Instruction("plain", start, n, 0))
  /\ UNCHANGED <<stage, data_vars, ro_vars, units, marks, maps>>

(* A local label belongs to one function, since label_counter only grows.  *)
(* emit_cond_block may declare it twice in a row (`if` without `else`).    *)
Own(l) ==
  /\ \A m \in marks : m.label = l => m.fn = Len(units)
  /\ \A i \in DOMAIN code : code[i].kind = "jump" /\ code[i].ref = l => code[i].fn = Len(units)

Mark(l) == [fn |-> Len(units), label |-> l, next |-> Len(code) + 1]

LocalLabel(l) ==
  /\ At("text") /\ units # <<>> /\ Own(l) /\ Len(func_decl.data) < MaxLabels
  /\ \A m \in marks : m.label = l => m = Mark(l)
  /\ func_decl' = Add(func_decl, Decl(l, offset))
  /\ marks' = marks \cup {Mark(l)}
  /\ UNCHANGED <<stage, data_vars, ro_vars, code, offset, units, func_fix, file_decl, file_fix, outside_fix>>

(* emit_branch_rel32: jmp is one byte of opcode, jz and jnz are two.       *)
Jump(l, inner) ==
  LET i == Instruction("jump", l, inner + 4, inner) IN
  /\ Writing /\ Own(l)
  /\ out_write(i)
  /\ func_fix' = Add(func_fix, Fix("label", i))
  /\ UNCHANGED <<stage, data_vars, ro_vars, units, marks, func_decl, file_decl, file_fix, outside_fix>>

Call(f) ==
  LET i == Instruction("call", f, 5, 1) IN
  /\ Writing
  /\ out_write(i)
  /\ file_fix' = Add(file_fix, Fix("LOCAL_FUNC", i))
  /\ UNCHANGED <<stage, data_vars, ro_vars, units, marks, func_decl, func_fix, file_decl, outside_fix>>

CallImport(p) ==
  LET i == Instruction("import", p, 5, 1) IN
  /\ Writing
  /\ out_write(i)
  /\ outside_fix' = Add(outside_fix, Fix("GOT_FUNC", i))
  /\ UNCHANGED <<stage, data_vars, ro_vars, units, marks, func_decl, func_fix, file_decl, file_fix>>

(* emit_lea of a literal of the tree, or of a global variable.             *)
Literals  == {rodata[i].name : i \in DOMAIN rodata}
Variables == {in_data[i].name : i \in {j \in DOMAIN in_data : in_data[j].kind = "label"}}

Lea(s) ==
  LET i == Instruction("address", s, 7, 3) IN
  /\ Writing /\ s \in Literals \cup Variables
  /\ out_write(i)
  /\ file_fix' = Add(file_fix, Fix("LOCAL_VAR", i))
  /\ UNCHANGED <<stage, data_vars, ro_vars, units, marks, func_decl, func_fix, file_decl, outside_fix>>

(***************************************************************************)
(* Fixing                                                                  *)
(***************************************************************************)
(* Broken form of disp32: the displacement counts from the opcode.         *)
disp32_start(fix, decl) ==
  IF fix.kind = "LOCAL_VAR" THEN decl.offset ELSE decl.offset - fix.ads_offset - fix.inner_offset

(* The address of a variable is finished by the ELF writer.                *)
disp32(fix, decl) ==
  IF fix.kind = "LOCAL_VAR" THEN decl.offset
  ELSE decl.offset - fix.ads_offset - fix.inner_offset - 4

Patched(c, fixes, decls) ==
  [i \in DOMAIN c |->
     IF \E k \in DOMAIN fixes.data : fixes.data[k].index = i
       THEN LET k == CHOOSE k \in DOMAIN fixes.data : fixes.data[k].index = i
            IN  [c[i] EXCEPT !.disp = disp32(fixes.data[k], Find(decls, fixes.data[k].target))]
       ELSE c[i]]

Targets(m) == {m.data[i].target : i \in DOMAIN m.data}

(* emit_cond_block, emit_for_block, emit_while_block and emit_oper declare *)
(* in the same function every label they jump to, so the assertion of      *)
(* fix_labels_inside_func holds.                                           *)
LabelsClosed == Targets(func_fix) \subseteq Declared(func_decl)

fix_labels_inside_func ==
  /\ code' = Patched(code, func_fix, func_decl)
  /\ func_decl' = EmptyMap /\ func_fix' = EmptyMap

Emitted == {units[i].name : i \in DOMAIN units}

(* Broken form of GlobalLabel: the last jumps are left to the next one.    *)
GlobalLabelUnfixed(f) ==
  /\ At("text") /\ LabelsClosed
  /\ f \notin Emitted /\ (units = <<>> <=> f = start)
  /\ UNCHANGED code /\ func_decl' = EmptyMap /\ func_fix' = EmptyMap
  /\ file_decl' = Add(file_decl, Decl(f, offset))
  /\ units' = Append(units, [name |-> f, first |-> Len(code) + 1])
  /\ UNCHANGED <<stage, data_vars, ro_vars, offset, marks, file_fix, outside_fix>>

(* emit_text writes main first, then the functions.                        *)
GlobalLabel(f) ==
  /\ At("text") /\ LabelsClosed
  /\ f \notin Emitted /\ (units = <<>> <=> f = start)
  /\ fix_labels_inside_func
  /\ file_decl' = Add(file_decl, Decl(f, offset))
  /\ units' = Append(units, [name |-> f, first |-> Len(code) + 1])
  /\ UNCHANGED <<stage, data_vars, ro_vars, offset, marks, file_fix, outside_fix>>

(* The end of the file.  Functions called are declared (resolve_names).    *)
EndOfText ==
  /\ At("text") /\ units # <<>> /\ LabelsClosed
  /\ Targets(file_fix) \cap Functions \subseteq Emitted

(* fix_labels_inside_file                                                  *)
Finish ==
  /\ EndOfText /\ Targets(file_fix) \subseteq Declared(file_decl)
  /\ stage' = "done"
  /\ code' = Patched(Patched(code, func_fix, func_decl), file_fix, file_decl)
  /\ func_decl' = EmptyMap /\ func_fix' = EmptyMap
  /\ UNCHANGED <<data_vars, ro_vars, offset, units, marks, file_decl, file_fix, outside_fix>>

(* assert(decl && "don't find label in table"); without assertions decl is *)
(* dereferenced.                                                           *)
Abort ==
  /\ EndOfText /\ ~(Targets(file_fix) \subseteq Declared(file_decl))
  /\ stage' = "aborted"
  /\ fix_labels_inside_func
  /\ UNCHANGED <<data_vars, ro_vars, offset, units, marks, file_decl, file_fix, outside_fix>>

Init ==
  /\ stage = "rodata"
  /\ in_data \in {<<>>} \cup {Variable(g, 8) : g \in Globals}
  /\ data_read = 0 /\ out_data = <<>> /\ data_size = 0
  /\ rodata = <<>> /\ rodata_size = 0
  /\ code = <<>> /\ offset = 0 /\ units = <<>> /\ marks = {}
  /\ func_decl = EmptyMap /\ func_fix = EmptyMap
  /\ file_decl = EmptyMap /\ file_fix = EmptyMap /\ outside_fix = EmptyMap

Next ==
  \/ Undefined
  \/ \E s \in Strings : EmitString(s)
  \/ EndRodata \/ EmitData \/ EndData
  \/ \E n \in Lengths : Plain(n)
  \/ \E l \in Labels : LocalLabel(l) \/ \E inner \in {1, 2} : Jump(l, inner)
  \/ \E f \in Functions : Call(f)
  \/ \E p \in Imports : CallImport(p)
  \/ \E s \in Strings \cup Globals : Lea(s)
  \/ \E f \in Functions \cup {start} : GlobalLabel(f)
  \/ Finish \/ Abort

Spec == Init /\ [][Next]_vars

-----------------------------------------------------------------------------
(***************************************************************************)
(* Properties                                                              *)
(***************************************************************************)
Entries(E) == [data : Seq(E), capacity : {START, GROW_MOD}, alloc : Nat]
DeclEntry  == [name : Labels \cup Names, offset : Nat]
FixEntry   == [kind : {"label", "LOCAL_FUNC", "LOCAL_VAR", "GOT_FUNC"},
               target : Labels \cup Names \cup Imports,
               index : Nat \ {0}, inner_offset : 0 .. 15, ads_offset : Nat]
Code       == [kind : {"plain", "jump", "call", "import", "address"},
               ref : Labels \cup Names \cup Imports, fn : Nat \ {0},
               at : Nat, len : 1 .. 15, inner : 0 .. 15, disp : Int]

(* Type invariant: sections, tables and instructions keep their shape, a   *)
(* table of local labels (func_decl_map, func_fix_map) only names local    *)
(* labels, one of the file only functions, literals and variables, and the *)
(* main program comes first.                                               *)
TypeInv ==
  /\ stage \in {"rodata", "data", "text", "done", "aborted", "undefined"}
  /\ data_read \in 0 .. Len(in_data) /\ data_size \in Nat /\ rodata_size \in Nat
  /\ rodata \in Seq([name : Strings, at : Nat])
  /\ code \in Seq(Code) /\ offset \in Nat
  /\ units \in Seq([name : Functions \cup {start}, first : Nat \ {0}])
  /\ units # <<>> => units[1] = [name |-> start, first |-> 1]
  /\ marks \subseteq [fn : 1 .. Len(units), label : Labels, next : 1 .. Len(code) + 1]
  /\ func_decl \in Entries(DeclEntry) /\ file_decl \in Entries(DeclEntry)
  /\ \A m \in {func_fix, file_fix, outside_fix} : m \in Entries(FixEntry)
  /\ Declared(func_decl) \cup Targets(func_fix) \subseteq Labels
  /\ Declared(file_decl) \cup Targets(file_fix) \subseteq Names
  /\ Targets(outside_fix) \subseteq Imports

(* Where instruction k begins; the next one to be written begins at the    *)
(* end of the text.                                                        *)
Address(k) == IF k <= Len(code) THEN code[k].at ELSE offset
After(i) == code[i].at + code[i].len

(* The offsets used for labels and fixes are positions of bytes: flatter   *)
(* lays the instructions end to end, and out.text.offset, counted by hand, *)
(* says where the next one will lie.                                       *)
OffsetsAreBytes ==
  /\ Address(1) = 0
  /\ \A i \in DOMAIN code : After(i) = Address(i + 1)

Fixed(i) == stage = "done" \/ code[i].fn < Len(units)

(* Every jump of a finished function lands where its label was written in  *)
(* that function, however many functions, labels and instructions lie      *)
(* between, forwards and backwards: emit_branch_rel32 notes the place,     *)
(* fix_labels_inside_func patches it and clears both tables.               *)
JumpsLand ==
  \A i \in DOMAIN code : code[i].kind = "jump" /\ Fixed(i) =>
    \E m \in marks : /\ m.fn = code[i].fn /\ m.label = code[i].ref
                     /\ After(i) + code[i].disp = Address(m.next)

(* Every call of a function of the program lands on its first instruction, *)
(* wherever the function was written.                                      *)
CallsLand ==
  stage = "done" =>
    \A i \in DOMAIN code : code[i].kind = "call" =>
      \E u \in DOMAIN units : /\ units[u].name = code[i].ref
                              /\ After(i) + code[i].disp = Address(units[u].first)

(* Until the ELF writer places the sections, the displacement of an        *)
(* address is the place of the literal's bytes in the read-only data; a    *)
(* literal written twice is found at one of the copies.                    *)
AddressesWait ==
  stage = "done" =>
    \A i \in DOMAIN code : code[i].kind = "address" =>
      \E r \in DOMAIN rodata : rodata[r].name = code[i].ref /\ rodata[r].at = code[i].disp

(* A label table is within its allocation as long as it holds no more      *)
(* entries than twice what it started with: grow_decl and grow_fix ask for *)
(* enough the first time, whatever capacity they note.                     *)
RoomForTwice ==
  \A m \in {func_decl, func_fix, file_decl, file_fix, outside_fix} :
    Len(m.data) <= GROW_MOD * START => InRoom(m)

(* fix_labels_inside_file says assert(decl && "don't find label in table"):*)
(* every call and address of the file has a label.                         *)
LabelsFound == stage # "aborted"
=============================================================================
