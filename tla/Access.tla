------------------------------- MODULE Access -------------------------------
(***************************************************************************)
(* The instructions the back end emits (Backend/GenIR/Backend.cpp), with   *)
(* the places Frame has given to the variables, through Encode to bytes,   *)
(* and back through the processor's eyes.                                  *)
(***************************************************************************)
EXTENDS Frame, Encode

CONSTANT
  Immediates   \* numbers of a program: literals, sizes, offsets of fields

KTL_PARAM_REGS == <<RDI, RSI, RDX, RCX, R8, R9>>

(* The largest distance and immediate, an int of four bytes.               *)
MaxInt == 2147483647

(* A variable of type void is left aside: it has no byte to fill, and the  *)
(* encoder asserts that an operand has.                                    *)
ASSUME AccessAssumption ==
  /\ ScalarSizes \subseteq {1, 2, 4, 8}
  /\ KTL_PARAM_REGS_COUNT <= Len(KTL_PARAM_REGS)
  /\ Immediates \subseteq 0 .. MaxInt

Op(cmd, x, y) == Instr(cmd, <<x, y>>)
One(cmd, x)   == Instr(cmd, <<x>>)
Alone(cmd)    == Instr(cmd, <<>>)
R(r)          == Reg(r, 8)
Slot(d, size) == Mem(RBP, d, size)

Enter(size) ==
  <<One("PUSH", R(RBP)), Op("MOV", R(RBP), R(RSP))>>
    \o (IF size > 0 THEN <<Op("SUB", R(RSP), Imm(size))>> ELSE <<>>)
Leave == <<Op("MOV", R(RSP), R(RBP)), One("POP", R(RBP)), Alone("RET")>>
Exit  == <<Op("MOV", R(RAX), Imm(60)), Op("XOR", R(RDI), R(RDI)), Alone("SYSCALL")>>

(* emit_function_header: a register parameter is stored whole.             *)
Spill(row) == <<Op("MOV", Slot(row.offset, 8), R(KTL_PARAM_REGS[row.param]))>>

(* emit_var_decl_zero, of a base type or a pointer and of all others.      *)
DeclZero(row, kind) ==
  IF kind = "scalar"
  THEN <<Op("XOR", R(RAX), R(RAX)), Op("MOV", Slot(row.offset, row.size), Reg(RAX, row.size))>>
  ELSE <<Op("LEA", R(RDI), Slot(row.offset, 8)), Op("XOR", Reg(RAX, 1), Reg(RAX, 1)),
         Op("MOV", R(RCX), Imm(row.size)), Alone("REP_STOSB")>>

(* emit_var_decl_array, of n elements; one that is itself an aggregate is  *)
(* copied from the address RAX has.                                        *)
CopyTo(d, size) ==
  <<Op("MOV", R(RSI), R(RAX)), Op("LEA", R(RDI), Slot(d, 8)), Op("MOV", R(RCX), Imm(size)),
    Alone("REP_MOVSB")>>

DeclArray(row, kind, elem, n) ==
  IF kind = "scalar"
  THEN [k \in 1 .. n |-> Op("MOV", Slot(row.offset + (k - 1) * elem, elem), Reg(RAX, elem))]
  ELSE [k \in 1 .. 4 * n |-> CopyTo(row.offset + ((k - 1) \div 4) * elem, elem)[((k - 1) % 4) + 1]]

(* What is emitted to fill a slot: one of these, an array having as many   *)
(* elements as there is room for.  A scalar with a value is stored by the  *)
(* MOV of DeclZero, after an expression instead of XOR.                    *)
Arrays(row, kind, sizes) ==
  {DeclArray(row, kind, x[1], x[2]) :
     x \in {y \in sizes \X (0 .. row.size) : y[1] * y[2] = row.size}}

Filled(row) ==
  IF row.param # 0 THEN (IF InRegister(row) THEN {Spill(row)} ELSE {})
  ELSE (IF row.size \in ScalarSizes THEN {DeclZero(row, "scalar")} ELSE {})
         \cup IF row.size \notin AggregateSizes THEN {}
              ELSE {DeclZero(row, "aggregate")} \cup Arrays(row, "scalar", ScalarSizes)
                     \cup Arrays(row, "aggregate", AggregateSizes)

(* emit_load_address of a variable, with a field or an index after it.     *)
Address(row) ==
  <<Op("LEA", R(RAX), IF row.storage = "static" THEN Rip(8) ELSE Slot(row.offset, 8))>>
Within(v) == <<Op("ADD", R(RAX), Imm(v)), One("PUSH", R(RAX)), Op("IMUL", R(RAX), Imm(v)),
               One("POP", R(RDI)), Op("ADD", R(RAX), R(RDI))>>

(* emit_expr, emit_assign, emit_assign_struct *)
Moved(size)   == <<Op("MOV", Reg(RAX, size), Mem(RAX, 0, size)),
                   Op("MOV", Mem(RDI, 0, size), Reg(RAX, size))>>
Copied(v)     == <<Op("MOV", R(RSI), R(RAX)), One("POP", R(RDI)), Op("MOV", R(RCX), Imm(v)),
                   Alone("REP_MOVSB")>>
Literal(v)    == <<Op("MOV", R(RAX), Imm(v))>>

(* emit_cast *)
Casts == <<Op("MOVSX", R(RAX), Reg(RAX, 1)), Op("MOVSX", Reg(RAX, 2), Reg(RAX, 1)),
           Op("MOVSX", R(RAX), Reg(RAX, 2)), Alone("CDQE")>>
Truth(set) == <<One(set, Reg(RAX, 1)), Op("MOVZX", R(RAX), Reg(RAX, 1))>>

(* emit_oper *)
Arithmetic ==
  <<One("PUSH", R(RAX)), One("POP", R(RDI)), Op("ADD", R(RAX), R(RDI)), Op("SUB", R(RDI), R(RAX)),
    Op("MOV", R(RAX), R(RDI)), Op("IMUL", R(RAX), R(RDI)), Alone("CQO"), One("IDIV", R(RDI)),
    Op("MOV", R(RAX), R(RDX)), One("NEG", R(RAX)), Op("CMP", R(RDI), R(RAX))>>
    \o Truth("SETE") \o Truth("SETNE") \o Truth("SETL") \o Truth("SETGE")
    \o Truth("SETLE") \o Truth("SETG")
Branches == <<Op("TEST", R(RAX), R(RAX)), One("JZ", Label), One("JNZ", Label), One("JMP", Label)>>

(* emit_func_call, with v bytes to drop from the stack afterwards.         *)
Called(v) ==
  [k \in DOMAIN KTL_PARAM_REGS |-> One("POP", R(KTL_PARAM_REGS[k]))]
    \o <<Op("SUB", R(RSP), Imm(8)), Op("XOR", R(RAX), R(RAX)), One("CALL", Label),
         Op("ADD", R(RSP), Imm(v))>>

-----------------------------------------------------------------------------
(* Properties.                                                             *)

Runs(s) == Disassembled(encode(s)) = s

(* The code of expressions, statements and calls, whatever its numbers.    *)
ExpressionsRun ==
  /\ Runs(Leave \o Exit \o Casts \o Arithmetic \o Branches)
  /\ \A size \in {1, 2, 4, 8} : Runs(Moved(size))
  /\ \A v \in Immediates : Runs(Literal(v) \o Copied(v))
  /\ \A v \in Immediates \ {0} : Runs(Within(v) \o Called(v))

Latest == table[Len(table)]   \* the row of the variable met last

(* Frames are smaller than an int counts; a distance from rbp is one.      *)
InReach ==
  /\ main_frame_size <= MaxInt /\ \A f \in DOMAIN funcs : funcs[f] <= MaxInt
  /\ \A i \in DOMAIN table : table[i].offset \in -MaxInt .. MaxInt

(* The processor reads the bytes as the very instructions they were made   *)
(* from, none longer or shorter, with the same registers and sizes and     *)
(* with every number whole: on either side of the numbers that fit a byte, *)
(* for frames, slots, fields, literals and calls.  ExpressionsRun is the   *)
(* same in all states and is looked at in the first.                       *)
ReadAsWritten ==
  InReach =>
    /\ (at = "globals" /\ table = <<>>) => ExpressionsRun
    /\ \A f \in DOMAIN funcs : Runs(Enter(funcs[f]))
    /\ Runs(Enter(main_frame_size))
    /\ table # <<>> => /\ Runs(Address(Latest))
                       /\ OnStack(Len(table)) => \A s \in Filled(Latest) : Runs(s)

(* What a run of instructions stores relative to rbp, with what it has     *)
(* made of RDI and RCX.                                                    *)
Step(i, m) ==
  LET x == i.args[1]
      y == i.args[2]
      to(r) == IF r = RDI THEN "rdi" ELSE IF r = RCX THEN "rcx" ELSE "other"
      Set(r, v) == [m EXCEPT ![to(r)] = v]
      Range(d, n) == {d + k : k \in 0 .. n - 1}
  IN CASE i.cmd = "LEA" /\ y.base = RBP -> Set(x.reg, y.offset)
       [] i.cmd = "MOV" /\ x.kind = "reg" /\ y.kind = "imm" -> Set(x.reg, y.imm)
       [] i.cmd = "MOV" /\ x.kind = "mem" /\ x.base = RBP ->
            [m EXCEPT !.stored = @ \cup Range(x.offset, x.size)]
       [] i.cmd \in {"REP_STOSB", "REP_MOVSB"} ->
            [m EXCEPT !.stored = @ \cup Range(m.rdi, m.rcx)]
       [] OTHER -> m

Start == [rdi |-> 0, rcx |-> 0, other |-> 0, stored |-> {}]
Machine(run) ==
  LET M[k \in 0 .. Len(run)] == IF k = 0 THEN Start ELSE Step(run[k], M[k - 1]) IN M
Stored(s) ==
  LET run == Disassembled(encode(s)) IN Machine(run)[Len(run)].stored

(* The bytes that fill a variable, as the processor runs them, store to    *)
(* every byte of its slot and to no other: with SlotsDisjoint, no          *)
(* declaration changes another variable.                                   *)
SlotsFilled ==
  (InReach /\ table # <<>> /\ OnStack(Len(table))) =>
    \A s \in Filled(Latest) :
      Stored(s) = {Latest.offset + k : k \in 0 .. Latest.size - 1}
=============================================================================
