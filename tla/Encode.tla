------------------------------- MODULE Encode -------------------------------
(***************************************************************************)
(* The bytes of an instruction: encode_one_instr and what it calls         *)
(* (Backend/Gen/GenByte.cpp).  Operands and instructions are those of X86. *)
(* A distance to a label or a symbol is left 0 here; Assemble models how   *)
(* it is filled in.                                                        *)
(***************************************************************************)
EXTENDS X86

Shifted(v, size) ==
  LET s[k \in 0 .. size] == IF k = 0 THEN v ELSE s[k - 1] \div 256 IN s
emit_imm_lend(v, size) ==
  LET shifted == Shifted(v, size) IN [k \in 1 .. size |-> shifted[k - 1] % 256]

get_operand_size(x) == x.size

is_reg_extended(r) == r \in 8 .. 15
reg_low3(r)        == r % 8

(* Broken form of fits_int8: eight bits without a sign.                    *)
fits_uint8(v) == -255 <= v /\ v <= 255

fits_int8(v) == -128 <= v /\ v <= 127

size_prefix(size) == IF size = 2 THEN <<102>> ELSE <<>>

(* The REX byte, left out when it would say nothing.                       *)
rex(size, field, base) ==
  LET bits == (IF size = 8 THEN 8 ELSE 0) + (IF is_reg_extended(field) THEN 4 ELSE 0)
                + (IF is_reg_extended(base) THEN 1 ELSE 0)
  IN IF bits = 0 THEN <<>> ELSE <<64 + bits>>

(* encode_modrm_sup: a register or [base + disp]; rbp and r13 have no form *)
(* without a distance.                                                     *)
encode_modrm(field, rm) ==
  IF rm.kind = "reg" THEN <<192 + 8 * field + reg_low3(rm.reg)>>
  ELSE LET short == rm.offset = 0 /\ reg_low3(rm.base) # reg_low3(RBP)
           mod   == IF short THEN 0 ELSE IF fits_int8(rm.offset) THEN 1 ELSE 2
       IN <<64 * mod + 8 * field + reg_low3(rm.base)>>
            \o emit_imm_lend(rm.offset, CASE mod = 0 -> 0 [] mod = 1 -> 1 [] mod = 2 -> 4)

(* Prefixes, opcode, ModRM.  A digit in the place of a register has three  *)
(* bits and sets nothing in REX.                                           *)
Coded(size, opcode, field, rm) ==
  size_prefix(size) \o rex(size, field, IF rm.kind = "reg" THEN rm.reg ELSE rm.base)
    \o opcode \o encode_modrm(reg_low3(field), rm)

emit_zero_op(cmd) ==
  CASE cmd = "RET" -> <<195>>
    [] cmd = "SYSCALL" -> <<15, 5>>
    [] cmd = "CDQE" -> <<72, 152>>
    [] cmd = "CQO" -> <<72, 153>>
    [] cmd = "REP_STOSB" -> <<243, 170>>
    [] cmd = "REP_MOVSB" -> <<243, 164>>

emit_stack_oper(cmd, x) ==
  rex(4, 0, x.reg) \o <<(IF cmd = "PUSH" THEN 80 ELSE 88) + reg_low3(x.reg)>>

emit_unary_digit(x, digit) ==
  Coded(get_operand_size(x), <<IF get_operand_size(x) = 1 THEN 246 ELSE 247>>, digit, x)

CC == [SETE |-> 4, SETNE |-> 5, SETL |-> 12, SETGE |-> 13, SETLE |-> 14, SETG |-> 15,
       JZ |-> 4, JNZ |-> 5]

emit_setcc(x, cc) == Coded(1, <<15, 144 + cc>>, 0, x)

emit_branch_rel32(cmd) ==
  (CASE cmd = "JMP" -> <<233>>
     [] cmd = "CALL" -> <<232>>
     [] cmd \in {"JZ", "JNZ"} -> <<15, 128 + CC[cmd]>>) \o emit_imm_lend(0, 4)

(* From memory, or from a symbol whose distance is still to be known.      *)
emit_lea(dst, src) ==
  IF src.kind = "rip"
  THEN rex(8, dst.reg, 0) \o <<141, 8 * reg_low3(dst.reg) + 5>> \o emit_imm_lend(0, 4)
  ELSE Coded(8, <<141>>, dst.reg, src)

(* Broken form of emit_movzx_movsx: signs are not extended.                *)
emit_movzx_only(dst, src, is_signed) ==
  Coded(dst.size, <<15, IF src.size = 1 THEN 182 ELSE 183>>, dst.reg, src)

emit_movzx_movsx(dst, src, is_signed) ==
  Coded(dst.size, <<15, (IF is_signed THEN 190 ELSE 182) + (IF src.size = 1 THEN 0 ELSE 1)>>,
        dst.reg, src)

(* Eight bytes go to memory as four.                                       *)
emit_mov_imm(dst, v) ==
  LET size == get_operand_size(dst) IN
    IF dst.kind = "reg"
    THEN size_prefix(size) \o rex(size, 0, dst.reg)
           \o <<(IF size = 1 THEN 176 ELSE 184) + reg_low3(dst.reg)>> \o emit_imm_lend(v, size)
    ELSE Coded(size, <<IF size = 1 THEN 198 ELSE 199>>, 0, dst)
           \o emit_imm_lend(v, IF size = 8 THEN 4 ELSE size)

(* DESC_ADD and the others: the first of four opcodes, and the digit of    *)
(* the form with an immediate.                                             *)
DESC == [MOV |-> [op |-> 136, digit |-> 0], ADD |-> [op |-> 0, digit |-> 0],
         SUB |-> [op |-> 40, digit |-> 5],  XOR |-> [op |-> 48, digit |-> 6],
         AND |-> [op |-> 32, digit |-> 4],  CMP |-> [op |-> 56, digit |-> 7],
         TEST |-> [op |-> 132, digit |-> 0]]

(* An immediate has one byte, or four, also for operands of two.           *)
emit_alu_imm(cmd, dst, v) ==
  LET size   == get_operand_size(dst)
      narrow == size = 1 \/ fits_int8(v)
      opcode == CASE cmd = "TEST" -> IF size = 1 THEN 246 ELSE 247
                  [] cmd # "TEST" /\ size = 1 -> 128
                  [] cmd # "TEST" /\ size # 1 -> IF narrow THEN 131 ELSE 129
  IN Coded(size, <<opcode>>, DESC[cmd].digit, dst) \o emit_imm_lend(v, IF narrow THEN 1 ELSE 4)

emit_alu_two_op(cmd, dst, src) ==
  LET size     == get_operand_size(dst)
      dir_r_rm == dst.kind = "reg" /\ src.kind = "mem" /\ cmd # "TEST"
      opcode   == DESC[cmd].op + (IF dir_r_rm THEN 2 ELSE 0) + (IF size = 1 THEN 0 ELSE 1)
  IN CASE src.kind = "imm" /\ cmd = "MOV" -> emit_mov_imm(dst, src.imm)
       [] src.kind = "imm" /\ cmd # "MOV" -> emit_alu_imm(cmd, dst, src.imm)
       [] src.kind # "imm" /\ dir_r_rm    -> Coded(size, <<opcode>>, dst.reg, src)
       [] src.kind # "imm" /\ ~dir_r_rm   -> Coded(size, <<opcode>>, src.reg, dst)

emit_imul(dst, src) ==
  IF src.kind = "imm"
  THEN LET narrow == fits_int8(src.imm) IN
         Coded(dst.size, <<IF narrow THEN 107 ELSE 105>>, dst.reg, dst)
           \o emit_imm_lend(src.imm, IF narrow THEN 1 ELSE 4)
  ELSE Coded(dst.size, <<15, 175>>, dst.reg, src)

encode_one_instr(i) ==
  LET dst == i.args[1]
      src == i.args[2]
  IN CASE i.cmd \in {"RET", "SYSCALL", "CDQE", "CQO", "REP_STOSB", "REP_MOVSB"} ->
            emit_zero_op(i.cmd)
       [] i.cmd \in {"PUSH", "POP"}           -> emit_stack_oper(i.cmd, dst)
       [] i.cmd = "NEG"                       -> emit_unary_digit(dst, 3)
       [] i.cmd = "IDIV"                      -> emit_unary_digit(dst, 7)
       [] i.cmd \in {"SETE", "SETNE", "SETL", "SETGE", "SETLE", "SETG"} ->
            emit_setcc(dst, CC[i.cmd])
       [] i.cmd \in {"JMP", "JZ", "JNZ", "CALL"} -> emit_branch_rel32(i.cmd)
       [] i.cmd = "LEA"                       -> emit_lea(dst, src)
       [] i.cmd \in {"MOVZX", "MOVSX"}        -> emit_movzx_movsx(dst, src, i.cmd = "MOVSX")
       [] i.cmd \in DOMAIN DESC               -> emit_alu_two_op(i.cmd, dst, src)
       [] i.cmd = "IMUL"                      -> emit_imul(dst, src)

Bytes(s) ==
  LET b[k \in 0 .. Len(s)] == IF k = 0 THEN <<>> ELSE b[k - 1] \o encode_one_instr(s[k]) IN b
encode(s) == Bytes(s)[Len(s)]
=============================================================================
