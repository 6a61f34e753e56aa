--------------------------------- MODULE X86 ---------------------------------
(***************************************************************************)
(* How an x86-64 processor reads the bytes at a place: the part of its     *)
(* instruction set that the compiler uses, after the processor's manual    *)
(* and not after the code.  Byte p of bs is where the instruction begins;  *)
(* Read gives it and where the next one begins.                            *)
(***************************************************************************)
EXTENDS Integers, Sequences

(* Operands.  Registers have their numbers in the encoding; 16 to 19 are   *)
(* AH, CH, DH and BH.                                                      *)
Reg(r, size)       == [kind |-> "reg", reg |-> r, size |-> size]
Mem(base, d, size) == [kind |-> "mem", base |-> base, offset |-> d, size |-> size]
Rip(size)          == [kind |-> "rip", size |-> size]
Imm(v)             == [kind |-> "imm", imm |-> v]
Label              == [kind |-> "label"]   \* a distance still to be filled in

RAX == 0
RCX == 1
RDX == 2
RSP == 4
RBP == 5
RSI == 6
RDI == 7
R8 == 8
R9 == 9

Instr(cmd, args) == [cmd |-> cmd, args |-> args]

(* The number in n bytes from p on: little-endian, two's complement; from  *)
(* the last byte, which has the sign, back to the first.                   *)
Gathered(bs, p, n) ==
  LET last == bs[p + n - 1]
      from[k \in 1 .. n] ==
        IF k = 1 THEN (IF last < 128 THEN last ELSE last - 256)
        ELSE bs[p + n - k] + 256 * from[k - 1]
  IN from
SignedAt(bs, p, n) == Gathered(bs, p, n)[n]

Is(b, base) == b \in base .. base + 7
Group1 == <<"ADD", "OR", "ADC", "SBB", "AND", "SUB", "XOR", "CMP">>
Group3 == <<"TEST", "TEST", "NOT", "NEG", "MUL", "IMUL", "DIV", "IDIV">>
SetCmd == <<"SETO", "SETNO", "SETB", "SETAE", "SETE", "SETNE", "SETBE", "SETA",
            "SETS", "SETNS", "SETP", "SETNP", "SETL", "SETGE", "SETLE", "SETG">>
JumpCmd == <<"JO", "JNO", "JB", "JAE", "JZ", "JNZ", "JBE", "JA",
             "JS", "JNS", "JP", "JNP", "JL", "JGE", "JLE", "JG">>

(* Prefixes and opcode; m is the place behind them, of ModRM if the        *)
(* instruction has one.                                                    *)
Opcode(bs, p) ==
  LET rep    == bs[p] = 243
      word   == bs[p] = 102
      at     == IF rep \/ word THEN p + 1 ELSE p
      hasRex == bs[at] \in 64 .. 79
      opAt   == IF hasRex THEN at + 1 ELSE at
      two    == bs[opAt] = 15
      rex    == IF hasRex THEN bs[at] - 64 ELSE 0
      wide   == rex \div 8 = 1
  IN [rep |-> rep, hasRex |-> hasRex, rex |-> rex, wide |-> wide, two |-> two,
      size |-> IF wide THEN 8 ELSE IF word THEN 2 ELSE 4,
      op |-> IF two THEN bs[opAt + 1] ELSE bs[opAt], m |-> IF two THEN opAt + 2 ELSE opAt + 1]

(* Registers of one byte without REX are AL, CL, DL, BL and the high ones. *)
Gpr(h, n, size) == Reg(IF size = 1 /\ ~h.hasRex /\ n \in 4 .. 7 THEN n + 12 ELSE n, size)

(* ModRM: mod, reg and r/m, and the distance behind it.                    *)
Mod(bs, h)   == bs[h.m] \div 64
Digit(bs, h) == (bs[h.m] \div 8) % 8
IsRip(bs, h) == Mod(bs, h) = 0 /\ bs[h.m] % 8 = 5
DispLen(bs, h) ==
  CASE Mod(bs, h) = 1 -> 1
    [] Mod(bs, h) = 2 \/ IsRip(bs, h) -> 4
    [] OTHER -> 0
After(bs, h) == h.m + 1 + DispLen(bs, h)

Field(bs, h, size) == Gpr(h, Digit(bs, h) + 8 * ((h.rex \div 4) % 2), size)
RM(bs, h, size) ==
  LET rm == (bs[h.m] % 8) + 8 * (h.rex % 2)
  IN CASE Mod(bs, h) = 3 -> Gpr(h, rm, size)
       [] IsRip(bs, h)   -> Rip(size)
       [] OTHER -> Mem(rm, IF DispLen(bs, h) = 0 THEN 0
                           ELSE SignedAt(bs, h.m + 1, DispLen(bs, h)), size)

(* An instruction and where the next one begins: without ModRM, with it,   *)
(* with an immediate of n bytes at q, with a distance to elsewhere.        *)
Plain(h, cmd, args)    == [instr |-> Instr(cmd, args), next |-> h.m]
Ended(bs, h, cmd, args) == [instr |-> Instr(cmd, args), next |-> After(bs, h)]
WithImm(bs, cmd, x, q, n) ==
  [instr |-> Instr(cmd, <<x, Imm(SignedAt(bs, q, n))>>), next |-> q + n]
Far(h, cmd)            == [instr |-> Instr(cmd, <<Label>>), next |-> h.m + 4]

ReadTwo(bs, h) ==      \* opcodes behind the byte 15
  LET op == h.op
      Extended(cmd, size) ==
        Ended(bs, h, cmd, <<Field(bs, h, h.size), RM(bs, h, size)>>)
  IN CASE op = 5 -> Plain(h, "SYSCALL", <<>>)
       [] op \in 128 .. 143 -> Far(h, JumpCmd[op - 127])
       [] op \in 144 .. 159 -> Ended(bs, h, SetCmd[op - 143], <<RM(bs, h, 1)>>)
       [] op = 175 -> Extended("IMUL", h.size)
       [] op \in {182, 183} -> Extended("MOVZX", IF op = 182 THEN 1 ELSE 2)
       [] op \in {190, 191} -> Extended("MOVSX", IF op = 190 THEN 1 ELSE 2)

ReadOne(bs, h) ==
  LET op     == h.op
      any    == IF op % 2 = 0 THEN 1 ELSE h.size          \* the low bit of most
      immLen == IF h.size = 2 THEN 2 ELSE 4
      low    == (op % 8) + 8 * (h.rex % 2)
      after  == After(bs, h)
      Two(cmd, x, y) == Ended(bs, h, cmd, <<x, y>>)
      Arith(cmd) == IF op % 4 < 2 THEN Two(cmd, RM(bs, h, any), Field(bs, h, any))
                                  ELSE Two(cmd, Field(bs, h, any), RM(bs, h, any))
  IN CASE op < 64 /\ op % 8 < 4 -> Arith(Group1[op \div 8 + 1])
       [] Is(op, 80) -> Plain(h, "PUSH", <<Reg(low, 8)>>)
       [] Is(op, 88) -> Plain(h, "POP", <<Reg(low, 8)>>)
       [] op \in {105, 107} ->
            WithImm(bs, "IMUL", Field(bs, h, h.size), after, IF op = 107 THEN 1 ELSE immLen)
       [] op \in {128, 129, 131} ->
            WithImm(bs, Group1[Digit(bs, h) + 1], RM(bs, h, any), after,
                    IF op = 129 THEN immLen ELSE 1)
       [] op \in {132, 133} -> Two("TEST", RM(bs, h, any), Field(bs, h, any))
       [] op \in 136 .. 139 -> Arith("MOV")
       [] op = 141 -> Two("LEA", Field(bs, h, h.size), RM(bs, h, 8))
       [] op = 152 -> Plain(h, IF h.wide THEN "CDQE" ELSE "CWDE", <<>>)
       [] op = 153 -> Plain(h, IF h.wide THEN "CQO" ELSE "CDQ", <<>>)
       [] op = 164 -> Plain(h, IF h.rep THEN "REP_MOVSB" ELSE "MOVSB", <<>>)
       [] op = 170 -> Plain(h, IF h.rep THEN "REP_STOSB" ELSE "STOSB", <<>>)
       [] Is(op, 176) -> WithImm(bs, "MOV", Gpr(h, low, 1), h.m, 1)
       [] Is(op, 184) -> WithImm(bs, "MOV", Reg(low, h.size), h.m, h.size)
       [] op = 195 -> Plain(h, "RET", <<>>)
       [] op = 198 -> WithImm(bs, "MOV", RM(bs, h, 1), after, 1)
       [] op = 199 -> WithImm(bs, "MOV", RM(bs, h, h.size), after, immLen)
       [] op = 232 -> Far(h, "CALL")
       [] op = 233 -> Far(h, "JMP")
       [] op \in {246, 247} /\ Digit(bs, h) > 1 ->
            Ended(bs, h, Group3[Digit(bs, h) + 1], <<RM(bs, h, any)>>)

Read(bs, p) ==
  LET h == Opcode(bs, p) IN IF h.two THEN ReadTwo(bs, h) ELSE ReadOne(bs, h)

(* Instructions one after the other; one that goes over the end of the     *)
(* bytes is the last.                                                      *)
ReadFrom(bs) ==
  LET From[p \in 1 .. Len(bs) + 1] ==
        LET r == Read(bs, p)
        IN IF p > Len(bs) THEN <<>>
           ELSE IF r.next \in p + 1 .. Len(bs) + 1 THEN <<r.instr>> \o From[r.next]
           ELSE <<r.instr>>
  IN From
Disassembled(bs) == ReadFrom(bs)[1]
=============================================================================
