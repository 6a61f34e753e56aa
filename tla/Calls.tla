------------------------------- MODULE Calls -------------------------------
(***************************************************************************)
(* The stack discipline of the emitted code (Backend/GenIR/Backend.cpp):   *)
(* emit_func_call, and every emission that keeps a value on the stack      *)
(* while it evaluates another one (emit_oper, emit_assign, the index case  *)
(* of emit_load_address).                                                  *)
(*                                                                         *)
(* The compiler recurses over a statement; the machine runs the emitted    *)
(* instructions in the same order, so both are followed at once: work is   *)
(* the compiler's recursion, stack and regs are the machine's.  Instruc-   *)
(* tions that move no word on or off the stack are part of the step that   *)
(* follows them.  A value is whatever the program computes.                *)
(***************************************************************************)
EXTENDS Integers, Sequences

CONSTANTS
  Values,                \* 64-bit words a program can compute
  Junk,                  \* the content of a word nobody has written
  KTL_PARAM_REGS_COUNT,  \* Len(KTL_PARAM_REGS); the first of them is RDI
  FuncFrame, MainFrame,  \* frame_size of a function, main_frame_size
  MaxArgs, MaxWork       \* bounds of the model: arguments, nesting

(* The frames are what theorem FramesAlignedCorrect says they are.         *)
ASSUME CallsAssumption ==
  /\ Junk \notin Values
  /\ KTL_PARAM_REGS_COUNT \in Nat \ {0}
  /\ FuncFrame \in Nat /\ FuncFrame % 16 = 0
  /\ MainFrame \in Nat /\ MainFrame % 16 = 8
  /\ MaxArgs \in Nat /\ MaxWork \in Nat

VARIABLES
  unit,         \* "main" or "function": whose body is emitted
  stack_depth,  \* cont->stack_depth
  work,         \* constructs begun, the innermost last
  pc,           \* "statement", "expr", "value", "pushed", "popped", "call"
  stack,        \* words pushed since the prologue, the top one last
  regs,         \* the parameter registers
  rax

vars == <<unit, stack_depth, work, pc, stack, regs, rax>>

Registers == 1 .. KTL_PARAM_REGS_COUNT
RDI == 1

(* A construct begun.  n: arguments of a call; got: the values it has put  *)
(* on the stack so far; base: how many words lay there when it began; pad: *)
(* emit_func_call's need_align.  got and base are kept for the properties. *)
Construct(kind, n) ==
  [kind |-> kind, n |-> n, got |-> <<>>, base |-> Len(stack), pad |-> FALSE]

Top == work[Len(work)]
Begin(kind, n) == work' = Append(work, Construct(kind, n))
Replace(c)     == work' = [work EXCEPT ![Len(work)] = c]
End            == work' = SubSeq(work, 1, Len(work) - 1)

n_reg_par(c) ==
  IF c.n >= KTL_PARAM_REGS_COUNT THEN KTL_PARAM_REGS_COUNT ELSE c.n
n_stack_par(c) == c.n - n_reg_par(c)

Drop(s, n) == SubSeq(s, 1, Len(s) - n)

(* emit_push, emit_pop *)
emit_push(v) == /\ stack' = Append(stack, v)
                /\ stack_depth' = stack_depth + 8

emit_pop(r) == /\ regs' = [regs EXCEPT ![r] = stack[Len(stack)]]
               /\ stack' = Drop(stack, 1)
               /\ stack_depth' = stack_depth - 8

(* emit_text and emit_function_header set the depth to 0.                  *)
Init ==
  /\ unit \in {"main", "function"}
  /\ stack_depth = 0 /\ work = <<>> /\ pc = "statement"
  /\ stack = <<>> /\ rax = Junk
  /\ regs = [r \in Registers |-> Junk]

-----------------------------------------------------------------------------
(* emit_body: a statement is a call, an assignment (the address of its     *)
(* left side is kept while the right one is evaluated), or evaluates one   *)
(* expression (a condition, an initialiser, a returned value).             *)
StartCall(n) ==
  /\ Begin("call", n)
  /\ pc' = IF n = 0 THEN "pushed" ELSE "expr"
  /\ UNCHANGED <<unit, stack_depth, stack, regs, rax>>

StartHold ==
  /\ Begin("left", 0) /\ pc' = "expr"
  /\ UNCHANGED <<unit, stack_depth, stack, regs, rax>>

Statement ==
  /\ pc = "statement"
  /\ \/ \E n \in 0 .. MaxArgs : StartCall(n)
     \/ StartHold
     \/ pc' = "expr" /\ UNCHANGED <<unit, stack_depth, work, stack, regs, rax>>

(* emit_expr.  A leaf leaves its value in RAX; unary operators, casts and  *)
(* field accesses change RAX after the one expression they have.           *)
Leaf ==
  /\ pc = "expr"
  /\ \E v \in Values : rax' = v
  /\ pc' = "value"
  /\ UNCHANGED <<unit, stack_depth, work, stack, regs>>

Nested == pc = "expr" /\ Len(work) < MaxWork

(* Binary arithmetic, a comparison, an indexed access.                     *)
Binary == Nested /\ StartHold

Logic ==
  /\ Nested
  /\ Begin("and_or", 0)
  /\ UNCHANGED <<unit, stack_depth, pc, stack, regs, rax>>

Call == Nested /\ \E n \in 0 .. MaxArgs : StartCall(n)

(* The first operand (or the address) is ready: it waits on the stack.     *)
HoldLeft ==
  /\ pc = "value" /\ work # <<>> /\ Top.kind = "left"
  /\ emit_push(rax)
  /\ Replace([Top EXCEPT !.kind = "right", !.got = <<rax>>])
  /\ pc' = "expr"
  /\ UNCHANGED <<unit, regs, rax>>

(* Broken form of Combine: no emit_pop.                                    *)
CombineUnpopped ==
  /\ pc = "value" /\ work # <<>> /\ Top.kind = "right"
  /\ \E v \in Values : rax' = v
  /\ End
  /\ UNCHANGED <<unit, pc, stack, stack_depth, regs>>

(* The second is ready: RDI gets the first back, RAX the result.  Division *)
(* and remainder swap the two through one more push and pop.               *)
Combine ==
  /\ pc = "value" /\ work # <<>> /\ Top.kind = "right"
  /\ emit_pop(RDI)
  /\ \E v \in Values : rax' = v
  /\ End
  /\ UNCHANGED <<unit, pc>>

(* "and", "or": the machine jumps over the second operand or falls into it *)
AndOr ==
  /\ pc = "value" /\ work # <<>> /\ Top.kind = "and_or"
  /\ End
  /\ pc' \in {"value", "expr"}
  /\ UNCHANGED <<unit, stack_depth, stack, regs, rax>>

EndStatement ==
  /\ pc = "value" /\ work = <<>>
  /\ pc' = "statement"
  /\ UNCHANGED <<unit, stack_depth, work, stack, regs, rax>>

(* emit_func_call: the arguments are evaluated last to first and pushed,   *)
PushArgument ==
  /\ pc = "value" /\ work # <<>> /\ Top.kind = "call"
  /\ emit_push(rax)
  /\ Replace([Top EXCEPT !.got = Append(@, rax)])
  /\ pc' = IF Len(Top.got) + 1 < Top.n THEN "expr" ELSE "pushed"
  /\ UNCHANGED <<unit, regs, rax>>

(* Broken form of PopArguments: the last argument into the first register. *)
PopArgumentsReversed ==
  /\ pc = "pushed"
  /\ LET n == n_reg_par(Top) IN
       /\ regs' = [r \in Registers |-> IF r <= n THEN stack[Len(stack) - n + r]
                                                 ELSE regs[r]]
       /\ stack' = Drop(stack, n)
       /\ stack_depth' = stack_depth - 8 * n
  /\ pc' = "popped"
  /\ UNCHANGED <<unit, work, rax>>

(* the first ones popped into their registers,                             *)
PopArguments ==
  /\ pc = "pushed"
  /\ LET n == n_reg_par(Top) IN
       /\ regs' = [r \in Registers |-> IF r <= n THEN stack[Len(stack) + 1 - r]
                                                 ELSE regs[r]]
       /\ stack' = Drop(stack, n)
       /\ stack_depth' = stack_depth - 8 * n
  /\ pc' = "popped"
  /\ UNCHANGED <<unit, work, rax>>

(* Broken form of Align: the decision looks at the number of arguments.    *)
AlignByCount ==
  /\ pc = "popped"
  /\ LET need_align == Top.n % 2 # 0 IN
       /\ stack' = IF need_align THEN Append(stack, Junk) ELSE stack
       /\ stack_depth' = IF need_align THEN stack_depth + 8 ELSE stack_depth
       /\ Replace([Top EXCEPT !.pad = need_align])
  /\ pc' = "call"
  /\ UNCHANGED <<unit, regs, rax>>

(* rsp moved down if the depth is odd,                                     *)
Align ==
  /\ pc = "popped"
  /\ LET need_align == stack_depth % 16 # 0 IN
       /\ stack' = IF need_align THEN Append(stack, Junk) ELSE stack
       /\ stack_depth' = IF need_align THEN stack_depth + 8 ELSE stack_depth
       /\ Replace([Top EXCEPT !.pad = need_align])
  /\ pc' = "call"
  /\ UNCHANGED <<unit, regs, rax>>

(* Broken form of cleanup: the padding stays.                              *)
cleanup_args(c) == n_stack_par(c) * 8

(* and when the callee is back, with the result in RAX and nothing else    *)
(* kept, the padding and the arguments on the stack are dropped.           *)
cleanup(c) == (IF c.pad THEN 8 ELSE 0) + n_stack_par(c) * 8

Return ==
  /\ pc = "call"
  /\ stack' = Drop(stack, cleanup(Top) \div 8)
  /\ stack_depth' = stack_depth - cleanup(Top)
  /\ regs' = [r \in Registers |-> Junk]
  /\ \E v \in Values : rax' = v
  /\ End
  /\ pc' = "value"
  /\ UNCHANGED unit

Next ==
  \/ Statement \/ Leaf \/ Binary \/ Logic \/ Call
  \/ HoldLeft \/ Combine \/ AndOr \/ EndStatement
  \/ PushArgument \/ PopArguments \/ Align \/ Return

Spec == Init /\ [][Next]_vars

-----------------------------------------------------------------------------
(* Properties.                                                             *)

Words == Values \cup {Junk}

TypeInv ==
  /\ unit \in {"main", "function"}
  /\ pc \in {"statement", "expr", "value", "pushed", "popped", "call"}
  /\ stack_depth \in Nat /\ stack \in Seq(Words) /\ rax \in Words
  /\ regs \in [Registers -> Words]
  /\ work \in Seq([kind : {"left", "right", "and_or", "call"}, n : 0 .. MaxArgs,
                   got : Seq(Values), base : Nat, pad : BOOLEAN])

(* The compiler's count is the machine's: whether rsp has to be moved      *)
(* before a call is decided from it.                                       *)
DepthTracksStack == stack_depth = 8 * Len(stack)

Popped(k) == k = Len(work) /\ pc \in {"popped", "call"}

(* How many words a construct keeps on the stack.                          *)
Kept(k) ==
  IF Popped(k) THEN n_stack_par(work[k]) + (IF work[k].pad THEN 1 ELSE 0)
               ELSE Len(work[k].got)

(* Every construct starts right above what those around it keep, and when  *)
(* it ends the stack is as it was, on both ways through "and" and "or";    *)
(* between statements nothing is left, so the slots stay in reach of rbp   *)
(* and loops do not grow the stack.                                        *)
Balanced ==
  /\ \A k \in DOMAIN work :
       work[k].base = IF k = 1 THEN 0 ELSE work[k - 1].base + Kept(k - 1)
  /\ Len(stack) = IF work = <<>> THEN 0 ELSE Top.base + Kept(Len(work))

(* A value that waits is not touched by what is evaluated meanwhile,       *)
(* however deeply calls and operators nest.                                *)
HeldValues ==
  \A k \in DOMAIN work : ~Popped(k) =>
    \A i \in DOMAIN work[k].got :
      /\ work[k].base + i <= Len(stack)
      /\ stack[work[k].base + i] = work[k].got[i]

(* The left operand, or the address assigned to, is in RDI when the        *)
(* operation is emitted.                                                   *)
HeldReturned ==
  [][(pc = "value" /\ work # <<>> /\ Top.kind = "right")
       => regs'[RDI] = Top.got[1]]_vars

(* rsp, from an address that is a multiple of 16: main is entered there, a *)
(* function with the return address on top; both push rbp.                 *)
rsp == (IF unit = "main" THEN 0 - MainFrame ELSE 0 - 8 - FuncFrame)
         - 8 - 8 * Len(stack)

(* The System V convention: rsp is a multiple of 16 at every call.         *)
AlignedAtCalls == pc = "call" => rsp % 16 = 0

Argument(k) == Top.got[Top.n + 1 - k]

StackArgument(k) ==   \* where layout_func says the callee looks for it
  LET i == Len(stack) - (k - KTL_PARAM_REGS_COUNT - 1)
  IN  IF i \in DOMAIN stack THEN stack[i] ELSE Junk

(* At a call the registers hold the first arguments, whatever the others   *)
(* made of the registers while they were evaluated, and the rest is on top *)
(* of the stack in order; if no padding lies over it (see StackArguments). *)
ArgumentsInPlace ==
  pc = "call" =>
    /\ \A k \in 1 .. n_reg_par(Top) : regs[k] = Argument(k)
    /\ ~Top.pad => \A k \in KTL_PARAM_REGS_COUNT + 1 .. Top.n :
                     StackArgument(k) = Argument(k)

(* "rbp + _ret_adr_ ... for 7+ (PARAM_REGS_COUNT + 1) params"              *)
(* (Backend.cpp:246): the callee finds the others right above the return   *)
(* address, at every call.  The code does not keep this.                   *)
StackArguments ==
  pc = "call" => \A k \in KTL_PARAM_REGS_COUNT + 1 .. Top.n :
                   StackArgument(k) = Argument(k)
=============================================================================
