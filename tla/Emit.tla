-------------------------------- MODULE Emit --------------------------------
(***************************************************************************)
(* The emission of a function body (Backend/GenIR/Backend.cpp): emit_body, *)
(* emit_block, emit_cond_block, emit_for_block, emit_while_block, and the  *)
(* operators `and`, `or` of emit_oper turn a tree into labels and jumps;   *)
(* then the machine runs what was emitted.                                 *)
(*                                                                         *)
(* The tree is chosen as the compiler reaches it, so every body is an      *)
(* input.  nest is the compiler's recursion: a call of an emission with    *)
(* its locals.  An item of code stands for the instructions emitted at     *)
(* once for an operand or a line; TEST RAX, RAX belongs to the jump        *)
(* behind it.  Operands and lines are numbered as nodes of the tree, what  *)
(* they compute is the machine's choice of RAX (zero or not).              *)
(***************************************************************************)
EXTENDS Integers, Sequences

CONSTANTS
  StartCounter,   \* label_counter when the function is reached
  Kinds,          \* statements and operators of the run
  MaxNodes        \* bound of the model: nodes of the tree

AllKinds == {"line", "and", "or", "cond_block", "elif", "else_branch",
             "while_block", "for_block", "break", "continue", "return", "exit"}

ASSUME EmitAssumption ==
  /\ StartCounter \in Nat /\ MaxNodes \in Nat
  /\ Kinds \subseteq AllKinds

VARIABLES
  label_counter, loop_label_break, loop_label_continue,  \* of the context
  nest,    \* emissions begun, the innermost last
  mode,    \* what comes next: "stmt", "expr", "value", or "run", "stop"
  code,    \* items emitted
  tree,    \* the nodes emitted so far
  ip, rax, \* the machine: item to run, whether RAX is not zero
  last     \* the latest thing the program did (for Control only)

emission == <<label_counter, loop_label_break, loop_label_continue, nest>>
machine  == <<ip, rax, last>>
vars     == <<emission, machine, mode, code, tree>>

-----------------------------------------------------------------------------
Item(op, l, n) == [op |-> op, label |-> l, node |-> n]
Label(l)    == Item("label", l, 0)
Jmp(l)      == Item("jmp", l, 0)
Jz(l)       == Item("jz", l, 0)
Jnz(l)      == Item("jnz", l, 0)
JzUntested(l, n) == Item("jz", l, n)   \* no condition was evaluated before
Ret         == Item("ret", -1, 0)
Jumps       == {"jmp", "jz", "jnz"}

(* An emission begun: its node, the part of the node it is at, its labels  *)
(* (l1, l2), and the loop labels it has to restore.                        *)
Frame(kind, n, at, l1, l2) ==
  [kind |-> kind, node |-> n, at |-> at, l1 |-> l1, l2 |-> l2,
   last_break |-> loop_label_break, last_continue |-> loop_label_continue]

else_label(c)   == c.l1     \* emit_cond_block
end_cond(c)     == c.l2
cur_break(c)    == c.l1     \* emit_for_block, emit_while_block
cur_continue(c) == c.l2
label_end(c)    == c.l1     \* emit_oper

Top == nest[Len(nest)]
Enter(c)   == nest' = Append(nest, c)
GoOn(c)    == nest' = [nest EXCEPT ![Len(nest)] = c]
Done       == nest' = SubSeq(nest, 1, Len(nest) - 1)
LoopKinds  == {"while_block", "for_block"}
InLoop     == \E i \in DOMAIN nest : nest[i].kind \in LoopKinds

New == Len(tree) + 1
Node(kind, up, part) == [kind |-> kind, up |-> up, part |-> part]
Source(kind) == tree' = Append(tree, Node(kind, Top.node, Top.at))
Room(n) == Len(tree) + n <= MaxNodes

Emits(items) == code' = code \o items
Context == <<label_counter, loop_label_break, loop_label_continue>>

(* KTL_BackendInit, emit_function *)
Init ==
  /\ label_counter = StartCounter
  /\ loop_label_break = -1 /\ loop_label_continue = -1
  /\ nest = <<[kind |-> "function", node |-> 0, at |-> "body", l1 |-> -1, l2 |-> -1,
               last_break |-> -1, last_continue |-> -1]>>
  /\ mode = "stmt" /\ code = <<>> /\ tree = <<>>
  /\ ip = 1 /\ rax = FALSE
  /\ last = [node |-> 0, value |-> TRUE, turn |-> 0]

-----------------------------------------------------------------------------
(* Expressions.  An operand leaves its value in RAX.                       *)
Operand ==
  /\ mode = "expr" /\ Top.kind # "line"
  /\ Source("operand")
  /\ Emits(<<Item("eval", -1, New)>>)
  /\ mode' = "value"
  /\ UNCHANGED <<emission, machine>>

(* emit_oper, KTL_OPER_AND and KTL_OPER_OR *)
Logic(op) ==
  /\ mode = "expr" /\ op \in Kinds /\ Room(3)
  /\ Source(op)
  /\ Enter(Frame(op, New, "left", label_counter, -1))
  /\ label_counter' = label_counter + 1
  /\ UNCHANGED <<loop_label_break, loop_label_continue, mode, code, machine>>

(* Broken form of LogicLeft: both operators leave when RAX is zero.        *)
LogicLeftAlike ==
  /\ mode = "value" /\ Top.kind \in {"and", "or"} /\ Top.at = "left"
  /\ Emits(<<Jz(label_end(Top))>>)
  /\ GoOn([Top EXCEPT !.at = "right"])
  /\ mode' = "expr"
  /\ UNCHANGED <<Context, tree, machine>>

LogicLeft ==
  /\ mode = "value" /\ Top.kind \in {"and", "or"} /\ Top.at = "left"
  /\ Emits(<<IF Top.kind = "and" THEN Jz(label_end(Top)) ELSE Jnz(label_end(Top))>>)
  /\ GoOn([Top EXCEPT !.at = "right"])
  /\ mode' = "expr"
  /\ UNCHANGED <<Context, tree, machine>>

LogicRight ==
  /\ mode = "value" /\ Top.kind \in {"and", "or"} /\ Top.at = "right"
  /\ Emits(<<Label(label_end(Top))>>)
  /\ Done
  /\ UNCHANGED <<Context, mode, tree, machine>>

-----------------------------------------------------------------------------
(* A declaration, an assignment or a call.  Its operands are emitted in    *)
(* line; an operand that is an `and` or `or` is a part of its own.         *)
Line ==
  /\ mode = "stmt" /\ "line" \in Kinds /\ Room(1)
  /\ Source("line")
  /\ Emits(<<Item("do", -1, New)>>)
  /\ mode' = IF Top.at = "body" THEN "stmt" ELSE "value"
  /\ UNCHANGED <<emission, machine>>

LineOfLogic ==
  /\ mode = "stmt" /\ "line" \in Kinds /\ Kinds \cap {"and", "or"} # {} /\ Room(4)
  /\ Source("line")
  /\ Enter(Frame("line", New, "expr", -1, -1))
  /\ mode' = "expr"
  /\ UNCHANGED <<Context, code, machine>>

LineEnd ==
  /\ mode = "value" /\ Top.kind = "line"
  /\ Emits(<<Item("do", -1, Top.node)>>)
  /\ Done
  /\ mode' = IF nest[Len(nest) - 1].at = "body" THEN "stmt" ELSE "value"
  /\ UNCHANGED <<Context, tree, machine>>

(* emit_body does nothing for KTL_AST_EXIT.                                *)
Exit ==
  /\ mode = "stmt" /\ Top.at = "body" /\ "exit" \in Kinds /\ Room(1)
  /\ Source("exit")
  /\ UNCHANGED <<emission, mode, code, machine>>

(* emit_return, with and without a value *)
Return ==
  /\ mode = "stmt" /\ Top.at = "body" /\ "return" \in Kinds
  /\ Source("return")
  /\ \/ /\ Room(1)
        /\ Emits(<<Ret>>)
        /\ UNCHANGED <<nest, mode>>
     \/ /\ Room(2)
        /\ Enter(Frame("return", New, "expr", -1, -1))
        /\ mode' = "expr"
        /\ UNCHANGED code
  /\ UNCHANGED <<Context, machine>>

ReturnEnd ==
  /\ mode = "value" /\ Top.kind = "return"
  /\ Emits(<<Ret>>)
  /\ Done
  /\ mode' = "stmt"
  /\ UNCHANGED <<Context, tree, machine>>

(* emit_break, emit_continue; the parser lets them pass in loops only      *)
BreakOrContinue(kind) ==
  /\ mode = "stmt" /\ Top.at = "body" /\ kind \in Kinds /\ InLoop /\ Room(1)
  /\ Source(kind)
  /\ Emits(<<Jmp(IF kind = "break" THEN loop_label_break ELSE loop_label_continue)>>)
  /\ UNCHANGED <<emission, mode, machine>>

-----------------------------------------------------------------------------
(* emit_cond_block.  The node of the statement and that of its first       *)
(* branch are Len(tree) + 1 and + 2; amount tells whether there are more.  *)
Cond(alone) ==
  /\ mode = "stmt" /\ Top.at = "body" /\ "cond_block" \in Kinds
  /\ IF alone THEN Room(3) ELSE Kinds \cap {"elif", "else_branch"} # {} /\ Room(5)
  /\ tree' = tree \o <<Node("cond_block", Top.node, Top.at),
                       Node("if_branch", New, "branch")>>
  /\ Enter(Frame("cond_block", New + 1, "cond", label_counter,
                 IF alone THEN label_counter ELSE label_counter + 1))
  /\ label_counter' = label_counter + (IF alone THEN 1 ELSE 2)
  /\ mode' = "expr"
  /\ UNCHANGED <<loop_label_break, loop_label_continue, code, machine>>

CondTest ==
  /\ mode = "value" /\ Top.kind = "cond_block"
  /\ Emits(<<Jz(else_label(Top))>>)
  /\ GoOn([Top EXCEPT !.at = "body"])
  /\ mode' = "stmt"
  /\ UNCHANGED <<Context, tree, machine>>

(* A block ends: what comes next is another branch or the end.  amount # 1 *)
(* announced one branch more at least: the first `elif` or `else`.         *)
BlockEnds(kind) == mode = "stmt" /\ Top.kind = kind /\ Top.at = "body"
InElse     == tree[Top.node].kind = "else_branch"
CondNode   == tree[Top.node].up
First      == Top.node = CondNode + 1
Alone      == First /\ else_label(Top) = end_cond(Top)
BranchEnd  == <<Jmp(end_cond(Top)), Label(else_label(Top))>>

CondElif ==
  /\ BlockEnds("cond_block") /\ ~InElse /\ ~Alone
  /\ "elif" \in Kinds /\ (First \/ Room(2))
  /\ Emits(BranchEnd)
  /\ tree' = Append(tree, Node("if_branch", CondNode, "branch"))
  /\ GoOn([Top EXCEPT !.node = New, !.at = "cond", !.l1 = label_counter])
  /\ label_counter' = label_counter + 1
  /\ mode' = "expr"
  /\ UNCHANGED <<loop_label_break, loop_label_continue, machine>>

CondElse ==
  /\ BlockEnds("cond_block") /\ ~InElse /\ ~Alone
  /\ "else_branch" \in Kinds /\ (First \/ Room(1))
  /\ Emits(BranchEnd)
  /\ tree' = Append(tree, Node("else_branch", CondNode, "branch"))
  /\ GoOn([Top EXCEPT !.node = New])
  /\ UNCHANGED <<Context, mode, machine>>

(* Broken form of CondEnd: the label at the end belongs to `else`.         *)
CondEndOfElse ==
  /\ BlockEnds("cond_block") /\ (First => Alone)
  /\ Emits(IF InElse THEN <<Label(end_cond(Top))>> ELSE BranchEnd)
  /\ Done
  /\ UNCHANGED <<Context, mode, tree, machine>>

CondEnd ==
  /\ BlockEnds("cond_block") /\ (First => Alone)
  /\ Emits((IF InElse THEN <<>> ELSE BranchEnd) \o <<Label(end_cond(Top))>>)
  /\ Done
  /\ UNCHANGED <<Context, mode, tree, machine>>

-----------------------------------------------------------------------------
(* emit_while_block, emit_for_block: labels for break, then for continue;  *)
(* those of the loop around are kept in locals.                            *)
EnterLoop(kind, at) ==
  /\ Source(kind)
  /\ Enter(Frame(kind, New, at, label_counter, label_counter + 1))
  /\ loop_label_break' = label_counter
  /\ loop_label_continue' = label_counter + 1
  /\ label_counter' = label_counter + 2

While ==
  /\ mode = "stmt" /\ Top.at = "body" /\ "while_block" \in Kinds /\ Room(2)
  /\ EnterLoop("while_block", "cond")
  /\ Emits(<<Label(label_counter + 1)>>)
  /\ mode' = "expr"
  /\ UNCHANGED machine

LoopTest ==
  /\ mode = "value" /\ Top.kind \in LoopKinds /\ Top.at = "cond"
  /\ Emits(<<Jz(cur_break(Top))>>)
  /\ GoOn([Top EXCEPT !.at = "body"])
  /\ mode' = "stmt"
  /\ UNCHANGED <<Context, tree, machine>>

(* JMP L_cont; LABEL L_brk; the labels of the loop around are back.        *)
LeaveLoop ==
  /\ Emits(<<Jmp(cur_continue(Top)), Label(cur_break(Top))>>)
  /\ Done
  /\ mode' = "stmt"
  /\ loop_label_break' = Top.last_break
  /\ loop_label_continue' = Top.last_continue
  /\ UNCHANGED <<label_counter, tree, machine>>

WhileEnd == BlockEnds("while_block") /\ LeaveLoop

For(has_init) ==
  /\ mode = "stmt" /\ Top.at = "body" /\ "for_block" \in Kinds
  /\ Room(IF has_init THEN 2 ELSE 1)
  /\ EnterLoop("for_block", "init")
  /\ mode' = IF has_init THEN "stmt" ELSE "value"
  /\ UNCHANGED <<code, machine>>

(* The condition may be missing; RAX is tested in any case.                *)
ForTest ==
  /\ mode = "value" /\ Top.kind = "for_block" /\ Top.at = "init"
  /\ \/ /\ Room(1)
        /\ Emits(<<Label(cur_continue(Top))>>)
        /\ GoOn([Top EXCEPT !.at = "cond"])
        /\ mode' = "expr"
     \/ /\ Emits(<<Label(cur_continue(Top)), JzUntested(cur_break(Top), Top.node)>>)
        /\ GoOn([Top EXCEPT !.at = "body"])
        /\ mode' = "stmt"
  /\ UNCHANGED <<Context, tree, machine>>

ForStep ==
  /\ BlockEnds("for_block") /\ "line" \in Kinds /\ Room(1)
  /\ GoOn([Top EXCEPT !.at = "step"])
  /\ UNCHANGED <<Context, mode, code, tree, machine>>

ForEnd ==
  /\ \/ BlockEnds("for_block")
     \/ mode = "value" /\ Top.kind = "for_block" /\ Top.at = "step"
  /\ LeaveLoop

(* emit_function: the epilogue of a function, emit_exit behind main.       *)
FunctionEnd ==
  /\ BlockEnds("function")
  /\ Emits(<<Ret>>)
  /\ mode' = "run"
  /\ UNCHANGED <<emission, tree, machine>>

Emission ==
  \/ Operand \/ LogicLeft \/ LogicRight
  \/ \E op \in {"and", "or"} : Logic(op)
  \/ Line \/ LineOfLogic \/ LineEnd \/ Exit \/ Return \/ ReturnEnd
  \/ \E kind \in {"break", "continue"} : BreakOrContinue(kind)
  \/ \E alone \in BOOLEAN : Cond(alone)
  \/ CondTest \/ CondElif \/ CondElse \/ CondEnd
  \/ While \/ LoopTest \/ WhileEnd
  \/ \E has_init \in BOOLEAN : For(has_init)
  \/ ForTest \/ ForStep \/ ForEnd
  \/ FunctionEnd

-----------------------------------------------------------------------------
(* The machine.  A label is where it was declared first (find_decl).       *)
Places(l)  == {i \in DOMAIN code : code[i] = Label(l)}
Address(l) == CHOOSE i \in Places(l) : \A j \in Places(l) : i <= j
Current    == code[ip]
Happens(n, v) == last' = [node |-> n, value |-> v, turn |-> 1 - last.turn]

RunItem ==
  /\ Current.op \in {"eval", "do"}
  /\ \E v \in BOOLEAN : rax' = v /\ Happens(Current.node, v)
  /\ ip' = ip + 1
  /\ UNCHANGED mode

RunLabel ==
  /\ Current.op = "label"
  /\ ip' = ip + 1
  /\ UNCHANGED <<mode, rax, last>>

Taken == \/ Current.op = "jmp"
         \/ Current.op = "jz" /\ ~rax
         \/ Current.op = "jnz" /\ rax

RunJump ==
  /\ Current.op \in Jumps
  /\ Taken => Places(Current.label) # {}
  /\ ip' = IF Taken THEN Address(Current.label) ELSE ip + 1
  /\ IF Current.node # 0 THEN Happens(Current.node, rax) ELSE UNCHANGED last
  /\ UNCHANGED <<mode, rax>>

RunRet ==
  /\ Current.op = "ret"
  /\ Happens(0, FALSE)
  /\ mode' = "stop"
  /\ UNCHANGED <<ip, rax>>

Execution ==
  /\ mode = "run"
  /\ RunItem \/ RunLabel \/ RunJump \/ RunRet
  /\ UNCHANGED <<emission, code, tree>>

Next == Emission \/ Execution

(* The compiler goes on until it has emitted the function, the machine     *)
(* until the function returns.                                             *)
Spec == Init /\ [][Next]_vars /\ WF_vars(Next)

-----------------------------------------------------------------------------
(* Properties.                                                             *)
(* Labels an emission begun will still declare.                            *)
Pending(c) ==
  CASE c.kind \in {"and", "or"} -> {label_end(c)}
    [] c.kind = "cond_block" -> {else_label(c), end_cond(c)}
    [] c.kind \in LoopKinds -> {cur_break(c), cur_continue(c)}
    [] OTHER -> {}

(* Every jump leads to a label that is declared, or that a construct still *)
(* open declares: once the function is emitted, each of its jumps finds    *)
(* its label in the function.  This is what Assemble assumes (LabelsClosed)*)
JumpsClosed ==
  \A i \in DOMAIN code : code[i].op \in Jumps =>
     \/ Places(code[i].label) # {}
     \/ \E k \in DOMAIN nest : code[i].label \in Pending(nest[k])

(* The emitted code does what the statements mean: every event of the      *)
(* machine is the next one of the source, and the machine goes on as long  *)
(* as the source does (Control says what is left open and left out).       *)
Program    == IF mode \in {"run", "stop"} THEN tree ELSE <<>>
Statements == INSTANCE Control WITH tree <- Program
SourceControl == Statements!Spec
=============================================================================
