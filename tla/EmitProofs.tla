----------------------------- MODULE EmitProofs -----------------------------
(***************************************************************************)
(* Proofs about the emission of a function's statements, for bodies of any *)
(* size and nesting and any label_counter: where its jumps lead and which  *)
(* labels it declares (first part), and that the machine, running what was *)
(* emitted, does what the statements mean (from "The tree while it grows"  *)
(* on).                                                                    *)
(***************************************************************************)
EXTENDS Emit, TLAPS, NaturalsInduction, WellFoundedInduction

FrameKinds == {"function", "line", "return", "and", "or", "cond_block"} \cup LoopKinds
Frames == [kind : FrameKinds, node : Nat,
           at : {"body", "expr", "left", "right", "cond", "init", "step"},
           l1 : Int, l2 : Int, last_break : Int, last_continue : Int]
Items  == [op : {"eval", "do", "label", "ret"} \cup Jumps, label : Int, node : Nat]
Parts  == {"body", "expr", "left", "right", "cond", "init", "step", "branch"}
Nodes  == [kind : AllKinds \cup {"operand", "if_branch"}, up : Nat, part : Parts]

TypeInv ==
  /\ label_counter \in Int
  /\ loop_label_break \in Int /\ loop_label_continue \in Int
  /\ nest \in Seq(Frames) /\ Len(nest) >= 1
  /\ mode \in {"stmt", "expr", "value", "run", "stop"}
  /\ code \in Seq(Items) /\ tree \in Seq(Nodes)
  /\ ip \in Nat /\ rax \in BOOLEAN
  /\ last \in [node : Nat, value : BOOLEAN, turn : Int]

(* The function is the outermost emission and the only one of its kind;    *)
(* emissions begun are about nodes that exist.                             *)
Shape ==
  /\ nest[1].kind = "function"
  /\ \A k \in DOMAIN nest :
       /\ nest[k].kind = "function" => k = 1
       /\ nest[k].kind = "cond_block" => nest[k].node \in DOMAIN tree

(* The loop labels of the context as they are, or were, while emission k   *)
(* was the innermost: the emission above it has saved them.  s is the nest *)
(* and b, c are the labels of the context.                                 *)
BreakAt(s, b, k)    == IF k = Len(s) THEN b ELSE s[k + 1].last_break
ContinueAt(s, c, k) == IF k = Len(s) THEN c ELSE s[k + 1].last_continue

(* Loop i is the innermost one around emission k.                          *)
LoopOf(s, i, k) == /\ i <= k /\ s[i].kind \in LoopKinds
                   /\ \A j \in DOMAIN s : j > i /\ j <= k => s[j].kind \notin LoopKinds

LabelsOfLoop(s, b, c, k) ==
  \/ \E i \in DOMAIN s :
       /\ LoopOf(s, i, k)
       /\ BreakAt(s, b, k) = cur_break(s[i]) /\ ContinueAt(s, c, k) = cur_continue(s[i])
  \/ /\ \A j \in DOMAIN s : j <= k => s[j].kind \notin LoopKinds
     /\ BreakAt(s, b, k) = -1 /\ ContinueAt(s, c, k) = -1

LabelsSaved(s, b, c, k) ==
  k > 1 /\ s[k].kind \notin LoopKinds =>
    BreakAt(s, b, k) = s[k].last_break /\ ContinueAt(s, c, k) = s[k].last_continue

Loops(s, b, c) ==
  \A k \in DOMAIN s : LabelsOfLoop(s, b, c, k) /\ LabelsSaved(s, b, c, k)

LoopsNest == Loops(nest, loop_label_break, loop_label_continue)

(* What an emission has declared of its labels before it ends.             *)
Declared(c, l) == \E p \in DOMAIN c : c[p] = Label(l)
EarlyOf(c, t, f) ==
  /\ f.kind = "while_block" => Declared(c, cur_continue(f))
  /\ f.kind = "for_block" /\ f.at # "init" => Declared(c, cur_continue(f))
  /\ f.kind = "cond_block" /\ t[f.node].kind = "else_branch" => Declared(c, else_label(f))
DeclaredEarly == \A k \in DOMAIN nest : EarlyOf(code, tree, nest[k])

(* The machine is inside the code and the code ends with a return.         *)
Inside ==
  /\ mode \notin {"run", "stop"} => ip = 1
  /\ mode \in {"run", "stop"} =>
       Len(nest) = 1 /\ ip \in DOMAIN code /\ code[Len(code)].op = "ret"

Core == Shape /\ LoopsNest /\ DeclaredEarly /\ JumpsClosed
IInv == TypeInv /\ Core /\ Inside

-----------------------------------------------------------------------------
(* Sequences. *)

LEMMA AppendFacts ==
  ASSUME NEW S, NEW s \in Seq(S), NEW e \in S
  PROVE  /\ Append(s, e) \in Seq(S) /\ Len(s) \in Nat
         /\ Len(Append(s, e)) = Len(s) + 1
         /\ DOMAIN s = 1 .. Len(s) /\ DOMAIN Append(s, e) = 1 .. Len(s) + 1
         /\ Append(s, e)[Len(s) + 1] = e
         /\ \A i \in 1 .. Len(s) : Append(s, e)[i] = s[i]
OBVIOUS

LEMMA ReplaceFacts ==
  ASSUME NEW S, NEW s \in Seq(S), NEW e \in S, Len(s) >= 1,
         NEW t, t = [s EXCEPT ![Len(s)] = e]
  PROVE  /\ t \in Seq(S) /\ Len(t) = Len(s) /\ Len(s) \in Nat
         /\ DOMAIN t = 1 .. Len(s) /\ DOMAIN s = 1 .. Len(s)
         /\ t[Len(s)] = e
         /\ \A i \in 1 .. Len(s) : i # Len(s) => t[i] = s[i]
OBVIOUS

LEMMA DropFacts ==
  ASSUME NEW S, NEW s \in Seq(S), NEW n \in 0 .. Len(s)
  PROVE  /\ SubSeq(s, 1, Len(s) - n) \in Seq(S) /\ Len(SubSeq(s, 1, Len(s) - n)) = Len(s) - n
         /\ DOMAIN SubSeq(s, 1, Len(s) - n) = 1 .. Len(s) - n
         /\ \A i \in 1 .. Len(s) - n : SubSeq(s, 1, Len(s) - n)[i] = s[i]
OBVIOUS

LEMMA ConcatFacts ==
  ASSUME NEW S, NEW s \in Seq(S), NEW t \in Seq(S)
  PROVE  /\ s \o t \in Seq(S) /\ Len(s) \in Nat /\ Len(t) \in Nat
         /\ Len(s \o t) = Len(s) + Len(t)
         /\ DOMAIN s = 1 .. Len(s) /\ DOMAIN t = 1 .. Len(t)
         /\ DOMAIN (s \o t) = 1 .. Len(s) + Len(t)
         /\ \A i \in 1 .. Len(s) : (s \o t)[i] = s[i]
         /\ \A i \in 1 .. Len(t) : (s \o t)[Len(s) + i] = t[i]
OBVIOUS

(* A set of natural numbers that is not empty has a least element.         *)
LEMMA NatMin ==
  ASSUME NEW T \in SUBSET Nat, T # {}
  PROVE  \E x \in T : \A y \in T : x <= y
<1>1. IsWellFoundedOn(OpToRel(<, Nat), Nat)
  BY NatLessThanWellFounded
<1>2. PICK x \in T : \A y \in T : <<y, x>> \notin OpToRel(<, Nat)
  BY <1>1, WFMin
<1>3. \A y \in T : ~(y < x)
  BY <1>2, Zenon DEF OpToRel
<1> QED
  BY <1>3

(* Items, nodes and emissions are of their types.                          *)
LEMMA ItemTypes ==
  ASSUME NEW op \in {"eval", "do", "label", "ret"} \cup Jumps, NEW l \in Int, NEW n \in Nat
  PROVE  Item(op, l, n) \in Items
BY DEF Item, Items

LEMMA CodeTypes ==
  ASSUME NEW l \in Int, NEW n \in Nat
  PROVE  /\ Label(l) \in Items /\ Jmp(l) \in Items /\ Jz(l) \in Items /\ Jnz(l) \in Items
         /\ JzUntested(l, n) \in Items /\ Ret \in Items
         /\ Item("eval", -1, n) \in Items /\ Item("do", -1, n) \in Items
BY ItemTypes DEF Label, Jmp, Jz, Jnz, JzUntested, Ret, Jumps

LEMMA RetType == <<Ret>> \in Seq(Items)
<1>1. Ret \in Items
  BY CodeTypes DEF Ret, Item, Items
<1> QED
  BY <1>1

LEMMA NodeTypes ==
  ASSUME NEW k \in AllKinds \cup {"operand", "if_branch"}, NEW n \in Nat, NEW p \in Parts
  PROVE  Node(k, n, p) \in Nodes
BY DEF Node, Nodes

LEMMA FrameTypes ==
  ASSUME TypeInv, NEW k \in FrameKinds, NEW n \in Nat, NEW l1 \in Int, NEW l2 \in Int,
         NEW at \in {"body", "expr", "left", "right", "cond", "init", "step"}
  PROVE  Frame(k, n, at, l1, l2) \in Frames
BY DEF Frame, Frames, TypeInv

LEMMA TopFacts ==
  ASSUME TypeInv
  PROVE  /\ Top \in Frames /\ Len(nest) \in DOMAIN nest /\ Len(nest) \in Nat
         /\ DOMAIN nest = 1 .. Len(nest)
         /\ Top.kind \in FrameKinds /\ Top.node \in Nat /\ Top.l1 \in Int /\ Top.l2 \in Int
         /\ Top.last_break \in Int /\ Top.last_continue \in Int
         /\ Top.at \in {"body", "expr", "left", "right", "cond", "init", "step"}
         /\ Top.at \in Parts
         /\ New \in Nat /\ DOMAIN tree = 1 .. Len(tree) /\ Len(tree) \in Nat
         /\ \A k \in DOMAIN nest : nest[k] \in Frames
<1>1. /\ Len(nest) \in DOMAIN nest /\ Len(nest) \in Nat /\ DOMAIN nest = 1 .. Len(nest)
      /\ New \in Nat /\ DOMAIN tree = 1 .. Len(tree) /\ Len(tree) \in Nat
      /\ \A k \in DOMAIN nest : nest[k] \in Frames
  BY DEF TypeInv, New
<1>2. Top \in Frames
  BY <1>1 DEF Top
<1> QED
  BY <1>1, <1>2 DEF Frames, Parts

-----------------------------------------------------------------------------
(* Types. *)

(* The ways the compiler's recursion moves, and what grows.                *)
LEMMA EnterType ==
  ASSUME TypeInv, NEW c \in Frames, Enter(c)
  PROVE  nest' \in Seq(Frames) /\ Len(nest') >= 1
BY AppendFacts DEF Enter, TypeInv

LEMMA GoOnType ==
  ASSUME TypeInv, NEW c \in Frames, GoOn(c)
  PROVE  nest' \in Seq(Frames) /\ Len(nest') >= 1
BY ReplaceFacts DEF GoOn, TypeInv

LEMMA InnerEmission ==
  ASSUME TypeInv, Shape, Top.kind # "function"
  PROVE  Len(nest) >= 2
BY DEF TypeInv, Shape, Top

LEMMA DoneType ==
  ASSUME TypeInv, Shape, Top.kind # "function", Done
  PROVE  nest' \in Seq(Frames) /\ Len(nest') >= 1
<1>1. nest \in Seq(Frames) /\ 1 \in 0 .. Len(nest) /\ Len(nest) \in Nat /\ Len(nest) >= 2
  BY InnerEmission DEF TypeInv
<1> QED
  BY <1>1, DropFacts DEF Done

LEMMA EmitsType ==
  ASSUME TypeInv, NEW items \in Seq(Items), Emits(items)
  PROVE  code' \in Seq(Items)
BY ConcatFacts DEF Emits, TypeInv

LEMMA SourceType ==
  ASSUME TypeInv, NEW k \in AllKinds \cup {"operand", "if_branch"}, Source(k)
  PROVE  tree' \in Seq(Nodes)
<1>1. Node(k, Top.node, Top.at) \in Nodes
  BY TopFacts, NodeTypes
<1> QED
  BY <1>1, AppendFacts DEF Source, TypeInv

LEMMA InitType == Init => TypeInv
<1> SUFFICES ASSUME Init PROVE TypeInv
  OBVIOUS
<1>1. nest \in Seq(Frames) /\ Len(nest) = 1
  BY DEF Init, Frames, FrameKinds
<1>2. StartCounter \in Int
  BY EmitAssumption
<1>3. last \in [node : Nat, value : BOOLEAN, turn : Int]
  BY DEF Init
<1>4. code \in Seq(Items) /\ tree \in Seq(Nodes)
  BY DEF Init
<1>5. rax \in BOOLEAN /\ ip \in Nat /\ mode = "stmt"
  BY DEF Init
<1>6. label_counter \in Int /\ loop_label_break \in Int /\ loop_label_continue \in Int
  BY <1>2 DEF Init
<1> QED
  BY <1>1, <1>3, <1>4, <1>5, <1>6 DEF TypeInv

LEMMA OperandType ==
  ASSUME TypeInv, Shape, Operand
  PROVE  TypeInv'
<1>1. <<Item("eval", -1, New)>> \in Seq(Items)
  <2>1. New \in Nat /\ 0 \in Int
    BY TopFacts
  <2>2. Item("eval", -1, New) \in Items
    BY <2>1, CodeTypes
  <2> QED
    BY <2>2
<1>2. code' \in Seq(Items)
  BY <1>1, EmitsType DEF Operand
<1>3. tree' \in Seq(Nodes)
  BY SourceType DEF Operand, AllKinds
<1>5. nest' \in Seq(Frames) /\ Len(nest') >= 1
  BY DEF Operand, TypeInv, emission
<1> QED
  BY <1>2, <1>3, <1>5 DEF Operand, TypeInv, machine, emission, Context

LEMMA LogicType ==
  ASSUME TypeInv, Shape, NEW op \in {"and", "or"}, Logic(op)
  PROVE  TypeInv'
<1>2. code' \in Seq(Items)
  BY DEF Logic, TypeInv
<1>3. tree' \in Seq(Nodes)
  BY SourceType DEF Logic, AllKinds
<1>a. label_counter \in Int /\ -1 \in Int
  BY DEF TypeInv
<1>4. Frame(op, New, "left", label_counter, -1) \in Frames
  BY <1>a, TopFacts, FrameTypes DEF FrameKinds
<1>5. nest' \in Seq(Frames) /\ Len(nest') >= 1
  BY <1>4, EnterType DEF Logic
<1> QED
  BY <1>2, <1>3, <1>5 DEF Logic, TypeInv, machine, emission, Context

LEMMA LogicLeftType ==
  ASSUME TypeInv, Shape, LogicLeft
  PROVE  TypeInv'
<1>1. <<IF Top.kind = "and" THEN Jz(label_end(Top)) ELSE Jnz(label_end(Top))>> \in Seq(Items)
  <2>1. label_end(Top) \in Int /\ 0 \in Nat
    BY TopFacts DEF label_end
  <2>2. Jz(label_end(Top)) \in Items /\ Jnz(label_end(Top)) \in Items
    BY <2>1, CodeTypes
  <2> QED
    BY <2>2
<1>2. code' \in Seq(Items)
  BY <1>1, EmitsType DEF LogicLeft
<1>3. tree' \in Seq(Nodes)
  BY DEF LogicLeft, TypeInv
<1>4. [Top EXCEPT !.at = "right"] \in Frames
  BY TopFacts DEF Frames
<1>5. nest' \in Seq(Frames) /\ Len(nest') >= 1
  BY <1>4, GoOnType DEF LogicLeft
<1> QED
  BY <1>2, <1>3, <1>5 DEF LogicLeft, TypeInv, machine, emission, Context

LEMMA LogicRightType ==
  ASSUME TypeInv, Shape, LogicRight
  PROVE  TypeInv'
<1>1. <<Label(label_end(Top))>> \in Seq(Items)
  <2>1. label_end(Top) \in Int /\ 0 \in Nat
    BY TopFacts DEF label_end
  <2>2. Label(label_end(Top)) \in Items
    BY <2>1, CodeTypes
  <2> QED
    BY <2>2
<1>2. code' \in Seq(Items)
  BY <1>1, EmitsType DEF LogicRight
<1>3. tree' \in Seq(Nodes)
  BY DEF LogicRight, TypeInv
<1>5. nest' \in Seq(Frames) /\ Len(nest') >= 1
  BY DoneType DEF LogicRight
<1> QED
  BY <1>2, <1>3, <1>5 DEF LogicRight, TypeInv, machine, emission, Context

LEMMA LineType ==
  ASSUME TypeInv, Shape, Line
  PROVE  TypeInv'
<1>1. <<Item("do", -1, New)>> \in Seq(Items)
  <2>1. New \in Nat /\ 0 \in Int
    BY TopFacts
  <2>2. Item("do", -1, New) \in Items
    BY <2>1, CodeTypes
  <2> QED
    BY <2>2
<1>2. code' \in Seq(Items)
  BY <1>1, EmitsType DEF Line
<1>3. tree' \in Seq(Nodes)
  BY SourceType DEF Line, AllKinds
<1>5. nest' \in Seq(Frames) /\ Len(nest') >= 1
  BY DEF Line, TypeInv, emission
<1> QED
  BY <1>2, <1>3, <1>5 DEF Line, TypeInv, machine, emission, Context

LEMMA LineOfLogicType ==
  ASSUME TypeInv, Shape, LineOfLogic
  PROVE  TypeInv'
<1>2. code' \in Seq(Items)
  BY DEF LineOfLogic, TypeInv
<1>3. tree' \in Seq(Nodes)
  BY SourceType DEF LineOfLogic, AllKinds
<1>a. label_counter \in Int /\ -1 \in Int
  BY DEF TypeInv
<1>4. Frame("line", New, "expr", -1, -1) \in Frames
  BY <1>a, TopFacts, FrameTypes DEF FrameKinds
<1>5. nest' \in Seq(Frames) /\ Len(nest') >= 1
  BY <1>4, EnterType DEF LineOfLogic
<1> QED
  BY <1>2, <1>3, <1>5 DEF LineOfLogic, TypeInv, machine, emission, Context

LEMMA LineEndType ==
  ASSUME TypeInv, Shape, LineEnd
  PROVE  TypeInv'
<1>1. <<Item("do", -1, Top.node)>> \in Seq(Items)
  <2>1. Top.node \in Nat /\ 0 \in Int
    BY TopFacts
  <2>2. Item("do", -1, Top.node) \in Items
    BY <2>1, CodeTypes
  <2> QED
    BY <2>2
<1>2. code' \in Seq(Items)
  BY <1>1, EmitsType DEF LineEnd
<1>3. tree' \in Seq(Nodes)
  BY DEF LineEnd, TypeInv
<1>5. nest' \in Seq(Frames) /\ Len(nest') >= 1
  BY DoneType DEF LineEnd
<1> QED
  BY <1>2, <1>3, <1>5 DEF LineEnd, TypeInv, machine, emission, Context

LEMMA ExitType ==
  ASSUME TypeInv, Shape, Exit
  PROVE  TypeInv'
<1>2. code' \in Seq(Items)
  BY DEF Exit, TypeInv
<1>3. tree' \in Seq(Nodes)
  BY SourceType DEF Exit, AllKinds
<1>5. nest' \in Seq(Frames) /\ Len(nest') >= 1
  BY DEF Exit, TypeInv, emission
<1> QED
  BY <1>2, <1>3, <1>5 DEF Exit, TypeInv, machine, emission, Context

LEMMA ReturnEndType ==
  ASSUME TypeInv, Shape, ReturnEnd
  PROVE  TypeInv'
<1>1. <<Ret>> \in Seq(Items)
  BY RetType
<1>2. code' \in Seq(Items)
  BY <1>1, EmitsType DEF ReturnEnd
<1>3. tree' \in Seq(Nodes)
  BY DEF ReturnEnd, TypeInv
<1>5. nest' \in Seq(Frames) /\ Len(nest') >= 1
  BY DoneType DEF ReturnEnd
<1> QED
  BY <1>2, <1>3, <1>5 DEF ReturnEnd, TypeInv, machine, emission, Context

LEMMA BreakOrContinueType ==
  ASSUME TypeInv, Shape, NEW kind \in {"break", "continue"}, BreakOrContinue(kind)
  PROVE  TypeInv'
<1>1. <<Jmp(IF kind = "break" THEN loop_label_break ELSE loop_label_continue)>> \in Seq(Items)
  <2>1. PICK l \in Int : l = IF kind = "break" THEN loop_label_break ELSE loop_label_continue
    BY DEF TypeInv
  <2>2. Jmp(l) \in Items
    BY CodeTypes
  <2> QED
    BY <2>1, <2>2
<1>2. code' \in Seq(Items)
  BY <1>1, EmitsType DEF BreakOrContinue
<1>3. tree' \in Seq(Nodes)
  BY SourceType DEF BreakOrContinue, AllKinds
<1>5. nest' \in Seq(Frames) /\ Len(nest') >= 1
  BY DEF BreakOrContinue, TypeInv, emission
<1> QED
  BY <1>2, <1>3, <1>5 DEF BreakOrContinue, TypeInv, machine, emission, Context

LEMMA CondTestType ==
  ASSUME TypeInv, Shape, CondTest
  PROVE  TypeInv'
<1>1. <<Jz(else_label(Top))>> \in Seq(Items)
  <2>1. else_label(Top) \in Int /\ 0 \in Nat
    BY TopFacts DEF else_label
  <2>2. Jz(else_label(Top)) \in Items
    BY <2>1, CodeTypes
  <2> QED
    BY <2>2
<1>2. code' \in Seq(Items)
  BY <1>1, EmitsType DEF CondTest
<1>3. tree' \in Seq(Nodes)
  BY DEF CondTest, TypeInv
<1>4. [Top EXCEPT !.at = "body"] \in Frames
  BY TopFacts DEF Frames
<1>5. nest' \in Seq(Frames) /\ Len(nest') >= 1
  BY <1>4, GoOnType DEF CondTest
<1> QED
  BY <1>2, <1>3, <1>5 DEF CondTest, TypeInv, machine, emission, Context

LEMMA LoopTestType ==
  ASSUME TypeInv, Shape, LoopTest
  PROVE  TypeInv'
<1>1. <<Jz(cur_break(Top))>> \in Seq(Items)
  <2>1. cur_break(Top) \in Int /\ 0 \in Nat
    BY TopFacts DEF cur_break
  <2>2. Jz(cur_break(Top)) \in Items
    BY <2>1, CodeTypes
  <2> QED
    BY <2>2
<1>2. code' \in Seq(Items)
  BY <1>1, EmitsType DEF LoopTest
<1>3. tree' \in Seq(Nodes)
  BY DEF LoopTest, TypeInv
<1>4. [Top EXCEPT !.at = "body"] \in Frames
  BY TopFacts DEF Frames
<1>5. nest' \in Seq(Frames) /\ Len(nest') >= 1
  BY <1>4, GoOnType DEF LoopTest
<1> QED
  BY <1>2, <1>3, <1>5 DEF LoopTest, TypeInv, machine, emission, Context

LEMMA ForStepType ==
  ASSUME TypeInv, Shape, ForStep
  PROVE  TypeInv'
<1>2. code' \in Seq(Items)
  BY DEF ForStep, TypeInv
<1>3. tree' \in Seq(Nodes)
  BY DEF ForStep, TypeInv
<1>4. [Top EXCEPT !.at = "step"] \in Frames
  BY TopFacts DEF Frames
<1>5. nest' \in Seq(Frames) /\ Len(nest') >= 1
  BY <1>4, GoOnType DEF ForStep
<1> QED
  BY <1>2, <1>3, <1>5 DEF ForStep, TypeInv, machine, emission, Context

LEMMA FunctionEndType ==
  ASSUME TypeInv, Shape, FunctionEnd
  PROVE  TypeInv'
<1>1. <<Ret>> \in Seq(Items)
  BY RetType
<1>2. code' \in Seq(Items)
  BY <1>1, EmitsType DEF FunctionEnd
<1>3. tree' \in Seq(Nodes)
  BY DEF FunctionEnd, TypeInv
<1>5. nest' \in Seq(Frames) /\ Len(nest') >= 1
  BY DEF FunctionEnd, TypeInv, emission
<1> QED
  BY <1>2, <1>3, <1>5 DEF FunctionEnd, TypeInv, machine, emission, Context


LEMMA ReturnType ==
  ASSUME TypeInv, Shape, Return
  PROVE  TypeInv'
<1>1. tree' \in Seq(Nodes)
  BY SourceType DEF Return, AllKinds
<1>2. code' \in Seq(Items)
  <2>1. CASE Emits(<<Ret>>)
    BY <2>1, RetType, EmitsType
  <2>2. CASE UNCHANGED code
    BY <2>2 DEF TypeInv
  <2> QED
    BY <2>1, <2>2 DEF Return
<1>3. nest' \in Seq(Frames) /\ Len(nest') >= 1
  <2>1. Frame("return", New, "expr", -1, -1) \in Frames
    BY TopFacts, FrameTypes, -1 \in Int DEF FrameKinds
  <2>2. CASE Enter(Frame("return", New, "expr", -1, -1))
    BY <2>1, <2>2, EnterType
  <2>3. CASE UNCHANGED nest
    BY <2>3 DEF TypeInv
  <2> QED
    BY <2>2, <2>3 DEF Return
<1> QED
  BY <1>1, <1>2, <1>3 DEF Return, TypeInv, machine, Context

LEMMA CondType ==
  ASSUME TypeInv, Shape, NEW alone \in BOOLEAN, Cond(alone)
  PROVE  TypeInv'
<1>1. label_counter \in Int /\ New \in Nat /\ New + 1 \in Nat
  BY TopFacts DEF TypeInv
<1> DEFINE l2 == IF alone THEN label_counter ELSE label_counter + 1
           new == <<Node("cond_block", Top.node, Top.at), Node("if_branch", New, "branch")>>
<1>2. l2 \in Int
  BY <1>1
<1>3. Frame("cond_block", New + 1, "cond", label_counter, l2) \in Frames
  BY <1>1, <1>2, TopFacts, FrameTypes DEF FrameKinds
<1>4. nest' \in Seq(Frames) /\ Len(nest') >= 1
  BY <1>3, EnterType DEF Cond
<1>5. new \in Seq(Nodes)
  <2>1. Node("cond_block", Top.node, Top.at) \in Nodes
    BY TopFacts, NodeTypes DEF AllKinds
  <2>2. Node("if_branch", New, "branch") \in Nodes
    BY <1>1, NodeTypes DEF Parts
  <2> QED
    BY <2>1, <2>2
<1>6. tree' \in Seq(Nodes)
  BY <1>5, ConcatFacts DEF Cond, TypeInv
<1> QED
  BY <1>1, <1>4, <1>6 DEF Cond, TypeInv, machine

(* In the cond_block emitted, the innermost emission has a node.           *)
LEMMA BranchFacts ==
  ASSUME TypeInv, Shape, Top.kind = "cond_block"
  PROVE  /\ Len(nest) >= 2 /\ Top.node \in DOMAIN tree /\ CondNode \in Nat
         /\ BranchEnd \in Seq(Items)
         /\ <<Label(end_cond(Top))>> \in Seq(Items)
<1>1. Top.node \in DOMAIN tree
  BY TopFacts DEF Shape, Top
<1>2. CondNode \in Nat
  <2>1. tree[Top.node] \in Nodes
    BY <1>1, TopFacts DEF TypeInv
  <2> QED
    BY <2>1 DEF CondNode, Nodes
<1>3. BranchEnd \in Seq(Items) /\ <<Label(end_cond(Top))>> \in Seq(Items)
  <2>1. end_cond(Top) \in Int /\ else_label(Top) \in Int /\ 0 \in Nat
    BY TopFacts DEF end_cond, else_label
  <2>2. Jmp(end_cond(Top)) \in Items /\ Label(end_cond(Top)) \in Items
        /\ Label(else_label(Top)) \in Items
    BY <2>1, CodeTypes
  <2> QED
    BY <2>2 DEF BranchEnd
<1> QED
  BY <1>1, <1>2, <1>3, InnerEmission

LEMMA CondElifType ==
  ASSUME TypeInv, Shape, CondElif
  PROVE  TypeInv'
<1>1. Top.kind = "cond_block" /\ label_counter \in Int
  BY DEF CondElif, BlockEnds, TypeInv
<1>2. [Top EXCEPT !.node = New, !.at = "cond", !.l1 = label_counter] \in Frames
  BY <1>1, TopFacts DEF Frames
<1>3. nest' \in Seq(Frames) /\ Len(nest') >= 1
  BY <1>2, GoOnType DEF CondElif
<1>4. code' \in Seq(Items)
  BY <1>1, BranchFacts, EmitsType DEF CondElif
<1>5. Node("if_branch", CondNode, "branch") \in Nodes
  BY <1>1, BranchFacts, NodeTypes DEF Parts
<1>6. tree' \in Seq(Nodes)
  BY <1>5, AppendFacts DEF CondElif, TypeInv
<1> QED
  BY <1>1, <1>3, <1>4, <1>6 DEF CondElif, TypeInv, machine

LEMMA CondElseType ==
  ASSUME TypeInv, Shape, CondElse
  PROVE  TypeInv'
<1>1. Top.kind = "cond_block"
  BY DEF CondElse, BlockEnds
<1>2. [Top EXCEPT !.node = New] \in Frames
  BY <1>1, TopFacts DEF Frames
<1>3. nest' \in Seq(Frames) /\ Len(nest') >= 1
  BY <1>2, GoOnType DEF CondElse
<1>4. code' \in Seq(Items)
  BY <1>1, BranchFacts, EmitsType DEF CondElse
<1>5. Node("else_branch", CondNode, "branch") \in Nodes
  BY <1>1, BranchFacts, NodeTypes DEF Parts, AllKinds
<1>6. tree' \in Seq(Nodes)
  BY <1>5, AppendFacts DEF CondElse, TypeInv
<1> QED
  BY <1>1, <1>3, <1>4, <1>6 DEF CondElse, TypeInv, machine, Context

LEMMA CondEndType ==
  ASSUME TypeInv, Shape, CondEnd
  PROVE  TypeInv'
<1>1. Top.kind = "cond_block"
  BY DEF CondEnd, BlockEnds
<1>2. nest' \in Seq(Frames) /\ Len(nest') >= 1
  BY <1>1, DoneType DEF CondEnd
<1>3. (IF InElse THEN <<>> ELSE BranchEnd) \in Seq(Items)
  BY <1>1, BranchFacts
<1>4. (IF InElse THEN <<>> ELSE BranchEnd) \o <<Label(end_cond(Top))>> \in Seq(Items)
  BY <1>1, <1>3, BranchFacts, ConcatFacts
<1>5. code' \in Seq(Items)
  BY <1>4, EmitsType DEF CondEnd
<1> QED
  BY <1>2, <1>5 DEF CondEnd, TypeInv, machine, Context


LEMMA EnterLoopType ==
  ASSUME TypeInv, NEW kind \in LoopKinds,
         NEW at \in {"cond", "init"}, EnterLoop(kind, at)
  PROVE  /\ nest' \in Seq(Frames) /\ Len(nest') >= 1 /\ tree' \in Seq(Nodes)
         /\ label_counter' \in Int /\ loop_label_break' \in Int /\ loop_label_continue' \in Int
<1>1. label_counter \in Int /\ label_counter + 1 \in Int /\ label_counter + 2 \in Int
  BY DEF TypeInv
<1>2. Frame(kind, New, at, label_counter, label_counter + 1) \in Frames
  BY <1>1, TopFacts, FrameTypes DEF FrameKinds
<1>3. nest' \in Seq(Frames) /\ Len(nest') >= 1
  BY <1>2, EnterType DEF EnterLoop
<1>4. tree' \in Seq(Nodes)
  BY SourceType DEF EnterLoop, LoopKinds, AllKinds
<1> QED
  BY <1>1, <1>3, <1>4 DEF EnterLoop

LEMMA WhileType ==
  ASSUME TypeInv, Shape, While
  PROVE  TypeInv'
<1>1. <<Label(label_counter + 1)>> \in Seq(Items)
  <2>1. label_counter + 1 \in Int
    BY DEF TypeInv
  <2> QED
    BY <2>1, CodeTypes
<1>2. code' \in Seq(Items)
  BY <1>1, EmitsType DEF While
<1> QED
  BY <1>2, EnterLoopType DEF While, TypeInv, machine, LoopKinds

LEMMA ForType ==
  ASSUME TypeInv, Shape, NEW has_init \in BOOLEAN, For(has_init)
  PROVE  TypeInv'
BY EnterLoopType DEF For, TypeInv, machine, LoopKinds

LEMMA LeaveLoopType ==
  ASSUME TypeInv, Shape, Top.kind \in LoopKinds, LeaveLoop
  PROVE  TypeInv'
<1>1. <<Jmp(cur_continue(Top)), Label(cur_break(Top))>> \in Seq(Items)
  <2>1. cur_continue(Top) \in Int /\ cur_break(Top) \in Int /\ 0 \in Nat
    BY TopFacts DEF cur_continue, cur_break
  <2>2. Jmp(cur_continue(Top)) \in Items /\ Label(cur_break(Top)) \in Items
    BY <2>1, CodeTypes
  <2> QED
    BY <2>2
<1>2. code' \in Seq(Items)
  BY <1>1, EmitsType DEF LeaveLoop
<1>3. nest' \in Seq(Frames) /\ Len(nest') >= 1
  BY DoneType DEF LeaveLoop, LoopKinds
<1> QED
  BY <1>2, <1>3, TopFacts DEF LeaveLoop, TypeInv, machine

LEMMA ForTestType ==
  ASSUME TypeInv, Shape, ForTest
  PROVE  TypeInv'
<1>1. code' \in Seq(Items)
  <2>1. /\ <<Label(cur_continue(Top))>> \in Seq(Items)
        /\ <<Label(cur_continue(Top)), JzUntested(cur_break(Top), Top.node)>> \in Seq(Items)
    <3>1. cur_continue(Top) \in Int /\ cur_break(Top) \in Int /\ Top.node \in Nat
      BY TopFacts DEF cur_continue, cur_break
    <3>2. Label(cur_continue(Top)) \in Items /\ JzUntested(cur_break(Top), Top.node) \in Items
      BY <3>1, CodeTypes
    <3> QED
      BY <3>2
  <2> QED
    BY <2>1, EmitsType DEF ForTest
<1>2. [Top EXCEPT !.at = "cond"] \in Frames /\ [Top EXCEPT !.at = "body"] \in Frames
  BY TopFacts DEF Frames
<1>3. nest' \in Seq(Frames) /\ Len(nest') >= 1
  BY <1>2, GoOnType DEF ForTest
<1> QED
  BY <1>1, <1>3 DEF ForTest, TypeInv, machine, Context

LEMMA Innermost ==
  ASSUME BlockEnds("while_block") \/ BlockEnds("for_block")
  PROVE  Top.kind \in LoopKinds
BY DEF BlockEnds, LoopKinds

(* The label a jump finds is an item of the code.                          *)
LEMMA AddressInside ==
  ASSUME TypeInv, NEW l, Places(l) # {}
  PROVE  Address(l) \in DOMAIN code /\ code[Address(l)] = Label(l)
<1>1. Places(l) \in SUBSET Nat
  BY DEF Places, TypeInv
<1>2. PICK x \in Places(l) : \A y \in Places(l) : x <= y
  BY <1>1, NatMin
<1>3. Address(l) \in Places(l)
  BY <1>2 DEF Address
<1> QED
  BY <1>3 DEF Places


LEMMA ExecutionType ==
  ASSUME TypeInv, Inside, Execution
  PROVE  TypeInv'
<1>1. ip \in DOMAIN code /\ Current \in Items /\ last.turn \in Int
  <2>1. ip \in DOMAIN code
    BY DEF Inside, Execution
  <2> QED
    BY <2>1 DEF TypeInv, Current
<1>2. Current.node \in Nat
  BY <1>1 DEF Items
<1>3. ip' \in Nat
  <2> ip \in Nat
    BY DEF TypeInv
  <2>1. CASE RunJump
    <3>1. CASE Taken
      BY <2>1, <3>1, AddressInside DEF RunJump, TypeInv
    <3>2. CASE ~Taken
      BY <2>1, <3>2 DEF RunJump, TypeInv
    <3> QED
      BY <3>1, <3>2
  <2>2. CASE RunItem \/ RunLabel \/ RunRet
    <3>1. ip' = ip + 1 \/ ip' = ip
      BY <2>2, Zenon DEF RunItem, RunLabel, RunRet
    <3> QED
      BY <3>1
  <2> QED
    BY <2>1, <2>2 DEF Execution
<1>4. \A n \in Nat, v \in BOOLEAN :
        Happens(n, v) => last' \in [node : Nat, value : BOOLEAN, turn : Int]
  BY <1>1 DEF Happens
<1>5. last' \in [node : Nat, value : BOOLEAN, turn : Int]
  BY <1>2, <1>4 DEF Execution, RunItem, RunLabel, RunJump, RunRet, TypeInv
<1>6. rax' \in BOOLEAN
  BY DEF Execution, RunItem, RunLabel, RunJump, RunRet, TypeInv
<1>7. mode' \in {"run", "stop"}
  BY DEF Execution, RunItem, RunLabel, RunJump, RunRet
<1> QED
  BY <1>3, <1>5, <1>6, <1>7 DEF Execution, emission, TypeInv

(* Every step of the compiler.                                             *)
LEMMA EmissionType ==
  ASSUME TypeInv, Shape, Emission
  PROVE  TypeInv'
<1>1. ASSUME Return \/ CondElif \/ CondElse \/ CondEnd \/ \E alone \in BOOLEAN : Cond(alone)
      PROVE  TypeInv'
  BY <1>1, ReturnType, CondElifType, CondElseType, CondEndType, CondType
<1>2. ASSUME While \/ WhileEnd \/ ForTest \/ ForEnd \/ \E has_init \in BOOLEAN : For(has_init)
      PROVE  TypeInv'
  <2>1. CASE WhileEnd
    BY <2>1, LeaveLoopType, Innermost DEF WhileEnd
  <2>2. CASE ForEnd
    BY <2>2, LeaveLoopType, Innermost DEF ForEnd, LoopKinds
  <2> QED
    BY <1>2, <2>1, <2>2, WhileType, ForTestType, ForType
<1>3. ASSUME Operand \/ LogicLeft \/ LogicRight \/ \E op \in {"and", "or"} : Logic(op)
      PROVE  TypeInv'
  BY <1>3, OperandType, LogicLeftType, LogicRightType, LogicType
<1>4. ASSUME Line \/ LineOfLogic \/ LineEnd \/ Exit \/ ReturnEnd
             \/ \E kind \in {"break", "continue"} : BreakOrContinue(kind)
      PROVE  TypeInv'
  BY <1>4, LineType, LineOfLogicType, LineEndType, ExitType, ReturnEndType, BreakOrContinueType
<1>5. ASSUME CondTest \/ LoopTest \/ ForStep \/ FunctionEnd
      PROVE  TypeInv'
  BY <1>5, CondTestType, LoopTestType, ForStepType, FunctionEndType
<1> QED
  BY <1>1, <1>2, <1>3, <1>4, <1>5 DEF Emission

-----------------------------------------------------------------------------
(* Code and tree only grow: what was declared stays declared.              *)
LEMMA CodeGrows ==
  ASSUME TypeInv, NEW items \in Seq(Items), Emits(items)
  PROVE  /\ \A i \in DOMAIN code : i \in DOMAIN code' /\ code'[i] = code[i]
         /\ \A j \in DOMAIN items :
              Len(code) + j \in DOMAIN code' /\ code'[Len(code) + j] = items[j]
         /\ \A i \in DOMAIN code' : i \in DOMAIN code
              \/ \E j \in DOMAIN items : i = Len(code) + j
         /\ Len(code') = Len(code) + Len(items)
         /\ \A l : Declared(code, l) => Declared(code', l)
         /\ \A l : (\E j \in DOMAIN items : items[j] = Label(l)) => Declared(code', l)
<1>1. /\ code' = code \o items /\ code \in Seq(Items) /\ Len(code) \in Nat
      /\ DOMAIN code = 1 .. Len(code) /\ DOMAIN items = 1 .. Len(items) /\ Len(items) \in Nat
  BY DEF TypeInv, Emits
<1>2. /\ DOMAIN code' = 1 .. Len(code) + Len(items)
      /\ \A i \in 1 .. Len(code) : code'[i] = code[i]
      /\ \A j \in 1 .. Len(items) : code'[Len(code) + j] = items[j]
      /\ Len(code') = Len(code) + Len(items)
  BY <1>1, ConcatFacts
<1>3. \A i \in DOMAIN code : i \in DOMAIN code' /\ code'[i] = code[i]
  BY <1>1, <1>2
<1>4. \A j \in DOMAIN items : Len(code) + j \in DOMAIN code' /\ code'[Len(code) + j] = items[j]
  BY <1>1, <1>2
<1>5. ASSUME NEW i \in DOMAIN code', i \notin DOMAIN code
      PROVE  \E j \in DOMAIN items : i = Len(code) + j
  <2>1. i - Len(code) \in DOMAIN items /\ i = Len(code) + (i - Len(code))
    BY <1>1, <1>2, <1>5
  <2> QED
    BY <2>1
<1>6. \A l : Declared(code, l) => Declared(code', l)
  BY <1>3 DEF Declared
<1>7. \A l : (\E j \in DOMAIN items : items[j] = Label(l)) => Declared(code', l)
  BY <1>4 DEF Declared
<1> QED
  BY <1>2, <1>3, <1>4, <1>5, <1>6, <1>7

(* The invariant on jumps, over a step that emits items: the labels that   *)
(* were to be declared still are, and the new jumps know theirs.           *)
Awaited(c, n, l) == Declared(c, l) \/ \E k \in DOMAIN n : l \in Pending(n[k])

LEMMA ClosedJumps == JumpsClosed <=>
  \A i \in DOMAIN code : code[i].op \in Jumps => Awaited(code, nest, code[i].label)
BY DEF JumpsClosed, Awaited, Declared, Places

LEMMA JumpsStay ==
  ASSUME TypeInv, JumpsClosed, NEW items \in Seq(Items), Emits(items),
         \A k \in DOMAIN nest : \A l \in Pending(nest[k]) : Awaited(code', nest', l),
         \A j \in DOMAIN items :
           items[j].op \in Jumps => Awaited(code', nest', items[j].label)
  PROVE  JumpsClosed'
<1> SUFFICES ASSUME NEW i \in DOMAIN code', code'[i].op \in Jumps
             PROVE  Awaited(code', nest', code'[i].label)
  BY DEF JumpsClosed, Awaited, Declared, Places
<1>1. CASE i \in DOMAIN code
  <2>1. code'[i] = code[i]
    BY <1>1, CodeGrows
  <2>2. Awaited(code, nest, code[i].label)
    BY <1>1, <2>1, ClosedJumps
  <2>3. CASE Declared(code, code[i].label)
    <3>1. Declared(code', code[i].label)
      BY <2>3, CodeGrows
    <3> QED
      BY <2>1, <3>1 DEF Awaited
  <2>4. CASE \E k \in DOMAIN nest : code[i].label \in Pending(nest[k])
    BY <2>1, <2>4
  <2> QED
    BY <2>2, <2>3, <2>4 DEF Awaited
<1>2. CASE i \notin DOMAIN code
  <2>1. PICK j \in DOMAIN items : i = Len(code) + j
    BY <1>2, CodeGrows
  <2>2. code'[i] = items[j]
    BY <2>1, CodeGrows
  <2> QED
    BY <2>2
<1> QED
  BY <1>1, <1>2


-----------------------------------------------------------------------------
(* The loop labels over a step, for each way the nest of emissions moves.  *)
LEMMA EnterLoops ==
  ASSUME NEW s \in Seq(Frames), Len(s) >= 1, NEW b, NEW c, Loops(s, b, c),
         NEW e \in Frames, e.last_break = b, e.last_continue = c, NEW b1, NEW c1,
         IF e.kind \in LoopKinds THEN b1 = cur_break(e) /\ c1 = cur_continue(e)
                                 ELSE b1 = b /\ c1 = c
  PROVE  Loops(Append(s, e), b1, c1)
<1> DEFINE n == Len(s)
           t == Append(s, e)
<1>1. /\ n \in Nat /\ n >= 1 /\ Len(t) = n + 1 /\ t[n + 1] = e
      /\ DOMAIN s = 1 .. n /\ DOMAIN t = 1 .. n + 1
      /\ \A k \in 1 .. n : t[k] = s[k]
  BY AppendFacts
<1>a. n = Len(s)
  OBVIOUS
<1> HIDE DEF n, t
<1>2. \A k \in 1 .. n : BreakAt(t, b1, k) = BreakAt(s, b, k)
                        /\ ContinueAt(t, c1, k) = ContinueAt(s, c, k)
  <2> TAKE k \in 1 .. n
  <2>1. CASE k = n
    <3>1. k # Len(t) /\ t[k + 1] = e
      <4>1. k \in Nat /\ k + 1 = n + 1 /\ k # n + 1
        BY <1>1, <2>1
      <4> QED
        BY <1>1, <4>1
    <3>2. BreakAt(t, b1, k) = b /\ ContinueAt(t, c1, k) = c
      BY <3>1 DEF BreakAt, ContinueAt
    <3> QED
      BY <1>a, <2>1, <3>2 DEF BreakAt, ContinueAt
  <2>2. CASE k # n
    <3>1. k + 1 \in 1 .. n /\ k # Len(t)
      BY <1>1, <2>2
    <3>2. t[k + 1] = s[k + 1]
      BY <1>1, <3>1
    <3> QED
      BY <1>a, <2>2, <3>1, <3>2 DEF BreakAt, ContinueAt
  <2> QED
    BY <2>1, <2>2
<1>3. BreakAt(t, b1, n + 1) = b1 /\ ContinueAt(t, c1, n + 1) = c1
  BY <1>1, <1>a DEF BreakAt, ContinueAt
<1>4. BreakAt(s, b, n) = b /\ ContinueAt(s, c, n) = c
  BY <1>1, <1>a DEF BreakAt, ContinueAt
<1>5. \A i, k \in 1 .. n : LoopOf(s, i, k) => LoopOf(t, i, k)
  BY <1>1 DEF LoopOf
<1>6. ASSUME NEW k \in 1 .. n
      PROVE  LabelsOfLoop(t, b1, c1, k) /\ LabelsSaved(t, b1, c1, k)
  BY <1>1, <1>2, <1>5 DEF Loops, LabelsOfLoop, LabelsSaved
<1>7. LabelsSaved(t, b1, c1, n + 1)
  BY <1>1, <1>3 DEF LabelsSaved
<1>8. LabelsOfLoop(t, b1, c1, n + 1)
  <2>1. CASE e.kind \in LoopKinds
    <3>1. LoopOf(t, n + 1, n + 1)
      BY <1>1, <2>1 DEF LoopOf
    <3> QED
      BY <1>1, <1>3, <2>1, <3>1 DEF LabelsOfLoop
  <2>2. CASE e.kind \notin LoopKinds
    <3>1. /\ BreakAt(t, b1, n + 1) = BreakAt(t, b1, n)
          /\ ContinueAt(t, c1, n + 1) = ContinueAt(t, c1, n)
      BY <1>1, <1>2, <1>3, <1>4, <2>2
    <3>2. \A i \in 1 .. n + 1 : LoopOf(t, i, n) => LoopOf(t, i, n + 1)
      BY <1>1, <2>2 DEF LoopOf
    <3>3. LabelsOfLoop(t, b1, c1, n)
      BY <1>1, <1>6
    <3> QED
      BY <1>1, <2>2, <3>1, <3>2, <3>3 DEF LabelsOfLoop
  <2> QED
    BY <2>1, <2>2
<1> QED
  BY <1>1, <1>6, <1>7, <1>8 DEF Loops, t

LEMMA GoOnLoops ==
  ASSUME NEW s \in Seq(Frames), Len(s) >= 1, NEW b, NEW c, Loops(s, b, c),
         NEW e \in Frames, e.kind = s[Len(s)].kind,
         e.last_break = s[Len(s)].last_break, e.last_continue = s[Len(s)].last_continue,
         e.kind \in LoopKinds => /\ cur_break(e) = cur_break(s[Len(s)])
                                 /\ cur_continue(e) = cur_continue(s[Len(s)])
  PROVE  Loops([s EXCEPT ![Len(s)] = e], b, c)
<1> DEFINE n == Len(s)
           t == [s EXCEPT ![Len(s)] = e]
<1>1. /\ n \in Nat /\ n >= 1 /\ Len(t) = n /\ t[n] = e
      /\ DOMAIN s = 1 .. n /\ DOMAIN t = 1 .. n
      /\ \A k \in 1 .. n : k # n => t[k] = s[k]
  BY ReplaceFacts
<1> HIDE DEF t
<1>2. \A k \in 1 .. n : /\ t[k].kind = s[k].kind
                        /\ t[k].last_break = s[k].last_break
                        /\ t[k].last_continue = s[k].last_continue
                        /\ t[k].kind \in LoopKinds =>
                             /\ cur_break(t[k]) = cur_break(s[k])
                             /\ cur_continue(t[k]) = cur_continue(s[k])
  BY <1>1
<1>3. \A k \in 1 .. n : BreakAt(t, b, k) = BreakAt(s, b, k)
                        /\ ContinueAt(t, c, k) = ContinueAt(s, c, k)
  <2> TAKE k \in 1 .. n
  <2>1. CASE k = n
    BY <1>1, <2>1 DEF BreakAt, ContinueAt
  <2>2. CASE k # n
    <3>1. k + 1 \in 1 .. n
      <4>1. n \in Nat /\ k \in 1 .. n
        BY <1>1
      <4> HIDE DEF n
      <4> QED
        BY <2>2, <4>1
    <3>2. k # Len(s) /\ k # Len(t)
      BY <1>1, <2>2
    <3> QED
      BY <1>2, <3>1, <3>2 DEF BreakAt, ContinueAt
  <2> QED
    BY <2>1, <2>2
<1>4. \A i, k \in 1 .. n : LoopOf(s, i, k) => LoopOf(t, i, k)
  BY <1>1, <1>2 DEF LoopOf
<1> HIDE DEF n
<1>5. ASSUME NEW k \in 1 .. n
      PROVE  LabelsOfLoop(t, b, c, k)
  <2>1. CASE \E i \in DOMAIN s :
               /\ LoopOf(s, i, k)
               /\ BreakAt(s, b, k) = cur_break(s[i]) /\ ContinueAt(s, c, k) = cur_continue(s[i])
    <3>1. PICK i \in 1 .. n :
               /\ LoopOf(s, i, k)
               /\ BreakAt(s, b, k) = cur_break(s[i]) /\ ContinueAt(s, c, k) = cur_continue(s[i])
      BY <1>1, <2>1
    <3>2. LoopOf(t, i, k) /\ t[i].kind \in LoopKinds
      BY <1>2, <1>4, <3>1 DEF LoopOf
    <3> QED
      BY <1>1, <1>2, <1>3, <3>1, <3>2 DEF LabelsOfLoop
  <2>2. CASE /\ \A j \in DOMAIN s : j <= k => s[j].kind \notin LoopKinds
             /\ BreakAt(s, b, k) = -1 /\ ContinueAt(s, c, k) = -1
    BY <1>1, <1>2, <1>3, <2>2 DEF LabelsOfLoop
  <2> QED
    BY <1>1, <2>1, <2>2 DEF Loops, LabelsOfLoop
<1>6. \A k \in 1 .. n : LabelsSaved(t, b, c, k)
  BY <1>1, <1>2, <1>3 DEF Loops, LabelsSaved
<1> QED
  BY <1>1, <1>5, <1>6 DEF Loops, t

LEMMA DoneLoops ==
  ASSUME NEW s \in Seq(Frames), Len(s) >= 2, NEW b, NEW c, Loops(s, b, c), NEW b1, NEW c1,
         IF s[Len(s)].kind \in LoopKinds
           THEN b1 = s[Len(s)].last_break /\ c1 = s[Len(s)].last_continue
           ELSE b1 = b /\ c1 = c
  PROVE  Loops(SubSeq(s, 1, Len(s) - 1), b1, c1)
<1> DEFINE n == Len(s)
           t == SubSeq(s, 1, Len(s) - 1)
<1>1. n \in Nat /\ 1 \in 0 .. n /\ n >= 2
  OBVIOUS
<1>2. /\ Len(t) = n - 1 /\ DOMAIN s = 1 .. n /\ DOMAIN t = 1 .. n - 1
      /\ \A k \in 1 .. n - 1 : t[k] = s[k]
  BY <1>1, DropFacts
<1> HIDE DEF t
<1>3. LabelsSaved(s, b, c, n) /\ BreakAt(s, b, n) = b /\ ContinueAt(s, c, n) = c
  BY <1>1, <1>2 DEF Loops, BreakAt, ContinueAt
<1>4. b1 = s[n].last_break /\ c1 = s[n].last_continue
  BY <1>1, <1>3 DEF LabelsSaved
<1>5. \A k \in 1 .. n - 1 : BreakAt(t, b1, k) = BreakAt(s, b, k)
                            /\ ContinueAt(t, c1, k) = ContinueAt(s, c, k)
  BY <1>1, <1>2, <1>4 DEF BreakAt, ContinueAt
<1>6. \A i, k \in 1 .. n - 1 : LoopOf(s, i, k) => LoopOf(t, i, k)
  BY <1>1, <1>2 DEF LoopOf
<1> HIDE DEF n
<1>7. ASSUME NEW k \in 1 .. n - 1
      PROVE  LabelsOfLoop(t, b1, c1, k)
  <2>1. CASE \E i \in DOMAIN s :
               /\ LoopOf(s, i, k)
               /\ BreakAt(s, b, k) = cur_break(s[i]) /\ ContinueAt(s, c, k) = cur_continue(s[i])
    <3>1. PICK i \in 1 .. n :
               /\ LoopOf(s, i, k)
               /\ BreakAt(s, b, k) = cur_break(s[i]) /\ ContinueAt(s, c, k) = cur_continue(s[i])
      BY <1>2, <2>1
    <3>2. i \in 1 .. n - 1
      BY <1>1, <3>1 DEF LoopOf
    <3> QED
      BY <1>2, <1>5, <1>6, <3>1, <3>2 DEF LabelsOfLoop
  <2>2. CASE /\ \A j \in DOMAIN s : j <= k => s[j].kind \notin LoopKinds
             /\ BreakAt(s, b, k) = -1 /\ ContinueAt(s, c, k) = -1
    BY <1>1, <1>2, <1>5, <2>2 DEF LabelsOfLoop
  <2> QED
    BY <1>1, <1>2, <2>1, <2>2 DEF Loops, LabelsOfLoop
<1>8. \A k \in 1 .. n - 1 : LabelsSaved(t, b1, c1, k)
  BY <1>1, <1>2, <1>5 DEF Loops, LabelsSaved
<1> QED
  BY <1>2, <1>7, <1>8 DEF Loops, t


-----------------------------------------------------------------------------
(* The invariant over a step, for each way the nest moves.  The step emits *)
(* items; what it opens or goes on with is e.                              *)
TreeGrows == \A n \in DOMAIN tree : n \in DOMAIN tree' /\ tree'[n] = tree[n]
CodeKept  == \A l : Declared(code, l) => Declared(code', l)
JumpsKnown(items) ==
  \A j \in DOMAIN items : items[j].op \in Jumps => Awaited(code', nest', items[j].label)

LEMMA EarlyStays ==
  ASSUME TreeGrows, CodeKept, NEW f \in Frames, EarlyOf(code, tree, f),
         f.kind = "cond_block" => f.node \in DOMAIN tree
  PROVE  EarlyOf(code', tree', f)
BY DEF EarlyOf, TreeGrows, CodeKept

LEMMA NestFacts ==
  ASSUME TypeInv
  PROVE  /\ nest \in Seq(Frames) /\ Len(nest) \in Nat /\ Len(nest) >= 1
         /\ DOMAIN nest = 1 .. Len(nest)
         /\ \A k \in DOMAIN nest : nest[k] \in Frames
BY DEF TypeInv

LEMMA StayStep ==
  ASSUME TypeInv, Core, TreeGrows, NEW items \in Seq(Items), Emits(items), JumpsKnown(items),
         UNCHANGED <<nest, loop_label_break, loop_label_continue>>
  PROVE  Core'
<1>1. CodeKept
  BY CodeGrows DEF CodeKept
<1>2. Shape'
  BY DEF Core, Shape, TreeGrows
<1>3. LoopsNest'
  BY DEF Core, LoopsNest
<1>4. DeclaredEarly'
  BY <1>1, NestFacts, EarlyStays DEF Core, DeclaredEarly, Shape
<1>5. JumpsClosed'
  BY JumpsStay DEF Core, JumpsKnown, Awaited
<1> QED
  BY <1>2, <1>3, <1>4, <1>5 DEF Core

LEMMA EnterStep ==
  ASSUME TypeInv, Core, TreeGrows, NEW items \in Seq(Items), Emits(items), JumpsKnown(items),
         NEW e \in Frames, Enter(e), EarlyOf(code', tree', e),
         e.kind # "function", e.kind = "cond_block" => e.node \in DOMAIN tree',
         e.last_break = loop_label_break, e.last_continue = loop_label_continue,
         IF e.kind \in LoopKinds
           THEN loop_label_break' = cur_break(e) /\ loop_label_continue' = cur_continue(e)
           ELSE UNCHANGED <<loop_label_break, loop_label_continue>>
  PROVE  Core'
<1>1. CodeKept
  BY CodeGrows DEF CodeKept
<1>2. /\ DOMAIN nest' = 1 .. Len(nest) + 1 /\ nest'[Len(nest) + 1] = e
      /\ \A k \in DOMAIN nest : nest'[k] = nest[k]
  BY NestFacts, AppendFacts DEF Enter
<1>3. Shape'
  BY <1>2, NestFacts DEF Core, Shape, TreeGrows
<1>4. LoopsNest'
  BY NestFacts, EnterLoops DEF Core, LoopsNest, Enter
<1>5. DeclaredEarly'
  <2>1. \A k \in DOMAIN nest : EarlyOf(code', tree', nest[k])
    BY <1>1, NestFacts, EarlyStays DEF Core, DeclaredEarly, Shape
  <2> QED
    BY <1>2, <2>1, NestFacts DEF DeclaredEarly
<1>6. \A k \in DOMAIN nest : \A l \in Pending(nest[k]) : Awaited(code', nest', l)
  BY <1>2, NestFacts DEF Awaited
<1>7. JumpsClosed'
  BY <1>6, JumpsStay DEF Core, JumpsKnown
<1> QED
  BY <1>3, <1>4, <1>5, <1>7 DEF Core

LEMMA GoOnStep ==
  ASSUME TypeInv, Core, TreeGrows, NEW items \in Seq(Items), Emits(items), JumpsKnown(items),
         NEW e \in Frames, GoOn(e), EarlyOf(code', tree', e),
         e.kind = Top.kind, e.kind = "cond_block" => e.node \in DOMAIN tree',
         e.last_break = Top.last_break, e.last_continue = Top.last_continue,
         e.kind \in LoopKinds => /\ cur_break(e) = cur_break(Top)
                                 /\ cur_continue(e) = cur_continue(Top),
         \A l \in Pending(Top) : Declared(code', l) \/ l \in Pending(e),
         UNCHANGED <<loop_label_break, loop_label_continue>>
  PROVE  Core'
<1>1. CodeKept
  BY CodeGrows DEF CodeKept
<1>2. /\ DOMAIN nest' = DOMAIN nest /\ nest'[Len(nest)] = e
      /\ \A k \in DOMAIN nest : k # Len(nest) => nest'[k] = nest[k]
  BY NestFacts, ReplaceFacts DEF GoOn
<1>3. Shape'
  BY <1>2, NestFacts DEF Core, Shape, TreeGrows, Top
<1>4. LoopsNest'
  BY NestFacts, GoOnLoops DEF Core, LoopsNest, GoOn, Top
<1>5. DeclaredEarly'
  <2>1. \A k \in DOMAIN nest : EarlyOf(code', tree', nest[k])
    BY <1>1, NestFacts, EarlyStays DEF Core, DeclaredEarly, Shape
  <2> QED
    BY <1>2, <2>1, NestFacts DEF DeclaredEarly
<1>6. \A k \in DOMAIN nest : \A l \in Pending(nest[k]) : Awaited(code', nest', l)
  BY <1>2, NestFacts DEF Awaited, Top
<1>7. JumpsClosed'
  BY <1>6, JumpsStay DEF Core, JumpsKnown
<1> QED
  BY <1>3, <1>4, <1>5, <1>7 DEF Core

LEMMA DoneStep ==
  ASSUME TypeInv, Core, TreeGrows, NEW items \in Seq(Items), Emits(items), JumpsKnown(items),
         Done, Top.kind # "function", \A l \in Pending(Top) : Declared(code', l),
         IF Top.kind \in LoopKinds
           THEN loop_label_break' = Top.last_break /\ loop_label_continue' = Top.last_continue
           ELSE UNCHANGED <<loop_label_break, loop_label_continue>>
  PROVE  Core'
<1>1. CodeKept
  BY CodeGrows DEF CodeKept
<1>2. Len(nest) >= 2 /\ 1 \in 0 .. Len(nest)
  BY InnerEmission, NestFacts DEF Core
<1>3. /\ DOMAIN nest' = 1 .. Len(nest) - 1
      /\ \A k \in 1 .. Len(nest) - 1 : nest'[k] = nest[k]
  BY <1>2, NestFacts, DropFacts DEF Done
<1>4. Shape'
  BY <1>2, <1>3, NestFacts DEF Core, Shape, TreeGrows
<1>5. LoopsNest'
  BY <1>2, NestFacts, DoneLoops DEF Core, LoopsNest, Done, Top
<1>6. DeclaredEarly'
  <2>1. \A k \in DOMAIN nest : EarlyOf(code', tree', nest[k])
    BY <1>1, NestFacts, EarlyStays DEF Core, DeclaredEarly, Shape
  <2> QED
    BY <1>3, <2>1, NestFacts DEF DeclaredEarly
<1>7. \A k \in DOMAIN nest : \A l \in Pending(nest[k]) : Awaited(code', nest', l)
  <2> TAKE k \in DOMAIN nest
  <2>1. CASE k = Len(nest)
    BY <2>1 DEF Awaited, Top
  <2>2. CASE k # Len(nest)
    <3>1. k \in DOMAIN nest' /\ nest'[k] = nest[k]
      BY <1>3, <2>2, NestFacts
    <3> QED
      BY <3>1 DEF Awaited
  <2> QED
    BY <2>1, <2>2
<1>8. JumpsClosed'
  BY <1>7, JumpsStay DEF Core, JumpsKnown
<1> QED
  BY <1>4, <1>5, <1>6, <1>8 DEF Core


LEMMA TreeSteps ==
  ASSUME TypeInv
  PROVE  /\ UNCHANGED tree => TreeGrows
         /\ \A x \in Nodes : tree' = Append(tree, x) => TreeGrows /\ New \in DOMAIN tree'
         /\ \A k \in AllKinds \cup {"operand", "if_branch"} : Source(k) => TreeGrows
<1>1. tree \in Seq(Nodes)
  BY DEF TypeInv
<1>2. UNCHANGED tree => TreeGrows
  BY DEF TreeGrows
<1>3. \A x \in Nodes : tree' = Append(tree, x) => TreeGrows /\ New \in DOMAIN tree'
  BY <1>1, AppendFacts DEF TreeGrows, New
<1>4. \A k \in AllKinds \cup {"operand", "if_branch"} : Source(k) => TreeGrows
  BY <1>3, TopFacts, NodeTypes DEF Source
<1> QED
  BY <1>2, <1>3, <1>4

LEMMA NoItems ==
  ASSUME TypeInv, UNCHANGED code
  PROVE  /\ <<>> \in Seq(Items) /\ Emits(<<>>) /\ JumpsKnown(<<>>)
<1>1. code \in Seq(Items)
  BY DEF TypeInv
<1>2. code \o <<>> = code
  BY <1>1
<1> QED
  BY <1>2 DEF Emits, JumpsKnown

(* An item that is no jump knows its label.                                *)
LEMMA OneItem ==
  ASSUME NEW it \in Items, it.op \in Jumps => Awaited(code', nest', it.label)
  PROVE  <<it>> \in Seq(Items) /\ JumpsKnown(<<it>>)
BY DEF JumpsKnown

LEMMA LabelEmitted ==
  ASSUME TypeInv, NEW items \in Seq(Items), Emits(items),
         NEW l, NEW j \in DOMAIN items, items[j] = Label(l)
  PROVE  Declared(code', l)
BY CodeGrows

LEMMA ItemFields ==
  ASSUME NEW l, NEW n
  PROVE  /\ Label(l).op \notin Jumps /\ Ret.op \notin Jumps
         /\ Item("eval", -1, n).op \notin Jumps /\ Item("do", -1, n).op \notin Jumps
         /\ Jmp(l).label = l /\ Jz(l).label = l /\ Jnz(l).label = l /\ JzUntested(l, n).label = l
BY DEF Label, Ret, Jmp, Jz, Jnz, JzUntested, Item, Jumps

LEMMA PendingOf ==
  ASSUME NEW f
  PROVE  /\ f.kind \in {"and", "or"} => Pending(f) = {f.l1}
         /\ f.kind = "cond_block" => Pending(f) = {f.l1, f.l2}
         /\ f.kind \in LoopKinds => Pending(f) = {f.l1, f.l2}
         /\ f.kind \in {"function", "line", "return"} => Pending(f) = {}
BY DEF Pending, LoopKinds, label_end, else_label, end_cond, cur_break, cur_continue

(* An emission that goes on, or a new one, awaits what it is to declare.   *)
LEMMA TopAwaits ==
  ASSUME TypeInv, NEW e \in Frames, GoOn(e) \/ Enter(e), NEW l \in Pending(e)
  PROVE  Awaited(code', nest', l)
<1>1. CASE GoOn(e)
  <2>1. Len(nest) \in DOMAIN nest' /\ nest'[Len(nest)] = e
    BY <1>1, NestFacts, ReplaceFacts DEF GoOn
  <2> QED
    BY <2>1 DEF Awaited
<1>2. CASE Enter(e)
  <2>1. Len(nest) + 1 \in DOMAIN nest' /\ nest'[Len(nest) + 1] = e
    BY <1>2, NestFacts, AppendFacts DEF Enter
  <2> QED
    BY <2>1 DEF Awaited
<1> QED
  BY <1>1, <1>2

-----------------------------------------------------------------------------
LEMMA OperandCore ==
  ASSUME TypeInv, Core, Operand
  PROVE  Core'
<1>1. Item("eval", -1, New) \in Items /\ Item("eval", -1, New).op \notin Jumps
  BY TopFacts, CodeTypes, ItemFields
<1>2. TreeGrows
  BY TreeSteps DEF Operand
<1>3. <<Item("eval", -1, New)>> \in Seq(Items) /\ JumpsKnown(<<Item("eval", -1, New)>>)
  BY <1>1, OneItem
<1> QED
  BY <1>2, <1>3, StayStep DEF Operand, emission

LEMMA LogicCore ==
  ASSUME TypeInv, Core, NEW op \in {"and", "or"}, Logic(op)
  PROVE  Core'
<1> DEFINE e == Frame(op, New, "left", label_counter, -1)
<1>1. label_counter \in Int /\ -1 \in Int
  BY DEF TypeInv
<1>2. e \in Frames
  BY <1>1, TopFacts, FrameTypes DEF FrameKinds
<1>3. /\ e.kind = op /\ e.last_break = loop_label_break /\ e.last_continue = loop_label_continue
      /\ EarlyOf(code', tree', e)
  BY DEF Frame, EarlyOf
<1>4. TreeGrows
  BY TreeSteps DEF Logic, AllKinds
<1>5. Enter(e) /\ UNCHANGED <<code, loop_label_break, loop_label_continue>>
  BY DEF Logic
<1> HIDE DEF e
<1> QED
  BY <1>2, <1>3, <1>4, <1>5, NoItems, EnterStep DEF LoopKinds

LEMMA LogicLeftCore ==
  ASSUME TypeInv, Core, LogicLeft
  PROVE  Core'
<1> DEFINE e == [Top EXCEPT !.at = "right"]
           it == IF Top.kind = "and" THEN Jz(label_end(Top)) ELSE Jnz(label_end(Top))
<1>1. e \in Frames
  BY TopFacts DEF Frames
<1>2. /\ e.kind = Top.kind /\ e.l1 = Top.l1 /\ e.l2 = Top.l2
      /\ e.last_break = Top.last_break /\ e.last_continue = Top.last_continue
  BY TopFacts DEF Frames
<1>3. it \in Items /\ it.label = Top.l1
  BY TopFacts, CodeTypes, ItemFields DEF label_end
<1>4. /\ GoOn(e) /\ Emits(<<it>>) /\ UNCHANGED <<tree, loop_label_break, loop_label_continue>>
      /\ Top.kind \in {"and", "or"}
  BY DEF LogicLeft, Context
<1> HIDE DEF e, it
<1>5. EarlyOf(code', tree', e)
  BY <1>2, <1>4 DEF EarlyOf
<1>6. Pending(Top) = Pending(e) /\ it.label \in Pending(e)
  BY <1>2, <1>3, <1>4, PendingOf
<1>7. <<it>> \in Seq(Items) /\ JumpsKnown(<<it>>)
  BY <1>1, <1>3, <1>4, <1>6, TopAwaits, OneItem
<1>8. TreeGrows
  BY <1>4, TreeSteps
<1> QED
  BY <1>1, <1>2, <1>4, <1>5, <1>6, <1>7, <1>8, GoOnStep DEF LoopKinds

LEMMA LogicRightCore ==
  ASSUME TypeInv, Core, LogicRight
  PROVE  Core'
<1> DEFINE it == Label(Top.l1)
<1>1. /\ Top.kind \in {"and", "or"} /\ Emits(<<it>>) /\ Done
      /\ UNCHANGED <<tree, loop_label_break, loop_label_continue>>
  BY DEF LogicRight, Context, label_end
<1>2. it \in Items /\ it.op \notin Jumps
  BY TopFacts, CodeTypes, ItemFields
<1>3. <<it>> \in Seq(Items) /\ JumpsKnown(<<it>>)
  BY <1>2, OneItem
<1>4. Declared(code', Top.l1)
  <2>1. 1 \in DOMAIN <<it>> /\ <<it>>[1] = it
    OBVIOUS
  <2> QED
    BY <1>1, <1>3, <2>1, LabelEmitted
<1>5. \A l \in Pending(Top) : Declared(code', l)
  BY <1>1, <1>4, PendingOf
<1>6. TreeGrows
  BY <1>1, TreeSteps
<1> HIDE DEF it
<1> QED
  BY <1>1, <1>3, <1>5, <1>6, DoneStep DEF LoopKinds


LEMMA LineCore ==
  ASSUME TypeInv, Core, Line
  PROVE  Core'
<1>1. Item("do", -1, New) \in Items /\ Item("do", -1, New).op \notin Jumps
  BY TopFacts, CodeTypes, ItemFields
<1>2. TreeGrows
  BY TreeSteps DEF Line, AllKinds
<1>3. <<Item("do", -1, New)>> \in Seq(Items) /\ JumpsKnown(<<Item("do", -1, New)>>)
  BY <1>1, OneItem
<1> QED
  BY <1>2, <1>3, StayStep DEF Line, emission

LEMMA LineOfLogicCore ==
  ASSUME TypeInv, Core, LineOfLogic
  PROVE  Core'
<1> DEFINE e == Frame("line", New, "expr", -1, -1)
<1>1. e \in Frames
  BY TopFacts, FrameTypes, -1 \in Int DEF FrameKinds
<1>2. /\ e.kind = "line" /\ e.last_break = loop_label_break
      /\ e.last_continue = loop_label_continue /\ EarlyOf(code', tree', e)
  BY DEF Frame, EarlyOf
<1>3. TreeGrows
  BY TreeSteps DEF LineOfLogic, AllKinds
<1>4. Enter(e) /\ UNCHANGED <<code, loop_label_break, loop_label_continue>>
  BY DEF LineOfLogic, Context
<1> HIDE DEF e
<1> QED
  BY <1>1, <1>2, <1>3, <1>4, NoItems, EnterStep DEF LoopKinds

(* A line or a return with an operator inside ends: it has no labels.      *)
LEMMA PlainEnd ==
  ASSUME TypeInv, Core, Top.kind \in {"line", "return"}, NEW it \in Items,
         it.op \notin Jumps, Emits(<<it>>), Done,
         UNCHANGED <<tree, loop_label_break, loop_label_continue>>
  PROVE  Core'
<1>1. <<it>> \in Seq(Items) /\ JumpsKnown(<<it>>)
  BY OneItem
<1>2. \A l \in Pending(Top) : Declared(code', l)
  BY PendingOf
<1>3. TreeGrows
  BY TreeSteps
<1> QED
  BY <1>1, <1>2, <1>3, DoneStep DEF LoopKinds

LEMMA LineEndCore ==
  ASSUME TypeInv, Core, LineEnd
  PROVE  Core'
<1>1. Item("do", -1, Top.node) \in Items /\ Item("do", -1, Top.node).op \notin Jumps
  BY TopFacts, CodeTypes, ItemFields
<1> QED
  BY <1>1, PlainEnd DEF LineEnd, Context

LEMMA ReturnEndCore ==
  ASSUME TypeInv, Core, ReturnEnd
  PROVE  Core'
<1>1. Ret \in Items /\ Ret.op \notin Jumps
  BY CodeTypes, ItemFields, 0 \in Int, 0 \in Nat
<1> QED
  BY <1>1, PlainEnd DEF ReturnEnd, Context

LEMMA ExitCore ==
  ASSUME TypeInv, Core, Exit
  PROVE  Core'
<1>1. TreeGrows
  BY TreeSteps DEF Exit, AllKinds
<1> QED
  BY <1>1, NoItems, StayStep DEF Exit, emission

LEMMA RetItem == <<Ret>> \in Seq(Items) /\ JumpsKnown(<<Ret>>)
<1>1. Ret \in Items /\ Ret.op \notin Jumps
  BY CodeTypes, ItemFields, 0 \in Int, 0 \in Nat
<1> QED
  BY <1>1, OneItem

LEMMA ReturnCore ==
  ASSUME TypeInv, Core, Return
  PROVE  Core'
<1> DEFINE e == Frame("return", New, "expr", -1, -1)
<1>1. TreeGrows
  BY TreeSteps DEF Return, AllKinds
<1>2. UNCHANGED <<loop_label_break, loop_label_continue>>
  BY DEF Return, Context
<1>3. CASE Emits(<<Ret>>) /\ UNCHANGED nest
  BY <1>1, <1>2, <1>3, RetItem, StayStep
<1>4. CASE Enter(e) /\ UNCHANGED code
  <2>1. e \in Frames
    BY TopFacts, FrameTypes, -1 \in Int DEF FrameKinds
  <2>2. /\ e.kind = "return" /\ e.last_break = loop_label_break
        /\ e.last_continue = loop_label_continue /\ EarlyOf(code', tree', e)
    BY DEF Frame, EarlyOf
  <2> HIDE DEF e
  <2> QED
    BY <1>1, <1>2, <1>4, <2>1, <2>2, NoItems, EnterStep DEF LoopKinds
<1> QED
  BY <1>3, <1>4 DEF Return

LEMMA FunctionEndCore ==
  ASSUME TypeInv, Core, FunctionEnd
  PROVE  Core'
<1>1. TreeGrows
  BY TreeSteps DEF FunctionEnd
<1> QED
  BY <1>1, RetItem, StayStep DEF FunctionEnd, emission

(* A break or continue jumps to a label of the innermost loop.             *)
LEMMA LoopLabelsAwaited ==
  ASSUME TypeInv, Core, InLoop
  PROVE  \E i \in DOMAIN nest :
           /\ LoopOf(nest, i, Len(nest))
           /\ loop_label_break = cur_break(nest[i])
           /\ loop_label_continue = cur_continue(nest[i])
<1>1. LabelsOfLoop(nest, loop_label_break, loop_label_continue, Len(nest))
  BY NestFacts DEF Core, LoopsNest, Loops
<1>2. ~ \A j \in DOMAIN nest : j <= Len(nest) => nest[j].kind \notin LoopKinds
  BY NestFacts DEF InLoop
<1> QED
  BY <1>1, <1>2 DEF LabelsOfLoop, BreakAt, ContinueAt

LEMMA BreakOrContinueCore ==
  ASSUME TypeInv, Core, NEW kind \in {"break", "continue"}, BreakOrContinue(kind)
  PROVE  Core'
<1> DEFINE l == IF kind = "break" THEN loop_label_break ELSE loop_label_continue
<1>1. TreeGrows
  BY TreeSteps DEF BreakOrContinue, AllKinds
<1>2. InLoop /\ Emits(<<Jmp(l)>>) /\ UNCHANGED <<nest, loop_label_break, loop_label_continue>>
  BY DEF BreakOrContinue, emission
<1>3. PICK i \in DOMAIN nest : l \in Pending(nest[i])
  BY <1>2, LoopLabelsAwaited, PendingOf DEF LoopOf, cur_break, cur_continue
<1>4. Jmp(l) \in Items /\ Jmp(l).label = l
  BY CodeTypes, ItemFields, 0 \in Nat DEF TypeInv
<1> HIDE DEF l
<1>5. Awaited(code', nest', l)
  BY <1>2, <1>3 DEF Awaited
<1>6. <<Jmp(l)>> \in Seq(Items) /\ JumpsKnown(<<Jmp(l)>>)
  BY <1>4, <1>5, OneItem
<1> QED
  BY <1>1, <1>2, <1>6, StayStep


LEMMA CondCore ==
  ASSUME TypeInv, Core, NEW alone \in BOOLEAN, Cond(alone)
  PROVE  Core'
<1> DEFINE l2 == IF alone THEN label_counter ELSE label_counter + 1
           e == Frame("cond_block", New + 1, "cond", label_counter, l2)
           x == Node("cond_block", Top.node, Top.at)
           y == Node("if_branch", New, "branch")
<1>1. label_counter \in Int /\ l2 \in Int /\ New \in Nat /\ New + 1 \in Nat
  BY TopFacts DEF TypeInv
<1>2. /\ tree' = tree \o <<x, y>> /\ Enter(e)
      /\ UNCHANGED <<code, loop_label_break, loop_label_continue>>
  BY DEF Cond
<1>3. e \in Frames
  BY <1>1, TopFacts, FrameTypes DEF FrameKinds
<1>4. /\ e.kind = "cond_block" /\ e.last_break = loop_label_break
      /\ e.last_continue = loop_label_continue /\ e.node = New + 1
  BY DEF Frame
<1>5. x \in Nodes /\ y \in Nodes /\ y.kind = "if_branch"
  <2>1. x \in Nodes
    BY TopFacts, NodeTypes DEF AllKinds
  <2>2. y \in Nodes /\ y.kind = "if_branch"
    BY <1>1, NodeTypes DEF Parts, Node
  <2> QED
    BY <2>1, <2>2
<1> HIDE DEF e, x, y
<1>6. TreeGrows /\ New + 1 \in DOMAIN tree' /\ tree'[New + 1] = y
  <2>1. <<x, y>> \in Seq(Nodes) /\ Len(<<x, y>>) = 2 /\ <<x, y>>[2] = y
    BY <1>5
  <2>2. tree \in Seq(Nodes) /\ New = Len(tree) + 1 /\ Len(tree) \in Nat
    BY DEF TypeInv, New
  <2>3. /\ DOMAIN tree' = 1 .. Len(tree) + 2 /\ DOMAIN tree = 1 .. Len(tree)
        /\ \A i \in 1 .. Len(tree) : tree'[i] = tree[i]
        /\ \A i \in 1 .. 2 : tree'[Len(tree) + i] = <<x, y>>[i]
    BY <1>2, <2>1, <2>2, ConcatFacts
  <2>4. tree'[Len(tree) + 2] = y
    BY <2>1, <2>3
  <2> QED
    BY <2>2, <2>3, <2>4 DEF TreeGrows
<1>7. EarlyOf(code', tree', e)
  BY <1>4, <1>5, <1>6 DEF EarlyOf
<1> QED
  BY <1>2, <1>3, <1>4, <1>6, <1>7, NoItems, EnterStep DEF LoopKinds

LEMMA CondTestCore ==
  ASSUME TypeInv, Core, CondTest
  PROVE  Core'
<1> DEFINE e == [Top EXCEPT !.at = "body"]
           it == Jz(Top.l1)
<1>1. e \in Frames
  BY TopFacts DEF Frames
<1>2. /\ e.kind = Top.kind /\ e.l1 = Top.l1 /\ e.l2 = Top.l2 /\ e.node = Top.node
      /\ e.last_break = Top.last_break /\ e.last_continue = Top.last_continue
  BY TopFacts DEF Frames
<1>3. it \in Items /\ it.label = Top.l1
  BY TopFacts, CodeTypes, ItemFields
<1>4. /\ GoOn(e) /\ Emits(<<it>>) /\ UNCHANGED <<tree, loop_label_break, loop_label_continue>>
      /\ Top.kind = "cond_block"
  BY DEF CondTest, Context, else_label
<1> HIDE DEF e, it
<1>5. Pending(Top) = Pending(e) /\ it.label \in Pending(e)
  BY <1>2, <1>3, <1>4, PendingOf
<1>6. <<it>> \in Seq(Items) /\ JumpsKnown(<<it>>)
  BY <1>1, <1>3, <1>4, <1>5, TopAwaits, OneItem
<1>7. TreeGrows /\ Top.node \in DOMAIN tree
  BY <1>4, TreeSteps, BranchFacts DEF Core
<1>8. EarlyOf(code', tree', e)
  <2>1. CodeKept
    BY <1>4, <1>6, CodeGrows DEF CodeKept
  <2>2. EarlyOf(code, tree, Top)
    BY NestFacts DEF Core, DeclaredEarly, Top
  <2> QED
    BY <1>2, <1>4, <1>7, <2>1, <2>2 DEF EarlyOf, TreeGrows, CodeKept, else_label
<1> QED
  BY <1>1, <1>2, <1>4, <1>5, <1>6, <1>7, <1>8, GoOnStep DEF LoopKinds, TreeGrows

(* The end of a branch: JMP to the end, and the label for the next one.    *)
LEMMA BranchItems ==
  ASSUME TypeInv, Core, Top.kind = "cond_block"
  PROVE  /\ BranchEnd \in Seq(Items) /\ DOMAIN BranchEnd = {1, 2}
         /\ BranchEnd[1] = Jmp(Top.l2) /\ BranchEnd[2] = Label(Top.l1)
         /\ Jmp(Top.l2) \in Items /\ Label(Top.l1) \in Items /\ Label(Top.l2) \in Items
         /\ Jmp(Top.l2).label = Top.l2
         /\ Label(Top.l1).op \notin Jumps /\ Label(Top.l2).op \notin Jumps
<1>1. /\ Jmp(Top.l2) \in Items /\ Label(Top.l1) \in Items /\ Label(Top.l2) \in Items
      /\ Jmp(Top.l2).label = Top.l2
      /\ Label(Top.l1).op \notin Jumps /\ Label(Top.l2).op \notin Jumps
  BY TopFacts, CodeTypes, ItemFields
<1>2. BranchEnd = <<Jmp(Top.l2), Label(Top.l1)>>
  BY DEF BranchEnd, end_cond, else_label
<1>3. /\ DOMAIN <<Jmp(Top.l2), Label(Top.l1)>> = {1, 2}
      /\ <<Jmp(Top.l2), Label(Top.l1)>>[1] = Jmp(Top.l2)
      /\ <<Jmp(Top.l2), Label(Top.l1)>>[2] = Label(Top.l1)
  OBVIOUS
<1> QED
  BY <1>1, <1>2, <1>3, BranchFacts DEF Core

LEMMA CondElifCore ==
  ASSUME TypeInv, Core, CondElif
  PROVE  Core'
<1> DEFINE e == [Top EXCEPT !.node = New, !.at = "cond", !.l1 = label_counter]
           x == Node("if_branch", CondNode, "branch")
<1>1. /\ Top.kind = "cond_block" /\ Emits(BranchEnd) /\ tree' = Append(tree, x) /\ GoOn(e)
      /\ UNCHANGED <<loop_label_break, loop_label_continue>>
  BY DEF CondElif, BlockEnds
<1>2. label_counter \in Int
  BY DEF TypeInv
<1>3. e \in Frames
  BY <1>2, TopFacts DEF Frames
<1>4. /\ e.kind = Top.kind /\ e.l2 = Top.l2 /\ e.node = New
      /\ e.last_break = Top.last_break /\ e.last_continue = Top.last_continue
  BY TopFacts DEF Frames
<1>5. x \in Nodes /\ x.kind = "if_branch"
  BY <1>1, BranchFacts, NodeTypes DEF Parts, Core, Node
<1> HIDE DEF e, x
<1>6. TreeGrows /\ New \in DOMAIN tree' /\ tree'[New] = x
  BY <1>1, <1>5, AppendFacts DEF TypeInv, TreeGrows, New
<1>7. EarlyOf(code', tree', e)
  BY <1>1, <1>4, <1>5, <1>6 DEF EarlyOf
<1>8. Declared(code', Top.l1)
  BY <1>1, BranchItems, LabelEmitted
<1>9. \A l \in Pending(Top) : Declared(code', l) \/ l \in Pending(e)
  BY <1>1, <1>4, <1>8, PendingOf
<1>10. JumpsKnown(BranchEnd)
  <2>1. Awaited(code', nest', Top.l2)
    BY <1>1, <1>3, <1>4, PendingOf, TopAwaits
  <2> QED
    BY <1>1, <2>1, BranchItems DEF JumpsKnown
<1> QED
  BY <1>1, <1>3, <1>4, <1>6, <1>7, <1>9, <1>10, BranchItems, GoOnStep DEF LoopKinds

LEMMA CondElseCore ==
  ASSUME TypeInv, Core, CondElse
  PROVE  Core'
<1> DEFINE e == [Top EXCEPT !.node = New]
           x == Node("else_branch", CondNode, "branch")
<1>1. /\ Top.kind = "cond_block" /\ Emits(BranchEnd) /\ tree' = Append(tree, x) /\ GoOn(e)
      /\ UNCHANGED <<loop_label_break, loop_label_continue>>
  BY DEF CondElse, BlockEnds, Context
<1>2. e \in Frames
  BY TopFacts DEF Frames
<1>3. /\ e.kind = Top.kind /\ e.l1 = Top.l1 /\ e.l2 = Top.l2 /\ e.node = New
      /\ e.last_break = Top.last_break /\ e.last_continue = Top.last_continue
  BY TopFacts DEF Frames
<1>4. x \in Nodes
  BY <1>1, BranchFacts, NodeTypes DEF Parts, Core, AllKinds
<1> HIDE DEF e, x
<1>5. TreeGrows /\ New \in DOMAIN tree'
  BY <1>1, <1>4, TreeSteps
<1>6. Declared(code', Top.l1)
  BY <1>1, BranchItems, LabelEmitted
<1>7. EarlyOf(code', tree', e)
  BY <1>1, <1>3, <1>6 DEF EarlyOf, else_label
<1>8. Pending(Top) = Pending(e)
  BY <1>1, <1>3, PendingOf
<1>9. JumpsKnown(BranchEnd)
  <2>1. Awaited(code', nest', Top.l2)
    BY <1>1, <1>2, <1>3, PendingOf, TopAwaits
  <2> QED
    BY <1>1, <2>1, BranchItems DEF JumpsKnown
<1> QED
  BY <1>1, <1>2, <1>3, <1>5, <1>7, <1>8, <1>9, BranchItems, GoOnStep DEF LoopKinds

(* The else label was declared with the branch before, or is now; the end  *)
(* label follows it.                                                       *)
LEMMA CondEndCore ==
  ASSUME TypeInv, Core, CondEnd
  PROVE  Core'
<1> DEFINE first == IF InElse THEN <<>> ELSE BranchEnd
           items == first \o <<Label(Top.l2)>>
<1>1. /\ Top.kind = "cond_block" /\ Emits(items) /\ Done
      /\ UNCHANGED <<tree, loop_label_break, loop_label_continue>>
  BY DEF CondEnd, BlockEnds, Context, end_cond
<1>2. first \in Seq(Items) /\ <<Label(Top.l2)>> \in Seq(Items)
  BY <1>1, BranchItems
<1>3. /\ items \in Seq(Items) /\ DOMAIN items = 1 .. Len(first) + 1
      /\ Len(first) \in Nat /\ DOMAIN first = 1 .. Len(first)
      /\ \A j \in 1 .. Len(first) : items[j] = first[j]
      /\ items[Len(first) + 1] = Label(Top.l2)
  <2>1. Len(<<Label(Top.l2)>>) = 1 /\ <<Label(Top.l2)>>[1] = Label(Top.l2)
    OBVIOUS
  <2> HIDE DEF first
  <2> QED
    BY <1>2, <2>1, ConcatFacts
<1> HIDE DEF items
<1>4. Declared(code', Top.l2)
  <2>1. Len(first) + 1 \in DOMAIN items
    BY <1>3
  <2> QED
    BY <1>1, <1>3, <2>1, LabelEmitted
<1>5. Declared(code', Top.l1)
  <2>1. CASE InElse
    <3>1. EarlyOf(code, tree, Top) /\ CodeKept
      BY <1>1, <1>3, NestFacts, CodeGrows DEF Core, DeclaredEarly, Top, CodeKept
    <3> QED
      BY <1>1, <2>1, <3>1 DEF EarlyOf, CodeKept, InElse, else_label
  <2>2. CASE ~InElse
    <3>1. 2 \in DOMAIN items /\ items[2] = Label(Top.l1)
      <4>1. first = BranchEnd /\ 2 \in DOMAIN first
        BY <1>1, <2>2, BranchItems
      <4> QED
        BY <1>1, <1>3, <4>1, BranchItems
    <3> QED
      BY <1>1, <1>3, <3>1, LabelEmitted
  <2> QED
    BY <2>1, <2>2
<1>6. \A l \in Pending(Top) : Declared(code', l)
  BY <1>1, <1>4, <1>5, PendingOf
<1>7. JumpsKnown(items)
  <2> SUFFICES ASSUME NEW j \in DOMAIN items, items[j].op \in Jumps
               PROVE  Declared(code', items[j].label)
    BY DEF JumpsKnown, Awaited
  <2>1. CASE j = Len(first) + 1
    BY <1>1, <1>3, <2>1, BranchItems
  <2>2. CASE j # Len(first) + 1
    <3>1. j \in DOMAIN first /\ items[j] = first[j]
      BY <1>3, <2>2
    <3>2. ~InElse
      BY <3>1
    <3> QED
      BY <1>1, <1>4, <1>5, <3>1, <3>2, BranchItems
  <2> QED
    BY <2>1, <2>2
<1>8. TreeGrows
  BY <1>1, TreeSteps
<1> QED
  BY <1>1, <1>3, <1>6, <1>7, <1>8, DoneStep DEF LoopKinds


LEMMA EnterLoopFacts ==
  ASSUME TypeInv, NEW kind \in LoopKinds, NEW at \in {"cond", "init"}, EnterLoop(kind, at)
  PROVE  \E e \in Frames :
           /\ Enter(e) /\ e.kind = kind /\ e.at = at
           /\ e.l1 = label_counter /\ e.l2 = label_counter + 1
           /\ e.last_break = loop_label_break /\ e.last_continue = loop_label_continue
           /\ loop_label_break' = e.l1 /\ loop_label_continue' = e.l2
           /\ TreeGrows
<1> DEFINE e == Frame(kind, New, at, label_counter, label_counter + 1)
<1>1. label_counter \in Int /\ label_counter + 1 \in Int
  BY DEF TypeInv
<1>2. e \in Frames
  BY <1>1, TopFacts, FrameTypes DEF FrameKinds
<1>3. /\ e.kind = kind /\ e.at = at /\ e.l1 = label_counter /\ e.l2 = label_counter + 1
      /\ e.last_break = loop_label_break /\ e.last_continue = loop_label_continue
  BY DEF Frame
<1>4. TreeGrows
  BY TreeSteps DEF EnterLoop, LoopKinds, AllKinds
<1>5. Enter(e) /\ loop_label_break' = label_counter /\ loop_label_continue' = label_counter + 1
  BY DEF EnterLoop
<1> HIDE DEF e
<1> QED
  BY <1>2, <1>3, <1>4, <1>5

LEMMA WhileCore ==
  ASSUME TypeInv, Core, While
  PROVE  Core'
<1> DEFINE it == Label(label_counter + 1)
<1>1. Emits(<<it>>) /\ EnterLoop("while_block", "cond")
  BY DEF While
<1>2. PICK e \in Frames :
           /\ Enter(e) /\ e.kind = "while_block" /\ e.at = "cond"
           /\ e.l1 = label_counter /\ e.l2 = label_counter + 1
           /\ e.last_break = loop_label_break /\ e.last_continue = loop_label_continue
           /\ loop_label_break' = e.l1 /\ loop_label_continue' = e.l2
           /\ TreeGrows
  BY <1>1, EnterLoopFacts DEF LoopKinds
<1>3. it \in Items /\ it.op \notin Jumps
  BY CodeTypes, ItemFields, 0 \in Nat, label_counter + 1 \in Int DEF TypeInv
<1>4. <<it>> \in Seq(Items) /\ JumpsKnown(<<it>>)
  BY <1>3, OneItem
<1>5. Declared(code', e.l2)
  <2>1. 1 \in DOMAIN <<it>> /\ <<it>>[1] = Label(e.l2)
    BY <1>2
  <2> QED
    BY <1>1, <1>4, <2>1, LabelEmitted
<1>6. EarlyOf(code', tree', e)
  BY <1>2, <1>5 DEF EarlyOf, cur_continue
<1> HIDE DEF it
<1> QED
  BY <1>1, <1>2, <1>4, <1>6, EnterStep DEF LoopKinds, cur_break, cur_continue

LEMMA ForCore ==
  ASSUME TypeInv, Core, NEW has_init \in BOOLEAN, For(has_init)
  PROVE  Core'
<1>1. EnterLoop("for_block", "init") /\ UNCHANGED code
  BY DEF For
<1>2. PICK e \in Frames :
           /\ Enter(e) /\ e.kind = "for_block" /\ e.at = "init"
           /\ e.l1 = label_counter /\ e.l2 = label_counter + 1
           /\ e.last_break = loop_label_break /\ e.last_continue = loop_label_continue
           /\ loop_label_break' = e.l1 /\ loop_label_continue' = e.l2
           /\ TreeGrows
  BY <1>1, EnterLoopFacts DEF LoopKinds
<1>3. EarlyOf(code', tree', e)
  BY <1>2 DEF EarlyOf
<1> QED
  BY <1>1, <1>2, <1>3, NoItems, EnterStep DEF LoopKinds, cur_break, cur_continue

(* A loop goes on to its next part, with its labels.                       *)
LEMMA LoopGoesOn ==
  ASSUME TypeInv, Core, Top.kind \in LoopKinds,
         NEW at \in {"cond", "body", "step"}, GoOn([Top EXCEPT !.at = at]),
         NEW items \in Seq(Items), Emits(items),
         Top.kind = "for_block" /\ Top.at = "init" => Declared(code', Top.l2),
         \A j \in DOMAIN items :
           items[j].op \in Jumps => items[j].label \in Pending([Top EXCEPT !.at = at]),
         UNCHANGED <<tree, loop_label_break, loop_label_continue>>
  PROVE  Core'
<1> DEFINE e == [Top EXCEPT !.at = at]
<1>1. e \in Frames
  BY TopFacts DEF Frames
<1>2. /\ e.kind = Top.kind /\ e.l1 = Top.l1 /\ e.l2 = Top.l2
      /\ e.last_break = Top.last_break /\ e.last_continue = Top.last_continue
  BY TopFacts DEF Frames
<1>3. \A j \in DOMAIN items : items[j].op \in Jumps => items[j].label \in Pending(e)
  OBVIOUS
<1>4. GoOn(e)
  OBVIOUS
<1> HIDE DEF e
<1>5. Pending(Top) = Pending(e)
  BY <1>2, PendingOf
<1>6. JumpsKnown(items)
  BY <1>1, <1>3, <1>4, TopAwaits DEF JumpsKnown
<1>7. CodeKept
  BY CodeGrows DEF CodeKept
<1>8. EarlyOf(code, tree, Top)
  BY NestFacts DEF Core, DeclaredEarly, Top
<1>9. EarlyOf(code', tree', e)
  BY <1>2, <1>7, <1>8 DEF EarlyOf, CodeKept, cur_continue, LoopKinds
<1>10. TreeGrows
  BY TreeSteps
<1> QED
  BY <1>1, <1>2, <1>4, <1>5, <1>6, <1>9, <1>10, GoOnStep
     DEF LoopKinds, cur_break, cur_continue

LEMMA LoopTestCore ==
  ASSUME TypeInv, Core, LoopTest
  PROVE  Core'
<1> DEFINE it == Jz(Top.l1)
<1>1. /\ Top.kind \in LoopKinds /\ Top.at = "cond" /\ Emits(<<it>>)
      /\ GoOn([Top EXCEPT !.at = "body"])
      /\ UNCHANGED <<tree, loop_label_break, loop_label_continue>>
  BY DEF LoopTest, Context, cur_break
<1>2. it \in Items /\ it.label = Top.l1
  BY TopFacts, CodeTypes, ItemFields
<1>3. Pending([Top EXCEPT !.at = "body"]) = {Top.l1, Top.l2}
  <2>1. /\ [Top EXCEPT !.at = "body"].kind = Top.kind
        /\ [Top EXCEPT !.at = "body"].l1 = Top.l1 /\ [Top EXCEPT !.at = "body"].l2 = Top.l2
    BY TopFacts DEF Frames
  <2> QED
    BY <1>1, <2>1, PendingOf
<1>4. <<it>> \in Seq(Items) /\ \A j \in DOMAIN <<it>> : <<it>>[j] = it
  BY <1>2
<1> HIDE DEF it
<1> QED
  BY <1>1, <1>2, <1>3, <1>4, LoopGoesOn

LEMMA ForStepCore ==
  ASSUME TypeInv, Core, ForStep
  PROVE  Core'
<1>1. /\ Top.kind \in LoopKinds /\ Top.at = "body" /\ GoOn([Top EXCEPT !.at = "step"])
      /\ UNCHANGED <<code, tree, loop_label_break, loop_label_continue>>
  BY DEF ForStep, BlockEnds, LoopKinds, Context
<1>2. <<>> \in Seq(Items) /\ Emits(<<>>) /\ DOMAIN <<>> = {}
  BY <1>1, NoItems
<1> QED
  BY <1>1, <1>2, LoopGoesOn

LEMMA ForTestCore ==
  ASSUME TypeInv, Core, ForTest
  PROVE  Core'
<1> DEFINE x == Label(Top.l2)
           y == JzUntested(Top.l1, Top.node)
<1>1. /\ Top.kind \in LoopKinds
      /\ UNCHANGED <<tree, loop_label_break, loop_label_continue>>
      /\ \/ Emits(<<x>>) /\ GoOn([Top EXCEPT !.at = "cond"])
         \/ Emits(<<x, y>>) /\ GoOn([Top EXCEPT !.at = "body"])
  BY DEF ForTest, Context, LoopKinds, cur_break, cur_continue
<1>2. x \in Items /\ y \in Items /\ x.op \notin Jumps /\ y.label = Top.l1
  BY TopFacts, CodeTypes, ItemFields
<1>3. \A at \in {"cond", "body"} : Pending([Top EXCEPT !.at = at]) = {Top.l1, Top.l2}
  <2> TAKE at \in {"cond", "body"}
  <2>1. /\ [Top EXCEPT !.at = at].kind = Top.kind
        /\ [Top EXCEPT !.at = at].l1 = Top.l1 /\ [Top EXCEPT !.at = at].l2 = Top.l2
    BY TopFacts DEF Frames
  <2> QED
    BY <1>1, <2>1, PendingOf
<1>4. /\ <<x>> \in Seq(Items) /\ DOMAIN <<x>> = {1} /\ <<x>>[1] = x
      /\ <<x, y>> \in Seq(Items) /\ DOMAIN <<x, y>> = {1, 2}
      /\ <<x, y>>[1] = x /\ <<x, y>>[2] = y
  BY <1>2
<1>5. CASE Emits(<<x>>) /\ GoOn([Top EXCEPT !.at = "cond"])
  <2>1. Declared(code', Top.l2)
    BY <1>4, <1>5, LabelEmitted
  <2> HIDE DEF x, y
  <2> QED
    BY <1>1, <1>2, <1>3, <1>4, <1>5, <2>1, LoopGoesOn
<1>6. CASE Emits(<<x, y>>) /\ GoOn([Top EXCEPT !.at = "body"])
  <2>1. Declared(code', Top.l2)
    BY <1>4, <1>6, LabelEmitted
  <2> HIDE DEF x, y
  <2> QED
    BY <1>1, <1>2, <1>3, <1>4, <1>6, <2>1, LoopGoesOn
<1> QED
  BY <1>1, <1>5, <1>6

(* A loop ends: its continue label was declared when it was tested.        *)
LEMMA LeaveLoopCore ==
  ASSUME TypeInv, Core, Top.kind \in LoopKinds,
         Top.kind = "for_block" => Top.at # "init", LeaveLoop
  PROVE  Core'
<1> DEFINE x == Jmp(Top.l2)
           y == Label(Top.l1)
<1>1. /\ Emits(<<x, y>>) /\ Done /\ UNCHANGED tree
      /\ loop_label_break' = Top.last_break /\ loop_label_continue' = Top.last_continue
  BY DEF LeaveLoop, cur_break, cur_continue
<1>2. x \in Items /\ y \in Items /\ x.label = Top.l2 /\ y.op \notin Jumps
  BY TopFacts, CodeTypes, ItemFields
<1>3. /\ <<x, y>> \in Seq(Items) /\ DOMAIN <<x, y>> = {1, 2}
      /\ <<x, y>>[1] = x /\ <<x, y>>[2] = y
  BY <1>2
<1>4. Declared(code', Top.l1)
  BY <1>1, <1>3, LabelEmitted
<1>5. Declared(code', Top.l2)
  <2>1. CodeKept
    BY <1>1, <1>3, CodeGrows DEF CodeKept
  <2>2. EarlyOf(code, tree, Top)
    BY NestFacts DEF Core, DeclaredEarly, Top
  <2> QED
    BY <2>1, <2>2 DEF EarlyOf, CodeKept, cur_continue, LoopKinds
<1>6. \A l \in Pending(Top) : Declared(code', l)
  BY <1>4, <1>5, PendingOf
<1>7. JumpsKnown(<<x, y>>)
  BY <1>2, <1>3, <1>5 DEF JumpsKnown, Awaited
<1>8. TreeGrows
  BY <1>1, TreeSteps
<1> HIDE DEF x, y
<1> QED
  BY <1>1, <1>3, <1>6, <1>7, <1>8, DoneStep DEF LoopKinds


LEMMA EmissionCore ==
  ASSUME TypeInv, Core, Emission
  PROVE  Core'
<1>1. ASSUME Operand \/ LogicLeft \/ LogicRight \/ \E op \in {"and", "or"} : Logic(op)
      PROVE  Core'
  BY <1>1, OperandCore, LogicLeftCore, LogicRightCore, LogicCore
<1>2. ASSUME Line \/ LineOfLogic \/ LineEnd \/ Exit \/ Return \/ ReturnEnd
             \/ \E kind \in {"break", "continue"} : BreakOrContinue(kind)
      PROVE  Core'
  BY <1>2, LineCore, LineOfLogicCore, LineEndCore, ExitCore, ReturnCore, ReturnEndCore,
     BreakOrContinueCore
<1>3. ASSUME CondTest \/ CondElif \/ CondElse \/ CondEnd \/ \E alone \in BOOLEAN : Cond(alone)
      PROVE  Core'
  BY <1>3, CondTestCore, CondElifCore, CondElseCore, CondEndCore, CondCore
<1>4. ASSUME WhileEnd \/ ForEnd
      PROVE  Core'
  BY <1>4, LeaveLoopCore DEF WhileEnd, ForEnd, BlockEnds, LoopKinds
<1>5. ASSUME While \/ LoopTest \/ ForTest \/ ForStep \/ \E has_init \in BOOLEAN : For(has_init)
      PROVE  Core'
  BY <1>5, WhileCore, LoopTestCore, ForTestCore, ForStepCore, ForCore
<1>6. ASSUME FunctionEnd
      PROVE  Core'
  BY <1>6, FunctionEndCore
<1> QED
  BY <1>1, <1>2, <1>3, <1>4, <1>5, <1>6 DEF Emission

-----------------------------------------------------------------------------
(* The machine. *)

(* The compiler goes on with the function, and the machine waits for it.   *)
LEMMA EmissionOn ==
  ASSUME Emission, ~FunctionEnd
  PROVE  mode \notin {"run", "stop"} /\ mode' \notin {"run", "stop"} /\ UNCHANGED machine
<1>1. CASE Operand \/ LogicLeft \/ LogicRight \/ \E op \in {"and", "or"} : Logic(op)
  BY <1>1 DEF Operand, LogicLeft, LogicRight, Logic
<1>2. CASE Line \/ LineOfLogic \/ LineEnd \/ Exit \/ Return \/ ReturnEnd
           \/ \E kind \in {"break", "continue"} : BreakOrContinue(kind)
  BY <1>2 DEF Line, LineOfLogic, LineEnd, Exit, Return, ReturnEnd, BreakOrContinue
<1>3. CASE CondTest \/ CondElif \/ CondElse \/ CondEnd \/ \E alone \in BOOLEAN : Cond(alone)
  BY <1>3 DEF CondTest, CondElif, CondElse, CondEnd, Cond, BlockEnds
<1>4. CASE While \/ LoopTest \/ WhileEnd \/ ForTest \/ ForStep \/ ForEnd
           \/ \E has_init \in BOOLEAN : For(has_init)
  BY <1>4 DEF While, LoopTest, WhileEnd, ForTest, ForStep, ForEnd, For, LeaveLoop, BlockEnds
<1> QED
  BY <1>1, <1>2, <1>3, <1>4 DEF Emission

(* While the function is emitted the machine has not begun; the emission   *)
(* ends with a return, once nothing but the function is left open.         *)
LEMMA EmissionInside ==
  ASSUME TypeInv, Core, Inside, Emission
  PROVE  Inside'
<1>1. CASE FunctionEnd
  <2>1. mode = "stmt" /\ Top.kind = "function" /\ Emits(<<Ret>>) /\ mode' = "run"
        /\ UNCHANGED <<nest, ip>>
    BY <1>1 DEF FunctionEnd, BlockEnds, emission, machine
  <2>2. Len(nest) = 1
    BY <2>1, NestFacts DEF Core, Shape, Top
  <2>3. ip = 1
    BY <2>1 DEF Inside
  <2>4. /\ <<Ret>> \in Seq(Items) /\ DOMAIN <<Ret>> = {1} /\ <<Ret>>[1] = Ret
        /\ Len(<<Ret>>) = 1 /\ Ret.op = "ret"
    BY RetItem DEF Ret, Item
  <2>5. Len(code) \in Nat /\ code \in Seq(Items)
    BY DEF TypeInv
  <2>6. /\ Len(code') = Len(code) + 1 /\ code'[Len(code) + 1] = Ret
        /\ DOMAIN code' = 1 .. Len(code) + 1
    BY <2>1, <2>4, <2>5, ConcatFacts DEF Emits
  <2> QED
    BY <2>1, <2>2, <2>3, <2>4, <2>5, <2>6 DEF Inside
<1>2. CASE ~FunctionEnd
  BY <1>2, EmissionOn DEF Inside, machine
<1> QED
  BY <1>1, <1>2

(* The machine leaves an item for the next one or, over a jump, for a      *)
(* label; the last item is a return, so there is always a next one.        *)
LEMMA ExecutionInside ==
  ASSUME TypeInv, Inside, Execution
  PROVE  Inside'
<1>1. /\ mode = "run" /\ UNCHANGED <<nest, code>> /\ Len(nest) = 1
      /\ ip \in DOMAIN code /\ code[Len(code)].op = "ret"
      /\ DOMAIN code = 1 .. Len(code) /\ Len(code) \in Nat
  BY DEF Execution, emission, Inside, TypeInv
<1>2. mode' \in {"run", "stop"}
  BY <1>1 DEF Execution, RunItem, RunLabel, RunJump, RunRet
<1>3. Current.op # "ret" => ip + 1 \in DOMAIN code
  BY <1>1 DEF Current
<1>4. ip' \in DOMAIN code
  <2>1. CASE RunItem \/ RunLabel
    <3>1. ip' = ip + 1 /\ Current.op # "ret"
      BY <2>1, Zenon DEF RunItem, RunLabel
    <3> QED
      BY <1>3, <3>1
  <2>2. CASE RunJump
    <3>1. CASE Taken
      BY <2>2, <3>1, AddressInside DEF RunJump
    <3>2. CASE ~Taken
      BY <1>3, <2>2, <3>2 DEF RunJump, Jumps
    <3> QED
      BY <3>1, <3>2
  <2>3. CASE RunRet
    BY <1>1, <2>3 DEF RunRet
  <2> QED
    BY <2>1, <2>2, <2>3 DEF Execution
<1> QED
  BY <1>1, <1>2, <1>4 DEF Inside

LEMMA InitIInv == Init => IInv
<1> SUFFICES ASSUME Init PROVE IInv
  OBVIOUS
<1>1. /\ DOMAIN nest = {1} /\ Len(nest) = 1 /\ DOMAIN code = {} /\ nest[1].kind = "function"
      /\ loop_label_break = -1 /\ loop_label_continue = -1 /\ mode = "stmt" /\ ip = 1
  BY DEF Init
<1>2. Shape /\ DeclaredEarly /\ JumpsClosed /\ Inside
  BY <1>1 DEF Shape, DeclaredEarly, EarlyOf, JumpsClosed, Inside
<1>3. LoopsNest
  BY <1>1 DEF LoopsNest, Loops, LabelsOfLoop, LabelsSaved, BreakAt, ContinueAt, LoopKinds
<1> QED
  BY <1>2, <1>3, InitType DEF IInv, Core

LEMMA NextIInv == IInv /\ [Next]_vars => IInv'
<1> SUFFICES ASSUME IInv, [Next]_vars PROVE IInv'
  OBVIOUS
<1>1. CASE Emission
  BY <1>1, EmissionType, EmissionCore, EmissionInside DEF IInv, Core
<1>2. CASE Execution
  <2>1. UNCHANGED <<loop_label_break, loop_label_continue, nest, code, tree>>
    BY <1>2 DEF Execution, emission
  <2>2. Core'
    BY <2>1 DEF IInv, Core, Shape, LoopsNest, DeclaredEarly, JumpsClosed, Places
  <2> QED
    BY <1>2, <2>2, ExecutionType, ExecutionInside DEF IInv
<1>3. CASE UNCHANGED vars
  <2>1. UNCHANGED <<label_counter, loop_label_break, loop_label_continue, nest, mode, code,
                    tree, ip, rax, last>>
    BY <1>3 DEF vars, emission, machine
  <2>2. Core'
    BY <2>1 DEF IInv, Core, Shape, LoopsNest, DeclaredEarly, JumpsClosed, Places
  <2>3. TypeInv' /\ Inside'
    BY <2>1 DEF IInv, TypeInv, Inside
  <2> QED
    BY <2>2, <2>3 DEF IInv
<1> QED
  BY <1>1, <1>2, <1>3 DEF Next

(* The labels handed out, those still awaited and the loop labels agree     *)
(* throughout the emission of a function (Backend.cpp), and the machine     *)
(* that runs it afterwards stays in its code.                               *)
THEOREM EmitInductive == Spec => []IInv
BY InitIInv, NextIInv, PTL DEF Spec

(* Every jump of an emitted function leads to a label that the function    *)
(* declares, or that a statement still being emitted declares: for bodies  *)
(* of any size and nesting (emit_block, emit_oper).                        *)
THEOREM JumpsClosedCorrect == Spec => []JumpsClosed
<1>1. IInv => JumpsClosed
  BY DEF IInv, Core
<1> QED
  BY <1>1, EmitInductive, PTL

(* break and continue leave, or go on with, the innermost loop around      *)
(* them: loop_label_break and loop_label_continue are its labels whenever  *)
(* there is a loop, and after any loops inside it have ended.              *)
InnermostLoop(i) ==
  /\ nest[i].kind \in LoopKinds
  /\ \A j \in DOMAIN nest : j > i => nest[j].kind \notin LoopKinds
BreakOfInnermost ==
  \A i \in DOMAIN nest :
    InnermostLoop(i) => /\ loop_label_break = cur_break(nest[i])
                        /\ loop_label_continue = cur_continue(nest[i])

THEOREM BreakOfInnermostCorrect == Spec => []BreakOfInnermost
<1>1. IInv => BreakOfInnermost
  <2> SUFFICES ASSUME IInv, NEW i \in DOMAIN nest, InnermostLoop(i)
               PROVE  /\ loop_label_break = cur_break(nest[i])
                      /\ loop_label_continue = cur_continue(nest[i])
    BY DEF BreakOfInnermost
  <2>1. InLoop
    BY DEF InnermostLoop, InLoop
  <2>2. PICK k \in DOMAIN nest :
           /\ LoopOf(nest, k, Len(nest))
           /\ loop_label_break = cur_break(nest[k])
           /\ loop_label_continue = cur_continue(nest[k])
    BY <2>1, LoopLabelsAwaited DEF IInv
  <2>3. i = k
    BY <2>2, NestFacts DEF InnermostLoop, LoopOf, IInv
  <2> QED
    BY <2>2, <2>3
<1> QED
  BY <1>1, EmitInductive, PTL

(* An emitted function runs to its return: the machine is always at an     *)
(* item of the code, and a jump that is taken finds its label there.       *)
NeverStray ==
  mode = "run" =>
    /\ ip \in DOMAIN code
    /\ Current.op \in Jumps => Places(Current.label) # {}

THEOREM NeverStrayCorrect == Spec => []NeverStray
<1>1. IInv => NeverStray
  <2> SUFFICES ASSUME IInv, mode = "run"
               PROVE  /\ ip \in DOMAIN code
                      /\ Current.op \in Jumps => Places(Current.label) # {}
    BY DEF NeverStray
  <2>1. ip \in DOMAIN code /\ Len(nest) = 1
    BY DEF IInv, Inside
  <2>2. \A k \in DOMAIN nest : Pending(nest[k]) = {}
    BY <2>1, NestFacts, PendingOf DEF IInv, Core, Shape
  <2> QED
    BY <2>1, <2>2 DEF IInv, Core, JumpsClosed, Current
<1> QED
  BY <1>1, EmitInductive, PTL


-----------------------------------------------------------------------------
(* Labels are declared once. *)

(* What an emission has not declared yet of its labels.                    *)
Open(t, f) ==
  CASE f.kind \in {"and", "or", "while_block"} -> {f.l1}
    [] f.kind = "cond_block" -> IF t[f.node].kind = "else_branch" THEN {f.l2} ELSE {f.l1, f.l2}
    [] f.kind = "for_block" -> IF f.at = "init" THEN {f.l1, f.l2} ELSE {f.l1}
    [] OTHER -> {}

(* The two labels of an emission differ, but for a condition with a single *)
(* branch, which is still in that branch.                                  *)
Apart(t, f) ==
  /\ f.kind \in LoopKinds => f.l1 # f.l2
  /\ f.kind = "cond_block" /\ f.l1 = f.l2 =>
       t[f.node].kind # "else_branch" /\ f.node = t[f.node].up + 1

Below(c, n) == \A l \in Int : Declared(c, l) => l < n
Fresh(c, n, S) == \A l \in S : l < n /\ ~Declared(c, l)

OpenLabels ==
  \A k \in DOMAIN nest :
    /\ Fresh(code, label_counter, Open(tree, nest[k]))
    /\ Apart(tree, nest[k])
    /\ \A j \in DOMAIN nest : j # k => Open(tree, nest[j]) \cap Open(tree, nest[k]) = {}

(* find_decl takes the first declaration of a label: another one, if there *)
(* is one, is next to it, so both are the same place of the program.       *)
LabelsOnce == \A l \in Int : \A i, j \in Places(l) : i < j => j = i + 1

Once == OpenLabels /\ Below(code, label_counter) /\ LabelsOnce

ItemsOnce(items) ==
  \A l \in Int : \A i, j \in DOMAIN items :
    i < j /\ items[i] = Label(l) /\ items[j] = Label(l) => j = i + 1

LEMMA OpenOf ==
  ASSUME NEW t, NEW f \in Frames
  PROVE  /\ f.kind \in {"and", "or", "while_block"} => Open(t, f) = {f.l1}
         /\ f.kind = "cond_block" /\ t[f.node].kind = "else_branch" => Open(t, f) = {f.l2}
         /\ f.kind = "cond_block" /\ t[f.node].kind # "else_branch" => Open(t, f) = {f.l1, f.l2}
         /\ f.kind = "for_block" /\ f.at = "init" => Open(t, f) = {f.l1, f.l2}
         /\ f.kind = "for_block" /\ f.at # "init" => Open(t, f) = {f.l1}
         /\ f.kind \in {"function", "line", "return"} => Open(t, f) = {}
         /\ Open(t, f) \subseteq Int
<1>1. f.kind \in FrameKinds /\ f.l1 \in Int /\ f.l2 \in Int
  BY DEF Frames
<1> QED
  BY <1>1 DEF Open, FrameKinds, LoopKinds

LEMMA EmitsOnce ==
  ASSUME TypeInv, Once, NEW items \in Seq(Items), Emits(items),
         label_counter' \in Int, label_counter' >= label_counter, ItemsOnce(items),
         \A l \in Int : Declared(items, l) => ~Declared(code, l) /\ l < label_counter'
  PROVE  /\ Below(code', label_counter') /\ LabelsOnce'
         /\ \A l \in Int : Declared(code', l) => Declared(code, l) \/ Declared(items, l)
<1>1. /\ code' = code \o items /\ code \in Seq(Items) /\ Len(code) \in Nat
      /\ DOMAIN code = 1 .. Len(code) /\ DOMAIN items = 1 .. Len(items) /\ Len(items) \in Nat
      /\ label_counter \in Int
  BY DEF TypeInv, Emits
<1>2. /\ \A i \in DOMAIN code : i \in DOMAIN code' /\ code'[i] = code[i]
      /\ \A i \in DOMAIN code' : i \in DOMAIN code
              \/ \E j \in DOMAIN items : i = Len(code) + j /\ code'[i] = items[j]
  BY CodeGrows
<1>3. \A l \in Int : Declared(code', l) => Declared(code, l) \/ Declared(items, l)
  BY <1>2 DEF Declared
<1>4. Below(code', label_counter')
  BY <1>1, <1>3 DEF Once, Below
<1>5. LabelsOnce'
  <2> SUFFICES ASSUME NEW l \in Int, NEW i \in DOMAIN code', NEW j \in DOMAIN code',
                      code'[i] = Label(l), code'[j] = Label(l), i < j
               PROVE  j = i + 1
    BY DEF LabelsOnce, Places
  <2>1. CASE j \in DOMAIN code
    <3>1. i \in DOMAIN code
      BY <1>1, <1>2, <2>1
    <3> QED
      BY <1>2, <2>1, <3>1 DEF Once, LabelsOnce, Places
  <2>2. CASE j \notin DOMAIN code
    <3>1. PICK q \in DOMAIN items : j = Len(code) + q /\ code'[j] = items[q]
      BY <1>2, <2>2
    <3>2. ~Declared(code, l)
      BY <3>1 DEF Declared
    <3>3. i \notin DOMAIN code
      BY <1>2, <3>2 DEF Declared
    <3>4. PICK p \in DOMAIN items : i = Len(code) + p /\ code'[i] = items[p]
      BY <1>2, <3>3
    <3>5. p < q
      BY <1>1, <3>1, <3>4
    <3>6. q = p + 1
      BY <3>1, <3>4, <3>5 DEF ItemsOnce
    <3> QED
      BY <1>1, <3>1, <3>4, <3>6
  <2> QED
    BY <2>1, <2>2
<1> QED
  BY <1>3, <1>4, <1>5

(* The labels that stay open do so over any step.                          *)
LEMMA OpenStays ==
  ASSUME Shape, TreeGrows, NEW k \in DOMAIN nest
  PROVE  /\ Open(tree', nest[k]) = Open(tree, nest[k])
         /\ Apart(tree, nest[k]) => Apart(tree', nest[k])
BY DEF Shape, TreeGrows, Open, Apart

LEMMA StayOnce ==
  ASSUME TypeInv, Core, Once, TreeGrows, NEW items \in Seq(Items), Emits(items),
         UNCHANGED <<nest, label_counter>>, \A j \in DOMAIN items : items[j].op # "label"
  PROVE  Once'
<1>1. \A l : ~Declared(items, l)
  BY DEF Declared, Label, Item
<1>2. ItemsOnce(items) /\ label_counter \in Int
  BY <1>1 DEF ItemsOnce, Declared, TypeInv
<1>3. /\ Below(code', label_counter') /\ LabelsOnce'
      /\ \A l \in Int : Declared(code', l) => Declared(code, l)
  BY <1>1, <1>2, EmitsOnce
<1>4. OpenLabels'
  BY <1>3, NestFacts, OpenStays, OpenOf DEF Once, OpenLabels, Fresh, Core
<1> QED
  BY <1>3, <1>4 DEF Once

LEMMA EnterOnce ==
  ASSUME TypeInv, Core, Once, TreeGrows, NEW items \in Seq(Items), Emits(items),
         ItemsOnce(items), label_counter' \in Int, label_counter' >= label_counter,
         NEW e \in Frames, Enter(e), Apart(tree', e),
         \A l \in Open(tree', e) :
           l >= label_counter /\ l < label_counter' /\ ~Declared(items, l),
         \A l \in Int : Declared(items, l) => l >= label_counter /\ l < label_counter'
  PROVE  Once'
<1>1. label_counter \in Int
  BY DEF TypeInv
<1>2. \A l \in Int : l >= label_counter => ~Declared(code, l)
  BY <1>1 DEF Once, Below
<1>3. /\ Below(code', label_counter') /\ LabelsOnce'
      /\ \A l \in Int : Declared(code', l) => Declared(code, l) \/ Declared(items, l)
  BY <1>2, EmitsOnce
<1>4. /\ DOMAIN nest' = 1 .. Len(nest) + 1 /\ nest'[Len(nest) + 1] = e
      /\ \A k \in DOMAIN nest : nest'[k] = nest[k]
  BY NestFacts, AppendFacts DEF Enter
<1>5. ASSUME NEW k \in DOMAIN nest
      PROVE  /\ Fresh(code', label_counter', Open(tree', nest[k])) /\ Apart(tree', nest[k])
             /\ \A l \in Open(tree', nest[k]) : l < label_counter
             /\ \A j \in DOMAIN nest : j # k => Open(tree', nest[j]) \cap Open(tree', nest[k]) = {}
  <2>1. /\ Open(tree', nest[k]) = Open(tree, nest[k]) /\ Open(tree, nest[k]) \subseteq Int
        /\ Apart(tree', nest[k])
    BY NestFacts, OpenStays, OpenOf DEF Core, Once, OpenLabels
  <2>2. Fresh(code, label_counter, Open(tree, nest[k]))
    BY DEF Once, OpenLabels
  <2>3. Fresh(code', label_counter', Open(tree', nest[k]))
    BY <1>1, <1>3, <2>1, <2>2 DEF Fresh
  <2>4. \A j \in DOMAIN nest : j # k => Open(tree', nest[j]) \cap Open(tree', nest[k]) = {}
    BY OpenStays DEF Core, Once, OpenLabels
  <2> QED
    BY <2>1, <2>2, <2>3, <2>4 DEF Fresh
<1>6. Open(tree', e) \subseteq Int
  BY OpenOf
<1>7. Fresh(code', label_counter', Open(tree', e))
  BY <1>2, <1>3, <1>6 DEF Fresh
<1>8. \A k \in DOMAIN nest : Open(tree', nest[k]) \cap Open(tree', e) = {}
  BY <1>1, <1>5, <1>6
<1>9. OpenLabels'
  BY <1>4, <1>5, <1>7, <1>8, NestFacts DEF OpenLabels
<1> QED
  BY <1>3, <1>9 DEF Once

LEMMA GoOnOnce ==
  ASSUME TypeInv, Core, Once, TreeGrows, NEW items \in Seq(Items), Emits(items),
         ItemsOnce(items), label_counter' \in Int, label_counter' >= label_counter,
         NEW e \in Frames, GoOn(e), Apart(tree', e),
         \A l \in Open(tree', e) :
           /\ l \in Open(tree, Top) \/ l >= label_counter
           /\ l < label_counter' /\ ~Declared(items, l),
         \A l \in Int : Declared(items, l) => l \in Open(tree, Top)
  PROVE  Once'
<1>1. label_counter \in Int /\ Len(nest) \in DOMAIN nest
  BY NestFacts DEF TypeInv
<1>2. Fresh(code, label_counter, Open(tree, Top)) /\ Open(tree, Top) \subseteq Int
  BY <1>1, TopFacts, OpenOf DEF Once, OpenLabels, Top
<1>3. /\ Below(code', label_counter') /\ LabelsOnce'
      /\ \A l \in Int : Declared(code', l) => Declared(code, l) \/ Declared(items, l)
  BY <1>1, <1>2, EmitsOnce DEF Fresh
<1>4. /\ DOMAIN nest' = DOMAIN nest /\ nest'[Len(nest)] = e
      /\ \A k \in DOMAIN nest : k # Len(nest) => nest'[k] = nest[k]
  BY NestFacts, ReplaceFacts DEF GoOn
<1>5. ASSUME NEW k \in DOMAIN nest, k # Len(nest)
      PROVE  /\ Fresh(code', label_counter', Open(tree', nest[k])) /\ Apart(tree', nest[k])
             /\ Open(tree', nest[k]) \cap Open(tree, Top) = {}
             /\ Open(tree', nest[k]) \subseteq Int
             /\ \A l \in Open(tree', nest[k]) : l < label_counter
             /\ \A j \in DOMAIN nest : j # k => Open(tree', nest[j]) \cap Open(tree', nest[k]) = {}
  <2>1. /\ Open(tree', nest[k]) = Open(tree, nest[k]) /\ Open(tree, nest[k]) \subseteq Int
        /\ Apart(tree', nest[k])
    BY NestFacts, OpenStays, OpenOf DEF Core, Once, OpenLabels
  <2>2. /\ Fresh(code, label_counter, Open(tree, nest[k]))
        /\ Open(tree, nest[k]) \cap Open(tree, Top) = {}
    BY <1>1, <1>5 DEF Once, OpenLabels, Top
  <2>3. Fresh(code', label_counter', Open(tree', nest[k]))
    BY <1>1, <1>3, <2>1, <2>2 DEF Fresh
  <2>4. \A j \in DOMAIN nest : j # k => Open(tree', nest[j]) \cap Open(tree', nest[k]) = {}
    BY OpenStays DEF Core, Once, OpenLabels
  <2> QED
    BY <2>1, <2>2, <2>3, <2>4 DEF Fresh
<1>6. Open(tree', e) \subseteq Int
  BY OpenOf
<1>7. Fresh(code', label_counter', Open(tree', e))
  <2> SUFFICES ASSUME NEW l \in Open(tree', e) PROVE l < label_counter' /\ ~Declared(code', l)
    BY DEF Fresh
  <2>1. ~Declared(code, l)
    BY <1>1, <1>2, <1>6 DEF Fresh, Once, Below
  <2> QED
    BY <1>3, <1>6, <2>1
<1>8. \A k \in DOMAIN nest : k # Len(nest) => Open(tree', nest[k]) \cap Open(tree', e) = {}
  <2> SUFFICES ASSUME NEW k \in DOMAIN nest, k # Len(nest), NEW l \in Open(tree', nest[k])
               PROVE  l \notin Open(tree', e)
    OBVIOUS
  <2>1. l \notin Open(tree, Top) /\ l < label_counter /\ l \in Int
    BY <1>5
  <2> QED
    BY <1>1, <2>1
<1>9. OpenLabels'
  BY <1>4, <1>5, <1>7, <1>8 DEF OpenLabels
<1> QED
  BY <1>3, <1>9 DEF Once

LEMMA DoneNest ==
  ASSUME TypeInv, Core, Done, Top.kind # "function"
  PROVE  /\ DOMAIN nest' = 1 .. Len(nest) - 1
         /\ \A k \in 1 .. Len(nest) - 1 : nest'[k] = nest[k] /\ k \in DOMAIN nest /\ k # Len(nest)
<1>1. Len(nest) >= 2 /\ 1 \in 0 .. Len(nest)
  BY InnerEmission, NestFacts DEF Core
<1>2. DOMAIN nest' = 1 .. Len(nest) - 1 /\ \A k \in 1 .. Len(nest) - 1 : nest'[k] = nest[k]
  <2>1. nest \in Seq(Frames) /\ 1 \in 0 .. Len(nest) /\ nest' = SubSeq(nest, 1, Len(nest) - 1)
    BY <1>1, NestFacts DEF Done
  <2> QED
    BY <2>1, DropFacts
<1>3. DOMAIN nest = 1 .. Len(nest) /\ Len(nest) \in Nat
  BY NestFacts
<1>4. \A n \in Nat : \A k \in 1 .. n - 1 : k \in 1 .. n /\ k # n
  OBVIOUS
<1> QED
  BY <1>2, <1>3, <1>4

LEMMA DoneOnce ==
  ASSUME TypeInv, Core, Once, TreeGrows, NEW items \in Seq(Items), Emits(items),
         ItemsOnce(items), UNCHANGED label_counter, Done, Top.kind # "function",
         \A l \in Int : Declared(items, l) => l \in Open(tree, Top)
  PROVE  Once'
<1>1. label_counter \in Int /\ Len(nest) \in DOMAIN nest
  BY NestFacts DEF TypeInv
<1>2. Fresh(code, label_counter, Open(tree, Top)) /\ Open(tree, Top) \subseteq Int
  BY <1>1, TopFacts, OpenOf DEF Once, OpenLabels, Top
<1>3. /\ Below(code', label_counter') /\ LabelsOnce'
      /\ \A l \in Int : Declared(code', l) => Declared(code, l) \/ Declared(items, l)
  BY <1>1, <1>2, EmitsOnce DEF Fresh
<1>5. /\ DOMAIN nest' = 1 .. Len(nest) - 1
      /\ \A k \in 1 .. Len(nest) - 1 : nest'[k] = nest[k] /\ k \in DOMAIN nest /\ k # Len(nest)
  BY DoneNest
<1>6. ASSUME NEW k \in DOMAIN nest, k # Len(nest)
      PROVE  /\ Fresh(code', label_counter', Open(tree', nest[k])) /\ Apart(tree', nest[k])
             /\ \A j \in DOMAIN nest : j # k => Open(tree', nest[j]) \cap Open(tree', nest[k]) = {}
  <2>1. /\ Open(tree', nest[k]) = Open(tree, nest[k]) /\ Open(tree, nest[k]) \subseteq Int
        /\ Apart(tree', nest[k])
    BY NestFacts, OpenStays, OpenOf DEF Core, Once, OpenLabels
  <2>2. /\ Fresh(code, label_counter, Open(tree, nest[k]))
        /\ Open(tree, nest[k]) \cap Open(tree, Top) = {}
    BY <1>1, <1>6 DEF Once, OpenLabels, Top
  <2>3. Fresh(code', label_counter', Open(tree', nest[k]))
    BY <1>1, <1>3, <2>1, <2>2 DEF Fresh
  <2>4. \A j \in DOMAIN nest : j # k => Open(tree', nest[j]) \cap Open(tree', nest[k]) = {}
    BY OpenStays DEF Core, Once, OpenLabels
  <2> QED
    BY <2>1, <2>3, <2>4
<1>7. OpenLabels'
  BY <1>5, <1>6 DEF OpenLabels
<1> QED
  BY <1>3, <1>7 DEF Once


(* Items without a label declare none.                                     *)
LEMMA PlainItem ==
  ASSUME NEW it, it.op # "label"
  PROVE  ItemsOnce(<<it>>) /\ \A l : ~Declared(<<it>>, l)
<1>1. \A l : Label(l) # it
  BY DEF Label, Item
<1>2. DOMAIN <<it>> = {1} /\ <<it>>[1] = it
  OBVIOUS
<1> QED
  BY <1>1, <1>2 DEF ItemsOnce, Declared

LEMMA LabelItem ==
  ASSUME NEW m
  PROVE  ItemsOnce(<<Label(m)>>) /\ \A l : Declared(<<Label(m)>>, l) => l = m
<1>1. \A l : Label(l) = Label(m) => l = m
  BY DEF Label, Item
<1>2. DOMAIN <<Label(m)>> = {1} /\ <<Label(m)>>[1] = Label(m)
  OBVIOUS
<1> QED
  BY <1>1, <1>2 DEF ItemsOnce, Declared

LEMMA JumpAndLabel ==
  ASSUME NEW it, NEW m, it.op # "label"
  PROVE  /\ ItemsOnce(<<it, Label(m)>>) /\ \A l : Declared(<<it, Label(m)>>, l) => l = m
         /\ ItemsOnce(<<Label(m), it>>) /\ \A l : Declared(<<Label(m), it>>, l) => l = m
<1>1. \A l : Label(l) # it /\ (Label(l) = Label(m) => l = m)
  BY DEF Label, Item
<1>2. DOMAIN <<it, Label(m)>> = {1, 2} /\ <<it, Label(m)>>[1] = it /\ <<it, Label(m)>>[2] = Label(m)
  OBVIOUS
<1>3. DOMAIN <<Label(m), it>> = {1, 2} /\ <<Label(m), it>>[2] = it /\ <<Label(m), it>>[1] = Label(m)
  OBVIOUS
<1> QED
  BY <1>1, <1>2, <1>3 DEF ItemsOnce, Declared

LEMMA NoItemsOnce == ItemsOnce(<<>>) /\ \A l : ~Declared(<<>>, l)
BY DOMAIN <<>> = {} DEF ItemsOnce, Declared

LEMMA PlainOps ==
  ASSUME NEW l, NEW n
  PROVE  /\ Ret.op # "label" /\ Item("eval", -1, n).op # "label" /\ Item("do", -1, n).op # "label"
         /\ Jmp(l).op # "label" /\ Jz(l).op # "label" /\ Jnz(l).op # "label"
         /\ JzUntested(l, n).op # "label"
BY DEF Ret, Jmp, Jz, Jnz, JzUntested, Item

(* An operand or a line, or nothing.                                       *)
LEMMA PlainOnce ==
  ASSUME TypeInv, Core, Once, TreeGrows, NEW it \in Items, it.op # "label",
         Emits(<<it>>), UNCHANGED <<nest, label_counter>>
  PROVE  Once'
<1>1. <<it>> \in Seq(Items) /\ \A j \in DOMAIN <<it>> : <<it>>[j] = it
  OBVIOUS
<1> QED
  BY <1>1, StayOnce

(* The emission goes on with the labels it had.                            *)
LEMMA GoOnPlain ==
  ASSUME TypeInv, Core, Once, UNCHANGED <<tree, label_counter>>, NEW items \in Seq(Items),
         Emits(items), ItemsOnce(items), \A l : ~Declared(items, l),
         NEW at \in {"body", "right", "step"}, GoOn([Top EXCEPT !.at = at]),
         Top.kind = "for_block" => Top.at # "init"
  PROVE  Once'
<1> DEFINE e == [Top EXCEPT !.at = at]
<1>1. e \in Frames
  BY TopFacts DEF Frames
<1>2. /\ e.kind = Top.kind /\ e.l1 = Top.l1 /\ e.l2 = Top.l2 /\ e.node = Top.node
      /\ e.at = at
  BY TopFacts DEF Frames
<1>3. GoOn(e)
  OBVIOUS
<1> HIDE DEF e
<1>4. Open(tree', e) = Open(tree, Top) /\ Open(tree, Top) \subseteq Int
  BY <1>1, <1>2, TopFacts, OpenOf DEF Open
<1>5. Apart(tree, Top) /\ Fresh(code, label_counter, Open(tree, Top))
  BY NestFacts DEF Once, OpenLabels, Top
<1>6. Apart(tree', e)
  BY <1>2, <1>5 DEF Apart
<1>7. label_counter \in Int /\ TreeGrows
  BY TreeSteps DEF TypeInv
<1>8. \A l \in Open(tree', e) : l \in Open(tree, Top) /\ l < label_counter'
  BY <1>4, <1>5 DEF Fresh
<1> QED
  BY <1>1, <1>3, <1>6, <1>7, <1>8, GoOnOnce

(* The emission was about an expression and declares nothing.              *)
LEMMA DonePlain ==
  ASSUME TypeInv, Core, Once, UNCHANGED <<tree, label_counter>>, NEW it \in Items,
         it.op # "label", Emits(<<it>>), Done, Top.kind # "function"
  PROVE  Once'
<1>1. <<it>> \in Seq(Items) /\ TreeGrows
  BY TreeSteps
<1> QED
  BY <1>1, PlainItem, DoneOnce

(* A new emission without labels.                                          *)
LEMMA EnterPlain ==
  ASSUME TypeInv, Core, Once, TreeGrows, UNCHANGED <<code, label_counter>>,
         NEW e \in Frames, Enter(e), e.kind \in {"line", "return"}
  PROVE  Once'
<1>1. Open(tree', e) = {} /\ Apart(tree', e)
  BY OpenOf DEF Apart, LoopKinds
<1>2. label_counter' \in Int /\ label_counter' >= label_counter
  BY DEF TypeInv
<1>3. <<>> \in Seq(Items) /\ Emits(<<>>) /\ ItemsOnce(<<>>) /\ \A l \in Int : ~Declared(<<>>, l)
  BY NoItems, NoItemsOnce
<1>4. \A l \in Open(tree', e) : FALSE
  BY <1>1
<1> QED
  BY <1>1, <1>2, <1>3, <1>4, EnterOnce


LEMMA OperandOnce ==
  ASSUME TypeInv, Core, Once, Operand
  PROVE  Once'
<1>1. Item("eval", -1, New) \in Items /\ Item("eval", -1, New).op # "label"
  BY TopFacts, CodeTypes, PlainOps
<1> QED
  BY <1>1, TreeSteps, PlainOnce DEF Operand, emission

LEMMA LineOnce ==
  ASSUME TypeInv, Core, Once, Line
  PROVE  Once'
<1>1. Item("do", -1, New) \in Items /\ Item("do", -1, New).op # "label"
  BY TopFacts, CodeTypes, PlainOps
<1>2. TreeGrows
  BY TreeSteps DEF Line, AllKinds
<1> QED
  BY <1>1, <1>2, PlainOnce DEF Line, emission

LEMMA RetPlain == Ret \in Items /\ Ret.op # "label"
BY CodeTypes, PlainOps, 0 \in Int, 0 \in Nat

LEMMA FunctionEndOnce ==
  ASSUME TypeInv, Core, Once, FunctionEnd
  PROVE  Once'
<1>1. TreeGrows
  BY TreeSteps DEF FunctionEnd
<1> QED
  BY <1>1, RetPlain, PlainOnce DEF FunctionEnd, emission

LEMMA BreakOrContinueOnce ==
  ASSUME TypeInv, Core, Once, NEW kind \in {"break", "continue"}, BreakOrContinue(kind)
  PROVE  Once'
<1> DEFINE l == IF kind = "break" THEN loop_label_break ELSE loop_label_continue
<1>1. TreeGrows
  BY TreeSteps DEF BreakOrContinue, AllKinds
<1>2. Jmp(l) \in Items /\ Jmp(l).op # "label"
  BY CodeTypes, PlainOps, 0 \in Nat DEF TypeInv
<1> QED
  BY <1>1, <1>2, PlainOnce DEF BreakOrContinue, emission

LEMMA ExitOnce ==
  ASSUME TypeInv, Core, Once, Exit
  PROVE  Once'
<1>1. TreeGrows
  BY TreeSteps DEF Exit, AllKinds
<1>2. <<>> \in Seq(Items) /\ Emits(<<>>) /\ DOMAIN <<>> = {}
  BY NoItems DEF Exit
<1> QED
  BY <1>1, <1>2, StayOnce DEF Exit, emission

LEMMA ReturnOnce ==
  ASSUME TypeInv, Core, Once, Return
  PROVE  Once'
<1> DEFINE e == Frame("return", New, "expr", -1, -1)
<1>1. TreeGrows
  BY TreeSteps DEF Return, AllKinds
<1>2. UNCHANGED label_counter
  BY DEF Return, Context
<1>3. CASE Emits(<<Ret>>) /\ UNCHANGED nest
  BY <1>1, <1>2, <1>3, RetPlain, PlainOnce
<1>4. CASE Enter(e) /\ UNCHANGED code
  <2>1. e \in Frames /\ e.kind = "return"
    BY TopFacts, FrameTypes, -1 \in Int DEF FrameKinds, Frame
  <2> HIDE DEF e
  <2> QED
    BY <1>1, <1>2, <1>4, <2>1, EnterPlain
<1> QED
  BY <1>3, <1>4 DEF Return

LEMMA LineOfLogicOnce ==
  ASSUME TypeInv, Core, Once, LineOfLogic
  PROVE  Once'
<1> DEFINE e == Frame("line", New, "expr", -1, -1)
<1>1. TreeGrows
  BY TreeSteps DEF LineOfLogic, AllKinds
<1>2. e \in Frames /\ e.kind = "line"
  BY TopFacts, FrameTypes, -1 \in Int DEF FrameKinds, Frame
<1>3. Enter(e) /\ UNCHANGED <<code, label_counter>>
  BY DEF LineOfLogic, Context
<1> HIDE DEF e
<1> QED
  BY <1>1, <1>2, <1>3, EnterPlain

LEMMA LineEndOnce ==
  ASSUME TypeInv, Core, Once, LineEnd
  PROVE  Once'
<1>1. Item("do", -1, Top.node) \in Items /\ Item("do", -1, Top.node).op # "label"
  BY TopFacts, CodeTypes, PlainOps
<1> QED
  BY <1>1, DonePlain DEF LineEnd, Context

LEMMA ReturnEndOnce ==
  ASSUME TypeInv, Core, Once, ReturnEnd
  PROVE  Once'
BY RetPlain, DonePlain DEF ReturnEnd, Context

LEMMA JumpGoesOn ==
  ASSUME TypeInv, Core, Once, NEW it \in Items, it.op # "label", Emits(<<it>>),
         UNCHANGED <<tree, label_counter>>, Top.kind = "for_block" => Top.at # "init",
         NEW at \in {"body", "right", "step"}, GoOn([Top EXCEPT !.at = at])
  PROVE  Once'
<1>1. <<it>> \in Seq(Items) /\ ItemsOnce(<<it>>) /\ \A l : ~Declared(<<it>>, l)
  BY PlainItem
<1> QED
  BY <1>1, GoOnPlain

LEMMA LogicLeftOnce ==
  ASSUME TypeInv, Core, Once, LogicLeft
  PROVE  Once'
<1> DEFINE it == IF Top.kind = "and" THEN Jz(label_end(Top)) ELSE Jnz(label_end(Top))
<1>1. it \in Items /\ it.op # "label"
  BY TopFacts, CodeTypes, PlainOps DEF label_end
<1>2. Emits(<<it>>) /\ GoOn([Top EXCEPT !.at = "right"]) /\ Top.at # "init"
      /\ UNCHANGED <<tree, label_counter>>
  BY DEF LogicLeft, Context
<1> HIDE DEF it
<1> QED
  BY <1>1, <1>2, JumpGoesOn

LEMMA LoopTestOnce ==
  ASSUME TypeInv, Core, Once, LoopTest
  PROVE  Once'
<1>1. Jz(cur_break(Top)) \in Items /\ Jz(cur_break(Top)).op # "label"
  BY TopFacts, CodeTypes, PlainOps DEF cur_break
<1> QED
  BY <1>1, JumpGoesOn DEF LoopTest, Context

LEMMA ForStepOnce ==
  ASSUME TypeInv, Core, Once, ForStep
  PROVE  Once'
<1>1. /\ Top.at # "init" /\ GoOn([Top EXCEPT !.at = "step"])
      /\ UNCHANGED <<code, tree, label_counter>>
  BY DEF ForStep, BlockEnds, Context
<1>2. <<>> \in Seq(Items) /\ Emits(<<>>) /\ ItemsOnce(<<>>) /\ \A l : ~Declared(<<>>, l)
  BY <1>1, NoItems, NoItemsOnce
<1> QED
  BY <1>1, <1>2, GoOnPlain

LEMMA LogicRightOnce ==
  ASSUME TypeInv, Core, Once, LogicRight
  PROVE  Once'
<1>1. /\ Top.kind \in {"and", "or"} /\ Emits(<<Label(Top.l1)>>) /\ Done
      /\ UNCHANGED <<tree, label_counter>>
  BY DEF LogicRight, Context, label_end
<1>2. Label(Top.l1) \in Items /\ TreeGrows
  BY <1>1, TopFacts, CodeTypes, TreeSteps
<1>5. <<Label(Top.l1)>> \in Seq(Items)
  BY <1>2
<1>3. Open(tree, Top) = {Top.l1}
  BY <1>1, TopFacts, OpenOf
<1>4. ItemsOnce(<<Label(Top.l1)>>) /\ \A l \in Int : Declared(<<Label(Top.l1)>>, l) => l \in Open(tree, Top)
  BY <1>3, LabelItem
<1> QED
  BY <1>1, <1>2, <1>4, <1>5, DoneOnce


LEMMA CondTestOnce ==
  ASSUME TypeInv, Core, Once, CondTest
  PROVE  Once'
<1>1. Jz(else_label(Top)) \in Items /\ Jz(else_label(Top)).op # "label"
  BY TopFacts, CodeTypes, PlainOps DEF else_label
<1> QED
  BY <1>1, JumpGoesOn DEF CondTest, Context

(* New labels are above all those that were handed out.                    *)
LEMMA LogicOnce ==
  ASSUME TypeInv, Core, Once, NEW op \in {"and", "or"}, Logic(op)
  PROVE  Once'
<1> DEFINE e == Frame(op, New, "left", label_counter, -1)
<1>1. label_counter \in Int /\ -1 \in Int
  BY DEF TypeInv
<1>2. e \in Frames /\ e.kind = op /\ e.l1 = label_counter
  BY <1>1, TopFacts, FrameTypes DEF FrameKinds, Frame
<1>3. TreeGrows
  BY TreeSteps DEF Logic, AllKinds
<1>4. Enter(e) /\ UNCHANGED code /\ label_counter' = label_counter + 1
  BY DEF Logic
<1> HIDE DEF e
<1>5. Open(tree', e) = {label_counter} /\ Apart(tree', e)
  BY <1>2, OpenOf DEF Apart, LoopKinds
<1>6. <<>> \in Seq(Items) /\ Emits(<<>>) /\ ItemsOnce(<<>>) /\ \A l \in Int : ~Declared(<<>>, l)
  BY <1>4, NoItems, NoItemsOnce
<1>7. \A l \in Open(tree', e) :
        l >= label_counter /\ l < label_counter' /\ ~Declared(<<>>, l)
  BY <1>1, <1>4, <1>5, <1>6
<1>8. label_counter' \in Int /\ label_counter' >= label_counter
  BY <1>1, <1>4
<1> QED
  BY <1>2, <1>3, <1>4, <1>5, <1>6, <1>7, <1>8, EnterOnce

LEMMA CondOnce ==
  ASSUME TypeInv, Core, Once, NEW alone \in BOOLEAN, Cond(alone)
  PROVE  Once'
<1> DEFINE l2 == IF alone THEN label_counter ELSE label_counter + 1
           e == Frame("cond_block", New + 1, "cond", label_counter, l2)
           x == Node("cond_block", Top.node, Top.at)
           y == Node("if_branch", New, "branch")
<1>1. label_counter \in Int /\ l2 \in Int /\ New \in Nat /\ New + 1 \in Nat
  BY TopFacts DEF TypeInv
<1>2. tree' = tree \o <<x, y>> /\ Enter(e) /\ UNCHANGED code
      /\ label_counter' = label_counter + (IF alone THEN 1 ELSE 2)
  BY DEF Cond
<1>3. e \in Frames
  BY <1>1, TopFacts, FrameTypes DEF FrameKinds
<1>4. /\ e.kind = "cond_block" /\ e.node = New + 1 /\ e.l1 = label_counter /\ e.l2 = l2
  BY DEF Frame
<1>5. x \in Nodes /\ y \in Nodes /\ y.kind = "if_branch" /\ y.up = New
  <2>1. x \in Nodes
    BY TopFacts, NodeTypes DEF AllKinds
  <2>2. y \in Nodes /\ y.kind = "if_branch" /\ y.up = New
    BY <1>1, NodeTypes DEF Parts, Node
  <2> QED
    BY <2>1, <2>2
<1> HIDE DEF e, x, y
<1>6. TreeGrows /\ New + 1 \in DOMAIN tree' /\ tree'[New + 1] = y
  <2>1. <<x, y>> \in Seq(Nodes) /\ Len(<<x, y>>) = 2 /\ <<x, y>>[2] = y
    BY <1>5
  <2>2. tree \in Seq(Nodes) /\ New = Len(tree) + 1 /\ Len(tree) \in Nat
    BY DEF TypeInv, New
  <2>3. /\ DOMAIN tree' = 1 .. Len(tree) + 2 /\ DOMAIN tree = 1 .. Len(tree)
        /\ \A i \in 1 .. Len(tree) : tree'[i] = tree[i]
        /\ \A i \in 1 .. 2 : tree'[Len(tree) + i] = <<x, y>>[i]
    BY <1>2, <2>1, <2>2, ConcatFacts
  <2>4. tree'[Len(tree) + 2] = y
    BY <2>1, <2>3
  <2> QED
    BY <2>2, <2>3, <2>4 DEF TreeGrows
<1>7. Open(tree', e) = {label_counter, l2}
  BY <1>3, <1>4, <1>5, <1>6, OpenOf
<1>8. Apart(tree', e)
  BY <1>4, <1>5, <1>6 DEF Apart, LoopKinds
<1>9. <<>> \in Seq(Items) /\ Emits(<<>>) /\ ItemsOnce(<<>>) /\ \A l \in Int : ~Declared(<<>>, l)
  BY <1>2, NoItems, NoItemsOnce
<1>10. label_counter' \in Int /\ label_counter' >= label_counter
  BY <1>1, <1>2
<1>11. \A l \in Open(tree', e) :
        l >= label_counter /\ l < label_counter' /\ ~Declared(<<>>, l)
  BY <1>1, <1>2, <1>7, <1>9
<1> QED
  BY <1>2, <1>3, <1>6, <1>8, <1>9, <1>10, <1>11, EnterOnce

LEMMA WhileOnce ==
  ASSUME TypeInv, Core, Once, While
  PROVE  Once'
<1> DEFINE it == Label(label_counter + 1)
<1>1. Emits(<<it>>) /\ EnterLoop("while_block", "cond") /\ label_counter' = label_counter + 2
  BY DEF While, EnterLoop
<1>2. PICK e \in Frames :
           /\ Enter(e) /\ e.kind = "while_block" /\ e.at = "cond"
           /\ e.l1 = label_counter /\ e.l2 = label_counter + 1
           /\ TreeGrows
  BY <1>1, EnterLoopFacts DEF LoopKinds
<1>3. label_counter \in Int
  BY DEF TypeInv
<1>4. it \in Items
  BY <1>3, CodeTypes, 0 \in Nat, label_counter + 1 \in Int
<1>5. ItemsOnce(<<it>>) /\ \A l \in Int : Declared(<<it>>, l) => l = label_counter + 1
  BY LabelItem
<1> HIDE DEF it
<1>6. <<it>> \in Seq(Items)
  BY <1>4
<1>7. Open(tree', e) = {label_counter} /\ Apart(tree', e)
  BY <1>2, <1>3, OpenOf DEF Apart, LoopKinds
<1>8. \A l \in Open(tree', e) :
        l >= label_counter /\ l < label_counter' /\ ~Declared(<<it>>, l)
  BY <1>1, <1>3, <1>5, <1>7
<1>9. \A l \in Int : Declared(<<it>>, l) => l >= label_counter /\ l < label_counter'
  BY <1>1, <1>3, <1>5
<1>10. label_counter' \in Int /\ label_counter' >= label_counter
  BY <1>1, <1>3
<1> QED
  BY <1>1, <1>2, <1>5, <1>6, <1>7, <1>8, <1>9, <1>10, EnterOnce

LEMMA ForOnce ==
  ASSUME TypeInv, Core, Once, NEW has_init \in BOOLEAN, For(has_init)
  PROVE  Once'
<1>1. EnterLoop("for_block", "init") /\ UNCHANGED code /\ label_counter' = label_counter + 2
  BY DEF For, EnterLoop
<1>2. PICK e \in Frames :
           /\ Enter(e) /\ e.kind = "for_block" /\ e.at = "init"
           /\ e.l1 = label_counter /\ e.l2 = label_counter + 1
           /\ TreeGrows
  BY <1>1, EnterLoopFacts DEF LoopKinds
<1>3. label_counter \in Int
  BY DEF TypeInv
<1>4. <<>> \in Seq(Items) /\ Emits(<<>>) /\ ItemsOnce(<<>>) /\ \A l \in Int : ~Declared(<<>>, l)
  BY <1>1, NoItems, NoItemsOnce
<1>5. Open(tree', e) = {label_counter, label_counter + 1} /\ Apart(tree', e)
  BY <1>2, <1>3, OpenOf DEF Apart, LoopKinds
<1>6. \A l \in Open(tree', e) :
        l >= label_counter /\ l < label_counter' /\ ~Declared(<<>>, l)
  BY <1>1, <1>3, <1>4, <1>5
<1>7. label_counter' \in Int /\ label_counter' >= label_counter
  BY <1>1, <1>3
<1> QED
  BY <1>2, <1>4, <1>5, <1>6, <1>7, EnterOnce


(* The labels the innermost emission has to declare are apart.             *)
LEMMA TopApart ==
  ASSUME TypeInv, Once
  PROVE  /\ Apart(tree, Top) /\ Fresh(code, label_counter, Open(tree, Top))
         /\ Open(tree, Top) \subseteq Int /\ label_counter \in Int
<1>1. Len(nest) \in DOMAIN nest /\ Top \in Frames
  BY NestFacts, TopFacts DEF Top
<1> QED
  BY <1>1, OpenOf DEF Once, OpenLabels, Top, TypeInv

LEMMA BranchOnce ==
  ASSUME TypeInv, Core, Top.kind = "cond_block"
  PROVE  /\ BranchEnd \in Seq(Items) /\ ItemsOnce(BranchEnd)
         /\ \A l : Declared(BranchEnd, l) => l = Top.l1
<1>1. BranchEnd = <<Jmp(Top.l2), Label(Top.l1)>>
  BY DEF BranchEnd, end_cond, else_label
<1> QED
  BY <1>1, BranchItems, PlainOps, JumpAndLabel

(* `elif` declares the label of the branch before and takes a new one.     *)
LEMMA CondElifOnce ==
  ASSUME TypeInv, Core, Once, CondElif
  PROVE  Once'
<1> DEFINE e == [Top EXCEPT !.node = New, !.at = "cond", !.l1 = label_counter]
           x == Node("if_branch", CondNode, "branch")
<1>1. /\ Top.kind = "cond_block" /\ Emits(BranchEnd) /\ tree' = Append(tree, x) /\ GoOn(e)
      /\ ~InElse /\ ~Alone /\ label_counter' = label_counter + 1
  BY DEF CondElif, BlockEnds
<1>2. label_counter \in Int
  BY DEF TypeInv
<1>3. e \in Frames
  BY <1>2, TopFacts DEF Frames
<1>4. e.kind = "cond_block" /\ e.l1 = label_counter /\ e.l2 = Top.l2 /\ e.node = New
  BY <1>1, TopFacts DEF Frames
<1>5. x \in Nodes /\ x.kind = "if_branch"
  BY <1>1, BranchFacts, NodeTypes DEF Parts, Core, Node
<1> HIDE DEF e, x
<1>6. TreeGrows /\ New \in DOMAIN tree' /\ tree'[New] = x
  BY <1>1, <1>5, AppendFacts DEF TypeInv, TreeGrows, New
<1>7. Open(tree, Top) = {Top.l1, Top.l2}
  BY <1>1, TopFacts, OpenOf DEF InElse
<1>8. Top.l1 # Top.l2
  BY <1>1, TopApart DEF Apart, InElse, Alone, First, CondNode, else_label, end_cond
<1>9. Top.l1 < label_counter /\ Top.l2 < label_counter /\ Top.l1 \in Int /\ Top.l2 \in Int
  BY <1>7, TopApart DEF Fresh
<1>10. Open(tree', e) = {label_counter, Top.l2}
  BY <1>3, <1>4, <1>5, <1>6, OpenOf
<1>11. Apart(tree', e)
  BY <1>2, <1>4, <1>9 DEF Apart, LoopKinds
<1>12. \A l \in Open(tree', e) :
         /\ l \in Open(tree, Top) \/ l >= label_counter
         /\ l < label_counter' /\ ~Declared(BranchEnd, l)
  <2>1. /\ ~Declared(BranchEnd, label_counter) /\ ~Declared(BranchEnd, Top.l2)
    BY <1>1, <1>2, <1>8, <1>9, BranchOnce
  <2> QED
    BY <1>1, <1>2, <1>7, <1>9, <1>10, <2>1
<1>13. label_counter' \in Int /\ label_counter' >= label_counter
  BY <1>1, <1>2
<1>14. \A l \in Int : Declared(BranchEnd, l) => l \in Open(tree, Top)
  BY <1>1, <1>7, BranchOnce
<1> QED
  BY <1>1, <1>3, <1>6, <1>11, <1>12, <1>13, <1>14, BranchOnce, GoOnOnce

LEMMA CondElseOnce ==
  ASSUME TypeInv, Core, Once, CondElse
  PROVE  Once'
<1> DEFINE e == [Top EXCEPT !.node = New]
           x == Node("else_branch", CondNode, "branch")
<1>1. /\ Top.kind = "cond_block" /\ Emits(BranchEnd) /\ tree' = Append(tree, x) /\ GoOn(e)
      /\ ~InElse /\ ~Alone /\ UNCHANGED label_counter
  BY DEF CondElse, BlockEnds, Context
<1>2. e \in Frames
  BY TopFacts DEF Frames
<1>3. e.kind = "cond_block" /\ e.l1 = Top.l1 /\ e.l2 = Top.l2 /\ e.node = New
  BY <1>1, TopFacts DEF Frames
<1>4. x \in Nodes /\ x.kind = "else_branch"
  BY <1>1, BranchFacts, NodeTypes DEF Parts, Core, AllKinds, Node
<1> HIDE DEF e, x
<1>5. TreeGrows /\ New \in DOMAIN tree' /\ tree'[New] = x
  BY <1>1, <1>4, AppendFacts DEF TypeInv, TreeGrows, New
<1>6. Open(tree, Top) = {Top.l1, Top.l2}
  BY <1>1, TopFacts, OpenOf DEF InElse
<1>7. Top.l1 # Top.l2
  BY <1>1, TopApart DEF Apart, InElse, Alone, First, CondNode, else_label, end_cond
<1>8. Top.l2 < label_counter /\ label_counter \in Int
  BY <1>6, TopApart DEF Fresh
<1>9. Open(tree', e) = {Top.l2}
  BY <1>2, <1>3, <1>4, <1>5, OpenOf
<1>10. Apart(tree', e)
  BY <1>3, <1>7 DEF Apart, LoopKinds
<1>11. \A l \in Open(tree', e) :
         /\ l \in Open(tree, Top) \/ l >= label_counter
         /\ l < label_counter' /\ ~Declared(BranchEnd, l)
  BY <1>1, <1>6, <1>7, <1>8, <1>9, BranchOnce
<1>12. \A l \in Int : Declared(BranchEnd, l) => l \in Open(tree, Top)
  BY <1>1, <1>6, BranchOnce
<1>13. label_counter' \in Int /\ label_counter' >= label_counter
  BY <1>1, <1>8
<1> QED
  BY <1>1, <1>2, <1>5, <1>10, <1>11, <1>12, <1>13, BranchOnce, GoOnOnce

(* A single branch declares its one label twice, in a row.                 *)
LEMMA CondEndOnce ==
  ASSUME TypeInv, Core, Once, CondEnd
  PROVE  Once'
<1>1. /\ Top.kind = "cond_block" /\ Done /\ UNCHANGED <<tree, label_counter>>
      /\ Emits((IF InElse THEN <<>> ELSE BranchEnd) \o <<Label(Top.l2)>>)
  BY DEF CondEnd, BlockEnds, Context, end_cond
<1>2. TreeGrows
  BY <1>1, TreeSteps
<1>3. CASE InElse
  <2>1. Open(tree, Top) = {Top.l2}
    BY <1>1, <1>3, TopFacts, OpenOf DEF InElse
  <2>2. <<Label(Top.l2)>> \in Seq(Items) /\ <<>> \o <<Label(Top.l2)>> = <<Label(Top.l2)>>
    BY <1>1, BranchItems
  <2>3. Emits(<<Label(Top.l2)>>)
    BY <1>1, <1>3, <2>2
  <2>4. \A l \in Int : Declared(<<Label(Top.l2)>>, l) => l \in Open(tree, Top)
    BY <2>1, LabelItem
  <2> QED
    BY <1>1, <1>2, <2>2, <2>3, <2>4, LabelItem, DoneOnce
<1>4. CASE ~InElse
  <2> DEFINE items == BranchEnd \o <<Label(Top.l2)>>
  <2>1. Open(tree, Top) = {Top.l1, Top.l2}
    BY <1>1, <1>4, TopFacts, OpenOf DEF InElse
  <2>2. Emits(items)
    BY <1>1, <1>4
  <2>3. /\ items \in Seq(Items) /\ DOMAIN items = {1, 2, 3}
        /\ items[1] = Jmp(Top.l2) /\ items[2] = Label(Top.l1) /\ items[3] = Label(Top.l2)
    <3>1. /\ BranchEnd \in Seq(Items) /\ Len(BranchEnd) = 2
          /\ BranchEnd[1] = Jmp(Top.l2) /\ BranchEnd[2] = Label(Top.l1)
          /\ Label(Top.l2) \in Items
      BY <1>1, BranchItems
    <3>2. /\ <<Label(Top.l2)>> \in Seq(Items) /\ Len(<<Label(Top.l2)>>) = 1
          /\ <<Label(Top.l2)>>[1] = Label(Top.l2)
      BY <3>1
    <3> QED
      BY <3>1, <3>2, ConcatFacts
  <2> HIDE DEF items
  <2>4. \A l : Label(l) # Jmp(Top.l2) /\ (\A m : Label(l) = Label(m) => l = m)
    BY DEF Label, Jmp, Item
  <2>5. ItemsOnce(items) /\ \A l \in Int : Declared(items, l) => l \in Open(tree, Top)
    BY <2>1, <2>3, <2>4 DEF ItemsOnce, Declared
  <2> QED
    BY <1>1, <1>2, <2>2, <2>3, <2>5, DoneOnce
<1> QED
  BY <1>3, <1>4

LEMMA ForTestOnce ==
  ASSUME TypeInv, Core, Once, ForTest
  PROVE  Once'
<1>1. /\ Top.kind = "for_block" /\ Top.at = "init" /\ UNCHANGED <<tree, label_counter>>
      /\ \/ Emits(<<Label(Top.l2)>>) /\ GoOn([Top EXCEPT !.at = "cond"])
         \/ /\ Emits(<<Label(Top.l2), JzUntested(Top.l1, Top.node)>>)
            /\ GoOn([Top EXCEPT !.at = "body"])
  BY DEF ForTest, Context, cur_break, cur_continue
<1>2. Open(tree, Top) = {Top.l1, Top.l2}
  BY <1>1, TopFacts, OpenOf
<1>3. Top.l1 # Top.l2
  BY <1>1, TopApart DEF Apart, LoopKinds
<1>4. Top.l1 < label_counter /\ label_counter \in Int /\ TreeGrows
  BY <1>1, <1>2, TopApart, TreeSteps DEF Fresh
<1>5. ASSUME NEW at \in {"cond", "body"}, NEW items \in Seq(Items), Emits(items),
             ItemsOnce(items), \A l : Declared(items, l) => l = Top.l2,
             GoOn([Top EXCEPT !.at = at])
      PROVE  Once'
  <2> DEFINE e == [Top EXCEPT !.at = at]
  <2>1. e \in Frames
    BY TopFacts DEF Frames
  <2>2. e.kind = "for_block" /\ e.at = at /\ e.l1 = Top.l1 /\ e.l2 = Top.l2
    BY <1>1, TopFacts DEF Frames
  <2>3. GoOn(e)
    BY <1>5
  <2> HIDE DEF e
  <2>4. Open(tree', e) = {Top.l1} /\ Apart(tree', e)
    BY <1>3, <2>1, <2>2, OpenOf DEF Apart
  <2>5. \A l \in Open(tree', e) :
          /\ l \in Open(tree, Top) \/ l >= label_counter
          /\ l < label_counter' /\ ~Declared(items, l)
    BY <1>1, <1>2, <1>3, <1>4, <1>5, <2>4
  <2>6. \A l \in Int : Declared(items, l) => l \in Open(tree, Top)
    BY <1>2, <1>5
  <2>7. label_counter' \in Int /\ label_counter' >= label_counter
    BY <1>1, <1>4
  <2> QED
    BY <1>4, <1>5, <2>1, <2>3, <2>4, <2>5, <2>6, <2>7, GoOnOnce
<1>6. /\ Label(Top.l2) \in Items /\ JzUntested(Top.l1, Top.node) \in Items
      /\ JzUntested(Top.l1, Top.node).op # "label"
  BY TopFacts, CodeTypes, PlainOps
<1>7. /\ <<Label(Top.l2)>> \in Seq(Items)
      /\ <<Label(Top.l2), JzUntested(Top.l1, Top.node)>> \in Seq(Items)
  BY <1>6
<1>8. CASE Emits(<<Label(Top.l2)>>) /\ GoOn([Top EXCEPT !.at = "cond"])
  BY <1>5, <1>7, <1>8, LabelItem
<1>9. CASE /\ Emits(<<Label(Top.l2), JzUntested(Top.l1, Top.node)>>)
           /\ GoOn([Top EXCEPT !.at = "body"])
  BY <1>5, <1>6, <1>7, <1>9, JumpAndLabel
<1> QED
  BY <1>1, <1>8, <1>9

LEMMA LeaveLoopOnce ==
  ASSUME TypeInv, Core, Once, Top.kind \in LoopKinds, LeaveLoop
  PROVE  Once'
<1> DEFINE items == <<Jmp(Top.l2), Label(Top.l1)>>
<1>1. Emits(items) /\ Done /\ UNCHANGED <<tree, label_counter>>
  BY DEF LeaveLoop, cur_break, cur_continue
<1>2. Jmp(Top.l2) \in Items /\ Label(Top.l1) \in Items /\ Jmp(Top.l2).op # "label"
  BY TopFacts, CodeTypes, PlainOps
<1>3. items \in Seq(Items) /\ TreeGrows
  BY <1>1, <1>2, TreeSteps
<1>4. Top.l1 \in Open(tree, Top)
  BY TopFacts, OpenOf DEF LoopKinds
<1>5. ItemsOnce(items) /\ \A l \in Int : Declared(items, l) => l \in Open(tree, Top)
  BY <1>2, <1>4, JumpAndLabel
<1> HIDE DEF items
<1> QED
  BY <1>1, <1>3, <1>5, DoneOnce DEF LoopKinds

LEMMA EmissionOnce ==
  ASSUME TypeInv, Core, Once, Emission
  PROVE  Once'
<1>1. ASSUME Operand \/ LogicLeft \/ LogicRight \/ \E op \in {"and", "or"} : Logic(op)
      PROVE  Once'
  BY <1>1, OperandOnce, LogicLeftOnce, LogicRightOnce, LogicOnce
<1>2. ASSUME Line \/ LineOfLogic \/ LineEnd \/ Exit \/ Return \/ ReturnEnd
             \/ \E kind \in {"break", "continue"} : BreakOrContinue(kind)
      PROVE  Once'
  BY <1>2, LineOnce, LineOfLogicOnce, LineEndOnce, ExitOnce, ReturnOnce, ReturnEndOnce,
     BreakOrContinueOnce
<1>3. ASSUME CondTest \/ CondElif \/ CondElse \/ CondEnd \/ \E alone \in BOOLEAN : Cond(alone)
      PROVE  Once'
  BY <1>3, CondTestOnce, CondElifOnce, CondElseOnce, CondEndOnce, CondOnce
<1>4. ASSUME WhileEnd \/ ForEnd
      PROVE  Once'
  BY <1>4, LeaveLoopOnce DEF WhileEnd, ForEnd, BlockEnds, LoopKinds
<1>5. ASSUME While \/ LoopTest \/ ForTest \/ ForStep \/ \E has_init \in BOOLEAN : For(has_init)
      PROVE  Once'
  BY <1>5, WhileOnce, LoopTestOnce, ForTestOnce, ForStepOnce, ForOnce
<1>6. ASSUME FunctionEnd
      PROVE  Once'
  BY <1>6, FunctionEndOnce
<1> QED
  BY <1>1, <1>2, <1>3, <1>4, <1>5, <1>6 DEF Emission

LEMMA InitOnce == Init => Once
<1> SUFFICES ASSUME Init PROVE Once
  OBVIOUS
<1>1. /\ DOMAIN nest = {1} /\ DOMAIN code = {} /\ nest[1].kind = "function"
  BY DEF Init
<1>2. \A l : ~Declared(code, l)
  BY <1>1 DEF Declared
<1>3. Open(tree, nest[1]) = {} /\ Apart(tree, nest[1])
  BY <1>1 DEF Open, Apart, LoopKinds
<1> QED
  BY <1>1, <1>2, <1>3 DEF Once, OpenLabels, Fresh, Below, LabelsOnce, Places

LEMMA NextOnce == Once /\ IInv /\ [Next]_vars => Once'
<1> SUFFICES ASSUME Once, IInv, [Next]_vars PROVE Once'
  OBVIOUS
<1>1. CASE Emission
  BY <1>1, EmissionOnce DEF IInv
<1>2. CASE Execution \/ UNCHANGED vars
  <2>1. UNCHANGED <<label_counter, nest, code, tree>>
    BY <1>2 DEF Execution, vars, emission
  <2> QED
    BY <2>1 DEF Once, OpenLabels, LabelsOnce, Places
<1> QED
  BY <1>1, <1>2 DEF Next

LEMMA OnceInductive == Spec => []Once
BY InitOnce, NextOnce, EmitInductive, PTL DEF Spec

(* A label is declared at one place of an emitted function: label_counter  *)
(* hands out a label once, and the emission that took it declares it once  *)
(* (emit_cond_block declares the label of a single branch twice in a row). *)
THEOREM LabelsOnceCorrect == Spec => []LabelsOnce
<1>1. Once => LabelsOnce
  BY DEF Once
<1> QED
  BY <1>1, OnceInductive, PTL

-----------------------------------------------------------------------------
(* The tree while it grows.  The second part of the module: the emitted    *)
(* code implements Control.  It needs an invariant on the tree (GrownInv), *)
(* one on what the code means (Means), and one on the machine (Simulated). *)

(* The parts of a node are emitted in this order.                          *)
Rank(part) ==
  CASE part \in {"left", "expr", "init"} -> 1
    [] part \in {"right", "cond"} -> 2
    [] part = "body" -> 3
    [] part = "step" -> 4
    [] part = "branch" -> 0

(* The node an emission began with: a condition is at one of its branches. *)
Statement(t, f) == IF f.kind = "cond_block" THEN t[f.node].up ELSE f.node

Wants(m) == m \in {"stmt", "expr"}

(* An emission and its node. *)
Built(t, f) ==
  /\ f.kind = "function" => f.node = 0 /\ f.at = "body"
  /\ f.kind # "function" => f.node \in DOMAIN t
  /\ f.kind \notin {"function", "cond_block"} => t[f.node].kind = f.kind
  /\ f.kind \in {"and", "or"} => f.at \in {"left", "right"}
  /\ f.kind \in {"line", "return"} => f.at = "expr"
  /\ f.kind = "while_block" => f.at \in {"cond", "body"}
  /\ f.kind = "for_block" => f.at \in {"init", "cond", "body", "step"}
  /\ f.kind = "cond_block" =>
       /\ f.at \in {"cond", "body"}
       /\ t[f.node].kind \in {"if_branch", "else_branch"}
       /\ f.at = "cond" => t[f.node].kind = "if_branch"
       /\ t[f.node].part = "branch" /\ t[f.node].up \in DOMAIN t
       /\ t[t[f.node].up].kind = "cond_block"
       /\ \A n \in DOMAIN t : t[n].up = t[f.node].up => n <= f.node
  /\ \A n \in DOMAIN t : t[n].up = f.node => Rank(t[n].part) <= Rank(f.at)

(* Emission f was begun by emission g, and is at the part g is at.         *)
Placed(t, f, g) ==
  /\ t[Statement(t, f)].up = g.node /\ t[Statement(t, f)].part = g.at
  /\ f.kind \in {"return", "cond_block"} \cup LoopKinds => g.at = "body"
  /\ f.kind = "line" => g.at \in {"body", "init", "step"}
  /\ f.kind \in {"and", "or"} => g.at \in {"left", "right", "expr", "cond"}
  /\ \A n \in DOMAIN t : t[n].up = g.node => n <= Statement(t, f)

(* What the innermost emission f waits for.                                *)
Ready(t, f, m) ==
  /\ m = "expr" => f.at \in {"left", "right", "expr", "cond"}
  /\ m = "stmt" => f.at \in {"body", "init", "step"}
  /\ m = "value" => f.at # "body"
  /\ Wants(m) /\ f.at # "body" =>
       \A n \in DOMAIN t : t[n].up = f.node => Rank(t[n].part) < Rank(f.at)

Upwards(t) == \A n \in DOMAIN t : t[n].up < n
Nested(t, s) ==
  /\ \A j, k \in DOMAIN s : j < k => s[j].node < Statement(t, s[k])
  /\ \A k \in DOMAIN s : Built(t, s[k]) /\ (k > 1 => Placed(t, s[k], s[k - 1]))
Grown(t, s, m) == Upwards(t) /\ Nested(t, s) /\ Ready(t, s[Len(s)], m)
GrownInv == Grown(tree, nest, mode)

(* The order of the parts.                                                 *)
LEMMA RankFacts ==
  /\ Rank("left") = 1 /\ Rank("expr") = 1 /\ Rank("init") = 1 /\ Rank("right") = 2
  /\ Rank("cond") = 2 /\ Rank("body") = 3 /\ Rank("step") = 4 /\ Rank("branch") = 0
  /\ \A p \in Parts : Rank(p) \in Nat
BY DEF Rank, Parts

(* An emission begins before its node, the emissions around it before it.  *)
LEMMA NodesOrdered ==
  ASSUME TypeInv, GrownInv
  PROVE  /\ \A n \in DOMAIN tree : tree[n].up \in Nat /\ tree[n].up < n /\ tree[n].part \in Parts
         /\ \A k \in DOMAIN nest : /\ nest[k].node \in 0 .. Len(tree)
                                   /\ Statement(tree, nest[k]) \in 0 .. nest[k].node
                                   /\ nest[k].at \in Parts
         /\ \A k \in DOMAIN nest : k < Len(nest) => nest[k].node < Statement(tree, Top)
<1>1. DOMAIN tree = 1 .. Len(tree) /\ Len(tree) \in Nat /\ Len(nest) \in DOMAIN nest
  BY TopFacts
<1>2. \A n \in DOMAIN tree : tree[n] \in Nodes
  BY DEF TypeInv
<1>3. \A n \in DOMAIN tree : tree[n].up \in Nat /\ tree[n].up < n /\ tree[n].part \in Parts
  BY <1>2 DEF Nodes, GrownInv, Grown, Upwards
<1>4. ASSUME NEW k \in DOMAIN nest
      PROVE  /\ nest[k].node \in 0 .. Len(tree) /\ Statement(tree, nest[k]) \in 0 .. nest[k].node
             /\ nest[k].at \in Parts
  <2>1. Built(tree, nest[k]) /\ nest[k] \in Frames
    BY TopFacts DEF GrownInv, Grown, Nested
  <2>2. nest[k].node \in 0 .. Len(tree)
    BY <1>1, <2>1 DEF Built
  <2>3. nest[k].kind = "cond_block" => nest[k].node \in DOMAIN tree
    BY <2>1 DEF Built
  <2>4. Statement(tree, nest[k]) \in 0 .. nest[k].node
    BY <1>1, <1>3, <2>2, <2>3 DEF Statement
  <2>5. nest[k].at \in Parts
    BY <2>1 DEF Frames, Parts
  <2> QED
    BY <2>2, <2>4, <2>5
<1>5. \A k \in DOMAIN nest : k < Len(nest) => nest[k].node < Statement(tree, Top)
  BY <1>1 DEF GrownInv, Grown, Nested, Top
<1> QED
  BY <1>3, <1>4, <1>5

(* What is new in the tree is at or above node u.                          *)
NewAbove(u) ==
  /\ Len(tree) <= Len(tree') /\ TreeGrows
  /\ \A n \in DOMAIN tree' : n \notin DOMAIN tree => tree'[n].up < n /\ u <= tree'[n].up

(* Emissions that are not the innermost stay as they are.                  *)
LEMMA OuterKept ==
  ASSUME TypeInv, TypeInv', GrownInv, NewAbove(Statement(tree, Top))
  PROVE  /\ Upwards(tree')
         /\ \A k \in DOMAIN nest : Statement(tree', nest[k]) = Statement(tree, nest[k])
         /\ \A k \in DOMAIN nest : k < Len(nest) => Built(tree', nest[k])
         /\ \A k \in DOMAIN nest : k > 1 => Placed(tree', nest[k], nest[k - 1])
<1>1. /\ DOMAIN tree = 1 .. Len(tree) /\ Len(tree) \in Nat /\ Len(nest) \in Nat
      /\ DOMAIN tree' = 1 .. Len(tree') /\ Len(tree') \in Nat /\ DOMAIN nest = 1 .. Len(nest)
      /\ \A n \in DOMAIN tree : n \in DOMAIN tree' /\ tree'[n] = tree[n]
      /\ \A n \in DOMAIN tree' : tree'[n] \in Nodes
  <2>1. DOMAIN nest = 1 .. Len(nest) /\ Len(nest) \in Nat
    BY TopFacts
  <2>2. /\ DOMAIN tree = 1 .. Len(tree) /\ Len(tree) \in Nat
        /\ DOMAIN tree' = 1 .. Len(tree') /\ Len(tree') \in Nat
        /\ \A n \in DOMAIN tree' : tree'[n] \in Nodes
    BY DEF TypeInv
  <2>3. \A n \in DOMAIN tree : n \in DOMAIN tree' /\ tree'[n] = tree[n]
    BY DEF NewAbove, TreeGrows
  <2> QED
    BY <2>1, <2>2, <2>3, Zenon
<1>2. Upwards(tree')
  BY <1>1, NodesOrdered DEF NewAbove, Upwards
<1>3. \A n \in DOMAIN tree' : tree'[n].up \in Nat
  BY <1>1 DEF Nodes
<1>4. ASSUME NEW k \in DOMAIN nest
      PROVE  /\ nest[k].kind # "function" => nest[k].node \in DOMAIN tree
             /\ Statement(tree', nest[k]) = Statement(tree, nest[k])
             /\ nest[k].kind # "function" => Statement(tree, nest[k]) \in DOMAIN tree
  <2>1. Built(tree, nest[k])
    BY DEF GrownInv, Grown, Nested
  <2>2. nest[k].kind # "function" => nest[k].node \in DOMAIN tree
    BY <2>1 DEF Built
  <2>3. nest[k].kind = "cond_block" => tree[nest[k].node].up \in DOMAIN tree
    BY <2>1 DEF Built
  <2> QED
    BY <1>1, <2>1, <2>2, <2>3 DEF Statement
<1>5. ASSUME NEW k \in DOMAIN nest, k < Len(nest) PROVE Built(tree', nest[k])
  <2>1. nest[k].node < Statement(tree, Top) /\ nest[k].node \in Nat
        /\ Statement(tree, Top) \in Nat /\ Top.node \in Nat
    <3>1. Len(nest) \in DOMAIN nest
      BY <1>1, <1>5
    <3> QED
      BY <3>1, <1>5, NodesOrdered DEF Top
  <2>2. \A n \in DOMAIN tree' : n \notin DOMAIN tree => tree'[n].up > nest[k].node
    BY <2>1, <1>3 DEF NewAbove
  <2>3. Built(tree, nest[k]) /\ (nest[k].kind # "function" => nest[k].node \in DOMAIN tree)
    BY <1>4 DEF GrownInv, Grown, Nested
  <2>4. \A n \in DOMAIN tree' : tree'[n].up = nest[k].node => n \in DOMAIN tree
    BY <2>1, <2>2, <1>3
  <2>5. nest[k].kind = "cond_block" =>
          /\ nest[k].node \in DOMAIN tree /\ tree[nest[k].node].up \in DOMAIN tree
          /\ tree[nest[k].node].up < nest[k].node
    BY <2>3, NodesOrdered DEF Built
  <2>6. nest[k].kind = "cond_block" =>
          \A n \in DOMAIN tree' : tree'[n].up = tree[nest[k].node].up => n \in DOMAIN tree
    BY <2>1, <2>2, <2>5, <1>1, <1>3
  <2> QED
    BY <1>1, <2>3, <2>4, <2>5, <2>6 DEF Built
<1>6. ASSUME NEW k \in DOMAIN nest, k > 1 PROVE Placed(tree', nest[k], nest[k - 1])
  <2>1. PICK j \in DOMAIN nest : j = k - 1 /\ j < Len(nest)
    BY <1>1, <1>6
  <2>2. Placed(tree, nest[k], nest[j])
    BY <1>6, <2>1 DEF GrownInv, Grown, Nested
  <2>3. nest[k].kind # "function"
    BY <1>1, <1>6, <2>1, NodesOrdered DEF GrownInv, Grown, Nested, Built, Statement
  <2>4. \A n \in DOMAIN tree' : n \notin DOMAIN tree => tree'[n].up # nest[j].node
    <3>1. nest[j].node < Statement(tree, Top) /\ nest[j].node \in Nat /\ Statement(tree, Top) \in Nat
      <4>1. Len(nest) \in DOMAIN nest
        BY <1>1, <1>6
      <4> QED
        BY <4>1, <2>1, NodesOrdered DEF Top
    <3> QED
      BY <3>1, <1>3 DEF NewAbove
  <2>5. Placed(tree', nest[k], nest[j])
    <3>1. Statement(tree, nest[k]) \in DOMAIN tree /\ Statement(tree', nest[k]) = Statement(tree, nest[k])
      BY <1>4, <2>3
    <3> QED
      BY <1>1, <2>2, <2>4, <3>1 DEF Placed
  <2> QED
    BY <2>1, <2>5
<1> QED
  BY <1>2, <1>4, <1>5, <1>6

(* One node more, a kid of the innermost emission.                         *)
LEMMA OneNode ==
  ASSUME TypeInv, GrownInv, NEW kind, Source(kind)
  PROVE  /\ NewAbove(Top.node) /\ NewAbove(Statement(tree, Top))
         /\ DOMAIN tree' = 1 .. New /\ Len(tree') = New /\ New \in DOMAIN tree'
         /\ New \notin DOMAIN tree /\ DOMAIN tree = 1 .. Len(tree)
         /\ tree'[New].kind = kind /\ tree'[New].up = Top.node /\ tree'[New].part = Top.at
         /\ \A n \in DOMAIN tree' : n \notin DOMAIN tree => n = New
<1> DEFINE e == Node(kind, Top.node, Top.at)
<1>1. tree' = Append(tree, e) /\ tree \in Seq(Nodes) /\ Len(tree) \in Nat
  BY TopFacts DEF Source, TypeInv
<1>2. /\ DOMAIN tree = 1 .. Len(tree) /\ DOMAIN tree' = 1 .. New /\ Len(tree') = New
      /\ tree'[New] = e /\ \A n \in 1 .. Len(tree) : tree'[n] = tree[n]
  BY <1>1 DEF New
<1>3. e.kind = kind /\ e.up = Top.node /\ e.part = Top.at
  BY DEF Node
<1>4. Len(nest) \in DOMAIN nest
  BY TopFacts
<1>5. Top.node \in 0 .. Len(tree) /\ Statement(tree, Top) \in 0 .. Top.node
  BY <1>4, NodesOrdered DEF Top
<1> HIDE DEF e
<1>6. New = Len(tree) + 1
  BY DEF New
<1>7. \A n \in DOMAIN tree' : n \notin DOMAIN tree => n = New
  BY <1>1, <1>2, <1>6
<1>8. TreeGrows /\ Len(tree) <= Len(tree')
  BY <1>1, <1>2, <1>6 DEF TreeGrows
<1>9. NewAbove(Top.node) /\ NewAbove(Statement(tree, Top))
  BY <1>1, <1>2, <1>3, <1>5, <1>6, <1>7, <1>8 DEF NewAbove
<1> QED
  BY <1>1, <1>2, <1>3, <1>6, <1>7, <1>9

(* The innermost emission stays as it is while a kid of it is emitted.     *)
LEMMA TopKept ==
  ASSUME TypeInv, TypeInv', GrownInv, NewAbove(Top.node),
         \A n \in DOMAIN tree' : n \notin DOMAIN tree /\ tree'[n].up = Top.node => tree'[n].part = Top.at
  PROVE  Built(tree', Top)
<1>1. /\ DOMAIN tree = 1 .. Len(tree) /\ Len(tree) \in Nat
      /\ \A n \in DOMAIN tree : n \in DOMAIN tree' /\ tree'[n] = tree[n]
      /\ \A n \in DOMAIN tree' : tree'[n] \in Nodes
      /\ Len(nest) \in DOMAIN nest
  BY TopFacts DEF TypeInv, NewAbove, TreeGrows
<1>2. Built(tree, Top) /\ Top.node \in Nat /\ Top.at \in Parts
  BY <1>1, TopFacts DEF GrownInv, Grown, Nested, Top
<1>3. \A n \in DOMAIN tree' : tree'[n].up \in Nat
  BY <1>1 DEF Nodes
<1>4. Top.kind = "cond_block" =>
        /\ Top.node \in DOMAIN tree /\ tree[Top.node].up \in DOMAIN tree
        /\ tree[Top.node].up < Top.node
  BY <1>2, NodesOrdered DEF Built
<1>5. Top.kind = "cond_block" =>
        \A n \in DOMAIN tree' : tree'[n].up = tree[Top.node].up => n \in DOMAIN tree
  BY <1>1, <1>2, <1>3, <1>4 DEF NewAbove
<1>6. Rank(Top.at) \in Nat
  BY <1>2, RankFacts
<1>7. \A n \in DOMAIN tree' : tree'[n].up = Top.node => Rank(tree'[n].part) <= Rank(Top.at)
  BY <1>1, <1>2, <1>6 DEF Built
<1> QED
  BY <1>1, <1>2, <1>4, <1>5, <1>7 DEF Built

(* The conditions on the innermost emission are enough where those around  *)
(* it are kept; then the ways the nest of emissions can move.              *)
LEMMA GrownOfParts ==
  ASSUME TypeInv', Upwards(tree'),
         \A j, k \in DOMAIN nest' : j < k => nest'[j].node < Statement(tree', nest'[k]),
         \A k \in DOMAIN nest' : Built(tree', nest'[k]),
         \A k \in DOMAIN nest' : k > 1 => Placed(tree', nest'[k], nest'[k - 1]),
         NEW c, c = nest'[Len(nest')], Ready(tree', c, mode')
  PROVE  GrownInv'
BY DEF GrownInv, Grown, Nested

LEMMA StayGrown ==
  ASSUME TypeInv, TypeInv', GrownInv, NEW kind, Source(kind), UNCHANGED nest,
         mode' = IF Top.at = "body" THEN "stmt" ELSE "value", Top.at = "body" => mode = "stmt"
  PROVE  GrownInv'
<1>1. Len(nest) \in DOMAIN nest /\ DOMAIN nest = 1 .. Len(nest) /\ Len(nest) \in Nat
  BY TopFacts
<1>2. Built(tree', Top)
  BY OneNode, TopKept
<1>3. \A k \in DOMAIN nest : Built(tree', nest[k])
  <2> SUFFICES ASSUME NEW k \in DOMAIN nest PROVE Built(tree', nest[k])
    OBVIOUS
  <2>1. CASE k = Len(nest)
    BY <1>2, <2>1 DEF Top
  <2>2. CASE k # Len(nest)
    BY <1>1, <2>2, OuterKept, OneNode
  <2> QED
    BY <2>1, <2>2
<1>4. /\ Upwards(tree')
      /\ \A k \in DOMAIN nest : Statement(tree', nest[k]) = Statement(tree, nest[k])
      /\ \A k \in DOMAIN nest : k > 1 => Placed(tree', nest[k], nest[k - 1])
  BY OneNode, OuterKept
<1>5. \A j, k \in DOMAIN nest : j < k => nest[j].node < Statement(tree, nest[k])
  BY DEF GrownInv, Grown, Nested
<1>6. Ready(tree', Top, mode')
  BY DEF Ready, Wants
<1> QED
  BY <1>1, <1>3, <1>4, <1>5, <1>6, GrownOfParts DEF Top

(* An emission is begun, for a statement that is the node Len(tree) + 1.   *)
LEMMA EnterGrown ==
  ASSUME TypeInv, TypeInv', GrownInv, NEW c, Enter(c),
         NewAbove(Top.node),
         \A n \in DOMAIN tree' : n \notin DOMAIN tree /\ tree'[n].up = Top.node =>
            n = New /\ tree'[n].part = Top.at,
         Statement(tree', c) = New, Built(tree', c), Placed(tree', c, Top), Ready(tree', c, mode')
  PROVE  GrownInv'
<1>1. Len(nest) \in DOMAIN nest /\ DOMAIN nest = 1 .. Len(nest) /\ Len(nest) \in Nat
  BY TopFacts
<1>2. /\ DOMAIN nest' = 1 .. Len(nest) + 1 /\ Len(nest') = Len(nest) + 1
      /\ nest'[Len(nest) + 1] = c /\ \A k \in DOMAIN nest : nest'[k] = nest[k]
  BY <1>1 DEF Enter, TypeInv
<1>3. Built(tree', Top)
  BY TopKept
<1>a. NewAbove(Statement(tree, Top))
  <2>1. Statement(tree, Top) \in 0 .. Top.node /\ Top.node \in Nat
    BY <1>1, NodesOrdered DEF Top
  <2>2. \A n \in DOMAIN tree' : tree'[n].up \in Nat
    <3>1. \A n \in DOMAIN tree' : tree'[n] \in Nodes
      BY DEF TypeInv
    <3> QED
      BY <3>1 DEF Nodes
  <2> QED
    BY <2>1, <2>2 DEF NewAbove
<1>4. /\ Upwards(tree')
      /\ \A k \in DOMAIN nest : Statement(tree', nest[k]) = Statement(tree, nest[k])
      /\ \A k \in DOMAIN nest : k > 1 => Placed(tree', nest[k], nest[k - 1])
      /\ \A k \in DOMAIN nest : k < Len(nest) => Built(tree', nest[k])
  BY <1>a, OuterKept
<1>5. \A k \in DOMAIN nest' : Built(tree', nest'[k])
  <2> SUFFICES ASSUME NEW k \in DOMAIN nest' PROVE Built(tree', nest'[k])
    OBVIOUS
  <2>1. CASE k = Len(nest)
    BY <1>1, <1>2, <1>3, <2>1 DEF Top
  <2>2. CASE k = Len(nest) + 1
    BY <1>2, <2>2
  <2>3. CASE k < Len(nest)
    BY <1>1, <1>2, <1>4, <2>3
  <2> QED
    BY <1>1, <1>2, <2>1, <2>2, <2>3
<1>6. \A k \in DOMAIN nest' : k > 1 => Placed(tree', nest'[k], nest'[k - 1])
  <2> SUFFICES ASSUME NEW k \in DOMAIN nest', k > 1 PROVE Placed(tree', nest'[k], nest'[k - 1])
    OBVIOUS
  <2>1. PICK j \in DOMAIN nest : j = k - 1 /\ nest'[j] = nest[j]
    BY <1>1, <1>2
  <2>2. CASE k = Len(nest) + 1
    <3>1. j = Len(nest) /\ nest'[k] = c
      BY <1>1, <1>2, <2>1, <2>2
    <3> QED
      BY <2>1, <3>1 DEF Top
  <2>3. CASE k # Len(nest) + 1
    <3>1. k \in DOMAIN nest /\ nest'[k] = nest[k]
      BY <1>1, <1>2, <2>3
    <3> QED
      BY <1>4, <2>1, <3>1
  <2> QED
    BY <2>2, <2>3
<1>7. \A j, k \in DOMAIN nest' : j < k => nest'[j].node < Statement(tree', nest'[k])
  <2> SUFFICES ASSUME NEW j \in DOMAIN nest', NEW k \in DOMAIN nest', j < k
               PROVE  nest'[j].node < Statement(tree', nest'[k])
    OBVIOUS
  <2>1. j \in DOMAIN nest /\ nest'[j] = nest[j]
    BY <1>1, <1>2
  <2>2. CASE k = Len(nest) + 1
    <3>1. nest[j].node \in 0 .. Len(tree) /\ Len(tree) \in Nat
      BY <2>1, NodesOrdered, TopFacts
    <3> QED
      BY <1>2, <2>1, <2>2, <3>1 DEF New
  <2>3. CASE k # Len(nest) + 1
    <3>1. k \in DOMAIN nest /\ nest'[k] = nest[k]
      BY <1>1, <1>2, <2>3
    <3> QED
      BY <1>4, <2>1, <3>1 DEF GrownInv, Grown, Nested
  <2> QED
    BY <2>2, <2>3
<1> QED
  BY <1>2, <1>4, <1>5, <1>6, <1>7, GrownOfParts

(* The innermost emission goes on to a later part of its node.             *)
LEMMA GoOnGrown ==
  ASSUME TypeInv, TypeInv', GrownInv, NEW c, GoOn(c), UNCHANGED tree,
         c.node = Top.node, c.kind = Top.kind, Rank(Top.at) < Rank(c.at),
         c.kind # "function", c.kind \notin {"line", "return"},
         c.kind \in {"and", "or"} => c.at \in {"left", "right"},
         c.kind = "while_block" => c.at \in {"cond", "body"},
         c.kind = "for_block" => c.at \in {"init", "cond", "body", "step"},
         c.kind = "cond_block" => c.at = "body",
         mode' = "expr" => c.at \in {"left", "right", "expr", "cond"},
         mode' = "stmt" => c.at \in {"body", "init", "step"},
         mode' = "value" => c.at # "body"
  PROVE  GrownInv'
<1>1. Len(nest) \in DOMAIN nest /\ DOMAIN nest = 1 .. Len(nest) /\ Len(nest) \in Nat
  BY TopFacts
<1>2. /\ DOMAIN nest' = DOMAIN nest /\ Len(nest') = Len(nest) /\ nest'[Len(nest)] = c
      /\ \A k \in DOMAIN nest : k # Len(nest) => nest'[k] = nest[k]
  BY <1>1 DEF GoOn, TypeInv
<1>3. Built(tree, Top) /\ c.at \in Parts /\ Top.at \in Parts
  <2>1. c \in Frames
    BY <1>1, <1>2 DEF TypeInv
  <2> QED
    BY <1>1, <2>1, TopFacts DEF GrownInv, Grown, Nested, Top, Frames, Parts
<1>4. Rank(Top.at) \in Nat /\ Rank(c.at) \in Nat
      /\ \A n \in DOMAIN tree : Rank(tree[n].part) \in Nat
  BY <1>3, NodesOrdered, RankFacts
<1>5. \A n \in DOMAIN tree : tree[n].up = c.node => Rank(tree[n].part) < Rank(c.at)
  BY <1>3, <1>4 DEF Built
<1>6. Built(tree, c)
  <2>1. \A n \in DOMAIN tree : tree[n].up = c.node => Rank(tree[n].part) <= Rank(c.at)
    BY <1>4, <1>5
  <2> QED
    BY <1>3, <2>1 DEF Built
<1>7. Ready(tree, c, mode')
  BY <1>5 DEF Ready
<1>8. Statement(tree, c) = Statement(tree, Top)
  BY DEF Statement
<1>9. /\ \A j, k \in DOMAIN nest : j < k => nest[j].node < Statement(tree, nest[k])
      /\ \A k \in DOMAIN nest : Built(tree, nest[k]) /\ (k > 1 => Placed(tree, nest[k], nest[k - 1]))
      /\ Upwards(tree)
  BY DEF GrownInv, Grown, Nested
<1>10. \A k \in DOMAIN nest' : Built(tree, nest'[k])
  BY <1>2, <1>6, <1>9
<1>11. \A j, k \in DOMAIN nest' : j < k => nest'[j].node < Statement(tree, nest'[k])
  <2> SUFFICES ASSUME NEW j \in DOMAIN nest, NEW k \in DOMAIN nest, j < k
               PROVE  nest'[j].node < Statement(tree, nest'[k])
    BY <1>2
  <2>1. nest'[j] = nest[j]
    BY <1>1, <1>2
  <2> QED
    BY <1>2, <1>8, <1>9, <2>1 DEF Top
<1>12. \A k \in DOMAIN nest' : k > 1 => Placed(tree, nest'[k], nest'[k - 1])
  <2> SUFFICES ASSUME NEW k \in DOMAIN nest, k > 1 PROVE Placed(tree, nest'[k], nest'[k - 1])
    BY <1>2
  <2>1. nest'[k - 1] = nest[k - 1] /\ Placed(tree, nest[k], nest[k - 1])
    BY <1>1, <1>2, <1>9
  <2>2. CASE k = Len(nest)
    <3>1. Placed(tree, Top, nest[k - 1])
      BY <2>1, <2>2 DEF Top
    <3>2. Placed(tree, c, nest[k - 1])
      BY <1>8, <3>1 DEF Placed
    <3> QED
      BY <1>2, <2>1, <2>2, <3>2
  <2>3. CASE k # Len(nest)
    BY <1>2, <2>1, <2>3
  <2> QED
    BY <2>2, <2>3
<1> QED
  BY <1>2, <1>7, <1>9, <1>10, <1>11, <1>12, GrownOfParts

(* A condition goes on to a new branch.                                    *)
LEMMA BranchGrown ==
  ASSUME TypeInv, TypeInv', GrownInv, NEW c, GoOn(c), Top.kind = "cond_block",
         NEW kind \in {"if_branch", "else_branch"},
         tree' = Append(tree, Node(kind, CondNode, "branch")),
         c.kind = "cond_block", c.node = New, c.at \in {"cond", "body"},
         c.at = "cond" => kind = "if_branch",
         mode' = IF c.at = "cond" THEN "expr" ELSE "stmt"
  PROVE  GrownInv'
<1>1. Len(nest) \in DOMAIN nest /\ DOMAIN nest = 1 .. Len(nest) /\ Len(nest) \in Nat
      /\ DOMAIN tree = 1 .. Len(tree) /\ Len(tree) \in Nat /\ New = Len(tree) + 1
  BY TopFacts DEF New
<1>2. /\ DOMAIN nest' = DOMAIN nest /\ Len(nest') = Len(nest) /\ nest'[Len(nest)] = c
      /\ \A k \in DOMAIN nest : k # Len(nest) => nest'[k] = nest[k]
  BY <1>1 DEF GoOn, TypeInv
<1>3. Built(tree, Top) /\ (Len(nest) > 1 => Placed(tree, Top, nest[Len(nest) - 1]))
  BY <1>1 DEF GrownInv, Grown, Nested, Top
<1>4. /\ CondNode \in DOMAIN tree /\ tree[CondNode].kind = "cond_block"
      /\ Top.node \in DOMAIN tree /\ CondNode < Top.node
      /\ Statement(tree, Top) = CondNode
  <2>1. Top.node \in DOMAIN tree /\ tree[Top.node].up \in DOMAIN tree
        /\ tree[tree[Top.node].up].kind = "cond_block"
    BY <1>3 DEF Built
  <2> QED
    BY <2>1, NodesOrdered DEF CondNode, Statement
<1>5. /\ DOMAIN tree' = 1 .. New /\ Len(tree') = New
      /\ tree'[New] = Node(kind, CondNode, "branch")
      /\ \A n \in DOMAIN tree : n \in DOMAIN tree' /\ tree'[n] = tree[n]
  BY <1>1 DEF TypeInv
<1>6. tree'[New].kind = kind /\ tree'[New].up = CondNode /\ tree'[New].part = "branch"
  BY <1>5 DEF Node
<1>7. NewAbove(Statement(tree, Top))
  <2>1. Len(tree) <= Len(tree') /\ TreeGrows
    BY <1>1, <1>5 DEF TreeGrows
  <2>2. \A n \in DOMAIN tree' : n \notin DOMAIN tree => n = New
    BY <1>1, <1>5
  <2> QED
    BY <1>1, <1>4, <1>6, <2>1, <2>2 DEF NewAbove
<1>8. /\ Upwards(tree')
      /\ \A k \in DOMAIN nest : Statement(tree', nest[k]) = Statement(tree, nest[k])
      /\ \A k \in DOMAIN nest : k > 1 => Placed(tree', nest[k], nest[k - 1])
      /\ \A k \in DOMAIN nest : k < Len(nest) => Built(tree', nest[k])
  BY <1>7, OuterKept
<1>9. Statement(tree', c) = CondNode /\ Statement(tree', Top) = CondNode
  <2>1. Statement(tree', Top) = Statement(tree, Top)
    BY <1>1, <1>8 DEF Top
  <2> QED
    BY <1>4, <1>6, <2>1 DEF Statement
<1>10. \A n \in DOMAIN tree' : tree'[n].up # New
  BY <1>1, <1>5, <1>8 DEF Upwards
<1>11. Built(tree', c)
  BY <1>1, <1>4, <1>5, <1>6, <1>10 DEF Built
<1>12. Ready(tree', c, mode')
  BY <1>10 DEF Ready, Wants
<1>13. \A k \in DOMAIN nest' : Built(tree', nest'[k])
  <2> SUFFICES ASSUME NEW k \in DOMAIN nest PROVE Built(tree', nest'[k])
    BY <1>2
  <2>1. CASE k = Len(nest)
    BY <1>2, <1>11, <2>1
  <2>2. CASE k # Len(nest)
    BY <1>1, <1>2, <1>8, <2>2
  <2> QED
    BY <2>1, <2>2
<1>14. \A j, k \in DOMAIN nest' : j < k => nest'[j].node < Statement(tree', nest'[k])
  <2> SUFFICES ASSUME NEW j \in DOMAIN nest, NEW k \in DOMAIN nest, j < k
               PROVE  nest'[j].node < Statement(tree', nest'[k])
    BY <1>2
  <2>1. nest'[j] = nest[j] /\ nest[j].node < Statement(tree, nest[k])
    BY <1>1, <1>2 DEF GrownInv, Grown, Nested
  <2>2. Statement(tree', nest'[k]) = Statement(tree, nest[k])
    BY <1>1, <1>2, <1>4, <1>8, <1>9 DEF Top
  <2> QED
    BY <2>1, <2>2
<1>15. \A k \in DOMAIN nest' : k > 1 => Placed(tree', nest'[k], nest'[k - 1])
  <2> SUFFICES ASSUME NEW k \in DOMAIN nest, k > 1 PROVE Placed(tree', nest'[k], nest'[k - 1])
    BY <1>2
  <2>1. nest'[k - 1] = nest[k - 1] /\ Placed(tree', nest[k], nest[k - 1])
    BY <1>1, <1>2, <1>8
  <2>2. CASE k = Len(nest)
    <3>1. Placed(tree', Top, nest[k - 1])
      BY <2>1, <2>2 DEF Top
    <3>2. Placed(tree', c, nest[k - 1])
      BY <1>9, <3>1 DEF Placed
    <3> QED
      BY <1>2, <2>1, <2>2, <3>2
  <2>3. CASE k # Len(nest)
    BY <1>2, <2>1, <2>3
  <2> QED
    BY <2>2, <2>3
<1> QED
  BY <1>2, <1>8, <1>12, <1>13, <1>14, <1>15, GrownOfParts

(* The emission below the innermost one: the node that ends is the latest  *)
(* of its kids.                                                            *)
LEMMA Beneath ==
  ASSUME TypeInv, Shape, GrownInv, Top.kind # "function"
  PROVE  /\ Len(nest) - 1 \in DOMAIN nest /\ Len(nest) - 1 >= 1
         /\ Placed(tree, Top, nest[Len(nest) - 1])
         /\ Statement(tree, Top) \in DOMAIN tree
<1>1. Len(nest) >= 2 /\ Len(nest) \in DOMAIN nest /\ DOMAIN nest = 1 .. Len(nest) /\ Len(nest) \in Nat
  BY InnerEmission, TopFacts
<1>2. Placed(tree, Top, nest[Len(nest) - 1]) /\ Built(tree, Top)
  BY <1>1 DEF GrownInv, Grown, Nested, Top
<1> QED
  BY <1>1, <1>2 DEF Built, Statement

(* The innermost emission ends.                                            *)
LEMMA DoneGrown ==
  ASSUME TypeInv, TypeInv', Shape, GrownInv, Done, UNCHANGED tree, Top.kind # "function",
         NEW g, g = nest[Len(nest) - 1],
         mode' = IF g.at = "body" THEN "stmt" ELSE "value"
  PROVE  GrownInv'
<1>1. Len(nest) >= 2 /\ Len(nest) \in DOMAIN nest /\ DOMAIN nest = 1 .. Len(nest) /\ Len(nest) \in Nat
  BY InnerEmission, TopFacts
<1>2. /\ DOMAIN nest' = 1 .. Len(nest) - 1 /\ Len(nest') = Len(nest) - 1
      /\ \A k \in DOMAIN nest' : nest'[k] = nest[k]
  <2>1. nest \in Seq(Frames) /\ 1 \in 0 .. Len(nest) /\ nest' = SubSeq(nest, 1, Len(nest) - 1)
    BY <1>1 DEF Done, TypeInv
  <2> QED
    BY <2>1, DropFacts
<1>3. nest'[Len(nest')] = g
  BY <1>1, <1>2
<1>4. \A k \in DOMAIN nest' : k \in DOMAIN nest
  BY <1>1, <1>2
<1>5. Ready(tree', g, mode')
  BY DEF Ready, Wants
<1>6. /\ \A j, k \in DOMAIN nest : j < k => nest[j].node < Statement(tree, nest[k])
      /\ \A k \in DOMAIN nest : Built(tree, nest[k]) /\ (k > 1 => Placed(tree, nest[k], nest[k - 1]))
      /\ Upwards(tree)
  BY DEF GrownInv, Grown, Nested
<1>7. \A k \in DOMAIN nest' : k > 1 => Placed(tree', nest'[k], nest'[k - 1])
  <2> SUFFICES ASSUME NEW k \in DOMAIN nest', k > 1 PROVE Placed(tree', nest'[k], nest'[k - 1])
    OBVIOUS
  <2>1. k - 1 \in DOMAIN nest'
    BY <1>1, <1>2
  <2> QED
    BY <1>2, <1>4, <1>6, <2>1
<1> QED
  BY <1>2, <1>3, <1>4, <1>5, <1>6, <1>7, GrownOfParts

(* The ways to begin an emission for a node of its own kind.               *)
LEMMA EnterOne ==
  ASSUME TypeInv, TypeInv', GrownInv, NEW c, Enter(c), Source(c.kind), c.node = New,
         c.kind \in {"and", "or", "line", "return"} \cup LoopKinds,
         c.kind \in {"and", "or"} => c.at = "left" /\ Top.at \in {"left", "right", "expr", "cond"},
         c.kind = "line" => c.at = "expr" /\ Top.at \in {"body", "init", "step"},
         c.kind = "return" => c.at = "expr" /\ Top.at = "body",
         c.kind = "while_block" => c.at = "cond" /\ Top.at = "body",
         c.kind = "for_block" => c.at = "init" /\ Top.at = "body",
         mode' = "expr" => c.kind # "for_block",
         mode' = "stmt" => c.kind = "for_block"
  PROVE  GrownInv'
<1>1. /\ NewAbove(Top.node) /\ NewAbove(Statement(tree, Top))
      /\ DOMAIN tree' = 1 .. New /\ Len(tree') = New /\ New \in DOMAIN tree'
      /\ New \notin DOMAIN tree /\ DOMAIN tree = 1 .. Len(tree)
      /\ tree'[New].kind = c.kind /\ tree'[New].up = Top.node /\ tree'[New].part = Top.at
      /\ \A n \in DOMAIN tree' : n \notin DOMAIN tree => n = New
  BY OneNode
<1>2. Len(tree) \in Nat /\ New = Len(tree) + 1 /\ New \in Nat
  BY TopFacts DEF New
<1>3. \A n \in DOMAIN tree' : tree'[n].up # New
  <2>1. Upwards(tree')
    BY <1>1, OuterKept
  <2>2. \A n \in DOMAIN tree' : tree'[n] \in Nodes
    BY DEF TypeInv
  <2> QED
    BY <1>1, <1>2, <2>1, <2>2 DEF Upwards, Nodes
<1>4. Statement(tree', c) = New /\ c.kind # "cond_block" /\ c.kind # "function"
  BY DEF Statement, LoopKinds
<1>5. Built(tree', c)
  BY <1>1, <1>3, <1>4 DEF Built, LoopKinds
<1>6. Placed(tree', c, Top)
  <2>1. \A n \in DOMAIN tree' : n <= New
    BY <1>1, <1>2
  <2> QED
    BY <1>1, <1>4, <2>1 DEF Placed, LoopKinds
<1>7. Ready(tree', c, mode')
  BY <1>3 DEF Ready, LoopKinds
<1> QED
  BY <1>1, <1>4, <1>5, <1>6, <1>7, EnterGrown

-----------------------------------------------------------------------------
(* The tree over each step of the compiler. *)

LEMMA ReadyTop ==
  ASSUME GrownInv
  PROVE  /\ mode = "expr" => Top.at \in {"left", "right", "expr", "cond"}
         /\ mode = "stmt" => Top.at \in {"body", "init", "step"}
         /\ mode = "value" => Top.at # "body"
BY DEF GrownInv, Grown, Ready, Top

LEMMA FrameIs ==
  ASSUME NEW k, NEW n, NEW at, NEW l1, NEW l2
  PROVE  /\ Frame(k, n, at, l1, l2).kind = k /\ Frame(k, n, at, l1, l2).node = n
         /\ Frame(k, n, at, l1, l2).at = at
         /\ Frame(k, n, at, l1, l2).l1 = l1 /\ Frame(k, n, at, l1, l2).l2 = l2
BY DEF Frame

LEMMA LeafGrown ==
  ASSUME TypeInv, TypeInv', GrownInv
  PROVE  /\ Operand => GrownInv'
         /\ Line => GrownInv'
         /\ Exit => GrownInv'
         /\ \A kind \in {"break", "continue"} : BreakOrContinue(kind) => GrownInv'
<1>1. ASSUME Operand PROVE GrownInv'
  BY <1>1, ReadyTop, StayGrown DEF Operand, emission
<1>2. ASSUME Line PROVE GrownInv'
  BY <1>2, StayGrown DEF Line, emission
<1>3. ASSUME Exit PROVE GrownInv'
  BY <1>3, StayGrown DEF Exit, emission
<1>4. ASSUME NEW kind \in {"break", "continue"}, BreakOrContinue(kind) PROVE GrownInv'
  BY <1>4, StayGrown DEF BreakOrContinue, emission
<1> QED
  BY <1>1, <1>2, <1>3, <1>4

LEMMA LogicGrown ==
  ASSUME TypeInv, TypeInv', GrownInv, NEW op \in {"and", "or"}, Logic(op)
  PROVE  GrownInv'
<1> DEFINE c == Frame(op, New, "left", label_counter, -1)
<1>1. Enter(c) /\ Source(op) /\ mode = "expr" /\ mode' = "expr"
  BY DEF Logic
<1>2. c.kind = op /\ c.node = New /\ c.at = "left"
  BY FrameIs
<1> HIDE DEF c
<1> QED
  BY <1>1, <1>2, ReadyTop, EnterOne DEF LoopKinds

LEMMA LineOfLogicGrown ==
  ASSUME TypeInv, TypeInv', GrownInv, LineOfLogic
  PROVE  GrownInv'
<1> DEFINE c == Frame("line", New, "expr", -1, -1)
<1>1. Enter(c) /\ Source("line") /\ mode = "stmt" /\ mode' = "expr"
  BY DEF LineOfLogic
<1>2. c.kind = "line" /\ c.node = New /\ c.at = "expr"
  BY FrameIs
<1> HIDE DEF c
<1> QED
  BY <1>1, <1>2, ReadyTop, EnterOne DEF LoopKinds

LEMMA ReturnGrown ==
  ASSUME TypeInv, TypeInv', GrownInv, Return
  PROVE  GrownInv'
<1> DEFINE c == Frame("return", New, "expr", -1, -1)
<1>1. CASE UNCHANGED <<nest, mode>>
  BY <1>1, StayGrown DEF Return
<1>2. CASE Enter(c) /\ mode' = "expr"
  <2>1. c.kind = "return" /\ c.node = New /\ c.at = "expr"
    BY FrameIs
  <2>2. Enter(c) /\ Source("return") /\ Top.at = "body" /\ mode' = "expr"
    BY <1>2 DEF Return
  <2> HIDE DEF c
  <2> QED
    BY <2>1, <2>2, EnterOne DEF LoopKinds
<1> QED
  BY <1>1, <1>2 DEF Return

LEMMA LoopGrown ==
  ASSUME TypeInv, TypeInv', GrownInv,
         While \/ \E has_init \in BOOLEAN : For(has_init)
  PROVE  GrownInv'
<1> DEFINE w == Frame("while_block", New, "cond", label_counter, label_counter + 1)
           f == Frame("for_block", New, "init", label_counter, label_counter + 1)
<1>1. w.kind = "while_block" /\ w.node = New /\ w.at = "cond"
      /\ f.kind = "for_block" /\ f.node = New /\ f.at = "init"
  BY FrameIs
<1>2. CASE While
  <2>1. Enter(w) /\ Source("while_block") /\ Top.at = "body" /\ mode' = "expr"
    BY <1>2 DEF While, EnterLoop
  <2> HIDE DEF w
  <2> QED
    BY <1>1, <2>1, EnterOne DEF LoopKinds
<1>3. ASSUME NEW has_init \in BOOLEAN, For(has_init) PROVE GrownInv'
  <2>1. Enter(f) /\ Source("for_block") /\ Top.at = "body" /\ mode' \in {"stmt", "value"}
    BY <1>3 DEF For, EnterLoop
  <2> HIDE DEF f
  <2> QED
    BY <1>1, <2>1, EnterOne DEF LoopKinds
<1> QED
  BY <1>2, <1>3

(* The node of a condition and its first branch.                           *)
LEMMA TwoNodes ==
  ASSUME TypeInv, GrownInv,
         tree' = tree \o <<Node("cond_block", Top.node, Top.at), Node("if_branch", New, "branch")>>
  PROVE  /\ NewAbove(Top.node)
         /\ DOMAIN tree = 1 .. Len(tree) /\ Len(tree) \in Nat /\ New = Len(tree) + 1
         /\ DOMAIN tree' = 1 .. New + 1 /\ Len(tree') = New + 1
         /\ \A n \in DOMAIN tree : n \in DOMAIN tree' /\ tree'[n] = tree[n]
         /\ tree'[New].kind = "cond_block" /\ tree'[New].up = Top.node /\ tree'[New].part = Top.at
         /\ tree'[New + 1].kind = "if_branch" /\ tree'[New + 1].up = New
         /\ tree'[New + 1].part = "branch"
         /\ \A n \in DOMAIN tree' : n \notin DOMAIN tree => n = New \/ n = New + 1
<1> DEFINE e == Node("cond_block", Top.node, Top.at)
           b == Node("if_branch", New, "branch")
<1>1. /\ DOMAIN tree = 1 .. Len(tree) /\ Len(tree) \in Nat /\ New = Len(tree) + 1
      /\ tree \in Seq(Nodes)
  BY TopFacts DEF New, TypeInv
<1>2. e.kind = "cond_block" /\ e.up = Top.node /\ e.part = Top.at
      /\ b.kind = "if_branch" /\ b.up = New /\ b.part = "branch"
  BY DEF Node
<1>3. Top.node \in 0 .. Len(tree)
  BY TopFacts, NodesOrdered DEF Top
<1>4. tree' = tree \o <<e, b>>
  OBVIOUS
<1> HIDE DEF e, b
<1>5. /\ DOMAIN tree' = 1 .. Len(tree) + 2 /\ Len(tree') = Len(tree) + 2
      /\ \A n \in 1 .. Len(tree) : tree'[n] = tree[n]
      /\ tree'[Len(tree) + 1] = e /\ tree'[Len(tree) + 2] = b
  BY <1>1, <1>4
<1>6. /\ \A n \in DOMAIN tree : n \in DOMAIN tree' /\ tree'[n] = tree[n]
      /\ tree'[New] = e /\ tree'[New + 1] = b
      /\ DOMAIN tree' = 1 .. New + 1 /\ Len(tree') = New + 1
  BY <1>1, <1>5
<1>7. \A n \in DOMAIN tree' : n \notin DOMAIN tree => n = New \/ n = New + 1
  BY <1>1, <1>6
<1>8. NewAbove(Top.node)
  <2>1. TreeGrows /\ Len(tree) <= Len(tree')
    BY <1>1, <1>6 DEF TreeGrows
  <2> QED
    BY <1>1, <1>2, <1>3, <1>6, <1>7, <2>1 DEF NewAbove
<1> QED
  BY <1>1, <1>2, <1>6, <1>7, <1>8

LEMMA CondGrown ==
  ASSUME TypeInv, TypeInv', GrownInv, NEW alone \in BOOLEAN, Cond(alone)
  PROVE  GrownInv'
<1> DEFINE c == Frame("cond_block", New + 1, "cond", label_counter,
                      IF alone THEN label_counter ELSE label_counter + 1)
<1>1. /\ Enter(c) /\ Top.at = "body" /\ mode' = "expr"
      /\ tree' = tree \o <<Node("cond_block", Top.node, Top.at), Node("if_branch", New, "branch")>>
  BY DEF Cond
<1>2. c.kind = "cond_block" /\ c.node = New + 1 /\ c.at = "cond"
  BY FrameIs
<1> HIDE DEF c
<1>3. /\ NewAbove(Top.node)
      /\ DOMAIN tree = 1 .. Len(tree) /\ Len(tree) \in Nat /\ New = Len(tree) + 1
      /\ DOMAIN tree' = 1 .. New + 1
      /\ tree'[New].kind = "cond_block" /\ tree'[New].up = Top.node /\ tree'[New].part = Top.at
      /\ tree'[New + 1].kind = "if_branch" /\ tree'[New + 1].up = New
      /\ tree'[New + 1].part = "branch"
      /\ \A n \in DOMAIN tree' : n \notin DOMAIN tree => n = New \/ n = New + 1
  BY <1>1, TwoNodes
<1>4. Top.node \in 0 .. Len(tree)
  BY TopFacts, NodesOrdered DEF Top
<1>5. Upwards(tree') /\ \A n \in DOMAIN tree' : tree'[n].up \in Nat
  <2>1. \A n \in DOMAIN tree' : tree'[n] \in Nodes
    BY DEF TypeInv
  <2>2. \A n \in DOMAIN tree' : tree'[n].up < n
    BY <1>3, NodesOrdered DEF NewAbove, TreeGrows
  <2> QED
    BY <2>1, <2>2 DEF Upwards, Nodes
<1>6. Statement(tree', c) = New
  BY <1>2, <1>3 DEF Statement
<1>7. \A n \in DOMAIN tree' : tree'[n].up # New + 1 /\ (tree'[n].up = New => n <= New + 1)
  BY <1>3, <1>5 DEF Upwards
<1>8. Built(tree', c)
  BY <1>2, <1>3, <1>7 DEF Built
<1>9. \A n \in DOMAIN tree' : n \notin DOMAIN tree /\ tree'[n].up = Top.node =>
         n = New /\ tree'[n].part = Top.at
  BY <1>3, <1>4
<1>10. Placed(tree', c, Top)
  <2>1. \A n \in DOMAIN tree' : tree'[n].up = Top.node => n <= New
    BY <1>3, <1>4
  <2> QED
    BY <1>1, <1>2, <1>3, <1>6, <2>1 DEF Placed, LoopKinds
<1>11. Ready(tree', c, mode')
  BY <1>1, <1>2, <1>7 DEF Ready
<1> QED
  BY <1>1, <1>3, <1>6, <1>8, <1>9, <1>10, <1>11, EnterGrown

LEMMA TestGrown ==
  ASSUME TypeInv, TypeInv', GrownInv, LogicLeft \/ CondTest \/ LoopTest \/ ForTest \/ ForStep
  PROVE  GrownInv'
<1>1. Len(nest) \in DOMAIN nest /\ Top \in Frames
  BY TopFacts
<1>2. Built(tree, Top)
  BY <1>1 DEF GrownInv, Grown, Nested, Top
<1>3. \A p : /\ [Top EXCEPT !.at = p].at = p /\ [Top EXCEPT !.at = p].node = Top.node
             /\ [Top EXCEPT !.at = p].kind = Top.kind
  BY <1>1 DEF Frames
<1>4. CASE LogicLeft
  <2> DEFINE c == [Top EXCEPT !.at = "right"]
  <2>1. GoOn(c) /\ UNCHANGED tree /\ Top.kind \in {"and", "or"} /\ Top.at = "left" /\ mode' = "expr"
    BY <1>4 DEF LogicLeft
  <2>2. c.at = "right" /\ c.node = Top.node /\ c.kind = Top.kind
    BY <1>3
  <2> HIDE DEF c
  <2> QED
    BY <2>1, <2>2, RankFacts, GoOnGrown
<1>5. CASE CondTest
  <2> DEFINE c == [Top EXCEPT !.at = "body"]
  <2>1. GoOn(c) /\ UNCHANGED tree /\ Top.kind = "cond_block" /\ mode = "value" /\ mode' = "stmt"
    BY <1>5 DEF CondTest
  <2>2. c.at = "body" /\ c.node = Top.node /\ c.kind = Top.kind
    BY <1>3
  <2>3. Top.at = "cond"
    BY <2>1, <1>2, ReadyTop DEF Built
  <2> HIDE DEF c
  <2> QED
    BY <2>1, <2>2, <2>3, RankFacts, GoOnGrown
<1>6. CASE LoopTest
  <2> DEFINE c == [Top EXCEPT !.at = "body"]
  <2>1. GoOn(c) /\ UNCHANGED tree /\ Top.kind \in LoopKinds /\ Top.at = "cond" /\ mode' = "stmt"
    BY <1>6 DEF LoopTest
  <2>2. c.at = "body" /\ c.node = Top.node /\ c.kind = Top.kind
    BY <1>3
  <2> HIDE DEF c
  <2> QED
    BY <2>1, <2>2, RankFacts, GoOnGrown DEF LoopKinds
<1>7. CASE ForTest
  <2> DEFINE c == [Top EXCEPT !.at = "cond"]
             d == [Top EXCEPT !.at = "body"]
  <2>1. UNCHANGED tree /\ Top.kind = "for_block" /\ Top.at = "init"
    BY <1>7 DEF ForTest
  <2>3. (GoOn(c) /\ mode' = "expr") \/ (GoOn(d) /\ mode' = "stmt")
    BY <1>7, Zenon DEF ForTest
  <2>2. c.at = "cond" /\ c.node = Top.node /\ c.kind = Top.kind
        /\ d.at = "body" /\ d.node = Top.node /\ d.kind = Top.kind
    BY <1>3
  <2> HIDE DEF c, d
  <2> QED
    BY <2>1, <2>2, <2>3, RankFacts, GoOnGrown
<1>8. CASE ForStep
  <2> DEFINE c == [Top EXCEPT !.at = "step"]
  <2>1. GoOn(c) /\ UNCHANGED tree /\ Top.kind = "for_block" /\ Top.at = "body" /\ mode' = "stmt"
    BY <1>8 DEF ForStep, BlockEnds
  <2>2. c.at = "step" /\ c.node = Top.node /\ c.kind = Top.kind
    BY <1>3
  <2> HIDE DEF c
  <2> QED
    BY <2>1, <2>2, RankFacts, GoOnGrown
<1> QED
  BY <1>4, <1>5, <1>6, <1>7, <1>8

LEMMA OtherBranchGrown ==
  ASSUME TypeInv, TypeInv', GrownInv, CondElif \/ CondElse
  PROVE  GrownInv'
<1>1. Top \in Frames
  BY TopFacts
<1>2. CASE CondElif
  <2> DEFINE c == [Top EXCEPT !.node = New, !.at = "cond", !.l1 = label_counter]
  <2>1. c.kind = Top.kind /\ c.node = New /\ c.at = "cond"
    BY <1>1 DEF Frames
  <2>2. GoOn(c) /\ Top.kind = "cond_block" /\ mode' = "expr"
        /\ tree' = Append(tree, Node("if_branch", CondNode, "branch"))
    BY <1>2 DEF CondElif, BlockEnds
  <2> HIDE DEF c
  <2> QED
    BY <2>1, <2>2, BranchGrown
<1>3. CASE CondElse
  <2> DEFINE c == [Top EXCEPT !.node = New]
  <2>1. c.kind = Top.kind /\ c.node = New /\ c.at = Top.at
    BY <1>1 DEF Frames
  <2>2. GoOn(c) /\ Top.kind = "cond_block" /\ mode' = "stmt" /\ Top.at = "body"
        /\ tree' = Append(tree, Node("else_branch", CondNode, "branch"))
    BY <1>3 DEF CondElse, BlockEnds
  <2> HIDE DEF c
  <2> QED
    BY <2>1, <2>2, BranchGrown
<1> QED
  BY <1>2, <1>3

(* What is below an emission of each kind.                                 *)
LEMMA BeneathAt ==
  ASSUME TypeInv, Shape, GrownInv, Top.kind # "function", NEW g, g = nest[Len(nest) - 1]
  PROVE  /\ Top.kind \in {"return", "cond_block"} \cup LoopKinds => g.at = "body"
         /\ Top.kind \in {"and", "or"} => g.at # "body"
         /\ Placed(tree, Top, g)
BY Beneath DEF Placed

LEMMA EndGrown ==
  ASSUME TypeInv, TypeInv', Shape, GrownInv
  PROVE  /\ LogicRight => GrownInv'
         /\ LineEnd => GrownInv'
         /\ ReturnEnd => GrownInv'
         /\ CondEnd => GrownInv'
         /\ WhileEnd => GrownInv'
         /\ ForEnd => GrownInv'
<1>1. ASSUME LogicRight PROVE GrownInv'
  <2>1. Done /\ UNCHANGED tree /\ Top.kind \in {"and", "or"} /\ mode' = "value"
    BY <1>1 DEF LogicRight
  <2> QED
    BY <2>1, BeneathAt, DoneGrown
<1>2. ASSUME LineEnd PROVE GrownInv'
  <2>1. Done /\ UNCHANGED tree /\ Top.kind = "line"
        /\ mode' = IF nest[Len(nest) - 1].at = "body" THEN "stmt" ELSE "value"
    BY <1>2 DEF LineEnd
  <2> QED
    BY <2>1, DoneGrown
<1>3. ASSUME ReturnEnd PROVE GrownInv'
  <2>1. Done /\ UNCHANGED tree /\ Top.kind = "return" /\ mode' = "stmt"
    BY <1>3 DEF ReturnEnd
  <2> QED
    BY <2>1, BeneathAt, DoneGrown
<1>4. ASSUME CondEnd PROVE GrownInv'
  <2>1. Done /\ UNCHANGED tree /\ Top.kind = "cond_block" /\ mode' = "stmt"
    BY <1>4 DEF CondEnd, BlockEnds
  <2> QED
    BY <2>1, BeneathAt, DoneGrown
<1>5. ASSUME LeaveLoop, Top.kind \in LoopKinds PROVE GrownInv'
  <2>1. Done /\ UNCHANGED tree /\ mode' = "stmt" /\ Top.kind # "function"
    BY <1>5 DEF LeaveLoop, LoopKinds
  <2> QED
    BY <1>5, <2>1, BeneathAt, DoneGrown
<1>6. ASSUME WhileEnd PROVE GrownInv'
  BY <1>5, <1>6 DEF WhileEnd, BlockEnds, LoopKinds
<1>7. ASSUME ForEnd PROVE GrownInv'
  BY <1>5, <1>7 DEF ForEnd, BlockEnds, LoopKinds
<1> QED
  BY <1>1, <1>2, <1>3, <1>4, <1>6, <1>7

LEMMA InitGrown == Init => GrownInv
<1> SUFFICES ASSUME Init PROVE GrownInv
  OBVIOUS
<1>1. tree = <<>> /\ mode = "stmt" /\ Len(nest) = 1 /\ DOMAIN nest = 1 .. 1
      /\ nest[1].kind = "function" /\ nest[1].node = 0 /\ nest[1].at = "body"
  BY DEF Init
<1>2. DOMAIN tree = {}
  BY <1>1
<1>3. Built(tree, nest[1])
  BY <1>1, <1>2 DEF Built
<1>4. Ready(tree, nest[1], mode)
  BY <1>1 DEF Ready
<1>5. Upwards(tree) /\ Nested(tree, nest)
  BY <1>1, <1>2, <1>3 DEF Upwards, Nested
<1> QED
  BY <1>1, <1>4, <1>5 DEF GrownInv, Grown

(* The tree and the emissions begun fit together.                          *)
LEMMA NextGrown == IInv /\ GrownInv /\ [Next]_vars => GrownInv'
<1> SUFFICES ASSUME IInv, GrownInv, [Next]_vars PROVE GrownInv'
  OBVIOUS
<1>1. TypeInv /\ Shape /\ IInv' /\ TypeInv'
  BY NextIInv DEF IInv, Core
<1>2. CASE Emission
  <2>1. CASE FunctionEnd
    <3>1. UNCHANGED <<nest, tree>> /\ mode' = "run"
      BY <2>1 DEF FunctionEnd, emission
    <3>2. Ready(tree', nest'[Len(nest')], mode')
      BY <3>1 DEF Ready, Wants
    <3> QED
      BY <3>1, <3>2 DEF GrownInv, Grown
  <2>2. CASE ~FunctionEnd
    BY <1>1, <1>2, <2>2, LeafGrown, LogicGrown, LineOfLogicGrown, ReturnGrown, LoopGrown,
       CondGrown, TestGrown, OtherBranchGrown, EndGrown DEF Emission
  <2> QED
    BY <2>1, <2>2
<1>3. CASE Execution
  <2>1. UNCHANGED <<nest, tree>> /\ mode' \in {"run", "stop"}
    BY <1>3 DEF Execution, emission, RunItem, RunLabel, RunJump, RunRet
  <2>2. Ready(tree', nest'[Len(nest')], mode')
    BY <2>1 DEF Ready, Wants
  <2> QED
    BY <2>1, <2>2 DEF GrownInv, Grown
<1>4. CASE UNCHANGED vars
  BY <1>4 DEF vars, emission, GrownInv, Grown
<1> QED
  BY <1>2, <1>3, <1>4 DEF Next

(* The emissions begun are the ancestors of what comes next: each is about *)
(* a part of the one below it, the latest node there, and behind that part *)
(* nothing of its own node has been emitted (emit_block and emit_cond_block*)
(* walk a tree from left to right).                                        *)
THEOREM GrownCorrect == Spec => []GrownInv
<1> QED
  BY InitGrown, NextGrown, EmitInductive, PTL DEF Spec

-----------------------------------------------------------------------------
(* What the emitted code means.  t is any tree the compiler may still end  *)
(* with: what it has not reached is open.                                  *)
Of(t) == INSTANCE Control WITH tree <- t, last <- last

(* Where the tree still grows: part `part` of node u.                      *)
Grows(t, f, innermost, m, u, part) ==
  \/ u = f.node /\ Rank(part) > Rank(f.at)
  \/ u = f.node /\ part = f.at /\ (part = "body" \/ (innermost /\ Wants(m)))
  \/ f.kind = "cond_block" /\ f.l1 # f.l2 /\ u = t[f.node].up /\ part = "branch"

(* T is a tree the compiler may end with when it has t and is in emissions *)
(* s: what T has more grows there, or below nodes that are to come.        *)
Completes(T, t, s, m) ==
  /\ T \in Seq(Nodes) /\ Len(t) <= Len(T)
  /\ \A n \in DOMAIN t : T[n] = t[n]
  /\ \A n \in DOMAIN T : n > Len(t) =>
       \/ T[n].up > Len(t)
       \/ /\ m \notin {"run", "stop"}
          /\ \E k \in DOMAIN s : Grows(t, s[k], k = Len(s), m, T[n].up, T[n].part)

(* F leads from each point of T to the next one at which something happens.*)
Leads(F, T) ==
  \A p \in Of(T)!Points :
    F[p] = IF Of(T)!Happening(p) \/ Of(T)!Step(p) \notin Of(T)!Points THEN p
           ELSE F[Of(T)!Step(p)]

(* An item of the code takes the program from x to y, which tell for each  *)
(* value of RAX where the program is; L tells it for the labels.           *)
Fits(F, T, L, it, x, y) ==
  /\ it.op \in {"eval", "do"} =>
       /\ it.node \in DOMAIN T /\ T[it.node].kind # "for_block"
       /\ \A v \in BOOLEAN : x[v] = F[Of(T)!At("event", it.node)] /\ y[v] = F[Of(T)!Leave(it.node, v)]
  /\ it.op = "label" =>
       /\ it = Label(it.label)
       /\ \A v \in BOOLEAN : x[v] = L[it.label][v] /\ y[v] = L[it.label][v]
  /\ it.op \in {"jmp", "jnz"} => it.node = 0
  /\ it.op = "jmp" => \A v \in BOOLEAN : x[v] = L[it.label][v]
  /\ it.op = "jz" /\ it.node = 0 => x[FALSE] = L[it.label][FALSE] /\ y[TRUE] = x[TRUE]
  /\ it.op = "jnz" => x[TRUE] = L[it.label][TRUE] /\ y[FALSE] = x[FALSE]
  /\ it.op = "jz" /\ it.node # 0 =>
       /\ it.node \in DOMAIN T /\ T[it.node].kind = "for_block"
       /\ \A v \in BOOLEAN : x[v] = F[Of(T)!At("event", it.node)]
       /\ L[it.label][FALSE] = F[Of(T)!Leave(it.node, TRUE)]
       /\ y[TRUE] = F[Of(T)!At("block", it.node)]
  /\ it.op = "ret" => \A v \in BOOLEAN : x[v] = F[Of(T)!At("end", 0)]

(* W tells where the program is before each item of the code c.            *)
Runs(F, T, L, c, W) ==
  /\ \A v \in BOOLEAN : W[1][v] = F[Of(T)!At("block", 0)]
  /\ \A i \in DOMAIN c : Fits(F, T, L, c[i], W[i], W[i + 1])

(* The code c takes the program from the beginning to x.                   *)
Reaches(F, T, L, c, x) ==
  \E W : Runs(F, T, L, c, W) /\ \A v \in BOOLEAN : W[Len(c) + 1][v] = x[v]

(* The kids of part `part` of u that are still to come.                    *)
Coming(T, u, part, n) == {k \in Of(T)!Kids(u, part) : k > n}

(* Where the program is at the end of the code.                            *)
Reached(F, T, n, f, m, x) ==
  LET S == Coming(T, f.node, f.at, n) IN
  /\ Wants(m) /\ S # {} =>
       \A v \in BOOLEAN : x[v] = F[Of(T)!Begin(Of(T)!Earliest(S))]
  /\ Wants(m) /\ S = {} /\ f.at = "body" =>
       \A v \in BOOLEAN : x[v] = F[Of(T)!At("closed", f.node)]
  /\ m = "value" =>
       \A v \in BOOLEAN : Of(T)!Passed(f.node, f.at, v) \in Of(T)!Points =>
         x[v] = F[Of(T)!Passed(f.node, f.at, v)]

(* Where the labels lead that an emission will still declare.              *)
Targets(F, T, L, f) ==
  /\ f.kind \in {"and", "or"} =>
       \A v \in BOOLEAN : L[label_end(f)][v] = F[Of(T)!Leave(f.node, v)]
  /\ f.kind = "cond_block" =>
       /\ \A v \in BOOLEAN : L[end_cond(f)][v] = F[Of(T)!Leave(T[f.node].up, TRUE)]
       /\ T[f.node].kind = "if_branch" =>
            \A v \in BOOLEAN : L[else_label(f)][v] = F[Of(T)!Tested(f.node, FALSE)]
  /\ f.kind \in LoopKinds =>
       \A v \in BOOLEAN : /\ L[cur_break(f)][v] = F[Of(T)!Leave(f.node, TRUE)]
                          /\ L[cur_continue(f)][v] = F[Of(T)!At("test", f.node)]

(* break and continue mean the innermost loop.                             *)
Ways(F, T, s) ==
  \A i, k \in DOMAIN s : LoopOf(s, i, k) =>
    /\ F[Of(T)!At("break", s[k].node)] = F[Of(T)!Leave(s[i].node, TRUE)]
    /\ F[Of(T)!At("continue", s[k].node)] = F[Of(T)!At("test", s[i].node)]

(* The code c means T so far, with a meaning L of the labels that is right *)
(* for the labels to come.                                                 *)
Lowered(F, T, c, t, s, m) ==
  \E L, x : /\ Reaches(F, T, L, c, x)
            /\ Reached(F, T, Len(t), s[Len(s)], m, x)
            /\ \A k \in DOMAIN s : Targets(F, T, L, s[k])
            /\ Ways(F, T, s)

Means == mode \notin {"run", "stop"} =>
  \A T, F : Completes(T, tree, nest, mode) /\ Leads(F, T) => Lowered(F, T, code, tree, nest, mode)

-----------------------------------------------------------------------------
(* Points and what F makes of them. *)

LEMMA PointFacts ==
  ASSUME NEW T \in Seq(Nodes)
  PROVE  /\ \A n \in 0 .. Len(T) : /\ Of(T)!Begin(n) \in Of(T)!Points
                                   /\ Of(T)!Begin(n).go = "begin" /\ Of(T)!Begin(n).node = n
         /\ \A n \in 0 .. Len(T), v \in BOOLEAN :
              /\ Of(T)!Leave(n, v) \in Of(T)!Points /\ Of(T)!Leave(n, v).go = "ended"
              /\ Of(T)!Leave(n, v).node = n /\ Of(T)!Leave(n, v).value = v
         /\ \A n \in 0 .. Len(T) :
              \A go \in {"block", "closed", "test", "break", "continue", "event", "end"} :
                /\ Of(T)!At(go, n) \in Of(T)!Points
                /\ Of(T)!At(go, n).go = go /\ Of(T)!At(go, n).node = n
BY DEF Of!Begin, Of!Leave, Of!At, Of!Point, Of!Points

LEMMA OneStep ==
  ASSUME NEW T, NEW F, Leads(F, T), NEW p \in Of(T)!Points, p.go \notin {"event", "end"},
         NEW q \in Of(T)!Points, q = Of(T)!Step(p)
  PROVE  F[p] = F[q]
BY DEF Leads, Of!Happening

(* The earliest of some nodes.                                             *)
LEMMA EarliestFacts ==
  ASSUME NEW T \in Seq(Nodes), NEW S \in SUBSET (DOMAIN T)
  PROVE  /\ S # {} => Of(T)!Earliest(S) \in S
         /\ \A n \in S : (\A k \in S : n <= k) => Of(T)!Earliest(S) = n
<1>1. S \in SUBSET Nat
  OBVIOUS
<1>2. ASSUME S # {} PROVE Of(T)!Earliest(S) \in S /\ \A k \in S : Of(T)!Earliest(S) <= k
  <2>1. \E n \in S : \A k \in S : n <= k
    BY <1>1, <1>2, NatMin
  <2> QED
    BY <2>1 DEF Of!Earliest
<1>3. \A n \in S : (\A k \in S : n <= k) => Of(T)!Earliest(S) = n
  <2> SUFFICES ASSUME NEW n \in S, \A k \in S : n <= k PROVE Of(T)!Earliest(S) = n
    OBVIOUS
  <2>1. /\ Of(T)!Earliest(S) \in Nat /\ n \in Nat
        /\ Of(T)!Earliest(S) <= n /\ n <= Of(T)!Earliest(S)
    BY <1>1, <1>2
  <2> QED
    BY <2>1
<1> QED
  BY <1>2, <1>3

LEMMA KidFacts ==
  ASSUME NEW T \in Seq(Nodes), NEW n, NEW part
  PROVE  /\ Of(T)!Kids(n, part) \in SUBSET (DOMAIN T)
         /\ Of(T)!Kids(n, part) # {} =>
              /\ Of(T)!Kid(n, part) \in Of(T)!Kids(n, part)
              /\ Of(T)!Kid(n, part) \in 0 .. Len(T)
              /\ Of(T)!Begin(Of(T)!Kid(n, part)) \in Of(T)!Points
         /\ Of(T)!Has(n, part) <=> Of(T)!Kids(n, part) # {}
         /\ Of(T)!Kid(n, part) = Of(T)!Earliest(Of(T)!Kids(n, part))
<1>1. Of(T)!Kids(n, part) \in SUBSET (DOMAIN T)
  BY DEF Of!Kids
<1>2. /\ Of(T)!Has(n, part) <=> Of(T)!Kids(n, part) # {}
      /\ Of(T)!Kid(n, part) = Of(T)!Earliest(Of(T)!Kids(n, part))
  BY DEF Of!Has, Of!Kid
<1>3. Of(T)!Kids(n, part) # {} => Of(T)!Kid(n, part) \in Of(T)!Kids(n, part)
  BY <1>1, <1>2, EarliestFacts
<1>4. DOMAIN T \subseteq 0 .. Len(T)
  OBVIOUS
<1> QED
  BY <1>1, <1>2, <1>3, <1>4, PointFacts

LEMMA BeginLeads ==
  ASSUME NEW T \in Seq(Nodes), NEW F, Leads(F, T), NEW n \in DOMAIN T
  PROVE  /\ T[n].kind = "operand" => F[Of(T)!Begin(n)] = F[Of(T)!At("event", n)]
         /\ T[n].kind \in {"and", "or"} /\ Of(T)!Kids(n, "left") # {} =>
              F[Of(T)!Begin(n)] = F[Of(T)!Begin(Of(T)!Kid(n, "left"))]
         /\ T[n].kind \in {"line", "return"} /\ Of(T)!Kids(n, "expr") # {} =>
              F[Of(T)!Begin(n)] = F[Of(T)!Begin(Of(T)!Kid(n, "expr"))]
         /\ T[n].kind = "line" /\ Of(T)!Kids(n, "expr") = {} =>
              F[Of(T)!Begin(n)] = F[Of(T)!At("event", n)]
         /\ T[n].kind = "return" /\ Of(T)!Kids(n, "expr") = {} =>
              F[Of(T)!Begin(n)] = F[Of(T)!At("end", 0)]
         /\ T[n].kind = "cond_block" /\ Of(T)!Kids(n, "branch") # {} =>
              F[Of(T)!Begin(n)] = F[Of(T)!Begin(Of(T)!Kid(n, "branch"))]
         /\ T[n].kind \in {"if_branch", "while_block"} => F[Of(T)!Begin(n)] = F[Of(T)!At("test", n)]
         /\ T[n].kind = "else_branch" => F[Of(T)!Begin(n)] = F[Of(T)!At("block", n)]
         /\ T[n].kind = "for_block" /\ Of(T)!Kids(n, "init") # {} =>
              F[Of(T)!Begin(n)] = F[Of(T)!Begin(Of(T)!Kid(n, "init"))]
         /\ T[n].kind = "for_block" /\ Of(T)!Kids(n, "init") = {} =>
              F[Of(T)!Begin(n)] = F[Of(T)!At("test", n)]
         /\ T[n].kind = "break" => F[Of(T)!Begin(n)] = F[Of(T)!At("break", n)]
         /\ T[n].kind = "continue" => F[Of(T)!Begin(n)] = F[Of(T)!At("continue", n)]
         /\ T[n].kind = "exit" => F[Of(T)!Begin(n)] = F[Of(T)!Leave(n, TRUE)]
<1>1. /\ n \in 0 .. Len(T) /\ 0 \in 0 .. Len(T)
      /\ Of(T)!Begin(n) \in Of(T)!Points /\ Of(T)!Begin(n).go = "begin" /\ Of(T)!Begin(n).node = n
  BY PointFacts
<1>2. Of(T)!Step(Of(T)!Begin(n)) = Of(T)!Begun(n)
  BY <1>1 DEF Of!Step
<1>3. ASSUME NEW q \in Of(T)!Points, q = Of(T)!Begun(n) PROVE F[Of(T)!Begin(n)] = F[q]
  BY <1>1, <1>2, <1>3, OneStep
<1>4. /\ Of(T)!At("event", n) \in Of(T)!Points /\ Of(T)!At("end", 0) \in Of(T)!Points
      /\ Of(T)!At("test", n) \in Of(T)!Points /\ Of(T)!At("block", n) \in Of(T)!Points
      /\ Of(T)!At("break", n) \in Of(T)!Points /\ Of(T)!At("continue", n) \in Of(T)!Points
      /\ Of(T)!Leave(n, TRUE) \in Of(T)!Points
  BY <1>1, PointFacts
<1>5. T[n].kind = "operand" => F[Of(T)!Begin(n)] = F[Of(T)!At("event", n)]
  BY <1>3, <1>4 DEF Of!Begun
<1>6. T[n].kind \in {"and", "or"} /\ Of(T)!Kids(n, "left") # {} =>
        F[Of(T)!Begin(n)] = F[Of(T)!Begin(Of(T)!Kid(n, "left"))]
  BY <1>3, KidFacts DEF Of!Begun
<1>7. T[n].kind \in {"line", "return"} /\ Of(T)!Kids(n, "expr") # {} =>
        F[Of(T)!Begin(n)] = F[Of(T)!Begin(Of(T)!Kid(n, "expr"))]
  BY <1>3, KidFacts DEF Of!Begun
<1>8. /\ T[n].kind = "line" /\ Of(T)!Kids(n, "expr") = {} =>
           F[Of(T)!Begin(n)] = F[Of(T)!At("event", n)]
      /\ T[n].kind = "return" /\ Of(T)!Kids(n, "expr") = {} =>
           F[Of(T)!Begin(n)] = F[Of(T)!At("end", 0)]
  BY <1>3, <1>4, KidFacts DEF Of!Begun
<1>9. T[n].kind = "cond_block" /\ Of(T)!Kids(n, "branch") # {} =>
        F[Of(T)!Begin(n)] = F[Of(T)!Begin(Of(T)!Kid(n, "branch"))]
  BY <1>3, KidFacts DEF Of!Begun
<1>10. /\ T[n].kind \in {"if_branch", "while_block"} => F[Of(T)!Begin(n)] = F[Of(T)!At("test", n)]
       /\ T[n].kind = "else_branch" => F[Of(T)!Begin(n)] = F[Of(T)!At("block", n)]
  BY <1>3, <1>4 DEF Of!Begun
<1>11. T[n].kind = "for_block" /\ Of(T)!Kids(n, "init") # {} =>
         F[Of(T)!Begin(n)] = F[Of(T)!Begin(Of(T)!Kid(n, "init"))]
  BY <1>3, KidFacts DEF Of!Begun
<1>12. T[n].kind = "for_block" /\ Of(T)!Kids(n, "init") = {} =>
         F[Of(T)!Begin(n)] = F[Of(T)!At("test", n)]
  BY <1>3, <1>4, KidFacts DEF Of!Begun
<1>13. /\ T[n].kind = "break" => F[Of(T)!Begin(n)] = F[Of(T)!At("break", n)]
       /\ T[n].kind = "continue" => F[Of(T)!Begin(n)] = F[Of(T)!At("continue", n)]
       /\ T[n].kind = "exit" => F[Of(T)!Begin(n)] = F[Of(T)!Leave(n, TRUE)]
  BY <1>3, <1>4 DEF Of!Begun
<1> QED
  BY <1>5, <1>6, <1>7, <1>8, <1>9, <1>10, <1>11, <1>12, <1>13

LEMMA EndedLeads ==
  ASSUME NEW T \in Seq(Nodes), NEW F, Leads(F, T), NEW n \in DOMAIN T, NEW v \in BOOLEAN
  PROVE  /\ T[n].part # "body" /\ Of(T)!Passed(T[n].up, T[n].part, v) \in Of(T)!Points =>
              F[Of(T)!Leave(n, v)] = F[Of(T)!Passed(T[n].up, T[n].part, v)]
         /\ T[n].part = "body" /\ Of(T)!Later(n) # {} =>
              F[Of(T)!Leave(n, v)] = F[Of(T)!Begin(Of(T)!Earliest(Of(T)!Later(n)))]
         /\ T[n].part = "body" /\ Of(T)!Later(n) = {} /\ T[n].up \in 0 .. Len(T) =>
              F[Of(T)!Leave(n, v)] = F[Of(T)!At("closed", T[n].up)]
<1>1. /\ n \in 0 .. Len(T) /\ Of(T)!Leave(n, v) \in Of(T)!Points
      /\ Of(T)!Leave(n, v).go = "ended" /\ Of(T)!Leave(n, v).node = n
      /\ Of(T)!Leave(n, v).value = v
  <2>1. n \in 0 .. Len(T)
    OBVIOUS
  <2> QED
    BY <2>1, PointFacts
<1>2. Of(T)!Step(Of(T)!Leave(n, v)) = Of(T)!EndedPart(n, v)
  BY <1>1 DEF Of!Step
<1>3. ASSUME NEW q \in Of(T)!Points, q = Of(T)!EndedPart(n, v) PROVE F[Of(T)!Leave(n, v)] = F[q]
  BY <1>1, <1>2, <1>3, OneStep
<1>4. Of(T)!Later(n) # {} => Of(T)!Begin(Of(T)!Earliest(Of(T)!Later(n))) \in Of(T)!Points
  <2>1. Of(T)!Later(n) \in SUBSET (DOMAIN T)
    BY DEF Of!Later, Of!Kids
  <2>2. DOMAIN T \subseteq 0 .. Len(T)
    OBVIOUS
  <2> QED
    BY <2>1, <2>2, EarliestFacts, PointFacts
<1>5. T[n].up \in 0 .. Len(T) => Of(T)!At("closed", T[n].up) \in Of(T)!Points
  BY PointFacts
<1>6. T[n].part # "body" /\ Of(T)!Passed(T[n].up, T[n].part, v) \in Of(T)!Points =>
        F[Of(T)!Leave(n, v)] = F[Of(T)!Passed(T[n].up, T[n].part, v)]
  BY <1>3 DEF Of!EndedPart
<1>7. T[n].part = "body" /\ Of(T)!Later(n) # {} =>
        F[Of(T)!Leave(n, v)] = F[Of(T)!Begin(Of(T)!Earliest(Of(T)!Later(n)))]
  BY <1>3, <1>4 DEF Of!EndedPart
<1>8. T[n].part = "body" /\ Of(T)!Later(n) = {} /\ T[n].up \in 0 .. Len(T) =>
        F[Of(T)!Leave(n, v)] = F[Of(T)!At("closed", T[n].up)]
  BY <1>3, <1>5 DEF Of!EndedPart
<1> QED
  BY <1>6, <1>7, <1>8

LEMMA AtLeads ==
  ASSUME NEW T \in Seq(Nodes), NEW F, Leads(F, T), NEW n \in 0 .. Len(T),
         NEW go \in {"block", "closed", "test", "break", "continue", "event", "end"},
         NEW q \in Of(T)!Points
  PROVE  /\ go = "block" /\ Of(T)!Kids(n, "body") # {} /\ q = Of(T)!Begin(Of(T)!Kid(n, "body")) =>
              F[Of(T)!At(go, n)] = F[q]
         /\ go = "block" /\ Of(T)!Kids(n, "body") = {} /\ q = Of(T)!At("closed", n) =>
              F[Of(T)!At(go, n)] = F[q]
         /\ go = "test" /\ Of(T)!Kids(n, "cond") # {} /\ q = Of(T)!Begin(Of(T)!Kid(n, "cond")) =>
              F[Of(T)!At(go, n)] = F[q]
         /\ go = "test" /\ Of(T)!Kids(n, "cond") = {} /\ q = Of(T)!At("event", n) =>
              F[Of(T)!At(go, n)] = F[q]
         /\ go = "closed" /\ q = Of(T)!Closed(n) => F[Of(T)!At(go, n)] = F[q]
         /\ go \in {"break", "continue"} /\ q = Of(T)!OfLoop(go, n) => F[Of(T)!At(go, n)] = F[q]
         /\ go \in {"event", "end"} => F[Of(T)!At(go, n)] = Of(T)!At(go, n)
<1>1. /\ Of(T)!At(go, n) \in Of(T)!Points
      /\ Of(T)!At(go, n).go = go /\ Of(T)!At(go, n).node = n
  BY PointFacts
<1>2. ASSUME q = Of(T)!Step(Of(T)!At(go, n)), go \notin {"event", "end"}
      PROVE  F[Of(T)!At(go, n)] = F[q]
  BY <1>1, <1>2, OneStep
<1>3. go = "block" /\ Of(T)!Kids(n, "body") # {} /\ q = Of(T)!Begin(Of(T)!Kid(n, "body")) =>
        F[Of(T)!At(go, n)] = F[q]
  BY <1>1, <1>2, KidFacts DEF Of!Step
<1>4. go = "block" /\ Of(T)!Kids(n, "body") = {} /\ q = Of(T)!At("closed", n) =>
        F[Of(T)!At(go, n)] = F[q]
  BY <1>1, <1>2, KidFacts DEF Of!Step
<1>5. go = "test" /\ Of(T)!Kids(n, "cond") # {} /\ q = Of(T)!Begin(Of(T)!Kid(n, "cond")) =>
        F[Of(T)!At(go, n)] = F[q]
  BY <1>1, <1>2, KidFacts DEF Of!Step
<1>6. go = "test" /\ Of(T)!Kids(n, "cond") = {} /\ q = Of(T)!At("event", n) =>
        F[Of(T)!At(go, n)] = F[q]
  BY <1>1, <1>2, KidFacts DEF Of!Step
<1>7. /\ go = "closed" /\ q = Of(T)!Closed(n) => F[Of(T)!At(go, n)] = F[q]
      /\ go \in {"break", "continue"} /\ q = Of(T)!OfLoop(go, n) => F[Of(T)!At(go, n)] = F[q]
  BY <1>1, <1>2 DEF Of!Step
<1>8. go \in {"event", "end"} => F[Of(T)!At(go, n)] = Of(T)!At(go, n)
  BY <1>1 DEF Leads, Of!Happening
<1> QED
  BY <1>3, <1>4, <1>5, <1>6, <1>7, <1>8

-----------------------------------------------------------------------------
(* The code grows. *)

(* One item more, that fits where the code had come to.                    *)
LEMMA RunsGrow ==
  ASSUME NEW T, NEW F, NEW L, NEW c \in Seq(Items), NEW it \in Items, NEW x, NEW y,
         Reaches(F, T, L, c, x),
         \A w : (\A v \in BOOLEAN : w[v] = x[v]) => Fits(F, T, L, it, w, y)
  PROVE  Reaches(F, T, L, Append(c, it), y)
<1>1. PICK W : Runs(F, T, L, c, W) /\ \A v \in BOOLEAN : W[Len(c) + 1][v] = x[v]
  BY DEF Reaches
<1> DEFINE d == Append(c, it)
           U == [i \in 1 .. Len(c) + 2 |-> IF i = Len(c) + 2 THEN y ELSE W[i]]
<1>2. /\ Len(c) \in Nat /\ DOMAIN c = 1 .. Len(c) /\ DOMAIN d = 1 .. Len(c) + 1
      /\ Len(d) = Len(c) + 1 /\ d[Len(c) + 1] = it /\ \A i \in 1 .. Len(c) : d[i] = c[i]
  BY AppendFacts
<1>3. U[Len(c) + 2] = y /\ \A i \in 1 .. Len(c) + 1 : U[i] = W[i]
  BY <1>2
<1> HIDE DEF U, d
<1>4. \A v \in BOOLEAN : U[1][v] = F[Of(T)!At("block", 0)]
  BY <1>1, <1>2, <1>3 DEF Runs
<1>5. \A i \in DOMAIN d : Fits(F, T, L, d[i], U[i], U[i + 1])
  <2> SUFFICES ASSUME NEW i \in DOMAIN d PROVE Fits(F, T, L, d[i], U[i], U[i + 1])
    OBVIOUS
  <2>1. CASE i = Len(c) + 1
    <3>1. U[i] = W[i] /\ U[i + 1] = y /\ d[i] = it
      BY <1>2, <1>3, <2>1
    <3> QED
      BY <1>1, <2>1, <3>1
  <2>2. CASE i # Len(c) + 1
    <3>1. i \in DOMAIN c /\ U[i] = W[i] /\ U[i + 1] = W[i + 1] /\ d[i] = c[i]
      BY <1>2, <1>3, <2>2
    <3> QED
      BY <1>1, <3>1 DEF Runs
  <2> QED
    BY <2>1, <2>2
<1>6. Runs(F, T, L, d, U) /\ \A v \in BOOLEAN : U[Len(d) + 1][v] = y[v]
  BY <1>2, <1>3, <1>4, <1>5 DEF Runs
<1> QED
  BY <1>6 DEF Reaches, d

(* Labels the code does not use may be given a meaning.                    *)
LEMMA RunsRelabel ==
  ASSUME NEW T, NEW F, NEW L, NEW M, NEW c, NEW x, Reaches(F, T, L, c, x),
         \A i \in DOMAIN c :
           c[i].op \in Jumps \/ c[i] = Label(c[i].label) => M[c[i].label] = L[c[i].label]
  PROVE  Reaches(F, T, M, c, x)
<1>1. PICK W : Runs(F, T, L, c, W) /\ \A v \in BOOLEAN : W[Len(c) + 1][v] = x[v]
  BY DEF Reaches
<1>2. ASSUME NEW i \in DOMAIN c PROVE Fits(F, T, M, c[i], W[i], W[i + 1])
  <2> DEFINE it == c[i]
             w == W[i]
             z == W[i + 1]
  <2>1. Fits(F, T, L, it, w, z)
    BY <1>1 DEF Runs
  <2>2. it.op \in {"jmp", "jz", "jnz"} => M[it.label] = L[it.label]
    BY DEF Jumps
  <2>4. it.op = "label" => it = Label(it.label)
    BY <2>1 DEF Fits
  <2>5. it = Label(it.label) => M[it.label] = L[it.label]
    OBVIOUS
  <2> HIDE DEF it, w, z
  <2>3. Fits(F, T, M, it, w, z)
    BY <2>1, <2>2, <2>4, <2>5 DEF Fits
  <2> QED
    BY <2>3 DEF it, w, z
<1> QED
  BY <1>1, <1>2 DEF Reaches, Runs

LEMMA OtherValue ==
  ASSUME NEW T, NEW F, NEW L, NEW c, NEW x, NEW y, Reaches(F, T, L, c, x),
         \A v \in BOOLEAN : x[v] = y[v]
  PROVE  Reaches(F, T, L, c, y)
BY DEF Reaches

-----------------------------------------------------------------------------
(* The tree the compiler ends with.  What completes the tree after a step  *)
(* completes it before.                                                    *)

LEMMA CompletesBefore ==
  ASSUME TypeInv, TypeInv', NEW T, Completes(T, tree', nest', mode'),
         TreeGrows, Len(tree) <= Len(tree'), mode \notin {"run", "stop"},
         \A n \in DOMAIN tree' : n \notin DOMAIN tree =>
           \/ tree'[n].up > Len(tree)
           \/ \E k \in DOMAIN nest : Grows(tree, nest[k], k = Len(nest), mode, tree'[n].up, tree'[n].part),
         mode' \notin {"run", "stop"} =>
           \A k \in DOMAIN nest' : \A u \in Nat : \A part \in Parts :
             Grows(tree', nest'[k], k = Len(nest'), mode', u, part) =>
               \/ u > Len(tree)
               \/ \E j \in DOMAIN nest : Grows(tree, nest[j], j = Len(nest), mode, u, part)
  PROVE  Completes(T, tree, nest, mode)
<1>1. /\ T \in Seq(Nodes) /\ Len(tree') <= Len(T) /\ \A n \in DOMAIN tree' : T[n] = tree'[n]
      /\ Len(tree) \in Nat /\ Len(tree') \in Nat /\ Len(T) \in Nat
      /\ DOMAIN tree = 1 .. Len(tree) /\ DOMAIN tree' = 1 .. Len(tree') /\ DOMAIN T = 1 .. Len(T)
  BY DEF TypeInv, Completes
<1>2. \A n \in DOMAIN T : T[n].up \in Nat /\ T[n].part \in Parts
  <2>1. \A n \in DOMAIN T : T[n] \in Nodes
    BY <1>1
  <2> QED
    BY <2>1 DEF Nodes
<1>3. \A n \in DOMAIN tree : T[n] = tree[n]
  BY <1>1 DEF TreeGrows
<1>4. ASSUME NEW n \in DOMAIN T, n > Len(tree)
      PROVE  \/ T[n].up > Len(tree)
             \/ \E k \in DOMAIN nest : Grows(tree, nest[k], k = Len(nest), mode, T[n].up, T[n].part)
  <2>1. CASE n \in DOMAIN tree'
    BY <1>1, <1>4, <2>1
  <2>2. CASE n \notin DOMAIN tree'
    <3>1. n > Len(tree')
      BY <1>1, <2>2
    <3>2. CASE T[n].up > Len(tree')
      BY <1>1, <1>2, <3>2
    <3>3. CASE ~(T[n].up > Len(tree'))
      <4>1. /\ mode' \notin {"run", "stop"}
            /\ \E k \in DOMAIN nest' :
                 Grows(tree', nest'[k], k = Len(nest'), mode', T[n].up, T[n].part)
        BY <3>1, <3>3 DEF Completes
      <4> QED
        BY <1>2, <4>1
    <3> QED
      BY <3>2, <3>3
  <2> QED
    BY <2>1, <2>2
<1> QED
  BY <1>1, <1>3, <1>4 DEF Completes

(* What the innermost emission waits for is where the tree grows.          *)
LEMMA TopGrows ==
  ASSUME TypeInv, Top.at = "body" \/ Wants(mode)
  PROVE  \E k \in DOMAIN nest : Grows(tree, nest[k], k = Len(nest), mode, Top.node, Top.at)
<1>1. Len(nest) \in DOMAIN nest
  BY TopFacts
<1>2. Grows(tree, nest[Len(nest)], TRUE, mode, Top.node, Top.at)
  BY DEF Grows, Top
<1> QED
  BY <1>1, <1>2

(* The same for each way the nest of emissions moves.                      *)
LEMMA StayCompletes ==
  ASSUME TypeInv, TypeInv', GrownInv, NEW T, Completes(T, tree', nest', mode'),
         mode \notin {"run", "stop"}, UNCHANGED nest,
         UNCHANGED tree \/ \E kind : Source(kind),
         Top.at = "body" \/ (Wants(mode) /\ ~Wants(mode'))
  PROVE  Completes(T, tree, nest, mode)
<1>1. /\ TreeGrows /\ Len(tree) <= Len(tree')
      /\ \A n \in DOMAIN tree' : n \notin DOMAIN tree => tree'[n].up = Top.node /\ tree'[n].part = Top.at
  <2>1. CASE UNCHANGED tree
    BY <2>1 DEF TreeGrows, TypeInv
  <2>2. CASE \E kind : Source(kind)
    BY <2>2, OneNode DEF NewAbove
  <2> QED
    BY <2>1, <2>2
<1>2. ASSUME NEW k \in DOMAIN nest, NEW u \in Nat, NEW part \in Parts,
             Grows(tree', nest[k], k = Len(nest), mode', u, part)
      PROVE  Grows(tree, nest[k], k = Len(nest), mode, u, part)
  <2>1. nest[k].kind = "cond_block" => tree'[nest[k].node] = tree[nest[k].node]
    BY <1>1 DEF GrownInv, Grown, Nested, Built, TreeGrows
  <2>2. k = Len(nest) => nest[k].at = "body" \/ ~Wants(mode')
    BY DEF Top
  <2> QED
    BY <1>2, <2>1, <2>2 DEF Grows
<1> QED
  BY <1>1, <1>2, TopGrows, CompletesBefore

LEMMA EnterCompletes ==
  ASSUME TypeInv, TypeInv', GrownInv, NEW T, Completes(T, tree', nest', mode'),
         mode \notin {"run", "stop"}, NEW c, Enter(c), NewAbove(Top.node),
         Top.at = "body" \/ Wants(mode),
         \A n \in DOMAIN tree' : n \notin DOMAIN tree =>
           tree'[n].up > Len(tree) \/ (tree'[n].up = Top.node /\ tree'[n].part = Top.at),
         c.node > Len(tree), c.kind = "cond_block" => tree'[c.node].up > Len(tree)
  PROVE  Completes(T, tree, nest, mode)
<1>1. Len(nest) \in DOMAIN nest /\ DOMAIN nest = 1 .. Len(nest) /\ Len(nest) \in Nat
  BY TopFacts
<1>2. /\ DOMAIN nest' = 1 .. Len(nest) + 1 /\ Len(nest') = Len(nest) + 1
      /\ nest'[Len(nest) + 1] = c /\ \A k \in DOMAIN nest : nest'[k] = nest[k]
  BY <1>1 DEF Enter, TypeInv
<1>3. TreeGrows /\ Len(tree) <= Len(tree')
  BY DEF NewAbove
<1>4. ASSUME NEW k \in DOMAIN nest', NEW u \in Nat, NEW part \in Parts,
             Grows(tree', nest'[k], k = Len(nest'), mode', u, part)
      PROVE  \/ u > Len(tree)
             \/ \E j \in DOMAIN nest : Grows(tree, nest[j], j = Len(nest), mode, u, part)
  <2>1. CASE k = Len(nest) + 1
    BY <1>2, <1>4, <2>1 DEF Grows
  <2>2. CASE k # Len(nest) + 1
    <3>1. k \in DOMAIN nest /\ nest'[k] = nest[k] /\ k # Len(nest')
      BY <1>1, <1>2, <2>2
    <3>2. nest[k].kind = "cond_block" => tree'[nest[k].node] = tree[nest[k].node]
      BY <1>3, <3>1 DEF GrownInv, Grown, Nested, Built, TreeGrows
    <3>3. Grows(tree, nest[k], k = Len(nest), mode, u, part)
      BY <1>4, <3>1, <3>2 DEF Grows
    <3> QED
      BY <3>1, <3>3
  <2> QED
    BY <2>1, <2>2
<1>5. \A n \in DOMAIN tree' : n \notin DOMAIN tree =>
        \/ tree'[n].up > Len(tree)
        \/ \E k \in DOMAIN nest : Grows(tree, nest[k], k = Len(nest), mode, tree'[n].up, tree'[n].part)
  BY TopGrows
<1> QED
  BY <1>3, <1>4, <1>5, CompletesBefore

LEMMA GoOnCompletes ==
  ASSUME TypeInv, TypeInv', GrownInv, NEW T, Completes(T, tree', nest', mode'),
         mode \notin {"run", "stop"}, NEW c, GoOn(c), UNCHANGED tree,
         c.node = Top.node, c.kind = Top.kind, c.l1 = Top.l1, c.l2 = Top.l2,
         Rank(Top.at) < Rank(c.at)
  PROVE  Completes(T, tree, nest, mode)
<1>1. Len(nest) \in DOMAIN nest /\ DOMAIN nest = 1 .. Len(nest) /\ Len(nest) \in Nat
  BY TopFacts
<1>2. /\ DOMAIN nest' = DOMAIN nest /\ Len(nest') = Len(nest) /\ nest'[Len(nest)] = c
      /\ \A k \in DOMAIN nest : k # Len(nest) => nest'[k] = nest[k]
  BY <1>1 DEF GoOn, TypeInv
<1>3. TreeGrows /\ Len(tree) <= Len(tree')
  BY DEF TreeGrows, TypeInv
<1>4. c.at \in Parts /\ Top.at \in Parts /\ Rank(c.at) \in Nat /\ Rank(Top.at) \in Nat
      /\ \A part \in Parts : Rank(part) \in Nat
  <2>1. c \in Frames
    BY <1>1, <1>2 DEF TypeInv
  <2> QED
    BY <2>1, TopFacts, RankFacts DEF Frames, Parts
<1>5. ASSUME NEW k \in DOMAIN nest', NEW u \in Nat, NEW part \in Parts,
             Grows(tree, nest'[k], k = Len(nest'), mode', u, part)
      PROVE  \E j \in DOMAIN nest : Grows(tree, nest[j], j = Len(nest), mode, u, part)
  <2>1. CASE k = Len(nest)
    <3>1. Grows(tree, c, TRUE, mode', u, part)
      BY <1>2, <1>5, <2>1
    <3>a. \A r \in Nat : r > Rank(c.at) \/ r = Rank(c.at) => r > Rank(Top.at)
      BY <1>4
    <3>2. \/ u = Top.node /\ Rank(part) > Rank(Top.at)
          \/ /\ Top.kind = "cond_block" /\ Top.l1 # Top.l2
             /\ u = tree[Top.node].up /\ part = "branch"
      <4>1. CASE u = c.node /\ Rank(part) > Rank(c.at)
        BY <1>4, <3>a, <4>1
      <4>2. CASE u = c.node /\ part = c.at
        BY <1>4, <3>a, <4>2
      <4>3. CASE c.kind = "cond_block" /\ c.l1 # c.l2 /\ u = tree[c.node].up /\ part = "branch"
        BY <4>3
      <4> QED
        BY <3>1, <4>1, <4>2, <4>3 DEF Grows
    <3>3. Grows(tree, nest[k], k = Len(nest), mode, u, part)
      BY <2>1, <3>2 DEF Grows, Top
    <3> QED
      BY <1>2, <3>3
  <2>2. CASE k # Len(nest)
    <3>1. Grows(tree, nest[k], k = Len(nest), mode, u, part)
      BY <1>2, <1>5, <2>2 DEF Grows
    <3> QED
      BY <1>2, <3>1
  <2> QED
    BY <2>1, <2>2
<1> QED
  BY <1>3, <1>5, CompletesBefore

LEMMA BranchCompletes ==
  ASSUME TypeInv, TypeInv', GrownInv, NEW T, Completes(T, tree', nest', mode'),
         mode \notin {"run", "stop"}, NEW c, GoOn(c), Top.kind = "cond_block",
         NEW kind, tree' = Append(tree, Node(kind, CondNode, "branch")),
         c.node = New, Top.l1 # Top.l2
  PROVE  Completes(T, tree, nest, mode)
<1>1. Len(nest) \in DOMAIN nest /\ DOMAIN nest = 1 .. Len(nest) /\ Len(nest) \in Nat
      /\ DOMAIN tree = 1 .. Len(tree) /\ Len(tree) \in Nat /\ New = Len(tree) + 1
  BY TopFacts DEF New
<1>2. /\ DOMAIN nest' = DOMAIN nest /\ Len(nest') = Len(nest) /\ nest'[Len(nest)] = c
      /\ \A k \in DOMAIN nest : k # Len(nest) => nest'[k] = nest[k]
  BY <1>1 DEF GoOn, TypeInv
<1>3. /\ DOMAIN tree' = 1 .. New /\ Len(tree') = New
      /\ tree'[New] = Node(kind, CondNode, "branch")
      /\ \A n \in DOMAIN tree : n \in DOMAIN tree' /\ tree'[n] = tree[n]
  BY <1>1 DEF TypeInv
<1>4. tree'[New].up = CondNode /\ tree'[New].part = "branch"
  BY <1>3 DEF Node
<1>5. TreeGrows /\ Len(tree) <= Len(tree')
  BY <1>1, <1>3 DEF TreeGrows
<1>6. \E k \in DOMAIN nest : Grows(tree, nest[k], k = Len(nest), mode, CondNode, "branch")
  <2>1. Grows(tree, nest[Len(nest)], TRUE, mode, CondNode, "branch")
    BY DEF Grows, Top, CondNode
  <2> QED
    BY <1>1, <2>1
<1>7. ASSUME NEW k \in DOMAIN nest', NEW u \in Nat, NEW part \in Parts,
             Grows(tree', nest'[k], k = Len(nest'), mode', u, part)
      PROVE  \/ u > Len(tree)
             \/ \E j \in DOMAIN nest : Grows(tree, nest[j], j = Len(nest), mode, u, part)
  <2>1. CASE k = Len(nest)
    <3>1. u = New \/ (u = CondNode /\ part = "branch")
      BY <1>2, <1>4, <1>7, <2>1 DEF Grows
    <3> QED
      BY <1>1, <1>6, <3>1
  <2>2. CASE k # Len(nest)
    <3>1. nest'[k] = nest[k] /\ k \in DOMAIN nest
      BY <1>2, <2>2
    <3>2. nest[k].kind = "cond_block" => tree'[nest[k].node] = tree[nest[k].node]
      BY <1>3, <3>1 DEF GrownInv, Grown, Nested, Built
    <3>3. Grows(tree, nest[k], k = Len(nest), mode, u, part)
      BY <1>2, <1>7, <2>2, <3>1, <3>2 DEF Grows
    <3> QED
      BY <3>1, <3>3
  <2> QED
    BY <2>1, <2>2
<1>8. \A n \in DOMAIN tree' : n \notin DOMAIN tree => n = New
  BY <1>1, <1>3
<1> QED
  BY <1>4, <1>5, <1>6, <1>7, <1>8, CompletesBefore

LEMMA DoneCompletes ==
  ASSUME TypeInv, TypeInv', Shape, GrownInv, NEW T, Completes(T, tree', nest', mode'),
         mode \notin {"run", "stop"}, Done, UNCHANGED tree, Top.kind # "function",
         NEW g, g = nest[Len(nest) - 1], g.at = "body" \/ ~Wants(mode')
  PROVE  Completes(T, tree, nest, mode)
<1>1. Len(nest) >= 2 /\ Len(nest) \in DOMAIN nest /\ DOMAIN nest = 1 .. Len(nest) /\ Len(nest) \in Nat
  BY InnerEmission, TopFacts
<1>2. /\ DOMAIN nest' = 1 .. Len(nest) - 1 /\ Len(nest') = Len(nest) - 1
      /\ \A k \in DOMAIN nest' : nest'[k] = nest[k]
  <2>1. nest \in Seq(Frames) /\ 1 \in 0 .. Len(nest) /\ nest' = SubSeq(nest, 1, Len(nest) - 1)
    BY <1>1 DEF Done, TypeInv
  <2> QED
    BY <2>1, DropFacts
<1>3. TreeGrows /\ Len(tree) <= Len(tree')
  BY DEF TreeGrows, TypeInv
<1>4. ASSUME NEW k \in DOMAIN nest', NEW u \in Nat, NEW part \in Parts,
             Grows(tree, nest'[k], k = Len(nest'), mode', u, part)
      PROVE  \E j \in DOMAIN nest : Grows(tree, nest[j], j = Len(nest), mode, u, part)
  <2>1. k \in DOMAIN nest /\ nest'[k] = nest[k]
    BY <1>1, <1>2
  <2>2. k = Len(nest') => nest[k] = g
    BY <1>2
  <2>3. Grows(tree, nest[k], k = Len(nest), mode, u, part)
    BY <1>4, <2>1, <2>2 DEF Grows
  <2> QED
    BY <2>1, <2>3
<1> QED
  BY <1>3, <1>4, CompletesBefore

-----------------------------------------------------------------------------
(* Kids that are to come. *)

LEMMA ComingFacts ==
  ASSUME NEW T \in Seq(Nodes), NEW u, NEW part, NEW n
  PROVE  /\ Coming(T, u, part, n) \in SUBSET (DOMAIN T)
         /\ \A k : k \in Coming(T, u, part, n) <=>
              k \in DOMAIN T /\ T[k].up = u /\ T[k].part = part /\ k > n
         /\ \A k : k \in Of(T)!Kids(u, part) <=> k \in DOMAIN T /\ T[k].up = u /\ T[k].part = part
         /\ Of(T)!Earliest(Coming(T, u, part, n)) \in 0 .. Len(T) \/ Coming(T, u, part, n) = {}
         /\ Coming(T, u, part, n) # {} =>
              Of(T)!Begin(Of(T)!Earliest(Coming(T, u, part, n))) \in Of(T)!Points
<1>1. \A k : k \in Of(T)!Kids(u, part) <=> k \in DOMAIN T /\ T[k].up = u /\ T[k].part = part
  BY DEF Of!Kids
<1>2. \A k : k \in Coming(T, u, part, n) <=>
        k \in DOMAIN T /\ T[k].up = u /\ T[k].part = part /\ k > n
  BY <1>1 DEF Coming
<1>3. Coming(T, u, part, n) \in SUBSET (DOMAIN T)
  BY <1>2
<1>4. Coming(T, u, part, n) # {} => Of(T)!Earliest(Coming(T, u, part, n)) \in DOMAIN T
  BY <1>3, EarliestFacts
<1>5. DOMAIN T \subseteq 0 .. Len(T)
  OBVIOUS
<1> QED
  BY <1>1, <1>2, <1>3, <1>4, <1>5, PointFacts

LEMMA CompletesFacts ==
  ASSUME NEW T, NEW t \in Seq(Nodes), NEW s, NEW m, Completes(T, t, s, m)
  PROVE  /\ T \in Seq(Nodes) /\ Len(t) <= Len(T) /\ Len(T) \in Nat /\ Len(t) \in Nat
         /\ DOMAIN t = 1 .. Len(t) /\ DOMAIN T = 1 .. Len(T)
         /\ \A n \in DOMAIN t : n \in DOMAIN T /\ n \in 0 .. Len(T) /\ T[n] = t[n] /\ T[n] \in Nodes
BY DEF Completes

(* A part none of whose kids has been emitted.                             *)
LEMMA AllComing ==
  ASSUME NEW T, NEW t \in Seq(Nodes), NEW s, NEW m, Completes(T, t, s, m), NEW u, NEW part,
         \A n \in DOMAIN t : ~(t[n].up = u /\ t[n].part = part)
  PROVE  Of(T)!Kids(u, part) = Coming(T, u, part, Len(t))
<1>1. /\ T \in Seq(Nodes) /\ Len(T) \in Nat /\ Len(t) \in Nat
      /\ DOMAIN t = 1 .. Len(t) /\ DOMAIN T = 1 .. Len(T)
      /\ \A n \in DOMAIN t : T[n] = t[n]
  BY CompletesFacts
<1>2. \A k \in DOMAIN T : T[k].up = u /\ T[k].part = part => k > Len(t)
  BY <1>1
<1>3. \A k : k \in Of(T)!Kids(u, part) <=> k \in Coming(T, u, part, Len(t))
  BY <1>1, <1>2, ComingFacts
<1> QED
  BY <1>3

(* A part that does not grow any more.                                     *)
LEMMA NoneComing ==
  ASSUME NEW T, NEW t \in Seq(Nodes), NEW s, NEW m, Completes(T, t, s, m),
         NEW u \in Nat, u <= Len(t), NEW part,
         m \notin {"run", "stop"} => \A k \in DOMAIN s : ~Grows(t, s[k], k = Len(s), m, u, part)
  PROVE  Coming(T, u, part, Len(t)) = {}
<1>1. T \in Seq(Nodes) /\ Len(t) \in Nat
  BY CompletesFacts
<1>2. \A k \in DOMAIN T : k > Len(t) => ~(T[k].up = u /\ T[k].part = part)
  BY <1>1 DEF Completes
<1> QED
  BY <1>1, <1>2, ComingFacts

(* What the program does next is a kid of the innermost emission.          *)
LEMMA KidBegins ==
  ASSUME TypeInv, TypeInv', NEW T, Completes(T, tree', nest', mode'), NEW F, NEW x,
         Reached(F, T, Len(tree), Top, mode, x), Wants(mode),
         New \in DOMAIN tree', tree'[New].up = Top.node, tree'[New].part = Top.at
  PROVE  \A v \in BOOLEAN : x[v] = F[Of(T)!Begin(New)]
<1>1. T \in Seq(Nodes) /\ \A n \in DOMAIN tree' : n \in DOMAIN T /\ T[n] = tree'[n]
  BY CompletesFacts DEF TypeInv
<1>2. New = Len(tree) + 1 /\ Len(tree) \in Nat
  BY TopFacts DEF New
<1> DEFINE S == Coming(T, Top.node, Top.at, Len(tree))
<1>3. New \in S /\ S \in SUBSET (DOMAIN T)
  BY <1>1, <1>2, ComingFacts
<1>4. \A k \in S : New <= k
  <2>1. \A k \in S : k > Len(tree) /\ k \in DOMAIN T
    BY <1>1, ComingFacts
  <2>2. DOMAIN T \subseteq Nat
    BY <1>1
  <2> QED
    BY <1>2, <2>1, <2>2
<1>5. Of(T)!Earliest(S) = New
  BY <1>1, <1>3, <1>4, EarliestFacts
<1> QED
  BY <1>3, <1>5 DEF Reached

(* A kid of the innermost emission has ended.                              *)
LEMMA KidEnds ==
  ASSUME TypeInv', NEW T, Completes(T, tree', nest', mode'), NEW F, Leads(F, T), NEW y,
         NEW f, NEW n \in DOMAIN tree', tree'[n].up = f.node, tree'[n].part = f.at,
         f.node \in 0 .. Len(tree'),
         mode' = IF f.at = "body" THEN "stmt" ELSE "value",
         f.at = "body" => \A k \in DOMAIN tree' : tree'[k].up = f.node => k <= n,
         \A v \in BOOLEAN : y[v] = F[Of(T)!Leave(n, v)]
  PROVE  Reached(F, T, Len(tree'), f, mode', y)
<1>1. /\ T \in Seq(Nodes) /\ n \in DOMAIN T /\ T[n] = tree'[n]
      /\ Len(tree') <= Len(T) /\ Len(T) \in Nat /\ Len(tree') \in Nat
      /\ DOMAIN tree' = 1 .. Len(tree') /\ DOMAIN T = 1 .. Len(T)
      /\ \A k \in DOMAIN tree' : T[k] = tree'[k]
  BY CompletesFacts DEF TypeInv
<1>2. CASE f.at # "body"
  <2>1. \A v \in BOOLEAN : Of(T)!Passed(f.node, f.at, v) \in Of(T)!Points =>
          F[Of(T)!Leave(n, v)] = F[Of(T)!Passed(f.node, f.at, v)]
    BY <1>1, <1>2, EndedLeads
  <2> QED
    BY <1>2, <2>1 DEF Reached, Wants
<1>3. CASE f.at = "body"
  <2>1. \A k \in DOMAIN T : T[k].up = f.node => (k > n <=> k > Len(tree'))
    BY <1>1, <1>3
  <2>2. Of(T)!Later(n) = Coming(T, f.node, "body", Len(tree'))
    <3>1. \A k : k \in Of(T)!Later(n) <=> k \in Of(T)!Kids(f.node, "body") /\ k > n
      BY <1>1, <1>3 DEF Of!Later
    <3>2. \A k : k \in Of(T)!Later(n) <=> k \in Coming(T, f.node, "body", Len(tree'))
      BY <1>1, <2>1, <3>1, ComingFacts
    <3> QED
      BY <3>2
  <2>3. T[n].up = f.node /\ T[n].part = "body" /\ f.node \in 0 .. Len(T)
    BY <1>1, <1>3
  <2> DEFINE S == Coming(T, f.node, "body", Len(tree'))
  <2>4. \A v \in BOOLEAN :
          /\ S # {} => F[Of(T)!Leave(n, v)] = F[Of(T)!Begin(Of(T)!Earliest(S))]
          /\ S = {} => F[Of(T)!Leave(n, v)] = F[Of(T)!At("closed", f.node)]
    BY <1>1, <2>2, <2>3, EndedLeads
  <2> QED
    BY <1>3, <2>4 DEF Reached
<1> QED
  BY <1>2, <1>3

(* A part begins, none of whose kids has been emitted.                     *)
LEMMA PartBegins ==
  ASSUME NEW T, NEW t \in Seq(Nodes), NEW s, NEW m, Completes(T, t, s, m), NEW F, NEW x,
         NEW f, Wants(m), \A n \in DOMAIN t : ~(t[n].up = f.node /\ t[n].part = f.at),
         Of(T)!Kids(f.node, f.at) # {} =>
           \A v \in BOOLEAN : x[v] = F[Of(T)!Begin(Of(T)!Kid(f.node, f.at))],
         Of(T)!Kids(f.node, f.at) = {} /\ f.at = "body" =>
           \A v \in BOOLEAN : x[v] = F[Of(T)!At("closed", f.node)]
  PROVE  Reached(F, T, Len(t), f, m, x)
<1>1. T \in Seq(Nodes)
  BY CompletesFacts
<1>2. Of(T)!Kids(f.node, f.at) = Coming(T, f.node, f.at, Len(t))
  BY AllComing
<1>3. Of(T)!Kid(f.node, f.at) = Of(T)!Earliest(Of(T)!Kids(f.node, f.at))
  BY <1>1, KidFacts
<1> QED
  BY <1>2, <1>3 DEF Reached, Wants

LEMMA BlockBegins ==
  ASSUME NEW T, NEW t \in Seq(Nodes), NEW s, NEW m, Completes(T, t, s, m), NEW F, Leads(F, T),
         NEW x, NEW f, m = "stmt", f.at = "body", f.node \in 0 .. Len(t),
         \A n \in DOMAIN t : ~(t[n].up = f.node /\ t[n].part = "body"),
         \A v \in BOOLEAN : x[v] = F[Of(T)!At("block", f.node)]
  PROVE  Reached(F, T, Len(t), f, m, x)
<1>1. T \in Seq(Nodes) /\ f.node \in 0 .. Len(T)
  BY CompletesFacts
<1>2. Of(T)!Kids(f.node, "body") # {} =>
        F[Of(T)!At("block", f.node)] = F[Of(T)!Begin(Of(T)!Kid(f.node, "body"))]
  BY <1>1, KidFacts, AtLeads
<1>3. Of(T)!At("closed", f.node) \in Of(T)!Points
  BY <1>1, PointFacts
<1>4. Of(T)!Kids(f.node, "body") = {} => F[Of(T)!At("block", f.node)] = F[Of(T)!At("closed", f.node)]
  BY <1>1, <1>3, AtLeads
<1> QED
  <2>1. Wants(m) /\ \A n \in DOMAIN t : ~(t[n].up = f.node /\ t[n].part = f.at)
    BY DEF Wants
  <2>2. Of(T)!Kids(f.node, f.at) # {} =>
          \A v \in BOOLEAN : x[v] = F[Of(T)!Begin(Of(T)!Kid(f.node, f.at))]
    BY <1>2
  <2>3. Of(T)!Kids(f.node, f.at) = {} /\ f.at = "body" =>
          \A v \in BOOLEAN : x[v] = F[Of(T)!At("closed", f.node)]
    BY <1>4
  <2> QED
    BY <2>1, <2>2, <2>3, PartBegins

(* The block of the innermost emission has ended.                          *)
LEMMA BlockCloses ==
  ASSUME NEW T, NEW F, NEW n, NEW f, NEW x, Reached(F, T, n, f, "stmt", x), f.at = "body",
         Coming(T, f.node, "body", n) = {}
  PROVE  \A v \in BOOLEAN : x[v] = F[Of(T)!At("closed", f.node)]
BY DEF Reached, Wants

-----------------------------------------------------------------------------
(* Labels that have a meaning, and the loops around. *)

LEMMA TargetsRelabel ==
  ASSUME NEW T, NEW F, NEW L, NEW M, NEW f, Targets(F, T, L, f),
         \A l \in Pending(f) : M[l] = L[l]
  PROVE  Targets(F, T, M, f)
<1>1. /\ f.kind \in {"and", "or"} => M[label_end(f)] = L[label_end(f)]
      /\ f.kind = "cond_block" => M[end_cond(f)] = L[end_cond(f)] /\ M[else_label(f)] = L[else_label(f)]
      /\ f.kind \in LoopKinds =>
           M[cur_break(f)] = L[cur_break(f)] /\ M[cur_continue(f)] = L[cur_continue(f)]
  BY DEF Pending, LoopKinds
<1> QED
  BY <1>1 DEF Targets

(* The labels in use are below the counter.                                *)
LEMMA LabelsKnown ==
  ASSUME TypeInv, Core, Once
  PROVE  /\ \A k \in DOMAIN nest : \A l \in Pending(nest[k]) : l \in Int /\ l < label_counter
         /\ \A i \in DOMAIN code : code[i].op \in Jumps \/ code[i] = Label(code[i].label) =>
              code[i].label \in Int /\ code[i].label < label_counter
<1>1. \A l \in Int : Declared(code, l) => l < label_counter
  BY DEF Once, Below
<1>2. ASSUME NEW k \in DOMAIN nest, NEW l \in Pending(nest[k])
      PROVE  l \in Int /\ l < label_counter
  <2>1. nest[k] \in Frames /\ nest[k].l1 \in Int /\ nest[k].l2 \in Int
    BY TopFacts DEF Frames
  <2>2. EarlyOf(code, tree, nest[k])
    BY DEF Core, DeclaredEarly
  <2>3. \A i \in Open(tree, nest[k]) : i < label_counter
    BY DEF Once, OpenLabels, Fresh
  <2>4. l \in Int
    BY <2>1, <1>2 DEF Pending, label_end, else_label, end_cond, cur_break, cur_continue, LoopKinds
  <2>5. l \in Open(tree, nest[k]) \/ Declared(code, l)
    <3>1. nest[k].kind \in FrameKinds
      BY <2>1 DEF Frames
    <3> QED
      BY <1>2, <2>1, <2>2, <3>1 DEF Pending, label_end, else_label, end_cond, cur_break,
         cur_continue, LoopKinds, FrameKinds, EarlyOf, Open
  <2> QED
    BY <1>1, <2>3, <2>4, <2>5
<1>3. ASSUME NEW i \in DOMAIN code, code[i].op \in Jumps \/ code[i] = Label(code[i].label)
      PROVE  code[i].label \in Int /\ code[i].label < label_counter
  <2>1. code[i] \in Items
    BY DEF TypeInv
  <2>2. code[i].label \in Int
    BY <2>1 DEF Items
  <2>3. CASE code[i].op \in Jumps
    <3>1. Awaited(code, nest, code[i].label)
      BY <2>3, ClosedJumps DEF Core
    <3> QED
      BY <1>1, <1>2, <2>2, <3>1 DEF Awaited
  <2>4. CASE code[i] = Label(code[i].label)
    BY <1>1, <2>2, <2>4 DEF Declared
  <2> QED
    BY <1>3, <2>3, <2>4
<1> QED
  BY <1>2, <1>3

LEMMA NewLabels ==
  ASSUME TypeInv, Core, Once, NEW T, NEW F, NEW L, NEW M, NEW x, Reaches(F, T, L, code, x),
         \A k \in DOMAIN nest : Targets(F, T, L, nest[k]),
         \A l \in Int : l < label_counter => M[l] = L[l]
  PROVE  /\ Reaches(F, T, M, code, x)
         /\ \A k \in DOMAIN nest : Targets(F, T, M, nest[k])
<1>1. Reaches(F, T, M, code, x)
  <2>1. \A i \in DOMAIN code : code[i].op \in Jumps \/ code[i] = Label(code[i].label) =>
          M[code[i].label] = L[code[i].label]
    BY LabelsKnown
  <2> QED
    BY <2>1, RunsRelabel
<1>2. ASSUME NEW k \in DOMAIN nest PROVE Targets(F, T, M, nest[k])
  <2>1. \A l \in Pending(nest[k]) : M[l] = L[l]
    BY LabelsKnown
  <2> QED
    BY <2>1, TargetsRelabel
<1> QED
  BY <1>1, <1>2

(* break and continue lead out of a node that is no loop.                  *)
LEMMA Outward ==
  ASSUME NEW T \in Seq(Nodes), NEW F, Leads(F, T), NEW n \in DOMAIN T,
         T[n].kind \notin LoopKinds, T[n].up \in 0 .. Len(T)
  PROVE  /\ F[Of(T)!At("break", n)] = F[Of(T)!At("break", T[n].up)]
         /\ F[Of(T)!At("continue", n)] = F[Of(T)!At("continue", T[n].up)]
<1>1. n \in 0 .. Len(T)
  OBVIOUS
<1>2. /\ Of(T)!At("break", T[n].up) \in Of(T)!Points
      /\ Of(T)!At("continue", T[n].up) \in Of(T)!Points
  BY PointFacts
<1>3. /\ Of(T)!OfLoop("break", n) = Of(T)!At("break", T[n].up)
      /\ Of(T)!OfLoop("continue", n) = Of(T)!At("continue", T[n].up)
  BY DEF Of!OfLoop, LoopKinds
<1> QED
  BY <1>1, <1>2, <1>3, AtLeads

LEMMA LoopOut ==
  ASSUME NEW T \in Seq(Nodes), NEW F, Leads(F, T), NEW n \in DOMAIN T, T[n].kind \in LoopKinds
  PROVE  /\ F[Of(T)!At("break", n)] = F[Of(T)!Leave(n, TRUE)]
         /\ F[Of(T)!At("continue", n)] = F[Of(T)!At("test", n)]
<1>1. n \in 0 .. Len(T)
  OBVIOUS
<1>2. Of(T)!Leave(n, TRUE) \in Of(T)!Points /\ Of(T)!At("test", n) \in Of(T)!Points
  BY <1>1, PointFacts
<1>3. /\ Of(T)!OfLoop("break", n) = Of(T)!Leave(n, TRUE)
      /\ Of(T)!OfLoop("continue", n) = Of(T)!At("test", n)
  BY DEF Of!OfLoop, LoopKinds
<1>4. F[Of(T)!At("break", n)] = F[Of(T)!Leave(n, TRUE)]
  <2>1. PICK q \in Of(T)!Points : q = Of(T)!Leave(n, TRUE)
    BY <1>2
  <2>2. q = Of(T)!OfLoop("break", n)
    BY <1>3, <2>1
  <2>3. F[Of(T)!At("break", n)] = F[q]
    BY <1>1, <2>2, AtLeads
  <2> QED
    BY <2>1, <2>3
<1>5. F[Of(T)!At("continue", n)] = F[Of(T)!At("test", n)]
  BY <1>1, <1>2, <1>3, AtLeads
<1> QED
  BY <1>4, <1>5

(* The ways out, for each way the nest of emissions moves.                 *)
LEMMA EnterWays ==
  ASSUME TypeInv, TypeInv', NEW T, NEW F, Ways(F, T, nest), NEW c, Enter(c),
         c.kind \in LoopKinds =>
           /\ F[Of(T)!At("break", c.node)] = F[Of(T)!Leave(c.node, TRUE)]
           /\ F[Of(T)!At("continue", c.node)] = F[Of(T)!At("test", c.node)],
         c.kind \notin LoopKinds =>
           /\ F[Of(T)!At("break", c.node)] = F[Of(T)!At("break", Top.node)]
           /\ F[Of(T)!At("continue", c.node)] = F[Of(T)!At("continue", Top.node)]
  PROVE  Ways(F, T, nest')
<1>1. Len(nest) \in DOMAIN nest /\ DOMAIN nest = 1 .. Len(nest) /\ Len(nest) \in Nat
  BY TopFacts
<1>2. /\ DOMAIN nest' = 1 .. Len(nest) + 1 /\ Len(nest') = Len(nest) + 1
      /\ nest'[Len(nest) + 1] = c /\ \A k \in DOMAIN nest : nest'[k] = nest[k]
  BY <1>1 DEF Enter, TypeInv
<1> SUFFICES ASSUME NEW i \in DOMAIN nest', NEW k \in DOMAIN nest', LoopOf(nest', i, k)
             PROVE  /\ F[Of(T)!At("break", nest'[k].node)] = F[Of(T)!Leave(nest'[i].node, TRUE)]
                    /\ F[Of(T)!At("continue", nest'[k].node)] = F[Of(T)!At("test", nest'[i].node)]
  BY DEF Ways
<1>3. CASE k # Len(nest) + 1
  <2>1. i \in DOMAIN nest /\ k \in DOMAIN nest /\ LoopOf(nest, i, k)
    BY <1>1, <1>2, <1>3 DEF LoopOf
  <2>2. /\ F[Of(T)!At("break", nest[k].node)] = F[Of(T)!Leave(nest[i].node, TRUE)]
        /\ F[Of(T)!At("continue", nest[k].node)] = F[Of(T)!At("test", nest[i].node)]
    BY <2>1 DEF Ways
  <2>3. nest'[k] = nest[k] /\ nest'[i] = nest[i]
    BY <1>2, <2>1
  <2> QED
    BY <2>2, <2>3
<1>4. CASE k = Len(nest) + 1 /\ c.kind \in LoopKinds
  <2>1. i = k
    BY <1>1, <1>2, <1>4 DEF LoopOf
  <2> QED
    BY <1>2, <1>4, <2>1
<1>5. CASE k = Len(nest) + 1 /\ c.kind \notin LoopKinds
  <2>1. i \in DOMAIN nest /\ LoopOf(nest, i, Len(nest))
    BY <1>1, <1>2, <1>5 DEF LoopOf
  <2> QED
    <3>1. /\ F[Of(T)!At("break", Top.node)] = F[Of(T)!Leave(nest[i].node, TRUE)]
          /\ F[Of(T)!At("continue", Top.node)] = F[Of(T)!At("test", nest[i].node)]
      BY <1>1, <2>1 DEF Ways, Top
    <3>2. nest'[k] = c /\ nest'[i] = nest[i]
      BY <1>2, <1>5, <2>1
    <3> QED
      BY <1>5, <3>1, <3>2
<1> QED
  BY <1>3, <1>4, <1>5

LEMMA GoOnWays ==
  ASSUME TypeInv, TypeInv', NEW T, NEW F, Ways(F, T, nest), NEW c, GoOn(c), c.kind = Top.kind,
         c.node = Top.node \/
           /\ Top.kind \notin LoopKinds
           /\ F[Of(T)!At("break", c.node)] = F[Of(T)!At("break", Top.node)]
           /\ F[Of(T)!At("continue", c.node)] = F[Of(T)!At("continue", Top.node)]
  PROVE  Ways(F, T, nest')
<1>1. Len(nest) \in DOMAIN nest /\ DOMAIN nest = 1 .. Len(nest) /\ Len(nest) \in Nat
  BY TopFacts
<1>2. /\ DOMAIN nest' = DOMAIN nest /\ Len(nest') = Len(nest) /\ nest'[Len(nest)] = c
      /\ \A k \in DOMAIN nest : k # Len(nest) => nest'[k] = nest[k]
  BY <1>1 DEF GoOn, TypeInv
<1> SUFFICES ASSUME NEW i \in DOMAIN nest', NEW k \in DOMAIN nest', LoopOf(nest', i, k)
             PROVE  /\ F[Of(T)!At("break", nest'[k].node)] = F[Of(T)!Leave(nest'[i].node, TRUE)]
                    /\ F[Of(T)!At("continue", nest'[k].node)] = F[Of(T)!At("test", nest'[i].node)]
  BY DEF Ways
<1>3. \A j \in DOMAIN nest : nest'[j].kind = nest[j].kind
  BY <1>2 DEF Top
<1>4. LoopOf(nest, i, k) /\ i \in DOMAIN nest /\ k \in DOMAIN nest
  BY <1>2, <1>3 DEF LoopOf
<1>5. nest'[i].node = nest[i].node
  BY <1>2, <1>4 DEF LoopOf, Top
<1>6. /\ F[Of(T)!At("break", nest'[k].node)] = F[Of(T)!At("break", nest[k].node)]
      /\ F[Of(T)!At("continue", nest'[k].node)] = F[Of(T)!At("continue", nest[k].node)]
  BY <1>2, <1>4 DEF Top
<1> QED
  BY <1>4, <1>5, <1>6 DEF Ways

LEMMA DoneWays ==
  ASSUME TypeInv, Shape, NEW T, NEW F, Ways(F, T, nest), Done, Top.kind # "function"
  PROVE  Ways(F, T, nest')
<1>1. Len(nest) >= 2 /\ Len(nest) \in DOMAIN nest /\ DOMAIN nest = 1 .. Len(nest) /\ Len(nest) \in Nat
  BY InnerEmission, TopFacts
<1>2. /\ DOMAIN nest' = 1 .. Len(nest) - 1 /\ Len(nest') = Len(nest) - 1
      /\ \A k \in DOMAIN nest' : nest'[k] = nest[k]
  <2>1. nest \in Seq(Frames) /\ 1 \in 0 .. Len(nest) /\ nest' = SubSeq(nest, 1, Len(nest) - 1)
    BY <1>1 DEF Done, TypeInv
  <2> QED
    BY <2>1, DropFacts
<1>3. \A i, k \in DOMAIN nest' : LoopOf(nest', i, k) =>
        i \in DOMAIN nest /\ k \in DOMAIN nest /\ LoopOf(nest, i, k)
  BY <1>1, <1>2 DEF LoopOf
<1> SUFFICES ASSUME NEW i \in DOMAIN nest', NEW k \in DOMAIN nest', LoopOf(nest', i, k)
             PROVE  /\ F[Of(T)!At("break", nest'[k].node)] = F[Of(T)!Leave(nest'[i].node, TRUE)]
                    /\ F[Of(T)!At("continue", nest'[k].node)] = F[Of(T)!At("test", nest'[i].node)]
  BY DEF Ways
<1>4. /\ F[Of(T)!At("break", nest[k].node)] = F[Of(T)!Leave(nest[i].node, TRUE)]
      /\ F[Of(T)!At("continue", nest[k].node)] = F[Of(T)!At("test", nest[i].node)]
  BY <1>3 DEF Ways
<1>5. nest'[k] = nest[k] /\ nest'[i] = nest[i]
  BY <1>2
<1> QED
  BY <1>4, <1>5

(* The facts that the steps below have in common.                          *)
LEMMA LoweredBy ==
  ASSUME NEW F, NEW T, NEW c, NEW t, NEW s, NEW m, NEW f, f = s[Len(s)], NEW L, NEW x,
         Reaches(F, T, L, c, x), Reached(F, T, Len(t), f, m, x),
         \A k \in DOMAIN s : Targets(F, T, L, s[k]), Ways(F, T, s)
  PROVE  Lowered(F, T, c, t, s, m)
BY DEF Lowered

LEMMA LoweredParts ==
  ASSUME TypeInv, NEW F, NEW T, Lowered(F, T, code, tree, nest, mode)
  PROVE  \E L, x :
           /\ Reaches(F, T, L, code, x) /\ Reached(F, T, Len(tree), Top, mode, x)
           /\ \A k \in DOMAIN nest : Targets(F, T, L, nest[k])
           /\ Targets(F, T, L, Top) /\ Ways(F, T, nest)
<1>1. Len(nest) \in DOMAIN nest
  BY TopFacts
<1> QED
  BY <1>1 DEF Lowered, Top

LEMMA EmitOne ==
  ASSUME TypeInv, NEW F, NEW T, NEW L, NEW it \in Items, Emits(<<it>>), NEW x, NEW y,
         Reaches(F, T, L, code, x),
         \A w : (\A v \in BOOLEAN : w[v] = x[v]) => Fits(F, T, L, it, w, y)
  PROVE  Reaches(F, T, L, code', y)
<1>1. code' = Append(code, it) /\ code \in Seq(Items)
  BY DEF Emits, TypeInv
<1> QED
  BY <1>1, RunsGrow

LEMMA EmitTwo ==
  ASSUME TypeInv, NEW F, NEW T, NEW L, NEW a \in Items, NEW b \in Items, Emits(<<a, b>>),
         NEW x, NEW y, NEW z, Reaches(F, T, L, code, x),
         \A w : (\A v \in BOOLEAN : w[v] = x[v]) => Fits(F, T, L, a, w, y),
         \A w : (\A v \in BOOLEAN : w[v] = y[v]) => Fits(F, T, L, b, w, z)
  PROVE  Reaches(F, T, L, code', z)
<1>1. code \in Seq(Items) /\ Append(code, a) \in Seq(Items)
  BY DEF TypeInv
<1>2. code' = Append(Append(code, a), b)
  BY <1>1 DEF Emits
<1>3. Reaches(F, T, L, Append(code, a), y)
  BY <1>1, RunsGrow
<1> QED
  BY <1>1, <1>2, <1>3, RunsGrow

-----------------------------------------------------------------------------
(* The emitted code over each step.  T is what the tree will be in the end *)
(* (Onward).  A step is sound when T completes the tree before it too, and *)
(* code that meant T so far means T so far afterwards (Sound).             *)
Onward(F, T) ==
  /\ TypeInv /\ TypeInv' /\ Core /\ Once /\ GrownInv /\ GrownInv'
  /\ mode \notin {"run", "stop"}
  /\ Leads(F, T) /\ Completes(T, tree', nest', mode')

LoweredNow(F, T)  == Lowered(F, T, code, tree, nest, mode)
LoweredNext(F, T) == Lowered(F, T, code', tree', nest', mode')

LEMMA OnwardFacts ==
  ASSUME NEW F, NEW T, Onward(F, T)
  PROVE  /\ TypeInv /\ TypeInv' /\ Core /\ Once /\ GrownInv /\ GrownInv' /\ Shape
         /\ mode \notin {"run", "stop"}
         /\ Leads(F, T) /\ Completes(T, tree', nest', mode') /\ T \in Seq(Nodes)
         /\ Len(tree') <= Len(T) /\ Len(T) \in Nat /\ Len(tree') \in Nat
         /\ tree' \in Seq(Nodes)
         /\ DOMAIN tree' = 1 .. Len(tree') /\ DOMAIN T = 1 .. Len(T)
         /\ \A n \in DOMAIN tree' : n \in DOMAIN T /\ n \in 0 .. Len(T) /\ T[n] = tree'[n]
         /\ \A n \in 0 .. Len(tree') : n \in 0 .. Len(T)
<1>1. /\ TypeInv /\ TypeInv' /\ Core /\ Once /\ GrownInv /\ GrownInv'
      /\ mode \notin {"run", "stop"}
      /\ Leads(F, T) /\ Completes(T, tree', nest', mode')
  BY DEF Onward
<1>2. tree' \in Seq(Nodes)
  BY <1>1 DEF TypeInv
<1>3. /\ T \in Seq(Nodes) /\ Len(tree') <= Len(T) /\ Len(T) \in Nat /\ Len(tree') \in Nat
      /\ DOMAIN tree' = 1 .. Len(tree') /\ DOMAIN T = 1 .. Len(T)
      /\ \A n \in DOMAIN tree' : n \in DOMAIN T /\ n \in 0 .. Len(T) /\ T[n] = tree'[n]
  BY <1>1, <1>2, CompletesFacts
<1>4. \A n \in 0 .. Len(tree') : n \in 0 .. Len(T)
  BY <1>3
<1> QED
  BY <1>1, <1>2, <1>3, <1>4 DEF Core

(* The node that a step adds for a kid of the innermost emission.          *)
LEMMA NewNode ==
  ASSUME NEW F, NEW T, Onward(F, T), NEW kind, Source(kind)
  PROVE  /\ New \in DOMAIN T /\ New \in 0 .. Len(T) /\ New \in Nat /\ New # 0
         /\ New \in DOMAIN tree' /\ New = Len(tree')
         /\ T[New].kind = kind /\ T[New].up = Top.node /\ T[New].part = Top.at
         /\ tree'[New].kind = kind /\ tree'[New].up = Top.node /\ tree'[New].part = Top.at
         /\ Top.node \in 0 .. Len(T) /\ Top.node \in 0 .. Len(tree')
         /\ \A n \in DOMAIN tree' : tree'[n].up # New /\ n <= New
         /\ NewAbove(Top.node)
         /\ \A n \in DOMAIN tree' : n \notin DOMAIN tree =>
              tree'[n].up = Top.node /\ tree'[n].part = Top.at
<1>1. /\ New \in DOMAIN tree' /\ Len(tree') = New /\ NewAbove(Top.node)
      /\ tree'[New].kind = kind /\ tree'[New].up = Top.node /\ tree'[New].part = Top.at
      /\ \A n \in DOMAIN tree' : n \notin DOMAIN tree => n = New
  BY OnwardFacts, OneNode
<1>2. New = Len(tree) + 1 /\ Len(tree) \in Nat
  BY OnwardFacts, TopFacts DEF New
<1>3. Top.node \in 0 .. Len(tree)
  BY OnwardFacts, TopFacts, NodesOrdered DEF Top
<1>4. Top.node \in 0 .. Len(tree')
  BY <1>1, <1>2, <1>3
<1>5. \A n \in DOMAIN tree' : tree'[n].up # New /\ n <= New
  <2>1. \A n \in DOMAIN tree' : tree'[n].up < n
    BY OnwardFacts DEF GrownInv, Grown, Upwards
  <2>2. \A n \in DOMAIN tree' : tree'[n].up \in Nat
    <3>1. \A n \in DOMAIN tree' : tree'[n] \in Nodes
      BY OnwardFacts DEF TypeInv
    <3> QED
      BY <3>1 DEF Nodes
  <2>3. DOMAIN tree' = 1 .. New
    BY <1>1, OnwardFacts
  <2> QED
    BY <1>2, <2>1, <2>2, <2>3
<1>6. New \in DOMAIN T /\ New \in 0 .. Len(T) /\ T[New] = tree'[New] /\ Top.node \in 0 .. Len(T)
  BY <1>1, <1>4, OnwardFacts
<1> QED
  BY <1>1, <1>2, <1>4, <1>5, <1>6

(* A statement of a block yields nothing.                                  *)
LEMMA SameEnd ==
  ASSUME NEW T \in Seq(Nodes), NEW F, Leads(F, T), NEW n \in DOMAIN T,
         T[n].part = "body", T[n].up \in 0 .. Len(T)
  PROVE  \A v \in BOOLEAN : F[Of(T)!Leave(n, v)] = F[Of(T)!Leave(n, TRUE)]
BY EndedLeads

LEMMA StayLowers ==
  ASSUME NEW F, NEW T, Onward(F, T), NEW kind, Source(kind), UNCHANGED nest,
         mode' = IF Top.at = "body" THEN "stmt" ELSE "value",
         NEW L, NEW y, Reaches(F, T, L, code', y), \A v \in BOOLEAN : y[v] = F[Of(T)!Leave(New, v)],
         \A k \in DOMAIN nest : Targets(F, T, L, nest[k]), Ways(F, T, nest)
  PROVE  LoweredNext(F, T)
<1>1. Reached(F, T, Len(tree'), Top, mode', y)
  BY OnwardFacts, NewNode, KidEnds
<1>2. \A k \in DOMAIN nest' : Targets(F, T, L, nest'[k])
  OBVIOUS
<1>3. Ways(F, T, nest') /\ Top = nest'[Len(nest')]
  BY DEF Top
<1> QED
  BY <1>1, <1>2, <1>3, LoweredBy DEF LoweredNext

LEMMA EnterLowers ==
  ASSUME NEW F, NEW T, Onward(F, T), NEW c, Enter(c),
         NEW M, NEW y, Reaches(F, T, M, code', y), Reached(F, T, Len(tree'), c, mode', y),
         \A k \in DOMAIN nest : Targets(F, T, M, nest[k]), Targets(F, T, M, c), Ways(F, T, nest'),
         Ways(F, T, nest)
  PROVE  LoweredNext(F, T)
<1>1. Len(nest) \in DOMAIN nest /\ DOMAIN nest = 1 .. Len(nest) /\ Len(nest) \in Nat
  BY OnwardFacts, TopFacts
<1>2. /\ DOMAIN nest' = 1 .. Len(nest) + 1 /\ Len(nest') = Len(nest) + 1
      /\ nest'[Len(nest) + 1] = c /\ \A k \in DOMAIN nest : nest'[k] = nest[k]
  BY <1>1, OnwardFacts DEF Enter, TypeInv
<1>3. \A k \in DOMAIN nest' : Targets(F, T, M, nest'[k])
  <2> SUFFICES ASSUME NEW k \in DOMAIN nest' PROVE Targets(F, T, M, nest'[k])
    OBVIOUS
  <2>1. CASE k = Len(nest) + 1
    BY <1>2, <2>1
  <2>2. CASE k # Len(nest) + 1
    BY <1>1, <1>2, <2>2
  <2> QED
    BY <2>1, <2>2
<1>4. c = nest'[Len(nest')]
  BY <1>2
<1> QED
  BY <1>3, <1>4, LoweredBy DEF LoweredNext

LEMMA GoOnLowers ==
  ASSUME NEW F, NEW T, Onward(F, T), NEW c, GoOn(c),
         NEW M, NEW y, Reaches(F, T, M, code', y), Reached(F, T, Len(tree'), c, mode', y),
         \A k \in DOMAIN nest : Targets(F, T, M, nest[k]), Targets(F, T, M, c), Ways(F, T, nest')
  PROVE  LoweredNext(F, T)
<1>1. Len(nest) \in DOMAIN nest /\ DOMAIN nest = 1 .. Len(nest) /\ Len(nest) \in Nat
  BY OnwardFacts, TopFacts
<1>2. /\ DOMAIN nest' = DOMAIN nest /\ Len(nest') = Len(nest) /\ nest'[Len(nest)] = c
      /\ \A k \in DOMAIN nest : k # Len(nest) => nest'[k] = nest[k]
  BY <1>1, OnwardFacts DEF GoOn, TypeInv
<1>3. \A k \in DOMAIN nest' : Targets(F, T, M, nest'[k])
  <2> SUFFICES ASSUME NEW k \in DOMAIN nest PROVE Targets(F, T, M, nest'[k])
    BY <1>2
  <2>1. CASE k = Len(nest)
    BY <1>2, <2>1
  <2>2. CASE k # Len(nest)
    BY <1>2, <2>2
  <2> QED
    BY <2>1, <2>2
<1>4. c = nest'[Len(nest')]
  BY <1>2
<1> QED
  BY <1>3, <1>4, LoweredBy DEF LoweredNext

LEMMA DoneLowers ==
  ASSUME NEW F, NEW T, Onward(F, T), Done, UNCHANGED tree, Top.kind # "function",
         NEW g, g = nest[Len(nest) - 1],
         mode' = IF g.at = "body" THEN "stmt" ELSE "value",
         NEW L, NEW y, Reaches(F, T, L, code', y),
         NEW n, n = Statement(tree, Top), \A v \in BOOLEAN : y[v] = F[Of(T)!Leave(n, v)],
         \A k \in DOMAIN nest : Targets(F, T, L, nest[k]), Ways(F, T, nest)
  PROVE  LoweredNext(F, T)
<1>1. Len(nest) >= 2 /\ Len(nest) \in DOMAIN nest /\ DOMAIN nest = 1 .. Len(nest) /\ Len(nest) \in Nat
  BY OnwardFacts, InnerEmission, TopFacts
<1>2. /\ DOMAIN nest' = 1 .. Len(nest) - 1 /\ Len(nest') = Len(nest) - 1
      /\ \A k \in DOMAIN nest' : nest'[k] = nest[k]
  <2>1. nest \in Seq(Frames) /\ 1 \in 0 .. Len(nest) /\ nest' = SubSeq(nest, 1, Len(nest) - 1)
    BY <1>1, OnwardFacts DEF Done, TypeInv
  <2> QED
    BY <2>1, DropFacts
<1>3. nest'[Len(nest')] = g
  BY <1>1, <1>2
<1>4. Placed(tree, Top, g) /\ n \in DOMAIN tree
  BY OnwardFacts, Beneath
<1>5. g.node \in 0 .. Len(tree')
  <2>1. Len(nest) - 1 \in DOMAIN nest
    BY <1>1
  <2> QED
    BY <2>1, OnwardFacts, NodesOrdered
<1>6. Reached(F, T, Len(tree'), g, mode', y)
  <2>1. n \in DOMAIN tree' /\ tree'[n].up = g.node /\ tree'[n].part = g.at
        /\ \A k \in DOMAIN tree' : tree'[k].up = g.node => k <= n
    BY <1>4 DEF Placed
  <2> QED
    BY <1>5, <2>1, OnwardFacts, KidEnds
<1>7. \A k \in DOMAIN nest' : Targets(F, T, L, nest'[k])
  BY <1>1, <1>2
<1>8. Ways(F, T, nest')
  BY OnwardFacts, DoneWays
<1> QED
  BY <1>3, <1>6, <1>7, <1>8, LoweredBy DEF LoweredNext

Sound(F, T) == /\ Completes(T, tree, nest, mode)
               /\ LoweredNow(F, T) => LoweredNext(F, T)

-----------------------------------------------------------------------------
(* Items, and the statements and operands that are one item. *)

LEMMA FitEvent ==
  ASSUME NEW T, NEW F, NEW L, NEW x, NEW y, NEW n \in DOMAIN T, n \in Nat, T[n].kind # "for_block",
         \A v \in BOOLEAN : x[v] = F[Of(T)!At("event", n)] /\ y[v] = F[Of(T)!Leave(n, v)]
  PROVE  Fits(F, T, L, Item("eval", -1, n), x, y) /\ Fits(F, T, L, Item("do", -1, n), x, y)
BY DEF Fits, Item

LEMMA FitJump ==
  ASSUME NEW T, NEW F, NEW L, NEW x, NEW y, NEW l \in Int
  PROVE  /\ Fits(F, T, L, Label(l), x, y) <=> \A v \in BOOLEAN : x[v] = L[l][v] /\ y[v] = L[l][v]
         /\ Fits(F, T, L, Jmp(l), x, y) <=> \A v \in BOOLEAN : x[v] = L[l][v]
         /\ Fits(F, T, L, Jz(l), x, y) <=> x[FALSE] = L[l][FALSE] /\ y[TRUE] = x[TRUE]
         /\ Fits(F, T, L, Jnz(l), x, y) <=> x[TRUE] = L[l][TRUE] /\ y[FALSE] = x[FALSE]
<1>1. Fits(F, T, L, Label(l), x, y) <=> \A v \in BOOLEAN : x[v] = L[l][v] /\ y[v] = L[l][v]
  BY DEF Fits, Item, Label
<1>2. Fits(F, T, L, Jmp(l), x, y) <=> \A v \in BOOLEAN : x[v] = L[l][v]
  BY DEF Fits, Item, Jmp
<1>3. Fits(F, T, L, Jz(l), x, y) <=> x[FALSE] = L[l][FALSE] /\ y[TRUE] = x[TRUE]
  BY DEF Fits, Item, Jz
<1>4. Fits(F, T, L, Jnz(l), x, y) <=> x[TRUE] = L[l][TRUE] /\ y[FALSE] = x[FALSE]
  BY DEF Fits, Item, Jnz
<1> QED
  BY <1>1, <1>2, <1>3, <1>4

LEMMA FitRet ==
  ASSUME NEW T, NEW F, NEW L, NEW x, NEW y, \A v \in BOOLEAN : x[v] = F[Of(T)!At("end", 0)]
  PROVE  Fits(F, T, L, Ret, x, y)
BY DEF Fits, Item, Ret

(* A kid without parts: one item stands for it.                            *)
LEMMA LeafLowers ==
  ASSUME NEW F, NEW T, Onward(F, T), NEW kind, Source(kind), UNCHANGED nest,
         mode' = IF Top.at = "body" THEN "stmt" ELSE "value", Wants(mode),
         NEW it \in Items, Emits(<<it>>),
         NEW y, \A v \in BOOLEAN : y[v] = F[Of(T)!Leave(New, v)],
         \A L, w : /\ \A v \in BOOLEAN : w[v] = F[Of(T)!Begin(New)]
                   /\ \A k \in DOMAIN nest : Targets(F, T, L, nest[k])
                   /\ Ways(F, T, nest)
                   => Fits(F, T, L, it, w, y)
  PROVE  Sound(F, T)
<1>1. Completes(T, tree, nest, mode)
  <2>1. Top.at = "body" \/ (Wants(mode) /\ ~Wants(mode'))
    BY DEF Wants
  <2> QED
    BY <2>1, OnwardFacts, StayCompletes
<1>2. ASSUME LoweredNow(F, T) PROVE LoweredNext(F, T)
  <2>1. PICK L, x : /\ Reaches(F, T, L, code, x) /\ Reached(F, T, Len(tree), Top, mode, x)
                    /\ \A k \in DOMAIN nest : Targets(F, T, L, nest[k])
                    /\ Targets(F, T, L, Top) /\ Ways(F, T, nest)
    BY <1>2, OnwardFacts, LoweredParts DEF LoweredNow
  <2>2. \A v \in BOOLEAN : x[v] = F[Of(T)!Begin(New)]
    BY <2>1, OnwardFacts, NewNode, KidBegins
  <2>3. \A w : (\A v \in BOOLEAN : w[v] = x[v]) => Fits(F, T, L, it, w, y)
    BY <2>1, <2>2
  <2>4. Reaches(F, T, L, code', y)
    BY <2>1, <2>3, OnwardFacts, EmitOne
  <2> QED
    BY <2>1, <2>4, StayLowers
<1> QED
  BY <1>1, <1>2 DEF Sound

LEMMA OperandLowers ==
  ASSUME NEW F, NEW T, Onward(F, T), Operand
  PROVE  Sound(F, T)
<1> DEFINE it == Item("eval", -1, New)
           y  == [v \in BOOLEAN |-> F[Of(T)!Leave(New, v)]]
<1>1. Source("operand") /\ UNCHANGED nest /\ Emits(<<it>>) /\ mode = "expr" /\ mode' = "value"
  BY DEF Operand, emission
<1>2. Top.at # "body"
  BY <1>1, OnwardFacts, ReadyTop
<1>3. New \in Nat /\ New \in DOMAIN T /\ T[New].kind = "operand"
  BY <1>1, NewNode
<1>4. it \in Items
  BY <1>3, CodeTypes
<1>5. F[Of(T)!Begin(New)] = F[Of(T)!At("event", New)]
  <2>1. T \in Seq(Nodes) /\ Leads(F, T)
    BY OnwardFacts
  <2> QED
    BY <1>3, <2>1, BeginLeads
<1>6. \A v \in BOOLEAN : y[v] = F[Of(T)!Leave(New, v)]
  OBVIOUS
<1> HIDE DEF y
<1>7. \A L, w : (\A v \in BOOLEAN : w[v] = F[Of(T)!Begin(New)]) => Fits(F, T, L, it, w, y)
  BY <1>3, <1>5, <1>6, FitEvent
<1> HIDE DEF it
<1> QED
  BY <1>1, <1>2, <1>4, <1>6, <1>7, LeafLowers DEF Wants

(* A new node that no emission is about has no kids.                       *)
LEMMA Childless ==
  ASSUME NEW F, NEW T, Onward(F, T), NEW kind, Source(kind), UNCHANGED nest, NEW part
  PROVE  Of(T)!Kids(New, part) = {}
<1>1. /\ New \in Nat /\ New <= Len(tree') /\ New = Len(tree) + 1 /\ Len(tree) \in Nat
      /\ \A n \in DOMAIN tree' : tree'[n].up # New
  <2>1. New = Len(tree) + 1 /\ Len(tree) \in Nat
    BY OnwardFacts, TopFacts DEF New
  <2> QED
    BY <2>1, NewNode
<1>2. ASSUME NEW k \in DOMAIN nest' PROVE ~Grows(tree', nest'[k], k = Len(nest'), mode', New, part)
  <2>1. nest'[k].node \in 0 .. Len(tree)
    BY OnwardFacts, NodesOrdered
  <2>2. nest'[k].kind = "cond_block" => nest'[k].node \in DOMAIN tree'
    BY OnwardFacts, NewNode DEF GrownInv, Grown, Nested, Built
  <2> QED
    BY <1>1, <2>1, <2>2 DEF Grows
<1>3. Of(T)!Kids(New, part) = Coming(T, New, part, Len(tree'))
  BY <1>1, OnwardFacts, AllComing
<1>4. Coming(T, New, part, Len(tree')) = {}
  BY <1>1, <1>2, OnwardFacts, NoneComing
<1> QED
  BY <1>3, <1>4

LEMMA LineLowers ==
  ASSUME NEW F, NEW T, Onward(F, T), Line
  PROVE  Sound(F, T)
<1> DEFINE it == Item("do", -1, New)
           y  == [v \in BOOLEAN |-> F[Of(T)!Leave(New, v)]]
<1>1. Source("line") /\ UNCHANGED nest /\ Emits(<<it>>) /\ mode = "stmt"
      /\ mode' = IF Top.at = "body" THEN "stmt" ELSE "value"
  BY DEF Line, emission
<1>3. New \in Nat /\ New \in DOMAIN T /\ T[New].kind = "line" /\ Of(T)!Kids(New, "expr") = {}
  BY <1>1, NewNode, Childless
<1>4. it \in Items
  BY <1>3, CodeTypes
<1>5. F[Of(T)!Begin(New)] = F[Of(T)!At("event", New)]
  <2>1. T \in Seq(Nodes) /\ Leads(F, T)
    BY OnwardFacts
  <2> QED
    BY <1>3, <2>1, BeginLeads
<1>6. \A v \in BOOLEAN : y[v] = F[Of(T)!Leave(New, v)]
  OBVIOUS
<1> HIDE DEF y
<1>7. \A L, w : (\A v \in BOOLEAN : w[v] = F[Of(T)!Begin(New)]) => Fits(F, T, L, it, w, y)
  BY <1>3, <1>5, <1>6, FitEvent
<1> HIDE DEF it
<1> QED
  BY <1>1, <1>4, <1>6, <1>7, LeafLowers DEF Wants

LEMMA BareReturnLowers ==
  ASSUME NEW F, NEW T, Onward(F, T), Source("return"), UNCHANGED <<nest, mode>>, Emits(<<Ret>>),
         mode = "stmt", Top.at = "body"
  PROVE  Sound(F, T)
<1> DEFINE y == [v \in BOOLEAN |-> F[Of(T)!Leave(New, v)]]
<1>3. New \in Nat /\ New \in DOMAIN T /\ T[New].kind = "return" /\ Of(T)!Kids(New, "expr") = {}
  BY NewNode, Childless
<1>4. Ret \in Items
  BY CodeTypes
<1>5. F[Of(T)!Begin(New)] = F[Of(T)!At("end", 0)]
  <2>1. T \in Seq(Nodes) /\ Leads(F, T)
    BY OnwardFacts
  <2> QED
    BY <1>3, <2>1, BeginLeads
<1>6. \A v \in BOOLEAN : y[v] = F[Of(T)!Leave(New, v)]
  OBVIOUS
<1> HIDE DEF y
<1>7. \A L, w : (\A v \in BOOLEAN : w[v] = F[Of(T)!Begin(New)]) => Fits(F, T, L, Ret, w, y)
  BY <1>5, FitRet
<1> QED
  BY <1>4, <1>6, <1>7, LeafLowers DEF Wants

LEMMA ExitLowers ==
  ASSUME NEW F, NEW T, Onward(F, T), Exit
  PROVE  Sound(F, T)
<1>1. Source("exit") /\ UNCHANGED <<nest, mode, code>> /\ mode = "stmt" /\ Top.at = "body"
  BY DEF Exit, emission
<1>2. /\ New \in DOMAIN T /\ T[New].kind = "exit" /\ T[New].part = "body"
      /\ T[New].up \in 0 .. Len(T)
  BY <1>1, NewNode
<1>3. Completes(T, tree, nest, mode)
  BY <1>1, OnwardFacts, StayCompletes
<1>4. ASSUME LoweredNow(F, T) PROVE LoweredNext(F, T)
  <2>1. PICK L, x : /\ Reaches(F, T, L, code, x) /\ Reached(F, T, Len(tree), Top, mode, x)
                    /\ \A k \in DOMAIN nest : Targets(F, T, L, nest[k])
                    /\ Targets(F, T, L, Top) /\ Ways(F, T, nest)
    BY <1>4, OnwardFacts, LoweredParts DEF LoweredNow
  <2>2. \A v \in BOOLEAN : x[v] = F[Of(T)!Begin(New)]
    <3>1. Wants(mode)
      BY <1>1 DEF Wants
    <3> QED
      BY <1>1, <2>1, <3>1, OnwardFacts, NewNode, KidBegins
  <2>3. F[Of(T)!Begin(New)] = F[Of(T)!Leave(New, TRUE)]
    BY <1>2, OnwardFacts, BeginLeads
  <2>4. \A v \in BOOLEAN : F[Of(T)!Leave(New, v)] = F[Of(T)!Leave(New, TRUE)]
    BY <1>2, OnwardFacts, SameEnd
  <2>5. \A v \in BOOLEAN : x[v] = F[Of(T)!Leave(New, v)]
    BY <2>2, <2>3, <2>4
  <2>6. Reaches(F, T, L, code', x)
    BY <1>1, <2>1
  <2>7. mode' = IF Top.at = "body" THEN "stmt" ELSE "value"
    BY <1>1
  <2> QED
    BY <1>1, <2>1, <2>5, <2>6, <2>7, StayLowers
<1> QED
  BY <1>3, <1>4 DEF Sound

(* The labels of the context are those of the innermost loop.              *)
LEMMA ContextLoop ==
  ASSUME TypeInv, Core, InLoop
  PROVE  \E i \in DOMAIN nest : /\ LoopOf(nest, i, Len(nest))
                                /\ loop_label_break = cur_break(nest[i])
                                /\ loop_label_continue = cur_continue(nest[i])
<1>1. Len(nest) \in DOMAIN nest /\ DOMAIN nest = 1 .. Len(nest) /\ Len(nest) \in Nat
  BY TopFacts
<1>2. LabelsOfLoop(nest, loop_label_break, loop_label_continue, Len(nest))
  BY <1>1 DEF Core, LoopsNest, Loops
<1>3. \E j \in DOMAIN nest : j <= Len(nest) /\ nest[j].kind \in LoopKinds
  BY <1>1 DEF InLoop
<1> QED
  BY <1>2, <1>3 DEF LabelsOfLoop, BreakAt, ContinueAt

LEMMA BreakOrContinueLowers ==
  ASSUME NEW F, NEW T, Onward(F, T), NEW kind \in {"break", "continue"}, BreakOrContinue(kind)
  PROVE  Sound(F, T)
<1> DEFINE l == IF kind = "break" THEN loop_label_break ELSE loop_label_continue
           y == [v \in BOOLEAN |-> F[Of(T)!Leave(New, v)]]
<1>1. /\ Source(kind) /\ UNCHANGED <<nest, mode>> /\ Emits(<<Jmp(l)>>)
      /\ mode = "stmt" /\ Top.at = "body" /\ InLoop
  BY DEF BreakOrContinue, emission
<1>2. /\ New \in DOMAIN T /\ T[New].kind = kind /\ T[New].up = Top.node
      /\ Top.node \in 0 .. Len(T) /\ New \in Nat
  BY <1>1, NewNode
<1>3. l \in Int
  BY OnwardFacts DEF TypeInv
<1>4. Jmp(l) \in Items
  BY <1>3, CodeTypes
<1>5. \A v \in BOOLEAN : y[v] = F[Of(T)!Leave(New, v)]
  OBVIOUS
<1> HIDE DEF y, l
<1>6. F[Of(T)!Begin(New)] = F[Of(T)!At(kind, New)]
  <2>1. T \in Seq(Nodes) /\ Leads(F, T)
    BY OnwardFacts
  <2> QED
    BY <1>2, <2>1, BeginLeads
<1>7. F[Of(T)!At(kind, New)] = F[Of(T)!At(kind, Top.node)]
  BY <1>2, OnwardFacts, Outward DEF LoopKinds
<1>8. PICK i \in DOMAIN nest : /\ LoopOf(nest, i, Len(nest))
                               /\ loop_label_break = cur_break(nest[i])
                               /\ loop_label_continue = cur_continue(nest[i])
  BY <1>1, OnwardFacts, ContextLoop
<1>9. nest[i].kind \in LoopKinds /\ Len(nest) \in DOMAIN nest
  BY <1>8, OnwardFacts, TopFacts DEF LoopOf
<1>10. ASSUME NEW L, NEW w, \A v \in BOOLEAN : w[v] = F[Of(T)!Begin(New)],
              \A k \in DOMAIN nest : Targets(F, T, L, nest[k]), Ways(F, T, nest)
       PROVE  Fits(F, T, L, Jmp(l), w, y)
  <2>1. /\ F[Of(T)!At("break", Top.node)] = F[Of(T)!Leave(nest[i].node, TRUE)]
        /\ F[Of(T)!At("continue", Top.node)] = F[Of(T)!At("test", nest[i].node)]
    BY <1>8, <1>9, <1>10 DEF Ways, Top
  <2>2. \A v \in BOOLEAN : /\ L[cur_break(nest[i])][v] = F[Of(T)!Leave(nest[i].node, TRUE)]
                           /\ L[cur_continue(nest[i])][v] = F[Of(T)!At("test", nest[i].node)]
    BY <1>9, <1>10 DEF Targets
  <2>3. \A v \in BOOLEAN : w[v] = L[l][v]
    BY <1>6, <1>7, <1>8, <1>10, <2>1, <2>2 DEF l
  <2> QED
    BY <1>3, <2>3, FitJump
<1>11. mode' = IF Top.at = "body" THEN "stmt" ELSE "value"
  BY <1>1
<1>12. Wants(mode)
  BY <1>1 DEF Wants
<1> QED
  BY <1>1, <1>4, <1>5, <1>10, <1>11, <1>12, LeafLowers

-----------------------------------------------------------------------------
(* Operators, lines, loops and conditions begin. *)

(* An emission begins.  one and two tell where its new labels lead.        *)
LEMMA EnterSound ==
  ASSUME NEW F, NEW T, Onward(F, T), NEW c, Enter(c), Wants(mode), NewAbove(Top.node),
         New \in DOMAIN tree', tree'[New].up = Top.node, tree'[New].part = Top.at,
         \A n \in DOMAIN tree' : n \notin DOMAIN tree =>
           tree'[n].up > Len(tree) \/ (tree'[n].up = Top.node /\ tree'[n].part = Top.at),
         c.node > Len(tree), c.kind = "cond_block" => tree'[c.node].up > Len(tree),
         c.kind \in LoopKinds =>
           /\ F[Of(T)!At("break", c.node)] = F[Of(T)!Leave(c.node, TRUE)]
           /\ F[Of(T)!At("continue", c.node)] = F[Of(T)!At("test", c.node)],
         c.kind \notin LoopKinds =>
           /\ F[Of(T)!At("break", c.node)] = F[Of(T)!At("break", Top.node)]
           /\ F[Of(T)!At("continue", c.node)] = F[Of(T)!At("continue", Top.node)],
         NEW one, NEW two,
         \A M : M[label_counter] = one /\ M[label_counter + 1] = two => Targets(F, T, M, c),
         \A x : (\A v \in BOOLEAN : x[v] = F[Of(T)!Begin(New)]) =>
           Reached(F, T, Len(tree'), c, mode', x),
         \/ UNCHANGED code
         \/ /\ Emits(<<Label(label_counter + 1)>>)
            /\ \A v \in BOOLEAN : two[v] = F[Of(T)!Begin(New)]
  PROVE  Sound(F, T)
<1>1. Completes(T, tree, nest, mode)
  BY OnwardFacts, EnterCompletes
<1>2. ASSUME LoweredNow(F, T) PROVE LoweredNext(F, T)
  <2>1. PICK L, x : /\ Reaches(F, T, L, code, x) /\ Reached(F, T, Len(tree), Top, mode, x)
                    /\ \A k \in DOMAIN nest : Targets(F, T, L, nest[k])
                    /\ Targets(F, T, L, Top) /\ Ways(F, T, nest)
    BY <1>2, OnwardFacts, LoweredParts DEF LoweredNow
  <2>2. \A v \in BOOLEAN : x[v] = F[Of(T)!Begin(New)]
    BY <2>1, OnwardFacts, KidBegins
  <2> DEFINE M == [l \in Int |-> IF l = label_counter THEN one
                                 ELSE IF l = label_counter + 1 THEN two ELSE L[l]]
  <2>3. label_counter \in Int
    BY OnwardFacts DEF TypeInv
  <2>4. M[label_counter] = one /\ M[label_counter + 1] = two
        /\ \A l \in Int : l < label_counter => M[l] = L[l]
    BY <2>3
  <2> HIDE DEF M
  <2>5. Reaches(F, T, M, code, x) /\ \A k \in DOMAIN nest : Targets(F, T, M, nest[k])
    BY <2>1, <2>4, OnwardFacts, NewLabels
  <2>6. Reaches(F, T, M, code', x)
    <3>1. CASE UNCHANGED code
      BY <2>5, <3>1
    <3>2. CASE /\ Emits(<<Label(label_counter + 1)>>)
               /\ \A v \in BOOLEAN : two[v] = F[Of(T)!Begin(New)]
      <4>1. label_counter + 1 \in Int /\ Label(label_counter + 1) \in Items
        <5>1. label_counter + 1 \in Int /\ 0 \in Nat
          BY <2>3
        <5> QED
          BY <5>1, CodeTypes
      <4>2. \A v \in BOOLEAN : x[v] = M[label_counter + 1][v]
        BY <2>2, <2>4, <3>2
      <4>3. \A w : (\A v \in BOOLEAN : w[v] = x[v]) =>
              Fits(F, T, M, Label(label_counter + 1), w, x)
        <5>1. PICK l \in Int : l = label_counter + 1
          BY <4>1
        <5>2. \A v \in BOOLEAN : x[v] = M[l][v]
          BY <4>2, <5>1
        <5>3. \A w : (\A v \in BOOLEAN : w[v] = x[v]) => Fits(F, T, M, Label(l), w, x)
          <6> SUFFICES ASSUME NEW w, \A v \in BOOLEAN : w[v] = x[v]
                       PROVE  Fits(F, T, M, Label(l), w, x)
            OBVIOUS
          <6>1. \A v \in BOOLEAN : w[v] = M[l][v] /\ x[v] = M[l][v]
            BY <5>2
          <6> QED
            BY <6>1, FitJump
        <5> QED
          BY <5>1, <5>3
      <4> QED
        BY <2>5, <3>2, <4>1, <4>3, OnwardFacts, EmitOne
    <3> QED
      BY <3>1, <3>2
  <2>7. Targets(F, T, M, c)
    BY <2>4
  <2>8. Reached(F, T, Len(tree'), c, mode', x)
    BY <2>2
  <2>9. Ways(F, T, nest')
    BY <2>1, OnwardFacts, EnterWays
  <2> QED
    BY <2>1, <2>5, <2>6, <2>7, <2>8, <2>9, EnterLowers
<1> QED
  BY <1>1, <1>2 DEF Sound

(* One node is new, the one the emission is about.                         *)
LEMMA EnterKid ==
  ASSUME NEW F, NEW T, Onward(F, T), NEW c, Enter(c), Wants(mode),
         c.kind # "cond_block", c.node = New, Source(c.kind), NEW one, NEW two,
         \A M : M[label_counter] = one /\ M[label_counter + 1] = two => Targets(F, T, M, c),
         \A x : (\A v \in BOOLEAN : x[v] = F[Of(T)!Begin(New)]) =>
           Reached(F, T, Len(tree'), c, mode', x),
         \/ UNCHANGED code
         \/ /\ Emits(<<Label(label_counter + 1)>>)
            /\ \A v \in BOOLEAN : two[v] = F[Of(T)!Begin(New)]
  PROVE  Sound(F, T)
<1>1. /\ New \in DOMAIN T /\ T[New].kind = c.kind /\ T[New].up = Top.node /\ Top.node \in 0 .. Len(T)
      /\ New \in DOMAIN tree' /\ tree'[New].up = Top.node /\ tree'[New].part = Top.at
      /\ NewAbove(Top.node)
      /\ \A n \in DOMAIN tree' : n \notin DOMAIN tree =>
           tree'[n].up = Top.node /\ tree'[n].part = Top.at
  BY NewNode
<1>2. c.node > Len(tree)
  BY OnwardFacts, TopFacts DEF New
<1>3. T \in Seq(Nodes) /\ Leads(F, T)
  BY OnwardFacts
<1>4. c.kind \in LoopKinds =>
        /\ F[Of(T)!At("break", c.node)] = F[Of(T)!Leave(c.node, TRUE)]
        /\ F[Of(T)!At("continue", c.node)] = F[Of(T)!At("test", c.node)]
  BY <1>1, <1>3, LoopOut
<1>5. c.kind \notin LoopKinds =>
        /\ F[Of(T)!At("break", c.node)] = F[Of(T)!At("break", Top.node)]
        /\ F[Of(T)!At("continue", c.node)] = F[Of(T)!At("continue", Top.node)]
  BY <1>1, <1>3, Outward
<1> QED
  BY <1>1, <1>2, <1>4, <1>5, EnterSound

(* The first part of a new emission begins.                                *)
LEMMA FirstPart ==
  ASSUME NEW F, NEW T, Onward(F, T), NEW c, Source(c.kind), c.node = New, Wants(mode'),
         c.at # "body",
         Of(T)!Kids(New, c.at) # {} => F[Of(T)!Begin(New)] = F[Of(T)!Begin(Of(T)!Kid(New, c.at))]
  PROVE  \A x : (\A v \in BOOLEAN : x[v] = F[Of(T)!Begin(New)]) =>
           Reached(F, T, Len(tree'), c, mode', x)
<1> SUFFICES ASSUME NEW x, \A v \in BOOLEAN : x[v] = F[Of(T)!Begin(New)]
             PROVE  Reached(F, T, Len(tree'), c, mode', x)
  OBVIOUS
<1>1. \A n \in DOMAIN tree' : ~(tree'[n].up = c.node /\ tree'[n].part = c.at)
  BY NewNode
<1>2. Of(T)!Kids(c.node, c.at) # {} =>
        \A v \in BOOLEAN : x[v] = F[Of(T)!Begin(Of(T)!Kid(c.node, c.at))]
  OBVIOUS
<1>3. tree' \in Seq(Nodes) /\ Completes(T, tree', nest', mode')
  BY OnwardFacts
<1> QED
  BY <1>1, <1>2, <1>3, PartBegins

LEMMA LogicLowers ==
  ASSUME NEW F, NEW T, Onward(F, T), NEW op \in {"and", "or"}, Logic(op)
  PROVE  Sound(F, T)
<1> DEFINE c   == Frame(op, New, "left", label_counter, -1)
           one == [v \in BOOLEAN |-> F[Of(T)!Leave(New, v)]]
<1>1. Enter(c) /\ Source(op) /\ mode = "expr" /\ mode' = "expr" /\ UNCHANGED code
  BY DEF Logic
<1>2. c.kind = op /\ c.node = New /\ c.at = "left" /\ c.l1 = label_counter
  BY FrameIs
<1>3. \A v \in BOOLEAN : one[v] = F[Of(T)!Leave(New, v)]
  OBVIOUS
<1> HIDE DEF c, one
<1>4. T \in Seq(Nodes) /\ Leads(F, T) /\ New \in DOMAIN T /\ T[New].kind = op
  BY <1>1, OnwardFacts, NewNode
<1>5. Of(T)!Kids(New, "left") # {} => F[Of(T)!Begin(New)] = F[Of(T)!Begin(Of(T)!Kid(New, "left"))]
  BY <1>4, BeginLeads
<1>6. \A x : (\A v \in BOOLEAN : x[v] = F[Of(T)!Begin(New)]) => Reached(F, T, Len(tree'), c, mode', x)
  BY <1>1, <1>2, <1>5, FirstPart DEF Wants
<1>7. \A M : M[label_counter] = one => Targets(F, T, M, c)
  BY <1>2, <1>3 DEF Targets, label_end, LoopKinds
<1>8. Wants(mode) /\ c.kind # "cond_block" /\ Source(c.kind)
  BY <1>1, <1>2 DEF Wants
<1> QED
  BY <1>1, <1>2, <1>6, <1>7, <1>8, EnterKid

(* An operand that is an operator, of a line or a return.                  *)
LEMMA OperandBegins ==
  ASSUME NEW F, NEW T, Onward(F, T), NEW kind \in {"line", "return"},
         Enter(Frame(kind, New, "expr", -1, -1)), Source(kind), mode = "stmt", mode' = "expr",
         UNCHANGED code
  PROVE  Sound(F, T)
<1> DEFINE c == Frame(kind, New, "expr", -1, -1)
<1>2. c.kind = kind /\ c.node = New /\ c.at = "expr" /\ Enter(c)
  BY FrameIs
<1> HIDE DEF c
<1>4. T \in Seq(Nodes) /\ Leads(F, T) /\ New \in DOMAIN T /\ T[New].kind = kind
  BY OnwardFacts, NewNode
<1>5. Of(T)!Kids(New, "expr") # {} => F[Of(T)!Begin(New)] = F[Of(T)!Begin(Of(T)!Kid(New, "expr"))]
  BY <1>4, BeginLeads
<1>6. \A x : (\A v \in BOOLEAN : x[v] = F[Of(T)!Begin(New)]) => Reached(F, T, Len(tree'), c, mode', x)
  BY <1>2, <1>5, FirstPart DEF Wants
<1>7. \A M : Targets(F, T, M, c)
  BY <1>2 DEF Targets, LoopKinds
<1>8. Wants(mode) /\ c.kind # "cond_block" /\ Source(c.kind)
  BY <1>2 DEF Wants
<1> QED
  BY <1>2, <1>6, <1>7, <1>8, EnterKid

LEMMA WhileLowers ==
  ASSUME NEW F, NEW T, Onward(F, T), While
  PROVE  Sound(F, T)
<1> DEFINE c   == Frame("while_block", New, "cond", label_counter, label_counter + 1)
           one == [v \in BOOLEAN |-> F[Of(T)!Leave(New, TRUE)]]
           two == [v \in BOOLEAN |-> F[Of(T)!At("test", New)]]
<1>1. Enter(c) /\ Source("while_block") /\ mode = "stmt" /\ mode' = "expr"
      /\ Emits(<<Label(label_counter + 1)>>)
  BY DEF While, EnterLoop
<1>2. c.kind = "while_block" /\ c.node = New /\ c.at = "cond"
      /\ c.l1 = label_counter /\ c.l2 = label_counter + 1
  BY FrameIs
<1>3. \A v \in BOOLEAN : one[v] = F[Of(T)!Leave(New, TRUE)] /\ two[v] = F[Of(T)!At("test", New)]
  OBVIOUS
<1> HIDE DEF c, one, two
<1>4. /\ T \in Seq(Nodes) /\ Leads(F, T) /\ New \in DOMAIN T /\ T[New].kind = "while_block"
      /\ New \in 0 .. Len(T)
  BY <1>1, OnwardFacts, NewNode
<1>5. F[Of(T)!Begin(New)] = F[Of(T)!At("test", New)]
  BY <1>4, BeginLeads
<1>6. Of(T)!Kids(New, "cond") # {} => F[Of(T)!At("test", New)] = F[Of(T)!Begin(Of(T)!Kid(New, "cond"))]
  BY <1>4, KidFacts, AtLeads
<1>7. \A x : (\A v \in BOOLEAN : x[v] = F[Of(T)!Begin(New)]) => Reached(F, T, Len(tree'), c, mode', x)
  BY <1>1, <1>2, <1>5, <1>6, FirstPart DEF Wants
<1>8. \A M : M[label_counter] = one /\ M[label_counter + 1] = two => Targets(F, T, M, c)
  BY <1>2, <1>3 DEF Targets, cur_break, cur_continue, LoopKinds
<1>9. Enter(c) /\ Wants(mode) /\ c.kind # "cond_block" /\ c.node = New /\ Source(c.kind)
  BY <1>1, <1>2 DEF Wants
<1>10. \/ UNCHANGED code
       \/ /\ Emits(<<Label(label_counter + 1)>>)
          /\ \A v \in BOOLEAN : two[v] = F[Of(T)!Begin(New)]
  BY <1>1, <1>3, <1>5
<1> QED
  BY <1>7, <1>8, <1>9, <1>10, EnterKid, Zenon

(* A for statement without a first part is at its test.                    *)
LEMMA NoInit ==
  ASSUME NEW F, NEW T, Onward(F, T), NEW c, Enter(c), Source("for_block"), c.kind = "for_block",
         c.node = New, c.at = "init", mode' = "value"
  PROVE  Of(T)!Kids(New, "init") = {}
<1>1. /\ New \in Nat /\ New <= Len(tree') /\ New = Len(tree) + 1 /\ Len(tree) \in Nat
      /\ \A n \in DOMAIN tree' : tree'[n].up # New
  <2>1. New = Len(tree) + 1 /\ Len(tree) \in Nat
    BY OnwardFacts, TopFacts DEF New
  <2> QED
    BY <2>1, NewNode
<1>2. Len(nest) \in DOMAIN nest /\ DOMAIN nest = 1 .. Len(nest) /\ Len(nest) \in Nat
  BY OnwardFacts, TopFacts
<1>3. /\ DOMAIN nest' = 1 .. Len(nest) + 1 /\ Len(nest') = Len(nest) + 1
      /\ nest'[Len(nest) + 1] = c /\ \A k \in DOMAIN nest : nest'[k] = nest[k]
  BY <1>2, OnwardFacts DEF Enter, TypeInv
<1>4. ASSUME NEW k \in DOMAIN nest' PROVE ~Grows(tree', nest'[k], k = Len(nest'), mode', New, "init")
  <2>1. CASE k = Len(nest) + 1
    <3>1. ~Grows(tree', c, TRUE, mode', New, "init")
      BY RankFacts DEF Grows, Wants
    <3> QED
      BY <1>3, <2>1, <3>1
  <2>2. CASE k # Len(nest) + 1
    <3>1. k \in DOMAIN nest /\ nest'[k] = nest[k]
      BY <1>2, <1>3, <2>2
    <3>2. nest[k].node \in 0 .. Len(tree)
      BY <3>1, OnwardFacts, NodesOrdered
    <3>3. nest'[k].kind = "cond_block" => nest'[k].node \in DOMAIN tree'
      BY OnwardFacts DEF GrownInv, Grown, Nested, Built
    <3> QED
      BY <1>1, <3>1, <3>2, <3>3 DEF Grows
  <2> QED
    BY <2>1, <2>2
<1>5. Of(T)!Kids(New, "init") = Coming(T, New, "init", Len(tree'))
  BY <1>1, OnwardFacts, AllComing
<1>6. Coming(T, New, "init", Len(tree')) = {}
  BY <1>1, <1>4, OnwardFacts, NoneComing
<1> QED
  BY <1>5, <1>6

LEMMA ForLowers ==
  ASSUME NEW F, NEW T, Onward(F, T), NEW has_init \in BOOLEAN, For(has_init)
  PROVE  Sound(F, T)
<1> DEFINE c   == Frame("for_block", New, "init", label_counter, label_counter + 1)
           one == [v \in BOOLEAN |-> F[Of(T)!Leave(New, TRUE)]]
           two == [v \in BOOLEAN |-> F[Of(T)!At("test", New)]]
<1>1. Enter(c) /\ Source("for_block") /\ mode = "stmt" /\ UNCHANGED code
      /\ mode' = IF has_init THEN "stmt" ELSE "value"
  BY DEF For, EnterLoop
<1>2. c.kind = "for_block" /\ c.node = New /\ c.at = "init"
      /\ c.l1 = label_counter /\ c.l2 = label_counter + 1
  BY FrameIs
<1>3. \A v \in BOOLEAN : one[v] = F[Of(T)!Leave(New, TRUE)] /\ two[v] = F[Of(T)!At("test", New)]
  OBVIOUS
<1> HIDE DEF c, one, two
<1>4. /\ T \in Seq(Nodes) /\ Leads(F, T) /\ New \in DOMAIN T /\ T[New].kind = "for_block"
      /\ New \in 0 .. Len(T)
  BY <1>1, OnwardFacts, NewNode
<1>7. \A x : (\A v \in BOOLEAN : x[v] = F[Of(T)!Begin(New)]) => Reached(F, T, Len(tree'), c, mode', x)
  <2>1. CASE has_init
    <3>1. Of(T)!Kids(New, "init") # {} => F[Of(T)!Begin(New)] = F[Of(T)!Begin(Of(T)!Kid(New, "init"))]
      BY <1>4, BeginLeads
    <3> QED
      BY <1>1, <1>2, <2>1, <3>1, FirstPart DEF Wants
  <2>2. CASE ~has_init
    <3>1. Of(T)!Kids(New, "init") = {}
      BY <1>1, <1>2, <2>2, NoInit
    <3>2. F[Of(T)!Begin(New)] = F[Of(T)!At("test", New)]
      BY <1>4, <3>1, BeginLeads
    <3>3. \A v : Of(T)!Passed(New, "init", v) = Of(T)!At("test", New)
      BY DEF Of!Passed
    <3> QED
      BY <1>1, <1>2, <2>2, <3>2, <3>3 DEF Reached, Wants
  <2> QED
    BY <2>1, <2>2
<1>8. \A M : M[label_counter] = one /\ M[label_counter + 1] = two => Targets(F, T, M, c)
  BY <1>2, <1>3 DEF Targets, cur_break, cur_continue, LoopKinds
<1>9. Wants(mode) /\ c.kind # "cond_block" /\ Source(c.kind) /\ Enter(c) /\ c.node = New
      /\ UNCHANGED code
  BY <1>1, <1>2 DEF Wants
<1> QED
  BY <1>7, <1>8, <1>9, EnterKid

LEMMA CondLowers ==
  ASSUME NEW F, NEW T, Onward(F, T), NEW alone \in BOOLEAN, Cond(alone)
  PROVE  Sound(F, T)
<1> DEFINE b   == New + 1
           c   == Frame("cond_block", b, "cond", label_counter,
                        IF alone THEN label_counter ELSE label_counter + 1)
           one == [v \in BOOLEAN |-> F[Of(T)!Tested(b, FALSE)]]
           two == [v \in BOOLEAN |-> F[Of(T)!Leave(New, TRUE)]]
<1>1. /\ Enter(c) /\ Top.at = "body" /\ mode = "stmt" /\ mode' = "expr" /\ UNCHANGED code
      /\ tree' = tree \o <<Node("cond_block", Top.node, Top.at), Node("if_branch", New, "branch")>>
  BY DEF Cond
<1>2. /\ c.kind = "cond_block" /\ c.node = b /\ c.at = "cond" /\ c.l1 = label_counter
      /\ c.l2 = IF alone THEN label_counter ELSE label_counter + 1
  BY FrameIs
<1>3. /\ NewAbove(Top.node)
      /\ DOMAIN tree = 1 .. Len(tree) /\ Len(tree) \in Nat /\ New = Len(tree) + 1
      /\ DOMAIN tree' = 1 .. b /\ Len(tree') = b /\ b = New + 1
      /\ tree'[New].kind = "cond_block" /\ tree'[New].up = Top.node /\ tree'[New].part = Top.at
      /\ tree'[b].kind = "if_branch" /\ tree'[b].up = New /\ tree'[b].part = "branch"
      /\ \A n \in DOMAIN tree' : n \notin DOMAIN tree => n = New \/ n = b
  BY <1>1, OnwardFacts, TwoNodes
<1>4. /\ \A v \in BOOLEAN : one[v] = F[Of(T)!Tested(b, FALSE)]
      /\ \A v \in BOOLEAN : two[v] = F[Of(T)!Leave(New, TRUE)]
  OBVIOUS
<1> HIDE DEF b, c, one, two
<1>5. /\ T \in Seq(Nodes) /\ Leads(F, T) /\ New \in DOMAIN T /\ b \in DOMAIN T
      /\ New \in 0 .. Len(T) /\ b \in 0 .. Len(T)
      /\ T[New] = tree'[New] /\ T[b] = tree'[b] /\ Top.node \in 0 .. Len(T)
  <2>1. New \in DOMAIN tree' /\ b \in DOMAIN tree'
    BY <1>3
  <2>2. Top.node \in 0 .. Len(tree)
    BY OnwardFacts, TopFacts, NodesOrdered DEF Top
  <2>3. Top.node \in 0 .. Len(tree')
    BY <1>3, <2>2
  <2> QED
    BY <2>1, <2>3, OnwardFacts
<1>6. /\ T[New].kind = "cond_block" /\ T[New].up = Top.node
      /\ T[b].kind = "if_branch" /\ T[b].up = New /\ T[b].part = "branch"
  BY <1>3, <1>5
<1>7. /\ F[Of(T)!At("break", b)] = F[Of(T)!At("break", Top.node)]
      /\ F[Of(T)!At("continue", b)] = F[Of(T)!At("continue", Top.node)]
  <2>1. /\ F[Of(T)!At("break", b)] = F[Of(T)!At("break", New)]
        /\ F[Of(T)!At("continue", b)] = F[Of(T)!At("continue", New)]
    BY <1>5, <1>6, Outward DEF LoopKinds
  <2>2. /\ F[Of(T)!At("break", New)] = F[Of(T)!At("break", Top.node)]
        /\ F[Of(T)!At("continue", New)] = F[Of(T)!At("continue", Top.node)]
    BY <1>5, <1>6, Outward DEF LoopKinds
  <2> QED
    BY <2>1, <2>2
<1>8. Of(T)!Kid(New, "branch") = b /\ Of(T)!Kids(New, "branch") # {}
  <2>1. \A k \in Of(T)!Kids(New, "branch") : k \in DOMAIN T /\ T[k].up = New
    BY DEF Of!Kids
  <2>2. \A n \in DOMAIN tree' : tree'[n].up < n /\ tree'[n].up \in Nat /\ T[n] = tree'[n]
    <3>1. \A n \in DOMAIN tree' : tree'[n] \in Nodes
      BY OnwardFacts DEF TypeInv
    <3> QED
      BY <3>1, OnwardFacts DEF GrownInv, Grown, Upwards, Nodes
  <2>3. \A k \in DOMAIN T : T[k].up = New => b <= k
    <3>1. DOMAIN T = 1 .. Len(T) /\ Len(T) \in Nat
      BY OnwardFacts
    <3> QED
      BY <1>3, <2>2, <3>1
  <2>4. b \in Of(T)!Kids(New, "branch")
    BY <1>5, <1>6, ComingFacts
  <2>5. Of(T)!Kids(New, "branch") \in SUBSET (DOMAIN T)
    BY <1>5, KidFacts
  <2>6. Of(T)!Earliest(Of(T)!Kids(New, "branch")) = b
    BY <1>5, <2>1, <2>3, <2>4, <2>5, EarliestFacts
  <2> QED
    BY <1>5, <2>4, <2>6, KidFacts
<1>9. F[Of(T)!Begin(New)] = F[Of(T)!At("test", b)]
  <2>1. F[Of(T)!Begin(New)] = F[Of(T)!Begin(b)]
    <3>1. F[Of(T)!Begin(New)] = F[Of(T)!Begin(Of(T)!Kid(New, "branch"))]
      <4>1. PICK n \in DOMAIN T : n = New
        BY <1>5
      <4>2. T[n].kind = "cond_block" /\ Of(T)!Kids(n, "branch") # {}
        BY <1>6, <1>8, <4>1
      <4>3. F[Of(T)!Begin(n)] = F[Of(T)!Begin(Of(T)!Kid(n, "branch"))]
        BY <1>5, <4>2, BeginLeads
      <4> QED
        BY <4>1, <4>3
    <3> QED
      BY <1>8, <3>1
  <2>2. F[Of(T)!Begin(b)] = F[Of(T)!At("test", b)]
    BY <1>5, <1>6, BeginLeads
  <2> QED
    BY <2>1, <2>2
<1>10. \A x : (\A v \in BOOLEAN : x[v] = F[Of(T)!Begin(New)]) => Reached(F, T, Len(tree'), c, mode', x)
  <2> SUFFICES ASSUME NEW x, \A v \in BOOLEAN : x[v] = F[Of(T)!Begin(New)]
               PROVE  Reached(F, T, Len(tree'), c, mode', x)
    OBVIOUS
  <2>1. Of(T)!Kids(b, "cond") # {} => F[Of(T)!At("test", b)] = F[Of(T)!Begin(Of(T)!Kid(b, "cond"))]
    BY <1>5, KidFacts, AtLeads
  <2>2. Of(T)!Kids(c.node, c.at) # {} =>
          \A v \in BOOLEAN : x[v] = F[Of(T)!Begin(Of(T)!Kid(c.node, c.at))]
    BY <1>2, <1>9, <2>1
  <2>3. \A n \in DOMAIN tree' : ~(tree'[n].up = c.node /\ tree'[n].part = c.at)
    <3>1. \A n \in DOMAIN tree' : tree'[n].up < n /\ n <= b
      BY <1>3, OnwardFacts DEF GrownInv, Grown, Upwards
    <3>2. \A n \in DOMAIN tree' : n \in Nat /\ b \in Nat
      BY <1>3
    <3> QED
      BY <1>2, <3>1, <3>2
  <2>4. tree' \in Seq(Nodes) /\ Completes(T, tree', nest', mode') /\ Wants(mode') /\ c.at # "body"
    BY <1>1, <1>2, OnwardFacts DEF Wants
  <2> QED
    BY <2>2, <2>3, <2>4, PartBegins
<1>11. alone => F[Of(T)!Tested(b, FALSE)] = F[Of(T)!Leave(New, TRUE)]
  <2> SUFFICES ASSUME alone PROVE Of(T)!Tested(b, FALSE) = Of(T)!Leave(New, TRUE)
    OBVIOUS
  <2>1. Len(nest) \in DOMAIN nest /\ DOMAIN nest = 1 .. Len(nest) /\ Len(nest) \in Nat
    BY OnwardFacts, TopFacts
  <2>2. /\ DOMAIN nest' = 1 .. Len(nest) + 1
        /\ nest'[Len(nest) + 1] = c /\ \A k \in DOMAIN nest : nest'[k] = nest[k]
    BY <1>1, <2>1, OnwardFacts DEF Enter, TypeInv
  <2>3. ASSUME NEW k \in DOMAIN nest'
        PROVE ~Grows(tree', nest'[k], k = Len(nest'), mode', New, "branch")
    <3>1. CASE k = Len(nest) + 1
      <4>1. c.node # New /\ c.l1 = c.l2
        BY <1>2, <1>3
      <4> QED
        BY <2>2, <3>1, <4>1 DEF Grows
    <3>2. CASE k # Len(nest) + 1
      <4>1. k \in DOMAIN nest /\ nest'[k] = nest[k]
        BY <2>1, <2>2, <3>2
      <4>2. nest[k].node \in 0 .. Len(tree)
        BY <4>1, OnwardFacts, NodesOrdered
      <4>3. nest'[k].kind = "cond_block" => nest'[k].node \in DOMAIN tree'
        BY OnwardFacts DEF GrownInv, Grown, Nested, Built
      <4>4. nest[k].kind = "cond_block" => tree'[nest[k].node].up < nest[k].node
        BY <4>1, <4>3, OnwardFacts DEF GrownInv, Grown, Upwards
      <4>5. nest[k].kind = "cond_block" => tree'[nest[k].node].up \in Nat
        <5>1. \A n \in DOMAIN tree' : tree'[n] \in Nodes
          BY OnwardFacts DEF TypeInv
        <5> QED
          BY <4>1, <4>3, <5>1 DEF Nodes
      <4>6. nest[k].node # New /\ (nest[k].kind = "cond_block" => tree'[nest[k].node].up # New)
        BY <1>3, <4>2, <4>4, <4>5
      <4> QED
        BY <4>1, <4>6 DEF Grows
    <3> QED
      BY <3>1, <3>2
  <2>4. Coming(T, New, "branch", Len(tree')) = {}
    <3>1. New \in Nat /\ New <= Len(tree')
      BY <1>3
    <3> QED
      BY <2>3, <3>1, OnwardFacts, NoneComing
  <2>5. Of(T)!Later(b) = {}
    BY <1>3, <1>6, <2>4 DEF Of!Later, Coming
  <2> QED
    BY <1>6, <2>5 DEF Of!Tested
<1>12. \A M : M[label_counter] = one /\ M[label_counter + 1] = two => Targets(F, T, M, c)
  <2> SUFFICES ASSUME NEW M, M[label_counter] = one, M[label_counter + 1] = two
               PROVE  Targets(F, T, M, c)
    OBVIOUS
  <2>1. \A v \in BOOLEAN : M[else_label(c)][v] = F[Of(T)!Tested(b, FALSE)]
    BY <1>2, <1>4 DEF else_label
  <2>2. \A v \in BOOLEAN : M[end_cond(c)][v] = F[Of(T)!Leave(New, TRUE)]
    BY <1>2, <1>4, <1>11 DEF end_cond
  <2> QED
    BY <1>2, <1>6, <2>1, <2>2 DEF Targets, LoopKinds
<1>13. /\ Wants(mode) /\ c.node > Len(tree) /\ tree'[c.node].up > Len(tree)
       /\ New \in DOMAIN tree' /\ c.kind \notin LoopKinds
  BY <1>1, <1>2, <1>3 DEF Wants, LoopKinds
<1>14. \A n \in DOMAIN tree' : n \notin DOMAIN tree =>
         tree'[n].up > Len(tree) \/ (tree'[n].up = Top.node /\ tree'[n].part = Top.at)
  BY <1>3
<1>15. /\ F[Of(T)!At("break", c.node)] = F[Of(T)!At("break", Top.node)]
       /\ F[Of(T)!At("continue", c.node)] = F[Of(T)!At("continue", Top.node)]
  BY <1>2, <1>7
<1>16. Enter(c) /\ UNCHANGED code /\ NewAbove(Top.node)
       /\ tree'[New].up = Top.node /\ tree'[New].part = Top.at
  BY <1>1, <1>3
<1> QED
  BY <1>10, <1>12, <1>13, <1>14, <1>15, <1>16, EnterSound

-----------------------------------------------------------------------------
(* An emission goes on: the second operand, the test, the block, the step. *)

(* The emissions around do not grow where the innermost one is.            *)
LEMMA OuterElsewhere ==
  ASSUME TypeInv, GrownInv, NEW k \in DOMAIN nest, k < Len(nest), NEW u \in Nat,
         Statement(tree, Top) <= u, NEW i, NEW m, NEW part
  PROVE  ~Grows(tree, nest[k], i, m, u, part)
<1>1. nest[k].node < Statement(tree, Top) /\ nest[k].node \in Nat
  BY NodesOrdered
<1>2. Statement(tree, Top) \in Nat
  <2>1. Len(nest) \in DOMAIN nest
    BY TopFacts
  <2>2. Statement(tree, nest[Len(nest)]) \in 0 .. nest[Len(nest)].node
        /\ nest[Len(nest)].node \in 0 .. Len(tree)
    BY <2>1, NodesOrdered
  <2>3. Len(tree) \in Nat
    BY TopFacts
  <2> QED
    BY <2>2, <2>3 DEF Top
<1>3. nest[k].kind = "cond_block" =>
        tree[nest[k].node].up \in Nat /\ tree[nest[k].node].up < nest[k].node
  <2>1. nest[k].kind = "cond_block" => nest[k].node \in DOMAIN tree
    BY DEF GrownInv, Grown, Nested, Built
  <2> QED
    BY <2>1, NodesOrdered
<1>4. nest[k].node # u /\ (nest[k].kind = "cond_block" => tree[nest[k].node].up # u)
  BY <1>1, <1>2, <1>3
<1> QED
  BY <1>4 DEF Grows

(* The innermost emission and its node, while the tree stays as it is.     *)
LEMMA TopNode ==
  ASSUME NEW F, NEW T, Onward(F, T), Top.kind # "function", UNCHANGED tree
  PROVE  /\ Top.node \in DOMAIN tree /\ Top.node \in DOMAIN T /\ T[Top.node] = tree[Top.node]
         /\ Top.node \in 0 .. Len(T) /\ Top.node \in 0 .. Len(tree) /\ Top.node \in Nat
         /\ Top.node # 0
         /\ tree[Top.node].up \in Nat /\ tree[Top.node].up < Top.node
         /\ tree[Top.node].up \in 0 .. Len(T)
         /\ Statement(tree, Top) \in Nat /\ Statement(tree, Top) <= Top.node
         /\ Built(tree, Top) /\ Len(tree) \in Nat /\ Len(tree) <= Len(T)
         /\ Top.kind \notin {"function", "cond_block"} => tree[Top.node].kind = Top.kind
         /\ \A n \in DOMAIN tree : tree[n].up = Top.node => Rank(tree[n].part) <= Rank(Top.at)
         /\ \A n \in DOMAIN tree : tree[n].part \in Parts /\ Rank(tree[n].part) \in Nat
         /\ Top.at \in Parts /\ Rank(Top.at) \in Nat /\ Top \in Frames
<1>1. Len(nest) \in DOMAIN nest /\ Len(tree) \in Nat /\ DOMAIN tree = 1 .. Len(tree) /\ Top \in Frames
  BY OnwardFacts, TopFacts
<1>2. Built(tree, Top)
  BY <1>1, OnwardFacts DEF GrownInv, Grown, Nested, Top
<1>3. Top.node \in DOMAIN tree
  BY <1>2 DEF Built
<1>4. /\ \A n \in DOMAIN tree : tree[n].up \in Nat /\ tree[n].up < n /\ tree[n].part \in Parts
      /\ Statement(tree, Top) \in 0 .. Top.node /\ Top.at \in Parts
  BY <1>1, OnwardFacts, NodesOrdered DEF Top
<1>5. /\ Top.node \in DOMAIN T /\ T[Top.node] = tree[Top.node] /\ Len(tree) <= Len(T)
      /\ Len(T) \in Nat
  BY <1>3, OnwardFacts
<1>6. Rank(Top.at) \in Nat /\ \A n \in DOMAIN tree : Rank(tree[n].part) \in Nat
  BY <1>4, RankFacts
<1>7. Top.node \in 0 .. Len(T) /\ Top.node \in 0 .. Len(tree) /\ Top.node \in Nat /\ Top.node # 0
  BY <1>1, <1>3, <1>5
<1>8. tree[Top.node].up \in 0 .. Len(T)
  BY <1>3, <1>4, <1>5, <1>7
<1>9. /\ Top.kind \notin {"function", "cond_block"} => tree[Top.node].kind = Top.kind
      /\ \A n \in DOMAIN tree : tree[n].up = Top.node => Rank(tree[n].part) <= Rank(Top.at)
  BY <1>2 DEF Built
<1>10. Statement(tree, Top) \in Nat /\ Statement(tree, Top) <= Top.node
  BY <1>4, <1>7
<1> QED
  BY <1>1, <1>2, <1>3, <1>4, <1>5, <1>6, <1>7, <1>8, <1>9, <1>10

(* The part the innermost emission leaves does not grow any more.          *)
LEMMA PartOver ==
  ASSUME NEW F, NEW T, Onward(F, T), Top.kind # "function", UNCHANGED tree,
         NEW c, GoOn(c), c.node = Top.node, c.kind = Top.kind,
         NEW part, part # c.at, ~(Rank(part) > Rank(c.at))
  PROVE  Coming(T, Top.node, part, Len(tree)) = {}
<1>1. Len(nest) \in DOMAIN nest /\ DOMAIN nest = 1 .. Len(nest) /\ Len(nest) \in Nat
  BY OnwardFacts, TopFacts
<1>2. /\ DOMAIN nest' = DOMAIN nest /\ nest'[Len(nest)] = c
      /\ \A k \in DOMAIN nest : k # Len(nest) => nest'[k] = nest[k]
  BY <1>1, OnwardFacts DEF GoOn, TypeInv
<1>3. /\ Top.node \in Nat /\ Top.node <= Len(tree) /\ tree[Top.node].up # Top.node
      /\ Statement(tree, Top) <= Top.node
  BY TopNode
<1>4. ASSUME NEW k \in DOMAIN nest'
      PROVE ~Grows(tree', nest'[k], k = Len(nest'), mode', Top.node, part)
  <2>1. CASE k = Len(nest)
    <3>1. ~Grows(tree, c, k = Len(nest'), mode', Top.node, part)
      BY <1>3 DEF Grows
    <3> QED
      BY <1>2, <2>1, <3>1
  <2>2. CASE k # Len(nest)
    <3>1. k \in DOMAIN nest /\ nest'[k] = nest[k] /\ k < Len(nest)
      BY <1>1, <1>2, <2>2
    <3>2. ~Grows(tree, nest[k], k = Len(nest'), mode', Top.node, part)
      BY <1>3, <3>1, OnwardFacts, OuterElsewhere
    <3> QED
      BY <3>1, <3>2
  <2> QED
    BY <2>1, <2>2
<1> QED
  BY <1>3, <1>4, OnwardFacts, NoneComing

(* The innermost emission goes on to a later part of its node.             *)
LEMMA GoOnSound ==
  ASSUME NEW F, NEW T, Onward(F, T), NEW c, GoOn(c), UNCHANGED tree, c.node = Top.node,
         c.kind = Top.kind, c.l1 = Top.l1, c.l2 = Top.l2, Rank(Top.at) < Rank(c.at),
         \A L, x : Reaches(F, T, L, code, x) /\ Reached(F, T, Len(tree), Top, mode, x)
                   /\ Targets(F, T, L, Top) =>
            \E y : Reaches(F, T, L, code', y) /\ Reached(F, T, Len(tree'), c, mode', y)
  PROVE  Sound(F, T)
<1>1. Completes(T, tree, nest, mode)
  BY OnwardFacts, GoOnCompletes
<1>2. ASSUME LoweredNow(F, T) PROVE LoweredNext(F, T)
  <2>1. PICK L, x : /\ Reaches(F, T, L, code, x) /\ Reached(F, T, Len(tree), Top, mode, x)
                    /\ \A k \in DOMAIN nest : Targets(F, T, L, nest[k])
                    /\ Targets(F, T, L, Top) /\ Ways(F, T, nest)
    BY <1>2, OnwardFacts, LoweredParts DEF LoweredNow
  <2>2. PICK y : Reaches(F, T, L, code', y) /\ Reached(F, T, Len(tree'), c, mode', y)
    BY <2>1
  <2>3. Targets(F, T, L, c)
    BY <2>1 DEF Targets, label_end, else_label, end_cond, cur_break, cur_continue
  <2>4. Ways(F, T, nest')
    BY <2>1, OnwardFacts, GoOnWays
  <2> QED
    BY <2>1, <2>2, <2>3, <2>4, GoOnLowers
<1> QED
  BY <1>1, <1>2 DEF Sound

LEMMA LogicLeftLowers ==
  ASSUME NEW F, NEW T, Onward(F, T), LogicLeft
  PROVE  Sound(F, T)
<1> DEFINE c == [Top EXCEPT !.at = "right"]
           l == label_end(Top)
<1>1. /\ GoOn(c) /\ UNCHANGED tree /\ mode = "value" /\ mode' = "expr"
      /\ Top.kind \in {"and", "or"} /\ Top.at = "left"
      /\ Emits(<<IF Top.kind = "and" THEN Jz(l) ELSE Jnz(l)>>)
  BY DEF LogicLeft
<1>2. /\ Top.node \in DOMAIN tree /\ T[Top.node] = tree[Top.node] /\ Top \in Frames
      /\ Top.node \in 0 .. Len(T) /\ tree[Top.node].kind = Top.kind
      /\ \A n \in DOMAIN tree : tree[n].up = Top.node => Rank(tree[n].part) <= Rank(Top.at)
  BY <1>1, TopNode
<1>3. c.at = "right" /\ c.node = Top.node /\ c.kind = Top.kind /\ c.l1 = Top.l1 /\ c.l2 = Top.l2
  BY <1>2 DEF Frames
<1>4. l \in Int
  BY <1>2 DEF Frames, label_end
<1> HIDE DEF c
<1>5. T \in Seq(Nodes) /\ Leads(F, T) /\ tree' \in Seq(Nodes) /\ Completes(T, tree', nest', mode')
  BY OnwardFacts
<1>6. ASSUME NEW L, NEW x, Reaches(F, T, L, code, x), Reached(F, T, Len(tree), Top, mode, x),
             Targets(F, T, L, Top)
      PROVE  \E y : Reaches(F, T, L, code', y) /\ Reached(F, T, Len(tree'), c, mode', y)
  <2> DEFINE go == Top.kind = "and"
             y  == [v \in BOOLEAN |-> x[go]]
             it == IF Top.kind = "and" THEN Jz(l) ELSE Jnz(l)
  <2>1. go \in BOOLEAN /\ \A v \in BOOLEAN : y[v] = x[go]
    OBVIOUS
  <2>2. x[~go] = L[l][~go]
    <3>1. Of(T)!Passed(Top.node, "left", ~go) = Of(T)!Leave(Top.node, ~go)
      BY <1>1, <1>2 DEF Of!Passed
    <3>2. Of(T)!Leave(Top.node, ~go) \in Of(T)!Points
      BY <1>2, <1>5, PointFacts
    <3>3. x[~go] = F[Of(T)!Leave(Top.node, ~go)]
      BY <1>1, <1>6, <3>1, <3>2 DEF Reached
    <3> QED
      BY <1>1, <1>6, <3>3 DEF Targets
  <2>3. it \in Items
    <3>1. 0 \in Nat
      OBVIOUS
    <3> QED
      BY <1>4, <3>1, CodeTypes
  <2>4. \A w : (\A v \in BOOLEAN : w[v] = x[v]) => Fits(F, T, L, it, w, y)
    <3> SUFFICES ASSUME NEW w, \A v \in BOOLEAN : w[v] = x[v] PROVE Fits(F, T, L, it, w, y)
      OBVIOUS
    <3>1. CASE Top.kind = "and"
      <4>1. w[FALSE] = L[l][FALSE] /\ y[TRUE] = w[TRUE]
        BY <2>1, <2>2, <3>1
      <4>2. Fits(F, T, L, Jz(l), w, y)
        BY <1>4, <4>1, FitJump
      <4> QED
        BY <3>1, <4>2
    <3>2. CASE Top.kind # "and"
      <4>1. w[TRUE] = L[l][TRUE] /\ y[FALSE] = w[FALSE]
        BY <2>1, <2>2, <3>2
      <4>2. Fits(F, T, L, Jnz(l), w, y)
        BY <1>4, <4>1, FitJump
      <4> QED
        BY <3>2, <4>2
    <3> QED
      BY <3>1, <3>2
  <2>5. Reaches(F, T, L, code', y)
    BY <1>1, <1>6, <2>3, <2>4, OnwardFacts, EmitOne
  <2>6. Of(T)!Kids(c.node, c.at) # {} =>
          \A v \in BOOLEAN : y[v] = F[Of(T)!Begin(Of(T)!Kid(c.node, c.at))]
    <3>1. Of(T)!Passed(Top.node, "left", go) = Of(T)!Begin(Of(T)!Kid(Top.node, "right"))
      BY <1>1, <1>2 DEF Of!Passed
    <3>2. Of(T)!Kids(c.node, c.at) # {} => Of(T)!Begin(Of(T)!Kid(Top.node, "right")) \in Of(T)!Points
      BY <1>3, <1>5, KidFacts
    <3> QED
      BY <1>1, <1>3, <1>6, <2>1, <3>1, <3>2 DEF Reached
  <2> HIDE DEF y
  <2>7. \A n \in DOMAIN tree' : ~(tree'[n].up = c.node /\ tree'[n].part = c.at)
    BY <1>1, <1>2, <1>3, RankFacts
  <2>8. Wants(mode') /\ c.at # "body"
    BY <1>1, <1>3 DEF Wants
  <2>9. Reached(F, T, Len(tree'), c, mode', y)
    BY <1>5, <2>6, <2>7, <2>8, PartBegins
  <2> QED
    BY <2>5, <2>9
<1>7. Rank(Top.at) < Rank(c.at)
  BY <1>1, <1>3, RankFacts
<1> QED
  BY <1>1, <1>3, <1>6, <1>7, GoOnSound

(* A block begins in the tree as it is: none of its lines is there.        *)
LEMMA BodyBegins ==
  ASSUME NEW F, NEW T, Onward(F, T), Top.kind # "function", UNCHANGED tree,
         Rank(Top.at) < Rank("body"), mode' = "stmt", NEW c, c.node = Top.node, c.at = "body",
         NEW y, \A v \in BOOLEAN : y[v] = F[Of(T)!At("block", Top.node)]
  PROVE  Reached(F, T, Len(tree'), c, mode', y)
<1>1. \A n \in DOMAIN tree' : ~(tree'[n].up = c.node /\ tree'[n].part = "body")
  BY TopNode, RankFacts
<1>2. c.node \in 0 .. Len(tree')
  BY TopNode
<1>3. Leads(F, T) /\ tree' \in Seq(Nodes) /\ Completes(T, tree', nest', mode')
  BY OnwardFacts
<1> QED
  BY <1>1, <1>2, <1>3, BlockBegins

(* A condition has been evaluated: the block begins unless it was zero.    *)
LEMMA TestLowers ==
  ASSUME NEW F, NEW T, Onward(F, T), Top.kind \in {"cond_block"} \cup LoopKinds, Top.at = "cond",
         NEW l \in Int, Emits(<<Jz(l)>>), GoOn([Top EXCEPT !.at = "body"]), UNCHANGED tree,
         mode = "value", mode' = "stmt",
         Of(T)!Tested(Top.node, FALSE) \in Of(T)!Points,
         \A L : Targets(F, T, L, Top) => L[l][FALSE] = F[Of(T)!Tested(Top.node, FALSE)]
  PROVE  Sound(F, T)
<1> DEFINE c == [Top EXCEPT !.at = "body"]
<1>1. Top.kind # "function"
  BY DEF LoopKinds
<1>2. /\ Top.node \in DOMAIN tree /\ T[Top.node] = tree[Top.node] /\ Top \in Frames
      /\ Top.node \in 0 .. Len(T)
  BY <1>1, TopNode
<1>3. c.at = "body" /\ c.node = Top.node /\ c.kind = Top.kind /\ c.l1 = Top.l1 /\ c.l2 = Top.l2
      /\ GoOn(c)
  BY <1>2 DEF Frames
<1> HIDE DEF c
<1>4. T \in Seq(Nodes)
  BY OnwardFacts
<1>5. ASSUME NEW L, NEW x, Reaches(F, T, L, code, x), Reached(F, T, Len(tree), Top, mode, x),
             Targets(F, T, L, Top)
      PROVE  \E y : Reaches(F, T, L, code', y) /\ Reached(F, T, Len(tree'), c, mode', y)
  <2> DEFINE y == [v \in BOOLEAN |-> x[TRUE]]
  <2>1. \A v \in BOOLEAN : y[v] = x[TRUE]
    OBVIOUS
  <2> HIDE DEF y
  <2>2. x[FALSE] = F[Of(T)!Tested(Top.node, FALSE)]
    <3>1. Of(T)!Passed(Top.node, "cond", FALSE) = Of(T)!Tested(Top.node, FALSE)
      BY DEF Of!Passed
    <3> QED
      BY <1>5, <3>1 DEF Reached
  <2>3. x[TRUE] = F[Of(T)!At("block", Top.node)]
    <3>1. Of(T)!Passed(Top.node, "cond", TRUE) = Of(T)!At("block", Top.node)
      BY DEF Of!Passed, Of!Tested
    <3>2. Of(T)!At("block", Top.node) \in Of(T)!Points
      BY <1>2, <1>4, PointFacts
    <3> QED
      BY <1>5, <3>1, <3>2 DEF Reached
  <2>4. Jz(l) \in Items
    <3>1. 0 \in Nat
      OBVIOUS
    <3> QED
      BY <3>1, CodeTypes
  <2>5. \A w : (\A v \in BOOLEAN : w[v] = x[v]) => Fits(F, T, L, Jz(l), w, y)
    <3> SUFFICES ASSUME NEW w, \A v \in BOOLEAN : w[v] = x[v] PROVE Fits(F, T, L, Jz(l), w, y)
      OBVIOUS
    <3>1. w[FALSE] = L[l][FALSE] /\ y[TRUE] = w[TRUE]
      BY <1>5, <2>1, <2>2
    <3> QED
      BY <3>1, FitJump
  <2>6. Reaches(F, T, L, code', y)
    BY <1>5, <2>4, <2>5, OnwardFacts, EmitOne
  <2>7. Reached(F, T, Len(tree'), c, mode', y)
    BY <1>1, <1>3, <2>1, <2>3, RankFacts, BodyBegins
  <2> QED
    BY <2>6, <2>7
<1>6. Rank(Top.at) < Rank(c.at)
  BY <1>3, RankFacts
<1> QED
  BY <1>3, <1>5, <1>6, GoOnSound

LEMMA CondTestLowers ==
  ASSUME NEW F, NEW T, Onward(F, T), CondTest
  PROVE  Sound(F, T)
<1> DEFINE l == else_label(Top)
<1>1. /\ GoOn([Top EXCEPT !.at = "body"]) /\ UNCHANGED tree /\ mode = "value" /\ mode' = "stmt"
      /\ Top.kind = "cond_block" /\ Emits(<<Jz(l)>>)
  BY DEF CondTest
<1>2. Top.at = "cond" /\ T[Top.node].kind = "if_branch" /\ l \in Int
      /\ T[Top.node].up \in 0 .. Len(T) /\ T \in Seq(Nodes)
  <2>1. Built(tree, Top) /\ T[Top.node] = tree[Top.node] /\ Top \in Frames
        /\ tree[Top.node].up \in 0 .. Len(T)
    BY <1>1, TopNode
  <2>2. Top.at # "body"
    BY <1>1, OnwardFacts, ReadyTop
  <2>3. Top.at = "cond"
    BY <1>1, <2>1, <2>2 DEF Built
  <2>4. tree[Top.node].kind = "if_branch"
    BY <1>1, <2>1, <2>3 DEF Built
  <2>5. l \in Int
    BY <2>1 DEF Frames, else_label
  <2> QED
    BY <2>1, <2>3, <2>4, <2>5, OnwardFacts
<1>3. Of(T)!Tested(Top.node, FALSE) \in Of(T)!Points
  <2>1. Of(T)!Later(Top.node) \in SUBSET (DOMAIN T)
    BY DEF Of!Later, Of!Kids
  <2>2. DOMAIN T \subseteq 0 .. Len(T)
    BY <1>2
  <2>3. Of(T)!Later(Top.node) # {} => Of(T)!Earliest(Of(T)!Later(Top.node)) \in 0 .. Len(T)
    BY <1>2, <2>1, <2>2, EarliestFacts
  <2>4. /\ Of(T)!Later(Top.node) # {} => Of(T)!Begin(Of(T)!Earliest(Of(T)!Later(Top.node))) \in Of(T)!Points
        /\ Of(T)!Leave(T[Top.node].up, TRUE) \in Of(T)!Points
    BY <1>2, <2>3, PointFacts
  <2> QED
    BY <1>2, <2>4 DEF Of!Tested
<1>4. \A L : Targets(F, T, L, Top) => L[l][FALSE] = F[Of(T)!Tested(Top.node, FALSE)]
  BY <1>1, <1>2 DEF Targets
<1> HIDE DEF l
<1> QED
  BY <1>1, <1>2, <1>3, <1>4, TestLowers

(* A loop's condition that was zero ends the loop.                         *)
LEMMA LoopTested ==
  ASSUME NEW F, NEW T, Onward(F, T), Top.kind \in LoopKinds, UNCHANGED tree
  PROVE  /\ Of(T)!Tested(Top.node, FALSE) = Of(T)!Leave(Top.node, TRUE)
         /\ Of(T)!Leave(Top.node, TRUE) \in Of(T)!Points
         /\ T[Top.node].kind = Top.kind
<1>1. T[Top.node].kind = Top.kind /\ Top.node \in 0 .. Len(T) /\ T \in Seq(Nodes)
  BY OnwardFacts, TopNode DEF LoopKinds
<1> QED
  BY <1>1, PointFacts DEF Of!Tested, LoopKinds

LEMMA LoopTestLowers ==
  ASSUME NEW F, NEW T, Onward(F, T), LoopTest
  PROVE  Sound(F, T)
<1> DEFINE l == cur_break(Top)
<1>1. /\ GoOn([Top EXCEPT !.at = "body"]) /\ UNCHANGED tree /\ mode = "value" /\ mode' = "stmt"
      /\ Top.kind \in LoopKinds /\ Top.at = "cond" /\ Emits(<<Jz(l)>>)
  BY DEF LoopTest
<1>2. l \in Int
  BY OnwardFacts, TopFacts DEF Frames, cur_break
<1>3. Of(T)!Tested(Top.node, FALSE) \in Of(T)!Points
  BY <1>1, LoopTested
<1>4. \A L : Targets(F, T, L, Top) => L[l][FALSE] = F[Of(T)!Tested(Top.node, FALSE)]
  BY <1>1, LoopTested DEF Targets
<1> HIDE DEF l
<1> QED
  BY <1>1, <1>2, <1>3, <1>4, TestLowers

(* A for statement comes to its test.                                      *)
LEMMA ForComesToTest ==
  ASSUME NEW F, NEW T, Onward(F, T), Top.kind = "for_block", Top.at = "init", UNCHANGED tree,
         mode = "value", NEW L, NEW x, Reached(F, T, Len(tree), Top, mode, x), Targets(F, T, L, Top)
  PROVE  /\ Label(cur_continue(Top)) \in Items /\ cur_continue(Top) \in Int
         /\ \A v \in BOOLEAN : x[v] = F[Of(T)!At("test", Top.node)]
         /\ \A w : (\A v \in BOOLEAN : w[v] = x[v]) => Fits(F, T, L, Label(cur_continue(Top)), w, x)
<1>1. Top.node \in 0 .. Len(T) /\ T \in Seq(Nodes)
  BY OnwardFacts, TopNode
<1>2. \A v \in BOOLEAN : x[v] = F[Of(T)!At("test", Top.node)]
  <2>1. Of(T)!At("test", Top.node) \in Of(T)!Points
    BY <1>1, PointFacts
  <2>2. \A v : Of(T)!Passed(Top.node, "init", v) = Of(T)!At("test", Top.node)
    BY DEF Of!Passed
  <2> QED
    BY <2>1, <2>2 DEF Reached
<1>3. PICK l \in Int : l = cur_continue(Top)
  BY OnwardFacts, TopFacts DEF Frames, cur_continue
<1>4. Label(l) \in Items
  <2>1. 0 \in Nat
    OBVIOUS
  <2> QED
    BY <2>1, CodeTypes
<1>5. \A v \in BOOLEAN : L[l][v] = F[Of(T)!At("test", Top.node)]
  BY <1>3 DEF Targets, LoopKinds
<1>6. ASSUME NEW w, \A v \in BOOLEAN : w[v] = x[v] PROVE Fits(F, T, L, Label(l), w, x)
  <2>1. \A v \in BOOLEAN : w[v] = L[l][v] /\ x[v] = L[l][v]
    BY <1>2, <1>5, <1>6
  <2> QED
    BY <2>1, FitJump
<1> QED
  BY <1>2, <1>3, <1>4, <1>6

LEMMA ForCondLowers ==
  ASSUME NEW F, NEW T, Onward(F, T), Top.kind = "for_block", Top.at = "init", UNCHANGED tree,
         mode = "value", mode' = "expr", Emits(<<Label(cur_continue(Top))>>),
         GoOn([Top EXCEPT !.at = "cond"])
  PROVE  Sound(F, T)
<1> DEFINE c == [Top EXCEPT !.at = "cond"]
<1>1. /\ Top.node \in DOMAIN tree /\ Top \in Frames /\ Top.node \in 0 .. Len(T)
      /\ \A n \in DOMAIN tree : tree[n].up = Top.node => Rank(tree[n].part) <= Rank(Top.at)
  BY TopNode
<1>2. c.at = "cond" /\ c.node = Top.node /\ c.kind = Top.kind /\ c.l1 = Top.l1 /\ c.l2 = Top.l2
      /\ GoOn(c)
  BY <1>1 DEF Frames
<1> HIDE DEF c
<1>3. /\ T \in Seq(Nodes) /\ Leads(F, T) /\ tree' \in Seq(Nodes)
      /\ Completes(T, tree', nest', mode')
  BY OnwardFacts
<1>4. ASSUME NEW L, NEW x, Reaches(F, T, L, code, x), Reached(F, T, Len(tree), Top, mode, x),
             Targets(F, T, L, Top)
      PROVE  \E y : Reaches(F, T, L, code', y) /\ Reached(F, T, Len(tree'), c, mode', y)
  <2>1. Reaches(F, T, L, code', x)
    BY <1>4, ForComesToTest, OnwardFacts, EmitOne
  <2>2. \A v \in BOOLEAN : x[v] = F[Of(T)!At("test", Top.node)]
    BY <1>4, ForComesToTest
  <2>3. Of(T)!Kids(c.node, c.at) # {} =>
          \A v \in BOOLEAN : x[v] = F[Of(T)!Begin(Of(T)!Kid(c.node, c.at))]
    <3>1. Of(T)!Kids(Top.node, "cond") # {} =>
            F[Of(T)!At("test", Top.node)] = F[Of(T)!Begin(Of(T)!Kid(Top.node, "cond"))]
      BY <1>1, <1>3, KidFacts, AtLeads
    <3> QED
      BY <1>2, <2>2, <3>1
  <2>4. \A n \in DOMAIN tree' : ~(tree'[n].up = c.node /\ tree'[n].part = c.at)
    BY <1>1, <1>2, RankFacts
  <2>5. Wants(mode') /\ c.at # "body"
    BY <1>2 DEF Wants
  <2>6. Reached(F, T, Len(tree'), c, mode', x)
    BY <1>3, <2>3, <2>4, <2>5, PartBegins
  <2> QED
    BY <2>1, <2>6
<1>5. Rank(Top.at) < Rank(c.at)
  BY <1>2, RankFacts
<1> QED
  BY <1>2, <1>4, <1>5, GoOnSound

LEMMA ForNoCondLowers ==
  ASSUME NEW F, NEW T, Onward(F, T), Top.kind = "for_block", Top.at = "init", UNCHANGED tree,
         mode = "value", mode' = "stmt", GoOn([Top EXCEPT !.at = "body"]),
         Emits(<<Label(cur_continue(Top)), JzUntested(cur_break(Top), Top.node)>>)
  PROVE  Sound(F, T)
<1> DEFINE c == [Top EXCEPT !.at = "body"]
           l == cur_break(Top)
           n == Top.node
<1>1. /\ Top.node \in DOMAIN T /\ Top \in Frames /\ Top.node \in 0 .. Len(T)
      /\ T[Top.node].kind = "for_block" /\ Top.node # 0 /\ Top.node \in Nat
  BY TopNode
<1>2. c.at = "body" /\ c.node = Top.node /\ c.kind = Top.kind /\ c.l1 = Top.l1 /\ c.l2 = Top.l2
      /\ GoOn(c)
  BY <1>1 DEF Frames
<1> HIDE DEF c
<1>3. /\ T \in Seq(Nodes) /\ Leads(F, T) /\ tree' \in Seq(Nodes)
      /\ Completes(T, tree', nest', mode')
  BY OnwardFacts
<1>4. Of(T)!Kids(Top.node, "cond") = {}
  <2>1. Coming(T, Top.node, "cond", Len(tree)) = {}
    BY <1>2, RankFacts, PartOver
  <2>2. \A k \in DOMAIN tree' : ~(tree'[k].up = Top.node /\ tree'[k].part = "cond")
    BY TopNode, RankFacts
  <2>3. Of(T)!Kids(Top.node, "cond") = Coming(T, Top.node, "cond", Len(tree'))
    BY <1>3, <2>2, AllComing
  <2> QED
    BY <2>1, <2>3
<1>5. F[Of(T)!At("test", Top.node)] = F[Of(T)!At("event", Top.node)]
  BY <1>1, <1>3, <1>4, PointFacts, AtLeads
<1>6. l \in Int
  BY <1>1 DEF Frames, cur_break
<1>7. ASSUME NEW L, NEW x, Reaches(F, T, L, code, x), Reached(F, T, Len(tree), Top, mode, x),
             Targets(F, T, L, Top)
      PROVE  \E y : Reaches(F, T, L, code', y) /\ Reached(F, T, Len(tree'), c, mode', y)
  <2> DEFINE y == [v \in BOOLEAN |-> F[Of(T)!At("block", Top.node)]]
  <2>1. \A v \in BOOLEAN : y[v] = F[Of(T)!At("block", Top.node)]
    OBVIOUS
  <2> HIDE DEF y
  <2>2. /\ Label(cur_continue(Top)) \in Items
        /\ \A v \in BOOLEAN : x[v] = F[Of(T)!At("test", Top.node)]
        /\ \A w : (\A v \in BOOLEAN : w[v] = x[v]) => Fits(F, T, L, Label(cur_continue(Top)), w, x)
    BY <1>7, ForComesToTest
  <2>3. L[l][FALSE] = F[Of(T)!Leave(Top.node, TRUE)]
    BY <1>7 DEF Targets, LoopKinds
  <2>4. JzUntested(l, Top.node) \in Items
    BY <1>1, <1>6, CodeTypes
  <2>5. \A w : (\A v \in BOOLEAN : w[v] = x[v]) => Fits(F, T, L, JzUntested(l, Top.node), w, y)
    <3> SUFFICES ASSUME NEW w, \A v \in BOOLEAN : w[v] = x[v]
                 PROVE  Fits(F, T, L, JzUntested(l, Top.node), w, y)
      OBVIOUS
    <3>1. \A v \in BOOLEAN : w[v] = F[Of(T)!At("event", Top.node)]
      BY <1>5, <2>2
    <3>2. /\ JzUntested(l, Top.node).op = "jz" /\ JzUntested(l, Top.node).label = l
          /\ JzUntested(l, Top.node).node = Top.node
      BY DEF JzUntested, Item
    <3> HIDE DEF l
    <3> QED
      BY <1>1, <2>1, <2>3, <3>1, <3>2 DEF Fits
  <2>6. Reaches(F, T, L, code', y)
    BY <1>7, <2>2, <2>4, <2>5, OnwardFacts, EmitTwo
  <2>7. Reached(F, T, Len(tree'), c, mode', y)
    BY <1>2, <2>1, RankFacts, BodyBegins
  <2> QED
    BY <2>6, <2>7
<1>8. Rank(Top.at) < Rank(c.at)
  BY <1>2, RankFacts
<1> QED
  BY <1>2, <1>7, <1>8, GoOnSound

LEMMA ForTestLowers ==
  ASSUME NEW F, NEW T, Onward(F, T), ForTest
  PROVE  Sound(F, T)
<1>1. mode = "value" /\ Top.kind = "for_block" /\ Top.at = "init" /\ UNCHANGED tree
  BY DEF ForTest
<1>2. \/ Emits(<<Label(cur_continue(Top))>>) /\ GoOn([Top EXCEPT !.at = "cond"]) /\ mode' = "expr"
      \/ /\ Emits(<<Label(cur_continue(Top)), JzUntested(cur_break(Top), Top.node)>>)
         /\ GoOn([Top EXCEPT !.at = "body"]) /\ mode' = "stmt"
  BY Zenon DEF ForTest
<1> QED
  BY <1>1, <1>2, ForCondLowers, ForNoCondLowers

(* A block is over: what is there of it is all there is.                   *)
LEMMA ForStepLowers ==
  ASSUME NEW F, NEW T, Onward(F, T), ForStep
  PROVE  Sound(F, T)
<1> DEFINE c == [Top EXCEPT !.at = "step"]
<1>1. /\ GoOn(c) /\ UNCHANGED <<tree, mode, code>> /\ Top.kind = "for_block" /\ Top.at = "body"
      /\ mode = "stmt"
  BY DEF ForStep, BlockEnds
<1>2. /\ Top.node \in DOMAIN T /\ Top \in Frames /\ Top.node \in 0 .. Len(T)
      /\ T[Top.node].kind = "for_block" /\ Top.node # 0
      /\ \A n \in DOMAIN tree : tree[n].up = Top.node => Rank(tree[n].part) <= Rank(Top.at)
  BY <1>1, TopNode
<1>3. c.at = "step" /\ c.node = Top.node /\ c.kind = Top.kind /\ c.l1 = Top.l1 /\ c.l2 = Top.l2
  BY <1>2 DEF Frames
<1> HIDE DEF c
<1>4. /\ T \in Seq(Nodes) /\ Leads(F, T) /\ tree' \in Seq(Nodes)
      /\ Completes(T, tree', nest', mode')
  BY OnwardFacts
<1>5. Coming(T, Top.node, "body", Len(tree)) = {}
  BY <1>1, <1>3, RankFacts, PartOver
<1>6. ASSUME NEW L, NEW x, Reaches(F, T, L, code, x), Reached(F, T, Len(tree), Top, mode, x)
      PROVE  Reaches(F, T, L, code', x) /\ Reached(F, T, Len(tree'), c, mode', x)
  <2>1. \A v \in BOOLEAN : x[v] = F[Of(T)!At("closed", Top.node)]
    BY <1>1, <1>5, <1>6, BlockCloses
  <2>2. Of(T)!Kids(c.node, c.at) # {} =>
          \A v \in BOOLEAN : x[v] = F[Of(T)!Begin(Of(T)!Kid(c.node, c.at))]
    <3>1. Of(T)!Kids(Top.node, "step") # {} =>
            /\ Of(T)!Closed(Top.node) = Of(T)!Begin(Of(T)!Kid(Top.node, "step"))
            /\ Of(T)!Begin(Of(T)!Kid(Top.node, "step")) \in Of(T)!Points
      BY <1>2, <1>4, KidFacts DEF Of!Closed
    <3>2. Of(T)!Kids(Top.node, "step") # {} =>
            F[Of(T)!At("closed", Top.node)] = F[Of(T)!Begin(Of(T)!Kid(Top.node, "step"))]
      BY <1>2, <1>4, <3>1, AtLeads
    <3> QED
      BY <1>3, <2>1, <3>2
  <2>3. \A n \in DOMAIN tree' : ~(tree'[n].up = c.node /\ tree'[n].part = c.at)
    BY <1>1, <1>2, <1>3, RankFacts
  <2>4. Wants(mode') /\ c.at # "body"
    BY <1>1, <1>3 DEF Wants
  <2>5. Reached(F, T, Len(tree'), c, mode', x)
    BY <1>4, <2>2, <2>3, <2>4, PartBegins
  <2> QED
    BY <1>1, <1>6, <2>5
<1>7. Rank(Top.at) < Rank(c.at)
  BY <1>1, <1>3, RankFacts
<1> QED
  BY <1>1, <1>3, <1>6, <1>7, GoOnSound

-----------------------------------------------------------------------------
(* Another branch of a condition. *)

(* Another branch of a condition: the node it adds.                        *)
LEMMA BranchNode ==
  ASSUME NEW F, NEW T, Onward(F, T), NEW kind \in {"if_branch", "else_branch"},
         Top.kind = "cond_block", ~InElse, tree' = Append(tree, Node(kind, CondNode, "branch"))
  PROVE  /\ New = Len(tree) + 1 /\ Len(tree) \in Nat /\ Len(tree') = New /\ New \in DOMAIN tree'
         /\ DOMAIN tree' = 1 .. New /\ DOMAIN tree = 1 .. Len(tree)
         /\ \A n \in DOMAIN tree : n \in DOMAIN tree' /\ tree'[n] = tree[n] /\ n \in DOMAIN T
                                   /\ T[n] = tree[n] /\ n \in 0 .. Len(T) /\ n # New
         /\ \A n \in DOMAIN tree' : n \notin DOMAIN tree => n = New
         /\ New \in DOMAIN T /\ New \in 0 .. Len(T) /\ T[New] = tree'[New]
         /\ T[New].kind = kind /\ T[New].up = CondNode /\ T[New].part = "branch"
         /\ Top.node \in DOMAIN tree /\ Top.node # 0 /\ Top.node \in Nat
         /\ T[Top.node].kind = "if_branch" /\ T[Top.node].up = CondNode
         /\ T[Top.node].part = "branch" /\ CondNode \in DOMAIN tree
         /\ T[CondNode].kind = "cond_block" /\ CondNode < Top.node
         /\ \A n \in DOMAIN tree : tree[n].up = CondNode => n <= Top.node
         /\ Statement(tree, Top) = CondNode
<1>1. Len(tree) \in Nat /\ New = Len(tree) + 1 /\ DOMAIN tree = 1 .. Len(tree) /\ tree \in Seq(Nodes)
  BY OnwardFacts, TopFacts DEF New, TypeInv
<1> DEFINE e == Node(kind, CondNode, "branch")
<1>2. e.kind = kind /\ e.up = CondNode /\ e.part = "branch"
  BY DEF Node
<1>3. tree' = Append(tree, e)
  OBVIOUS
<1> HIDE DEF e
<1>4. /\ DOMAIN tree' = 1 .. New /\ Len(tree') = New /\ tree'[New] = e
      /\ \A n \in 1 .. Len(tree) : tree'[n] = tree[n]
  BY <1>1, <1>3
<1>5. \A n \in DOMAIN tree' : n \in DOMAIN T /\ n \in 0 .. Len(T) /\ T[n] = tree'[n]
  BY OnwardFacts
<1>6. New \in DOMAIN tree' /\ \A n \in DOMAIN tree : n \in DOMAIN tree' /\ tree'[n] = tree[n] /\ n # New
  BY <1>1, <1>4
<1>7. Built(tree, Top)
  <2>1. Len(nest) \in DOMAIN nest
    BY OnwardFacts, TopFacts
  <2> QED
    BY <2>1, OnwardFacts DEF GrownInv, Grown, Nested, Top
<1>8. /\ Top.node \in DOMAIN tree /\ tree[Top.node].kind \in {"if_branch", "else_branch"}
      /\ tree[Top.node].part = "branch" /\ CondNode \in DOMAIN tree
      /\ tree[CondNode].kind = "cond_block"
      /\ \A n \in DOMAIN tree : tree[n].up = CondNode => n <= Top.node
  BY <1>7 DEF Built, CondNode
<1>9. tree[Top.node].kind = "if_branch" /\ tree[Top.node].up = CondNode
  BY <1>8 DEF InElse, CondNode
<1>10. CondNode < Top.node
  BY <1>8, <1>9, OnwardFacts DEF GrownInv, Grown, Upwards
<1>11. \A n \in DOMAIN tree' : n \notin DOMAIN tree => n = New
  BY <1>1, <1>4
<1>12. Statement(tree, Top) = CondNode
  BY DEF Statement, CondNode
<1>13. Top.node # 0 /\ Top.node \in Nat
  BY <1>1, <1>8
<1>14. T[Top.node] = tree[Top.node] /\ T[CondNode] = tree[CondNode] /\ T[New] = e
  BY <1>4, <1>5, <1>6, <1>8
<1> QED
  BY <1>1, <1>2, <1>4, <1>5, <1>6, <1>8, <1>9, <1>10, <1>11, <1>12, <1>13, <1>14

(* The branch before is over; its end leads behind the condition, its      *)
(* label to the new branch.                                                *)
LEMMA BranchOver ==
  ASSUME NEW F, NEW T, Onward(F, T), NEW kind \in {"if_branch", "else_branch"},
         Top.kind = "cond_block", ~InElse, tree' = Append(tree, Node(kind, CondNode, "branch")),
         NEW c, GoOn(c), c.node = New
  PROVE  /\ Coming(T, Top.node, "body", Len(tree)) = {}
         /\ F[Of(T)!At("closed", Top.node)] = F[Of(T)!Leave(CondNode, TRUE)]
         /\ Of(T)!Tested(Top.node, FALSE) = Of(T)!Begin(New)
         /\ F[Of(T)!At("break", New)] = F[Of(T)!At("break", Top.node)]
         /\ F[Of(T)!At("continue", New)] = F[Of(T)!At("continue", Top.node)]
<1>1. T \in Seq(Nodes) /\ Leads(F, T) /\ tree' \in Seq(Nodes) /\ Completes(T, tree', nest', mode')
  BY OnwardFacts
<1>2. Len(nest) \in DOMAIN nest /\ DOMAIN nest = 1 .. Len(nest) /\ Len(nest) \in Nat
  BY OnwardFacts, TopFacts
<1>3. /\ DOMAIN nest' = DOMAIN nest /\ nest'[Len(nest)] = c
      /\ \A k \in DOMAIN nest : k # Len(nest) => nest'[k] = nest[k]
  BY <1>2, OnwardFacts DEF GoOn, TypeInv
<1>4. Coming(T, Top.node, "body", Len(tree')) = {}
  <2>1. ASSUME NEW k \in DOMAIN nest'
        PROVE  ~Grows(tree', nest'[k], k = Len(nest'), mode', Top.node, "body")
    <3>1. CASE k = Len(nest)
      <4>1. c.node # Top.node
        BY BranchNode
      <4> QED
        BY <1>3, <3>1, <4>1 DEF Grows
    <3>2. CASE k # Len(nest)
      <4>1. k \in DOMAIN nest /\ nest'[k] = nest[k] /\ k < Len(nest)
        BY <1>2, <1>3, <3>2
      <4>2. Top.node \in Nat /\ Statement(tree, Top) <= Top.node
        BY BranchNode
      <4>3. ~Grows(tree, nest[k], k = Len(nest'), mode', Top.node, "body")
        BY <4>1, <4>2, OnwardFacts, OuterElsewhere
      <4> QED
        BY <4>1, <4>3 DEF Grows
    <3> QED
      BY <3>1, <3>2
  <2>2. Top.node \in Nat /\ Top.node <= Len(tree')
    BY BranchNode
  <2> QED
    BY <1>1, <2>1, <2>2, NoneComing
<1>5. Coming(T, Top.node, "body", Len(tree)) = {}
  <2>1. \A k \in DOMAIN T : T[k].up = Top.node /\ T[k].part = "body" => ~(k > Len(tree'))
    BY <1>1, <1>4, ComingFacts
  <2>2. \A k \in DOMAIN T : k > Len(tree) => k = New \/ k > Len(tree')
    <3>1. DOMAIN T = 1 .. Len(T) /\ Len(T) \in Nat
      BY OnwardFacts
    <3> QED
      BY <3>1, BranchNode
  <2>3. T[New].part # "body"
    BY BranchNode
  <2>4. \A k \in DOMAIN T : T[k].up = Top.node /\ T[k].part = "body" => ~(k > Len(tree))
    BY <2>1, <2>2, <2>3
  <2> QED
    BY <1>1, <2>4, ComingFacts
<1>6. F[Of(T)!At("closed", Top.node)] = F[Of(T)!Leave(CondNode, TRUE)]
  <2>1. PICK n \in DOMAIN T : n = Top.node
    BY BranchNode
  <2>2. PICK u \in 0 .. Len(T) : u = CondNode
    BY BranchNode
  <2>3. /\ n \in 0 .. Len(T) /\ n # 0 /\ T[n].kind = "if_branch" /\ T[n].up = u /\ T[n].part = "branch"
    BY <2>1, <2>2, BranchNode
  <2>4. /\ Of(T)!Leave(n, TRUE) \in Of(T)!Points /\ Of(T)!Leave(u, TRUE) \in Of(T)!Points
    BY <1>1, <2>2, <2>3, PointFacts
  <2>5. Of(T)!Closed(n) = Of(T)!Leave(n, TRUE)
    BY <2>3 DEF Of!Closed
  <2>6. F[Of(T)!At("closed", n)] = F[Of(T)!Leave(n, TRUE)]
    <3>1. PICK q \in Of(T)!Points : q = Of(T)!Leave(n, TRUE)
      BY <2>4
    <3>2. q = Of(T)!Closed(n)
      BY <2>5, <3>1
    <3>3. F[Of(T)!At("closed", n)] = F[q]
      BY <1>1, <2>3, <3>2, AtLeads
    <3> QED
      BY <3>1, <3>3
  <2>8. ASSUME NEW v \in BOOLEAN PROVE F[Of(T)!Leave(n, v)] = F[Of(T)!Leave(u, TRUE)]
    <3>1. Of(T)!Passed(T[n].up, T[n].part, v) = Of(T)!Leave(u, TRUE)
      BY <2>3 DEF Of!Passed
    <3>2. T[n].part # "body" /\ Of(T)!Passed(T[n].up, T[n].part, v) \in Of(T)!Points
      BY <2>3, <2>4, <3>1
    <3>3. F[Of(T)!Leave(n, v)] = F[Of(T)!Passed(T[n].up, T[n].part, v)]
      BY <1>1, <3>2, EndedLeads
    <3> QED
      BY <3>1, <3>3
  <2> QED
    BY <2>1, <2>2, <2>6, <2>8
<1>7. Of(T)!Tested(Top.node, FALSE) = Of(T)!Begin(New)
  <2>1. Of(T)!Later(Top.node) = {m \in Of(T)!Kids(CondNode, "branch") : m > Top.node}
    BY BranchNode DEF Of!Later
  <2>2. Of(T)!Later(Top.node) \in SUBSET (DOMAIN T)
    BY DEF Of!Later, Of!Kids
  <2>3. New \in Of(T)!Later(Top.node)
    <3>1. New \in DOMAIN T /\ T[New].up = CondNode /\ T[New].part = "branch" /\ New > Top.node
      BY BranchNode
    <3>2. New \in Of(T)!Kids(CondNode, "branch")
      BY <3>1 DEF Of!Kids
    <3> QED
      BY <2>1, <3>1, <3>2
  <2>4. \A k \in Of(T)!Later(Top.node) : New <= k
    <3>1. \A k \in Of(T)!Later(Top.node) : k \in DOMAIN T /\ T[k].up = CondNode /\ k > Top.node
      BY <2>1 DEF Of!Kids
    <3>2. DOMAIN T = 1 .. Len(T) /\ Len(T) \in Nat
      BY OnwardFacts
    <3>3. \A k \in DOMAIN tree : T[k].up = CondNode => ~(k > Top.node)
      BY BranchNode
    <3>4. /\ New = Len(tree) + 1 /\ Len(tree) \in Nat
          /\ \A k \in DOMAIN T : k \notin DOMAIN tree => New <= k
      BY <3>2, BranchNode
    <3> QED
      BY <3>1, <3>3, <3>4
  <2>5. Of(T)!Earliest(Of(T)!Later(Top.node)) = New
    BY <1>1, <2>2, <2>3, <2>4, EarliestFacts
  <2>6. T[Top.node].kind = "if_branch" /\ Of(T)!Later(Top.node) # {}
    BY <2>3, BranchNode
  <2> QED
    BY <2>5, <2>6 DEF Of!Tested
<1>8. /\ F[Of(T)!At("break", New)] = F[Of(T)!At("break", Top.node)]
      /\ F[Of(T)!At("continue", New)] = F[Of(T)!At("continue", Top.node)]
  <2>1. PICK n \in DOMAIN T : n = Top.node
    BY BranchNode
  <2>2. PICK m \in DOMAIN T : m = New
    BY BranchNode
  <2>3. PICK u \in 0 .. Len(T) : u = CondNode
    BY BranchNode
  <2>4. T[n].up = u /\ T[m].up = u /\ T[n].kind \notin LoopKinds /\ T[m].kind \notin LoopKinds
    BY <2>1, <2>2, <2>3, BranchNode DEF LoopKinds
  <2>5. /\ F[Of(T)!At("break", n)] = F[Of(T)!At("break", u)]
        /\ F[Of(T)!At("continue", n)] = F[Of(T)!At("continue", u)]
    BY <1>1, <2>4, Outward
  <2>6. /\ F[Of(T)!At("break", m)] = F[Of(T)!At("break", u)]
        /\ F[Of(T)!At("continue", m)] = F[Of(T)!At("continue", u)]
    BY <1>1, <2>4, Outward
  <2> QED
    BY <2>1, <2>2, <2>5, <2>6
<1> QED
  BY <1>5, <1>6, <1>7, <1>8

(* The end of a branch, and the way to the next one.                       *)
LEMMA BranchSound ==
  ASSUME NEW F, NEW T, Onward(F, T), NEW kind \in {"if_branch", "else_branch"},
         Top.kind = "cond_block", ~InElse, ~Alone, mode = "stmt", Top.at = "body",
         tree' = Append(tree, Node(kind, CondNode, "branch")),
         NEW c, GoOn(c), c.node = New, c.kind = "cond_block", c.l2 = Top.l2,
         kind = "if_branch" => c.l1 = label_counter,
         Emits(BranchEnd),
         \A y : (\A v \in BOOLEAN : y[v] = F[Of(T)!Begin(New)]) => Reached(F, T, Len(tree'), c, mode', y)
  PROVE  Sound(F, T)
<1>1. /\ Top.node \in DOMAIN tree /\ New \in DOMAIN T /\ T[New].kind = kind /\ T[New].up = CondNode
      /\ T[Top.node].kind = "if_branch" /\ T[Top.node].up = CondNode
      /\ T[Top.node] = tree[Top.node]
  BY BranchNode
<1>2. Top.l1 # Top.l2
  <2>1. Apart(tree, Top)
    BY OnwardFacts, TopApart
  <2>2. Top.l1 = Top.l2 => Top.node = CondNode + 1
    BY <2>1 DEF Apart, CondNode
  <2> QED
    BY <2>2 DEF Alone, First, else_label, end_cond
<1>3. Completes(T, tree, nest, mode)
  BY <1>2, OnwardFacts, BranchCompletes
<1>4. label_counter \in Int /\ Top \in Frames /\ Len(nest) \in DOMAIN nest
  BY OnwardFacts, TopFacts DEF TypeInv
<1>5. Top.l1 \in Int /\ Top.l2 \in Int /\ Top.l2 < label_counter
  <2>1. Top.l1 \in Int /\ Top.l2 \in Int
    BY <1>4 DEF Frames
  <2>2. Top.l2 \in Pending(Top)
    BY DEF Pending, end_cond, LoopKinds
  <2>3. Top.l2 < label_counter
    BY <1>4, <2>2, OnwardFacts, LabelsKnown DEF Top
  <2> QED
    BY <2>1, <2>3
<1>6. ASSUME LoweredNow(F, T) PROVE LoweredNext(F, T)
  <2>1. PICK L, x : /\ Reaches(F, T, L, code, x) /\ Reached(F, T, Len(tree), Top, mode, x)
                    /\ \A k \in DOMAIN nest : Targets(F, T, L, nest[k])
                    /\ Targets(F, T, L, Top) /\ Ways(F, T, nest)
    BY <1>6, OnwardFacts, LoweredParts DEF LoweredNow
  <2> DEFINE one == [v \in BOOLEAN |-> F[Of(T)!Tested(New, FALSE)]]
             M == [l \in Int |-> IF l = label_counter THEN one ELSE L[l]]
             y == [v \in BOOLEAN |-> F[Of(T)!Begin(New)]]
  <2>2. /\ \A v \in BOOLEAN : M[label_counter][v] = F[Of(T)!Tested(New, FALSE)]
        /\ \A l \in Int : l < label_counter => M[l] = L[l]
        /\ \A v \in BOOLEAN : y[v] = F[Of(T)!Begin(New)]
    BY <1>4
  <2> HIDE DEF one, M, y
  <2>3. Reaches(F, T, M, code, x) /\ \A k \in DOMAIN nest : Targets(F, T, M, nest[k])
    BY <2>1, <2>2, OnwardFacts, NewLabels
  <2>4. Targets(F, T, M, Top)
    BY <1>4, <2>3 DEF Top
  <2>5. /\ \A v \in BOOLEAN : M[Top.l1][v] = F[Of(T)!Begin(New)]
        /\ \A v \in BOOLEAN : M[Top.l2][v] = F[Of(T)!Leave(CondNode, TRUE)]
    <3>1. Of(T)!Tested(Top.node, FALSE) = Of(T)!Begin(New)
      BY BranchOver
    <3> QED
      BY <1>1, <2>4, <3>1 DEF Targets, else_label, end_cond
  <2>6. \A v \in BOOLEAN : x[v] = F[Of(T)!Leave(CondNode, TRUE)]
    <3>1. Coming(T, Top.node, "body", Len(tree)) = {}
          /\ F[Of(T)!At("closed", Top.node)] = F[Of(T)!Leave(CondNode, TRUE)]
      BY BranchOver
    <3>2. \A v \in BOOLEAN : x[v] = F[Of(T)!At("closed", Top.node)]
      BY <2>1, <3>1, BlockCloses
    <3> QED
      BY <3>1, <3>2
  <2>7. Reaches(F, T, M, code', y)
    <3>1. PICK a \in Int, b \in Int : a = Top.l2 /\ b = Top.l1
      BY <1>5
    <3>2. Jmp(a) \in Items /\ Label(b) \in Items
      <4>1. 0 \in Nat
        OBVIOUS
      <4> QED
        BY <4>1, CodeTypes
    <3>3. Emits(<<Jmp(a), Label(b)>>)
      BY <3>1 DEF BranchEnd, end_cond, else_label
    <3>4. ASSUME NEW w, \A v \in BOOLEAN : w[v] = x[v] PROVE Fits(F, T, M, Jmp(a), w, y)
      <4>1. \A v \in BOOLEAN : w[v] = M[a][v]
        BY <2>5, <2>6, <3>1, <3>4
      <4> QED
        BY <4>1, FitJump
    <3>5. ASSUME NEW w, \A v \in BOOLEAN : w[v] = y[v] PROVE Fits(F, T, M, Label(b), w, y)
      <4>1. \A v \in BOOLEAN : w[v] = M[b][v] /\ y[v] = M[b][v]
        BY <2>2, <2>5, <3>1, <3>5
      <4> QED
        BY <4>1, FitJump
    <3> QED
      BY <2>3, <3>2, <3>3, <3>4, <3>5, OnwardFacts, EmitTwo
  <2>8. Targets(F, T, M, c)
    <3>1. \A v \in BOOLEAN : M[c.l2][v] = F[Of(T)!Leave(T[c.node].up, TRUE)]
      BY <1>1, <2>5
    <3>2. T[c.node].kind = "if_branch" =>
            \A v \in BOOLEAN : M[c.l1][v] = F[Of(T)!Tested(c.node, FALSE)]
      BY <1>1, <2>2
    <3> QED
      BY <3>1, <3>2 DEF Targets, else_label, end_cond, LoopKinds
  <2>9. Reached(F, T, Len(tree'), c, mode', y)
    BY <2>2
  <2>10. Ways(F, T, nest')
    <3>1. /\ F[Of(T)!At("break", c.node)] = F[Of(T)!At("break", Top.node)]
          /\ F[Of(T)!At("continue", c.node)] = F[Of(T)!At("continue", Top.node)]
      BY BranchOver
    <3> QED
      BY <2>1, <3>1, OnwardFacts, GoOnWays DEF LoopKinds
  <2> QED
    BY <2>3, <2>7, <2>8, <2>9, <2>10, GoOnLowers
<1> QED
  BY <1>3, <1>6 DEF Sound

LEMMA CondElifLowers ==
  ASSUME NEW F, NEW T, Onward(F, T), CondElif
  PROVE  Sound(F, T)
<1> DEFINE c == [Top EXCEPT !.node = New, !.at = "cond", !.l1 = label_counter]
<1>1. /\ GoOn(c) /\ Top.kind = "cond_block" /\ ~InElse /\ ~Alone /\ mode = "stmt" /\ Top.at = "body"
      /\ Emits(BranchEnd) /\ tree' = Append(tree, Node("if_branch", CondNode, "branch"))
      /\ mode' = "expr"
  BY DEF CondElif, BlockEnds
<1>2. /\ c.kind = "cond_block" /\ c.node = New /\ c.at = "cond" /\ c.l1 = label_counter
      /\ c.l2 = Top.l2
  BY <1>1, OnwardFacts, TopFacts DEF Frames
<1> HIDE DEF c
<1>3. /\ T \in Seq(Nodes) /\ Leads(F, T) /\ tree' \in Seq(Nodes)
      /\ Completes(T, tree', nest', mode')
  BY OnwardFacts
<1>4. New \in DOMAIN T /\ T[New].kind = "if_branch" /\ New \in 0 .. Len(T) /\ DOMAIN tree' = 1 .. New
      /\ New \in Nat
  BY <1>1, BranchNode
<1>5. F[Of(T)!Begin(New)] = F[Of(T)!At("test", New)]
  BY <1>3, <1>4, BeginLeads
<1>6. Of(T)!Kids(New, "cond") # {} => F[Of(T)!At("test", New)] = F[Of(T)!Begin(Of(T)!Kid(New, "cond"))]
  BY <1>3, <1>4, KidFacts, AtLeads
<1>7. \A n \in DOMAIN tree' : tree'[n].up # New
  <2>1. \A n \in DOMAIN tree' : tree'[n].up < n
    BY OnwardFacts DEF GrownInv, Grown, Upwards
  <2> QED
    BY <1>4, <2>1
<1>8. \A y : (\A v \in BOOLEAN : y[v] = F[Of(T)!Begin(New)]) => Reached(F, T, Len(tree'), c, mode', y)
  <2> SUFFICES ASSUME NEW y, \A v \in BOOLEAN : y[v] = F[Of(T)!Begin(New)]
               PROVE  Reached(F, T, Len(tree'), c, mode', y)
    OBVIOUS
  <2>1. Of(T)!Kids(c.node, c.at) # {} =>
          \A v \in BOOLEAN : y[v] = F[Of(T)!Begin(Of(T)!Kid(c.node, c.at))]
    BY <1>2, <1>5, <1>6
  <2>2. Wants(mode') /\ c.at # "body"
    BY <1>1, <1>2 DEF Wants
  <2> QED
    BY <1>2, <1>3, <1>7, <2>1, <2>2, PartBegins
<1> QED
  BY <1>1, <1>2, <1>8, BranchSound

LEMMA CondElseLowers ==
  ASSUME NEW F, NEW T, Onward(F, T), CondElse
  PROVE  Sound(F, T)
<1> DEFINE c == [Top EXCEPT !.node = New]
<1>1. /\ GoOn(c) /\ Top.kind = "cond_block" /\ ~InElse /\ ~Alone /\ mode = "stmt" /\ Top.at = "body"
      /\ Emits(BranchEnd) /\ tree' = Append(tree, Node("else_branch", CondNode, "branch"))
      /\ mode' = "stmt"
  BY DEF CondElse, BlockEnds
<1>2. c.kind = "cond_block" /\ c.node = New /\ c.at = "body" /\ c.l2 = Top.l2
  BY <1>1, OnwardFacts, TopFacts DEF Frames
<1> HIDE DEF c
<1>3. /\ T \in Seq(Nodes) /\ Leads(F, T) /\ tree' \in Seq(Nodes)
      /\ Completes(T, tree', nest', mode')
  BY OnwardFacts
<1>4. /\ New \in DOMAIN T /\ T[New].kind = "else_branch" /\ New \in 0 .. Len(tree')
      /\ DOMAIN tree' = 1 .. New /\ New \in Nat
  BY <1>1, BranchNode
<1>5. F[Of(T)!Begin(New)] = F[Of(T)!At("block", New)]
  BY <1>3, <1>4, BeginLeads
<1>7. \A n \in DOMAIN tree' : tree'[n].up # New
  <2>1. \A n \in DOMAIN tree' : tree'[n].up < n
    BY OnwardFacts DEF GrownInv, Grown, Upwards
  <2> QED
    BY <1>4, <2>1
<1>8. \A y : (\A v \in BOOLEAN : y[v] = F[Of(T)!Begin(New)]) => Reached(F, T, Len(tree'), c, mode', y)
  BY <1>1, <1>2, <1>3, <1>4, <1>5, <1>7, BlockBegins
<1> QED
  BY <1>1, <1>2, <1>8, BranchSound

-----------------------------------------------------------------------------
(* An emission ends. *)

(* Nothing is added any more to the node whose emission ends.              *)
LEMMA NodeOver ==
  ASSUME NEW F, NEW T, Onward(F, T), Done, UNCHANGED tree, Top.kind # "function",
         NEW u \in Nat, Statement(tree, Top) <= u, u <= Len(tree), NEW part
  PROVE  Coming(T, u, part, Len(tree)) = {}
<1>1. Len(nest) >= 2 /\ Len(nest) \in DOMAIN nest /\ DOMAIN nest = 1 .. Len(nest) /\ Len(nest) \in Nat
  BY OnwardFacts, InnerEmission, TopFacts
<1>2. /\ DOMAIN nest' = 1 .. Len(nest) - 1 /\ \A k \in DOMAIN nest' : nest'[k] = nest[k]
  <2>1. nest \in Seq(Frames) /\ 1 \in 0 .. Len(nest) /\ nest' = SubSeq(nest, 1, Len(nest) - 1)
    BY <1>1, OnwardFacts DEF Done, TypeInv
  <2> QED
    BY <2>1, DropFacts
<1>3. ASSUME NEW k \in DOMAIN nest' PROVE ~Grows(tree', nest'[k], k = Len(nest'), mode', u, part)
  <2>1. k \in DOMAIN nest /\ k < Len(nest) /\ nest'[k] = nest[k]
    BY <1>1, <1>2
  <2>2. ~Grows(tree, nest[k], k = Len(nest'), mode', u, part)
    BY <2>1, OnwardFacts, OuterElsewhere
  <2> QED
    BY <2>1, <2>2
<1> QED
  BY <1>3, OnwardFacts, NoneComing

(* The innermost emission ends, and with it its statement.                 *)
LEMMA DoneSound ==
  ASSUME NEW F, NEW T, Onward(F, T), Done, UNCHANGED tree, Top.kind # "function",
         NEW g, g = nest[Len(nest) - 1],
         mode' = IF g.at = "body" THEN "stmt" ELSE "value",
         NEW n, n = Statement(tree, Top),
         \A L, x : Reaches(F, T, L, code, x) /\ Reached(F, T, Len(tree), Top, mode, x)
                   /\ Targets(F, T, L, Top) =>
            \E y : Reaches(F, T, L, code', y) /\ \A v \in BOOLEAN : y[v] = F[Of(T)!Leave(n, v)]
  PROVE  Sound(F, T)
<1>1. Completes(T, tree, nest, mode)
  <2>1. g.at = "body" \/ ~Wants(mode')
    BY DEF Wants
  <2> QED
    BY <2>1, OnwardFacts, DoneCompletes
<1>2. ASSUME LoweredNow(F, T) PROVE LoweredNext(F, T)
  <2>1. PICK L, x : /\ Reaches(F, T, L, code, x) /\ Reached(F, T, Len(tree), Top, mode, x)
                    /\ \A k \in DOMAIN nest : Targets(F, T, L, nest[k])
                    /\ Targets(F, T, L, Top) /\ Ways(F, T, nest)
    BY <1>2, OnwardFacts, LoweredParts DEF LoweredNow
  <2>2. PICK y : Reaches(F, T, L, code', y) /\ \A v \in BOOLEAN : y[v] = F[Of(T)!Leave(n, v)]
    BY <2>1
  <2> QED
    BY <2>1, <2>2, DoneLowers
<1> QED
  BY <1>1, <1>2 DEF Sound

LEMMA LogicRightLowers ==
  ASSUME NEW F, NEW T, Onward(F, T), LogicRight
  PROVE  Sound(F, T)
<1> DEFINE g == nest[Len(nest) - 1]
<1>1. /\ Done /\ UNCHANGED <<tree, mode>> /\ Top.kind \in {"and", "or"} /\ mode = "value"
      /\ Top.at = "right" /\ Emits(<<Label(label_end(Top))>>)
  BY DEF LogicRight
<1>2. g.at # "body"
  BY <1>1, OnwardFacts, BeneathAt
<1>3. Top.node \in 0 .. Len(T) /\ T \in Seq(Nodes) /\ Statement(tree, Top) = Top.node
  BY <1>1, OnwardFacts, TopNode DEF Statement
<1>4. PICK l \in Int : l = label_end(Top)
  BY OnwardFacts, TopFacts DEF Frames, label_end
<1>5. ASSUME NEW L, NEW x, Reaches(F, T, L, code, x), Reached(F, T, Len(tree), Top, mode, x),
             Targets(F, T, L, Top)
      PROVE  Reaches(F, T, L, code', x) /\ \A v \in BOOLEAN : x[v] = F[Of(T)!Leave(Top.node, v)]
  <2>1. \A v \in BOOLEAN : x[v] = F[Of(T)!Leave(Top.node, v)]
    <3>1. \A v \in BOOLEAN : /\ Of(T)!Passed(Top.node, "right", v) = Of(T)!Leave(Top.node, v)
                             /\ Of(T)!Leave(Top.node, v) \in Of(T)!Points
      BY <1>3, PointFacts DEF Of!Passed
    <3> QED
      BY <1>1, <1>5, <3>1 DEF Reached
  <2>2. \A v \in BOOLEAN : x[v] = L[l][v]
    BY <1>1, <1>4, <1>5, <2>1 DEF Targets
  <2>3. Label(l) \in Items
    <3>1. 0 \in Nat
      OBVIOUS
    <3> QED
      BY <3>1, CodeTypes
  <2>4. ASSUME NEW w, \A v \in BOOLEAN : w[v] = x[v] PROVE Fits(F, T, L, Label(l), w, x)
    <3>1. \A v \in BOOLEAN : w[v] = L[l][v] /\ x[v] = L[l][v]
      BY <2>2, <2>4
    <3> QED
      BY <3>1, FitJump
  <2>5. Reaches(F, T, L, code', x)
    BY <1>1, <1>4, <1>5, <2>3, <2>4, OnwardFacts, EmitOne
  <2> QED
    BY <2>1, <2>5
<1>6. mode' = IF g.at = "body" THEN "stmt" ELSE "value"
  BY <1>1, <1>2
<1> HIDE DEF g
<1>7. g = nest[Len(nest) - 1]
  BY DEF g
<1> QED
  BY <1>1, <1>3, <1>5, <1>6, <1>7, DoneSound

LEMMA LineEndLowers ==
  ASSUME NEW F, NEW T, Onward(F, T), LineEnd
  PROVE  Sound(F, T)
<1> DEFINE g  == nest[Len(nest) - 1]
           it == Item("do", -1, Top.node)
           y  == [v \in BOOLEAN |-> F[Of(T)!Leave(Top.node, v)]]
<1>1. /\ Done /\ UNCHANGED tree /\ Top.kind = "line" /\ mode = "value"
      /\ Emits(<<it>>)
      /\ mode' = IF g.at = "body" THEN "stmt" ELSE "value"
  BY DEF LineEnd
<1>2. /\ Top.node \in DOMAIN T /\ Top.node \in Nat /\ Top.node \in 0 .. Len(T) /\ T \in Seq(Nodes)
      /\ T[Top.node].kind = "line" /\ Statement(tree, Top) = Top.node /\ Built(tree, Top)
  BY <1>1, OnwardFacts, TopNode DEF Statement
<1>3. Top.at = "expr"
  BY <1>1, <1>2 DEF Built
<1>5. \A v \in BOOLEAN : y[v] = F[Of(T)!Leave(Top.node, v)]
  OBVIOUS
<1> HIDE DEF g, y
<1>4. it \in Items
  <2>1. Top.node \in Nat /\ -1 \in Int
    BY <1>2
  <2> QED
    BY ONLY <2>1 DEF Item, Items
<1>6. ASSUME NEW L, NEW x, Reaches(F, T, L, code, x), Reached(F, T, Len(tree), Top, mode, x)
      PROVE  Reaches(F, T, L, code', y)
  <2>1. \A v \in BOOLEAN : x[v] = F[Of(T)!At("event", Top.node)]
    <3>1. \A v \in BOOLEAN : /\ Of(T)!Passed(Top.node, "expr", v) = Of(T)!At("event", Top.node)
                             /\ Of(T)!At("event", Top.node) \in Of(T)!Points
      BY <1>2, PointFacts DEF Of!Passed
    <3> QED
      BY <1>1, <1>3, <1>6, <3>1 DEF Reached
  <2>2. ASSUME NEW w, \A v \in BOOLEAN : w[v] = x[v] PROVE Fits(F, T, L, it, w, y)
    <3>1. \A v \in BOOLEAN : /\ w[v] = F[Of(T)!At("event", Top.node)]
                             /\ y[v] = F[Of(T)!Leave(Top.node, v)]
      BY <1>5, <2>1, <2>2
    <3> QED
      BY <1>2, <3>1, FitEvent
  <2> HIDE DEF it
  <2> QED
    BY <1>1, <1>4, <1>6, <2>2, OnwardFacts, EmitOne
<1>7. g = nest[Len(nest) - 1]
  BY DEF g
<1> HIDE DEF it
<1> QED
  BY <1>1, <1>2, <1>5, <1>6, <1>7, DoneSound

LEMMA ReturnEndLowers ==
  ASSUME NEW F, NEW T, Onward(F, T), ReturnEnd
  PROVE  Sound(F, T)
<1> DEFINE g  == nest[Len(nest) - 1]
           y  == [v \in BOOLEAN |-> F[Of(T)!Leave(Top.node, v)]]
<1>1. /\ Done /\ UNCHANGED tree /\ Top.kind = "return" /\ mode = "value" /\ mode' = "stmt"
      /\ Emits(<<Ret>>)
  BY DEF ReturnEnd
<1>2. /\ T \in Seq(Nodes) /\ Top.node \in DOMAIN T /\ T[Top.node].kind = "return"
      /\ Statement(tree, Top) = Top.node /\ Built(tree, Top)
  BY <1>1, OnwardFacts, TopNode DEF Statement
<1>3. Top.at = "expr" /\ g.at = "body"
  BY <1>1, <1>2, OnwardFacts, BeneathAt DEF Built
<1>4. Ret \in Items
  <2>1. 0 \in Nat /\ 0 \in Int
    OBVIOUS
  <2> QED
    BY <2>1, CodeTypes
<1>5. \A v \in BOOLEAN : y[v] = F[Of(T)!Leave(Top.node, v)]
  OBVIOUS
<1>6. mode' = IF g.at = "body" THEN "stmt" ELSE "value"
  BY <1>1, <1>3
<1> HIDE DEF g, y
<1>7. ASSUME NEW L, NEW x, Reaches(F, T, L, code, x), Reached(F, T, Len(tree), Top, mode, x)
      PROVE  Reaches(F, T, L, code', y)
  <2>1. \A v \in BOOLEAN : x[v] = F[Of(T)!At("end", 0)]
    <3>1. 0 \in 0 .. Len(T)
      BY <1>2
    <3>2. \A v \in BOOLEAN : /\ Of(T)!Passed(Top.node, "expr", v) = Of(T)!At("end", 0)
                             /\ Of(T)!At("end", 0) \in Of(T)!Points
      BY <1>2, <3>1, PointFacts DEF Of!Passed
    <3> QED
      BY <1>1, <1>3, <1>7, <3>2 DEF Reached
  <2>2. ASSUME NEW w, \A v \in BOOLEAN : w[v] = x[v] PROVE Fits(F, T, L, Ret, w, y)
    <3>1. \A v \in BOOLEAN : w[v] = F[Of(T)!At("end", 0)]
      BY <2>1, <2>2
    <3> QED
      BY <3>1, FitRet
  <2> QED
    BY <1>1, <1>4, <1>7, <2>2, OnwardFacts, EmitOne
<1>8. g = nest[Len(nest) - 1]
  BY DEF g
<1> QED
  BY <1>1, <1>2, <1>5, <1>6, <1>7, <1>8, DoneSound

(* A loop ends: back to its test, and behind the jump the loop is left.    *)
LEMMA LoopEndLowers ==
  ASSUME NEW F, NEW T, Onward(F, T), Top.kind \in LoopKinds, LeaveLoop,
         \A x : Reached(F, T, Len(tree), Top, mode, x) =>
           \A v \in BOOLEAN : x[v] = F[Of(T)!At("test", Top.node)]
  PROVE  Sound(F, T)
<1> DEFINE g  == nest[Len(nest) - 1]
           y  == [v \in BOOLEAN |-> F[Of(T)!Leave(Top.node, TRUE)]]
<1>1. /\ Done /\ UNCHANGED tree /\ Top.kind # "function" /\ mode' = "stmt"
      /\ Emits(<<Jmp(cur_continue(Top)), Label(cur_break(Top))>>)
  BY DEF LeaveLoop, LoopKinds
<1>2. /\ T \in Seq(Nodes) /\ Leads(F, T) /\ Top.node \in DOMAIN T /\ Top.node \in DOMAIN tree
      /\ T[Top.node] = tree[Top.node] /\ tree[Top.node].up \in 0 .. Len(T)
      /\ Statement(tree, Top) = Top.node
  BY <1>1, OnwardFacts, TopNode DEF Statement, LoopKinds
<1>3. g.at = "body" /\ tree[Top.node].part = "body"
  <2>1. Placed(tree, Top, g)
    BY <1>1, OnwardFacts, Beneath
  <2> QED
    BY <1>2, <2>1 DEF Placed
<1>4. \A v \in BOOLEAN : y[v] = F[Of(T)!Leave(Top.node, v)] /\ y[v] = F[Of(T)!Leave(Top.node, TRUE)]
  BY <1>2, <1>3, SameEnd
<1>5. mode' = IF g.at = "body" THEN "stmt" ELSE "value"
  BY <1>1, <1>3
<1> HIDE DEF g, y
<1>6. PICK a \in Int, b \in Int : a = cur_continue(Top) /\ b = cur_break(Top)
  BY OnwardFacts, TopFacts DEF Frames, cur_continue, cur_break
<1>7. Jmp(a) \in Items /\ Label(b) \in Items
  <2>1. 0 \in Nat
    OBVIOUS
  <2> QED
    BY <2>1, CodeTypes
<1>8. ASSUME NEW L, NEW x, Reaches(F, T, L, code, x), Reached(F, T, Len(tree), Top, mode, x),
             Targets(F, T, L, Top)
      PROVE  Reaches(F, T, L, code', y)
  <2>1. \A v \in BOOLEAN : /\ L[a][v] = F[Of(T)!At("test", Top.node)]
                           /\ L[b][v] = F[Of(T)!Leave(Top.node, TRUE)]
    BY <1>6, <1>8 DEF Targets
  <2>2. \A v \in BOOLEAN : x[v] = F[Of(T)!At("test", Top.node)]
    BY <1>8
  <2>3. ASSUME NEW w, \A v \in BOOLEAN : w[v] = x[v] PROVE Fits(F, T, L, Jmp(a), w, y)
    <3>1. \A v \in BOOLEAN : w[v] = L[a][v]
      BY <2>1, <2>2, <2>3
    <3> QED
      BY <3>1, FitJump
  <2>4. ASSUME NEW w, \A v \in BOOLEAN : w[v] = y[v] PROVE Fits(F, T, L, Label(b), w, y)
    <3>1. \A v \in BOOLEAN : w[v] = L[b][v] /\ y[v] = L[b][v]
      BY <1>4, <2>1, <2>4
    <3> QED
      BY <3>1, FitJump
  <2>5. Emits(<<Jmp(a), Label(b)>>)
    BY <1>1, <1>6
  <2> QED
    BY <1>7, <1>8, <2>3, <2>4, <2>5, OnwardFacts, EmitTwo
<1>9. g = nest[Len(nest) - 1]
  BY DEF g
<1> QED
  BY <1>1, <1>2, <1>4, <1>5, <1>8, <1>9, DoneSound

(* The block of a loop, or its step, leads to its test.                    *)
LEMMA WhileEndLowers ==
  ASSUME NEW F, NEW T, Onward(F, T), WhileEnd
  PROVE  Sound(F, T)
<1>1. /\ LeaveLoop /\ Done /\ UNCHANGED tree /\ mode = "stmt" /\ Top.kind = "while_block"
      /\ Top.at = "body"
  BY DEF WhileEnd, BlockEnds, LeaveLoop
<1>2. /\ T \in Seq(Nodes) /\ Leads(F, T) /\ Top.node \in 0 .. Len(T) /\ Top.node \in Nat
      /\ Top.node # 0 /\ Top.node <= Len(tree) /\ T[Top.node].kind = "while_block"
      /\ Statement(tree, Top) <= Top.node
  BY <1>1, OnwardFacts, TopNode
<1>3. Coming(T, Top.node, "body", Len(tree)) = {}
  BY <1>1, <1>2, NodeOver
<1>4. F[Of(T)!At("closed", Top.node)] = F[Of(T)!At("test", Top.node)]
  <2>1. Of(T)!At("test", Top.node) \in Of(T)!Points
    BY <1>2, PointFacts
  <2>2. Of(T)!Closed(Top.node) = Of(T)!At("test", Top.node)
    BY <1>2 DEF Of!Closed
  <2> QED
    BY <1>2, <2>1, <2>2, AtLeads
<1>5. ASSUME NEW x, Reached(F, T, Len(tree), Top, mode, x)
      PROVE  \A v \in BOOLEAN : x[v] = F[Of(T)!At("test", Top.node)]
  BY <1>1, <1>3, <1>4, <1>5, BlockCloses
<1> QED
  BY <1>1, <1>5, LoopEndLowers DEF LoopKinds

LEMMA ForEndLowers ==
  ASSUME NEW F, NEW T, Onward(F, T), ForEnd
  PROVE  Sound(F, T)
<1>1. /\ LeaveLoop /\ Done /\ UNCHANGED tree /\ Top.kind = "for_block"
      /\ \/ mode = "stmt" /\ Top.at = "body"
         \/ mode = "value" /\ Top.at = "step"
  <2>1. LeaveLoop /\ (BlockEnds("for_block") \/
                      (mode = "value" /\ Top.kind = "for_block" /\ Top.at = "step"))
    BY DEF ForEnd
  <2> QED
    BY <2>1 DEF BlockEnds, LeaveLoop
<1>2. /\ T \in Seq(Nodes) /\ Leads(F, T) /\ Top.node \in 0 .. Len(T) /\ Top.node \in Nat
      /\ Top.node # 0 /\ Top.node <= Len(tree) /\ T[Top.node].kind = "for_block"
      /\ Statement(tree, Top) <= Top.node /\ tree' \in Seq(Nodes)
      /\ Completes(T, tree', nest', mode')
      /\ \A n \in DOMAIN tree : tree[n].up = Top.node => Rank(tree[n].part) <= Rank(Top.at)
  BY <1>1, OnwardFacts, TopNode
<1>3. \A part : Coming(T, Top.node, part, Len(tree)) = {}
  BY <1>1, <1>2, NodeOver
<1>4. Of(T)!At("test", Top.node) \in Of(T)!Points
  BY <1>2, PointFacts
<1>5. ASSUME NEW x, Reached(F, T, Len(tree), Top, mode, x)
      PROVE  \A v \in BOOLEAN : x[v] = F[Of(T)!At("test", Top.node)]
  <2>1. CASE mode = "stmt" /\ Top.at = "body"
    <3>1. Of(T)!Kids(Top.node, "step") = {}
      <4>1. \A k \in DOMAIN tree' : ~(tree'[k].up = Top.node /\ tree'[k].part = "step")
        BY <1>1, <1>2, <2>1, RankFacts
      <4>2. Of(T)!Kids(Top.node, "step") = Coming(T, Top.node, "step", Len(tree'))
        BY <1>2, <4>1, AllComing
      <4> QED
        BY <1>1, <1>3, <4>2
    <3>2. Of(T)!Closed(Top.node) = Of(T)!At("test", Top.node)
      BY <1>2, <3>1, KidFacts DEF Of!Closed
    <3>3. F[Of(T)!At("closed", Top.node)] = F[Of(T)!At("test", Top.node)]
      BY <1>2, <1>4, <3>2, AtLeads
    <3> QED
      BY <1>3, <1>5, <2>1, <3>3, BlockCloses
  <2>2. CASE mode = "value" /\ Top.at = "step"
    <3>1. \A v : Of(T)!Passed(Top.node, "step", v) = Of(T)!At("test", Top.node)
      BY DEF Of!Passed
    <3> QED
      BY <1>4, <1>5, <2>2, <3>1 DEF Reached
  <2> QED
    BY <1>1, <2>1, <2>2
<1> QED
  BY <1>1, <1>5, LoopEndLowers DEF LoopKinds

LEMMA ThreeItems ==
  ASSUME NEW i \in Items, NEW j \in Items, NEW k \in Items
  PROVE  <<i, j>> \o <<k>> = <<i, j, k>>
<1> DEFINE p == <<i, j>>
           q == <<k>>
           r == <<i, j, k>>
<1>1. /\ p \in Seq(Items) /\ q \in Seq(Items) /\ r \in Seq(Items)
      /\ Len(p) = 2 /\ Len(q) = 1 /\ Len(r) = 3
      /\ p[1] = i /\ p[2] = j /\ q[1] = k /\ r[1] = i /\ r[2] = j /\ r[3] = k
  OBVIOUS
<1> HIDE DEF p, q, r
<1>2. /\ p \o q \in Seq(Items) /\ Len(p \o q) = 3
      /\ (p \o q)[1] = i /\ (p \o q)[2] = j /\ (p \o q)[3] = k
  <2>1. /\ p \o q \in Seq(Items) /\ Len(p \o q) = Len(p) + Len(q)
        /\ \A m \in 1 .. Len(p) : (p \o q)[m] = p[m]
        /\ \A m \in 1 .. Len(q) : (p \o q)[Len(p) + m] = q[m]
    <3>1. p \in Seq(Items) /\ q \in Seq(Items)
      BY <1>1
    <3> QED
      BY ONLY <3>1, ConcatFacts
  <2>2. (p \o q)[2 + 1] = k /\ (p \o q)[1] = i /\ (p \o q)[2] = j
    BY <1>1, <2>1
  <2> QED
    BY <1>1, <2>1, <2>2
<1>3. p \o q = r
  <2>1. \A n \in 1 .. 3 : (p \o q)[n] = r[n]
    BY <1>1, <1>2
  <2> QED
    BY <1>1, <1>2, <2>1
<1> QED
  BY <1>3 DEF p, q, r

(* The last branch of a condition: its end, and a failed test, lead behind *)
(* the condition.                                                          *)
BranchIsLast(F, T, n, u) ==
  /\ n = Top.node /\ u = CondNode
  /\ n \in DOMAIN T /\ u \in DOMAIN T /\ T[n] = tree[n] /\ T[u].part = "body"
  /\ T[n].up = u /\ T[u].up \in 0 .. Len(T) /\ Statement(tree, Top) = u
  /\ T[n].kind \in {"if_branch", "else_branch"} /\ nest[Len(nest) - 1].at = "body"
  /\ Coming(T, n, "body", Len(tree)) = {}
  /\ F[Of(T)!At("closed", n)] = F[Of(T)!Leave(u, TRUE)]
  /\ T[n].kind = "if_branch" => Of(T)!Tested(n, FALSE) = Of(T)!Leave(u, TRUE)

LEMMA LastBranch ==
  ASSUME NEW F, NEW T, Onward(F, T), Done, UNCHANGED tree, Top.kind = "cond_block"
  PROVE  \E n, u : BranchIsLast(F, T, n, u)
<1>0. PICK n, u : n = Top.node /\ u = CondNode
  OBVIOUS
<1>1. /\ T \in Seq(Nodes) /\ Leads(F, T) /\ Len(tree) \in Nat
      /\ n \in DOMAIN tree /\ n \in DOMAIN T /\ T[n] = tree[n] /\ n \in 0 .. Len(T) /\ n \in Nat
      /\ n # 0 /\ Statement(tree, Top) <= n /\ n <= Len(tree) /\ Statement(tree, Top) \in Nat
      /\ Built(tree, Top) /\ DOMAIN tree = 1 .. Len(tree)
  BY <1>0, OnwardFacts, TopNode, TopFacts
<1>2. /\ tree[n].kind \in {"if_branch", "else_branch"} /\ tree[n].part = "branch"
      /\ u \in DOMAIN tree /\ tree[n].up = u /\ Statement(tree, Top) = u
      /\ \A k \in DOMAIN tree : tree[k].up = u => k <= n
  BY <1>0, <1>1 DEF Built, CondNode, Statement
<1>3. u \in DOMAIN T /\ T[u] = tree[u] /\ u \in 0 .. Len(T) /\ u \in Nat /\ u <= Len(tree)
  BY <1>1, <1>2, OnwardFacts
<1>4. nest[Len(nest) - 1].at = "body" /\ tree[u].part = "body"
  <2>1. Placed(tree, Top, nest[Len(nest) - 1])
    BY OnwardFacts, Beneath
  <2> QED
    BY <1>2, <2>1 DEF Placed
<1>5. tree[u].up \in 0 .. Len(T)
  <2>1. tree[u].up \in Nat /\ tree[u].up < u
    BY <1>2, OnwardFacts, NodesOrdered
  <2> QED
    BY <1>3, <2>1
<1>6. Coming(T, n, "body", Len(tree)) = {} /\ Coming(T, u, "branch", Len(tree)) = {}
  BY <1>1, <1>2, <1>3, NodeOver
<1>7. Of(T)!Leave(n, TRUE) \in Of(T)!Points /\ Of(T)!Leave(u, TRUE) \in Of(T)!Points
  BY <1>1, <1>3, PointFacts
<1>8. F[Of(T)!At("closed", n)] = F[Of(T)!Leave(n, TRUE)]
  <2>1. PICK q \in Of(T)!Points : q = Of(T)!Leave(n, TRUE)
    BY <1>7
  <2>2. q = Of(T)!Closed(n)
    BY <1>1, <1>2, <2>1 DEF Of!Closed
  <2>3. F[Of(T)!At("closed", n)] = F[q]
    BY <1>1, <2>2, AtLeads
  <2> QED
    BY <2>1, <2>3
<1>9. ASSUME NEW v \in BOOLEAN PROVE F[Of(T)!Leave(n, v)] = F[Of(T)!Leave(u, TRUE)]
  <2>1. Of(T)!Passed(T[n].up, T[n].part, v) = Of(T)!Leave(u, TRUE)
    BY <1>1, <1>2 DEF Of!Passed
  <2>2. T[n].part # "body" /\ Of(T)!Passed(T[n].up, T[n].part, v) \in Of(T)!Points
    BY <1>1, <1>2, <1>7, <2>1
  <2>3. F[Of(T)!Leave(n, v)] = F[Of(T)!Passed(T[n].up, T[n].part, v)]
    BY <1>1, <2>2, EndedLeads
  <2> QED
    BY <2>1, <2>3
<1>10. Of(T)!Later(n) = {}
  <2>1. Of(T)!Later(n) = {m \in Of(T)!Kids(u, "branch") : m > n}
    BY <1>1, <1>2 DEF Of!Later
  <2>2. ASSUME NEW k \in Of(T)!Later(n) PROVE FALSE
    <3>1. k \in DOMAIN T /\ T[k].up = u /\ T[k].part = "branch" /\ k > n
      BY <2>1, <2>2 DEF Of!Kids
    <3>2. ~(k > Len(tree))
      BY <1>1, <1>6, <3>1, ComingFacts
    <3>3. k \in DOMAIN tree /\ T[k] = tree[k]
      BY <1>1, <3>1, <3>2, OnwardFacts
    <3> QED
      BY <1>1, <1>2, <3>1, <3>3
  <2> QED
    BY <2>2
<1>11. T[n].kind = "if_branch" => Of(T)!Tested(n, FALSE) = Of(T)!Leave(u, TRUE)
  BY <1>1, <1>2, <1>10 DEF Of!Tested
<1> QED
  BY <1>0, <1>1, <1>2, <1>3, <1>4, <1>5, <1>6, <1>8, <1>9, <1>11 DEF BranchIsLast

LEMMA CondEndLowers ==
  ASSUME NEW F, NEW T, Onward(F, T), CondEnd
  PROVE  Sound(F, T)
<1> DEFINE g  == nest[Len(nest) - 1]
           y  == [v \in BOOLEAN |-> F[Of(T)!Leave(CondNode, TRUE)]]
<1>1. /\ Done /\ UNCHANGED tree /\ Top.kind = "cond_block" /\ Top.kind # "function"
      /\ mode = "stmt" /\ mode' = "stmt" /\ Top.at = "body"
      /\ Emits((IF InElse THEN <<>> ELSE BranchEnd) \o <<Label(end_cond(Top))>>)
  BY DEF CondEnd, BlockEnds
<1>2. PICK n, u : BranchIsLast(F, T, n, u)
  BY <1>1, LastBranch
<1>3. /\ n = Top.node /\ u = CondNode
      /\ n \in DOMAIN T /\ u \in DOMAIN T /\ T[n] = tree[n] /\ T[u].part = "body"
      /\ T[n].up = u /\ T[u].up \in 0 .. Len(T) /\ Statement(tree, Top) = u
      /\ T[n].kind \in {"if_branch", "else_branch"} /\ nest[Len(nest) - 1].at = "body"
      /\ Coming(T, n, "body", Len(tree)) = {}
      /\ F[Of(T)!At("closed", n)] = F[Of(T)!Leave(u, TRUE)]
      /\ T[n].kind = "if_branch" => Of(T)!Tested(n, FALSE) = Of(T)!Leave(u, TRUE)
  BY <1>2 DEF BranchIsLast
<1>4. \A v \in BOOLEAN : y[v] = F[Of(T)!Leave(u, v)] /\ y[v] = F[Of(T)!Leave(u, TRUE)]
  <2>1. T \in Seq(Nodes) /\ Leads(F, T)
    BY OnwardFacts
  <2> QED
    BY <1>3, <2>1, SameEnd
<1>5. mode' = IF g.at = "body" THEN "stmt" ELSE "value"
  BY <1>1, <1>3
<1> HIDE DEF g, y
<1>6. PICK a \in Int, b \in Int : a = end_cond(Top) /\ b = else_label(Top)
  BY OnwardFacts, TopFacts DEF Frames, end_cond, else_label
<1>7. Jmp(a) \in Items /\ Label(a) \in Items /\ Label(b) \in Items
  <2>1. 0 \in Nat
    OBVIOUS
  <2> QED
    BY <2>1, CodeTypes
<1>8. InElse <=> T[n].kind = "else_branch"
  BY <1>3 DEF InElse
<1>9. ASSUME NEW L, NEW x, Reaches(F, T, L, code, x), Reached(F, T, Len(tree), Top, mode, x),
             Targets(F, T, L, Top)
      PROVE  Reaches(F, T, L, code', y)
  <2>1. \A v \in BOOLEAN : x[v] = y[v]
    <3>0. Coming(T, Top.node, "body", Len(tree)) = {} /\ Reached(F, T, Len(tree), Top, "stmt", x)
      BY <1>1, <1>3, <1>9
    <3>1. \A v \in BOOLEAN : x[v] = F[Of(T)!At("closed", Top.node)]
      BY <1>1, <3>0, BlockCloses
    <3>2. \A v \in BOOLEAN : x[v] = F[Of(T)!At("closed", n)]
      BY <1>3, <3>1
    <3> QED
      BY <1>3, <1>4, <3>2
  <2>2. \A v \in BOOLEAN : L[a][v] = y[v]
    BY <1>1, <1>3, <1>4, <1>6, <1>9 DEF Targets
  <2>3. ~InElse => \A v \in BOOLEAN : L[b][v] = y[v]
    <3>1. ~InElse => T[Top.node].kind = "if_branch"
      BY <1>3, <1>8
    <3> QED
      BY <1>1, <1>3, <1>4, <1>6, <1>9, <3>1 DEF Targets
  <2>4. ASSUME NEW w, \A v \in BOOLEAN : w[v] = y[v]
        PROVE  Fits(F, T, L, Jmp(a), w, y) /\ Fits(F, T, L, Label(a), w, y)
    <3>1. \A v \in BOOLEAN : w[v] = L[a][v] /\ y[v] = L[a][v]
      BY <2>2, <2>4
    <3>2. Fits(F, T, L, Jmp(a), w, y)
      <4>1. \A v \in BOOLEAN : w[v] = L[a][v]
        BY <3>1
      <4> QED
        BY <4>1, FitJump
    <3>3. Fits(F, T, L, Label(a), w, y)
      BY <3>1, FitJump
    <3> QED
      BY <3>2, <3>3
  <2>6. Reaches(F, T, L, code, y)
    BY <1>9, <2>1, OtherValue
  <2>7. CASE InElse
    <3>1. Emits(<<Label(a)>>)
      BY <1>1, <1>6, <2>7
    <3> QED
      BY <1>7, <2>4, <2>6, <3>1, OnwardFacts, EmitOne
  <2>8. CASE ~InElse
    <3>1. Emits(<<Jmp(a), Label(b), Label(a)>>)
      <4>1. BranchEnd \o <<Label(end_cond(Top))>> = <<Jmp(a), Label(b)>> \o <<Label(a)>>
        BY <1>6 DEF BranchEnd
      <4>2. <<Jmp(a), Label(b)>> \o <<Label(a)>> = <<Jmp(a), Label(b), Label(a)>>
        BY <1>7, ThreeItems
      <4> QED
        BY <1>1, <2>8, <4>1, <4>2
    <3>d. \A v \in BOOLEAN : L[b][v] = y[v]
      BY <2>3, <2>8
    <3>2. ASSUME NEW w, \A v \in BOOLEAN : w[v] = y[v] PROVE Fits(F, T, L, Label(b), w, y)
      <4>1. \A v \in BOOLEAN : w[v] = L[b][v] /\ y[v] = L[b][v]
        BY <3>d, <3>2
      <4> QED
        BY <4>1, FitJump
    <3> QED
      <4>1. \A w : (\A v \in BOOLEAN : w[v] = y[v]) => Fits(F, T, L, Jmp(a), w, y)
        BY <2>4
      <4>2. \A w : (\A v \in BOOLEAN : w[v] = y[v]) => Fits(F, T, L, Label(a), w, y)
        BY <2>4
      <4>3. \A w : (\A v \in BOOLEAN : w[v] = y[v]) => Fits(F, T, L, Label(b), w, y)
        BY <3>2
      <4>4. TypeInv
        BY OnwardFacts
      <4> QED
        <5>1. PICK i \in Items, j \in Items, k \in Items : i = Jmp(a) /\ j = Label(b) /\ k = Label(a)
          BY <1>7
        <5>2. Emits(<<i, j, k>>)
          BY <3>1, <5>1
        <5>3. /\ \A w : (\A v \in BOOLEAN : w[v] = y[v]) => Fits(F, T, L, i, w, y)
              /\ \A w : (\A v \in BOOLEAN : w[v] = y[v]) => Fits(F, T, L, j, w, y)
              /\ \A w : (\A v \in BOOLEAN : w[v] = y[v]) => Fits(F, T, L, k, w, y)
          BY <4>1, <4>2, <4>3, <5>1
        <5>4. PICK c \in Seq(Items), d \in Seq(Items) : c = Append(code, i) /\ d = Append(c, j)
          <6>1. Append(code, i) \in Seq(Items)
            BY <4>4 DEF TypeInv
          <6>2. Append(Append(code, i), j) \in Seq(Items)
            BY <6>1
          <6> QED
            BY <6>1, <6>2
        <5>5. code \in Seq(Items) /\ code' = Append(d, k)
          BY <4>4, <5>2, <5>4 DEF Emits, TypeInv
        <5>6. Reaches(F, T, L, c, y)
          BY <2>6, <5>3, <5>4, <5>5, RunsGrow
        <5>7. Reaches(F, T, L, d, y)
          BY <5>3, <5>4, <5>6, RunsGrow
        <5> QED
          BY <5>3, <5>5, <5>7, RunsGrow
  <2> QED
    BY <2>7, <2>8
<1>10. g = nest[Len(nest) - 1]
  BY DEF g
<1> QED
  BY <1>1, <1>3, <1>4, <1>5, <1>9, <1>10, DoneSound

-----------------------------------------------------------------------------
(* Every step of the compiler keeps what the code means.                   *)
LEMMA EmissionSound ==
  ASSUME NEW F, NEW T, Onward(F, T), Emission, ~FunctionEnd
  PROVE  Sound(F, T)
<1>1. CASE LineOfLogic
  <2>1. /\ mode = "stmt" /\ Source("line") /\ Enter(Frame("line", New, "expr", -1, -1))
        /\ mode' = "expr" /\ UNCHANGED code
    BY <1>1 DEF LineOfLogic
  <2> QED
    BY <2>1, OperandBegins
<1>2. CASE Return
  <2>1. mode = "stmt" /\ Top.at = "body" /\ Source("return")
    BY <1>2 DEF Return
  <2>2. \/ Emits(<<Ret>>) /\ UNCHANGED <<nest, mode>>
        \/ /\ Enter(Frame("return", New, "expr", -1, -1)) /\ mode' = "expr"
           /\ UNCHANGED code
    BY <1>2, Zenon DEF Return
  <2>3. CASE Emits(<<Ret>>) /\ UNCHANGED <<nest, mode>>
    BY <2>1, <2>3, BareReturnLowers
  <2>4. CASE /\ Enter(Frame("return", New, "expr", -1, -1)) /\ mode' = "expr"
             /\ UNCHANGED code
    BY <2>1, <2>4, OperandBegins
  <2> QED
    BY <2>2, <2>3, <2>4
<1>3. CASE Operand \/ LogicLeft \/ LogicRight \/ Line \/ LineEnd \/ Exit \/ ReturnEnd
  BY <1>3, OperandLowers, LogicLeftLowers, LogicRightLowers, LineLowers, LineEndLowers,
     ExitLowers, ReturnEndLowers
<1>4. CASE \/ \E op \in {"and", "or"} : Logic(op)
           \/ \E kind \in {"break", "continue"} : BreakOrContinue(kind)
           \/ \E alone \in BOOLEAN : Cond(alone)
           \/ \E has_init \in BOOLEAN : For(has_init)
  BY <1>4, LogicLowers, BreakOrContinueLowers, CondLowers, ForLowers
<1>5. CASE \/ CondTest \/ CondElif \/ CondElse \/ CondEnd \/ While \/ LoopTest \/ WhileEnd
           \/ ForTest \/ ForStep \/ ForEnd
  BY <1>5, CondTestLowers, CondElifLowers, CondElseLowers, CondEndLowers, WhileLowers,
     LoopTestLowers, WhileEndLowers, ForTestLowers, ForStepLowers, ForEndLowers
<1> QED
  BY <1>1, <1>2, <1>3, <1>4, <1>5 DEF Emission

(* Before the first statement.                                             *)
LEMMA BodyToCome ==
  ASSUME NEW T, NEW t, NEW s, NEW m, Completes(T, t, s, m), NEW F, Leads(F, T), NEW x, NEW f,
         t = <<>>, m = "stmt", f.at = "body", f.node = 0,
         \A v \in BOOLEAN : x[v] = F[Of(T)!At("block", 0)]
  PROVE  Reached(F, T, Len(t), f, m, x)
<1>1. t \in Seq(Nodes) /\ DOMAIN t = {} /\ Len(t) = 0
  OBVIOUS
<1>2. \A n \in DOMAIN t : ~(t[n].up = f.node /\ t[n].part = "body")
  BY <1>1
<1>3. f.node \in 0 .. Len(t)
  BY <1>1
<1>4. \A v \in BOOLEAN : x[v] = F[Of(T)!At("block", f.node)]
  OBVIOUS
<1> QED
  BY <1>1, <1>2, <1>3, <1>4, BlockBegins

LEMMA InitMeans == Init => Means
<1> SUFFICES ASSUME Init, NEW T, NEW F, Completes(T, tree, nest, mode), Leads(F, T)
             PROVE  Lowered(F, T, code, tree, nest, mode)
  BY DEF Means
<1>1. /\ tree = <<>> /\ code = <<>> /\ mode = "stmt" /\ Len(nest) = 1 /\ DOMAIN nest = {1}
      /\ nest[1].kind = "function" /\ nest[1].node = 0 /\ nest[1].at = "body"
  BY DEF Init
<1> DEFINE x == [v \in BOOLEAN |-> F[Of(T)!At("block", 0)]]
           W == [i \in {1} |-> x]
<1>2. \A v \in BOOLEAN : x[v] = F[Of(T)!At("block", 0)]
  OBVIOUS
<1>3. W[1] = x
  OBVIOUS
<1> HIDE DEF x, W
<1>a. PICK f : f = nest[1]
  OBVIOUS
<1>4. Reaches(F, T, x, code, x)
  <2>1. DOMAIN code = {} /\ Len(code) + 1 = 1
    BY <1>1
  <2>2. Runs(F, T, x, code, W)
    BY <1>2, <1>3, <2>1 DEF Runs
  <2> QED
    BY <1>3, <2>1, <2>2 DEF Reaches
<1>5. Reached(F, T, Len(tree), f, mode, x)
  BY <1>1, <1>2, <1>a, BodyToCome
<1>6. \A k \in DOMAIN nest : Targets(F, T, x, nest[k])
  BY <1>1 DEF Targets, LoopKinds
<1>7. Ways(F, T, nest)
  BY <1>1 DEF Ways, LoopOf, LoopKinds
<1>8. f = nest[Len(nest)]
  BY <1>1, <1>a
<1> QED
  BY <1>4, <1>5, <1>6, <1>7, <1>8, LoweredBy

LEMMA EmissionMeans ==
  ASSUME TypeInv, TypeInv', Core, Once, GrownInv, GrownInv', Means, Emission,
         mode \notin {"run", "stop"}
  PROVE  Means'
<1>1. CASE FunctionEnd
  BY <1>1 DEF FunctionEnd, Means
<1>2. CASE ~FunctionEnd
  <2> SUFFICES ASSUME NEW T, NEW F, Completes(T, tree', nest', mode'), Leads(F, T)
               PROVE  Lowered(F, T, code', tree', nest', mode')
    BY DEF Means
  <2>1. Onward(F, T)
    BY DEF Onward
  <2>2. Sound(F, T)
    BY <1>2, <2>1, EmissionSound
  <2>3. LoweredNow(F, T)
    BY <2>2 DEF Sound, Means, LoweredNow
  <2> QED
    BY <2>2, <2>3 DEF Sound, LoweredNext
<1> QED
  BY <1>1, <1>2

-----------------------------------------------------------------------------
(* The function Follow of Control, on the emitted tree, is one that leads  *)
(* on: it is there, though a path through the points may have no end.      *)

LEMMA SameFollow == Statements!Follow = Of(Program)!Follow
BY Zenon DEF Statements!Follow, Statements!Points, Statements!Happening, Statements!Step,
   Statements!Begun, Statements!EndedPart, Statements!Closed, Statements!OfLoop, Statements!Passed,
   Statements!Tested, Statements!Later, Statements!Kid, Statements!Has, Statements!Kids,
   Statements!Earliest, Statements!Begin, Statements!Leave, Statements!At, Statements!Point,
   Of!Follow, Of!Points, Of!Happening, Of!Step,
   Of!Begun, Of!EndedPart, Of!Closed, Of!OfLoop, Of!Passed,
   Of!Tested, Of!Later, Of!Kid, Of!Has, Of!Kids,
   Of!Earliest, Of!Begin, Of!Leave, Of!At, Of!Point

LEMMA SameAfter == \A e : Statements!After(e) = Of(Program)!After(e)
BY Zenon DEF Statements!After, Statements!Tested, Statements!Later, Statements!Kids,
   Statements!Earliest, Statements!Begin, Statements!Leave, Statements!At, Statements!Point,
   Of!After, Of!Tested, Of!Later, Of!Kids, Of!Earliest, Of!Begin, Of!Leave, Of!At, Of!Point

(* A function that follows N up to where it stops is there: it tells the   *)
(* end of the path from a point, and one and the same where there is none. *)
FollowsTo(f, P, Z, N) == f = [p \in P |-> IF p \in Z THEN p ELSE f[N[p]]]

LEMMA Following ==
  ASSUME NEW P, NEW Z \in SUBSET P, NEW N, \A p \in P : p \notin Z => N[p] \in P
  PROVE  \E f : FollowsTo(f, P, Z, N)
<1> DEFINE Path(s, p, q) ==
             /\ s \in Seq(P) /\ Len(s) >= 1 /\ s[1] = p /\ s[Len(s)] = q /\ q \in Z
             /\ \A i \in 1 .. Len(s) - 1 : s[i] \notin Z /\ s[i + 1] = N[s[i]]
           Ends(p) == {q \in P : \E s : Path(s, p, q)}
           f == [p \in P |-> CHOOSE q : q \in Ends(p)]
<1>1. ASSUME NEW p \in Z PROVE Ends(p) = {p}
  <2>1. \A q \in Ends(p) : q = p
    <3> SUFFICES ASSUME NEW q, NEW s, Path(s, p, q) PROVE q = p
      OBVIOUS
    <3>1. /\ Len(s) \in Nat /\ Len(s) >= 1 /\ s[1] = p /\ s[Len(s)] = q
          /\ \A i \in 1 .. Len(s) - 1 : s[i] \notin Z
      OBVIOUS
    <3> HIDE DEF Path
    <3>2. Len(s) = 1
      <4> SUFFICES ASSUME Len(s) # 1 PROVE FALSE
        OBVIOUS
      <4>1. 1 \in 1 .. Len(s) - 1
        <5>1. \A n \in Nat : n >= 1 /\ n # 1 => 1 \in 1 .. n - 1
          OBVIOUS
        <5> QED
          BY <3>1, <5>1
      <4>2. s[1] \notin Z
        BY <3>1, <4>1
      <4> QED
        BY <3>1, <4>2
    <3> QED
      BY <3>1, <3>2
  <2>2. Path(<<p>>, p, p)
    BY <1>1
  <2>3. p \in Ends(p)
    BY <1>1, <2>2
  <2> QED
    BY <2>1, <2>3
<1>2. ASSUME NEW p \in P, p \notin Z PROVE Ends(p) = Ends(N[p])
  <2>1. ASSUME NEW q, NEW s, Path(s, p, q) PROVE \E t : Path(t, N[p], q)
    <3> DEFINE t == Tail(s)
    <3>1. /\ s \in Seq(P) /\ Len(s) \in Nat /\ Len(s) >= 1 /\ s[1] = p /\ s[Len(s)] = q /\ q \in Z
          /\ \A i \in 1 .. Len(s) - 1 : s[i] \notin Z /\ s[i + 1] = N[s[i]]
      BY <2>1
    <3>2. Len(s) >= 2
      BY <1>2, <3>1
    <3>3. t \in Seq(P) /\ Len(t) = Len(s) - 1 /\ \A i \in 1 .. Len(s) - 1 : t[i] = s[i + 1]
      BY <3>1, <3>2
    <3> HIDE DEF t
    <3>4. t[1] = N[p] /\ t[Len(t)] = q
      BY <3>1, <3>2, <3>3
    <3>5. \A i \in 1 .. Len(t) - 1 : t[i] \notin Z /\ t[i + 1] = N[t[i]]
      BY <3>1, <3>2, <3>3
    <3>6. Path(t, N[p], q)
      BY <3>1, <3>2, <3>3, <3>4, <3>5
    <3> QED
      BY <3>6
  <2>2. ASSUME NEW q, NEW t, Path(t, N[p], q) PROVE \E s : Path(s, p, q)
    <3> DEFINE s == <<p>> \o t
    <3>1. /\ t \in Seq(P) /\ Len(t) \in Nat /\ Len(t) >= 1 /\ t[1] = N[p] /\ t[Len(t)] = q /\ q \in Z
          /\ \A i \in 1 .. Len(t) - 1 : t[i] \notin Z /\ t[i + 1] = N[t[i]]
      BY <2>2
    <3>2. /\ s \in Seq(P) /\ Len(s) = Len(t) + 1 /\ s[1] = p
          /\ \A i \in 1 .. Len(t) : s[i + 1] = t[i]
      <4>1. <<p>> \in Seq(P) /\ Len(<<p>>) = 1 /\ <<p>>[1] = p
        OBVIOUS
      <4>2. PICK o \in Seq(P) : o = <<p>>
        BY <4>1
      <4>3. /\ o \o t \in Seq(P) /\ Len(o \o t) = Len(o) + Len(t)
            /\ \A i \in 1 .. Len(o) : (o \o t)[i] = o[i]
            /\ \A i \in 1 .. Len(t) : (o \o t)[Len(o) + i] = t[i]
        BY <3>1, ConcatFacts
      <4>4. s = o \o t /\ Len(o) = 1 /\ o[1] = p
        BY <4>1, <4>2
      <4>5. \A i \in 1 .. Len(t) : s[i + 1] = t[i]
        BY <3>1, <4>3, <4>4
      <4> QED
        BY <3>1, <4>3, <4>4, <4>5
    <3> HIDE DEF s
    <3>3. s[Len(s)] = q
      BY <3>1, <3>2
    <3>4. ASSUME NEW i \in 1 .. Len(s) - 1 PROVE s[i] \notin Z /\ s[i + 1] = N[s[i]]
      <4>1. CASE i = 1
        BY <1>2, <3>1, <3>2, <4>1
      <4>2. CASE i # 1
        <5>1. PICK j \in 1 .. Len(t) - 1 : i = j + 1
          BY <3>1, <3>2, <4>2
        <5>2. s[j + 1] = t[j] /\ s[j + 2] = t[j + 1]
          BY <3>1, <3>2, <5>1
        <5> QED
          BY <3>1, <5>1, <5>2
      <4> QED
        BY <4>1, <4>2
    <3>5. Path(s, p, q)
      BY <3>1, <3>2, <3>3, <3>4
    <3> QED
      BY <3>5
  <2> HIDE DEF Path
  <2> QED
    BY <2>1, <2>2
<1>3. f = [p \in P |-> IF p \in Z THEN p ELSE f[N[p]]]
  <2> HIDE DEF Path, Ends
  <2> SUFFICES ASSUME NEW p \in P PROVE f[p] = IF p \in Z THEN p ELSE f[N[p]]
    OBVIOUS
  <2>1. CASE p \in Z
    BY <1>1, <2>1
  <2>2. CASE p \notin Z
    <3>1. N[p] \in P
      BY <2>2
    <3> QED
      BY <1>2, <2>2, <3>1
  <2> QED
    BY <2>1, <2>2
<1> QED
  BY <1>3 DEF FollowsTo

LEMMA FollowLeads ==
  ASSUME NEW T
  PROVE  Leads(Of(T)!Follow, T)
<1> DEFINE P == Of(T)!Points
           Z == {p \in P : Of(T)!Happening(p) \/ Of(T)!Step(p) \notin P}
           N == [p \in P |-> Of(T)!Step(p)]
           Follows(f) == f = [p \in P |-> IF Of(T)!Happening(p) \/ Of(T)!Step(p) \notin P THEN p
                                          ELSE f[Of(T)!Step(p)]]
<1>1. \E f : Follows(f)
  <2>1. \A p \in P : p \notin Z => N[p] \in P
    OBVIOUS
  <2>2. PICK f : FollowsTo(f, P, Z, N)
    <3> HIDE DEF N, P
    <3>1. Z \in SUBSET P
      OBVIOUS
    <3> HIDE DEF Z
    <3> QED
      BY <2>1, <3>1, Following
  <2>3. \A p \in P : p \in Z <=> Of(T)!Happening(p) \/ Of(T)!Step(p) \notin P
    OBVIOUS
  <2>4. \A p \in P : N[p] = Of(T)!Step(p)
    OBVIOUS
  <2> HIDE DEF Z, N, P
  <2>5. Follows(f)
    BY <2>2, <2>3, <2>4 DEF FollowsTo
  <2> QED
    BY <2>5
<1>2. Of(T)!Follow = CHOOSE f : Follows(f)
  BY Zenon DEF Of!Follow
<1>3. Follows(Of(T)!Follow)
  <2> HIDE DEF Follows
  <2> QED
    BY <1>1, <1>2
<1> QED
  BY <1>3 DEF Leads

-----------------------------------------------------------------------------
(* The machine runs what was emitted. *)

(* The item to run is where the program is after the event e, for the      *)
(* value r of RAX.                                                         *)
Simulates(T, c, i, r, e) ==
  \A F : Leads(F, T) => \E L, W : Runs(F, T, L, c, W) /\ W[i][r] = F[Of(T)!After(e)]

EndedBy(e) == e.node = 0 /\ e.value = FALSE

Started == mode \notin {"run", "stop"} => last = [node |-> 0, value |-> TRUE, turn |-> 0]
Simulated == mode = "run" => ~EndedBy(last) /\ Simulates(tree, code, ip, rax, last)

LEMMA FunctionRuns ==
  ASSUME TypeInv, TypeInv', GrownInv, Inside, Means, Started, FunctionEnd
  PROVE  Simulated'
<1>1. /\ mode = "stmt" /\ Top.kind = "function" /\ Top.at = "body" /\ Emits(<<Ret>>)
      /\ mode' = "run" /\ UNCHANGED <<nest, tree, ip, rax, last>>
  BY DEF FunctionEnd, BlockEnds, emission, machine
<1>2. ip' = 1 /\ rax' \in BOOLEAN /\ last' = [node |-> 0, value |-> TRUE, turn |-> 0]
  BY <1>1 DEF Inside, Started, TypeInv
<1>3. ~EndedBy(last')
  BY <1>2 DEF EndedBy
<1>0. Simulates(tree, code', ip', rax', last') => Simulated'
  BY <1>1, <1>3 DEF Simulated
<1> SUFFICES ASSUME NEW F, Leads(F, tree)
             PROVE  \E L, W : Runs(F, tree, L, code', W) /\ W[ip'][rax'] = F[Of(tree)!After(last')]
  BY <1>0 DEF Simulates
<1> DEFINE T == tree
<1>4. tree' = T /\ T \in Seq(Nodes) /\ Leads(F, T)
  BY <1>1 DEF TypeInv
<1>5. Top.node = 0
  <2>1. Len(nest) \in DOMAIN nest
    BY TopFacts
  <2> QED
    BY <1>1, <2>1 DEF GrownInv, Grown, Nested, Built, Top
<1>6. Completes(T, tree', nest', mode')
  <2>1. Len(T) \in Nat /\ DOMAIN T = 1 .. Len(T)
    BY <1>4
  <2> QED
    BY <1>4, <2>1 DEF Completes
<1>7. Completes(T, tree, nest, mode)
  <2> HIDE DEF T
  <2> QED
    BY <1>1, <1>6, StayCompletes
<1>8. Lowered(F, T, code, tree, nest, mode)
  <2> HIDE DEF T
  <2> QED
    BY <1>1, <1>4, <1>7 DEF Means
<1>9. PICK L, x : Reaches(F, T, L, code, x) /\ Reached(F, T, Len(tree), Top, mode, x)
  BY <1>8, LoweredParts
<1>10. \A v \in BOOLEAN : x[v] = F[Of(T)!At("closed", 0)]
  <2>1. Coming(T, 0, "body", Len(tree)) = {}
    BY <1>4, ComingFacts
  <2> QED
    BY <1>1, <1>5, <1>9, <2>1, BlockCloses
<1>11. F[Of(T)!At("closed", 0)] = F[Of(T)!At("end", 0)]
  <2>1. 0 \in 0 .. Len(T)
    BY <1>4
  <2>2. Of(T)!At("end", 0) \in Of(T)!Points
    BY <1>4, <2>1, PointFacts
  <2>3. Of(T)!Closed(0) = Of(T)!At("end", 0)
    BY DEF Of!Closed
  <2> QED
    BY <1>4, <2>1, <2>2, <2>3, AtLeads
<1>12. Reaches(F, T, L, code', x)
  <2>1. \A v \in BOOLEAN : x[v] = F[Of(T)!At("end", 0)]
    BY <1>10, <1>11
  <2>2. Ret \in Items
    BY RetPlain
  <2>3. \A w : (\A v \in BOOLEAN : w[v] = x[v]) => Fits(F, T, L, Ret, w, x)
    BY <2>1, FitRet
  <2> HIDE DEF T
  <2> QED
    BY <1>1, <1>9, <2>2, <2>3, EmitOne
<1>13. PICK W : Runs(F, T, L, code', W)
  BY <1>12 DEF Reaches
<1>14. W[ip'][rax'] = F[Of(T)!At("block", 0)]
  BY <1>2, <1>13 DEF Runs
<1>15. Of(T)!After(last') = Of(T)!At("block", 0)
  BY <1>2 DEF Of!After
<1> QED
  BY <1>4, <1>13, <1>14, <1>15

(* The machine runs an item: where the program is before and behind it.    *)
LEMMA ItemFits ==
  ASSUME TypeInv, Inside, mode = "run", NEW F, NEW T, NEW L, NEW W, Runs(F, T, L, code, W)
  PROVE  /\ Current \in Items /\ rax \in BOOLEAN
         /\ Fits(F, T, L, Current, W[ip], W[ip + 1])
         /\ \A l : Places(l) # {} => \A v \in BOOLEAN : W[Address(l)][v] = L[l][v]
<1>1. ip \in DOMAIN code
  BY DEF Inside
<1>2. Current \in Items /\ rax \in BOOLEAN
  BY <1>1 DEF TypeInv, Current
<1>3. Fits(F, T, L, Current, W[ip], W[ip + 1])
  BY <1>1 DEF Runs, Current
<1>4. ASSUME NEW l, Places(l) # {}, NEW v \in BOOLEAN PROVE W[Address(l)][v] = L[l][v]
  <2>1. Address(l) \in DOMAIN code /\ code[Address(l)] = Label(l)
    BY <1>4, AddressInside
  <2>2. Fits(F, T, L, Label(l), W[Address(l)], W[Address(l) + 1])
    BY <2>1 DEF Runs
  <2>3. Label(l).op = "label" /\ Label(l).label = l
    BY DEF Label, Item
  <2> QED
    BY <2>2, <2>3 DEF Fits
<1> QED
  BY <1>2, <1>3, <1>4

(* A step of the machine: an event that the source comes to next, or none. *)
Moves(F, T, e, d) ==
  /\ F[Of(T)!After(e)] = Of(T)!At("event", d.node)
  /\ d.node \in DOMAIN T /\ d.value \in BOOLEAN /\ d.turn = 1 - e.turn
  /\ d = [node |-> d.node, value |-> d.value, turn |-> d.turn]

LEMMA RunItemMoves ==
  ASSUME TypeInv, Inside, mode = "run", NEW F, NEW T \in Seq(Nodes), Leads(F, T), NEW L, NEW W,
         Runs(F, T, L, code, W), W[ip][rax] = F[Of(T)!After(last)], RunItem
  PROVE  W[ip'][rax'] = F[Of(T)!After(last')] /\ Moves(F, T, last, last')
<1>1. /\ Current \in Items /\ rax \in BOOLEAN /\ Fits(F, T, L, Current, W[ip], W[ip + 1])
  BY ItemFits
<1>2. Current.op \in {"eval", "do"} /\ ip' = ip + 1
  BY DEF RunItem
<1>3. PICK v \in BOOLEAN :
        rax' = v /\ last' = [node |-> Current.node, value |-> v, turn |-> 1 - last.turn]
  BY DEF RunItem, Happens
<1> DEFINE n == Current.node
<1>4. /\ n \in DOMAIN T /\ T[n].kind # "for_block"
      /\ \A r \in BOOLEAN : /\ W[ip][r] = F[Of(T)!At("event", n)]
                            /\ W[ip + 1][r] = F[Of(T)!Leave(n, r)]
  BY <1>1, <1>2 DEF Fits
<1>5. n # 0 /\ n \in 0 .. Len(T)
  BY <1>4
<1> HIDE DEF n
<1>6. last'.node = n /\ last'.value = v /\ last'.turn = 1 - last.turn
      /\ last' = [node |-> n, value |-> v, turn |-> 1 - last.turn]
  BY <1>3 DEF n
<1>7. Of(T)!After(last') = Of(T)!Leave(n, v)
  BY <1>4, <1>5, <1>6 DEF Of!After
<1>8. F[Of(T)!At("event", n)] = Of(T)!At("event", n)
  BY <1>5, AtLeads, PointFacts
<1>9. W[ip'][rax'] = F[Of(T)!After(last')]
  BY <1>2, <1>3, <1>4, <1>7
<1>10. F[Of(T)!After(last)] = Of(T)!At("event", n)
  BY <1>1, <1>4, <1>8
<1> QED
  BY <1>4, <1>6, <1>9, <1>10 DEF Moves

LEMMA RunLabelMoves ==
  ASSUME TypeInv, Inside, mode = "run", NEW F, NEW T \in Seq(Nodes), Leads(F, T), NEW L, NEW W,
         Runs(F, T, L, code, W), W[ip][rax] = F[Of(T)!After(last)], RunLabel
  PROVE  W[ip'][rax'] = F[Of(T)!After(last')] /\ UNCHANGED last
<1>1. rax \in BOOLEAN /\ Fits(F, T, L, Current, W[ip], W[ip + 1])
  BY ItemFits
<1>2. Current.op = "label" /\ ip' = ip + 1 /\ rax' = rax /\ last' = last
  BY DEF RunLabel
<1>3. W[ip + 1][rax] = W[ip][rax]
  BY <1>1, <1>2 DEF Fits
<1> QED
  BY <1>2, <1>3

LEMMA RunJumpMoves ==
  ASSUME TypeInv, Inside, mode = "run", NEW F, NEW T \in Seq(Nodes), Leads(F, T), NEW L, NEW W,
         Runs(F, T, L, code, W), W[ip][rax] = F[Of(T)!After(last)], RunJump
  PROVE  /\ W[ip'][rax'] = F[Of(T)!After(last')]
         /\ UNCHANGED last \/ Moves(F, T, last, last')
<1>1. /\ Current \in Items /\ rax \in BOOLEAN /\ Fits(F, T, L, Current, W[ip], W[ip + 1])
      /\ \A l : Places(l) # {} => \A v \in BOOLEAN : W[Address(l)][v] = L[l][v]
  BY ItemFits
<1>2. /\ Current.op \in {"jmp", "jz", "jnz"} /\ rax' = rax
      /\ Taken => Places(Current.label) # {} /\ ip' = Address(Current.label)
      /\ ~Taken => ip' = ip + 1
      /\ Current.node = 0 => last' = last
      /\ Current.node # 0 => last' = [node |-> Current.node, value |-> rax, turn |-> 1 - last.turn]
  BY DEF RunJump, Jumps, Happens
<1>3. Taken => W[ip'][rax'] = L[Current.label][rax]
  BY <1>1, <1>2
<1>4. ~Taken => W[ip'][rax'] = W[ip + 1][rax]
  BY <1>2
<1>5. CASE Current.node = 0
  <2>1. W[ip'][rax'] = W[ip][rax]
    <3>1. CASE Current.op = "jmp"
      <4>1. Taken
        BY <3>1 DEF Taken
      <4>2. W[ip][rax] = L[Current.label][rax]
        BY <1>1, <3>1 DEF Fits
      <4> QED
        BY <1>3, <4>1, <4>2
    <3>2. CASE Current.op = "jz"
      <4>1. W[ip][FALSE] = L[Current.label][FALSE] /\ W[ip + 1][TRUE] = W[ip][TRUE]
        BY <1>1, <1>5, <3>2 DEF Fits
      <4>2. Taken <=> ~rax
        BY <3>2 DEF Taken
      <4>3. CASE rax = TRUE
        BY <1>4, <4>1, <4>2, <4>3
      <4>4. CASE rax = FALSE
        BY <1>3, <4>1, <4>2, <4>4
      <4> QED
        BY <1>1, <4>3, <4>4
    <3>3. CASE Current.op = "jnz"
      <4>1. W[ip][TRUE] = L[Current.label][TRUE] /\ W[ip + 1][FALSE] = W[ip][FALSE]
        BY <1>1, <3>3 DEF Fits
      <4>2. Taken <=> rax
        BY <3>3 DEF Taken
      <4>3. CASE rax = TRUE
        BY <1>3, <4>1, <4>2, <4>3
      <4>4. CASE rax = FALSE
        BY <1>4, <4>1, <4>2, <4>4
      <4> QED
        BY <1>1, <4>3, <4>4
    <3> QED
      BY <1>2, <3>1, <3>2, <3>3
  <2>2. last' = last
    BY <1>2, <1>5
  <2> QED
    BY <2>1, <2>2
<1>6. CASE Current.node # 0
  <2> DEFINE n == Current.node
  <2>1. Current.op = "jz"
    BY <1>1, <1>2, <1>6 DEF Fits
  <2>2. /\ n \in DOMAIN T /\ T[n].kind = "for_block"
        /\ \A v \in BOOLEAN : W[ip][v] = F[Of(T)!At("event", n)]
        /\ L[Current.label][FALSE] = F[Of(T)!Leave(n, TRUE)]
        /\ W[ip + 1][TRUE] = F[Of(T)!At("block", n)]
    BY <1>1, <1>6, <2>1 DEF Fits
  <2>3. n # 0 /\ n \in 0 .. Len(T)
    BY <2>2
  <2>4. last' = [node |-> n, value |-> rax, turn |-> 1 - last.turn]
    BY <1>2, <1>6
  <2> HIDE DEF n
  <2>5. last'.node = n /\ last'.value = rax /\ last'.turn = 1 - last.turn
    BY <2>4
  <2>6. Of(T)!After(last') = Of(T)!Tested(n, rax)
    BY <2>2, <2>3, <2>5 DEF Of!After
  <2>7. Taken <=> ~rax
    BY <2>1 DEF Taken
  <2>8. W[ip'][rax'] = F[Of(T)!After(last')]
    <3>1. CASE rax = TRUE
      <4>1. Of(T)!Tested(n, TRUE) = Of(T)!At("block", n)
        BY DEF Of!Tested
      <4> QED
        BY <1>4, <2>2, <2>6, <2>7, <3>1, <4>1
    <3>2. CASE rax = FALSE
      <4>1. Of(T)!Tested(n, FALSE) = Of(T)!Leave(n, TRUE)
        BY <2>2 DEF Of!Tested
      <4> QED
        BY <1>3, <2>2, <2>6, <2>7, <3>2, <4>1
    <3> QED
      BY <1>1, <3>1, <3>2
  <2>9. F[Of(T)!After(last)] = Of(T)!At("event", n)
    <3>1. F[Of(T)!At("event", n)] = Of(T)!At("event", n)
      BY <2>3, AtLeads, PointFacts
    <3> QED
      BY <1>1, <2>2, <3>1
  <2> QED
    BY <1>1, <2>2, <2>4, <2>5, <2>8, <2>9 DEF Moves
<1> QED
  BY <1>5, <1>6

LEMMA RunRetMoves ==
  ASSUME TypeInv, Inside, mode = "run", NEW F, NEW T \in Seq(Nodes), Leads(F, T), NEW L, NEW W,
         Runs(F, T, L, code, W), W[ip][rax] = F[Of(T)!After(last)], RunRet
  PROVE  /\ F[Of(T)!After(last)] = Of(T)!At("end", 0)
         /\ last' = [node |-> 0, value |-> FALSE, turn |-> 1 - last.turn]
<1>1. rax \in BOOLEAN /\ Fits(F, T, L, Current, W[ip], W[ip + 1])
  BY ItemFits
<1>2. Current.op = "ret" /\ last' = [node |-> 0, value |-> FALSE, turn |-> 1 - last.turn]
  BY DEF RunRet, Happens
<1>3. W[ip][rax] = F[Of(T)!At("end", 0)]
  BY <1>1, <1>2 DEF Fits
<1>4. F[Of(T)!At("end", 0)] = Of(T)!At("end", 0)
  <2>1. 0 \in 0 .. Len(T)
    OBVIOUS
  <2> QED
    BY <2>1, AtLeads, PointFacts
<1> QED
  BY <1>2, <1>3, <1>4

LEMMA ExecutionRuns ==
  ASSUME TypeInv, Inside, Simulated, Execution
  PROVE  Simulated'
<1>1. /\ mode = "run" /\ code' = code /\ tree' = tree /\ tree \in Seq(Nodes)
  BY DEF Execution, TypeInv
<1>2. CASE RunRet
  BY <1>2 DEF RunRet, Simulated
<1>3. CASE RunItem \/ RunLabel \/ RunJump
  <2>1. ASSUME NEW F, Leads(F, tree)
        PROVE  \E L, W : /\ Runs(F, tree, L, code, W) /\ W[ip'][rax'] = F[Of(tree)!After(last')]
                         /\ UNCHANGED last \/ Moves(F, tree, last, last')
    <3>1. PICK L, W : Runs(F, tree, L, code, W) /\ W[ip][rax] = F[Of(tree)!After(last)]
      BY <1>1, <2>1 DEF Simulated, Simulates
    <3>2. PICK T \in Seq(Nodes) : T = tree
      BY <1>1
    <3>3. Leads(F, T) /\ Runs(F, T, L, code, W) /\ W[ip][rax] = F[Of(T)!After(last)]
      BY <2>1, <3>1, <3>2
    <3>4. W[ip'][rax'] = F[Of(T)!After(last')] /\ (UNCHANGED last \/ Moves(F, T, last, last'))
      BY <1>1, <1>3, <3>3, RunItemMoves, RunLabelMoves, RunJumpMoves
    <3> QED
      BY <3>1, <3>2, <3>4
  <2>2. Simulates(tree, code', ip', rax', last')
    BY <1>1, <2>1 DEF Simulates
  <2>3. ~EndedBy(last')
    <3>1. PICK F : Leads(F, tree)
      BY FollowLeads
    <3>2. UNCHANGED last \/ Moves(F, tree, last, last')
      BY <2>1, <3>1
    <3>3. CASE UNCHANGED last
      BY <1>1, <3>3 DEF Simulated, EndedBy
    <3>4. CASE Moves(F, tree, last, last')
      <4>1. last'.node \in DOMAIN tree
        BY <3>4 DEF Moves
      <4>2. last'.node # 0
        BY <1>1, <4>1
      <4> QED
        BY <4>2 DEF EndedBy
    <3> QED
      BY <3>2, <3>3, <3>4
  <2> QED
    BY <1>1, <2>2, <2>3 DEF Simulated
<1> QED
  BY <1>2, <1>3 DEF Execution

(* What the emitted code means is kept, and told by the machine.           *)
Meant == Means /\ Started /\ Simulated

LEMMA InitMeant == Init => Meant
BY InitMeans DEF Meant, Started, Simulated, Init

LEMMA NextMeant == IInv /\ IInv' /\ Once /\ GrownInv /\ GrownInv' /\ Meant /\ [Next]_vars => Meant'
<1> SUFFICES ASSUME IInv, IInv', Once, GrownInv, GrownInv', Meant, [Next]_vars PROVE Meant'
  OBVIOUS
<1>1. /\ TypeInv /\ TypeInv' /\ Core /\ Inside /\ Means /\ Started /\ Simulated
  BY DEF IInv, Meant
<1>2. CASE FunctionEnd
  <2>1. mode' = "run"
    BY <1>2 DEF FunctionEnd
  <2>2. Simulated'
    BY <1>1, <1>2, FunctionRuns
  <2> QED
    BY <2>1, <2>2 DEF Meant, Means, Started
<1>3. CASE Emission /\ ~FunctionEnd
  <2>1. mode \notin {"run", "stop"} /\ mode' \notin {"run", "stop"} /\ UNCHANGED machine
    BY <1>3, EmissionOn
  <2>2. Means'
    BY <1>1, <1>3, <2>1, EmissionMeans
  <2>3. Started' /\ Simulated'
    BY <1>1, <2>1 DEF Started, Simulated, machine
  <2> QED
    BY <2>2, <2>3 DEF Meant
<1>4. CASE Execution
  <2>1. mode' \in {"run", "stop"}
    BY <1>4, Zenon DEF Execution, RunItem, RunLabel, RunJump, RunRet
  <2>2. Simulated'
    BY <1>1, <1>4, ExecutionRuns
  <2> QED
    BY <2>1, <2>2 DEF Meant, Means, Started
<1>5. CASE UNCHANGED vars
  <2>1. UNCHANGED <<nest, mode, code, tree, ip, rax, last>>
    BY <1>5 DEF vars, emission, machine
  <2> QED
    BY <1>1, <2>1 DEF Meant, Means, Started, Simulated
<1> QED
  BY <1>2, <1>3, <1>4, <1>5 DEF Next

(* While the compiler is at work, the code it has emitted means the        *)
(* statements it has reached, whatever it will still come to: every item   *)
(* is where the source is at that point, for RAX zero and not (emit_block, *)
(* emit_cond_block, emit_for_block, emit_while_block, emit_oper).  While   *)
(* the machine runs, its item is where the source is after the latest      *)
(* event.                                                                  *)
THEOREM MeantCorrect == Spec => []Meant
<1>1. IInv /\ GrownInv /\ [Next]_vars => GrownInv'
  BY NextGrown
<1> QED
  BY InitMeant, NextMeant, EmitInductive, OnceInductive, GrownCorrect, PTL DEF Spec

-----------------------------------------------------------------------------
(* The refinement. *)

LEMMA InitSource == Init => Statements!Init
BY DEF Init, Statements!Init, Statements!Start, Statements!Event, Program

(* The end of the function is the program as it is written; the steps of   *)
(* the compiler before it are none of the source's.                        *)
LEMMA EmissionSource ==
  ASSUME Inside, Started, Emission
  PROVE  [Statements!Next]_(Statements!vars)
<1>1. CASE FunctionEnd
  <2>1. mode = "stmt" /\ UNCHANGED last
    BY <1>1 DEF FunctionEnd, BlockEnds, machine
  <2>2. Statements!Write
    BY <2>1 DEF Started, Program, Statements!Write, Statements!Start, Statements!Event
  <2> QED
    BY <2>2 DEF Statements!Next
<1>2. CASE ~FunctionEnd
  <2>1. mode \notin {"run", "stop"} /\ mode' \notin {"run", "stop"} /\ UNCHANGED machine
    BY <1>2, EmissionOn
  <2>2. Program = <<>> /\ Program' = <<>> /\ last' = last
    BY <2>1 DEF Program, machine
  <2> QED
    BY <2>2 DEF Statements!vars
<1> QED
  BY <1>1, <1>2

LEMMA ExecutionSource ==
  ASSUME TypeInv, Inside, Simulated, Execution
  PROVE  [Statements!Next]_(Statements!vars)
<1>1. /\ mode = "run" /\ tree' = tree /\ tree \in Seq(Nodes) /\ mode' \in {"run", "stop"}
  BY Zenon DEF Execution, TypeInv, RunItem, RunLabel, RunJump, RunRet
<1>2. Program = tree /\ Program' = Program
  BY <1>1 DEF Program
<1>3. PICK T \in Seq(Nodes) : T = tree
  BY <1>1
<1>4. PICK F : F = Of(T)!Follow
  OBVIOUS
<1>5. Leads(F, T)
  BY <1>4, FollowLeads
<1>6. PICK L, W : Runs(F, T, L, code, W) /\ W[ip][rax] = F[Of(T)!After(last)]
  BY <1>1, <1>3, <1>5 DEF Simulated, Simulates
<1>7. Statements!Follow[Statements!After(last)] = F[Of(T)!After(last)]
  <2>1. Statements!Follow = Of(Program)!Follow
    BY SameFollow
  <2>2. Statements!After(last) = Of(Program)!After(last)
    BY SameAfter
  <2>3. Program = T
    BY <1>2, <1>3
  <2> QED
    BY <1>4, <2>1, <2>2, <2>3
<1>8. ~Statements!Ended
  BY <1>1 DEF Simulated, EndedBy, Statements!Ended
<1>9. CASE UNCHANGED last
  BY <1>2, <1>9 DEF Statements!vars
<1>10. CASE Moves(F, T, last, last')
  <2> DEFINE p == Statements!Follow[Statements!After(last)]
  <2>1. p = Of(T)!At("event", last'.node)
    BY <1>7, <1>10 DEF Moves
  <2>2. p.go = "event" /\ p.node = last'.node
    BY <2>1 DEF Of!At, Of!Point
  <2>3. last'.value \in BOOLEAN /\ Statements!Happens(p.node, last'.value)
    BY <1>10, <2>2 DEF Moves, Statements!Happens, Statements!Event
  <2>4. p.go = "event" /\ \E v \in BOOLEAN : Statements!Happens(p.node, v)
    BY <2>2, <2>3
  <2>5. Statements!Run
    <3> HIDE DEF p
    <3>1. p = Statements!Follow[Statements!After(last)]
      BY DEF p
    <3> QED
      BY <1>2, <1>8, <2>4, <3>1 DEF Statements!Run
  <2> QED
    BY <2>5 DEF Statements!Next
<1>11. CASE RunRet
  <2> DEFINE p == Statements!Follow[Statements!After(last)]
  <2>1. /\ F[Of(T)!After(last)] = Of(T)!At("end", 0)
        /\ last' = [node |-> 0, value |-> FALSE, turn |-> 1 - last.turn]
    BY <1>1, <1>5, <1>6, <1>11, RunRetMoves
  <2>2. p.go = "end"
    BY <1>7, <2>1 DEF Of!At, Of!Point
  <2>3. Statements!Happens(0, FALSE)
    BY <2>1 DEF Statements!Happens, Statements!Event
  <2>4. Statements!Run
    BY <1>2, <1>8, <2>2, <2>3 DEF Statements!Run
  <2> QED
    BY <2>4 DEF Statements!Next
<1> QED
  <2>1. CASE RunItem \/ RunLabel \/ RunJump
    BY <1>1, <1>5, <1>6, <1>9, <1>10, <2>1, RunItemMoves, RunLabelMoves, RunJumpMoves
  <2> QED
    BY <1>11, <2>1 DEF Execution

LEMMA NextSource == IInv /\ Meant /\ [Next]_vars => [Statements!Next]_(Statements!vars)
<1> SUFFICES ASSUME IInv, Meant, [Next]_vars PROVE [Statements!Next]_(Statements!vars)
  OBVIOUS
<1>1. CASE UNCHANGED vars
  <2>1. Program' = Program /\ last' = last
    BY <1>1 DEF vars, machine, Program
  <2> QED
    BY <2>1 DEF Statements!vars
<1> QED
  BY <1>1, EmissionSource, ExecutionSource DEF Next, IInv, Meant

(* The emitted code implements the statements (the safety part of          *)
(* SourceControl), for every body: an operand or a line is evaluated, and  *)
(* the function returns, only when the source comes to it - no branch,     *)
(* loop, break, continue or operator of emit_block and emit_oper leads     *)
(* anywhere else.                                                          *)
THEOREM SourceSafe == Spec => Statements!Safe
<1> QED
  BY InitSource, NextSource, EmitInductive, MeantCorrect, PTL DEF Spec, Statements!Safe
=============================================================================
