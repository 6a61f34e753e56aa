------------------------------ MODULE Control ------------------------------
(***************************************************************************)
(* What the statements of a KTL function mean, told on its tree alone      *)
(* (Frontend/ASTType.h): no labels, no jumps, no machine.  It is the       *)
(* abstract specification that the emitted code of module Emit implements. *)
(*                                                                         *)
(* tree[n] is a node: its kind, its parent (0: the function's block), and  *)
(* which part of the parent it is.  Nodes are numbered in the order of the *)
(* source.  A step of the program is an event: an operand or a line that   *)
(* is evaluated, with what it yields, or the end.  last is the latest      *)
(* event; turn tells two equal events in a row apart.                      *)
(***************************************************************************)
EXTENDS Integers, Sequences

VARIABLES tree, last

vars == <<tree, last>>

Event(n, v, t) == [node |-> n, value |-> v, turn |-> t]
Start == Event(0, TRUE, 0)
Ended == last.node = 0 /\ last.value = FALSE

Kids(n, part) == {m \in DOMAIN tree : tree[m].up = n /\ tree[m].part = part}
Has(n, part)  == Kids(n, part) # {}
Earliest(S)   == CHOOSE m \in S : \A o \in S : m <= o
Kid(n, part)  == Earliest(Kids(n, part))
Later(n)      == {m \in Kids(tree[n].up, tree[n].part) : m > n}

-----------------------------------------------------------------------------
(* Points between events: a node is about to begin, has ended (yielding v, *)
(* when it is an expression), its block begins or has ended, its loop is   *)
(* tested, the loop around it is left or tested again.  The points at      *)
(* which an event happens are "event" and "end".                           *)
Point(go, n, v) == [go |-> go, node |-> n, value |-> v]
Points == [go : {"begin", "ended", "block", "closed", "test", "break", "continue",
                 "event", "end"},
           node : 0 .. Len(tree), value : BOOLEAN]

Begin(n)    == Point("begin", n, TRUE)
Leave(n, v) == Point("ended", n, v)
At(go, n)   == Point(go, n, TRUE)

Begun(n) ==
  CASE tree[n].kind = "operand" -> At("event", n)
    [] tree[n].kind \in {"and", "or"} -> Begin(Kid(n, "left"))
    [] tree[n].kind \in {"line", "return"} /\ Has(n, "expr") -> Begin(Kid(n, "expr"))
    [] tree[n].kind = "line" /\ ~Has(n, "expr") -> At("event", n)
    [] tree[n].kind = "return" /\ ~Has(n, "expr") -> At("end", 0)
    [] tree[n].kind = "cond_block" -> Begin(Kid(n, "branch"))
    [] tree[n].kind = "if_branch" -> At("test", n)
    [] tree[n].kind = "else_branch" -> At("block", n)
    [] tree[n].kind = "while_block" -> At("test", n)
    [] tree[n].kind = "for_block" ->
         IF Has(n, "init") THEN Begin(Kid(n, "init")) ELSE At("test", n)
    [] tree[n].kind \in {"break", "continue"} -> At(tree[n].kind, n)
    [] tree[n].kind = "exit" -> Leave(n, TRUE)   \* as emit_body has it: no code

(* A branch or a loop whose condition has yielded v.                       *)
Tested(n, v) ==
  CASE v -> At("block", n)
    [] ~v /\ tree[n].kind = "if_branch" ->
         IF Later(n) # {} THEN Begin(Earliest(Later(n))) ELSE Leave(tree[n].up, TRUE)
    [] ~v /\ tree[n].kind # "if_branch" -> Leave(n, TRUE)

(* A part of u has ended, yielding v.  Short circuit: the right operand of *)
(* `and` is evaluated when the left one is not zero, that of `or` when it  *)
(* is.                                                                     *)
Passed(u, part, v) ==
  CASE part = "left" ->
         IF v = (tree[u].kind = "and") THEN Begin(Kid(u, "right")) ELSE Leave(u, v)
    [] part = "right" -> Leave(u, v)
    [] part = "expr" -> IF tree[u].kind = "line" THEN At("event", u) ELSE At("end", 0)
    [] part = "cond" -> Tested(u, v)
    [] part \in {"init", "step"} -> At("test", u)
    [] part = "branch" -> Leave(u, TRUE)

EndedPart(n, v) ==
  IF tree[n].part # "body" THEN Passed(tree[n].up, tree[n].part, v)
  ELSE IF Later(n) # {} THEN Begin(Earliest(Later(n))) ELSE At("closed", tree[n].up)

Closed(n) ==
  CASE n = 0 -> At("end", 0)
    [] n # 0 /\ tree[n].kind \in {"if_branch", "else_branch"} -> Leave(n, TRUE)
    [] n # 0 /\ tree[n].kind = "while_block" -> At("test", n)
    [] n # 0 /\ tree[n].kind = "for_block" ->
         IF Has(n, "step") THEN Begin(Kid(n, "step")) ELSE At("test", n)

(* break ends the loop around n, continue goes on with its test.           *)
OfLoop(go, n) ==
  IF tree[n].kind \notin {"while_block", "for_block"} THEN At(go, tree[n].up)
  ELSE IF go = "break" THEN Leave(n, TRUE) ELSE At("test", n)

(* One point further.  A for statement without a condition is tested all   *)
(* the same: what decides is left open here.                               *)
Step(p) ==
  CASE p.go = "begin"  -> Begun(p.node)
    [] p.go = "ended"  -> EndedPart(p.node, p.value)
    [] p.go = "closed" -> Closed(p.node)
    [] p.go = "block"  -> IF Has(p.node, "body") THEN Begin(Kid(p.node, "body"))
                                                 ELSE At("closed", p.node)
    [] p.go = "test"   -> IF Has(p.node, "cond") THEN Begin(Kid(p.node, "cond"))
                                                 ELSE At("event", p.node)
    [] p.go \in {"break", "continue"} -> OfLoop(p.go, p.node)

(* The next point at which something happens.                              *)
Happening(p)  == p.go \in {"event", "end"}
Follow[p \in Points] ==
  IF Happening(p) \/ Step(p) \notin Points THEN p ELSE Follow[Step(p)]

(* Where the program is after the event e.                                 *)
After(e) ==
  CASE e.node = 0 -> At("block", 0)
    [] e.node # 0 /\ tree[e.node].kind = "for_block" -> Tested(e.node, e.value)
    [] e.node # 0 /\ tree[e.node].kind # "for_block" -> Leave(e.node, e.value)

-----------------------------------------------------------------------------
Init == tree = <<>> /\ last = Start

(* The program is there before it runs.                                    *)
Write == last = Start /\ tree = <<>> /\ UNCHANGED last

Happens(n, v) == last' = Event(n, v, 1 - last.turn)

Run == /\ ~Ended
       /\ LET p == Follow[After(last)] IN
            \/ p.go = "end" /\ Happens(0, FALSE)
            \/ p.go = "event" /\ \E v \in BOOLEAN : Happens(p.node, v)
       /\ UNCHANGED tree

Next == Write \/ Run

Safe == Init /\ [][Next]_vars
Spec == Safe /\ WF_vars(Run)
=============================================================================
