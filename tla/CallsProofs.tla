---------------------------- MODULE CallsProofs ----------------------------
(***************************************************************************)
(* Proofs about the stack discipline of the emitted code, for any nesting  *)
(* of calls and operators, any numbers of arguments and of parameter       *)
(* registers, and any frames that meet CallsAssumption.                    *)
(***************************************************************************)
EXTENDS Calls, TLAPS

Kinds == {"left", "right", "and_or", "call"}
Constructs == [kind : Kinds, n : 0 .. MaxArgs, got : Seq(Values), base : Nat,
               pad : BOOLEAN]

(* How far a construct is when the recursion is inside it.                 *)
Shape ==
  /\ pc = "statement" => work = <<>>
  /\ pc = "value" => rax \in Values
  /\ pc \in {"pushed", "popped", "call"} =>
       work # <<>> /\ Top.kind = "call" /\ Len(Top.got) = Top.n
  /\ \A k \in DOMAIN work :
       /\ work[k].kind \in {"left", "and_or"} => Len(work[k].got) = 0
       /\ work[k].kind = "right" => Len(work[k].got) = 1
       /\ work[k].kind = "call" =>
            /\ k < Len(work) \/ pc \in {"expr", "value"} =>
                 Len(work[k].got) < work[k].n
            /\ work[k].pad => k = Len(work) /\ pc = "call"

(* Balanced, told apart: the bases, and the height of the stack.           *)
Chain ==
  \A k \in DOMAIN work :
    work[k].base =
      IF k = 1 THEN 0 ELSE work[k - 1].base + Len(work[k - 1].got)

Above ==
  \A j, k \in DOMAIN work :
    j < k => work[j].base + Len(work[j].got) <= work[k].base

Height ==
  Len(stack) = IF work = <<>> THEN 0 ELSE Top.base + Kept(Len(work))

(* The values a construct has on the stack, arguments for the callee       *)
(* included.                                                               *)
Held ==
  \A k \in DOMAIN work :
    \A i \in 1 .. (IF Popped(k) THEN n_stack_par(work[k])
                                ELSE Len(work[k].got)) :
      stack[work[k].base + i] = work[k].got[i]

Loaded ==
  pc \in {"popped", "call"} =>
    \A k \in 1 .. n_reg_par(Top) : regs[k] = Argument(k)

Evened == pc = "call" => stack_depth % 16 = 0

IInv == /\ TypeInv /\ DepthTracksStack /\ Shape /\ Chain
        /\ Above /\ Height /\ Held /\ Loaded /\ Evened

-----------------------------------------------------------------------------
(* Sequences. *)

LEMMA AppendFacts ==
  ASSUME NEW S, NEW s \in Seq(S), NEW e \in S
  PROVE  /\ Append(s, e) \in Seq(S) /\ Len(s) \in Nat
         /\ Len(Append(s, e)) = Len(s) + 1
         /\ DOMAIN s = 1 .. Len(s) /\ DOMAIN Append(s, e) = 1 .. Len(s) + 1
         /\ Append(s, e)[Len(s) + 1] = e
         /\ \A i \in 1 .. Len(s) : Append(s, e)[i] = s[i]
OBVIOUS

LEMMA ReplaceFacts ==
  ASSUME NEW S, NEW s \in Seq(S), NEW e \in S, s # <<>>,
         NEW t, t = [s EXCEPT ![Len(s)] = e]
  PROVE  /\ t \in Seq(S) /\ Len(t) = Len(s) /\ Len(s) \in Nat \ {0}
         /\ DOMAIN t = 1 .. Len(s) /\ DOMAIN s = 1 .. Len(s) /\ t # <<>>
         /\ t[Len(s)] = e
         /\ \A i \in 1 .. Len(s) - 1 : t[i] = s[i]
OBVIOUS

LEMMA DropFacts ==
  ASSUME NEW S, NEW s \in Seq(S), NEW n \in 0 .. Len(s)
  PROVE  /\ Drop(s, n) \in Seq(S) /\ Len(Drop(s, n)) = Len(s) - n
         /\ DOMAIN Drop(s, n) = 1 .. Len(s) - n
         /\ \A i \in 1 .. Len(s) - n : Drop(s, n)[i] = s[i]
BY DEF Drop

LEMMA Below ==
  ASSUME NEW a \in Nat, NEW l \in Nat, NEW b \in Nat, NEW m \in Nat,
         NEW i \in 1 .. l, a + l <= b
  PROVE  a + i \in 1 .. b + m
OBVIOUS

LEMMA FromTheTop ==
  ASSUME NEW b \in Nat, NEW n \in Nat, NEW r \in Nat, NEW m \in Nat,
         m = n - r, NEW k \in r + 1 .. n
  PROVE  /\ n + 1 - k \in 1 .. m
         /\ (b + m) - (k - r - 1) = b + (n + 1 - k)
         /\ b + (n + 1 - k) \in 1 .. b + m
OBVIOUS

LEMMA WorkFacts ==
  ASSUME TypeInv
  PROVE  /\ work \in Seq(Constructs) /\ Len(work) \in Nat
         /\ DOMAIN work = 1 .. Len(work) /\ Len(stack) \in Nat
         /\ work # <<>> => Len(work) \in DOMAIN work /\ Top \in Constructs
         /\ \A k \in DOMAIN work :
              /\ work[k].base \in Nat /\ work[k].got \in Seq(Values)
              /\ work[k].n \in 0 .. MaxArgs /\ work[k].pad \in BOOLEAN
              /\ Len(work[k].got) \in Nat /\ work[k] \in Constructs
<1>1. \A c \in Constructs : /\ c.base \in Nat /\ c.got \in Seq(Values)
                            /\ c.n \in 0 .. MaxArgs /\ c.pad \in BOOLEAN
                            /\ Len(c.got) \in Nat
  BY DEF Constructs
<1>2. work \in Seq(Constructs)
  BY DEF TypeInv, Constructs, Kinds
<1>3. /\ Len(work) \in Nat /\ DOMAIN work = 1 .. Len(work)
      /\ \A k \in DOMAIN work : work[k] \in Constructs
      /\ work # <<>> => Len(work) \in DOMAIN work
  BY <1>2
<1> QED
  BY <1>1, <1>2, <1>3 DEF Top, TypeInv

LEMMA InitIInv == Init => IInv
BY CallsAssumption
   DEF Init, IInv, TypeInv, DepthTracksStack, Shape, Chain, Above, Height,
       Held, Loaded, Evened, Words, Registers

-----------------------------------------------------------------------------
(* Steps that leave stack and work alone.                                  *)
LEMMA PlainStep ==
  ASSUME IInv, UNCHANGED <<unit, stack_depth, work, stack, regs>>,
         rax' \in Words, pc \in {"statement", "expr", "value"},
         \/ pc' = "expr" /\ work = <<>>
         \/ pc' = "value" /\ rax' \in Values /\ pc = "expr"
         \/ pc' = "statement" /\ work = <<>>
  PROVE  IInv'
<1>1. TypeInv' /\ DepthTracksStack'
  BY DEF IInv, TypeInv, DepthTracksStack, Words
<1>2. Shape'
  BY DEF IInv, Shape, Top
<1>3. \A k : Popped(k)' = Popped(k) /\ Kept(k)' = Kept(k)
  BY DEF Popped, Kept, n_stack_par, n_reg_par
<1>4. Chain' /\ Above'
  BY DEF IInv, Chain, Above
<1>5. Height' /\ Held'
  BY <1>3 DEF IInv, Height, Held, Top, n_stack_par, n_reg_par
<1>6. Loaded' /\ Evened'
  BY DEF Loaded, Evened
<1> QED
  BY <1>1, <1>2, <1>4, <1>5, <1>6 DEF IInv

(* A construct begins: it has nothing on the stack yet.                    *)
LEMMA BeginStep ==
  ASSUME IInv, NEW kind \in {"left", "and_or", "call"}, NEW n \in 0 .. MaxArgs,
         Begin(kind, n), UNCHANGED <<unit, stack_depth, stack, regs, rax>>,
         pc \in {"statement", "expr"},
         pc' = IF kind = "call" /\ n = 0 THEN "pushed" ELSE "expr"
  PROVE  IInv'
<1> DEFINE c == Construct(kind, n)
           w == Len(work)
<1>1. c \in Constructs /\ c.kind = kind /\ c.n = n /\ c.got = <<>>
      /\ c.base = Len(stack) /\ c.pad = FALSE /\ Len(c.got) = 0
  BY WorkFacts DEF IInv, Construct, Constructs, Kinds
<1>2. /\ work' = Append(work, c) /\ work' \in Seq(Constructs)
      /\ w \in Nat /\ Len(work') = w + 1
      /\ DOMAIN work = 1 .. w /\ DOMAIN work' = 1 .. w + 1
      /\ work'[w + 1] = c /\ \A k \in 1 .. w : work'[k] = work[k]
  BY <1>1, WorkFacts, AppendFacts DEF Begin, IInv
<1> HIDE DEF c
<1>3. Top' = c /\ work' # <<>>
  BY <1>2 DEF Top
<1>4. TypeInv' /\ DepthTracksStack'
  BY <1>2 DEF IInv, TypeInv, DepthTracksStack, Constructs, Kinds
<1>5. \A k \in 1 .. w : work[k].kind = "call" => Len(work[k].got) < work[k].n
  BY <1>2 DEF IInv, Shape
<1>6. Shape'
  <2>1. ASSUME NEW k \in 1 .. w + 1
        PROVE  /\ work'[k].kind \in {"left", "and_or"} => Len(work'[k].got) = 0
               /\ work'[k].kind = "right" => Len(work'[k].got) = 1
               /\ work'[k].kind = "call" =>
                    /\ k < w + 1 \/ pc' \in {"expr", "value"} =>
                         Len(work'[k].got) < work'[k].n
                    /\ work'[k].pad => k = w + 1 /\ pc' = "call"
    <3>1. CASE k = w + 1
      BY <1>1, <1>2, <3>1
    <3>2. CASE k \in 1 .. w
      BY <1>2, <1>5, <3>2 DEF IInv, Shape
    <3> QED
      BY <3>1, <3>2, <1>2
  <2> QED
    BY <1>1, <1>2, <1>3, <2>1 DEF Shape
<1>7. /\ \A k : ~Popped(k) /\ ~Popped(k)'
      /\ \A k \in 1 .. w : Kept(k) = Len(work[k].got)
      /\ \A k : Kept(k)' = Len(work'[k].got)
  BY <1>1, <1>2 DEF Popped, Kept
<1>8. work = <<>> <=> w = 0
  BY <1>2, WorkFacts DEF IInv
<1>9. Chain'
  BY <1>1, <1>2, <1>7, <1>8, WorkFacts DEF IInv, Chain, Height, Top
<1>10. Above'
  <2>1. \A j \in 1 .. w : work[j].base + Len(work[j].got) <= Len(stack)
    <3> SUFFICES ASSUME NEW j \in 1 .. w
                 PROVE  work[j].base + Len(work[j].got) <= Len(stack)
      OBVIOUS
    <3>1. Len(stack) = work[w].base + Len(work[w].got)
      BY <1>2, <1>7, <1>8 DEF IInv, Height, Top
    <3>2. /\ work[w].base \in Nat /\ Len(work[w].got) \in Nat
          /\ work[j].base \in Nat /\ Len(work[j].got) \in Nat
      BY <1>2, WorkFacts DEF IInv
    <3>3. j < w => work[j].base + Len(work[j].got) <= work[w].base
      BY <1>2 DEF IInv, Above
    <3> QED
      BY <1>2, <3>1, <3>2, <3>3
  <2> QED
    BY <1>1, <1>2, <2>1 DEF IInv, Above
<1>11. Height'
  <2>1. Kept(Len(work))' = 0
    BY <1>1, <1>2, <1>7
  <2> QED
    BY <1>1, <1>2, <1>3, <2>1, WorkFacts DEF IInv, Height
<1>12. Held'
  BY <1>1, <1>2, <1>7 DEF IInv, Held
<1>13. Loaded' /\ Evened'
  BY DEF Loaded, Evened
<1> QED
  BY <1>4, <1>6, <1>9, <1>10, <1>11, <1>12, <1>13 DEF IInv

(* The innermost construct pushes the value it waited for.                 *)
LEMMA PushStep ==
  ASSUME IInv, pc = "value", work # <<>>, NEW c \in Constructs, Replace(c),
         emit_push(rax), UNCHANGED <<unit, regs, rax>>,
         c.base = Top.base, c.n = Top.n, c.kind = "call" => c.pad = FALSE,
         c.got = Append(Top.got, rax),
         \/ Top.kind = "left" /\ c.kind = "right" /\ pc' = "expr"
         \/ /\ Top.kind = "call" /\ c.kind = "call"
            /\ pc' = IF Len(Top.got) + 1 < Top.n THEN "expr" ELSE "pushed"
  PROVE  IInv'
<1> DEFINE w == Len(work)
           h == Len(stack)
<1>1. /\ work \in Seq(Constructs) /\ w \in Nat \ {0}
      /\ DOMAIN work = 1 .. w /\ w \in DOMAIN work
      /\ work' \in Seq(Constructs) /\ Len(work') = w /\ work' # <<>>
      /\ DOMAIN work' = 1 .. w /\ work'[w] = c /\ Top = work[w]
      /\ \A k \in 1 .. w - 1 : work'[k] = work[k]
  <2>1. /\ work \in Seq(Constructs) /\ DOMAIN work = 1 .. w
        /\ w \in DOMAIN work /\ Top = work[w]
    BY WorkFacts DEF IInv, Top
  <2>2. work' = [work EXCEPT ![Len(work)] = c]
    BY DEF Replace
  <2>3. /\ work' \in Seq(Constructs) /\ Len(work') = Len(work)
        /\ Len(work) \in Nat \ {0} /\ work' # <<>>
        /\ DOMAIN work' = 1 .. Len(work) /\ work'[Len(work)] = c
        /\ \A i \in 1 .. Len(work) - 1 : work'[i] = work[i]
    <3> HIDE DEF w
    <3> QED
      BY <2>1, <2>2, ReplaceFacts
  <2> QED
    BY <2>1, <2>3
<1>w. w = Len(work) /\ h = Len(stack)
  OBVIOUS
<1> HIDE DEF w, h
<1>2. Top' = c
  BY <1>1, <1>w DEF Top
<1>3. /\ rax \in Values /\ rax \in Words /\ Top.got \in Seq(Values)
      /\ Len(Top.got) \in Nat /\ Len(c.got) = Len(Top.got) + 1
      /\ Top.n \in Nat /\ Top.base \in Nat
      /\ c.got[Len(Top.got) + 1] = rax
      /\ \A i \in 1 .. Len(Top.got) : c.got[i] = Top.got[i]
  <2>1. rax \in Values /\ rax \in Words
    BY DEF IInv, Shape, Words
  <2>2. Top.got \in Seq(Values) /\ Top.n \in Nat /\ Top.base \in Nat
    BY <1>1, WorkFacts DEF IInv
  <2> QED
    BY <2>1, <2>2, AppendFacts
<1>4. /\ stack' \in Seq(Words) /\ h \in Nat /\ Len(stack') = h + 1
      /\ stack'[h + 1] = rax /\ \A i \in 1 .. h : stack'[i] = stack[i]
  BY <1>3, <1>w, AppendFacts DEF emit_push, IInv, TypeInv
<1>5. TypeInv'
  BY <1>1, <1>4, <1>3 DEF IInv, TypeInv, emit_push, Constructs, Kinds
<1>6. DepthTracksStack'
  BY <1>4, <1>w DEF IInv, DepthTracksStack, emit_push, TypeInv
<1>7. \A k : ~Popped(k) /\ ~Popped(k)'
  BY DEF Popped
<1>8. h = Top.base + Len(Top.got)
  BY <1>1, <1>7, <1>w DEF IInv, Height, Kept
<1>9. Shape'
  <2>1. ASSUME NEW k \in 1 .. w
        PROVE  /\ work'[k].kind \in {"left", "and_or"} => Len(work'[k].got) = 0
               /\ work'[k].kind = "right" => Len(work'[k].got) = 1
               /\ work'[k].kind = "call" =>
                    /\ k < w \/ pc' \in {"expr", "value"} =>
                         Len(work'[k].got) < work'[k].n
                    /\ work'[k].pad => k = w /\ pc' = "call"
    <3>1. CASE k = w
      <4>1. Top.kind = "left" => Len(Top.got) = 0
        BY <1>1 DEF IInv, Shape
      <4>2. work'[k] = c
        BY <1>1, <3>1
      <4>3. c.kind = "right" => Len(c.got) = 1
        BY <1>3, <4>1
      <4>4. c.kind = "call" /\ pc' \in {"expr", "value"} => Len(c.got) < c.n
        BY <1>3
      <4>5. c.kind \in {"right", "call"}
        OBVIOUS
      <4>6. work'[k].kind = "call" => ~work'[k].pad
        BY <4>2, Zenon
      <4>7. work'[k].kind = "call" =>
              (k < w \/ pc' \in {"expr", "value"} =>
                 Len(work'[k].got) < work'[k].n)
        BY <1>1, <3>1, <4>2, <4>4
      <4>8. /\ work'[k].kind \in {"left", "and_or"} => Len(work'[k].got) = 0
            /\ work'[k].kind = "right" => Len(work'[k].got) = 1
        BY <4>2, <4>3, <4>5
      <4> QED
        BY <4>6, <4>7, <4>8, Zenon
    <3>2. CASE k \in 1 .. w - 1
      BY <1>1, <3>2 DEF IInv, Shape
    <3> QED
      BY <3>1, <3>2, <1>1
  <2>2. Top.kind = "call" => Len(Top.got) < Top.n
    BY <1>1 DEF IInv, Shape
  <2> QED
    BY <1>1, <1>2, <1>3, <2>1, <2>2 DEF Shape
<1>10. Chain' /\ Above'
  <2>1. \A k \in 1 .. w :
          /\ work'[k].base = work[k].base
          /\ k < w => Len(work'[k].got) = Len(work[k].got)
    BY <1>1
  <2>2. ASSUME NEW k \in 1 .. w, k # 1
        PROVE  k - 1 \in 1 .. w - 1
    BY <1>1, <2>2
  <2>3. Chain'
    BY <1>1, <2>1, <2>2, ZenonT(60) DEF IInv, Chain
  <2>4. Above'
    BY <1>1, <2>1 DEF IInv, Above
  <2> QED
    BY <2>3, <2>4
<1>11. Height'
  <2>1. Kept(Len(work))' = Len(c.got)
    BY <1>1, <1>7, <1>w DEF Kept
  <2> QED
    BY <1>1, <1>2, <1>3, <1>4, <1>8, <2>1 DEF Height
<1>12. Held'
  <2> SUFFICES ASSUME NEW k \in 1 .. w, NEW i \in 1 .. Len(work'[k].got)
               PROVE  stack'[work'[k].base + i] = work'[k].got[i]
    BY <1>1, <1>7 DEF Held
  <2>1. \A j \in 1 .. Len(work[k].got) :
          stack[work[k].base + j] = work[k].got[j]
    BY <1>1, <1>7 DEF IInv, Held
  <2>2. work[k].base \in Nat /\ Len(work[k].got) \in Nat
    BY <1>1, WorkFacts DEF IInv
  <2>3. CASE k = w
    <3>1. work'[k] = c /\ work[k] = Top
      BY <1>1, <2>3
    <3>2. CASE i = Len(Top.got) + 1
      BY <1>3, <1>4, <1>8, <3>1, <3>2
    <3>3. CASE i \in 1 .. Len(Top.got)
      <4>1. Top.base + i \in 1 .. h
        BY <1>3, <1>8, <3>3
      <4> QED
        BY <1>3, <1>4, <2>1, <3>1, <3>3, <4>1
    <3> QED
      BY <1>3, <3>1, <3>2, <3>3
  <2>4. CASE k \in 1 .. w - 1
    <3>1. work[k].base + Len(work[k].got) <= Top.base
      BY <1>1, <2>4 DEF IInv, Above
    <3>2. work'[k] = work[k]
      BY <1>1, <2>4
    <3>3. work[k].base + i \in 1 .. h
      <4>1. /\ h = Top.base + Len(Top.got) /\ Top.base \in Nat
            /\ Len(Top.got) \in Nat /\ i \in 1 .. Len(work[k].got)
        BY <1>3, <1>8, <3>2, Zenon
      <4>2. work[k].base + i \in 1 .. Top.base + Len(Top.got)
        BY <2>2, <3>1, <4>1, Below
      <4> QED
        BY <4>1, <4>2
    <3> QED
      BY <1>4, <2>1, <3>2, <3>3
  <2> QED
    BY <2>3, <2>4, <1>1
<1>13. Loaded' /\ Evened'
  BY DEF Loaded, Evened
<1> QED
  BY <1>5, <1>6, <1>9, <1>10, <1>11, <1>12, <1>13 DEF IInv

(* The innermost construct ends, with the stack as it found it.            *)
LEMMA EndStep ==
  ASSUME IInv, work # <<>>, End, UNCHANGED unit,
         stack' \in Seq(Words), Len(stack') = Top.base,
         \A i \in 1 .. Top.base : stack'[i] = stack[i],
         stack_depth' = 8 * Top.base, regs' \in [Registers -> Words],
         rax' \in Words, pc' \in {"expr", "value"},
         pc' = "value" => rax' \in Values
  PROVE  IInv'
<1> DEFINE v == Len(work) - 1
<1>1. /\ Len(work) = v + 1 /\ v \in Nat /\ DOMAIN work = 1 .. v + 1
      /\ work' \in Seq(Constructs) /\ Len(work') = v /\ DOMAIN work' = 1 .. v
      /\ (work' = <<>> <=> v = 0) /\ Top = work[v + 1]
      /\ \A k \in 1 .. v : work'[k] = work[k]
  <2>1. work \in Seq(Constructs) /\ Len(work) \in Nat \ {0}
    BY WorkFacts DEF IInv
  <2>2. work' = Drop(work, 1)
    BY DEF End, Drop
  <2>3. /\ work' \in Seq(Constructs) /\ Len(work') = Len(work) - 1
        /\ DOMAIN work' = 1 .. Len(work) - 1
        /\ \A k \in 1 .. Len(work) - 1 : work'[k] = work[k]
    <3>1. 1 \in 0 .. Len(work)
      BY <2>1
    <3> QED
      BY <2>1, <2>2, <3>1, DropFacts
  <2> QED
    BY <2>1, <2>3 DEF Top
<1> HIDE DEF v
<1>2. \A k \in 1 .. v + 1 : /\ work[k].base \in Nat /\ Len(work[k].got) \in Nat
                           /\ work[k].got \in Seq(Values)
  BY <1>1, WorkFacts DEF IInv
<1>3. TypeInv'
  BY <1>1, <1>2, SMTT(30) DEF IInv, TypeInv, Constructs, Kinds
<1>4. DepthTracksStack'
  BY DEF DepthTracksStack
<1>5. Shape'
  <2>1. ASSUME NEW k \in 1 .. v
        PROVE  /\ work[k].kind \in {"left", "and_or"} => Len(work[k].got) = 0
               /\ work[k].kind = "right" => Len(work[k].got) = 1
               /\ work[k].kind = "call" =>
                    Len(work[k].got) < work[k].n /\ ~work[k].pad
    <3>1. k \in DOMAIN work /\ k < Len(work) /\ k # Len(work)
      BY <1>1
    <3> QED
      BY <3>1, Zenon DEF IInv, Shape
  <2>2. ASSUME NEW k \in DOMAIN work'
        PROVE  /\ work'[k].kind \in {"left", "and_or"} => Len(work'[k].got) = 0
               /\ work'[k].kind = "right" => Len(work'[k].got) = 1
               /\ work'[k].kind = "call" =>
                    Len(work'[k].got) < work'[k].n /\ ~work'[k].pad
    <3>1. k \in 1 .. v /\ work'[k] = work[k]
      BY <1>1
    <3> QED
      BY <2>1, <3>1, Zenon
  <2>3. /\ pc' # "statement" /\ pc' \notin {"pushed", "popped", "call"}
    OBVIOUS
  <2> QED
    BY <2>2, <2>3, Zenon DEF Shape
<1>6. Chain' /\ Above'
  <2>1. ASSUME NEW k \in 1 .. v, k # 1
        PROVE  k - 1 \in 1 .. v
    BY <1>1, <2>1
  <2>2. Chain'
    <3> SUFFICES ASSUME NEW k \in 1 .. v
                 PROVE  work'[k].base = IF k = 1 THEN 0 ELSE
                          work'[k - 1].base + Len(work'[k - 1].got)
      BY <1>1 DEF Chain
    <3>1. k \in DOMAIN work /\ work'[k] = work[k]
      BY <1>1
    <3>2. work[k].base = IF k = 1 THEN 0 ELSE
                           work[k - 1].base + Len(work[k - 1].got)
      BY <3>1, Zenon DEF IInv, Chain
    <3>3. k # 1 => work'[k - 1] = work[k - 1]
      BY <1>1, <2>1
    <3> QED
      BY <3>1, <3>2, <3>3, Zenon
  <2>3. Above'
    BY <1>1 DEF IInv, Above
  <2> QED
    BY <2>2, <2>3
<1>7. \A k : ~Popped(k)' /\ (k \in 1 .. v => ~Popped(k))
  BY <1>1 DEF Popped
<1>8. Height'
  <2>1. CASE v = 0
    BY <1>1, <2>1 DEF IInv, Chain, Height
  <2>2. CASE v # 0
    <3>1. Top' = work[v] /\ work'[v] = work[v]
      BY <1>1, <2>2 DEF Top
    <3>2. Kept(Len(work))' = Len(work[v].got)
      BY <1>1, <1>7, <3>1 DEF Kept
    <3>3. Top.base = work[v].base + Len(work[v].got)
      <4>1. /\ v + 1 \in DOMAIN work /\ v + 1 # 1 /\ (v + 1) - 1 = v
        BY <1>1, <2>2
      <4> QED
        BY <1>1, <4>1 DEF IInv, Chain
    <3> QED
      BY <1>1, <2>2, <3>1, <3>2, <3>3 DEF Height
  <2> QED
    BY <2>1, <2>2
<1>9. Held'
  <2> SUFFICES ASSUME NEW k \in 1 .. v, NEW i \in 1 .. Len(work[k].got)
               PROVE  stack'[work[k].base + i] = work[k].got[i]
    BY <1>1, <1>7 DEF Held
  <2>1. stack[work[k].base + i] = work[k].got[i]
    <3>1. k \in DOMAIN work /\ ~Popped(k)
      BY <1>1, <1>7
    <3> QED
      BY <3>1, Zenon DEF IInv, Held
  <2>2. work[k].base + Len(work[k].got) <= Top.base
    <3>1. /\ k \in DOMAIN work /\ v + 1 \in DOMAIN work /\ k < v + 1
          /\ Top = work[v + 1]
      BY <1>1
    <3> QED
      BY <3>1, Zenon DEF IInv, Above
  <2>3. work[k].base + i \in 1 .. Top.base
    BY <1>1, <1>2, <2>2, SMTT(30)
  <2> QED
    BY <2>1, <2>3
<1>10. Loaded' /\ Evened'
  BY DEF Loaded, Evened
<1> QED
  BY <1>3, <1>4, <1>5, <1>6, <1>8, <1>9, <1>10 DEF IInv

(* What the three steps of a call know of it: its words are the top ones.  *)
LEMMA CallFacts ==
  ASSUME IInv, pc \in {"pushed", "popped", "call"}
  PROVE  /\ work # <<>> /\ Top = work[Len(work)] /\ Top \in Constructs
         /\ Len(work) \in Nat \ {0} /\ DOMAIN work = 1 .. Len(work)
         /\ Top.base \in Nat /\ Top.n \in Nat /\ Len(Top.got) = Top.n
         /\ Top.got \in Seq(Values)
         /\ n_reg_par(Top) \in Nat /\ n_stack_par(Top) \in Nat
         /\ n_reg_par(Top) + n_stack_par(Top) = Top.n
         /\ n_reg_par(Top) <= KTL_PARAM_REGS_COUNT
         /\ pc # "call" => ~Top.pad
         /\ Len(stack) = Top.base + Kept(Len(work))
         /\ Kept(Len(work)) = IF pc = "pushed" THEN Top.n ELSE
              n_stack_par(Top) + (IF Top.pad THEN 1 ELSE 0)
<1>1. /\ work # <<>> /\ Top.kind = "call" /\ Len(Top.got) = Top.n
      /\ Top = work[Len(work)]
  BY DEF IInv, Shape, Top
<1>2. /\ Top \in Constructs /\ Top.base \in Nat /\ Top.n \in Nat
      /\ Top.got \in Seq(Values) /\ Len(work) \in Nat \ {0}
      /\ DOMAIN work = 1 .. Len(work) /\ Len(work) \in DOMAIN work
  BY <1>1, WorkFacts, CallsAssumption DEF IInv
<1>3. /\ n_reg_par(Top) \in Nat /\ n_stack_par(Top) \in Nat
      /\ n_reg_par(Top) + n_stack_par(Top) = Top.n
      /\ n_reg_par(Top) <= KTL_PARAM_REGS_COUNT
  BY <1>2, CallsAssumption DEF n_reg_par, n_stack_par
<1>4. pc # "call" => ~Top.pad
  BY <1>1, <1>2, Zenon DEF IInv, Shape
<1>5. Len(stack) = Top.base + Kept(Len(work))
  BY <1>1 DEF IInv, Height
<1>6. Popped(Len(work)) <=> pc # "pushed"
  BY DEF Popped
<1>7. Kept(Len(work)) = IF pc = "pushed" THEN Top.n ELSE
              n_stack_par(Top) + (IF Top.pad THEN 1 ELSE 0)
  BY <1>1, <1>6 DEF Kept
<1> QED
  BY <1>1, <1>2, <1>3, <1>4, <1>5, <1>7

LEMMA TopKept == IInv /\ work # <<>> => Kept(Len(work)) \in Nat
<1> SUFFICES ASSUME IInv, work # <<>> PROVE Kept(Len(work)) \in Nat
  OBVIOUS
<1>1. Len(work[Len(work)].got) \in Nat
  BY WorkFacts DEF IInv
<1>2. CASE Popped(Len(work))
  BY <1>2, CallFacts DEF Popped
<1>3. CASE ~Popped(Len(work))
  BY <1>1, <1>3 DEF Kept
<1> QED
  BY <1>2, <1>3

LEMMA PopArgumentsStep == IInv /\ PopArguments => IInv'
<1> SUFFICES ASSUME IInv, PopArguments PROVE IInv'
  OBVIOUS
<1> DEFINE n == n_reg_par(Top)
           m == n_stack_par(Top)
<1>1. /\ pc = "pushed" /\ pc' = "popped"
      /\ regs' = [r \in Registers |-> IF r <= n THEN stack[Len(stack) + 1 - r]
                                                ELSE regs[r]]
      /\ stack' = Drop(stack, n) /\ stack_depth' = stack_depth - 8 * n
      /\ work' = work /\ unit' = unit /\ rax' = rax /\ Top' = Top
  BY DEF PopArguments, Top
<1>2. /\ n \in Nat /\ m \in Nat /\ n + m = Top.n
      /\ Top.n \in Nat /\ Len(stack) \in Nat /\ Top.base \in Nat
      /\ Len(Top.got) = Top.n /\ Len(stack) = Top.base + Top.n /\ ~Top.pad
      /\ Top = work[Len(work)] /\ Len(work) \in Nat \ {0} /\ work # <<>>
      /\ DOMAIN work = 1 .. Len(work) /\ n <= KTL_PARAM_REGS_COUNT
  BY <1>1, CallFacts, WorkFacts, Zenon DEF IInv
<1>a. /\ n \in Nat /\ m \in Nat /\ Top.n \in Nat /\ Top.base \in Nat
      /\ n + m = Top.n /\ Len(stack) = Top.base + Top.n
      /\ Len(Top.got) = Top.n
  BY <1>2
<1>3. /\ stack' \in Seq(Words) /\ Len(stack') = Top.base + m
      /\ \A i \in 1 .. Top.base + m : stack'[i] = stack[i]
  <2>1. stack \in Seq(Words) /\ n \in 0 .. Len(stack)
    BY <1>2 DEF IInv, TypeInv
  <2> HIDE DEF n, m
  <2>2. /\ stack' \in Seq(Words) /\ Len(stack') = Len(stack) - n
        /\ \A i \in 1 .. Len(stack) - n : stack'[i] = stack[i]
    BY <1>1, <2>1, DropFacts
  <2>3. Len(stack) - n = Top.base + m
    BY <1>2
  <2> QED
    BY <2>2, <2>3
<1> HIDE DEF n, m
<1>4. /\ \A k : k # Len(work) => ~Popped(k) /\ ~Popped(k)'
      /\ \A k : ~Popped(k) /\ Popped(Len(work))'
  BY <1>1 DEF Popped
<1>6. DepthTracksStack'
  <2>1. /\ stack_depth = 8 * Len(stack) /\ stack_depth' = stack_depth - 8 * n
        /\ Len(stack') = Top.base + m
    BY <1>1, <1>3, Zenon DEF IInv, DepthTracksStack
  <2>2. stack_depth' = 8 * (Top.base + m)
    BY <1>a, <2>1
  <2> QED
    BY <2>1, <2>2, Zenon DEF DepthTracksStack
<1>5. TypeInv'
  <2>1. \A r \in Registers : r <= n => stack[Len(stack) + 1 - r] \in Words
    BY <1>2, SMTT(30) DEF IInv, TypeInv, Registers
  <2>2. regs' \in [Registers -> Words]
    BY <1>1, <2>1 DEF IInv, TypeInv
  <2>3. stack_depth' \in Nat
    <3>1. stack_depth' = 8 * (Top.base + m)
      BY <1>6, <1>3, Zenon DEF DepthTracksStack
    <3> QED
      BY <1>a, <3>1
  <2> QED
    BY <1>1, <1>3, <2>2, <2>3 DEF IInv, TypeInv
<1>7. Shape'
  BY <1>1, <1>2 DEF IInv, Shape
<1>8. Chain' /\ Above'
  BY <1>1 DEF IInv, Chain, Above
<1>9. Height'
  <2>1. Kept(Len(work))' = m
    BY <1>1, <1>2, <1>4 DEF Kept, m
  <2> QED
    BY <1>1, <1>2, <1>3, <2>1 DEF Height
<1>10. ASSUME NEW k \in DOMAIN work, NEW i \in 1 .. Len(work[k].got)
       PROVE  stack[work[k].base + i] = work[k].got[i]
  BY <1>4, <1>10, Zenon DEF IInv, Held
<1>11. Held'
  <2> SUFFICES ASSUME NEW k \in DOMAIN work,
                      NEW i \in 1 .. (IF Popped(k)' THEN n_stack_par(work[k])
                                                   ELSE Len(work[k].got))
               PROVE  stack'[work[k].base + i] = work[k].got[i]
    BY <1>1 DEF Held, n_stack_par, n_reg_par
  <2>1. work[k].base \in Nat /\ Len(work[k].got) \in Nat
    BY WorkFacts, Zenon DEF IInv
  <2>2. CASE k = Len(work)
    <3>1. i \in 1 .. m /\ work[k] = Top
      BY <1>2, <1>4, <2>2 DEF m
    <3>2. i \in 1 .. Len(work[k].got) /\ work[k].base + i \in 1 .. Top.base + m
      BY <1>a, <3>1
    <3> QED
      BY <1>3, <1>10, <3>2
  <2>3. CASE k # Len(work)
    <3>1. i \in 1 .. Len(work[k].got)
      BY <1>4, <2>3
    <3>2. Len(work) \in DOMAIN work /\ k < Len(work)
      BY <1>2, <2>3
    <3>3. work[k].base + Len(work[k].got) <= Top.base
      BY <1>2, <3>2, Zenon DEF IInv, Above
    <3>4. work[k].base + i \in 1 .. Top.base + m
      BY <1>a, <2>1, <3>1, <3>3
    <3> QED
      BY <1>3, <1>10, <3>1, <3>4
  <2> QED
    BY <2>2, <2>3
<1>12. Loaded'
  <2> SUFFICES ASSUME NEW k \in 1 .. n
               PROVE  regs'[k] = Top.got[Top.n + 1 - k]
    BY <1>1 DEF Loaded, Argument, n, n_reg_par
  <2>1. k \in Registers /\ k <= n
    BY <1>2, CallsAssumption DEF Registers
  <2>2. regs'[k] = stack[Len(stack) + 1 - k]
    BY <1>1, <2>1
  <2>3. /\ Top.n + 1 - k \in 1 .. Len(Top.got)
        /\ Len(stack) + 1 - k = Top.base + (Top.n + 1 - k)
    BY <1>a
  <2>4. Len(work) \in DOMAIN work
    BY <1>2
  <2>5. stack[Top.base + (Top.n + 1 - k)] = Top.got[Top.n + 1 - k]
    BY <1>2, <1>10, <2>3, <2>4
  <2> QED
    BY <2>2, <2>3, <2>5
<1>13. Evened'
  BY <1>1 DEF Evened
<1> QED
  BY <1>5, <1>6, <1>7, <1>8, <1>9, <1>11, <1>12, <1>13 DEF IInv

LEMMA AlignStep == IInv /\ Align => IInv'
<1> SUFFICES ASSUME IInv, Align PROVE IInv'
  OBVIOUS
<1> DEFINE odd == stack_depth % 16 # 0
           c == [Top EXCEPT !.pad = odd]
           w == Len(work)
           h == Len(stack)
           m == n_stack_par(Top)
<1>1. /\ pc = "popped" /\ pc' = "call"
      /\ stack' = IF odd THEN Append(stack, Junk) ELSE stack
      /\ stack_depth' = IF odd THEN stack_depth + 8 ELSE stack_depth
      /\ work' = [work EXCEPT ![w] = c]
      /\ unit' = unit /\ regs' = regs /\ rax' = rax
  BY DEF Align, Replace
<1>2. /\ work # <<>> /\ Top = work[w] /\ Top \in Constructs
      /\ w \in Nat \ {0} /\ m \in Nat /\ Top.base \in Nat /\ ~Top.pad
      /\ h = Top.base + m /\ work \in Seq(Constructs)
  BY <1>1, CallFacts, WorkFacts DEF IInv
<1>3. /\ c \in Constructs /\ c.kind = Top.kind /\ c.n = Top.n /\ c.got = Top.got
      /\ c.base = Top.base /\ c.pad = odd
  BY <1>2 DEF Constructs
<1>w. w = Len(work) /\ h = Len(stack)
  OBVIOUS
<1>o. odd <=> stack_depth % 16 # 0
  OBVIOUS
<1>m. m = n_stack_par(Top)
  OBVIOUS
<1> HIDE DEF c, w, h, odd, m
<1>4. /\ work' \in Seq(Constructs) /\ Len(work') = w /\ DOMAIN work' = 1 .. w
      /\ DOMAIN work = 1 .. w /\ work' # <<>> /\ work'[w] = c
      /\ \A k \in 1 .. w - 1 : work'[k] = work[k]
  BY <1>1, <1>2, <1>3, <1>w, ReplaceFacts
<1>5. Top' = c
  BY <1>4, <1>w DEF Top
<1>6. ASSUME NEW k \in 1 .. w
      PROVE  /\ work'[k].kind = work[k].kind /\ work'[k].n = work[k].n
             /\ work'[k].got = work[k].got /\ work'[k].base = work[k].base
             /\ k # w => work'[k] = work[k]
  <2>1. CASE k = w
    BY <1>2, <1>3, <1>4, <2>1
  <2>2. CASE k \in 1 .. w - 1
    BY <1>4, <2>2
  <2>3. k = w \/ k \in 1 .. w - 1
    BY <1>2
  <2> QED
    BY <2>1, <2>2, <2>3
<1>7. /\ stack' \in Seq(Words) /\ Len(stack') = h + (IF odd THEN 1 ELSE 0)
      /\ h \in Nat /\ \A i \in 1 .. h : stack'[i] = stack[i]
  <2>1. stack \in Seq(Words) /\ Junk \in Words
    BY DEF IInv, TypeInv, Words
  <2>2. CASE odd
    BY <1>1, <1>w, <2>1, <2>2, AppendFacts
  <2>3. CASE ~odd
    BY <1>1, <1>w, <2>1, <2>3
  <2> QED
    BY <2>2, <2>3
<1>8. TypeInv'
  BY <1>1, <1>4, <1>7 DEF IInv, TypeInv, Constructs, Kinds
<1>9. DepthTracksStack'
  <2>1. stack_depth = 8 * h /\ stack_depth \in Nat
    BY <1>w DEF IInv, DepthTracksStack, TypeInv
  <2>2. CASE odd
    BY <1>1, <1>7, <2>1, <2>2 DEF DepthTracksStack
  <2>3. CASE ~odd
    BY <1>1, <1>7, <2>1, <2>3 DEF DepthTracksStack
  <2> QED
    BY <2>2, <2>3
<1>10. Shape'
  <2>1. ASSUME NEW k \in 1 .. w
        PROVE  /\ work'[k].kind \in {"left", "and_or"} => Len(work'[k].got) = 0
               /\ work'[k].kind = "right" => Len(work'[k].got) = 1
               /\ work'[k].kind = "call" =>
                    /\ k < w \/ pc' \in {"expr", "value"} =>
                         Len(work'[k].got) < work'[k].n
                    /\ work'[k].pad => k = w /\ pc' = "call"
    <3>1. /\ work[k].kind \in {"left", "and_or"} => Len(work[k].got) = 0
          /\ work[k].kind = "right" => Len(work[k].got) = 1
          /\ work[k].kind = "call" =>
               (k < w => Len(work[k].got) < work[k].n) /\ ~work[k].pad
      BY <1>1, <1>4, <1>w, Zenon DEF IInv, Shape
    <3>2. pc' \notin {"expr", "value"} /\ pc' = "call"
      BY <1>1
    <3> QED
      BY <1>6, <3>1, <3>2, Zenon
  <2>2. Top.kind = "call" /\ Len(Top.got) = Top.n
    BY <1>1, Zenon DEF IInv, Shape
  <2>3. /\ pc' # "statement" /\ pc' # "value"
    BY <1>1
  <2>4. Top'.kind = "call" /\ Len(Top'.got) = Top'.n
    BY <1>3, <1>5, <2>2
  <2> QED
    BY <1>1, <1>4, <1>w, <2>1, <2>3, <2>4, Zenon DEF Shape
<1>11. Chain' /\ Above'
  <2>1. Chain'
    <3> SUFFICES ASSUME NEW k \in 1 .. w
                 PROVE  work'[k].base = IF k = 1 THEN 0 ELSE
                          work'[k - 1].base + Len(work'[k - 1].got)
      BY <1>4 DEF Chain
    <3>1. work[k].base = IF k = 1 THEN 0 ELSE
                           work[k - 1].base + Len(work[k - 1].got)
      BY <1>4, Zenon DEF IInv, Chain
    <3>2. k # 1 => k - 1 \in 1 .. w
      BY <1>2
    <3> QED
      BY <1>6, <3>1, <3>2, Zenon
  <2>2. Above'
    BY <1>4, <1>6 DEF IInv, Above
  <2> QED
    BY <2>1, <2>2
<1>a. /\ h = Top.base + m /\ Top.base \in Nat /\ m \in Nat /\ h \in Nat
      /\ w \in Nat
  BY <1>2, <1>7
<1>12. /\ \A k : k # w => ~Popped(k) /\ ~Popped(k)'
       /\ \A k : k = w => Popped(k) /\ Popped(k)'
  BY <1>1, <1>4, <1>w DEF Popped
<1>p. \A k \in 1 .. w : n_stack_par(work'[k]) = n_stack_par(work[k])
  BY <1>6, Zenon DEF n_stack_par, n_reg_par
<1>13. Height'
  <2>1. w \in 1 .. w /\ work[w] = Top
    BY <1>2
  <2>2. \A k : k = w => Kept(k)' = n_stack_par(work'[w]) +
                                    (IF work'[w].pad THEN 1 ELSE 0)
    BY <1>12, Zenon DEF Kept, n_stack_par, n_reg_par
  <2>3. n_stack_par(work'[w]) = m
    BY <1>p, <1>m, <2>1, Zenon
  <2>4. work'[w].pad = odd
    BY <1>3, <1>4, Zenon
  <2>5. \A k : k = w => Kept(k)' = m + (IF odd THEN 1 ELSE 0)
    BY <2>2, <2>3, <2>4, Zenon
  <2>6. Len(stack') = Top.base + (m + (IF odd THEN 1 ELSE 0))
    <3>1. Len(stack') = h + (IF odd THEN 1 ELSE 0)
      BY <1>7
    <3>2. CASE odd
      BY <1>a, <3>1, <3>2
    <3>3. CASE ~odd
      BY <1>a, <3>1, <3>3
    <3> QED
      BY <3>2, <3>3
  <2>7. Top'.base = Top.base /\ Len(work') = w
    BY <1>3, <1>4, <1>5
  <2>8. Kept(Len(work))' = m + (IF odd THEN 1 ELSE 0)
    BY <1>4, <2>5, Zenon
  <2>9. Len(stack') = Top'.base + Kept(Len(work))'
    BY <2>6, <2>7, <2>8, Zenon
  <2> QED
    BY <1>4, <2>9, Zenon DEF Height
<1>14. Held'
  <2> SUFFICES ASSUME NEW k \in 1 .. w,
                      NEW i \in 1 .. (IF Popped(k)' THEN n_stack_par(work[k])
                                                   ELSE Len(work[k].got))
               PROVE  stack'[work[k].base + i] = work[k].got[i]
    <3>1. ASSUME NEW k \in 1 .. w,
                 NEW i \in 1 .. (IF Popped(k)' THEN n_stack_par(work'[k])
                                               ELSE Len(work'[k].got))
          PROVE  stack'[work'[k].base + i] = work'[k].got[i]
      BY <1>6, <1>p, Zenon
    <3> QED
      BY <1>4, <3>1, Zenon DEF Held, n_stack_par, n_reg_par
  <2>1. i \in 1 .. (IF Popped(k) THEN n_stack_par(work[k]) ELSE Len(work[k].got))
    BY <1>12, Zenon
  <2>2. stack[work[k].base + i] = work[k].got[i]
    BY <1>4, <2>1, Zenon DEF IInv, Held
  <2>3. work[k].base \in Nat /\ Len(work[k].got) \in Nat
    BY <1>4, WorkFacts, Zenon DEF IInv
  <2>4. work[k].base + i \in 1 .. h
    <3>1. CASE k = w
      <4>1. i \in 1 .. m /\ work[k] = Top
        BY <1>2, <1>12, <1>m, <2>1, <3>1
      <4> QED
        BY <1>2, <4>1
    <3>2. CASE k # w
      <4>1. i \in 1 .. Len(work[k].got)
        BY <1>12, <2>1, <3>2
      <4>2. w \in DOMAIN work /\ k \in DOMAIN work /\ k < w
        BY <1>2, <1>4, <3>2
      <4>3. work[k].base + Len(work[k].got) <= Top.base
        BY <1>2, <4>2, Zenon DEF IInv, Above
      <4> QED
        BY <1>a, <2>3, <4>1, <4>3
    <3> QED
      BY <3>1, <3>2
  <2> QED
    BY <1>7, <2>2, <2>4
<1>15. Loaded'
  <2>1. n_reg_par(Top)' = n_reg_par(Top)
    BY <1>3, <1>5 DEF n_reg_par
  <2>2. \A k : Argument(k)' = Argument(k)
    BY <1>3, <1>5 DEF Argument
  <2>3. \A k \in 1 .. n_reg_par(Top) : regs[k] = Argument(k)
    BY <1>1 DEF IInv, Loaded
  <2> QED
    BY <1>1, <2>1, <2>2, <2>3 DEF Loaded
<1>16. Evened'
  <2>1. stack_depth = 8 * h /\ h \in Nat
    BY <1>2, <1>7, <1>w DEF IInv, DepthTracksStack
  <2>2. odd => (stack_depth + 8) % 16 = 0
    BY <1>o, <2>1
  <2> QED
    BY <1>1, <1>o, <2>2 DEF Evened
<1> QED
  BY <1>8, <1>9, <1>10, <1>11, <1>13, <1>14, <1>15, <1>16 DEF IInv

-----------------------------------------------------------------------------
LEMMA StatementStep == IInv /\ Statement => IInv'
<1> SUFFICES ASSUME IInv, Statement PROVE IInv'
  OBVIOUS
<1>1. pc = "statement" /\ work = <<>> /\ rax \in Words
  BY DEF Statement, IInv, Shape, TypeInv
<1>2. CASE \E n \in 0 .. MaxArgs : StartCall(n)
  BY <1>1, <1>2, BeginStep DEF StartCall
<1>3. CASE StartHold
  <2>1. 0 \in 0 .. MaxArgs
    BY CallsAssumption
  <2> QED
    BY <1>1, <1>3, <2>1, BeginStep DEF StartHold
<1>4. CASE pc' = "expr" /\ UNCHANGED <<unit, stack_depth, work, stack, regs, rax>>
  BY <1>1, <1>4, PlainStep
<1> QED
  BY <1>2, <1>3, <1>4 DEF Statement

LEMMA ExpressionStep ==
  IInv /\ (Leaf \/ Binary \/ Logic \/ Call \/ EndStatement) => IInv'
<1> SUFFICES ASSUME IInv, Leaf \/ Binary \/ Logic \/ Call \/ EndStatement
             PROVE  IInv'
  OBVIOUS
<1>1. 0 \in 0 .. MaxArgs /\ rax \in Words
  BY CallsAssumption DEF IInv, TypeInv
<1>2. CASE Leaf
  <2>1. rax' \in Values /\ rax' \in Words
    BY <1>2 DEF Leaf, Words
  <2> QED
    BY <1>2, <2>1, PlainStep DEF Leaf
<1>3. CASE Binary
  BY <1>1, <1>3, BeginStep DEF Binary, Nested, StartHold
<1>4. CASE Logic
  BY <1>1, <1>4, BeginStep DEF Logic, Nested
<1>5. CASE Call
  BY <1>5, BeginStep DEF Call, Nested, StartCall
<1>6. CASE EndStatement
  BY <1>1, <1>6, PlainStep DEF EndStatement
<1> QED
  BY <1>2, <1>3, <1>4, <1>5, <1>6

LEMMA HoldLeftStep == IInv /\ HoldLeft => IInv'
<1> SUFFICES ASSUME IInv, HoldLeft PROVE IInv'
  OBVIOUS
<1> DEFINE c == [Top EXCEPT !.kind = "right", !.got = <<rax>>]
<1>1. /\ pc = "value" /\ work # <<>> /\ Top.kind = "left" /\ pc' = "expr"
      /\ emit_push(rax) /\ Replace(c) /\ UNCHANGED <<unit, regs, rax>>
  BY DEF HoldLeft
<1>2. /\ Top \in Constructs /\ rax \in Values /\ Top = work[Len(work)]
      /\ Len(work) \in DOMAIN work
  BY <1>1, WorkFacts DEF IInv, Shape, Top
<1>3. Len(Top.got) = 0
  BY <1>1, <1>2 DEF IInv, Shape
<1>4. Top.got = <<>> /\ <<rax>> = Append(Top.got, rax)
  BY <1>2, <1>3 DEF Constructs
<1>5. /\ c \in Constructs /\ c.base = Top.base /\ c.n = Top.n
      /\ c.got = Append(Top.got, rax) /\ c.kind = "right"
  <2>1. <<rax>> \in Seq(Values)
    BY <1>2
  <2>2. /\ c \in Constructs /\ c.base = Top.base /\ c.n = Top.n
        /\ c.got = <<rax>> /\ c.kind = "right"
    BY <1>2, <2>1 DEF Constructs, Kinds
  <2> QED
    BY <1>4, <2>2
<1> HIDE DEF c
<1> QED
  BY <1>1, <1>5, PushStep

LEMMA PushArgumentStep == IInv /\ PushArgument => IInv'
<1> SUFFICES ASSUME IInv, PushArgument PROVE IInv'
  OBVIOUS
<1> DEFINE c == [Top EXCEPT !.got = Append(@, rax)]
<1>1. /\ pc = "value" /\ work # <<>> /\ Top.kind = "call"
      /\ pc' = IF Len(Top.got) + 1 < Top.n THEN "expr" ELSE "pushed"
      /\ emit_push(rax) /\ Replace(c) /\ UNCHANGED <<unit, regs, rax>>
  BY DEF PushArgument
<1>2. /\ Top \in Constructs /\ rax \in Values /\ Top = work[Len(work)]
      /\ Len(work) \in DOMAIN work
  BY <1>1, WorkFacts DEF IInv, Shape, Top
<1>3. Top.pad = FALSE
  BY <1>1, <1>2 DEF IInv, Shape, Constructs
<1>4. /\ c \in Constructs /\ c.base = Top.base /\ c.n = Top.n /\ c.pad = FALSE
      /\ c.got = Append(Top.got, rax) /\ c.kind = "call"
  BY <1>1, <1>2, <1>3 DEF Constructs
<1> HIDE DEF c
<1> QED
  BY <1>1, <1>4, PushStep

LEMMA CombineStep == IInv /\ Combine => IInv'
<1> SUFFICES ASSUME IInv, Combine PROVE IInv'
  OBVIOUS
<1>1. /\ pc = "value" /\ work # <<>> /\ Top.kind = "right" /\ End
      /\ emit_pop(RDI) /\ rax' \in Values /\ UNCHANGED <<unit, pc>>
  BY DEF Combine
<1>2. Top = work[Len(work)] /\ Len(work) \in DOMAIN work /\ Top.base \in Nat
  BY <1>1, WorkFacts DEF IInv, Top
<1>3. Len(stack) = Top.base + 1
  <2>1. Len(Top.got) = 1
    BY <1>1, <1>2 DEF IInv, Shape
  <2>2. \A k : ~Popped(k)
    BY <1>1 DEF Popped
  <2> QED
    BY <1>1, <1>2, <2>1, <2>2 DEF IInv, Height, Kept
<1>4. /\ stack' \in Seq(Words) /\ Len(stack') = Top.base
      /\ \A i \in 1 .. Top.base : stack'[i] = stack[i]
  <2>1. stack \in Seq(Words) /\ 1 \in 0 .. Len(stack) /\ Len(stack) - 1 = Top.base
    <3>1. stack \in Seq(Words)
      BY DEF IInv, TypeInv
    <3> QED
      BY <1>2, <1>3, <3>1
  <2>2. stack' = Drop(stack, 1)
    BY <1>1 DEF emit_pop
  <2> QED
    BY <2>1, <2>2, DropFacts
<1>5. stack_depth' = 8 * Top.base
  BY <1>1, <1>2, <1>3 DEF emit_pop, IInv, DepthTracksStack
<1>6. regs' \in [Registers -> Words]
  <2>1. stack[Len(stack)] \in Words
    BY <1>2, <1>3 DEF IInv, TypeInv
  <2>2. regs \in [Registers -> Words]
    BY DEF IInv, TypeInv
  <2> QED
    BY <1>1, <2>1, <2>2 DEF emit_pop
<1>7. rax' \in Words /\ pc' \in {"expr", "value"}
  BY <1>1 DEF Words
<1> QED
  BY <1>1, <1>4, <1>5, <1>6, <1>7, EndStep

LEMMA AndOrStep == IInv /\ AndOr => IInv'
<1> SUFFICES ASSUME IInv, AndOr PROVE IInv'
  OBVIOUS
<1>1. /\ pc = "value" /\ work # <<>> /\ Top.kind = "and_or" /\ End
      /\ pc' \in {"value", "expr"}
      /\ UNCHANGED <<unit, stack_depth, stack, regs, rax>>
  BY DEF AndOr
<1>2. Top = work[Len(work)] /\ Len(work) \in DOMAIN work /\ Top.base \in Nat
  BY <1>1, WorkFacts DEF IInv, Top
<1>3. Len(stack) = Top.base
  <2>1. Len(Top.got) = 0
    BY <1>1, <1>2 DEF IInv, Shape
  <2>2. \A k : ~Popped(k)
    BY <1>1 DEF Popped
  <2> QED
    BY <1>1, <1>2, <2>1, <2>2 DEF IInv, Height, Kept
<1>4. /\ stack' \in Seq(Words) /\ regs' \in [Registers -> Words]
      /\ stack_depth' = 8 * Top.base /\ rax' \in Words /\ rax' \in Values
      /\ stack' = stack /\ unit' = unit
  BY <1>1, <1>3 DEF IInv, TypeInv, DepthTracksStack, Shape
<1> QED
  BY <1>1, <1>3, <1>4, EndStep

LEMMA ReturnStep == IInv /\ Return => IInv'
<1> SUFFICES ASSUME IInv, Return PROVE IInv'
  OBVIOUS
<1> DEFINE d == Kept(Len(work))
<1>1. /\ pc = "call" /\ stack' = Drop(stack, cleanup(Top) \div 8)
      /\ stack_depth' = stack_depth - cleanup(Top)
      /\ regs' = [r \in Registers |-> Junk] /\ rax' \in Values
      /\ End /\ pc' = "value" /\ unit' = unit
  BY DEF Return
<1>2. /\ work # <<>> /\ Top.base \in Nat /\ Len(stack) = Top.base + d
      /\ n_stack_par(Top) \in Nat
      /\ d = n_stack_par(Top) + (IF Top.pad THEN 1 ELSE 0)
  BY <1>1, CallFacts
<1>3. d \in Nat
  BY <1>2
<1> HIDE DEF d
<1>4. cleanup(Top) = 8 * d
  <2>1. CASE Top.pad
    BY <1>2, <2>1 DEF cleanup
  <2>2. CASE ~Top.pad
    BY <1>2, <2>2 DEF cleanup
  <2> QED
    BY <2>1, <2>2
<1>5. cleanup(Top) \div 8 = d
  BY <1>3, <1>4
<1>6. stack' \in Seq(Words) /\ Len(stack') = Top.base
      /\ \A i \in 1 .. Top.base : stack'[i] = stack[i]
  <2>1. stack \in Seq(Words)
    BY DEF IInv, TypeInv
  <2>2. d \in 0 .. Len(stack) /\ Len(stack) - d = Top.base
    BY <1>2, <1>3
  <2>3. stack' = Drop(stack, d)
    BY <1>1, <1>5
  <2> QED
    BY <2>1, <2>2, <2>3, DropFacts
<1>7. stack_depth' = 8 * Top.base
  <2>1. stack_depth = 8 * Len(stack)
    BY DEF IInv, DepthTracksStack
  <2>2. stack_depth' = 8 * (Top.base + d) - 8 * d
    BY <1>1, <1>2, <1>4, <2>1, Zenon
  <2>3. Top.base \in Nat
    BY <1>2
  <2> QED
    BY <1>3, <2>2, <2>3
<1>8. /\ regs' \in [Registers -> Words] /\ rax' \in Words
      /\ pc' \in {"expr", "value"}
  BY <1>1 DEF Words
<1> QED
  BY <1>1, <1>2, <1>6, <1>7, <1>8, EndStep

LEMMA StutterStep == IInv /\ UNCHANGED vars => IInv'
<1> SUFFICES ASSUME IInv, UNCHANGED vars PROVE IInv'
  OBVIOUS
<1> USE DEF vars
<1>1. TypeInv' /\ DepthTracksStack' /\ Shape' /\ Chain' /\ Above'
  BY DEF IInv, TypeInv, DepthTracksStack, Shape, Chain, Above, Top
<1>2. Height' /\ Held'
  BY DEF IInv, Height, Held, Kept, Popped, Top, n_stack_par, n_reg_par
<1>3. Loaded' /\ Evened'
  BY DEF IInv, Loaded, Evened, Argument, Top, n_reg_par
<1> QED
  BY <1>1, <1>2, <1>3 DEF IInv

LEMMA NextIInv == IInv /\ [Next]_vars => IInv'
BY StatementStep, ExpressionStep, HoldLeftStep, CombineStep, AndOrStep,
   PushArgumentStep, PopArgumentsStep, AlignStep, ReturnStep, StutterStep
   DEF Next

(* The invariant from which every property below follows: the compiler's   *)
(* count, the places of the constructs, the words and the registers they   *)
(* hold.                                                                   *)
THEOREM Discipline == Spec => []IInv
BY InitIInv, NextIInv, PTL DEF Spec

(* Calls keep their types in every behaviour.                              *)
THEOREM CallsTypeCorrect == Spec => []TypeInv
BY Discipline, PTL DEF IInv

(* cont->stack_depth is the number of bytes pushed since the prologue.     *)
THEOREM DepthTracksStackCorrect == Spec => []DepthTracksStack
BY Discipline, PTL DEF IInv

LEMMA IInvBalanced == IInv => Balanced
<1> SUFFICES ASSUME IInv PROVE Balanced
  OBVIOUS
<1>1. Len(stack) = IF work = <<>> THEN 0 ELSE Top.base + Kept(Len(work))
  BY DEF IInv, Height
<1>2. ASSUME NEW k \in DOMAIN work
      PROVE  work[k].base = IF k = 1 THEN 0 ELSE work[k - 1].base + Kept(k - 1)
  <2>1. work[k].base =
          IF k = 1 THEN 0 ELSE work[k - 1].base + Len(work[k - 1].got)
    BY Zenon DEF IInv, Chain
  <2>2. k - 1 # Len(work)
    BY WorkFacts DEF IInv
  <2>3. Kept(k - 1) = Len(work[k - 1].got)
    BY <2>2, Zenon DEF Kept, Popped
  <2> QED
    BY <2>1, <2>3, Zenon
<1> QED
  BY <1>1, <1>2, Zenon DEF Balanced

(* Whatever a statement nests, every construct returns the stack as it     *)
(* found it and a statement leaves nothing on it.                          *)
THEOREM BalancedCorrect == Spec => []Balanced
BY Discipline, IInvBalanced, PTL

LEMMA IInvHeldValues == IInv => HeldValues
<1> SUFFICES ASSUME IInv, NEW k \in DOMAIN work, ~Popped(k),
                    NEW i \in DOMAIN work[k].got
             PROVE  /\ work[k].base + i <= Len(stack)
                    /\ stack[work[k].base + i] = work[k].got[i]
  BY Zenon DEF HeldValues
<1>1. /\ work[k].base \in Nat /\ Len(work[k].got) \in Nat
      /\ i \in 1 .. Len(work[k].got) /\ Len(work) \in Nat
      /\ DOMAIN work = 1 .. Len(work) /\ work # <<>>
  <2>1. work[k].got \in Seq(Values) /\ work[k].base \in Nat
    BY WorkFacts DEF IInv
  <2>2. i \in 1 .. Len(work[k].got) /\ Len(work[k].got) \in Nat
    BY <2>1
  <2>3. /\ Len(work) \in Nat /\ DOMAIN work = 1 .. Len(work)
    BY WorkFacts DEF IInv
  <2>4. work # <<>>
    BY <2>3
  <2> QED
    BY <2>1, <2>2, <2>3, <2>4
<1>2. stack[work[k].base + i] = work[k].got[i]
  BY <1>1, Zenon DEF IInv, Held
<1>3. work[k].base + Len(work[k].got) <= Len(stack)
  <2>1. Len(stack) = Top.base + Kept(Len(work))
    BY <1>1, Zenon DEF IInv, Height
  <2>2. CASE k = Len(work)
    <3>1. Kept(Len(work)) = Len(work[k].got) /\ Top = work[k]
      BY <2>2, Zenon DEF Kept, Top
    <3> QED
      BY <1>1, <2>1, <3>1
  <2>3. CASE k # Len(work)
    <3>1. k < Len(work) /\ Len(work) \in DOMAIN work /\ Top = work[Len(work)]
      BY <1>1, <2>3 DEF Top
    <3>2. work[k].base + Len(work[k].got) <= Top.base
      BY <3>1, Zenon DEF IInv, Above
    <3>3. Kept(Len(work)) \in Nat
      BY <3>1, TopKept
    <3>4. Top.base \in Nat
      BY <3>1, WorkFacts DEF IInv
    <3> QED
      BY <1>1, <2>1, <3>2, <3>3, <3>4
  <2> QED
    BY <2>2, <2>3
<1> QED
  BY <1>1, <1>2, <1>3

(* No nested evaluation overwrites or drops a value that waits on the      *)
(* stack.                                                                  *)
THEOREM HeldValuesCorrect == Spec => []HeldValues
BY Discipline, IInvHeldValues, PTL

LEMMA IInvAligned == IInv => AlignedAtCalls
<1> SUFFICES ASSUME IInv, pc = "call" PROVE rsp % 16 = 0
  BY DEF AlignedAtCalls
<1>1. /\ stack_depth % 16 = 0 /\ stack_depth = 8 * Len(stack)
      /\ Len(stack) \in Nat
  BY WorkFacts DEF IInv, Evened, DepthTracksStack
<1>2. CASE unit = "main"
  BY <1>1, <1>2, CallsAssumption DEF rsp
<1>3. CASE unit # "main"
  BY <1>1, <1>3, CallsAssumption DEF rsp
<1> QED
  BY <1>2, <1>3

(* For any frame that is a multiple of 16 (8 more for main), any depth and *)
(* any number of arguments, rsp is a multiple of 16 at every call.         *)
THEOREM AlignedAtCallsCorrect == Spec => []AlignedAtCalls
BY Discipline, IInvAligned, PTL

LEMMA IInvArguments == IInv => ArgumentsInPlace
<1> SUFFICES ASSUME IInv, pc = "call"
             PROVE  /\ \A k \in 1 .. n_reg_par(Top) : regs[k] = Argument(k)
                    /\ ~Top.pad =>
                         \A k \in KTL_PARAM_REGS_COUNT + 1 .. Top.n :
                           StackArgument(k) = Argument(k)
  BY DEF ArgumentsInPlace
<1>1. \A k \in 1 .. n_reg_par(Top) : regs[k] = Argument(k)
  BY DEF IInv, Loaded
<1>2. ASSUME ~Top.pad, NEW k \in KTL_PARAM_REGS_COUNT + 1 .. Top.n
      PROVE  StackArgument(k) = Argument(k)
  <2> DEFINE m == n_stack_par(Top)
             i == Top.n + 1 - k
  <2>1. /\ Top = work[Len(work)] /\ Len(work) \in DOMAIN work
        /\ Top.base \in Nat /\ Top.n \in Nat /\ m \in Nat
        /\ Len(stack) = Top.base + m
    BY <1>2, CallFacts
  <2>2. m = Top.n - KTL_PARAM_REGS_COUNT /\ KTL_PARAM_REGS_COUNT \in Nat
    BY <1>2, <2>1, CallsAssumption DEF n_stack_par, n_reg_par
  <2>3. \A j \in 1 .. m : stack[Top.base + j] = Top.got[j]
    <3>1. Popped(Len(work))
      BY DEF Popped
    <3> QED
      BY <2>1, <3>1, Zenon DEF IInv, Held
  <2> HIDE DEF m
  <2>4. /\ i \in 1 .. m
        /\ Len(stack) - (k - KTL_PARAM_REGS_COUNT - 1) = Top.base + i
        /\ Top.base + i \in 1 .. Len(stack)
    <3> DEFINE b == Top.base
               n == Top.n
    <3>1. b \in Nat /\ n \in Nat /\ k \in KTL_PARAM_REGS_COUNT + 1 .. n
      BY <1>2, <2>1
    <3>2. Len(stack) = b + m
      BY <2>1
    <3>3. m \in Nat /\ m = n - KTL_PARAM_REGS_COUNT
      BY <2>1, <2>2
    <3> HIDE DEF b, n
    <3>4. /\ n + 1 - k \in 1 .. m /\ b + (n + 1 - k) \in 1 .. b + m
          /\ (b + m) - (k - KTL_PARAM_REGS_COUNT - 1) = b + (n + 1 - k)
      BY <2>2, <3>1, <3>3, FromTheTop
    <3> QED
      BY <3>2, <3>4, Zenon DEF b, n
  <2>5. DOMAIN stack = 1 .. Len(stack)
    BY DEF IInv, TypeInv
  <2> QED
    BY <2>3, <2>4, <2>5 DEF StackArgument, Argument
<1> QED
  BY <1>1, <1>2

(* At every call each parameter register holds its argument, and so does   *)
(* each stack slot when no padding is needed.                              *)
THEOREM ArgumentsInPlaceCorrect == Spec => []ArgumentsInPlace
BY Discipline, IInvArguments, PTL

(* An operation whose second operand is ready can only be emitted, and its *)
(* first operand is then the top word of the stack.                        *)
LEMMA RightOnlyCombines ==
  ASSUME pc = "value", work # <<>>, Top.kind = "right", Next
  PROVE  Combine
<1>1. /\ ~Statement /\ ~Leaf /\ ~Binary /\ ~Logic /\ ~Call /\ ~PopArguments
      /\ ~Align /\ ~Return
  BY DEF Statement, Leaf, Binary, Logic, Call, Nested, PopArguments, Align,
         Return
<1>2. ~HoldLeft /\ ~AndOr /\ ~EndStatement /\ ~PushArgument
  BY DEF HoldLeft, AndOr, EndStatement, PushArgument
<1> QED
  BY <1>1, <1>2, Zenon DEF Next

LEMMA LeftOnTop ==
  ASSUME IInv, pc = "value", work # <<>>, Top.kind = "right"
  PROVE  stack[Len(stack)] = Top.got[1]
<1>1. Len(work) \in DOMAIN work /\ Top = work[Len(work)] /\ Top.base \in Nat
  BY WorkFacts DEF IInv, Top
<1>2. Len(Top.got) = 1
  BY <1>1 DEF IInv, Shape
<1>3. ~Popped(Len(work))
  BY DEF Popped
<1>4. Len(stack) = Top.base + 1
  BY <1>1, <1>2, <1>3 DEF IInv, Height, Kept
<1>5. stack[Top.base + 1] = Top.got[1]
  <2>1. \A i \in 1 .. Len(work[Len(work)].got) :
          stack[work[Len(work)].base + i] = work[Len(work)].got[i]
    BY <1>1, <1>3, Zenon DEF IInv, Held
  <2>2. 1 \in 1 .. Len(work[Len(work)].got)
    BY <1>1, <1>2
  <2> QED
    BY <1>1, <2>1, <2>2, Zenon
<1> QED
  BY <1>4, <1>5

LEMMA IInvHeldReturned ==
  ASSUME IInv, [Next]_vars
  PROVE  [(pc = "value" /\ work # <<>> /\ Top.kind = "right")
            => regs'[RDI] = Top.got[1]]_vars
<1> SUFFICES ASSUME Next, pc = "value", work # <<>>, Top.kind = "right"
             PROVE  regs'[RDI] = Top.got[1]
  BY Zenon
<1>1. regs' = [regs EXCEPT ![RDI] = stack[Len(stack)]]
  BY RightOnlyCombines, Zenon DEF Combine, emit_pop
<1>2. DOMAIN regs = Registers /\ RDI \in Registers
  BY CallsAssumption DEF IInv, TypeInv, Registers, RDI
<1>3. regs'[RDI] = stack[Len(stack)]
  BY <1>1, <1>2, Zenon
<1> QED
  BY <1>3, LeftOnTop, Zenon

(* The left operand, or the address assigned to, comes back to RDI,        *)
(* whatever the other operand called or kept meanwhile.                    *)
THEOREM HeldReturnedCorrect == Spec => HeldReturned
BY Discipline, IInvHeldReturned, PTL DEF Spec, HeldReturned
=============================================================================
