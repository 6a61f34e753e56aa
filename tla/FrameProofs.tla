---------------------------- MODULE FrameProofs ----------------------------
(***************************************************************************)
(* Proofs about the layout of variables, for any number of variables,      *)
(* functions and parameters, any sizes, and any number of parameter        *)
(* registers, and about the bytes of the instructions that use them: the   *)
(* processor reads every instruction the back end emits as it was written, *)
(* and a slot is filled whole, and nothing beside it.                      *)
(***************************************************************************)
EXTENDS Access, TLAPS, NaturalsInduction, WellFoundedInduction

(* Rounding up to the size of a word and of two words.                     *)
LEMMA AlignUpWord ==
  ASSUME NEW n \in Nat
  PROVE  /\ align_up(n, KTL_SYSTEM_PTR_SIZE) \in Nat
         /\ align_up(n, KTL_SYSTEM_PTR_SIZE) >= n
         /\ align_up(n, KTL_SYSTEM_PTR_SIZE) % 8 = 0
BY DEF align_up, KTL_SYSTEM_PTR_SIZE

LEMMA AlignUpFrame ==
  ASSUME NEW n \in Nat
  PROVE  /\ align_up(n, 2 * KTL_SYSTEM_PTR_SIZE) \in Nat
         /\ align_up(n, 2 * KTL_SYSTEM_PTR_SIZE) >= n
         /\ align_up(n, 2 * KTL_SYSTEM_PTR_SIZE) % 16 = 0
BY DEF align_up, KTL_SYSTEM_PTR_SIZE

LEMMA Multiples ==
  ASSUME NEW a \in Int, NEW b \in Int
  PROVE  /\ a % 8 = 0 /\ b % 8 = 0 => (a - b) % 8 = 0
         /\ a % 16 = 0 => (a + 8) % 16 = 8
OBVIOUS

(* A row added at the end of the table leaves the others alone.            *)
LEMMA AddedRow ==
  ASSUME table \in Seq(Row), NEW r \in Row, ~Find(r.origin), Add(r)
  PROVE  /\ table' \in Seq(Row)
         /\ DOMAIN table' = DOMAIN table \cup {Len(table) + 1}
         /\ Len(table) + 1 \notin DOMAIN table
         /\ table'[Len(table) + 1] = r
         /\ \A i \in DOMAIN table : table'[i] = table[i] /\ table[i] \in Row
BY DEF Add

LEMMA RowTyped ==
  ASSUME NEW r \in Row
  PROVE  r.param \in Nat /\ r.offset \in Int /\ r.size \in Nat
BY DEF Row

LEMMA RowTypes ==
  ASSUME table \in Seq(Row)
  PROVE  \A i \in DOMAIN table :
           /\ table[i] \in Row /\ table[i].param \in Nat
           /\ table[i].offset \in Int /\ table[i].size \in Nat
<1>1. \A i \in DOMAIN table : table[i] \in Row
  OBVIOUS
<1> QED
  BY <1>1, RowTyped

(* What the offsets of the function being visited have reached.            *)
Offsets ==
  /\ frame_offset <= 0 /\ frame_offset % 8 = 0
  /\ at = "params" =>
       /\ counter_params <= KTL_PARAM_REGS_COUNT =>
            frame_offset = 0 - 8 * counter_params /\ offset_param = 16
       /\ counter_params >= KTL_PARAM_REGS_COUNT =>
            offset_param = 16 + 8 * (counter_params - KTL_PARAM_REGS_COUNT)
       /\ \A i \in DOMAIN table :
            table[i].fn = current /\ ~InRegister(table[i]) =>
              table[i].offset + table[i].size <= offset_param

LEMMA MoreRoom ==
  ASSUME NEW row \in Row, NEW n \in Int, NEW m \in Int, n <= m, Inside(row, n)
  PROVE  Inside(row, m)
BY RowTyped DEF Inside, InRegister

IInv == /\ TypeInv /\ Offsets /\ SlotsDisjoint /\ SlotsInFrame
        /\ FramesAligned /\ ParametersInPlace

(* What the invariant says of the rows of the function being visited, and  *)
(* of the others.                                                          *)
LEMMA CurrentRows ==
  ASSUME IInv, current # None, NEW i \in DOMAIN table, OnStack(i)
  PROVE  /\ table[i].fn = current => Inside(table[i], 0 - frame_offset)
         /\ table[i].fn # current =>
              Inside(table[i], IF table[i].fn = main THEN main_frame_size
                               ELSE funcs[table[i].fn])
BY DEF IInv, SlotsInFrame, Reserved

LEMMA InitIInv == Init => IInv
BY FrameAssumption
   DEF Init, IInv, TypeInv, Offsets, SlotsDisjoint, SlotsInFrame,
       FramesAligned, ParametersInPlace

(* Globals are not on the stack: the facts about stack rows are untouched. *)
LEMMA GlobalVarStep ==
  ASSUME IInv, NEW o \in Entries, GlobalVar(o)
  PROVE  IInv'
<1>1. Static(o) \in Row
  BY DEF Static, Row
<1>2. /\ table' \in Seq(Row)
      /\ DOMAIN table' = DOMAIN table \cup {Len(table) + 1}
      /\ table'[Len(table) + 1] = Static(o)
      /\ \A i \in DOMAIN table : table'[i] = table[i] /\ table[i] \in Row
  BY <1>1, AddedRow DEF GlobalVar, IInv, TypeInv, Static
<1>3. TypeInv'
  BY <1>2 DEF GlobalVar, IInv, TypeInv, Static
<1>4. Offsets'
  BY <1>2 DEF GlobalVar, IInv, Offsets, TypeInv, InRegister
<1>5. SlotsDisjoint' /\ SlotsInFrame'
  BY <1>2 DEF GlobalVar, IInv, SlotsDisjoint, SlotsInFrame, OnStack, Static,
              InRegister, Reserved
<1>6. FramesAligned' /\ ParametersInPlace'
  BY <1>2 DEF GlobalVar, IInv, FramesAligned, ParametersInPlace, Static,
              InRegister
<1> QED
  BY <1>3, <1>4, <1>5, <1>6 DEF IInv

(* Steps that add no row.                                                  *)
LEMMA GlobalFuncStep ==
  ASSUME IInv, NEW f \in Functions, GlobalFunc(f)
  PROVE  IInv'
<1>1. TypeInv'
  BY FrameAssumption DEF GlobalFunc, IInv, TypeInv
<1>2. Offsets'
  BY FrameAssumption
     DEF GlobalFunc, IInv, Offsets, TypeInv, InRegister, KTL_SYSTEM_PTR_SIZE
<1>3. SlotsDisjoint' /\ ParametersInPlace'
  BY DEF GlobalFunc, IInv, SlotsDisjoint, ParametersInPlace, OnStack,
         InRegister
<1>4. SlotsInFrame'
  BY FrameAssumption
     DEF GlobalFunc, IInv, TypeInv, SlotsInFrame, OnStack, InRegister, Reserved
<1>5. FramesAligned'
  BY DEF GlobalFunc, IInv, TypeInv, FramesAligned
<1> QED
  BY <1>1, <1>2, <1>3, <1>4, <1>5 DEF IInv

LEMMA EndGlobalsStep ==
  ASSUME IInv, EndGlobals
  PROVE  IInv'
<1>1. TypeInv'
  BY FrameAssumption DEF EndGlobals, IInv, TypeInv
<1>2. Offsets'
  BY FrameAssumption
     DEF EndGlobals, IInv, Offsets, TypeInv, InRegister, KTL_SYSTEM_PTR_SIZE
<1>3. SlotsDisjoint' /\ ParametersInPlace'
  BY DEF EndGlobals, IInv, SlotsDisjoint, ParametersInPlace, OnStack,
         InRegister
<1>4. SlotsInFrame'
  BY FrameAssumption
     DEF EndGlobals, IInv, TypeInv, SlotsInFrame, OnStack, InRegister, Reserved
<1>5. FramesAligned'
  BY DEF EndGlobals, IInv, TypeInv, FramesAligned
<1> QED
  BY <1>1, <1>2, <1>3, <1>4, <1>5 DEF IInv

LEMMA StartFuncStep ==
  ASSUME IInv, NEW f \in Functions, StartFunc(f)
  PROVE  IInv'
<1>1. TypeInv'
  BY FrameAssumption DEF StartFunc, IInv, TypeInv, KTL_SYSTEM_PTR_SIZE
<1>2. Offsets'
  <2>1. \A i \in DOMAIN table : table[i].fn # f
    BY FrameAssumption DEF StartFunc, IInv, TypeInv
  <2>2. table' = table /\ current' = f /\ counter_params' = 0
        /\ frame_offset' = 0 /\ offset_param' = 16
    BY DEF StartFunc, KTL_SYSTEM_PTR_SIZE
  <2>3. frame_offset' <= 0 /\ frame_offset' % 8 = 0
    BY <2>2
  <2>4. counter_params' >= KTL_PARAM_REGS_COUNT =>
          offset_param' = 16 + 8 * (counter_params' - KTL_PARAM_REGS_COUNT)
    BY <2>2, FrameAssumption
  <2>5. frame_offset' = 0 - 8 * counter_params'
    BY <2>2
  <2> QED
    BY <2>1, <2>2, <2>3, <2>4, <2>5 DEF Offsets, InRegister
<1>3. SlotsDisjoint' /\ ParametersInPlace'
  BY DEF StartFunc, IInv, SlotsDisjoint, ParametersInPlace, OnStack,
         InRegister
<1>4. SlotsInFrame'
  BY FrameAssumption
     DEF StartFunc, IInv, TypeInv, SlotsInFrame, OnStack, InRegister, Reserved
<1>5. FramesAligned'
  BY DEF StartFunc, IInv, TypeInv, FramesAligned
<1> QED
  BY <1>1, <1>2, <1>3, <1>4, <1>5 DEF IInv

LEMMA StartMainStep ==
  ASSUME IInv, StartMain
  PROVE  IInv'
<1>1. TypeInv'
  BY FrameAssumption DEF StartMain, IInv, TypeInv, KTL_SYSTEM_PTR_SIZE
<1>2. Offsets'
  BY FrameAssumption
     DEF StartMain, IInv, Offsets, TypeInv, InRegister, KTL_SYSTEM_PTR_SIZE
<1>3. SlotsDisjoint' /\ ParametersInPlace'
  BY DEF StartMain, IInv, SlotsDisjoint, ParametersInPlace, OnStack,
         InRegister
<1>4. SlotsInFrame'
  BY FrameAssumption
     DEF StartMain, IInv, TypeInv, SlotsInFrame, OnStack, InRegister, Reserved
<1>5. FramesAligned'
  BY DEF StartMain, IInv, TypeInv, FramesAligned
<1> QED
  BY <1>1, <1>2, <1>3, <1>4, <1>5 DEF IInv

LEMMA EndParamsStep ==
  ASSUME IInv, EndParams
  PROVE  IInv'
<1>1. TypeInv'
  BY FrameAssumption DEF EndParams, IInv, TypeInv
<1>2. Offsets'
  BY FrameAssumption
     DEF EndParams, IInv, Offsets, TypeInv, InRegister, KTL_SYSTEM_PTR_SIZE
<1>3. SlotsDisjoint' /\ ParametersInPlace'
  BY DEF EndParams, IInv, SlotsDisjoint, ParametersInPlace, OnStack,
         InRegister
<1>4. SlotsInFrame'
  BY FrameAssumption
     DEF EndParams, IInv, TypeInv, SlotsInFrame, OnStack, InRegister, Reserved
<1>5. FramesAligned'
  BY DEF EndParams, IInv, TypeInv, FramesAligned
<1> QED
  BY <1>1, <1>2, <1>3, <1>4, <1>5 DEF IInv

(* Steps that add a row: it lies next to everything the function has, on   *)
(* one side or the other of rbp.                                           *)
LEMMA RegisterParamStep ==
  ASSUME IInv, NEW o \in Entries, RegisterParam(o)
  PROVE  IInv'
<1> DEFINE r == Stack(o, counter_params + 1, frame_offset', KTL_SYSTEM_PTR_SIZE)
<1>e. /\ at = "params" /\ counter_params < KTL_PARAM_REGS_COUNT
      /\ frame_offset' = frame_offset - 8 /\ frame_offset' \in Int
      /\ counter_params' = counter_params + 1 /\ counter_params' \in Nat
      /\ UNCHANGED <<funcs, offset_param, main_frame_size, todo, current, at>>
  BY DEF RegisterParam, IInv, TypeInv, KTL_SYSTEM_PTR_SIZE
<1>o. /\ frame_offset \in Int /\ frame_offset <= 0 /\ frame_offset % 8 = 0
      /\ frame_offset = 0 - 8 * counter_params /\ offset_param = 16
      /\ counter_params \in Nat /\ offset_param \in Nat
      /\ \A i \in DOMAIN table :
           table[i].fn = current /\ ~InRegister(table[i]) =>
             table[i].offset + table[i].size <= offset_param
  BY <1>e, FrameAssumption DEF IInv, TypeInv, Offsets
<1>t. \A i \in DOMAIN table :
        /\ table[i] \in Row /\ table[i].param \in Nat
        /\ table[i].offset \in Int /\ table[i].size \in Nat
  BY RowTypes DEF IInv, TypeInv
<1>1. /\ r \in Row /\ r.origin = o /\ r.storage = "stack"
      /\ r.fn = current /\ current # None
      /\ r.param = counter_params + 1 /\ r.param <= KTL_PARAM_REGS_COUNT
      /\ r.offset = frame_offset - 8 /\ r.size = 8
      /\ r.offset = 0 - 8 * r.param /\ r.offset % 8 = 0
  BY FrameAssumption
     DEF RegisterParam, IInv, TypeInv, Offsets, Stack, Row, KTL_SYSTEM_PTR_SIZE
<1>2. /\ table' \in Seq(Row)
      /\ DOMAIN table' = DOMAIN table \cup {Len(table) + 1}
      /\ Len(table) + 1 \notin DOMAIN table
      /\ table'[Len(table) + 1] = r
      /\ \A i \in DOMAIN table : table'[i] = table[i] /\ table[i] \in Row
  BY <1>1, AddedRow DEF RegisterParam, IInv, TypeInv
<1> HIDE DEF r
<1>3. TypeInv'
  <2>1. \A i \in DOMAIN table' :
          \/ table'[i].storage = "static" /\ table'[i].fn = None
          \/ /\ table'[i].storage = "stack" /\ at # "globals"
             /\ table'[i].fn \in (DOMAIN funcs \cup {main}) \ todo
    BY <1>1, <1>2, <1>e, FrameAssumption DEF IInv, TypeInv
  <2> QED
    BY <1>2, <1>e, <2>1, FrameAssumption DEF IInv, TypeInv
<1>4. Offsets'
  <2>1. /\ frame_offset' <= 0 /\ frame_offset' % 8 = 0
        /\ counter_params' <= KTL_PARAM_REGS_COUNT =>
             frame_offset' = 0 - 8 * counter_params' /\ offset_param' = 16
        /\ counter_params' >= KTL_PARAM_REGS_COUNT =>
             offset_param' =
               16 + 8 * (counter_params' - KTL_PARAM_REGS_COUNT)
    BY <1>e, <1>o, FrameAssumption
  <2>2. ASSUME NEW i \in DOMAIN table', table'[i].fn = current,
               ~InRegister(table'[i])
        PROVE  table'[i].offset + table'[i].size <= offset_param'
    BY <1>1, <1>2, <1>e, <1>o, <1>t, <2>2, FrameAssumption DEF InRegister
  <2> QED
    BY <2>1, <2>2, <1>e DEF Offsets, InRegister
<1>5. SlotsInFrame'
  <2> SUFFICES ASSUME NEW i \in DOMAIN table', OnStack(i)'
               PROVE  Inside(table[i], Reserved(table[i].fn))'
    BY DEF SlotsInFrame
  <2>1. CASE i = Len(table) + 1
    <3>1. Inside(r, 0 - frame_offset')
      BY <1>1, <1>e, <1>o, FrameAssumption
         DEF Inside, InRegister
    <3> QED
      BY <2>1, <3>1, <1>1, <1>2, <1>e DEF Reserved
  <2>2. CASE i \in DOMAIN table
    <3>1. OnStack(i) /\ table'[i] = table[i] /\ table[i] \in Row
      BY <2>2, <1>2 DEF OnStack
    <3>2. CASE table[i].fn = current
      <4>1. Inside(table[i], 0 - frame_offset)
        BY <2>2, <3>1, <3>2, <1>1, CurrentRows
      <4>2. 0 - frame_offset <= 0 - frame_offset' /\ frame_offset \in Int
        BY <1>e, SMT DEF IInv, TypeInv
      <4>3. Inside(table[i], 0 - frame_offset')
        BY <3>1, <4>1, <4>2, <1>e, MoreRoom, SMTT(30) DEF IInv, TypeInv
      <4> QED
        BY <3>1, <3>2, <4>3, <1>e DEF Reserved
    <3>3. CASE table[i].fn # current
      BY <2>2, <3>1, <3>3, <1>1, <1>e, CurrentRows DEF Reserved
    <3> QED
      BY <3>2, <3>3
  <2> QED
    BY <2>1, <2>2, <1>2
<1>6. \A i \in DOMAIN table :
        OnStack(i) /\ table[i].fn = current =>
          \/ table[i].offset + table[i].size <= r.offset
          \/ r.offset + r.size <= table[i].offset
  <2> SUFFICES ASSUME NEW i \in DOMAIN table, OnStack(i), table[i].fn = current
               PROVE  \/ table[i].offset + table[i].size <= r.offset
                      \/ r.offset + r.size <= table[i].offset
    OBVIOUS
  <2>1. Inside(table[i], 0 - frame_offset)
    BY <1>1, CurrentRows
  <2> QED
    BY <1>1, <1>e, <1>o, <1>t, <2>1, FrameAssumption
       DEF Inside, InRegister
<1>7. SlotsDisjoint'
  BY <1>1, <1>2, <1>6 DEF IInv, SlotsDisjoint, OnStack
<1>8. FramesAligned'
  BY <1>1, <1>2 DEF RegisterParam, IInv, FramesAligned
<1>9. ParametersInPlace'
  BY <1>1, <1>2, FrameAssumption
     DEF RegisterParam, IInv, ParametersInPlace, InRegister
<1> QED
  BY <1>3, <1>4, <1>5, <1>7, <1>8, <1>9 DEF IInv

LEMMA StackParamStep ==
  ASSUME IInv, NEW o \in Entries, StackParam(o)
  PROVE  IInv'
<1> DEFINE r == Stack(o, counter_params + 1, offset_param, KTL_SYSTEM_PTR_SIZE)
<1>e. /\ at = "params" /\ counter_params >= KTL_PARAM_REGS_COUNT
      /\ offset_param' = offset_param + 8 /\ offset_param' \in Nat
      /\ counter_params' = counter_params + 1 /\ counter_params' \in Nat
      /\ UNCHANGED <<funcs, frame_offset, main_frame_size, todo, current, at>>
  BY DEF StackParam, IInv, TypeInv, KTL_SYSTEM_PTR_SIZE
<1>o. /\ frame_offset \in Int /\ frame_offset <= 0 /\ frame_offset % 8 = 0
      /\ offset_param = 16 + 8 * (counter_params - KTL_PARAM_REGS_COUNT)
      /\ counter_params \in Nat /\ offset_param \in Nat
      /\ offset_param >= 16
      /\ \A i \in DOMAIN table :
           table[i].fn = current /\ ~InRegister(table[i]) =>
             table[i].offset + table[i].size <= offset_param
  BY <1>e, FrameAssumption DEF IInv, TypeInv, Offsets
<1>t. \A i \in DOMAIN table :
        /\ table[i] \in Row /\ table[i].param \in Nat
        /\ table[i].offset \in Int /\ table[i].size \in Nat
  BY RowTypes DEF IInv, TypeInv
<1>1. /\ r \in Row /\ r.origin = o /\ r.storage = "stack"
      /\ r.fn = current /\ current # None
      /\ r.param = counter_params + 1 /\ r.param > KTL_PARAM_REGS_COUNT
      /\ r.offset = offset_param /\ r.size = 8
      /\ r.offset = 16 + 8 * (r.param - KTL_PARAM_REGS_COUNT - 1)
      /\ r.offset % 8 = 0
  BY FrameAssumption
     DEF StackParam, IInv, TypeInv, Offsets, Stack, Row, KTL_SYSTEM_PTR_SIZE
<1>2. /\ table' \in Seq(Row)
      /\ DOMAIN table' = DOMAIN table \cup {Len(table) + 1}
      /\ Len(table) + 1 \notin DOMAIN table
      /\ table'[Len(table) + 1] = r
      /\ \A i \in DOMAIN table : table'[i] = table[i] /\ table[i] \in Row
  BY <1>1, AddedRow DEF StackParam, IInv, TypeInv
<1> HIDE DEF r
<1>3. TypeInv'
  <2>1. \A i \in DOMAIN table' :
          \/ table'[i].storage = "static" /\ table'[i].fn = None
          \/ /\ table'[i].storage = "stack" /\ at # "globals"
             /\ table'[i].fn \in (DOMAIN funcs \cup {main}) \ todo
    BY <1>1, <1>2, <1>e, FrameAssumption DEF IInv, TypeInv
  <2> QED
    BY <1>2, <1>e, <2>1, FrameAssumption DEF IInv, TypeInv
<1>4. Offsets'
  <2>1. /\ frame_offset' <= 0 /\ frame_offset' % 8 = 0
        /\ counter_params' <= KTL_PARAM_REGS_COUNT =>
             frame_offset' = 0 - 8 * counter_params' /\ offset_param' = 16
        /\ counter_params' >= KTL_PARAM_REGS_COUNT =>
             offset_param' =
               16 + 8 * (counter_params' - KTL_PARAM_REGS_COUNT)
    BY <1>e, <1>o, FrameAssumption
  <2>2. ASSUME NEW i \in DOMAIN table', table'[i].fn = current,
               ~InRegister(table'[i])
        PROVE  table'[i].offset + table'[i].size <= offset_param'
    BY <1>1, <1>2, <1>e, <1>o, <1>t, <2>2, FrameAssumption DEF InRegister
  <2> QED
    BY <2>1, <2>2, <1>e DEF Offsets, InRegister
<1>5. SlotsInFrame'
  <2> SUFFICES ASSUME NEW i \in DOMAIN table', OnStack(i)'
               PROVE  Inside(table[i], Reserved(table[i].fn))'
    BY DEF SlotsInFrame
  <2>1. CASE i = Len(table) + 1
    <3>1. Inside(r, 0 - frame_offset')
      BY <1>1, <1>e, <1>o, FrameAssumption
         DEF Inside, InRegister
    <3> QED
      BY <2>1, <3>1, <1>1, <1>2, <1>e DEF Reserved
  <2>2. CASE i \in DOMAIN table
    <3>1. OnStack(i) /\ table'[i] = table[i] /\ table[i] \in Row
      BY <2>2, <1>2 DEF OnStack
    <3>2. CASE table[i].fn = current
      <4>1. Inside(table[i], 0 - frame_offset)
        BY <2>2, <3>1, <3>2, <1>1, CurrentRows
      <4>2. 0 - frame_offset <= 0 - frame_offset' /\ frame_offset \in Int
        BY <1>e, SMT DEF IInv, TypeInv
      <4>3. Inside(table[i], 0 - frame_offset')
        BY <3>1, <4>1, <4>2, <1>e, MoreRoom DEF IInv, TypeInv
      <4> QED
        BY <3>1, <3>2, <4>3, <1>e DEF Reserved
    <3>3. CASE table[i].fn # current
      BY <2>2, <3>1, <3>3, <1>1, <1>e, CurrentRows DEF Reserved
    <3> QED
      BY <3>2, <3>3
  <2> QED
    BY <2>1, <2>2, <1>2
<1>6. \A i \in DOMAIN table :
        OnStack(i) /\ table[i].fn = current =>
          \/ table[i].offset + table[i].size <= r.offset
          \/ r.offset + r.size <= table[i].offset
  <2> SUFFICES ASSUME NEW i \in DOMAIN table, OnStack(i), table[i].fn = current
               PROVE  \/ table[i].offset + table[i].size <= r.offset
                      \/ r.offset + r.size <= table[i].offset
    OBVIOUS
  <2>1. Inside(table[i], 0 - frame_offset)
    BY <1>1, CurrentRows
  <2> QED
    BY <1>1, <1>e, <1>o, <1>t, <2>1, FrameAssumption
       DEF Inside, InRegister
<1>7. SlotsDisjoint'
  BY <1>1, <1>2, <1>6 DEF IInv, SlotsDisjoint, OnStack
<1>8. FramesAligned'
  BY <1>1, <1>2 DEF StackParam, IInv, FramesAligned
<1>9. ParametersInPlace'
  <2>1. ASSUME NEW i \in DOMAIN table', table'[i].param # 0
        PROVE  table'[i].offset =
                 IF InRegister(table'[i]) THEN 0 - 8 * table'[i].param
                 ELSE 16 + 8 * (table'[i].param - KTL_PARAM_REGS_COUNT - 1)
    <3>1. CASE i = Len(table) + 1
      <4>1. table'[i] = r
        BY <1>2, <3>1
      <4>2. ~InRegister(r)
        <5>1. /\ r.param = counter_params + 1 /\ counter_params \in Nat
              /\ r.param > KTL_PARAM_REGS_COUNT /\ KTL_PARAM_REGS_COUNT \in Nat
          BY <1>1, <1>o, FrameAssumption, Zenon
        <5> QED
          BY <5>1 DEF InRegister
      <4> QED
        BY <1>1, <4>1, <4>2, Zenon
    <3>2. CASE i \in DOMAIN table
      <4>1. table'[i] = table[i] /\ table[i].param # 0
        BY <1>2, <2>1, <3>2
      <4> QED
        BY <3>2, <4>1, Zenon DEF IInv, ParametersInPlace
    <3> QED
      BY <1>2, <3>1, <3>2
  <2> QED
    BY <2>1, Zenon DEF ParametersInPlace, InRegister
<1> QED
  BY <1>3, <1>4, <1>5, <1>7, <1>8, <1>9 DEF IInv

LEMMA LocalVarStep ==
  ASSUME IInv, NEW o \in Entries, NEW kind, NEW size \in Nat,
         kind = "scalar" => size <= 8, LocalVar(o, kind, size)
  PROVE  IInv'
<1> DEFINE r == Stack(o, 0, frame_offset', size)
<1>a. /\ Room(kind, size) \in Nat /\ Room(kind, size) >= size
      /\ Room(kind, size) % 8 = 0
  BY AlignUpWord DEF Room, KTL_SYSTEM_PTR_SIZE
<1>e. /\ at = "body"
      /\ frame_offset' = frame_offset - Room(kind, size)
      /\ frame_offset' \in Int
      /\ UNCHANGED <<funcs, offset_param, counter_params, main_frame_size,
                     todo, current, at>>
  BY <1>a DEF LocalVar, IInv, TypeInv
<1>o. frame_offset \in Int /\ frame_offset <= 0 /\ frame_offset % 8 = 0
  BY DEF IInv, TypeInv, Offsets
<1>t. \A i \in DOMAIN table :
        /\ table[i] \in Row /\ table[i].param \in Nat
        /\ table[i].offset \in Int /\ table[i].size \in Nat
  BY RowTypes DEF IInv, TypeInv
<1>m. /\ frame_offset' <= 0 /\ frame_offset' % 8 = 0
      /\ frame_offset' + size <= frame_offset
  BY <1>a, <1>e, <1>o, Multiples
<1>1. /\ r \in Row /\ r.origin = o /\ r.storage = "stack"
      /\ r.fn = current /\ current # None
      /\ r.param = 0 /\ r.size = size /\ r.offset = frame_offset'
      /\ r.offset + r.size <= frame_offset /\ r.offset % 8 = 0
  BY <1>e, <1>m, FrameAssumption DEF IInv, TypeInv, Stack, Row
<1>2. /\ table' \in Seq(Row)
      /\ DOMAIN table' = DOMAIN table \cup {Len(table) + 1}
      /\ Len(table) + 1 \notin DOMAIN table
      /\ table'[Len(table) + 1] = r
      /\ \A i \in DOMAIN table : table'[i] = table[i] /\ table[i] \in Row
  BY <1>1, AddedRow DEF LocalVar, IInv, TypeInv
<1> HIDE DEF r
<1>3. TypeInv'
  <2>1. \A i \in DOMAIN table' :
          \/ table'[i].storage = "static" /\ table'[i].fn = None
          \/ /\ table'[i].storage = "stack" /\ at # "globals"
             /\ table'[i].fn \in (DOMAIN funcs \cup {main}) \ todo
    BY <1>1, <1>2, <1>e, FrameAssumption DEF IInv, TypeInv
  <2> QED
    BY <1>2, <1>e, <2>1, FrameAssumption DEF IInv, TypeInv
<1>4. Offsets'
  BY <1>a, <1>1, <1>2, <1>e, <1>t, FrameAssumption, SMTT(30)
     DEF IInv, Offsets, InRegister, TypeInv
<1>5. SlotsInFrame'
  <2> SUFFICES ASSUME NEW i \in DOMAIN table', OnStack(i)'
               PROVE  Inside(table[i], Reserved(table[i].fn))'
    BY DEF SlotsInFrame
  <2>1. CASE i = Len(table) + 1
    <3>1. Inside(r, 0 - frame_offset')
      BY <1>1, <1>e, <1>o, <1>a, FrameAssumption
         DEF Inside, InRegister
    <3> QED
      BY <2>1, <3>1, <1>1, <1>2, <1>e DEF Reserved
  <2>2. CASE i \in DOMAIN table
    <3>1. OnStack(i) /\ table'[i] = table[i] /\ table[i] \in Row
      BY <2>2, <1>2 DEF OnStack
    <3>2. CASE table[i].fn = current
      <4>1. Inside(table[i], 0 - frame_offset)
        BY <2>2, <3>1, <3>2, <1>1, CurrentRows
      <4>2. 0 - frame_offset <= 0 - frame_offset' /\ frame_offset \in Int
        BY <1>e, <1>a, SMT DEF IInv, TypeInv
      <4>3. Inside(table[i], 0 - frame_offset')
        BY <3>1, <4>1, <4>2, <1>e, MoreRoom DEF IInv, TypeInv
      <4> QED
        BY <3>1, <3>2, <4>3, <1>e DEF Reserved
    <3>3. CASE table[i].fn # current
      BY <2>2, <3>1, <3>3, <1>1, <1>e, CurrentRows DEF Reserved
    <3> QED
      BY <3>2, <3>3
  <2> QED
    BY <2>1, <2>2, <1>2
<1>6. \A i \in DOMAIN table :
        OnStack(i) /\ table[i].fn = current =>
          \/ table[i].offset + table[i].size <= r.offset
          \/ r.offset + r.size <= table[i].offset
  <2> SUFFICES ASSUME NEW i \in DOMAIN table, OnStack(i), table[i].fn = current
               PROVE  \/ table[i].offset + table[i].size <= r.offset
                      \/ r.offset + r.size <= table[i].offset
    OBVIOUS
  <2>1. Inside(table[i], 0 - frame_offset)
    BY <1>1, CurrentRows
  <2> QED
    BY <1>1, <1>e, <1>o, <1>t, <2>1, FrameAssumption
       DEF Inside, InRegister
<1>7. SlotsDisjoint'
  BY <1>1, <1>2, <1>6 DEF IInv, SlotsDisjoint, OnStack
<1>8. FramesAligned'
  BY <1>a, <1>1, <1>2 DEF LocalVar, IInv, FramesAligned
<1>9. ParametersInPlace'
  BY <1>1, <1>2, FrameAssumption
     DEF LocalVar, IInv, ParametersInPlace, InRegister
<1> QED
  BY <1>3, <1>4, <1>5, <1>7, <1>8, <1>9 DEF IInv

(* The end of a declaration: rounding up keeps what has been reserved.     *)
LEMMA EndFuncStep ==
  ASSUME IInv, EndFunc
  PROVE  IInv'
<1> DEFINE total == align_up(0 - frame_offset, 2 * KTL_SYSTEM_PTR_SIZE)
<1>n. current # None
  BY FrameAssumption DEF EndFunc, EndMain, IInv, TypeInv
<1>1. 0 - frame_offset \in Nat
  BY DEF IInv, TypeInv, Offsets
<1>2. total \in Nat /\ total >= 0 - frame_offset /\ total % 16 = 0
  BY <1>1, AlignUpFrame
<1>3. funcs' = [funcs EXCEPT ![current] = total] /\ table' = table
      /\ current \in DOMAIN funcs /\ current # main /\ current' = None
      /\ UNCHANGED <<frame_offset, main_frame_size, todo>>
  BY DEF EndFunc, IInv, TypeInv
<1> HIDE DEF total
<1>4. TypeInv'
  BY <1>2, <1>3, FrameAssumption DEF EndFunc, IInv, TypeInv
<1>5. Offsets'
  BY <1>3 DEF EndFunc, IInv, Offsets
<1>6. SlotsDisjoint' /\ ParametersInPlace'
  BY <1>3 DEF IInv, SlotsDisjoint, ParametersInPlace, OnStack, InRegister
<1>7. SlotsInFrame'
  <2> SUFFICES ASSUME NEW i \in DOMAIN table, OnStack(i)
               PROVE  Inside(table[i], Reserved(table[i].fn))'
    BY <1>3 DEF SlotsInFrame, OnStack
  <2>1. table[i] \in Row /\ table[i].fn # None
    BY FrameAssumption DEF IInv, TypeInv, OnStack
  <2>2. CASE table[i].fn = current
    <3>1. Inside(table[i], 0 - frame_offset)
      BY <1>n, <2>2, CurrentRows
    <3>2. Inside(table[i], total)
      BY <1>1, <1>2, <2>1, <3>1, MoreRoom
    <3> QED
      BY <1>3, <2>1, <2>2, <3>2 DEF Reserved
  <2>3. CASE table[i].fn # current
    BY <1>n, <1>3, <2>1, <2>3, CurrentRows DEF Reserved
  <2> QED
    BY <2>2, <2>3
<1>8. FramesAligned'
  BY <1>2, <1>3 DEF IInv, TypeInv, FramesAligned
<1> QED
  BY <1>4, <1>5, <1>6, <1>7, <1>8 DEF IInv

LEMMA EndMainStep ==
  ASSUME IInv, EndMain
  PROVE  IInv'
<1> DEFINE total == align_up(0 - frame_offset, 2 * KTL_SYSTEM_PTR_SIZE)
<1>n. current # None
  BY FrameAssumption DEF EndFunc, EndMain, IInv, TypeInv
<1>1. 0 - frame_offset \in Nat
  BY DEF IInv, TypeInv, Offsets
<1>2. total \in Nat /\ total >= 0 - frame_offset /\ total % 16 = 0
  BY <1>1, AlignUpFrame
<1>3. main_frame_size' = total + 8 /\ table' = table /\ current = main
      /\ current' = None /\ UNCHANGED <<frame_offset, funcs, todo>>
  BY DEF EndMain, KTL_SYSTEM_PTR_SIZE
<1> HIDE DEF total
<1>4. TypeInv'
  BY <1>2, <1>3, FrameAssumption DEF EndMain, IInv, TypeInv
<1>5. Offsets'
  BY <1>3 DEF EndMain, IInv, Offsets
<1>6. SlotsDisjoint' /\ ParametersInPlace'
  BY <1>3 DEF IInv, SlotsDisjoint, ParametersInPlace, OnStack, InRegister
<1>7. SlotsInFrame'
  <2> SUFFICES ASSUME NEW i \in DOMAIN table, OnStack(i)
               PROVE  Inside(table[i], Reserved(table[i].fn))'
    BY <1>3 DEF SlotsInFrame, OnStack
  <2>1. table[i] \in Row /\ table[i].fn # None
    BY FrameAssumption DEF IInv, TypeInv, OnStack
  <2>2. CASE table[i].fn = current
    <3>1. Inside(table[i], 0 - frame_offset)
      BY <1>n, <2>2, CurrentRows
    <3>2. Inside(table[i], total + 8)
      BY <1>1, <1>2, <2>1, <3>1, MoreRoom
    <3> QED
      BY <1>3, <2>1, <2>2, <3>2 DEF Reserved
  <2>3. CASE table[i].fn # current
    BY <1>n, <1>3, <2>1, <2>3, CurrentRows DEF Reserved
  <2> QED
    BY <2>2, <2>3
<1>8. FramesAligned'
  BY <1>2, <1>3, Multiples DEF IInv, TypeInv, FramesAligned
<1> QED
  BY <1>4, <1>5, <1>6, <1>7, <1>8 DEF IInv

LEMMA NextIInv == IInv /\ [Next]_vars => IInv'
<1> SUFFICES ASSUME IInv, [Next]_vars PROVE IInv'
  OBVIOUS
<1>1. ASSUME NEW o \in Entries, NEW s \in ScalarSizes,
             LocalVar(o, "scalar", s)
      PROVE  IInv'
  BY <1>1, LocalVarStep, FrameAssumption
<1>2. ASSUME NEW o \in Entries, NEW s \in AggregateSizes,
             LocalVar(o, "aggregate", s)
      PROVE  IInv'
  BY <1>2, LocalVarStep, FrameAssumption
<1>3. CASE Next
  BY <1>1, <1>2, <1>3, GlobalVarStep, GlobalFuncStep, EndGlobalsStep,
     StartFuncStep, StartMainStep, EndParamsStep, RegisterParamStep,
     StackParamStep, EndFuncStep, EndMainStep DEF Next
<1>4. CASE UNCHANGED vars
  BY <1>4 DEF vars, IInv, TypeInv, Offsets, SlotsDisjoint, SlotsInFrame,
              FramesAligned, ParametersInPlace, OnStack, InRegister, Reserved
<1> QED
  BY <1>3, <1>4

(* The strengthened invariant of the layout holds of every program.        *)
THEOREM Layout == Spec => []IInv
BY InitIInv, NextIInv, PTL DEF Spec

(* The table keeps its shape, and only functions that were visited own     *)
(* slots.                                                                  *)
THEOREM FrameTypeCorrect == Spec => []TypeInv
<1>1. IInv => TypeInv
  BY DEF IInv
<1> QED
  BY <1>1, Layout, PTL

(* Two variables of a function never share memory.                         *)
THEOREM SlotsDisjointCorrect == Spec => []SlotsDisjoint
<1>1. IInv => SlotsDisjoint
  BY DEF IInv
<1> QED
  BY <1>1, Layout, PTL

(* Every slot lies in what the prologue reserves, or among the arguments   *)
(* the caller pushed.                                                      *)
THEOREM SlotsInFrameCorrect == Spec => []SlotsInFrame
<1>1. IInv => SlotsInFrame
  BY DEF IInv
<1> QED
  BY <1>1, Layout, PTL

(* Frames keep rsp a multiple of 16, slots are multiples of 8.             *)
THEOREM FramesAlignedCorrect == Spec => []FramesAligned
<1>1. IInv => FramesAligned
  BY DEF IInv
<1> QED
  BY <1>1, Layout, PTL

(* A parameter is found where the calling convention leaves it.            *)
THEOREM ParametersInPlaceCorrect == Spec => []ParametersInPlace
<1>1. IInv => ParametersInPlace
  BY DEF IInv
<1> QED
  BY <1>1, Layout, PTL

(* A set of numbers has a least.                                           *)
LEMMA LeastNat ==
  ASSUME NEW T \in SUBSET Nat, T # {}
  PROVE  \E x \in T : \A y \in T : x <= y
<1>1. IsWellFoundedOn(OpToRel(<, Nat), Nat)
  BY NatLessThanWellFounded
<1>2. PICK x \in T : \A y \in T : <<y, x>> \notin OpToRel(<, Nat)
  BY <1>1, WFMin
<1>3. \A y \in T : ~(y < x)
  BY <1>2, Zenon DEF OpToRel
<1> QED
  BY <1>3

(* Induction up to N: what holds of 0 and goes on from n - 1 to n.         *)
LEMMA UpTo ==
  ASSUME NEW N \in Nat, NEW T, 0 \in T, \A n \in 1 .. N : n - 1 \in T => n \in T
  PROVE  \A n \in 0 .. N : n \in T
<1> DEFINE B == {n \in 0 .. N : n \notin T}
<1>1. SUFFICES ASSUME B # {} PROVE FALSE
  OBVIOUS
<1>2. PICK n \in B : \A m \in B : n <= m
  <2>1. B \in SUBSET Nat /\ B # {}
    BY <1>1
  <2> HIDE DEF B
  <2> QED
    BY <2>1, LeastNat
<1>3. n \in 1 .. N /\ n - 1 \in 0 .. N /\ n - 1 \notin B
  BY <1>2
<1> QED
  BY <1>2, <1>3

(* The functions defined by recursion up to N: step_ is what one value     *)
(* becomes at n.  There is one.                                            *)
Recursive(N, S, base, step_) ==
  {g \in [0 .. N -> S] :
     \A n \in 0 .. N : g[n] = IF n = 0 THEN base ELSE step_[<<g[n - 1], n>>]}

(* A recursive function up to N exists when one value follows another.     *)
LEMMA Recursion ==
  ASSUME NEW N \in Nat, NEW S, NEW base \in S, NEW step_ \in [S \X (1 .. N) -> S]
  PROVE  Recursive(N, S, base, step_) # {}
<1> DEFINE T == {m \in 0 .. N : \E g \in [0 .. m -> S] :
                   \A n \in 0 .. m : g[n] = IF n = 0 THEN base ELSE step_[<<g[n - 1], n>>]}
<1>1. 0 \in T
  <2> DEFINE g == [n \in 0 .. 0 |-> base]
  <2>1. g \in [0 .. 0 -> S] /\ \A n \in 0 .. 0 : n = 0 /\ g[n] = base
    OBVIOUS
  <2> HIDE DEF g
  <2>2. \A n \in 0 .. 0 : g[n] = IF n = 0 THEN base ELSE step_[<<g[n - 1], n>>]
    BY <2>1
  <2> QED
    BY <2>1, <2>2
<1>2. ASSUME NEW m \in 1 .. N, m - 1 \in T PROVE m \in T
  <2>1. PICK g \in [0 .. m - 1 -> S] :
          \A n \in 0 .. m - 1 : g[n] = IF n = 0 THEN base ELSE step_[<<g[n - 1], n>>]
    BY <1>2
  <2> DEFINE h == [n \in 0 .. m |-> IF n = m THEN step_[<<g[m - 1], m>>] ELSE g[n]]
  <2>2. m - 1 \in 0 .. m - 1 /\ \A n \in 0 .. m : n # m => n \in 0 .. m - 1
    OBVIOUS
  <2>3. h \in [0 .. m -> S]
    BY <2>2
  <2>4. \A n \in 0 .. m : h[n] = IF n = 0 THEN base ELSE step_[<<h[n - 1], n>>]
    <3> TAKE n \in 0 .. m
    <3>1. CASE n = m
      BY <2>2, <3>1
    <3>2. CASE n # m
      <4>1. n \in 0 .. m - 1 /\ h[n] = g[n] /\ (n # 0 => h[n - 1] = g[n - 1])
        BY <2>2, <3>2
      <4> QED
        BY <2>1, <4>1
    <3> QED
      BY <3>1, <3>2
  <2> HIDE DEF h
  <2> QED
    BY <2>3, <2>4
<1>3. N \in T
  <2> HIDE DEF T
  <2> QED
    BY <1>1, <1>2, UpTo
<1> QED
  BY <1>3 DEF Recursive

(* The same where a value is given, on B, or comes from the value at a     *)
(* smaller number.                                                         *)
Descends(N, S, B, base, prev, step_) ==
  {g \in [1 .. N -> S] : \A n \in 1 .. N :
     g[n] = IF n \in B THEN base[n] ELSE step_[<<g[prev[n]], n>>]}

(* A function whose values come from smaller numbers is the one there is.  *)
LEMMA Descending ==
  ASSUME NEW N \in Nat, NEW S, NEW B, NEW base, \A n \in 1 .. N : n \in B => base[n] \in S,
         NEW prev, \A n \in 1 .. N : n \notin B => prev[n] \in 1 .. n - 1,
         NEW step_ \in [S \X (1 .. N) -> S]
  PROVE  Descends(N, S, B, base, prev, step_) # {}
<1> DEFINE T == {m \in 0 .. N : \E g \in [1 .. m -> S] : \A n \in 1 .. m :
                   g[n] = IF n \in B THEN base[n] ELSE step_[<<g[prev[n]], n>>]}
<1>1. 0 \in T
  <2> DEFINE g == [n \in 1 .. 0 |-> base]
  <2>1. g \in [1 .. 0 -> S]
    OBVIOUS
  <2> HIDE DEF g
  <2>2. \A n \in 1 .. 0 : g[n] = IF n \in B THEN base[n] ELSE step_[<<g[prev[n]], n>>]
    OBVIOUS
  <2>3. 0 \in 0 .. N
    OBVIOUS
  <2> QED
    BY <2>1, <2>2, <2>3, Zenon
<1>2. ASSUME NEW m \in 1 .. N, m - 1 \in T PROVE m \in T
  <2>1. PICK g \in [1 .. m - 1 -> S] : \A n \in 1 .. m - 1 :
          g[n] = IF n \in B THEN base[n] ELSE step_[<<g[prev[n]], n>>]
    BY <1>2
  <2> DEFINE h == [n \in 1 .. m |->
                     IF n = m THEN IF m \in B THEN base[m] ELSE step_[<<g[prev[m]], m>>]
                     ELSE g[n]]
  <2>2. \A n \in 1 .. m : n \in 1 .. N /\ (n # m => n \in 1 .. m - 1)
    OBVIOUS
  <2>3. (IF m \in B THEN base[m] ELSE step_[<<g[prev[m]], m>>]) \in S
    <3>1. CASE m \in B
      BY <3>1
    <3>2. CASE m \notin B
      <4>1. prev[m] \in 1 .. m - 1
        BY <3>2
      <4>2. g[prev[m]] \in S
        BY <4>1
      <4>3. <<g[prev[m]], m>> \in S \X (1 .. N)
        BY <4>2
      <4> QED
        BY <3>2, <4>3
    <3> QED
      BY <3>1, <3>2
  <2>4. h \in [1 .. m -> S]
    BY <2>2, <2>3
  <2>5. \A n \in 1 .. m : h[n] = IF n \in B THEN base[n] ELSE step_[<<h[prev[n]], n>>]
    <3> TAKE n \in 1 .. m
    <3>1. n \notin B => prev[n] \in 1 .. n - 1
      BY <2>2
    <3>2. n \notin B => h[prev[n]] = g[prev[n]]
      <4>1. n \notin B => prev[n] \in 1 .. m /\ prev[n] # m
        BY <3>1
      <4> QED
        BY <4>1
    <3>3. CASE n = m
      BY <3>2, <3>3
    <3>4. CASE n # m
      BY <2>1, <2>2, <3>2, <3>4
    <3> QED
      BY <3>3, <3>4
  <2> HIDE DEF h
  <2> QED
    BY <2>4, <2>5
<1>3. N \in T
  <2> HIDE DEF T
  <2>1. \A n \in 1 .. N : n - 1 \in T => n \in T
    BY <1>2, Zenon
  <2>2. \A n \in 0 .. N : n \in T
    BY <1>1, <2>1, UpTo, Zenon
  <2> QED
    BY <2>2
<1> QED
  BY <1>3 DEF Descends


-----------------------------------------------------------------------------
(***************************************************************************)
(* Numbers of several bytes                                                *)
(***************************************************************************)
(* The loop of emit_imm_lend: its value after k rounds.                    *)
Divided(s, v, n) ==
  s \in [0 .. n -> Int] /\ s[0] = v /\ \A k \in 1 .. n : s[k] = s[k - 1] \div 256

LEMMA ShiftedFacts ==
  ASSUME NEW v \in Int, NEW n \in Nat
  PROVE  Divided(Shifted(v, n), v, n)
<1> DEFINE F == [x \in Int \X (1 .. n) |-> x[1] \div 256]
           s == Shifted(v, n)
<1>1. F \in [Int \X (1 .. n) -> Int] /\ \A a \in Int, k \in 1 .. n : F[<<a, k>>] = a \div 256
  OBVIOUS
<1> HIDE DEF F
<1>2. PICK g \in [0 .. n -> Int] :
        \A k \in 0 .. n : g[k] = IF k = 0 THEN v ELSE F[<<g[k - 1], k>>]
  <2>1. Recursive(n, Int, v, F) # {}
    BY <1>1, Recursion
  <2> QED
    BY <2>1 DEF Recursive
<1>3. g = [k \in 0 .. n |-> IF k = 0 THEN v ELSE g[k - 1] \div 256]
  <2>1. \A k \in 0 .. n : k # 0 => k \in 1 .. n /\ g[k - 1] \in Int
    BY <1>2
  <2>2. \A k \in 0 .. n : k # 0 => F[<<g[k - 1], k>>] = g[k - 1] \div 256
    BY <1>1, <2>1
  <2>3. \A k \in 0 .. n : g[k] = IF k = 0 THEN v ELSE g[k - 1] \div 256
    BY <1>2, <2>2
  <2> QED
    BY <1>2, <2>3
<1>4. s = [k \in 0 .. n |-> IF k = 0 THEN v ELSE s[k - 1] \div 256]
  BY <1>3 DEF Shifted
<1> HIDE DEF s
<1>5. s[0] = v /\ \A k \in 1 .. n : s[k] = s[k - 1] \div 256
  BY <1>4
<1>6. \A k \in 0 .. n : s[k] \in Int
  <2> DEFINE T == {k \in 0 .. n : s[k] \in Int}
  <2>1. 0 \in T
    BY <1>5
  <2>2. \A k \in 1 .. n : k - 1 \in T => k \in T
    BY <1>5
  <2>3. \A k \in 0 .. n : k \in T
    <3> HIDE DEF T
    <3> QED
      BY <2>1, <2>2, UpTo
  <2> QED
    BY <2>3
<1>7. s \in [0 .. n -> Int]
  BY <1>4, <1>6
<1> QED
  BY <1>5, <1>7 DEF s, Divided

(* The bytes of a number.                                                  *)
BytesOf(e, v, n) ==
  /\ e \in Seq(Nat) /\ Len(e) = n
  /\ \A k \in 1 .. n : e[k] = Shifted(v, n)[k - 1] % 256

LEMMA ImmBytes ==
  ASSUME NEW v \in Int, NEW n \in Nat
  PROVE  BytesOf(emit_imm_lend(v, n), v, n)
<1> DEFINE b == [k \in 1 .. n |-> Shifted(v, n)[k - 1] % 256]
<1>1. \A k \in 1 .. n : Shifted(v, n)[k - 1] % 256 \in Nat
  <2> DEFINE s == Shifted(v, n)
  <2>1. s \in [0 .. n -> Int]
    BY ShiftedFacts DEF Divided
  <2> HIDE DEF s
  <2>2. ASSUME NEW k \in 1 .. n PROVE s[k - 1] % 256 \in Nat
    <3>1. s[k - 1] \in Int
      BY <2>1
    <3> QED
      BY <3>1
  <2> QED
    BY <2>2 DEF s
<1>2. b \in [1 .. n -> Nat]
  BY <1>1
<1>3. b \in Seq(Nat) /\ Len(b) = n
  <2> HIDE DEF b
  <2> QED
    BY <1>2
<1> QED
  BY <1>3 DEF emit_imm_lend, BytesOf

(* The bytes of a number stand at p.                                       *)
Stands(bs, p, v, n) == \A k \in 1 .. n : bs[p + k - 1] = emit_imm_lend(v, n)[k]

(* A number is read back whole from its n bytes if what is left of it in   *)
(* the last one is a signed byte.                                          *)
LEMMA NumberBack ==
  ASSUME NEW bs, NEW p \in Nat, NEW n \in Nat \ {0}, NEW v \in Int,
         fits_int8(Shifted(v, n)[n - 1]),
         Stands(bs, p, v, n)
  PROVE  SignedAt(bs, p, n) = v
<1>0. \A k \in 1 .. n : bs[p + k - 1] = emit_imm_lend(v, n)[k]
  BY DEF Stands
<1> DEFINE s == Shifted(v, n)
           top == LET last == bs[p + n - 1] IN IF last < 128 THEN last ELSE last - 256
           f == Gathered(bs, p, n)
<1>1. /\ s \in [0 .. n -> Int] /\ s[0] = v /\ \A k \in 1 .. n : s[k] = s[k - 1] \div 256
      /\ \A k \in 1 .. n : bs[p + k - 1] = s[k - 1] % 256
      /\ -128 <= s[n - 1] /\ s[n - 1] <= 127
  <2>0. n \in Nat
    OBVIOUS
  <2>1. s \in [0 .. n -> Int] /\ s[0] = v /\ \A k \in 1 .. n : s[k] = s[k - 1] \div 256
    <3>1. Divided(s, v, n)
      BY <2>0, ShiftedFacts
    <3> QED
      BY <3>1 DEF Divided
  <2>2. \A k \in 1 .. n : emit_imm_lend(v, n)[k] = s[k - 1] % 256
    <3>1. BytesOf(emit_imm_lend(v, n), v, n)
      BY <2>0, ImmBytes
    <3> QED
      BY <3>1 DEF BytesOf
  <2>3. -128 <= s[n - 1] /\ s[n - 1] <= 127
    BY DEF fits_int8
  <2> HIDE DEF s
  <2>4. \A k \in 1 .. n : bs[p + k - 1] = s[k - 1] % 256
    BY <1>0, <2>2
  <2> QED
    BY <2>1, <2>3, <2>4, Zenon
<1> HIDE DEF s
<1>2. top = s[n - 1]
  <2>1. bs[p + n - 1] = s[n - 1] % 256
    BY <1>1
  <2>2. s[n - 1] \in Int
    BY <1>1
  <2> DEFINE x == s[n - 1]
             y == bs[p + n - 1]
  <2>3. x \in Int /\ -128 <= x /\ x <= 127 /\ y = x % 256
    BY <1>1, <2>1, <2>2
  <2> HIDE DEF x, y
  <2>4. (IF y < 128 THEN y ELSE y - 256) = x
    BY <2>3
  <2> QED
    BY <2>4 DEF x, y
<1> DEFINE g == [k \in 1 .. n |-> s[n - k]]
<1>3. \A k \in 2 .. n : bs[p + n - k] + 256 * g[k - 1] = g[k]
  <2> TAKE k \in 2 .. n
  <2>1. n - k + 1 \in 1 .. n /\ p + (n - k + 1) - 1 = p + n - k /\ n - (k - 1) = n - k + 1
    OBVIOUS
  <2>2. bs[p + n - k] = s[n - k] % 256 /\ s[n - k + 1] = s[n - k] \div 256
    <3>1. bs[p + (n - k + 1) - 1] = s[(n - k + 1) - 1] % 256
      BY <1>1, <2>1
    <3>2. s[n - k + 1] = s[(n - k + 1) - 1] \div 256
      BY <1>1, <2>1
    <3>3. (n - k + 1) - 1 = n - k
      OBVIOUS
    <3> QED
      BY <2>1, <3>1, <3>2, <3>3
  <2>3. g[k - 1] = s[n - k + 1] /\ g[k] = s[n - k]
    BY <2>1
  <2>4. s[n - k] \in Int
    BY <1>1
  <2> HIDE DEF g
  <2> QED
    BY <2>2, <2>3, <2>4
<1>4. g = [k \in 1 .. n |-> IF k = 1 THEN top ELSE bs[p + n - k] + 256 * g[k - 1]]
  <2>1. g[1] = top
    BY <1>2
  <2>2. \A k \in 1 .. n : k # 1 => k \in 2 .. n
    OBVIOUS
  <2>3. \A k \in 1 .. n : g[k] = IF k = 1 THEN top ELSE bs[p + n - k] + 256 * g[k - 1]
    <3> HIDE DEF g, top
    <3> QED
      BY <1>3, <2>1, <2>2
  <2>4. g = [k \in 1 .. n |-> g[k]]
    OBVIOUS
  <2> HIDE DEF g, top
  <2> DEFINE e == [k \in 1 .. n |-> IF k = 1 THEN top ELSE bs[p + n - k] + 256 * g[k - 1]]
  <2>5. \A k \in 1 .. n : e[k] = g[k]
    BY <2>3
  <2>6. e = [k \in 1 .. n |-> e[k]]
    OBVIOUS
  <2> HIDE DEF e
  <2>7. g = e
    BY <2>4, <2>5, <2>6
  <2> QED
    BY <2>7 DEF e
<1>5. f = [k \in 1 .. n |-> IF k = 1 THEN top ELSE bs[p + n - k] + 256 * f[k - 1]]
  <2>1. \E e : e = [k \in 1 .. n |-> IF k = 1 THEN top ELSE bs[p + n - k] + 256 * e[k - 1]]
    <3> HIDE DEF g, top
    <3> QED
      BY <1>4, Zenon
  <2>2. f = CHOOSE e : e = [k \in 1 .. n |-> IF k = 1 THEN top ELSE bs[p + n - k] + 256 * e[k - 1]]
    BY Zenon DEF Gathered
  <2> HIDE DEF f, top
  <2> QED
    BY <2>1, <2>2, Zenon
<1>6. \A k \in 1 .. n : f[k] = g[k]
  <2> DEFINE T == {k \in 0 .. n : k # 0 => f[k] = g[k]}
  <2>1. 0 \in T
    OBVIOUS
  <2> HIDE DEF f, g, top
  <2>2. f[1] = top /\ g[1] = top
    BY <1>4, <1>5
  <2>3. ASSUME NEW k \in 1 .. n, k - 1 \in T PROVE k \in T
    <3>1. CASE k = 1
      BY <2>2, <3>1
    <3>2. CASE k # 1
      <4>1. f[k] = bs[p + n - k] + 256 * f[k - 1]
        BY <1>5, <3>2
      <4>2. g[k] = bs[p + n - k] + 256 * g[k - 1]
        BY <1>4, <3>2
      <4>3. f[k - 1] = g[k - 1]
        BY <2>3, <3>2
      <4> QED
        BY <4>1, <4>2, <4>3
    <3> QED
      BY <3>1, <3>2
  <2>4. \A k \in 0 .. n : k \in T
    <3> HIDE DEF T
    <3>1. \A k \in 1 .. n : k - 1 \in T => k \in T
      BY <2>3, Zenon
    <3> QED
      BY <2>1, <3>1, UpTo
  <2> QED
    BY <2>4
<1>7. f[n] = g[n] /\ g[n] = s[n - n] /\ n - n = 0
  BY <1>6
<1> QED
  BY <1>1, <1>7 DEF SignedAt

(* The numbers that fit one byte, four and eight.                          *)
Whole(v) == v \in Int /\ -MaxInt <= v /\ v <= MaxInt

(* What fits one signed byte is read back from it.                         *)
LEMMA OneByte ==
  ASSUME NEW bs, NEW p \in Nat, NEW v \in Int, fits_int8(v), bs[p] = emit_imm_lend(v, 1)[1]
  PROVE  SignedAt(bs, p, 1) = v
<1> DEFINE n == 1
<1>1. n \in Nat \ {0} /\ n \in Nat /\ n - 1 = 0
  OBVIOUS
<1>2. Stands(bs, p, v, n)
  BY DEF Stands
<1> HIDE DEF n
<1>3. Divided(Shifted(v, n), v, n)
  BY <1>1, ShiftedFacts
<1>4. Shifted(v, n)[n - 1] = v
  BY <1>1, <1>3, Zenon DEF Divided
<1>5. fits_int8(Shifted(v, n)[n - 1])
  BY <1>4
<1>6. SignedAt(bs, p, n) = v
  BY <1>1, <1>2, <1>5, NumberBack, Zenon
<1> QED
  BY <1>6 DEF n

(* What fits four signed bytes is read back from them.                     *)
LEMMA FourBytes ==
  ASSUME NEW bs, NEW p \in Nat, NEW v, Whole(v),
         \A k \in 1 .. 4 : bs[p + k - 1] = emit_imm_lend(v, 4)[k]
  PROVE  SignedAt(bs, p, 4) = v
<1> DEFINE s == Shifted(v, 4)
<1>1. v \in Int /\ -MaxInt <= v /\ v <= MaxInt
  BY DEF Whole
<1>2. Divided(s, v, 4)
  BY <1>1, ShiftedFacts
<1> HIDE DEF s
<1>3. s[1] = v \div 256 /\ s[2] = s[1] \div 256 /\ s[3] = s[2] \div 256
  BY <1>2 DEF Divided
<1>4. fits_int8(s[3])
  BY <1>1, <1>3, SMT DEF MaxInt, fits_int8
<1>5. 4 - 1 = 3 /\ 4 \in Nat \ {0}
  OBVIOUS
<1>6. fits_int8(Shifted(v, 4)[4 - 1])
  BY <1>4, <1>5 DEF s
<1> QED
  BY <1>1, <1>5, <1>6, NumberBack, Zenon DEF Stands

(* A number of eight bytes is read back from them.                         *)
LEMMA EightBytes ==
  ASSUME NEW bs, NEW p \in Nat, NEW v, Whole(v), 0 <= v,
         \A k \in 1 .. 8 : bs[p + k - 1] = emit_imm_lend(v, 8)[k]
  PROVE  SignedAt(bs, p, 8) = v
<1>1. v \in Int /\ -MaxInt <= v /\ v <= MaxInt
  BY DEF Whole
<1> DEFINE s == Shifted(v, 8)
<1>2. Divided(s, v, 8)
  BY <1>1, ShiftedFacts
<1> HIDE DEF s
<1>3. s[1] = v \div 256 /\ s[2] = s[1] \div 256 /\ s[3] = s[2] \div 256 /\ s[4] = s[3] \div 256
  BY <1>2 DEF Divided
<1>4. s[4] = 0
  BY <1>1, <1>3, SMT DEF MaxInt
<1>5. s[5] = s[4] \div 256 /\ s[6] = s[5] \div 256 /\ s[7] = s[6] \div 256
  BY <1>2 DEF Divided
<1>6. fits_int8(s[7])
  BY <1>4, <1>5 DEF fits_int8
<1>7. 8 - 1 = 7 /\ 8 \in Nat \ {0}
  OBVIOUS
<1>8. fits_int8(Shifted(v, 8)[8 - 1])
  BY <1>6, <1>7 DEF s
<1> QED
  BY <1>1, <1>7, <1>8, NumberBack, Zenon DEF Stands

-----------------------------------------------------------------------------
(***************************************************************************)
(* Instructions one after the other                                        *)
(***************************************************************************)
(* The bytes e stand at p.                                                 *)
Held(bs, p, e) == \A k \in 1 .. Len(e) : bs[p + k - 1] = e[k]

(* Wherever its bytes stand, the processor reads the instruction there and *)
(* goes on behind them.                                                    *)
Faithful(i) ==
  /\ encode_one_instr(i) \in Seq(Nat) /\ Len(encode_one_instr(i)) > 0
  /\ \A bs : \A p \in Nat \ {0} : Held(bs, p, encode_one_instr(i)) =>
       Read(bs, p) = [instr |-> i, next |-> p + Len(encode_one_instr(i))]

(* What the bytes of the first k instructions are.                         *)
LEMMA BytesFacts ==
  ASSUME NEW X, NEW s \in Seq(X), \A k \in 1 .. Len(s) : encode_one_instr(s[k]) \in Seq(Nat)
  PROVE  /\ Bytes(s) \in [0 .. Len(s) -> Seq(Nat)] /\ Bytes(s)[0] = <<>>
         /\ \A k \in 1 .. Len(s) : Bytes(s)[k] = Bytes(s)[k - 1] \o encode_one_instr(s[k])
<1> DEFINE N == Len(s)
           E(k) == encode_one_instr(s[k])
           F == [x \in Seq(Nat) \X (1 .. N) |-> x[1] \o E(x[2])]
           b == Bytes(s)
<1>1. /\ N \in Nat /\ <<>> \in Seq(Nat) /\ \A k \in 1 .. N : E(k) \in Seq(Nat)
  OBVIOUS
<1>2. \A a \in Seq(Nat), k \in 1 .. N : F[<<a, k>>] = a \o E(k) /\ a \o E(k) \in Seq(Nat)
  <2> HIDE DEF E, N
  <2>1. \A a \in Seq(Nat), k \in 1 .. N : a \o E(k) \in Seq(Nat)
    BY <1>1
  <2>2. ASSUME NEW a \in Seq(Nat), NEW k \in 1 .. N PROVE F[<<a, k>>] = a \o E(k)
    OBVIOUS
  <2> QED
    BY <2>1, <2>2
<1>3. F \in [Seq(Nat) \X (1 .. N) -> Seq(Nat)]
  <2> HIDE DEF E, N
  <2>1. \A x \in Seq(Nat) \X (1 .. N) : x[1] \in Seq(Nat) /\ E(x[2]) \in Seq(Nat)
    BY <1>1
  <2>2. \A x \in Seq(Nat) \X (1 .. N) : x[1] \o E(x[2]) \in Seq(Nat)
    BY <2>1
  <2> QED
    BY <2>2
<1> HIDE DEF F, N, E
<1>4. PICK g \in [0 .. N -> Seq(Nat)] :
        \A k \in 0 .. N : g[k] = IF k = 0 THEN <<>> ELSE F[<<g[k - 1], k>>]
  <2>1. Recursive(N, Seq(Nat), <<>>, F) # {}
    BY <1>1, <1>3, Recursion
  <2> QED
    BY <2>1 DEF Recursive
<1>5. \A k \in 0 .. N : g[k] = IF k = 0 THEN <<>> ELSE g[k - 1] \o E(k)
  <2> TAKE k \in 0 .. N
  <2>1. CASE k = 0
    BY <1>4, <2>1
  <2>2. CASE k # 0
    <3>1. k \in 1 .. N /\ k - 1 \in 0 .. N
      BY <2>2, <1>1
    <3>2. g[k - 1] \in Seq(Nat)
      BY <1>4, <3>1
    <3>3. g[k] = F[<<g[k - 1], k>>]
      BY <1>4, <2>2
    <3>4. F[<<g[k - 1], k>>] = g[k - 1] \o E(k)
      BY <1>2, <3>1, <3>2
    <3> QED
      BY <2>2, <3>3, <3>4
  <2> QED
    BY <2>1, <2>2
<1>6. g = [k \in 0 .. N |-> IF k = 0 THEN <<>> ELSE g[k - 1] \o E(k)]
  BY <1>4, <1>5
<1>7. b = [k \in 0 .. N |-> IF k = 0 THEN <<>> ELSE b[k - 1] \o E(k)]
  BY <1>6 DEF Bytes, N, E
<1> HIDE DEF b
<1>8. b[0] = <<>> /\ \A k \in 1 .. N : b[k] = b[k - 1] \o E(k)
  <2>1. 0 \in 0 .. N /\ \A k \in 1 .. N : k \in 0 .. N /\ k # 0
    BY <1>1
  <2>2. \A k \in 0 .. N : b[k] = IF k = 0 THEN <<>> ELSE b[k - 1] \o E(k)
    BY <1>7
  <2> QED
    BY <2>1, <2>2
<1>9. \A k \in 0 .. N : b[k] \in Seq(Nat)
  <2> DEFINE T == {k \in 0 .. N : b[k] \in Seq(Nat)}
  <2>1. 0 \in T
    <3>1. 0 \in 0 .. N /\ b[0] \in Seq(Nat)
      BY <1>1, <1>8
    <3> QED
      BY <3>1
  <2>2. ASSUME NEW k \in 1 .. N, k - 1 \in T PROVE k \in T
    <3>1. b[k - 1] \in Seq(Nat) /\ E(k) \in Seq(Nat) /\ k \in 0 .. N
      BY <1>1, <2>2
    <3>2. b[k] = b[k - 1] \o E(k)
      BY <1>8
    <3>3. b[k] \in Seq(Nat)
      BY <3>1, <3>2
    <3> QED
      BY <3>1, <3>3
  <2>3. \A k \in 0 .. N : k \in T
    <3> HIDE DEF T
    <3>1. \A k \in 1 .. N : k - 1 \in T => k \in T
      BY <2>2, Zenon
    <3> QED
      BY <1>1, <2>1, <3>1, UpTo
  <2> QED
    BY <2>3
<1>10. b \in [0 .. N -> Seq(Nat)]
  BY <1>7, <1>9
<1> QED
  BY <1>8, <1>10 DEF b, N, E

(* Every instruction stands in the bytes of all, behind those before it.   *)
LEMMA BytesStand ==
  ASSUME NEW X, NEW s \in Seq(X), \A k \in 1 .. Len(s) : encode_one_instr(s[k]) \in Seq(Nat)
  PROVE  \A k \in 1 .. Len(s) :
           /\ Len(Bytes(s)[k]) = Len(Bytes(s)[k - 1]) + Len(encode_one_instr(s[k]))
           /\ Len(Bytes(s)[k]) <= Len(encode(s))
           /\ Held(encode(s), Len(Bytes(s)[k - 1]) + 1, encode_one_instr(s[k]))
<1> DEFINE N == Len(s)
           E(k) == encode_one_instr(s[k])
           b == Bytes(s)
<1>1. /\ N \in Nat /\ b \in [0 .. N -> Seq(Nat)] /\ b[0] = <<>>
      /\ \A k \in 1 .. N : E(k) \in Seq(Nat)
  <2>1. Bytes(s) \in [0 .. N -> Seq(Nat)] /\ Bytes(s)[0] = <<>>
    BY BytesFacts
  <2> QED
    BY <2>1
<1>2. ASSUME NEW k \in 1 .. N PROVE b[k] = b[k - 1] \o E(k)
  BY BytesFacts
<1>0. encode(s) = b[N]
  BY DEF encode
<1> HIDE DEF N, E, b
<1>3. ASSUME NEW k \in 1 .. N
      PROVE  /\ b[k] \in Seq(Nat) /\ b[k - 1] \in Seq(Nat) /\ E(k) \in Seq(Nat)
             /\ Len(b[k]) = Len(b[k - 1]) + Len(E(k))
             /\ \A j \in 1 .. Len(b[k - 1]) : b[k][j] = b[k - 1][j]
             /\ \A j \in 1 .. Len(E(k)) : b[k][Len(b[k - 1]) + j] = E(k)[j]
  <2>1. k \in 0 .. N /\ k - 1 \in 0 .. N
    BY <1>1
  <2>2. b[k] \in Seq(Nat) /\ b[k - 1] \in Seq(Nat) /\ E(k) \in Seq(Nat)
    BY <1>1, <2>1
  <2>3. b[k] = b[k - 1] \o E(k)
    BY <1>2
  <2> QED
    BY <2>2, <2>3
<1>4. \A m \in 0 .. N : \A k \in 0 .. m :
        Len(b[k]) <= Len(b[m]) /\ \A j \in 1 .. Len(b[k]) : b[m][j] = b[k][j]
  <2> DEFINE T == {m \in 0 .. N : \A k \in 0 .. m :
                     Len(b[k]) <= Len(b[m]) /\ \A j \in 1 .. Len(b[k]) : b[m][j] = b[k][j]}
  <2>0. \A k \in 0 .. N : Len(b[k]) \in Nat
    BY <1>1
  <2>1. 0 \in T
    BY <1>1, <2>0
  <2>2. ASSUME NEW m \in 1 .. N, m - 1 \in T PROVE m \in T
    <3>1. ASSUME NEW k \in 0 .. m
          PROVE  Len(b[k]) <= Len(b[m]) /\ \A j \in 1 .. Len(b[k]) : b[m][j] = b[k][j]
      <4>1. CASE k = m
        BY <2>0, <4>1
      <4>2. CASE k # m
        <5>1. k \in 0 .. m - 1 /\ k \in 0 .. N /\ m - 1 \in 0 .. N
          BY <4>2, <1>1
        <5>2. Len(b[k]) <= Len(b[m - 1]) /\ \A j \in 1 .. Len(b[k]) : b[m - 1][j] = b[k][j]
          BY <2>2, <5>1
        <5>3. Len(b[m]) = Len(b[m - 1]) + Len(E(m)) /\ Len(E(m)) \in Nat
          BY <1>3
        <5>4. \A j \in 1 .. Len(b[m - 1]) : b[m][j] = b[m - 1][j]
          BY <1>3
        <5> QED
          BY <2>0, <5>1, <5>2, <5>3, <5>4
      <4> QED
        BY <4>1, <4>2
    <3> QED
      BY <3>1
  <2>3. \A m \in 0 .. N : m \in T
    <3> HIDE DEF T
    <3>1. \A m \in 1 .. N : m - 1 \in T => m \in T
      BY <2>2, Zenon
    <3> QED
      BY <1>1, <2>1, <3>1, UpTo
  <2> QED
    BY <2>3
<1>5. ASSUME NEW k \in 1 .. N
      PROVE  /\ Len(b[k]) = Len(b[k - 1]) + Len(E(k))
             /\ Len(b[k]) <= Len(b[N]) /\ Held(b[N], Len(b[k - 1]) + 1, E(k))
  <2>1. k \in 0 .. N /\ N \in 0 .. N
    BY <1>1
  <2>2. Len(b[k]) <= Len(b[N]) /\ \A j \in 1 .. Len(b[k]) : b[N][j] = b[k][j]
    BY <1>4, <2>1
  <2>3. ASSUME NEW j \in 1 .. Len(E(k)) PROVE b[N][Len(b[k - 1]) + 1 + j - 1] = E(k)[j]
    <3>1. Len(b[k - 1]) \in Nat /\ Len(E(k)) \in Nat /\ Len(b[k]) = Len(b[k - 1]) + Len(E(k))
      BY <1>3
    <3>2. Len(b[k - 1]) + j \in 1 .. Len(b[k]) /\ Len(b[k - 1]) + 1 + j - 1 = Len(b[k - 1]) + j
      BY <3>1
    <3>3. b[k][Len(b[k - 1]) + j] = E(k)[j]
      BY <1>3
    <3> QED
      BY <2>2, <3>2, <3>3
  <2>4. Held(b[N], Len(b[k - 1]) + 1, E(k))
    BY <2>3 DEF Held
  <2> QED
    BY <1>3, <2>2, <2>4
<1> QED
  BY <1>0, <1>5 DEF N, E, b

(* The instructions from each byte on.                                     *)
LEMMA ReadFromFacts ==
  ASSUME NEW bs \in Seq(Nat)
  PROVE  \A p \in 1 .. Len(bs) + 1 : ReadFrom(bs)[p] =
           IF p > Len(bs) THEN <<>>
           ELSE IF Read(bs, p).next \in p + 1 .. Len(bs) + 1
                THEN <<Read(bs, p).instr>> \o ReadFrom(bs)[Read(bs, p).next]
           ELSE <<Read(bs, p).instr>>
<1> DEFINE N == Len(bs) + 1
           next(p) == Read(bs, p).next
           instr(p) == Read(bs, p).instr
           S == Seq({instr(p) : p \in 1 .. N})
           B == {n \in 1 .. N : n = 1 \/ next(N + 1 - n) \notin (N + 1 - n) + 1 .. N}
           base == [n \in 1 .. N |-> IF n = 1 THEN <<>> ELSE <<instr(N + 1 - n)>>]
           prev == [n \in 1 .. N |-> N + 1 - next(N + 1 - n)]
           F == [x \in S \X (1 .. N) |-> <<instr(N + 1 - x[2])>> \o x[1]]
<1>1. N \in Nat /\ Len(bs) = N - 1
  OBVIOUS
<1> HIDE DEF N, next, instr
<1>2. \A n \in 1 .. N : N + 1 - n \in 1 .. N /\ N + 1 - (N + 1 - n) = n
  BY <1>1
<1>3. \A n \in 1 .. N : <<instr(N + 1 - n)>> \in S
  BY <1>2
<1>4. \A n \in 1 .. N : n \in B => base[n] \in S
  <2> HIDE DEF S
  <2>1. <<>> \in S
    BY DEF S
  <2> QED
    BY <1>3, <2>1
<1>5. \A n \in 1 .. N : n \notin B => prev[n] \in 1 .. n - 1
  BY <1>1, <1>2
<1>6. /\ F \in [S \X (1 .. N) -> S]
      /\ \A x \in S, n \in 1 .. N : F[<<x, n>>] = <<instr(N + 1 - n)>> \o x
  <2>1. \A x \in S, n \in 1 .. N : <<instr(N + 1 - n)>> \o x \in S
    BY <1>3
  <2> HIDE DEF S
  <2> QED
    BY <2>1
<1>7. PICK g \in [1 .. N -> S] :
        \A n \in 1 .. N : g[n] = IF n \in B THEN base[n] ELSE F[<<g[prev[n]], n>>]
  <2> HIDE DEF S, B, base, prev, F
  <2>1. Descends(N, S, B, base, prev, F) # {}
    BY <1>1, <1>4, <1>5, <1>6, Descending, Zenon
  <2> QED
    BY <2>1 DEF Descends
<1> DEFINE h == [p \in 1 .. N |-> g[N + 1 - p]]
           Equation(f, p) == f[p] = IF p > Len(bs) THEN <<>>
                                    ELSE IF next(p) \in p + 1 .. Len(bs) + 1
                                         THEN <<instr(p)>> \o f[next(p)]
                                    ELSE <<instr(p)>>
<1>8. ASSUME NEW p \in 1 .. N PROVE Equation(h, p)
  <2> DEFINE n == N + 1 - p
  <2>1. /\ n \in 1 .. N /\ N + 1 - n = p /\ h[p] = g[n] /\ (p > Len(bs) <=> n = 1)
        /\ Len(bs) + 1 = N
    BY <1>1
  <2> HIDE DEF n, h
  <2>2. CASE n \in B
    <3>1. g[n] = base[n]
      BY <1>7, <2>1, <2>2
    <3>2. base[n] = IF n = 1 THEN <<>> ELSE <<instr(p)>>
      BY <2>1
    <3>3. n = 1 \/ next(p) \notin p + 1 .. N
      BY <2>1, <2>2
    <3> HIDE DEF base
    <3> QED
      BY <2>1, <3>1, <3>2, <3>3
  <2>3. CASE n \notin B
    <3>1. n # 1 /\ next(p) \in p + 1 .. N
      BY <2>1, <2>3
    <3>2. prev[n] = N + 1 - next(p) /\ prev[n] \in 1 .. n - 1
      BY <1>5, <2>1, <2>3
    <3>3. next(p) \in 1 .. N /\ prev[n] \in 1 .. N
      BY <1>1, <2>1, <3>1, <3>2
    <3>4. h[next(p)] = g[prev[n]] /\ g[prev[n]] \in S
      BY <1>7, <3>2, <3>3 DEF h
    <3>5. g[n] = F[<<g[prev[n]], n>>]
      BY <1>7, <2>1, <2>3
    <3>6. g[n] = <<instr(p)>> \o g[prev[n]]
      <4> HIDE DEF F, prev, S
      <4> QED
        BY <1>6, <2>1, <3>4, <3>5
    <3> HIDE DEF F, prev, S, B
    <3> QED
      BY <2>1, <3>1, <3>4, <3>6
  <2> QED
    BY <2>2, <2>3
<1>9. h = [p \in 1 .. Len(bs) + 1 |->
             IF p > Len(bs) THEN <<>>
             ELSE IF next(p) \in p + 1 .. Len(bs) + 1 THEN <<instr(p)>> \o h[next(p)]
             ELSE <<instr(p)>>]
  <2>1. h = [p \in 1 .. N |-> h[p]] /\ N = Len(bs) + 1
    BY <1>1
  <2> HIDE DEF h
  <2> QED
    BY <1>8, <2>1
<1> DEFINE f == ReadFrom(bs)
<1>10. f = [p \in 1 .. Len(bs) + 1 |->
             IF p > Len(bs) THEN <<>>
             ELSE IF next(p) \in p + 1 .. Len(bs) + 1 THEN <<instr(p)>> \o f[next(p)]
             ELSE <<instr(p)>>]
  <2> HIDE DEF h
  <2> QED
    BY <1>9 DEF ReadFrom, next, instr
<1> HIDE DEF f
<1>11. \A p \in 1 .. Len(bs) + 1 : Equation(f, p)
  BY <1>10
<1> QED
  BY <1>11 DEF f, next, instr

(* What is encoded is read, if every single instruction is.                *)
LEMMA AllRead ==
  ASSUME NEW X, NEW s \in Seq(X), \A k \in 1 .. Len(s) : Faithful(s[k])
  PROVE  Runs(s)
<1> DEFINE N == Len(s)
           E(k) == encode_one_instr(s[k])
           L(k) == Len(Bytes(s)[k])
           bs == encode(s)
           f == ReadFrom(bs)
<1>1. \A k \in 1 .. N : E(k) \in Seq(Nat) /\ Len(E(k)) > 0
  BY DEF Faithful
<1>2. \A k \in 1 .. N : L(k) = L(k - 1) + Len(E(k)) /\ L(k) <= Len(bs) /\ Held(bs, L(k - 1) + 1, E(k))
  BY <1>1, BytesStand
<1>3. /\ N \in Nat /\ \A k \in 0 .. N : Bytes(s)[k] \in Seq(Nat)
      /\ L(0) = 0 /\ L(N) = Len(bs) /\ bs \in Seq(Nat)
  <2>1. Bytes(s) \in [0 .. N -> Seq(Nat)] /\ Bytes(s)[0] = <<>>
    BY <1>1, BytesFacts
  <2>2. N \in Nat /\ bs = Bytes(s)[N] /\ 0 \in 0 .. N /\ N \in 0 .. N
    BY DEF encode
  <2> QED
    BY <2>1, <2>2
<1>4. \A k \in 0 .. N : L(k) \in Nat
  BY <1>3
<1>5. \A p \in 1 .. Len(bs) + 1 : f[p] =
        IF p > Len(bs) THEN <<>>
        ELSE IF Read(bs, p).next \in p + 1 .. Len(bs) + 1
             THEN <<Read(bs, p).instr>> \o f[Read(bs, p).next]
        ELSE <<Read(bs, p).instr>>
  <2> HIDE DEF bs
  <2> QED
    BY <1>3, ReadFromFacts
<1>6. \A k \in 1 .. N : Read(bs, L(k - 1) + 1) = [instr |-> s[k], next |-> L(k - 1) + 1 + Len(E(k))]
  <2> TAKE k \in 1 .. N
  <2> HIDE DEF bs
  <2>1. Faithful(s[k]) /\ Held(bs, L(k - 1) + 1, E(k))
    BY <1>2
  <2>2. L(k - 1) + 1 \in Nat \ {0}
    BY <1>4
  <2> HIDE DEF L
  <2> QED
    BY <2>1, <2>2 DEF Faithful
<1> HIDE DEF bs, f, L
<1>7. ASSUME NEW k \in 1 .. N PROVE f[L(k - 1) + 1] = <<s[k]>> \o f[L(k) + 1]
  <2> DEFINE p == L(k - 1) + 1
  <2>1. k - 1 \in 0 .. N /\ L(k - 1) \in Nat /\ L(k) \in Nat /\ Len(E(k)) \in Nat
    BY <1>1, <1>3, <1>4
  <2>2. p \in 1 .. Len(bs) + 1 /\ p <= Len(bs) /\ L(k) + 1 \in p + 1 .. Len(bs) + 1 /\ Len(bs) \in Nat
    <3>1. Len(bs) \in Nat
      BY <1>3
    <3>2. L(k) = L(k - 1) + Len(E(k)) /\ L(k) <= Len(bs) /\ Len(E(k)) > 0
      BY <1>1, <1>2
    <3> HIDE DEF E
    <3> QED
      BY <2>1, <3>1, <3>2
  <2>3. Read(bs, p) = [instr |-> s[k], next |-> L(k) + 1]
    <3>1. L(k - 1) + 1 + Len(E(k)) = L(k) + 1
      BY <1>2, <2>1
    <3> QED
      BY <1>6, <3>1
  <2>4. Read(bs, p).instr = s[k] /\ Read(bs, p).next = L(k) + 1
    BY <2>3
  <2> HIDE DEF p
  <2>5. ~(p > Len(bs))
    BY <2>2
  <2>6. f[p] = <<s[k]>> \o f[L(k) + 1]
    BY <1>5, <2>2, <2>4, <2>5
  <2> QED
    BY <2>6 DEF p
<1>8. f[L(N) + 1] = <<>>
  <2>1. L(N) + 1 \in 1 .. Len(bs) + 1 /\ L(N) + 1 > Len(bs)
    BY <1>3
  <2> QED
    BY <1>5, <2>1
<1>9. \A k \in 0 .. N : f[L(N - k) + 1] = SubSeq(s, N - k + 1, N)
  <2> DEFINE T == {k \in 0 .. N : f[L(N - k) + 1] = SubSeq(s, N - k + 1, N)}
  <2>1. 0 \in T
    <3>1. SubSeq(s, N - 0 + 1, N) = <<>> /\ N - 0 = N /\ 0 \in 0 .. N
      BY <1>3
    <3> QED
      BY <1>8, <3>1
  <2>2. ASSUME NEW k \in 1 .. N, k - 1 \in T PROVE k \in T
    <3> DEFINE m == N - k + 1
    <3>1. m \in 1 .. N /\ N - (k - 1) = m /\ m - 1 = N - k /\ N - (k - 1) + 1 = m + 1 /\ k \in 0 .. N
      BY <1>3
    <3>2. f[L(m) + 1] = SubSeq(s, m + 1, N)
      BY <2>2, <3>1
    <3>3. f[L(m - 1) + 1] = <<s[m]>> \o f[L(m) + 1]
      <4> HIDE DEF m
      <4> QED
        BY <1>7, <3>1
    <3>4. SubSeq(s, m, N) = <<s[m]>> \o SubSeq(s, m + 1, N)
      <4> HIDE DEF m
      <4>1. s[m] \in X
        BY <3>1
      <4> QED
        BY <3>1, <4>1
    <3>5. f[L(N - k) + 1] = SubSeq(s, N - k + 1, N)
      <4> HIDE DEF m
      <4>1. f[L(m - 1) + 1] = SubSeq(s, m, N)
        BY <3>2, <3>3, <3>4
      <4> QED
        BY <3>1, <4>1 DEF m
    <3> QED
      BY <3>1, <3>5
  <2>3. \A k \in 0 .. N : k \in T
    <3> HIDE DEF T
    <3>1. \A k \in 1 .. N : k - 1 \in T => k \in T
      BY <2>2, Zenon
    <3> QED
      BY <1>3, <2>1, <3>1, UpTo
  <2> QED
    BY <2>3
<1>10. f[1] = s
  <2>1. N \in 0 .. N /\ N - N = 0 /\ L(N - N) + 1 = 1 /\ N - N + 1 = 1 /\ SubSeq(s, 1, N) = s
    BY <1>3
  <2> QED
    BY <1>9, <2>1
<1> QED
  BY <1>10 DEF Runs, Disassembled, f, bs

-----------------------------------------------------------------------------
(***************************************************************************)
(* Prefixes, opcode and ModRM                                              *)
(***************************************************************************)
Regs == 0 .. 15
Lows == 0 .. 7

(* Bytes one behind the other stand one behind the other.                  *)
LEMMA HeldJoin ==
  ASSUME NEW bs, NEW p \in Nat \ {0}, NEW s \in Seq(Nat), NEW t \in Seq(Nat)
  PROVE  /\ s \o t \in Seq(Nat) /\ Len(s \o t) = Len(s) + Len(t)
         /\ Held(bs, p, s \o t) => Held(bs, p, s) /\ Held(bs, p + Len(s), t)
<1>1. /\ s \o t \in Seq(Nat) /\ Len(s \o t) = Len(s) + Len(t) /\ Len(s) \in Nat /\ Len(t) \in Nat
      /\ \A k \in 1 .. Len(s) : (s \o t)[k] = s[k]
      /\ \A k \in 1 .. Len(t) : (s \o t)[Len(s) + k] = t[k]
  OBVIOUS
<1>2. ASSUME Held(bs, p, s \o t) PROVE Held(bs, p, s) /\ Held(bs, p + Len(s), t)
  <2> DEFINE u == s \o t
  <2>1. \A k \in 1 .. Len(u) : bs[p + k - 1] = u[k]
    BY <1>2 DEF Held
  <2> HIDE DEF u
  <2>2. Len(u) = Len(s) + Len(t)
    BY <1>1 DEF u
  <2>3. ASSUME NEW k \in 1 .. Len(s) PROVE bs[p + k - 1] = s[k]
    <3>1. k \in 1 .. Len(u) /\ u[k] = s[k]
      BY <1>1, <2>2 DEF u
    <3> QED
      BY <2>1, <3>1
  <2>4. ASSUME NEW k \in 1 .. Len(t) PROVE bs[p + Len(s) + k - 1] = t[k]
    <3>1. /\ Len(s) + k \in 1 .. Len(u) /\ u[Len(s) + k] = t[k]
          /\ p + (Len(s) + k) - 1 = p + Len(s) + k - 1
      BY <1>1, <2>2 DEF u
    <3> QED
      BY <2>1, <3>1
  <2> QED
    BY <2>3, <2>4 DEF Held
<1> QED
  BY <1>1, <1>2

(* One byte stands where it is found.                                      *)
LEMMA HeldOne ==
  ASSUME NEW bs, NEW p \in Nat, NEW x \in Nat
  PROVE  /\ Held(bs, p, <<x>>) => bs[p] = x
         /\ <<x>> \in Seq(Nat) /\ Len(<<x>>) = 1
<1>1. ASSUME Held(bs, p, <<x>>) PROVE bs[p] = x
  <2>1. 1 \in 1 .. Len(<<x>>) /\ <<x>>[1] = x /\ p + 1 - 1 = p
    OBVIOUS
  <2> QED
    BY <1>1, <2>1 DEF Held
<1>2. <<x>> \in Seq(Nat) /\ Len(<<x>>) = 1
  OBVIOUS
<1> QED
  BY <1>1, <1>2, Zenon

(* Two parts and where they stand.                                         *)
LEMMA HeldPair ==
  ASSUME NEW bs, NEW p \in Nat, NEW x, NEW y, Held(bs, p, <<x, y>>)
  PROVE  bs[p] = x /\ bs[p + 1] = y
<1>1. /\ 1 \in 1 .. Len(<<x, y>>) /\ <<x, y>>[1] = x /\ p + 1 - 1 = p
      /\ 2 \in 1 .. Len(<<x, y>>) /\ <<x, y>>[2] = y /\ p + 2 - 1 = p + 1
  OBVIOUS
<1> QED
  BY <1>1 DEF Held

(* Two bytes and where they stand.                                         *)
LEMMA PairOfBytes ==
  ASSUME NEW x \in Nat, NEW y \in Nat
  PROVE  /\ <<x, y>> \in Seq(Nat) /\ Len(<<x, y>>) = 2 /\ <<x>> \o <<y>> = <<x, y>>
<1>2. <<x, y>> \in Seq(Nat) /\ Len(<<x, y>>) = 2
  OBVIOUS
<1>3. <<x>> \o <<y>> = <<x, y>>
  <2> DEFINE u == <<x>> \o <<y>>
             v == <<x, y>>
  <2>1. u \in Seq(Nat) /\ Len(u) = 2 /\ u[1] = x /\ u[2] = y
    OBVIOUS
  <2>2. v \in Seq(Nat) /\ Len(v) = 2 /\ v[1] = x /\ v[2] = y
    OBVIOUS
  <2> HIDE DEF u, v
  <2>3. \A k \in 1 .. 2 : u[k] = v[k]
    BY <2>1, <2>2
  <2>4. u = v
    BY <2>1, <2>2, <2>3
  <2> QED
    BY <2>4 DEF u, v
<1> QED
  BY <1>2, <1>3, Zenon

(* A part left out stands anywhere.                                        *)
LEMMA NoBytes ==
  /\ <<>> \in Seq(Nat) /\ Len(<<>>) = 0
  /\ \A s \in Seq(Nat) : <<>> \o s = s /\ s \o <<>> = s
  OBVIOUS

Parts(b, c, f, x) == b \div 64 = c /\ (b \div 8) % 8 = f /\ b % 8 = x

(* A byte of 2, 3 and 3 bits gives them back.                              *)
LEMMA ByteParts ==
  ASSUME NEW c \in 0 .. 3, NEW f \in Lows, NEW x \in Lows, NEW b, b = 64 * c + 8 * f + x
  PROVE  Parts(b, c, f, x)
<1> USE DEF Lows
<1>1. b \div 8 = 8 * c + f
  OBVIOUS
<1>2. (8 * c + f) % 8 = f
  OBVIOUS
<1>3. b = 8 * (8 * c + f) + x
  OBVIOUS
<1>4. b % 8 = x
  BY <1>3
<1>5. b \div 64 = c
  <2>1. 0 <= 8 * f + x /\ 8 * f + x < 64
    OBVIOUS
  <2> QED
    BY <2>1
<1> QED
  BY <1>1, <1>2, <1>4, <1>5 DEF Parts

(* A number whose bytes stand at p is read there.                          *)
LEMMA HeldNumber ==
  ASSUME NEW bs, NEW p \in Nat \ {0}, NEW v
  PROVE  /\ v \in Int /\ fits_int8(v) /\ Held(bs, p, emit_imm_lend(v, 1)) => SignedAt(bs, p, 1) = v
         /\ Whole(v) /\ Held(bs, p, emit_imm_lend(v, 4)) => SignedAt(bs, p, 4) = v
         /\ Whole(v) /\ 0 <= v /\ Held(bs, p, emit_imm_lend(v, 8)) => SignedAt(bs, p, 8) = v
         /\ v \in Int => \A n \in Nat : emit_imm_lend(v, n) \in Seq(Nat) /\ Len(emit_imm_lend(v, n)) = n
<1>1. v \in Int => \A n \in Nat : emit_imm_lend(v, n) \in Seq(Nat) /\ Len(emit_imm_lend(v, n)) = n
  BY ImmBytes DEF BytesOf
<1>2. ASSUME v \in Int, fits_int8(v), Held(bs, p, emit_imm_lend(v, 1)) PROVE SignedAt(bs, p, 1) = v
  <2>0. 1 \in Nat /\ p + 1 - 1 = p
    OBVIOUS
  <2>1. Len(emit_imm_lend(v, 1)) = 1
    BY <1>1, <1>2, <2>0, Zenon
  <2>2. bs[p] = emit_imm_lend(v, 1)[1]
    BY <1>2, <2>0, <2>1 DEF Held
  <2> QED
    BY <1>2, <2>2, OneByte
<1>3. ASSUME Whole(v), Held(bs, p, emit_imm_lend(v, 4)) PROVE SignedAt(bs, p, 4) = v
  <2>1. Len(emit_imm_lend(v, 4)) = 4
    BY <1>1, <1>3 DEF Whole
  <2>2. \A k \in 1 .. 4 : bs[p + k - 1] = emit_imm_lend(v, 4)[k]
    BY <1>3, <2>1 DEF Held
  <2> QED
    BY <1>3, <2>2, FourBytes
<1>4. ASSUME Whole(v), 0 <= v, Held(bs, p, emit_imm_lend(v, 8)) PROVE SignedAt(bs, p, 8) = v
  <2>1. Len(emit_imm_lend(v, 8)) = 8
    BY <1>1, <1>4 DEF Whole
  <2>2. \A k \in 1 .. 8 : bs[p + k - 1] = emit_imm_lend(v, 8)[k]
    BY <1>4, <2>1 DEF Held
  <2> QED
    BY <1>4, <2>2, EightBytes
<1> QED
  BY <1>1, <1>2, <1>3, <1>4

(* The number of a register: three bits, and one from REX.                 *)
Number(r, x) == (r % 8) + 8 * (x % 2)

RmIs(bs, h, z, x) == RM(bs, h, z) = x

ModrmAt(bs, h, f, next) == Digit(bs, h) = f /\ After(bs, h) = next

(* What ModRM says, of a register and of memory, with the bit of REX that  *)
(* extends it.                                                             *)
LEMMA ModrmReg ==
  ASSUME NEW bs, NEW h, h.m \in Nat \ {0}, NEW f \in Lows, NEW r \in Regs, NEW z,
         Held(bs, h.m, encode_modrm(f, Reg(r, z)))
  PROVE  /\ ModrmAt(bs, h, f, h.m + Len(encode_modrm(f, Reg(r, z))))
         /\ RmIs(bs, h, z, Gpr(h, Number(r, h.rex), z))
<1> USE DEF Regs, Lows
<1> DEFINE m == h.m
<1>0. m \in Nat \ {0} /\ h.m = m /\ Held(bs, m, encode_modrm(f, Reg(r, z)))
  OBVIOUS
<1> HIDE DEF m
<1> DEFINE b == 192 + 8 * f + reg_low3(r)
<1>1. reg_low3(r) = r % 8 /\ r % 8 \in 0 .. 7
  BY DEF reg_low3
<1>2. encode_modrm(f, Reg(r, z)) = <<b>> /\ b \in Nat
  BY <1>1 DEF encode_modrm, Reg
<1> DEFINE x == r % 8
<1>3. x \in 0 .. 7 /\ b = 192 + 8 * f + x
  BY <1>1
<1>4. bs[m] = b
  <2>1. Held(bs, m, <<b>>) /\ m \in Nat
    BY <1>0, <1>2
  <2> HIDE DEF b
  <2> QED
    BY <1>2, <2>1, HeldOne
<1> HIDE DEF x, b
<1>5. bs[m] \div 64 = 3 /\ (bs[m] \div 8) % 8 = f /\ bs[m] % 8 = x
  <2>1. (192 + 8 * f + x) \div 8 = 24 + f
    BY <1>3
  <2>2. (24 + f) % 8 = f
    OBVIOUS
  <2> QED
    BY <1>3, <1>4, <2>1, <2>2
<1>6. Mod(bs, h) = 3 /\ Digit(bs, h) = f /\ ~IsRip(bs, h)
  BY <1>0, <1>5 DEF Mod, Digit, IsRip
<1>7. DispLen(bs, h) = 0
  BY <1>6 DEF DispLen
<1>8. RM(bs, h, z) = Gpr(h, x + 8 * (h.rex % 2), z)
  BY <1>0, <1>5, <1>6 DEF RM
<1>9. encode_modrm(f, Reg(r, z)) \in Seq(Nat) /\ Len(encode_modrm(f, Reg(r, z))) = 1
  BY <1>2, HeldOne
<1> QED
  BY <1>0, <1>6, <1>7, <1>8, <1>9 DEF After, x, Number, ModrmAt, RmIs

(* ModRM of memory.                                                        *)
LEMMA ModrmMem ==
  ASSUME NEW bs, NEW h, h.m \in Nat \ {0}, NEW f \in Lows, NEW r \in Regs, NEW z,
         NEW d, Whole(d), Held(bs, h.m, encode_modrm(f, Mem(r, d, z)))
  PROVE  /\ ModrmAt(bs, h, f, h.m + Len(encode_modrm(f, Mem(r, d, z))))
         /\ RmIs(bs, h, z, Mem(Number(r, h.rex), d, z))
<1> USE DEF Regs, Lows
<1> DEFINE m == h.m
<1>0. m \in Nat \ {0} /\ h.m = m /\ Held(bs, m, encode_modrm(f, Mem(r, d, z)))
  OBVIOUS
<1> HIDE DEF m
<1> DEFINE x == r % 8
           e == encode_modrm(f, Mem(r, d, z))
           short == d = 0 /\ x # 5
           mod == IF short THEN 0 ELSE IF fits_int8(d) THEN 1 ELSE 2
           n == CASE mod = 0 -> 0 [] mod = 1 -> 1 [] mod = 2 -> 4
           b == 64 * mod + 8 * f + x
<1>1. x \in 0 .. 7 /\ d \in Int /\ mod \in 0 .. 2 /\ n \in Nat /\ b \in Nat
  BY DEF Whole
<1>2. e = <<b>> \o emit_imm_lend(d, n)
  <2>1. reg_low3(r) = x /\ reg_low3(RBP) = 5
    BY DEF reg_low3, RBP
  <2>2. /\ Mem(r, d, z).kind = "mem" /\ Mem(r, d, z).base = r /\ Mem(r, d, z).offset = d
    BY DEF Mem
  <2> HIDE DEF x
  <2> QED
    BY <2>1, <2>2 DEF encode_modrm
<1>3. /\ <<b>> \in Seq(Nat) /\ Len(<<b>>) = 1
      /\ emit_imm_lend(d, n) \in Seq(Nat) /\ Len(emit_imm_lend(d, n)) = n
  <2> HIDE DEF b, n
  <2> QED
    BY <1>1, HeldOne, HeldNumber
<1>4. mod = 0 => short
  OBVIOUS
<1>5. (mod = 1 => fits_int8(d)) /\ (mod = 0 => n = 0) /\ (mod = 1 => n = 1) /\ (mod = 2 => n = 4)
  OBVIOUS
<1>6. short => d = 0 /\ x # 5
  OBVIOUS
<1> HIDE DEF short, mod, n, x, e
<1>7. e \in Seq(Nat) /\ Len(e) = 1 + n /\ bs[m] = b /\ Held(bs, m + 1, emit_imm_lend(d, n))
  <2> HIDE DEF b
  <2>1. e \in Seq(Nat) /\ Len(e) = 1 + n
    BY <1>1, <1>2, <1>3, HeldJoin
  <2>2. Held(bs, m, <<b>> \o emit_imm_lend(d, n))
    BY <1>0, <1>2 DEF e
  <2>3. Held(bs, m, <<b>>) /\ Held(bs, m + Len(<<b>>), emit_imm_lend(d, n))
    BY <1>0, <1>3, <2>2, HeldJoin
  <2> QED
    BY <1>0, <1>1, <1>3, <2>1, <2>3, HeldOne
<1>8. bs[m] \div 64 = mod /\ (bs[m] \div 8) % 8 = f /\ bs[m] % 8 = x
  <2>1. b = 64 * mod + 8 * f + x /\ mod \in 0 .. 3
    BY <1>1
  <2> HIDE DEF b
  <2>2. Parts(b, mod, f, x)
    <3>1. mod \in 0 .. 3 /\ x \in Lows
      BY <1>1
    <3> HIDE DEF Lows
    <3> QED
      BY <2>1, <3>1, ByteParts
  <2> QED
    BY <1>1, <1>7, <2>1, <2>2 DEF Parts
<1>9. Mod(bs, h) = mod /\ Digit(bs, h) = f /\ (IsRip(bs, h) <=> mod = 0 /\ x = 5)
  BY <1>0, <1>8 DEF Mod, Digit, IsRip
<1>10. ~IsRip(bs, h)
  BY <1>4, <1>6, <1>9
<1>11. DispLen(bs, h) = n
  BY <1>1, <1>5, <1>9, <1>10 DEF DispLen
<1>12. (IF DispLen(bs, h) = 0 THEN 0 ELSE SignedAt(bs, m + 1, DispLen(bs, h))) = d
  <2>1. CASE mod = 0
    BY <2>1, <1>4, <1>5, <1>6, <1>11
  <2>2. CASE mod = 1
    <3>1. SignedAt(bs, m + 1, 1) = d
      BY <2>2, <1>0, <1>1, <1>5, <1>7, HeldNumber
    <3> QED
      BY <2>2, <3>1, <1>5, <1>11
  <2>3. CASE mod = 2
    <3>1. SignedAt(bs, m + 1, 4) = d
      BY <1>0, <2>3, <1>1, <1>5, <1>7, HeldNumber
    <3> QED
      BY <2>3, <3>1, <1>5, <1>11
  <2> QED
    BY <2>1, <2>2, <2>3, <1>1
<1>13. RM(bs, h, z) = Mem(x + 8 * (h.rex % 2), d, z)
  BY <1>0, <1>1, <1>8, <1>9, <1>10, <1>12 DEF RM
<1> QED
  BY <1>0, <1>1, <1>7, <1>9, <1>11, <1>13 DEF After, x, e, Number, ModrmAt, RmIs

IsOpcode(h, bs, p, q, v) ==
  /\ h.rep <=> bs[p] = 243
  /\ h.wide <=> v \div 8 = 1
  /\ h.two <=> bs[q] = 15
  /\ h.rex = v
  /\ h.size = (IF v \div 8 = 1 THEN 8 ELSE IF bs[p] = 102 THEN 2 ELSE 4)
  /\ h.op = (IF bs[q] = 15 THEN bs[q + 1] ELSE bs[q])
  /\ h.m = (IF bs[q] = 15 THEN q + 2 ELSE q + 1)

Places(bs, p, at_, q, v) ==
  /\ at_ = (IF bs[p] = 243 \/ bs[p] = 102 THEN p + 1 ELSE p)
  /\ q = (IF bs[at_] \in 64 .. 79 THEN at_ + 1 ELSE at_)
  /\ v = (IF bs[at_] \in 64 .. 79 THEN bs[at_] - 64 ELSE 0)

(* The opcode the processor finds behind given prefixes.                   *)
LEMMA OpcodeIs ==
  ASSUME NEW bs, NEW p \in Nat \ {0}, NEW at_, NEW q, NEW v,
         Places(bs, p, at_, q, v)
  PROVE  IsOpcode(Opcode(bs, p), bs, p, q, v)
<1> DEFINE h == Opcode(bs, p)
<1>1. h = [rep |-> bs[p] = 243, hasRex |-> bs[at_] \in 64 .. 79, rex |-> v, wide |-> v \div 8 = 1,
           two |-> bs[q] = 15,
           size |-> IF v \div 8 = 1 THEN 8 ELSE IF bs[p] = 102 THEN 2 ELSE 4,
           op |-> IF bs[q] = 15 THEN bs[q + 1] ELSE bs[q],
           m |-> IF bs[q] = 15 THEN q + 2 ELSE q + 1]
  BY Zenon DEF Opcode, Places
<1> HIDE DEF h
<1>2. h.rep <=> bs[p] = 243
  BY <1>1, Zenon
<1>3. h.wide <=> v \div 8 = 1
  BY <1>1, Zenon
<1>4. h.two <=> bs[q] = 15
  BY <1>1, Zenon
<1>5. /\ h.rex = v
      /\ h.size = (IF v \div 8 = 1 THEN 8 ELSE IF bs[p] = 102 THEN 2 ELSE 4)
      /\ h.op = (IF bs[q] = 15 THEN bs[q + 1] ELSE bs[q])
      /\ h.m = (IF bs[q] = 15 THEN q + 2 ELSE q + 1)
  BY <1>1, Zenon
<1> QED
  BY <1>2, <1>3, <1>4, <1>5, Zenon DEF h, IsOpcode

(* What the processor makes of the prefixes the encoder puts before an     *)
(* opcode: o is no prefix itself.                                          *)
Before(size, f, b) == size_prefix(size) \o rex(size, f, b)
Opens(o) == o \in Nat /\ o # 102 /\ o # 243 /\ (o < 64 \/ o > 79)

Prefixed(h, size, f, b) ==
  /\ ~h.rep
  /\ h.wide <=> size = 8
  /\ h.size = (IF size = 1 THEN 4 ELSE size)
  /\ h.rex % 2 = (IF b >= 8 THEN 1 ELSE 0)
  /\ (h.rex \div 4) % 2 = (IF f >= 8 THEN 1 ELSE 0)

Opening(h, bs, q) ==
  /\ h.two <=> bs[q] = 15
  /\ h.op = (IF bs[q] = 15 THEN bs[q + 1] ELSE bs[q])
  /\ h.m = (IF bs[q] = 15 THEN q + 2 ELSE q + 1)

(* The prefixes of an instruction are read as they were meant.             *)
LEMMA PrefixesRead ==
  ASSUME NEW bs, NEW p \in Nat \ {0}, NEW size \in {1, 2, 4, 8}, NEW f \in Regs, NEW b \in Regs,
         Held(bs, p, Before(size, f, b)), NEW q, q = p + Len(Before(size, f, b)), Opens(bs[q])
  PROVE  Prefixed(Opcode(bs, p), size, f, b) /\ Opening(Opcode(bs, p), bs, q)
<1> USE DEF Regs, Lows
<1> DEFINE bits == (IF size = 8 THEN 8 ELSE 0) + (IF f >= 8 THEN 4 ELSE 0) + (IF b >= 8 THEN 1 ELSE 0)
           pre == Before(size, f, b)
<1>1. /\ bits \in Nat /\ bits < 16 /\ bits \div 8 = (IF size = 8 THEN 1 ELSE 0)
      /\ bits % 2 = (IF b >= 8 THEN 1 ELSE 0)
      /\ (bits \div 4) % 2 = (IF f >= 8 THEN 1 ELSE 0)
  <2>1. CASE size = 8
    <3>1. CASE f >= 8 /\ b >= 8
      BY <2>1, <3>1
    <3>2. CASE f >= 8 /\ ~(b >= 8)
      BY <2>1, <3>2
    <3>3. CASE ~(f >= 8) /\ b >= 8
      BY <2>1, <3>3
    <3>4. CASE ~(f >= 8) /\ ~(b >= 8)
      BY <2>1, <3>4
    <3> QED
      BY <3>1, <3>2, <3>3, <3>4
  <2>2. CASE size # 8
    <3>1. CASE f >= 8 /\ b >= 8
      BY <2>2, <3>1
    <3>2. CASE f >= 8 /\ ~(b >= 8)
      BY <2>2, <3>2
    <3>3. CASE ~(f >= 8) /\ b >= 8
      BY <2>2, <3>3
    <3>4. CASE ~(f >= 8) /\ ~(b >= 8)
      BY <2>2, <3>4
    <3> QED
      BY <3>1, <3>2, <3>3, <3>4
  <2> QED
    BY <2>1, <2>2
<1>2. rex(size, f, b) = IF bits = 0 THEN <<>> ELSE <<64 + bits>>
  <2>1. is_reg_extended(f) <=> f >= 8
    BY DEF is_reg_extended
  <2>2. is_reg_extended(b) <=> b >= 8
    BY DEF is_reg_extended
  <2> QED
    BY <2>1, <2>2 DEF rex
<1> HIDE DEF bits
<1> DEFINE c == 64 + bits
<1>c. c \in Nat
  BY <1>1
<1>3. pre = IF size = 2 THEN (IF bits = 0 THEN <<102>> ELSE <<102, c>>)
                        ELSE (IF bits = 0 THEN <<>> ELSE <<c>>)
  <2> HIDE DEF c
  <2>1. pre = (IF size = 2 THEN <<102>> ELSE <<>>) \o (IF bits = 0 THEN <<>> ELSE <<c>>)
    BY <1>2, Zenon DEF Before, size_prefix, c
  <2>0. 102 \in Nat
    OBVIOUS
  <2>1a. <<102>> \in Seq(Nat) /\ <<c>> \in Seq(Nat) /\ <<>> \in Seq(Nat)
    BY <1>c, <2>0, HeldOne, NoBytes
  <2>2. <<102>> \o <<>> = <<102>> /\ <<>> \o <<>> = <<>> /\ <<>> \o <<c>> = <<c>>
    BY <2>1a, NoBytes
  <2>3. <<102>> \o <<c>> = <<102, c>>
    BY <1>c, <2>0, PairOfBytes
  <2> HIDE DEF pre
  <2> QED
    BY <2>1, <2>2, <2>3, Zenon
<1>h. Held(bs, p, pre) /\ q = p + Len(pre)
  OBVIOUS
<1> HIDE DEF pre
<1> DEFINE at_ == IF size = 2 THEN p + 1 ELSE p
<1>4. /\ pre \in Seq(Nat) /\ (size = 2 => bs[p] = 102) /\ at_ \in Nat
      /\ bits # 0 => bs[at_] = 64 + bits /\ q = at_ + 1
      /\ bits = 0 => q = at_
  <2>0. 102 \in Nat /\ c \in Nat /\ p \in Nat /\ c = 64 + bits
    BY <1>1
  <2> HIDE DEF c
  <2>1. CASE size = 2 /\ bits = 0
    <3>1. pre = <<102>>
      BY <1>3, <2>1
    <3>2. Held(bs, p, <<102>>) /\ q = p + Len(<<102>>)
      BY <1>h, <3>1
    <3> DEFINE w == 102
    <3>w. Held(bs, p, <<w>>) /\ w \in Nat
      BY <3>2
    <3>3. <<102>> \in Seq(Nat) /\ Len(<<102>>) = 1 /\ bs[p] = 102
      <4> HIDE DEF w
      <4>1. <<w>> \in Seq(Nat) /\ Len(<<w>>) = 1 /\ bs[p] = w
        BY <2>0, <3>w, HeldOne
      <4> QED
        BY <4>1 DEF w
    <3>4. q = p + 1
      BY <3>2, <3>3
    <3> QED
      BY <2>0, <2>1, <3>1, <3>3, <3>4
  <2>2. CASE size = 2 /\ bits # 0
    <3>1. pre = <<102, c>>
      BY <1>3, <2>2
    <3>2. Held(bs, p, <<102, c>>) /\ q = p + Len(<<102, c>>)
      BY <1>h, <3>1
    <3> DEFINE w == 102
    <3>w. Held(bs, p, <<w, c>>) /\ w \in Nat
      BY <3>2
    <3>3. <<102, c>> \in Seq(Nat) /\ Len(<<102, c>>) = 2 /\ bs[p] = 102 /\ bs[p + 1] = c
      <4> HIDE DEF w
      <4>1. <<w, c>> \in Seq(Nat) /\ Len(<<w, c>>) = 2 /\ bs[p] = w /\ bs[p + 1] = c
        <5>1. <<w, c>> \in Seq(Nat) /\ Len(<<w, c>>) = 2
          BY <2>0, <3>w, PairOfBytes
        <5>2. bs[p] = w /\ bs[p + 1] = c
          BY <2>0, <3>w, HeldPair
        <5> QED
          BY <5>1, <5>2
      <4> QED
        BY <4>1 DEF w
    <3>4. q = p + 2
      BY <3>2, <3>3
    <3> QED
      BY <2>0, <2>2, <3>1, <3>3, <3>4
  <2>3. CASE size # 2 /\ bits = 0
    <3>1. pre = <<>>
      BY <1>3, <2>3
    <3>2. Held(bs, p, <<>>) /\ q = p + Len(<<>>)
      BY <1>h, <3>1
    <3>3. <<>> \in Seq(Nat) /\ Len(<<>>) = 0
      BY <2>0, <3>2, NoBytes, Zenon
    <3>4. q = p + 0
      BY <3>2, <3>3
    <3> QED
      BY <2>0, <2>3, <3>1, <3>3, <3>4
  <2>4. CASE size # 2 /\ bits # 0
    <3>1. pre = <<c>>
      BY <1>3, <2>4
    <3>2. Held(bs, p, <<c>>) /\ q = p + Len(<<c>>)
      BY <1>h, <3>1
    <3>3. <<c>> \in Seq(Nat) /\ Len(<<c>>) = 1 /\ bs[p] = c
      BY <2>0, <3>2, HeldOne
    <3>4. q = p + 1
      BY <3>2, <3>3
    <3> QED
      BY <2>0, <2>4, <3>1, <3>3, <3>4
  <2> QED
    BY <2>1, <2>2, <2>3, <2>4
<1>5. bs[q] \in Nat /\ bs[q] # 102 /\ bs[q] # 243 /\ bs[q] \notin 64 .. 79
  <2>1. \A o : Opens(o) => o \in Nat /\ o # 102 /\ o # 243 /\ o \notin 64 .. 79
    BY DEF Opens
  <2> QED
    BY <2>1
<1> HIDE DEF c
<1>6. 64 + bits \in 64 .. 79 /\ 64 + bits # 243 /\ 64 + bits # 102 /\ 64 + bits - 64 = bits
  BY <1>1
<1> DEFINE y == bs[at_]
<1>7. /\ bits # 0 => y = 64 + bits /\ q = at_ + 1
      /\ bits = 0 => y = bs[q] /\ q = at_
  BY <1>4
<1>8. bs[p] # 243 /\ (bs[p] = 102 <=> size = 2)
  <2>1. CASE size = 2
    BY <1>4, <2>1
  <2>2. CASE size # 2
    BY <1>5, <1>6, <1>7, <2>2
  <2> QED
    BY <2>1, <2>2
<1>9. at_ = (IF bs[p] = 243 \/ bs[p] = 102 THEN p + 1 ELSE p)
  BY <1>8
<1> HIDE DEF at_
<1>10. q = (IF bs[at_] \in 64 .. 79 THEN at_ + 1 ELSE at_)
  <2>1. CASE bits = 0
    BY <1>5, <1>7, <2>1
  <2>2. CASE bits # 0
    BY <1>6, <1>7, <2>2
  <2> QED
    BY <2>1, <2>2
<1>11. bits = (IF bs[at_] \in 64 .. 79 THEN bs[at_] - 64 ELSE 0)
  <2>1. CASE bits = 0
    BY <1>5, <1>7, <2>1
  <2>2. CASE bits # 0
    <3>1. bs[at_] = 64 + bits
      BY <1>7, <2>2
    <3>2. bs[at_] - 64 = bits /\ bs[at_] \in 64 .. 79
      BY <1>1, <1>6, <3>1
    <3> QED
      BY <3>2
  <2> QED
    BY <2>1, <2>2
<1> DEFINE h == Opcode(bs, p)
<1>12. IsOpcode(h, bs, p, q, bits)
  <2>1. Places(bs, p, at_, q, bits)
    BY <1>9, <1>10, <1>11, Zenon DEF Places
  <2> QED
    BY <2>1, OpcodeIs, Zenon
<1> HIDE DEF h
<1>13. h.size = (IF size = 1 THEN 4 ELSE size)
  BY <1>1, <1>8, <1>12 DEF IsOpcode
<1>14. h.wide <=> size = 8
  <2>1. bits \div 8 = 1 <=> size = 8
    BY <1>1
  <2> QED
    BY <2>1, <1>12, Zenon DEF IsOpcode
<1>15. h.rex % 2 = (IF b >= 8 THEN 1 ELSE 0) /\ (h.rex \div 4) % 2 = (IF f >= 8 THEN 1 ELSE 0)
  BY <1>1, <1>12 DEF IsOpcode
<1>16. ~h.rep
  BY <1>8, <1>12, Zenon DEF IsOpcode
<1>17. Prefixed(h, size, f, b)
  BY <1>13, <1>14, <1>15, <1>16, Zenon DEF Prefixed
<1>18. Opening(h, bs, q)
  BY <1>12, Zenon DEF IsOpcode, Opening
<1> QED
  BY <1>17, <1>18, Zenon DEF h

(* The bytes of the prefixes.                                              *)
LEMMA BeforeBytes ==
  ASSUME NEW size, NEW f \in Regs, NEW b \in Regs
  PROVE  Before(size, f, b) \in Seq(Nat)
<1> USE DEF Regs, Lows
<1> DEFINE c == 64 + ((IF size = 8 THEN 8 ELSE 0) + (IF is_reg_extended(f) THEN 4 ELSE 0)
                        + (IF is_reg_extended(b) THEN 1 ELSE 0))
           w == 102
<1>1. c \in Nat /\ w \in Nat
  OBVIOUS
<1>2. rex(size, f, b) = <<>> \/ rex(size, f, b) = <<c>>
  BY DEF rex
<1>3. size_prefix(size) = <<>> \/ size_prefix(size) = <<w>>
  BY DEF size_prefix
<1> HIDE DEF c, w
<1>4. <<>> \in Seq(Nat) /\ <<c>> \in Seq(Nat) /\ <<w>> \in Seq(Nat)
  BY <1>1, HeldOne, NoBytes
<1>5. rex(size, f, b) \in Seq(Nat) /\ size_prefix(size) \in Seq(Nat)
  BY <1>2, <1>3, <1>4
<1> QED
  BY <1>5 DEF Before

(* The operands of ModRM: a register, and memory at a distance from one.   *)
IsRM(rm, size) ==
  \/ \E r \in Regs : rm = Reg(r, size) /\ (size = 1 => r < 4)
  \/ \E r \in Regs : \E d : rm = Mem(r, d, size) /\ Whole(d)

(* The bytes of ModRM and the distance behind it.                          *)
LEMMA ModrmBytes ==
  ASSUME NEW f \in Lows, NEW size, NEW rm, IsRM(rm, size)
  PROVE  encode_modrm(f, rm) \in Seq(Nat) /\ Len(encode_modrm(f, rm)) > 0
<1> USE DEF Regs, Lows
<1>1. ASSUME NEW r \in 0 .. 15, rm = Reg(r, size)
      PROVE  encode_modrm(f, rm) \in Seq(Nat) /\ Len(encode_modrm(f, rm)) > 0
  <2> DEFINE b == 192 + 8 * f + reg_low3(r)
  <2>1. b \in Nat
    BY DEF reg_low3
  <2>2. encode_modrm(f, rm) = <<b>>
    BY <1>1 DEF encode_modrm, Reg
  <2> HIDE DEF b
  <2> QED
    BY <2>1, <2>2, HeldOne
<1>2. ASSUME NEW r \in 0 .. 15, NEW d, rm = Mem(r, d, size), Whole(d)
      PROVE  encode_modrm(f, rm) \in Seq(Nat) /\ Len(encode_modrm(f, rm)) > 0
  <2> DEFINE short == d = 0 /\ reg_low3(r) # reg_low3(RBP)
             mod == IF short THEN 0 ELSE IF fits_int8(d) THEN 1 ELSE 2
             n == CASE mod = 0 -> 0 [] mod = 1 -> 1 [] mod = 2 -> 4
             b == 64 * mod + 8 * f + reg_low3(r)
  <2>1. d \in Int /\ n \in Nat /\ b \in Nat
    BY <1>2 DEF Whole, reg_low3
  <2>2. encode_modrm(f, rm) = <<b>> \o emit_imm_lend(d, n)
    <3>1. rm.kind = "mem" /\ rm.base = r /\ rm.offset = d
      BY <1>2 DEF Mem
    <3> QED
      BY <3>1 DEF encode_modrm
  <2> HIDE DEF b, n
  <2>3. <<b>> \in Seq(Nat) /\ Len(<<b>>) = 1
    BY <2>1, HeldOne
  <2>4. emit_imm_lend(d, n) \in Seq(Nat)
    BY <2>1, ImmBytes DEF BytesOf
  <2> QED
    BY <2>2, <2>3, <2>4
<1> QED
  BY <1>1, <1>2 DEF IsRM

BaseOf(rm) == IF rm.kind = "reg" THEN rm.reg ELSE rm.base

(* An opcode of one byte, or of two.                                       *)
Opcoded(v, o) == \/ v = <<o>> /\ Opens(o) /\ o # 15
                 \/ v = <<15, o>> /\ o \in Nat

(* The bytes of the opcode.                                                *)
LEMMA OpcodeBytes ==
  ASSUME NEW v, NEW o, Opcoded(v, o)
  PROVE  v \in Seq(Nat) /\ Len(v) \in {1, 2} /\ o \in Nat
<1>1. CASE v = <<o>> /\ Opens(o)
  <2>1. o \in Nat
    BY <1>1 DEF Opens
  <2>2. <<o>> \in Seq(Nat) /\ Len(<<o>>) = 1
    BY <2>1, HeldOne
  <2> QED
    BY <1>1, <2>1, <2>2
<1>2. CASE v = <<15, o>> /\ o \in Nat
  <2> DEFINE w == 15
  <2>1. w \in Nat /\ v = <<w, o>> /\ o \in Nat
    BY <1>2
  <2> HIDE DEF w
  <2>2. <<w, o>> \in Seq(Nat) /\ Len(<<w, o>>) = 2
    BY <2>1, PairOfBytes
  <2> QED
    BY <2>1, <2>2
<1> QED
  BY <1>1, <1>2 DEF Opcoded

(* What the processor makes of prefixes, opcode and ModRM.                 *)
Reads(bs, h, size, v, o, f, rm, s, next) ==
  /\ ~h.rep
  /\ h.wide <=> size = 8
  /\ h.size = (IF size = 1 THEN 4 ELSE size)
  /\ h.two <=> Len(v) = 2
  /\ h.op = o
  /\ Digit(bs, h) = f % 8
  /\ \A z : (z = 1 => f < 4) => Field(bs, h, z) = Reg(f, z)
  /\ RM(bs, h, s) = rm
  /\ After(bs, h) = next

Joined(all, u, v, e) == all = (u \o v) \o e

(* The three together.                                                     *)
LEMMA CodedBytes ==
  ASSUME NEW size, NEW f \in Regs, NEW s, NEW rm, IsRM(rm, s), NEW v \in Seq(Nat)
  PROVE  /\ BaseOf(rm) \in Regs /\ Before(size, f, BaseOf(rm)) \in Seq(Nat)
         /\ encode_modrm(reg_low3(f), rm) \in Seq(Nat)
         /\ Joined(Coded(size, v, f, rm), Before(size, f, BaseOf(rm)), v, encode_modrm(reg_low3(f), rm))
         /\ Coded(size, v, f, rm) \in Seq(Nat) /\ Len(Coded(size, v, f, rm)) > 0
<1> USE DEF Regs, Lows
<1> DEFINE b == BaseOf(rm)
           u == Before(size, f, b)
           e == encode_modrm(reg_low3(f), rm)
<1>1. b \in 0 .. 15
  BY DEF IsRM, Reg, Mem, BaseOf
<1>2. u \in Seq(Nat)
  BY <1>1, BeforeBytes
<1>3. reg_low3(f) \in 0 .. 7
  BY DEF reg_low3
<1>4. e \in Seq(Nat) /\ Len(e) > 0
  BY <1>3, ModrmBytes
<1>5. Coded(size, v, f, rm) = (u \o v) \o e
  BY DEF Coded, Before, BaseOf
<1> HIDE DEF b, u, e
<1>6. (u \o v) \o e \in Seq(Nat) /\ Len((u \o v) \o e) > 0
  BY <1>2, <1>4
<1> QED
  BY <1>1, <1>2, <1>4, <1>5, <1>6 DEF b, u, e, Joined

(* Three parts one behind the other.                                       *)
LEMMA HeldThree ==
  ASSUME NEW bs, NEW p \in Nat \ {0}, NEW u \in Seq(Nat), NEW v \in Seq(Nat), NEW e \in Seq(Nat),
         Held(bs, p, (u \o v) \o e)
  PROVE  /\ Held(bs, p, u) /\ Held(bs, p + Len(u), v) /\ Held(bs, p + Len(u) + Len(v), e)
         /\ Len((u \o v) \o e) = Len(u) + Len(v) + Len(e)
<1>1. u \o v \in Seq(Nat) /\ Len(u \o v) = Len(u) + Len(v) /\ Len(u) \in Nat /\ Len(v) \in Nat
  OBVIOUS
<1>2. /\ Held(bs, p, u \o v) /\ Held(bs, p + Len(u \o v), e)
      /\ Len((u \o v) \o e) = Len(u \o v) + Len(e)
  <2> DEFINE x == u \o v
  <2>1. x \in Seq(Nat) /\ Held(bs, p, x \o e)
    BY <1>1
  <2> HIDE DEF x
  <2>2. Held(bs, p, x) /\ Held(bs, p + Len(x), e) /\ Len(x \o e) = Len(x) + Len(e)
    BY <2>1, HeldJoin
  <2> QED
    BY <2>2 DEF x
<1>3. Held(bs, p, u) /\ Held(bs, p + Len(u), v)
  BY <1>2, HeldJoin
<1>4. p + Len(u \o v) = p + Len(u) + Len(v)
  BY <1>1
<1> QED
  BY <1>1, <1>2, <1>3, <1>4

(* What is coded is read.                                                  *)
LEMMA CodedRead ==
  ASSUME NEW bs, NEW p \in Nat \ {0}, NEW size \in {1, 2, 4, 8}, NEW f \in Regs,
         NEW s, NEW rm, IsRM(rm, s), NEW v, NEW o, Opcoded(v, o),
         Held(bs, p, Coded(size, v, f, rm))
  PROVE  Reads(bs, Opcode(bs, p), size, v, o, f, rm, s, p + Len(Coded(size, v, f, rm)))
<1> DEFINE b == BaseOf(rm)
           u == Before(size, f, b)
           g == reg_low3(f)
           e == encode_modrm(g, rm)
           all == Coded(size, v, f, rm)
           h == Opcode(bs, p)
<1>1. /\ b \in Regs /\ u \in Seq(Nat) /\ e \in Seq(Nat) /\ v \in Seq(Nat)
      /\ Len(v) \in {1, 2} /\ o \in Nat /\ all = (u \o v) \o e
  <2>1. v \in Seq(Nat) /\ Len(v) \in {1, 2} /\ o \in Nat
    BY OpcodeBytes
  <2> HIDE DEF b, u, e, all, g
  <2>2. BaseOf(rm) \in Regs
    BY <2>1, CodedBytes, Zenon
  <2>3. Before(size, f, BaseOf(rm)) \in Seq(Nat)
    BY <2>1, CodedBytes, Zenon
  <2>4. encode_modrm(reg_low3(f), rm) \in Seq(Nat)
    BY <2>1, CodedBytes, Zenon
  <2>6. Joined(Coded(size, v, f, rm), Before(size, f, BaseOf(rm)), v, encode_modrm(reg_low3(f), rm))
    BY <2>1, CodedBytes
  <2>5. Coded(size, v, f, rm)
          = (Before(size, f, BaseOf(rm)) \o v) \o encode_modrm(reg_low3(f), rm)
    BY <2>6 DEF Joined
  <2> QED
    BY <2>1, <2>2, <2>3, <2>4, <2>5 DEF b, u, e, all, g
<1>0. Held(bs, p, all) /\ g \in Lows /\ g = f % 8
  BY DEF reg_low3, Regs, Lows
<1> HIDE DEF b, u, e, all, g
<1> DEFINE q == p + Len(u)
           m == q + Len(v)
<1>2. /\ Held(bs, p, u) /\ Held(bs, q, v) /\ Held(bs, m, e)
      /\ Len(all) = Len(u) + Len(v) + Len(e)
  <2>1. Held(bs, p, (u \o v) \o e)
    BY <1>0, <1>1
  <2> QED
    BY <1>1, <2>1, HeldThree
<1>3. q \in Nat \ {0} /\ m \in Nat \ {0} /\ m = q + Len(v) /\ q = p + Len(u)
  <2>1. Len(u) \in Nat
    BY <1>1
  <2> QED
    BY <1>1, <2>1
<1> HIDE DEF q, m
<1>4. \/ Len(v) = 2 /\ bs[q] = 15 /\ bs[q + 1] = o
      \/ Len(v) = 1 /\ bs[q] = o /\ Opens(o) /\ o # 15
  <2>1. CASE v = <<15, o>> /\ o \in Nat
    <3> DEFINE w == 15
    <3>1. Held(bs, q, <<w, o>>) /\ w \in Nat /\ v = <<w, o>>
      BY <1>2, <2>1
    <3> HIDE DEF w
    <3>2. bs[q] = w /\ bs[q + 1] = o
      BY <1>3, <3>1, HeldPair
    <3>3. Len(v) = 2
      BY <2>1, <3>1, PairOfBytes
    <3> QED
      BY <3>2, <3>3 DEF w
  <2>2. CASE v = <<o>> /\ Opens(o) /\ o # 15
    <3>1. Held(bs, q, <<o>>)
      BY <1>2, <2>2
    <3>2. bs[q] = o /\ Len(<<o>>) = 1
      BY <1>1, <1>3, <3>1, HeldOne
    <3> QED
      BY <2>2, <3>2
  <2> QED
    BY <2>1, <2>2 DEF Opcoded
<1>5. Opens(bs[q]) /\ (bs[q] = 15 <=> Len(v) = 2)
  <2>1. Opens(15)
    BY DEF Opens
  <2> QED
    BY <1>4, <2>1
<1>6. Prefixed(h, size, f, b) /\ Opening(h, bs, q)
  <2>1. q = p + Len(Before(size, f, b)) /\ Held(bs, p, Before(size, f, b))
    BY <1>2, <1>3 DEF u
  <2>2. b \in Regs /\ Opens(bs[q])
    BY <1>1, <1>5
  <2> QED
    BY <2>1, <2>2, PrefixesRead, Zenon
<1> HIDE DEF h
<1>7. (h.two <=> Len(v) = 2) /\ h.op = o /\ h.m = m
  BY <1>3, <1>4, <1>5, <1>6 DEF Opening
<1>8. /\ ~h.rep /\ (h.wide <=> size = 8) /\ h.size = (IF size = 1 THEN 4 ELSE size)
      /\ h.rex % 2 = (IF b >= 8 THEN 1 ELSE 0) /\ (h.rex \div 4) % 2 = (IF f >= 8 THEN 1 ELSE 0)
  BY <1>6 DEF Prefixed
<1>9. g \in Lows /\ g + 8 * ((h.rex \div 4) % 2) = f
      /\ Number(b, h.rex) = b
  <2>1. \A x \in Regs : /\ x % 8 \in Lows
                           /\ (x % 8) + 8 * (IF x >= 8 THEN 1 ELSE 0) = x
    BY DEF Regs, Lows
  <2> QED
    BY <1>0, <1>1, <1>8, <2>1 DEF Number
<1>10. ASSUME NEW r \in Regs, NEW z, z = 1 => r < 4
       PROVE  Gpr(h, r, z) = Reg(r, z)
  <2>1. ~(z = 1 /\ r \in 4 .. 7)
    BY <1>10 DEF Regs
  <2> QED
    BY <2>1 DEF Gpr
<1>11. /\ Digit(bs, h) = g /\ After(bs, h) = m + Len(e) /\ RM(bs, h, s) = rm
  <2>1. ASSUME NEW r \in Regs, rm = Reg(r, s), s = 1 => r < 4
        PROVE  Digit(bs, h) = g /\ After(bs, h) = m + Len(e) /\ RM(bs, h, s) = rm
    <3>1. b = r
      BY <2>1 DEF b, Reg, BaseOf
    <3>2. Held(bs, h.m, encode_modrm(g, Reg(r, s))) /\ e = encode_modrm(g, Reg(r, s))
      BY <1>2, <1>7, <2>1 DEF e
    <3>3. h.m \in Nat \ {0}
      BY <1>3, <1>7
    <3>4. ModrmAt(bs, h, g, h.m + Len(encode_modrm(g, Reg(r, s))))
      BY <1>9, <3>2, <3>3, ModrmReg
    <3>7. RmIs(bs, h, s, Gpr(h, Number(r, h.rex), s))
      BY <1>9, <3>2, <3>3, ModrmReg
    <3>5. RM(bs, h, s) = Gpr(h, Number(r, h.rex), s)
      BY <3>7 DEF RmIs
    <3>6. Digit(bs, h) = g /\ After(bs, h) = m + Len(e)
      BY <1>7, <3>2, <3>4 DEF ModrmAt
    <3> QED
      BY <1>9, <1>10, <2>1, <3>1, <3>5, <3>6
  <2>2. ASSUME NEW r \in Regs, NEW d, rm = Mem(r, d, s), Whole(d)
        PROVE  Digit(bs, h) = g /\ After(bs, h) = m + Len(e) /\ RM(bs, h, s) = rm
    <3>1. b = r
      BY <2>2 DEF b, Mem, BaseOf
    <3>2. Held(bs, h.m, encode_modrm(g, Mem(r, d, s))) /\ e = encode_modrm(g, Mem(r, d, s))
      BY <1>2, <1>7, <2>2 DEF e
    <3>3. h.m \in Nat \ {0}
      BY <1>3, <1>7
    <3>4. ModrmAt(bs, h, g, h.m + Len(encode_modrm(g, Mem(r, d, s))))
      BY <1>9, <2>2, <3>2, <3>3, ModrmMem
    <3>7. RmIs(bs, h, s, Mem(Number(r, h.rex), d, s))
      BY <1>9, <2>2, <3>2, <3>3, ModrmMem
    <3>5. RM(bs, h, s) = Mem(Number(r, h.rex), d, s)
      BY <3>7 DEF RmIs
    <3>6. Digit(bs, h) = g /\ After(bs, h) = m + Len(e)
      BY <1>7, <3>2, <3>4 DEF ModrmAt
    <3> QED
      BY <1>9, <2>2, <3>1, <3>5, <3>6
  <2> QED
    BY <2>1, <2>2 DEF IsRM
<1>12. ASSUME NEW z, z = 1 => f < 4 PROVE Field(bs, h, z) = Reg(f, z)
  BY <1>0, <1>9, <1>10, <1>11, <1>12 DEF Field
<1>13. m + Len(e) = p + Len(all)
  <2>1. Len(u) \in Nat /\ Len(v) \in Nat /\ Len(e) \in Nat
    BY <1>1
  <2> QED
    BY <1>2, <1>3, <2>1
<1> QED
  BY <1>0, <1>7, <1>8, <1>11, <1>12, <1>13 DEF Reads, h, all

Sizes == {1, 2, 4, 8}

(* The processor reads i at p and goes on at next.                         *)
ReadAs(bs, p, i, next) == Read(bs, p) = [instr |-> i, next |-> next]

EncodedAs(i, e) == encode_one_instr(i) = e

(* An instruction of prefixes, opcode and ModRM.                           *)
LEMMA FromCoded ==
  ASSUME NEW i, NEW size \in Sizes, NEW f \in Regs, NEW s, NEW rm, IsRM(rm, s), NEW v, NEW o,
         Opcoded(v, o), EncodedAs(i, Coded(size, v, f, rm)),
         \A bs, p, next : Reads(bs, Opcode(bs, p), size, v, o, f, rm, s, next) => ReadAs(bs, p, i, next)
  PROVE  Faithful(i)
<1> DEFINE e == Coded(size, v, f, rm)
<1>1. v \in Seq(Nat)
  BY OpcodeBytes
<1>2. e \in Seq(Nat) /\ Len(e) > 0
  <2>1. e \in Seq(Nat)
    BY <1>1, CodedBytes, Zenon
  <2>2. Len(e) > 0
    BY <1>1, CodedBytes, Zenon
  <2> QED
    BY <2>1, <2>2
<1>3. encode_one_instr(i) = e
  BY DEF EncodedAs
<1> HIDE DEF e
<1>4. ASSUME NEW bs, NEW p \in Nat \ {0}, Held(bs, p, e)
      PROVE  Read(bs, p) = [instr |-> i, next |-> p + Len(e)]
  <2>1. Held(bs, p, Coded(size, v, f, rm))
    BY <1>4 DEF e
  <2>2. Reads(bs, Opcode(bs, p), size, v, o, f, rm, s, p + Len(Coded(size, v, f, rm)))
    BY <2>1, CodedRead DEF Sizes
  <2>3. ReadAs(bs, p, i, p + Len(Coded(size, v, f, rm)))
    BY <2>2, Zenon
  <2> QED
    BY <2>3, Zenon DEF ReadAs, e
<1> QED
  BY <1>2, <1>3, <1>4, Zenon DEF Faithful

(* The same with a number behind it.                                       *)
Number_(bs, q, x, n) == SignedAt(bs, q, n) = x
Fitting(x, n) == \/ n = 1 /\ x \in Int /\ fits_int8(x)
                 \/ n = 4 /\ Whole(x)
                 \/ n = 8 /\ Whole(x) /\ 0 <= x

(* The bytes of an immediate.                                              *)
LEMMA NumberBytes ==
  ASSUME NEW x, NEW n, Fitting(x, n)
  PROVE  /\ emit_imm_lend(x, n) \in Seq(Nat) /\ Len(emit_imm_lend(x, n)) = n /\ n \in Nat
         /\ \A bs : \A q \in Nat \ {0} : Held(bs, q, emit_imm_lend(x, n)) => Number_(bs, q, x, n)
<1>1. x \in Int /\ n \in Nat
  BY DEF Fitting, Whole
<1>2. emit_imm_lend(x, n) \in Seq(Nat) /\ Len(emit_imm_lend(x, n)) = n
  BY <1>1, ImmBytes DEF BytesOf
<1>3. ASSUME NEW bs, NEW q \in Nat \ {0}, Held(bs, q, emit_imm_lend(x, n))
      PROVE  Number_(bs, q, x, n)
  BY <1>3, HeldNumber DEF Fitting, Number_
<1> QED
  BY <1>1, <1>2, <1>3

(* From the bytes to the instruction they are read as.                     *)
LEMMA FromCodedNumber ==
  ASSUME NEW i, NEW size \in Sizes, NEW f \in Regs, NEW s, NEW rm, IsRM(rm, s), NEW v, NEW o,
         Opcoded(v, o), NEW x, NEW n, Fitting(x, n),
         EncodedAs(i, Coded(size, v, f, rm) \o emit_imm_lend(x, n)),
         \A bs, p, q : Reads(bs, Opcode(bs, p), size, v, o, f, rm, s, q) /\ Number_(bs, q, x, n)
                         => ReadAs(bs, p, i, q + n)
  PROVE  Faithful(i)
<1> DEFINE c == Coded(size, v, f, rm)
           y == emit_imm_lend(x, n)
           e == c \o y
<1>1. v \in Seq(Nat)
  BY OpcodeBytes
<1>2. c \in Seq(Nat) /\ Len(c) > 0
  <2>1. c \in Seq(Nat)
    BY <1>1, CodedBytes, Zenon
  <2>2. Len(c) > 0
    BY <1>1, CodedBytes, Zenon
  <2> QED
    BY <2>1, <2>2
<1>3. encode_one_instr(i) = e
  BY DEF EncodedAs
<1>4. y \in Seq(Nat) /\ Len(y) = n /\ n \in Nat
  BY NumberBytes
<1>5. e \in Seq(Nat) /\ Len(e) = Len(c) + n /\ Len(e) > 0
  <2> HIDE DEF c, y
  <2> QED
    BY <1>2, <1>4
<1>6. ASSUME NEW bs, NEW p \in Nat \ {0}, Held(bs, p, e)
      PROVE  Read(bs, p) = [instr |-> i, next |-> p + Len(e)]
  <2>1. Held(bs, p, c) /\ Held(bs, p + Len(c), y)
    <3> HIDE DEF c, y
    <3> QED
      BY <1>2, <1>4, <1>6, HeldJoin
  <2>2. Reads(bs, Opcode(bs, p), size, v, o, f, rm, s, p + Len(c))
    BY <2>1, CodedRead DEF Sizes
  <2>3. p + Len(c) \in Nat \ {0}
    <3> HIDE DEF c
    <3> QED
      BY <1>2
  <2>4. Number_(bs, p + Len(c), x, n)
    BY <2>1, <2>3, NumberBytes
  <2> HIDE DEF c, e
  <2>5. ReadAs(bs, p, i, p + Len(c) + n)
    BY <2>2, <2>4, Zenon DEF c
  <2>6. p + Len(c) + n = p + Len(e)
    BY <1>2, <1>4, <1>5
  <2> QED
    BY <2>5, <2>6 DEF ReadAs
<1> QED
  BY <1>3, <1>5, <1>6, Zenon DEF Faithful

-----------------------------------------------------------------------------
(*****************************************************************************)
(* Opcodes                                                                  *)
(*****************************************************************************)
(* Which of the opcodes of ReadOne it is.                                  *)
Only(op, n) ==
  /\ (op < 64 /\ op % 8 < 4) <=> n = 0
  /\ Is(op, 80) <=> n = 1
  /\ Is(op, 88) <=> n = 2
  /\ op \in {105, 107} <=> n = 3
  /\ op \in {128, 129, 131} <=> n = 4
  /\ op \in {132, 133} <=> n = 5
  /\ op \in 136 .. 139 <=> n = 6
  /\ op = 141 <=> n = 7
  /\ op = 152 <=> n = 8
  /\ op = 153 <=> n = 9
  /\ op = 164 <=> n = 10
  /\ op = 170 <=> n = 11
  /\ Is(op, 176) <=> n = 12
  /\ Is(op, 184) <=> n = 13
  /\ op = 195 <=> n = 14
  /\ op = 198 <=> n = 15
  /\ op = 199 <=> n = 16
  /\ op = 232 <=> n = 17
  /\ op = 233 <=> n = 18
  /\ op \in {246, 247} <=> n = 19

AnySize(h) == IF h.op % 2 = 0 THEN 1 ELSE h.size

(* What ReadOne makes of each.                                             *)
OneIs(bs, h, x) == ReadOne(bs, h) = x

LEMMA OneArith ==
  ASSUME NEW bs, NEW h, Only(h.op, 0)
  PROVE  OneIs(bs, h,
           IF h.op % 4 < 2 THEN Ended(bs, h, Group1[h.op \div 8 + 1], <<RM(bs, h, AnySize(h)), Field(bs, h, AnySize(h))>>)
                 ELSE Ended(bs, h, Group1[h.op \div 8 + 1], <<Field(bs, h, AnySize(h)), RM(bs, h, AnySize(h))>>))
  BY SMTT(30) DEF OneIs, ReadOne, Only, AnySize

LEMMA OnePush ==
  ASSUME NEW bs, NEW h, Only(h.op, 1)
  PROVE  OneIs(bs, h,
           Plain(h, "PUSH", <<Reg((h.op % 8) + 8 * (h.rex % 2), 8)>>))
  BY SMTT(30) DEF OneIs, ReadOne, Only, AnySize

LEMMA OnePop ==
  ASSUME NEW bs, NEW h, Only(h.op, 2)
  PROVE  OneIs(bs, h,
           Plain(h, "POP", <<Reg((h.op % 8) + 8 * (h.rex % 2), 8)>>))
  BY SMTT(30) DEF OneIs, ReadOne, Only, AnySize

LEMMA OneImul ==
  ASSUME NEW bs, NEW h, Only(h.op, 3)
  PROVE  OneIs(bs, h,
           WithImm(bs, "IMUL", Field(bs, h, h.size), After(bs, h), IF h.op = 107 THEN 1 ELSE IF h.size = 2 THEN 2 ELSE 4))
  BY SMTT(30) DEF OneIs, ReadOne, Only, AnySize

LEMMA OneDigits ==
  ASSUME NEW bs, NEW h, Only(h.op, 4)
  PROVE  OneIs(bs, h,
           WithImm(bs, Group1[Digit(bs, h) + 1], RM(bs, h, AnySize(h)), After(bs, h),
                 IF h.op = 129 THEN (IF h.size = 2 THEN 2 ELSE 4) ELSE 1))
  BY SMTT(30) DEF OneIs, ReadOne, Only, AnySize

LEMMA OneTest ==
  ASSUME NEW bs, NEW h, Only(h.op, 5)
  PROVE  OneIs(bs, h,
           Ended(bs, h, "TEST", <<RM(bs, h, AnySize(h)), Field(bs, h, AnySize(h))>>))
  BY SMTT(30) DEF OneIs, ReadOne, Only, AnySize

LEMMA OneMov ==
  ASSUME NEW bs, NEW h, Only(h.op, 6)
  PROVE  OneIs(bs, h,
           IF h.op % 4 < 2 THEN Ended(bs, h, "MOV", <<RM(bs, h, AnySize(h)), Field(bs, h, AnySize(h))>>)
                 ELSE Ended(bs, h, "MOV", <<Field(bs, h, AnySize(h)), RM(bs, h, AnySize(h))>>))
  BY SMTT(30) DEF OneIs, ReadOne, Only, AnySize

LEMMA OneLea ==
  ASSUME NEW bs, NEW h, Only(h.op, 7)
  PROVE  OneIs(bs, h,
           Ended(bs, h, "LEA", <<Field(bs, h, h.size), RM(bs, h, 8)>>))
  BY SMTT(30) DEF OneIs, ReadOne, Only, AnySize

LEMMA OneCdqe ==
  ASSUME NEW bs, NEW h, Only(h.op, 8)
  PROVE  OneIs(bs, h,
           Plain(h, IF h.wide THEN "CDQE" ELSE "CWDE", <<>>))
  BY SMTT(30) DEF OneIs, ReadOne, Only, AnySize

LEMMA OneCqo ==
  ASSUME NEW bs, NEW h, Only(h.op, 9)
  PROVE  OneIs(bs, h,
           Plain(h, IF h.wide THEN "CQO" ELSE "CDQ", <<>>))
  BY SMTT(30) DEF OneIs, ReadOne, Only, AnySize

LEMMA OneMovsb ==
  ASSUME NEW bs, NEW h, Only(h.op, 10)
  PROVE  OneIs(bs, h,
           Plain(h, IF h.rep THEN "REP_MOVSB" ELSE "MOVSB", <<>>))
  BY SMTT(30) DEF OneIs, ReadOne, Only, AnySize

LEMMA OneStosb ==
  ASSUME NEW bs, NEW h, Only(h.op, 11)
  PROVE  OneIs(bs, h,
           Plain(h, IF h.rep THEN "REP_STOSB" ELSE "STOSB", <<>>))
  BY SMTT(30) DEF OneIs, ReadOne, Only, AnySize

LEMMA OneMovImm ==
  ASSUME NEW bs, NEW h, Only(h.op, 13)
  PROVE  OneIs(bs, h,
           WithImm(bs, "MOV", Reg((h.op % 8) + 8 * (h.rex % 2), h.size), h.m, h.size))
  BY SMTT(30) DEF OneIs, ReadOne, Only, AnySize

LEMMA OneRet ==
  ASSUME NEW bs, NEW h, Only(h.op, 14)
  PROVE  OneIs(bs, h,
           Plain(h, "RET", <<>>))
  BY SMTT(30) DEF OneIs, ReadOne, Only, AnySize

LEMMA OneCall ==
  ASSUME NEW bs, NEW h, Only(h.op, 17)
  PROVE  OneIs(bs, h,
           Far(h, "CALL"))
  BY SMTT(30) DEF OneIs, ReadOne, Only, AnySize

LEMMA OneJmp ==
  ASSUME NEW bs, NEW h, Only(h.op, 18)
  PROVE  OneIs(bs, h,
           Far(h, "JMP"))
  BY SMTT(30) DEF OneIs, ReadOne, Only, AnySize

LEMMA OneUnary ==
  ASSUME NEW bs, NEW h, Only(h.op, 19), Digit(bs, h) > 1
  PROVE  OneIs(bs, h, Ended(bs, h, Group3[Digit(bs, h) + 1], <<RM(bs, h, AnySize(h))>>))
  BY SMTT(30) DEF OneIs, ReadOne, Only, AnySize

TwoIs(bs, h, x) == ReadTwo(bs, h) = x
OnlyTwo(op, n) ==
  /\ op = 5 <=> n = 0
  /\ op \in 128 .. 143 <=> n = 1
  /\ op \in 144 .. 159 <=> n = 2
  /\ op = 175 <=> n = 3
  /\ op \in {182, 183} <=> n = 4
  /\ op \in {190, 191} <=> n = 5

LEMMA TwoSyscall ==
  ASSUME NEW bs, NEW h, OnlyTwo(h.op, 0)
  PROVE  TwoIs(bs, h,
           Plain(h, "SYSCALL", <<>>))
  BY SMTT(30) DEF TwoIs, ReadTwo, OnlyTwo

LEMMA TwoJcc ==
  ASSUME NEW bs, NEW h, OnlyTwo(h.op, 1)
  PROVE  TwoIs(bs, h,
           Far(h, JumpCmd[h.op - 127]))
  BY SMTT(30) DEF TwoIs, ReadTwo, OnlyTwo

LEMMA TwoSetcc ==
  ASSUME NEW bs, NEW h, OnlyTwo(h.op, 2)
  PROVE  TwoIs(bs, h,
           Ended(bs, h, SetCmd[h.op - 143], <<RM(bs, h, 1)>>))
  BY SMTT(30) DEF TwoIs, ReadTwo, OnlyTwo

LEMMA TwoImul ==
  ASSUME NEW bs, NEW h, OnlyTwo(h.op, 3)
  PROVE  TwoIs(bs, h,
           Ended(bs, h, "IMUL", <<Field(bs, h, h.size), RM(bs, h, h.size)>>))
  BY SMTT(30) DEF TwoIs, ReadTwo, OnlyTwo

LEMMA TwoMovzx ==
  ASSUME NEW bs, NEW h, OnlyTwo(h.op, 4)
  PROVE  TwoIs(bs, h,
           Ended(bs, h, "MOVZX", <<Field(bs, h, h.size), RM(bs, h, IF h.op = 182 THEN 1 ELSE 2)>>))
  BY SMTT(30) DEF TwoIs, ReadTwo, OnlyTwo

LEMMA TwoMovsx ==
  ASSUME NEW bs, NEW h, OnlyTwo(h.op, 5)
  PROVE  TwoIs(bs, h,
           Ended(bs, h, "MOVSX", <<Field(bs, h, h.size), RM(bs, h, IF h.op = 190 THEN 1 ELSE 2)>>))
  BY SMTT(30) DEF TwoIs, ReadTwo, OnlyTwo

(* Which emit_ function an instruction goes to.                            *)
LEMMA AluEncoded ==
  ASSUME NEW cmd \in {"MOV", "ADD", "SUB", "XOR", "CMP", "TEST"}, NEW x, NEW y
  PROVE  EncodedAs(Op(cmd, x, y), emit_alu_two_op(cmd, x, y))
<1> DEFINE i == Op(cmd, x, y)
<1>1. i.cmd = cmd /\ i.args[1] = x /\ i.args[2] = y
  BY DEF Op, Instr
<1>2. DOMAIN DESC = {"MOV", "ADD", "SUB", "XOR", "AND", "CMP", "TEST"}
  BY DEF DESC
<1> HIDE DEF i
<1>3. encode_one_instr(i) = emit_alu_two_op(cmd, x, y)
  BY <1>1, <1>2 DEF encode_one_instr
<1> QED
  BY <1>3 DEF EncodedAs, i

(* The instructions that have an emit_ function of their own.              *)
LEMMA OthersEncoded ==
  ASSUME NEW x, NEW y
  PROVE  /\ EncodedAs(Op("LEA", x, y), emit_lea(x, y))
         /\ EncodedAs(Op("IMUL", x, y), emit_imul(x, y))
         /\ EncodedAs(Op("MOVZX", x, y), emit_movzx_movsx(x, y, FALSE))
         /\ EncodedAs(Op("MOVSX", x, y), emit_movzx_movsx(x, y, TRUE))
         /\ \A cmd \in {"PUSH", "POP"} : EncodedAs(One(cmd, x), emit_stack_oper(cmd, x))
         /\ EncodedAs(One("NEG", x), emit_unary_digit(x, 3))
         /\ EncodedAs(One("IDIV", x), emit_unary_digit(x, 7))
         /\ \A cmd \in {"SETE", "SETNE", "SETL", "SETGE", "SETLE", "SETG"} :
              EncodedAs(One(cmd, x), emit_setcc(x, CC[cmd]))
         /\ \A cmd \in {"JMP", "JZ", "JNZ", "CALL"} : EncodedAs(One(cmd, x), emit_branch_rel32(cmd))
         /\ \A cmd \in {"RET", "SYSCALL", "CDQE", "CQO", "REP_STOSB", "REP_MOVSB"} :
              EncodedAs(Alone(cmd), emit_zero_op(cmd))
<1>0. DOMAIN DESC = {"MOV", "ADD", "SUB", "XOR", "AND", "CMP", "TEST"}
  BY DEF DESC
<1>1. EncodedAs(Op("LEA", x, y), emit_lea(x, y))
  BY <1>0 DEF EncodedAs, encode_one_instr, Op, Instr
<1>2. EncodedAs(Op("IMUL", x, y), emit_imul(x, y))
  BY <1>0 DEF EncodedAs, encode_one_instr, Op, Instr
<1>3. EncodedAs(Op("MOVZX", x, y), emit_movzx_movsx(x, y, FALSE))
  BY <1>0 DEF EncodedAs, encode_one_instr, Op, Instr
<1>4. EncodedAs(Op("MOVSX", x, y), emit_movzx_movsx(x, y, TRUE))
  BY <1>0 DEF EncodedAs, encode_one_instr, Op, Instr
<1>5. ASSUME NEW cmd \in {"PUSH", "POP"} PROVE EncodedAs(One(cmd, x), emit_stack_oper(cmd, x))
  BY <1>0 DEF EncodedAs, encode_one_instr, One, Instr
<1>6. EncodedAs(One("NEG", x), emit_unary_digit(x, 3))
  BY <1>0 DEF EncodedAs, encode_one_instr, One, Instr
<1>7. EncodedAs(One("IDIV", x), emit_unary_digit(x, 7))
  BY <1>0 DEF EncodedAs, encode_one_instr, One, Instr
<1>8. ASSUME NEW cmd \in {"SETE", "SETNE", "SETL", "SETGE", "SETLE", "SETG"}
      PROVE  EncodedAs(One(cmd, x), emit_setcc(x, CC[cmd]))
  BY <1>0 DEF EncodedAs, encode_one_instr, One, Instr
<1>9. ASSUME NEW cmd \in {"JMP", "JZ", "JNZ", "CALL"}
      PROVE  EncodedAs(One(cmd, x), emit_branch_rel32(cmd))
  BY <1>0 DEF EncodedAs, encode_one_instr, One, Instr
<1>10. ASSUME NEW cmd \in {"RET", "SYSCALL", "CDQE", "CQO", "REP_STOSB", "REP_MOVSB"}
       PROVE  EncodedAs(Alone(cmd), emit_zero_op(cmd))
  BY <1>0 DEF EncodedAs, encode_one_instr, Alone, Instr
<1> QED
  BY <1>1, <1>2, <1>3, <1>4, <1>5, <1>6, <1>7, <1>8, <1>9, <1>10

-----------------------------------------------------------------------------
(*****************************************************************************)
(* Single instructions                                                      *)
(*****************************************************************************)
(* An opcode of one byte is read by ReadOne.                               *)
LEMMA ReadsOne ==
  ASSUME NEW bs, NEW p, NEW size, NEW v, NEW o, NEW f, NEW rm, NEW s, NEW next, Len(v) = 1,
         Reads(bs, Opcode(bs, p), size, v, o, f, rm, s, next), NEW x, NEW i,
         OneIs(bs, Opcode(bs, p), x), x = [instr |-> i, next |-> next]
  PROVE  ReadAs(bs, p, i, next)
<1>1. ~Opcode(bs, p).two
  <2>1. Len(v) # 2
    OBVIOUS
  <2> QED
    BY <2>1, Zenon DEF Reads
<1> QED
  BY <1>1 DEF ReadAs, Read, OneIs

(* An opcode of two bytes is read by ReadTwo.                              *)
LEMMA ReadsTwo ==
  ASSUME NEW bs, NEW p, NEW size, NEW v, NEW o, NEW f, NEW rm, NEW s, NEW next, Len(v) = 2,
         Reads(bs, Opcode(bs, p), size, v, o, f, rm, s, next), NEW x, NEW i,
         TwoIs(bs, Opcode(bs, p), x), x = [instr |-> i, next |-> next]
  PROVE  ReadAs(bs, p, i, next)
<1>1. Opcode(bs, p).two
  BY Zenon DEF Reads
<1> QED
  BY <1>1 DEF ReadAs, Read, TwoIs

(* Which opcodes are of one byte.                                          *)
LEMMA OneOpcode ==
  ASSUME NEW o, Opens(o), o # 15
  PROVE  Opcoded(<<o>>, o) /\ Len(<<o>>) = 1
  BY DEF Opcoded

(* Which opcodes are of two.                                               *)
LEMMA TwoOpcode ==
  ASSUME NEW o \in Nat
  PROVE  Opcoded(<<15, o>>, o) /\ Len(<<15, o>>) = 2
  BY DEF Opcoded

(* Two operands of one size: a register and one more.                      *)
Alu(cmd, w) == CASE cmd = "MOV" -> 136 + w [] cmd = "ADD" -> w [] cmd = "SUB" -> 40 + w
                 [] cmd = "XOR" -> 48 + w [] cmd = "CMP" -> 56 + w [] cmd = "TEST" -> 132 + w

(* ADD, SUB, CMP, AND, OR and XOR of registers and MOV to memory.          *)
LEMMA AluFaithful ==
  ASSUME NEW cmd \in {"MOV", "ADD", "SUB", "XOR", "CMP", "TEST"}, NEW size \in Sizes,
         NEW f \in Regs, size = 1 => f < 4, NEW rm, IsRM(rm, size)
  PROVE  Faithful(Op(cmd, rm, Reg(f, size)))
<1> DEFINE w == IF size = 1 THEN 0 ELSE 1
           o == Alu(cmd, w)
           i == Op(cmd, rm, Reg(f, size))
<1>1. /\ o \in Nat /\ Opens(o) /\ o # 15 /\ o % 2 = w /\ o % 4 < 2
      /\ cmd = "MOV" => Only(o, 6)
      /\ cmd = "TEST" => Only(o, 5)
      /\ cmd \in {"ADD", "SUB", "XOR", "CMP"} => Only(o, 0) /\ Group1[o \div 8 + 1] = cmd
  <2>1. w \in {0, 1}
    OBVIOUS
  <2> HIDE DEF w
  <2>2. CASE cmd = "MOV"
    BY <2>1, <2>2 DEF Alu, Opens, Only, Is
  <2>3. CASE cmd = "TEST"
    BY <2>1, <2>3 DEF Alu, Opens, Only, Is
  <2>4. CASE cmd = "ADD"
    BY <2>1, <2>4 DEF Alu, Opens, Only, Is, Group1
  <2>5. CASE cmd = "SUB"
    BY <2>1, <2>5 DEF Alu, Opens, Only, Is, Group1
  <2>6. CASE cmd = "XOR"
    BY <2>1, <2>6 DEF Alu, Opens, Only, Is, Group1
  <2>7. CASE cmd = "CMP"
    BY <2>1, <2>7 DEF Alu, Opens, Only, Is, Group1
  <2> QED
    BY <2>2, <2>3, <2>4, <2>5, <2>6, <2>7
<1>2. EncodedAs(i, Coded(size, <<o>>, f, rm))
  <2>1. rm.size = size /\ Reg(f, size).kind = "reg" /\ Reg(f, size).reg = f
    BY DEF IsRM, Reg, Mem
  <2>2. DESC[cmd].op + w = o /\ DESC[cmd].op + 0 + w = o
    BY DEF DESC, Alu
  <2> HIDE DEF o
  <2>3. emit_alu_two_op(cmd, rm, Reg(f, size)) = Coded(size, <<o>>, f, rm)
    BY <2>1, <2>2 DEF emit_alu_two_op, get_operand_size
  <2> QED
    BY <2>3, AluEncoded DEF EncodedAs
<1>3. ASSUME NEW bs, NEW p, NEW next, Reads(bs, Opcode(bs, p), size, <<o>>, o, f, rm, size, next)
      PROVE  ReadAs(bs, p, i, next)
  <2> DEFINE h == Opcode(bs, p)
  <2> HIDE DEF o, w
  <2>1. h.op = o /\ h.size = (IF size = 1 THEN 4 ELSE size) /\ After(bs, h) = next
    BY <1>3 DEF Reads
  <2>2. Field(bs, h, size) = Reg(f, size) /\ RM(bs, h, size) = rm
    BY <1>3 DEF Reads
  <2>3. AnySize(h) = size
    BY <1>1, <2>1 DEF AnySize, w
  <2> HIDE DEF h
  <2>4. ASSUME cmd = "MOV"
        PROVE  OneIs(bs, h, Ended(bs, h, cmd, <<rm, Reg(f, size)>>))
    <3>1. Only(h.op, 6) /\ h.op % 4 < 2
      BY <1>1, <2>1, <2>4
    <3> QED
      BY <2>2, <2>3, <2>4, <3>1, OneMov
  <2>5. ASSUME cmd = "TEST"
        PROVE  OneIs(bs, h, Ended(bs, h, cmd, <<rm, Reg(f, size)>>))
    <3>1. Only(h.op, 5)
      BY <1>1, <2>1, <2>5
    <3> QED
      BY <2>2, <2>3, <2>5, <3>1, OneTest
  <2>6. ASSUME cmd \in {"ADD", "SUB", "XOR", "CMP"}
        PROVE  OneIs(bs, h, Ended(bs, h, cmd, <<rm, Reg(f, size)>>))
    <3>1. Only(h.op, 0) /\ h.op % 4 < 2 /\ Group1[h.op \div 8 + 1] = cmd
      BY <1>1, <2>1, <2>6
    <3> QED
      BY <2>2, <2>3, <3>1, OneArith
  <2>7. OneIs(bs, h, Ended(bs, h, cmd, <<rm, Reg(f, size)>>))
    BY <2>4, <2>5, <2>6
  <2>8. Ended(bs, h, cmd, <<rm, Reg(f, size)>>) = [instr |-> i, next |-> next]
    BY <2>1 DEF Ended, Op
  <2>9. Len(<<o>>) = 1
    OBVIOUS
  <2> QED
    BY <1>3, <2>7, <2>8, <2>9, ReadsOne DEF h
<1>4. Opcoded(<<o>>, o)
  BY <1>1, OneOpcode
<1> HIDE DEF o
<1> QED
  BY <1>2, <1>3, <1>4, FromCoded, Zenon

(* MOV from memory.                                                        *)
LEMMA LoadFaithful ==
  ASSUME NEW size \in Sizes, NEW f \in Regs, size = 1 => f < 4, NEW r \in Regs, NEW d, Whole(d)
  PROVE  Faithful(Op("MOV", Reg(f, size), Mem(r, d, size)))
<1> DEFINE w == IF size = 1 THEN 0 ELSE 1
           o == 138 + w
           rm == Mem(r, d, size)
           i == Op("MOV", Reg(f, size), rm)
<1>0. IsRM(rm, size)
  BY DEF IsRM
<1>1. o \in Nat /\ Opens(o) /\ o # 15 /\ o % 2 = w /\ ~(o % 4 < 2) /\ Only(o, 6)
  <2>1. w \in {0, 1}
    OBVIOUS
  <2> HIDE DEF w
  <2> QED
    BY <2>1 DEF Opens, Only, Is
<1>2. EncodedAs(i, Coded(size, <<o>>, f, rm))
  <2>1. rm.kind = "mem" /\ Reg(f, size).size = size /\ Reg(f, size).kind = "reg" /\ Reg(f, size).reg = f
    BY DEF Reg, Mem
  <2>2. DESC["MOV"].op + 2 + w = o
    BY DEF DESC
  <2> HIDE DEF o, rm
  <2>3. emit_alu_two_op("MOV", Reg(f, size), rm) = Coded(size, <<o>>, f, rm)
    BY <2>1, <2>2 DEF emit_alu_two_op, get_operand_size
  <2> QED
    BY <2>3, AluEncoded DEF EncodedAs
<1> HIDE DEF o, rm, w
<1>3. ASSUME NEW bs, NEW p, NEW next, Reads(bs, Opcode(bs, p), size, <<o>>, o, f, rm, size, next)
      PROVE  ReadAs(bs, p, i, next)
  <2> DEFINE h == Opcode(bs, p)
  <2>1. h.op = o /\ h.size = (IF size = 1 THEN 4 ELSE size) /\ After(bs, h) = next
    BY <1>3 DEF Reads
  <2>2. Field(bs, h, size) = Reg(f, size) /\ RM(bs, h, size) = rm
    BY <1>3 DEF Reads
  <2>3. AnySize(h) = size
    BY <1>1, <2>1 DEF AnySize, w
  <2> HIDE DEF h
  <2>4. Only(h.op, 6) /\ ~(h.op % 4 < 2)
    BY <1>1, <2>1
  <2>7. OneIs(bs, h, Ended(bs, h, "MOV", <<Reg(f, size), rm>>))
    BY <2>2, <2>3, <2>4, OneMov
  <2>8. Ended(bs, h, "MOV", <<Reg(f, size), rm>>) = [instr |-> i, next |-> next]
    BY <2>1 DEF Ended, Op
  <2>9. Len(<<o>>) = 1
    OBVIOUS
  <2> QED
    BY <1>3, <2>7, <2>8, <2>9, ReadsOne DEF h
<1>4. Opcoded(<<o>>, o)
  BY <1>1, OneOpcode
<1>5. Faithful(i)
  BY <1>0, <1>2, <1>3, <1>4, FromCoded, Zenon
<1> QED
  BY <1>5 DEF rm

(* LEA of a place in the frame.                                            *)
LEMMA LeaFaithful ==
  ASSUME NEW f \in Regs, NEW r \in Regs, NEW d, Whole(d)
  PROVE  Faithful(Op("LEA", R(f), Mem(r, d, 8)))
<1> DEFINE o == 141
           rm == Mem(r, d, 8)
           i == Op("LEA", R(f), rm)
<1>0. IsRM(rm, 8) /\ 8 \in Sizes /\ 8 # 1
  BY DEF IsRM, Sizes
<1>1. o \in Nat /\ Opens(o) /\ o # 15 /\ Only(o, 7)
  BY DEF Opens, Only, Is
<1>2. EncodedAs(i, Coded(8, <<o>>, f, rm))
  <2>1. rm.kind = "mem" /\ R(f).reg = f
    BY DEF R, Reg, Mem
  <2> HIDE DEF rm
  <2>3. emit_lea(R(f), rm) = Coded(8, <<o>>, f, rm)
    BY <2>1 DEF emit_lea
  <2> QED
    BY <2>3, OthersEncoded DEF EncodedAs
<1> HIDE DEF o, rm
<1>3. ASSUME NEW bs, NEW p, NEW next, Reads(bs, Opcode(bs, p), 8, <<o>>, o, f, rm, 8, next)
      PROVE  ReadAs(bs, p, i, next)
  <2> DEFINE h == Opcode(bs, p)
  <2>1. h.op = o /\ h.size = 8 /\ After(bs, h) = next
    BY <1>3 DEF Reads
  <2>2. Field(bs, h, 8) = R(f) /\ RM(bs, h, 8) = rm
    BY <1>3 DEF Reads, R
  <2> HIDE DEF h
  <2>7. OneIs(bs, h, Ended(bs, h, "LEA", <<R(f), rm>>))
    BY <1>1, <2>1, <2>2, OneLea
  <2>8. Ended(bs, h, "LEA", <<R(f), rm>>) = [instr |-> i, next |-> next]
    BY <2>1 DEF Ended, Op
  <2>9. Len(<<o>>) = 1
    OBVIOUS
  <2> QED
    BY <1>3, <2>7, <2>8, <2>9, ReadsOne DEF h
<1>4. Opcoded(<<o>>, o)
  BY <1>1, OneOpcode
<1>5. Faithful(i)
  BY <1>0, <1>2, <1>3, <1>4, FromCoded, Zenon
<1> QED
  BY <1>5 DEF rm

(* IMUL of two registers.                                                  *)
LEMMA ImulFaithful ==
  ASSUME NEW f \in Regs, NEW r \in Regs
  PROVE  Faithful(Op("IMUL", R(f), R(r)))
<1> DEFINE o == 175
           v == <<15, o>>
           i == Op("IMUL", R(f), R(r))
<1>0. IsRM(R(r), 8) /\ 8 \in Sizes /\ 8 # 1
  BY DEF IsRM, Sizes, R
<1>1. o \in Nat /\ OnlyTwo(o, 3)
  BY DEF OnlyTwo
<1>2. EncodedAs(i, Coded(8, v, f, R(r)))
  <2>1. R(r).kind = "reg" /\ R(f).reg = f /\ R(f).size = 8
    BY DEF R, Reg
  <2>3. emit_imul(R(f), R(r)) = Coded(8, v, f, R(r))
    BY <2>1 DEF emit_imul
  <2> QED
    BY <2>3, OthersEncoded DEF EncodedAs
<1>4. Opcoded(v, o) /\ Len(v) = 2
  BY <1>1, TwoOpcode
<1> HIDE DEF o, v
<1>3. ASSUME NEW bs, NEW p, NEW next, Reads(bs, Opcode(bs, p), 8, v, o, f, R(r), 8, next)
      PROVE  ReadAs(bs, p, i, next)
  <2> DEFINE h == Opcode(bs, p)
  <2>1. h.op = o /\ h.size = 8 /\ After(bs, h) = next
    BY <1>3 DEF Reads
  <2>2. Field(bs, h, 8) = R(f) /\ RM(bs, h, 8) = R(r)
    BY <1>3 DEF Reads, R
  <2> HIDE DEF h
  <2>7. TwoIs(bs, h, Ended(bs, h, "IMUL", <<R(f), R(r)>>))
    BY <1>1, <2>1, <2>2, TwoImul
  <2>8. Ended(bs, h, "IMUL", <<R(f), R(r)>>) = [instr |-> i, next |-> next]
    BY <2>1 DEF Ended, Op
  <2> QED
    BY <1>3, <1>4, <2>7, <2>8, ReadsTwo DEF h
<1> QED
  BY <1>0, <1>2, <1>3, <1>4, FromCoded, Zenon

(* MOVZX and MOVSX.                                                        *)
LEMMA ExtendFaithful ==
  ASSUME NEW cmd \in {"MOVZX", "MOVSX"}, NEW z \in {2, 4, 8}, NEW s \in {1, 2}, NEW f \in Regs,
         NEW r \in Regs, s = 1 => r < 4
  PROVE  Faithful(Op(cmd, Reg(f, z), Reg(r, s)))
<1> DEFINE o == (IF cmd = "MOVSX" THEN 190 ELSE 182) + (IF s = 1 THEN 0 ELSE 1)
           v == <<15, o>>
           rm == Reg(r, s)
           i == Op(cmd, Reg(f, z), rm)
<1>0. IsRM(rm, s) /\ z \in Sizes /\ z # 1
  BY DEF IsRM, Sizes
<1>1. /\ o \in Nat
      /\ cmd = "MOVZX" => OnlyTwo(o, 4) /\ (IF o = 182 THEN 1 ELSE 2) = s
      /\ cmd = "MOVSX" => OnlyTwo(o, 5) /\ (IF o = 190 THEN 1 ELSE 2) = s
  <2>1. CASE cmd = "MOVZX"
    BY <2>1 DEF OnlyTwo
  <2>2. CASE cmd = "MOVSX"
    BY <2>2 DEF OnlyTwo
  <2> QED
    BY <2>1, <2>2
<1>2. EncodedAs(i, Coded(z, v, f, rm))
  <2>1. rm.size = s /\ Reg(f, z).reg = f /\ Reg(f, z).size = z
    BY DEF Reg
  <2> HIDE DEF rm
  <2>2. CASE cmd = "MOVZX"
    <3>1. emit_movzx_movsx(Reg(f, z), rm, FALSE) = Coded(z, v, f, rm)
      BY <2>1, <2>2 DEF emit_movzx_movsx
    <3>2. EncodedAs(Op("MOVZX", Reg(f, z), rm), emit_movzx_movsx(Reg(f, z), rm, FALSE))
      BY OthersEncoded, Zenon
    <3> QED
      BY <2>2, <3>1, <3>2
  <2>3. CASE cmd = "MOVSX"
    <3>1. emit_movzx_movsx(Reg(f, z), rm, TRUE) = Coded(z, v, f, rm)
      BY <2>1, <2>3 DEF emit_movzx_movsx
    <3>2. EncodedAs(Op("MOVSX", Reg(f, z), rm), emit_movzx_movsx(Reg(f, z), rm, TRUE))
      BY OthersEncoded, Zenon
    <3> QED
      BY <2>3, <3>1, <3>2
  <2> QED
    BY <2>2, <2>3
<1>4. Opcoded(v, o) /\ Len(v) = 2
  BY <1>1, TwoOpcode
<1> HIDE DEF o, v, rm
<1>3. ASSUME NEW bs, NEW p, NEW next, Reads(bs, Opcode(bs, p), z, v, o, f, rm, s, next)
      PROVE  ReadAs(bs, p, i, next)
  <2> DEFINE h == Opcode(bs, p)
  <2>1. h.op = o /\ h.size = z /\ After(bs, h) = next
    BY <1>0, <1>3 DEF Reads
  <2>2. Field(bs, h, z) = Reg(f, z) /\ RM(bs, h, s) = rm
    BY <1>0, <1>3 DEF Reads
  <2> HIDE DEF h
  <2>4. ASSUME cmd = "MOVZX" PROVE TwoIs(bs, h, Ended(bs, h, cmd, <<Reg(f, z), rm>>))
    <3>1. OnlyTwo(h.op, 4) /\ (IF h.op = 182 THEN 1 ELSE 2) = s
      BY <1>1, <2>1, <2>4
    <3> QED
      BY <2>1, <2>2, <2>4, <3>1, TwoMovzx
  <2>5. ASSUME cmd = "MOVSX" PROVE TwoIs(bs, h, Ended(bs, h, cmd, <<Reg(f, z), rm>>))
    <3>1. OnlyTwo(h.op, 5) /\ (IF h.op = 190 THEN 1 ELSE 2) = s
      BY <1>1, <2>1, <2>5
    <3> QED
      BY <2>1, <2>2, <2>5, <3>1, TwoMovsx
  <2>7. TwoIs(bs, h, Ended(bs, h, cmd, <<Reg(f, z), rm>>))
    BY <2>4, <2>5
  <2>8. Ended(bs, h, cmd, <<Reg(f, z), rm>>) = [instr |-> i, next |-> next]
    BY <2>1 DEF Ended, Op
  <2> QED
    BY <1>3, <1>4, <2>7, <2>8, ReadsTwo DEF h
<1>5. Faithful(i)
  BY <1>0, <1>2, <1>3, <1>4, FromCoded, Zenon
<1> QED
  BY <1>5 DEF rm

SetCommands == {"SETE", "SETNE", "SETL", "SETGE", "SETLE", "SETG"}

(* The SETcc.                                                              *)
LEMMA SetFaithful ==
  ASSUME NEW cmd \in SetCommands
  PROVE  Faithful(One(cmd, Reg(RAX, 1)))
<1> DEFINE o == 144 + CC[cmd]
           v == <<15, o>>
           rm == Reg(RAX, 1)
           i == One(cmd, rm)
<1>0. IsRM(rm, 1) /\ 1 \in Sizes /\ 0 \in Regs
  BY DEF IsRM, Sizes, RAX, Regs
<1>1. o \in Nat /\ OnlyTwo(o, 2) /\ SetCmd[o - 143] = cmd
  BY DEF OnlyTwo, CC, SetCmd, SetCommands
<1>2. EncodedAs(i, Coded(1, v, 0, rm))
  <2>1. emit_setcc(rm, CC[cmd]) = Coded(1, v, 0, rm)
    BY DEF emit_setcc
  <2>2. EncodedAs(One(cmd, rm), emit_setcc(rm, CC[cmd]))
    BY OthersEncoded DEF SetCommands
  <2> QED
    BY <2>1, <2>2
<1>4. Opcoded(v, o) /\ Len(v) = 2
  BY <1>1, TwoOpcode
<1> HIDE DEF o, v, rm
<1>3. ASSUME NEW bs, NEW p, NEW next, Reads(bs, Opcode(bs, p), 1, v, o, 0, rm, 1, next)
      PROVE  ReadAs(bs, p, i, next)
  <2> DEFINE h == Opcode(bs, p)
  <2>1. h.op = o /\ After(bs, h) = next /\ RM(bs, h, 1) = rm
    BY <1>3 DEF Reads
  <2> HIDE DEF h
  <2>7. TwoIs(bs, h, Ended(bs, h, cmd, <<rm>>))
    BY <1>1, <2>1, TwoSetcc
  <2>8. Ended(bs, h, cmd, <<rm>>) = [instr |-> i, next |-> next]
    BY <2>1 DEF Ended, One
  <2> QED
    BY <1>3, <1>4, <2>7, <2>8, ReadsTwo DEF h
<1>5. Faithful(i)
  BY <1>0, <1>2, <1>3, <1>4, FromCoded, Zenon
<1> QED
  BY <1>5 DEF rm

(* NEG, NOT, IDIV, DIV and their like.                                     *)
LEMMA UnaryFaithful ==
  ASSUME NEW cmd \in {"NEG", "IDIV"}, NEW r \in Regs
  PROVE  Faithful(One(cmd, R(r)))
<1> DEFINE o == 247
           f == IF cmd = "NEG" THEN 3 ELSE 7
           i == One(cmd, R(r))
<1>0. IsRM(R(r), 8) /\ 8 \in Sizes /\ f \in Regs /\ 8 # 1
  BY DEF IsRM, Sizes, R, Regs
<1>1. o \in Nat /\ Opens(o) /\ o # 15 /\ Only(o, 19) /\ f % 8 = f /\ f > 1 /\ Group3[f + 1] = cmd
  BY DEF Opens, Only, Is, Group3
<1>2. EncodedAs(i, Coded(8, <<o>>, f, R(r)))
  <2>1. R(r).size = 8
    BY DEF R, Reg
  <2>2. emit_unary_digit(R(r), f) = Coded(8, <<o>>, f, R(r))
    BY <2>1 DEF emit_unary_digit, get_operand_size
  <2>3. EncodedAs(i, emit_unary_digit(R(r), f))
    BY OthersEncoded
  <2> QED
    BY <2>2, <2>3
<1>4. Opcoded(<<o>>, o) /\ Len(<<o>>) = 1 /\ o % 2 = 1
  BY <1>1, OneOpcode
<1> HIDE DEF o, f
<1>3. ASSUME NEW bs, NEW p, NEW next, Reads(bs, Opcode(bs, p), 8, <<o>>, o, f, R(r), 8, next)
      PROVE  ReadAs(bs, p, i, next)
  <2> DEFINE h == Opcode(bs, p)
  <2>1. h.op = o /\ h.size = 8 /\ After(bs, h) = next /\ RM(bs, h, 8) = R(r) /\ Digit(bs, h) = f
    BY <1>1, <1>3 DEF Reads
  <2> HIDE DEF h
  <2>2. AnySize(h) = 8 /\ Only(h.op, 19) /\ Digit(bs, h) > 1
    BY <1>1, <1>4, <2>1 DEF AnySize
  <2>7. OneIs(bs, h, Ended(bs, h, cmd, <<R(r)>>))
    BY <1>1, <2>1, <2>2, OneUnary
  <2>8. Ended(bs, h, cmd, <<R(r)>>) = [instr |-> i, next |-> next]
    BY <2>1 DEF Ended, One
  <2> QED
    BY <1>3, <1>4, <2>7, <2>8, ReadsOne DEF h
<1> QED
  BY <1>0, <1>2, <1>3, <1>4, FromCoded, Zenon

(* ADD and the others of an immediate, of one byte or four.                *)
LEMMA AluImmFaithful ==
  ASSUME NEW cmd \in {"ADD", "SUB"}, NEW r \in Regs, NEW x, Whole(x)
  PROVE  Faithful(Op(cmd, R(r), Imm(x)))
<1> DEFINE narrow == fits_int8(x)
           o == IF narrow THEN 131 ELSE 129
           n == IF narrow THEN 1 ELSE 4
           f == IF cmd = "ADD" THEN 0 ELSE 5
           i == Op(cmd, R(r), Imm(x))
<1>0. IsRM(R(r), 8) /\ 8 \in Sizes /\ f \in Regs /\ 8 # 1
  BY DEF IsRM, Sizes, R, Regs
<1>1. /\ o \in Nat /\ Opens(o) /\ o # 15 /\ Only(o, 4) /\ o % 2 = 1
      /\ (IF o = 129 THEN 4 ELSE 1) = n /\ f % 8 = f /\ Group1[f + 1] = cmd
  <2> HIDE DEF narrow
  <2> QED
    BY DEF Opens, Only, Is, Group1
<1>2. EncodedAs(i, Coded(8, <<o>>, f, R(r)) \o emit_imm_lend(x, n))
  <2>1. /\ R(r).size = 8 /\ R(r).kind = "reg" /\ Imm(x).kind = "imm" /\ Imm(x).imm = x
        /\ DESC[cmd].digit = f
    BY DEF R, Reg, Imm, DESC
  <2>2. emit_alu_imm(cmd, R(r), x) = Coded(8, <<o>>, f, R(r)) \o emit_imm_lend(x, n)
    BY <2>1 DEF emit_alu_imm, get_operand_size
  <2>3. emit_alu_two_op(cmd, R(r), Imm(x)) = emit_alu_imm(cmd, R(r), x)
    BY <2>1 DEF emit_alu_two_op
  <2>4. EncodedAs(i, emit_alu_two_op(cmd, R(r), Imm(x)))
    BY AluEncoded
  <2> QED
    BY <2>2, <2>3, <2>4
<1>3. Fitting(x, n)
  BY DEF Fitting, Whole
<1>4. Opcoded(<<o>>, o) /\ Len(<<o>>) = 1
  BY <1>1, OneOpcode
<1> HIDE DEF o, f, n, narrow
<1>5. ASSUME NEW bs, NEW p, NEW q, Reads(bs, Opcode(bs, p), 8, <<o>>, o, f, R(r), 8, q),
             Number_(bs, q, x, n)
      PROVE  ReadAs(bs, p, i, q + n)
  <2> DEFINE h == Opcode(bs, p)
  <2>1. h.op = o /\ h.size = 8 /\ After(bs, h) = q /\ RM(bs, h, 8) = R(r) /\ Digit(bs, h) = f
    BY <1>1, <1>5 DEF Reads
  <2>0. ~h.two
    BY <1>4, <1>5 DEF Reads
  <2> HIDE DEF h
  <2>2. AnySize(h) = 8 /\ Only(h.op, 4)
    BY <1>1, <2>1 DEF AnySize
  <2>3. (IF h.op = 129 THEN (IF h.size = 2 THEN 2 ELSE 4) ELSE 1) = n
    BY <1>1, <2>1
  <2>4. OneIs(bs, h, WithImm(bs, cmd, R(r), q, n))
    <3>1. OneIs(bs, h,
           WithImm(bs, Group1[Digit(bs, h) + 1], RM(bs, h, AnySize(h)), After(bs, h),
                 IF h.op = 129 THEN (IF h.size = 2 THEN 2 ELSE 4) ELSE 1))
      BY <2>2, OneDigits
    <3> QED
      BY <1>1, <2>1, <2>2, <2>3, <3>1
  <2>5. WithImm(bs, cmd, R(r), q, n) = [instr |-> i, next |-> q + n]
    BY <1>5 DEF WithImm, Number_, Op
  <2>6. ReadOne(bs, h) = [instr |-> i, next |-> q + n]
    BY <2>4, <2>5 DEF OneIs
  <2> QED
    BY <2>0, <2>6 DEF ReadAs, Read, h
<1> HIDE DEF i
<1>6. Faithful(i)
  BY <1>0, <1>2, <1>3, <1>4, <1>5, FromCodedNumber, Zenon
<1> QED
  BY <1>6 DEF i

(* IMUL of an immediate.                                                   *)
LEMMA ImulImmFaithful ==
  ASSUME NEW r \in Regs, NEW x, Whole(x)
  PROVE  Faithful(Op("IMUL", R(r), Imm(x)))
<1> DEFINE narrow == fits_int8(x)
           o == IF narrow THEN 107 ELSE 105
           n == IF narrow THEN 1 ELSE 4
           i == Op("IMUL", R(r), Imm(x))
<1>0. IsRM(R(r), 8) /\ 8 \in Sizes /\ 8 # 1
  BY DEF IsRM, Sizes, R, Regs
<1>1. /\ o \in Nat /\ Opens(o) /\ o # 15 /\ Only(o, 3) /\ (IF o = 107 THEN 1 ELSE 4) = n
  <2> HIDE DEF narrow
  <2> QED
    BY DEF Opens, Only, Is
<1>2. EncodedAs(i, Coded(8, <<o>>, r, R(r)) \o emit_imm_lend(x, n))
  <2>1. R(r).size = 8 /\ R(r).reg = r /\ Imm(x).kind = "imm" /\ Imm(x).imm = x
    BY DEF R, Reg, Imm
  <2>2. emit_imul(R(r), Imm(x)) = Coded(8, <<o>>, r, R(r)) \o emit_imm_lend(x, n)
    BY <2>1 DEF emit_imul
  <2>4. EncodedAs(i, emit_imul(R(r), Imm(x)))
    BY OthersEncoded
  <2> QED
    BY <2>2, <2>4
<1>3. Fitting(x, n)
  BY DEF Fitting, Whole
<1>4. Opcoded(<<o>>, o) /\ Len(<<o>>) = 1
  BY <1>1, OneOpcode
<1> HIDE DEF o, n, narrow
<1>5. ASSUME NEW bs, NEW p, NEW q, Reads(bs, Opcode(bs, p), 8, <<o>>, o, r, R(r), 8, q),
             Number_(bs, q, x, n)
      PROVE  ReadAs(bs, p, i, q + n)
  <2> DEFINE h == Opcode(bs, p)
  <2>1. h.op = o /\ h.size = 8 /\ After(bs, h) = q /\ Field(bs, h, 8) = R(r)
    BY <1>0, <1>5 DEF Reads, R
  <2>0. ~h.two
    BY <1>4, <1>5 DEF Reads
  <2> HIDE DEF h
  <2>3. (IF h.op = 107 THEN 1 ELSE IF h.size = 2 THEN 2 ELSE 4) = n
    BY <1>1, <2>1
  <2>4. OneIs(bs, h, WithImm(bs, "IMUL", R(r), q, n))
    <3>1. OneIs(bs, h, WithImm(bs, "IMUL", Field(bs, h, h.size), After(bs, h),
                               IF h.op = 107 THEN 1 ELSE IF h.size = 2 THEN 2 ELSE 4))
      BY <1>1, <2>1, OneImul
    <3> QED
      BY <2>1, <2>3, <3>1
  <2>5. WithImm(bs, "IMUL", R(r), q, n) = [instr |-> i, next |-> q + n]
    BY <1>5 DEF WithImm, Number_, Op
  <2>6. ReadOne(bs, h) = [instr |-> i, next |-> q + n]
    BY <2>4, <2>5 DEF OneIs
  <2> QED
    BY <2>0, <2>6 DEF ReadAs, Read, h
<1> HIDE DEF i
<1>6. Faithful(i)
  BY <1>0, <1>2, <1>3, <1>4, <1>5, FromCodedNumber, Zenon
<1> QED
  BY <1>6 DEF i

(* The same of instructions without ModRM, or with one of their own.       *)
Opened(bs, h, size, f, b, v, o, m, t) ==
  /\ ~h.rep
  /\ h.wide <=> size = 8
  /\ h.size = (IF size = 1 THEN 4 ELSE size)
  /\ h.rex % 2 = (IF b >= 8 THEN 1 ELSE 0)
  /\ (h.rex \div 4) % 2 = (IF f >= 8 THEN 1 ELSE 0)
  /\ h.two <=> Len(v) = 2
  /\ h.op = o
  /\ h.m = m
  /\ m \in Nat \ {0}
  /\ Held(bs, m, t)

(* Three parts, the second not empty.                                      *)
LEMMA ThreeParts ==
  ASSUME NEW u \in Seq(Nat), NEW v \in Seq(Nat), NEW t \in Seq(Nat), Len(v) \in {1, 2}
  PROVE  /\ (u \o v) \o t \in Seq(Nat) /\ Len((u \o v) \o t) > 0
         /\ Len(u) \in Nat /\ Len(t) \in Nat
<1>1. u \o v \in Seq(Nat) /\ Len(u \o v) = Len(u) + Len(v) /\ Len(u) \in Nat
  OBVIOUS
<1>2. Len(u \o v) > 0
  <2> DEFINE a == Len(u)
             b == Len(v)
             c == Len(u \o v)
  <2>1. a \in Nat /\ b \in {1, 2} /\ c = a + b
    BY <1>1
  <2> HIDE DEF a, b, c
  <2>2. c > 0
    BY <2>1
  <2> QED
    BY <2>2 DEF c
<1> DEFINE w == u \o v
<1>3. w \in Seq(Nat) /\ Len(w) > 0 /\ Len(t) \in Nat
  BY <1>1, <1>2
<1> HIDE DEF w
<1>4. w \o t \in Seq(Nat) /\ Len(w \o t) > 0
  BY <1>3
<1> QED
  BY <1>1, <1>3, <1>4 DEF w

(* The instruction that follows from its opening.                          *)
LEMMA FromOpened ==
  ASSUME NEW i, NEW size \in Sizes, NEW f \in Regs, NEW b \in Regs, NEW v, NEW o, Opcoded(v, o),
         NEW t \in Seq(Nat), EncodedAs(i, (Before(size, f, b) \o v) \o t),
         \A bs, p, m : Opened(bs, Opcode(bs, p), size, f, b, v, o, m, t) => ReadAs(bs, p, i, m + Len(t))
  PROVE  Faithful(i)
<1> DEFINE u == Before(size, f, b)
           e == (u \o v) \o t
<1>1. v \in Seq(Nat) /\ Len(v) \in {1, 2} /\ o \in Nat
  BY OpcodeBytes
<1>2. u \in Seq(Nat)
  BY BeforeBytes
<1>3. e \in Seq(Nat) /\ Len(e) > 0 /\ Len(u) \in Nat /\ Len(t) \in Nat
  <2> HIDE DEF u
  <2> QED
    BY <1>1, <1>2, ThreeParts
<1>4. encode_one_instr(i) = e
  BY DEF EncodedAs
<1>5. ASSUME NEW bs, NEW p \in Nat \ {0}, Held(bs, p, e)
      PROVE  Read(bs, p) = [instr |-> i, next |-> p + Len(e)]
  <2> DEFINE h == Opcode(bs, p)
             q == p + Len(u)
             m == q + Len(v)
  <2>1. /\ Held(bs, p, u) /\ Held(bs, q, v) /\ Held(bs, m, t)
        /\ Len(e) = Len(u) + Len(v) + Len(t)
    <3> HIDE DEF u
    <3> QED
      BY <1>1, <1>2, <1>5, HeldThree
  <2>2. q \in Nat \ {0} /\ m \in Nat \ {0} /\ m = q + Len(v) /\ q = p + Len(u)
    <3> HIDE DEF u
    <3> QED
      BY <1>1, <1>3
  <2> HIDE DEF q, m, h, e
  <2>3. \/ Len(v) = 2 /\ bs[q] = 15 /\ bs[q + 1] = o
        \/ Len(v) = 1 /\ bs[q] = o /\ Opens(o) /\ o # 15
    <3>1. CASE v = <<15, o>> /\ o \in Nat
      <4> DEFINE w == 15
      <4>1. Held(bs, q, <<w, o>>) /\ w \in Nat /\ v = <<w, o>>
        BY <2>1, <3>1
      <4> HIDE DEF w
      <4>2. bs[q] = w /\ bs[q + 1] = o
        BY <2>2, <4>1, HeldPair
      <4>3. Len(v) = 2
        BY <3>1, <4>1, PairOfBytes
      <4> QED
        BY <4>2, <4>3 DEF w
    <3>2. CASE v = <<o>> /\ Opens(o) /\ o # 15
      <4>1. Held(bs, q, <<o>>)
        BY <2>1, <3>2
      <4>2. bs[q] = o /\ Len(<<o>>) = 1
        BY <1>1, <2>2, <4>1, HeldOne
      <4> QED
        BY <3>2, <4>2
    <3> QED
      BY <3>1, <3>2 DEF Opcoded
  <2>4. Opens(bs[q]) /\ (bs[q] = 15 <=> Len(v) = 2)
    <3>1. Opens(15)
      BY DEF Opens
    <3>2. ASSUME Len(v) = 2, bs[q] = 15 PROVE Opens(bs[q]) /\ (bs[q] = 15 <=> Len(v) = 2)
      BY <3>1, <3>2
    <3>3. ASSUME Len(v) = 1, bs[q] = o, Opens(o), o # 15
          PROVE  Opens(bs[q]) /\ (bs[q] = 15 <=> Len(v) = 2)
      BY <3>3
    <3> QED
      BY <2>3, <3>2, <3>3, Zenon
  <2>5. Prefixed(h, size, f, b) /\ Opening(h, bs, q)
    BY <2>1, <2>2, <2>4, PrefixesRead, Zenon DEF h, Sizes
  <2>6. (h.two <=> Len(v) = 2) /\ h.op = o /\ h.m = m
    BY <2>2, <2>3, <2>4, <2>5 DEF Opening
  <2>7. Opened(bs, h, size, f, b, v, o, m, t)
    BY <2>1, <2>2, <2>5, <2>6 DEF Opened, Prefixed
  <2>8. ReadAs(bs, p, i, m + Len(t))
    BY <2>7, Zenon DEF h
  <2>9. m + Len(t) = p + Len(e)
    <3> HIDE DEF u
    <3> QED
      BY <1>1, <1>3, <2>1, <2>2
  <2> QED
    BY <2>8, <2>9 DEF ReadAs
<1> QED
  BY <1>3, <1>4, <1>5, Zenon DEF Faithful

NoTail == <<>>

(* An operand of two bytes or less has its prefix.                         *)
LEMMA NarrowPrefix ==
  ASSUME NEW r \in Regs
  PROVE  /\ rex(4, 0, r) = Before(4, 0, r)
         /\ Before(4, 0, 0) = <<>>
         /\ rex(8, 0, r) = Before(8, 0, r) /\ rex(8, r, 0) = Before(8, r, 0)
         /\ size_prefix(8) = <<>>
<1>1. \A n, x, y : rex(n, x, y) \in Seq(Int)
  BY DEF rex
<1>2. size_prefix(4) = <<>> /\ size_prefix(8) = <<>>
  BY DEF size_prefix
<1>3. \A s \in Seq(Int) : <<>> \o s = s
  OBVIOUS
<1>4. rex(4, 0, 0) = <<>>
  BY DEF rex, is_reg_extended
<1>5. \A n \in {4, 8} : \A x, y : Before(n, x, y) = rex(n, x, y)
  <2> TAKE n \in {4, 8}
  <2> TAKE x, y
  <2>1. size_prefix(n) = <<>>
    BY <1>2
  <2>2. <<>> \o rex(n, x, y) = rex(n, x, y)
    BY <1>1, <1>3
  <2> QED
    BY <2>1, <2>2 DEF Before
<1>6. 4 \in {4, 8} /\ 8 \in {4, 8}
  OBVIOUS
<1> QED
  BY <1>2, <1>4, <1>5, <1>6

(* PUSH and POP of the sixteen registers.                                  *)
LEMMA StackFaithful ==
  ASSUME NEW cmd \in {"PUSH", "POP"}, NEW r \in Regs
  PROVE  Faithful(One(cmd, R(r)))
<1> DEFINE c == IF cmd = "PUSH" THEN 80 ELSE 88
           o == c + (r % 8)
           i == One(cmd, R(r))
           t == NoTail
<1>0. 4 \in Sizes /\ 0 \in Regs /\ 4 # 1 /\ r % 8 \in Lows /\ R(r).reg = r
  BY DEF Sizes, Regs, Lows, R, Reg
<1>1. /\ o \in Nat /\ Opens(o) /\ o # 15 /\ o % 8 = r % 8
      /\ cmd = "PUSH" => Only(o, 1)
      /\ cmd = "POP" => Only(o, 2)
  <2>1. ASSUME NEW x \in Lows
        PROVE  /\ Opens(80 + x) /\ 80 + x # 15 /\ (80 + x) % 8 = x /\ Only(80 + x, 1)
               /\ Opens(88 + x) /\ 88 + x # 15 /\ (88 + x) % 8 = x /\ Only(88 + x, 2)
    BY DEF Lows, Opens, Only, Is
  <2> DEFINE x == r % 8
  <2>2. x \in Lows /\ x \in Nat
    BY <1>0 DEF Lows
  <2> HIDE DEF x
  <2>3. (cmd = "PUSH" => o = 80 + x) /\ (cmd = "POP" => o = 88 + x)
    BY <2>2 DEF x
  <2>4. x = r % 8
    BY DEF x
  <2> HIDE DEF o
  <2>5. CASE cmd = "PUSH"
    BY <2>1, <2>2, <2>3, <2>4, <2>5
  <2>6. CASE cmd = "POP"
    BY <2>1, <2>2, <2>3, <2>4, <2>6
  <2> QED
    BY <2>5, <2>6
<1>2. EncodedAs(i, (Before(4, 0, r) \o <<o>>) \o t)
  <2>1. emit_stack_oper(cmd, R(r)) = Before(4, 0, r) \o <<o>>
    <3>1. rex(4, 0, r) = Before(4, 0, r)
      BY NarrowPrefix
    <3>2. (IF cmd = "PUSH" THEN 80 ELSE 88) + reg_low3(R(r).reg) = o
      BY <1>0, Zenon DEF reg_low3
    <3> HIDE DEF o
    <3>3. emit_stack_oper(cmd, R(r)) = rex(4, 0, R(r).reg) \o <<o>>
      BY <3>2, Zenon DEF emit_stack_oper
    <3> QED
      BY <1>0, <3>1, <3>3
  <2>2. EncodedAs(i, emit_stack_oper(cmd, R(r)))
    BY OthersEncoded
  <2> HIDE DEF i, o
  <2>3. <<o>> \in Seq(Nat) /\ Before(4, 0, r) \in Seq(Nat)
    BY <1>0, <1>1, HeldOne, BeforeBytes
  <2>4. (Before(4, 0, r) \o <<o>>) \o t = Before(4, 0, r) \o <<o>>
    BY <2>3 DEF NoTail
  <2> QED
    BY <2>1, <2>2, <2>4
<1>3. t \in Seq(Nat) /\ Len(t) = 0
  BY NoBytes DEF NoTail
<1>4. Opcoded(<<o>>, o) /\ Len(<<o>>) = 1
  BY <1>1, OneOpcode
<1> HIDE DEF o, c, t
<1>5. ASSUME NEW bs, NEW p, NEW m, Opened(bs, Opcode(bs, p), 4, 0, r, <<o>>, o, m, t)
      PROVE  ReadAs(bs, p, i, m + Len(t))
  <2> DEFINE h == Opcode(bs, p)
  <2>1. ~h.two /\ h.op = o /\ h.m = m /\ m \in Nat /\ h.rex % 2 = (IF r >= 8 THEN 1 ELSE 0)
    BY <1>4, <1>5 DEF Opened
  <2> HIDE DEF h
  <2>2. (h.op % 8) + 8 * (h.rex % 2) = r
    <3>1. \A x \in Regs : (x % 8) + 8 * (IF x >= 8 THEN 1 ELSE 0) = x
      BY DEF Regs
    <3> QED
      BY <1>1, <2>1, <3>1
  <2>3. OneIs(bs, h, Plain(h, cmd, <<R(r)>>))
    <3>1. CASE cmd = "PUSH"
      BY <1>1, <2>1, <2>2, <3>1, OnePush DEF R
    <3>2. CASE cmd = "POP"
      BY <1>1, <2>1, <2>2, <3>2, OnePop DEF R
    <3> QED
      BY <3>1, <3>2
  <2>4. Plain(h, cmd, <<R(r)>>) = [instr |-> i, next |-> m]
    BY <2>1 DEF Plain, One
  <2> QED
    BY <1>3, <2>1, <2>3, <2>4 DEF ReadAs, Read, OneIs, h
<1> HIDE DEF i
<1>6. Faithful(i)
  BY <1>0, <1>2, <1>3, <1>4, <1>5, FromOpened, Zenon
<1> QED
  BY <1>6 DEF i

(* MOV of an immediate to a register.                                      *)
LEMMA ImmFaithful ==
  ASSUME NEW r \in Regs, NEW x, Whole(x), 0 <= x
  PROVE  Faithful(Op("MOV", R(r), Imm(x)))
<1> DEFINE o == 184 + (r % 8)
           i == Op("MOV", R(r), Imm(x))
           t == emit_imm_lend(x, 8)
<1>0. 8 \in Sizes /\ 0 \in Regs /\ 8 # 1 /\ r % 8 \in Lows
  BY DEF Sizes, Regs, Lows
<1>1. o \in Nat /\ Opens(o) /\ o # 15 /\ o % 8 = r % 8 /\ Only(o, 13)
  <2>1. ASSUME NEW y \in Lows
        PROVE  /\ Opens(184 + y) /\ 184 + y # 15 /\ (184 + y) % 8 = y /\ Only(184 + y, 13)
               /\ 184 + y \in Nat
    BY DEF Lows, Opens, Only, Is
  <2> QED
    BY <1>0, <2>1
<1>2. EncodedAs(i, (Before(8, 0, r) \o <<o>>) \o t)
  <2>1. /\ R(r).size = 8 /\ R(r).kind = "reg" /\ R(r).reg = r /\ Imm(x).kind = "imm" /\ Imm(x).imm = x
        /\ reg_low3(r) = r % 8
    BY DEF R, Reg, Imm, reg_low3
  <2>2. emit_mov_imm(R(r), x) = size_prefix(8) \o rex(8, 0, r) \o <<o>> \o t
    BY <2>1 DEF emit_mov_imm, get_operand_size
  <2>3. emit_alu_two_op("MOV", R(r), Imm(x)) = emit_mov_imm(R(r), x)
    BY <2>1 DEF emit_alu_two_op
  <2>4. EncodedAs(i, emit_alu_two_op("MOV", R(r), Imm(x)))
    BY AluEncoded
  <2>5. size_prefix(8) \o rex(8, 0, r) = Before(8, 0, r)
    BY DEF Before
  <2> QED
    BY <2>2, <2>3, <2>4, <2>5
<1>3. t \in Seq(Nat) /\ Len(t) = 8 /\ \A bs : \A q \in Nat \ {0} : Held(bs, q, t) => Number_(bs, q, x, 8)
  <2>1. Fitting(x, 8)
    BY DEF Fitting
  <2> QED
    BY <2>1, NumberBytes
<1>4. Opcoded(<<o>>, o) /\ Len(<<o>>) = 1
  BY <1>1, OneOpcode
<1> HIDE DEF o, t
<1>5. ASSUME NEW bs, NEW p, NEW m, Opened(bs, Opcode(bs, p), 8, 0, r, <<o>>, o, m, t)
      PROVE  ReadAs(bs, p, i, m + Len(t))
  <2> DEFINE h == Opcode(bs, p)
  <2>1. /\ ~h.two /\ h.op = o /\ h.m = m /\ m \in Nat /\ h.rex % 2 = (IF r >= 8 THEN 1 ELSE 0)
        /\ h.size = 8 /\ SignedAt(bs, m, 8) = x
    BY <1>3, <1>4, <1>5 DEF Opened, Number_
  <2> HIDE DEF h
  <2>2. (h.op % 8) + 8 * (h.rex % 2) = r
    <3>1. \A y \in Regs : (y % 8) + 8 * (IF y >= 8 THEN 1 ELSE 0) = y
      BY DEF Regs
    <3> QED
      BY <1>1, <2>1, <3>1
  <2>3. OneIs(bs, h, WithImm(bs, "MOV", R(r), m, 8))
    BY <1>1, <2>1, <2>2, OneMovImm DEF R
  <2>4. WithImm(bs, "MOV", R(r), m, 8) = [instr |-> i, next |-> m + 8]
    BY <2>1 DEF WithImm, Op
  <2> QED
    BY <1>3, <2>1, <2>3, <2>4 DEF ReadAs, Read, OneIs, h
<1> HIDE DEF i
<1>6. Faithful(i)
  BY <1>0, <1>2, <1>3, <1>4, <1>5, FromOpened, Zenon
<1> QED
  BY <1>6 DEF i

(* A distance of four bytes, of whatever value.                            *)
LEMMA FarBytes ==
  emit_imm_lend(0, 4) \in Seq(Nat) /\ Len(emit_imm_lend(0, 4)) = 4
<1> DEFINE v == 0
           n == 4
<1>1. v \in Int /\ n \in Nat
  OBVIOUS
<1> HIDE DEF v, n
<1>2. emit_imm_lend(v, n) \in Seq(Nat) /\ Len(emit_imm_lend(v, n)) = n
  BY <1>1, ImmBytes DEF BytesOf
<1> QED
  BY <1>2 DEF v, n

(* CALL and JMP.                                                           *)
LEMMA JumpFaithful ==
  ASSUME NEW cmd \in {"JMP", "CALL"}
  PROVE  Faithful(One(cmd, Label))
<1> DEFINE o == IF cmd = "JMP" THEN 233 ELSE 232
           i == One(cmd, Label)
           t == emit_imm_lend(0, 4)
<1>0. 4 \in Sizes /\ 0 \in Regs
  BY DEF Sizes, Regs
<1>1. /\ o \in Nat /\ Opens(o) /\ o # 15
      /\ cmd = "JMP" => Only(o, 18)
      /\ cmd = "CALL" => Only(o, 17)
  <2>1. CASE cmd = "JMP"
    BY <2>1 DEF Opens, Only, Is
  <2>2. CASE cmd = "CALL"
    BY <2>2 DEF Opens, Only, Is
  <2> QED
    BY <2>1, <2>2
<1>4. Opcoded(<<o>>, o) /\ Len(<<o>>) = 1
  BY <1>1, OneOpcode
<1>2. EncodedAs(i, (Before(4, 0, 0) \o <<o>>) \o t)
  <2>1. emit_branch_rel32(cmd) = <<o>> \o t
    BY DEF emit_branch_rel32
  <2>2. EncodedAs(i, emit_branch_rel32(cmd))
    BY OthersEncoded
  <2> HIDE DEF o
  <2>3. <<o>> \in Seq(Nat)
    BY <1>1, HeldOne
  <2>4. Before(4, 0, 0) \o <<o>> = <<o>>
    <3>1. Before(4, 0, 0) = <<>>
      BY <1>0, NarrowPrefix
    <3> QED
      BY <2>3, <3>1, NoBytes
  <2> QED
    BY <2>1, <2>2, <2>4
<1> HIDE DEF o, t
<1>3. t \in Seq(Nat) /\ Len(t) = 4
  BY FarBytes DEF t
<1>5. ASSUME NEW bs, NEW p, NEW m, Opened(bs, Opcode(bs, p), 4, 0, 0, <<o>>, o, m, t)
      PROVE  ReadAs(bs, p, i, m + Len(t))
  <2> DEFINE h == Opcode(bs, p)
  <2>1. ~h.two /\ h.op = o /\ h.m = m
    BY <1>4, <1>5 DEF Opened
  <2> HIDE DEF h
  <2>3. OneIs(bs, h, Far(h, cmd))
    <3>1. CASE cmd = "JMP"
      BY <1>1, <2>1, <3>1, OneJmp
    <3>2. CASE cmd = "CALL"
      BY <1>1, <2>1, <3>2, OneCall
    <3> QED
      BY <3>1, <3>2
  <2>4. Far(h, cmd) = [instr |-> i, next |-> m + 4]
    BY <2>1 DEF Far, One
  <2> QED
    BY <1>3, <2>1, <2>3, <2>4 DEF ReadAs, Read, OneIs, h
<1> HIDE DEF i
<1>6. Faithful(i)
  BY <1>0, <1>2, <1>3, <1>4, <1>5, FromOpened, Zenon
<1> QED
  BY <1>6 DEF i

(* The jumps with a condition.                                             *)
LEMMA BranchFaithful ==
  ASSUME NEW cmd \in {"JZ", "JNZ"}
  PROVE  Faithful(One(cmd, Label))
<1> DEFINE o == IF cmd = "JZ" THEN 132 ELSE 133
           v == <<15, o>>
           i == One(cmd, Label)
           t == emit_imm_lend(0, 4)
<1>0. 4 \in Sizes /\ 0 \in Regs
  BY DEF Sizes, Regs
<1>1. o \in Nat /\ OnlyTwo(o, 1) /\ JumpCmd[o - 127] = cmd
  <2>1. CASE cmd = "JZ"
    BY <2>1 DEF OnlyTwo, JumpCmd
  <2>2. CASE cmd = "JNZ"
    BY <2>2 DEF OnlyTwo, JumpCmd
  <2> QED
    BY <2>1, <2>2
<1>4. Opcoded(v, o) /\ Len(v) = 2
  BY <1>1, TwoOpcode
<1>2. EncodedAs(i, (Before(4, 0, 0) \o v) \o t)
  <2>0. 128 + CC[cmd] = o
    BY DEF CC
  <2>1. emit_branch_rel32(cmd) = v \o t
    <3> HIDE DEF o
    <3> QED
      BY <2>0 DEF emit_branch_rel32
  <2>2. EncodedAs(i, emit_branch_rel32(cmd))
    BY OthersEncoded
  <2> HIDE DEF o, v
  <2>3. v \in Seq(Nat)
    BY <1>4, OpcodeBytes
  <2>4. Before(4, 0, 0) \o v = v
    BY <1>0, <2>3, NarrowPrefix
  <2> QED
    BY <2>1, <2>2, <2>4
<1> HIDE DEF o, t, v
<1>3. t \in Seq(Nat) /\ Len(t) = 4
  BY FarBytes DEF t
<1>5. ASSUME NEW bs, NEW p, NEW m, Opened(bs, Opcode(bs, p), 4, 0, 0, v, o, m, t)
      PROVE  ReadAs(bs, p, i, m + Len(t))
  <2> DEFINE h == Opcode(bs, p)
  <2>1. h.two /\ h.op = o /\ h.m = m
    BY <1>4, <1>5 DEF Opened
  <2> HIDE DEF h
  <2>3. TwoIs(bs, h, Far(h, cmd))
    BY <1>1, <2>1, TwoJcc
  <2>4. Far(h, cmd) = [instr |-> i, next |-> m + 4]
    BY <2>1 DEF Far, One
  <2> QED
    BY <1>3, <2>1, <2>3, <2>4 DEF ReadAs, Read, TwoIs, h
<1> HIDE DEF i
<1>6. Faithful(i)
  BY <1>0, <1>2, <1>3, <1>4, <1>5, FromOpened, Zenon
<1> QED
  BY <1>6 DEF i

(* Sequences joined, and their positions.                                  *)
LEMMA Joining ==
  ASSUME NEW s \in Seq(Nat), NEW t \in Seq(Nat), NEW u \in Seq(Nat)
  PROVE  (s \o t) \o u = s \o (t \o u)
<1> DEFINE a == (s \o t) \o u
           b == s \o (t \o u)
<1>1. /\ Len(a) = Len(s) + Len(t) + Len(u) /\ Len(b) = Len(a) /\ a \in Seq(Nat) /\ b \in Seq(Nat)
      /\ Len(s) \in Nat /\ Len(t) \in Nat /\ Len(u) \in Nat
  OBVIOUS
<1>2. ASSUME NEW k \in 1 .. Len(s) + Len(t) + Len(u) PROVE a[k] = b[k]
  OBVIOUS
<1> HIDE DEF a, b
<1>3. a = b
  BY <1>1, <1>2
<1> QED
  BY <1>3 DEF a, b

(* What is behind the first of two.                                        *)
LEMMA Halves ==
  ASSUME NEW s \in Seq(Nat), NEW t \in Seq(Nat)
  PROVE  /\ s \o t \in Seq(Nat) /\ Len(s \o t) = Len(s) + Len(t) /\ Len(s) \in Nat /\ Len(t) \in Nat
         /\ \A k \in 1 .. Len(s) : (s \o t)[k] = s[k]
         /\ \A k \in 1 .. Len(t) : (s \o t)[Len(s) + k] = t[k]
  OBVIOUS

(* An instruction whose first byte decides.                                *)
LEMMA FirstOfTwo ==
  ASSUME NEW s \in Seq(Nat), NEW t \in Seq(Nat), Len(s) = 1
  PROVE  s \o t \in Seq(Nat) /\ Len(s \o t) = 1 + Len(t) /\ (s \o t)[1] = s[1]
<1>1. /\ s \o t \in Seq(Nat) /\ Len(s \o t) = Len(s) + Len(t) /\ Len(s) \in Nat /\ Len(t) \in Nat
      /\ \A k \in 1 .. Len(s) : (s \o t)[k] = s[k]
  BY Halves
<1>2. 1 \in 1 .. Len(s)
  BY <1>1
<1> QED
  BY <1>1, <1>2

(* LEA of a place the linker knows: ModRM and a distance, mod 0, r/m 5.    *)
LEMMA RipFaithful ==
  ASSUME NEW f \in Regs
  PROVE  Faithful(Op("LEA", R(f), Rip(8)))
<1> DEFINE o == 141
           g == f % 8
           c == 8 * g + 5
           y == emit_imm_lend(0, 4)
           t == <<c>> \o y
           i == Op("LEA", R(f), Rip(8))
<1>0. 8 \in Sizes /\ 0 \in Regs /\ 8 # 1 /\ g \in Lows /\ c \in Nat
  BY DEF Sizes, Regs, Lows
<1>1. o \in Nat /\ Opens(o) /\ o # 15 /\ Only(o, 7)
  BY DEF Opens, Only, Is
<1>3. t \in Seq(Nat) /\ Len(t) = 5 /\ t[1] = c
  <2> HIDE DEF c, y
  <2> DEFINE d == <<c>>
  <2>1. d \in Seq(Nat) /\ Len(d) = 1 /\ d[1] = c
    BY <1>0
  <2>2. y \in Seq(Nat) /\ Len(y) = 4
    BY FarBytes DEF y
  <2> HIDE DEF d
  <2> HIDE DEF y
  <2>4. d \o y \in Seq(Nat) /\ Len(d \o y) = 1 + Len(y) /\ (d \o y)[1] = d[1]
    BY <2>1, <2>2, FirstOfTwo, Zenon
  <2>3. d \o y \in Seq(Nat) /\ Len(d \o y) = 5 /\ (d \o y)[1] = c
    BY <2>1, <2>2, <2>4
  <2> QED
    BY <2>3 DEF d
<1>2. EncodedAs(i, (Before(8, f, 0) \o <<o>>) \o t)
  <2>1. R(f).reg = f /\ Rip(8).kind = "rip" /\ reg_low3(f) = g
    BY DEF R, Reg, Rip, reg_low3
  <2>2. emit_lea(R(f), Rip(8)) = rex(8, f, 0) \o <<141, c>> \o y
    BY <2>1 DEF emit_lea
  <2>3. EncodedAs(i, emit_lea(R(f), Rip(8)))
    BY OthersEncoded
  <2>4. rex(8, f, 0) = Before(8, f, 0)
    BY NarrowPrefix
  <2> HIDE DEF c, y
  <2>5. o \in Nat /\ c \in Nat /\ o = 141
    BY <1>0
  <2> HIDE DEF o
  <2>6. <<o>> \o <<c>> = <<o, c>>
    BY <2>5, PairOfBytes
  <2>7. Before(8, f, 0) \in Seq(Nat)
    BY <1>0, BeforeBytes
  <2>8. <<o>> \in Seq(Nat) /\ <<c>> \in Seq(Nat) /\ y \in Seq(Nat)
    BY <2>5, HeldOne, FarBytes DEF y
  <2> DEFINE a == Before(8, f, 0)
             b == <<o>>
             d == <<c>>
  <2>9. a \in Seq(Nat) /\ b \in Seq(Nat) /\ d \in Seq(Nat)
    BY <2>7, <2>8
  <2> HIDE DEF a, b, d
  <2>10. (a \o (b \o d)) \o y = (a \o b) \o (d \o y)
    <3>1. y \in Seq(Nat) /\ b \o d \in Seq(Nat) /\ d \o y \in Seq(Nat)
      BY <2>8, <2>9
    <3>2. (a \o (b \o d)) \o y = a \o ((b \o d) \o y)
      BY <2>9, <3>1, Joining
    <3>3. (b \o d) \o y = b \o (d \o y)
      BY <2>9, <3>1, Joining
    <3>4. a \o (b \o (d \o y)) = (a \o b) \o (d \o y)
      BY <2>9, <3>1, Joining
    <3> QED
      BY <3>2, <3>3, <3>4
  <2>11. rex(8, f, 0) \o <<141, c>> \o y = (Before(8, f, 0) \o <<o>>) \o t
    BY <2>4, <2>5, <2>6, <2>10 DEF a, b, d
  <2> QED
    BY <2>2, <2>3, <2>11
<1>4. Opcoded(<<o>>, o) /\ Len(<<o>>) = 1
  BY <1>1, OneOpcode
<1> HIDE DEF o, t
<1>5. ASSUME NEW bs, NEW p, NEW m, Opened(bs, Opcode(bs, p), 8, f, 0, <<o>>, o, m, t)
      PROVE  ReadAs(bs, p, i, m + Len(t))
  <2> DEFINE h == Opcode(bs, p)
  <2>1. /\ ~h.two /\ h.op = o /\ h.m = m /\ m \in Nat /\ (h.rex \div 4) % 2 = (IF f >= 8 THEN 1 ELSE 0)
        /\ h.size = 8 /\ Held(bs, m, t)
    BY <1>4, <1>5 DEF Opened
  <2> HIDE DEF h
  <2>2. bs[m] = c
    <3>1. 1 \in 1 .. Len(t) /\ m + 1 - 1 = m
      BY <1>3, <2>1
    <3> QED
      BY <1>3, <2>1, <3>1 DEF Held
  <2>3. Parts(c, 0, g, 5)
    <3>1. c = 64 * 0 + 8 * g + 5 /\ 0 \in 0 .. 3 /\ 5 \in Lows
      BY <1>0 DEF Lows
    <3> HIDE DEF c, g
    <3> QED
      BY <1>0, <3>1, ByteParts
  <2> HIDE DEF c
  <2>4. Mod(bs, h) = 0 /\ Digit(bs, h) = g /\ IsRip(bs, h)
    BY <2>1, <2>2, <2>3 DEF Mod, Digit, IsRip, Parts
  <2>5. After(bs, h) = m + 5
    <3>1. DispLen(bs, h) = 4
      BY <2>4 DEF DispLen
    <3> QED
      BY <2>1, <3>1 DEF After
  <2>6. RM(bs, h, 8) = Rip(8)
    BY <2>4 DEF RM
  <2>7. Field(bs, h, 8) = R(f)
    <3>1. \A x \in Regs : (x % 8) + 8 * (IF x >= 8 THEN 1 ELSE 0) = x
      BY DEF Regs
    <3>2. g + 8 * ((h.rex \div 4) % 2) = f
      BY <2>1, <3>1
    <3> HIDE DEF g
    <3> QED
      BY <1>0, <2>4, <3>2 DEF Field, Gpr, R
  <2>8. OneIs(bs, h, Ended(bs, h, "LEA", <<R(f), Rip(8)>>))
    BY <1>1, <2>1, <2>6, <2>7, OneLea
  <2>9. Ended(bs, h, "LEA", <<R(f), Rip(8)>>) = [instr |-> i, next |-> m + 5]
    BY <2>5 DEF Ended, Op
  <2> QED
    BY <1>3, <2>1, <2>8, <2>9 DEF ReadAs, Read, OneIs, h
<1> HIDE DEF i
<1>6. Faithful(i)
  BY <1>0, <1>2, <1>3, <1>4, <1>5, FromOpened, Zenon
<1> QED
  BY <1>6 DEF i

(* Instructions without operands.                                          *)
LEMMA AloneFaithful ==
  ASSUME NEW cmd \in {"RET", "SYSCALL", "CDQE", "CQO"}
  PROVE  Faithful(Alone(cmd))
<1> DEFINE size == IF cmd \in {"RET", "SYSCALL"} THEN 4 ELSE 8
           o == CASE cmd = "RET" -> 195 [] cmd = "SYSCALL" -> 5 [] cmd = "CDQE" -> 152 [] cmd = "CQO" -> 153
           v == IF cmd = "SYSCALL" THEN <<15, o>> ELSE <<o>>
           i == Alone(cmd)
           t == NoTail
<1>0. size \in Sizes /\ 0 \in Regs
  BY DEF Sizes, Regs
<1>1. /\ o \in Nat
      /\ cmd = "RET" => Opens(o) /\ o # 15 /\ Only(o, 14)
      /\ cmd = "CDQE" => Opens(o) /\ o # 15 /\ Only(o, 8)
      /\ cmd = "CQO" => Opens(o) /\ o # 15 /\ Only(o, 9)
      /\ cmd = "SYSCALL" => OnlyTwo(o, 0)
  <2>1. CASE cmd = "RET"
    BY <2>1 DEF Opens, Only, Is
  <2>2. CASE cmd = "CDQE"
    BY <2>2 DEF Opens, Only, Is
  <2>3. CASE cmd = "CQO"
    BY <2>3 DEF Opens, Only, Is
  <2>4. CASE cmd = "SYSCALL"
    BY <2>4 DEF OnlyTwo
  <2> QED
    BY <2>1, <2>2, <2>3, <2>4
<1>2. Before(4, 0, 0) = <<>> /\ Before(8, 0, 0) = <<72>>
  <2>1. Before(8, 0, 0) = rex(8, 0, 0)
    BY <1>0, NarrowPrefix
  <2>2. rex(8, 0, 0) = <<72>>
    BY DEF rex, is_reg_extended
  <2> QED
    BY <1>0, <2>1, <2>2, NarrowPrefix
<1>4. Opcoded(v, o) /\ (Len(v) = 2 <=> cmd = "SYSCALL")
  <2> HIDE DEF o
  <2>1. CASE cmd = "SYSCALL"
    BY <1>1, <2>1, TwoOpcode
  <2>2. CASE cmd # "SYSCALL"
    <3>1. Opcoded(<<o>>, o) /\ Len(<<o>>) = 1
      BY <1>1, <2>2, OneOpcode
    <3> QED
      BY <2>2, <3>1
  <2> QED
    BY <2>1, <2>2
<1>3. t \in Seq(Nat) /\ Len(t) = 0
  BY NoBytes DEF NoTail
<1>5. EncodedAs(i, (Before(size, 0, 0) \o v) \o t)
  <2>1. EncodedAs(i, emit_zero_op(cmd))
    BY OthersEncoded
  <2>2. v \in Seq(Nat)
    BY <1>4, OpcodeBytes
  <2>3. emit_zero_op(cmd) = Before(size, 0, 0) \o v
    <3>1. CASE cmd \in {"RET", "SYSCALL"}
      <4>1. emit_zero_op(cmd) = v
        BY <3>1 DEF emit_zero_op
      <4>2. Before(size, 0, 0) \o v = v
        <5> HIDE DEF v
        <5>1. Before(size, 0, 0) = <<>>
          BY <1>2, <3>1
        <5> QED
          BY <2>2, <5>1, NoBytes
      <4> QED
        BY <4>1, <4>2
    <3>2. CASE cmd \in {"CDQE", "CQO"}
      <4>0. Before(size, 0, 0) = <<72>> /\ v = <<o>>
        BY <1>2, <3>2
      <4>1. emit_zero_op(cmd) = <<72, o>>
        BY <3>2 DEF emit_zero_op
      <4> DEFINE w == 72
      <4>2. w \in Nat /\ w = 72
        OBVIOUS
      <4> HIDE DEF w, o
      <4>3. <<w>> \o <<o>> = <<w, o>>
        BY <1>1, <4>2, PairOfBytes
      <4> HIDE DEF size, v
      <4> QED
        BY <4>0, <4>1, <4>2, <4>3
    <3> QED
      BY <3>1, <3>2
  <2> HIDE DEF v, size
  <2>4. Before(size, 0, 0) \in Seq(Nat)
    BY <1>0, BeforeBytes
  <2>5. (Before(size, 0, 0) \o v) \o t = Before(size, 0, 0) \o v
    BY <2>2, <2>4 DEF NoTail
  <2> QED
    BY <2>1, <2>3, <2>5
<1>6. cmd \in {"CDQE", "CQO"} => size = 8
  OBVIOUS
<1> HIDE DEF o, t, v, size
<1>7. ASSUME NEW bs, NEW p, NEW m, Opened(bs, Opcode(bs, p), size, 0, 0, v, o, m, t)
      PROVE  ReadAs(bs, p, i, m + Len(t))
  <2> DEFINE h == Opcode(bs, p)
  <2>1. (h.two <=> cmd = "SYSCALL") /\ h.op = o /\ h.m = m /\ (h.wide <=> size = 8) /\ m + Len(t) = m
    BY <1>3, <1>4, <1>7 DEF Opened
  <2> HIDE DEF h
  <2>2. Plain(h, cmd, <<>>) = [instr |-> i, next |-> m]
    BY <2>1 DEF Plain, Alone
  <2>3. CASE cmd = "SYSCALL"
    <3>1. TwoIs(bs, h, Plain(h, cmd, <<>>))
      BY <1>1, <2>1, <2>3, TwoSyscall
    <3> QED
      BY <2>1, <2>2, <2>3, <3>1 DEF ReadAs, Read, TwoIs, h
  <2>4. CASE cmd # "SYSCALL"
    <3>1. CASE cmd = "RET"
      <4>1. OneIs(bs, h, Plain(h, cmd, <<>>))
        BY <1>1, <2>1, <3>1, OneRet
      <4> QED
        BY <2>1, <2>2, <2>4, <4>1 DEF ReadAs, Read, OneIs, h
    <3>2. CASE cmd = "CDQE"
      <4>1. OneIs(bs, h, Plain(h, IF h.wide THEN "CDQE" ELSE "CWDE", <<>>))
        BY <1>1, <2>1, <3>2, OneCdqe
      <4> QED
        BY <1>6, <2>1, <2>2, <2>4, <3>2, <4>1 DEF ReadAs, Read, OneIs, h
    <3>3. CASE cmd = "CQO"
      <4>1. OneIs(bs, h, Plain(h, IF h.wide THEN "CQO" ELSE "CDQ", <<>>))
        BY <1>1, <2>1, <3>3, OneCqo
      <4> QED
        BY <1>6, <2>1, <2>2, <2>4, <3>3, <4>1 DEF ReadAs, Read, OneIs, h
    <3> QED
      BY <2>4, <3>1, <3>2, <3>3
  <2> QED
    BY <2>3, <2>4
<1> HIDE DEF i
<1>8. Faithful(i)
  BY <1>0, <1>3, <1>4, <1>5, <1>7, FromOpened, Zenon
<1> QED
  BY <1>8 DEF i

(* A repeated instruction has a prefix of its own.                         *)
LEMMA RepFaithful ==
  ASSUME NEW cmd \in {"REP_STOSB", "REP_MOVSB"}
  PROVE  Faithful(Alone(cmd))
<1> DEFINE o == IF cmd = "REP_STOSB" THEN 170 ELSE 164
           w == 243
           i == Alone(cmd)
<1>1. /\ o \in Nat /\ w \in Nat /\ o # 15 /\ o \notin 64 .. 79 /\ w = 243
      /\ cmd = "REP_STOSB" => Only(o, 11)
      /\ cmd = "REP_MOVSB" => Only(o, 10)
  <2>1. CASE cmd = "REP_STOSB"
    BY <2>1 DEF Only, Is
  <2>2. CASE cmd = "REP_MOVSB"
    BY <2>2 DEF Only, Is
  <2> QED
    BY <2>1, <2>2
<1>2. encode_one_instr(i) = <<w, o>>
  <2>1. EncodedAs(i, emit_zero_op(cmd))
    BY OthersEncoded
  <2>2. emit_zero_op(cmd) = <<w, o>>
    BY DEF emit_zero_op
  <2> QED
    BY <2>1, <2>2 DEF EncodedAs
<1> HIDE DEF o, w
<1>3. <<w, o>> \in Seq(Nat) /\ Len(<<w, o>>) = 2
  BY <1>1, PairOfBytes
<1>4. ASSUME NEW bs, NEW p \in Nat \ {0}, Held(bs, p, <<w, o>>)
      PROVE  Read(bs, p) = [instr |-> i, next |-> p + 2]
  <2> DEFINE h == Opcode(bs, p)
             q == p + 1
  <2>1. bs[p] = 243 /\ bs[q] = o /\ q \in Nat
    BY <1>1, <1>4, HeldPair
  <2>0. q + 1 = p + 2
    OBVIOUS
  <2>2. Places(bs, p, q, q, 0)
    BY <1>1, <2>1 DEF Places
  <2>3. IsOpcode(h, bs, p, q, 0)
    <3> HIDE DEF q
    <3> QED
      BY <2>2, OpcodeIs
  <2> HIDE DEF h, q
  <2>4. h.rep /\ ~h.two /\ h.op = o /\ h.m = p + 2
    BY <1>1, <2>0, <2>1, <2>3 DEF IsOpcode
  <2>5. Plain(h, cmd, <<>>) = [instr |-> i, next |-> p + 2]
    BY <2>4 DEF Plain, Alone
  <2>6. OneIs(bs, h, Plain(h, cmd, <<>>))
    <3>1. CASE cmd = "REP_STOSB"
      <4>1. OneIs(bs, h, Plain(h, IF h.rep THEN "REP_STOSB" ELSE "STOSB", <<>>))
        BY <1>1, <2>4, <3>1, OneStosb
      <4> QED
        BY <2>4, <3>1, <4>1
    <3>2. CASE cmd = "REP_MOVSB"
      <4>1. OneIs(bs, h, Plain(h, IF h.rep THEN "REP_MOVSB" ELSE "MOVSB", <<>>))
        BY <1>1, <2>4, <3>2, OneMovsb
      <4> QED
        BY <2>4, <3>2, <4>1
    <3> QED
      BY <3>1, <3>2
  <2> QED
    BY <2>4, <2>5, <2>6 DEF Read, OneIs, h
<1> QED
  BY <1>2, <1>3, <1>4 DEF Faithful

-----------------------------------------------------------------------------
(*****************************************************************************)
(* Runs of instructions                                                     *)
(*****************************************************************************)
(* A run of instructions each of which is read as it was written.          *)
Sound(s) == \E X : s \in Seq(X) /\ \A i \in X : Faithful(i)

(* A run made of sound instructions only is sound.                         *)
LEMMA SoundIn ==
  ASSUME NEW X, NEW s \in Seq(X), \A i \in X : Faithful(i)
  PROVE  Sound(s)
  BY Zenon DEF Sound

(* A sound run is read as it was written.                                  *)
LEMMA SoundRuns ==
  ASSUME NEW s, Sound(s)
  PROVE  Runs(s)
<1>1. PICK X : s \in Seq(X) /\ \A i \in X : Faithful(i)
  BY Zenon DEF Sound
<1>2. \A k \in 1 .. Len(s) : s[k] \in X
  BY <1>1
<1> QED
  BY <1>1, <1>2, AllRead

(* Two sound runs, one behind the other, are sound.                        *)
LEMMA SoundJoin ==
  ASSUME NEW s, NEW t, Sound(s), Sound(t)
  PROVE  Sound(s \o t)
<1>1. PICK X : s \in Seq(X) /\ \A i \in X : Faithful(i)
  BY Zenon DEF Sound
<1>2. PICK Y : t \in Seq(Y) /\ \A i \in Y : Faithful(i)
  BY Zenon DEF Sound
<1> DEFINE Z == X \cup Y
<1>3. s \in Seq(Z) /\ t \in Seq(Z)
  BY <1>1, <1>2
<1>4. s \o t \in Seq(Z)
  <2> HIDE DEF Z
  <2> QED
    BY <1>3
<1>5. \A i \in Z : Faithful(i)
  BY <1>1, <1>2
<1> QED
  BY <1>4, <1>5, Zenon DEF Sound

(* Runs of no instruction to five.                                         *)
LEMMA SoundNone == Sound(<<>>)
<1> DEFINE X == {}
<1>1. <<>> \in Seq(X)
  OBVIOUS
<1>2. \A i \in X : Faithful(i)
  OBVIOUS
<1> HIDE DEF X
<1> QED
  BY <1>1, <1>2, SoundIn, Zenon

LEMMA SoundOne ==
  ASSUME NEW a, Faithful(a)
  PROVE  Sound(<<a>>)
<1> DEFINE X == {a}
<1>1. <<a>> \in Seq(X)
  OBVIOUS
<1>2. \A i \in X : Faithful(i)
  OBVIOUS
<1> HIDE DEF X
<1> QED
  BY <1>1, <1>2, SoundIn, Zenon

LEMMA SoundTwo ==
  ASSUME NEW a, NEW b, Faithful(a), Faithful(b)
  PROVE  Sound(<<a, b>>)
<1> DEFINE X == {a, b}
<1>1. <<a, b>> \in Seq(X)
  OBVIOUS
<1>2. \A i \in X : Faithful(i)
  OBVIOUS
<1> HIDE DEF X
<1> QED
  BY <1>1, <1>2, SoundIn, Zenon

LEMMA SoundThree ==
  ASSUME NEW a, NEW b, NEW c, Faithful(a), Faithful(b), Faithful(c)
  PROVE  Sound(<<a, b, c>>)
<1> DEFINE X == {a, b, c}
<1>1. <<a, b, c>> \in Seq(X)
  OBVIOUS
<1>2. \A i \in X : Faithful(i)
  OBVIOUS
<1> HIDE DEF X
<1> QED
  BY <1>1, <1>2, SoundIn, Zenon

LEMMA SoundFour ==
  ASSUME NEW a, NEW b, NEW c, NEW d, Faithful(a), Faithful(b), Faithful(c), Faithful(d)
  PROVE  Sound(<<a, b, c, d>>)
<1> DEFINE X == {a, b, c, d}
<1>1. <<a, b, c, d>> \in Seq(X)
  OBVIOUS
<1>2. \A i \in X : Faithful(i)
  OBVIOUS
<1> HIDE DEF X
<1> QED
  BY <1>1, <1>2, SoundIn, Zenon

LEMMA SoundFive ==
  ASSUME NEW a, NEW b, NEW c, NEW d, NEW e, Faithful(a), Faithful(b), Faithful(c), Faithful(d), Faithful(e)
  PROVE  Sound(<<a, b, c, d, e>>)
<1> DEFINE X == {a, b, c, d, e}
<1>1. <<a, b, c, d, e>> \in Seq(X)
  OBVIOUS
<1>2. \A i \in X : Faithful(i)
  OBVIOUS
<1> HIDE DEF X
<1> QED
  BY <1>1, <1>2, SoundIn, Zenon

(* The registers, and the instructions with them that the back end emits.  *)
LEMMA Registers ==
  /\ RAX \in Regs /\ RCX \in Regs /\ RDX \in Regs /\ RSP \in Regs /\ RBP \in Regs
  /\ RSI \in Regs /\ RDI \in Regs /\ R8 \in Regs /\ R9 \in Regs
  /\ RAX < 4
  BY DEF RAX, RCX, RDX, RSP, RBP, RSI, RDI, R8, R9, Regs

(* Small numbers are whole.                                                *)
LEMMA SmallWhole ==
  Whole(0) /\ Whole(8) /\ Whole(60) /\ 0 <= 60
  BY SMT DEF Whole, MaxInt

(* Instructions of two registers.                                          *)
LEMMA PairFaithful ==
  ASSUME NEW cmd \in {"MOV", "ADD", "SUB", "XOR", "CMP", "TEST"}, NEW r \in Regs, NEW f \in Regs
  PROVE  Faithful(Op(cmd, R(r), R(f)))
<1>1. IsRM(R(r), 8) /\ 8 \in Sizes /\ 8 # 1
  BY DEF IsRM, R, Sizes
<1>2. Faithful(Op(cmd, R(r), Reg(f, 8)))
  BY <1>1, AluFaithful
<1> QED
  BY <1>2 DEF R

(* A register stored in the frame.                                         *)
LEMMA StoreFaithful ==
  ASSUME NEW size \in Sizes, NEW f \in Regs, size = 1 => f < 4, NEW r \in Regs, NEW d, Whole(d)
  PROVE  Faithful(Op("MOV", Mem(r, d, size), Reg(f, size)))
<1>1. IsRM(Mem(r, d, size), size)
  BY DEF IsRM
<1> QED
  BY <1>1, AluFaithful

(* The prologue of a function, with or without a frame.                    *)
LEMMA EnterSound ==
  ASSUME NEW size, Whole(size)
  PROVE  Sound(Enter(size))
<1> DEFINE a == One("PUSH", R(RBP))
           b == Op("MOV", R(RBP), R(RSP))
           c == Op("SUB", R(RSP), Imm(size))
           more == IF size > 0 THEN <<c>> ELSE <<>>
<1>1. Faithful(a)
  BY Registers, StackFaithful
<1>2. Faithful(b)
  BY Registers, PairFaithful
<1>3. Faithful(c)
  BY Registers, AluImmFaithful
<1>0. Enter(size) = <<a, b>> \o more
  BY DEF Enter
<1> HIDE DEF a, b, c
<1>4. Sound(<<a, b>>)
  BY <1>1, <1>2, SoundTwo
<1>5. Sound(more)
  BY <1>3, SoundOne, SoundNone
<1> HIDE DEF more
<1> QED
  BY <1>0, <1>4, <1>5, SoundJoin

(* The epilogue.                                                           *)
LEMMA LeaveSound == Sound(Leave)
<1> DEFINE a == Op("MOV", R(RSP), R(RBP))
           b == One("POP", R(RBP))
           c == Alone("RET")
<1>1. Faithful(a)
  BY Registers, PairFaithful
<1>2. Faithful(b)
  BY Registers, StackFaithful
<1>3. Faithful(c)
  BY AloneFaithful
<1>0. Leave = <<a, b, c>>
  BY DEF Leave
<1> HIDE DEF a, b, c
<1> QED
  BY <1>0, <1>1, <1>2, <1>3, SoundThree

(* The end of the program.                                                 *)
LEMMA ExitSound == Sound(Exit)
<1> DEFINE a == Op("MOV", R(RAX), Imm(60))
           b == Op("XOR", R(RDI), R(RDI))
           c == Alone("SYSCALL")
<1>1. Faithful(a)
  BY Registers, SmallWhole, ImmFaithful
<1>2. Faithful(b)
  BY Registers, PairFaithful
<1>3. Faithful(c)
  BY AloneFaithful
<1>0. Exit = <<a, b, c>>
  BY DEF Exit
<1> HIDE DEF a, b, c
<1> QED
  BY <1>0, <1>1, <1>2, <1>3, SoundThree

(* The conversions.                                                        *)
LEMMA CastsSound == Sound(Casts)
<1> DEFINE a == Op("MOVSX", R(RAX), Reg(RAX, 1))
           b == Op("MOVSX", Reg(RAX, 2), Reg(RAX, 1))
           c == Op("MOVSX", R(RAX), Reg(RAX, 2))
           d == Alone("CDQE")
<1>1. Faithful(a)
  BY Registers, ExtendFaithful DEF R
<1>2. Faithful(b)
  BY Registers, ExtendFaithful
<1>3. Faithful(c)
  BY Registers, ExtendFaithful DEF R
<1>4. Faithful(d)
  BY AloneFaithful
<1>0. Casts = <<a, b, c, d>>
  BY DEF Casts
<1> HIDE DEF a, b, c, d
<1> QED
  BY <1>0, <1>1, <1>2, <1>3, <1>4, SoundFour

(* The comparisons.                                                        *)
LEMMA TruthSound ==
  ASSUME NEW set \in SetCommands
  PROVE  Sound(Truth(set))
<1> DEFINE a == One(set, Reg(RAX, 1))
           b == Op("MOVZX", R(RAX), Reg(RAX, 1))
<1>1. Faithful(a)
  BY SetFaithful
<1>2. Faithful(b)
  BY Registers, ExtendFaithful DEF R
<1>0. Truth(set) = <<a, b>>
  BY DEF Truth
<1> HIDE DEF a, b
<1> QED
  BY <1>0, <1>1, <1>2, SoundTwo

(* The jumps of conditions.                                                *)
LEMMA BranchesSound == Sound(Branches)
<1> DEFINE a == Op("TEST", R(RAX), R(RAX))
           b == One("JZ", Label)
           c == One("JNZ", Label)
           d == One("JMP", Label)
<1>1. Faithful(a)
  BY Registers, PairFaithful
<1>2. Faithful(b) /\ Faithful(c)
  BY BranchFaithful
<1>4. Faithful(d)
  BY JumpFaithful
<1>0. Branches = <<a, b, c, d>>
  BY DEF Branches
<1> HIDE DEF a, b, c, d
<1> QED
  BY <1>0, <1>1, <1>2, <1>4, SoundFour

(* The arithmetic.                                                         *)
LEMMA ArithmeticSound == Sound(Arithmetic)
<1> DEFINE S == {One("PUSH", R(RAX)), One("POP", R(RDI)), Op("ADD", R(RAX), R(RDI)), Op("SUB", R(RDI), R(RAX)),
                 Op("MOV", R(RAX), R(RDI)), Op("IMUL", R(RAX), R(RDI)), Alone("CQO"), One("IDIV", R(RDI)),
                 Op("MOV", R(RAX), R(RDX)), One("NEG", R(RAX)), Op("CMP", R(RDI), R(RAX))}
           s == <<One("PUSH", R(RAX)), One("POP", R(RDI)), Op("ADD", R(RAX), R(RDI)), Op("SUB", R(RDI), R(RAX)),
                  Op("MOV", R(RAX), R(RDI)), Op("IMUL", R(RAX), R(RDI)), Alone("CQO"), One("IDIV", R(RDI)),
                  Op("MOV", R(RAX), R(RDX)), One("NEG", R(RAX)), Op("CMP", R(RDI), R(RAX))>>
<1>1. s \in Seq(S)
  OBVIOUS
<1>2. \A i \in S : Faithful(i)
  <2>1. Faithful(One("PUSH", R(RAX))) /\ Faithful(One("POP", R(RDI)))
    BY Registers, StackFaithful
  <2>2. /\ Faithful(Op("ADD", R(RAX), R(RDI))) /\ Faithful(Op("SUB", R(RDI), R(RAX)))
        /\ Faithful(Op("MOV", R(RAX), R(RDI)))
        /\ Faithful(Op("MOV", R(RAX), R(RDX))) /\ Faithful(Op("CMP", R(RDI), R(RAX)))
    BY Registers, PairFaithful
  <2>3. Faithful(Op("IMUL", R(RAX), R(RDI)))
    BY Registers, ImulFaithful
  <2>4. Faithful(Alone("CQO"))
    BY AloneFaithful
  <2>5. Faithful(One("IDIV", R(RDI))) /\ Faithful(One("NEG", R(RAX)))
    BY Registers, UnaryFaithful
  <2> QED
    BY <2>1, <2>2, <2>3, <2>4, <2>5
<1>3. Sound(s)
  <2> HIDE DEF S, s
  <2> QED
    BY <1>1, <1>2, SoundIn, Zenon
<1>4. Arithmetic = s \o Truth("SETE") \o Truth("SETNE") \o Truth("SETL") \o Truth("SETGE")
                     \o Truth("SETLE") \o Truth("SETG")
  BY DEF Arithmetic
<1> HIDE DEF s
<1>5. /\ Sound(Truth("SETE")) /\ Sound(Truth("SETNE")) /\ Sound(Truth("SETL")) /\ Sound(Truth("SETGE"))
      /\ Sound(Truth("SETLE")) /\ Sound(Truth("SETG"))
  BY TruthSound DEF SetCommands
<1> QED
  BY <1>3, <1>4, <1>5, SoundJoin, Zenon

(* Values moved between registers and the stack.                           *)
LEMMA MovedSound ==
  ASSUME NEW size \in Sizes
  PROVE  Sound(Moved(size))
<1> DEFINE a == Op("MOV", Reg(RAX, size), Mem(RAX, 0, size))
           b == Op("MOV", Mem(RDI, 0, size), Reg(RAX, size))
<1>1. Faithful(a)
  BY Registers, SmallWhole, LoadFaithful
<1>2. Faithful(b)
  BY Registers, SmallWhole, StoreFaithful
<1>0. Moved(size) = <<a, b>>
  BY DEF Moved
<1> HIDE DEF a, b
<1> QED
  BY <1>0, <1>1, <1>2, SoundTwo

(* A literal.                                                              *)
LEMMA LiteralSound ==
  ASSUME NEW v, Whole(v), 0 <= v
  PROVE  Sound(Literal(v) \o Copied(v))
<1> DEFINE x == Op("MOV", R(RAX), Imm(v))
           a == Op("MOV", R(RSI), R(RAX))
           b == One("POP", R(RDI))
           c == Op("MOV", R(RCX), Imm(v))
           d == Alone("REP_MOVSB")
<1>1. Faithful(a)
  BY Registers, PairFaithful
<1>2. Faithful(b)
  BY Registers, StackFaithful
<1>3. Faithful(c) /\ Faithful(x)
  BY Registers, ImmFaithful
<1>4. Faithful(d)
  BY RepFaithful
<1>0. Literal(v) = <<x>> /\ Copied(v) = <<a, b, c, d>>
  BY DEF Literal, Copied
<1> HIDE DEF a, b, c, d, x
<1>5. Sound(<<x>>) /\ Sound(<<a, b, c, d>>)
  BY <1>1, <1>2, <1>3, <1>4, SoundOne, SoundFour
<1> QED
  BY <1>0, <1>5, SoundJoin

(* Parts of a value, their distance added.                                 *)
LEMMA WithinSound ==
  ASSUME NEW v, Whole(v)
  PROVE  Sound(Within(v))
<1> DEFINE a == Op("ADD", R(RAX), Imm(v))
           b == One("PUSH", R(RAX))
           c == Op("IMUL", R(RAX), Imm(v))
           d == One("POP", R(RDI))
           e == Op("ADD", R(RAX), R(RDI))
<1>1. Faithful(a)
  BY Registers, AluImmFaithful
<1>2. Faithful(b) /\ Faithful(d)
  BY Registers, StackFaithful
<1>3. Faithful(c)
  BY Registers, ImulImmFaithful
<1>4. Faithful(e)
  BY Registers, PairFaithful
<1>0. Within(v) = <<a, b, c, d, e>>
  BY DEF Within
<1> HIDE DEF a, b, c, d, e
<1> QED
  BY <1>0, <1>1, <1>2, <1>3, <1>4, SoundFive

(* A call.                                                                 *)
LEMMA CalledSound ==
  ASSUME NEW v, Whole(v)
  PROVE  Sound(Called(v))
<1> DEFINE S == {One("POP", R(r)) : r \in Regs}
           s == [k \in DOMAIN KTL_PARAM_REGS |-> One("POP", R(KTL_PARAM_REGS[k]))]
           a == Op("SUB", R(RSP), Imm(8))
           b == Op("XOR", R(RAX), R(RAX))
           c == One("CALL", Label)
           d == Op("ADD", R(RSP), Imm(v))
<1>1. Faithful(a) /\ Faithful(d)
  BY Registers, SmallWhole, AluImmFaithful
<1>2. Faithful(b)
  BY Registers, PairFaithful
<1>3. Faithful(c)
  BY JumpFaithful
<1>4. KTL_PARAM_REGS \in Seq(Regs)
  BY Registers DEF KTL_PARAM_REGS
<1>5. s \in Seq(S)
  BY <1>4
<1>6. \A i \in S : Faithful(i)
  BY StackFaithful
<1>0. Called(v) = s \o <<a, b, c, d>>
  BY DEF Called
<1> HIDE DEF a, b, c, d, s, S
<1>7. Sound(<<a, b, c, d>>)
  BY <1>1, <1>2, <1>3, SoundFour
<1>8. Sound(s)
  BY <1>5, <1>6, SoundIn, Zenon
<1> QED
  BY <1>0, <1>7, <1>8, SoundJoin

(* All that an expression is made of.                                      *)
LEMMA Expressions == ExpressionsRun
<1>1. Runs(Leave \o Exit \o Casts \o Arithmetic \o Branches)
  <2>1. Sound(Leave \o Exit \o Casts \o Arithmetic \o Branches)
    BY LeaveSound, ExitSound, CastsSound, ArithmeticSound, BranchesSound, SoundJoin, Zenon
  <2> QED
    BY <2>1, SoundRuns
<1>2. \A size \in {1, 2, 4, 8} : Runs(Moved(size))
  BY MovedSound, SoundRuns DEF Sizes
<1>3. \A v \in Immediates : Whole(v) /\ 0 <= v
  <2>1. MaxInt \in Nat
    BY SMT DEF MaxInt
  <2> QED
    BY <2>1, AccessAssumption DEF Whole
<1>4. \A v \in Immediates : Runs(Literal(v) \o Copied(v))
  BY <1>3, LiteralSound, SoundRuns
<1>5. \A v \in Immediates \ {0} : Runs(Within(v) \o Called(v))
  BY <1>3, WithinSound, CalledSound, SoundJoin, SoundRuns
<1> QED
  BY <1>1, <1>2, <1>4, <1>5 DEF ExpressionsRun

-----------------------------------------------------------------------------
(*****************************************************************************)
(* What a run fills                                                         *)
(*****************************************************************************)
(* What a run of instructions leaves behind, one step after the other.     *)
States == [rdi : Int, rcx : Int, other : Int, stored : SUBSET Int]
SlotBytes(d, n) == {d + k : k \in 0 .. n - 1}
Kept(i) == \A m \in States : Step(i, m) \in States

(* The machine step by step: a start, and one state after the other.       *)
LEMMA MachineFacts ==
  ASSUME NEW X, NEW s \in Seq(X), \A i \in X : Kept(i)
  PROVE  /\ Machine(s)[0] = Start
         /\ \A k \in 0 .. Len(s) : Machine(s)[k] \in States
         /\ \A k \in 1 .. Len(s) : Machine(s)[k] = Step(s[k], Machine(s)[k - 1])
<1> DEFINE N == Len(s)
           E(k, m) == Step(s[k], m)
           F == [x \in States \X (1 .. N) |-> E(x[2], x[1])]
           b == Machine(s)
<1>1. N \in Nat /\ Start \in States /\ \A k \in 1 .. N : \A m \in States : E(k, m) \in States
  <2>1. Start \in States
    BY DEF Start, States
  <2>2. \A k \in 1 .. N : s[k] \in X
    OBVIOUS
  <2> QED
    BY <2>1, <2>2 DEF Kept
<1> HIDE DEF N, E
<1>2. \A m \in States, k \in 1 .. N : F[<<m, k>>] = E(k, m)
  OBVIOUS
<1>3. F \in [States \X (1 .. N) -> States]
  <2>1. \A x \in States \X (1 .. N) : E(x[2], x[1]) \in States
    BY <1>1
  <2> QED
    BY <2>1
<1> HIDE DEF F
<1>4. PICK g \in [0 .. N -> States] :
        \A k \in 0 .. N : g[k] = IF k = 0 THEN Start ELSE F[<<g[k - 1], k>>]
  <2>1. Recursive(N, States, Start, F) # {}
    BY <1>1, <1>3, Recursion
  <2> QED
    BY <2>1 DEF Recursive
<1>5. \A k \in 0 .. N : g[k] = IF k = 0 THEN Start ELSE E(k, g[k - 1])
  <2> TAKE k \in 0 .. N
  <2>1. CASE k = 0
    BY <1>4, <2>1
  <2>2. CASE k # 0
    <3>1. k \in 1 .. N /\ k - 1 \in 0 .. N
      BY <2>2, <1>1
    <3>2. g[k - 1] \in States
      BY <1>4, <3>1
    <3> QED
      BY <1>2, <1>4, <2>2, <3>1, <3>2
  <2> QED
    BY <2>1, <2>2
<1>6. g = [k \in 0 .. N |-> IF k = 0 THEN Start ELSE E(k, g[k - 1])]
  BY <1>4, <1>5
<1>7. b = [k \in 0 .. N |-> IF k = 0 THEN Start ELSE E(k, b[k - 1])]
  BY <1>6 DEF Machine, N, E
<1> HIDE DEF b
<1>8. b[0] = Start /\ \A k \in 1 .. N : b[k] = E(k, b[k - 1])
  <2>1. 0 \in 0 .. N /\ \A k \in 1 .. N : k \in 0 .. N /\ k # 0
    BY <1>1
  <2>2. \A k \in 0 .. N : b[k] = IF k = 0 THEN Start ELSE E(k, b[k - 1])
    BY <1>7
  <2> QED
    BY <2>1, <2>2
<1>9. \A k \in 0 .. N : b[k] \in States
  <2> DEFINE T == {k \in 0 .. N : b[k] \in States}
  <2>1. 0 \in T
    BY <1>1, <1>8
  <2>2. ASSUME NEW k \in 1 .. N, k - 1 \in T PROVE k \in T
    BY <1>1, <1>8, <2>2
  <2>3. \A k \in 0 .. N : k \in T
    <3> HIDE DEF T
    <3>1. \A k \in 1 .. N : k - 1 \in T => k \in T
      BY <2>2, Zenon
    <3> QED
      BY <1>1, <2>1, <3>1, UpTo
  <2> QED
    BY <2>3
<1> QED
  BY <1>8, <1>9 DEF b, N, E

(* The steps that matter, and the others.                                  *)
StepIs(i, m, rdi, rcx, stored) ==
  /\ Step(i, m) \in States
  /\ Step(i, m).rdi = rdi /\ Step(i, m).rcx = rcx /\ Step(i, m).stored = stored

(* MOV to the frame fills its bytes.                                       *)
LEMMA StepStore ==
  ASSUME NEW d \in Int, NEW z \in Nat, NEW f, NEW m \in States
  PROVE  StepIs(Op("MOV", Mem(RBP, d, z), Reg(f, z)), m, m.rdi, m.rcx, m.stored \cup SlotBytes(d, z))
<1> DEFINE i == Op("MOV", Mem(RBP, d, z), Reg(f, z))
<1>1. /\ i.cmd = "MOV" /\ i.args[1].kind = "mem" /\ i.args[1].base = RBP
      /\ i.args[1].offset = d /\ i.args[1].size = z
  BY DEF Op, Instr, Mem
<1> HIDE DEF i
<1>2. Step(i, m) = [m EXCEPT !.stored = @ \cup SlotBytes(d, z)]
  BY <1>1 DEF Step, SlotBytes
<1>3. SlotBytes(d, z) \subseteq Int
  BY DEF SlotBytes
<1>4. StepIs(i, m, m.rdi, m.rcx, m.stored \cup SlotBytes(d, z))
  <2> HIDE DEF Step
  <2> QED
    BY <1>2, <1>3 DEF StepIs, States
<1> QED
  BY <1>4 DEF i

(* LEA of a slot leaves its distance in RDI.                               *)
LEMMA StepLea ==
  ASSUME NEW d \in Int, NEW m \in States
  PROVE  StepIs(Op("LEA", R(RDI), Mem(RBP, d, 8)), m, d, m.rcx, m.stored)
<1> DEFINE i == Op("LEA", R(RDI), Mem(RBP, d, 8))
<1>1. i.cmd = "LEA" /\ i.args[1].reg = RDI /\ i.args[2].base = RBP /\ i.args[2].offset = d
  BY DEF Op, Instr, Mem, R, Reg
<1> HIDE DEF i
<1>2. Step(i, m) = [m EXCEPT !["rdi"] = d]
  BY <1>1 DEF Step
<1>4. StepIs(i, m, d, m.rcx, m.stored)
  BY <1>2 DEF StepIs, States
<1> QED
  BY <1>4 DEF i

(* MOV of a number leaves it in RCX.                                       *)
LEMMA StepCount ==
  ASSUME NEW v \in Int, NEW m \in States
  PROVE  StepIs(Op("MOV", R(RCX), Imm(v)), m, m.rdi, v, m.stored)
<1> DEFINE i == Op("MOV", R(RCX), Imm(v))
<1>1. /\ i.cmd = "MOV" /\ i.args[1].reg = RCX /\ i.args[1].kind = "reg"
      /\ i.args[2].kind = "imm" /\ i.args[2].imm = v
  BY DEF Op, Instr, Imm, R, Reg
<1> HIDE DEF i
<1>2. Step(i, m) = [m EXCEPT !["rcx"] = v]
  BY <1>1 DEF Step, RCX, RDI
<1>4. StepIs(i, m, m.rdi, v, m.stored)
  BY <1>2 DEF StepIs, States
<1> QED
  BY <1>4 DEF i

(* REP fills RCX bytes from RDI on.                                        *)
LEMMA StepRep ==
  ASSUME NEW cmd \in {"REP_STOSB", "REP_MOVSB"}, NEW m \in States
  PROVE  StepIs(Alone(cmd), m, m.rdi, m.rcx, m.stored \cup SlotBytes(m.rdi, m.rcx))
<1> DEFINE i == Alone(cmd)
<1>1. i.cmd = cmd
  BY DEF Alone, Instr
<1> HIDE DEF i
<1>2. Step(i, m) = [m EXCEPT !.stored = @ \cup SlotBytes(m.rdi, m.rcx)]
  BY <1>1 DEF Step, SlotBytes
<1>3. SlotBytes(m.rdi, m.rcx) \subseteq Int
  BY DEF SlotBytes, States
<1>4. StepIs(i, m, m.rdi, m.rcx, m.stored \cup SlotBytes(m.rdi, m.rcx))
  BY <1>2, <1>3 DEF StepIs, States
<1> QED
  BY <1>4 DEF i

(* The others fill nothing.                                                *)
LEMMA StepIdle ==
  ASSUME NEW m \in States, NEW x, NEW f, NEW r
  PROVE  /\ StepIs(Op("XOR", x, x), m, m.rdi, m.rcx, m.stored)
         /\ StepIs(Op("MOV", R(f), R(r)), m, m.rdi, m.rcx, m.stored)
<1>1. Step(Op("XOR", x, x), m) = m
  BY DEF Step, Op, Instr
<1>2. Step(Op("MOV", R(f), R(r)), m) = m
  <2> DEFINE i == Op("MOV", R(f), R(r))
  <2>1. i.cmd = "MOV" /\ i.args[1].kind = "reg" /\ i.args[2].kind = "reg"
    BY DEF Op, Instr, R, Reg
  <2> HIDE DEF i
  <2>2. Step(i, m) = m
    BY <2>1 DEF Step
  <2> QED
    BY <2>2 DEF i
<1> QED
  BY <1>1, <1>2 DEF StepIs, States

(* States lead to states.                                                  *)
LEMMA KeptSteps ==
  /\ \A d \in Int : \A z \in Nat : \A f : Kept(Op("MOV", Mem(RBP, d, z), Reg(f, z)))
  /\ \A d \in Int : Kept(Op("LEA", R(RDI), Mem(RBP, d, 8)))
  /\ \A v \in Int : Kept(Op("MOV", R(RCX), Imm(v)))
  /\ \A cmd \in {"REP_STOSB", "REP_MOVSB"} : Kept(Alone(cmd))
  /\ \A x : Kept(Op("XOR", x, x))
  /\ \A f, r : Kept(Op("MOV", R(f), R(r)))
<1>1. ASSUME NEW d \in Int, NEW z \in Nat, NEW f
      PROVE  Kept(Op("MOV", Mem(RBP, d, z), Reg(f, z)))
  BY StepStore DEF Kept, StepIs
<1>2. ASSUME NEW d \in Int PROVE Kept(Op("LEA", R(RDI), Mem(RBP, d, 8)))
  BY StepLea DEF Kept, StepIs
<1>3. ASSUME NEW v \in Int PROVE Kept(Op("MOV", R(RCX), Imm(v)))
  BY StepCount DEF Kept, StepIs
<1>4. ASSUME NEW cmd \in {"REP_STOSB", "REP_MOVSB"} PROVE Kept(Alone(cmd))
  BY StepRep DEF Kept, StepIs
<1>5. ASSUME NEW x PROVE Kept(Op("XOR", x, x))
  BY StepIdle DEF Kept, StepIs
<1>6. ASSUME NEW f, NEW r PROVE Kept(Op("MOV", R(f), R(r)))
  BY StepIdle DEF Kept, StepIs
<1> QED
  BY <1>1, <1>2, <1>3, <1>4, <1>5, <1>6

(* The state before the run.                                               *)
LEMMA StartIs == Start \in States /\ Start.stored = {}
  BY DEF Start, States

(* A run ends with its last instruction.                                   *)
LEMMA NothingMore == \A S : {} \cup S = S
  OBVIOUS

(* The bytes of neighbours.                                                *)
LEMMA Consecutive ==
  ASSUME NEW d \in Int, NEW a \in Nat, NEW b \in Nat
  PROVE  SlotBytes(d, a) \cup SlotBytes(d + a, b) = SlotBytes(d, a + b)
<1>1. ASSUME NEW x \in SlotBytes(d, a) PROVE x \in SlotBytes(d, a + b)
  BY <1>1 DEF SlotBytes
<1>2. ASSUME NEW x \in SlotBytes(d + a, b) PROVE x \in SlotBytes(d, a + b)
  <2>1. PICK k \in 0 .. b - 1 : x = d + a + k
    BY DEF SlotBytes
  <2>2. a + k \in 0 .. a + b - 1 /\ x = d + (a + k)
    BY <2>1
  <2> QED
    BY <2>2 DEF SlotBytes
<1>3. ASSUME NEW x \in SlotBytes(d, a + b) PROVE x \in SlotBytes(d, a) \/ x \in SlotBytes(d + a, b)
  <2>1. PICK k \in 0 .. a + b - 1 : x = d + k
    BY DEF SlotBytes
  <2>2. CASE k < a
    BY <2>1, <2>2 DEF SlotBytes
  <2>3. CASE ~(k < a)
    <3>1. k - a \in 0 .. b - 1 /\ x = d + a + (k - a)
      BY <2>1, <2>3
    <3> QED
      BY <3>1 DEF SlotBytes
  <2> QED
    BY <2>2, <2>3
<1> QED
  BY <1>1, <1>2, <1>3

(* A run of instructions that fills a slot.                                *)
Fills(s, d, n) == Sound(s) /\ Stored(s) = SlotBytes(d, n)

(* What a sound run fills is what the machine of the run fills.            *)
LEMMA StoredOf ==
  ASSUME NEW s, Sound(s)
  PROVE  Stored(s) = Machine(s)[Len(s)].stored
<1>1. Disassembled(encode(s)) = s
  BY SoundRuns DEF Runs
<1> QED
  BY <1>1 DEF Stored

(* A parameter is stored whole, and nothing else.                          *)
LEMMA SpillFills ==
  ASSUME NEW d, Whole(d), NEW f \in Regs
  PROVE  Fills(<<Op("MOV", Mem(RBP, d, 8), R(f))>>, d, 8)
<1> DEFINE a == Op("MOV", Mem(RBP, d, 8), R(f))
           X == {a}
           s == <<a>>
<1>0. d \in Int /\ 8 \in Nat /\ 8 \in Sizes /\ 8 # 1
  BY DEF Whole, Sizes
<1>1. Faithful(a)
  BY <1>0, Registers, StoreFaithful DEF R
<1>2. Kept(a)
  BY <1>0, KeptSteps DEF R
<1>3. StepIs(a, Start, Start.rdi, Start.rcx, Start.stored \cup SlotBytes(d, 8))
  BY <1>0, StartIs, StepStore DEF R
<1> HIDE DEF a
<1>4. Sound(s)
  BY <1>1, SoundOne
<1>5. s \in Seq(X) /\ Len(s) = 1 /\ s[1] = a /\ \A i \in X : Kept(i)
  BY <1>2
<1> HIDE DEF s, X
<1>6. Machine(s)[0] = Start /\ \A k \in 1 .. 1 : Machine(s)[k] = Step(s[k], Machine(s)[k - 1])
  BY <1>5, MachineFacts
<1>7. Machine(s)[1] = Step(a, Start)
  BY <1>5, <1>6
<1>8. Stored(s) = SlotBytes(d, 8)
  BY <1>3, <1>4, <1>5, <1>7, StartIs, StoredOf DEF StepIs
<1> QED
  BY <1>4, <1>8 DEF Fills, s, a

(* A scalar is stored whole, and nothing else.                             *)
LEMMA ScalarFills ==
  ASSUME NEW d, Whole(d), NEW z \in Sizes
  PROVE  Fills(<<Op("XOR", R(RAX), R(RAX)), Op("MOV", Mem(RBP, d, z), Reg(RAX, z))>>, d, z)
<1> DEFINE a == Op("XOR", R(RAX), R(RAX))
           b == Op("MOV", Mem(RBP, d, z), Reg(RAX, z))
           X == {a, b}
           s == <<a, b>>
<1>0. d \in Int /\ z \in Nat
  BY DEF Whole, Sizes
<1>1. Faithful(a) /\ Faithful(b)
  BY Registers, StoreFaithful, PairFaithful
<1>2. Kept(a) /\ Kept(b)
  BY <1>0, KeptSteps
<1>3. ASSUME NEW m \in States
      PROVE  /\ StepIs(a, m, m.rdi, m.rcx, m.stored)
             /\ StepIs(b, m, m.rdi, m.rcx, m.stored \cup SlotBytes(d, z))
  BY <1>0, StepIdle, StepStore
<1> HIDE DEF a, b
<1>4. Sound(s)
  BY <1>1, SoundTwo
<1>5. s \in Seq(X) /\ Len(s) = 2 /\ s[1] = a /\ s[2] = b /\ \A i \in X : Kept(i)
  BY <1>2
<1> HIDE DEF s, X
<1>6. /\ Machine(s)[0] = Start /\ \A k \in 0 .. 2 : Machine(s)[k] \in States
      /\ \A k \in 1 .. 2 : Machine(s)[k] = Step(s[k], Machine(s)[k - 1])
  BY <1>5, MachineFacts
<1>7. Machine(s)[1] = Step(a, Machine(s)[0]) /\ Machine(s)[2] = Step(b, Machine(s)[1])
  BY <1>5, <1>6
<1>8. Machine(s)[1].stored = {}
  BY <1>3, <1>6, <1>7, StartIs DEF StepIs
<1>9. Machine(s)[2].stored = SlotBytes(d, z)
  <2>1. Machine(s)[2].stored = {} \cup SlotBytes(d, z)
    <3>1. Machine(s)[1] \in States
      BY <1>6
    <3>2. Step(b, Machine(s)[1]).stored = Machine(s)[1].stored \cup SlotBytes(d, z)
      BY <1>3, <3>1, Zenon DEF StepIs
    <3> QED
      BY <1>7, <1>8, <3>2, Zenon
  <2> QED
    BY <2>1, NothingMore
<1>10. Stored(s) = SlotBytes(d, z)
  BY <1>4, <1>5, <1>9, StoredOf
<1> QED
  BY <1>4, <1>10 DEF Fills, s, a, b

(* An aggregate is filled whole, and nothing else.                         *)
LEMMA BlockFills ==
  ASSUME NEW d, Whole(d), NEW v, Whole(v), 0 <= v
  PROVE  Fills(<<Op("LEA", R(RDI), Mem(RBP, d, 8)), Op("XOR", Reg(RAX, 1), Reg(RAX, 1)),
                 Op("MOV", R(RCX), Imm(v)), Alone("REP_STOSB")>>, d, v)
<1> DEFINE a == Op("LEA", R(RDI), Mem(RBP, d, 8))
           b == Op("XOR", Reg(RAX, 1), Reg(RAX, 1))
           c == Op("MOV", R(RCX), Imm(v))
           e == Alone("REP_STOSB")
           X == {a, b, c, e}
           s == <<a, b, c, e>>
<1>0. d \in Int /\ v \in Int
  BY DEF Whole
<1>1. Faithful(a) /\ Faithful(b) /\ Faithful(c) /\ Faithful(e)
  <2>1. Faithful(a)
    BY Registers, LeaFaithful
  <2>2. Faithful(b)
    <3>1. IsRM(Reg(RAX, 1), 1) /\ 1 \in Sizes
      BY Registers DEF IsRM, Sizes
    <3> QED
      BY <3>1, Registers, AluFaithful
  <2>3. Faithful(c)
    BY Registers, ImmFaithful
  <2> QED
    BY <2>1, <2>2, <2>3, RepFaithful
<1>2. Kept(a) /\ Kept(b) /\ Kept(c) /\ Kept(e)
  BY <1>0, KeptSteps
<1>3. ASSUME NEW m \in States
      PROVE  /\ StepIs(a, m, d, m.rcx, m.stored)
             /\ StepIs(b, m, m.rdi, m.rcx, m.stored)
             /\ StepIs(c, m, m.rdi, v, m.stored)
             /\ StepIs(e, m, m.rdi, m.rcx, m.stored \cup SlotBytes(m.rdi, m.rcx))
  BY <1>0, StepIdle, StepLea, StepCount, StepRep
<1> HIDE DEF a, b, c, e
<1>4. Sound(s)
  BY <1>1, SoundFour
<1>5. /\ s \in Seq(X) /\ Len(s) = 4 /\ s[1] = a /\ s[2] = b /\ s[3] = c /\ s[4] = e
      /\ \A i \in X : Kept(i)
  BY <1>2
<1> HIDE DEF s, X
<1>6. /\ Machine(s)[0] = Start /\ \A k \in 0 .. 4 : Machine(s)[k] \in States
      /\ \A k \in 1 .. 4 : Machine(s)[k] = Step(s[k], Machine(s)[k - 1])
  BY <1>5, MachineFacts
<1>7. /\ Machine(s)[1] = Step(a, Machine(s)[0]) /\ Machine(s)[2] = Step(b, Machine(s)[1])
      /\ Machine(s)[3] = Step(c, Machine(s)[2]) /\ Machine(s)[4] = Step(e, Machine(s)[3])
  BY <1>5, <1>6
<1>8. Machine(s)[1].rdi = d /\ Machine(s)[1].stored = {}
  BY <1>3, <1>6, <1>7, StartIs DEF StepIs
<1>9. Machine(s)[2].rdi = d /\ Machine(s)[2].stored = {}
  BY <1>3, <1>6, <1>7, <1>8 DEF StepIs
<1>10. Machine(s)[3].rdi = d /\ Machine(s)[3].rcx = v /\ Machine(s)[3].stored = {}
  BY <1>3, <1>6, <1>7, <1>9 DEF StepIs
<1>11. Machine(s)[4].stored = SlotBytes(d, v)
  <2>1. Machine(s)[4].stored = {} \cup SlotBytes(d, v)
    <3>1. Machine(s)[3] \in States
      BY <1>6
    <3>2. Step(e, Machine(s)[3]).stored
            = Machine(s)[3].stored \cup SlotBytes(Machine(s)[3].rdi, Machine(s)[3].rcx)
      BY <1>3, <3>1, Zenon DEF StepIs
    <3> QED
      BY <1>7, <1>10, <3>2, Zenon
  <2> QED
    BY <2>1, NothingMore
<1>12. Stored(s) = SlotBytes(d, v)
  BY <1>4, <1>5, <1>11, StoredOf
<1> QED
  BY <1>4, <1>12 DEF Fills, s, a, b, c, e

(* Elements up to k, and the next.                                         *)
LEMMA Elements ==
  ASSUME NEW e \in Nat, NEW n \in Nat, NEW k \in 1 .. n
  PROVE  0 <= (k - 1) * e /\ (k - 1) * e + e = k * e /\ k * e <= e * n /\ (k - 1) * e \in Nat
<1>1. (k - 1) * e + e = k * e /\ (n - k) * e = e * n - k * e
  OBVIOUS
<1>2. k - 1 \in Nat /\ n - k \in Nat
  OBVIOUS
<1>3. (k - 1) * e \in Nat /\ (n - k) * e \in Nat
  BY <1>2
<1> QED
  BY <1>1, <1>3

ScalarRun(d, elem, n) ==
  [k \in 1 .. n |-> Op("MOV", Mem(RBP, d + (k - 1) * elem, elem), Reg(RAX, elem))]

(* An array of scalars is filled whole, and nothing else.                  *)
LEMMA ArrayFills ==
  ASSUME NEW d, Whole(d), NEW elem \in Sizes, NEW n \in Nat, Whole(d + elem * n)
  PROVE  Fills(ScalarRun(d, elem, n), d, elem * n)
<1> DEFINE a(x) == Op("MOV", Mem(RBP, x, elem), Reg(RAX, elem))
           at_(k) == d + (k - 1) * elem
           to_ == d + elem * n
           X == {a(x) : x \in d .. to_}
           s == ScalarRun(d, elem, n)
<1>0. d \in Int /\ elem \in Nat /\ to_ \in Int /\ elem * n \in Nat
  BY DEF Whole, Sizes
<1>1. \A k \in 1 .. n : at_(k) \in d .. to_ /\ at_(k) \in Int /\ (k - 1) * elem \in Nat
  <2> TAKE k \in 1 .. n
  <2>1. 0 <= (k - 1) * elem /\ (k - 1) * elem + elem = k * elem /\ k * elem <= elem * n /\ (k - 1) * elem \in Nat
    BY <1>0, Elements
  <2> DEFINE x == (k - 1) * elem
             y == k * elem
             z == elem * n
  <2>2. x \in Nat /\ x + elem = y /\ y <= z /\ z \in Nat
    BY <1>0, <2>1
  <2> HIDE DEF x, y, z
  <2>3. d + x \in d .. d + z /\ d + x \in Int
    BY <1>0, <2>2
  <2> QED
    BY <2>2, <2>3 DEF x, y, z
<1>2. \A x \in d .. to_ : Whole(x)
  <2>1. MaxInt \in Int
    BY SMT DEF MaxInt
  <2>2. Whole(to_)
    OBVIOUS
  <2> HIDE DEF to_
  <2> QED
    BY <1>0, <2>1, <2>2 DEF Whole
<1>3. \A x \in d .. to_ : Faithful(a(x))
  BY <1>2, Registers, StoreFaithful
<1>4. \A x \in d .. to_ : x \in Int /\ Kept(a(x))
  <2>1. \A x \in d .. to_ : x \in Int
    BY <1>0
  <2> QED
    BY <1>0, <2>1, KeptSteps
<1>5. /\ Len(s) = n /\ \A k \in 1 .. n : s[k] = a(at_(k))
      /\ s \in Seq(X)
  <2>1. s = [k \in 1 .. n |-> a(at_(k))]
    BY DEF ScalarRun
  <2> HIDE DEF s
  <2>2. \A k \in 1 .. n : s[k] = a(at_(k)) /\ s[k] \in X
    BY <1>1, <2>1
  <2> HIDE DEF a, at_, X
  <2> QED
    BY <2>1, <2>2
<1>6. ASSUME NEW m \in States, NEW x \in d .. to_
      PROVE  StepIs(a(x), m, m.rdi, m.rcx, m.stored \cup SlotBytes(x, elem))
  BY <1>0, <1>4, StepStore
<1>7. \A i \in X : Kept(i) /\ Faithful(i)
  BY <1>3, <1>4
<1> HIDE DEF a, X, s
<1>8. Sound(s)
  BY <1>5, <1>7, SoundIn
<1>9. /\ Machine(s)[0] = Start /\ \A k \in 0 .. n : Machine(s)[k] \in States
      /\ \A k \in 1 .. n : Machine(s)[k] = Step(s[k], Machine(s)[k - 1])
  BY <1>5, <1>7, MachineFacts
<1> DEFINE T == {k \in 0 .. n : Machine(s)[k].stored = SlotBytes(d, k * elem)}
<1>10. 0 \in T
  <2>1. SlotBytes(d, 0 * elem) = {}
    BY <1>0 DEF SlotBytes
  <2>2. Machine(s)[0].stored = SlotBytes(d, 0 * elem)
    BY <1>9, <2>1, StartIs, Zenon
  <2> QED
    BY <2>2
<1>11. ASSUME NEW k \in 1 .. n, k - 1 \in T PROVE k \in T
  <2>1. Machine(s)[k - 1].stored = SlotBytes(d, (k - 1) * elem) /\ Machine(s)[k - 1] \in States
    BY <1>9, <1>11
  <2>2. Machine(s)[k] = Step(a(at_(k)), Machine(s)[k - 1])
    BY <1>5, <1>9
  <2>3. at_(k) \in d .. to_
    BY <1>1
  <2>4. Step(a(at_(k)), Machine(s)[k - 1]).stored
          = Machine(s)[k - 1].stored \cup SlotBytes(at_(k), elem)
    <3> HIDE DEF at_, to_
    <3> QED
      BY <1>6, <2>1, <2>3, Zenon DEF StepIs
  <2>5. SlotBytes(d, (k - 1) * elem) \cup SlotBytes(at_(k), elem) = SlotBytes(d, (k - 1) * elem + elem)
    <3> DEFINE x == (k - 1) * elem
    <3>1. x \in Nat /\ elem \in Nat /\ d \in Int
      BY <1>0, <1>1
    <3>2. at_(k) = d + x
      OBVIOUS
    <3> HIDE DEF x, at_
    <3>3. SlotBytes(d, x) \cup SlotBytes(d + x, elem) = SlotBytes(d, x + elem)
      BY <3>1, Consecutive, Zenon
    <3> QED
      BY <3>2, <3>3, Zenon DEF x
  <2>6. (k - 1) * elem + elem = k * elem
    BY <1>0, Elements
  <2>7. Machine(s)[k].stored = SlotBytes(d, k * elem)
    <3> HIDE DEF at_
    <3> QED
      BY <2>1, <2>2, <2>4, <2>5, <2>6, Zenon
  <2> QED
    BY <2>7
<1>12. n \in T
  <2> HIDE DEF T
  <2>1. \A k \in 1 .. n : k - 1 \in T => k \in T
    BY <1>11, Zenon
  <2>2. \A k \in 0 .. n : k \in T
    BY <1>10, <2>1, UpTo
  <2> QED
    BY <2>2
<1>13. Machine(s)[n].stored = SlotBytes(d, n * elem) /\ n * elem = elem * n
  BY <1>0, <1>12
<1>14. Stored(s) = SlotBytes(d, elem * n)
  BY <1>5, <1>8, <1>13, StoredOf
<1> QED
  BY <1>8, <1>14 DEF Fills, s

BlockRun(d, elem, n) ==
  [k \in 1 .. 4 * n |-> CopyTo(d + ((k - 1) \div 4) * elem, elem)[((k - 1) % 4) + 1]]

(* An array of aggregates is filled whole, and nothing else.               *)
LEMMA BlocksFill ==
  ASSUME NEW d, Whole(d), NEW elem, Whole(elem), 0 <= elem, NEW n \in Nat, Whole(d + elem * n)
  PROVE  Fills(BlockRun(d, elem, n), d, elem * n)
<1> DEFINE a == Op("MOV", R(RSI), R(RAX))
           b(x) == Op("LEA", R(RDI), Mem(RBP, x, 8))
           c == Op("MOV", R(RCX), Imm(elem))
           e == Alone("REP_MOVSB")
           at_(q) == d + q * elem
           to_ == d + elem * n
           X == {a, c, e} \cup {b(x) : x \in d .. to_}
           s == BlockRun(d, elem, n)
<1>0. d \in Int /\ elem \in Nat /\ to_ \in Int /\ elem * n \in Nat
  BY DEF Whole
<1>1. \A q \in 0 .. n - 1 : at_(q) \in d .. to_ /\ at_(q) \in Int /\ q * elem \in Nat
  <2> TAKE q \in 0 .. n - 1
  <2> DEFINE k == q + 1
  <2>0. k \in 1 .. n /\ k - 1 = q
    OBVIOUS
  <2>1. 0 <= q * elem /\ q * elem + elem = k * elem /\ k * elem <= elem * n /\ q * elem \in Nat
    BY <1>0, <2>0, Elements
  <2> DEFINE x == q * elem
             y == k * elem
             z == elem * n
  <2>2. x \in Nat /\ x + elem = y /\ y <= z /\ z \in Nat
    BY <1>0, <2>1
  <2> HIDE DEF x, y, z
  <2>3. d + x \in d .. d + z /\ d + x \in Int
    BY <1>0, <2>2
  <2> QED
    BY <2>2, <2>3 DEF x, y, z
<1>2. \A x \in d .. to_ : Whole(x)
  <2>1. MaxInt \in Int
    BY SMT DEF MaxInt
  <2>2. Whole(to_)
    OBVIOUS
  <2> HIDE DEF to_
  <2> QED
    BY <1>0, <2>1, <2>2 DEF Whole
<1>3. Faithful(a) /\ Faithful(c) /\ Faithful(e) /\ \A x \in d .. to_ : Faithful(b(x))
  <2>1. Faithful(a)
    BY Registers, PairFaithful
  <2>2. Faithful(c)
    BY Registers, ImmFaithful
  <2>3. \A x \in d .. to_ : Faithful(b(x))
    BY <1>2, Registers, LeaFaithful
  <2> QED
    BY <2>1, <2>2, <2>3, RepFaithful
<1>4. \A x \in d .. to_ : x \in Int /\ Kept(b(x))
  <2>1. \A x \in d .. to_ : x \in Int
    BY <1>0
  <2> QED
    BY <2>1, KeptSteps
<1>5. Kept(a) /\ Kept(c) /\ Kept(e)
  BY <1>0, KeptSteps
<1>6. ASSUME NEW q \in 0 .. n - 1
      PROVE  /\ s[4 * q + 1] = a /\ s[4 * q + 2] = b(at_(q)) /\ s[4 * q + 3] = c /\ s[4 * q + 4] = e
             /\ 4 * q + 1 \in 1 .. 4 * n /\ 4 * q + 2 \in 1 .. 4 * n /\ 4 * q + 3 \in 1 .. 4 * n
             /\ 4 * q + 4 \in 1 .. 4 * n
  <2>1. /\ (4 * q + 1 - 1) \div 4 = q /\ ((4 * q + 1 - 1) % 4) + 1 = 1
        /\ (4 * q + 2 - 1) \div 4 = q /\ ((4 * q + 2 - 1) % 4) + 1 = 2
        /\ (4 * q + 3 - 1) \div 4 = q /\ ((4 * q + 3 - 1) % 4) + 1 = 3
        /\ (4 * q + 4 - 1) \div 4 = q /\ ((4 * q + 4 - 1) % 4) + 1 = 4
    OBVIOUS
  <2>2. /\ 4 * q + 1 \in 1 .. 4 * n /\ 4 * q + 2 \in 1 .. 4 * n /\ 4 * q + 3 \in 1 .. 4 * n
        /\ 4 * q + 4 \in 1 .. 4 * n
    OBVIOUS
  <2>3. \A k \in 1 .. 4 * n : s[k] = CopyTo(d + ((k - 1) \div 4) * elem, elem)[((k - 1) % 4) + 1]
    BY DEF BlockRun
  <2> HIDE DEF s
  <2>4. CopyTo(at_(q), elem) = <<a, b(at_(q)), c, e>>
    BY DEF CopyTo, Slot
  <2> DEFINE t == CopyTo(at_(q), elem)
  <2>5. t[1] = a /\ t[2] = b(at_(q)) /\ t[3] = c /\ t[4] = e
    <3> HIDE DEF a, b, c, e, at_
    <3> QED
      BY <2>4
  <2>6. s[4 * q + 1] = t[1] /\ s[4 * q + 2] = t[2] /\ s[4 * q + 3] = t[3] /\ s[4 * q + 4] = t[4]
    <3>1. s[4 * q + 1] = t[1]
      BY <2>1, <2>2, <2>3
    <3>2. s[4 * q + 2] = t[2]
      BY <2>1, <2>2, <2>3
    <3>3. s[4 * q + 3] = t[3]
      BY <2>1, <2>2, <2>3
    <3>4. s[4 * q + 4] = t[4]
      BY <2>1, <2>2, <2>3
    <3> QED
      BY <3>1, <3>2, <3>3, <3>4
  <2> HIDE DEF t, a, b, c, e, at_
  <2> QED
    BY <2>2, <2>5, <2>6
<1>7. Len(s) = 4 * n /\ s \in Seq(X)
  <2>1. s = [k \in 1 .. 4 * n |-> s[k]]
    BY DEF BlockRun
  <2>2. ASSUME NEW k \in 1 .. 4 * n PROVE s[k] \in X
    <3>1. PICK q \in 0 .. n - 1 : k \in {4 * q + 1, 4 * q + 2, 4 * q + 3, 4 * q + 4}
      <4>1. (k - 1) \div 4 \in 0 .. n - 1
        OBVIOUS
      <4>2. k \in {4 * ((k - 1) \div 4) + 1, 4 * ((k - 1) \div 4) + 2, 4 * ((k - 1) \div 4) + 3, 4 * ((k - 1) \div 4) + 4}
        OBVIOUS
      <4> QED
        BY <4>1, <4>2
    <3>2. at_(q) \in d .. to_
      BY <1>1
    <3> HIDE DEF s, a, b, c, e, at_, to_
    <3> QED
      BY <1>6, <3>1, <3>2
  <2> HIDE DEF s, X
  <2>3. 4 * n \in Nat
    OBVIOUS
  <2> QED
    BY <2>1, <2>2, <2>3
<1>8. ASSUME NEW m \in States, NEW x \in d .. to_
      PROVE  /\ StepIs(a, m, m.rdi, m.rcx, m.stored)
             /\ StepIs(b(x), m, x, m.rcx, m.stored)
             /\ StepIs(c, m, m.rdi, elem, m.stored)
             /\ StepIs(e, m, m.rdi, m.rcx, m.stored \cup SlotBytes(m.rdi, m.rcx))
  <2>1. x \in Int /\ elem \in Int
    BY <1>0, <1>4
  <2> QED
    BY <2>1, StepIdle, StepLea, StepCount, StepRep
<1>9. \A i \in X : Kept(i) /\ Faithful(i)
  BY <1>3, <1>4, <1>5
<1> HIDE DEF a, b, c, e, X, s
<1>10. Sound(s)
  BY <1>7, <1>9, SoundIn
<1>11. /\ Machine(s)[0] = Start /\ \A k \in 0 .. 4 * n : Machine(s)[k] \in States
       /\ \A k \in 1 .. 4 * n : Machine(s)[k] = Step(s[k], Machine(s)[k - 1])
  BY <1>7, <1>9, MachineFacts
<1> DEFINE T == {q \in 0 .. n : Machine(s)[4 * q].stored = SlotBytes(d, q * elem)}
<1>12. 0 \in T
  <2>1. SlotBytes(d, 0 * elem) = {} /\ 4 * 0 = 0
    BY <1>0 DEF SlotBytes
  <2> QED
    BY <1>11, <2>1, StartIs
<1>13. ASSUME NEW k \in 1 .. n, k - 1 \in T PROVE k \in T
  <2> DEFINE q == k - 1
             x == at_(q)
             m(j) == Machine(s)[4 * q + j]
  <2>0. q \in 0 .. n - 1 /\ q \in 0 .. n /\ 4 * q + 0 = 4 * q /\ 4 * q + 4 = 4 * k
    OBVIOUS
  <2>1. m(0).stored = SlotBytes(d, q * elem)
    BY <1>13, <2>0
  <2>2. m(0) \in States /\ m(1) \in States /\ m(2) \in States /\ m(3) \in States
    BY <1>11, <2>0
  <2>3. m(1) = Step(a, m(0)) /\ m(2) = Step(b(x), m(1)) /\ m(3) = Step(c, m(2)) /\ m(4) = Step(e, m(3))
    <3>1. /\ 4 * q + 1 - 1 = 4 * q + 0 /\ 4 * q + 2 - 1 = 4 * q + 1 /\ 4 * q + 3 - 1 = 4 * q + 2
          /\ 4 * q + 4 - 1 = 4 * q + 3
      OBVIOUS
    <3> HIDE DEF q
    <3> QED
      BY <1>6, <1>11, <2>0, <3>1
  <2>4. x \in d .. to_
    BY <1>1, <2>0
  <2> HIDE DEF m, x, to_
  <2>5. m(1).stored = m(0).stored
    BY <1>8, <2>2, <2>3, <2>4 DEF StepIs
  <2>6. m(2).stored = m(0).stored /\ m(2).rdi = x
    <3>1. Step(b(x), m(1)).stored = m(1).stored
      BY <1>8, <2>2, <2>4, Zenon DEF StepIs
    <3>2. Step(b(x), m(1)).rdi = x
      BY <1>8, <2>2, <2>4, Zenon DEF StepIs
    <3> QED
      BY <2>3, <2>5, <3>1, <3>2, Zenon
  <2>7. m(3).stored = m(0).stored /\ m(3).rdi = x /\ m(3).rcx = elem
    BY <1>8, <2>2, <2>3, <2>4, <2>6 DEF StepIs
  <2>8. m(4).stored = m(0).stored \cup SlotBytes(x, elem)
    <3>1. Step(e, m(3)).stored = m(3).stored \cup SlotBytes(m(3).rdi, m(3).rcx)
      BY <1>8, <2>2, <2>4, Zenon DEF StepIs
    <3> QED
      BY <2>3, <2>7, <3>1, Zenon
  <2>9. SlotBytes(d, q * elem) \cup SlotBytes(x, elem) = SlotBytes(d, q * elem + elem)
    <3> DEFINE y == q * elem
    <3>1. y \in Nat /\ x = d + y
      BY <1>1, <2>0 DEF x
    <3> HIDE DEF y
    <3>2. SlotBytes(d, y) \cup SlotBytes(d + y, elem) = SlotBytes(d, y + elem)
      <4>1. d \in Int /\ y \in Nat /\ elem \in Nat
        BY <1>0, <3>1
      <4> QED
        BY <4>1, Consecutive, Zenon
    <3> QED
      BY <3>1, <3>2, Zenon DEF y
  <2>10. q * elem + elem = k * elem
    BY <1>0, Elements
  <2>11. Machine(s)[4 * k].stored = SlotBytes(d, k * elem)
    <3>1. m(4).stored = SlotBytes(d, k * elem)
      <4> HIDE DEF q
      <4> QED
        BY <2>1, <2>8, <2>9, <2>10, Zenon
    <3> QED
      BY <2>0, <3>1 DEF m
  <2> QED
    BY <2>11
<1>14. n \in T
  <2> HIDE DEF T
  <2>1. \A k \in 1 .. n : k - 1 \in T => k \in T
    BY <1>13, Zenon
  <2>2. \A k \in 0 .. n : k \in T
    BY <1>12, <2>1, UpTo
  <2> QED
    BY <2>2
<1>15. Machine(s)[4 * n].stored = SlotBytes(d, n * elem) /\ n * elem = elem * n
  BY <1>0, <1>14
<1>16. Stored(s) = SlotBytes(d, elem * n)
  BY <1>7, <1>10, <1>15, StoredOf
<1> QED
  BY <1>10, <1>16 DEF Fills, s

-----------------------------------------------------------------------------
(*****************************************************************************)
(* Variables and their slots                                                *)
(*****************************************************************************)
(* An array of no elements fills nothing.                                  *)
LEMMA NothingFills ==
  ASSUME NEW d \in Int
  PROVE  Fills(<<>>, d, 0)
<1> DEFINE s == <<>>
<1>1. Sound(s)
  BY SoundNone
<1>2. s \in Seq({}) /\ Len(s) = 0 /\ \A i \in {} : Kept(i)
  OBVIOUS
<1>3. Machine(s)[0] = Start
  <2> DEFINE X == {}
  <2>1. s \in Seq(X) /\ \A i \in X : Kept(i)
    BY <1>2
  <2> HIDE DEF X, s
  <2> QED
    BY <2>1, MachineFacts
<1>4. Stored(s) = {}
  BY <1>1, <1>2, <1>3, StartIs, StoredOf
<1>5. SlotBytes(d, 0) = {}
  BY DEF SlotBytes
<1> QED
  BY <1>1, <1>4, <1>5 DEF Fills

(* A row of a variable within reach of rbp.                                *)
Placed(row) ==
  /\ row \in Row /\ Whole(row.offset)
  /\ row.param = 0 => row.offset + row.size <= 0
  /\ row.param # 0 => row.size = 8

(* The slot of a placed row is whole, and so is each part of it.           *)
LEMMA PlacedWhole ==
  ASSUME NEW row, Placed(row), row.param = 0
  PROVE  Whole(row.size) /\ 0 <= row.size /\ Whole(row.offset + row.size)
<1>1. MaxInt \in Nat
  BY SMT DEF MaxInt
<1>2. row.offset \in Int /\ row.size \in Nat
  BY RowTyped DEF Placed
<1> QED
  BY <1>1, <1>2 DEF Placed, Whole

(* All that fills a slot fills it whole, and nothing else.                 *)
LEMMA RowFills ==
  ASSUME NEW row, Placed(row), NEW s \in Filled(row)
  PROVE  Fills(s, row.offset, row.size)
<1> DEFINE d == row.offset
           z == row.size
<1>0. row \in Row /\ Whole(d) /\ d \in Int /\ z \in Nat /\ row.param \in Nat
  BY RowTyped DEF Placed
<1>s. ScalarSizes \subseteq Sizes /\ AggregateSizes \subseteq Nat
  BY AccessAssumption, FrameAssumption DEF Sizes
<1>1. ASSUME row.param # 0
      PROVE  Fills(s, d, z)
  <2>1. InRegister(row) /\ s = Spill(row) /\ z = 8
    BY <1>1 DEF Filled, Placed
  <2>2. row.param \in DOMAIN KTL_PARAM_REGS /\ KTL_PARAM_REGS[row.param] \in Regs
    <3>1. KTL_PARAM_REGS \in Seq(Regs) /\ KTL_PARAM_REGS_COUNT \in Nat
      BY Registers, FrameAssumption DEF KTL_PARAM_REGS
    <3>2. row.param \in 1 .. Len(KTL_PARAM_REGS)
      BY <1>0, <1>1, <2>1, <3>1, AccessAssumption DEF InRegister
    <3> QED
      BY <3>1, <3>2
  <2> DEFINE f == KTL_PARAM_REGS[row.param]
  <2>3. s = <<Op("MOV", Mem(RBP, d, 8), R(f))>> /\ f \in Regs
    BY <2>1, <2>2 DEF Spill, Slot
  <2> HIDE DEF f
  <2>4. Fills(<<Op("MOV", Mem(RBP, d, 8), R(f))>>, d, 8)
    BY <1>0, <2>3, SpillFills
  <2> QED
    BY <2>1, <2>3, <2>4
<1>2. ASSUME row.param = 0, z \in ScalarSizes, s = DeclZero(row, "scalar")
      PROVE  Fills(s, d, z)
  <2>1. s = <<Op("XOR", R(RAX), R(RAX)), Op("MOV", Mem(RBP, d, z), Reg(RAX, z))>>
    BY <1>2 DEF DeclZero, Slot
  <2>2. z \in Sizes
    BY <1>2, <1>s
  <2> QED
    BY <1>0, <2>1, <2>2, ScalarFills
<1>3. ASSUME row.param = 0, s = DeclZero(row, "aggregate")
      PROVE  Fills(s, d, z)
  <2>1. s = <<Op("LEA", R(RDI), Mem(RBP, d, 8)), Op("XOR", Reg(RAX, 1), Reg(RAX, 1)),
              Op("MOV", R(RCX), Imm(z)), Alone("REP_STOSB")>>
    BY <1>3 DEF DeclZero, Slot
  <2>2. Whole(z) /\ 0 <= z
    BY <1>3, PlacedWhole
  <2> QED
    BY <1>0, <2>1, <2>2, BlockFills
<1>4. ASSUME row.param = 0, NEW elem \in ScalarSizes, NEW n \in 0 .. z, elem * n = z,
             s = DeclArray(row, "scalar", elem, n)
      PROVE  Fills(s, d, z)
  <2>1. s = ScalarRun(d, elem, n)
    BY <1>4 DEF DeclArray, ScalarRun, Slot
  <2>2. Whole(d + elem * n) /\ n \in Nat /\ elem \in Sizes
    BY <1>0, <1>4, <1>s, PlacedWhole
  <2>3. Fills(ScalarRun(d, elem, n), d, elem * n)
    BY <1>0, <2>2, ArrayFills
  <2> QED
    BY <1>4, <2>1, <2>3
<1>5. ASSUME row.param = 0, NEW elem \in AggregateSizes, NEW n \in 0 .. z, elem * n = z,
             s = DeclArray(row, "aggregate", elem, n)
      PROVE  Fills(s, d, z)
  <2>1. s = BlockRun(d, elem, n)
    BY <1>5 DEF DeclArray, BlockRun
  <2>2. Whole(d + elem * n) /\ n \in Nat /\ elem \in Nat
    BY <1>0, <1>5, <1>s, PlacedWhole
  <2>3. CASE n = 0
    <3>1. z = 0 /\ 4 * n = 0
      BY <1>5, <2>2, <2>3
    <3>2. s = <<>>
      BY <2>1, <3>1 DEF BlockRun
    <3> QED
      BY <1>0, <3>1, <3>2, NothingFills
  <2>4. CASE n # 0
    <3>1. 1 \in 1 .. n
      BY <2>2, <2>4
    <3>2. 1 * elem <= elem * n
      BY <2>2, <3>1, Elements
    <3>3. Whole(elem)
      <4>1. elem <= z /\ Whole(z)
        BY <1>5, <2>2, <3>2, PlacedWhole
      <4>2. MaxInt \in Nat
        BY SMT DEF MaxInt
      <4> QED
        BY <1>0, <2>2, <4>1, <4>2 DEF Whole
    <3>4. Fills(BlockRun(d, elem, n), d, elem * n)
      BY <1>0, <2>2, <3>3, BlocksFill
    <3> QED
      BY <1>5, <2>1, <3>4
  <2> QED
    BY <2>3, <2>4
<1> HIDE DEF d, z
<1> QED
  BY <1>1, <1>2, <1>3, <1>4, <1>5 DEF Filled, Arrays, d, z

-----------------------------------------------------------------------------
(* A parameter is stored whole.                                            *)
ParamSize == \A i \in DOMAIN table : table[i].param # 0 => table[i].size = 8

(* A row added is the last of the table.                                   *)
LEMMA AddKeeps ==
  ASSUME table \in Seq(Row), ParamSize, NEW r, Add(r), r.param # 0 => r.size = 8
  PROVE  ParamSize'
<1>1. CASE Find(r.origin)
  BY <1>1 DEF Add, ParamSize
<1>2. CASE ~Find(r.origin)
  <2>1. /\ DOMAIN table' = DOMAIN table \cup {Len(table) + 1}
        /\ table'[Len(table) + 1] = r /\ \A i \in DOMAIN table : table'[i] = table[i]
    BY <1>2 DEF Add
  <2> QED
    BY <2>1 DEF ParamSize
<1> QED
  BY <1>1, <1>2

(* Steps keep the size of a parameter.                                     *)
LEMMA ParamSizeStep == TypeInv /\ ParamSize /\ [Next]_vars => ParamSize'
<1> SUFFICES ASSUME TypeInv, ParamSize, [Next]_vars PROVE ParamSize'
  OBVIOUS
<1>0. table \in Seq(Row)
  BY DEF TypeInv
<1>1. ASSUME table' = table PROVE ParamSize'
  BY <1>1 DEF ParamSize
<1>2. ASSUME NEW o \in Entries, GlobalVar(o) PROVE ParamSize'
  BY <1>0, <1>2, AddKeeps DEF GlobalVar, Static
<1>3. ASSUME NEW o \in Entries, RegisterParam(o) PROVE ParamSize'
  BY <1>0, <1>3, AddKeeps DEF RegisterParam, Stack, KTL_SYSTEM_PTR_SIZE
<1>4. ASSUME NEW o \in Entries, StackParam(o) PROVE ParamSize'
  BY <1>0, <1>4, AddKeeps DEF StackParam, Stack, KTL_SYSTEM_PTR_SIZE
<1>5. ASSUME NEW o \in Entries, NEW kind, NEW z, LocalVar(o, kind, z) PROVE ParamSize'
  BY <1>0, <1>5, AddKeeps DEF LocalVar, Stack
<1>6. \/ table' = table
      \/ \E o \in Entries : GlobalVar(o) \/ RegisterParam(o) \/ StackParam(o)
      \/ \E o \in Entries, z \in ScalarSizes : LocalVar(o, "scalar", z)
      \/ \E o \in Entries, z \in AggregateSizes : LocalVar(o, "aggregate", z)
  BY DEF Next, vars, GlobalFunc, EndGlobals, StartFunc, EndParams, StartMain, EndFunc, EndMain
<1> QED
  BY <1>1, <1>2, <1>3, <1>4, <1>5, <1>6

(* Each parameter has the size its register is stored with.                *)
LEMMA ParamsWhole == Spec => []ParamSize
<1>1. Init => ParamSize
  BY DEF Init, ParamSize
<1> QED
  BY <1>1, ParamSizeStep, FrameTypeCorrect, PTL DEF Spec

(* The row met last is placed when the frames are within reach.            *)
LEMMA LatestPlaced ==
  ASSUME IInv, ParamSize, InReach, table # <<>>
  PROVE  /\ Latest \in Row /\ Whole(Latest.offset)
         /\ OnStack(Len(table)) => Placed(Latest)
<1> DEFINE i == Len(table)
<1>1. i \in DOMAIN table /\ table[i] \in Row /\ Latest = table[i] /\ table[i].offset \in Int
      /\ table[i].size \in Nat /\ table[i].param \in Nat
  <2>1. table \in Seq(Row) /\ Len(table) \in DOMAIN table
    BY DEF IInv, TypeInv
  <2> QED
    BY <2>1, RowTypes DEF Latest
<1>2. Whole(table[i].offset)
  <2>1. MaxInt \in Int
    BY SMT DEF MaxInt
  <2> QED
    BY <1>1, <2>1 DEF InReach, Whole
<1>3. ASSUME OnStack(i), table[i].param = 0 PROVE table[i].offset + table[i].size <= 0
  <2>1. Inside(table[i], Reserved(table[i].fn))
    BY <1>1, <1>3 DEF IInv, SlotsInFrame
  <2>2. InRegister(table[i])
    BY <1>3, FrameAssumption DEF InRegister
  <2> QED
    BY <2>1, <2>2 DEF Inside
<1>4. table[i].param # 0 => table[i].size = 8
  BY <1>1 DEF ParamSize
<1> QED
  BY <1>1, <1>2, <1>3, <1>4 DEF Placed

(* The address of a variable.                                              *)
LEMMA AddressSound ==
  ASSUME NEW row \in Row, Whole(row.offset)
  PROVE  Sound(Address(row))
<1>1. CASE row.storage = "static"
  <2> DEFINE a == Op("LEA", R(RAX), Rip(8))
  <2>1. Faithful(a)
    BY Registers, RipFaithful
  <2>2. Address(row) = <<a>>
    BY <1>1 DEF Address
  <2> HIDE DEF a
  <2> QED
    BY <2>1, <2>2, SoundOne
<1>2. CASE row.storage # "static"
  <2> DEFINE a == Op("LEA", R(RAX), Mem(RBP, row.offset, 8))
  <2>1. Faithful(a)
    BY Registers, LeaFaithful
  <2>2. Address(row) = <<a>>
    BY <1>2 DEF Address, Slot
  <2> HIDE DEF a
  <2> QED
    BY <2>1, <2>2, SoundOne
<1> QED
  BY <1>1, <1>2

(* A state of the invariant is read as written.                            *)
LEMMA ReadHere == IInv /\ ParamSize => ReadAsWritten
<1> SUFFICES ASSUME IInv, ParamSize, InReach
             PROVE  /\ (at = "globals" /\ table = <<>>) => ExpressionsRun
                    /\ \A f \in DOMAIN funcs : Runs(Enter(funcs[f]))
                    /\ Runs(Enter(main_frame_size))
                    /\ table # <<>> => /\ Runs(Address(Latest))
                                       /\ OnStack(Len(table)) => \A s \in Filled(Latest) : Runs(s)
  BY DEF ReadAsWritten
<1>1. MaxInt \in Nat
  BY SMT DEF MaxInt
<1>2. Whole(main_frame_size) /\ \A f \in DOMAIN funcs : Whole(funcs[f])
  <2>1. main_frame_size \in Nat /\ \A f \in DOMAIN funcs : funcs[f] \in Nat
    BY DEF IInv, TypeInv
  <2>2. main_frame_size <= MaxInt /\ \A f \in DOMAIN funcs : funcs[f] <= MaxInt
    BY DEF InReach
  <2> QED
    BY <1>1, <2>1, <2>2 DEF Whole
<1>3. ASSUME table # <<>> PROVE Runs(Address(Latest))
  BY <1>3, LatestPlaced, AddressSound, SoundRuns
<1>4. ASSUME table # <<>>, OnStack(Len(table)), NEW s \in Filled(Latest) PROVE Runs(s)
  <2>1. Placed(Latest)
    BY <1>4, LatestPlaced
  <2>2. Fills(s, Latest.offset, Latest.size)
    BY <1>4, <2>1, RowFills
  <2> QED
    BY <2>2, SoundRuns DEF Fills
<1> QED
  BY <1>2, <1>3, <1>4, Expressions, EnterSound, SoundRuns

(* A state of the invariant has its slots filled.                          *)
LEMMA FilledHere == IInv /\ ParamSize => SlotsFilled
<1> SUFFICES ASSUME IInv, ParamSize, InReach, table # <<>>, OnStack(Len(table)), NEW s \in Filled(Latest)
             PROVE  Stored(s) = {Latest.offset + k : k \in 0 .. Latest.size - 1}
  BY DEF SlotsFilled
<1>1. Placed(Latest)
  BY LatestPlaced
<1>2. Fills(s, Latest.offset, Latest.size)
  BY <1>1, RowFills
<1> QED
  BY <1>2 DEF Fills, SlotBytes

(* The processor reads the bytes of every instruction emitted for a        *)
(* program as that instruction: those emit_expr, emit_oper, emit_cast and  *)
(* emit_func_call emit, whatever number is in them, and those of the       *)
(* frames, slots and declarations laid out so far, at any distance.        *)
THEOREM ReadAsWrittenCorrect == Spec => []ReadAsWritten
  BY Layout, ParamsWhole, ReadHere, PTL

(* What emit_function_header, emit_var_decl_zero and emit_var_decl_array   *)
(* emit stores, as the processor runs it, to every byte of the slot and to *)
(* no other.                                                               *)
THEOREM SlotsFilledCorrect == Spec => []SlotsFilled
  BY Layout, ParamsWhole, FilledHere, PTL
=============================================================================
