------------------------------- MODULE Frame -------------------------------
(***************************************************************************)
(* Where the back end puts variables: layout_global and                    *)
(* layout_all_functions (Backend/GenIR/Backend.cpp) filling the table of   *)
(* Structs/BackMap.  The tree is walked once; what it holds is met one     *)
(* symbol entry at a time: globals, then per function its parameters, then *)
(* the scalars and aggregates of its blocks.                               *)
(*                                                                         *)
(* Offsets count from rbp.  size is not kept by the table: it is the       *)
(* number of bytes the emitted code touches through the slot (get_size;    *)
(* eight for a parameter, whose whole register is spilled, and which is    *)
(* never an aggregate: Analysis.cpp:645 refuses such arguments).           *)
(***************************************************************************)
EXTENDS Integers, Sequences

CONSTANTS
  Entries,               \* symbol entries of variables and parameters
  Functions,             \* symbol entries of functions a file can declare
  main,                  \* the owner of the variables of "main"
  None,                  \* no owner
  ScalarSizes,           \* get_size of base types and pointers
  AggregateSizes,        \* get_size of blocks and arrays
  KTL_PARAM_REGS_COUNT   \* parameters passed in registers

ASSUME FrameAssumption ==
  /\ ScalarSizes \subseteq 0 .. 8
  /\ AggregateSizes \subseteq Nat
  /\ KTL_PARAM_REGS_COUNT \in Nat
  /\ main \notin Functions /\ None \notin Functions /\ main # None

VARIABLES
  table,            \* cont->table.vars
  funcs,            \* cont->table.funcs: function -> frame_size
  frame_offset,     \* cont->frame_offset (layout_func's offset_frame)
  offset_param,     \* layout_func's offset_param
  counter_params,   \* layout_func's counter_params
  main_frame_size,  \* cont->main_frame_size
  todo,             \* declarations layout_all_functions has still to visit
  current,          \* the one it is visiting, or None
  at                \* "globals", "between", "params" or "body"

vars == <<table, funcs, frame_offset, offset_param, counter_params,
          main_frame_size, todo, current, at>>

KTL_SYSTEM_PTR_SIZE == 8

align_up(n, align) == ((n + align - 1) \div align) * align

Find(o) == \E i \in DOMAIN table : table[i].origin = o   \* KTL_BackendFindVar

(* A row; param is the number of a parameter, counted from 1, or 0.        *)
Static(o) == [origin |-> o, storage |-> "static", fn |-> None,
              param |-> 0, offset |-> 0, size |-> 0]

Stack(o, param, off, size) ==
  [origin |-> o, storage |-> "stack", fn |-> current, param |-> param,
   offset |-> off, size |-> size]

(* KTL_BackendAddStackVar, KTL_BackendAddStaticVar: an entry that has a    *)
(* row is refused, and no caller looks at the result.                      *)
Add(row) == table' = IF Find(row.origin) THEN table ELSE Append(table, row)

Init ==
  /\ table = <<>> /\ funcs = [f \in {} |-> 0]
  /\ frame_offset = 0 /\ offset_param = 0 /\ counter_params = 0
  /\ main_frame_size = 0
  /\ todo = {} /\ current = None /\ at = "globals"

-----------------------------------------------------------------------------
(* layout_global: every global gets a label, every function a row.  An     *)
(* entry sits in one scope map, so no walk meets it twice.                 *)
GlobalVar(o) ==
  /\ at = "globals" /\ ~Find(o)
  /\ Add(Static(o))
  /\ UNCHANGED <<funcs, frame_offset, offset_param, counter_params,
                 main_frame_size, todo, current, at>>

GlobalFunc(f) ==
  /\ at = "globals" /\ f \notin DOMAIN funcs
  /\ funcs' = [g \in DOMAIN funcs \cup {f} |-> IF g = f THEN 0 ELSE funcs[g]]
  /\ UNCHANGED <<table, frame_offset, offset_param, counter_params,
                 main_frame_size, todo, current, at>>

EndGlobals ==
  /\ at = "globals"
  /\ todo' = DOMAIN funcs \cup {main} /\ at' = "between"
  /\ UNCHANGED <<table, funcs, frame_offset, offset_param, counter_params,
                 main_frame_size, current>>

(* Broken form of StartFunc: offset_param goes on from the function before.*)
StartFuncStale(f) ==
  /\ at = "between" /\ f \in todo \ {main}
  /\ counter_params' = 0
  /\ offset_param' = IF offset_param = 0 THEN 2 * KTL_SYSTEM_PTR_SIZE
                                         ELSE offset_param
  /\ frame_offset' = 0
  /\ todo' = todo \ {f} /\ current' = f /\ at' = "params"
  /\ UNCHANGED <<table, funcs, main_frame_size>>

(* layout_func *)
StartFunc(f) ==
  /\ at = "between" /\ f \in todo \ {main}
  /\ counter_params' = 0
  /\ offset_param' = 2 * KTL_SYSTEM_PTR_SIZE
  /\ frame_offset' = 0
  /\ todo' = todo \ {f} /\ current' = f /\ at' = "params"
  /\ UNCHANGED <<table, funcs, main_frame_size>>

RegisterParam(o) ==
  /\ at = "params" /\ ~Find(o)
  /\ counter_params < KTL_PARAM_REGS_COUNT
  /\ frame_offset' = frame_offset - KTL_SYSTEM_PTR_SIZE
  /\ Add(Stack(o, counter_params + 1, frame_offset', KTL_SYSTEM_PTR_SIZE))
  /\ counter_params' = counter_params + 1
  /\ UNCHANGED <<funcs, offset_param, main_frame_size, todo, current, at>>

StackParam(o) ==
  /\ at = "params" /\ ~Find(o)
  /\ counter_params >= KTL_PARAM_REGS_COUNT
  /\ Add(Stack(o, counter_params + 1, offset_param, KTL_SYSTEM_PTR_SIZE))
  /\ offset_param' = offset_param + KTL_SYSTEM_PTR_SIZE
  /\ counter_params' = counter_params + 1
  /\ UNCHANGED <<funcs, frame_offset, main_frame_size, todo, current, at>>

EndParams ==
  /\ at = "params" /\ at' = "body"
  /\ UNCHANGED <<table, funcs, frame_offset, offset_param, counter_params,
                 main_frame_size, todo, current>>

StartMain ==
  /\ at = "between" /\ main \in todo
  /\ frame_offset' = 0 - KTL_SYSTEM_PTR_SIZE
  /\ todo' = todo \ {main} /\ current' = main /\ at' = "body"
  /\ UNCHANGED <<table, funcs, offset_param, counter_params, main_frame_size>>

(* Broken form of Room: an aggregate gets the room of a scalar.            *)
RoomOfScalar(kind, size) == KTL_SYSTEM_PTR_SIZE

(* layout_body meets the variables of the blocks one after the other.      *)
Room(kind, size) ==
  IF kind = "scalar" THEN KTL_SYSTEM_PTR_SIZE
                     ELSE align_up(size, KTL_SYSTEM_PTR_SIZE)

(* Broken form of LocalVar: the row is added before the offset moves.      *)
LocalVarFirst(o, kind, size) ==
  /\ at = "body" /\ ~Find(o)
  /\ frame_offset' = frame_offset - Room(kind, size)
  /\ Add(Stack(o, 0, frame_offset, size))
  /\ UNCHANGED <<funcs, offset_param, counter_params, main_frame_size, todo,
                 current, at>>

LocalVar(o, kind, size) ==
  /\ at = "body" /\ ~Find(o)
  /\ frame_offset' = frame_offset - Room(kind, size)
  /\ Add(Stack(o, 0, frame_offset', size))
  /\ UNCHANGED <<funcs, offset_param, counter_params, main_frame_size, todo,
                 current, at>>

EndFunc ==
  /\ at = "body" /\ current # main
  /\ funcs' = [funcs EXCEPT ![current] =
                 align_up(0 - frame_offset, 2 * KTL_SYSTEM_PTR_SIZE)]
  /\ current' = None /\ at' = "between"
  /\ UNCHANGED <<table, frame_offset, offset_param, counter_params,
                 main_frame_size, todo>>

(* Broken form of EndMain: the frame of main as any other.                 *)
EndMainAsFunc ==
  /\ at = "body" /\ current = main
  /\ main_frame_size' = align_up(0 - frame_offset, 2 * KTL_SYSTEM_PTR_SIZE)
  /\ current' = None /\ at' = "between"
  /\ UNCHANGED <<table, funcs, frame_offset, offset_param, counter_params,
                 todo>>

EndMain ==
  /\ at = "body" /\ current = main
  /\ main_frame_size' = align_up(0 - frame_offset, 2 * KTL_SYSTEM_PTR_SIZE)
                          + KTL_SYSTEM_PTR_SIZE
  /\ current' = None /\ at' = "between"
  /\ UNCHANGED <<table, funcs, frame_offset, offset_param, counter_params,
                 todo>>

Next ==
  \/ \E o \in Entries : GlobalVar(o)
  \/ \E f \in Functions : GlobalFunc(f)
  \/ EndGlobals
  \/ \E f \in Functions : StartFunc(f)
  \/ \E o \in Entries : RegisterParam(o)
  \/ \E o \in Entries : StackParam(o)
  \/ EndParams
  \/ StartMain
  \/ \E o \in Entries, s \in ScalarSizes : LocalVar(o, "scalar", s)
  \/ \E o \in Entries, s \in AggregateSizes : LocalVar(o, "aggregate", s)
  \/ EndFunc
  \/ EndMain

Spec == Init /\ [][Next]_vars

-----------------------------------------------------------------------------
(* Properties.                                                             *)

Row == [origin : Entries, storage : {"static", "stack"},
        fn : Functions \cup {main, None}, param : Nat, offset : Int, size : Nat]

(* Shape of the state, and who may own rows: the function being visited    *)
(* and those visited before it.                                            *)
TypeInv ==
  /\ table \in Seq(Row)
  /\ DOMAIN funcs \subseteq Functions /\ funcs \in [DOMAIN funcs -> Nat]
  /\ frame_offset \in Int /\ offset_param \in Nat /\ counter_params \in Nat
  /\ main_frame_size \in Nat
  /\ at \in {"globals", "between", "params", "body"}
  /\ todo \subseteq DOMAIN funcs \cup {main}
  /\ current \in (DOMAIN funcs \cup {main, None}) \ todo
  /\ at \in {"params", "body"} <=> current # None
  /\ at = "params" => current # main
  /\ \A i \in DOMAIN table :
       \/ table[i].storage = "static" /\ table[i].fn = None
       \/ /\ table[i].storage = "stack" /\ at # "globals"
          /\ table[i].fn \in (DOMAIN funcs \cup {main}) \ todo

OnStack(i) == table[i].storage = "stack"

(* No two variables of one function share a byte, whichever blocks they    *)
(* are declared in: emit_var_decl and REP STOSB over one never reaches     *)
(* another.                                                                *)
SlotsDisjoint ==
  \A i, j \in DOMAIN table :
    (i # j /\ OnStack(i) /\ OnStack(j) /\ table[i].fn = table[j].fn) =>
      \/ table[i].offset + table[i].size <= table[j].offset
      \/ table[j].offset + table[j].size <= table[i].offset

(* The room a visited function reserves below rbp; while it is visited,    *)
(* what it has used of it.                                                 *)
Reserved(f) == IF f = current THEN 0 - frame_offset
               ELSE IF f = main THEN main_frame_size ELSE funcs[f]

InRegister(row) == row.param <= KTL_PARAM_REGS_COUNT   \* or a local

Inside(row, room) ==
  IF InRegister(row)
  THEN 0 <= room + row.offset /\ row.offset + row.size <= 0
  ELSE row.offset >= 16

(* What emit_function_header and emit_text subtract from rsp covers every  *)
(* local and spilled parameter, so that what the code pushes lands on none *)
(* of them; the saved rbp and the return address, at 0 and 8, are never    *)
(* inside a slot.                                                          *)
SlotsInFrame ==
  \A i \in DOMAIN table :
    OnStack(i) => Inside(table[i], Reserved(table[i].fn))

(* "frame_size; mod 16 = 0" (BackMapType.h:26); main is entered without a  *)
(* return address on the stack and takes eight bytes more, so that rsp is  *)
(* a multiple of 16 after either prologue.  Every slot is a multiple of 8. *)
FramesAligned ==
  /\ \A f \in DOMAIN funcs : funcs[f] % 16 = 0
  /\ main_frame_size # 0 => main_frame_size % 16 = 8
  /\ \A i \in DOMAIN table : table[i].offset % 8 = 0

(* Parameter k is where emit_function_header spills its register, or where *)
(* a caller that pushed the arguments last to first has left it: the first *)
(* of the stack right above the return address.                            *)
ParametersInPlace ==
  \A i \in DOMAIN table : table[i].param # 0 =>
    table[i].offset =
      IF InRegister(table[i]) THEN 0 - 8 * table[i].param
      ELSE 16 + 8 * (table[i].param - KTL_PARAM_REGS_COUNT - 1)

=============================================================================
