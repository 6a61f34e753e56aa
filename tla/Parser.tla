------------------------------- MODULE Parser -------------------------------
(***************************************************************************)
(* The recursive descent of Frontend/Parsing/Parse.cpp.                    *)
(*                                                                         *)
(* todo is what the active C++ calls still have to do, innermost first: a  *)
(* token to read, a function to call (its name without "ktl_"; what comes  *)
(* after the ":" names a place inside it), or a restoring assignment made  *)
(* around a call ("leave", "--").  A call is replaced by what its body     *)
(* does for the token at the cursor.  "null" is a NULL being returned: it  *)
(* drops what the callers had left, except what they do on that path too,  *)
(* up to a caller that goes on.                                            *)
(*                                                                         *)
(* Every program is an input: the next token is chosen when the cursor     *)
(* reaches it, and what a name stands for when the code looks it up.       *)
(***************************************************************************)
EXTENDS Integers, Sequences

CONSTANTS
  Tokens,      \* the tokens programs are made of
  FuncNames,   \* the names programs give to functions
  MaxParams,   \* length of the array params in ktl_parse_func_decl
  MaxTodo      \* bound of the model: nothing nests deeper once todo is so long

Keywords == {"main", "use", "var", "func", "typedef", "block", "if", "elif",
             "else", "while", "for", "break", "continue", "exit", "return",
             "cast", "const", "mutable"}
Punctuation == {"end_line", "block_left", "block_right", "arg_sep", "(", ")",
                "[", "]", "->", "&", "*", "-", "op", "=", "<", ">"}

(* "end_line" is ";", "block_left" and "block_right" are the braces and    *)
(* "arg_sep" is the comma (ParseConfig.h).  A name followed by "(" is the  *)
(* token "callee", the one lookahead of the code (equal_n).  "op" stands   *)
(* for the other binary operators, "->" for "." too, "const" and "mutable" *)
(* for the other pair of modifiers too.                                    *)
AllTokens == Keywords \cup Punctuation
             \cup {"name", "callee", "number", "str", "eof"}

ASSUME ParserAssumption ==
  /\ Tokens \subseteq AllTokens /\ "eof" \in Tokens
  /\ MaxParams \in Nat \ {0} /\ MaxTodo \in Nat

VARIABLES
  tok,            \* the token at cur_token
  todo,           \* what is left to do, see above
  current_scope,  \* cont->current_scope: the chain of scopes, outermost first
  prev_scope,     \* the locals prev_scope of the active calls, as lengths
  loop_depth,     \* cont->loop_depth
  in_func,        \* cont->in_func
  prev_in_func,   \* the local prev_in_func of ktl_parse_func_decl
  main_seen,      \* cont->main_seen
  errors,         \* diag->error_count > 0
  funcs,          \* the functions of global_map, and the state of their params
  mod,            \* the local mod of ktl_parse_type_mod
  func,           \* the local func of ktl_parse_func_decl
  param_count,    \* its local param_count
  status          \* "parsing", "done" or "crashed"

context == <<current_scope, prev_scope, loop_depth, in_func, prev_in_func,
             main_seen>>
symbols == <<funcs, mod, func, param_count>>
vars == <<tok, todo, context, symbols, errors, status>>

IsName(t) == t \in {"name", "callee"}

Fail  == <<"diag", "null">>   \* KTL_DiagEmit, then return NULL
Break == <<>>                 \* leave the loop, or return what there is

(* The step at hand is s; its place in todo is taken by the steps in do.   *)
Now(s)  == status = "parsing" /\ Head(todo) = s
Put(do) == todo' = do \o Tail(todo)

(* A step that only decides what to do next.                               *)
Do(do) == Put(do) /\ UNCHANGED <<tok, context, symbols, errors, status>>

-----------------------------------------------------------------------------
(* The cursor.                                                             *)

Opening == {"(", "block_left", "[", "callee", "if", "while", "for", "cast"}

Upcoming(t, rest) ==
  {n \in Tokens : /\ t = "callee" => n = "("
                  /\ t = "name" => n # "("
                  /\ t # "callee" /\ Len(rest) > MaxTodo => n \notin Opening}

(* The test for the wanted token, and advance().                           *)
Read ==
  /\ status = "parsing" /\ Head(todo) \in AllTokens
  /\ tok = Head(todo) \/ (IsName(tok) /\ Head(todo) = "name")
  /\ Put(<<>>)
  /\ tok' \in Upcoming(tok, Tail(todo))
  /\ UNCHANGED <<context, symbols, errors, status>>

Mismatch ==
  /\ status = "parsing" /\ Head(todo) \in AllTokens
  /\ ~(tok = Head(todo) \/ (IsName(tok) /\ Head(todo) = "name"))
  /\ Do(Fail)

(* The token no declaration starts with.                                   *)
Skip ==
  /\ Now("skip")
  /\ Put(<<>>)
  /\ tok' \in Upcoming(tok, Tail(todo))
  /\ UNCHANGED <<context, symbols, errors, status>>

DiagEmit ==
  /\ Now("diag")
  /\ Put(<<>>)
  /\ errors' = TRUE
  /\ UNCHANGED <<tok, context, symbols, status>>

-----------------------------------------------------------------------------
(* Types.                                                                  *)

parse_type ==
  \/ Now("parse_type")
     /\ Do(IF IsName(tok) THEN <<"name", "parse_type:find", "parse_type:*",
                                 "parse_type:[">> ELSE Fail)
  \/ Now("parse_type:find") /\ \E known \in BOOLEAN : Do(IF known THEN <<>> ELSE Fail)
  \/ Now("parse_type:*")
     /\ Do(IF tok = "*" THEN <<"*", "parse_type:*">> ELSE Break)
  \/ Now("parse_type:[")
     /\ Do(IF tok = "[" THEN <<"[", "parse_type:size", "]", "parse_type:[">>
           ELSE Break)
  \/ Now("parse_type:size")
     /\ \E positive \in BOOLEAN :
          Do(IF tok = "number" /\ positive THEN <<"number">> ELSE Fail)

(* Both modifiers of a pair: reported, and one is dropped.                 *)
parse_type_mod ==
  /\ Now("parse_type_mod")
  /\ IF tok \in {"const", "mutable"}
     THEN Put(<<tok, "parse_type_mod">>) /\ mod' = mod \cup {tok}
     ELSE Put(IF mod = {"const", "mutable"} THEN <<"diag">> ELSE <<>>) /\ mod' = {}
  /\ UNCHANGED <<tok, context, funcs, func, param_count, errors, status>>

-----------------------------------------------------------------------------
(* Expressions.  The four levels of binary operators are loops around one  *)
(* another, all left associative: together they read Unary {Binary Unary}. *)

Binary == {"op", "*", "-", "<", ">"}

parse_expr ==
  \/ Now("parse_expr") /\ Do(<<"parse_unary", "parse_expr:op">>)
  \/ Now("parse_expr:op")
     /\ Do(IF tok \in Binary THEN <<tok, "parse_unary", "parse_expr:op">>
           ELSE Break)

parse_unary ==
  \/ Now("parse_unary")
     /\ Do(IF tok = "cast"
           THEN <<"cast", "<", "parse_type", ">", "parse_unary:op">>
           ELSE <<"parse_unary:op">>)
  \/ Now("parse_unary:op")
     /\ Do(IF tok \in {"*", "-"} THEN <<tok, "parse_unary:op">>
           ELSE <<"parse_atom">>)

Literal == {"number", "str"}

(* A call, a variable, a number and a string are tried in turn, each at    *)
(* the token where the one before gave up.                                 *)
parse_atom ==
  \/ Now("parse_atom")
     /\ Do(CASE tok = "("      -> <<"(", "parse_expr", ")">>
             [] tok = "callee" -> <<"parse_call", "parse_atom:var">>
             [] OTHER          -> <<"null", "parse_atom:var">>)
  \/ Now("parse_atom:var") /\ Do(<<>>)
  \/ Now("parse_atom:number") /\ Do(<<>>)

parse_call ==
  \/ Now("parse_call") /\ Do(<<"callee", "(", "parse_call:arg", ")">>)
  \/ Now("parse_call:arg")
     /\ Do(IF tok = ")" THEN Break ELSE <<"parse_expr", "parse_call:arg_sep">>)
  \/ Now("parse_call:arg_sep")
     /\ Do(IF tok = "arg_sep" THEN <<"arg_sep", "parse_call:arg">> ELSE Break)

(* No diagnostic where no name follows, and none is due to the caller.     *)
parse_var ==
  \/ Now("parse_var")
     /\ Do(IF tok = "&" THEN <<"&", "parse_var:&", "parse_var:name">>
           ELSE <<"parse_var:name">>)
  \/ Now("parse_var:&") /\ Do(IF tok = "&" THEN Fail ELSE <<>>)
  \/ Now("parse_var:name")
     /\ Do(IF tok = "name" THEN <<"name", "parse_var:access">> ELSE <<"null">>)
  \/ Now("parse_var:access")
     /\ Do(CASE tok = "->" -> <<"->", "name", "parse_var:access">>
             [] tok = "["  -> <<"[", "parse_expr", "]", "parse_var:access">>
             [] OTHER      -> Break)

parse_lvalue ==
  Now("parse_lvalue")
  /\ Do(IF tok = "*" THEN <<"*", "parse_lvalue">> ELSE <<"parse_var">>)

parse_assign ==
  Now("parse_assign") /\ Do(<<"parse_lvalue", "=", "parse_expr">>)

-----------------------------------------------------------------------------
(* Statements.                                                             *)

parse_var_decl ==
  \/ Now("parse_var_decl")
     /\ Do(<<"var", "parse_type_mod", "parse_type", "name",
             "parse_var_decl:=", "insert">>)
  \/ Now("parse_var_decl:=")
     /\ Do(IF tok = "=" THEN <<"=", "parse_var_decl:init">> ELSE <<>>)
  \/ Now("parse_var_decl:init")
     /\ Do(IF tok = "block_left" THEN <<"parse_array">> ELSE <<"parse_expr">>)

parse_array ==
  \/ Now("parse_array")
     /\ Do(<<"block_left", "parse_expr", "parse_array:arg_sep", "block_right">>)
  \/ Now("parse_array:arg_sep")
     /\ Do(IF tok = "arg_sep"
           THEN <<"arg_sep", "parse_expr", "parse_array:arg_sep">> ELSE Break)

(* An insertion that may be refused because the name is taken (a variable, *)
(* a typedef, a block, or a field that is its own block): it is reported,  *)
(* and the parse goes on.                                                  *)
Insert ==
  Now("insert") /\ \E refused \in BOOLEAN : Do(IF refused THEN <<"diag">> ELSE <<>>)

(* Broken form of parse_break: the function around it is asked for.        *)
parse_break_unchecked ==
  Now("parse_break") /\ Do(IF loop_depth = 0 /\ ~in_func THEN <<"diag", tok>> ELSE <<tok>>)

parse_break ==
  Now("parse_break") /\ Do(IF loop_depth = 0 THEN <<"diag", tok>> ELSE <<tok>>)

parse_exit == Now("parse_exit") /\ Do(<<"exit">>)

parse_return ==
  \/ Now("parse_return")
     /\ Do(IF in_func THEN <<"return", "parse_return:value">>
           ELSE <<"diag", "return", "parse_return:value">>)
  \/ Now("parse_return:value")
     /\ Do(IF tok = "end_line" THEN <<>> ELSE <<"parse_expr">>)

parse_paren_cond == Now("parse_paren_cond") /\ Do(<<"(", "parse_expr", ")">>)

parse_condition ==
  \/ Now("parse_condition")
     /\ Do(<<"if", "parse_paren_cond", "parse_body", "parse_condition:else">>)
  \/ Now("parse_condition:else")
     /\ Do(CASE tok = "elif" -> <<"elif", "parse_paren_cond", "parse_body",
                                  "parse_condition:else">>
             [] tok = "else" -> <<"else", "parse_body">>
             [] OTHER        -> Break)

parse_while ==
  Now("parse_while")
  /\ Do(<<"while", "parse_paren_cond", "loop_depth++">>)

parse_for ==
  \/ Now("parse_for") /\ Do(<<"for", "(", "parse_for:scope">>)
  \/ Now("parse_for:init")
     /\ Do(CASE tok = "end_line"   -> <<>>
             [] tok = "var" -> <<"parse_var_decl">>
             [] OTHER       -> <<"parse_assign">>)
  \/ Now("parse_for:cond")
     /\ Do(IF tok = "end_line" THEN <<>> ELSE <<"parse_expr">>)
  \/ Now("parse_for:step") /\ Do(IF tok = ")" THEN <<>> ELSE <<"parse_assign">>)

parse_line ==
  Now("parse_line")
  /\ Do(CASE tok = "var"                   -> <<"parse_var_decl", "end_line">>
          [] tok \in {"break", "continue"} -> <<"parse_break", "end_line">>
          [] tok = "exit"                  -> <<"parse_exit", "end_line">>
          [] tok \in {"*", "name"}         -> <<"parse_assign", "end_line">>
          [] tok = "return"                -> <<"parse_return", "end_line">>
          [] tok = "callee"                -> <<"parse_call", "end_line">>
          [] tok = "if"                    -> <<"parse_condition">>
          [] tok = "while"                 -> <<"parse_while">>
          [] tok = "for"                   -> <<"parse_for">>
          [] OTHER                         -> Fail)

parse_body ==
  \/ Now("parse_body") /\ Do(<<"block_left", "parse_body:scope">>)
  \/ Now("parse_body:line")
     /\ Do(IF tok = "block_right" THEN Break
           ELSE <<"parse_line", "parse_body:line">>)

-----------------------------------------------------------------------------
(* Declarations.                                                           *)

parse_typedef ==
  Now("parse_typedef") /\ Do(<<"typedef", "parse_type", "->", "name", "insert">>)

(* No field at all is reported, after the closing brace.                   *)
parse_block_decl ==
  \/ Now("parse_block_decl")
     /\ Do(<<"block", "name", "block_left", "insert", "parse_block_decl:first">>)
  \/ Now("parse_block_decl:first")
     /\ Do(IF tok = "block_right" THEN <<"block_right", "diag">>
           ELSE <<"parse_field", "end_line", "parse_block_decl:next">>)
  \/ Now("parse_block_decl:next")
     /\ Do(IF tok = "block_right" THEN <<"block_right">>
           ELSE <<"parse_field", "end_line", "parse_block_decl:next">>)

parse_field ==
  Now("parse_field") /\ Do(<<"parse_type_mod", "parse_type", "name", "insert">>)

(* Broken form of parse_func_decl: one parameter too many.                 *)
parse_func_decl_late ==
  \/ Now("parse_func_decl")
     /\ Do(<<"func", "parse_type_mod", "parse_type", "name", "insert_func",
             "(", "parse_func_decl:scope">>)
  \/ Now("parse_func_decl:param")
     /\ Do(IF tok = ")" THEN Break
           ELSE IF param_count > MaxParams THEN Fail
           ELSE <<"parse_param", "parse_func_decl:arg_sep">>)
  \/ Now("parse_func_decl:arg_sep")
     /\ Do(IF tok = "arg_sep" THEN <<"arg_sep", "parse_func_decl:param">>
           ELSE Break)

parse_func_decl ==
  \/ Now("parse_func_decl")
     /\ Do(<<"func", "parse_type_mod", "parse_type", "name", "insert_func",
             "(", "parse_func_decl:scope">>)
  \/ Now("parse_func_decl:param")
     /\ Do(IF tok = ")" THEN Break
           ELSE IF param_count >= MaxParams THEN Fail
           ELSE <<"parse_param", "parse_func_decl:arg_sep">>)
  \/ Now("parse_func_decl:arg_sep")
     /\ Do(IF tok = "arg_sep" THEN <<"arg_sep", "parse_func_decl:param">>
           ELSE Break)

parse_param ==
  \/ Now("parse_param")
     /\ Do(<<"parse_type_mod", "parse_type", "name", "param">>)
  \/ /\ Now("param")
     /\ \/ Do(Fail)   \* the name is taken
        \/ /\ Put(<<>>)
           /\ param_count' = param_count + 1
           /\ UNCHANGED <<tok, context, funcs, mod, func, errors, status>>

parse_use ==
  \/ Now("parse_use") /\ Do(<<"use", "name", "parse_use:find">>)
  \/ /\ Now("parse_use:find")
     /\ \E known \in BOOLEAN : Do(IF known THEN <<"insert_std">> ELSE Fail)

parse_main ==
  /\ Now("parse_main")
  /\ Put(IF main_seen THEN <<"diag", "main", "parse_body">>
         ELSE <<"main", "parse_body">>)
  /\ main_seen' = TRUE
  /\ UNCHANGED <<tok, current_scope, prev_scope, loop_depth, in_func,
                 prev_in_func, symbols, errors, status>>

(* Broken form of parse_file: the token is reported, but not skipped.      *)
parse_file_stuck ==
  /\ Now("parse_file") /\ tok # "eof"
  /\ Do((CASE tok = "main"    -> <<"parse_main">>
           [] tok = "use"     -> <<"parse_use">>
           [] tok = "var"     -> <<"parse_var_decl", "end_line">>
           [] tok = "func"    -> <<"parse_func_decl">>
           [] tok = "typedef" -> <<"parse_typedef">>
           [] tok = "block"   -> <<"parse_block_decl">>
           [] OTHER           -> <<"diag">>) \o <<"parse_file">>)

(* ktl_parse_file with ktl_parse_top_decl.  A call that fails here without *)
(* having read anything is reported, and its token skipped.                *)
parse_file ==
  /\ Now("parse_file") /\ tok # "eof"
  /\ Do((CASE tok = "main"    -> <<"parse_main">>
           [] tok = "use"     -> <<"parse_use">>
           [] tok = "var"     -> <<"parse_var_decl", "end_line">>
           [] tok = "func"    -> <<"parse_func_decl">>
           [] tok = "typedef" -> <<"parse_typedef">>
           [] tok = "block"   -> <<"parse_block_decl">>
           [] OTHER           -> <<"diag", "skip">>) \o <<"parse_file">>)

EndOfFile ==
  /\ Now("parse_file") /\ tok = "eof"
  /\ errors' = (errors \/ ~main_seen)
  /\ status' = "done"
  /\ UNCHANGED <<tok, todo, context, symbols>>

-----------------------------------------------------------------------------
(* What the functions assign around their calls.                           *)

(* The step that makes the scope around it the current one again.          *)
Leaving == [block |-> "leave_block", for |-> "leave_for", param |-> "leave_param"]

(* A new scope, its parent, and what is done inside it.                    *)
Enter(scope, parent, do) ==
  /\ Put(Append(do, Leaving[scope]))
  /\ prev_scope' = Append(prev_scope, Len(current_scope))
  /\ current_scope' = Append(parent, scope)
  /\ UNCHANGED <<tok, loop_depth, in_func, prev_in_func, main_seen, funcs, mod,
                 func, errors, status>>

EnterBlock ==
  /\ Now("parse_body:scope")
  /\ Enter("block", current_scope, <<"parse_body:line", "block_right">>)
  /\ UNCHANGED param_count

EnterFor ==
  /\ Now("parse_for:scope")
  /\ Enter("for", current_scope,
           <<"parse_for:init", "end_line", "parse_for:cond", "end_line",
             "parse_for:step", ")", "loop_depth++">>)
  /\ UNCHANGED param_count

(* The scope of the parameters hangs on the global one.                    *)
EnterParams ==
  /\ Now("parse_func_decl:scope")
  /\ Enter("param", <<"global">>,
           <<"parse_func_decl:param", ")", "set_params", "in_func=true">>)
  /\ param_count' = 0

EnterLoop ==
  /\ Now("loop_depth++")
  /\ Put(<<"parse_body", "loop_depth--">>)
  /\ loop_depth' = loop_depth + 1
  /\ UNCHANGED <<tok, current_scope, prev_scope, in_func, prev_in_func,
                 main_seen, symbols, errors, status>>

EnterFunc ==
  /\ Now("in_func=true")
  /\ Put(<<"parse_body", "in_func=prev_in_func">>)
  /\ prev_in_func' = in_func
  /\ in_func' = TRUE
  /\ UNCHANGED <<tok, current_scope, prev_scope, loop_depth, main_seen,
                 symbols, errors, status>>

(* A name that is taken gives a NULL entry, which is dereferenced next.    *)
InsertFunc ==
  \E f \in FuncNames :
    /\ Now("insert_func") \/ Now("insert_std")
    /\ Put(<<>>)
    /\ IF funcs[f] = "none"
       THEN /\ funcs' = [funcs EXCEPT ![f] = IF Now("insert_std") THEN "std"
                                             ELSE "declared"]
            /\ UNCHANGED <<errors, status>>
       ELSE /\ errors' = (errors \/ Now("insert_func"))
            /\ status' = "crashed"
            /\ UNCHANGED funcs
    /\ func' = IF Now("insert_std") THEN func ELSE f
    /\ UNCHANGED <<tok, context, mod, param_count>>

(* The entry now points to entries of the scope of the parameters.         *)
SetParams ==
  /\ Now("set_params")
  /\ Put(<<>>)
  /\ funcs' = IF param_count = 0 THEN funcs ELSE [funcs EXCEPT ![func] = "params"]
  /\ UNCHANGED <<tok, context, mod, func, param_count, errors, status>>

-----------------------------------------------------------------------------
(* Returning NULL: assignments that both ways out of a function share are  *)
(* made on the way; ktl_parse_atom and ktl_parse_file go on; the rest of   *)
(* the calls is given up.                                                  *)

Failing == status = "parsing" /\ Head(todo) = "null"
Restoring == {"leave_block", "leave_for", "leave_param", "loop_depth--",
              "in_func=prev_in_func"}

Unwind ==
  /\ Failing /\ todo[2] \notin Restoring
  /\ todo' = (CASE todo[2] = "parse_atom:var" ->
                     IF tok \in {"name", "&"}
                     THEN <<"parse_var", "parse_atom:number">>
                     ELSE <<"null", "parse_atom:number">>
                [] todo[2] = "parse_atom:number" ->
                     IF tok \in Literal THEN <<tok>> ELSE Fail
                [] todo[2] = "parse_file" -> <<"parse_file">>
                [] OTHER -> <<"null">>) \o SubSeq(todo, 3, Len(todo))
  /\ UNCHANGED <<tok, context, symbols, errors, status>>

(* The restoring step s, on either way out.                                *)
Leave(s) ==
  \/ Now(s) /\ Put(<<>>)
  \/ Failing /\ todo[2] = s /\ todo' = <<"null">> \o SubSeq(todo, 3, Len(todo))

(* Broken form of RestoreScope: not done where NULL is returned.           *)
RestoreScopeUnlessFailing ==
  /\ current_scope' = IF Failing THEN current_scope
                      ELSE SubSeq(current_scope, 1, prev_scope[Len(prev_scope)])
  /\ prev_scope' = SubSeq(prev_scope, 1, Len(prev_scope) - 1)

RestoreScope ==
  /\ current_scope' = SubSeq(current_scope, 1, prev_scope[Len(prev_scope)])
  /\ prev_scope' = SubSeq(prev_scope, 1, Len(prev_scope) - 1)

LeaveScope ==
  /\ Leave("leave_block") \/ Leave("leave_for")
  /\ RestoreScope
  /\ UNCHANGED <<tok, loop_depth, in_func, prev_in_func, main_seen, symbols,
                 errors, status>>

(* A function that fails frees the scope its entry may point into.         *)
LeaveParams ==
  /\ Leave("leave_param")
  /\ RestoreScope
  /\ funcs' = IF Failing /\ funcs[func] = "params"
              THEN [funcs EXCEPT ![func] = "dangling"] ELSE funcs
  /\ UNCHANGED <<tok, loop_depth, in_func, prev_in_func, main_seen, mod, func,
                 param_count, errors, status>>

(* Broken form of LeaveLoop: a body that fails returns first.              *)
LeaveLoopUnlessFailing ==
  /\ Leave("loop_depth--")
  /\ loop_depth' = IF Failing THEN loop_depth ELSE loop_depth - 1
  /\ UNCHANGED <<tok, current_scope, prev_scope, in_func, prev_in_func,
                 main_seen, symbols, errors, status>>

LeaveLoop ==
  /\ Leave("loop_depth--")
  /\ loop_depth' = loop_depth - 1
  /\ UNCHANGED <<tok, current_scope, prev_scope, in_func, prev_in_func,
                 main_seen, symbols, errors, status>>

LeaveFunc ==
  /\ Leave("in_func=prev_in_func")
  /\ in_func' = prev_in_func
  /\ UNCHANGED <<tok, current_scope, prev_scope, loop_depth, prev_in_func,
                 main_seen, symbols, errors, status>>

-----------------------------------------------------------------------------
(* KTL_ParseInit.                                                          *)
Init ==
  /\ tok \in Tokens
  /\ todo = <<"parse_file">>
  /\ current_scope = <<"global">> /\ prev_scope = <<>>
  /\ loop_depth = 0
  /\ in_func = FALSE /\ prev_in_func = FALSE
  /\ main_seen = FALSE
  /\ errors = FALSE
  /\ funcs = [f \in FuncNames |-> "none"]
  /\ mod = {}
  /\ func \in FuncNames /\ param_count = 0
  /\ status = "parsing"

Cursor == Read \/ Mismatch \/ Skip \/ DiagEmit

Expression ==
  \/ parse_type \/ parse_type_mod \/ parse_expr \/ parse_unary \/ parse_atom
  \/ parse_call \/ parse_var \/ parse_lvalue

Statement ==
  \/ parse_assign \/ parse_var_decl \/ parse_array \/ Insert \/ parse_break \/ parse_exit
  \/ parse_return \/ parse_paren_cond \/ parse_condition \/ parse_while
  \/ parse_for \/ parse_line \/ parse_body

Declaration ==
  \/ parse_typedef \/ parse_block_decl \/ parse_field \/ parse_func_decl
  \/ parse_param \/ parse_use \/ parse_main \/ parse_file \/ EndOfFile

Around ==
  \/ EnterBlock \/ EnterFor \/ EnterParams \/ EnterLoop \/ EnterFunc
  \/ InsertFunc \/ SetParams
  \/ Unwind \/ LeaveScope \/ LeaveParams \/ LeaveLoop \/ LeaveFunc

Next == Cursor \/ Expression \/ Statement \/ Declaration \/ Around

(* The compiler is one thread and does nothing else while it parses.       *)
Spec == Init /\ [][Next]_vars /\ WF_vars(Next)

-----------------------------------------------------------------------------
(* What is still to be undone tells which constructs enclose the cursor,   *)
(* outermost first.                                                        *)
Found(s, S) ==
  LET found[n \in 0 .. Len(s)] ==
        IF n = 0 THEN <<>>
        ELSE LET step == s[Len(s) + 1 - n]
             IN  IF step \in S THEN Append(found[n - 1], step) ELSE found[n - 1]
  IN  found

Pending(s, S) == Found(s, S)[Len(s)]

ToDo(step) == \E i \in DOMAIN todo : todo[i] = step
InLoop == ToDo("loop_depth--")
InFunction == ToDo("in_func=prev_in_func")

(* The steps, by what they may be part of: a type and a name; a statement; *)
(* the declaration of a function; a file.                                  *)
TypeSteps == AllTokens \cup
  {"diag", "null", "parse_type", "parse_type:find", "parse_type:*", "parse_type:[",
   "parse_type:size", "parse_type_mod"}

StatementSteps ==
  {"parse_expr", "parse_expr:op", "parse_unary", "parse_unary:op", "parse_atom",
   "parse_atom:var", "parse_atom:number", "parse_call", "parse_call:arg", "parse_call:arg_sep",
   "parse_var", "parse_var:&", "parse_var:name", "parse_var:access", "parse_lvalue",
   "parse_assign", "parse_var_decl", "parse_var_decl:=", "parse_var_decl:init",
   "parse_array", "parse_array:arg_sep", "insert", "parse_break", "parse_exit", "parse_return",
   "parse_return:value", "parse_paren_cond", "parse_condition", "parse_condition:else",
   "parse_while", "parse_for", "parse_for:scope", "parse_for:init", "parse_for:cond",
   "parse_for:step", "parse_line", "parse_body", "parse_body:scope", "parse_body:line",
   "loop_depth++", "loop_depth--", "leave_block", "leave_for"}

FuncSteps ==
  {"parse_func_decl:param", "parse_func_decl:arg_sep", "parse_param", "param", "set_params",
   "in_func=true", "in_func=prev_in_func"}

OuterSteps ==
  {"skip", "parse_typedef", "parse_block_decl", "parse_block_decl:first",
   "parse_block_decl:next", "parse_field", "parse_func_decl", "insert_func",
   "parse_func_decl:scope", "leave_param", "parse_use", "parse_use:find", "insert_std",
   "parse_main", "parse_file"}

BodySteps  == TypeSteps \cup StatementSteps
InnerSteps == BodySteps \cup FuncSteps
Steps      == InnerSteps \cup OuterSteps

(* Each variable holds what its C++ counterpart can; params[param_count++] *)
(* stays inside the array.                                                 *)
TypeInv ==
  /\ tok \in Tokens /\ todo \in Seq(Steps) /\ todo # <<>>
  /\ current_scope \in Seq({"global", "param", "for", "block"})
  /\ prev_scope \in Seq(1 .. Len(current_scope)) /\ loop_depth \in Nat
  /\ {in_func, prev_in_func, main_seen, errors} \subseteq BOOLEAN
  /\ funcs \in [FuncNames -> {"none", "declared", "params", "std", "dangling"}]
  /\ mod \subseteq {"const", "mutable"} /\ func \in FuncNames
  /\ param_count \in 0 .. MaxParams
  /\ status \in {"parsing", "done", "crashed"}

(* On every path, those of syntax errors included, the scope a name is put *)
(* into is the one of the innermost block, loop or function around it: so  *)
(* the global scope again after each declaration, however it failed.       *)
ScopeIsNesting ==
  LET open == Pending(todo, {"leave_block", "leave_for", "leave_param"})
  IN  /\ Len(current_scope) = Len(open) + 1
      /\ \A i \in DOMAIN open : open[i] = Leaving[current_scope[i + 1]]

(* loop_depth is the number of loops around the cursor, also after errors  *)
(* inside loops; in_func tells whether a function body is around it.       *)
ContextIsNesting ==
  /\ loop_depth = Len(Pending(todo, {"loop_depth--"}))
  /\ in_func <=> InFunction

(* A break or continue that no loop encloses, and a return that no         *)
(* function encloses, are never read without an error being on record.     *)
StrayReported ==
  [][Read => /\ Head(todo) \in {"break", "continue"} /\ ~InLoop => errors
             /\ Head(todo) = "return" /\ ~InFunction => errors]_vars

(* Parsing never stalls: the cursor moves on for ever, or the end of the   *)
(* file is reached (or the process dies).                                  *)
Progress == []<>(status # "parsing") \/ []<><<Read \/ Skip>>_vars
=============================================================================
