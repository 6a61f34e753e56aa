CONSTANTS
  Tokens <- AllTokens
  FuncNames = {"f"}
  MaxParams = 2
  MaxTodo = 9
SPECIFICATION Spec
INVARIANTS TypeInv ScopeIsNesting ContextIsNesting
PROPERTIES StrayReported Progress
CHECK_DEADLOCK FALSE
