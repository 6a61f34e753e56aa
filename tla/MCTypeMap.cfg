CONSTANTS
  Names = {"void", "i8", "char", "A", "B"}
  Counts = {3}
  FieldNames = {"x"}
  Standard <- MCStandard
  StandardAlias <- MCAlias
  PtrSize = 8
  MapInit = 2
  MapGrow = 1
  AliasInit = 1
  FieldGrow = 2
  MaxTypes = 5
  MaxAliases = 2
  MaxFields = 3
SPECIFICATION Spec
INVARIANTS NoOverrun NamesUnique OneIdPerType CompleteIsLaidOut
PROPERTIES ResolutionStable FinishedTypesFrozen
CHECK_DEADLOCK FALSE
