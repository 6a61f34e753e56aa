CONSTANTS
  StartCounter = 3
  Kinds <- AllKinds
  MaxNodes = 5
SPECIFICATION Spec
INVARIANTS JumpsClosed
PROPERTIES SourceControl
CHECK_DEADLOCK FALSE
