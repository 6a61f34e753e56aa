CONSTANTS
  Chars <- TextChars
  MainFile <- Main
  Included <- Other
  MaxMain = 5
  MaxOther = 2
  MaxDepth = 2
  StartTokens = 2
  EofTokens = 2
  MaxWord = 3
  MaxLiteral = 3
SPECIFICATION Spec
INVARIANTS
  TypeInv
  WrittenIsRead
  OverrunIsReported
  PlacesRight
PROPERTIES
  Ends
CHECK_DEADLOCK FALSE
