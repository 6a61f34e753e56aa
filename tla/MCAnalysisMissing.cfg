CONSTANTS
  Programs <- MCPrograms
  Std <- MCStd
  Fields <- MCFields
  ArrayLen = 2
  Words <- MCWords
  Registers <- MCRegisters
SPECIFICATION Spec
INVARIANTS PassesSurvive
CHECK_DEADLOCK FALSE
