CONSTANTS
  Programs <- MCPrograms
  Std <- MCStd
  Fields <- MCFields
  ArrayLen = 2
  Words <- MCWords
  Registers <- MCRegisters
SPECIFICATION Spec
INVARIANTS VerdictReported  ConstKept ParamAddressReported 
CHECK_DEADLOCK FALSE
