CONSTANTS
  Entries = {v1, v2, v3, v4, v5}
  Functions = {f, g}
  main = main
  None = None
  ScalarSizes = {4}
  AggregateSizes = {12, 120}
  KTL_PARAM_REGS_COUNT = 1
  Immediates <- Numbers
SPECIFICATION Spec
SYMMETRY Symmetry
INVARIANTS SlotsDisjoint SlotsInFrame FramesAligned ParametersInPlace ReadAsWritten SlotsFilled
CHECK_DEADLOCK FALSE
