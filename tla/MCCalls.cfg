CONSTANTS
  Values = {a, b}
  Junk = Junk
  KTL_PARAM_REGS_COUNT = 2
  FuncFrame = 16
  MainFrame = 24
  MaxArgs = 4
  MaxWork = 3
SPECIFICATION Spec
SYMMETRY Symmetry
INVARIANTS Balanced AlignedAtCalls ArgumentsInPlace
PROPERTIES HeldReturned
