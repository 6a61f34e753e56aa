CONSTANTS
  Values = {a}
  Junk = Junk
  KTL_PARAM_REGS_COUNT = 6
  FuncFrame = 16
  MainFrame = 24
  MaxArgs = 8
  MaxWork = 1
SPECIFICATION Spec
INVARIANTS StackArguments
