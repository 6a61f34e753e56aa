CONSTANTS
  start = start
  Functions = {f}
  Labels = {l1}
  Strings = {s1}
  StringLen <- ThreeBytes
  Globals = {g}
  Imports = {p}
  Lengths = {3}
  START = 10
  MaxItems = 2
  MaxStrings = 1
  MaxLabels = 1
SPECIFICATION Spec
INVARIANT LabelsFound
CHECK_DEADLOCK FALSE
