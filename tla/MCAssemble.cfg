CONSTANTS
  start = start
  Functions = {f}
  Labels = {l1, l2}
  Strings = {s1}
  StringLen <- ThreeBytes
  Globals = {g}
  Imports = {p}
  Lengths = {3}
  START = 2
  MaxItems = 3
  MaxStrings = 3
  MaxLabels = 2
SPECIFICATION Spec
SYMMETRY Symmetry
INVARIANTS JumpsLand CallsLand AddressesWait RoomForTwice
CHECK_DEADLOCK FALSE
