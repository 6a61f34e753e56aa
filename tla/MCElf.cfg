CONSTANTS
  p = p
  q = q
  r = r
  s1 = s1
  start = start
  Functions = {}
  Labels = {}
  Strings = {s1, s2}
  StringLen <- Lengths2
  Globals = {g}
  Imports = {p, q, r}
  Lengths = {5}
  START = 10
  MaxItems = 4
  MaxStrings = 2
  MaxLabels = 0
  virt_adr = 4194304
  PAGE_SIZE = 4096
  LoaderLen = 28
  LibsLen = 56
  NameLen <- NameLens
  nbucket = 2
  elf_hash <- Hashes
SPECIFICATION ElfSpec
INVARIANTS PlacesHold ImportsLand AddressesLand
CHECK_DEADLOCK FALSE
