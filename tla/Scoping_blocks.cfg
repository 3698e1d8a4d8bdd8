SPECIFICATION Spec
CONSTANTS
  k = k
  m = m
  x = x
  one = one
  two = two
  Unbound = Unbound
  Modules = {k, m}
  Names = {x}
  Values = {one, two}
  Levels = {1, 2}
  Kinds = {"module", "function", "lambda", "comprehension"}
  Defaults <- AnyDefaults
  MaxBlocks = 4
SYMMETRY Symmetric
CHECK_DEADLOCK FALSE
INVARIANTS
  EntriesHeld
  EnclosingReads
  FarReads
  GlobalReads
