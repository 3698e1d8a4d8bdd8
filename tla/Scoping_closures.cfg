SPECIFICATION Spec
CONSTANTS
  k = k
  m = m
  x = x
  one = one
  two = two
  Unbound = Unbound
  Modules = {m}
  Names = {x}
  Values = {one, two}
  Levels = {1, 2, 3}
  Kinds = {"module", "function"}
  Defaults <- NoDefaults
  MaxBlocks = 4
CHECK_DEADLOCK FALSE
INVARIANTS
  ClosureReads
