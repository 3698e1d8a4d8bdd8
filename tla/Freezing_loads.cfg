SPECIFICATION Spec
CONSTANTS
  o1 = o1
  o2 = o2
  o3 = o3
  k1 = k1
  Modules = {m1, m2, m3}
  Objects = {o1, o2}
  Kwargs = {}
  NoModule = NoModule
  NotYet = NotYet
CHECK_DEADLOCK FALSE
SYMMETRY Symmetry
INVARIANTS
  TypeOK
  LoadedIsDeepFrozen
PROPERTIES
  FrozenForever
  PromiseKept
