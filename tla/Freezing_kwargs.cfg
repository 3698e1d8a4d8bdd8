SPECIFICATION Spec
CONSTANTS
  o1 = o1
  o2 = o2
  o3 = o3
  k1 = k1
  Modules = {m1, m2}
  Objects = {o1, k1}
  Kwargs = {k1}
  NoModule = NoModule
  NotYet = NotYet
CHECK_DEADLOCK FALSE
INVARIANTS
  LoadedIsDeepFrozen
