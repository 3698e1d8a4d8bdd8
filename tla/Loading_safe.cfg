SPECIFICATION Spec
CONSTANTS
  a = a
  b = b
  c = c
  Threads = {t1, t2}
  Files = {a, b, c}
  MaxNesting = 3
  MaxModules = 4
  NotYet = NotYet
CHECK_DEADLOCK FALSE
INVARIANTS
  CacheIsSound
  DeliveredFrozen
PROPERTIES
  LoadedOnce
