SPECIFICATION FairSpec
CONSTANTS
  outer = outer
  inner = inner
  Evals <- NestedEvals
  Fns = {f}
  NoEval = NoEval
  NoFn = NoFn
  MaxSteps <- NestedSteps
  MaxAllocs <- NestedAllocs
  MaxDepth = 2
  Armed <- NestedArmed
  StepBound = 20
  AllocBound = 20
INVARIANTS
  TypeOK
  ContextIsInnermost
  NoRecursion
  RecordsMirrorStack
  CallbackFiresOnce
PROPERTIES
  EscapesContained
  NestedIsIsolated
  LimitStopsProgress
  Termination
CHECK_DEADLOCK FALSE
