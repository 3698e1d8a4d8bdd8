SPECIFICATION DataSpec
CONSTANTS
  x = x
  y = y
  z = z
  v = v
  w = w
  bad = bad
  Unhashable = bad
  Kinds = {"list", "dict", "set"}
  Room = 3
  MaxElements = 3
  MaxLength = 4
  MaxLoops = 1
  Budgets = {0, 1, 4}
  Requests <- AllRequests
  Signatures <- AllSignatures
  Calls <- AllCalls
  Texts <- AllTexts
  Encoded <- AllEncoded
  Indented <- JsonValues
  JsonDepth = 2
  o1 = o1
  o2 = o2
  o3 = o3
  atom = atom
  Threads = {t1}
  Objects = {o1, o2, o3}
  Heaps <- AllHeaps
  Caps = {1, 9}
INVARIANTS
  OperationsKeepPromises
  LoopsVisitAll
  BindingIsRight
  DecodesTexts
  RoundTrip
  AnswersRight
  CyclesAreAnswered
  SeenMirrorsStacks
CHECK_DEADLOCK FALSE
