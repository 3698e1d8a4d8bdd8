SPECIFICATION Spec
CONSTANTS
  Threads = {t1}
  Constructs = {"suffix"}
  Cost <- AllCosts
  MaxCost = 3
  ResolveCost = 1
  EvalCost = 2
  MaxLevel = 2
  Need = 13
  Bases = {4, 17}
  HostFrames = {1}
  MaxLoose = 6
  Fits = FALSE
INVARIANTS
  HostContract
