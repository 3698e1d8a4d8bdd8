SPECIFICATION ProcessSpec
CONSTANTS
  a = a
  x = x
  Threads = {t1, t2}
  Nobody = Nobody
  Names = {a, x}
  Assigned = {a}
  Envs <- DisjointEnvs
  MaxNesting = 2
  Constructs = {"bracket", "suite", "suffix", "prefix", "chain", "elif"}
  Cost <- AllCosts
  MaxCost = 3
  ResolveCost = 1
  EvalCost = 2
  MaxLevel = 2
  Need = 13
  Bases = {4, 17}
  HostFrames = {1}
  MaxLoose = 1
  Fits = TRUE
INVARIANTS
  LockMirrorsRuns
  ReadsOwnEnv
  HostContract
  LimitKept
