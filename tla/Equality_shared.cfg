SPECIFICATION EqualitySpec
CONSTANTS
  o = o
  p = p
  q = q
  atom = atom
  Objects = {o, p, q}
  Threads = {t1, t2}
  Heaps <- SharedHeaps
  Caps = {9}
INVARIANTS
  AnswersRight
