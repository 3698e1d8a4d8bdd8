----------------------------- MODULE MCScoping ------------------------------
EXTENDS Scoping

CONSTANTS k, m, x, one, two

NoDefaults  == {{}}
AnyDefaults == SUBSET Names

Symmetric == Permutations(Values) \cup Permutations(Modules)
=============================================================================
