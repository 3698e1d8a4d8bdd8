----------------------------- MODULE MCFreezing ------------------------------
(* Instances of Freezing: a module and those it loads, and few objects.    *)
EXTENDS Freezing

CONSTANTS o1, o2, o3, k1

Symmetry == Permutations(Objects \ Kwargs) \cup Permutations(Modules)
=============================================================================
