----------------------------- MODULE MCProgram -----------------------------
(* Instances of Program: which names the host predeclares, makes universal *)
(* or leaves out in each of the environments it may pass.                  *)
EXTENDS Program

CONSTANTS a, x

Env(pre, uni) == [pre |-> pre, uni |-> uni]

(* Both names in every way of being predeclared, universal or neither, but *)
(* no environment predeclares a name that is also universal in it.         *)
DisjointEnvs ==
  {e \in {Env(p, u) : p, u \in SUBSET {a, x}} : e.pre \cap e.uni = {}}
=============================================================================
