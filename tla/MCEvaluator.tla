---------------------------- MODULE MCEvaluator ----------------------------
(* Instances of Evaluator: an outer evaluation that a nested one can       *)
(* interrupt, with the limits and callbacks of each given by name.         *)
EXTENDS Evaluator, TLC

CONSTANTS outer, inner

(* Both evaluations are limited; the outer one gets far enough to call a   *)
(* function from itself, directly and through a builtin, and has a         *)
(* callback that may start the inner one.                                  *)
NestedEvals  == {outer, inner}
NestedSteps  == (outer :> 5) @@ (inner :> 1)
NestedAllocs == (outer :> 0) @@ (inner :> 0)
NestedArmed  == (outer :> {"steps"}) @@ (inner :> {"allocs"})
=============================================================================
