----------------------------- MODULE MCNesting -----------------------------
(* Instances of Nesting: a cap of 2 levels stands for 256, three frames    *)
(* for the 26 a bracket or a suffix costs the parser, one for the two or   *)
(* three of the others, limits of 4 and 17 for a host's default and for a  *)
(* limit higher than the parser asks for.                                  *)
EXTENDS Nesting

AllCosts == [c \in Constructs |-> IF c \in {"bracket", "suffix"} THEN 3
                                  ELSE IF c \in {"suite", "prefix"} THEN 1 ELSE 0]

(* Says of every instance whether the hypothesis under which HostContract  *)
(* is proved holds.                                                        *)
CONSTANT Fits
ASSUME FitsHere == Fits <=> CapsFit
=============================================================================
