----------------------------- MODULE MCLoading ------------------------------
(* Instances of Loading: few files, every way they may load each other.    *)
EXTENDS Loading

CONSTANTS a, b, c
=============================================================================
