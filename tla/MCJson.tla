------------------------------- MODULE MCJson -------------------------------
(* What the encoder and the decoder do that their docs deny.               *)
EXTENDS JsonText

(* A dict with one key that is a string and another that is none.          *)
MixedDict == {[Object(<< "x" >> :> List(<< >>)) EXCEPT !.odd = TRUE]}
=============================================================================
