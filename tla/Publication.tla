---------------------------- MODULE Publication -----------------------------
(***************************************************************************)
(* What load() promises to the modules that import a module: it is         *)
(* delivered once, and everything that can be reached from it stays as it  *)
(* was when it was delivered, whoever uses it afterwards.                  *)
(***************************************************************************)
CONSTANTS
  Modules,    (* modules that may be loaded                                *)
  Graphs,     (* what may be reached from the globals of a module          *)
  NotYet      (* the module has not been delivered                         *)

VARIABLE published

Init == published = [m \in Modules |-> NotYet]

(* m is delivered, whatever it has come to hold.                           *)
Publish(m) ==
  /\ published[m] = NotYet
  /\ published'[m] \in Graphs
  /\ published' = [published EXCEPT ![m] = published'[m]]

Next == \E m \in Modules : Publish(m)

Spec == Init /\ [][Next]_published
=============================================================================
