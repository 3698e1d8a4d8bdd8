----------------------------- MODULE MCProcess -----------------------------
(* What the threads of one process share while they compile and run: a     *)
(* Program with its lock, and the recursion limit of the interpreter.      *)
(* about says which of the two a behaviour is of; the other stands still.  *)
EXTENDS MCProgram, MCNesting

VARIABLE about

processVars == <<about, programVars, vars>>

NoProgram ==
  /\ invalid = FALSE /\ owner = Nobody /\ count = 0
  /\ binding = [n \in Names |-> "unresolved"]
  /\ runs    = [t \in Threads |-> << >>]
  /\ ending  = [t \in Threads |-> "none"]
  /\ lookup  = [got |-> "undefined", want |-> "undefined"]

NoSource ==
  /\ users = Threads /\ base = 0 /\ limit = 0
  /\ job    = [t \in Threads |-> Idle]
  /\ result = [t \in Threads |-> "none"]

ProcessInit ==
  \/ about = "program" /\ ProgramInit /\ NoSource
  \/ about = "source"  /\ Init /\ NoProgram

ProcessNext ==
  \/ about = "program" /\ ProgramNext /\ UNCHANGED <<about, vars>>
  \/ about = "source"  /\ Next /\ UNCHANGED <<about, programVars>>

ProcessSpec == ProcessInit /\ [][ProcessNext]_processVars
=============================================================================
