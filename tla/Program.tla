------------------------------ MODULE Program ------------------------------
(***************************************************************************)
(* A compiled Program (src/src/starlark/program.py) shared by several OS   *)
(* threads.  Every eval / exec takes the Program's re-entrant lock without *)
(* blocking, resolves the one AST in place against the environment of that *)
(* call, and then evaluates it; a host builtin may call the same Program   *)
(* again from inside its own evaluation.                                   *)
(*                                                                         *)
(* The AST is its identifiers: of each, the scope Resolver._classify wrote *)
(* last.  An evaluation is the environment it was called with, the         *)
(* identifiers its resolver has still to visit and the module globals it   *)
(* has assigned so far.                                                    *)
(***************************************************************************)
EXTENDS Integers, SequencesExt, HostThreads

CONSTANTS
  Nobody,      (* the owner of a free lock                                 *)
  Names,       (* identifiers read at the top level of the source          *)
  Assigned,    (* those of them the source assigns at the top level        *)
  Envs,        (* environments: [pre, uni : SUBSET Names], the names the   *)
               (* host passes as predeclared= and as universal= / **env    *)
  MaxNesting   (* bound: runs of the Program one thread is in at a time    *)

ASSUME NobodyAssumption   == Nobody \notin Threads
ASSUME AssignedAssumption == Assigned \subseteq Names
ASSUME EnvsAssumption     == Envs \subseteq [pre : SUBSET Names, uni : SUBSET Names]
ASSUME NestingAssumption  == MaxNesting \in Nat \ {0}

VARIABLES
  invalid,   (* the source has an error that only the resolver reports     *)
  owner,     (* RLock: the thread that holds the lock                      *)
  count,     (* RLock: how often it does                                   *)
  binding,   (* Identifier.binding of each name                            *)
  runs,      (* per thread, the eval / exec calls it is in, innermost last *)
  ending,    (* how the last call of each thread ended                     *)
  lookup     (* the last _read_name: where it found the name, and where it *)
             (* had to                                                     *)

programVars == <<invalid, owner, count, binding, runs, ending, lookup>>

Scopes  == {"global", "predeclared", "universal"}
Places  == Scopes \cup {"undefined"}
Endings == {"none", "running", "ended", "busy", "syntax", "recursion"}
Run     == [env : Envs, pending : SUBSET Names, globals : SUBSET Assigned]

Top(t)     == Last(runs[t])
Inside(t)  == runs[t] # << >>
Running(t) == Inside(t) /\ Top(t).pending = {} /\ ~invalid

Amend(t, run) == runs' = [runs EXCEPT ![t] = Append(Front(@), run)]

-----------------------------------------------------------------------------
(* Resolver._classify at the top level of a file.                          *)
Classify(n, env) ==
  IF n \in Assigned THEN "global"
  ELSE IF n \in env.pre THEN "predeclared"
  ELSE IF n \in env.uni THEN "universal"
  ELSE "global"

(* _read_name: the place the binding names if the name is there, otherwise *)
(* the first of globals, predeclared and universal that has it.            *)
Holds(place, n, run) ==
  CASE place = "global"      -> n \in run.globals
    [] place = "predeclared" -> n \in run.env.pre
    [] place = "universal"   -> n \in run.env.uni
    [] OTHER                 -> FALSE

Scan(n, run) ==
  IF Holds("global", n, run) THEN "global"
  ELSE IF Holds("predeclared", n, run) THEN "predeclared"
  ELSE IF Holds("universal", n, run) THEN "universal"
  ELSE "undefined"

ReadNameStrict(scope, n, run) ==   (* mutant: no fall-back scan            *)
  IF Holds(scope, n, run) THEN scope ELSE "undefined"

ReadName(scope, n, run) == IF Holds(scope, n, run) THEN scope ELSE Scan(n, run)

-----------------------------------------------------------------------------
ProgramInit ==
  /\ invalid \in BOOLEAN
  /\ owner   = Nobody
  /\ count   = 0
  /\ binding = [n \in Names |-> "unresolved"]
  /\ runs    = [t \in Threads |-> << >>]
  /\ ending  = [t \in Threads |-> "none"]
  /\ lookup  = [got |-> "undefined", want |-> "undefined"]

(* eval / exec, from the host or from a builtin the innermost run calls:   *)
(* the non-blocking acquire succeeds.                                      *)
Enter(t, env) ==
  /\ owner \in {Nobody, t}
  /\ Inside(t) => Running(t)
  /\ Len(runs[t]) < MaxNesting
  /\ owner'  = t
  /\ count'  = count + 1
  /\ runs'   = [runs EXCEPT ![t] =
                 Append(@, [env |-> env, pending |-> Names, globals |-> {}])]
  /\ ending' = [ending EXCEPT ![t] = "running"]
  /\ UNCHANGED <<invalid, binding, lookup>>

(* It fails: RuntimeError, and the Program is left as it is.               *)
Refused(t) ==
  /\ owner \notin {Nobody, t}
  /\ ending' = [ending EXCEPT ![t] = "busy"]
  /\ UNCHANGED <<invalid, owner, count, binding, runs, lookup>>

(* The resolver overwrites one Identifier.binding.  Its errors (a reserved *)
(* name, a stray break, a duplicate parameter) do not stop it and do not   *)
(* depend on the environment.                                              *)
ResolveName(t, n) ==
  /\ Inside(t)
  /\ n \in Top(t).pending
  /\ binding' = [binding EXCEPT ![n] = Classify(n, Top(t).env)]
  /\ Amend(t, [Top(t) EXCEPT !.pending = @ \ {n}])
  /\ UNCHANGED <<invalid, owner, count, ending, lookup>>

(* The innermost run ends: the finally clause releases the lock.           *)
Release(t, how) ==
  /\ runs'   = [runs EXCEPT ![t] = Front(@)]
  /\ count'  = count - 1
  /\ owner'  = IF count = 1 THEN Nobody ELSE owner
  /\ ending' = [ending EXCEPT ![t] = how]
  /\ UNCHANGED <<invalid, binding, lookup>>

ResolveFailsLocked(t) ==      (* mutant: a failed call keeps the lock      *)
  /\ Inside(t)
  /\ invalid /\ Top(t).pending = {}
  /\ runs'   = [runs EXCEPT ![t] = Front(@)]
  /\ ending' = [ending EXCEPT ![t] = "syntax"]
  /\ UNCHANGED <<invalid, owner, count, binding, lookup>>

(* It has errors to report at its end, or Python's recursion limit stops   *)
(* it half-way and leaves what it has overwritten.                         *)
ResolveFails(t) ==
  /\ Inside(t)
  /\ \/ invalid /\ Top(t).pending = {} /\ Release(t, "syntax")
     \/ Top(t).pending # {} /\ Release(t, "recursion")

-----------------------------------------------------------------------------
Assign(t, n) ==
  /\ Running(t)
  /\ n \in Assigned
  /\ Amend(t, [Top(t) EXCEPT !.globals = @ \cup {n}])
  /\ UNCHANGED <<invalid, owner, count, binding, ending, lookup>>

Read(t, n) ==
  /\ Running(t)
  /\ lookup' = [got  |-> ReadName(binding[n], n, Top(t)),
                want |-> ReadName(Classify(n, Top(t).env), n, Top(t))]
  /\ UNCHANGED <<invalid, owner, count, binding, runs, ending>>

(* The evaluation returns or raises.                                       *)
Finish(t) ==
  /\ Running(t)
  /\ Release(t, "ended")

ProgramNext ==
  \E t \in Threads :
    \/ \E env \in Envs : Enter(t, env)
    \/ Refused(t)
    \/ \E n \in Names : ResolveName(t, n)
    \/ ResolveFails(t)
    \/ \E n \in Assigned : Assign(t, n)
    \/ \E n \in Names : Read(t, n)
    \/ Finish(t)

ProgramSpec == ProgramInit /\ [][ProgramNext]_programVars

-----------------------------------------------------------------------------
TypeOK ==
  /\ invalid \in BOOLEAN
  /\ owner   \in Threads \cup {Nobody}
  /\ count   \in Nat
  /\ binding \in [Names -> Scopes \cup {"unresolved"}]
  /\ runs    \in [Threads -> Seq(Run)]
  /\ ending  \in [Threads -> Endings]
  /\ lookup  \in [got : Places, want : Places]

(* The lock is held exactly by the thread that is inside the Program, once *)
(* for every call it is in, so that no failure leaves the Program locked   *)
(* and no two threads resolve or evaluate the AST at a time (the           *)
(* acquire(blocking=False) and release of Program.eval and Program.exec).  *)
LockMirrorsRuns ==
  /\ owner = Nobody <=> count = 0
  /\ \A t \in Threads : Len(runs[t]) = IF owner = t THEN count ELSE 0

(* Every name is found where the environment of the evaluation that reads  *)
(* it says: what the docstring of Program promises of a Program that is    *)
(* called again, by another thread or from its own builtins (Resolver      *)
(* ._classify against _read_name).                                         *)
ReadsOwnEnv == lookup.got = lookup.want
=============================================================================
