------------------------------ MODULE Loading -------------------------------
(***************************************************************************)
(* FileLoader: the cache of modules that OS threads share when they run    *)
(* files with the same loader.  A load() statement asks the loader for a   *)
(* file; a file that is not in the cache is executed, which may load       *)
(* further files, then frozen, then cached, then delivered.  Nothing marks *)
(* a file as being loaded.                                                 *)
(*                                                                         *)
(* The exec_file a FileLoader is made with may hand the loader on to the   *)
(* files it loads; when it does not, as starlark.exec_file itself, their   *)
(* own load() statements fail.                                             *)
(***************************************************************************)
EXTENDS Integers, SequencesExt, HostThreads

CONSTANTS
  Files,
  MaxNesting,   (* bound: loads that nest deeper end in a recursion error  *)
  MaxModules,   (* bound: the modules a behaviour makes                    *)
  NotYet        (* the file is not in the cache                            *)

ASSUME BoundsAssumption == MaxNesting \in Nat /\ MaxModules \in Nat
ASSUME NotYetAssumption == NotYet \notin Nat

VARIABLES
  users,   (* the threads that run files with this loader                  *)
  deps,    (* the files each file loads                                    *)
  cache,   (* FileLoader._cache: the module of each file                   *)
  frozen,  (* the modules that are frozen                                  *)
  made,    (* the number of modules made so far                            *)
  stack,   (* per thread: the files being executed, the innermost last     *)
  got      (* history: per module, the modules its load()s delivered       *)

vars == <<users, deps, cache, frozen, made, stack, got>>

Modules == 1..MaxModules
Run     == [file : Files, module : Modules, todo : SUBSET Files,
            phase : {"executing", "frozen"}]
Top(t)  == Last(stack[t])

Init ==
  /\ users  \in (SUBSET Threads) \ {{}}
  /\ deps   \in [Files -> SUBSET Files]
  /\ cache  = [f \in Files |-> NotYet]
  /\ frozen = {}
  /\ made   = 0
  /\ stack  = [t \in Threads |-> << >>]
  /\ got    = [m \in Modules |-> {}]

(* Thread t begins to execute f in a new Module.                           *)
Execute(t, f) ==
  /\ made < MaxModules
  /\ made'  = made + 1
  /\ stack' = [stack EXCEPT ![t] = Append(@,
                 [file |-> f, module |-> made + 1, todo |-> deps[f], phase |-> "executing"])]

(* Thread t, with the calls s left, delivers module m of file f to the     *)
(* innermost of them.                                                      *)
DeliverTo(t, s, f, m) ==
  LET importer == Last(s)
  IN /\ stack' = [stack EXCEPT ![t] =
                    Append(Front(s), [importer EXCEPT !.todo = @ \ {f}])]
     /\ got'   = [got EXCEPT ![importer.module] = @ \cup {<<f, m>>}]

-----------------------------------------------------------------------------
(* The host executes a file.                                               *)
Start(t, f) ==
  /\ t \in users
  /\ stack[t] = << >>
  /\ Execute(t, f)
  /\ UNCHANGED <<users, deps, cache, frozen, got>>

(* load() of a file in the cache                                           *)
Hit(t, f) ==
  /\ stack[t] # << >>
  /\ f \in Top(t).todo
  /\ cache[f] # NotYet
  /\ DeliverTo(t, stack[t], f, cache[f])
  /\ UNCHANGED <<users, deps, cache, frozen, made>>

MissReserved(t, f) ==      (* mutant: caches the module before it has run  *)
  /\ stack[t] # << >>
  /\ f \in Top(t).todo
  /\ cache[f] = NotYet
  /\ Len(stack[t]) < MaxNesting
  /\ Execute(t, f)
  /\ cache' = [cache EXCEPT ![f] = made + 1]
  /\ UNCHANGED <<users, deps, frozen, got>>

(* ... of a file that is not: it is read and executed.                     *)
Miss(t, f) ==
  /\ stack[t] # << >>
  /\ f \in Top(t).todo
  /\ cache[f] = NotYet
  /\ Len(stack[t]) < MaxNesting
  /\ Execute(t, f)
  /\ UNCHANGED <<users, deps, cache, frozen, got>>

(* module.freeze(), when the file a load() asked for has been executed     *)
Freeze(t) ==
  /\ Len(stack[t]) > 1
  /\ Top(t).phase = "executing" /\ Top(t).todo = {}
  /\ frozen' = frozen \cup {Top(t).module}
  /\ stack'  = [stack EXCEPT ![t] = Append(Front(@), [Top(t) EXCEPT !.phase = "frozen"])]
  /\ UNCHANGED <<users, deps, cache, made, got>>

KeepUnfrozen(t) ==         (* mutant: caches and delivers before freezing  *)
  /\ Len(stack[t]) > 1
  /\ Top(t).todo = {}
  /\ cache' = [cache EXCEPT ![Top(t).file] = Top(t).module]
  /\ DeliverTo(t, Front(stack[t]), Top(t).file, Top(t).module)
  /\ UNCHANGED <<users, deps, frozen, made>>

KeepImporter(t) ==         (* mutant: caches it under the importer's name  *)
  /\ Len(stack[t]) > 1
  /\ Top(t).phase = "frozen"
  /\ cache' = [cache EXCEPT ![Last(Front(stack[t])).file] = Top(t).module]
  /\ DeliverTo(t, Front(stack[t]), Top(t).file, Top(t).module)
  /\ UNCHANGED <<users, deps, frozen, made>>

(* The module is cached, whatever the cache holds by now, and delivered.   *)
Keep(t) ==
  /\ Len(stack[t]) > 1
  /\ Top(t).phase = "frozen"
  /\ cache' = [cache EXCEPT ![Top(t).file] = Top(t).module]
  /\ DeliverTo(t, Front(stack[t]), Top(t).file, Top(t).module)
  /\ UNCHANGED <<users, deps, frozen, made>>

(* The file the host executes ends; its module is the host's.              *)
Finish(t) ==
  /\ Len(stack[t]) = 1
  /\ Top(t).todo = {}
  /\ stack' = [stack EXCEPT ![t] = << >>]
  /\ UNCHANGED <<users, deps, cache, frozen, made, got>>

Fail(t) ==
  /\ stack[t] # << >>
  /\ Top(t).phase = "executing"
  /\ stack' = [stack EXCEPT ![t] = << >>]
  /\ UNCHANGED <<users, deps, cache, frozen, made, got>>

Next ==
  \E t \in Threads :
    \/ \E f \in Files : Start(t, f)
    \/ \E f \in Files : Hit(t, f)
    \/ \E f \in Files : Miss(t, f)
    \/ Freeze(t)
    \/ Keep(t)
    \/ Finish(t)
    \/ Fail(t)

Spec == Init /\ [][Next]_vars

-----------------------------------------------------------------------------
TypeOK ==
  /\ users  \subseteq Threads
  /\ deps   \in [Files -> SUBSET Files]
  /\ cache  \in [Files -> Modules \cup {NotYet}]
  /\ frozen \subseteq Modules
  /\ made   \in 0..MaxModules
  /\ stack  \in [Threads -> Seq(Run)]
  /\ got    \in [Modules -> SUBSET (Files \X Modules)]

Cached == {f \in Files : cache[f] # NotYet}

(* The cache holds modules that have run to their end and are frozen, with *)
(* all they load: a file that fails, however deep, leaves nothing behind   *)
(* that a later load() could get half done.                                *)
CacheIsComplete ==
  \A f \in Cached :
    /\ cache[f] \in frozen
    /\ {d[1] : d \in got[cache[f]]} = deps[f]
    /\ deps[f] \subseteq Cached

(* A file that loads itself through others never gets into the cache: of   *)
(* any files in the cache at least one loads none of them.                 *)
CyclesNeverCached ==
  \A S \in SUBSET Cached : S # {} => \E f \in S : deps[f] \cap S = {}

CacheIsSound == CacheIsComplete /\ CyclesNeverCached

(* A module is delivered frozen.                                           *)
DeliveredFrozen == \A m \in Modules : \A d \in got[m] : d[2] \in frozen

(* Every load() of a name gets the one module the first load() made, as    *)
(* long as one thread at most uses the loader (FileLoader.__call__).       *)
Alone  == \A t, u \in users : t = u
Unused == [f \in Files |-> NotYet]
Once   == INSTANCE Publication WITH
            Modules <- Files, Graphs <- Modules,
            published <- IF Alone THEN cache ELSE Unused
LoadedOnce == Once!Spec
=============================================================================
