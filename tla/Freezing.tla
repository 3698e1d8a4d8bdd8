------------------------------ MODULE Freezing ------------------------------
(***************************************************************************)
(* Who may change a value.  Every list, dict and set refers to a           *)
(* Mutability token; mutating operations check that the token is not       *)
(* frozen, and freezing a token makes all values that refer to it          *)
(* read-only at once.  A module owns one token, which its literals,        *)
(* comprehensions, slices and builtins give to the values they make;       *)
(* operators give the token of their left operand; a **kwargs dict has a   *)
(* token of its own.  The loader freezes a module's token before it        *)
(* delivers the module.                                                    *)
(*                                                                         *)
(* One OS thread runs modules, each a Module object of its own: the host   *)
(* executes one, whose load() statements execute others.                   *)
(***************************************************************************)
EXTENDS FiniteSets, SequencesExt

CONSTANTS
  Modules,
  Objects,           (* lists, dicts and sets                              *)
  Kwargs,            (* the objects among them that are **kwargs dicts     *)
  NoModule,          (* an object not created yet                          *)
  NotYet             (* a module not delivered yet                         *)

Own       == "own"         (* the token of **kwargs dicts: never frozen    *)
Immutable == "immutable"   (* a token that was made frozen                 *)
Tokens    == Modules \cup {Own, Immutable}

ASSUME KwargsAssumption == Kwargs \subseteq Objects
ASSUME NamesAssumption ==
  /\ NoModule \notin Modules
  /\ Own \notin Modules /\ Immutable \notin Modules
  /\ \A O \in SUBSET Objects : NotYet \notin [O -> SUBSET Objects]

VARIABLES
  running,    (* modules being executed, the innermost last                *)
  executed,   (* modules whose execution has begun                         *)
  loaded,     (* modules a load() has delivered                            *)
  globals,    (* the values each module's globals hold                     *)
  creator,    (* history: the module whose execution created each object   *)
  owner,      (* each object's Mutability                                  *)
  items,      (* each object's elements                                    *)
  frozen      (* the tokens that are frozen                                *)

vars == <<running, executed, loaded, globals, creator, owner, items, frozen>>
heap == <<creator, owner, items>>

Frozen(o) == owner[o] \in frozen

(* The objects that can be reached from those in S.                        *)
Closed(C) == \A o \in C : items[o] \subseteq C
Reach(S)  == {o \in Objects : \A C \in SUBSET Objects : (S \subseteq C /\ Closed(C)) => o \in C}
Current   == Last(running)
Held      == Reach(globals[Current])

Busy == running # << >>

Init ==
  /\ running  = << >>
  /\ executed = {}
  /\ loaded   = {}
  /\ globals  = [m \in Modules |-> {}]
  /\ creator  = [o \in Objects |-> NoModule]
  /\ owner    = [o \in Objects |-> Immutable]
  /\ items    = [o \in Objects |-> {}]
  /\ frozen   = {Immutable}

-----------------------------------------------------------------------------
(* exec_file                                                               *)
Exec(m) ==
  /\ running = << >>
  /\ m \notin executed
  /\ running'  = << m >>
  /\ executed' = executed \cup {m}
  /\ UNCHANGED <<loaded, globals, heap, frozen>>

(* load() of a module the loader does not have yet: it is executed.        *)
Load(m) ==
  /\ Busy
  /\ m \notin executed
  /\ running'  = Append(running, m)
  /\ executed' = executed \cup {m}
  /\ UNCHANGED <<loaded, globals, heap, frozen>>

(* The importing module m binds some of the globals of the module n.       *)
Import(m, n) ==
  \E names \in SUBSET globals[n] : globals' = [globals EXCEPT ![m] = @ \cup names]

LoadCached(m) ==
  /\ Busy
  /\ m \in loaded
  /\ Import(Current, m)
  /\ UNCHANGED <<running, executed, loaded, heap, frozen>>

DeliverUnfrozen ==          (* mutant: the loader forgets module.freeze()  *)
  /\ Busy
  /\ Len(running) > 1
  /\ loaded'  = loaded \cup {Current}
  /\ running' = Front(running)
  /\ Import(Last(Front(running)), Current)
  /\ UNCHANGED <<executed, heap, frozen>>

(* The innermost module ends: the loader freezes it, keeps it and delivers *)
(* it to the module that loads it.                                         *)
Deliver ==
  /\ Busy
  /\ Len(running) > 1
  /\ frozen'  = frozen \cup {Current}
  /\ loaded'  = loaded \cup {Current}
  /\ running' = Front(running)
  /\ Import(Last(Front(running)), Current)
  /\ UNCHANGED <<executed, heap>>

(* The module the host executes ends; the host gets it as it is.           *)
Finish ==
  /\ Busy
  /\ Len(running) = 1
  /\ running' = << >>
  /\ UNCHANGED <<executed, loaded, globals, heap, frozen>>

(* An error ends all executions: no loader keeps a module that failed.     *)
Fail ==
  /\ Busy
  /\ running' = << >>
  /\ UNCHANGED <<executed, loaded, globals, heap, frozen>>

-----------------------------------------------------------------------------
MakeUnowned(o, token, elements) ==   (* mutant: a constructor without token *)
  /\ Busy
  /\ creator[o] = NoModule
  /\ creator' = [creator EXCEPT ![o] = Current]
  /\ owner'   = [owner   EXCEPT ![o] = NoModule]
  /\ items'   = [items   EXCEPT ![o] = elements]
  /\ globals' = [globals EXCEPT ![Current] = @ \cup {o}]
  /\ UNCHANGED <<running, executed, loaded, frozen>>

(* The new object o refers to token and holds elements; the code keeps it. *)
Make(o, token, elements) ==
  /\ Busy
  /\ creator[o] = NoModule
  /\ creator' = [creator EXCEPT ![o] = Current]
  /\ owner'   = [owner   EXCEPT ![o] = token]
  /\ items'   = [items   EXCEPT ![o] = elements]
  /\ globals' = [globals EXCEPT ![Current] = @ \cup {o}]
  /\ UNCHANGED <<running, executed, loaded, frozen>>

(* A literal, comprehension, slice, list(..), d.items(), json.decode(..).  *)
Create(o, held) ==
  \E e \in {{}} \cup {{x} : x \in held} : o \notin Kwargs /\ Make(o, Current, e)

(* The arguments of a call that no parameter takes by name.                *)
CollectKwargs(o, held) ==
  \E e \in {{}} \cup {{x} : x \in held} : o \in Kwargs /\ Make(o, Own, e)

(* a + b, a * n, a | b, a & b, a - b, a ^ b                                *)
Combine(o, a, b) ==
  /\ o \notin Kwargs
  /\ \E e \in {items[a] \cup items[b], items[a] \cap items[b], items[a] \ items[b]} :
       Make(o, owner[a], e)

(* a, which the code can get at, comes to hold e.                          *)
Change(a, e) ==
  /\ Busy
  /\ ~Frozen(a)
  /\ items' = [items EXCEPT ![a] = e]
  /\ UNCHANGED <<running, executed, loaded, globals, creator, owner, frozen>>

StoreUnchecked(a, x) ==     (* mutant: a mutating method without the check *)
  /\ Busy
  /\ items' = [items EXCEPT ![a] = @ \cup {x}]
  /\ UNCHANGED <<running, executed, loaded, globals, creator, owner, frozen>>

(* append, extend, insert, a[k] = x, add, update, a += b, a |= b, ...      *)
Store(a, x) == Change(a, items[a] \cup {x})

(* pop, remove, discard, popitem, clear, del a[k], ...                     *)
Discard(a, x) == Change(a, items[a] \ {x})

(* intersection_update, difference_update, symmetric_difference_update and *)
(* a &= b, a -= b, a ^= b                                                  *)
Replace(a, b) ==
  \E e \in {items[a] \cap items[b], items[a] \ items[b],
           (items[a] \ items[b]) \cup (items[b] \ items[a])} : Change(a, e)

(* freeze() of the test driver                                             *)
FreezeModule ==
  /\ Busy
  /\ frozen' = frozen \cup {Current}
  /\ UNCHANGED <<running, executed, loaded, globals, heap>>

FreezeThawed(a) ==          (* mutant: the new token is left unfrozen      *)
  /\ Busy
  /\ owner' = [owner EXCEPT ![a] = Own]
  /\ UNCHANGED <<running, executed, loaded, globals, creator, items, frozen>>

(* freeze(x) of the test driver gives x alone a new, frozen token.         *)
FreezeValue(a) ==
  /\ Busy
  /\ owner' = [owner EXCEPT ![a] = Immutable]
  /\ UNCHANGED <<running, executed, loaded, globals, creator, items, frozen>>

(* An operation of the running code on the values it can get at.           *)
Operate ==
  /\ Busy
  /\ LET held == Held IN
     \/ \E o \in Objects : Create(o, held)
     \/ \E o \in Objects : CollectKwargs(o, held)
     \/ \E o \in Objects, a \in held, b \in held : Combine(o, a, b)
     \/ \E a \in held, x \in held : Store(a, x)
     \/ \E a \in held : \E x \in items[a] : Discard(a, x)
     \/ \E a, b \in held : Replace(a, b)
     \/ \E a \in held : FreezeValue(a)

Next ==
  \/ \E m \in Modules : Exec(m)
  \/ \E m \in Modules : Load(m)
  \/ \E m \in Modules : LoadCached(m)
  \/ Deliver
  \/ Finish
  \/ Fail
  \/ Operate
  \/ FreezeModule

Spec == Init /\ [][Next]_vars

-----------------------------------------------------------------------------
TypeOK ==
  /\ running  \in Seq(Modules)
  /\ executed \subseteq Modules
  /\ loaded   \subseteq Modules
  /\ globals  \in [Modules -> SUBSET Objects]
  /\ creator  \in [Objects -> Modules \cup {NoModule}]
  /\ owner    \in [Objects -> Tokens]
  /\ items    \in [Objects -> SUBSET Objects]
  /\ frozen   \subseteq Tokens

(* Everything that can be reached from the globals of a module that load() *)
(* delivered is read-only, however its values were made and whatever they  *)
(* were made from.                                                         *)
LoadedIsDeepFrozen ==
  \A m \in loaded : \A o \in Reach(globals[m]) : Frozen(o)

(* A value that is read-only stays so and keeps its elements.              *)
StaysFrozen ==
  \A o \in Objects : creator[o] # NoModule /\ Frozen(o) => Frozen(o)' /\ items'[o] = items[o]
FrozenForever == [][StaysFrozen]_vars

(* Freezing implements the promise of load().                              *)
Graph(m) == [o \in Reach(globals[m]) |-> items[o]]
Graphs   == UNION {[O -> SUBSET Objects] : O \in SUBSET Objects}
Promise  == INSTANCE Publication WITH
              published <- [m \in Modules |-> IF m \in loaded THEN Graph(m) ELSE NotYet]
PromiseKept == Promise!Spec
=============================================================================
