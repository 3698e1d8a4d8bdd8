------------------------------ MODULE Scoping -------------------------------
(***************************************************************************)
(* Variables: where the evaluator keeps them against where lexical scope   *)
(* says they are.                                                          *)
(*                                                                         *)
(* Every call has one dict of locals.  A function keeps a reference to the *)
(* dict of the call that made it; when it is called, its free variables    *)
(* are copied from that dict into its own.  A comprehension has no dict:   *)
(* its variables live, while it runs, in the dict of the code around it,   *)
(* which at the top level is the dict of the module's globals.  A function *)
(* does not know its module: it reads the globals of the module whose      *)
(* evaluation calls it.                                                    *)
(*                                                                         *)
(* The reference is the specification's: each variable is a cell of the    *)
(* block that binds it, and a function refers to the cells around it.      *)
(*                                                                         *)
(* All functions at one nesting level bind the same variables, and code    *)
(* may mention every name.  As functions keep references, it does not      *)
(* matter when they are made: any function of a block that has been        *)
(* entered may be called from anywhere.                                    *)
(***************************************************************************)
EXTENDS Integers, SequencesExt

CONSTANTS
  Modules,      (* modules, executed one after the other                   *)
  Names,        (* names of variables                                      *)
  Values,
  Unbound,      (* not assigned yet, or no such key in the dict            *)
  Levels,       (* nesting levels of functions, 1..n                       *)
  Kinds,        (* the kinds of blocks that programs enter                 *)
  Defaults,     (* choices of names mentioned in default values alone      *)
  MaxBlocks     (* bound: blocks entered in a behaviour                    *)

ASSUME UnboundAssumption == Unbound \notin Values
ASSUME NumbersAssumption == MaxBlocks \in Nat /\ Levels \subseteq Nat
ASSUME KindsAssumption ==
  Kinds \subseteq {"module", "function", "lambda", "comprehension"}

VARIABLES
  binds,     (* the variables that the functions of each level bind        *)
  bare,      (* names that functions mention only in the default values of *)
             (* the functions made in them                                 *)
  blocks,    (* the blocks entered so far                                  *)
  dict,      (* Frame.locals_ of the blocks that have a dict of their own  *)
  saved,     (* of each comprehension, what its names hid in the dict      *)
  stack,     (* the blocks being executed, innermost last                  *)
  cell,      (* the reference: the variables that each block binds         *)
  asOf,      (* history: what the code of a block saw around it on entry   *)
  odd        (* history: names copied on entry from a comprehension that   *)
             (* they do not refer to, or that is over                      *)

program == <<binds, bare>>
vars    == <<binds, bare, blocks, dict, saved, stack, cell, asOf, odd>>

Content == [Names -> Values \cup {Unbound}]
Empty   == [n \in Names |-> Unbound]
Ids     == 1..Len(blocks)

(* path: the blocks around it and itself, outermost first; own: the block  *)
(* whose dict it uses.                                                     *)
Block ==
  [kind : Kinds, module : Modules, names : SUBSET Names, level : {0} \cup Levels,
   path : Seq(1..MaxBlocks), own : 1..MaxBlocks]

Top    == Last(stack)
Own(b) == blocks[b].own

(* Resolver._classify: the innermost block around b that binds n; the      *)
(* module's block stands for every name that no other block binds.         *)
BinderOf(b, n) ==
  LET path == blocks[b].path
      binding == {i \in DOMAIN path : i = 1 \/ n \in blocks[path[i]].names}
  IN path[CHOOSE i \in binding : \A j \in binding : j <= i]

IsGlobal(b, n) == blocks[BinderOf(b, n)].kind = "module"

(* Mutant: only the variables of enclosing defs are free.                  *)
FreeInDefs(b, l) ==
  {n \in Names \ (binds[l] \cup bare) : blocks[BinderOf(b, n)].kind = "function"}

(* Mutant: what a nested function needs is not free in the one around it.  *)
FreeNearby(b, l) ==
  {n \in Names \ (binds[l] \cup bare) :
     ~IsGlobal(b, n) /\ Own(BinderOf(b, n)) = Own(b)}

(* DefStatement.freevars of the functions of level l made in block b: what *)
(* their default values mention is not collected from the body of the      *)
(* function around them, to which it belongs.                              *)
Free(b, l) == {n \in Names \ (binds[l] \cup bare) : ~IsGlobal(b, n)}

(* The variable whose value the entry for n in the dict of d now holds.    *)
Holder(d, n) ==
  LET using == {i \in DOMAIN stack : /\ blocks[stack[i]].kind = "comprehension"
                                     /\ Own(stack[i]) = d
                                     /\ cell[stack[i]][n] # Unbound}
  IN IF using = {} THEN d ELSE stack[CHOOSE i \in using : \A j \in using : j <= i]

(* The variable that n refers to in b, if the dict of b has it, or else    *)
(* the dict's own copy of it.                                              *)
Referent(b, n) ==
  LET v == BinderOf(b, n) IN IF Own(v) = Own(b) THEN v ELSE Own(b)

-----------------------------------------------------------------------------

Init ==
  /\ binds  \in [Levels -> SUBSET Names]
  /\ bare   \in Defaults
  /\ blocks = << >>
  /\ dict   = << >>
  /\ saved  = << >>
  /\ stack  = << >>
  /\ cell   = << >>
  /\ asOf   = << >>
  /\ odd    = {}

(* A new block, executed from now on.                                      *)
Enter(kind, module, names, level, around, own, locals, bound, seen) ==
  LET new == Len(blocks) + 1
  IN /\ new <= MaxBlocks
     /\ kind \in Kinds
     /\ blocks' = Append(blocks,
          [kind |-> kind, module |-> module, names |-> names, level |-> level,
           path |-> Append(around, new), own |-> own])
     /\ dict'   = Append(dict, locals)
     /\ cell'   = Append(cell, bound)
     /\ asOf'   = Append(asOf, seen)
     /\ stack'  = Append(stack, new)

(* eval_file: the frame's locals are the dict of the module's globals.     *)
Exec(m) ==
  /\ stack = << >>
  /\ Enter("module", m, Names, 0, << >>, Len(blocks) + 1, Empty, Empty, Empty)
  /\ saved' = Append(saved, Empty)
  /\ UNCHANGED <<program, odd>>

(* The same def or lambda: blocks made by the same pieces of code.         *)
SameCode(a, b) ==
  /\ Len(blocks[a].path) = Len(blocks[b].path)
  /\ \A i \in DOMAIN blocks[a].path :
       LET p == blocks[blocks[a].path[i]]
           q == blocks[blocks[b].path[i]]
       IN p.kind = q.kind /\ p.names = q.names /\ p.module = q.module

(* Thread.active: a function of that kind defined in s is being executed.  *)
Active(s, kind) ==
  \E b \in Range(stack) :
    LET path == blocks[b].path
    IN /\ blocks[b].kind = kind
       /\ SameCode(path[Len(path) - 1], s)

(* _call_value for a function that block s made.  A lambda's variables are *)
(* its parameters, here all with the argument v; those of a def are        *)
(* assigned later.                                                         *)
Call(s, kind, v) ==
  LET l       == blocks[s].level + 1
      free    == Free(s, l)
      closure == dict[Own(s)]
      args    == [n \in Names |-> IF kind = "lambda" /\ n \in binds[l] THEN v ELSE Unbound]
      copied  == [n \in Names |-> IF n \in free THEN closure[n] ELSE args[n]]
  IN /\ stack # << >>
     /\ l \in Levels
     /\ blocks[s].kind \in {"lambda", "comprehension"} => kind = "lambda"
     /\ ~Active(s, kind)
     /\ Enter(kind, blocks[s].module, binds[l], l, blocks[s].path, Len(blocks) + 1,
              copied, args, [n \in Names |-> cell[BinderOf(s, n)][n]])
     /\ saved' = Append(saved, Empty)
     /\ odd'   = odd \cup {<<Len(blocks) + 1, n>> : n \in {k \in free :
                    Holder(Own(s), k) # Referent(s, k) \/ <<Own(s), k>> \in odd}}
     /\ UNCHANGED program

(* _store_to_target: an assignment in the code of a module or a def.       *)
Assign(n, v) ==
  /\ stack # << >>
  /\ blocks[Top].kind \in {"module", "function"}
  /\ n \in blocks[Top].names
  /\ dict' = [dict EXCEPT ![Top][n] = v]
  /\ cell' = [cell EXCEPT ![Top][n] = v]
  /\ UNCHANGED <<program, blocks, saved, stack, asOf, odd>>

(* _eval_comprehension saves the entries of its names.                     *)
StartComp(ns) ==
  /\ stack # << >>
  /\ LET c == blocks[Top]
     IN /\ Enter("comprehension", c.module, ns, c.level, c.path, c.own, Empty, Empty, Empty)
        /\ saved' = Append(saved, [n \in Names |-> IF n \in ns THEN dict[c.own][n] ELSE Unbound])
  /\ UNCHANGED <<program, odd>>

(* _eval_clauses: the next item of a for clause.                           *)
NextItem(n, v) ==
  /\ stack # << >>
  /\ blocks[Top].kind = "comprehension"
  /\ n \in blocks[Top].names
  /\ dict' = [dict EXCEPT ![Own(Top)][n] = v]
  /\ cell' = [cell EXCEPT ![Top][n] = v]
  /\ UNCHANGED <<program, blocks, saved, stack, asOf, odd>>

(* Mutant: names that hid nothing stay in the dict.                        *)
RestoredOnly(d, c) ==
  [n \in Names |-> IF n \in blocks[c].names /\ saved[c][n] # Unbound
                   THEN saved[c][n] ELSE dict[d][n]]

(* Mutant: what the names hid is not put back.                             *)
RestoredToNothing(d, c) ==
  [n \in Names |-> IF n \in blocks[c].names THEN Unbound ELSE dict[d][n]]

(* The code is done, or an error goes through it: a comprehension puts     *)
(* back what it saved and removes the other names it introduced.           *)
Restored(d, c) ==
  [n \in Names |-> IF n \in blocks[c].names THEN saved[c][n] ELSE dict[d][n]]

Leave ==
  /\ stack # << >>
  /\ stack' = Front(stack)
  /\ dict'  = IF blocks[Top].kind = "comprehension"
              THEN [dict EXCEPT ![Own(Top)] = Restored(Own(Top), Top)]
              ELSE dict
  /\ UNCHANGED <<program, blocks, saved, cell, asOf, odd>>

Next ==
  \/ \E m \in Modules : Exec(m)
  \/ \E s \in Ids, kind \in {"function", "lambda"}, v \in Values : Call(s, kind, v)
  \/ \E n \in Names, v \in Values : Assign(n, v) \/ NextItem(n, v)
  \/ \E ns \in (SUBSET Names) \ {{}} : StartComp(ns)
  \/ Leave

Spec == Init /\ [][Next]_vars

-----------------------------------------------------------------------------
(* What the code being executed reads                                      *)

(* _read_name: a global is looked up in the module whose evaluation runs,  *)
(* any other variable in the frame.                                        *)
Read(n) ==
  IF IsGlobal(Top, n) THEN dict[stack[1]][n] ELSE dict[Own(Top)][n]

(* What the specification says it reads.                                   *)
Lexical(n) == cell[BinderOf(Top, n)][n]

(* The outermost block on the way from the binder of n to Top that has a   *)
(* dict of its own: the one that copied n from the dict of the binder.     *)
Copier(n) ==
  LET path   == blocks[Top].path
      binder == BinderOf(Top, n)
      inner  == {i \in DOMAIN path : path[i] > binder /\ Own(path[i]) # Own(binder)}
  IN path[CHOOSE i \in inner : \A j \in inner : i <= j]

IsCopied(n) ==
  /\ stack # << >>
  /\ ~IsGlobal(Top, n)
  /\ Own(BinderOf(Top, n)) # Own(Top)

-----------------------------------------------------------------------------
(* Properties                                                              *)

(* Comprehensions give back what they borrow: at any moment, in every dict *)
(* (of calls that run and of calls that are over but whose functions may   *)
(* still be called), an entry is the variable of the innermost running     *)
(* comprehension that uses its name, and otherwise the code's own variable *)
(* - whichever comprehensions were nested, left early by an error, or run  *)
(* meanwhile in the functions that they called.                            *)
EntriesHeld ==
  \A d \in {b \in Ids : Own(b) = b}, n \in Names :
    n \in blocks[d].names \/ Holder(d, n) # d => dict[d][n] = cell[Holder(d, n)][n]

(* A function reads the variables of the function that directly encloses   *)
(* it, or of a comprehension in progress there, as they are now, although  *)
(* it has a copy of its own.                                               *)
EnclosingReads ==
  \A n \in Names \ bare :
    /\ IsCopied(n)
    /\ Copier(n) = Own(Top)
    /\ <<Own(Top), n>> \notin odd
    => Read(n) = Lexical(n)

(* A function reads the variables of functions further out as they were    *)
(* when the function between them was called, through however many copies. *)
FarReads ==
  \A n \in Names \ bare :
    IsCopied(n) /\ <<Own(Top), n>> \notin odd => Read(n) = asOf[Copier(n)][n]

(* A function reads the globals of its module, if that is the one that     *)
(* calls it and no comprehension of its top-level code uses the name.      *)
GlobalReads ==
  stack # << >> =>
    \A n \in Names :
      /\ IsGlobal(Top, n)
      /\ blocks[Top].path[1] = stack[1]
      /\ Holder(stack[1], n) = stack[1]
      => Read(n) = Lexical(n)

(* docs/spec.md:2942-2946: a function refers to each free variable in its  *)
(* body.                                                                   *)
ClosureReads ==
  \A n \in Names : IsCopied(n) => Read(n) = Lexical(n)
=============================================================================
