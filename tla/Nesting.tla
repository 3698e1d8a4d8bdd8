------------------------------ MODULE Nesting ------------------------------
(***************************************************************************)
(* Deeply nested sources.  parse, resolve and evaluate are recursive       *)
(* Python functions.  The parser counts some of what it recurses into and  *)
(* caps it (Parser._enter), and raises the interpreter's recursion limit   *)
(* while it parses, so that its own cap is what fires; the resolver relies *)
(* on the limit the host has; the evaluator has Thread.max_depth and, in   *)
(* Program.exec, a clause that turns RecursionError into EvalError.  The   *)
(* recursion limit is one per interpreter: every OS thread saves, raises   *)
(* and restores the same one.                                              *)
(*                                                                         *)
(* A source is how its nodes nest, one construct at a time:                *)
(*   "bracket"  [..], {..}, (..), unary - + ~: in _parse_primary, counted  *)
(*   "suite"    the body of def, if, for: in _parse_suite, counted         *)
(*   "suffix"   f(..), a[..]: _parse_primary has left before the suffixes  *)
(*              are parsed, so that the parser recurses without counting   *)
(*   "prefix"   not, lambda, the else of a conditional: likewise           *)
(*   "chain"    a + b + c, a.b.c: parsed by a loop into a deep tree        *)
(*   "elif"     likewise, a tree of statements                             *)
(* Statements contain expressions and never the other way round.           *)
(***************************************************************************)
EXTENDS Integers, HostThreads

CONSTANTS
  Constructs,   (* the constructs their sources use                        *)
  Cost,         (* [Constructs -> frames]: Python frames per parser level  *)
  MaxCost,      (* no construct costs the parser more                      *)
  ResolveCost,  (* frames a level of the tree costs the resolver           *)
  EvalCost,     (* and the evaluator                                       *)
  MaxLevel,     (* Parser._max_depth and Thread.max_depth                  *)
  Need,         (* the limit the parser asks for, _max_depth * 50 + 500    *)
  Bases,        (* limits the host may have set                            *)
  HostFrames,   (* Python frames below the entry into the interpreter      *)
  MaxLoose      (* bound: constructs in one another that are not counted   *)

AllConstructs == {"bracket", "suite", "suffix", "prefix", "chain", "elif"}
Counted       == {"bracket", "suite"}
Statements    == {"suite", "elif"}

ASSUME CostAssumption ==
  /\ Constructs \subseteq AllConstructs
  /\ Cost \in [Constructs -> Nat] /\ MaxCost \in Nat
  /\ \A c \in Constructs : Cost[c] <= MaxCost
ASSUME NumbersAssumption ==
  /\ MaxLevel \in Nat /\ Need \in Nat /\ MaxLoose \in Nat
  /\ ResolveCost \in Nat /\ EvalCost \in Nat
  /\ Bases \subseteq Nat /\ HostFrames \subseteq Nat

VARIABLES
  users,   (* the threads that compile and run sources                     *)
  base,    (* the recursion limit the host has set                         *)
  limit,   (* sys.getrecursionlimit()                                      *)
  job,     (* per thread: what it does, and on which source                *)
  result   (* per thread: how its last call ended                          *)

vars == <<users, base, limit, job, result>>

Phases  == {"idle", "saved", "parsing", "resolving", "evaluating"}
Results == {"none", "ok", "syntax", "eval", "recursion"}
(* level is Parser._depth, and later how far the tree has been walked;     *)
(* loose counts the constructs on the way that the parser does not count;  *)
(* tree is the depth of the tree, the innermost exprs levels of which are  *)
(* expressions.                                                            *)
Job ==
  [phase : Phases, saved : Nat, entry : Nat, frames : Nat, level : Nat,
   loose : Nat, tree : Nat, exprs : Nat]

Idle == [phase |-> "idle", saved |-> 0, entry |-> 0, frames |-> 0, level |-> 0,
         loose |-> 0, tree |-> 0, exprs |-> 0]

Init ==
  /\ users \in (SUBSET Threads) \ {{}}
  /\ base \in Bases
  /\ limit  = base
  /\ job    = [t \in Threads |-> Idle]
  /\ result = [t \in Threads |-> "none"]

End(t, how) ==
  /\ job'    = [job EXCEPT ![t] = Idle]
  /\ result' = [result EXCEPT ![t] = how]

-----------------------------------------------------------------------------
(* old = sys.getrecursionlimit()                                           *)
SaveLimit(t, h) ==
  /\ t \in users
  /\ job[t].phase = "idle"
  /\ job' = [job EXCEPT ![t] = [Idle EXCEPT !.phase = "saved", !.saved = limit,
                                            !.entry = h, !.frames = h]]
  /\ UNCHANGED <<users, base, limit, result>>

RaiseLimitTo(t) == IF job[t].saved > Need THEN job[t].saved ELSE Need

(* sys.setrecursionlimit(max(old, self._max_depth * 50 + 500))             *)
RaiseLimit(t) ==
  /\ job[t].phase = "saved"
  /\ limit' = RaiseLimitTo(t)
  /\ job'   = [job EXCEPT ![t].phase = "parsing"]
  /\ UNCHANGED <<users, base, result>>

(* The construct c may come next; what it adds to the counts.              *)
MayNest(t, c) ==
  /\ job[t].phase = "parsing"
  /\ c \notin Counted => job[t].loose < MaxLoose
  /\ c \in Statements => job[t].exprs = 0

Deeper(t, c) ==
  [job[t] EXCEPT !.frames = @ + Cost[c],
                 !.level  = IF c \in Counted THEN @ + 1 ELSE @,
                 !.loose  = IF c \in Counted THEN @ ELSE @ + 1,
                 !.tree   = @ + 1,
                 !.exprs  = IF c \in Statements THEN @ ELSE @ + 1]

NestUnrestored(t, c) ==          (* mutant: no finally around the parse    *)
  /\ MayNest(t, c)
  /\ IF Deeper(t, c).frames > limit THEN End(t, "recursion")
     ELSE IF Deeper(t, c).level > MaxLevel THEN End(t, "syntax")
     ELSE job' = [job EXCEPT ![t] = Deeper(t, c)] /\ UNCHANGED result
  /\ UNCHANGED <<users, base, limit>>

NestLate(t, c) ==                (* mutant: counts after it has compared   *)
  /\ MayNest(t, c)
  /\ IF Deeper(t, c).frames > limit
     THEN End(t, "recursion") /\ limit' = job[t].saved
     ELSE IF c \in Counted /\ job[t].level > MaxLevel
     THEN End(t, "syntax") /\ limit' = job[t].saved
     ELSE /\ job' = [job EXCEPT ![t] = Deeper(t, c)]
          /\ UNCHANGED <<limit, result>>
  /\ UNCHANGED <<users, base>>

(* One construct deeper.  The frames that lead to _enter are on the stack  *)
(* before it counts; either exception passes the finally clause.           *)
Nest(t, c) ==
  /\ MayNest(t, c)
  /\ IF Deeper(t, c).frames > limit
     THEN End(t, "recursion") /\ limit' = job[t].saved
     ELSE IF Deeper(t, c).level > MaxLevel
     THEN End(t, "syntax") /\ limit' = job[t].saved
     ELSE /\ job' = [job EXCEPT ![t] = Deeper(t, c)]
          /\ UNCHANGED <<limit, result>>
  /\ UNCHANGED <<users, base>>

(* The source is at its end: without errors it is resolved next.           *)
EndParse(t, ok) ==
  /\ job[t].phase = "parsing"
  /\ limit' = job[t].saved
  /\ IF ok
     THEN /\ job' = [job EXCEPT ![t].phase = "resolving", ![t].level = 0,
                                ![t].frames = job[t].entry]
          /\ UNCHANGED result
     ELSE End(t, "syntax")
  /\ UNCHANGED <<users, base>>

-----------------------------------------------------------------------------
(* Thread.depth at the level of the tree that is walked next: expressions  *)
(* are counted and statements are not.                                     *)
DepthBelow(t) == job[t].level + 1 - (job[t].tree - job[t].exprs)

LevelCost(t) == IF job[t].phase = "resolving" THEN ResolveCost ELSE EvalCost

(* The resolver and the evaluator walk one level down the tree.            *)
Walk(t) ==
  /\ job[t].phase \in {"resolving", "evaluating"}
  /\ job[t].level < job[t].tree
  /\ IF job[t].frames + LevelCost(t) > limit
     THEN End(t, IF job[t].phase = "resolving" THEN "recursion" ELSE "eval")
     ELSE IF job[t].phase = "evaluating" /\ DepthBelow(t) > MaxLevel
     THEN End(t, "eval")
     ELSE /\ job' = [job EXCEPT ![t].frames = @ + LevelCost(t),
                                ![t].level  = @ + 1]
          /\ UNCHANGED result
  /\ UNCHANGED <<users, base, limit>>

EndWalk(t) ==
  /\ job[t].phase \in {"resolving", "evaluating"}
  /\ job[t].level = job[t].tree
  /\ IF job[t].phase = "resolving"
     THEN /\ job' = [job EXCEPT ![t].phase = "evaluating", ![t].level = 0,
                                ![t].frames = job[t].entry]
          /\ UNCHANGED result
     ELSE End(t, "ok")
  /\ UNCHANGED <<users, base, limit>>

Next ==
  \E t \in Threads :
    \/ \E h \in HostFrames : SaveLimit(t, h)
    \/ RaiseLimit(t)
    \/ \E c \in Constructs : Nest(t, c)
    \/ \E ok \in BOOLEAN : EndParse(t, ok)
    \/ Walk(t)
    \/ EndWalk(t)

Spec == Init /\ [][Next]_vars

-----------------------------------------------------------------------------
Alone == \A t, u \in users : t = u

(* However deep a source nests, the host of one thread sees a syntax error *)
(* or an EvalError and never Python's RecursionError, which is what        *)
(* Parser.__init__ and _too_much_recursion promise.  True of sources in    *)
(* which no more constructs nest uncounted than there is room for          *)
(* (CapsFit): however many are counted, the caps of the parser and of the  *)
(* evaluator fire first.                                                   *)
HostContract == Alone => \A t \in Threads : result[t] # "recursion"

(* What that rests on: the limit the parser asks for has room for the cap, *)
(* one level more and everything that nests uncounted, and the limit of    *)
(* the host has room for the resolver in a tree as deep as that.  Nothing  *)
(* is asked for the evaluator, whose RecursionError is converted.          *)
CapsFit ==
  \A h \in HostFrames :
    /\ h + (MaxLevel + 1 + MaxLoose) * MaxCost <= Need
    /\ \A b \in Bases : h + (MaxLevel + MaxLoose) * ResolveCost <= b

(* When nothing is being parsed the recursion limit is the host's again,   *)
(* as long as one thread at most parses (the finally clauses of            *)
(* Parser.parse_file and parse_expression).                                *)
NothingParsed == \A t \in Threads : job[t].phase # "parsing"
LimitRestored == Alone /\ NothingParsed => limit = base

(* Whatever several threads do, the limit never falls below the host's.    *)
LimitNeverLower == limit >= base
LimitKept == LimitRestored /\ LimitNeverLower
=============================================================================
