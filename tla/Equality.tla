----------------------------- MODULE Equality ------------------------------
(***************************************************************************)
(* equal() of src/src/starlark/eval/values.py: structural equality of      *)
(* values that may contain themselves.  The pairs of containers being      *)
(* compared are kept in one set for the whole process; a pair that comes   *)
(* up again on the way down is taken to be equal.  A cap on the depth ends *)
(* comparisons of values that are deep without being cyclic.               *)
(*                                                                         *)
(* A value is an atom or an object of the heap: a list, dict, set or       *)
(* tuple, whose items are a function from indices, keys or elements to     *)
(* values.  Comparing does not run Starlark code, so the heap stands still.*)
(***************************************************************************)
EXTENDS Integers, FiniteSets, SequencesExt, HostThreads

CONSTANTS
  Objects,    (* lists, dicts, sets and tuples                             *)
  Heaps,      (* the heaps to compare in: [Objects -> [kind, items]]       *)
  Caps        (* values for MAX_NESTING_DEPTH                              *)

VARIABLES
  cap,        (* MAX_NESTING_DEPTH                                         *)
  heap,
  seen,       (* _EQUAL_SEEN[-1]                                           *)
  stack,      (* per thread: the calls of equal() on containers, innermost *)
              (* last, each with the keys it has still to compare          *)
  verdict,    (* per thread: what the innermost call just returned         *)
  asked,      (* per thread: the values of the outermost call              *)
  answer      (* per thread: what the outermost call returned              *)

equalityVars == <<cap, heap, seen, stack, verdict, asked, answer>>

Answers  == {"none", "equal", "different", "error"}
Pairs    == Objects \X Objects
RecordedLists(o) == heap[o].kind \in {"list", "set"}     (* mutant: no dicts *)
Recorded(o) == heap[o].kind \in {"list", "dict", "set"}
Keys(o)  == DOMAIN heap[o].items
Top(t)   == Last(stack[t])

EqualityInit ==
  /\ cap     \in Caps
  /\ heap    \in Heaps
  /\ seen    = {}
  /\ stack   = [t \in Threads |-> << >>]
  /\ verdict = [t \in Threads |-> "none"]
  /\ asked   = [t \in Threads |-> << >>]
  /\ answer  = [t \in Threads |-> "none"]

-----------------------------------------------------------------------------
(* The elements of a set are its keys: there is nothing else to compare.   *)
Comparable(a, b) == heap[a].kind = heap[b].kind /\ Keys(a) = Keys(b)
ToCompare(a, b)  ==
  IF Comparable(a, b) /\ heap[a].kind # "set" THEN Keys(a) ELSE {}

Started(p) == [pair |-> p, todo |-> ToCompare(p[1], p[2])]

EnterLeft(t, p, below) ==         (* mutant: records the left value alone  *)
  IF \E q \in seen : q[1] = p[1]
  THEN /\ stack'   = [stack EXCEPT ![t] = below]
       /\ verdict' = [verdict EXCEPT ![t] = "equal"]
       /\ UNCHANGED seen
  ELSE /\ seen'    = seen \cup {p}
       /\ stack'   = [stack EXCEPT ![t] = Append(below, Started(p))]
       /\ verdict' = [verdict EXCEPT ![t] =
             IF Comparable(p[1], p[2]) THEN "equal" ELSE "different"]

(* equal(a, b, depth) for two objects, called from the calls below: raises *)
(* beyond the cap, returns at once for a pair already being compared, and  *)
(* otherwise starts with the types, the lengths and the keys.              *)
Enter(t, p, below) ==
  LET recorded == Recorded(p[1]) /\ Recorded(p[2])
      returns(v) == /\ stack'   = [stack EXCEPT ![t] = below]
                    /\ verdict' = [verdict EXCEPT ![t] = v]
                    /\ UNCHANGED seen
  IN IF Len(below) > cap THEN returns("error")
     ELSE IF recorded /\ p \in seen THEN returns("equal")
     ELSE /\ seen'    = IF recorded THEN seen \cup {p} ELSE seen
          /\ stack'   = [stack EXCEPT ![t] = Append(below, Started(p))]
          /\ verdict' = [verdict EXCEPT ![t] =
                IF Comparable(p[1], p[2]) THEN "equal" ELSE "different"]

(* x == y, x in list, list.index(x), ... on two objects.                   *)
Ask(t, p) ==
  /\ stack[t] = << >>
  /\ verdict[t] = "none"
  /\ asked'  = [asked EXCEPT ![t] = p]
  /\ answer' = [answer EXCEPT ![t] = "none"]
  /\ Enter(t, p, << >>)
  /\ UNCHANGED <<cap, heap>>

(* The innermost call compares its items under key k; the depth is checked *)
(* for atoms too.  Lists and tuples go by index, dicts by insertion: here  *)
(* in any order, which decides only whether a difference or the cap is met *)
(* first.                                                                  *)
CompareItem(t, k) ==
  /\ stack[t] # << >>
  /\ verdict[t] = "equal"
  /\ k \in Top(t).todo
  /\ LET a == heap[Top(t).pair[1]].items[k]
         b == heap[Top(t).pair[2]].items[k]
         rest == Append(Front(stack[t]), [Top(t) EXCEPT !.todo = @ \ {k}])
     IN IF a \in Objects /\ b \in Objects
        THEN Enter(t, <<a, b>>, rest)
        ELSE /\ stack'   = [stack EXCEPT ![t] = rest]
             /\ verdict' = [verdict EXCEPT ![t] =
                IF Len(rest) > cap THEN "error" ELSE IF a = b THEN "equal" ELSE "different"]
             /\ UNCHANGED seen
  /\ UNCHANGED <<cap, heap, asked, answer>>

LeaveRaised(t) ==                 (* mutant: no finally around the items   *)
  /\ stack[t] # << >>
  /\ verdict[t] = "equal" => Top(t).todo = {}
  /\ seen'  = IF verdict[t] = "error" THEN seen ELSE seen \ {Top(t).pair}
  /\ stack' = [stack EXCEPT ![t] = Front(@)]
  /\ UNCHANGED <<cap, heap, verdict, asked, answer>>

(* It returns its verdict, or passes on the error, and forgets its pair.   *)
Leave(t) ==
  /\ stack[t] # << >>
  /\ verdict[t] = "equal" => Top(t).todo = {}
  /\ seen'  = seen \ {Top(t).pair}
  /\ stack' = [stack EXCEPT ![t] = Front(@)]
  /\ UNCHANGED <<cap, heap, verdict, asked, answer>>

Report(t) ==
  /\ stack[t] = << >>
  /\ verdict[t] # "none"
  /\ answer'  = [answer EXCEPT ![t] = verdict[t]]
  /\ verdict' = [verdict EXCEPT ![t] = "none"]
  /\ UNCHANGED <<cap, heap, seen, stack, asked>>

AllKeys == UNION {Keys(o) : o \in Objects}
EqualityNext ==
  \E t \in Threads :
    \/ \E p \in Pairs : Ask(t, p)
    \/ \E k \in AllKeys : CompareItem(t, k)
    \/ Leave(t)
    \/ Report(t)

EqualitySpec == EqualityInit /\ [][EqualityNext]_equalityVars

-----------------------------------------------------------------------------
(* The reference: two objects are equal when some relation between objects *)
(* holds between them and is respected by their items.                     *)
Respects(R, p) ==
  /\ Comparable(p[1], p[2])
  /\ \A k \in Keys(p[1]) :
       LET a == heap[p[1]].items[k]
           b == heap[p[2]].items[k]
       IN IF a \in Objects /\ b \in Objects THEN <<a, b>> \in R ELSE a = b

Bisimilar(p) == \E R \in SUBSET Pairs : p \in R /\ \A q \in R : Respects(R, q)

(* equal() answers what the values are, although it takes pairs it meets   *)
(* again to be equal: cyclic values compare equal exactly when no path     *)
(* into them tells them apart.                                             *)
AnswersRight ==
  \A t \in Threads :
    /\ answer[t] = "equal"     => Bisimilar(asked[t])
    /\ answer[t] = "different" => ~Bisimilar(asked[t])

(* The record is exactly the pairs being compared, also after an error, so *)
(* that a later comparison starts from nothing.                            *)
SeenMirrorsStacks ==
  seen = {p \in Pairs : /\ Recorded(p[1]) /\ Recorded(p[2])
                        /\ \E t \in Threads : \E i \in 1..Len(stack[t]) :
                             stack[t][i].pair = p}

(* A cycle alone never runs into the depth cap: a comparison of values     *)
(* with no more pairs of objects than the cap is answered.                 *)
CyclesAreAnswered ==
  Cardinality(Pairs) <= cap => \A t \in Threads : answer[t] # "error"

(* The elements of a set are hashable scalars, and they are its keys: two  *)
(* sets with the same keys hold the same atoms.                            *)
SetsHoldAtoms ==
  \A h \in Heaps : \A a, b \in Objects :
    h[a].kind = "set" /\ h[b].kind = "set" /\ DOMAIN h[a].items = DOMAIN h[b].items
      => \A k \in DOMAIN h[a].items : /\ h[a].items[k] \notin Objects
                                     /\ h[a].items[k] = h[b].items[k]
=============================================================================
