----------------------------- MODULE Containers ----------------------------
(* A list, a dict or a set of src/starlark/eval/values.py, its methods     *)
(* (collection_methods.py), its augmented assignments and the for loops    *)
(* that iterate over it (evaluator.py).  Dicts and sets are Python dicts:  *)
(* a table in which a new key takes the next slot, a deleted one leaves a  *)
(* gap, and a full table is compacted.  An iterator is a position in it.   *)
EXTENDS Collections, FiniteSets

CONSTANTS Kinds,           \* the containers of the instance
          Room,            \* slots of a Python dict's table before it is rebuilt
          MaxElements,     \* limits.MAX_CONTAINER_ELEMENTS
          MaxLength,       \* bound: slots of the container after an operation
          MaxLoops,        \* bound: loops over the container inside each other
          Budgets,         \* entries the thread may still pay for
          Requests(_)      \* the requests made of a container of a kind

VARIABLES kind,     \* "list", "dict" or "set"
          slots,    \* _data: the items, and in a dict or a set the gaps
          frozen,   \* mutability.frozen
          loops     \* the iterators of the running for loops, inner last
vars == << kind, slots, frozen, loops >>

ASSUME BoundsAssumption ==
  Room \in Nat /\ MaxElements \in Nat /\ MaxLength \in Nat /\ MaxLoops \in Nat /\ Budgets \subseteq Nat

(* ------------------------------------------------ the table of a dict -- *)
Gap        == << >>
Live(s)    == SelectSeq(s, LAMBDA e : e # Gap)
Names(s)   == LET c == Live(s) IN [i \in DOMAIN c |-> c[i][1]]
Holds(s, k) == \E i \in DOMAIN s : s[i] # Gap /\ s[i][1] = k
SlotOf(s, k) == CHOOSE i \in DOMAIN s : s[i] # Gap /\ s[i][1] = k
WriteLast(s, e) ==               (* mutant: a key written again moves to the end *)
  Append(IF Holds(s, e[1]) THEN [s EXCEPT ![SlotOf(s, e[1])] = Gap] ELSE s, e)
Write(s, e) == IF Holds(s, e[1]) THEN [s EXCEPT ![SlotOf(s, e[1])] = e]
               ELSE Append(IF Len(s) >= Room THEN Live(s) ELSE s, e)
Delete(s, k) == IF Holds(s, k) THEN [s EXCEPT ![SlotOf(s, k)] = Gap] ELSE s
WriteAll(s, items) == FoldLeft(Write, s, items)

(* ------------------------------------- results, checks and the charge -- *)
(* paid counts the entries charged to the thread; an operation may pay for *)
(* b of them before the heap limit raises, after counting.                 *)
Result(s, out, paid) == [slots |-> s, out |-> out, paid |-> paid]
Done(s)   == Result(s, "ok", 0)
Fail(s)   == Result(s, "eval", 0)
Pay(s, n, b) == Result(s, IF n > b THEN "limit" ELSE "ok", n)
Checked(s, result) == IF frozen THEN Fail(s) ELSE result   \* Mutability.check

(* One Dict.__setitem__ or StarlarkSet.add: the charge is made first.      *)
Put(r, e, b) ==
  LET n == IF Holds(r.slots, e[1]) THEN r.paid ELSE r.paid + 1
  IN  CASE r.out # "ok"           -> r
        [] r.out = "ok" /\ (frozen \/ ~Hashable(e)) -> [r EXCEPT !.out = "eval"]
        [] OTHER -> IF n > b THEN Result(r.slots, "limit", n) ELSE Result(Write(r.slots, e), "ok", n)
PutPair(r, e, b) == IF r.out = "ok" /\ ~Pair(e) THEN [r EXCEPT !.out = "eval"] ELSE Put(r, e, b)
PutAll(s, items, b)  == FoldLeft(LAMBDA r, e : Put(r, e, b), Done(s), items)
PutPairs(s, items, b) == FoldLeft(LAMBDA r, e : PutPair(r, e, b), Done(s), items)

(* ----------------------------------------------------------- the lists -- *)
InRange(i, n) == Effective(i, n) \in 0..n - 1

(* StarlarkList.extend of an iterable that has a length.  The list's own   *)
(* iterator never ends while the list grows: memory does.                  *)
Endless(s) == [i \in 1..MaxElements |-> s[((i - 1) % Len(s)) + 1]]
Extend(s, r, b) ==
  CASE Len(s) + Len(AllOf(r)) > MaxElements -> Fail(s)
    [] Len(s) + Len(AllOf(r)) <= MaxElements /\ r.self /\ s # << >> -> Result(Endless(s), "memory", 0)
    [] OTHER -> Pay(s \o AllOf(r), Len(AllOf(r)), b)

(* += passes an iterator, which has no length: items are added one by one. *)
Stream(s, r, b) ==
  LET free == MaxElements - Len(s)
  IN  IF r.self /\ s # << >> THEN Fail(Endless(s))
      ELSE IF Len(AllOf(r)) > free THEN Fail(s \o SubSeq(AllOf(r), 1, free))
      ELSE Pay(s \o AllOf(r), Len(AllOf(r)), b)

WithoutFirst(s, x) == LET i == CHOOSE i \in DOMAIN s : s[i] = x /\ \A j \in 1..i - 1 : s[j] # x
                      IN  RemoveAt(s, i)

OfList(s, r, b) ==
  LET n == Len(s)
      i == Effective(r.at, n) + 1
  IN  CASE r.op = "append"  -> Checked(s, Pay(Append(s, r.item), 1, b))
        [] r.op = "extend"  -> Checked(s, Extend(s, r, b))
        [] r.op = "+="      -> Checked(s, Stream(s, r, b))
        [] r.op = "insert"  -> Checked(s, Done(InsertAt(s, Clamped(r.at, n) + 1, r.item)))
        [] r.op = "clear"   -> Checked(s, Done(<< >>))
        [] r.op = "setitem" -> IF InRange(r.at, n) THEN Checked(s, Done([s EXCEPT ![i] = r.item])) ELSE Fail(s)
        [] r.op = "pop"     -> IF InRange(r.at, n) THEN Checked(s, Done(RemoveAt(s, i))) ELSE Fail(s)
        [] r.op = "remove"  -> IF r.item \in ToSet(s) THEN Checked(s, Done(WithoutFirst(s, r.item))) ELSE Fail(s)

(* ----------------------------------------------------------- the dicts -- *)
(* Dict.update: every entry of the other dict first, then the charge.      *)
Merge(s, items, b) == LET d == WriteAll(s, items)
                      IN  Pay(d, Len(Live(d)) - Len(Live(s)), b)

(* d_update: a dict or an iterable of pairs, then the keyword arguments.   *)
Update(s, r, b) ==
  LET first == IF r.op = "merge" THEN Checked(s, Merge(s, Head(r.others), b))
               ELSE FoldLeft(LAMBDA a, e : PutPair(a, e, b), Done(s), Head(r.others))
  IN  FoldLeft(LAMBDA a, e : Put(a, e, b), first, FlattenSeq(Tail(r.others)))

(* Dict.setdefault stores the default, then charges for it.                *)
SetDefault(s, e, b) == IF Holds(s, e[1]) THEN Done(s) ELSE Pay(Write(s, e), 1, b)

PopKey(s, e) == IF Holds(s, e[1]) \/ Pair(e) THEN Done(Delete(s, e[1])) ELSE Fail(s)
PopLast(s)   ==                  (* mutant: as dict.popitem of Python does *)
  IF Live(s) = << >> THEN Fail(s) ELSE Done(Delete(s, Live(s)[Len(Live(s))][1]))
PopFirst(s)  == IF Live(s) = << >> THEN Fail(s) ELSE Done(Delete(s, Live(s)[1][1]))

OfDict(s, r, b) ==
  CASE r.op = "setitem"           -> Put(Done(s), r.item, b)
    [] r.op \in {"update", "merge"} -> Update(s, r, b)
    [] r.op = "|="                -> Checked(s, PutAll(s, AllOf(r), b))
    [] r.op = "clear"             -> Checked(s, Done(<< >>))
    [] r.op = "popitem"           -> Checked(s, PopFirst(s))
    [] r.op \in {"setdefault", "pop"} ->
         IF ~Hashable(r.item) THEN Fail(s)
         ELSE Checked(s, IF r.op = "pop" THEN PopKey(s, r.item) ELSE SetDefault(s, r.item, b))

(* ------------------------------------------------------------ the sets -- *)
(* What &=, -=, ^= and the _update methods keep of the set and add to it.  *)
Kept(s, r) ==
  CASE r.op \in {"intersection_update", "intersection", "&="} ->
         SelectSeq(Live(s), LAMBDA e : \A i \in DOMAIN r.others : e \in ToSet(r.others[i]))
    [] r.op \in {"difference_update", "difference"} ->
         SelectSeq(Live(s), LAMBDA e : e \notin ToSet(AllOf(r)))
    [] r.op \in {"symmetric_difference_update", "symmetric_difference", "^="} ->
         SelectSeq(Live(s), LAMBDA e : e \notin ToSet(AllOf(r)))
           \o SelectSeq(AllOf(r), LAMBDA e : e \notin ToSet(s))
    [] r.op = "union" -> Live(s) \o AllOf(r)

(* They empty the table and write what they keep again.                    *)
Rebuilding == {"intersection_update", "&=", "difference_update", "symmetric_difference_update", "^="}
Rebuild(s, r) == Done(WriteAll(<< >>, Kept(s, r)))

(* These answer with a new set and leave the old one as it is.             *)
Making == {"union", "intersection", "difference", "symmetric_difference"}
NewSet(s, r) == WriteAll(<< >>, Kept(s, r))

OfSet(s, r, b) ==
  CASE r.op \in {"add"}        -> Put(Done(s), r.item, b)
    [] r.op = "update"         -> PutAll(s, AllOf(r), b)
    [] r.op = "|="             -> Checked(s, PutAll(s, AllOf(r), b))
    [] r.op = "clear"          -> Checked(s, Done(<< >>))
    [] r.op = "pop"            -> Checked(s, PopFirst(s))
    [] r.op = "discard"        -> Checked(s, IF Hashable(r.item) THEN Done(Delete(s, r.item[1])) ELSE Fail(s))
    [] r.op = "remove"         -> Checked(s, IF Hashable(r.item) THEN PopKey(s, r.item) ELSE Fail(s))
    [] r.op = "-="             -> Checked(s, Done(FoldLeft(LAMBDA d, e : Delete(d, e[1]), s, AllOf(r))))
    [] r.op \in Rebuilding     -> Checked(s, IF Refused("set", r) THEN Fail(s) ELSE Rebuild(s, r))
    [] r.op \in Making         -> IF Refused("set", r) THEN Fail(s) ELSE Done(s)

(* ------------------------------------------------------- the operations -- *)
(* A request may name the container itself as its iterable.                *)
Resolved(s, r) == IF r.self THEN [r EXCEPT !.others = << Live(s) >>] ELSE r

Do(s, request, b) ==
  LET r == Resolved(s, request)
  IN  CASE kind = "list" -> OfList(s, r, b)
        [] kind = "dict" -> OfDict(s, r, b)
        [] kind = "set"  -> OfSet(s, r, b)

(* Ghosts of a loop: due, the names of the items it has still to give, and *)
(* touched, what was done to the keys since it began.  Nothing is due once *)
(* keys were both added and removed, or items moved to other slots.        *)
Moving == IF kind = "list" THEN {"insert", "pop", "remove", "clear", "setitem"} ELSE Rebuilding
Both   == {"added", "removed"}
Touched(r, s, t) ==
  CASE r.op \in Moving -> Both
    [] r.op \notin Moving /\ kind = "list" -> {}
    [] OTHER -> (IF KeysIn(Live(t)) \subseteq KeysIn(Live(s)) THEN {} ELSE {"added"})
                  \cup (IF KeysIn(Live(s)) \subseteq KeysIn(Live(t)) THEN {} ELSE {"removed"})
Touch(l, how) == IF l.touched \cup how = Both THEN [l EXCEPT !.touched = Both, !.due = << >>]
                 ELSE [l EXCEPT !.touched = @ \cup how]

(* A statement of the body, or between the loops, operates on the          *)
(* container.  An error ends every loop.                                   *)
Operate(r, b) ==
  LET d == Do(slots, r, b)
  IN  /\ Len(d.slots) <= MaxLength
      /\ slots' = d.slots
      /\ loops' = IF d.out # "ok" THEN << >>
                  ELSE [i \in DOMAIN loops |-> Touch(loops[i], Touched(r, slots, d.slots))]
      /\ UNCHANGED << kind, frozen >>

Call == \E r \in Requests(kind), b \in Budgets : Operate(r, b)

(* ------------------------------------------------------------ the loops -- *)
(* _iterate: the loop holds a live iterator, not a copy.                   *)
Used == IF kind = "list" THEN 0 ELSE Len(Live(slots))   \* a list iterator counts nothing
StartLoop ==
  /\ Len(loops) < MaxLoops
  /\ loops' = Append(loops, [at |-> 0, size |-> Used, left |-> Used,
                             due |-> Names(slots), touched |-> {}])
  /\ UNCHANGED << kind, slots, frozen >>

(* The slots the iterator has still to look at.                            *)
Ahead(l)  == {i \in DOMAIN slots : i > l.at /\ slots[i] # Gap}
NextSlot(l) == CHOOSE i \in Ahead(l) : \A j \in Ahead(l) : i <= j

(* An iterator of a list stops at its end; one of a dict raises when the   *)
(* size is not the one it began with, or when items are left over.         *)
Answer(l) ==
  CASE kind = "list" -> IF Ahead(l) = {} THEN "stop" ELSE "item"
    [] kind # "list" -> IF Used # l.size THEN "changed"
                        ELSE IF Ahead(l) = {} THEN "stop"
                        ELSE IF l.left = 0 THEN "changed" ELSE "item"

Inner == loops[Len(loops)]

NextItem ==
  /\ loops # << >> /\ Answer(Inner) = "item"
  /\ loops' = [loops EXCEPT ![Len(loops)] =
                [@ EXCEPT !.at = NextSlot(Inner), !.left = IF kind = "list" THEN @ ELSE @ - 1,
                          !.due = IF @ = << >> THEN @ ELSE Tail(@)]]
  /\ UNCHANGED << kind, slots, frozen >>

(* The iterator stops, or the body breaks out of the loop.                 *)
EndLoop ==
  /\ loops # << >>
  /\ loops' = SubSeq(loops, 1, Len(loops) - 1)
  /\ UNCHANGED << kind, slots, frozen >>

(* RuntimeError of Python's dict: no part of the evaluator catches it.     *)
Changed ==
  /\ loops # << >> /\ Answer(Inner) = "changed"
  /\ loops' = << >>
  /\ UNCHANGED << kind, slots, frozen >>

(* The module that owns the container ends.                                *)
Freeze ==
  /\ loops = << >> /\ ~frozen
  /\ frozen' = TRUE
  /\ UNCHANGED << kind, slots, loops >>

Init ==
  /\ kind \in Kinds
  /\ slots = << >> /\ frozen = FALSE /\ loops = << >>

Next == Call \/ StartLoop \/ NextItem \/ EndLoop \/ Changed \/ Freeze

Spec == Init /\ [][Next]_vars

(* ---------------------------------------------------------- properties -- *)
(* The operations whose growth is not charged: list.insert, the symmetric  *)
(* difference in place, and += when it runs into the cap.                  *)
Uncharged == {"insert", "^=", "symmetric_difference_update"}

(* Whatever is asked of the container in whatever state, and wherever the  *)
(* heap limit strikes: a success has exactly the effect the language       *)
(* promises, an operation that must fail fails and no other does, a failure *)
(* leaves nothing of it or the items written so far, a frozen container    *)
(* keeps its contents and refuses, and growth has been charged.  A list    *)
(* extended with itself is excepted: the code fails (README, section 7).   *)
(* Looked at between loops: no operation looks at the iterators, and every *)
(* loop may end at any time.                                               *)
Promised(r, d, before, after) ==
  CASE d.out = "ok"    -> ~Fails(kind, r, before, MaxElements) /\ Effect(kind, r, before, after)
    [] d.out = "eval"  -> Fails(kind, r, before, MaxElements) /\ Partial(kind, r, before, after)
    [] d.out = "limit" -> Partial(kind, r, before, after) \/ Effect(kind, r, before, after)

Paid(r, d, before, after) ==
  \/ Len(after) - Len(before) <= d.paid
  \/ r.op \in Uncharged
  \/ r.op = "+=" /\ d.out = "eval"

Keeps(r, d, before, after) ==
  /\ ~frozen => Promised(r, d, before, after) /\ Paid(r, d, before, after)
  /\ frozen /\ d.out = "ok" => after = before /\ Effect(kind, r, before, after)
  /\ frozen => d.out # "limit" /\ after = before
  /\ d.out = "ok" /\ r.op \in Making => MadeOf(r, before, NewSet(slots, r))

SelfExtended(r) == kind = "list" /\ r.self /\ slots # << >>

OperationsKeepPromises ==
  loops = << >> => \A r \in Requests(kind), b \in Budgets :
    LET q == Resolved(slots, r)
        d == Do(slots, r, b)
    IN  SelfExtended(r) \/ Keeps(q, d, Live(slots), Live(d.slots))

(* A loop gives every item that was there when it began, once and in       *)
(* order, and then what was appended; a loop over a dict or a set does, or *)
(* raises.  Excepted are loops whose body both added and removed keys, or  *)
(* moved the items (evaluator.py _iterate hands out the live iterator).    *)
LoopsVisitAll ==
  \A i \in DOMAIN loops :
    LET l == loops[i]
        ahead == Names(SubSeq(slots, l.at + 1, Len(slots)))
    IN  l.touched = Both \/ Answer(l) = "changed"
          \/ /\ Len(l.due) <= Len(ahead)
             /\ \A j \in DOMAIN l.due : ahead[j] = l.due[j]
             /\ kind # "list" => Len(ahead) = Len(l.due)
=============================================================================
