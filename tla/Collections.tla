---------------------------- MODULE Collections ----------------------------
(* What the language promises of the operations on lists, dicts and sets:  *)
(* the contents afterwards, in insertion order, and when the operation     *)
(* fails.  A container is the sequence of its items: << x >> in a list or  *)
(* a set, << key, value >> in a dict.  Nothing here knows how the items    *)
(* are stored, in which order they are written or where an operation may   *)
(* stop.  A request is a record [op, at, item, others]: a method or an     *)
(* operator, its index, its item and the iterables it is given; "merge" is *)
(* dict.update of a dict.                                                  *)
EXTENDS Integers, SequencesExt

CONSTANT Unhashable   \* a value that cannot be a key: a list, a dict, a set

KeysIn(c) == {c[i][1] : i \in DOMAIN c}
At(c, k)  == CHOOSE i \in DOMAIN c : c[i][1] = k /\ \A j \in 1..i - 1 : c[j][1] # k

(* The items of all the iterables, one after the other.                    *)
AllOf(r) == FlattenSeq(r.others)

(* c holds the given keys, each once; those of old in their order there,   *)
(* then the new ones in the order in which items first names them.         *)
Ordered(c, keys, old, items) ==
  LET rank(k) == IF k \in KeysIn(old) THEN At(old, k) ELSE Len(old) + At(items, k)
  IN  /\ KeysIn(c) = keys
      /\ \A i, j \in DOMAIN c : i < j => rank(c[i][1]) < rank(c[j][1])

(* c is old with items written to it: the last value given to a key holds. *)
Written(c, old, items) ==
  /\ Ordered(c, KeysIn(old) \cup KeysIn(items), old, items)
  /\ \A i \in DOMAIN c :
       c[i] = IF c[i][1] \in KeysIn(items)
              THEN items[Len(items) + 1 - At(Reverse(items), c[i][1])]
              ELSE old[At(old, c[i][1])]

(* c is old without some of its keys.                                      *)
Reduced(c, old, keys) == c = SelectSeq(old, LAMBDA e : e[1] \notin keys)

(* A negative index counts from the end.                                   *)
Effective(i, n) == IF i < 0 THEN i + n ELSE i
Clamped(i, n)   == IF Effective(i, n) < 0 THEN 0 ELSE IF Effective(i, n) > n THEN n ELSE Effective(i, n)

Pair(e)       == Len(e) = 2
Hashable(e)   == e[1] # Unhashable
Refused(kind, r) ==
  \/ kind # "list" /\ r.op # "popitem" /\ r.item # << >> /\ ~Hashable(r.item)
  \/ kind # "list" /\ \E i \in DOMAIN AllOf(r) : ~Hashable(AllOf(r)[i])
  \/ kind = "dict" /\ \E i \in DOMAIN AllOf(r) : ~Pair(AllOf(r)[i])

(* When an operation on the container c, not frozen, fails.  max is the    *)
(* largest number of elements a container may have.                        *)
Fails(kind, r, c, max) ==
  \/ Refused(kind, r)
  \/ r.op \in {"pop", "setitem"} /\ kind = "list" /\ Effective(r.at, Len(c)) \notin 0..Len(c) - 1
  \/ r.op = "remove" /\ r.item[1] \notin KeysIn(c)
  \/ r.op = "pop" /\ kind = "dict" /\ r.item[1] \notin KeysIn(c) /\ ~Pair(r.item)
  \/ r.op \in {"pop", "popitem"} /\ (kind = "set" \/ r.op = "popitem") /\ c = << >>
  \/ r.op \in {"extend", "+="} /\ Len(c) + Len(AllOf(r)) > max

(* The contents d that a successful operation makes of c.                  *)
ListEffect(r, c, d) ==
  LET n == Len(c)
      i == Effective(r.at, n)
  IN  CASE r.op = "append"           -> d = Append(c, r.item)
        [] r.op \in {"extend", "+="} -> d = c \o AllOf(r)
        [] r.op = "insert"  -> LET p == Clamped(r.at, n) IN
                               d = SubSeq(c, 1, p) \o << r.item >> \o SubSeq(c, p + 1, n)
        [] r.op = "setitem" -> d = [c EXCEPT ![i + 1] = r.item]
        [] r.op = "pop"     -> d = SubSeq(c, 1, i) \o SubSeq(c, i + 2, n)
        [] r.op = "remove"  -> LET p == At(c, r.item[1]) IN
                               d = SubSeq(c, 1, p - 1) \o SubSeq(c, p + 1, n)
        [] r.op = "clear"   -> d = << >>

DictEffect(r, c, d) ==
  CASE r.op = "setitem"          -> Written(d, c, << r.item >>)
    [] r.op = "setdefault"       -> d = IF r.item[1] \in KeysIn(c) THEN c ELSE Append(c, r.item)
    [] r.op \in {"update", "merge", "|="} -> Written(d, c, AllOf(r))
    [] r.op = "pop"              -> Reduced(d, c, {r.item[1]})
    [] r.op = "popitem"          -> d = Tail(c)
    [] r.op = "clear"            -> d = << >>

(* Set algebra, in place or into a new set.                                *)
Union(r, c, d)        == Written(d, c, AllOf(r))
Intersection(r, c, d) == Reduced(d, c, {k \in KeysIn(c) : \E i \in DOMAIN r.others : k \notin KeysIn(r.others[i])})
Difference(r, c, d)   == Reduced(d, c, KeysIn(AllOf(r)))
Symmetric(r, c, d)    == Ordered(d, (KeysIn(c) \cup KeysIn(AllOf(r))) \ (KeysIn(c) \cap KeysIn(AllOf(r))), c, AllOf(r))

(* What a method that makes a new set answers with.                        *)
MadeOf(r, c, d) == CASE r.op = "union"                -> Union(r, c, d)
                     [] r.op = "intersection"         -> Intersection(r, c, d)
                     [] r.op = "difference"           -> Difference(r, c, d)
                     [] r.op = "symmetric_difference" -> Symmetric(r, c, d)

SetEffect(r, c, d) ==
  CASE r.op = "add"                 -> Written(d, c, << r.item >>)
    [] r.op \in {"discard", "remove"} -> Reduced(d, c, {r.item[1]})
    [] r.op = "pop"                 -> d = Tail(c)
    [] r.op = "clear"               -> d = << >>
    [] r.op \in {"update", "|="}    -> Union(r, c, d)
    [] r.op \in {"intersection_update", "&="} -> Intersection(r, c, d)
    [] r.op \in {"difference_update", "-="}   -> Difference(r, c, d)
    [] r.op \in {"symmetric_difference_update", "^="} -> Symmetric(r, c, d)
    [] OTHER                        -> d = c

Effect(kind, r, c, d) ==
  CASE kind = "list" -> ListEffect(r, c, d)
    [] kind = "dict" -> DictEffect(r, c, d)
    [] kind = "set"  -> SetEffect(r, c, d)

(* What a failing operation may leave behind: nothing of it, or a first    *)
(* part of the items it was to add.                                        *)
Partial(kind, r, c, d) ==
  \/ d = c
  \/ /\ r.op \in {"update", "merge", "|="}
     /\ \E n \in DOMAIN AllOf(r) : Written(d, c, SubSeq(AllOf(r), 1, n))
  \/ /\ r.op = "+="
     /\ \E n \in DOMAIN AllOf(r) : d = c \o SubSeq(AllOf(r), 1, n)
=============================================================================
