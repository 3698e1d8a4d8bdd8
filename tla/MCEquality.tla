---------------------------- MODULE MCEquality -----------------------------
(* Two threads and small heaps that they share.                            *)
EXTENDS Equality

CONSTANTS o, p, q, atom

Obj(kind, items) == [kind |-> kind, items |-> items]
Values   == {o, p, q, atom}
Lists(n) == {Obj("list", i) : i \in [1..n -> Values]}

(* Two lists, each holding a list: [[]] and [[1]] among them.              *)
SharedHeaps == {[x \in {o, p, q} |-> IF x = o THEN a ELSE IF x = p THEN b ELSE c] :
                a \in Lists(1), b \in Lists(1), c \in Lists(0) \cup Lists(1)}
=============================================================================
