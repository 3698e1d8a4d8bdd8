--------------------------- MODULE ScopingProofs ---------------------------
(***************************************************************************)
(* Proofs about Scoping: comprehensions give back the entries they borrow, *)
(* and what a read finds, for any number of modules, names, nesting levels *)
(* and blocks.                                                             *)
(*                                                                         *)
(* The first part is about the blocks alone: B is any sequence of blocks,  *)
(* as blocks only grow.  A path leads from the module's block through the  *)
(* paths of the blocks on it; the dicts used along it are those of its     *)
(* functions, in order.                                                    *)
(***************************************************************************)
EXTENDS Scoping, StackLemmas

PathRight(B, b) ==
  /\ Len(B[b].path) >= 1
  /\ B[b].path[Len(B[b].path)] = b
  /\ \A i \in 1..Len(B[b].path) : B[b].path[i] \in 1..Len(B)
  /\ \A i, j \in 1..Len(B[b].path) : i < j => B[b].path[i] < B[b].path[j]

(* The path of a block on the path is the beginning of the path.           *)
PrefixRight(B, b) ==
  \A i \in 1..Len(B[b].path) :
    /\ Len(B[B[b].path[i]].path) = i
    /\ \A j \in 1..i : B[B[b].path[i]].path[j] = B[b].path[j]

OwnRight(B, b) ==
  /\ \E i \in 1..Len(B[b].path) : B[b].path[i] = B[b].own
  /\ B[B[b].own].own = B[b].own
  /\ \A i \in 1..Len(B[b].path) : B[B[b].path[i]].own <= B[b].own

KindRight(B, b) ==
  /\ B[b].kind = "comprehension" => B[b].own < b
  /\ B[b].kind # "comprehension" => B[b].own = b
  /\ B[b].kind = "module" <=> Len(B[b].path) = 1
  /\ B[b].kind = "module" => B[b].names = Names

Shaped(B) ==
  \A b \in 1..Len(B) :
    PathRight(B, b) /\ PrefixRight(B, b) /\ OwnRight(B, b) /\ KindRight(B, b)

(* BinderOf, and the choice of Copier, in the blocks B.                    *)
Binding(B, b, n) ==
  {i \in DOMAIN B[b].path : i = 1 \/ n \in B[B[b].path[i]].names}

BinderIn(B, b, n) ==
  B[b].path[CHOOSE i \in Binding(B, b, n) : \A j \in Binding(B, b, n) : j <= i]

(* The i-th block on the path is the innermost one that binds n.           *)
BinderAt(B, b, n, i) ==
  /\ i \in 1..Len(B[b].path)
  /\ i = 1 \/ n \in B[B[b].path[i]].names
  /\ \A j \in 1..Len(B[b].path) : i < j => n \notin B[B[b].path[j]].names

Inner(B, b, n) ==
  {i \in DOMAIN B[b].path : /\ B[b].path[i] > BinderIn(B, b, n)
                            /\ B[B[b].path[i]].own # B[BinderIn(B, b, n)].own}

CopierIn(B, b, n) ==
  B[b].path[CHOOSE i \in Inner(B, b, n) : \A j \in Inner(B, b, n) : i <= j]

-----------------------------------------------------------------------------
(* The choices that the definitions make, as values of a CHOOSE.           *)
LEMMA LargestChosen ==
  ASSUME NEW k \in Nat, NEW T, T \subseteq 1..k, T # {}
  PROVE  LET x == CHOOSE i \in T : \A j \in T : j <= i
         IN x \in T /\ (\A y \in T : y <= x)
  <1>1. \E x \in T : \A y \in T : y <= x
    BY Largest
  <1> QED BY <1>1, Zenon

LEMMA LargestIs ==
  ASSUME NEW k \in Nat, NEW T, T \subseteq 1..k, NEW x \in T, \A y \in T : y <= x
  PROVE  (CHOOSE i \in T : \A j \in T : j <= i) = x
  <1> DEFINE z == CHOOSE i \in T : \A j \in T : j <= i
  <1>1. z \in T /\ (\A y \in T : y <= z)
    BY LargestChosen
  <1> HIDE DEF z
  <1>2. z = x
    BY <1>1
  <1> QED BY <1>2 DEF z

LEMMA SmallestChosen ==
  ASSUME NEW k \in Nat, NEW T, T \subseteq 1..k, T # {}
  PROVE  LET x == CHOOSE i \in T : \A j \in T : i <= j
         IN x \in T /\ (\A y \in T : x <= y)
  <1>1. T \subseteq Nat
    OBVIOUS
  <1>2. \E x \in T : \A y \in T : x <= y
    BY <1>1, Smallest
  <1> QED BY <1>2, Zenon

LEMMA SmallestIs ==
  ASSUME NEW k \in Nat, NEW T, T \subseteq 1..k, NEW x \in T, \A y \in T : x <= y
  PROVE  (CHOOSE i \in T : \A j \in T : i <= j) = x
  <1> DEFINE z == CHOOSE i \in T : \A j \in T : i <= j
  <1>1. z \in T /\ (\A y \in T : z <= y)
    BY SmallestChosen
  <1> HIDE DEF z
  <1>2. z = x
    BY <1>1
  <1> QED BY <1>2 DEF z

-----------------------------------------------------------------------------
(* Paths                                                                   *)

LEMMA BlockType ==
  ASSUME NEW B \in Seq(Block), NEW b \in 1..Len(B)
  PROVE  /\ Len(B) \in Nat
         /\ B[b] \in Block
         /\ Len(B[b].path) \in Nat
         /\ DOMAIN B[b].path = 1..Len(B[b].path)
         /\ \A i \in 1..Len(B[b].path) : B[b].path[i] \in Nat
         /\ B[b].own \in Nat
         /\ B[b].names \in SUBSET Names
  <1>1. Len(B) \in Nat /\ B[b] \in Block
    BY LenProperties, ElementOfSeq
  <1>2. B[b].path \in Seq(1..MaxBlocks) /\ B[b].own \in 1..MaxBlocks
        /\ B[b].names \in SUBSET Names
    BY <1>1 DEF Block
  <1>3. /\ Len(B[b].path) \in Nat
        /\ DOMAIN B[b].path = 1..Len(B[b].path)
        /\ \A i \in 1..Len(B[b].path) : B[b].path[i] \in 1..MaxBlocks
    BY <1>2, LenProperties, ElementOfSeq
  <1> QED BY <1>1, <1>2, <1>3, NumbersAssumption

LEMMA PathFacts ==
  ASSUME NEW B \in Seq(Block), Shaped(B), NEW b \in 1..Len(B)
  PROVE  /\ \A i \in 1..Len(B[b].path) : B[b].path[i] <= b
         /\ B[b].own \in 1..Len(B)
         /\ B[b].own <= b
         /\ B[B[b].own].own = B[b].own
         /\ b \in 1..Len(B)
         /\ Len(B[b].path) \in 1..Len(B[b].path)
  <1>1. PathRight(B, b) /\ OwnRight(B, b)
    BY DEF Shaped
  <1>2. /\ Len(B) \in Nat
        /\ Len(B[b].path) \in Nat
        /\ \A i \in 1..Len(B[b].path) : B[b].path[i] \in Nat
    BY BlockType
  <1>3. \A i \in 1..Len(B[b].path) : B[b].path[i] <= b
    BY <1>1, <1>2 DEF PathRight
  <1>4. B[b].own \in 1..Len(B) /\ B[b].own <= b
    BY <1>1, <1>2, <1>3 DEF PathRight, OwnRight
  <1> QED BY <1>1, <1>2, <1>3, <1>4 DEF PathRight, OwnRight

(* Going inwards along a path, dicts follow each other in the order of the *)
(* blocks they belong to.                                                  *)
LEMMA OwnGrows ==
  ASSUME NEW B \in Seq(Block), Shaped(B), NEW b \in 1..Len(B),
         NEW i \in 1..Len(B[b].path), NEW j \in 1..Len(B[b].path), i <= j
  PROVE  B[B[b].path[i]].own <= B[B[b].path[j]].own
  <1> DEFINE c == B[b].path[j]
  <1>1. PathRight(B, b) /\ PrefixRight(B, b)
    BY DEF Shaped
  <1>2. c \in 1..Len(B) /\ Len(B[c].path) = j /\ i \in 1..j
    BY <1>1 DEF PathRight, PrefixRight
  <1>3. B[c].path[i] = B[b].path[i]
    BY <1>1, <1>2 DEF PrefixRight
  <1>4. OwnRight(B, c)
    BY <1>2 DEF Shaped
  <1> QED BY <1>2, <1>3, <1>4 DEF OwnRight

LEMMA PathUnique ==
  ASSUME NEW B \in Seq(Block), Shaped(B), NEW b \in 1..Len(B),
         NEW i \in 1..Len(B[b].path), NEW j \in 1..Len(B[b].path)
  PROVE  /\ B[b].path[i] = B[b].path[j] => i = j
         /\ B[b].path[i] < B[b].path[j] <=> i < j
  <1>1. PathRight(B, b)
    BY DEF Shaped
  <1>2. \A p \in 1..Len(B[b].path) : B[b].path[p] \in Nat
    BY BlockType
  <1> QED BY <1>1, <1>2 DEF PathRight

LEMMA BinderFound ==
  ASSUME NEW B \in Seq(Block), Shaped(B), NEW b \in 1..Len(B), NEW n
  PROVE  \E i \in 1..Len(B[b].path) :
           BinderAt(B, b, n, i) /\ BinderIn(B, b, n) = B[b].path[i]
  <1> DEFINE T == Binding(B, b, n)
             z == CHOOSE i \in T : \A j \in T : j <= i
  <1>1. PathRight(B, b)
    BY DEF Shaped
  <1>2. Len(B[b].path) \in Nat /\ DOMAIN B[b].path = 1..Len(B[b].path)
    BY BlockType
  <1>3. T = {i \in 1..Len(B[b].path) : i = 1 \/ n \in B[B[b].path[i]].names}
    BY <1>2 DEF Binding
  <1>4. 1 \in T
    BY <1>1, <1>2, <1>3 DEF PathRight
  <1>5. T \subseteq 1..Len(B[b].path) /\ T # {}
    BY <1>3, <1>4
  <1>6. z \in T /\ (\A y \in T : y <= z)
    <2> HIDE DEF T
    <2> QED BY <1>2, <1>5, LargestChosen
  <1>7. BinderIn(B, b, n) = B[b].path[z]
    BY DEF BinderIn
  <1> HIDE DEF z
  <1>8. z \in 1..Len(B[b].path) /\ (z = 1 \/ n \in B[B[b].path[z]].names)
    BY <1>3, <1>6
  <1>9. ASSUME NEW j \in 1..Len(B[b].path), z < j, n \in B[B[b].path[j]].names
        PROVE  FALSE
    BY <1>3, <1>6, <1>8, <1>9
  <1> QED BY <1>7, <1>8, <1>9 DEF BinderAt

LEMMA BinderIs ==
  ASSUME NEW B \in Seq(Block), NEW b \in 1..Len(B), NEW n,
         NEW i, BinderAt(B, b, n, i)
  PROVE  BinderIn(B, b, n) = B[b].path[i]
  <1> DEFINE T == Binding(B, b, n)
  <1>1. Len(B[b].path) \in Nat /\ DOMAIN B[b].path = 1..Len(B[b].path)
    BY BlockType
  <1>2. T = {p \in 1..Len(B[b].path) : p = 1 \/ n \in B[B[b].path[p]].names}
    BY <1>1 DEF Binding
  <1>3. i \in T /\ T \subseteq 1..Len(B[b].path)
    BY <1>2 DEF BinderAt
  <1>4. \A p \in T : p <= i
    BY <1>1, <1>2 DEF BinderAt
  <1>5. (CHOOSE p \in T : \A q \in T : q <= p) = i
    <2> HIDE DEF T
    <2> QED BY <1>1, <1>3, <1>4, LargestIs
  <1> QED BY <1>5 DEF BinderIn

LEMMA CopierIs ==
  ASSUME NEW B \in Seq(Block), NEW b \in 1..Len(B), NEW n,
         NEW i \in Inner(B, b, n), \A j \in Inner(B, b, n) : i <= j
  PROVE  CopierIn(B, b, n) = B[b].path[i]
  <1> DEFINE T == Inner(B, b, n)
  <1>1. Len(B[b].path) \in Nat /\ DOMAIN B[b].path = 1..Len(B[b].path)
    BY BlockType
  <1>2. T \subseteq 1..Len(B[b].path) /\ i \in T /\ (\A j \in T : i <= j)
    BY <1>1 DEF Inner
  <1>3. (CHOOSE p \in T : \A q \in T : p <= q) = i
    <2> HIDE DEF T
    <2> QED BY <1>1, <1>2, SmallestIs
  <1> QED BY <1>3 DEF CopierIn

LEMMA CopierFound ==
  ASSUME NEW B \in Seq(Block), NEW b \in 1..Len(B), NEW n, Inner(B, b, n) # {}
  PROVE  \E i \in Inner(B, b, n) :
           /\ CopierIn(B, b, n) = B[b].path[i]
           /\ \A j \in Inner(B, b, n) : i <= j
  <1> DEFINE T == Inner(B, b, n)
             z == CHOOSE i \in T : \A j \in T : i <= j
  <1>1. Len(B[b].path) \in Nat /\ DOMAIN B[b].path = 1..Len(B[b].path)
    BY BlockType
  <1>2. T \subseteq 1..Len(B[b].path) /\ T # {}
    BY <1>1 DEF Inner
  <1>3. z \in T /\ (\A y \in T : z <= y)
    <2> HIDE DEF T
    <2> QED BY <1>1, <1>2, SmallestChosen
  <1>4. CopierIn(B, b, n) = B[b].path[z]
    BY DEF CopierIn
  <1> HIDE DEF z
  <1> QED BY <1>3, <1>4

(* A variable that is not in the dict of b's own: the dict's block refers  *)
(* to it too, has it from the same copy, and no block of that dict on the  *)
(* path binds the name.                                                    *)
LEMMA SameCopy ==
  ASSUME NEW B \in Seq(Block), Shaped(B), NEW b \in 1..Len(B), NEW n,
         B[BinderIn(B, b, n)].own # B[b].own
  PROVE  LET d == B[b].own
         IN /\ BinderIn(B, d, n) = BinderIn(B, b, n)
            /\ CopierIn(B, d, n) = CopierIn(B, b, n)
            /\ n \notin B[d].names
            /\ \A x \in 1..Len(B[b].path) :
                 B[B[b].path[x]].own = d => n \notin B[B[b].path[x]].names
  <1> DEFINE d == B[b].own
             v == BinderIn(B, b, n)
  <1>a. PICK i \in 1..Len(B[b].path) : BinderAt(B, b, n, i) /\ v = B[b].path[i]
    BY BinderFound
  <1>1. /\ v = B[b].path[i]
        /\ i = 1 \/ n \in B[B[b].path[i]].names
        /\ \A j \in 1..Len(B[b].path) : i < j => n \notin B[B[b].path[j]].names
    BY <1>a DEF BinderAt
  <1>2. PathRight(B, b) /\ PrefixRight(B, b) /\ OwnRight(B, b)
    BY DEF Shaped
  <1>3. PICK k \in 1..Len(B[b].path) : B[b].path[k] = d
    BY <1>2 DEF OwnRight
  <1>4. /\ Len(B[b].path) \in Nat
        /\ d \in 1..Len(B) /\ B[d].own = d
        /\ \A x \in 1..Len(B[b].path) : B[B[b].path[x]].own \in Nat
    BY <1>2, PathFacts, BlockType DEF PathRight
  <1>5. B[v].own < d
    BY <1>1, <1>2, <1>4, BlockType DEF OwnRight
  <1>6. \A x \in 1..Len(B[b].path) : B[B[b].path[x]].own = d => i < x
    <2> SUFFICES ASSUME NEW x \in 1..Len(B[b].path), B[B[b].path[x]].own = d, x <= i
                 PROVE  FALSE
      BY <1>4
    <2>1. d <= B[v].own
      BY <1>1, OwnGrows
    <2> QED BY <1>1, <1>4, <1>5, <2>1
  <1>7. i < k /\ n \notin B[d].names
    BY <1>1, <1>3, <1>4, <1>6
  <1>8. Len(B[d].path) = k /\ (\A j \in 1..k : B[d].path[j] = B[b].path[j])
    BY <1>2, <1>3 DEF PrefixRight
  <1>9. BinderIn(B, d, n) = v
    <2>1. i \in 1..Len(B[d].path) /\ B[d].path[i] = v
      BY <1>1, <1>4, <1>7, <1>8
    <2>2. ASSUME NEW j \in 1..Len(B[d].path), i < j
          PROVE  n \notin B[B[d].path[j]].names
      <3>1. j \in 1..k /\ j \in 1..Len(B[b].path)
        BY <1>4, <1>8
      <3>2. B[d].path[j] = B[b].path[j]
        BY <1>8, <3>1
      <3> QED BY <1>1, <2>2, <3>1, <3>2
    <2>3. BinderAt(B, d, n, i)
      BY <1>1, <2>1, <2>2 DEF BinderAt
    <2> HIDE DEF d, v
    <2> QED BY <1>4, <2>1, <2>3, BinderIs
  <1> DEFINE Far(j) == B[b].path[j] > v /\ B[B[b].path[j]].own # B[v].own
  <1>10. /\ Inner(B, b, n) = {j \in 1..Len(B[b].path) : Far(j)}
         /\ Inner(B, d, n) = {j \in 1..k : Far(j)}
    <2>1. DOMAIN B[b].path = 1..Len(B[b].path) /\ DOMAIN B[d].path = 1..k
      BY <1>4, <1>8, BlockType
    <2>2. Inner(B, b, n) = {j \in 1..Len(B[b].path) : Far(j)}
      BY <2>1 DEF Inner
    <2>3. Inner(B, d, n) = {j \in 1..k : B[d].path[j] > v /\ B[B[d].path[j]].own # B[v].own}
      BY <1>9, <2>1 DEF Inner
    <2> QED BY <1>8, <2>2, <2>3
  <1>11. Far(k)
    BY <1>1, <1>3, <1>4, <1>5, <1>7, PathUnique, BlockType
  <1>12. PICK p \in Inner(B, d, n) :
           CopierIn(B, d, n) = B[d].path[p] /\ (\A j \in Inner(B, d, n) : p <= j)
    <2>1. k \in Inner(B, d, n)
      BY <1>10, <1>11
    <2>2. d \in 1..Len(B) /\ Inner(B, d, n) # {}
      BY <1>4, <2>1
    <2> HIDE DEF d, v, Far
    <2> QED BY <2>2, CopierFound
  <1> HIDE DEF Far
  <1>13. p \in 1..k /\ Far(p) /\ p <= k
    BY <1>10, <1>11, <1>12
  <1>14. p \in Inner(B, b, n) /\ (\A j \in Inner(B, b, n) : p <= j)
    BY <1>4, <1>10, <1>12, <1>13
  <1>15. CopierIn(B, b, n) = B[b].path[p]
    BY <1>14, CopierIs
  <1>16. CopierIn(B, d, n) = CopierIn(B, b, n)
    BY <1>8, <1>12, <1>13, <1>15
  <1> QED BY <1>1, <1>6, <1>7, <1>9, <1>16

-----------------------------------------------------------------------------
(* Blocks are only added                                                   *)

LEMMA OldBlocks ==
  ASSUME NEW B \in Seq(Block), Shaped(B), NEW r \in Block, NEW b \in 1..Len(B)
  PROVE  LET C == Append(B, r)
         IN /\ C[b] = B[b]
            /\ PathRight(C, b) /\ PrefixRight(C, b) /\ OwnRight(C, b) /\ KindRight(C, b)
            /\ \A n : BinderIn(C, b, n) = BinderIn(B, b, n)
            /\ \A n : BinderIn(B, b, n) \in 1..Len(B)
            /\ \A n : CopierIn(C, b, n) = CopierIn(B, b, n)
  <1> DEFINE C == Append(B, r)
  <1>1. /\ C \in Seq(Block) /\ Len(C) = Len(B) + 1 /\ Len(B) \in Nat
        /\ \A x \in 1..Len(B) : C[x] = B[x]
    BY PushStack
  <1> HIDE DEF C
  <1>2. PathRight(B, b) /\ PrefixRight(B, b) /\ OwnRight(B, b) /\ KindRight(B, b)
    BY DEF Shaped
  <1>3. /\ C[b] = B[b]
        /\ \A i \in 1..Len(B[b].path) : /\ B[b].path[i] \in 1..Len(B)
                                        /\ B[b].path[i] \in 1..Len(C)
                                        /\ C[B[b].path[i]] = B[B[b].path[i]]
    BY <1>1, <1>2 DEF PathRight
  <1>4. PathRight(C, b) /\ PrefixRight(C, b)
    <2>1. PathRight(C, b)
      BY <1>2, <1>3 DEF PathRight
    <2>2. PrefixRight(C, b)
      BY <1>2, <1>3 DEF PrefixRight
    <2> QED BY <2>1, <2>2
  <1>5. OwnRight(C, b) /\ KindRight(C, b)
    <2>1. B[b].own \in 1..Len(B) /\ C[B[b].own] = B[B[b].own]
      BY <1>1, PathFacts
    <2>2. OwnRight(C, b)
      BY <1>2, <1>3, <2>1 DEF OwnRight
    <2>3. KindRight(C, b)
      BY <1>2, <1>3 DEF KindRight
    <2> QED BY <2>2, <2>3
  <1>6. ASSUME NEW n
        PROVE  /\ BinderIn(C, b, n) = BinderIn(B, b, n)
               /\ BinderIn(B, b, n) \in 1..Len(B)
               /\ CopierIn(C, b, n) = CopierIn(B, b, n)
    <2> DEFINE v == BinderIn(B, b, n)
    <2>1. PICK i \in 1..Len(B[b].path) : BinderAt(B, b, n, i) /\ v = B[b].path[i]
      BY BinderFound
    <2>2. BinderIn(C, b, n) = C[b].path[i]
      <3>1. b \in 1..Len(C) /\ C[b].path = B[b].path
        BY <1>1, <1>3
      <3>2. \A j \in 1..Len(B[b].path) : C[B[b].path[j]].names = B[B[b].path[j]].names
        BY <1>3
      <3>3. BinderAt(C, b, n, i) <=> BinderAt(B, b, n, i)
        BY <2>1, <3>1, <3>2 DEF BinderAt
      <3> QED BY <1>1, <2>1, <3>1, <3>3, BinderIs
    <2>3. BinderIn(C, b, n) = v /\ v \in 1..Len(B)
      BY <1>3, <2>1, <2>2
    <2>4. DOMAIN B[b].path = 1..Len(B[b].path)
      BY BlockType
    <2>5. Inner(C, b, n) = Inner(B, b, n)
      BY <1>1, <1>3, <2>3, <2>4 DEF Inner
    <2> QED BY <1>3, <2>3, <2>5 DEF CopierIn
  <1> QED BY <1>3, <1>4, <1>5, <1>6 DEF C

(* A block r made in block s: a function, or a comprehension, which uses   *)
(* the dict of s.                                                          *)
MadeIn(B, s, r) ==
  /\ r.path = Append(B[s].path, Len(B) + 1)
  /\ r.kind # "module"
  /\ r.own = IF r.kind = "comprehension" THEN B[s].own ELSE Len(B) + 1

LEMMA NewPath ==
  ASSUME NEW B \in Seq(Block), Shaped(B), NEW r \in Block,
         NEW s \in 1..Len(B), MadeIn(B, s, r)
  PROVE  LET C == Append(B, r)
             c == Len(B) + 1
         IN /\ C \in Seq(Block) /\ Len(C) = c /\ C[c] = r
            /\ c \in 1..Len(C) /\ Len(B) \in Nat
            /\ \A x \in 1..Len(B) : C[x] = B[x] /\ x \in 1..Len(C)
            /\ Len(r.path) = Len(B[s].path) + 1
            /\ r.path[Len(r.path)] = c
            /\ \A i \in 1..Len(B[s].path) : r.path[i] = B[s].path[i] /\ i \in 1..Len(r.path)
            /\ \A i \in 1..Len(r.path) : i \in 1..Len(B[s].path) \/ i = Len(r.path)
            /\ \A i \in 1..Len(B[s].path) : r.path[i] \in 1..Len(B)
  <1>1. /\ Append(B, r) \in Seq(Block) /\ Len(Append(B, r)) = Len(B) + 1
        /\ \A x \in 1..Len(B) : Append(B, r)[x] = B[x]
        /\ Append(B, r)[Len(B) + 1] = r /\ Len(B) \in Nat
    BY PushStack
  <1>2. B[s].path \in Seq(Nat)
    <2>1. B[s] \in Block
      BY <1>1, ElementOfSeq
    <2>2. B[s].path \in Seq(1..MaxBlocks) /\ 1..MaxBlocks \subseteq Nat
      BY <2>1, NumbersAssumption DEF Block
    <2> QED BY <2>2, SeqMonotonic
  <1>3. /\ Len(r.path) = Len(B[s].path) + 1
        /\ Len(B[s].path) \in Nat
        /\ \A i \in 1..Len(B[s].path) : r.path[i] = B[s].path[i]
        /\ r.path[Len(B[s].path) + 1] = Len(B) + 1
    <2>1. r.path = Append(B[s].path, Len(B) + 1) /\ Len(B) + 1 \in Nat
      BY <1>1 DEF MadeIn
    <2> QED BY <1>2, <2>1, PushStack
  <1>4. \A i \in 1..Len(r.path) : i \in 1..Len(B[s].path) \/ i = Len(r.path)
    BY <1>3
  <1>5. \A i \in 1..Len(B[s].path) : i \in 1..Len(r.path) /\ B[s].path[i] \in 1..Len(B)
    BY <1>3 DEF Shaped, PathRight
  <1> QED BY <1>1, <1>3, <1>4, <1>5, SMTT(30)

LEMMA NewShape ==
  ASSUME NEW B \in Seq(Block), Shaped(B), NEW r \in Block,
         NEW s \in 1..Len(B), MadeIn(B, s, r)
  PROVE  Shaped(Append(B, r))
  <1> DEFINE C == Append(B, r)
             c == Len(B) + 1
             L == Len(B[s].path)
  <1>1. /\ C \in Seq(Block) /\ Len(C) = c /\ C[c] = r /\ c \in 1..Len(C) /\ Len(B) \in Nat
        /\ \A x \in 1..Len(B) : C[x] = B[x] /\ x \in 1..Len(C)
        /\ Len(r.path) = L + 1 /\ r.path[L + 1] = c
        /\ \A i \in 1..L : r.path[i] = B[s].path[i] /\ i \in 1..Len(r.path)
        /\ \A i \in 1..Len(r.path) : i \in 1..L \/ i = L + 1
        /\ \A i \in 1..L : r.path[i] \in 1..Len(B)
    BY NewPath
  <1>2. /\ PathRight(B, s) /\ PrefixRight(B, s) /\ OwnRight(B, s) /\ KindRight(B, s)
        /\ L \in Nat /\ B[s].own \in Nat /\ s \in Nat /\ L \in 1..L
        /\ B[s].own <= s
        /\ \A i \in 1..L : B[s].path[i] \in Nat
    BY BlockType, PathFacts DEF Shaped
  <1>o. \A b \in 1..Len(B) :
          PathRight(C, b) /\ PrefixRight(C, b) /\ OwnRight(C, b) /\ KindRight(C, b)
    BY OldBlocks
  <1> HIDE DEF C
  <1>3. PathRight(C, c)
    <2>1. \A i \in 1..Len(r.path) : r.path[i] \in 1..Len(C)
      BY <1>1
    <2>2. ASSUME NEW i \in 1..Len(r.path), NEW j \in 1..Len(r.path), i < j
          PROVE  r.path[i] < r.path[j]
      <3>1. i \in 1..L
        BY <1>1, <1>2, <2>2
      <3>2. CASE j \in 1..L
        <4>1. B[s].path[i] < B[s].path[j]
          BY <1>2, <2>2, <3>1, <3>2 DEF PathRight
        <4> QED BY <1>1, <3>1, <3>2, <4>1
      <3>3. CASE j = L + 1
        <4>1. r.path[i] \in 1..Len(B) /\ r.path[j] = Len(B) + 1
          BY <1>1, <3>1, <3>3
        <4> QED BY <1>1, <4>1
      <3> QED BY <1>1, <3>2, <3>3
    <2>3. Len(r.path) >= 1 /\ r.path[Len(r.path)] = c
      BY <1>1, <1>2
    <2> QED BY <1>1, <2>1, <2>2, <2>3 DEF PathRight
  <1>4. PrefixRight(C, c)
    <2> SUFFICES ASSUME NEW i \in 1..Len(r.path)
                 PROVE  /\ Len(C[r.path[i]].path) = i
                        /\ \A j \in 1..i : C[r.path[i]].path[j] = r.path[j]
      BY <1>1, SMTT(30) DEF PrefixRight
    <2>1. CASE i \in 1..L
      <3>1. C[r.path[i]] = B[B[s].path[i]]
        BY <1>1, <2>1
      <3>2. /\ Len(B[B[s].path[i]].path) = i
            /\ \A j \in 1..i : B[B[s].path[i]].path[j] = B[s].path[j]
        BY <1>2, <2>1 DEF PrefixRight
      <3>3. \A j \in 1..i : r.path[j] = B[s].path[j]
        BY <1>1, <1>2, <2>1
      <3> QED BY <3>1, <3>2, <3>3
    <2>2. CASE i = L + 1
      BY <1>1, <2>2
    <2> QED BY <1>1, <2>1, <2>2
  <1>5. OwnRight(C, c)
    <2>1. \A i \in 1..L : C[r.path[i]].own = B[B[s].path[i]].own /\ C[r.path[i]].own <= B[s].own
      BY <1>1, <1>2, SMTT(30) DEF OwnRight
    <2>2. CASE r.kind = "comprehension"
      <3>1. r.own = B[s].own /\ B[s].own \in 1..Len(B)
        BY <2>2, PathFacts DEF MadeIn
      <3>2. C[r.own].own = r.own
        BY <1>1, <1>2, <3>1 DEF OwnRight
      <3>3. \E i \in 1..Len(r.path) : r.path[i] = r.own
        BY <1>1, <1>2, <3>1 DEF OwnRight
      <3>4. \A i \in 1..Len(r.path) : C[r.path[i]].own <= r.own
        BY <1>1, <1>2, <2>1, <3>1
      <3> QED BY <1>1, <3>2, <3>3, <3>4 DEF OwnRight
    <2>3. CASE r.kind # "comprehension"
      <3>1. r.own = c
        BY <2>3 DEF MadeIn
      <3>2. \A i \in 1..L : C[r.path[i]].own \in Nat /\ C[r.path[i]].own <= r.own
        <4> SUFFICES ASSUME NEW i \in 1..L
                     PROVE  C[r.path[i]].own \in Nat /\ C[r.path[i]].own <= r.own
          OBVIOUS
        <4>1. C[r.path[i]] = B[B[s].path[i]] /\ B[s].path[i] \in 1..Len(B)
          BY <1>1
        <4>2. C[r.path[i]].own \in Nat
          BY <4>1, BlockType
        <4>3. s <= Len(B)
          BY <1>1
        <4> QED BY <1>1, <1>2, <2>1, <3>1, <4>2, <4>3, SMTT(30)
      <3>3. \A i \in 1..Len(r.path) : C[r.path[i]].own <= r.own
        BY <1>1, <3>1, <3>2
      <3>4. L + 1 \in 1..Len(r.path) /\ r.path[L + 1] = r.own /\ C[r.own].own = r.own
        BY <1>1, <1>2, <3>1
      <3> QED BY <1>1, <3>3, <3>4 DEF OwnRight
    <2> QED BY <2>2, <2>3
  <1>6. KindRight(C, c)
    BY <1>1, <1>2 DEF KindRight, MadeIn
  <1>7. \A b \in 1..Len(C) : b \in 1..Len(B) \/ b = c
    BY <1>1
  <1>8. Shaped(C)
    BY <1>o, <1>3, <1>4, <1>5, <1>6, <1>7 DEF Shaped
  <1> QED BY <1>8 DEF C

LEMMA ModuleShape ==
  ASSUME NEW B \in Seq(Block), Shaped(B), NEW r \in Block,
         r.path = Append(<< >>, Len(B) + 1), r.kind = "module",
         r.own = Len(B) + 1, r.names = Names
  PROVE  Shaped(Append(B, r))
  <1> DEFINE C == Append(B, r)
             c == Len(B) + 1
  <1>1. /\ C \in Seq(Block) /\ Len(C) = c /\ Len(B) \in Nat /\ C[c] = r
        /\ \A x \in 1..Len(B) : C[x] = B[x]
    BY PushStack
  <1>2. Len(r.path) = 1 /\ r.path[1] = c
    <2>1. << >> \in Seq(Nat) /\ Len(<< >>) = 0 /\ c \in Nat
      BY <1>1, EmptySeq
    <2> QED BY <2>1, PushStack
  <1>3. \A b \in 1..Len(B) :
          PathRight(C, b) /\ PrefixRight(C, b) /\ OwnRight(C, b) /\ KindRight(C, b)
    BY OldBlocks
  <1> HIDE DEF C
  <1>i. /\ \A i \in 1..Len(r.path) : i = 1
        /\ \A j \in 1..1 : j = 1
        /\ 1 \in 1..Len(r.path) /\ c \in 1..Len(C)
    BY <1>1, <1>2
  <1>4. PathRight(C, c) /\ PrefixRight(C, c)
    <2>1. PathRight(C, c)
      <3>1. \A i, j \in 1..Len(r.path) : ~(i < j)
        BY <1>i
      <3>2. \A i \in 1..Len(r.path) : r.path[i] \in 1..Len(C)
        BY <1>2, <1>i
      <3>3. Len(r.path) >= 1 /\ r.path[Len(r.path)] = c /\ C[c] = r
        BY <1>1, <1>2
      <3> HIDE DEF c
      <3> QED BY <3>1, <3>2, <3>3 DEF PathRight
    <2>2. PrefixRight(C, c)
      BY <1>1, <1>2, <1>i DEF PrefixRight
    <2> QED BY <2>1, <2>2
  <1>5. OwnRight(C, c) /\ KindRight(C, c)
    <2>1. OwnRight(C, c)
      <3>1. C[r.path[1]].own <= C[c].own
        BY <1>1, <1>2
      <3> QED BY <1>1, <1>2, <1>i, <3>1 DEF OwnRight
    <2>2. KindRight(C, c)
      BY <1>1, <1>2 DEF KindRight
    <2> QED BY <2>1, <2>2
  <1>6. \A b \in 1..Len(C) : b \in 1..Len(B) \/ b = c
    BY <1>1
  <1>7. Shaped(C)
    BY <1>3, <1>4, <1>5, <1>6 DEF Shaped
  <1> QED BY <1>7 DEF C

(* What a new block binds itself is its own, the rest is as around it.     *)
LEMMA NewBinder ==
  ASSUME NEW B \in Seq(Block), Shaped(B), NEW r \in Block,
         NEW s \in 1..Len(B), MadeIn(B, s, r), NEW n
  PROVE  LET C == Append(B, r)
             c == Len(B) + 1
         IN BinderIn(C, c, n) = IF n \in r.names THEN c ELSE BinderIn(B, s, n)
  <1> DEFINE C == Append(B, r)
             c == Len(B) + 1
             L == Len(B[s].path)
  <1>1. /\ C \in Seq(Block) /\ Len(C) = c /\ C[c] = r /\ c \in 1..Len(C) /\ Len(B) \in Nat
        /\ \A x \in 1..Len(B) : C[x] = B[x] /\ x \in 1..Len(C)
        /\ Len(r.path) = L + 1 /\ r.path[L + 1] = c
        /\ \A i \in 1..L : r.path[i] = B[s].path[i] /\ i \in 1..Len(r.path)
        /\ \A i \in 1..Len(r.path) : i \in 1..L \/ i = L + 1
        /\ \A i \in 1..L : r.path[i] \in 1..Len(B)
    BY NewPath
  <1>2. L \in Nat
    BY BlockType
  <1> HIDE DEF C
  <1>3. CASE n \in r.names
    <2>1. BinderAt(C, c, n, L + 1)
      BY <1>1, <1>2, <1>3 DEF BinderAt
    <2>2. BinderIn(C, c, n) = C[c].path[L + 1]
      BY <1>1, <2>1, BinderIs, SMTT(30)
    <2> QED BY <1>1, <1>3, <2>2 DEF C
  <1>4. CASE n \notin r.names
    <2>1. PICK i \in 1..L : BinderAt(B, s, n, i) /\ BinderIn(B, s, n) = B[s].path[i]
      BY BinderFound
    <2>2. ASSUME NEW j \in 1..Len(r.path), i < j
          PROVE  n \notin C[r.path[j]].names
      <3>1. CASE j \in 1..L
        BY <1>1, <2>1, <2>2, <3>1 DEF BinderAt
      <3>2. CASE j = L + 1
        BY <1>1, <1>4, <3>2
      <3> QED BY <1>1, <3>1, <3>2
    <2>3. BinderAt(C, c, n, i)
      BY <1>1, <2>1, <2>2, SMTT(30) DEF BinderAt
    <2>4. BinderIn(C, c, n) = C[c].path[i]
      BY <1>1, <2>3, BinderIs
    <2> QED BY <1>1, <1>4, <2>1, <2>4 DEF C
  <1> QED BY <1>3, <1>4

(* A variable that is not in the dict of the block around a new function   *)
(* was copied there; the new function copies the others itself.            *)
LEMMA NewCopier ==
  ASSUME NEW B \in Seq(Block), Shaped(B), NEW r \in Block,
         NEW s \in 1..Len(B), MadeIn(B, s, r), r.kind # "comprehension",
         NEW n, n \notin r.names
  PROVE  LET C == Append(B, r)
             c == Len(B) + 1
         IN CopierIn(C, c, n) = IF B[BinderIn(B, s, n)].own = B[s].own
                                THEN c ELSE CopierIn(B, s, n)
  <1> DEFINE C == Append(B, r)
             c == Len(B) + 1
             L == Len(B[s].path)
             v == BinderIn(B, s, n)
  <1>1. /\ C \in Seq(Block) /\ Len(C) = c /\ C[c] = r /\ c \in 1..Len(C) /\ Len(B) \in Nat
        /\ \A x \in 1..Len(B) : C[x] = B[x] /\ x \in 1..Len(C)
        /\ Len(r.path) = L + 1 /\ r.path[L + 1] = c
        /\ \A i \in 1..L : r.path[i] = B[s].path[i] /\ i \in 1..Len(r.path)
        /\ \A i \in 1..Len(r.path) : i \in 1..L \/ i = L + 1
        /\ \A i \in 1..L : r.path[i] \in 1..Len(B)
    BY NewPath
  <1>2. L \in Nat /\ L \in 1..L /\ DOMAIN B[s].path = 1..L
    BY BlockType, PathFacts
  <1>3. BinderIn(C, c, n) = v
    BY NewBinder
  <1>4. PICK i \in 1..L : BinderAt(B, s, n, i) /\ v = B[s].path[i]
    BY BinderFound
  <1>5. v \in 1..Len(B) /\ B[v].own \in 1..Len(B) /\ C[v] = B[v]
    BY <1>1, <1>4, PathFacts, SMTT(30)
  <1>6. r.own = c /\ DOMAIN r.path = 1..Len(r.path)
    <2>1. C[c].own = r.own /\ DOMAIN C[c].path = 1..Len(C[c].path)
      BY <1>1, BlockType
    <2> QED BY <1>1, <2>1 DEF MadeIn
  <1> HIDE DEF C, v
  <1>7. Inner(B, s, n) = {j \in 1..L : B[s].path[j] > v /\ B[B[s].path[j]].own # B[v].own}
    BY <1>2 DEF Inner, v
  <1>8. Inner(C, c, n) = {j \in 1..Len(r.path) : r.path[j] > v /\ C[r.path[j]].own # B[v].own}
    BY <1>1, <1>3, <1>5, <1>6 DEF Inner
  <1>9. \A j \in 1..L : j \in Inner(C, c, n) <=> j \in Inner(B, s, n)
    BY <1>1, <1>7, <1>8, ZenonT(40)
  <1>10. L + 1 \in Inner(C, c, n)
    <2>1. L + 1 \in 1..Len(r.path) /\ c > v /\ C[c].own = c /\ c # B[v].own
      BY <1>1, <1>2, <1>5, <1>6
    <2> QED BY <1>1, <1>8, <2>1
  <1>11. Inner(C, c, n) \subseteq 1..Len(r.path)
    BY <1>8
  <1>12. CASE B[v].own = B[s].own
    <2>1. ASSUME NEW j \in Inner(B, s, n)
          PROVE  FALSE
      <3>1. j \in 1..L /\ B[s].path[j] > v /\ B[B[s].path[j]].own # B[v].own
        BY <1>7
      <3>2. i <= j
        BY <1>4, <3>1, PathUnique, PathFacts, BlockType
      <3>3. B[v].own <= B[B[s].path[j]].own
        BY <1>4, <3>1, <3>2, OwnGrows
      <3>4. B[B[s].path[j]].own <= B[s].own
        BY <3>1 DEF Shaped, OwnRight
      <3>5. B[B[s].path[j]].own \in Nat
        BY <1>1, <3>1, BlockType
      <3> QED BY <1>5, <1>12, <3>1, <3>3, <3>4, <3>5
    <2>2. \A j \in Inner(C, c, n) : L + 1 <= j
      BY <1>1, <1>2, <1>9, <1>11, <2>1
    <2>3. CopierIn(C, c, n) = C[c].path[L + 1]
      <3>1. C \in Seq(Block) /\ c \in 1..Len(C)
        BY <1>1
      <3> HIDE DEF c, L
      <3> QED BY ONLY <1>10, <2>2, <3>1, CopierIs
    <2> QED BY <1>1, <1>12, <2>3 DEF C, v
  <1>13. CASE B[v].own # B[s].own
    <2>1. L \in Inner(B, s, n)
      <3>1. B[s].path[L] = s
        BY DEF Shaped, PathRight
      <3>2. v <= s /\ v # s /\ s \in Nat
        BY <1>1, <1>4, <1>13, PathFacts
      <3> QED BY <1>2, <1>5, <1>7, <1>13, <3>1, <3>2
    <2>2. PICK p \in Inner(B, s, n) :
            CopierIn(B, s, n) = B[s].path[p] /\ (\A j \in Inner(B, s, n) : p <= j)
      BY <2>1, CopierFound
    <2>3. p \in 1..L
      BY <1>7
    <2>4. p \in Inner(C, c, n) /\ (\A j \in Inner(C, c, n) : p <= j)
      BY <1>1, <1>2, <1>9, <1>11, <2>2, <2>3
    <2>5. CopierIn(C, c, n) = C[c].path[p]
      <3>1. C \in Seq(Block) /\ c \in 1..Len(C)
        BY <1>1
      <3> HIDE DEF c, L
      <3> QED BY ONLY <2>4, <3>1, CopierIs
    <2> QED BY <1>1, <1>13, <2>2, <2>3, <2>5 DEF C, v
  <1> QED BY <1>12, <1>13

-----------------------------------------------------------------------------
(* The inductive invariant                                                 *)

TypeOK ==
  /\ binds \in [Levels -> SUBSET Names]
  /\ blocks \in Seq(Block)
  /\ dict \in Seq(Content) /\ Len(dict) = Len(blocks)
  /\ saved \in Seq(Content) /\ Len(saved) = Len(blocks)
  /\ cell \in Seq(Content) /\ Len(cell) = Len(blocks)
  /\ asOf \in Seq(Content) /\ Len(asOf) = Len(blocks)
  /\ stack \in Seq(Nat)

(* Inner blocks are executed later; the dict of a block that is executed   *)
(* belongs to one that is, and the blocks executed in the same dict are    *)
(* nested in each other.                                                   *)
StackRight ==
  /\ \A i \in 1..Len(stack) : stack[i] \in Ids
  /\ \A i, j \in 1..Len(stack) : i < j => stack[i] < stack[j]
  /\ \A i \in 1..Len(stack) : \E j \in 1..i : stack[j] = Own(stack[i])
  /\ \A i \in 1..Len(stack), j \in 1..Len(stack) :
       j <= i /\ Own(stack[j]) = Own(stack[i])
         => \E p \in 1..Len(blocks[stack[i]].path) : blocks[stack[i]].path[p] = stack[j]

CellsRight ==
  \A b \in Ids : \A n \in Names : cell[b][n] # Unbound => n \in blocks[b].names

(* Block d copied n on entry, from the variable that n refers to or from   *)
(* another copy of it.                                                     *)
Copied(d, n) ==
  /\ n \notin bare
  /\ <<d, n>> \notin odd
  /\ blocks[BinderIn(blocks, d, n)].kind # "module"
  /\ n \notin blocks[d].names

(* e is what the code of d itself has for n: its variable or its copy.     *)
Original(d, n, e) ==
  /\ n \in blocks[d].names => e = cell[d][n]
  /\ Copied(d, n) => e = asOf[CopierIn(blocks, d, n)][n]

Using(i, d, n) ==
  /\ blocks[stack[i]].kind = "comprehension"
  /\ Own(stack[i]) = d
  /\ cell[stack[i]][n] # Unbound

(* e is what the dict of d has for n while the first k blocks of the stack *)
(* are executed.                                                           *)
Kept(k, d, n, e) ==
  /\ \A i \in 1..k : Using(i, d, n) /\ (\A j \in (i+1)..k : ~Using(j, d, n))
                       => e = cell[stack[i]][n]
  /\ (\A i \in 1..k : ~Using(i, d, n)) => Original(d, n, e)

EntriesKept ==
  \A d \in Ids : Own(d) = d => \A n \in Names : Kept(Len(stack), d, n, dict[d][n])

(* What a running comprehension will put back is right where it started.   *)
SavedKept ==
  \A i \in 1..Len(stack) :
    blocks[stack[i]].kind = "comprehension" =>
      \A n \in blocks[stack[i]].names : Kept(i - 1, Own(stack[i]), n, saved[stack[i]][n])

(* A variable around a function that is being executed is as it was when   *)
(* the function was called.                                                *)
SeenKept ==
  \A i \in 1..Len(stack) :
    Own(stack[i]) = stack[i] =>
      \A n \in Names \ blocks[stack[i]].names :
        asOf[stack[i]][n] = cell[BinderIn(blocks, stack[i], n)][n]

Scoped ==
  TypeOK /\ Shaped(blocks) /\ StackRight /\ CellsRight /\ EntriesKept /\ SavedKept /\ SeenKept

-----------------------------------------------------------------------------
LEMMA BinderSame ==
  ASSUME NEW b, NEW n
  PROVE  BinderOf(b, n) = BinderIn(blocks, b, n)
  BY DEF BinderOf, BinderIn, Binding

LEMMA IdFacts ==
  ASSUME TypeOK, Shaped(blocks), NEW b \in Ids
  PROVE  /\ Len(blocks) \in Nat /\ b \in Nat
         /\ blocks[b] \in Block
         /\ blocks[b].names \in SUBSET Names
         /\ blocks[b].path \in Seq(1..MaxBlocks)
         /\ Own(b) \in Ids /\ Own(b) <= b /\ Own(Own(b)) = Own(b)
         /\ dict[b] \in Content /\ cell[b] \in Content
         /\ saved[b] \in Content /\ asOf[b] \in Content
         /\ KindRight(blocks, b)
  <1>1. blocks \in Seq(Block) /\ b \in 1..Len(blocks)
    BY DEF TypeOK, Ids
  <1>2. Len(blocks) \in Nat /\ blocks[b] \in Block /\ blocks[b].names \in SUBSET Names
    BY <1>1, BlockType
  <1>3. blocks[b].path \in Seq(1..MaxBlocks)
    BY <1>2 DEF Block
  <1>4. Own(b) \in Ids /\ Own(b) <= b /\ Own(Own(b)) = Own(b)
    BY <1>1, PathFacts DEF Own, Ids
  <1>5. /\ dict[b] \in Content /\ cell[b] \in Content
        /\ saved[b] \in Content /\ asOf[b] \in Content
    BY <1>1, ElementOfSeq DEF TypeOK
  <1> QED BY <1>1, <1>2, <1>3, <1>4, <1>5 DEF Shaped

LEMMA StackFacts ==
  ASSUME TypeOK, Shaped(blocks), StackRight, stack # << >>
  PROVE  /\ Len(stack) \in Nat \ {0} /\ Len(stack) \in 1..Len(stack)
         /\ Top = stack[Len(stack)] /\ Top \in Ids
         /\ \A i \in 1..Len(stack) : stack[i] \in Ids /\ stack[i] <= Top
         /\ \A i \in 1..(Len(stack) - 1) : i \in 1..Len(stack) /\ stack[i] < Top
  <1>1. Len(stack) \in Nat \ {0} /\ Top = stack[Len(stack)]
    BY PopStack DEF TypeOK, Top
  <1>2. \A i \in 1..Len(stack) : stack[i] \in Ids /\ stack[i] \in Nat
    BY ElementOfSeq DEF TypeOK, StackRight
  <1>3. \A i \in 1..(Len(stack) - 1) : i \in 1..Len(stack) /\ stack[i] < Top
    BY <1>1 DEF StackRight
  <1>4. \A i \in 1..Len(stack) : i = Len(stack) \/ i \in 1..(Len(stack) - 1)
    BY <1>1
  <1> QED BY <1>1, <1>2, <1>3, <1>4

(* A name that a function does not bind is bound outside.                  *)
LEMMA BoundOutside ==
  ASSUME TypeOK, Shaped(blocks), NEW b \in Ids, NEW n \in Names, n \notin blocks[b].names
  PROVE  BinderIn(blocks, b, n) \in Ids /\ BinderIn(blocks, b, n) < b
  <1>1. blocks \in Seq(Block) /\ b \in 1..Len(blocks) /\ Len(blocks) \in Nat
    BY IdFacts DEF TypeOK, Ids
  <1>2. PICK i \in 1..Len(blocks[b].path) :
          BinderAt(blocks, b, n, i) /\ BinderIn(blocks, b, n) = blocks[b].path[i]
    BY <1>1, BinderFound
  <1>3. PathRight(blocks, b) /\ KindRight(blocks, b)
    BY <1>1 DEF Shaped
  <1>4. i # Len(blocks[b].path)
    BY <1>2, <1>3 DEF BinderAt, PathRight, KindRight
  <1>5. blocks[b].path[i] # b
    BY <1>1, <1>2, <1>3, <1>4, PathUnique, PathFacts DEF PathRight
  <1>6. blocks[b].path[i] \in 1..Len(blocks) /\ blocks[b].path[i] <= b
    BY <1>1, <1>2, <1>3, PathFacts DEF PathRight
  <1> QED BY <1>1, <1>2, <1>5, <1>6 DEF Ids

-----------------------------------------------------------------------------
(* What entries hold while other things change                             *)

LEMMA KeptStays ==
  ASSUME NEW k \in Nat, k <= Len(stack), Len(stack) \in Nat, NEW d, NEW n, NEW e,
         \A i \in 1..k : /\ stack'[i] = stack[i]
                         /\ blocks'[stack[i]] = blocks[stack[i]],
         \A i \in 1..k : blocks[stack[i]].kind = "comprehension" /\ Own(stack[i]) = d
                           => cell'[stack[i]][n] = cell[stack[i]][n],
         Original(d, n, e) => Original(d, n, e)',
         Kept(k, d, n, e)
  PROVE  Kept(k, d, n, e)'
  <1>1. \A i \in 1..k : Using(i, d, n)' <=> Using(i, d, n)
    BY DEF Using, Own
  <1>2. ASSUME NEW i \in 1..k, Using(i, d, n)', \A j \in (i+1)..k : ~Using(j, d, n)'
        PROVE  e = cell'[stack'[i]][n]
    <2>1. \A j \in (i+1)..k : j \in 1..k
      OBVIOUS
    <2>2. Using(i, d, n) /\ (\A j \in (i+1)..k : ~Using(j, d, n))
      BY <1>1, <1>2, <2>1
    <2>3. e = cell[stack[i]][n]
      BY <2>2 DEF Kept
    <2> QED BY <2>2, <2>3 DEF Using
  <1>3. (\A i \in 1..k : ~Using(i, d, n)') => Original(d, n, e)'
    BY <1>1 DEF Kept
  <1> QED BY <1>2, <1>3 DEF Kept

LEMMA KeptLonger ==
  ASSUME NEW k \in Nat, NEW d, NEW n, NEW e, ~Using(k + 1, d, n)', Kept(k, d, n, e)'
  PROVE  Kept(k + 1, d, n, e)'
  <1>1. ASSUME NEW i \in 1..(k + 1), Using(i, d, n)',
               \A j \in (i+1)..(k + 1) : ~Using(j, d, n)'
        PROVE  e = cell'[stack'[i]][n]
    <2>1. i \in 1..k
      BY <1>1
    <2>2. \A j \in (i+1)..k : j \in (i+1)..(k + 1)
      OBVIOUS
    <2>3. \A j \in (i+1)..k : ~Using(j, d, n)'
      BY <1>1, <2>2
    <2> QED BY <1>1, <2>1, <2>3 DEF Kept
  <1>2. (\A i \in 1..(k + 1) : ~Using(i, d, n)') => Original(d, n, e)'
    BY DEF Kept
  <1> QED BY <1>1, <1>2 DEF Kept

LEMMA KeptShorter ==
  ASSUME NEW k \in Nat, NEW d, NEW n, NEW e, ~Using(k + 1, d, n), Kept(k + 1, d, n, e)
  PROVE  Kept(k, d, n, e)
  <1>1. ASSUME NEW i \in 1..k, Using(i, d, n), \A j \in (i+1)..k : ~Using(j, d, n)
        PROVE  e = cell[stack[i]][n]
    <2>1. \A j \in (i+1)..(k + 1) : j \in (i+1)..k \/ j = k + 1
      OBVIOUS
    <2>2. i \in 1..(k + 1) /\ (\A j \in (i+1)..(k + 1) : ~Using(j, d, n))
      BY <1>1, <2>1
    <2> QED BY <1>1, <2>2 DEF Kept
  <1>2. ASSUME \A i \in 1..k : ~Using(i, d, n)
        PROVE  Original(d, n, e)
    <2>1. \A i \in 1..(k + 1) : i \in 1..k \/ i = k + 1
      OBVIOUS
    <2> QED BY <1>2, <2>1 DEF Kept
  <1> QED BY <1>1, <1>2 DEF Kept

-----------------------------------------------------------------------------
(* Entering a block                                                        *)

(* The block r is the last of all and the innermost one.                   *)
Entered(r, locals, bound, seen, hidden) ==
  /\ blocks' = Append(blocks, r)
  /\ dict'   = Append(dict, locals)
  /\ cell'   = Append(cell, bound)
  /\ asOf'   = Append(asOf, seen)
  /\ saved'  = Append(saved, hidden)
  /\ stack'  = Append(stack, Len(blocks) + 1)
  /\ \A d \in Ids, n \in Names : <<d, n>> \in odd => <<d, n>> \in odd'
  /\ UNCHANGED program

LEMMA Growth ==
  ASSUME TypeOK, NEW r \in Block, NEW locals \in Content, NEW bound \in Content,
         NEW seen \in Content, NEW hidden \in Content,
         Entered(r, locals, bound, seen, hidden)
  PROVE  LET c == Len(blocks) + 1
             k == Len(stack)
         IN /\ TypeOK'
            /\ Len(blocks) \in Nat /\ Len(blocks') = c /\ Ids' = 1..c
            /\ \A b \in Ids' : b \in Ids \/ b = c
            /\ c \notin Ids /\ Ids \subseteq Ids'
            /\ \A b \in Ids : /\ blocks'[b] = blocks[b]
                              /\ dict'[b] = dict[b] /\ saved'[b] = saved[b]
                              /\ cell'[b] = cell[b] /\ asOf'[b] = asOf[b]
            /\ blocks'[c] = r /\ dict'[c] = locals /\ saved'[c] = hidden
            /\ cell'[c] = bound /\ asOf'[c] = seen
            /\ k \in Nat /\ Len(stack') = k + 1 /\ stack'[k + 1] = c
            /\ \A i \in 1..k : stack'[i] = stack[i]
            /\ \A i \in 1..(k + 1) : i \in 1..k \/ i = k + 1
  <1> DEFINE c == Len(blocks) + 1
  <1>1. /\ blocks' \in Seq(Block) /\ Len(blocks') = c /\ Len(blocks) \in Nat
        /\ \A b \in 1..Len(blocks) : blocks'[b] = blocks[b]
        /\ blocks'[c] = r
    BY PushStack DEF TypeOK, Entered
  <1>2. /\ dict' \in Seq(Content) /\ Len(dict') = Len(dict) + 1 /\ Len(dict) = Len(blocks)
        /\ \A b \in 1..Len(dict) : dict'[b] = dict[b]
        /\ dict'[Len(dict) + 1] = locals
    BY PushStack DEF TypeOK, Entered
  <1>3. /\ saved' \in Seq(Content) /\ Len(saved') = Len(saved) + 1 /\ Len(saved) = Len(blocks)
        /\ \A b \in 1..Len(saved) : saved'[b] = saved[b]
        /\ saved'[Len(saved) + 1] = hidden
    BY PushStack DEF TypeOK, Entered
  <1>4. /\ cell' \in Seq(Content) /\ Len(cell') = Len(cell) + 1 /\ Len(cell) = Len(blocks)
        /\ \A b \in 1..Len(cell) : cell'[b] = cell[b]
        /\ cell'[Len(cell) + 1] = bound
    BY PushStack DEF TypeOK, Entered
  <1>5. /\ asOf' \in Seq(Content) /\ Len(asOf') = Len(asOf) + 1 /\ Len(asOf) = Len(blocks)
        /\ \A b \in 1..Len(asOf) : asOf'[b] = asOf[b]
        /\ asOf'[Len(asOf) + 1] = seen
    BY PushStack DEF TypeOK, Entered
  <1>6. /\ stack' \in Seq(Nat) /\ Len(stack') = Len(stack) + 1 /\ Len(stack) \in Nat
        /\ \A i \in 1..Len(stack) : stack'[i] = stack[i]
        /\ stack'[Len(stack) + 1] = c
    <2>1. c \in Nat /\ stack \in Seq(Nat) /\ stack' = Append(stack, c)
      BY <1>1 DEF TypeOK, Entered
    <2> QED BY <2>1, PushStack
  <1>7. TypeOK'
    BY <1>1, <1>2, <1>3, <1>4, <1>5, <1>6 DEF TypeOK, Entered, program
  <1>8. /\ Ids = 1..Len(blocks) /\ Ids' = 1..c /\ c \notin Ids /\ Ids \subseteq Ids'
        /\ \A b \in Ids' : b \in Ids \/ b = c
    BY <1>1 DEF Ids
  <1>9. \A i \in 1..(Len(stack) + 1) : i \in 1..Len(stack) \/ i = Len(stack) + 1
    BY <1>6
  <1> QED BY <1>1, <1>2, <1>3, <1>4, <1>5, <1>6, <1>7, <1>8, <1>9

(* What makes a new block keep the invariant: a function or a module       *)
(* starts with the right entries, a comprehension saves those of the code  *)
(* around it.                                                              *)
Fits(c, r, locals, bound, seen, hidden) ==
  /\ c = Len(blocks) + 1
  /\ \A n \in Names : bound[n] # Unbound => n \in r.names
  /\ r.kind = "comprehension" =>
       /\ stack # << >>
       /\ r.own = Own(Top) /\ r.own \in Ids
       /\ MadeIn(blocks, Top, r)
       /\ \A n \in Names : bound[n] = Unbound
       /\ \A n \in r.names : hidden[n] = dict[r.own][n]
  /\ r.kind # "comprehension" =>
       /\ r.own = c
       /\ \A n \in Names : Original(c, n, locals[n])'
       /\ \A n \in Names \ r.names :
            LET v == BinderIn(blocks', c, n)
            IN v \in Ids /\ seen[n] = cell[v][n]

LEMMA CopierId ==
  ASSUME TypeOK, Shaped(blocks), NEW d \in Ids, Own(d) = d,
         NEW n \in Names, n \notin blocks[d].names
  PROVE  CopierIn(blocks, d, n) \in Ids
  <1> DEFINE v == BinderIn(blocks, d, n)
             L == Len(blocks[d].path)
  <1>1. blocks \in Seq(Block) /\ d \in 1..Len(blocks) /\ d \in Nat
    BY IdFacts DEF TypeOK, Ids
  <1>2. PathRight(blocks, d)
    BY <1>1 DEF Shaped
  <1>3. v \in Ids /\ v < d
    BY BoundOutside
  <1>4. v \in Nat /\ Own(v) \in Nat /\ Own(v) <= v
    <2> HIDE DEF v
    <2>1. Own(v) \in Ids
      BY <1>3, IdFacts
    <2> QED BY <1>3, <2>1, IdFacts
  <1>5. L \in DOMAIN blocks[d].path /\ blocks[d].path[L] = d
    BY <1>1, <1>2, BlockType, PathFacts DEF PathRight
  <1>6. L \in Inner(blocks, d, n)
    BY <1>1, <1>3, <1>4, <1>5 DEF Inner, Own
  <1>7. PICK p \in Inner(blocks, d, n) : CopierIn(blocks, d, n) = blocks[d].path[p]
    BY <1>1, <1>6, CopierFound
  <1>8. p \in 1..L
    BY <1>1, BlockType DEF Inner
  <1> QED BY <1>2, <1>7, <1>8 DEF PathRight, Ids

LEMMA OldOriginal ==
  ASSUME Scoped, NEW r \in Block, NEW locals \in Content, NEW bound \in Content,
         NEW seen \in Content, NEW hidden \in Content,
         Entered(r, locals, bound, seen, hidden),
         NEW d \in Ids, Own(d) = d, NEW n \in Names, NEW e, Original(d, n, e)
  PROVE  Original(d, n, e)'
  <1>1. TypeOK /\ Shaped(blocks) /\ blocks \in Seq(Block) /\ d \in 1..Len(blocks)
    BY DEF Scoped, TypeOK, Ids
  <1>2. blocks'[d] = blocks[d] /\ cell'[d] = cell[d]
    BY <1>1, Growth
  <1>3. ASSUME Copied(d, n)'
        PROVE  e = asOf'[CopierIn(blocks', d, n)][n]
    <2>1. /\ BinderIn(blocks', d, n) = BinderIn(blocks, d, n)
          /\ BinderIn(blocks, d, n) \in Ids
          /\ CopierIn(blocks', d, n) = CopierIn(blocks, d, n)
      BY <1>1, OldBlocks DEF Entered, Ids
    <2>2. blocks'[BinderIn(blocks, d, n)] = blocks[BinderIn(blocks, d, n)]
      BY <1>1, <2>1, Growth
    <2>3. Copied(d, n)
      BY <1>2, <1>3, <2>1, <2>2 DEF Copied, Entered, program
    <2>4. CopierIn(blocks, d, n) \in Ids
      BY <1>1, <2>3, CopierId DEF Copied
    <2>5. asOf'[CopierIn(blocks, d, n)] = asOf[CopierIn(blocks, d, n)]
      BY <1>1, <2>4, Growth
    <2> QED BY <2>1, <2>3, <2>5 DEF Original
  <1> QED BY <1>2, <1>3 DEF Original

(* What an old dict holds does not change.                                 *)
LEMMA OldKept ==
  ASSUME Scoped, NEW r \in Block, NEW locals \in Content, NEW bound \in Content,
         NEW seen \in Content, NEW hidden \in Content,
         Entered(r, locals, bound, seen, hidden),
         NEW d \in Ids, Own(d) = d, NEW n \in Names, NEW e,
         NEW k \in Nat, k <= Len(stack), Kept(k, d, n, e)
  PROVE  Kept(k, d, n, e)'
  <1>1. TypeOK /\ StackRight /\ Len(stack) \in Nat
    BY LenProperties DEF Scoped, TypeOK
  <1>2. \A i \in 1..k : i \in 1..Len(stack) /\ stack[i] \in Ids
    BY <1>1 DEF StackRight
  <1>3. \A i \in 1..k : /\ stack'[i] = stack[i]
                        /\ blocks'[stack[i]] = blocks[stack[i]]
                        /\ cell'[stack[i]] = cell[stack[i]]
    BY <1>1, <1>2, Growth
  <1>4. Original(d, n, e) => Original(d, n, e)'
    BY OldOriginal
  <1> QED BY <1>1, <1>3, <1>4, KeptStays

LEMMA StackGrows ==
  ASSUME Scoped, NEW c, NEW r \in Block, NEW locals \in Content, NEW bound \in Content,
         NEW seen \in Content, NEW hidden \in Content,
         Entered(r, locals, bound, seen, hidden),
         Fits(c, r, locals, bound, seen, hidden), Shaped(blocks')
  PROVE  StackRight'
  <1> DEFINE k == Len(stack)
  <1>1. TypeOK /\ Shaped(blocks) /\ StackRight
    BY DEF Scoped
  <1>2. /\ TypeOK' /\ Len(blocks) \in Nat /\ c = Len(blocks) + 1
        /\ Ids' = 1..c /\ c \notin Ids /\ Ids \subseteq Ids'
        /\ k \in Nat /\ Len(stack') = k + 1 /\ stack'[k + 1] = c
        /\ \A i \in 1..k : stack'[i] = stack[i]
        /\ \A i \in 1..(k + 1) : i \in 1..k \/ i = k + 1
        /\ \A b \in Ids : blocks'[b] = blocks[b]
        /\ blocks'[c] = r
    BY <1>1, Growth DEF Fits
  <1>s. \A i \in 1..k : stack[i] \in Ids
    BY <1>1 DEF StackRight
  <1>3. \A i \in 1..(k + 1) : stack'[i] \in Ids'
    <2>1. c \in Ids'
      BY <1>2
    <2> QED BY <1>2, <1>s, <2>1
  <1>4. ASSUME NEW i \in 1..(k + 1), NEW j \in 1..(k + 1), i < j
        PROVE  stack'[i] < stack'[j]
    <2>1. i \in 1..k
      BY <1>2, <1>4
    <2>2. CASE j \in 1..k
      BY <1>1, <1>2, <1>4, <2>1, <2>2 DEF StackRight
    <2>3. CASE j = k + 1
      <3>1. stack'[i] \in 1..Len(blocks) /\ stack'[j] = Len(blocks) + 1
        BY <1>2, <1>s, <2>1, <2>3 DEF Ids
      <3> QED BY <1>2, <3>1
    <2> QED BY <1>2, <2>2, <2>3
  <1>5. \A i \in 1..k : blocks'[stack'[i]].own = Own(stack[i]) /\ Own(stack[i]) \in Ids
    BY <1>1, <1>2, <1>s, IdFacts DEF Own
  <1>6. CASE r.kind = "comprehension"
    <2>1. /\ stack # << >> /\ r.own = Own(Top) /\ MadeIn(blocks, Top, r)
          /\ k \in 1..k /\ Top = stack[k] /\ Top \in Ids
      BY <1>1, <1>6, StackFacts DEF Fits
    <2>2. ASSUME NEW i \in 1..(k + 1)
          PROVE  \E j \in 1..i : stack'[j] = blocks'[stack'[i]].own
      <3>1. CASE i \in 1..k
        <4>1. PICK j \in 1..i : stack[j] = Own(stack[i])
          BY <1>1, <3>1 DEF StackRight
        <4>2. j \in 1..k
          BY <1>2, <3>1
        <4> QED BY <1>2, <1>5, <3>1, <4>1, <4>2
      <3>2. CASE i = k + 1
        <4>1. PICK j \in 1..k : stack[j] = Own(Top)
          BY <1>1, <2>1 DEF StackRight
        <4>2. blocks'[stack'[i]].own = Own(Top) /\ j \in 1..i
          BY <1>2, <2>1, <3>2 DEF Own
        <4> QED BY <1>2, <4>1, <4>2
      <3> QED BY <1>2, <3>1, <3>2
    <2>3. ASSUME NEW i \in 1..(k + 1), NEW j \in 1..(k + 1), j <= i,
                 blocks'[stack'[j]].own = blocks'[stack'[i]].own
          PROVE  \E p \in 1..Len(blocks'[stack'[i]].path) : blocks'[stack'[i]].path[p] = stack'[j]
      <3>1. CASE i \in 1..k
        <4>1. j \in 1..k
          BY <1>2, <2>3, <3>1
        <4>2. Own(stack[j]) = Own(stack[i])
          BY <1>5, <2>3, <3>1, <4>1
        <4>3. \E p \in 1..Len(blocks[stack[i]].path) : blocks[stack[i]].path[p] = stack[j]
          BY <1>1, <2>3, <3>1, <4>1, <4>2 DEF StackRight
        <4> QED BY <1>2, <1>s, <3>1, <4>1, <4>3
      <3>2. CASE i = k + 1 /\ j \in 1..k
        <4>1. Own(stack[j]) = Own(stack[k]) /\ j <= k
          BY <1>2, <1>5, <2>1, <2>3, <3>2 DEF Own
        <4>2. PICK p \in 1..Len(blocks[Top].path) : blocks[Top].path[p] = stack[j]
          BY <1>1, <2>1, <3>2, <4>1 DEF StackRight
        <4>3. r.path[p] = stack[j] /\ p \in 1..Len(r.path)
          <5>1. Top \in 1..Len(blocks) /\ blocks \in Seq(Block)
            BY <1>1, <1>2, <2>1 DEF TypeOK, Ids
          <5>2. \A q \in 1..Len(blocks[Top].path) :
                  r.path[q] = blocks[Top].path[q] /\ q \in 1..Len(r.path)
            <6> DEFINE T == Top
            <6>1. T \in 1..Len(blocks) /\ MadeIn(blocks, T, r)
              BY <2>1, <5>1
            <6> HIDE DEF T
            <6>2. \A q \in 1..Len(blocks[T].path) :
                    r.path[q] = blocks[T].path[q] /\ q \in 1..Len(r.path)
              BY <1>1, <5>1, <6>1, NewPath
            <6> QED BY <6>2 DEF T
          <5> QED BY <4>2, <5>2
        <4> QED BY <1>2, <3>2, <4>3
      <3>3. CASE i = k + 1 /\ j = k + 1
        <4>1. blocks' \in Seq(Block) /\ c \in 1..Len(blocks') /\ PathRight(blocks', c)
          BY <1>2 DEF Shaped, TypeOK, Ids
        <4>2. Len(r.path) \in 1..Len(r.path) /\ r.path[Len(r.path)] = c
          BY <1>2, <4>1, PathFacts DEF PathRight
        <4> QED BY <1>2, <3>3, <4>2
      <3> QED BY <1>2, <2>3, <3>1, <3>2, <3>3
    <2> QED BY <1>2, <1>3, <1>4, <2>2, <2>3 DEF StackRight, Own
  <1>7. CASE r.kind # "comprehension"
    <2>1. r.own = c
      BY <1>7 DEF Fits
    <2>2. ASSUME NEW i \in 1..(k + 1)
          PROVE  \E j \in 1..i : stack'[j] = blocks'[stack'[i]].own
      <3>1. CASE i \in 1..k
        <4>1. PICK j \in 1..i : stack[j] = Own(stack[i])
          BY <1>1, <3>1 DEF StackRight
        <4>2. j \in 1..k
          BY <1>2, <3>1
        <4> QED BY <1>2, <1>5, <3>1, <4>1, <4>2
      <3>2. CASE i = k + 1
        <4>1. i \in 1..i /\ stack'[i] = c /\ blocks'[stack'[i]].own = c
          BY <1>2, <2>1, <3>2 DEF Own
        <4> QED BY <4>1
      <3> QED BY <1>2, <3>1, <3>2
    <2>3. ASSUME NEW i \in 1..(k + 1), NEW j \in 1..(k + 1), j <= i,
                 blocks'[stack'[j]].own = blocks'[stack'[i]].own
          PROVE  \E p \in 1..Len(blocks'[stack'[i]].path) : blocks'[stack'[i]].path[p] = stack'[j]
      <3>1. CASE i \in 1..k
        <4>1. j \in 1..k
          BY <1>2, <2>3, <3>1
        <4>2. Own(stack[j]) = Own(stack[i])
          BY <1>5, <2>3, <3>1, <4>1
        <4>3. \E p \in 1..Len(blocks[stack[i]].path) : blocks[stack[i]].path[p] = stack[j]
          BY <1>1, <2>3, <3>1, <4>1, <4>2 DEF StackRight
        <4> QED BY <1>2, <1>s, <3>1, <4>1, <4>3
      <3>2. CASE i = k + 1 /\ j \in 1..k
        <4>1. blocks'[stack'[i]].own = c /\ blocks'[stack'[j]].own \in Ids
          BY <1>2, <1>5, <2>1, <3>2 DEF Own
        <4> QED BY <1>2, <2>3, <4>1
      <3>3. CASE i = k + 1 /\ j = k + 1
        <4>1. blocks' \in Seq(Block) /\ c \in 1..Len(blocks') /\ PathRight(blocks', c)
          BY <1>2 DEF Shaped, TypeOK, Ids
        <4>2. Len(r.path) \in 1..Len(r.path) /\ r.path[Len(r.path)] = c
          BY <1>2, <4>1, PathFacts DEF PathRight
        <4> QED BY <1>2, <3>3, <4>2
      <3> QED BY <1>2, <2>3, <3>1, <3>2, <3>3
    <2> QED BY <1>2, <1>3, <1>4, <2>2, <2>3 DEF StackRight, Own
  <1> QED BY <1>6, <1>7

LEMMA EntriesGrow ==
  ASSUME Scoped, NEW c, NEW r \in Block, NEW locals \in Content, NEW bound \in Content,
         NEW seen \in Content, NEW hidden \in Content,
         Entered(r, locals, bound, seen, hidden),
         Fits(c, r, locals, bound, seen, hidden)
  PROVE  EntriesKept'
  <1>k. PICK k : k = Len(stack)
    OBVIOUS
  <1>1. TypeOK /\ Shaped(blocks) /\ StackRight /\ EntriesKept
    BY DEF Scoped
  <1>2. /\ \A b \in Ids' : b \in Ids \/ b = c
        /\ k \in Nat /\ Len(stack') = k + 1 /\ stack'[k + 1] = c
        /\ \A i \in 1..k : stack'[i] = stack[i]
        /\ \A i \in 1..(k + 1) : i \in 1..k \/ i = k + 1
        /\ \A b \in Ids : blocks'[b] = blocks[b] /\ dict'[b] = dict[b]
        /\ blocks'[c] = r /\ cell'[c] = bound /\ dict'[c] = locals /\ c \notin Ids
    BY <1>1, <1>k, Growth DEF Fits
  <1>3. \A i \in 1..k : stack[i] \in Ids /\ blocks[stack[i]].own \in Ids
    BY <1>1, <1>k, IdFacts DEF StackRight, Own
  <1>4. ASSUME NEW d \in Ids, Own(d) = d, NEW n \in Names
        PROVE  Kept(k + 1, d, n, dict[d][n])'
    <2> DEFINE e == dict[d][n]
    <2>1. Kept(k, d, n, e)
      BY <1>1, <1>k, <1>4 DEF EntriesKept
    <2>2. ~Using(k + 1, d, n)'
      <3>1. CASE r.kind = "comprehension"
        BY <1>2, <3>1 DEF Using, Fits
      <3>2. CASE r.kind # "comprehension"
        BY <1>2, <3>2 DEF Using
      <3> QED BY <3>1, <3>2
    <2>3. dict'[d][n] = e
      BY <1>2
    <2> HIDE DEF e
    <2>4. PICK x : x = e
      OBVIOUS
    <2>5. Kept(k, d, n, x)'
      BY <1>2, <1>k, <1>4, <2>1, <2>4, OldKept
    <2>6. Kept(k + 1, d, n, x)'
      BY <1>2, <2>2, <2>5, KeptLonger
    <2> QED BY <2>3, <2>4, <2>6
  <1>5. ASSUME NEW n \in Names, r.kind # "comprehension"
        PROVE  Kept(k + 1, c, n, locals[n])'
    <2>1. \A i \in 1..(k + 1) : ~Using(i, c, n)'
      BY <1>2, <1>3, <1>5 DEF Using, Own
    <2>2. Original(c, n, locals[n])'
      BY <1>5 DEF Fits
    <2> QED BY <2>1, <2>2 DEF Kept
  <1>6. ASSUME NEW d \in Ids', Own(d)' = d, NEW n \in Names
        PROVE  Kept(Len(stack), d, n, dict[d][n])'
    <2>1. CASE d \in Ids
      <3>1. Own(d) = d
        BY <1>2, <1>6, <2>1 DEF Own
      <3> QED BY <1>2, <1>4, <2>1, <3>1
    <2>2. CASE d = c
      <3>1. r.own = c
        BY <1>2, <1>6, <2>2 DEF Own
      <3>2. r.kind # "comprehension"
        BY <1>2, <3>1 DEF Fits
      <3> QED BY <1>2, <1>5, <2>2, <3>2
    <2> QED BY <1>2, <1>6, <2>1, <2>2
  <1> QED BY <1>6 DEF EntriesKept

LEMMA SavedGrow ==
  ASSUME Scoped, NEW c, NEW r \in Block, NEW locals \in Content, NEW bound \in Content,
         NEW seen \in Content, NEW hidden \in Content,
         Entered(r, locals, bound, seen, hidden),
         Fits(c, r, locals, bound, seen, hidden)
  PROVE  SavedKept'
  <1>k. PICK k : k = Len(stack)
    OBVIOUS
  <1>1. TypeOK /\ Shaped(blocks) /\ StackRight /\ EntriesKept /\ SavedKept
    BY DEF Scoped
  <1>2. /\ k \in Nat /\ Len(stack') = k + 1 /\ stack'[k + 1] = c
        /\ \A i \in 1..k : stack'[i] = stack[i]
        /\ \A i \in 1..(k + 1) : i \in 1..k \/ i = k + 1
        /\ \A b \in Ids : blocks'[b] = blocks[b] /\ saved'[b] = saved[b]
        /\ blocks'[c] = r /\ saved'[c] = hidden
    BY <1>1, <1>k, Growth DEF Fits
  <1>3. \A i \in 1..k : /\ stack[i] \in Ids
                        /\ Own(stack[i]) \in Ids /\ Own(Own(stack[i])) = Own(stack[i])
                        /\ blocks[stack[i]].names \in SUBSET Names
    BY <1>1, <1>k, IdFacts DEF StackRight
  <1>4. ASSUME NEW i \in 1..(k + 1), blocks'[stack'[i]].kind = "comprehension",
               NEW n \in blocks'[stack'[i]].names
        PROVE  Kept(i - 1, Own(stack[i]), n, saved[stack[i]][n])'
    <2>1. CASE i \in 1..k
      <3>1. PICK d, x : d = Own(stack[i]) /\ x = saved[stack[i]][n]
        OBVIOUS
      <3>2. blocks'[stack'[i]] = blocks[stack[i]] /\ saved'[stack'[i]] = saved[stack[i]]
        BY <1>2, <1>3, <2>1
      <3>3. Kept(i - 1, d, n, x)
        BY <1>1, <1>k, <1>4, <2>1, <3>1, <3>2 DEF SavedKept
      <3>4. n \in Names /\ i - 1 \in Nat /\ i - 1 <= k
        BY <1>2, <1>3, <1>4, <2>1, <3>2
      <3>5. Kept(i - 1, d, n, x)'
        BY <1>k, <1>3, <2>1, <3>1, <3>3, <3>4, OldKept
      <3>6. Own(stack[i])' = d /\ saved'[stack'[i]][n] = x
        BY <3>1, <3>2 DEF Own
      <3> QED BY <3>5, <3>6
    <2>2. CASE i = k + 1
      <3>1. r.kind = "comprehension" /\ n \in r.names
        BY <1>2, <1>4, <2>2
      <3>2. PICK d, x : d = r.own /\ x = hidden[n]
        OBVIOUS
      <3>3. /\ d = Own(Top) /\ d \in Ids /\ stack # << >>
            /\ x = dict[d][n] /\ n \in Names
        BY <3>1, <3>2 DEF Fits, Block
      <3>4. Own(d) = d
        BY <1>1, <3>3, StackFacts, IdFacts
      <3>5. Kept(k, d, n, x)
        BY <1>1, <1>k, <3>3, <3>4 DEF EntriesKept
      <3>6. Kept(k, d, n, x)'
        BY <1>k, <1>2, <3>3, <3>4, <3>5, OldKept
      <3>7. Own(stack[i])' = d /\ saved'[stack'[i]][n] = x /\ i - 1 = k
        BY <1>2, <2>2, <3>2 DEF Own
      <3> QED BY <3>6, <3>7
    <2> QED BY <1>2, <2>1, <2>2
  <1> QED BY <1>2, <1>4 DEF SavedKept

LEMMA SeenGrows ==
  ASSUME Scoped, NEW c, NEW r \in Block, NEW locals \in Content, NEW bound \in Content,
         NEW seen \in Content, NEW hidden \in Content,
         Entered(r, locals, bound, seen, hidden),
         Fits(c, r, locals, bound, seen, hidden)
  PROVE  SeenKept'
  <1> DEFINE k == Len(stack)
  <1>1. TypeOK /\ Shaped(blocks) /\ StackRight /\ SeenKept /\ blocks \in Seq(Block)
    BY DEF Scoped, TypeOK
  <1>2. /\ k \in Nat /\ Len(stack') = k + 1 /\ stack'[k + 1] = c
        /\ \A i \in 1..k : stack'[i] = stack[i]
        /\ \A i \in 1..(k + 1) : i \in 1..k \/ i = k + 1
        /\ \A b \in Ids : blocks'[b] = blocks[b] /\ cell'[b] = cell[b] /\ asOf'[b] = asOf[b]
        /\ blocks'[c] = r /\ asOf'[c] = seen /\ c \notin Ids /\ c = Len(blocks) + 1
    BY <1>1, Growth DEF Fits
  <1>3. \A i \in 1..k : stack[i] \in Ids
    BY <1>1 DEF StackRight
  <1>4. ASSUME NEW i \in 1..(k + 1), blocks'[stack'[i]].own = stack'[i],
               NEW n \in Names \ blocks'[stack'[i]].names
        PROVE  asOf'[stack'[i]][n] = cell'[BinderIn(blocks', stack'[i], n)][n]
    <2>1. CASE i \in 1..k
      <3>1. asOf[stack[i]][n] = cell[BinderIn(blocks, stack[i], n)][n]
        BY <1>1, <1>2, <1>3, <1>4, <2>1 DEF SeenKept, Own
      <3>2. /\ BinderIn(blocks', stack[i], n) = BinderIn(blocks, stack[i], n)
            /\ BinderIn(blocks, stack[i], n) \in Ids
        BY <1>1, <1>3, <2>1, OldBlocks DEF Entered, Ids
      <3> QED BY <1>2, <1>3, <2>1, <3>1, <3>2
    <2>2. CASE i = k + 1
      <3>1. r.own = c
        BY <1>2, <1>4, <2>2
      <3>2. r.kind # "comprehension"
        BY <1>2, <3>1 DEF Fits
      <3>3. LET v == BinderIn(blocks', c, n)
            IN v \in Ids /\ seen[n] = cell[v][n]
        BY <1>2, <1>4, <2>2, <3>2 DEF Fits
      <3> QED BY <1>2, <2>2, <3>3
    <2> QED BY <1>2, <2>1, <2>2
  <1> QED BY <1>2, <1>4 DEF SeenKept, Own

LEMMA ScopedGrows ==
  ASSUME Scoped, NEW c, NEW r \in Block, NEW locals \in Content, NEW bound \in Content,
         NEW seen \in Content, NEW hidden \in Content,
         Entered(r, locals, bound, seen, hidden),
         Fits(c, r, locals, bound, seen, hidden), Shaped(blocks')
  PROVE  Scoped'
  <1>1. TypeOK' /\ CellsRight'
    <2>1. TypeOK /\ CellsRight
      BY DEF Scoped
    <2> QED BY <2>1, Growth DEF CellsRight, Fits
  <1> QED BY <1>1, StackGrows, EntriesGrow, SavedGrow, SeenGrows DEF Scoped

-----------------------------------------------------------------------------
(* The steps                                                               *)

LEMMA HolderKept ==
  ASSUME TypeOK, Shaped(blocks), StackRight, NEW d, NEW n, NEW e,
         Kept(Len(stack), d, n, e)
  PROVE  /\ Holder(d, n) = d => Original(d, n, e)
         /\ Holder(d, n) # d => e = cell[Holder(d, n)][n]
  <1> DEFINE k == Len(stack)
             T == {i \in DOMAIN stack : /\ blocks[stack[i]].kind = "comprehension"
                                        /\ Own(stack[i]) = d
                                        /\ cell[stack[i]][n] # Unbound}
             z == CHOOSE i \in T : \A j \in T : j <= i
  <1>1. k \in Nat /\ DOMAIN stack = 1..k
    BY LenProperties DEF TypeOK
  <1>2. T = {i \in 1..k : Using(i, d, n)}
    BY <1>1 DEF Using
  <1>3. Holder(d, n) = IF T = {} THEN d ELSE stack[z]
    BY DEF Holder
  <1>4. T # {} => z \in T /\ (\A j \in T : j <= z)
    <2> HIDE DEF T
    <2> QED BY <1>1, <1>2, LargestChosen
  <1> HIDE DEF T, z
  <1>5. CASE T = {}
    BY <1>2, <1>3, <1>5 DEF Kept
  <1>6. CASE T # {}
    <2>1. z \in 1..k /\ Using(z, d, n)
      BY <1>2, <1>4, <1>6
    <2>2. \A j \in (z+1)..k : j \in 1..k /\ ~(j <= z)
      BY <1>1, <2>1
    <2>3. \A j \in (z+1)..k : ~Using(j, d, n)
      BY <1>2, <1>4, <1>6, <2>2
    <2>4. e = cell[stack[z]][n]
      BY <2>1, <2>3 DEF Kept
    <2>5. stack[z] # d
      <3>1. stack[z] \in Ids
        BY <2>1 DEF StackRight
      <3> QED BY <2>1, <3>1, IdFacts DEF Using, KindRight, Own
    <2> QED BY <1>3, <1>6, <2>4, <2>5
  <1> QED BY <1>5, <1>6

LEMMA EmptyType == Empty \in Content
  BY DEF Empty, Content

LEMMA ExecStep ==
  ASSUME Scoped, NEW m \in Modules, Exec(m)
  PROVE  Scoped'
  <1>c. PICK c, E : c = Len(blocks) + 1 /\ E = Empty
    OBVIOUS
  <1> DEFINE r == [kind |-> "module", module |-> m, names |-> Names, level |-> 0,
                   path |-> Append(<< >>, c), own |-> c]
  <1>1. TypeOK /\ Shaped(blocks) /\ blocks \in Seq(Block)
    BY DEF Scoped, TypeOK
  <1>2. c \in 1..MaxBlocks /\ "module" \in Kinds /\ Len(blocks) \in Nat
    BY <1>1, <1>c, NumbersAssumption, LenProperties DEF Exec, Enter
  <1>3. r \in Block
    <2>1. << >> \in Seq(1..MaxBlocks)
      BY EmptySeq
    <2>2. Append(<< >>, c) \in Seq(1..MaxBlocks)
      BY <1>2, <2>1, PushStack
    <2> QED BY <1>2, <2>2 DEF Block
  <1>4. Entered(r, E, E, E, E)
    BY <1>c DEF Exec, Enter, Entered
  <1>5. Shaped(blocks')
    <2>1. blocks' = Append(blocks, r)
      BY <1>4 DEF Entered
    <2>2. /\ r.path = Append(<< >>, Len(blocks) + 1) /\ r.kind = "module"
          /\ r.own = Len(blocks) + 1 /\ r.names = Names
      BY <1>c
    <2> HIDE DEF r
    <2> QED BY <1>1, <1>3, <2>1, <2>2, ModuleShape
  <1>6. E \in Content /\ (\A n \in Names : E[n] = Unbound)
    BY <1>c, EmptyType DEF Empty
  <1>7. Fits(c, r, E, E, E, E)
    <2>1. blocks'[c] = r /\ cell'[c] = E
      <3> HIDE DEF r
      <3> QED BY <1>1, <1>3, <1>4, <1>6, <1>c, Growth
    <2>2. \A n \in Names : Original(c, n, E[n])'
      BY <2>1 DEF Original, Copied
    <2> QED BY <1>c, <1>6, <2>2 DEF Fits
  <1> HIDE DEF r
  <1> QED BY <1>3, <1>4, <1>5, <1>6, <1>7, ScopedGrows

LEMMA StartCompStep ==
  ASSUME Scoped, NEW ns \in SUBSET Names, StartComp(ns)
  PROVE  Scoped'
  <1>c. PICK c, E, t : c = Len(blocks) + 1 /\ E = Empty /\ t = Top
    OBVIOUS
  <1>h. PICK hidden, old :
          /\ hidden = [n \in Names |-> IF n \in ns THEN dict[Own(Top)][n] ELSE Unbound]
          /\ old = blocks[Top]
    OBVIOUS
  <1> DEFINE r == [kind |-> "comprehension", module |-> old.module, names |-> ns,
                   level |-> old.level, path |-> Append(old.path, c), own |-> old.own]
  <1>1. TypeOK /\ Shaped(blocks) /\ blocks \in Seq(Block) /\ StackRight
    BY DEF Scoped, TypeOK
  <1>2. /\ c \in 1..MaxBlocks /\ "comprehension" \in Kinds /\ Len(blocks) \in Nat
        /\ stack # << >>
    BY <1>1, <1>c, NumbersAssumption, LenProperties DEF StartComp, Enter
  <1>3. t \in Ids /\ t \in 1..Len(blocks) /\ old = blocks[t] /\ old \in Block
        /\ old.own = Own(t) /\ Own(t) \in Ids /\ dict[Own(t)] \in Content
    BY <1>1, <1>2, <1>c, <1>h, StackFacts, IdFacts DEF Ids, Own
  <1>4. r \in Block
    <2>1. old.path \in Seq(1..MaxBlocks)
      BY <1>3 DEF Block
    <2>2. Append(old.path, c) \in Seq(1..MaxBlocks)
      BY <1>2, <2>1, PushStack
    <2> QED BY <1>2, <1>3, <2>2 DEF Block
  <1>5. Entered(r, E, E, E, hidden)
    BY <1>c, <1>h, <1>3 DEF StartComp, Enter, Entered, Own
  <1>6. MadeIn(blocks, t, r)
    BY <1>c, <1>3 DEF MadeIn
  <1>7. Shaped(blocks')
    <2>1. blocks' = Append(blocks, r)
      BY <1>5 DEF Entered
    <2> HIDE DEF r
    <2> QED BY <1>1, <1>3, <1>4, <1>6, <2>1, NewShape
  <1>8. E \in Content /\ (\A n \in Names : E[n] = Unbound)
    BY <1>c, EmptyType DEF Empty
  <1>9. hidden \in Content
    BY <1>c, <1>h, <1>3 DEF Content
  <1>10. Fits(c, r, E, E, E, hidden)
    BY <1>c, <1>h, <1>2, <1>3, <1>6, <1>8 DEF Fits
  <1> HIDE DEF r
  <1> QED BY <1>4, <1>5, <1>7, <1>8, <1>9, <1>10, ScopedGrows

(* What a new function copies: the variable of the block around it, which  *)
(* is in that block's dict, or that dict's own copy of one further out.    *)
LEMMA CopyRight ==
  ASSUME Scoped, NEW c, c = Len(blocks) + 1, NEW r \in Block, NEW s \in Ids,
         MadeIn(blocks, s, r), r.kind # "comprehension",
         NEW locals \in Content, NEW bound \in Content, NEW seen \in Content,
         Entered(r, locals, bound, seen, Empty),
         NEW n \in Names, n \notin r.names,
         seen[n] = cell[BinderOf(s, n)][n],
         locals[n] = dict[Own(s)][n],
         ~IsGlobal(s, n),
         Holder(Own(s), n) = Referent(s, n), <<Own(s), n>> \notin odd, n \notin bare
  PROVE  locals[n] = asOf'[CopierIn(blocks', c, n)][n]
  <1>d. PICK d, v, e : d = Own(s) /\ v = BinderIn(blocks, s, n) /\ e = dict[d][n]
    OBVIOUS
  <1>1. /\ TypeOK /\ Shaped(blocks) /\ StackRight /\ EntriesKept
        /\ blocks \in Seq(Block) /\ s \in 1..Len(blocks)
        /\ blocks' = Append(blocks, r)
    BY DEF Scoped, TypeOK, Ids, Entered
  <1>2. d \in Ids /\ Own(d) = d
    BY <1>1, <1>d, IdFacts
  <1>3. v = BinderOf(s, n) /\ v \in Ids /\ blocks[v].kind # "module"
    BY <1>1, <1>d, BinderSame, OldBlocks DEF IsGlobal, Ids
  <1>4. asOf'[c] = seen /\ (\A b \in Ids : asOf'[b] = asOf[b])
    BY <1>1, EmptyType, Growth
  <1>5. Kept(Len(stack), d, n, e)
    BY <1>1, <1>2, <1>d DEF EntriesKept
  <1>6. /\ Holder(d, n) = d => Original(d, n, e)
        /\ Holder(d, n) # d => e = cell[Holder(d, n)][n]
    BY <1>1, <1>5, HolderKept
  <1>7. CopierIn(blocks', c, n) = IF Own(v) = d THEN c ELSE CopierIn(blocks, s, n)
    BY <1>1, <1>d, NewCopier DEF Own
  <1>8. CASE Own(v) = d
    <2>1. Holder(d, n) = v
      BY <1>3, <1>8, <1>d DEF Referent
    <2>2. e = cell[v][n]
      <3>1. CASE v = d
        <4>1. PICK i \in 1..Len(blocks[s].path) :
                BinderAt(blocks, s, n, i) /\ v = blocks[s].path[i]
          BY <1>1, <1>d, BinderFound
        <4>2. i # 1
          <5>1. Len(blocks[v].path) = i
            BY <1>1, <4>1 DEF Shaped, PrefixRight
          <5> QED BY <1>3, <1>1, <5>1, IdFacts DEF KindRight
        <4>3. n \in blocks[d].names
          BY <3>1, <4>1, <4>2 DEF BinderAt
        <4> QED BY <1>6, <2>1, <3>1, <4>3 DEF Original
      <3>2. CASE v # d
        BY <1>6, <2>1, <3>2
      <3> QED BY <3>1, <3>2
    <2> QED BY <1>3, <1>4, <1>7, <1>8, <1>d, <2>2
  <1>9. CASE Own(v) # d
    <2>1. Original(d, n, e)
      BY <1>3, <1>6, <1>9, <1>d DEF Referent
    <2>2. /\ BinderIn(blocks, d, n) = v
          /\ CopierIn(blocks, d, n) = CopierIn(blocks, s, n)
          /\ n \notin blocks[d].names
      BY <1>1, <1>9, <1>d, SameCopy DEF Own
    <2>3. Copied(d, n)
      BY <1>3, <1>d, <2>2 DEF Copied
    <2>4. CopierIn(blocks, d, n) \in Ids
      BY <1>1, <1>2, <2>2, CopierId
    <2>5. e = asOf[CopierIn(blocks, d, n)][n]
      BY <2>1, <2>3 DEF Original
    <2> QED BY <1>4, <1>7, <1>9, <1>d, <2>2, <2>4, <2>5
  <1> QED BY <1>8, <1>9

LEMMA CallStep ==
  ASSUME Scoped, NEW s \in Ids, NEW kind \in {"function", "lambda"}, NEW v \in Values,
         Call(s, kind, v)
  PROVE  Scoped'
  <1>c. PICK c, l, free, old, E :
          /\ c = Len(blocks) + 1 /\ old = blocks[s] /\ l = old.level + 1
          /\ free = Free(s, l) /\ E = Empty
    OBVIOUS
  <1>n. PICK names : names = binds[l]
    OBVIOUS
  <1>a. PICK args :
          args = [n \in Names |-> IF kind = "lambda" /\ n \in names THEN v ELSE Unbound]
    OBVIOUS
  <1>s. PICK seen, locals :
          /\ seen = [n \in Names |-> cell[BinderOf(s, n)][n]]
          /\ locals = [n \in Names |-> IF n \in free THEN dict[Own(s)][n] ELSE args[n]]
    OBVIOUS
  <1> DEFINE r == [kind |-> kind, module |-> old.module, names |-> names, level |-> l,
                   path |-> Append(old.path, c), own |-> c]
  <1>1. /\ TypeOK /\ Shaped(blocks) /\ blocks \in Seq(Block) /\ s \in 1..Len(blocks)
        /\ Len(blocks) \in Nat
    BY LenProperties DEF Scoped, TypeOK, Ids
  <1>2. /\ c \in 1..MaxBlocks /\ kind \in Kinds /\ l \in Levels
        /\ stack # << >>
    BY <1>1, <1>c, NumbersAssumption DEF Call, Enter
  <1>3. old \in Block /\ Own(s) \in Ids /\ dict[Own(s)] \in Content
        /\ names \in SUBSET Names
    BY <1>1, <1>2, <1>c, <1>n, IdFacts DEF TypeOK
  <1>4. r \in Block
    <2>1. old.path \in Seq(1..MaxBlocks) /\ old.module \in Modules
      BY <1>3 DEF Block
    <2>2. Append(old.path, c) \in Seq(1..MaxBlocks)
      BY <1>2, <2>1, PushStack
    <2> QED BY <1>2, <1>3, <2>1, <2>2 DEF Block
  <1>5. args \in Content /\ locals \in Content /\ E \in Content
    <2>1. args \in Content
      BY <1>a DEF Content
    <2> QED BY <1>3, <1>c, <1>s, <2>1, EmptyType DEF Content
  <1>6. \A n \in Names : /\ BinderIn(blocks, s, n) = BinderOf(s, n)
                         /\ BinderOf(s, n) \in Ids
    BY <1>1, BinderSame, OldBlocks, <1>4 DEF Ids
  <1>7. seen \in Content
    BY <1>1, <1>6, <1>s, IdFacts DEF Content
  <1>8. Entered(r, locals, args, seen, E)
    BY <1>a, <1>c, <1>n, <1>s DEF Call, Enter, Entered
  <1>9. MadeIn(blocks, s, r) /\ r.kind # "comprehension"
    BY <1>c DEF MadeIn
  <1>10. odd' = odd \cup {<<c, n>> : n \in {k \in free :
                   Holder(Own(s), k) # Referent(s, k) \/ <<Own(s), k>> \in odd}}
    BY <1>c DEF Call
  <1> HIDE DEF r
  <1>f. /\ r.names = names /\ r.own = c /\ r.kind # "module"
        /\ \A n : n \in free <=> n \in Names \ (names \cup bare) /\ ~IsGlobal(s, n)
    BY <1>c, <1>n, <1>9 DEF Free, MadeIn, r
  <1>11. Shaped(blocks')
    <2>1. blocks' = Append(blocks, r)
      BY <1>8 DEF Entered
    <2> QED BY <1>1, <1>4, <1>9, <2>1, NewShape
  <1>12. /\ blocks'[c] = r /\ cell'[c] = args
         /\ \A b \in Ids : blocks'[b] = blocks[b]
    BY <1>1, <1>4, <1>5, <1>7, <1>8, <1>c, Growth
  <1>13. \A n \in Names \ names : BinderIn(blocks', c, n) = BinderOf(s, n)
    BY <1>1, <1>4, <1>6, <1>8, <1>9, <1>c, <1>f, NewBinder DEF Entered
  <1>14. ASSUME NEW n \in Names
         PROVE  Original(c, n, locals[n])'
    <2>1. n \in blocks'[c].names => locals[n] = cell'[c][n]
      BY <1>12, <1>f, <1>s
    <2>2. ASSUME Copied(c, n)'
          PROVE  locals[n] = asOf'[CopierIn(blocks', c, n)][n]
      <3>1. n \notin names /\ n \notin bare /\ <<c, n>> \notin odd'
        BY <1>8, <1>12, <1>f, <2>2 DEF Copied, Entered, program
      <3>2. ~IsGlobal(s, n)
        BY <1>6, <1>12, <1>13, <2>2, <3>1 DEF Copied, IsGlobal
      <3>3. n \in free
        BY <1>f, <3>1, <3>2
      <3>4. Holder(Own(s), n) = Referent(s, n) /\ <<Own(s), n>> \notin odd
        BY <1>10, <3>1, <3>3
      <3>5. locals[n] = dict[Own(s)][n] /\ seen[n] = cell[BinderOf(s, n)][n]
        BY <1>s, <3>3
      <3> QED BY <1>4, <1>5, <1>7, <1>8, <1>9, <1>c, <1>f, <3>1, <3>2, <3>4, <3>5, CopyRight
    <2> QED BY <2>1, <2>2 DEF Original
  <1>15. Fits(c, r, locals, args, seen, E)
    <2>1. \A n \in Names : args[n] # Unbound => n \in r.names
      BY <1>a, <1>f
    <2>2. \A n \in Names \ r.names : LET b == BinderIn(blocks', c, n)
                                     IN b \in Ids /\ seen[n] = cell[b][n]
      BY <1>6, <1>13, <1>f, <1>s
    <2> QED BY <1>9, <1>14, <1>c, <1>f, <2>1, <2>2 DEF Fits
  <1> QED BY <1>4, <1>5, <1>7, <1>8, <1>11, <1>15, ScopedGrows

(* Top assigns its variable n0: the entry in the dict and the reference's  *)
(* cell.                                                                   *)
LEMMA WriteStep ==
  ASSUME Scoped, stack # << >>, NEW n0 \in Names, NEW v \in Values,
         n0 \in blocks[Top].names,
         dict' = [dict EXCEPT ![Own(Top)][n0] = v],
         cell' = [cell EXCEPT ![Top][n0] = v],
         UNCHANGED <<program, blocks, saved, stack, asOf, odd>>
  PROVE  Scoped'
  <1>p. PICK k, t, d0 : k = Len(stack) /\ t = Top /\ d0 = Own(t)
    OBVIOUS
  <1>1. /\ TypeOK /\ Shaped(blocks) /\ StackRight /\ CellsRight
        /\ EntriesKept /\ SavedKept /\ SeenKept
    BY DEF Scoped
  <1>2. /\ k \in Nat \ {0} /\ k \in 1..k /\ t = stack[k] /\ t \in Ids
        /\ \A i \in 1..k : stack[i] \in Ids /\ stack[i] <= t
        /\ \A i \in 1..(k - 1) : stack[i] < t
    BY <1>1, <1>p, StackFacts
  <1>3. d0 \in Ids /\ Own(d0) = d0 /\ d0 <= t /\ t \in Nat
        /\ (blocks[t].kind = "comprehension" => d0 < t)
        /\ (blocks[t].kind # "comprehension" => d0 = t)
    BY <1>1, <1>2, <1>p, IdFacts DEF KindRight, Own
  <1>4. /\ dict \in Seq(Content) /\ cell \in Seq(Content)
        /\ DOMAIN dict = Ids /\ DOMAIN cell = Ids
        /\ dict[d0] \in Content /\ cell[t] \in Content
    BY <1>1, <1>2, <1>3, LenProperties, IdFacts DEF TypeOK, Ids
  <1>5. /\ dict' \in Seq(Content) /\ Len(dict') = Len(dict)
        /\ \A b \in Ids : dict'[b] = IF b = d0 THEN [dict[d0] EXCEPT ![n0] = v] ELSE dict[b]
    <2>w. PICK w : w = [dict[d0] EXCEPT ![n0] = v]
      OBVIOUS
    <2>1. w \in Content
      BY <1>4, <2>w DEF Content
    <2>2. dict' = [dict EXCEPT ![d0] = w]
      BY <1>p, <2>w
    <2>3. d0 \in 1..Len(dict) /\ (\A b \in Ids : b \in 1..Len(dict))
      BY <1>1, <1>3 DEF TypeOK, Ids
    <2>4. dict \in Seq(Content)
      BY <1>4
    <2>5. LET s == [dict EXCEPT ![d0] = w]
          IN /\ s \in Seq(Content) /\ Len(s) = Len(dict)
             /\ \A j \in 1..Len(dict) : s[j] = IF j = d0 THEN w ELSE dict[j]
      BY <2>1, <2>3, <2>4, ExceptSeq
    <2> QED BY <2>w, <2>2, <2>3, <2>5
  <1>6. /\ cell' \in Seq(Content) /\ Len(cell') = Len(cell)
        /\ \A b \in Ids : cell'[b] = IF b = t THEN [cell[t] EXCEPT ![n0] = v] ELSE cell[b]
    <2>w. PICK w : w = [cell[t] EXCEPT ![n0] = v]
      OBVIOUS
    <2>1. w \in Content
      BY <1>4, <2>w DEF Content
    <2>2. cell' = [cell EXCEPT ![t] = w]
      BY <1>p, <2>w
    <2>3. t \in 1..Len(cell) /\ (\A b \in Ids : b \in 1..Len(cell))
      BY <1>1, <1>2 DEF TypeOK, Ids
    <2>4. cell \in Seq(Content)
      BY <1>4
    <2>5. LET s == [cell EXCEPT ![t] = w]
          IN /\ s \in Seq(Content) /\ Len(s) = Len(cell)
             /\ \A j \in 1..Len(cell) : s[j] = IF j = t THEN w ELSE cell[j]
      BY <2>1, <2>3, <2>4, ExceptSeq
    <2> QED BY <2>w, <2>2, <2>3, <2>5
  <1>7. TypeOK' /\ Shaped(blocks)' /\ StackRight'
    BY <1>1, <1>5, <1>6 DEF TypeOK, StackRight, Ids, Own, program
  <1>8. /\ \A b \in Ids, n \in Names :
             cell'[b][n] = IF b = t /\ n = n0 THEN v ELSE cell[b][n]
        /\ \A b \in Ids, n \in Names :
             dict'[b][n] = IF b = d0 /\ n = n0 THEN v ELSE dict[b][n]
    BY <1>4, <1>5, <1>6 DEF Content
  <1>9. CellsRight'
    BY <1>1, <1>8, <1>p DEF CellsRight, Ids
  <1>10. ASSUME NEW d \in Ids, Own(d) = d, NEW n \in Names, NEW e, NEW i \in Nat,
                i <= k, Kept(i, d, n, e),
                d = t => n # n0, i = k /\ d = d0 => n # n0
         PROVE  Kept(i, d, n, e)'
    <2>1. \A j \in 1..i : j \in 1..k
      BY <1>2, <1>10
    <2>2. ASSUME NEW j \in 1..i, blocks[stack[j]].kind = "comprehension", Own(stack[j]) = d
          PROVE  cell'[stack[j]][n] = cell[stack[j]][n]
      <3>1. CASE j = k
        <4>1. i = k /\ d = d0
          BY <1>2, <1>10, <1>p, <2>2, <3>1
        <4> QED BY <1>2, <1>8, <1>10, <2>1, <4>1
      <3>2. CASE j # k
        <4>1. stack[j] < t /\ stack[j] \in Ids
          BY <1>2, <2>1, <3>2
        <4> QED BY <1>3, <1>8, <4>1
      <3> QED BY <3>1, <3>2
    <2>3. ASSUME Original(d, n, e)
          PROVE  Original(d, n, e)'
      <3>1. Copied(d, n)' <=> Copied(d, n)
        BY DEF Copied, program
      <3>2. n \in blocks[d].names => e = cell'[d][n]
        BY <1>8, <1>10, <2>3 DEF Original
      <3> QED BY <2>3, <3>1, <3>2 DEF Original
    <2> QED BY <1>2, <1>10, <1>p, <2>1, <2>2, <2>3, KeptStays
  <1>11. ASSUME NEW d \in Ids, Own(d) = d, NEW n \in Names
         PROVE  Kept(k, d, n, dict[d][n])'
    <2>x. PICK x : x = dict'[d][n]
      OBVIOUS
    <2>1. CASE ~(d = d0 /\ n = n0)
      <3>1. x = dict[d][n]
        BY <1>8, <2>x, <2>1
      <3>2. Kept(k, d, n, x)
        BY <1>1, <1>p, <1>11, <3>1 DEF EntriesKept
      <3>3. d = t => n # n0
        BY <1>11, <1>p, <2>1
      <3>4. Kept(k, d, n, x)'
        BY <1>2, <1>10, <1>11, <2>1, <3>2, <3>3
      <3> QED BY <2>x, <3>4
    <2>2. CASE d = d0 /\ n = n0
      <3>1. x = v /\ cell'[t][n] = v /\ v # Unbound
        BY <1>2, <1>8, <2>x, <2>2, UnboundAssumption
      <3>2. CASE blocks[t].kind = "comprehension"
        <4>1. Using(k, d, n)'
          BY <1>2, <1>p, <2>2, <3>1, <3>2 DEF Using, Own
        <4>2. ASSUME NEW i \in 1..k, \A j \in (i+1)..k : ~Using(j, d, n)'
              PROVE  i = k
          <5>1. i # k => k \in (i+1)..k
            BY <1>2
          <5> QED BY <4>1, <4>2, <5>1
        <4>3. \A i \in 1..k : Using(i, d, n)' /\ (\A j \in (i+1)..k : ~Using(j, d, n)')
                              => x = cell'[stack'[i]][n]
          BY <1>2, <3>1, <4>2
        <4>4. Kept(k, d, n, x)'
          BY <1>2, <4>1, <4>3 DEF Kept
        <4> QED BY <2>x, <4>4
      <3>3. CASE blocks[t].kind # "comprehension"
        <4>1. d = t
          BY <1>3, <2>2, <3>3
        <4>2. ASSUME NEW i \in 1..k, Using(i, d, n)'
              PROVE  FALSE
          <5>1. stack[i] \in Ids /\ stack[i] <= t /\ stack[i] \in Nat
            BY <1>1, <1>2, IdFacts
          <5>2. blocks[stack[i]].kind = "comprehension" /\ Own(stack[i]) = t
            BY <4>1, <4>2 DEF Using, Own
          <5>3. Own(stack[i]) < stack[i]
            BY <1>1, <5>1, <5>2, IdFacts DEF KindRight, Own
          <5> QED BY <1>3, <5>1, <5>2, <5>3
        <4>3. Original(d, n, x)'
          BY <1>p, <2>2, <3>1, <4>1 DEF Original, Copied
        <4>4. Kept(k, d, n, x)'
          BY <4>2, <4>3 DEF Kept
        <4> QED BY <2>x, <4>4
      <3> QED BY <3>2, <3>3
    <2> QED BY <2>1, <2>2
  <1>12. EntriesKept'
    BY <1>11, <1>p DEF EntriesKept, Ids, Own
  <1>13. ASSUME NEW i \in 1..k, blocks[stack[i]].kind = "comprehension",
                NEW n \in blocks[stack[i]].names
         PROVE  Kept(i - 1, Own(stack[i]), n, saved[stack[i]][n])'
    <2>1. PICK d, x : d = Own(stack[i]) /\ x = saved[stack[i]][n]
      OBVIOUS
    <2>2. stack[i] \in Ids /\ stack[i] <= t /\ stack[i] \in Nat /\ n \in Names
      BY <1>1, <1>2, IdFacts
    <2>3. d \in Ids /\ Own(d) = d /\ d < stack[i] /\ d \in Nat
      BY <1>1, <1>13, <2>1, <2>2, IdFacts DEF KindRight, Own
    <2>4. Kept(i - 1, d, n, x)
      BY <1>1, <1>p, <1>13, <2>1 DEF SavedKept
    <2>5. i - 1 \in Nat /\ i - 1 <= k /\ i - 1 # k /\ d # t
      BY <1>2, <1>3, <2>2, <2>3
    <2>6. Kept(i - 1, d, n, x)'
      BY <1>10, <2>2, <2>3, <2>4, <2>5
    <2>7. Own(stack[i])' = d /\ saved'[stack'[i]][n] = x
      BY <2>1 DEF Own
    <2> QED BY <2>6, <2>7
  <1>14. SavedKept'
    BY <1>13, <1>p DEF SavedKept
  <1>15. ASSUME NEW i \in 1..k, Own(stack[i]) = stack[i],
                NEW n \in Names \ blocks[stack[i]].names
         PROVE  asOf[stack[i]][n] = cell'[BinderIn(blocks, stack[i], n)][n]
    <2> DEFINE b == BinderIn(blocks, stack[i], n)
    <2>1. stack[i] \in Ids /\ stack[i] <= t /\ stack[i] \in Nat
      BY <1>1, <1>2, IdFacts
    <2>2. b \in Ids /\ b < stack[i]
      BY <1>1, <1>15, <2>1, BoundOutside
    <2>3. b \in Nat
      BY <1>1, <2>2, IdFacts DEF Ids
    <2>4. b # t
      BY <1>3, <2>1, <2>2, <2>3
    <2>5. asOf[stack[i]][n] = cell[b][n]
      BY <1>1, <1>p, <1>15 DEF SeenKept
    <2> HIDE DEF b
    <2>6. asOf[stack[i]][n] = cell'[b][n]
      BY <1>8, <2>2, <2>4, <2>5
    <2> QED BY <2>6 DEF b
  <1>16. SeenKept'
    BY <1>15, <1>p DEF SeenKept, Own
  <1> QED BY <1>7, <1>9, <1>12, <1>14, <1>16 DEF Scoped

LEMMA LeaveStep ==
  ASSUME Scoped, Leave
  PROVE  Scoped'
  <1>p. PICK k, t, d0 : k = Len(stack) /\ t = Top /\ d0 = Own(t)
    OBVIOUS
  <1>1. /\ TypeOK /\ Shaped(blocks) /\ StackRight /\ CellsRight
        /\ EntriesKept /\ SavedKept /\ SeenKept /\ stack # << >>
    BY DEF Scoped, Leave
  <1>2. /\ k \in Nat \ {0} /\ k \in 1..k /\ t = stack[k] /\ t \in Ids
    BY <1>1, <1>p, StackFacts
  <1>3. /\ stack' \in Seq(Nat) /\ Len(stack') = k - 1
        /\ \A i \in 1..(k - 1) : stack'[i] = stack[i] /\ i \in 1..k
    <2>1. stack \in Seq(Nat) /\ stack' = Front(stack)
      BY <1>1 DEF Leave, TypeOK
    <2>2. /\ Front(stack) \in Seq(Nat) /\ Len(Front(stack)) = Len(stack) - 1
          /\ \A i \in 1..Len(Front(stack)) : Front(stack)[i] = stack[i]
      BY <1>1, <2>1, PopStack
    <2>3. \A i \in 1..(k - 1) : i \in 1..k
      BY <1>2
    <2> QED BY <1>p, <2>1, <2>2, <2>3
  <1>4. UNCHANGED <<program, blocks, saved, cell, asOf, odd>>
    BY DEF Leave
  <1>5. /\ d0 \in Ids /\ dict[d0] \in Content /\ saved[t] \in Content
        /\ dict \in Seq(Content) /\ Ids = 1..Len(dict)
    BY <1>1, <1>2, <1>p, IdFacts DEF TypeOK, Ids
  <1>6. /\ dict' \in Seq(Content) /\ Len(dict') = Len(dict)
        /\ \A d \in Ids, n \in Names :
             dict'[d][n] = IF /\ blocks[t].kind = "comprehension"
                              /\ d = d0 /\ n \in blocks[t].names
                           THEN saved[t][n] ELSE dict[d][n]
    <2>1. CASE blocks[t].kind # "comprehension"
      BY <1>p, <1>5, <2>1 DEF Leave
    <2>2. CASE blocks[t].kind = "comprehension"
      <3>1. PICK w : w = Restored(d0, t)
        OBVIOUS
      <3>2. /\ w \in Content
            /\ \A n \in Names : w[n] = IF n \in blocks[t].names THEN saved[t][n] ELSE dict[d0][n]
        BY <1>5, <3>1 DEF Restored, Content
      <3>3. dict' = [dict EXCEPT ![d0] = w]
        BY <1>p, <2>2, <3>1 DEF Leave
      <3>4. LET s == [dict EXCEPT ![d0] = w]
            IN /\ s \in Seq(Content) /\ Len(s) = Len(dict)
               /\ \A j \in 1..Len(dict) : s[j] = IF j = d0 THEN w ELSE dict[j]
        BY <1>5, <3>2, ExceptSeq
      <3> QED BY <1>5, <2>2, <3>2, <3>3, <3>4
    <2> QED BY <2>1, <2>2
  <1>7. TypeOK'
    BY <1>1, <1>3, <1>4, <1>6 DEF TypeOK, program
  <1>8. StackRight'
    <2>1. \A i \in 1..(k - 1) : \A j \in 1..i : j \in 1..(k - 1)
      BY <1>2
    <2>2. \A i \in 1..(k - 1) : \E j \in 1..i : stack'[j] = blocks[stack'[i]].own
      <3> SUFFICES ASSUME NEW i \in 1..(k - 1)
                   PROVE  \E j \in 1..i : stack'[j] = blocks[stack'[i]].own
        OBVIOUS
      <3>1. PICK j \in 1..i : stack[j] = Own(stack[i])
        BY <1>1, <1>3, <1>p DEF StackRight
      <3> QED BY <1>3, <2>1, <3>1 DEF Own
    <2>3. \A i, j \in 1..(k - 1) : i < j => stack'[i] < stack'[j]
      BY <1>1, <1>3, <1>p DEF StackRight
    <2>4. ASSUME NEW i \in 1..(k - 1), NEW j \in 1..(k - 1), j <= i,
                 blocks[stack'[j]].own = blocks[stack'[i]].own
          PROVE  \E p \in 1..Len(blocks[stack'[i]].path) : blocks[stack'[i]].path[p] = stack'[j]
      <3>1. Own(stack[j]) = Own(stack[i]) /\ i \in 1..k /\ j \in 1..k
        BY <1>3, <2>4 DEF Own
      <3>2. \E p \in 1..Len(blocks[stack[i]].path) : blocks[stack[i]].path[p] = stack[j]
        BY <1>1, <1>p, <2>4, <3>1 DEF StackRight
      <3> QED BY <1>3, <3>2
    <2>5. \A i \in 1..(k - 1) : stack'[i] \in Ids
      BY <1>1, <1>3, <1>p DEF StackRight
    <2> QED BY <1>3, <1>4, <2>2, <2>3, <2>4, <2>5 DEF StackRight, Own, Ids
  <1>9. CellsRight'
    BY <1>1, <1>4 DEF CellsRight, Ids
  <1>10. ASSUME NEW i \in Nat, i <= k - 1, NEW d, NEW n, NEW e, Kept(i, d, n, e)
         PROVE  Kept(i, d, n, e)'
    <2>1. \A j \in 1..i : stack'[j] = stack[j]
      BY <1>2, <1>3, <1>10
    <2>2. Original(d, n, e)' <=> Original(d, n, e)
      BY <1>4 DEF Original, Copied, program
    <2>3. i <= Len(stack) /\ Len(stack) \in Nat
      BY <1>2, <1>10, <1>p
    <2> QED BY <1>4, <1>10, <2>1, <2>2, <2>3, KeptStays
  <1>11. ASSUME NEW d \in Ids, Own(d) = d, NEW n \in Names
         PROVE  Kept(k - 1, d, n, dict[d][n])'
    <2>x. PICK x : x = dict'[d][n]
      OBVIOUS
    <2>1. Kept(k, d, n, dict[d][n])
      BY <1>1, <1>11, <1>p DEF EntriesKept
    <2>2. CASE blocks[t].kind = "comprehension" /\ d = d0 /\ n \in blocks[t].names
      <3>1. Kept(k - 1, d, n, x)
        BY <1>1, <1>2, <1>6, <1>p, <2>x, <2>2 DEF SavedKept
      <3> QED BY <1>2, <1>10, <2>x, <3>1
    <2>3. CASE ~(blocks[t].kind = "comprehension" /\ d = d0 /\ n \in blocks[t].names)
      <3>1. x = dict[d][n]
        BY <1>6, <2>x, <2>3
      <3>2. ~Using(k, d, n)
        BY <1>1, <1>2, <1>p, <2>3 DEF Using, CellsRight
      <3>3. k - 1 \in Nat /\ (k - 1) + 1 = k
        BY <1>2
      <3>4. Kept(k - 1, d, n, x)
        BY <2>1, <3>1, <3>2, <3>3, KeptShorter
      <3> QED BY <1>2, <1>10, <2>x, <3>4
    <2> QED BY <2>2, <2>3
  <1>12. EntriesKept'
    BY <1>3, <1>4, <1>11 DEF EntriesKept, Ids, Own
  <1>13. ASSUME NEW i \in 1..(k - 1), blocks[stack[i]].kind = "comprehension",
                NEW n \in blocks[stack[i]].names
         PROVE  Kept(i - 1, Own(stack[i]), n, saved[stack[i]][n])'
    <2>1. PICK d, x : d = Own(stack[i]) /\ x = saved[stack[i]][n]
      OBVIOUS
    <2>2. Kept(i - 1, d, n, x)
      BY <1>1, <1>3, <1>13, <1>p, <2>1 DEF SavedKept
    <2>3. i - 1 \in Nat /\ i - 1 <= k - 1
      BY <1>2
    <2>4. Kept(i - 1, d, n, x)'
      BY <1>10, <2>2, <2>3
    <2>5. Own(stack[i])' = d /\ saved'[stack'[i]][n] = x
      BY <1>3, <1>4, <2>1 DEF Own
    <2> QED BY <2>4, <2>5
  <1>14. SavedKept'
    BY <1>3, <1>4, <1>13 DEF SavedKept
  <1>15. SeenKept'
    <2>1. ASSUME NEW i \in 1..(k - 1), Own(stack[i]) = stack[i],
                 NEW n \in Names \ blocks[stack[i]].names
          PROVE  asOf[stack[i]][n] = cell[BinderIn(blocks, stack[i], n)][n]
      BY <1>1, <1>3, <1>p, <2>1 DEF SeenKept
    <2> QED BY <1>3, <1>4, <2>1 DEF SeenKept, Own
  <1>16. Shaped(blocks)'
    BY <1>1, <1>4
  <1> QED BY <1>7, <1>8, <1>9, <1>12, <1>14, <1>15, <1>16 DEF Scoped

LEMMA ScopedInit ==
  Init => Scoped
  <1> SUFFICES ASSUME Init
               PROVE  Scoped
    OBVIOUS
  <1>1. Len(blocks) = 0 /\ Len(stack) = 0 /\ (\A i : i \notin 1..0)
    BY EmptySeq DEF Init
  <1>2. TypeOK
    BY EmptySeq DEF Init, TypeOK
  <1>3. Shaped(blocks) /\ StackRight /\ CellsRight
    BY <1>1 DEF Shaped, StackRight, CellsRight, Ids
  <1>4. EntriesKept /\ SavedKept /\ SeenKept
    BY <1>1 DEF EntriesKept, SavedKept, SeenKept, Ids
  <1> QED BY <1>2, <1>3, <1>4 DEF Scoped

LEMMA ScopedStep ==
  Scoped /\ [Next]_vars => Scoped'
  <1> SUFFICES ASSUME Scoped, [Next]_vars
               PROVE  Scoped'
    OBVIOUS
  <1>1. CASE \E m \in Modules : Exec(m)
    BY <1>1, ExecStep
  <1>2. CASE \E s \in Ids, kind \in {"function", "lambda"}, v \in Values : Call(s, kind, v)
    BY <1>2, CallStep
  <1>3. ASSUME NEW n \in Names, NEW v \in Values, Assign(n, v) \/ NextItem(n, v)
        PROVE  Scoped'
    <2>1. /\ stack # << >> /\ n \in blocks[Top].names
          /\ cell' = [cell EXCEPT ![Top][n] = v]
          /\ UNCHANGED <<program, blocks, saved, stack, asOf, odd>>
      BY <1>3 DEF Assign, NextItem
    <2>2. dict' = [dict EXCEPT ![Own(Top)][n] = v]
      <3>1. CASE NextItem(n, v)
        BY <3>1 DEF NextItem
      <3>2. CASE Assign(n, v)
        <4>1. Top \in Ids /\ blocks[Top].kind # "comprehension"
          BY <2>1, <3>2, StackFacts DEF Assign, Scoped
        <4>2. Own(Top) = Top
          BY <4>1, IdFacts DEF KindRight, Own, Scoped
        <4> QED BY <3>2, <4>2 DEF Assign
      <3> QED BY <1>3, <3>1, <3>2
    <2> QED BY <2>1, <2>2, WriteStep
  <1>4. CASE \E ns \in (SUBSET Names) \ {{}} : StartComp(ns)
    BY <1>4, StartCompStep
  <1>5. CASE Leave
    BY <1>5, LeaveStep
  <1>6. CASE UNCHANGED vars
    <2>1. \A k, d, n, e : Kept(k, d, n, e)' <=> Kept(k, d, n, e)
      BY <1>6 DEF vars, program, Kept, Using, Own, Original, Copied
    <2>2. TypeOK' /\ Shaped(blocks)' /\ StackRight' /\ CellsRight'
      BY <1>6 DEF vars, program, Scoped, TypeOK, StackRight, CellsRight, Own, Ids
    <2>3. EntriesKept' /\ SavedKept' /\ SeenKept'
      BY <1>6, <2>1 DEF vars, Scoped, EntriesKept, SavedKept, SeenKept, Own, Ids
    <2> QED BY <2>2, <2>3 DEF Scoped
  <1> QED BY <1>1, <1>2, <1>3, <1>4, <1>5, <1>6 DEF Next

LEMMA AlwaysScoped ==
  Spec => []Scoped
  BY ScopedInit, ScopedStep, PTL DEF Spec

-----------------------------------------------------------------------------
(* What reads find                                                         *)

LEMMA CopierSame ==
  ASSUME NEW n
  PROVE  Copier(n) = CopierIn(blocks, Top, n)
  <1>1. BinderOf(Top, n) = BinderIn(blocks, Top, n)
    BY BinderSame
  <1> QED BY <1>1 DEF Copier, CopierIn, Inner, Own

(* No comprehension in progress has replaced what the code being executed  *)
(* reads of a variable further out.                                        *)
LEMMA CopiedRead ==
  ASSUME Scoped, NEW n \in Names \ bare, IsCopied(n), <<Own(Top), n>> \notin odd
  PROVE  LET d == Own(Top)
         IN /\ Read(n) = asOf[Copier(n)][n]
            /\ d \in Ids /\ Own(d) = d /\ n \notin blocks[d].names
            /\ BinderIn(blocks, d, n) = BinderOf(Top, n)
  <1>p. PICK k, t, d, v : k = Len(stack) /\ t = Top /\ d = Own(t) /\ v = BinderIn(blocks, t, n)
    OBVIOUS
  <1>1. /\ TypeOK /\ Shaped(blocks) /\ StackRight /\ CellsRight /\ EntriesKept
        /\ blocks \in Seq(Block) /\ stack # << >>
    BY DEF Scoped, TypeOK, IsCopied
  <1>2. /\ k \in Nat /\ k \in 1..k /\ t = stack[k] /\ t \in Ids /\ t \in 1..Len(blocks)
        /\ d \in Ids /\ Own(d) = d
    BY <1>1, <1>p, StackFacts, IdFacts DEF Ids
  <1>3. v = BinderOf(Top, n) /\ Own(v) # d /\ blocks[v].kind # "module"
    BY <1>p, BinderSame DEF IsCopied, IsGlobal
  <1>4. /\ BinderIn(blocks, d, n) = v
        /\ CopierIn(blocks, d, n) = CopierIn(blocks, t, n)
        /\ n \notin blocks[d].names
        /\ \A p \in 1..Len(blocks[t].path) :
             blocks[blocks[t].path[p]].own = d => n \notin blocks[blocks[t].path[p]].names
    BY <1>1, <1>2, <1>3, <1>p, SameCopy DEF Own
  <1>5. ASSUME NEW i \in 1..k, Using(i, d, n)
        PROVE  FALSE
    <2>1. i <= k /\ Own(stack[i]) = Own(stack[k])
      BY <1>2, <1>5, <1>p DEF Using
    <2>2. PICK p \in 1..Len(blocks[t].path) : blocks[t].path[p] = stack[i]
      BY <1>1, <1>2, <1>p, <2>1, SMTT(30) DEF StackRight
    <2>3. n \notin blocks[stack[i]].names
      BY <1>4, <1>5, <2>2 DEF Using, Own
    <2>4. stack[i] \in Ids
      BY <1>1, <1>p DEF StackRight
    <2> QED BY <1>1, <1>5, <2>3, <2>4 DEF Using, CellsRight
  <1>6. Original(d, n, dict[d][n])
    BY <1>1, <1>2, <1>5, <1>p DEF EntriesKept, Kept
  <1>7. Copied(d, n)
    BY <1>3, <1>4, <1>p DEF Copied
  <1>8. dict[d][n] = asOf[CopierIn(blocks, t, n)][n]
    BY <1>4, <1>6, <1>7 DEF Original
  <1>9. Copier(n) = CopierIn(blocks, t, n)
    BY <1>p, CopierSame
  <1>10. Read(n) = dict[d][n]
    BY <1>p DEF Read, IsCopied
  <1> QED BY <1>2, <1>3, <1>4, <1>8, <1>9, <1>10, <1>p

(* Comprehensions give back what they borrow, however they are nested,     *)
(* left early, or run in the functions that other comprehensions call:     *)
(* _eval_comprehension's saving and restoring never loses a variable.      *)
THEOREM EntriesCorrect == Spec => []EntriesHeld
  <1>1. ASSUME Scoped
        PROVE  EntriesHeld
    <2> SUFFICES ASSUME NEW d \in Ids, Own(d) = d, NEW n \in Names,
                        n \in blocks[d].names \/ Holder(d, n) # d
                 PROVE  dict[d][n] = cell[Holder(d, n)][n]
      BY DEF EntriesHeld
    <2>e. PICK e : e = dict[d][n]
      OBVIOUS
    <2>1. Kept(Len(stack), d, n, e)
      BY <1>1, <2>e DEF Scoped, EntriesKept
    <2>2. /\ Holder(d, n) = d => Original(d, n, e)
          /\ Holder(d, n) # d => e = cell[Holder(d, n)][n]
      BY <1>1, <2>1, HolderKept DEF Scoped
    <2> QED BY <2>2, <2>e DEF Original
  <1> QED BY <1>1, AlwaysScoped, PTL

(* A function that its own module calls reads the module's globals as they *)
(* are, where no comprehension of the top-level code uses the name.        *)
THEOREM GlobalsCorrect == Spec => []GlobalReads
  <1>1. ASSUME Scoped
        PROVE  GlobalReads
    <2> SUFFICES ASSUME stack # << >>, NEW n \in Names, IsGlobal(Top, n),
                        blocks[Top].path[1] = stack[1],
                        Holder(stack[1], n) = stack[1]
                 PROVE  Read(n) = Lexical(n)
      BY DEF GlobalReads
    <2>p. PICK t, v, g : t = Top /\ v = BinderIn(blocks, t, n) /\ g = stack[1]
      OBVIOUS
    <2>1. /\ TypeOK /\ Shaped(blocks) /\ StackRight /\ EntriesKept
          /\ blocks \in Seq(Block)
      BY <1>1 DEF Scoped, TypeOK
    <2>2. t \in Ids /\ t \in 1..Len(blocks) /\ v = BinderOf(Top, n)
          /\ blocks[v].kind = "module"
      BY <2>1, <2>p, StackFacts, BinderSame DEF Ids, IsGlobal
    <2>3. PICK i \in 1..Len(blocks[t].path) : v = blocks[t].path[i]
      BY <2>1, <2>2, <2>p, BinderFound
    <2>4. v \in Ids /\ Len(blocks[v].path) = i
      BY <2>1, <2>2, <2>3 DEF Shaped, PathRight, PrefixRight, Ids
    <2>5. i = 1 /\ Own(v) = v /\ blocks[v].names = Names
      BY <2>1, <2>2, <2>4, IdFacts DEF KindRight, Own
    <2>6. v = g /\ Holder(v, n) = v
      BY <2>3, <2>5, <2>p
    <2>e. PICK e : e = dict[v][n]
      OBVIOUS
    <2>7. Kept(Len(stack), v, n, e)
      BY <2>1, <2>4, <2>5, <2>e DEF EntriesKept
    <2>8. Original(v, n, e)
      BY <2>1, <2>6, <2>7, HolderKept
    <2> QED BY <2>2, <2>5, <2>6, <2>8, <2>e, <2>p DEF Original, Read, Lexical
  <1> QED BY <1>1, AlwaysScoped, PTL

(* Through any number of copies of copies, a function reads a variable     *)
(* further out as it was when the function between them was called.        *)
THEOREM FarReadsCorrect == Spec => []FarReads
  <1>1. ASSUME Scoped
        PROVE  FarReads
    BY <1>1, CopiedRead DEF FarReads
  <1> QED BY <1>1, AlwaysScoped, PTL

(* What was copied from the code directly around it is what that code has  *)
(* now: it is suspended, and nothing else writes its variables.            *)
THEOREM EnclosingReadsCorrect == Spec => []EnclosingReads
  <1>1. ASSUME Scoped
        PROVE  EnclosingReads
    <2> SUFFICES ASSUME NEW n \in Names \ bare, IsCopied(n), Copier(n) = Own(Top),
                        <<Own(Top), n>> \notin odd
                 PROVE  Read(n) = Lexical(n)
      BY DEF EnclosingReads
    <2>p. PICK k, d : k = Len(stack) /\ d = Own(Top)
      OBVIOUS
    <2>1. /\ Read(n) = asOf[d][n]
          /\ d \in Ids /\ Own(d) = d /\ n \notin blocks[d].names
          /\ BinderIn(blocks, d, n) = BinderOf(Top, n)
      BY <1>1, <2>p, CopiedRead
    <2>2. /\ TypeOK /\ Shaped(blocks) /\ StackRight /\ SeenKept /\ stack # << >>
      BY <1>1 DEF Scoped, IsCopied
    <2>3. k \in Nat /\ k \in 1..k /\ Top = stack[k]
      BY <2>2, <2>p, StackFacts
    <2>4. PICK j \in 1..k : stack[j] = d
      BY <2>2, <2>3, <2>p DEF StackRight
    <2>5. asOf[d][n] = cell[BinderIn(blocks, d, n)][n]
      BY <2>1, <2>2, <2>4, <2>p DEF SeenKept
    <2> QED BY <2>1, <2>5 DEF Lexical
  <1> QED BY <1>1, AlwaysScoped, PTL
=============================================================================
