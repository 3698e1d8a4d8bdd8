--------------------------- MODULE FreezingProofs ---------------------------
(***************************************************************************)
(* Proofs about Freezing, for any modules and values: frozen values never  *)
(* change; and, as long as no function collects **kwargs, what load()      *)
(* delivers is frozen through and through and keeps the promise of         *)
(* Publication.                                                            *)
(*                                                                         *)
(* The argument follows ownership.  What a module can get at was made by   *)
(* itself or by modules already delivered, and a value belongs to the      *)
(* module that made it unless it is frozen: so when its maker has been     *)
(* delivered it is frozen, and so is all it holds.                         *)
(***************************************************************************)
EXTENDS Freezing, StackLemmas

MadeBy(m)  == {o \in Objects : creator[o] = m}
Delivered  == {o \in Objects : creator[o] \in loaded}
Visible(m) == MadeBy(m) \cup Delivered

-----------------------------------------------------------------------------
LEMMA CurrentType ==
  ASSUME TypeOK, Busy
  PROVE  /\ running \in Seq(Modules)
         /\ Current \in Modules
         /\ Len(running) \in Nat \ {0}
         /\ Current = running[Len(running)]
  <1>1. running \in Seq(Modules) /\ running # << >>
    BY DEF TypeOK, Busy
  <1> QED BY <1>1, PopStack DEF Current

LEMMA HeldObjects == Held \subseteq Objects
  BY DEF Held, Reach

LEMMA HeldClosed ==
  ASSUME TypeOK
  PROVE  \A a \in Held : items[a] \subseteq Held
  BY DEF Held, Reach, Closed, TypeOK

(* What is reached from a set lies in every closed set around it.          *)
LEMMA ReachWithin ==
  ASSUME NEW C \in SUBSET Objects, NEW S \in SUBSET C, Closed(C)
  PROVE  Reach(S) \subseteq C
  BY DEF Reach

LEMMA MakeType ==
  ASSUME TypeOK, NEW o \in Objects, NEW token \in Tokens,
         NEW e \in SUBSET Objects, Make(o, token, e)
  PROVE  TypeOK'
  <1>1. Current \in Modules
    BY CurrentType DEF Make
  <1> QED BY <1>1 DEF TypeOK, Make

(* The operations that change an existing object.                          *)
LEMMA ChangeCases ==
  ASSUME TypeOK,
         \/ \E a \in Held, x \in Held : Store(a, x)
         \/ \E a \in Held : \E x \in items[a] : Discard(a, x)
         \/ \E a, b \in Held : Replace(a, b)
  PROVE  \E a \in Held, e \in SUBSET Held : Change(a, e)
  <1>1. CASE \E a \in Held, x \in Held : Store(a, x)
    <2>1. PICK a \in Held, x \in Held : Store(a, x)
      BY <1>1
    <2>2. items[a] \cup {x} \in SUBSET Held
      BY HeldClosed
    <2> QED BY <2>1, <2>2 DEF Store
  <1>2. CASE \E a \in Held : \E x \in items[a] : Discard(a, x)
    <2>1. PICK a \in Held : \E x \in items[a] : Discard(a, x)
      BY <1>2
    <2>2. PICK x \in items[a] : Discard(a, x)
      BY <2>1
    <2>3. items[a] \ {x} \in SUBSET Held
      BY HeldClosed
    <2> QED BY <2>2, <2>3 DEF Discard
  <1>3. CASE \E a, b \in Held : Replace(a, b)
    <2>1. PICK a \in Held, b \in Held : Replace(a, b)
      BY <1>3
    <2>2. items[a] \subseteq Held /\ items[b] \subseteq Held
      BY HeldClosed
    <2> QED BY <2>1, <2>2 DEF Replace
  <1> QED BY <1>1, <1>2, <1>3

LEMMA OperateType == TypeOK /\ Operate => TypeOK'
  <1> SUFFICES ASSUME TypeOK, Operate PROVE TypeOK'
    OBVIOUS
  <1> USE HeldObjects
  <1>1. Busy /\ Current \in Modules
    BY CurrentType DEF Operate
  <1>2. CASE \E o \in Objects : Create(o, Held)
    <2>1. PICK o \in Objects, e \in SUBSET Objects : Make(o, Current, e)
      BY <1>2 DEF Create
    <2> QED BY <1>1, <2>1, MakeType DEF Tokens
  <1>3. CASE \E o \in Objects : CollectKwargs(o, Held)
    <2>1. PICK o \in Objects, e \in SUBSET Objects : Make(o, Own, e)
      BY <1>3 DEF CollectKwargs
    <2> QED BY <2>1, MakeType DEF Tokens
  <1>4. CASE \E o \in Objects, a \in Held, b \in Held : Combine(o, a, b)
    <2>1. PICK o \in Objects, a \in Held, b \in Held : Combine(o, a, b)
      BY <1>4
    <2>2. PICK e \in SUBSET Objects : Make(o, owner[a], e)
      BY <2>1 DEF Combine, TypeOK
    <2>3. owner[a] \in Tokens
      BY <2>1 DEF TypeOK
    <2> QED BY <2>2, <2>3, MakeType
  <1>5. ASSUME NEW a \in Held, NEW e \in SUBSET Objects, Change(a, e) PROVE TypeOK'
    BY <1>5 DEF Change, TypeOK
  <1>6. CASE \E a \in Held, e \in SUBSET Held : Change(a, e)
    BY <1>5, <1>6
  <1>7. CASE \E a \in Held : FreezeValue(a)
    BY <1>7 DEF FreezeValue, TypeOK, Tokens
  <1> QED BY <1>2, <1>3, <1>4, <1>6, <1>7, ChangeCases DEF Operate

(* Delivering and importing.                                               *)
LEMMA ImportType ==
  ASSUME TypeOK, NEW m \in Modules, NEW n \in Modules, Import(m, n)
  PROVE  /\ globals' \in [Modules -> SUBSET Objects]
         /\ globals'[m] \subseteq globals[m] \cup globals[n]
         /\ \A k \in Modules \ {m} : globals'[k] = globals[k]
  BY DEF Import, TypeOK

LEMMA DeliverType ==
  ASSUME TypeOK, Deliver
  PROVE  /\ Current \in Modules
         /\ running' \in Seq(Modules)
         /\ Len(running) \in Nat /\ Len(running') = Len(running) - 1
         /\ \A i \in 1..Len(running') : running'[i] = running[i]
         /\ Last(Front(running)) = running[Len(running) - 1]
         /\ Last(Front(running)) \in Modules
         /\ Import(Last(Front(running)), Current)
  <1>1. running \in Seq(Modules) /\ running # << >> /\ Len(running) > 1
    BY DEF TypeOK, Deliver, Busy
  <1>2. running' = Front(running) /\ Import(Last(Front(running)), Current)
    BY DEF Deliver
  <1>3. /\ Front(running) \in Seq(Modules) /\ Len(running) \in Nat
        /\ Len(Front(running)) = Len(running) - 1
        /\ \A i \in 1..Len(Front(running)) : Front(running)[i] = running[i]
        /\ Last(running) \in Modules
        /\ Front(running) # << >> => Last(Front(running)) = running[Len(running) - 1]
        /\ Front(running) = << >> <=> Len(running) = 1
    BY <1>1, PopStack
  <1>4. Front(running) # << >>
    BY <1>1, <1>3
  <1>5. Last(Front(running)) \in Modules
    BY <1>3, <1>4, PopStack
  <1> QED BY <1>1, <1>2, <1>3, <1>4, <1>5 DEF Current

LEMMA TypeStep == TypeOK /\ [Next]_vars => TypeOK'
  <1> SUFFICES ASSUME TypeOK, [Next]_vars PROVE TypeOK'
    OBVIOUS
  <1>0. << >> \in Seq(Modules)
    BY EmptySeq
  <1>1. CASE \E m \in Modules : Exec(m)
    <2>1. PICK m \in Modules : Exec(m)
      BY <1>1
    <2>2. << m >> \in Seq(Modules)
      OBVIOUS
    <2> QED BY <2>1, <2>2 DEF Exec, TypeOK, heap
  <1>2. CASE \E m \in Modules : Load(m)
    <2>1. PICK m \in Modules : Load(m)
      BY <1>2
    <2>2. Append(running, m) \in Seq(Modules)
      BY PushStack DEF TypeOK
    <2> QED BY <2>1, <2>2 DEF Load, TypeOK, heap
  <1>3. CASE \E m \in Modules : LoadCached(m)
    <2>1. PICK m \in Modules : LoadCached(m)
      BY <1>3
    <2>2. Current \in Modules
      BY <2>1, CurrentType DEF LoadCached
    <2>3. globals' \in [Modules -> SUBSET Objects]
      BY <2>1, <2>2, ImportType DEF LoadCached
    <2> QED BY <2>1, <2>3 DEF LoadCached, TypeOK, heap
  <1>4. CASE Deliver
    <2>1. Current \in Modules /\ running' \in Seq(Modules)
      BY <1>4, DeliverType
    <2>2. globals' \in [Modules -> SUBSET Objects]
      BY <1>4, DeliverType, ImportType
    <2> QED BY <1>4, <2>1, <2>2 DEF Deliver, TypeOK, heap, Tokens
  <1>5. CASE Finish \/ Fail
    BY <1>0, <1>5 DEF Finish, Fail, TypeOK, heap
  <1>6. CASE Operate
    BY <1>6, OperateType
  <1>7. CASE FreezeModule
    <2>1. Current \in Modules
      BY <1>7, CurrentType DEF FreezeModule
    <2> QED BY <1>7, <2>1 DEF FreezeModule, TypeOK, heap, Tokens
  <1>8. CASE UNCHANGED vars
    BY <1>8 DEF vars, TypeOK
  <1> QED BY <1>1, <1>2, <1>3, <1>4, <1>5, <1>6, <1>7, <1>8 DEF Next

(* Every reachable state is well typed.                                    *)
THEOREM TypeCorrect == Spec => []TypeOK
  <1>1. Init => TypeOK
    BY EmptySeq DEF Init, TypeOK, Tokens
  <1> QED BY <1>1, TypeStep, PTL DEF Spec

-----------------------------------------------------------------------------
(* What a step of the code does to one value.                              *)
LEMMA MakeChanges ==
  ASSUME TypeOK, NEW o \in Objects, NEW token, NEW e, Make(o, token, e)
  PROVE  /\ Busy
         /\ creator[o] = NoModule
         /\ creator' = [creator EXCEPT ![o] = Current]
         /\ \A p \in Objects \ {o} :
              creator'[p] = creator[p] /\ owner'[p] = owner[p] /\ items'[p] = items[p]
         /\ creator'[o] = Current /\ owner'[o] = token /\ items'[o] = e
         /\ globals' = [globals EXCEPT ![Current] = @ \cup {o}]
         /\ frozen' = frozen /\ loaded' = loaded /\ running' = running
         /\ executed' = executed
  BY DEF Make, TypeOK

(* Operate either makes a value or works on one the code can get at.       *)
LEMMA OperateCases ==
  ASSUME TypeOK, Operate
  PROVE  \/ \E o \in Objects \ Kwargs, e \in SUBSET Held : Make(o, Current, e)
         \/ \E o \in Kwargs, e \in SUBSET Held : Make(o, Own, e)
         \/ \E o \in Objects \ Kwargs, a \in Held, b \in Held :
              \E e \in SUBSET (items[a] \cup items[b]) : Make(o, owner[a], e)
         \/ \E a \in Held, e \in SUBSET Held : Change(a, e)
         \/ \E a \in Held : FreezeValue(a)
  <1>1. CASE \E o \in Objects : Create(o, Held)
    BY <1>1 DEF Create
  <1>2. CASE \E o \in Objects : CollectKwargs(o, Held)
    BY <1>2, KwargsAssumption DEF CollectKwargs
  <1>3. CASE \E o \in Objects, a \in Held, b \in Held : Combine(o, a, b)
    <2>1. PICK o \in Objects, a \in Held, b \in Held : Combine(o, a, b)
      BY <1>3
    <2>2. \E e \in SUBSET (items[a] \cup items[b]) : Make(o, owner[a], e)
      BY <2>1 DEF Combine
    <2> QED BY <2>1, <2>2 DEF Combine
  <1> QED BY <1>1, <1>2, <1>3, ChangeCases DEF Operate

FrozenInv == TypeOK /\ Immutable \in frozen

LEMMA FrozenInvStep == FrozenInv /\ [Next]_vars => FrozenInv'
  <1> SUFFICES ASSUME FrozenInv, [Next]_vars PROVE FrozenInv'
    OBVIOUS
  <1>1. TypeOK'
    BY TypeStep DEF FrozenInv
  <1>2. CASE Operate
    <2>1. frozen' = frozen
      BY <1>2, OperateCases DEF FrozenInv, Make, Change, FreezeValue
    <2> QED BY <1>1, <2>1 DEF FrozenInv, Immutable
  <1>3. CASE UNCHANGED vars
    BY <1>1, <1>3 DEF FrozenInv, vars, Immutable
  <1>4. CASE Next /\ ~Operate
    <2>1. frozen \subseteq frozen'
      BY <1>4 DEF Next, Exec, Load, LoadCached, Deliver, Finish, Fail, FreezeModule
    <2> QED BY <1>1, <2>1 DEF FrozenInv, Immutable
  <1> QED BY <1>2, <1>3, <1>4

LEMMA StepKeepsFrozen == FrozenInv /\ [Next]_vars => StaysFrozen
  <1> SUFFICES ASSUME FrozenInv, [Next]_vars,
                      NEW o \in Objects, creator[o] # NoModule, Frozen(o)
               PROVE  Frozen(o)' /\ items'[o] = items[o]
    BY DEF StaysFrozen
  <1>0. TypeOK /\ Immutable \in frozen
    BY DEF FrozenInv
  <1>1. CASE Operate
    <2>1. ASSUME NEW p \in Objects, NEW e, NEW token, Make(p, token, e)
          PROVE  Frozen(o)' /\ items'[o] = items[o]
      <3>1. p # o
        BY <2>1 DEF Make
      <3>2. owner'[o] = owner[o] /\ items'[o] = items[o] /\ frozen' = frozen
        BY <1>0, <2>1, <3>1, MakeChanges
      <3> QED BY <3>2 DEF Frozen
    <2>2. CASE \E a \in Held, e \in SUBSET Held : Change(a, e)
      BY <1>0, <2>2 DEF Change, Frozen, TypeOK
    <2>4. CASE \E a \in Held : FreezeValue(a)
      BY <1>0, <2>4 DEF FreezeValue, Frozen, TypeOK
    <2> QED BY <1>0, <1>1, <2>1, <2>2, <2>4, OperateCases, KwargsAssumption
  <1>2. CASE UNCHANGED vars
    BY <1>2 DEF vars, Frozen
  <1>3. CASE Next /\ ~Operate
    <2>1. frozen \subseteq frozen' /\ owner' = owner /\ items' = items
      BY <1>3 DEF Next, Exec, Load, LoadCached, Deliver, Finish, Fail, FreezeModule, heap
    <2> QED BY <2>1 DEF Frozen
  <1> QED BY <1>1, <1>2, <1>3

(* A value that is read-only stays so and keeps its elements, whoever runs *)
(* and whatever token it has.                                              *)
THEOREM FrozenStays == Spec => FrozenForever
  <1>1. Init => FrozenInv
    BY EmptySeq DEF Init, FrozenInv, TypeOK, Tokens
  <1> QED BY <1>1, FrozenInvStep, StepKeepsFrozen, PTL DEF Spec, FrozenForever

-----------------------------------------------------------------------------
(* Ownership: a value has the token of its maker or a frozen one, and it   *)
(* holds, as the globals do, only what its maker could get at.             *)
OwnToken   == \A o \in Objects : creator[o] # NoModule =>
                                   owner[o] \in frozen \cup {creator[o]}
ItemsOwned == \A o \in Objects : creator[o] # NoModule =>
                                   items[o] \subseteq Visible(creator[o])
GlobalsOwned == \A m \in Modules : globals[m] \subseteq Visible(m)
RunningOnce ==
  /\ \A i \in 1..Len(running) : running[i] \in executed \ loaded
  /\ \A i, j \in 1..Len(running) : running[i] = running[j] => i = j

Owned ==
  /\ TypeOK
  /\ Immutable \in frozen
  /\ loaded \subseteq frozen \cap executed
  /\ OwnToken
  /\ ItemsOwned
  /\ GlobalsOwned
  /\ RunningOnce

(* What a module can get at, it can get at for good.                       *)
LEMMA VisibleClosed ==
  ASSUME Owned, NEW m \in Modules
  PROVE  /\ Closed(Visible(m))
         /\ Reach(globals[m]) \subseteq Visible(m)
         /\ \A o \in Visible(m) : o \in Objects /\ creator[o] # NoModule
  <1>1. \A o \in Visible(m) : o \in Objects /\ creator[o] # NoModule
    BY NamesAssumption DEF Visible, MadeBy, Delivered, Owned, TypeOK
  <1>2. ASSUME NEW o \in Visible(m) PROVE items[o] \subseteq Visible(m)
    <2>1. items[o] \subseteq Visible(creator[o])
      BY <1>1, <1>2 DEF Owned, ItemsOwned
    <2> QED BY <1>2, <2>1 DEF Visible, MadeBy, Delivered
  <1>3. Closed(Visible(m))
    BY <1>2 DEF Closed
  <1>4. globals[m] \subseteq Visible(m) /\ Visible(m) \subseteq Objects
    BY DEF Owned, GlobalsOwned, Visible, MadeBy, Delivered
  <1> QED BY <1>1, <1>3, <1>4, ReachWithin

LEMMA DeliveredClosed ==
  ASSUME Owned
  PROVE  /\ Closed(Delivered)
         /\ \A m \in loaded : Reach(globals[m]) \subseteq Delivered
         /\ \A o \in Delivered : Frozen(o) /\ creator[o] # NoModule
  <1>1. \A m \in loaded : Visible(m) = Delivered /\ m \in Modules
    BY DEF Visible, MadeBy, Delivered, Owned, TypeOK
  <1>2. ASSUME NEW o \in Delivered
        PROVE  items[o] \subseteq Delivered /\ Frozen(o) /\ creator[o] # NoModule
    <2>1. creator[o] \in loaded /\ creator[o] # NoModule /\ o \in Objects
      BY NamesAssumption DEF Delivered, Owned, TypeOK
    <2>2. items[o] \subseteq Delivered
      BY <1>1, <2>1 DEF Owned, ItemsOwned
    <2>3. Frozen(o)
      BY <2>1 DEF Owned, OwnToken, Frozen
    <2> QED BY <2>1, <2>2, <2>3
  <1>3. \A m \in loaded : Reach(globals[m]) \subseteq Delivered
    BY <1>1, VisibleClosed
  <1> QED BY <1>2, <1>3 DEF Closed

(* Code changes only what its own module made.                             *)
LEMMA ThawedIsOwn ==
  ASSUME Owned, NEW a \in Held, Busy
  PROVE  /\ a \in Visible(Current)
         /\ items[a] \subseteq Visible(Current)
         /\ owner[a] \in frozen \cup {Current}
         /\ ~Frozen(a) => creator[a] = Current
  <1>0. Current \in Modules
    BY CurrentType DEF Owned
  <1>1. a \in Visible(Current) /\ items[a] \subseteq Visible(Current)
    BY <1>0, VisibleClosed DEF Held, Closed
  <1>2. a \in Objects /\ creator[a] # NoModule
    BY <1>0, <1>1, VisibleClosed
  <1>3. owner[a] \in frozen \cup {creator[a]}
    BY <1>2 DEF Owned, OwnToken
  <1>4. CASE creator[a] = Current
    BY <1>1, <1>3, <1>4 DEF Frozen
  <1>5. CASE creator[a] \in loaded
    <2>1. Frozen(a)
      BY <1>3, <1>5 DEF Frozen, Owned
    <2> QED BY <1>1, <2>1 DEF Frozen
  <1> QED BY <1>1, <1>4, <1>5 DEF Visible, MadeBy, Delivered

-----------------------------------------------------------------------------
LEMMA MakeOwned ==
  ASSUME Owned, NEW o \in Objects, NEW token \in frozen \cup {Current},
         NEW e \in SUBSET Visible(Current), Make(o, token, e)
  PROVE  Owned'
  <1>0. TypeOK /\ Busy
    BY DEF Owned, Make
  <1>1. Current \in Modules
    BY <1>0, CurrentType
  <1>2. /\ creator[o] = NoModule
        /\ creator' = [creator EXCEPT ![o] = Current]
        /\ \A p \in Objects \ {o} :
             creator'[p] = creator[p] /\ owner'[p] = owner[p] /\ items'[p] = items[p]
        /\ creator'[o] = Current /\ owner'[o] = token /\ items'[o] = e
        /\ globals' = [globals EXCEPT ![Current] = @ \cup {o}]
        /\ frozen' = frozen /\ loaded' = loaded /\ running' = running
        /\ executed' = executed
    BY <1>0, MakeChanges
  <1>3. TypeOK'
    <2>1. token \in Tokens /\ e \subseteq Objects
      BY <1>1 DEF Owned, TypeOK, Tokens, Visible, MadeBy, Delivered
    <2> QED BY <1>0, <2>1, MakeType
  <1>4. \A m \in Modules : Visible(m) \subseteq Visible(m)'
    <2>1. loaded \subseteq Modules /\ NoModule \notin Modules
      BY <1>0, NamesAssumption DEF TypeOK
    <2> QED BY <1>2, <2>1 DEF Visible, MadeBy, Delivered
  <1>5. OwnToken'
    BY <1>2 DEF Owned, OwnToken
  <1>6. ItemsOwned'
    <2> SUFFICES ASSUME NEW p \in Objects, creator'[p] # NoModule,
                        NEW q \in items'[p]
                 PROVE  q \in Objects /\ creator'[q] \in {creator'[p]} \cup loaded'
      BY DEF ItemsOwned, Visible, MadeBy, Delivered
    <2>1. \A m \in Modules : q \in Visible(m) => q \in Objects /\ creator'[q] \in {m} \cup loaded'
      BY <1>4 DEF Visible, MadeBy, Delivered
    <2>2. CASE p = o
      BY <1>1, <1>2, <2>1, <2>2
    <2>3. CASE p # o
      <3>1. creator'[p] = creator[p] /\ items'[p] = items[p] /\ creator[p] \in Modules
        BY <1>0, <1>2, <2>3 DEF TypeOK
      <3>2. q \in Visible(creator[p])
        BY <3>1 DEF Owned, ItemsOwned
      <3> QED BY <2>1, <3>1, <3>2
    <2> QED BY <2>2, <2>3
  <1>7. GlobalsOwned'
    <2> SUFFICES ASSUME NEW m \in Modules PROVE globals'[m] \subseteq Visible(m)'
      BY DEF GlobalsOwned
    <2>1. globals[m] \subseteq Visible(m)'
      BY <1>4 DEF Owned, GlobalsOwned
    <2>2. CASE m = Current
      <3>1. o \in Visible(m)'
        BY <1>2, <2>2 DEF Visible, MadeBy
      <3> QED BY <1>0, <1>2, <2>1, <2>2, <3>1 DEF TypeOK
    <2>3. CASE m # Current
      BY <1>0, <1>2, <2>1, <2>3 DEF TypeOK
    <2> QED BY <2>2, <2>3
  <1>8. (Immutable \in frozen)' /\ (loaded \subseteq frozen \cap executed)' /\ RunningOnce'
    BY <1>2 DEF Owned, RunningOnce, Immutable
  <1> QED BY <1>3, <1>5, <1>6, <1>7, <1>8 DEF Owned

(* When modules and the makers of values stay, what is visible stays.      *)
LEMMA SameVisible ==
  ASSUME creator' = creator, loaded' = loaded
  PROVE  \A m : Visible(m)' = Visible(m)
  BY DEF Visible, MadeBy, Delivered

LEMMA OperateOwned ==
  ASSUME Kwargs = {}, Owned, Operate
  PROVE  Owned'
  <1>0. TypeOK /\ Busy /\ Current \in Modules
    BY CurrentType DEF Owned, Operate
  <1>1. TypeOK'
    BY <1>0, OperateType
  <1>2. Held \subseteq Visible(Current)
    BY <1>0, VisibleClosed DEF Held
  <1>3. CASE \E o \in Objects, e \in SUBSET Held : Make(o, Current, e)
    BY <1>2, <1>3, MakeOwned
  <1>4. CASE \E o \in Objects, a \in Held, b \in Held :
               \E e \in SUBSET (items[a] \cup items[b]) : Make(o, owner[a], e)
    <2>0. PICK o \in Objects, a \in Held, b \in Held :
                 \E e \in SUBSET (items[a] \cup items[b]) : Make(o, owner[a], e)
      BY <1>4
    <2>1. PICK e \in SUBSET (items[a] \cup items[b]) : Make(o, owner[a], e)
      BY <2>0
    <2>2. owner[a] \in frozen \cup {Current} /\ e \subseteq Visible(Current)
      BY <1>0, <2>1, ThawedIsOwn
    <2> QED BY <2>1, <2>2, MakeOwned
  <1>5. ASSUME NEW a \in Held, ~Frozen(a), creator' = creator, owner' = owner,
               NEW e \in SUBSET Visible(Current), items' = [items EXCEPT ![a] = e],
               UNCHANGED <<running, executed, loaded, globals, frozen>>
        PROVE  Owned'
    <2>1. creator[a] = Current
      BY <1>0, <1>5, ThawedIsOwn
    <2>2. \A m : Visible(m)' = Visible(m)
      BY <1>5, SameVisible
    <2>3. ItemsOwned'
      <3> SUFFICES ASSUME NEW p \in Objects, creator[p] # NoModule
                   PROVE  items'[p] \subseteq Visible(creator[p])
        BY <1>5, <2>2 DEF ItemsOwned
      <3>1. items[p] \subseteq Visible(creator[p])
        BY DEF Owned, ItemsOwned
      <3> QED BY <1>0, <1>5, <2>1, <3>1 DEF TypeOK
    <2>4. GlobalsOwned'
      BY <1>5, <2>2 DEF Owned, GlobalsOwned
    <2>5. OwnToken'
      BY <1>5 DEF Owned, OwnToken
    <2> QED BY <1>1, <1>5, <2>3, <2>4, <2>5 DEF Owned, RunningOnce, Immutable
  <1>6. CASE \E a \in Held, e \in SUBSET Held : Change(a, e)
    <2>1. PICK a \in Held, e \in SUBSET Held : Change(a, e)
      BY <1>6
    <2>2. e \in SUBSET Visible(Current)
      BY <1>2
    <2> QED BY <1>5, <2>1, <2>2 DEF Change
  <1>7. CASE \E a \in Held : FreezeValue(a)
    <2>1. PICK a \in Held : FreezeValue(a)
      BY <1>7
    <2>2. \A m : Visible(m)' = Visible(m)
      BY <2>1, SameVisible DEF FreezeValue
    <2>3. OwnToken'
      BY <1>0, <2>1 DEF FreezeValue, Owned, OwnToken, TypeOK
    <2>4. ItemsOwned' /\ GlobalsOwned'
      BY <2>1, <2>2 DEF FreezeValue, Owned, ItemsOwned, GlobalsOwned
    <2> QED BY <1>1, <2>1, <2>3, <2>4 DEF FreezeValue, Owned, RunningOnce, Immutable
  <1> QED BY <1>0, <1>3, <1>4, <1>6, <1>7, OperateCases

LEMMA DeliverOwned ==
  ASSUME Owned, Deliver
  PROVE  Owned'
  <1> DEFINE m == Current
             n == Last(Front(running))
  <1>0. TypeOK /\ TypeOK'
    BY TypeStep DEF Owned, Next
  <1>1. /\ m \in Modules /\ n \in Modules
        /\ Len(running) \in Nat /\ Len(running') = Len(running) - 1
        /\ \A i \in 1..Len(running') : running'[i] = running[i]
        /\ Import(n, m)
    BY <1>0, DeliverType
  <1>2. /\ frozen' = frozen \cup {m} /\ loaded' = loaded \cup {m} /\ executed' = executed
        /\ creator' = creator /\ owner' = owner /\ items' = items
        /\ m = running[Len(running)] /\ Len(running) > 1
    BY <1>0, CurrentType DEF Deliver, heap
  <1>3. \A k \in Modules : Visible(k) \subseteq Visible(k)'
    BY <1>2 DEF Visible, MadeBy, Delivered
  <1>4. m \in executed
    <2>1. Len(running) \in 1..Len(running)
      BY <1>1, <1>2
    <2> QED BY <1>2, <2>1 DEF Owned, RunningOnce
  <1>5. ItemsOwned'
    BY <1>2 DEF Owned, ItemsOwned, Visible, MadeBy, Delivered
  <1>6. GlobalsOwned'
    <2> SUFFICES ASSUME NEW k \in Modules PROVE globals'[k] \subseteq Visible(k)'
      BY DEF GlobalsOwned
    <2>1. globals[k] \subseteq Visible(k)' /\ globals[m] \subseteq Visible(m)
      BY <1>1, <1>3 DEF Owned, GlobalsOwned
    <2>2. /\ globals'[n] \subseteq globals[n] \cup globals[m]
          /\ k # n => globals'[k] = globals[k]
      BY <1>0, <1>1, ImportType
    <2>3. CASE k = n
      <3>1. Visible(m) \subseteq Visible(k)'
        BY <1>2 DEF Visible, MadeBy, Delivered
      <3> QED BY <2>1, <2>2, <2>3, <3>1
    <2>4. CASE k # n
      BY <2>1, <2>2, <2>4
    <2> QED BY <2>3, <2>4
  <1>7. OwnToken' /\ (Immutable \in frozen)' /\ (loaded \subseteq frozen \cap executed)'
    BY <1>2, <1>4 DEF Owned, OwnToken, Immutable
  <1>8. RunningOnce'
    <2>1. \A i \in 1..Len(running') : i \in 1..Len(running) /\ i # Len(running)
      BY <1>1
    <2>2. Len(running) \in 1..Len(running)
      BY <1>1, <1>2
    <2> HIDE DEF m
    <2> QED BY <1>1, <1>2, <2>1, <2>2 DEF Owned, RunningOnce
  <1> QED BY <1>0, <1>5, <1>6, <1>7, <1>8 DEF Owned

LEMMA OwnedStep == Kwargs = {} /\ Owned /\ [Next]_vars => Owned'
  <1> SUFFICES ASSUME Kwargs = {}, Owned, [Next]_vars PROVE Owned'
    OBVIOUS
  <1>0. TypeOK /\ TypeOK'
    BY TypeStep DEF Owned
  <1>1. ASSUME creator' = creator, owner' = owner, items' = items, loaded' = loaded,
               frozen \subseteq frozen', executed \subseteq executed',
               GlobalsOwned', RunningOnce'
        PROVE  Owned'
    BY <1>0, <1>1 DEF Owned, OwnToken, ItemsOwned, Visible, MadeBy, Delivered, Immutable
  <1>2. ASSUME creator' = creator, loaded' = loaded, globals' = globals
        PROVE  GlobalsOwned'
    BY <1>2 DEF Owned, GlobalsOwned, Visible, MadeBy, Delivered
  <1>3. ASSUME running' = << >> PROVE RunningOnce'
    BY <1>3 DEF RunningOnce
  <1>4. CASE \E m \in Modules : Exec(m)
    <2>1. PICK m \in Modules : Exec(m)
      BY <1>4
    <2>2. Len(<< m >>) = 1 /\ << m >>[1] = m
      OBVIOUS
    <2>3. m \notin loaded
      <3>1. m \notin executed
        BY <2>1 DEF Exec
      <3> QED BY <3>1 DEF Owned
    <2>4. RunningOnce'
      BY <2>1, <2>2, <2>3 DEF Exec, RunningOnce
    <2> QED BY <1>1, <1>2, <2>1, <2>4 DEF Exec, heap
  <1>5. CASE \E m \in Modules : Load(m)
    <2>1. PICK m \in Modules : Load(m)
      BY <1>5
    <2>2. /\ Len(running) \in Nat
          /\ Len(running') = Len(running) + 1
          /\ \A i \in 1..Len(running) : running'[i] = running[i]
          /\ running'[Len(running) + 1] = m
      BY <1>0, <2>1, PushStack DEF Load, TypeOK
    <2>3. m \notin executed /\ executed' = executed \cup {m} /\ loaded' = loaded
      BY <2>1 DEF Load
    <2>4. \A i \in 1..Len(running') : i \in 1..Len(running) \/ i = Len(running) + 1
      BY <2>2
    <2>5. RunningOnce'
      <3>1. /\ \A i \in 1..Len(running) : running[i] \in executed \ loaded
            /\ \A i, j \in 1..Len(running) : running[i] = running[j] => i = j
            /\ loaded \subseteq executed
        BY DEF Owned, RunningOnce
      <3>2. \A i \in 1..Len(running') : running'[i] \in executed' \ loaded'
        BY <2>2, <2>3, <2>4, <3>1
      <3>3. \A i, j \in 1..Len(running') : running'[i] = running'[j] => i = j
        BY <2>2, <2>3, <2>4, <3>1
      <3> QED BY <3>2, <3>3 DEF RunningOnce
    <2> QED BY <1>1, <1>2, <2>1, <2>5 DEF Load, heap
  <1>6. CASE \E m \in Modules : LoadCached(m)
    <2>1. PICK m \in Modules : LoadCached(m)
      BY <1>6
    <2>2. Current \in Modules /\ Import(Current, m) /\ m \in loaded
      BY <1>0, <2>1, CurrentType DEF LoadCached
    <2>3. Visible(m) \subseteq Visible(Current)
      BY <2>2 DEF Visible, MadeBy, Delivered
    <2>4. \A k \in Modules : Visible(k)' = Visible(k)
      BY <2>1, SameVisible DEF LoadCached, heap
    <2>5. \A k \in Modules : globals'[k] \subseteq Visible(k)
      <3>1. \A k \in Modules : globals[k] \subseteq Visible(k)
        BY DEF Owned, GlobalsOwned
      <3> QED BY <1>0, <2>2, <2>3, <3>1, ImportType
    <2>6. GlobalsOwned'
      BY <2>4, <2>5 DEF GlobalsOwned
    <2> QED BY <1>1, <2>1, <2>6 DEF LoadCached, Owned, RunningOnce, heap
  <1>7. CASE Deliver
    BY <1>7, DeliverOwned
  <1>8. CASE Finish \/ Fail
    BY <1>1, <1>2, <1>3, <1>8 DEF Finish, Fail, heap
  <1>9. CASE Operate
    BY <1>9, OperateOwned
  <1>10. CASE FreezeModule
    BY <1>1, <1>2, <1>10 DEF FreezeModule, heap, Owned, RunningOnce
  <1>11. CASE UNCHANGED vars
    BY <1>1, <1>2, <1>11 DEF vars, Owned, RunningOnce
  <1> QED BY <1>4, <1>5, <1>6, <1>7, <1>8, <1>9, <1>10, <1>11 DEF Next

LEMMA OwnedInit == Init => Owned
  <1> SUFFICES ASSUME Init PROVE Owned
    OBVIOUS
  <1>1. TypeOK
    BY EmptySeq DEF Init, TypeOK, Tokens
  <1> QED BY <1>1 DEF Init, Owned, OwnToken, ItemsOwned, GlobalsOwned, RunningOnce

LEMMA OwnedAlways == Kwargs = {} => (Spec => []Owned)
  <1> SUFFICES ASSUME Kwargs = {} PROVE Spec => []Owned
    OBVIOUS
  <1>1. Owned /\ [Next]_vars => Owned'
    BY OwnedStep
  <1> QED BY OwnedInit, <1>1, PTL DEF Spec

(* All that can be reached from a delivered module is read-only, as long   *)
(* as no function collects **kwargs.                                       *)
THEOREM DeepFrozen == Kwargs = {} => (Spec => []LoadedIsDeepFrozen)
  <1> SUFFICES ASSUME Kwargs = {} PROVE Spec => []LoadedIsDeepFrozen
    OBVIOUS
  <1>1. Owned => LoadedIsDeepFrozen
    BY DeliveredClosed DEF LoadedIsDeepFrozen
  <1>2. Spec => []Owned
    BY OwnedAlways
  <1> QED BY <1>1, <1>2, PTL

-----------------------------------------------------------------------------
(* When no value in a closed set changes, the same is reached inside it.   *)
LEMMA SameReach ==
  ASSUME NEW C \in SUBSET Objects, NEW S \in SUBSET C, Closed(C),
         \A o \in C : items'[o] = items[o]
  PROVE  Reach(S)' = Reach(S)
  <1>1. ASSUME NEW o \in Reach(S) PROVE o \in Reach(S)'
    <2> SUFFICES ASSUME NEW D \in SUBSET Objects, S \subseteq D,
                        \A p \in D : items'[p] \subseteq D
                 PROVE  o \in D
      BY <1>1 DEF Reach, Closed
    <2>1. C \cap D \in SUBSET Objects /\ S \subseteq C \cap D /\ Closed(C \cap D)
      BY DEF Closed
    <2> QED BY <1>1, <2>1 DEF Reach
  <1>2. ASSUME NEW o \in Objects, o \in Reach(S)' PROVE o \in Reach(S)
    <2> SUFFICES ASSUME NEW D \in SUBSET Objects, S \subseteq D, Closed(D)
                 PROVE  o \in D
      BY <1>2 DEF Reach
    <2>1. /\ C \cap D \in SUBSET Objects /\ S \subseteq C \cap D
          /\ \A p \in C \cap D : items'[p] \subseteq C \cap D
      BY DEF Closed
    <2> QED BY <1>2, <2>1 DEF Reach, Closed
  <1> QED BY <1>1, <1>2 DEF Reach

LEMMA SameGraph ==
  ASSUME Owned, [Next]_vars, NEW m \in loaded
  PROVE  Graph(m)' = Graph(m)
  <1>0. TypeOK /\ FrozenInv /\ m \in Modules
    BY DEF Owned, FrozenInv, TypeOK
  <1>1. /\ Delivered \in SUBSET Objects /\ Closed(Delivered)
        /\ Reach(globals[m]) \subseteq Delivered
        /\ \A o \in Delivered : items'[o] = items[o]
    BY <1>0, DeliveredClosed, StepKeepsFrozen DEF StaysFrozen, Delivered
  <1>2. globals[m] \subseteq Delivered
    BY DEF Owned, GlobalsOwned, Visible, MadeBy, Delivered, TypeOK
  <1>3. globals'[m] = globals[m]
    <2>1. Busy => m # Current /\ (Len(running) > 1 => m # Last(Front(running)))
      <3> SUFFICES ASSUME Busy
                   PROVE  m # Current /\ (Len(running) > 1 => m # Last(Front(running)))
        OBVIOUS
      <3>1. /\ Len(running) \in Nat \ {0} /\ Current = running[Len(running)]
        BY <1>0, CurrentType
      <3>2. \A i \in 1..Len(running) : running[i] # m
        BY DEF Owned, RunningOnce
      <3>3. Len(running) > 1 => Last(Front(running)) = running[Len(running) - 1]
        <4>1. running \in Seq(Modules) /\ running # << >>
          BY <1>0 DEF Busy, TypeOK
        <4>2. /\ Front(running) # << >> => Last(Front(running)) = running[Len(running) - 1]
              /\ Front(running) = << >> <=> Len(running) = 1
          BY <4>1, PopStack
        <4> QED BY <3>1, <4>2
      <3> QED BY <3>1, <3>2, <3>3
    <2>2. ASSUME NEW o \in Objects, NEW token, NEW e, Make(o, token, e)
          PROVE  globals'[m] = globals[m]
      <3>1. Busy /\ globals' = [globals EXCEPT ![Current] = @ \cup {o}]
        BY <2>2 DEF Make
      <3> QED BY <1>0, <2>1, <3>1 DEF TypeOK
    <2>3. CASE \E n \in Modules : LoadCached(n)
      <3>1. PICK n \in Modules : LoadCached(n)
        BY <2>3
      <3>2. Busy /\ Import(Current, n)
        BY <3>1 DEF LoadCached
      <3>3. Current \in Modules
        BY <1>0, <3>2, CurrentType
      <3> QED BY <1>0, <2>1, <3>2, <3>3, ImportType
    <2>4. CASE Deliver
      <3>1. /\ Busy /\ Len(running) > 1 /\ Current \in Modules
            /\ Last(Front(running)) \in Modules
            /\ Import(Last(Front(running)), Current)
        BY <1>0, <2>4, DeliverType DEF Deliver
      <3> QED BY <1>0, <2>1, <3>1, ImportType
    <2>5. CASE globals' = globals
      BY <2>5
    <2>6. CASE Operate
      <3>1. \A a \in Held : \A e : Change(a, e) \/ FreezeValue(a) => globals' = globals
        BY DEF Change, FreezeValue
      <3> QED BY <1>0, <2>2, <2>5, <2>6, <3>1, OperateCases, KwargsAssumption
    <2> QED BY <2>3, <2>4, <2>5, <2>6
            DEF Next, Exec, Load, Finish, Fail, FreezeModule, vars
  <1>4. Reach(globals[m])' = Reach(globals[m])
    <2>1. PICK T \in SUBSET Delivered : T = globals[m]
      BY <1>2
    <2>2. Reach(T)' = Reach(T)
      BY <1>1, SameReach
    <2>3. Reach(globals[m])' = Reach(T)'
      BY <1>3, <2>1 DEF Reach
    <2> QED BY <2>1, <2>2, <2>3
  <1> QED BY <1>1, <1>4 DEF Graph

(* A module is delivered once, and what is reached from it never changes   *)
(* afterwards: Freezing implements Publication.                            *)
THEOREM KeepsPromise == Kwargs = {} => (Spec => PromiseKept)
  <1> SUFFICES ASSUME Kwargs = {} PROVE Spec => PromiseKept
    OBVIOUS
  <1> DEFINE Published == [m \in Modules |-> IF m \in loaded THEN Graph(m) ELSE NotYet]
  <1>1. Init => Promise!Init
    BY DEF Init, Promise!Init
  <1>2. Owned /\ Owned' /\ [Next]_vars => [Promise!Next]_Published
    <2> SUFFICES ASSUME Owned, Owned', [Next]_vars
                 PROVE  Promise!Next \/ Published' = Published
      OBVIOUS
    <2>1. \A m \in loaded : Graph(m)' = Graph(m)
      BY SameGraph
    <2>2. CASE loaded' = loaded
      <3>1. \A m \in Modules : m \in loaded => Graph(m)' = Graph(m)
        BY <2>1
      <3> QED BY <2>2, <3>1
    <2>3. CASE Deliver
      <3>1. /\ Current \in Modules /\ loaded' = loaded \cup {Current}
            /\ Current \notin loaded
        <4>1. Busy /\ TypeOK /\ loaded' = loaded \cup {Current}
          BY <2>3 DEF Deliver, Owned
        <4>2. /\ Len(running) \in Nat \ {0} /\ Current = running[Len(running)]
              /\ Current \in Modules
          BY <4>1, CurrentType
        <4>3. Len(running) \in 1..Len(running)
          BY <4>2
        <4> QED BY <4>1, <4>2, <4>3 DEF Owned, RunningOnce
      <3>2. PICK n \in Modules : n = Current
        BY <3>1
      <3>3. Graph(n)' \in Graphs
        <4>1. items' \in [Objects -> SUBSET Objects] /\ Reach(globals[n])' \in SUBSET Objects
          BY DEF Owned, TypeOK, Reach
        <4>2. Graph(n)' \in [Reach(globals[n])' -> SUBSET Objects]
          BY <4>1 DEF Graph
        <4> QED BY <4>1, <4>2 DEF Graphs
      <3>4. /\ Published[n] = NotYet
            /\ Published'[n] = Graph(n)'
            /\ Published' = [Published EXCEPT ![n] = Published'[n]]
        <4>1. \A m \in Modules \ {n} : /\ m \in loaded' <=> m \in loaded
                                       /\ m \in loaded => Graph(m)' = Graph(m)
          BY <2>1, <3>1, <3>2
        <4> QED BY <3>1, <3>2, <4>1
      <3> QED BY <3>3, <3>4 DEF Promise!Next, Promise!Publish
    <2>4. CASE ~Deliver
      <3>1. loaded' = loaded
        <4>1. CASE Operate
          <5>1. TypeOK
            BY DEF Owned
          <5> QED BY <4>1, <5>1, OperateCases DEF Make, Change, FreezeValue
        <4> QED BY <2>4, <4>1
                DEF Next, Exec, Load, LoadCached, Finish, Fail, FreezeModule, vars
      <3> QED BY <2>2, <3>1
    <2> QED BY <2>3, <2>4
  <1>3. Spec => []Owned
    BY OwnedAlways
  <1> HIDE DEF Published
  <1>4. Promise!Spec <=> Promise!Init /\ [][Promise!Next]_Published
    BY DEF Promise!Spec, Published
  <1> QED BY <1>1, <1>2, <1>3, <1>4, PTL DEF Spec, PromiseKept
=============================================================================
