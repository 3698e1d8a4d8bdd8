---------------------------- MODULE LoadingProofs ----------------------------
(***************************************************************************)
(* Proofs about Loading: for any number of threads, what the cache holds   *)
(* and what load() delivers is frozen, and a cached file has been delivered*)
(* all it loads, without cycles; and while one thread uses it the loader   *)
(* keeps the promise of Publication although nothing marks a file as being *)
(* loaded, because a file that loads itself through others never ends.     *)
(***************************************************************************)
EXTENDS Loading, StackLemmas

-----------------------------------------------------------------------------
LEMMA TopType ==
  ASSUME TypeOK, NEW t \in Threads, stack[t] # << >>
  PROVE  /\ stack[t] \in Seq(Run) /\ Top(t) \in Run
         /\ Len(stack[t]) \in Nat \ {0} /\ Top(t) = stack[t][Len(stack[t])]
  <1>1. stack[t] \in Seq(Run)
    BY DEF TypeOK
  <1> QED BY <1>1, PopStack DEF Top

LEMMA ExecuteType ==
  ASSUME TypeOK, NEW t \in Threads, NEW f \in Files, Execute(t, f)
  PROVE  /\ made' \in 0..MaxModules
         /\ stack' \in [Threads -> Seq(Run)]
         /\ \A u \in Threads \ {t} : stack'[u] = stack[u]
         /\ Len(stack[t]) \in Nat /\ Len(stack'[t]) = Len(stack[t]) + 1
         /\ \A i \in 1..Len(stack[t]) : stack'[t][i] = stack[t][i]
         /\ stack'[t][Len(stack[t]) + 1] =
              [file |-> f, module |-> made + 1, todo |-> deps[f], phase |-> "executing"]
  <1> DEFINE run == [file |-> f, module |-> made + 1, todo |-> deps[f], phase |-> "executing"]
  <1>1. made + 1 \in Modules /\ made' \in 0..MaxModules
    BY BoundsAssumption DEF TypeOK, Execute, Modules
  <1>2. run \in Run
    BY <1>1 DEF TypeOK, Run
  <1>3. stack[t] \in Seq(Run) /\ stack' = [stack EXCEPT ![t] = Append(@, run)]
    BY DEF TypeOK, Execute
  <1> HIDE DEF run
  <1>4. /\ Append(stack[t], run) \in Seq(Run)
        /\ Len(Append(stack[t], run)) = Len(stack[t]) + 1 /\ Len(stack[t]) \in Nat
        /\ \A i \in 1..Len(stack[t]) : Append(stack[t], run)[i] = stack[t][i]
        /\ Append(stack[t], run)[Len(stack[t]) + 1] = run
    BY <1>2, <1>3, PushStack
  <1>5. stack' \in [Threads -> Seq(Run)] /\ stack'[t] = Append(stack[t], run)
        /\ \A u \in Threads \ {t} : stack'[u] = stack[u]
    BY <1>3, <1>4 DEF TypeOK
  <1> QED BY <1>1, <1>4, <1>5 DEF run

(* Replacing the innermost call of s, a stack of thread t.                 *)
LEMMA ReplaceType ==
  ASSUME TypeOK, NEW t \in Threads, NEW s \in Seq(Run), s # << >>, NEW run \in Run,
         stack' = [stack EXCEPT ![t] = Append(Front(s), run)]
  PROVE  /\ stack' \in [Threads -> Seq(Run)]
         /\ \A u \in Threads \ {t} : stack'[u] = stack[u]
         /\ Len(s) \in Nat \ {0} /\ Len(stack'[t]) = Len(s)
         /\ \A i \in 1..(Len(s) - 1) : stack'[t][i] = s[i]
         /\ stack'[t][Len(s)] = run
  <1>1. /\ Front(s) \in Seq(Run) /\ Len(s) \in Nat \ {0} /\ Len(Front(s)) = Len(s) - 1
        /\ \A i \in 1..Len(Front(s)) : Front(s)[i] = s[i]
    BY PopStack
  <1>2. /\ Append(Front(s), run) \in Seq(Run)
        /\ Len(Append(Front(s), run)) = Len(Front(s)) + 1
        /\ \A i \in 1..Len(Front(s)) : Append(Front(s), run)[i] = Front(s)[i]
        /\ Append(Front(s), run)[Len(Front(s)) + 1] = run
    BY <1>1, PushStack
  <1>3. stack' \in [Threads -> Seq(Run)] /\ stack'[t] = Append(Front(s), run)
        /\ \A u \in Threads \ {t} : stack'[u] = stack[u]
    BY <1>2 DEF TypeOK
  <1> QED BY <1>1, <1>2, <1>3

LEMMA DeliverType ==
  ASSUME TypeOK, NEW t \in Threads, NEW s \in Seq(Run), s # << >>, NEW f \in Files,
         NEW m \in Modules, DeliverTo(t, s, f, m)
  PROVE  /\ stack' \in [Threads -> Seq(Run)]
         /\ got' \in [Modules -> SUBSET (Files \X Modules)]
         /\ \A k \in Modules : got'[k] \subseteq got[k] \cup {<<f, m>>}
         /\ \A u \in Threads \ {t} : stack'[u] = stack[u]
         /\ Len(s) \in Nat \ {0} /\ Len(stack'[t]) = Len(s)
         /\ \A i \in 1..(Len(s) - 1) : stack'[t][i] = s[i]
         /\ stack'[t][Len(s)] = [s[Len(s)] EXCEPT !.todo = @ \ {f}]
         /\ s[Len(s)] \in Run
  <1>1. Last(s) \in Run /\ Last(s) = s[Len(s)]
    BY PopStack
  <1>2. [Last(s) EXCEPT !.todo = @ \ {f}] \in Run /\ Last(s).module \in Modules
    BY <1>1 DEF Run
  <1>3. /\ stack' = [stack EXCEPT ![t] = Append(Front(s), [Last(s) EXCEPT !.todo = @ \ {f}])]
        /\ got' = [got EXCEPT ![Last(s).module] = @ \cup {<<f, m>>}]
    BY DEF DeliverTo
  <1>4. /\ got' \in [Modules -> SUBSET (Files \X Modules)]
        /\ \A k \in Modules : got'[k] \subseteq got[k] \cup {<<f, m>>}
    BY <1>2, <1>3 DEF TypeOK
  <1>5. /\ stack' \in [Threads -> Seq(Run)]
        /\ \A u \in Threads \ {t} : stack'[u] = stack[u]
        /\ Len(s) \in Nat \ {0} /\ Len(stack'[t]) = Len(s)
        /\ \A i \in 1..(Len(s) - 1) : stack'[t][i] = s[i]
        /\ stack'[t][Len(s)] = [Last(s) EXCEPT !.todo = @ \ {f}]
    BY <1>2, <1>3, ReplaceType, ZenonT(40)
  <1> QED BY <1>1, <1>4, <1>5

(* The call that ends and the calls left.                                  *)
LEMMA KeepType ==
  ASSUME TypeOK, NEW t \in Threads, Keep(t)
  PROVE  /\ stack[t] # << >> /\ Top(t) \in Run
         /\ Front(stack[t]) \in Seq(Run) /\ Front(stack[t]) # << >>
         /\ Len(stack[t]) \in Nat /\ Len(stack[t]) > 1
         /\ Len(Front(stack[t])) = Len(stack[t]) - 1
         /\ \A i \in 1..(Len(stack[t]) - 1) : Front(stack[t])[i] = stack[t][i]
         /\ DeliverTo(t, Front(stack[t]), Top(t).file, Top(t).module)
  <1>1. stack[t] \in Seq(Run) /\ Len(stack[t]) > 1
        /\ DeliverTo(t, Front(stack[t]), Top(t).file, Top(t).module)
    BY DEF TypeOK, Keep
  <1>2. stack[t] # << >>
    BY <1>1, EmptySeq
  <1>3. /\ Front(stack[t]) \in Seq(Run) /\ Len(stack[t]) \in Nat \ {0}
        /\ Len(Front(stack[t])) = Len(stack[t]) - 1
        /\ \A i \in 1..Len(Front(stack[t])) : Front(stack[t])[i] = stack[t][i]
        /\ Front(stack[t]) = << >> <=> Len(stack[t]) = 1
    BY <1>1, <1>2, PopStack
  <1> QED BY <1>1, <1>2, <1>3, TopType

LEMMA FreezeType ==
  ASSUME TypeOK, NEW t \in Threads, Freeze(t)
  PROVE  /\ stack[t] # << >> /\ Top(t) \in Run
         /\ stack' \in [Threads -> Seq(Run)]
         /\ \A u \in Threads \ {t} : stack'[u] = stack[u]
         /\ Len(stack[t]) \in Nat \ {0} /\ Len(stack'[t]) = Len(stack[t])
         /\ \A i \in 1..(Len(stack[t]) - 1) : stack'[t][i] = stack[t][i]
         /\ stack'[t][Len(stack[t])] = [stack[t][Len(stack[t])] EXCEPT !.phase = "frozen"]
  <1>0. stack[t] \in Seq(Run) /\ Len(stack[t]) > 1
    BY DEF TypeOK, Freeze
  <1>1. stack[t] \in Seq(Run) /\ stack[t] # << >>
    BY <1>0, EmptySeq
  <1>2. Top(t) \in Run /\ Top(t) = stack[t][Len(stack[t])]
    BY <1>1, TopType
  <1>3. [Top(t) EXCEPT !.phase = "frozen"] \in Run
    BY <1>2 DEF Run
  <1>4. stack' = [stack EXCEPT ![t] = Append(Front(stack[t]), [Top(t) EXCEPT !.phase = "frozen"])]
    BY DEF Freeze
  <1>5. /\ Front(stack[t]) \in Seq(Run) /\ Len(stack[t]) \in Nat \ {0}
        /\ Len(Front(stack[t])) = Len(stack[t]) - 1
        /\ \A i \in 1..Len(Front(stack[t])) : Front(stack[t])[i] = stack[t][i]
    BY <1>1, PopStack
  <1>6. PICK s \in Seq(Run), run \in Run :
          s = Front(stack[t]) /\ run = [Top(t) EXCEPT !.phase = "frozen"]
    BY <1>3, <1>5
  <1>7. /\ Append(s, run) \in Seq(Run) /\ Len(Append(s, run)) = Len(s) + 1
        /\ \A i \in 1..Len(s) : Append(s, run)[i] = s[i]
        /\ Append(s, run)[Len(s) + 1] = run
    BY PushStack
  <1>8. stack' \in [Threads -> Seq(Run)] /\ stack'[t] = Append(s, run)
        /\ \A u \in Threads \ {t} : stack'[u] = stack[u]
    BY <1>4, <1>6, <1>7 DEF TypeOK
  <1>9. Len(s) = Len(stack[t]) - 1 /\ \A i \in 1..(Len(stack[t]) - 1) : s[i] = stack[t][i]
    BY <1>5, <1>6
  <1>10. Len(s) + 1 = Len(stack[t])
    BY <1>5, <1>9
  <1>11. /\ Len(stack'[t]) = Len(stack[t])
         /\ \A i \in 1..(Len(stack[t]) - 1) : stack'[t][i] = stack[t][i]
         /\ stack'[t][Len(stack[t])] = [stack[t][Len(stack[t])] EXCEPT !.phase = "frozen"]
    BY <1>2, <1>6, <1>7, <1>8, <1>9, <1>10
  <1> QED BY <1>1, <1>2, <1>5, <1>8, <1>11

LEMMA TypeStep == TypeOK /\ [Next]_vars => TypeOK'
  <1> SUFFICES ASSUME TypeOK, [Next]_vars PROVE TypeOK'
    OBVIOUS
  <1>0. << >> \in Seq(Run)
    BY EmptySeq
  <1>1. ASSUME NEW t \in Threads, NEW f \in Files, Start(t, f) \/ Miss(t, f) PROVE TypeOK'
    <2>1. Execute(t, f) /\ UNCHANGED <<users, deps, cache, frozen, got>>
      BY <1>1 DEF Start, Miss
    <2>2. made' \in 0..MaxModules /\ stack' \in [Threads -> Seq(Run)]
      BY <2>1, ExecuteType
    <2> QED BY <2>1, <2>2 DEF TypeOK
  <1>2. ASSUME NEW t \in Threads, NEW f \in Files, Hit(t, f) PROVE TypeOK'
    <2>1. /\ stack[t] \in Seq(Run) /\ stack[t] # << >> /\ cache[f] \in Modules
          /\ DeliverTo(t, stack[t], f, cache[f])
      BY <1>2 DEF Hit, TypeOK
    <2>2. /\ stack' \in [Threads -> Seq(Run)]
          /\ got' \in [Modules -> SUBSET (Files \X Modules)]
      BY <2>1, DeliverType
    <2> QED BY <1>2, <2>2 DEF TypeOK, Hit
  <1>3. ASSUME NEW t \in Threads, Freeze(t) PROVE TypeOK'
    <2>1. stack' \in [Threads -> Seq(Run)] /\ Top(t).module \in Modules
      BY <1>3, FreezeType DEF Run
    <2> QED BY <1>3, <2>1 DEF TypeOK, Freeze
  <1>4. ASSUME NEW t \in Threads, Keep(t) PROVE TypeOK'
    <2>1. /\ Front(stack[t]) \in Seq(Run) /\ Front(stack[t]) # << >>
          /\ Top(t).file \in Files /\ Top(t).module \in Modules
          /\ DeliverTo(t, Front(stack[t]), Top(t).file, Top(t).module)
      BY <1>4, KeepType DEF Run
    <2>2. /\ stack' \in [Threads -> Seq(Run)]
          /\ got' \in [Modules -> SUBSET (Files \X Modules)]
      BY <2>1, DeliverType
    <2> QED BY <1>4, <2>1, <2>2 DEF TypeOK, Keep
  <1>5. ASSUME NEW t \in Threads, Finish(t) \/ Fail(t) PROVE TypeOK'
    BY <1>0, <1>5 DEF Finish, Fail, TypeOK
  <1>6. CASE UNCHANGED vars
    BY <1>6 DEF vars, TypeOK
  <1> QED BY <1>1, <1>2, <1>3, <1>4, <1>5, <1>6 DEF Next

LEMMA TypeInit == Init => TypeOK
  BY BoundsAssumption, EmptySeq DEF Init, TypeOK

-----------------------------------------------------------------------------
(* A module is frozen before it is cached and before it is delivered.      *)
Phases(t) ==
  \A i \in 1..Len(stack[t]) : stack[t][i].phase = "frozen" => stack[t][i].module \in frozen
FrozenFirst ==
  /\ \A t \in Threads : Phases(t)
  /\ \A f \in Cached : cache[f] \in frozen
  /\ DeliveredFrozen

(* Only the innermost call of a stack changes, and is frozen if it says so. *)
LEMMA PhasesKept ==
  ASSUME NEW t \in Threads, NEW n \in Nat \ {0}, FrozenFirst, frozen \subseteq frozen',
         n <= Len(stack[t]), Len(stack[t]) \in Nat, Len(stack'[t]) = n,
         \A i \in 1..(n - 1) : stack'[t][i] = stack[t][i],
         stack'[t][n].phase = "frozen" => stack'[t][n].module \in frozen'
  PROVE  Phases(t)'
  <1>1. \A i \in 1..(n - 1) : stack'[t][i].phase = "frozen" => stack'[t][i].module \in frozen'
    BY DEF FrozenFirst, Phases
  <1>2. \A i \in 1..n : i \in 1..(n - 1) \/ i = n
    OBVIOUS
  <1> QED BY <1>1, <1>2 DEF Phases

LEMMA FrozenStep == TypeOK /\ FrozenFirst /\ [Next]_vars => FrozenFirst'
  <1> SUFFICES ASSUME TypeOK, FrozenFirst, [Next]_vars PROVE FrozenFirst'
    OBVIOUS
  <1>0. \A u \in Threads : stack'[u] = stack[u] /\ frozen \subseteq frozen' => Phases(u)'
    BY DEF FrozenFirst, Phases
  <1>1. ASSUME NEW t \in Threads, NEW f \in Files, Start(t, f) \/ Miss(t, f) PROVE FrozenFirst'
    <2>1. Execute(t, f) /\ UNCHANGED <<users, deps, cache, frozen, got>>
      BY <1>1 DEF Start, Miss
    <2> DEFINE run == [file |-> f, module |-> made + 1, todo |-> deps[f], phase |-> "executing"]
    <2>0. run.phase = "executing"
      OBVIOUS
    <2> HIDE DEF run
    <2>2. /\ \A u \in Threads \ {t} : stack'[u] = stack[u]
          /\ Len(stack[t]) \in Nat /\ Len(stack'[t]) = Len(stack[t]) + 1
          /\ \A i \in 1..Len(stack[t]) : stack'[t][i] = stack[t][i]
          /\ stack'[t][Len(stack[t]) + 1] = run
      BY <2>1, ExecuteType DEF run
    <2>3. Phases(t)'
      BY <2>0, <2>1, <2>2 DEF FrozenFirst, Phases
    <2> QED BY <1>0, <2>1, <2>2, <2>3 DEF FrozenFirst, DeliveredFrozen, Cached
  <1>2. ASSUME NEW t \in Threads, NEW f \in Files, Hit(t, f) PROVE FrozenFirst'
    <2>1. /\ stack[t] \in Seq(Run) /\ stack[t] # << >> /\ cache[f] \in Modules
          /\ cache[f] \in frozen /\ DeliverTo(t, stack[t], f, cache[f])
          /\ UNCHANGED <<users, deps, cache, frozen, made>>
      BY <1>2 DEF Hit, TypeOK, FrozenFirst, Cached
    <2>2. /\ \A k \in Modules : got'[k] \subseteq got[k] \cup {<<f, cache[f]>>}
          /\ \A u \in Threads \ {t} : stack'[u] = stack[u]
          /\ Len(stack[t]) \in Nat \ {0} /\ Len(stack'[t]) = Len(stack[t])
          /\ \A i \in 1..(Len(stack[t]) - 1) : stack'[t][i] = stack[t][i]
          /\ stack'[t][Len(stack[t])] = [stack[t][Len(stack[t])] EXCEPT !.todo = @ \ {f}]
          /\ stack[t][Len(stack[t])] \in Run
      BY <2>1, DeliverType
    <2>3. /\ stack'[t][Len(stack[t])].phase = stack[t][Len(stack[t])].phase
          /\ stack'[t][Len(stack[t])].module = stack[t][Len(stack[t])].module
      BY <2>2 DEF Run
    <2>4. Phases(t)'
      <3> DEFINE n == Len(stack[t])
      <3>1. stack[t][n].phase = "frozen" => stack[t][n].module \in frozen
        BY <2>2 DEF FrozenFirst, Phases
      <3>2. /\ n \in Nat \ {0} /\ Len(stack'[t]) = n /\ frozen' = frozen
            /\ \A i \in 1..(n - 1) : stack'[t][i] = stack[t][i]
        BY <2>1, <2>2
      <3>3. stack'[t][n].phase = "frozen" => stack'[t][n].module \in frozen'
        BY <2>3, <3>1, <3>2
      <3> HIDE DEF n
      <3> QED BY <3>2, <3>3, PhasesKept DEF n
    <2>5. DeliveredFrozen'
      BY <2>1, <2>2 DEF FrozenFirst, DeliveredFrozen
    <2> QED BY <1>0, <2>1, <2>2, <2>4, <2>5 DEF FrozenFirst, Cached
  <1>3. ASSUME NEW t \in Threads, Freeze(t) PROVE FrozenFirst'
    <2>1. /\ \A u \in Threads \ {t} : stack'[u] = stack[u]
          /\ Len(stack[t]) \in Nat \ {0} /\ Len(stack'[t]) = Len(stack[t])
          /\ \A i \in 1..(Len(stack[t]) - 1) : stack'[t][i] = stack[t][i]
          /\ stack'[t][Len(stack[t])] = [stack[t][Len(stack[t])] EXCEPT !.phase = "frozen"]
          /\ Top(t) \in Run /\ Top(t) = stack[t][Len(stack[t])]
      BY <1>3, FreezeType, TopType
    <2>2. /\ stack'[t][Len(stack[t])].module = Top(t).module
          /\ frozen' = frozen \cup {Top(t).module} /\ UNCHANGED <<users, deps, cache, made, got>>
      BY <1>3, <2>1 DEF Freeze, Run
    <2>3. Phases(t)'
      <3> DEFINE n == Len(stack[t])
      <3>1. stack'[t][n].module \in frozen'
        BY <2>2
      <3>2. /\ n \in Nat \ {0} /\ Len(stack'[t]) = n /\ frozen \subseteq frozen'
            /\ \A i \in 1..(n - 1) : stack'[t][i] = stack[t][i]
        BY <2>1, <2>2
      <3> HIDE DEF n
      <3> QED BY <3>1, <3>2, PhasesKept DEF n
    <2> QED BY <1>0, <2>1, <2>2, <2>3 DEF FrozenFirst, DeliveredFrozen, Cached
  <1>4. ASSUME NEW t \in Threads, Keep(t) PROVE FrozenFirst'
    <2>1. PICK s \in Seq(Run), f \in Files, m \in Modules :
            /\ s = Front(stack[t]) /\ f = Top(t).file /\ m = Top(t).module
      BY <1>4, KeepType DEF Run
    <2>2. /\ s # << >> /\ stack[t] # << >>
          /\ Len(stack[t]) \in Nat /\ Len(stack[t]) > 1 /\ Len(s) = Len(stack[t]) - 1
          /\ \A i \in 1..(Len(stack[t]) - 1) : s[i] = stack[t][i]
          /\ DeliverTo(t, s, f, m)
      BY <1>4, <2>1, KeepType
    <2>3. /\ UNCHANGED <<users, deps, frozen, made>> /\ Top(t).phase = "frozen"
          /\ cache' = [cache EXCEPT ![f] = m]
      BY <1>4, <2>1 DEF Keep
    <2>4. m \in frozen
      <3>1. Top(t) = stack[t][Len(stack[t])] /\ Len(stack[t]) \in 1..Len(stack[t])
        BY <2>2, TopType
      <3> QED BY <2>1, <2>3, <3>1 DEF FrozenFirst, Phases
    <2>a. /\ s \in Seq(Run) /\ f \in Files /\ m \in Modules /\ s # << >>
          /\ DeliverTo(t, s, f, m)
      BY <2>1, <2>2
    <2>5. /\ \A k \in Modules : got'[k] \subseteq got[k] \cup {<<f, m>>}
          /\ \A u \in Threads \ {t} : stack'[u] = stack[u]
          /\ Len(s) \in Nat \ {0} /\ Len(stack'[t]) = Len(s)
          /\ \A i \in 1..(Len(s) - 1) : stack'[t][i] = s[i]
          /\ stack'[t][Len(s)] = [s[Len(s)] EXCEPT !.todo = @ \ {f}]
          /\ s[Len(s)] \in Run
      BY ONLY <2>a, TypeOK, t \in Threads, DeliverType
    <2>6. /\ stack'[t][Len(s)].phase = s[Len(s)].phase
          /\ stack'[t][Len(s)].module = s[Len(s)].module
      BY <2>5 DEF Run
    <2>7. Phases(t)'
      <3> DEFINE n == Len(s)
      <3>0. /\ n \in Nat \ {0} /\ Len(stack'[t]) = n /\ frozen' = frozen
            /\ n < Len(stack[t]) /\ Len(stack[t]) \in Nat
        BY <2>2, <2>3, <2>5
      <3>1. n \in 1..Len(stack[t]) /\ s[n] = stack[t][n]
        BY <2>2, <3>0
      <3>2. \A i \in 1..(n - 1) : stack'[t][i] = stack[t][i]
        <4>1. \A i \in 1..(n - 1) : i \in 1..(Len(stack[t]) - 1)
          BY <3>0
        <4> QED BY <2>2, <2>5, <4>1
      <3>3. stack[t][n].phase = "frozen" => stack[t][n].module \in frozen
        BY <3>1 DEF FrozenFirst, Phases
      <3>4. stack'[t][n].phase = "frozen" => stack'[t][n].module \in frozen'
        BY <2>6, <3>0, <3>1, <3>3
      <3> HIDE DEF n
      <3> QED BY <3>0, <3>2, <3>4, PhasesKept
    <2>8. DeliveredFrozen'
      BY <2>3, <2>4, <2>5 DEF FrozenFirst, DeliveredFrozen
    <2>9. \A g \in Cached' : cache'[g] \in frozen'
      BY <2>3, <2>4 DEF FrozenFirst, Cached, TypeOK
    <2> QED BY <1>0, <2>3, <2>5, <2>7, <2>8, <2>9 DEF FrozenFirst
  <1>5. ASSUME NEW t \in Threads, Finish(t) \/ Fail(t) PROVE FrozenFirst'
    <2>1. /\ \A u \in Threads \ {t} : stack'[u] = stack[u]
          /\ stack'[t] = << >> /\ UNCHANGED <<users, deps, cache, frozen, made, got>>
      BY <1>5 DEF Finish, Fail, TypeOK
    <2>2. Phases(t)'
      BY <2>1 DEF FrozenFirst, Phases
    <2> QED BY <1>0, <2>1, <2>2 DEF FrozenFirst, DeliveredFrozen, Cached
  <1>6. CASE UNCHANGED vars
    BY <1>6 DEF vars, FrozenFirst, Phases, DeliveredFrozen, Cached
  <1> QED BY <1>1, <1>2, <1>3, <1>4, <1>5, <1>6 DEF Next

(* Every module a load() delivers is frozen, whatever the threads do.      *)
THEOREM DeliversFrozen == Spec => []DeliveredFrozen
  <1>1. Init => TypeOK /\ FrozenFirst
    BY TypeInit, EmptySeq DEF Init, FrozenFirst, Phases, DeliveredFrozen, Cached
  <1>2. TypeOK /\ FrozenFirst /\ [Next]_vars => (TypeOK /\ FrozenFirst)'
    BY TypeStep, FrozenStep
  <1>3. FrozenFirst => DeliveredFrozen
    BY DEF FrozenFirst
  <1> QED BY <1>1, <1>2, <1>3, PTL DEF Spec

-----------------------------------------------------------------------------
(* One thread.  Only the file the host executes may be in the cache while  *)
(* it runs; every other file on the stack is one its importer is waiting   *)
(* for.  A file that ends has found all it loads in the cache, so it is    *)
(* not further down the stack too: there it would be waiting for a file    *)
(* that is cached.                                                         *)
Uncached(s, C)  == \A i \in 2..Len(s) : s[i].file \notin C
Found(s, C, D)  == \A i \in 1..Len(s) : /\ s[i].todo \subseteq D[s[i].file]
                                        /\ D[s[i].file] \ s[i].todo \subseteq C
Awaited(s)      == \A i \in 1..(Len(s) - 1) : s[i + 1].file \in s[i].todo
FrozenEnd(s)    == \A i \in 1..Len(s) : s[i].phase = "frozen" => s[i].todo = {}
Waiting(s, C, D) == Uncached(s, C) /\ Found(s, C, D) /\ Awaited(s) /\ FrozenEnd(s)
OneAtATime == \A t \in Threads : Waiting(stack[t], Cached, deps)

(* s with x, a file that has just begun, on top                            *)
LEMMA PushWaits ==
  ASSUME NEW s, NEW r, NEW C, NEW D, NEW x, Waiting(s, C, D),
         Len(s) \in Nat, Len(r) = Len(s) + 1,
         \A i \in 1..Len(s) : r[i] = s[i], r[Len(s) + 1] = x,
         x.todo = D[x.file], x.phase = "executing",
         Len(s) # 0 => x.file \notin C /\ x.file \in s[Len(s)].todo
  PROVE  Waiting(r, C, D)
  <1>1. \A i \in 1..Len(r) : i \in 1..Len(s) \/ (i = Len(s) + 1 /\ r[i] = x)
    OBVIOUS
  <1>2. Uncached(r, C)
    <2> SUFFICES ASSUME NEW i \in 2..Len(r) PROVE r[i].file \notin C
      BY DEF Uncached
    <2>1. CASE i = Len(s) + 1
      BY <2>1
    <2>2. CASE i # Len(s) + 1
      <3>1. i \in 2..Len(s) /\ i \in 1..Len(s)
        BY <2>2
      <3> QED BY <3>1 DEF Waiting, Uncached
    <2> QED BY <2>1, <2>2
  <1>3. Found(r, C, D) /\ FrozenEnd(r)
    BY <1>1 DEF Waiting, Found, FrozenEnd
  <1>4. Awaited(r)
    <2> SUFFICES ASSUME NEW i \in 1..(Len(r) - 1) PROVE r[i + 1].file \in r[i].todo
      BY DEF Awaited
    <2>1. CASE i = Len(s)
      <3>1. Len(s) # 0 /\ r[i + 1] = x /\ r[i] = s[Len(s)]
        BY <2>1
      <3> QED BY <3>1
    <2>2. CASE i # Len(s)
      <3>1. i \in 1..(Len(s) - 1) /\ i \in 1..Len(s) /\ i + 1 \in 1..Len(s)
        BY <2>2
      <3>2. r[i] = s[i] /\ r[i + 1] = s[i + 1]
        BY <3>1
      <3> QED BY <3>1, <3>2 DEF Waiting, Awaited
    <2> QED BY <2>1, <2>2
  <1> QED BY <1>2, <1>3, <1>4 DEF Waiting

(* the first n files of s, the last of which has found some files in E     *)
LEMMA TopWaits ==
  ASSUME NEW s, NEW r, NEW C, NEW E, NEW D, NEW n \in Nat \ {0}, Waiting(s, C, D),
         Len(s) \in Nat, n <= Len(s), Len(r) = n,
         \A i \in 1..(n - 1) : r[i] = s[i],
         r[n].file = s[n].file, r[n].todo \subseteq s[n].todo, s[n].todo \ r[n].todo \subseteq E,
         C \subseteq E, \A i \in 2..n : s[i].file \notin E,
         r[n].phase = "frozen" => r[n].todo = {}
  PROVE  Waiting(r, E, D)
  <1>1. \A i \in 1..n : i \in 1..Len(s) /\ r[i].file = s[i].file /\ (i = n \/ i \in 1..(n - 1))
    OBVIOUS
  <1>2. Uncached(r, E)
    <2>1. \A i \in 2..n : i \in 1..n
      OBVIOUS
    <2> QED BY <1>1, <2>1 DEF Uncached
  <1>3. Found(r, E, D)
    <2> SUFFICES ASSUME NEW i \in 1..n
                 PROVE  /\ r[i].todo \subseteq D[r[i].file]
                        /\ D[r[i].file] \ r[i].todo \subseteq E
      BY DEF Found
    <2>1. /\ s[i].todo \subseteq D[s[i].file] /\ D[s[i].file] \ s[i].todo \subseteq C
          /\ r[i].file = s[i].file
      BY <1>1 DEF Waiting, Found
    <2>2. r[i].todo \subseteq s[i].todo /\ s[i].todo \ r[i].todo \subseteq E
      BY <1>1
    <2> QED BY <2>1, <2>2
  <1>4. Awaited(r)
    <2> SUFFICES ASSUME NEW i \in 1..(n - 1) PROVE r[i + 1].file \in r[i].todo
      BY DEF Awaited
    <2>1. i \in 1..(Len(s) - 1) /\ i + 1 \in 1..n
      OBVIOUS
    <2>2. s[i + 1].file \in s[i].todo /\ r[i + 1].file = s[i + 1].file
      BY <1>1, <2>1 DEF Waiting, Awaited
    <2> QED BY <2>2
  <1>5. FrozenEnd(r)
    BY <1>1 DEF Waiting, FrozenEnd
  <1> QED BY <1>2, <1>3, <1>4, <1>5 DEF Waiting

(* The file of a call that ends is not further down its stack.             *)
LEMMA EndsOnce ==
  ASSUME NEW s, NEW C, NEW D, Waiting(s, C, D), Len(s) \in Nat \ {0},
         s[Len(s)].phase = "frozen"
  PROVE  \A i \in 1..(Len(s) - 1) : s[i].file # s[Len(s)].file
  <1> SUFFICES ASSUME NEW i \in 1..(Len(s) - 1), s[i].file = s[Len(s)].file PROVE FALSE
    OBVIOUS
  <1>1. i \in 1..Len(s) /\ i + 1 \in 2..Len(s) /\ Len(s) \in 1..Len(s)
    OBVIOUS
  <1>2. D[s[Len(s)].file] \subseteq C
    BY <1>1 DEF Waiting, Found, FrozenEnd
  <1>3. s[i + 1].file \in D[s[i].file]
    BY <1>1 DEF Waiting, Found, Awaited
  <1> QED BY <1>1, <1>2, <1>3 DEF Waiting, Uncached

LEMMA EmptyWaits == \A C, D : Waiting(<< >>, C, D)
  BY EmptySeq DEF Waiting, Uncached, Found, Awaited, FrozenEnd

Idle == \A t \in Threads \ users : stack[t] = << >>

LEMMA IdleStep ==
  TypeOK /\ Idle /\ [Next]_vars => Idle' /\ users' = users
  <1> SUFFICES ASSUME TypeOK, Idle, [Next]_vars PROVE Idle' /\ users' = users
    OBVIOUS
  <1>1. ASSUME NEW t \in Threads, NEW x, stack[t] # << >> \/ t \in users,
               stack' = [stack EXCEPT ![t] = x], users' = users
        PROVE  Idle'
    BY <1>1 DEF Idle, TypeOK
  <1>2. ASSUME NEW t \in Threads, NEW f \in Files, Start(t, f) \/ Miss(t, f)
        PROVE  Idle' /\ users' = users
    BY <1>1, <1>2 DEF Start, Miss, Execute
  <1>3. ASSUME NEW t \in Threads, NEW f \in Files, Hit(t, f)
        PROVE  Idle' /\ users' = users
    BY <1>1, <1>3 DEF Hit, DeliverTo
  <1>4. ASSUME NEW t \in Threads, Freeze(t) \/ Keep(t) \/ Finish(t) \/ Fail(t)
        PROVE  Idle' /\ users' = users
    <2>1. stack[t] # << >>
      BY <1>4, EmptySeq, SMTT(30) DEF Freeze, Keep, Finish, Fail
    <2> QED BY <1>1, <1>4, <2>1 DEF Freeze, Keep, Finish, Fail, DeliverTo
  <1>5. CASE UNCHANGED vars
    BY <1>5 DEF vars, Idle
  <1> QED BY <1>2, <1>3, <1>4, <1>5 DEF Next

(* Publication by the cache, whoever uses the loader.                      *)
OnceForAll == INSTANCE Publication WITH
                Modules <- Files, Graphs <- Modules, published <- cache

LEMMA OneAtATimeStep ==
  TypeOK /\ Idle /\ Alone /\ OneAtATime /\ [Next]_vars =>
    OneAtATime' /\ (UNCHANGED cache \/ \E f \in Files : OnceForAll!Publish(f))
  <1> DEFINE Goal == OneAtATime' /\ (UNCHANGED cache \/ \E f \in Files : OnceForAll!Publish(f))
  <1> SUFFICES ASSUME TypeOK, Idle, Alone, OneAtATime, [Next]_vars PROVE Goal
    OBVIOUS
  <1>0. ASSUME NEW t \in Threads, stack[t] # << >> \/ t \in users,
               \A u \in Threads \ {t} : stack'[u] = stack[u],
               Waiting(stack'[t], Cached', deps')
        PROVE  OneAtATime'
    <2>1. \A u \in Threads \ {t} : stack'[u] = << >>
      BY <1>0 DEF Idle, Alone
    <2> QED BY <1>0, <2>1, EmptyWaits DEF OneAtATime
  <1>1. ASSUME NEW t \in Threads, NEW f \in Files, Start(t, f) \/ Miss(t, f) PROVE Goal
    <2>1. /\ Execute(t, f) /\ UNCHANGED <<deps, cache>> /\ Cached' = Cached
          /\ Len(stack[t]) # 0 => f \notin Cached /\ f \in stack[t][Len(stack[t])].todo
          /\ stack[t] # << >> \/ t \in users
      BY <1>1, TopType, EmptySeq DEF Start, Miss, Cached
    <2> DEFINE run == [file |-> f, module |-> made + 1, todo |-> deps[f], phase |-> "executing"]
    <2>2. run.phase = "executing" /\ run.file = f /\ run.todo = deps[run.file]
      OBVIOUS
    <2>3. /\ \A u \in Threads \ {t} : stack'[u] = stack[u]
          /\ Len(stack[t]) \in Nat /\ Len(stack'[t]) = Len(stack[t]) + 1
          /\ \A i \in 1..Len(stack[t]) : stack'[t][i] = stack[t][i]
          /\ stack'[t][Len(stack[t]) + 1] = run
      BY <2>1, ExecuteType
    <2> HIDE DEF run
    <2>4. Waiting(stack[t], Cached, deps)
      BY DEF OneAtATime
    <2>5. Waiting(stack'[t], Cached, deps)
      BY <2>1, <2>2, <2>3, <2>4, PushWaits
    <2> QED BY <1>0, <2>1, <2>3, <2>5
  <1>2. ASSUME NEW t \in Threads, NEW f \in Files, Hit(t, f) PROVE Goal
    <2>1. /\ stack[t] \in Seq(Run) /\ stack[t] # << >> /\ cache[f] \in Modules
          /\ DeliverTo(t, stack[t], f, cache[f]) /\ f \in Cached
          /\ UNCHANGED <<deps, cache>> /\ Cached' = Cached
      BY <1>2 DEF Hit, TypeOK, Cached
    <2>2. /\ \A u \in Threads \ {t} : stack'[u] = stack[u]
          /\ Len(stack[t]) \in Nat \ {0} /\ Len(stack'[t]) = Len(stack[t])
          /\ \A i \in 1..(Len(stack[t]) - 1) : stack'[t][i] = stack[t][i]
          /\ stack'[t][Len(stack[t])] = [stack[t][Len(stack[t])] EXCEPT !.todo = @ \ {f}]
          /\ stack[t][Len(stack[t])] \in Run
      BY <2>1, DeliverType
    <2> DEFINE n == Len(stack[t])
    <2>3. /\ stack'[t][n].file = stack[t][n].file
          /\ stack'[t][n].phase = stack[t][n].phase
          /\ stack'[t][n].todo = stack[t][n].todo \ {f}
      BY <2>2 DEF Run
    <2>4. Waiting(stack[t], Cached, deps)
      BY DEF OneAtATime
    <2>5. /\ \A i \in 2..n : stack[t][i].file \notin Cached
          /\ stack'[t][n].phase = "frozen" => stack'[t][n].todo = {}
      BY <2>2, <2>3, <2>4 DEF Waiting, Uncached, FrozenEnd
    <2>6. n \in Nat \ {0} /\ n = Len(stack[t]) /\ Len(stack'[t]) = n
          /\ \A i \in 1..(n - 1) : stack'[t][i] = stack[t][i]
      BY <2>2
    <2>7. stack'[t][n].todo \subseteq stack[t][n].todo /\ stack[t][n].todo \ stack'[t][n].todo \subseteq Cached
      BY <2>1, <2>3
    <2> HIDE DEF n
    <2>8. Waiting(stack'[t], Cached, deps)
      BY <2>3, <2>4, <2>5, <2>6, <2>7, TopWaits
    <2> QED BY <1>0, <2>1, <2>2, <2>8
  <1>3. ASSUME NEW t \in Threads, Freeze(t) PROVE Goal
    <2>1. UNCHANGED <<deps, cache>> /\ Cached' = Cached /\ Top(t).todo = {}
      BY <1>3 DEF Freeze, Cached
    <2> DEFINE n == Len(stack[t])
    <2>2. /\ stack[t] # << >> /\ \A u \in Threads \ {t} : stack'[u] = stack[u]
          /\ n \in Nat \ {0} /\ n = Len(stack[t]) /\ Len(stack'[t]) = n
          /\ \A i \in 1..(n - 1) : stack'[t][i] = stack[t][i]
          /\ stack'[t][n] = [stack[t][n] EXCEPT !.phase = "frozen"]
          /\ Top(t) \in Run /\ Top(t) = stack[t][n]
      BY <1>3, FreezeType, TopType
    <2>3. stack'[t][n].file = stack[t][n].file /\ stack'[t][n].todo = {}
      BY <2>1, <2>2 DEF Run
    <2>4. Waiting(stack[t], Cached, deps)
      BY DEF OneAtATime
    <2>5. \A i \in 2..n : stack[t][i].file \notin Cached
      BY <2>4 DEF Waiting, Uncached
    <2>6. stack[t][n].todo = {}
      BY <2>1, <2>2
    <2>8. /\ n \in Nat \ {0} /\ n = Len(stack[t]) /\ Len(stack'[t]) = n
          /\ \A i \in 1..(n - 1) : stack'[t][i] = stack[t][i]
      BY <2>2
    <2>9. /\ stack'[t][n].todo \subseteq stack[t][n].todo
          /\ stack[t][n].todo \ stack'[t][n].todo \subseteq Cached
      BY <2>3, <2>6
    <2> HIDE DEF n
    <2>7. Waiting(stack'[t], Cached, deps)
      BY <2>3, <2>4, <2>5, <2>8, <2>9, TopWaits
    <2> QED BY <1>0, <2>1, <2>2, <2>7
  <1>4. ASSUME NEW t \in Threads, Keep(t) PROVE Goal
    <2>1. PICK s \in Seq(Run), f \in Files, m \in Modules :
            /\ s = Front(stack[t]) /\ f = Top(t).file /\ m = Top(t).module
      BY <1>4, KeepType DEF Run
    <2>2. /\ s # << >> /\ stack[t] # << >>
          /\ Len(stack[t]) \in Nat /\ Len(stack[t]) > 1 /\ Len(s) = Len(stack[t]) - 1
          /\ \A i \in 1..(Len(stack[t]) - 1) : s[i] = stack[t][i]
          /\ DeliverTo(t, s, f, m)
      BY <1>4, <2>1, KeepType
    <2>3. /\ deps' = deps /\ Top(t).phase = "frozen" /\ cache' = [cache EXCEPT ![f] = m]
          /\ Top(t) = stack[t][Len(stack[t])]
      BY <1>4, <2>1, <2>2, TopType DEF Keep
    <2>4. /\ s \in Seq(Run) /\ f \in Files /\ m \in Modules /\ s # << >>
          /\ DeliverTo(t, s, f, m)
      BY <2>1, <2>2
    <2>5. /\ \A u \in Threads \ {t} : stack'[u] = stack[u]
          /\ Len(s) \in Nat \ {0} /\ Len(stack'[t]) = Len(s)
          /\ \A i \in 1..(Len(s) - 1) : stack'[t][i] = s[i]
          /\ stack'[t][Len(s)] = [s[Len(s)] EXCEPT !.todo = @ \ {f}]
          /\ s[Len(s)] \in Run
      BY ONLY <2>4, TypeOK, t \in Threads, DeliverType
    <2>6. Waiting(stack[t], Cached, deps) /\ f = stack[t][Len(stack[t])].file
      BY <2>1, <2>3 DEF OneAtATime
    <2>7. f \notin Cached /\ \A i \in 1..(Len(stack[t]) - 1) : stack[t][i].file # f
      <3>1. Len(stack[t]) \in Nat \ {0} /\ stack[t][Len(stack[t])].phase = "frozen"
            /\ Len(stack[t]) \in 2..Len(stack[t])
        BY <2>2, <2>3
      <3>2. f \notin Cached
        BY <2>6, <3>1 DEF Waiting, Uncached
      <3> QED BY <2>6, <3>1, <3>2, EndsOnce
    <2>8. cache[f] = NotYet /\ cache'[f] = m /\ Cached' = Cached \cup {f}
      BY <2>3, <2>4, <2>7, NotYetAssumption DEF Cached, TypeOK, Modules
    <2>9. OnceForAll!Publish(f)
      BY <2>3, <2>4, <2>8 DEF OnceForAll!Publish
    <2> DEFINE n == Len(s)
    <2>10. /\ n \in Nat \ {0} /\ n = Len(s) /\ n <= Len(stack[t]) /\ n = Len(stack[t]) - 1
           /\ n \in 1..(Len(stack[t]) - 1)
      BY <2>2, <2>5
    <2> HIDE DEF n
    <2>11. \A i \in 1..n : s[i] = stack[t][i]
      BY <2>2, <2>10
    <2>12. \A i \in 1..(n - 1) : stack'[t][i] = stack[t][i]
      <3>1. \A i \in 1..(n - 1) : i \in 1..n
        BY <2>10
      <3> QED BY <2>5, <2>10, <2>11, <3>1
    <2>13. /\ stack'[t][n].file = stack[t][n].file
           /\ stack'[t][n].phase = stack[t][n].phase
           /\ stack'[t][n].todo = stack[t][n].todo \ {f}
      BY <2>2, <2>5, <2>10, SMTT(30) DEF Run
    <2>14. stack'[t][n].phase = "frozen" => stack'[t][n].todo = {}
      <3>1. n \in 1..Len(stack[t])
        BY <2>2, <2>10
      <3> QED BY <2>6, <2>13, <3>1 DEF Waiting, FrozenEnd
    <2>15. \A i \in 2..n : stack[t][i].file \notin Cached'
      <3>1. \A i \in 2..n : i \in 2..Len(stack[t]) /\ i \in 1..(Len(stack[t]) - 1)
        BY <2>2, <2>10
      <3> QED BY <2>6, <2>7, <2>8, <3>1 DEF Waiting, Uncached
    <2>16. /\ stack'[t][n].todo \subseteq stack[t][n].todo
           /\ stack[t][n].todo \ stack'[t][n].todo \subseteq Cached' /\ Cached \subseteq Cached'
      BY <2>8, <2>13
    <2>17. Len(stack'[t]) = n /\ Len(stack[t]) \in Nat
      BY <2>2, <2>5, <2>10
    <2>18. Waiting(stack'[t], Cached', deps)
      BY <2>6, <2>10, <2>12, <2>13, <2>14, <2>15, <2>16, <2>17, TopWaits
    <2> QED BY <1>0, <2>2, <2>3, <2>5, <2>9, <2>18
  <1>5. ASSUME NEW t \in Threads, Finish(t) \/ Fail(t) PROVE Goal
    <2>1. /\ stack'[t] = << >> /\ cache' = cache
          /\ \A u \in Threads \ {t} : stack'[u] = stack[u]
      BY <1>5 DEF Finish, Fail, TypeOK
    <2>2. stack[t] # << >>
      BY <1>5, EmptySeq DEF Finish, Fail
    <2> QED BY <1>0, <2>1, <2>2, EmptyWaits
  <1>6. CASE UNCHANGED vars
    BY <1>6 DEF vars, OneAtATime, Cached
  <1> QED BY <1>1, <1>2, <1>3, <1>4, <1>5, <1>6 DEF Next

(* While one thread uses a loader, every load() of a name gets the one     *)
(* module the first load() of it made, however deeply files load each      *)
(* other and wherever one fails.                                           *)
THEOREM LoadsOnce == Spec => LoadedOnce
  <1> DEFINE IInv == TypeOK /\ Idle /\ (Alone => OneAtATime)
             Published == IF Alone THEN cache ELSE Unused
  <1>1. Init => IInv /\ Once!Init
    <2>1. Init => TypeOK /\ Once!Init
      BY TypeInit DEF Init, Once!Init, Unused
    <2>2. Init => OneAtATime /\ Idle
      BY EmptyWaits DEF Init, OneAtATime, Idle
    <2> QED BY <2>1, <2>2
  <1>2. IInv /\ [Next]_vars => IInv' /\ [Once!Next]_Published
    <2> SUFFICES ASSUME IInv, [Next]_vars PROVE IInv' /\ [Once!Next]_Published
      OBVIOUS
    <2>1. TypeOK' /\ Idle' /\ users' = users
      BY TypeStep, IdleStep
    <2>2. CASE Alone
      <3>1. OneAtATime' /\ (UNCHANGED cache \/ \E f \in Files : OnceForAll!Publish(f))
        BY <2>2, OneAtATimeStep
      <3>2. Alone' /\ Published = cache /\ Published' = cache'
        BY <2>1, <2>2 DEF Alone
      <3>3. \A f \in Files : OnceForAll!Publish(f) => Once!Publish(f)
        BY <3>2 DEF OnceForAll!Publish, Once!Publish
      <3> QED BY <2>1, <3>1, <3>2, <3>3 DEF Once!Next
    <2>3. CASE ~Alone
      <3>1. ~Alone' /\ Published' = Published
        BY <2>1, <2>3 DEF Alone, Unused
      <3> QED BY <2>1, <3>1
    <2> QED BY <2>2, <2>3
  <1> QED BY <1>1, <1>2, PTL DEF Spec, LoadedOnce, Once!Spec

-----------------------------------------------------------------------------
(* What the cache holds.  Every file being executed has been delivered the *)
(* files it does not wait for any more, in a module that belongs to this   *)
(* execution alone; a file that ends has been delivered all of them.       *)
Names(m) == {d[1] : d \in got[m]}

CallOK(t, i) ==
  /\ stack[t][i].module \in 1..made
  /\ \A f \in Cached : cache[f] # stack[t][i].module
  /\ stack[t][i].todo \subseteq deps[stack[t][i].file]
  /\ Names(stack[t][i].module) = deps[stack[t][i].file] \ stack[t][i].todo
  /\ Names(stack[t][i].module) \subseteq Cached
  /\ stack[t][i].phase = "frozen" => stack[t][i].todo = {}
  /\ i # 1 => stack[t][i].file \in stack[t][i - 1].todo

CallsOK == \A t \in Threads : \A i \in 1..Len(stack[t]) : CallOK(t, i)

OwnModules ==
  \A t, u \in Threads : \A i \in 1..Len(stack[t]), j \in 1..Len(stack[u]) :
    stack[t][i].module = stack[u][j].module => t = u /\ i = j

CacheOK ==
  \A f \in Cached : /\ cache[f] \in 1..made
                    /\ Names(cache[f]) = deps[f]
                    /\ deps[f] \subseteq Cached

Unmade == \A m \in Modules : m > made => got[m] = {}

Books == CallsOK /\ OwnModules /\ CacheOK /\ Unmade /\ CyclesNeverCached

(* A call that a step leaves alone.                                        *)
LEMMA CallKept ==
  ASSUME NEW t \in Threads, NEW i \in 1..Len(stack[t]), CallsOK,
         stack'[t][i] = stack[t][i],
         i # 1 => stack'[t][i - 1] = stack[t][i - 1],
         made \in Nat, made' \in Nat, made <= made', deps' = deps,
         \A f \in Cached' : cache'[f] = stack[t][i].module => f \in Cached /\ cache'[f] = cache[f],
         Cached \subseteq Cached',
         got'[stack[t][i].module] = got[stack[t][i].module]
  PROVE  CallOK(t, i)'
  <1>1. CallOK(t, i)
    BY DEF CallsOK
  <1>2. stack[t][i].module \in 1..made'
    BY <1>1 DEF CallOK
  <1>3. Names(stack[t][i].module)' = Names(stack[t][i].module)
    BY DEF Names
  <1> QED BY <1>1, <1>2, <1>3 DEF CallOK, Names

LEMMA NamesOfOneMore ==
  ASSUME NEW S, NEW f, NEW m
  PROVE  {d[1] : d \in S \cup {<<f, m>>}} = {d[1] : d \in S} \cup {f}
  <1>1. <<f, m>>[1] = f
    OBVIOUS
  <1> QED BY <1>1

(* Modules stay apart when no call gets another one.                       *)
LEMMA OwnKept ==
  ASSUME OwnModules,
         \A u \in Threads : \A i \in 1..Len(stack'[u]) :
            /\ i \in 1..Len(stack[u])
            /\ stack'[u][i].module = stack[u][i].module
  PROVE  OwnModules'
  BY DEF OwnModules

LEMMA CacheKept ==
  ASSUME CacheOK, UNCHANGED <<cache, deps>>, made \in Nat, made' \in Nat, made <= made',
         \A f \in Cached : got'[cache[f]] = got[cache[f]]
  PROVE  CacheOK'
  <1>1. Cached' = Cached
    BY DEF Cached
  <1>2. \A f \in Cached : cache[f] \in 1..made' /\ Names(cache[f])' = Names(cache[f])
    BY DEF CacheOK, Names
  <1> QED BY <1>1, <1>2 DEF CacheOK, Names

LEMMA AcyclicKept ==
  ASSUME CyclesNeverCached, UNCHANGED <<cache, deps>>
  PROVE  CyclesNeverCached'
  BY DEF CyclesNeverCached, Cached

LEMMA MadeType ==
  ASSUME TypeOK PROVE made \in Nat /\ made <= MaxModules /\ MaxModules \in Nat
  BY BoundsAssumption DEF TypeOK

(* A new execution.                                                        *)
LEMMA BooksExecute ==
  ASSUME TypeOK, Books, NEW t \in Threads, NEW f \in Files, Execute(t, f),
         UNCHANGED <<users, deps, cache, frozen, got>>,
         Len(stack[t]) # 0 => f \in stack[t][Len(stack[t])].todo
  PROVE  Books'
  <1>0. PICK n \in Nat, k \in Modules : n = Len(stack[t]) /\ k = made + 1
    BY ExecuteType, MadeType DEF Execute, Modules
  <1>1. /\ made \in Nat /\ made' = made + 1 /\ made' \in Nat /\ made + 1 \in Modules
    BY MadeType DEF Execute, Modules
  <1>2. /\ \A u \in Threads \ {t} : stack'[u] = stack[u]
        /\ Len(stack[t]) = n /\ Len(stack'[t]) = n + 1
        /\ \A i \in 1..n : stack'[t][i] = stack[t][i]
        /\ stack'[t][n + 1] =
             [file |-> f, module |-> k, todo |-> deps[f], phase |-> "executing"]
    BY <1>0, ExecuteType
  <1>3. CallsOK /\ OwnModules /\ CacheOK /\ Unmade /\ Cached' = Cached
    BY DEF Books, Cached
  <1>4. ASSUME NEW u \in Threads, NEW i \in 1..Len(stack[u])
        PROVE  CallOK(u, i)' /\ stack'[u][i].module \in 1..made /\ stack'[u][i] = stack[u][i]
    <2>1. stack'[u][i] = stack[u][i] /\ (i # 1 => stack'[u][i - 1] = stack[u][i - 1])
      <3>1. CASE u # t
        BY <1>2, <3>1
      <3>2. CASE u = t
        <4>1. i \in 1..n /\ (i # 1 => i - 1 \in 1..n)
          BY <1>2, <3>2
        <4> QED BY <1>2, <3>2, <4>1
      <3> QED BY <3>1, <3>2
    <2>2. stack[u][i].module \in 1..made
      BY <1>3 DEF CallsOK, CallOK
    <2> QED BY <1>1, <1>3, <2>1, <2>2, CallKept
  <1>5. CallOK(t, n + 1)'
    <2>1. Names(k)' = {}
      BY <1>0, <1>1, <1>3 DEF Unmade, Names
    <2>2. \A g \in Cached : cache[g] # k
      BY <1>0, <1>1, <1>3 DEF CacheOK
    <2>3. n + 1 # 1 => f \in stack'[t][n].todo
      BY <1>0, <1>2
    <2>4. (n + 1) - 1 = n /\ k \in 1..made'
      BY <1>0, <1>1
    <2>5. /\ stack'[t][n + 1].file = f /\ stack'[t][n + 1].module = k
          /\ stack'[t][n + 1].todo = deps[f] /\ stack'[t][n + 1].phase = "executing"
      BY <1>2
    <2>6. Names(stack[t][n + 1].module)' = {}
      BY <2>1, <2>5 DEF Names
    <2> QED BY <1>3, <2>2, <2>3, <2>4, <2>5, <2>6 DEF CallOK
  <1>6. CallsOK'
    <2> SUFFICES ASSUME NEW u \in Threads, NEW i \in 1..Len(stack'[u]) PROVE CallOK(u, i)'
      BY DEF CallsOK
    <2>1. i \in 1..Len(stack[u]) \/ (u = t /\ i = n + 1)
      BY <1>2
    <2> QED BY <1>4, <1>5, <2>1
  <1>7. OwnModules'
    <2> SUFFICES ASSUME NEW u \in Threads, NEW v \in Threads,
                        NEW i \in 1..Len(stack'[u]), NEW j \in 1..Len(stack'[v]),
                        stack'[u][i].module = stack'[v][j].module
                 PROVE  u = v /\ i = j
      BY DEF OwnModules
    <2>1. /\ i \in 1..Len(stack[u]) \/ (u = t /\ i = n + 1 /\ stack'[u][i].module = k)
          /\ j \in 1..Len(stack[v]) \/ (v = t /\ j = n + 1 /\ stack'[v][j].module = k)
      <3>1. stack'[t][n + 1].module = k
        BY <1>2
      <3>2. ASSUME NEW w \in Threads, NEW l \in 1..Len(stack'[w]), l \notin 1..Len(stack[w])
            PROVE  w = t /\ l = n + 1
        BY <1>2, <3>2
      <3> QED BY <3>1, <3>2
    <2>2. k \notin 1..made
      BY <1>0, <1>1
    <2>3. CASE i \in 1..Len(stack[u]) /\ j \in 1..Len(stack[v])
      <3>1. stack'[u][i] = stack[u][i] /\ stack'[v][j] = stack[v][j]
        BY <1>4, <2>3
      <3>2. stack[u][i].module = stack[v][j].module
        BY <3>1
      <3> QED BY <1>3, <2>3, <3>2 DEF OwnModules
    <2>4. CASE ~(i \in 1..Len(stack[u]) /\ j \in 1..Len(stack[v]))
      BY <1>4, <2>1, <2>2, <2>4
    <2> QED BY <2>3, <2>4
  <1>8. CacheOK'
    BY <1>1, <1>3, CacheKept
  <1>9. Unmade'
    BY <1>1, <1>3 DEF Unmade, Modules
  <1> QED BY <1>6, <1>7, <1>8, <1>9, AcyclicKept DEF Books

(* Module m of file f is delivered to the n-th call of thread t, the one   *)
(* on top of it, if there is one, has ended and its module may be cached.  *)
Delivers(t, n, f, m) ==
  /\ n \in Nat \ {0} /\ n <= Len(stack[t]) /\ Len(stack[t]) \in Nat
  /\ f \in stack[t][n].todo /\ f \in Cached' /\ Cached \subseteq Cached'
  /\ deps' = deps /\ made' = made
  /\ \A g \in Cached' : \/ g \in Cached /\ cache'[g] = cache[g]
                        \/ n < Len(stack[t]) /\ cache'[g] = stack[t][n + 1].module
  /\ \A u \in Threads \ {t} : stack'[u] = stack[u]
  /\ Len(stack'[t]) = n /\ \A i \in 1..(n - 1) : stack'[t][i] = stack[t][i]
  /\ stack[t][n] \in Run /\ stack'[t][n] = [stack[t][n] EXCEPT !.todo = @ \ {f}]
  /\ got' = [got EXCEPT ![stack[t][n].module] = @ \cup {<<f, m>>}]

LEMMA Delivery ==
  ASSUME TypeOK, CallsOK, OwnModules,
         NEW t \in Threads, NEW f \in Files, NEW m \in Modules, NEW n, Delivers(t, n, f, m)
  PROVE  /\ CallsOK' /\ OwnModules'
         /\ \A k \in Modules : k # stack[t][n].module => got'[k] = got[k]
  <1> USE DEF Delivers
  <1>0. PICK own \in Modules : own = stack[t][n].module
    BY DEF Run
  <1>a. n \in 1..Len(stack[t]) /\ made \in Nat
    BY MadeType
  <1>1. /\ stack'[t][n].file = stack[t][n].file
        /\ stack'[t][n].module = own
        /\ stack'[t][n].phase = stack[t][n].phase
        /\ stack'[t][n].todo = stack[t][n].todo \ {f}
    BY <1>0 DEF Run
  <1>2. got'[own] = got[own] \cup {<<f, m>>} /\ \A k \in Modules : k # own => got'[k] = got[k]
    BY <1>0 DEF TypeOK
  <1>3. ASSUME NEW u \in Threads, NEW i \in 1..Len(stack'[u])
        PROVE  /\ i \in 1..Len(stack[u]) /\ stack'[u][i].module = stack[u][i].module
               /\ u # t \/ i # n => /\ stack'[u][i] = stack[u][i]
                                    /\ i # 1 => stack'[u][i - 1] = stack[u][i - 1]
    <2>1. CASE u # t
      BY <2>1
    <2>2. CASE u = t /\ i = n
      BY <1>0, <1>a, <1>1, <2>2
    <2>3. CASE u = t /\ i # n
      <3>1. i \in 1..(n - 1) /\ (i # 1 => i - 1 \in 1..(n - 1)) /\ i \in 1..Len(stack[t])
        BY <2>3
      <3> QED BY <2>3, <3>1
    <2> QED BY <2>1, <2>2, <2>3
  <1>4. OwnModules'
    BY <1>3, OwnKept
  <1>5. ASSUME NEW u \in Threads, NEW i \in 1..Len(stack'[u]), NEW g \in Cached',
               cache'[g] = stack[u][i].module
        PROVE  g \in Cached /\ cache'[g] = cache[g]
    <2>1. i \in 1..Len(stack[u]) /\ (u = t => i <= n)
      BY <1>3, <1>5
    <2>2. ASSUME n < Len(stack[t]), cache'[g] = stack[t][n + 1].module
          PROVE  FALSE
      <3>1. n + 1 \in 1..Len(stack[t])
        BY <2>2
      <3>2. stack[u][i].module = stack[t][n + 1].module
        BY <1>5, <2>2
      <3>3. u = t /\ i = n + 1
        BY <2>1, <3>1, <3>2 DEF OwnModules
      <3> QED BY <2>1, <3>3
    <2> QED BY <2>2
  <1>6. CallOK(t, n)'
    <2>1. CallOK(t, n)
      BY <1>a DEF CallsOK
    <2>2. Names(own)' = Names(own) \cup {f}
      <3>1. {d[1] : d \in got[own] \cup {<<f, m>>}} = {d[1] : d \in got[own]} \cup {f}
        BY NamesOfOneMore
      <3>2. {d[1] : d \in got'[own]} = {d[1] : d \in got[own]} \cup {f}
        BY <1>2, <3>1
      <3> QED BY <3>2 DEF Names
    <2>3. Names(own)' = deps[stack[t][n].file] \ (stack[t][n].todo \ {f})
      BY <1>0, <2>1, <2>2 DEF CallOK
    <2>4. Names(own)' \subseteq Cached'
      BY <1>0, <2>1, <2>2 DEF CallOK
    <2>5. \A g \in Cached' : cache'[g] # own
      <3> SUFFICES ASSUME NEW g \in Cached', cache'[g] = own PROVE FALSE
        OBVIOUS
      <3>1. n \in 1..Len(stack'[t])
        OBVIOUS
      <3>2. g \in Cached /\ cache[g] = own
        BY <1>0, <1>5, <3>1
      <3> QED BY <1>0, <2>1, <3>2 DEF CallOK
    <2>6. n # 1 => stack'[t][n].file \in stack'[t][n - 1].todo
      <3>1. n # 1 => n - 1 \in 1..(n - 1)
        OBVIOUS
      <3> QED BY <1>1, <2>1, <3>1 DEF CallOK
    <2>7. /\ own \in 1..made'
          /\ stack'[t][n].todo \subseteq deps'[stack'[t][n].file]
          /\ stack'[t][n].phase = "frozen" => stack'[t][n].todo = {}
      BY <1>0, <1>1, <2>1 DEF CallOK
    <2>8. Names(own)' = deps'[stack'[t][n].file] \ stack'[t][n].todo
      BY <1>1, <2>3
    <2> QED BY <1>1, <2>4, <2>5, <2>6, <2>7, <2>8 DEF CallOK, Names
  <1>7. CallsOK'
    <2> SUFFICES ASSUME NEW u \in Threads, NEW i \in 1..Len(stack'[u]) PROVE CallOK(u, i)'
      BY DEF CallsOK
    <2>1. CASE u = t /\ i = n
      BY <1>6, <2>1
    <2>2. CASE ~(u = t /\ i = n)
      <3>1. /\ i \in 1..Len(stack[u]) /\ stack'[u][i] = stack[u][i]
            /\ i # 1 => stack'[u][i - 1] = stack[u][i - 1]
        BY <1>3, <2>2
      <3>2. stack[u][i].module # own /\ stack[u][i].module \in Modules
        <4>1. stack[u][i].module # own
          BY <1>0, <1>a, <2>2, <3>1 DEF OwnModules
        <4>2. stack[u][i].module \in 1..made
          BY <3>1 DEF CallsOK, CallOK
        <4> QED BY <4>1, <4>2, MadeType DEF Modules
      <3>3. got'[stack[u][i].module] = got[stack[u][i].module]
        BY <1>2, <3>2
      <3>4. made <= made' /\ made' \in Nat
        BY <1>a
      <3> QED BY <1>a, <1>5, <3>1, <3>3, <3>4, CallKept
    <2> QED BY <2>1, <2>2
  <1> QED BY <1>0, <1>2, <1>4, <1>7

LEMMA BooksHit ==
  ASSUME TypeOK, Books, NEW t \in Threads, NEW f \in Files, Hit(t, f)
  PROVE  Books'
  <1>1. /\ stack[t] \in Seq(Run) /\ stack[t] # << >> /\ f \in Cached
        /\ f \in Top(t).todo /\ DeliverTo(t, stack[t], f, cache[f])
        /\ UNCHANGED <<users, deps, cache, frozen, made>> /\ Cached' = Cached
    BY DEF Hit, TypeOK, Cached
  <1>2. PICK n \in Nat \ {0}, m \in Modules, own \in Modules :
          n = Len(stack[t]) /\ m = cache[f] /\ own = stack[t][n].module
    <2>1. cache[f] \in Modules
      BY <1>1 DEF Cached, TypeOK
    <2> QED BY <1>1, <2>1, TopType DEF Run
  <1>3. /\ Top(t) = stack[t][n] /\ stack[t][n] \in Run
        /\ DeliverTo(t, stack[t], f, m)
    BY <1>1, <1>2, TopType
  <1>4. /\ \A u \in Threads \ {t} : stack'[u] = stack[u]
        /\ Len(stack[t]) = n /\ Len(stack'[t]) = n
        /\ \A i \in 1..(n - 1) : stack'[t][i] = stack[t][i]
        /\ stack'[t][n] = [stack[t][n] EXCEPT !.todo = @ \ {f}]
    BY <1>1, <1>2, <1>3, DeliverType
  <1>5. got' = [got EXCEPT ![stack[t][n].module] = @ \cup {<<f, m>>}]
    BY <1>3 DEF DeliverTo, Top
  <1>6. CallsOK /\ OwnModules /\ CacheOK /\ Unmade /\ CyclesNeverCached
    BY DEF Books
  <1>7. /\ CallsOK' /\ OwnModules'
        /\ \A k \in Modules : k # own => got'[k] = got[k]
    <2>1. \A g \in Cached' : \/ g \in Cached /\ cache'[g] = cache[g]
                             \/ n < Len(stack[t]) /\ cache'[g] = stack[t][n + 1].module
      BY <1>1
    <2>2. /\ f \in stack[t][n].todo /\ f \in Cached' /\ Cached \subseteq Cached'
          /\ n <= Len(stack[t]) /\ Len(stack[t]) \in Nat /\ deps' = deps /\ made' = made
      BY <1>1, <1>2, <1>3
    <2>3. /\ CallsOK' /\ OwnModules'
          /\ \A k \in Modules : k # stack[t][n].module => got'[k] = got[k]
      <3>1. Delivers(t, n, f, m)
        BY <1>2, <1>3, <1>4, <1>5, <2>1, <2>2 DEF Delivers
      <3> QED BY <1>6, <3>1, Delivery
    <2> QED BY <1>2, <2>3
  <1>8. own \in 1..made /\ \A g \in Cached : cache[g] # own
    BY <1>2, <1>4, <1>6 DEF CallsOK, CallOK
  <1>9. CacheOK'
    <2>1. \A g \in Cached : cache[g] \in Modules
      BY DEF Cached, TypeOK
    <2>2. \A g \in Cached : got'[cache[g]] = got[cache[g]]
      BY <1>7, <1>8, <2>1
    <2>3. made \in Nat /\ made' \in Nat /\ made <= made'
      BY <1>1, MadeType
    <2> QED BY <1>1, <1>6, <2>2, <2>3, CacheKept
  <1>10. Unmade'
    <2>1. \A k \in Modules : k > made => k # own
      BY <1>8, MadeType
    <2> QED BY <1>1, <1>6, <1>7, <2>1 DEF Unmade
  <1> QED BY <1>1, <1>6, <1>7, <1>9, <1>10, AcyclicKept DEF Books

LEMMA BooksFreeze ==
  ASSUME TypeOK, Books, NEW t \in Threads, Freeze(t)
  PROVE  Books'
  <1>1. PICK n \in Nat \ {0} : n = Len(stack[t])
    BY FreezeType
  <1>2. /\ \A u \in Threads \ {t} : stack'[u] = stack[u]
        /\ Len(stack'[t]) = n
        /\ \A i \in 1..(n - 1) : stack'[t][i] = stack[t][i]
        /\ stack'[t][n] = [stack[t][n] EXCEPT !.phase = "frozen"]
        /\ stack[t][n] \in Run /\ Top(t) = stack[t][n]
    BY <1>1, FreezeType, TopType
  <1>3. /\ UNCHANGED <<deps, cache, made, got>> /\ Cached' = Cached
        /\ stack[t][n].todo = {}
    BY <1>2 DEF Freeze, Cached
  <1>4. /\ stack'[t][n].module = stack[t][n].module
        /\ stack'[t][n].file = stack[t][n].file
        /\ stack'[t][n].todo = stack[t][n].todo
    BY <1>2 DEF Run
  <1>5. CallsOK /\ OwnModules /\ CacheOK /\ Unmade /\ CyclesNeverCached /\ made \in Nat
    BY MadeType DEF Books
  <1>6. ASSUME NEW u \in Threads, NEW i \in 1..Len(stack'[u])
        PROVE  /\ i \in 1..Len(stack[u]) /\ stack'[u][i].module = stack[u][i].module
               /\ i # 1 => stack'[u][i - 1] = stack[u][i - 1]
               /\ ~(u = t /\ i = n) => stack'[u][i] = stack[u][i]
    <2>1. CASE u # t
      BY <1>2, <2>1
    <2>2. CASE u = t
      <3>1. i \in 1..n /\ (i # 1 => i - 1 \in 1..(n - 1)) /\ (i # n => i \in 1..(n - 1))
        BY <1>2, <2>2
      <3> QED BY <1>1, <1>2, <1>4, <2>2, <3>1
    <2> QED BY <2>1, <2>2
  <1>7. OwnModules'
    BY <1>5, <1>6, OwnKept
  <1>8. CallOK(t, n)'
    <2>1. CallOK(t, n)
      BY <1>1, <1>5 DEF CallsOK
    <2>2. n # 1 => stack'[t][n - 1] = stack[t][n - 1]
      <3>1. n # 1 => n - 1 \in 1..(n - 1)
        OBVIOUS
      <3> QED BY <1>2, <3>1
    <2> QED BY <1>3, <1>4, <2>1, <2>2 DEF CallOK, Names
  <1>9. CallsOK'
    <2> SUFFICES ASSUME NEW u \in Threads, NEW i \in 1..Len(stack'[u]) PROVE CallOK(u, i)'
      BY DEF CallsOK
    <2>1. CASE u = t /\ i = n
      BY <1>8, <2>1
    <2>2. CASE ~(u = t /\ i = n)
      <3>1. /\ i \in 1..Len(stack[u]) /\ stack'[u][i] = stack[u][i]
            /\ i # 1 => stack'[u][i - 1] = stack[u][i - 1]
        BY <1>6, <2>2
      <3>2. made <= made' /\ made' \in Nat
        BY <1>3, <1>5
      <3> QED BY <1>3, <1>5, <3>1, <3>2, CallKept
    <2> QED BY <2>1, <2>2
  <1>10. CacheOK' /\ Unmade' /\ CyclesNeverCached'
    <2>1. CacheOK'
      <3>1. made <= made' /\ made' \in Nat
        BY <1>3, <1>5
      <3> QED BY <1>3, <1>5, <3>1, CacheKept
    <2> QED BY <1>3, <1>5, <2>1, AcyclicKept DEF Unmade
  <1> QED BY <1>7, <1>9, <1>10 DEF Books

(* A file that has found all it loads in the cache closes no cycle there.  *)
LEMMA AcyclicGrows ==
  ASSUME CyclesNeverCached, CacheOK, NEW f \in Files, Cached' = Cached \cup {f},
         deps' = deps, deps[f] \subseteq Cached
  PROVE  CyclesNeverCached'
  <1>1. CASE f \in Cached
    <2>1. Cached' = Cached
      BY <1>1
    <2> QED BY <2>1 DEF CyclesNeverCached
  <1>2. CASE f \notin Cached
    <2> SUFFICES ASSUME NEW S, S \subseteq Cached \cup {f}, S # {}
                 PROVE  \E g \in S : deps[g] \cap S = {}
      BY DEF CyclesNeverCached
    <2>1. CASE S = {f}
      <3>1. deps[f] \cap S = {}
        BY <1>2, <2>1
      <3> QED BY <2>1, <3>1
    <2>2. CASE S # {f}
      <3>1. S \ {f} \in SUBSET Cached /\ S \ {f} # {}
        BY <2>2
      <3>2. PICK g \in S \ {f} : deps[g] \cap (S \ {f}) = {}
        BY <3>1 DEF CyclesNeverCached
      <3>3. deps[g] \subseteq Cached
        BY <3>1 DEF CacheOK
      <3>4. deps[g] \cap S = {}
        BY <1>2, <3>2, <3>3
      <3> QED BY <3>2, <3>4
    <2> QED BY <2>1, <2>2
  <1> QED BY <1>1, <1>2

LEMMA BooksKeep ==
  ASSUME TypeOK, Books, NEW t \in Threads, Keep(t)
  PROVE  Books'
  <1>1. /\ stack[t] # << >> /\ Top(t) \in Run /\ Top(t) = stack[t][Len(stack[t])]
        /\ Front(stack[t]) \in Seq(Run) /\ Front(stack[t]) # << >>
        /\ Len(stack[t]) \in Nat /\ Len(stack[t]) > 1
        /\ Len(Front(stack[t])) = Len(stack[t]) - 1
        /\ \A i \in 1..(Len(stack[t]) - 1) : Front(stack[t])[i] = stack[t][i]
        /\ DeliverTo(t, Front(stack[t]), Top(t).file, Top(t).module)
    BY KeepType, TopType
  <1>2. PICK s \in Seq(Run), n \in Nat \ {0}, f \in Files, m \in Modules :
          /\ s = Front(stack[t]) /\ n = Len(stack[t]) - 1
          /\ f = Top(t).file /\ m = Top(t).module
    BY <1>1 DEF Run
  <1>3. /\ Len(stack[t]) = n + 1 /\ s # << >> /\ Len(s) = n /\ Top(t) = stack[t][n + 1]
        /\ \A i \in 1..n : s[i] = stack[t][i]
        /\ DeliverTo(t, s, f, m)
    BY <1>1, <1>2
  <1>4. /\ \A u \in Threads \ {t} : stack'[u] = stack[u]
        /\ Len(stack'[t]) = n
        /\ \A i \in 1..(n - 1) : stack'[t][i] = s[i]
        /\ stack'[t][n] = [s[n] EXCEPT !.todo = @ \ {f}]
        /\ s[n] \in Run
    <2>1. /\ s \in Seq(Run) /\ f \in Files /\ m \in Modules /\ s # << >>
          /\ DeliverTo(t, s, f, m)
      BY <1>3
    <2>2. /\ \A u \in Threads \ {t} : stack'[u] = stack[u]
          /\ Len(stack'[t]) = Len(s)
          /\ \A i \in 1..(Len(s) - 1) : stack'[t][i] = s[i]
          /\ stack'[t][Len(s)] = [s[Len(s)] EXCEPT !.todo = @ \ {f}]
          /\ s[Len(s)] \in Run
      BY ONLY <2>1, TypeOK, t \in Threads, DeliverType
    <2> QED BY <1>3, <2>2
  <1>5. /\ s[n] = stack[t][n] /\ stack[t][n] \in Run
        /\ stack'[t][n] = [stack[t][n] EXCEPT !.todo = @ \ {f}]
        /\ \A i \in 1..(n - 1) : stack'[t][i] = stack[t][i]
    <2>1. \A i \in 1..(n - 1) : i \in 1..n
      OBVIOUS
    <2>2. n \in 1..n
      OBVIOUS
    <2>3. s[n] = stack[t][n]
      BY <1>3, <2>2
    <2>4. \A i \in 1..(n - 1) : stack'[t][i] = stack[t][i]
      BY <1>3, <1>4, <2>1
    <2> QED BY <1>4, <2>3, <2>4
  <1>6. PICK own \in Modules : own = stack[t][n].module
    BY <1>5 DEF Run
  <1>7. got' = [got EXCEPT ![stack[t][n].module] = @ \cup {<<f, m>>}]
    BY <1>3, <1>5 DEF DeliverTo, Last
  <1>8. /\ cache' = [cache EXCEPT ![f] = m] /\ deps' = deps /\ made' = made
        /\ stack[t][n + 1].phase = "frozen"
        /\ f = stack[t][n + 1].file /\ m = stack[t][n + 1].module
    BY <1>2, <1>3 DEF Keep
  <1>9. Cached' = Cached \cup {f} /\ cache'[f] = m /\ \A g \in Files \ {f} : cache'[g] = cache[g]
    BY <1>8, NotYetAssumption DEF Cached, TypeOK, Modules
  <1>10. CallsOK /\ OwnModules /\ CacheOK /\ Unmade /\ CyclesNeverCached
    BY DEF Books
  <1>11. CallOK(t, n + 1) /\ CallOK(t, n) /\ (n + 1) - 1 = n /\ n + 1 # 1
    <2>1. n + 1 \in 1..Len(stack[t]) /\ n \in 1..Len(stack[t]) /\ (n + 1) - 1 = n /\ n + 1 # 1
      BY <1>3
    <2> QED BY <1>10, <2>1 DEF CallsOK
  <1>12. /\ f \in stack[t][n].todo /\ Names(m) = deps[f] /\ deps[f] \subseteq Cached
         /\ m \in 1..made /\ own \in 1..made
         /\ \A g \in Cached : cache[g] # own
    BY <1>6, <1>8, <1>11 DEF CallOK
  <1>13. own # m
    <2>1. n + 1 \in 1..Len(stack[t]) /\ n \in 1..Len(stack[t]) /\ n + 1 # n
      BY <1>3
    <2> QED BY <1>6, <1>8, <1>10, <2>1 DEF OwnModules
  <1>14. /\ CallsOK' /\ OwnModules'
         /\ \A k \in Modules : k # own => got'[k] = got[k]
    <2>1. \A g \in Cached' : \/ g \in Cached /\ cache'[g] = cache[g]
                             \/ n < Len(stack[t]) /\ cache'[g] = stack[t][n + 1].module
      BY <1>3, <1>8, <1>9 DEF Cached
    <2>2. /\ f \in stack[t][n].todo /\ f \in Cached' /\ Cached \subseteq Cached'
          /\ n <= Len(stack[t]) /\ Len(stack[t]) \in Nat /\ deps' = deps /\ made' = made
      BY <1>3, <1>8, <1>9, <1>12
    <2>3. /\ CallsOK' /\ OwnModules'
          /\ \A k \in Modules : k # stack[t][n].module => got'[k] = got[k]
      <3>1. Delivers(t, n, f, m)
        BY <1>2, <1>4, <1>5, <1>7, <2>1, <2>2 DEF Delivers
      <3> QED BY <1>10, <3>1, Delivery
    <2> QED BY <1>6, <2>3
  <1>15. CacheOK'
    <2> SUFFICES ASSUME NEW g \in Cached'
                 PROVE  /\ cache'[g] \in 1..made' /\ Names(cache[g])' = deps'[g]
                        /\ deps'[g] \subseteq Cached'
      BY DEF CacheOK
    <2>1. CASE g = f
      <3>1. got'[cache'[g]] = got[m] /\ cache'[g] = m
        BY <1>9, <1>13, <1>14, <2>1
      <3> QED BY <1>8, <1>9, <1>12, <2>1, <3>1 DEF Names
    <2>2. CASE g # f
      <3>1. g \in Cached /\ cache'[g] = cache[g] /\ cache[g] \in Modules
        BY <1>9, <2>2 DEF Cached, TypeOK
      <3>2. got'[cache'[g]] = got[cache[g]]
        BY <1>12, <1>14, <3>1
      <3> QED BY <1>8, <1>9, <1>10, <3>1, <3>2 DEF CacheOK, Names
    <2> QED BY <2>1, <2>2
  <1>16. Unmade'
    <2>1. \A k \in Modules : k > made => k # own
      BY <1>12, MadeType
    <2> QED BY <1>8, <1>10, <1>14, <2>1 DEF Unmade
  <1>17. CyclesNeverCached'
    BY <1>8, <1>9, <1>10, <1>12, AcyclicGrows
  <1> QED BY <1>14, <1>15, <1>16, <1>17 DEF Books

LEMMA BooksEnd ==
  ASSUME TypeOK, Books, NEW t \in Threads, Finish(t) \/ Fail(t)
  PROVE  Books'
  <1>1. /\ stack'[t] = << >> /\ \A u \in Threads \ {t} : stack'[u] = stack[u]
        /\ UNCHANGED <<deps, cache, made, got>> /\ Cached' = Cached /\ made \in Nat
        /\ Len(stack'[t]) = 0
    BY MadeType, EmptySeq DEF Finish, Fail, TypeOK, Cached
  <1>2. \A u \in Threads : \A i \in 1..Len(stack'[u]) : u # t /\ stack'[u] = stack[u]
    BY <1>1
  <1>3. CallsOK /\ OwnModules /\ CacheOK /\ Unmade /\ CyclesNeverCached
    BY DEF Books
  <1>4. OwnModules'
    BY <1>2, <1>3, OwnKept
  <1>5. CallsOK'
    <2> SUFFICES ASSUME NEW u \in Threads, NEW i \in 1..Len(stack'[u]) PROVE CallOK(u, i)'
      BY DEF CallsOK
    <2>1. stack'[u] = stack[u] /\ i \in 1..Len(stack[u]) /\ made <= made' /\ made' \in Nat
      BY <1>1, <1>2
    <2> QED BY <1>1, <1>3, <2>1, CallKept
  <1>6. CacheOK'
    <2>1. made <= made' /\ made' \in Nat
      BY <1>1
    <2> QED BY <1>1, <1>3, <2>1, CacheKept
  <1> QED BY <1>1, <1>3, <1>4, <1>5, <1>6, AcyclicKept DEF Books, Unmade

LEMMA BooksInit == Init => Books
  <1> SUFFICES ASSUME Init PROVE Books
    OBVIOUS
  <1>1. Cached = {} /\ \A t \in Threads : Len(stack[t]) = 0
    BY EmptySeq DEF Init, Cached
  <1>2. CallsOK /\ OwnModules
    BY <1>1 DEF CallsOK, OwnModules
  <1>3. CacheOK /\ CyclesNeverCached
    BY <1>1 DEF CacheOK, CyclesNeverCached
  <1>4. Unmade
    BY DEF Init, Unmade
  <1> QED BY <1>2, <1>3, <1>4 DEF Books

LEMMA BooksStep == TypeOK /\ Books /\ [Next]_vars => Books'
  <1> SUFFICES ASSUME TypeOK, Books, [Next]_vars PROVE Books'
    OBVIOUS
  <1>1. ASSUME NEW t \in Threads, NEW f \in Files, Start(t, f) PROVE Books'
    <2>1. Len(stack[t]) = 0
      BY <1>1, EmptySeq DEF Start
    <2> QED BY <1>1, <2>1, BooksExecute DEF Start
  <1>2. ASSUME NEW t \in Threads, NEW f \in Files, Miss(t, f) PROVE Books'
    <2>1. f \in stack[t][Len(stack[t])].todo
      BY <1>2, TopType DEF Miss
    <2> QED BY <1>2, <2>1, BooksExecute DEF Miss
  <1>3. CASE UNCHANGED vars
    <2>1. /\ \A t \in Threads : \A i \in 1..Len(stack[t]) : CallOK(t, i) => CallOK(t, i)'
      BY <1>3 DEF vars, CallOK, Names, Cached
    <2>2. CallsOK'
      BY <1>3, <2>1 DEF vars, Books, CallsOK
    <2>3. OwnModules'
      BY <1>3 DEF vars, Books, OwnModules
    <2>4. CacheOK' /\ Unmade'
      BY <1>3 DEF vars, Books, CacheOK, Unmade, Names, Cached
    <2> QED BY <1>3, <2>2, <2>3, <2>4, AcyclicKept DEF vars, Books
  <1> QED BY <1>1, <1>2, <1>3, BooksHit, BooksFreeze, BooksKeep, BooksEnd DEF Next

(* Whatever files load one another and wherever an execution fails, the    *)
(* cache holds frozen modules that have been delivered all they load, with *)
(* all they load in the cache too, and no cycle of loads, for any number   *)
(* of threads.                                                             *)
THEOREM CacheSound == Spec => []CacheIsSound
  <1> DEFINE IInv == TypeOK /\ FrozenFirst /\ Books
  <1>1. Init => IInv
    BY TypeInit, BooksInit, EmptySeq
    DEF Init, FrozenFirst, Phases, DeliveredFrozen, Cached
  <1>2. IInv /\ [Next]_vars => IInv'
    BY TypeStep, FrozenStep, BooksStep
  <1>3. IInv => CacheIsSound
    BY DEF FrozenFirst, Books, CacheOK, Names, CacheIsSound, CacheIsComplete
  <1> QED BY <1>1, <1>2, <1>3, PTL DEF Spec
=============================================================================
