-------------------------- MODULE EvaluatorProofs --------------------------
(***************************************************************************)
(* Proofs about Evaluator, for every set of evaluations and functions and  *)
(* every limit: typing; the ContextVar names the innermost evaluation;     *)
(* recursion is rejected; a callback fires once, when its limit is over;   *)
(* an exception leaves every activation in order and an error of a limit   *)
(* is not caught on the way; the records of a Thread mirror the stack.     *)
(***************************************************************************)
EXTENDS Evaluator, StackLemmas, FiniteSetTheorems

(* The argument of an activation, by its kind.                             *)
ArgOK(a) ==
  /\ a.kind = "file"  => a.arg \in Evals \cup {NoEval}
  /\ a.kind = "call"  => a.arg \in Fns
  /\ a.kind = "limit" => a.arg \in Limits

(* How activations lie on one another: the token of an evaluation is the   *)
(* evaluation below it, and any other activation runs for the evaluation   *)
(* of the activation below it.                                             *)
Chain(s) ==
  \A i \in 1..Len(s) :
    /\ ArgOK(s[i])
    /\ IF s[i].kind = "file"
       THEN s[i].arg = IF i = 1 THEN NoEval ELSE s[i-1].ev
       ELSE i # 1 /\ s[i].ev = s[i-1].ev

StackInv ==
  /\ Chain(stack)
  /\ ContextIsInnermost
  /\ NoRecursion
  /\ ActiveMirrorsStack

Inv == TypeOK /\ StackInv

-----------------------------------------------------------------------------
(* What each kind of change of the control stack does to StackInv.         *)
LEMMA KeepStack ==
  ASSUME StackInv, UNCHANGED <<stack, current, active>>
  PROVE  StackInv'
  BY DEF StackInv, Chain, ArgOK, ContextIsInnermost, NoRecursion,
         ActiveMirrorsStack, CallsOf, Top, Last

LEMMA PushInner ==
  ASSUME TypeOK, StackInv, stack # << >>,
         NEW a \in Activation, ArgOK(a), a.ev = current,
         a.kind \notin {"file", "call"},
         stack' = Append(stack, a), UNCHANGED <<current, active>>
  PROVE  StackInv'
  <1> DEFINE n == Len(stack)
  <1>1. /\ n \in Nat \ {0}
        /\ Len(stack') = n + 1
        /\ stack' # << >>
        /\ \A i \in 1..n : stack'[i] = stack[i]
        /\ stack'[n + 1] = a
        /\ Last(stack') = a
        /\ Last(stack) = stack[n]
    <2>1. stack \in Seq(Activation)
      BY DEF TypeOK
    <2>2. n \in Nat \ {0} /\ Last(stack) = stack[n]
      BY <2>1, PopStack
    <2>3. Append(stack, a) # << >> /\ Last(Append(stack, a)) = a
      BY <2>1, PushStack
    <2>4. Len(Append(stack, a)) = n + 1 /\ Append(stack, a)[n + 1] = a
      BY <2>1, PushStack
    <2>5. \A i \in 1..n : Append(stack, a)[i] = stack[i]
      BY <2>1, PushStack
    <2> QED BY <2>2, <2>3, <2>4, <2>5
  <1> HIDE DEF n
  <1>2. current = stack[n].ev
    BY <1>1 DEF StackInv, ContextIsInnermost, Top
  <1>3. \A i \in 1..(n + 1) : i \in 1..n \/ i = n + 1
    BY <1>1
  <1>4. Chain(stack)'
    <2>1. \A i \in 1..n : i # 1 => i - 1 \in 1..n
      BY <1>1
    <2> QED BY <1>1, <1>2, <1>3, <2>1 DEF StackInv, Chain, ArgOK, n
  <1>5. \A e \in Evals : CallsOf(e)' = CallsOf(e) /\ CallsOf(e) \subseteq 1..n
    BY <1>1, <1>3 DEF CallsOf, n
  <1>6. NoRecursion' /\ ActiveMirrorsStack'
    BY <1>1, <1>5 DEF StackInv, NoRecursion, ActiveMirrorsStack
  <1>7. ContextIsInnermost'
    BY <1>1 DEF ContextIsInnermost, Top
  <1> QED BY <1>4, <1>6, <1>7 DEF StackInv

LEMMA PushCall ==
  ASSUME TypeOK, StackInv, stack # << >>,
         NEW f \in Fns, current \in Evals, f \notin active[current],
         stack' = Append(stack, Act("call", current, f)),
         active' = [active EXCEPT ![current] = @ \cup {f}],
         UNCHANGED current
  PROVE  StackInv'
  <1> DEFINE n == Len(stack)
             a == Act("call", current, f)
  <1>0. a \in Activation /\ a.kind = "call" /\ a.ev = current /\ a.arg = f
    BY DEF Act, Activation, Kinds
  <1> HIDE DEF a
  <1>1. /\ n \in Nat \ {0}
        /\ Len(stack') = n + 1
        /\ stack' # << >>
        /\ \A i \in 1..n : stack'[i] = stack[i]
        /\ stack'[n + 1] = a
        /\ Last(stack') = a
        /\ Last(stack) = stack[n]
    <2>1. stack \in Seq(Activation) /\ stack' = Append(stack, a)
      BY DEF TypeOK, a
    <2>2. n \in Nat \ {0} /\ Last(stack) = stack[n]
      BY <2>1, PopStack
    <2>3. stack' # << >> /\ Last(stack') = a
      BY <1>0, <2>1, PushStack
    <2>4. Len(stack') = n + 1 /\ stack'[n + 1] = a
      BY <1>0, <2>1, PushStack
    <2>5. \A i \in 1..n : stack'[i] = stack[i]
      BY <1>0, <2>1, PushStack
    <2> QED BY <2>2, <2>3, <2>4, <2>5
  <1> HIDE DEF n
  <1>2. current = stack[n].ev
    BY <1>1 DEF StackInv, ContextIsInnermost, Top
  <1>3. \A i \in 1..(n + 1) : i \in 1..n \/ i = n + 1
    BY <1>1
  <1>4. Chain(stack)'
    <2>1. \A i \in 1..n : i # 1 => i - 1 \in 1..n
      BY <1>1
    <2> QED BY <1>0, <1>1, <1>2, <1>3, <2>1 DEF StackInv, Chain, ArgOK, n
  <1>5. /\ \A e \in Evals \ {current} : CallsOf(e)' = CallsOf(e)
        /\ CallsOf(current)' = CallsOf(current) \cup {n + 1}
        /\ \A e \in Evals : CallsOf(e) \subseteq 1..n
    BY <1>0, <1>1, <1>3 DEF CallsOf, n
  <1>6. NoRecursion'
    <2> SUFFICES ASSUME NEW e \in Evals,
                        NEW i \in CallsOf(e)', NEW j \in CallsOf(e)',
                        stack'[i].arg = stack'[j].arg
                 PROVE  i = j
      BY DEF NoRecursion
    <2>1. ASSUME NEW k \in CallsOf(current)
          PROVE  stack[k].arg # f
      BY <2>1 DEF StackInv, ActiveMirrorsStack
    <2>2. CASE e # current
      BY <1>1, <1>5, <2>2 DEF StackInv, NoRecursion
    <2>3. CASE e = current
      BY <1>0, <1>1, <1>5, <2>1, <2>3 DEF StackInv, NoRecursion
    <2> QED BY <2>2, <2>3
  <1>7. ActiveMirrorsStack'
    <2> SUFFICES ASSUME NEW e \in Evals
                 PROVE  active'[e] = {stack'[i].arg : i \in CallsOf(e)'}
      BY DEF ActiveMirrorsStack
    <2>1. active[e] = {stack[i].arg : i \in CallsOf(e)}
      BY DEF StackInv, ActiveMirrorsStack
    <2>2. CASE e # current
      BY <1>1, <1>5, <2>1, <2>2 DEF TypeOK
    <2>3. CASE e = current
      BY <1>0, <1>1, <1>5, <2>1, <2>3 DEF TypeOK
    <2> QED BY <2>2, <2>3
  <1>8. ContextIsInnermost'
    BY <1>0, <1>1 DEF ContextIsInnermost, Top
  <1> QED BY <1>4, <1>6, <1>7, <1>8 DEF StackInv

LEMMA PushFile ==
  ASSUME TypeOK, StackInv, NEW e \in Evals,
         stack' = Append(stack, Act("file", e, current)),
         current' = e, UNCHANGED active
  PROVE  StackInv'
  <1> DEFINE n == Len(stack)
             a == Act("file", e, current)
  <1>0. a \in Activation /\ a.kind = "file" /\ a.ev = e /\ a.arg = current
    BY DEF Act, Activation, Kinds, TypeOK
  <1> HIDE DEF a
  <1>1. /\ n \in Nat
        /\ Len(stack') = n + 1
        /\ stack' # << >>
        /\ \A i \in 1..n : stack'[i] = stack[i]
        /\ stack'[n + 1] = a
        /\ Last(stack') = a
    BY <1>0, PushStack DEF TypeOK, a
  <1>2. current = IF n = 0 THEN NoEval ELSE stack[n].ev
    BY <1>1, EmptySeq DEF StackInv, ContextIsInnermost, Top, Last, TypeOK
  <1> HIDE DEF n
  <1>3. \A i \in 1..(n + 1) : i \in 1..n \/ i = n + 1
    BY <1>1
  <1>4. Chain(stack)'
    <2>1. \A i \in 1..n : i # 1 => i - 1 \in 1..n
      BY <1>1
    <2>2. ArgOK(a)
      BY <1>0 DEF ArgOK, TypeOK
    <2>3. n # 0 => n \in 1..n
      BY <1>1
    <2>4. n + 1 = 1 <=> n = 0
      BY <1>1
    <2>5. (n + 1) - 1 = n
      BY <1>1
    <2>6. a.arg = IF n + 1 = 1 THEN NoEval ELSE stack'[(n + 1) - 1].ev
      BY <1>0, <1>1, <1>2, <2>3, <2>4, <2>5
    <2> QED BY <1>0, <1>1, <1>3, <2>1, <2>2, <2>6 DEF StackInv, Chain, ArgOK, n
  <1>5. \A d \in Evals : CallsOf(d)' = CallsOf(d) /\ CallsOf(d) \subseteq 1..n
    BY <1>0, <1>1, <1>3 DEF CallsOf, n
  <1>6. NoRecursion' /\ ActiveMirrorsStack'
    BY <1>1, <1>5 DEF StackInv, NoRecursion, ActiveMirrorsStack
  <1>7. ContextIsInnermost'
    BY <1>0, <1>1 DEF ContextIsInnermost, Top
  <1> QED BY <1>4, <1>6, <1>7 DEF StackInv

LEMMA PopTop ==
  ASSUME TypeOK, StackInv, stack # << >>, Finally
  PROVE  StackInv'
  <1> DEFINE n == Len(stack)
  <1>1. /\ n \in Nat \ {0}
        /\ stack' = Front(stack)
        /\ Len(stack') = n - 1
        /\ \A i \in 1..(n - 1) : stack'[i] = stack[i]
        /\ Top = stack[n]
        /\ Top \in Activation
        /\ stack' = << >> <=> n = 1
        /\ stack' # << >> => Last(stack') = stack[n - 1]
    <2>1. stack \in Seq(Activation) /\ stack' = Front(stack)
      BY DEF TypeOK, Finally
    <2>2. n \in Nat \ {0} /\ Len(stack') = n - 1
      BY <2>1, PopStack
    <2>3. \A i \in 1..(n - 1) : stack'[i] = stack[i]
      BY <2>1, <2>2, PopStack
    <2>4. Top = stack[n] /\ Top \in Activation
      BY <2>1, PopStack DEF Top
    <2>5. stack' = << >> <=> n = 1
      BY <2>1, PopStack
    <2>6. stack' # << >> => Last(stack') = stack[n - 1]
      BY <2>1, PopStack
    <2> QED BY <2>1, <2>2, <2>3, <2>4, <2>5, <2>6
  <1>2. \A i \in 1..n : i \in 1..(n - 1) \/ i = n
    BY <1>1
  <1>3. n \in 1..n /\ 1..(n - 1) \subseteq 1..n /\ n \notin 1..(n - 1)
    BY <1>1
  <1>4. Chain(stack)'
    BY <1>1, <1>3, SMTT(30) DEF StackInv, Chain, ArgOK
  <1>5. ContextIsInnermost'
    <2>1. current = Top.ev
      BY DEF StackInv, ContextIsInnermost
    <2>2. IF Top.kind = "file"
          THEN Top.arg = IF n = 1 THEN NoEval ELSE stack[n - 1].ev
          ELSE n # 1 /\ Top.ev = stack[n - 1].ev
      BY <1>1, <1>3 DEF StackInv, Chain
    <2>3. current' = IF Top.kind = "file" THEN Top.arg ELSE current
      BY DEF Finally
    <2> QED BY <1>1, <2>1, <2>2, <2>3 DEF ContextIsInnermost, Top
  <1>6. \A e \in Evals : CallsOf(e)' = CallsOf(e) \ {n}
    BY <1>1, <1>2, <1>3 DEF CallsOf
  <1>7. \A e \in Evals : CallsOf(e)' \subseteq 1..(n - 1)
    BY <1>1 DEF CallsOf
  <1>8. NoRecursion'
    BY <1>1, <1>6, <1>7 DEF StackInv, NoRecursion
  <1>9. ActiveMirrorsStack'
    <2> SUFFICES ASSUME NEW e \in Evals
                 PROVE  active'[e] = {stack'[i].arg : i \in CallsOf(e)'}
      BY DEF ActiveMirrorsStack
    <2>1. active[e] = {stack[i].arg : i \in CallsOf(e)}
      BY DEF StackInv, ActiveMirrorsStack
    <2>2. {stack'[i].arg : i \in CallsOf(e)'} = {stack[i].arg : i \in CallsOf(e) \ {n}}
      BY <1>1, <1>6, <1>7
    <2>3. CASE n \notin CallsOf(e)
      <3>1. CallsOf(e) \ {n} = CallsOf(e)
        BY <2>3
      <3>2. active'[e] = active[e]
        BY <1>1, <1>3, <2>3 DEF Finally, CallsOf, TypeOK, Activation
      <3> QED BY <2>1, <2>2, <3>1, <3>2
    <2>4. CASE n \in CallsOf(e)
      <3>1. Top.kind = "call" /\ Top.ev = e
        BY <1>1, <2>4 DEF CallsOf
      <3>2. active'[e] = active[e] \ {stack[n].arg}
        BY <1>1, <3>1 DEF Finally, TypeOK
      <3>3. \A i \in CallsOf(e) : stack[i].arg = stack[n].arg <=> i = n
        BY <2>4 DEF StackInv, NoRecursion
      <3> QED BY <2>1, <2>2, <2>4, <3>2, <3>3
    <2> QED BY <2>3, <2>4
  <1> QED BY <1>4, <1>5, <1>8, <1>9 DEF StackInv

-----------------------------------------------------------------------------
(* The evaluation at which a call, statement or expression ticks is the    *)
(* innermost one, and the stack is not empty there.                        *)
LEMMA SiteIsCurrent ==
  ASSUME TypeOK, StackInv, NEW e \in Evals,
         StmtSite(e) \/ ExprSite(e) \/ CallSite(e)
  PROVE  e = current /\ stack # << >> /\ current \in Evals
  BY DEF StackInv, ContextIsInnermost, StmtSite, ExprSite, CallSite, At

LEMMA AtIsInside ==
  ASSUME TypeOK, StackInv, stack # << >>
  PROVE  current = Top.ev /\ Top \in Activation /\ current \in Evals
  <1>1. Top \in Activation
    BY PopStack DEF TypeOK, Top
  <1> QED BY <1>1 DEF StackInv, ContextIsInnermost, Activation

LEMMA TopArg ==
  ASSUME TypeOK, StackInv, stack # << >>
  PROVE  ArgOK(Top)
  <1> DEFINE n == Len(stack)
  <1>1. n \in Nat \ {0} /\ Top = stack[n]
    BY PopStack DEF TypeOK, Top
  <1> HIDE DEF n
  <1>2. n \in 1..n
    BY <1>1
  <1>3. \A i \in 1..n : ArgOK(stack[i])
    BY DEF StackInv, Chain, n
  <1> QED BY <1>1, <1>2, <1>3

LEMMA HitLimitStep ==
  ASSUME TypeOK, StackInv, stack # << >>, NEW l \in Limits,
         HitLimit(current, l), UNCHANGED <<current, active>>
  PROVE  /\ StackInv'
         /\ stack' \in Seq(Activation)
         /\ exc' \in Exceptions
         /\ armed' \in [Evals -> SUBSET Limits]
         /\ fired' \in [Evals -> [Limits -> Nat]]
  <1>1. current \in Evals
    BY AtIsInside
  <1>2. CASE l \in armed[current]
    <2>1. /\ Act("limit", current, l) \in Activation
          /\ ArgOK(Act("limit", current, l))
          /\ Act("limit", current, l).ev = current
          /\ Act("limit", current, l).kind \notin {"file", "call"}
      BY <1>1 DEF Act, Activation, ArgOK, Kinds
    <2>2. stack' = Append(stack, Act("limit", current, l))
      BY <1>2 DEF HitLimit, Push
    <2>3. StackInv'
      BY <2>1, <2>2, PushInner
    <2>4. stack' \in Seq(Activation)
      BY <2>1, <2>2, PushStack DEF TypeOK
    <2>5. /\ armed' = [armed EXCEPT ![current] = @ \ {l}]
          /\ fired' = [fired EXCEPT ![current][l] = @ + 1]
          /\ exc' = exc
      BY <1>2 DEF HitLimit
    <2> QED BY <1>1, <2>3, <2>4, <2>5 DEF TypeOK
  <1>3. CASE l \notin armed[current]
    <2>1. exc' = l /\ UNCHANGED <<stack, armed, fired>>
      BY <1>3 DEF HitLimit
    <2>2. StackInv'
      BY <2>1, KeepStack
    <2> QED BY <2>1, <2>2 DEF TypeOK, Exceptions, Raised, EvalErrors
  <1> QED BY <1>2, <1>3

LEMMA EmptyStackInv == Init => Inv
  <1> SUFFICES ASSUME Init PROVE Inv
    OBVIOUS
  <1>1. Len(stack) = 0 /\ stack \in Seq(Activation) /\ << >> \in Seq(Fns \cup {NoFn})
    BY EmptySeq DEF Init
  <1>2. TypeOK
    BY <1>1, LimitsAssumption
    DEF Init, TypeOK, Exceptions, Outcomes
  <1>3. \A e \in Evals : CallsOf(e) = {}
    BY <1>1 DEF CallsOf
  <1>4. StackInv
    BY <1>1, <1>3
    DEF Init, StackInv, Chain, ContextIsInnermost, NoRecursion, ActiveMirrorsStack
  <1> QED BY <1>2, <1>4 DEF Inv

(* Pushing an activation of the running evaluation.                        *)
LEMMA EnterStep ==
  ASSUME TypeOK, StackInv, stack # << >>, NEW k \in Kinds \ {"file", "call", "limit"},
         stack' = Append(stack, Act(k, current, NoFn)),
         UNCHANGED <<current, active>>
  PROVE  StackInv' /\ stack' \in Seq(Activation)
  <1>1. current \in Evals
    BY AtIsInside
  <1>2. /\ Act(k, current, NoFn) \in Activation
        /\ ArgOK(Act(k, current, NoFn))
        /\ Act(k, current, NoFn).ev = current
        /\ Act(k, current, NoFn).kind \notin {"file", "call"}
    BY <1>1 DEF Act, Activation, ArgOK
  <1> QED BY <1>2, PushInner, PushStack DEF TypeOK

(* What leaving an activation does to the types.                           *)
LEMMA FinallyTypes ==
  ASSUME TypeOK, StackInv, stack # << >>, Finally
  PROVE  /\ stack'   \in Seq(Activation)
         /\ depth'   \in [Evals -> Int]
         /\ frames'  \in [Evals -> Seq(Fns \cup {NoFn})]
         /\ active'  \in [Evals -> SUBSET Fns]
         /\ current' \in Evals \cup {NoEval}
  <1>1. Top \in Activation /\ Top.ev \in Evals
    BY AtIsInside DEF Activation
  <1>2. stack' \in Seq(Activation)
    BY FrontType DEF Finally, TypeOK
  <1>3. depth' \in [Evals -> Int]
    BY <1>1 DEF Finally, TypeOK
  <1>4. frames' \in [Evals -> Seq(Fns \cup {NoFn})]
    <2>1. frames[Top.ev] \in Seq(Fns \cup {NoFn})
      BY <1>1 DEF TypeOK
    <2>2. Front(frames[Top.ev]) \in Seq(Fns \cup {NoFn})
      BY <2>1, FrontType
    <2> QED BY <1>1, <2>2 DEF Finally, TypeOK
  <1>5. active' \in [Evals -> SUBSET Fns]
    BY <1>1 DEF Finally, TypeOK
  <1>6. current' \in Evals \cup {NoEval}
    <2>1. Top.kind = "file" => Top.arg \in Evals \cup {NoEval}
      BY TopArg DEF ArgOK
    <2> QED BY <2>1 DEF Finally, TypeOK
  <1> QED BY <1>2, <1>3, <1>4, <1>5, <1>6

LEMMA TickedType ==
  ASSUME TypeOK, NEW e \in Evals, Ticked(e)
  PROVE  steps' \in [Evals -> Nat]
  BY DEF TypeOK, Ticked

(* Every step keeps the invariant.                                         *)
LEMMA InvStep == Inv /\ [Next]_vars => Inv'
  <1> SUFFICES ASSUME TypeOK, StackInv, [Next]_vars
               PROVE  TypeOK' /\ StackInv'
    BY DEF Inv
  <1> USE DEF TypeOK
  <1>1. ASSUME NEW e \in Evals, StartEvaluation(e)
        PROVE  TypeOK' /\ StackInv'
    <2>1. StackInv'
      BY <1>1, PushFile DEF StartEvaluation, Push
    <2>2. stack' \in Seq(Activation)
      <3>1. Act("file", e, current) \in Activation
        BY DEF Act, Activation, Kinds
      <3> QED BY <1>1, <3>1, PushStack DEF StartEvaluation, Push
    <2>3. frames' \in [Evals -> Seq(Fns \cup {NoFn})]
      <3>1. Append(frames[e], NoFn) \in Seq(Fns \cup {NoFn})
        BY AppendProperties
      <3> QED BY <1>1, <3>1 DEF StartEvaluation
    <2> QED BY <1>1, <2>1, <2>2, <2>3 DEF StartEvaluation, Outcomes
  <1>2. ASSUME NEW e \in Evals, NEW x \in Unresolved, ResolveFails(e, x)
        PROVE  TypeOK' /\ StackInv'
    <2>1. StackInv'
      BY <1>2, KeepStack DEF ResolveFails
    <2> QED BY <1>2, <2>1 DEF ResolveFails, Unresolved, Outcomes, Exceptions, Raised
  <1>3. ASSUME NEW e \in Evals, StepLimitHit(e)
        PROVE  TypeOK' /\ StackInv'
    <2>1. e = current /\ stack # << >>
      BY <1>3, SiteIsCurrent DEF StepLimitHit
    <2>2. HitLimit(current, "steps") /\ UNCHANGED <<current, active>>
      BY <1>3, <2>1 DEF StepLimitHit
    <2>3. /\ StackInv'
          /\ stack' \in Seq(Activation)
          /\ exc' \in Exceptions
          /\ armed' \in [Evals -> SUBSET Limits]
          /\ fired' \in [Evals -> [Limits -> Nat]]
      BY <2>1, <2>2, HitLimitStep DEF Limits
    <2>4. steps' \in [Evals -> Nat]
      BY <1>3 DEF StepLimitHit
    <2>5. UNCHANGED <<allocs, depth, frames, active, current, outcome>>
      BY <1>3 DEF StepLimitHit
    <2> QED BY <2>3, <2>4, <2>5
  <1>4. ASSUME Charge
        PROVE  TypeOK' /\ StackInv'
    <2>1. stack # << >> /\ current \in Evals
      BY <1>4, AtIsInside DEF Charge, At
    <2>2. allocs' \in [Evals -> Nat]
      BY <1>4, <2>1 DEF Charge
    <2>3. CASE Exceeds(allocs[current] + 1, MaxAllocs[current])
      <3>1. /\ StackInv'
            /\ stack' \in Seq(Activation)
            /\ exc' \in Exceptions
            /\ armed' \in [Evals -> SUBSET Limits]
            /\ fired' \in [Evals -> [Limits -> Nat]]
        BY <1>4, <2>1, <2>3, HitLimitStep DEF Charge, Limits
      <3> QED BY <1>4, <2>2, <3>1 DEF Charge
    <2>4. CASE ~Exceeds(allocs[current] + 1, MaxAllocs[current])
      <3>1. StackInv'
        BY <1>4, <2>4, KeepStack DEF Charge
      <3> QED BY <1>4, <2>2, <2>4, <3>1 DEF Charge
    <2> QED BY <2>3, <2>4
  <1>5. ASSUME NEW e \in Evals, NEW k \in {"stmt", "for"}, ExecStmt(e, k)
        PROVE  TypeOK' /\ StackInv'
    <2>1. e = current /\ stack # << >>
      BY <1>5, SiteIsCurrent DEF ExecStmt
    <2>2. k \in Kinds \ {"file", "call", "limit"}
      BY DEF Kinds
    <2>3. StackInv' /\ stack' \in Seq(Activation)
      BY <1>5, <2>1, <2>2, EnterStep DEF ExecStmt, Push
    <2>4. steps' \in [Evals -> Nat]
      BY <1>5, TickedType DEF ExecStmt
    <2> QED BY <1>5, <2>3, <2>4 DEF ExecStmt
  <1>6. ASSUME NEW e \in Evals, EvalExpr(e)
        PROVE  TypeOK' /\ StackInv'
    <2>1. e = current /\ stack # << >>
      BY <1>6, SiteIsCurrent DEF EvalExpr
    <2>2. CASE depth[e] + 1 > MaxDepth
      <3>1. StackInv'
        BY <1>6, <2>2, KeepStack DEF EvalExpr
      <3>2. steps' \in [Evals -> Nat] /\ "eval" \in Exceptions
        BY <1>6, TickedType DEF EvalExpr, Exceptions, Raised, EvalErrors
      <3>3. exc' = "eval" /\ UNCHANGED <<stack, depth>>
        BY <1>6, <2>2 DEF EvalExpr
      <3>4. UNCHANGED <<allocs, frames, active, armed, fired, current, outcome>>
        BY <1>6 DEF EvalExpr
      <3> QED BY <3>1, <3>2, <3>3, <3>4
    <2>3. CASE ~(depth[e] + 1 > MaxDepth)
      <3>1. "expr" \in Kinds \ {"file", "call", "limit"}
        BY DEF Kinds
      <3>2. StackInv' /\ stack' \in Seq(Activation)
        BY <1>6, <2>1, <2>3, <3>1, EnterStep DEF EvalExpr, Push
      <3>3. depth' \in [Evals -> Int]
        <4>1. depth' = [depth EXCEPT ![e] = @ + 1]
          BY <1>6, <2>3 DEF EvalExpr
        <4> QED BY <4>1
      <3>4. steps' \in [Evals -> Nat]
        BY <1>6 DEF EvalExpr, Ticked
      <3>5. UNCHANGED <<exc, allocs, frames, active, armed, fired, current, outcome>>
        BY <1>6, <2>3 DEF EvalExpr
      <3> QED BY <3>2, <3>3, <3>4, <3>5
    <2> QED BY <2>2, <2>3
  <1>7. ASSUME NEW e \in Evals, NEW f \in Fns, CallFunction(e, f)
        PROVE  TypeOK' /\ StackInv'
    <2>1. e = current /\ stack # << >>
      BY <1>7, SiteIsCurrent DEF CallFunction
    <2>2. CASE f \in active[e]
      <3>1. StackInv'
        BY <1>7, <2>2, KeepStack DEF CallFunction
      <3> QED BY <1>7, <2>2, <3>1, SMTT(30)
          DEF CallFunction, Ticked, Exceptions, Raised, EvalErrors
    <2>3. CASE f \notin active[e]
      <3>0. /\ stack' = Append(stack, Act("call", e, f))
            /\ frames' = [frames EXCEPT ![e] = Append(@, f)]
            /\ active' = [active EXCEPT ![e] = @ \cup {f}]
            /\ steps' = [steps EXCEPT ![e] = @ + 1]
            /\ UNCHANGED <<exc, allocs, depth, armed, fired, current, outcome>>
        BY <1>7, <2>3 DEF CallFunction, Push, Ticked
      <3>1. StackInv'
        BY <2>1, <2>3, <3>0, PushCall
      <3>2. stack' \in Seq(Activation)
        <4>1. Act("call", e, f) \in Activation
          BY DEF Act, Activation, Kinds
        <4> QED BY <3>0, <4>1, PushStack
      <3>3. frames' \in [Evals -> Seq(Fns \cup {NoFn})]
        <4>1. Append(frames[e], f) \in Seq(Fns \cup {NoFn})
          BY AppendProperties
        <4> QED BY <3>0, <4>1
      <3>4. active' \in [Evals -> SUBSET Fns]
        <4>1. active[e] \cup {f} \in SUBSET Fns
          BY DEF TypeOK
        <4> QED BY <3>0, <4>1
      <3>5. steps' \in [Evals -> Nat]
        BY <3>0
      <3> QED BY <3>0, <3>1, <3>2, <3>3, <3>4, <3>5
    <2> QED BY <2>2, <2>3
  <1>8. ASSUME NEW e \in Evals, CallBuiltin(e)
        PROVE  TypeOK' /\ StackInv'
    <2>1. e = current /\ stack # << >>
      BY <1>8, SiteIsCurrent DEF CallBuiltin
    <2>2. "builtin" \in Kinds \ {"file", "call", "limit"}
      BY DEF Kinds
    <2>3. StackInv' /\ stack' \in Seq(Activation)
      BY <1>8, <2>1, <2>2, EnterStep DEF CallBuiltin, Push
    <2> QED BY <1>8, <2>3, SMTT(30) DEF CallBuiltin, Ticked
  <1>9. ASSUME NEW e \in Evals, CallRejected(e)
        PROVE  TypeOK' /\ StackInv'
    <2>1. StackInv'
      BY <1>9, KeepStack DEF CallRejected
    <2>2. steps' \in [Evals -> Nat] /\ "eval" \in Exceptions
      BY <1>9, TickedType DEF CallRejected, Exceptions, Raised, EvalErrors
    <2>3. /\ exc' = "eval"
          /\ UNCHANGED <<stack, allocs, depth, frames, active, armed, fired,
                         current, outcome>>
      BY <1>9 DEF CallRejected
    <2> QED BY <2>1, <2>2, <2>3
  <1>10. ASSUME NEW s \in Signals, Signal(s)
         PROVE  TypeOK' /\ StackInv'
    <2>1. StackInv'
      BY <1>10, KeepStack DEF Signal
    <2> QED BY <1>10, <2>1 DEF Signal, Exceptions
  <1>11. ASSUME NEW x \in Raised, Raise(x)
         PROVE  TypeOK' /\ StackInv'
    <2>1. StackInv'
      BY <1>11, KeepStack DEF Raise
    <2> QED BY <1>11, <2>1 DEF Raise, Exceptions
  <1>12. ASSUME Return
         PROVE  TypeOK' /\ StackInv'
    <2>1. stack # << >> /\ Finally
      BY <1>12 DEF Return, At
    <2>2. StackInv'
      BY <2>1, PopTop
    <2>3. Top \in Activation /\ Top.ev \in Evals
      BY <2>1, AtIsInside DEF Activation
    <2>4. Top.kind = "limit" => Top.arg \in Limits
      BY <2>1, TopArg DEF ArgOK
    <2>5. exc' \in Exceptions /\ outcome' \in [Evals -> Outcomes]
      BY <1>12, <2>3, <2>4
      DEF Return, Exceptions, Raised, EvalErrors, Outcomes
    <2> QED BY <1>12, <2>1, <2>2, <2>5, FinallyTypes DEF Return
  <1>13. ASSUME Unwind
         PROVE  TypeOK' /\ StackInv'
    <2>1. stack # << >> /\ Finally
      BY <1>13 DEF Unwind
    <2>2. StackInv'
      BY <2>1, PopTop
    <2>3. Top \in Activation /\ Top.ev \in Evals
      BY <2>1, AtIsInside DEF Activation
    <2>4. \A k \in Kinds : Passed(k, exc) \in Exceptions
      BY DEF Passed, Exceptions, Raised, EvalErrors
    <2>5. exc' \in Exceptions
      BY <1>13, <2>3, <2>4 DEF Unwind, Activation, Exceptions
    <2>6. outcome' \in [Evals -> Outcomes]
      BY <1>13, <2>3, <2>4 DEF Unwind, Outcomes, Kinds
    <2>7. UNCHANGED <<steps, allocs, armed, fired>>
      BY <1>13 DEF Unwind
    <2> QED BY <2>1, <2>2, <2>5, <2>6, <2>7, FinallyTypes
  <1>14. ASSUME Continue
         PROVE  TypeOK' /\ StackInv'
    <2>1. StackInv'
      BY <1>14, KeepStack DEF Continue
    <2> QED BY <1>14, <2>1 DEF Continue, Exceptions
  <1>15. ASSUME AssertFails
         PROVE  TypeOK' /\ StackInv'
    <2>1. stack # << >> /\ Finally
      BY <1>15 DEF AssertFails
    <2>2. StackInv'
      BY <2>1, PopTop
    <2> QED BY <1>15, <2>1, <2>2, FinallyTypes DEF AssertFails, Exceptions
  <1>16. CASE UNCHANGED vars
    BY <1>16, KeepStack DEF vars
  <1> QED
    BY <1>1, <1>2, <1>3, <1>4, <1>5, <1>6, <1>7, <1>8, <1>9, <1>10, <1>11,
       <1>12, <1>13, <1>14, <1>15, <1>16
    DEF Next, Step

LEMMA Invariance == Spec => []Inv
  BY EmptyStackInv, InvStep, PTL DEF Spec

(* Every variable keeps its type, so no step is ever undefined: charges go *)
(* to a Thread that exists and a popped activation has the argument its    *)
(* kind calls for.                                                         *)
THEOREM TypeCorrect == Spec => []TypeOK
  BY Invariance, PTL DEF Inv

(* The ContextVar names the innermost evaluation, for any depth of nesting *)
(* and any way evaluations end.                                            *)
THEOREM ContextCorrect == Spec => []ContextIsInnermost
  BY Invariance, PTL DEF Inv, StackInv

(* Recursion is rejected: `active` is exactly the set of functions on the  *)
(* call stack, so no function gets onto it twice.                          *)
THEOREM RecursionRejected == Spec => [](NoRecursion /\ ActiveMirrorsStack)
  BY Invariance, PTL DEF Inv, StackInv

(* Only the innermost evaluation is charged or changed by a step.          *)
THEOREM Isolation == Spec => NestedIsIsolated
  <1> DEFINE Kept(d) == /\ steps'[d]  = steps[d]
                        /\ allocs'[d] = allocs[d]
                        /\ depth'[d]  = depth[d]
                        /\ active'[d] = active[d]
                        /\ frames'[d] = frames[d]
                        /\ armed'[d]  = armed[d]
             A == \A e \in Evals : e \notin {current, current'} => Kept(e)
  <1>1. ASSUME Inv, [Next]_vars PROVE A
    <2> SUFFICES ASSUME NEW d \in Evals, d \notin {current, current'}
                 PROVE  Kept(d)
      OBVIOUS
    <2>0. TypeOK /\ StackInv
      BY <1>1 DEF Inv
    <2> USE <2>0 DEF TypeOK
    <2>1. ASSUME NEW e \in Evals, StartEvaluation(e) \/ \E x \in Unresolved : ResolveFails(e, x)
          PROVE  Kept(d)
      BY <2>1 DEF StartEvaluation, ResolveFails
    <2>2. ASSUME NEW e \in Evals, StmtSite(e) \/ ExprSite(e) \/ CallSite(e)
          PROVE  e # d
      BY <2>2, SiteIsCurrent
    <2>3. ASSUME NEW e \in Evals, StepLimitHit(e)
          PROVE  Kept(d)
      BY <2>2, <2>3 DEF StepLimitHit, HitLimit
    <2>4. ASSUME Charge
          PROVE  Kept(d)
      BY <2>4 DEF Charge, HitLimit
    <2>5. ASSUME NEW e \in Evals, NEW k \in {"stmt", "for"}, ExecStmt(e, k)
          PROVE  Kept(d)
      BY <2>2, <2>5 DEF ExecStmt, Ticked
    <2>6. ASSUME NEW e \in Evals, EvalExpr(e)
          PROVE  Kept(d)
      BY <2>2, <2>6 DEF EvalExpr, Ticked
    <2>7. ASSUME NEW e \in Evals, NEW f \in Fns, CallFunction(e, f)
          PROVE  Kept(d)
      BY <2>2, <2>7 DEF CallFunction, Ticked
    <2>8. ASSUME NEW e \in Evals, CallBuiltin(e) \/ CallRejected(e)
          PROVE  Kept(d)
      BY <2>2, <2>8 DEF CallBuiltin, CallRejected, Ticked
    <2>9. ASSUME stack # << >>, Finally, UNCHANGED <<steps, allocs, armed>>
          PROVE  Kept(d)
      <3>1. current = Top.ev /\ current \in Evals
        BY <2>9, AtIsInside
      <3> QED BY <2>9, <3>1 DEF Finally
    <2>10. ASSUME Return \/ Unwind \/ AssertFails
           PROVE  Kept(d)
      BY <2>9, <2>10 DEF Return, Unwind, AssertFails, At
    <2>11. ASSUME NEW s \in Signals, Signal(s)
           PROVE  Kept(d)
      BY <2>11 DEF Signal
    <2>12. ASSUME NEW x \in Raised, Raise(x)
           PROVE  Kept(d)
      BY <2>12 DEF Raise
    <2>13. ASSUME Continue \/ UNCHANGED vars
           PROVE  Kept(d)
      BY <2>13 DEF Continue, vars
    <2> QED
      BY <1>1, <2>1, <2>3, <2>4, <2>5, <2>6, <2>7, <2>8, <2>10, <2>11, <2>12,
         <2>13 DEF Next, Step
  <1>2. ASSUME Inv, [Next]_vars PROVE [A]_vars
    BY <1>1, <1>2
  <1> QED BY <1>2, Invariance, PTL DEF Spec, NestedIsIsolated

-----------------------------------------------------------------------------
(* Limits and their callbacks.                                             *)

(* A callback is armed exactly as long as its limit is not exceeded.       *)
ArmedUntilOver ==
  \A e \in Evals, l \in Limits :
    /\ l \in armed[e] <=> l \in Armed[e] /\ ~OverLimit(e, l)
    /\ fired[e][l] = IF l \in Armed[e] /\ OverLimit(e, l) THEN 1 ELSE 0

(* A counter that rises by one within its limit is still within it.        *)
LEMMA ExceedsMonotone ==
  ASSUME NEW n \in Nat, NEW limit \in Nat \cup {Unlimited}
  PROVE  /\ Exceeds(n, limit) => Exceeds(n + 1, limit)
         /\ ~Exceeds(0, limit)
  BY DEF Exceeds, Unlimited

(* Nothing happens to limits as long as counters stay within them.         *)
LEMMA WithinLimits ==
  ASSUME ArmedUntilOver, UNCHANGED <<armed, fired>>,
         \A e \in Evals, l \in Limits : OverLimit(e, l)' = OverLimit(e, l)
  PROVE  ArmedUntilOver'
  BY DEF ArmedUntilOver

LEMMA TickedWithin ==
  ASSUME TypeOK, ArmedUntilOver, NEW e \in Evals, Ticked(e),
         UNCHANGED <<allocs, armed, fired>>
  PROVE  ArmedUntilOver'
  <1>1. MaxSteps[e] \in Nat \cup {Unlimited} /\ steps[e] \in Nat
    BY LimitsAssumption DEF TypeOK
  <1>2. ~Exceeds(steps[e] + 1, MaxSteps[e]) /\ ~Exceeds(steps[e], MaxSteps[e])
    BY <1>1, ExceedsMonotone DEF Ticked
  <1>3. \A d \in Evals : Exceeds(steps'[d], MaxSteps[d]) = Exceeds(steps[d], MaxSteps[d])
    <2> SUFFICES ASSUME NEW d \in Evals
                 PROVE  Exceeds(steps'[d], MaxSteps[d]) = Exceeds(steps[d], MaxSteps[d])
      OBVIOUS
    <2>1. CASE d = e
      <3>1. steps'[d] = steps[d] + 1
        BY <2>1 DEF Ticked, TypeOK
      <3>2. Exceeds(steps'[d], MaxSteps[d]) = FALSE /\ Exceeds(steps[d], MaxSteps[d]) = FALSE
        BY <1>2, <2>1, <3>1 DEF Exceeds
      <3> QED BY <3>2
    <2>2. CASE d # e
      <3>1. steps'[d] = steps[d]
        BY <2>2 DEF Ticked, TypeOK
      <3> QED BY <3>1
    <2> QED BY <2>1, <2>2
  <1>4. \A d \in Evals, l \in Limits : OverLimit(d, l)' = OverLimit(d, l)
    BY <1>3 DEF OverLimit, Limits
  <1> QED BY <1>4, WithinLimits

(* Exceeding limit l of e fires its callback if it has not fired yet.      *)
LEMMA HitLimitOnce ==
  ASSUME TypeOK, ArmedUntilOver, NEW e \in Evals, NEW l \in Limits, HitLimit(e, l),
         OverLimit(e, l)',
         \A d \in Evals, k \in Limits :
            <<d, k>> # <<e, l>> => OverLimit(d, k)' = OverLimit(d, k)
  PROVE  ArmedUntilOver'
  <1> SUFFICES ASSUME NEW d \in Evals, NEW k \in Limits
               PROVE  /\ k \in armed'[d] <=> k \in Armed[d] /\ ~OverLimit(d, k)'
                      /\ fired'[d][k] = IF k \in Armed[d] /\ OverLimit(d, k)' THEN 1 ELSE 0
    BY DEF ArmedUntilOver
  <1>0. /\ k \in armed[d] <=> k \in Armed[d] /\ ~OverLimit(d, k)
        /\ fired[d][k] = IF k \in Armed[d] /\ OverLimit(d, k) THEN 1 ELSE 0
    BY DEF ArmedUntilOver
  <1>1. CASE l \in armed[e]
    <2>1. /\ armed' = [armed EXCEPT ![e] = @ \ {l}]
          /\ fired' = [fired EXCEPT ![e][l] = @ + 1]
      BY <1>1 DEF HitLimit
    <2>2. CASE d = e /\ k = l
      <3>1. k \notin armed'[d] /\ fired'[d][k] = fired[d][k] + 1
        BY <2>1, <2>2 DEF TypeOK
      <3> QED BY <1>0, <1>1, <2>2, <3>1
    <2>3. CASE ~(d = e /\ k = l)
      <3>1. (k \in armed'[d] <=> k \in armed[d]) /\ fired'[d][k] = fired[d][k]
        BY <2>1, <2>3 DEF TypeOK
      <3>2. OverLimit(d, k)' = OverLimit(d, k)
        BY <2>3
      <3> QED BY <1>0, <3>1, <3>2
    <2> QED BY <2>2, <2>3
  <1>2. CASE l \notin armed[e]
    <2>1. UNCHANGED <<armed, fired>>
      BY <1>2 DEF HitLimit
    <2>2. CASE d = e /\ k = l
      BY <1>0, <1>2, <2>1, <2>2
    <2>3. CASE ~(d = e /\ k = l)
      <3>1. OverLimit(d, k)' = OverLimit(d, k)
        BY <2>3
      <3> QED BY <1>0, <2>1, <3>1
    <2> QED BY <2>2, <2>3
  <1> QED BY <1>1, <1>2

LEMMA ArmedInit == Init => ArmedUntilOver
  <1> SUFFICES ASSUME Init, NEW e \in Evals, NEW l \in Limits
               PROVE  /\ l \in armed[e] <=> l \in Armed[e] /\ ~OverLimit(e, l)
                      /\ fired[e][l] = IF l \in Armed[e] /\ OverLimit(e, l) THEN 1 ELSE 0
    BY DEF ArmedUntilOver
  <1>1. /\ MaxSteps[e] \in Nat \cup {Unlimited} /\ MaxAllocs[e] \in Nat \cup {Unlimited}
        /\ steps[e] = 0 /\ allocs[e] = 0
        /\ armed[e] = Armed[e] /\ fired[e][l] = 0
    BY LimitsAssumption DEF Init
  <1>2. ~OverLimit(e, l)
    BY <1>1, ExceedsMonotone DEF OverLimit, Limits
  <1> QED BY <1>1, <1>2

LEMMA ArmedStep == Inv /\ ArmedUntilOver /\ [Next]_vars => ArmedUntilOver'
  <1> SUFFICES ASSUME TypeOK, StackInv, ArmedUntilOver, [Next]_vars
               PROVE  ArmedUntilOver'
    BY DEF Inv
  <1>1. ASSUME UNCHANGED <<steps, allocs, armed, fired>>
        PROVE  ArmedUntilOver'
    <2>1. \A e \in Evals, l \in Limits : OverLimit(e, l)' = OverLimit(e, l)
      BY <1>1 DEF OverLimit, Limits
    <2> QED BY <1>1, <2>1, WithinLimits
  <1>2. ASSUME NEW e \in Evals, StartEvaluation(e) \/ \E x \in Unresolved : ResolveFails(e, x)
        PROVE  ArmedUntilOver'
    BY <1>1, <1>2 DEF StartEvaluation, ResolveFails
  <1>3. ASSUME NEW e \in Evals, StepLimitHit(e)
        PROVE  ArmedUntilOver'
    <2>1. /\ Exceeds(steps[e] + 1, MaxSteps[e]) /\ HitLimit(e, "steps")
          /\ steps' = [steps EXCEPT ![e] = @ + 1] /\ UNCHANGED allocs
      BY <1>3 DEF StepLimitHit
    <2>2. OverLimit(e, "steps")'
      BY <2>1 DEF OverLimit, TypeOK
    <2>3. \A d \in Evals : d # e => steps'[d] = steps[d]
      BY <2>1 DEF TypeOK
    <2>4. \A d \in Evals, k \in Limits :
            <<d, k>> # <<e, "steps">> => OverLimit(d, k)' = OverLimit(d, k)
      BY <2>1, <2>3 DEF OverLimit, Limits
    <2> QED BY <2>1, <2>2, <2>4, HitLimitOnce DEF Limits
  <1>4. ASSUME Charge
        PROVE  ArmedUntilOver'
    <2>0. PICK e \in Evals : e = current
      BY <1>4, AtIsInside DEF Charge, At
    <2>1. /\ allocs' = [allocs EXCEPT ![e] = @ + 1] /\ UNCHANGED steps
          /\ IF Exceeds(allocs[e] + 1, MaxAllocs[e])
             THEN HitLimit(e, "allocs")
             ELSE UNCHANGED <<stack, exc, armed, fired>>
      BY <1>4, <2>0 DEF Charge
    <2>2. /\ allocs'[e] = allocs[e] + 1
          /\ \A d \in Evals : d # e => allocs'[d] = allocs[d]
      BY <2>1 DEF TypeOK
    <2>3. \A d \in Evals, k \in Limits :
            <<d, k>> # <<e, "allocs">> => OverLimit(d, k)' = OverLimit(d, k)
      BY <2>1, <2>2 DEF OverLimit, Limits
    <2>4. CASE Exceeds(allocs[e] + 1, MaxAllocs[e])
      <3>1. OverLimit(e, "allocs")' /\ HitLimit(e, "allocs")
        BY <2>1, <2>2, <2>4 DEF OverLimit
      <3> QED BY <2>3, <3>1, HitLimitOnce DEF Limits
    <2>5. CASE ~Exceeds(allocs[e] + 1, MaxAllocs[e])
      <3>1. MaxAllocs[e] \in Nat \cup {Unlimited} /\ allocs[e] \in Nat
        BY LimitsAssumption DEF TypeOK
      <3>2. ~Exceeds(allocs[e], MaxAllocs[e])
        BY <2>5, <3>1, ExceedsMonotone
      <3>3. OverLimit(e, "allocs")' = OverLimit(e, "allocs")
        BY <2>2, <2>5, <3>2 DEF OverLimit, Exceeds
      <3>4. \A d \in Evals, k \in Limits : OverLimit(d, k)' = OverLimit(d, k)
        BY <2>3, <3>3
      <3> QED BY <2>1, <2>5, <3>4, WithinLimits
    <2> QED BY <2>4, <2>5
  <1>5. ASSUME NEW e \in Evals, NEW k \in {"stmt", "for"}, ExecStmt(e, k)
        PROVE  ArmedUntilOver'
    BY <1>5, TickedWithin DEF ExecStmt
  <1>6. ASSUME NEW e \in Evals, EvalExpr(e)
        PROVE  ArmedUntilOver'
    BY <1>6, TickedWithin DEF EvalExpr
  <1>7. ASSUME NEW e \in Evals, NEW f \in Fns, CallFunction(e, f)
        PROVE  ArmedUntilOver'
    BY <1>7, TickedWithin DEF CallFunction
  <1>8. ASSUME NEW e \in Evals, CallBuiltin(e) \/ CallRejected(e)
        PROVE  ArmedUntilOver'
    BY <1>8, TickedWithin DEF CallBuiltin, CallRejected
  <1>9. ASSUME NEW s \in Signals, Signal(s)
        PROVE  ArmedUntilOver'
    BY <1>1, <1>9 DEF Signal
  <1>10. ASSUME NEW x \in Raised, Raise(x)
         PROVE  ArmedUntilOver'
    BY <1>1, <1>10 DEF Raise
  <1>11. ASSUME Return \/ Unwind \/ Continue \/ AssertFails
         PROVE  ArmedUntilOver'
    BY <1>1, <1>11 DEF Return, Unwind, Continue, AssertFails
  <1>12. CASE UNCHANGED vars
    BY <1>1, <1>12 DEF vars
  <1> QED
    BY <1>2, <1>3, <1>4, <1>5, <1>6, <1>7, <1>8, <1>9, <1>10, <1>11, <1>12
    DEF Next, Step

(* A limit callback runs at most once, and exactly once when its limit is  *)
(* exceeded, for any limits, any nesting and any number of errors caught   *)
(* on the way.                                                             *)
THEOREM CallbacksOnce == Spec => []CallbackFiresOnce
  <1>1. ArmedUntilOver => CallbackFiresOnce
    BY DEF ArmedUntilOver, CallbackFiresOnce, OverLimit
  <1> QED BY <1>1, ArmedInit, ArmedStep, Invariance, PTL DEF Spec

-----------------------------------------------------------------------------
(* Exceptions and the activations they belong to.                          *)

(* A propagating signal has its function or its loop below it, with        *)
(* nothing but statements in between.                                      *)
HomeOf(s) == IF s = "return" THEN "call" ELSE "for"
HasHome(s) ==
  \E i \in 1..Len(stack) :
    /\ stack[i].kind = HomeOf(s)
    /\ \A j \in (i + 1)..Len(stack) : stack[j].kind \in {"stmt", "for"}

ExcInv == exc \in Signals => HasHome(exc)

(* The innermost activation is the home of a signal or a statement in it.  *)
LEMMA TopOfHome ==
  ASSUME TypeOK, NEW s \in Signals, HasHome(s)
  PROVE  /\ stack # << >>
         /\ Top.kind \in {"stmt", "for", "call"}
         /\ Top.kind = "call" => s = "return"
  <1>1. stack \in Seq(Activation)
    BY DEF TypeOK
  <1>2. PICK i \in 1..Len(stack) :
          /\ stack[i].kind = HomeOf(s)
          /\ \A j \in (i + 1)..Len(stack) : stack[j].kind \in {"stmt", "for"}
    BY DEF HasHome
  <1>3. stack # << >> /\ Len(stack) \in Nat \ {0}
    BY <1>1, EmptySeq, LenProperties
  <1>4. Top = stack[Len(stack)]
    BY DEF Top, Last
  <1>5. CASE i = Len(stack)
    BY <1>2, <1>3, <1>4, <1>5 DEF HomeOf
  <1>6. CASE i # Len(stack)
    <2>1. Len(stack) \in (i + 1)..Len(stack)
      BY <1>3, <1>6
    <2>2. Top.kind \in {"stmt", "for"}
      BY <1>2, <1>4, <2>1
    <2> QED BY <1>3, <2>2
  <1> QED BY <1>5, <1>6

(* A signal that passes the innermost activation still has its home.       *)
LEMMA HomeBelow ==
  ASSUME TypeOK, NEW s \in Signals, HasHome(s), stack' = Front(stack), 
         Top.kind # HomeOf(s)
  PROVE  HasHome(s)'
  <1>1. PICK i \in 1..Len(stack) :
          /\ stack[i].kind = HomeOf(s)
          /\ \A j \in (i + 1)..Len(stack) : stack[j].kind \in {"stmt", "for"}
    BY DEF HasHome
  <1>2. stack \in Seq(Activation) /\ stack # << >>
    BY TopOfHome DEF TypeOK
  <1>3. /\ Len(stack) \in Nat \ {0} /\ Top = stack[Len(stack)]
        /\ Len(stack') = Len(stack) - 1
        /\ \A j \in 1..(Len(stack) - 1) : stack'[j] = stack[j]
    <2>1. Len(Front(stack)) = Len(stack) - 1 /\ Len(stack) \in Nat \ {0}
          /\ Last(stack) = stack[Len(stack)]
          /\ \A j \in 1..Len(Front(stack)) : Front(stack)[j] = stack[j]
      BY <1>2, PopStack
    <2> QED BY <2>1 DEF Top
  <1>4. i # Len(stack)
    BY <1>1, <1>3
  <1>5. i \in 1..Len(stack') /\ stack'[i].kind = HomeOf(s)
    BY <1>1, <1>3, <1>4
  <1>6. \A j \in (i + 1)..Len(stack') :
          j \in (i + 1)..Len(stack) /\ stack'[j] = stack[j]
    BY <1>1, <1>3
  <1> QED BY <1>1, <1>5, <1>6 DEF HasHome

LEMMA ExcStep == Inv /\ ExcInv /\ [Next]_vars => ExcInv'
  <1> SUFFICES ASSUME TypeOK, StackInv, ExcInv, [Next]_vars
               PROVE  ExcInv'
    BY DEF Inv
  <1>0. ASSUME exc' \notin Signals PROVE ExcInv'
    BY <1>0 DEF ExcInv
  <1>a. Signals \cap (Raised \cup {"none"}) = {}
    BY DEF Raised, EvalErrors, Limits, Signals
  <1>b. {"none", "eval", "steps", "allocs"} \cup Unresolved \subseteq Raised \cup {"none"}
    BY DEF Raised, EvalErrors, Limits, Unresolved
  <1>1. ASSUME NEW e \in Evals, StartEvaluation(e)
        PROVE  ExcInv'
    BY <1>0, <1>1 DEF StartEvaluation, CanStart, Signals
  <1>2. ASSUME NEW e \in Evals, NEW x \in Unresolved, ResolveFails(e, x)
        PROVE  ExcInv'
    <2>1. exc' \in {"none", x}
      BY <1>2 DEF ResolveFails
    <2> QED BY <1>0, <1>a, <1>b, <2>1
  <1>3. ASSUME exc = "none", exc' \in {"none", "eval", "steps", "allocs"}
        PROVE  ExcInv'
    BY <1>0, <1>3 DEF Signals
  <1>4. ASSUME NEW e \in Evals, NEW l \in Limits, HitLimit(e, l), exc = "none"
        PROVE  ExcInv'
    BY <1>3, <1>4 DEF HitLimit, Limits
  <1>5. ASSUME NEW e \in Evals, StmtSite(e) \/ ExprSite(e) \/ CallSite(e)
        PROVE  exc = "none"
    BY <1>5 DEF StmtSite, ExprSite, CallSite, At
  <1>6. ASSUME NEW e \in Evals, StepLimitHit(e)
        PROVE  ExcInv'
    BY <1>4, <1>5, <1>6 DEF StepLimitHit, Limits
  <1>7. ASSUME Charge
        PROVE  ExcInv'
    <2>1. exc = "none" /\ current \in Evals
      BY <1>7, AtIsInside DEF Charge, At
    <2>2. \/ HitLimit(current, "allocs")
          \/ UNCHANGED exc
      BY <1>7 DEF Charge
    <2> QED BY <1>3, <1>4, <2>1, <2>2 DEF Limits
  <1>8. ASSUME NEW e \in Evals, NEW k \in {"stmt", "for"}, ExecStmt(e, k)
        PROVE  ExcInv'
    BY <1>3, <1>5, <1>8 DEF ExecStmt
  <1>9. ASSUME NEW e \in Evals, EvalExpr(e)
        PROVE  ExcInv'
    BY <1>3, <1>5, <1>9 DEF EvalExpr
  <1>10. ASSUME NEW e \in Evals, NEW f \in Fns, CallFunction(e, f)
         PROVE  ExcInv'
    BY <1>3, <1>5, <1>10 DEF CallFunction
  <1>11. ASSUME NEW e \in Evals, CallBuiltin(e) \/ CallRejected(e)
         PROVE  ExcInv'
    BY <1>3, <1>5, <1>11 DEF CallBuiltin, CallRejected
  <1>12. ASSUME NEW s \in Signals, Signal(s)
         PROVE  ExcInv'
    <2>1. /\ exc' = s /\ UNCHANGED stack
          /\ stack \in Seq(Activation) /\ Len(stack) \in Nat
      BY <1>12, LenProperties DEF Signal, TypeOK
    <2>2. HasHome(s)
      <3>1. CASE s = "return"
        <4>1. PICK i \in 1..Len(stack) : stack[i].kind = "call" /\ i + 1 \in Block
          BY <1>12, <3>1 DEF Signal
        <4> QED BY <3>1, <4>1 DEF HasHome, HomeOf, Block
      <3>2. CASE s # "return"
        <4>1. PICK i \in Block : stack[i].kind = "for"
          BY <1>12, <3>2 DEF Signal
        <4>2. i \in 1..Len(stack) /\ \A j \in (i + 1)..Len(stack) : j \in i..Len(stack)
          BY <2>1 DEF Block
        <4> QED BY <3>2, <4>1, <4>2 DEF HasHome, HomeOf, Block
      <3> QED BY <3>1, <3>2
    <2>3. HasHome(s)'
      BY <2>1, <2>2 DEF HasHome
    <2> QED BY <2>1, <2>3 DEF ExcInv
  <1>13. ASSUME NEW x \in Raised, Raise(x)
         PROVE  ExcInv'
    BY <1>0, <1>a, <1>13 DEF Raise
  <1>14. ASSUME Return
         PROVE  ExcInv'
    <2>1. stack # << >>
      BY <1>14 DEF Return, At
    <2>2. Top.kind = "limit" => Top.arg \in Limits
      BY <2>1, TopArg DEF ArgOK
    <2>3. exc' \in {"none", "steps", "allocs"}
      BY <1>14, <2>2 DEF Return, Limits
    <2> QED BY <1>0, <2>3 DEF Signals
  <1>15. ASSUME Unwind
         PROVE  ExcInv'
    <2>1. stack # << >> /\ exc # "none" /\ stack' = Front(stack) /\ Top.kind \in Kinds
          /\ ~(Top.kind = "for" /\ exc = "continue")
      BY <1>15, AtIsInside DEF Unwind, Finally, Activation
    <2>2. exc' = IF Len(stack) = 1 THEN "none" ELSE Passed(Top.kind, exc)
      BY <1>15 DEF Unwind
    <2>3. CASE exc \in Signals
      <3>1. Top.kind \in {"stmt", "for", "call"} /\ (Top.kind = "call" => exc = "return")
        BY <2>3, TopOfHome DEF ExcInv
      <3>3. CASE Top.kind = HomeOf(exc)
        <4>1. Passed(Top.kind, exc) = "none"
          BY <2>1, <2>3, <3>3 DEF HomeOf, Passed, Signals
        <4> QED BY <1>0, <2>2, <4>1 DEF Signals
      <3>4. CASE Top.kind # HomeOf(exc)
        <4>1. Passed(Top.kind, exc) = exc
          BY <2>3, <3>1, <3>4 DEF HomeOf, Passed, Signals
        <4>2. PICK s \in Signals : s = exc
          BY <2>3
        <4>3. HasHome(s)'
          BY <2>1, <2>3, <3>4, <4>2, HomeBelow DEF ExcInv
        <4>4. exc' \in {"none", s}
          BY <2>2, <4>1, <4>2
        <4>5. CASE exc' = "none"
          BY <1>0, <4>5 DEF Signals
        <4>6. CASE exc' = s
          BY <4>3, <4>6 DEF ExcInv
        <4> QED BY <4>4, <4>5, <4>6
      <3> QED BY <3>3, <3>4
    <2>4. CASE exc \notin Signals
      <3>1. Passed(Top.kind, exc) \notin Signals
        BY <2>4 DEF Passed, Signals
      <3> QED BY <1>0, <2>2, <3>1 DEF Signals
    <2> QED BY <2>3, <2>4
  <1>16. ASSUME Continue \/ AssertFails
         PROVE  ExcInv'
    BY <1>0, <1>16 DEF Continue, AssertFails, Signals
  <1>17. CASE UNCHANGED vars
    BY <1>17 DEF vars, ExcInv, HasHome, Top
  <1> QED
    BY <1>1, <1>2, <1>6, <1>7, <1>8, <1>9, <1>10, <1>11, <1>12, <1>13, <1>14,
       <1>15, <1>16, <1>17
    DEF Next, Step

(* How an evaluation that has begun may end in a step.                     *)
LEMMA EndsContained ==
  ASSUME TypeOK, StackInv, ExcInv, [Next]_vars, NEW e \in Evals, outcome[e] = "running"
  PROVE  outcome'[e] \notin Signals \cup {"recursion"}
  <1>1. ASSUME outcome'[e] \in {"running", "ok"}
        PROVE  outcome'[e] \notin Signals \cup {"recursion"}
    BY <1>1 DEF Signals
  <1>2. ASSUME NEW d \in Evals, StartEvaluation(d) \/ \E x \in Unresolved : ResolveFails(d, x)
        PROVE  outcome'[e] = "running"
    <2>1. outcome[d] = "fresh"
      BY <1>2 DEF StartEvaluation, ResolveFails, CanStart
    <2>2. d # e
      BY <2>1
    <2> QED BY <1>2, <2>2 DEF StartEvaluation, ResolveFails, TypeOK
  <1>3. ASSUME Return
        PROVE  outcome'[e] \in {"running", "ok"}
    BY <1>3 DEF Return, TypeOK
  <1>4. ASSUME Unwind
        PROVE  outcome'[e] \notin Signals \cup {"recursion"}
    <2>1. CASE Top.kind = "file"
      <3>1. exc \notin Signals
        BY <2>1, TopOfHome DEF ExcInv
      <3>2. Passed("file", exc) \notin Signals \cup {"recursion"}
        BY <3>1 DEF Passed, Signals
      <3>3. outcome'[e] \in {outcome[e], Passed("file", exc)}
        BY <1>4, <2>1 DEF Unwind, TypeOK
      <3> QED BY <1>1, <3>2, <3>3
    <2>2. CASE Top.kind # "file"
      BY <1>1, <1>4, <2>2 DEF Unwind
    <2> QED BY <2>1, <2>2
  <1>5. ASSUME UNCHANGED outcome
        PROVE  outcome'[e] \in {"running", "ok"}
    BY <1>5
  <1>6. ASSUME \/ \E d \in Evals : \/ StepLimitHit(d) \/ EvalExpr(d)
                                   \/ CallBuiltin(d) \/ CallRejected(d)
                                   \/ \E k \in {"stmt", "for"} : ExecStmt(d, k)
                                   \/ \E f \in Fns : CallFunction(d, f)
               \/ Charge \/ (\E s \in Signals : Signal(s))
               \/ (\E x \in Raised : Raise(x)) \/ Continue \/ AssertFails
               \/ UNCHANGED vars
        PROVE  UNCHANGED outcome
    BY <1>6 DEF StepLimitHit, EvalExpr, CallBuiltin, CallRejected, ExecStmt,
       CallFunction, Charge, Signal, Raise, Continue, AssertFails, vars
  <1> QED BY <1>1, <1>2, <1>3, <1>4, <1>5, <1>6 DEF Next, Step

(* What a builtin may leave behind.                                        *)
LEMMA BuiltinContained ==
  ASSUME TypeOK, StackInv, ExcInv, [Next]_vars,
         stack # << >>, Top.kind = "builtin", stack' = Front(stack)
  PROVE  exc' \in EvalErrors \cup {"none", "memory"}
  <1>0. stack \in Seq(Activation) /\ Len(stack) \in Nat \ {0}
        /\ Len(stack') = Len(stack) - 1
    BY PopStack DEF TypeOK
  <1>1. ASSUME Return \/ AssertFails
        PROVE  exc' = "none"
    BY <1>1 DEF Return, AssertFails
  <1>2. ASSUME Unwind
        PROVE  exc' \in EvalErrors \cup {"none", "memory"}
    <2>1. Passed("builtin", exc) \in EvalErrors \cup {"memory"}
      BY DEF Passed, EvalErrors
    <2> QED BY <1>2, <2>1 DEF Unwind
  <1>3. ASSUME NEW a, Push(a)
        PROVE  FALSE
    <2>1. Len(Append(stack, a)) = Len(stack) + 1
      OBVIOUS
    <2> QED BY <1>0, <1>3, <2>1 DEF Push
  <1>4. ASSUME UNCHANGED stack
        PROVE  FALSE
    BY <1>0, <1>4
  <1>5. ASSUME NEW d \in Evals, NEW l \in Limits, HitLimit(d, l)
        PROVE  FALSE
    BY <1>3, <1>4, <1>5 DEF HitLimit
  <1>6. ASSUME NEW d \in Evals,
               \/ StartEvaluation(d) \/ StepLimitHit(d) \/ EvalExpr(d)
               \/ CallBuiltin(d) \/ CallRejected(d)
               \/ (\E x \in Unresolved : ResolveFails(d, x))
               \/ (\E k \in {"stmt", "for"} : ExecStmt(d, k))
               \/ (\E f \in Fns : CallFunction(d, f))
        PROVE  FALSE
    BY <1>3, <1>4, <1>5, <1>6 DEF StartEvaluation, ResolveFails, StepLimitHit, Limits,
       EvalExpr, CallBuiltin, CallRejected, ExecStmt, CallFunction
  <1>7. ASSUME Charge
        PROVE  FALSE
    <2>1. current \in Evals
      BY AtIsInside
    <2> QED BY <1>4, <1>5, <1>7, <2>1 DEF Charge, Limits
  <1>8. ASSUME \/ (\E s \in Signals : Signal(s)) \/ (\E x \in Raised : Raise(x))
               \/ Continue \/ UNCHANGED vars
        PROVE  FALSE
    BY <1>4, <1>8 DEF Signal, Raise, Continue, vars
  <1> QED BY <1>1, <1>2, <1>6, <1>7, <1>8 DEF Next, Step

(* The state part of the contract.                                         *)
AtHome == exc \in Signals => Top.kind \in {"stmt", "for", "call"}

LEMMA SignalAtHome == TypeOK /\ ExcInv => AtHome
  BY TopOfHome DEF ExcInv, AtHome

(* However evaluations nest: one that has begun never ends in a            *)
(* RecursionError or a control-flow signal, nothing but EvalErrors and     *)
(* MemoryError comes out of a builtin, and a signal is always in its       *)
(* function or its loop.                                                   *)
THEOREM ContractKept == Spec => EscapesContained
  <1> DEFINE A == /\ \A e \in Evals : outcome[e] = "running" =>
                          outcome'[e] \notin Signals \cup {"recursion"}
                  /\ stack # << >> /\ Top.kind = "builtin" /\ stack' = Front(stack) =>
                       exc' \in EvalErrors \cup {"none", "memory"}
                  /\ exc' \in Signals => Top'.kind \in {"stmt", "for", "call"}
  <1>0. TypeOK' /\ ExcInv' => AtHome'
    BY SignalAtHome, PTL
  <1>1. Init => ExcInv
    BY DEF Init, ExcInv, Signals
  <1>2. ASSUME Inv, Inv', ExcInv, ExcInv', [Next]_vars
        PROVE  A
    <2>1. \A e \in Evals : outcome[e] = "running" =>
            outcome'[e] \notin Signals \cup {"recursion"}
      BY <1>2, EndsContained DEF Inv
    <2>2. stack # << >> /\ Top.kind = "builtin" /\ stack' = Front(stack) =>
            exc' \in EvalErrors \cup {"none", "memory"}
      BY <1>2, BuiltinContained DEF Inv
    <2> QED BY <1>0, <1>2, <2>1, <2>2 DEF Inv, AtHome
  <1>3. Inv /\ Inv' /\ ExcInv /\ ExcInv' /\ [Next]_vars => [A]_vars
    BY <1>2
  <1> HIDE DEF A
  <1>4. Spec => [][A]_vars
    BY <1>1, <1>3, ExcStep, Invariance, PTL DEF Spec
  <1> QED BY <1>4 DEF A, EscapesContained

-----------------------------------------------------------------------------
(* Beyond the step limit nothing is entered.                               *)
LEMMA AppendCancels ==
  ASSUME NEW S, NEW s \in Seq(S), NEW x \in S, NEW y, Append(s, x) = Append(s, y)
  PROVE  x = y
  <1>1. Append(s, x)[Len(s) + 1] = x /\ Append(s, y)[Len(s) + 1] = y
    OBVIOUS
  <1> QED BY <1>1

THEOREM LimitIsFinal == Spec => LimitStopsProgress
  <1> DEFINE Inside == {"stmt", "for", "expr", "call", "builtin"}
             Enters(e) == \E k \in Inside, a \in Fns \cup {NoFn} :
                            stack' = Append(stack, Act(k, e, a))
             A == \A e \in Evals : Exceeds(steps'[e], MaxSteps[e]) => ~Enters(e)
  <1>1. ASSUME Inv, [Next]_vars PROVE A
    <2> SUFFICES ASSUME NEW e \in Evals, NEW k \in Inside, NEW a \in Fns \cup {NoFn},
                        stack' = Append(stack, Act(k, e, a))
                 PROVE  ~Exceeds(steps'[e], MaxSteps[e])
      OBVIOUS
    <2>0. TypeOK /\ StackInv /\ stack \in Seq(Activation)
      BY <1>1 DEF Inv, TypeOK
    <2>1. Act(k, e, a) \in Activation
      BY DEF Act, Activation, Kinds
    <2>2. stack' # stack /\ Len(stack') = Len(stack) + 1 /\ Len(stack) \in Nat
      <3>1. Len(Append(stack, Act(k, e, a))) = Len(stack) + 1 /\ Len(stack) \in Nat
        BY <2>0, <2>1, PushStack
      <3> QED BY <3>1
    <2>3. stack' # Front(stack) \/ stack = << >>
      <3>1. stack # << >> => Len(Front(stack)) = Len(stack) - 1
        BY <2>0, PopStack
      <3> QED BY <2>2, <3>1
    <2>4. ASSUME NEW b \in Activation, stack' = Append(stack, b)
          PROVE  b.kind = k /\ b.ev = e
      <3>1. b = Act(k, e, a)
        BY <2>0, <2>1, <2>4, AppendCancels
      <3> QED BY <3>1 DEF Act
    <2>5. ASSUME NEW d \in Evals, NEW c \in Kinds,
                 NEW g \in Fns \cup Evals \cup Limits \cup {NoEval, NoFn},
                 stack' = Append(stack, Act(c, d, g))
          PROVE  c = k /\ d = e
      <3>1. Act(c, d, g) \in Activation /\ Act(c, d, g).kind = c /\ Act(c, d, g).ev = d
        BY DEF Act, Activation
      <3> QED BY <2>4, <2>5, <3>1
    <2>6. ASSUME NEW d \in Evals, NEW l \in Limits, HitLimit(d, l)
          PROVE  FALSE
      <3>1. stack' = Append(stack, Act("limit", d, l))
        BY <2>2, <2>6 DEF HitLimit, Push
      <3> QED BY <2>5, <3>1 DEF Kinds
    <2>7. ASSUME NEW d \in Evals, StartEvaluation(d)
          PROVE  FALSE
      <3>1. stack' = Append(stack, Act("file", d, current)) /\ current \in Evals \cup {NoEval}
        BY <2>0, <2>7 DEF StartEvaluation, Push, TypeOK
      <3> QED BY <2>5, <3>1 DEF Kinds
    <2>8. ASSUME NEW d \in Evals, Ticked(d), d = e
          PROVE  ~Exceeds(steps'[e], MaxSteps[e])
      <3>1. steps'[e] = steps[e] + 1
        BY <2>0, <2>8 DEF Ticked, TypeOK
      <3> QED BY <2>8, <3>1 DEF Ticked
    <2>9. ASSUME NEW d \in Evals, StepLimitHit(d)
          PROVE  FALSE
      BY <2>6, <2>9 DEF StepLimitHit, Limits
    <2>10. ASSUME Charge
           PROVE  FALSE
      <3>1. current \in Evals
        BY <2>0, <2>10, AtIsInside DEF Charge, At
      <3> QED BY <2>2, <2>6, <2>10, <3>1 DEF Charge, Limits
    <2>11. ASSUME NEW d \in Evals, NEW c \in {"stmt", "for"}, ExecStmt(d, c)
           PROVE  ~Exceeds(steps'[e], MaxSteps[e])
      BY <2>5, <2>8, <2>11 DEF ExecStmt, Push, Kinds
    <2>12. ASSUME NEW d \in Evals, EvalExpr(d)
           PROVE  ~Exceeds(steps'[e], MaxSteps[e])
      <3>1. stack' = Append(stack, Act("expr", d, NoFn)) /\ Ticked(d)
        BY <2>2, <2>12 DEF EvalExpr, Push
      <3> QED BY <2>5, <2>8, <3>1 DEF Kinds
    <2>13. ASSUME NEW d \in Evals, NEW f \in Fns, CallFunction(d, f)
           PROVE  ~Exceeds(steps'[e], MaxSteps[e])
      <3>1. stack' = Append(stack, Act("call", d, f)) /\ Ticked(d)
        BY <2>2, <2>13 DEF CallFunction, Push
      <3> QED BY <2>5, <2>8, <3>1 DEF Kinds
    <2>14. ASSUME NEW d \in Evals, CallBuiltin(d)
           PROVE  ~Exceeds(steps'[e], MaxSteps[e])
      BY <2>5, <2>8, <2>14 DEF CallBuiltin, Push, Kinds
    <2>15. ASSUME stack' = stack \/ (stack # << >> /\ stack' = Front(stack))
           PROVE  FALSE
      BY <2>2, <2>3, <2>15
    <2>16. ASSUME NEW d \in Evals, (\E x \in Unresolved : ResolveFails(d, x)) \/ CallRejected(d)
           PROVE  FALSE
      BY <2>15, <2>16 DEF ResolveFails, CallRejected
    <2>17. ASSUME NEW s \in Signals, Signal(s)
           PROVE  FALSE
      BY <2>15, <2>17 DEF Signal
    <2>18. ASSUME NEW x \in Raised, Raise(x)
           PROVE  FALSE
      BY <2>15, <2>18 DEF Raise
    <2>19. ASSUME Return \/ Unwind \/ AssertFails
           PROVE  FALSE
      BY <2>15, <2>19 DEF Return, Unwind, AssertFails, At, Finally
    <2>20. ASSUME Continue \/ UNCHANGED vars
           PROVE  FALSE
      BY <2>15, <2>20 DEF Continue, vars
    <2> QED
      BY <1>1, <2>7, <2>9, <2>10, <2>11, <2>12, <2>13, <2>14, <2>16, <2>17,
         <2>18, <2>19, <2>20 DEF Next, Step
  <1>2. ASSUME Inv, [Next]_vars PROVE [A]_vars
    BY <1>1, <1>2
  <1> QED BY <1>2, Invariance, PTL DEF Spec, LimitStopsProgress

-----------------------------------------------------------------------------
(* What a Thread counts: the activations of some kinds that run for it.    *)
On(kinds, e) == {i \in 1..Len(stack) : stack[i].kind \in kinds /\ stack[i].ev = e}

LEMMA OnFinite ==
  ASSUME TypeOK, NEW kinds, NEW e
  PROVE  \A S \in SUBSET On(kinds, e) : IsFiniteSet(S) /\ Cardinality(S) \in Nat
  <1>1. stack \in Seq(Activation) /\ Len(stack) \in Nat
    BY LenProperties DEF TypeOK
  <1>2. IsFiniteSet(1..Len(stack))
    BY <1>1, FS_Interval
  <1>3. \A S \in SUBSET On(kinds, e) : S \in SUBSET (1..Len(stack))
    BY DEF On
  <1> QED BY <1>2, <1>3, FS_Subset, FS_CardinalityType

LEMMA OnPush ==
  ASSUME TypeOK, NEW a \in Activation, stack' = Append(stack, a), NEW kinds, NEW e
  PROVE  /\ On(kinds, e)' = On(kinds, e) \cup
              {i \in {Len(stack) + 1} : a.kind \in kinds /\ a.ev = e}
         /\ On(kinds, e) \subseteq 1..Len(stack)
         /\ Len(stack) \in Nat
         /\ \A i \in 1..Len(stack) : stack'[i] = stack[i]
         /\ stack'[Len(stack) + 1] = a
  <1>1. /\ Len(stack) \in Nat /\ Len(stack') = Len(stack) + 1
        /\ \A i \in 1..Len(stack) : stack'[i] = stack[i]
        /\ stack'[Len(stack) + 1] = a
    BY PushStack DEF TypeOK
  <1>2. 1..(Len(stack) + 1) = 1..Len(stack) \cup {Len(stack) + 1}
    BY <1>1
  <1>3. On(kinds, e)' = {i \in 1..(Len(stack) + 1) : stack'[i].kind \in kinds /\ stack'[i].ev = e}
    BY <1>1 DEF On
  <1>4. On(kinds, e)' = On(kinds, e) \cup
              {i \in {Len(stack) + 1} : a.kind \in kinds /\ a.ev = e}
    BY <1>1, <1>2, <1>3 DEF On
  <1> QED BY <1>1, <1>4 DEF On

LEMMA OnPop ==
  ASSUME TypeOK, stack # << >>, stack' = Front(stack), NEW kinds, NEW e
  PROVE  /\ On(kinds, e)' = On(kinds, e) \ {Len(stack)}
         /\ On(kinds, e) \subseteq 1..Len(stack)
         /\ Len(stack) \in On(kinds, e) <=> Top.kind \in kinds /\ Top.ev = e
         /\ Len(stack) \in Nat \ {0}
         /\ \A i \in On(kinds, e)' : stack'[i] = stack[i]
  <1>1. /\ Len(stack) \in Nat \ {0} /\ Top = stack[Len(stack)]
        /\ Len(stack') = Len(stack) - 1
        /\ \A i \in 1..(Len(stack) - 1) : stack'[i] = stack[i]
    <2>1. /\ Len(stack) \in Nat \ {0} /\ Last(stack) = stack[Len(stack)]
          /\ Len(Front(stack)) = Len(stack) - 1
          /\ \A i \in 1..Len(Front(stack)) : Front(stack)[i] = stack[i]
      BY PopStack DEF TypeOK
    <2> QED BY <2>1 DEF Top
  <1>2. 1..(Len(stack) - 1) = 1..Len(stack) \ {Len(stack)}
    BY <1>1
  <1>3. On(kinds, e)' = {i \in 1..(Len(stack) - 1) : stack'[i].kind \in kinds /\ stack'[i].ev = e}
    BY <1>1 DEF On
  <1>4. On(kinds, e)' = On(kinds, e) \ {Len(stack)}
    BY <1>1, <1>2, <1>3 DEF On
  <1>5. On(kinds, e)' \subseteq 1..(Len(stack) - 1)
    BY <1>3
  <1> QED BY <1>1, <1>4, <1>5 DEF On

-----------------------------------------------------------------------------
(* Thread.depth                                                            *)

LEMMA DepthKept ==
  ASSUME DepthMirrorsStack, UNCHANGED <<stack, depth>>
  PROVE  DepthMirrorsStack'
  BY DEF DepthMirrorsStack, ExprsOf

LEMMA DepthPush ==
  ASSUME TypeOK, DepthMirrorsStack, NEW a \in Activation, stack' = Append(stack, a),
         a.kind # "expr", UNCHANGED depth
  PROVE  DepthMirrorsStack'
  <1> SUFFICES ASSUME NEW e \in Evals
               PROVE  depth'[e] = Cardinality(ExprsOf(e)') /\ depth'[e] <= MaxDepth
    BY DEF DepthMirrorsStack
  <1>1. ExprsOf(e) = On({"expr"}, e) /\ ExprsOf(e)' = On({"expr"}, e)'
    BY DEF ExprsOf, On
  <1>2. On({"expr"}, e)' = On({"expr"}, e) \cup
              {i \in {Len(stack) + 1} : a.kind \in {"expr"} /\ a.ev = e}
    BY OnPush
  <1>3. ExprsOf(e)' = ExprsOf(e)
    BY <1>1, <1>2
  <1> QED BY <1>3 DEF DepthMirrorsStack

LEMMA DepthEnter ==
  ASSUME TypeOK, DepthMirrorsStack, NEW d \in Evals,
         stack' = Append(stack, Act("expr", d, NoFn)),
         depth' = [depth EXCEPT ![d] = @ + 1], ~(depth[d] + 1 > MaxDepth)
  PROVE  DepthMirrorsStack'
  <1> SUFFICES ASSUME NEW e \in Evals
               PROVE  depth'[e] = Cardinality(ExprsOf(e)') /\ depth'[e] <= MaxDepth
    BY DEF DepthMirrorsStack
  <1> DEFINE a == Act("expr", d, NoFn)
  <1>0. a \in Activation /\ a.kind = "expr" /\ a.ev = d
    BY DEF Act, Activation, Kinds
  <1>1. ExprsOf(e) = On({"expr"}, e) /\ ExprsOf(e)' = On({"expr"}, e)'
    BY DEF ExprsOf, On
  <1>2. /\ ExprsOf(e)' = ExprsOf(e) \cup {i \in {Len(stack) + 1} : d = e}
        /\ ExprsOf(e) \subseteq 1..Len(stack) /\ Len(stack) \in Nat
    <2>1. stack' = Append(stack, a)
      OBVIOUS
    <2> HIDE DEF a
    <2> QED BY <1>0, <1>1, <2>1, OnPush
  <1>3. depth[e] = Cardinality(ExprsOf(e)) /\ depth[e] <= MaxDepth /\ depth[e] \in Int
    BY DEF DepthMirrorsStack, TypeOK
  <1>4. CASE d = e
    <2>1. ExprsOf(e)' = ExprsOf(e) \cup {Len(stack) + 1} /\ Len(stack) + 1 \notin ExprsOf(e)
      BY <1>2, <1>4
    <2>2. IsFiniteSet(ExprsOf(e))
      BY <1>1, OnFinite
    <2>3. Cardinality(ExprsOf(e)') = Cardinality(ExprsOf(e)) + 1
      BY <2>1, <2>2, FS_AddElement
    <2>4. depth'[e] = depth[e] + 1
      BY <1>4 DEF TypeOK
    <2> QED BY <1>3, <1>4, <2>3, <2>4, DepthAssumption
  <1>5. CASE d # e
    <2>1. ExprsOf(e)' = ExprsOf(e) /\ depth'[e] = depth[e]
      BY <1>2, <1>5 DEF TypeOK
    <2> QED BY <1>3, <2>1
  <1> QED BY <1>4, <1>5

LEMMA DepthPop ==
  ASSUME TypeOK, StackInv, DepthMirrorsStack, stack # << >>, Finally
  PROVE  DepthMirrorsStack'
  <1> SUFFICES ASSUME NEW e \in Evals
               PROVE  depth'[e] = Cardinality(ExprsOf(e)') /\ depth'[e] <= MaxDepth
    BY DEF DepthMirrorsStack
  <1>1. ExprsOf(e) = On({"expr"}, e) /\ ExprsOf(e)' = On({"expr"}, e)'
    BY DEF ExprsOf, On
  <1>2. stack' = Front(stack) /\ Top.ev \in Evals
    BY AtIsInside DEF Finally, Activation
  <1>3. /\ ExprsOf(e)' = ExprsOf(e) \ {Len(stack)}
        /\ Len(stack) \in ExprsOf(e) <=> Top.kind = "expr" /\ Top.ev = e
    BY <1>1, <1>2, OnPop
  <1>4. IsFiniteSet(ExprsOf(e))
    BY <1>1, OnFinite
  <1>5. depth[e] = Cardinality(ExprsOf(e)) /\ depth[e] <= MaxDepth /\ depth[e] \in Int
    BY DEF DepthMirrorsStack, TypeOK
  <1>6. CASE Top.kind = "expr" /\ Top.ev = e
    <2>1. Cardinality(ExprsOf(e)') = Cardinality(ExprsOf(e)) - 1
      BY <1>3, <1>4, <1>6, FS_RemoveElement
    <2>2. depth'[e] = depth[e] - 1
      BY <1>6 DEF Finally, TypeOK
    <2> QED BY <1>5, <2>1, <2>2, DepthAssumption
  <1>7. CASE ~(Top.kind = "expr" /\ Top.ev = e)
    <2>1. ExprsOf(e)' = ExprsOf(e)
      BY <1>3, <1>7
    <2>2. depth'[e] = depth[e]
      BY <1>2, <1>7 DEF Finally, TypeOK
    <2> QED BY <1>5, <2>1, <2>2
  <1> QED BY <1>6, <1>7

-----------------------------------------------------------------------------
(* Thread.frames                                                           *)
LEMMA FramesKept ==
  ASSUME FramesMirrorStack, UNCHANGED <<stack, frames>>
  PROVE  FramesMirrorStack'
  BY DEF FramesMirrorStack, FramesOf, FnOf

LEMMA FramesPushOther ==
  ASSUME TypeOK, FramesMirrorStack, NEW a \in Activation, stack' = Append(stack, a),
         a.kind \notin {"file", "call"}, UNCHANGED frames
  PROVE  FramesMirrorStack'
  <1>1. \A e \in Evals : FramesOf(e) = On({"file", "call"}, e)
                         /\ FramesOf(e)' = On({"file", "call"}, e)'
    BY DEF FramesOf, On
  <1>2. \A e \in Evals : FramesOf(e)' = FramesOf(e) /\ FramesOf(e) \subseteq 1..Len(stack)
    <2> SUFFICES ASSUME NEW e \in Evals
                 PROVE  FramesOf(e)' = FramesOf(e) /\ FramesOf(e) \subseteq 1..Len(stack)
      OBVIOUS
    <2>1. /\ On({"file", "call"}, e)' = On({"file", "call"}, e) \cup
                {i \in {Len(stack) + 1} : a.kind \in {"file", "call"} /\ a.ev = e}
          /\ On({"file", "call"}, e) \subseteq 1..Len(stack)
      BY OnPush
    <2> QED BY <1>1, <2>1
  <1>3. \A i \in 1..Len(stack) : stack'[i] = stack[i]
    BY OnPush
  <1> QED BY <1>2, <1>3 DEF FramesMirrorStack, FnOf

LEMMA FramesPush ==
  ASSUME TypeOK, FramesMirrorStack, NEW d \in Evals, NEW a \in Activation,
         a.kind \in {"file", "call"}, a.ev = d, FnOf(a) \in Fns \cup {NoFn},
         stack' = Append(stack, a),
         frames' = [frames EXCEPT ![d] = Append(@, FnOf(a))]
  PROVE  FramesMirrorStack'
  <1> SUFFICES ASSUME NEW e \in Evals
               PROVE  /\ Len(frames'[e]) = Cardinality(FramesOf(e)')
                      /\ \A i \in FramesOf(e)' :
                           frames'[e][Cardinality({j \in FramesOf(e)' : j <= i})] = FnOf(stack'[i])
    BY DEF FramesMirrorStack, FnOf
  <1> DEFINE n == Len(stack)
  <1>1. FramesOf(e) = On({"file", "call"}, e) /\ FramesOf(e)' = On({"file", "call"}, e)'
    BY DEF FramesOf, On
  <1>2. /\ FramesOf(e)' = FramesOf(e) \cup {i \in {n + 1} : d = e}
        /\ FramesOf(e) \subseteq 1..n /\ n \in Nat
        /\ \A i \in 1..n : stack'[i] = stack[i]
        /\ stack'[n + 1] = a
    BY <1>1, OnPush
  <1>3. /\ Len(frames[e]) = Cardinality(FramesOf(e))
        /\ \A i \in FramesOf(e) : frames[e][Cardinality({j \in FramesOf(e) : j <= i})] = FnOf(stack[i])
    BY DEF FramesMirrorStack
  <1>4. CASE d # e
    <2>1. FramesOf(e)' = FramesOf(e) /\ frames'[e] = frames[e]
      BY <1>2, <1>4 DEF TypeOK
    <2>2. \A i \in FramesOf(e) : FnOf(stack'[i]) = FnOf(stack[i])
      BY <1>2
    <2> QED BY <1>3, <2>1, <2>2
  <1>5. CASE d = e
    <2>1. FramesOf(e)' = FramesOf(e) \cup {n + 1} /\ n + 1 \notin FramesOf(e)
      BY <1>2, <1>5
    <2>2. /\ frames'[e] = Append(frames[e], FnOf(a))
          /\ frames[e] \in Seq(Fns \cup {NoFn})
      BY <1>5 DEF TypeOK
    <2>3. \A S \in SUBSET FramesOf(e) : IsFiniteSet(S) /\ Cardinality(S) \in Nat
      BY <1>1, OnFinite
    <2>4. Cardinality(FramesOf(e)') = Cardinality(FramesOf(e)) + 1
      BY <2>1, <2>3, FS_AddElement
    <2>5. /\ Len(frames'[e]) = Len(frames[e]) + 1
          /\ \A i \in 1..Len(frames[e]) : frames'[e][i] = frames[e][i]
          /\ frames'[e][Len(frames[e]) + 1] = FnOf(a)
      BY <2>2, PushStack
    <2>6. ASSUME NEW i \in FramesOf(e)
          PROVE  frames'[e][Cardinality({j \in FramesOf(e)' : j <= i})] = FnOf(stack'[i])
      <3> DEFINE S == {j \in FramesOf(e) : j <= i}
      <3>1. {j \in FramesOf(e)' : j <= i} = S
        BY <1>2, <2>1
      <3>2. S \in SUBSET FramesOf(e) /\ i \in S
        BY <1>2
      <3>3. Cardinality(S) <= Cardinality(FramesOf(e))
        BY <2>3, <3>2, FS_Subset
      <3>4. Cardinality(S) \in Nat /\ Cardinality(S) # 0
        BY <2>3, <3>2, FS_EmptySet
      <3>5. Cardinality(S) \in 1..Len(frames[e])
        BY <1>3, <2>3, <3>3, <3>4
      <3>6. FnOf(stack'[i]) = FnOf(stack[i]) /\ frames[e][Cardinality(S)] = FnOf(stack[i])
        BY <1>2, <1>3
      <3> HIDE DEF S
      <3> QED BY <2>5, <3>1, <3>5, <3>6
    <2>7. frames'[e][Cardinality({j \in FramesOf(e)' : j <= n + 1})] = FnOf(stack'[n + 1])
      <3>1. {j \in FramesOf(e)' : j <= n + 1} = FramesOf(e)'
        BY <1>2, <2>1
      <3> QED BY <1>2, <1>3, <2>4, <2>5, <3>1
    <2> QED BY <1>3, <2>1, <2>4, <2>5, <2>6, <2>7
  <1> QED BY <1>4, <1>5

LEMMA FramesPop ==
  ASSUME TypeOK, StackInv, FramesMirrorStack, stack # << >>, Finally
  PROVE  FramesMirrorStack'
  <1> SUFFICES ASSUME NEW e \in Evals
               PROVE  /\ Len(frames'[e]) = Cardinality(FramesOf(e)')
                      /\ \A i \in FramesOf(e)' :
                           frames'[e][Cardinality({j \in FramesOf(e)' : j <= i})] = FnOf(stack'[i])
    BY DEF FramesMirrorStack, FnOf
  <1> DEFINE n == Len(stack)
  <1>1. FramesOf(e) = On({"file", "call"}, e) /\ FramesOf(e)' = On({"file", "call"}, e)'
    BY DEF FramesOf, On
  <1>2. stack' = Front(stack) /\ Top.ev \in Evals
    BY AtIsInside DEF Finally, Activation
  <1>3. /\ FramesOf(e)' = FramesOf(e) \ {n} /\ FramesOf(e) \subseteq 1..n
        /\ n \in FramesOf(e) <=> Top.kind \in {"file", "call"} /\ Top.ev = e
        /\ n \in Nat \ {0}
        /\ \A i \in FramesOf(e)' : stack'[i] = stack[i]
    BY <1>1, <1>2, OnPop
  <1>4. /\ Len(frames[e]) = Cardinality(FramesOf(e))
        /\ \A i \in FramesOf(e) : frames[e][Cardinality({j \in FramesOf(e) : j <= i})] = FnOf(stack[i])
    BY DEF FramesMirrorStack
  <1>5. CASE n \notin FramesOf(e)
    <2>1. FramesOf(e)' = FramesOf(e)
      BY <1>3, <1>5
    <2>2. frames'[e] = frames[e]
      BY <1>2, <1>3, <1>5 DEF Finally, TypeOK
    <2>3. \A i \in FramesOf(e) : FnOf(stack'[i]) = FnOf(stack[i])
      BY <1>3, <2>1
    <2> QED BY <1>4, <2>1, <2>2, <2>3
  <1>6. CASE n \in FramesOf(e)
    <2>1. frames'[e] = Front(frames[e]) /\ frames[e] \in Seq(Fns \cup {NoFn})
      BY <1>3, <1>6 DEF Finally, TypeOK
    <2>2. \A S \in SUBSET FramesOf(e) : IsFiniteSet(S) /\ Cardinality(S) \in Nat
      BY <1>1, OnFinite
    <2>3. Cardinality(FramesOf(e)') = Cardinality(FramesOf(e)) - 1
      BY <1>3, <1>6, <2>2, FS_RemoveElement
    <2>4. Len(frames[e]) # 0 /\ frames[e] # << >>
      <3>1. Cardinality(FramesOf(e)) # 0
        BY <1>6, <2>2, FS_EmptySet
      <3> QED BY <1>4, <2>1, <3>1, EmptySeq
    <2>5. /\ Len(frames'[e]) = Len(frames[e]) - 1
          /\ \A i \in 1..(Len(frames[e]) - 1) : frames'[e][i] = frames[e][i]
      <3>1. /\ Len(Front(frames[e])) = Len(frames[e]) - 1
            /\ \A i \in 1..Len(Front(frames[e])) : Front(frames[e])[i] = frames[e][i]
        BY <2>1, <2>4, PopStack
      <3> QED BY <2>1, <3>1
    <2>6. ASSUME NEW i \in FramesOf(e)'
          PROVE  frames'[e][Cardinality({j \in FramesOf(e)' : j <= i})] = FnOf(stack'[i])
      <3> DEFINE S == {j \in FramesOf(e) : j <= i}
      <3>1. S \subseteq FramesOf(e)' /\ {j \in FramesOf(e)' : j <= i} = S /\ i \in S
        BY <1>3
      <3>2. Cardinality(S) <= Cardinality(FramesOf(e)')
        BY <1>3, <2>2, <3>1, FS_Subset
      <3>3. Cardinality(S) \in Nat /\ Cardinality(S) # 0
        BY <2>2, <3>1, FS_EmptySet
      <3>4. Cardinality(S) \in 1..(Len(frames[e]) - 1)
        BY <1>4, <2>2, <2>3, <3>2, <3>3
      <3>5. FnOf(stack'[i]) = FnOf(stack[i]) /\ frames[e][Cardinality(S)] = FnOf(stack[i])
        BY <1>3, <1>4
      <3> HIDE DEF S
      <3> QED BY <2>5, <3>1, <3>4, <3>5
    <2> QED BY <1>4, <2>3, <2>5, <2>6
  <1> QED BY <1>5, <1>6

-----------------------------------------------------------------------------
Records == DepthMirrorsStack /\ FramesMirrorStack

LEMMA RecordsInit == Init => Records
  <1> SUFFICES ASSUME Init PROVE Records
    OBVIOUS
  <1>1. stack = << >> /\ Len(stack) = 0
    BY EmptySeq DEF Init
  <1>2. \A e \in Evals : ExprsOf(e) = {} /\ FramesOf(e) = {}
    BY <1>1 DEF ExprsOf, FramesOf
  <1>3. \A e \in Evals : depth[e] = 0 /\ Len(frames[e]) = 0
    BY EmptySeq DEF Init
  <1>4. Cardinality({}) = 0
    BY FS_EmptySet
  <1>5. DepthMirrorsStack
    <2> SUFFICES ASSUME NEW e \in Evals
                 PROVE  depth[e] = Cardinality(ExprsOf(e)) /\ depth[e] <= MaxDepth
      BY DEF DepthMirrorsStack
    <2>1. Cardinality(ExprsOf(e)) = 0
      BY <1>2, <1>4
    <2> QED BY <1>3, <2>1, DepthAssumption
  <1>6. FramesMirrorStack
    <2>1. \A e \in Evals : Len(frames[e]) = Cardinality(FramesOf(e))
      BY <1>2, <1>3, <1>4
    <2>2. \A e \in Evals : \A i \in FramesOf(e) : FALSE
      BY <1>2
    <2> QED BY <2>1, <2>2 DEF FramesMirrorStack
  <1> QED BY <1>5, <1>6 DEF Records

(* Entering an activation that neither counts nor has a frame.             *)
LEMMA RecordsPushOther ==
  ASSUME TypeOK, Records, NEW k \in Kinds \ {"expr", "file", "call"}, NEW e \in Evals,
         NEW x \in Limits \cup {NoFn},
         stack' = Append(stack, Act(k, e, x)), UNCHANGED <<depth, frames>>
  PROVE  Records'
  <1> DEFINE a == Act(k, e, x)
  <1>1. a \in Activation /\ a.kind = k
    BY DEF Act, Activation
  <1>2. stack' = Append(stack, a)
    OBVIOUS
  <1> HIDE DEF a
  <1> QED BY <1>1, <1>2, DepthPush, FramesPushOther DEF Records

LEMMA RecordsHit ==
  ASSUME TypeOK, Records, NEW e \in Evals, NEW l \in Limits, HitLimit(e, l),
         UNCHANGED <<depth, frames>>
  PROVE  Records'
  <1>1. CASE l \in armed[e]
    <2>1. stack' = Append(stack, Act("limit", e, l))
      BY <1>1 DEF HitLimit, Push
    <2> QED BY <2>1, RecordsPushOther DEF Kinds
  <1>2. CASE l \notin armed[e]
    BY <1>2, DepthKept, FramesKept DEF HitLimit, Records
  <1> QED BY <1>1, <1>2

LEMMA RecordsStep == Inv /\ Records /\ [Next]_vars => Records'
  <1> SUFFICES ASSUME TypeOK, StackInv, Records, [Next]_vars
               PROVE  Records'
    BY DEF Inv
  <1>1. ASSUME UNCHANGED <<stack, depth, frames>>
        PROVE  Records'
    BY <1>1, DepthKept, FramesKept DEF Records
  <1>2. ASSUME stack # << >>, Finally
        PROVE  Records'
    BY <1>2, DepthPop, FramesPop DEF Records
  <1>3. ASSUME NEW e \in Evals, StartEvaluation(e)
        PROVE  Records'
    <2> DEFINE a == Act("file", e, current)
    <2>1. a \in Activation /\ a.kind = "file" /\ a.ev = e /\ FnOf(a) = NoFn
      BY DEF Act, Activation, Kinds, FnOf, TypeOK
    <2>2. /\ stack' = Append(stack, a) /\ UNCHANGED depth
          /\ frames' = [frames EXCEPT ![e] = Append(@, NoFn)]
      BY <1>3 DEF StartEvaluation, Push
    <2> HIDE DEF a
    <2> QED BY <2>1, <2>2, DepthPush, FramesPush DEF Records
  <1>4. ASSUME NEW e \in Evals, NEW x \in Unresolved, ResolveFails(e, x)
        PROVE  Records'
    BY <1>1, <1>4 DEF ResolveFails
  <1>5. ASSUME NEW e \in Evals, StepLimitHit(e)
        PROVE  Records'
    BY <1>5, RecordsHit DEF StepLimitHit, Limits
  <1>6. ASSUME Charge
        PROVE  Records'
    <2>1. current \in Evals
      BY <1>6, AtIsInside DEF Charge, At
    <2> QED BY <1>1, <1>6, <2>1, RecordsHit DEF Charge, Limits
  <1>7. ASSUME NEW e \in Evals, NEW k \in {"stmt", "for"}, ExecStmt(e, k)
        PROVE  Records'
    BY <1>7, RecordsPushOther DEF ExecStmt, Push, Kinds
  <1>8. ASSUME NEW e \in Evals, EvalExpr(e)
        PROVE  Records'
    <2>1. CASE depth[e] + 1 > MaxDepth
      BY <1>1, <1>8, <2>1 DEF EvalExpr
    <2>2. CASE ~(depth[e] + 1 > MaxDepth)
      <3>1. /\ depth' = [depth EXCEPT ![e] = @ + 1] /\ UNCHANGED frames
            /\ stack' = Append(stack, Act("expr", e, NoFn))
        BY <1>8, <2>2 DEF EvalExpr, Push
      <3>2. DepthMirrorsStack'
        BY <2>2, <3>1, DepthEnter DEF Records
      <3> DEFINE a == Act("expr", e, NoFn)
      <3>3. a \in Activation /\ a.kind = "expr" /\ stack' = Append(stack, a)
        BY <3>1 DEF Act, Activation, Kinds
      <3> HIDE DEF a
      <3>4. FramesMirrorStack'
        BY <3>1, <3>3, FramesPushOther DEF Records
      <3> QED BY <3>2, <3>4 DEF Records
    <2> QED BY <2>1, <2>2
  <1>9. ASSUME NEW e \in Evals, NEW f \in Fns, CallFunction(e, f)
        PROVE  Records'
    <2>1. CASE f \in active[e]
      BY <1>1, <1>9, <2>1 DEF CallFunction
    <2>2. CASE f \notin active[e]
      <3> DEFINE a == Act("call", e, f)
      <3>1. a \in Activation /\ a.kind = "call" /\ a.ev = e /\ FnOf(a) = f
        BY DEF Act, Activation, Kinds, FnOf
      <3>2. /\ stack' = Append(stack, a) /\ UNCHANGED depth
            /\ frames' = [frames EXCEPT ![e] = Append(@, f)]
        BY <1>9, <2>2 DEF CallFunction, Push
      <3> HIDE DEF a
      <3> QED BY <3>1, <3>2, DepthPush, FramesPush DEF Records
    <2> QED BY <2>1, <2>2
  <1>10. ASSUME NEW e \in Evals, CallBuiltin(e)
         PROVE  Records'
    BY <1>10, RecordsPushOther DEF CallBuiltin, Push, Kinds
  <1>11. ASSUME NEW e \in Evals, CallRejected(e)
         PROVE  Records'
    BY <1>1, <1>11 DEF CallRejected
  <1>12. ASSUME NEW s \in Signals, Signal(s)
         PROVE  Records'
    BY <1>1, <1>12 DEF Signal
  <1>13. ASSUME NEW x \in Raised, Raise(x)
         PROVE  Records'
    BY <1>1, <1>13 DEF Raise
  <1>14. ASSUME Return \/ Unwind \/ AssertFails
         PROVE  Records'
    BY <1>2, <1>14 DEF Return, Unwind, AssertFails, At
  <1>15. ASSUME Continue \/ UNCHANGED vars
         PROVE  Records'
    BY <1>1, <1>15 DEF Continue, vars
  <1> QED
    BY <1>3, <1>4, <1>5, <1>6, <1>7, <1>8, <1>9, <1>10, <1>11, <1>12, <1>13,
       <1>14, <1>15
    DEF Next, Step

(* depth, frames and active of a Thread are its part of the control stack  *)
(* at every moment, whichever way calls end: nothing an exception unwinds  *)
(* stays counted.                                                          *)
THEOREM RecordsCorrect == Spec => []RecordsMirrorStack
  <1>1. Inv /\ Records => RecordsMirrorStack
    BY DEF Inv, StackInv, Records, RecordsMirrorStack
  <1> QED BY <1>1, RecordsInit, RecordsStep, Invariance, PTL DEF Spec
=============================================================================
