----------------------------- MODULE Evaluator -----------------------------
(***************************************************************************)
(* The tree-walking evaluator of src/src/starlark/eval/evaluator.py, seen  *)
(* as what it is at run time: one Python control stack on which the        *)
(* recursive functions eval_file, _exec_stmt, _eval_expr and call of       *)
(* several nested evaluations lie on top of one another.  An evaluation    *)
(* is one Program.exec / Program.eval / exec_file call with a Thread of    *)
(* its own; a second one starts inside the first when a host builtin, a    *)
(* limit callback or a loader evaluates Starlark in turn.                  *)
(*                                                                         *)
(* What the program computes is left out.  What is kept is the resource    *)
(* and call accounting of Thread (steps, allocs, depth, frames, active,    *)
(* the one-shot callbacks), the ContextVar that tells builtins which       *)
(* Thread is running, and the path of every exception through the          *)
(* except / finally clauses.                                               *)
(***************************************************************************)
EXTENDS Integers, SequencesExt

CONSTANTS
  Evals,      (* evaluations, one Thread each                              *)
  Fns,        (* def / lambda AST nodes                                    *)
  NoEval,     (* the ContextVar holds no Thread                            *)
  NoFn,       (* argument of an activation that needs none                 *)
  MaxSteps,   (* [Evals -> limit]: Thread.max_steps                        *)
  MaxAllocs,  (* [Evals -> limit]: Thread.max_allocs                       *)
  MaxDepth,   (* Thread.max_depth                                          *)
  Armed,      (* [Evals -> SUBSET Limits]: callbacks the host supplied     *)
  StepBound,  (* bound: an evaluation without max_steps stops ticking here *)
  AllocBound  (* bound: and one without max_allocs stops charging here     *)

Unlimited == -1
Limits    == {"steps", "allocs"}

ASSUME NoEvalAssumption == NoEval \notin Evals
ASSUME DepthAssumption  == MaxDepth \in Nat
ASSUME LimitsAssumption ==
  /\ MaxSteps  \in [Evals -> Nat \cup {Unlimited}]
  /\ MaxAllocs \in [Evals -> Nat \cup {Unlimited}]
  /\ Armed     \in [Evals -> SUBSET Limits]
ASSUME BoundsAssumption == StepBound \in Nat /\ AllocBound \in Nat

VARIABLES
  stack,    (* Python's control stack, innermost activation last           *)
  exc,      (* the exception being propagated, "none" when there is none   *)
  steps,    (* Thread.steps                                                *)
  allocs,   (* Thread.allocs                                               *)
  depth,    (* Thread.depth                                                *)
  frames,   (* Thread.frames, as the functions they run                    *)
  active,   (* Thread.active                                               *)
  armed,    (* the callbacks on_max_* not yet cleared                      *)
  fired,    (* history: how often each callback was invoked                *)
  current,  (* _CURRENT_THREAD, a ContextVar                               *)
  outcome   (* how each evaluation ended, as its caller sees it            *)

vars == <<stack, exc, steps, allocs, depth, frames, active, armed, fired,
          current, outcome>>

EvalErrors == {"eval"} \cup Limits         (* EvalError and its subclasses *)
Signals    == {"return", "break", "continue"}   (* internal control flow   *)
(* "python": any Python exception that is none of the others, from an      *)
(* operator, an index, an iterator or the body of a builtin; "host": what  *)
(* a limit callback or a loader raises; "syntax": a                        *)
(* StarlarkSyntaxException from resolving a program.                       *)
Raised     == EvalErrors \cup {"python", "recursion", "memory", "host", "syntax"}
Exceptions == Raised \cup Signals \cup {"none"}
Outcomes   == Exceptions \cup {"fresh", "running", "ok"}

Kinds == {"file", "stmt", "for", "expr", "call", "builtin", "limit"}
Activation ==
  [kind : Kinds, ev : Evals,
   arg  : Fns \cup Evals \cup Limits \cup {NoEval, NoFn}]

Act(k, e, a) == [kind |-> k, ev |-> e, arg |-> a]
Top          == Last(stack)
Push(a)      == stack' = Append(stack, a)

(***************************************************************************)
(* Where execution stands.                                                 *)
(***************************************************************************)
At(kinds) == exc = "none" /\ stack # << >> /\ Top.kind \in kinds

(* Statements run in a file, in the body of a def and in blocks; `call` is *)
(* reached from a call expression, with that expression's thread, or from  *)
(* Python code that re-enters the evaluator, with the thread the           *)
(* ContextVar holds.                                                       *)
StmtSite(e) == At({"file", "call", "stmt", "for"}) /\ e = Top.ev
ExprSite(e) == At({"file", "call", "stmt", "for", "expr"}) /\ e = Top.ev
CallSiteOutermost(e) ==       (* mutant: runs callbacks on the host's thread *)
  \/ At({"expr"}) /\ e = Top.ev
  \/ At({"builtin", "limit"}) /\ e = stack[1].ev

CallSite(e) == \/ At({"expr"}) /\ e = Top.ev
               \/ At({"builtin", "limit"}) /\ e = current

(* Thread.tick and Thread.add_allocs add first and compare afterwards.     *)
Exceeds(n, limit) == limit # Unlimited /\ n > limit
TickedEqual(e) ==             (* mutant: compares for equality only        *)
  /\ steps[e] < StepBound
  /\ steps[e] # MaxSteps[e]
  /\ steps' = [steps EXCEPT ![e] = @ + 1]

Ticked(e) == /\ steps[e] < StepBound
             /\ ~Exceeds(steps[e] + 1, MaxSteps[e])
             /\ steps' = [steps EXCEPT ![e] = @ + 1]

HitLimitRearmed(e, l) ==      (* mutant: the callback is not cleared       *)
  IF l \in armed[e]
  THEN /\ fired' = [fired EXCEPT ![e][l] = @ + 1]
       /\ Push(Act("limit", e, l))
       /\ UNCHANGED <<exc, armed>>
  ELSE exc' = l /\ UNCHANGED <<stack, armed, fired>>

HitLimitBase(e, l) ==         (* mutant: raises the base class             *)
  /\ exc' = "resource"
  /\ UNCHANGED <<stack, armed, fired>>

(* Over the limit: the callback is cleared and invoked if there is one     *)
(* still, and otherwise the limit error is raised.                         *)
HitLimit(e, l) ==
  IF l \in armed[e]
  THEN /\ armed' = [armed EXCEPT ![e] = @ \ {l}]
       /\ fired' = [fired EXCEPT ![e][l] = @ + 1]
       /\ Push(Act("limit", e, l))
       /\ UNCHANGED exc
  ELSE /\ exc' = l
       /\ UNCHANGED <<stack, armed, fired>>

-----------------------------------------------------------------------------
Init ==
  /\ stack   = << >>
  /\ exc     = "none"
  /\ steps   = [e \in Evals |-> 0]
  /\ allocs  = [e \in Evals |-> 0]
  /\ depth   = [e \in Evals |-> 0]
  /\ frames  = [e \in Evals |-> << >>]
  /\ active  = [e \in Evals |-> {}]
  /\ armed   = Armed
  /\ fired   = [e \in Evals |-> [l \in Limits |-> 0]]
  /\ current = NoEval
  /\ outcome = [e \in Evals |-> "fresh"]

(* Program.exec / eval: from the host, a host builtin, a limit callback or *)
(* the loader of a load statement.  Its file activation keeps the token    *)
(* that restores the ContextVar.                                           *)
CanStart(e) ==
  /\ outcome[e] = "fresh"
  /\ exc = "none"
  /\ stack # << >> => Top.kind \in {"builtin", "limit", "stmt"}

StartEvaluation(e) ==
  /\ CanStart(e)
  /\ Push(Act("file", e, current))
  /\ current' = e
  /\ frames'  = [frames EXCEPT ![e] = Append(@, NoFn)]
  /\ outcome' = [outcome EXCEPT ![e] = "running"]
  /\ UNCHANGED <<exc, steps, allocs, depth, active, armed, fired>>

(* Resolving fails before there is a Thread, and outside the try statement *)
(* that turns RecursionError into EvalError.                               *)
Unresolved == {"syntax", "recursion", "memory"}
ResolveFails(e, x) ==
  /\ CanStart(e)
  /\ outcome' = [outcome EXCEPT ![e] = x]
  /\ exc' = IF stack = << >> THEN "none" ELSE x
  /\ UNCHANGED <<stack, steps, allocs, depth, frames, active, armed, fired,
                 current>>

-----------------------------------------------------------------------------
(* A tick beyond max_steps, at any of the three sites that tick.           *)
StepLimitHit(e) ==
  /\ StmtSite(e) \/ ExprSite(e) \/ CallSite(e)
  /\ steps[e] < StepBound
  /\ Exceeds(steps[e] + 1, MaxSteps[e])
  /\ steps' = [steps EXCEPT ![e] = @ + 1]
  /\ HitLimit(e, "steps")
  /\ UNCHANGED <<allocs, depth, frames, active, current, outcome>>

(* Containers, strings and ints charge the thread of the ContextVar, those *)
(* that a limit callback makes included.                                   *)
Charge ==
  /\ At({"stmt", "expr", "builtin", "limit"})
  /\ allocs[current] < AllocBound
  /\ allocs' = [allocs EXCEPT ![current] = @ + 1]
  /\ IF Exceeds(allocs[current] + 1, MaxAllocs[current])
     THEN HitLimit(current, "allocs")
     ELSE UNCHANGED <<stack, exc, armed, fired>>
  /\ UNCHANGED <<steps, depth, frames, active, current, outcome>>

ExecStmtFree(e, k) ==         (* mutant: a loop body does not tick         *)
  /\ StmtSite(e)
  /\ IF Top.kind = "for" /\ k = "stmt" THEN UNCHANGED steps ELSE Ticked(e)
  /\ Push(Act(k, e, NoFn))
  /\ UNCHANGED <<exc, allocs, depth, frames, active, armed, fired, current,
                 outcome>>

ExecStmt(e, k) ==
  /\ StmtSite(e)
  /\ Ticked(e)
  /\ Push(Act(k, e, NoFn))
  /\ UNCHANGED <<exc, allocs, depth, frames, active, armed, fired, current,
                 outcome>>

EvalExpr(e) ==
  /\ ExprSite(e)
  /\ Ticked(e)
  /\ IF depth[e] + 1 > MaxDepth
     THEN exc' = "eval" /\ UNCHANGED <<stack, depth>>
     ELSE /\ depth' = [depth EXCEPT ![e] = @ + 1]
          /\ Push(Act("expr", e, NoFn))
          /\ UNCHANGED exc
  /\ UNCHANGED <<allocs, frames, active, armed, fired, current, outcome>>

CallFunctionUnchecked(e, f) ==  (* mutant: no recursion check              *)
  /\ CallSite(e)
  /\ Ticked(e)
  /\ Push(Act("call", e, f))
  /\ frames' = [frames EXCEPT ![e] = Append(@, f)]
  /\ active' = [active EXCEPT ![e] = @ \cup {f}]
  /\ UNCHANGED <<exc, allocs, depth, armed, fired, current, outcome>>

CallFunction(e, f) ==
  /\ CallSite(e)
  /\ Ticked(e)
  /\ IF f \in active[e]
     THEN exc' = "eval" /\ UNCHANGED <<stack, frames, active>>
     ELSE /\ Push(Act("call", e, f))
          /\ frames' = [frames EXCEPT ![e] = Append(@, f)]
          /\ active' = [active EXCEPT ![e] = @ \cup {f}]
          /\ UNCHANGED exc
  /\ UNCHANGED <<allocs, depth, armed, fired, current, outcome>>

CallBuiltin(e) ==
  /\ CallSite(e)
  /\ Ticked(e)
  /\ Push(Act("builtin", e, NoFn))
  /\ UNCHANGED <<exc, allocs, depth, frames, active, armed, fired, current,
                 outcome>>

(* The value is not callable, or bind_arguments refuses the arguments.     *)
CallRejected(e) ==
  /\ CallSite(e)
  /\ Ticked(e)
  /\ exc' = "eval"
  /\ UNCHANGED <<stack, allocs, depth, frames, active, armed, fired, current,
                 outcome>>

-----------------------------------------------------------------------------
(* return, break and continue are exceptions.  The resolver admits them    *)
(* only inside a function and inside a loop of the same function.          *)
Block == {i \in 1..Len(stack) :
            \A j \in i..Len(stack) : stack[j].kind \in {"stmt", "for"}}

Signal(s) ==
  /\ At({"stmt"})
  /\ IF s = "return"
     THEN \E i \in 1..Len(stack) : stack[i].kind = "call" /\ i + 1 \in Block
     ELSE \E i \in Block : stack[i].kind = "for"
  /\ exc' = s
  /\ UNCHANGED <<stack, steps, allocs, depth, frames, active, armed, fired,
                 current, outcome>>

(* What each activation can raise of itself: an operator, an index or an   *)
(* iterator whatever Python does, a load whatever the host's loader does.  *)
MayRaise(k) ==
  {"recursion", "memory"} \cup
  CASE k = "stmt"  -> {"eval", "python", "host"}
    [] k \in {"for", "expr", "builtin"} -> {"eval", "python"}
    [] k = "limit" -> {"eval", "host"}
    [] OTHER       -> {}

Raise(x) ==
  /\ At(Kinds)
  /\ x \in MayRaise(Top.kind)
  /\ exc' = x
  /\ UNCHANGED <<stack, steps, allocs, depth, frames, active, armed, fired,
                 current, outcome>>

-----------------------------------------------------------------------------
(* Mutants of Finally: a clean-up that only a normal end performs.         *)
FinallyBut(ok) ==
  LET e == Top.ev IN
  /\ stack'   = Front(stack)
  /\ depth'   = IF Top.kind = "expr"
                THEN [depth EXCEPT ![e] = @ - 1] ELSE depth
  /\ frames'  = IF Top.kind \in {"call", "file"} /\ ok.frames
                THEN [frames EXCEPT ![e] = Front(@)] ELSE frames
  /\ active'  = IF Top.kind = "call" /\ ok.active
                THEN [active EXCEPT ![e] = @ \ {Top.arg}] ELSE active
  /\ current' = IF Top.kind = "file" /\ ok.current THEN Top.arg ELSE current

FinallyActive  == FinallyBut([frames |-> TRUE, active |-> exc = "none",
                              current |-> TRUE])
FinallyCurrent == FinallyBut([frames |-> TRUE, active |-> TRUE,
                              current |-> exc = "none"])

(* The finally clauses of the activation that is left, in whichever way.   *)
Finally ==
  LET e == Top.ev IN
  /\ stack'   = Front(stack)
  /\ depth'   = IF Top.kind = "expr"
                THEN [depth EXCEPT ![e] = @ - 1] ELSE depth
  /\ frames'  = IF Top.kind \in {"call", "file"}
                THEN [frames EXCEPT ![e] = Front(@)] ELSE frames
  /\ active'  = IF Top.kind = "call"
                THEN [active EXCEPT ![e] = @ \ {Top.arg}] ELSE active
  /\ current' = IF Top.kind = "file" THEN Top.arg ELSE current

(* An activation ends normally; a limit callback that returns is followed  *)
(* by the limit error it announced.                                        *)
Return ==
  /\ At(Kinds)
  /\ Finally
  /\ exc'     = IF Top.kind = "limit" THEN Top.arg ELSE "none"
  /\ outcome' = IF Top.kind = "file"
                THEN [outcome EXCEPT ![Top.ev] = "ok"] ELSE outcome
  /\ UNCHANGED <<steps, allocs, armed, fired>>

PassedBefore(k, x) ==         (* mutant: converts where the program is     *)
  CASE k = "for" /\ x = "break"   -> "none"      (* resolved and not where  *)
    [] k = "call" /\ x = "return" -> "none"      (* it runs                 *)
    [] k = "builtin" /\ x \notin EvalErrors \cup {"memory"} -> "eval"
    [] OTHER -> x

(* What the except clauses of an activation of kind k let x become: `for`  *)
(* ends with a break, `call` ends with a return and normalises what a      *)
(* builtin raises, and Program.exec normalises RecursionError.             *)
Passed(k, x) ==
  CASE k = "for" /\ x = "break"   -> "none"
    [] k = "call" /\ x = "return" -> "none"
    [] k = "builtin" /\ x \notin EvalErrors \cup {"memory"} -> "eval"
    [] k = "file" /\ x = "recursion" -> "eval"
    [] OTHER -> x

Unwind ==
  /\ exc # "none"
  /\ stack # << >>
  /\ ~(Top.kind = "for" /\ exc = "continue")
  /\ Finally
  /\ exc' = IF Len(stack) = 1 THEN "none" ELSE Passed(Top.kind, exc)
  /\ outcome' = IF Top.kind = "file"
                THEN [outcome EXCEPT ![Top.ev] = Passed("file", exc)]
                ELSE outcome
  /\ UNCHANGED <<steps, allocs, armed, fired>>

(* The loop goes on with its next item.                                    *)
Continue ==
  /\ exc = "continue"
  /\ stack # << >>
  /\ Top.kind = "for"
  /\ exc' = "none"
  /\ UNCHANGED <<stack, steps, allocs, depth, frames, active, armed, fired,
                 current, outcome>>

(* assert_fails catches every EvalError of the function it calls and ends. *)
AssertFails ==
  /\ exc \in EvalErrors
  /\ stack # << >>
  /\ Top.kind = "builtin"
  /\ Finally
  /\ exc' = "none"
  /\ UNCHANGED <<steps, allocs, armed, fired, outcome>>

-----------------------------------------------------------------------------
Step ==
  \/ \E e \in Evals : \/ StepLimitHit(e)
                      \/ \E k \in {"stmt", "for"} : ExecStmt(e, k)
                      \/ EvalExpr(e)
                      \/ \E f \in Fns : CallFunction(e, f)
                      \/ CallBuiltin(e)
                      \/ CallRejected(e)
  \/ Charge
  \/ \E s \in Signals : Signal(s)
  \/ \E x \in Raised : Raise(x)
  \/ Return
  \/ Unwind
  \/ Continue
  \/ AssertFails

Next ==
  \/ \E e \in Evals : \/ StartEvaluation(e)
                      \/ \E x \in Unresolved : ResolveFails(e, x)
  \/ Step

Spec == Init /\ [][Next]_vars

(* Python goes on executing whatever is on the stack.                      *)
FairSpec == Spec /\ WF_vars(Step)

-----------------------------------------------------------------------------
CallsOf(e)  == {i \in 1..Len(stack) : stack[i].kind = "call" /\ stack[i].ev = e}
ExprsOf(e)  == {i \in 1..Len(stack) : stack[i].kind = "expr" /\ stack[i].ev = e}
FramesOf(e) == {i \in 1..Len(stack) :
                  stack[i].kind \in {"file", "call"} /\ stack[i].ev = e}
FnOf(a)     == IF a.kind = "file" THEN NoFn ELSE a.arg

TypeOK ==
  /\ stack   \in Seq(Activation)
  /\ exc     \in Exceptions
  /\ steps   \in [Evals -> Nat]
  /\ allocs  \in [Evals -> Nat]
  /\ depth   \in [Evals -> Int]
  /\ frames  \in [Evals -> Seq(Fns \cup {NoFn})]
  /\ active  \in [Evals -> SUBSET Fns]
  /\ armed   \in [Evals -> SUBSET Limits]
  /\ fired   \in [Evals -> [Limits -> Nat]]
  /\ current \in Evals \cup {NoEval}
  /\ outcome \in [Evals -> Outcomes]

(* The ContextVar always names the evaluation whose code is innermost on   *)
(* the control stack, and nothing once the host has control again: what    *)
(* builtins charge and call back goes to the right Thread, however the     *)
(* evaluations above ended (with_thread, builtins.py).                     *)
ContextIsInnermost ==
  current = IF stack = << >> THEN NoEval ELSE Top.ev

(* No function is on the call stack of an evaluation twice, also when the  *)
(* second call comes through a builtin such as sorted(key=f).              *)
NoRecursion ==
  \A e \in Evals : \A i, j \in CallsOf(e) :
    stack[i].arg = stack[j].arg => i = j

(* Thread.active is the set of functions on the call stack, no more and no *)
(* less: a function that failed half-way can be called again.              *)
ActiveMirrorsStack ==
  \A e \in Evals : active[e] = {stack[i].arg : i \in CallsOf(e)}

(* Thread.depth counts the expressions being evaluated, never exceeds the  *)
(* cap, and is back where it was after any exception.                      *)
DepthMirrorsStack ==
  \A e \in Evals : depth[e] = Cardinality(ExprsOf(e)) /\ depth[e] <= MaxDepth

(* Thread.frames lists the top-level frame and the functions on the call   *)
(* stack, outermost first: the n-th frame is that of the n-th activation   *)
(* that has one.                                                           *)
FramesMirrorStack ==
  \A e \in Evals :
    /\ Len(frames[e]) = Cardinality(FramesOf(e))
    /\ \A i \in FramesOf(e) :
         frames[e][Cardinality({j \in FramesOf(e) : j <= i})] = FnOf(stack[i])

(* What a Thread keeps of its own stack is that stack, however a call ends. *)
RecordsMirrorStack == ActiveMirrorsStack /\ DepthMirrorsStack /\ FramesMirrorStack

OverLimit(e, l) == IF l = "steps" THEN Exceeds(steps[e], MaxSteps[e])
                                  ELSE Exceeds(allocs[e], MaxAllocs[e])

(* A limit callback is invoked at most once per evaluation, and has been   *)
(* invoked once the limit is exceeded, even if the callback or a builtin   *)
(* re-enters the evaluator and exceeds the limit again (Thread.tick and    *)
(* Thread.add_allocs).                                                     *)
CallbackFiresOnce ==
  \A e \in Evals, l \in Limits :
    fired[e][l] = IF l \in Armed[e] /\ OverLimit(e, l) THEN 1 ELSE 0

(* What the except clauses keep in, at any nesting of evaluations: an      *)
(* evaluation that has begun never ends in a RecursionError (Program.exec, *)
(* Program.eval), out of a builtin come only EvalErrors and MemoryError,   *)
(* whatever its body or a function it calls back raises (call), and a      *)
(* control-flow signal is never outside the function or the loop it        *)
(* belongs to (call, _exec_stmt).                                          *)
EscapesContained ==
  [][/\ \A e \in Evals :
          outcome[e] = "running" => outcome'[e] \notin Signals \cup {"recursion"}
     /\ stack # << >> /\ Top.kind = "builtin" /\ stack' = Front(stack) =>
          exc' \in EvalErrors \cup {"none", "memory"}
     /\ exc' \in Signals => Top'.kind \in {"stmt", "for", "call"}]_vars

(* Once an evaluation is over its step limit it enters no further          *)
(* statement, expression, function or builtin, even if the limit error     *)
(* was caught on the way.                                                  *)
LimitStopsProgress ==
  [][\A e \in Evals :
       Exceeds(steps'[e], MaxSteps[e]) =>
         ~\E k \in {"stmt", "for", "expr", "call", "builtin"}, a \in Fns \cup {NoFn} :
            stack' = Append(stack, Act(k, e, a))]_vars

(* An evaluation that waits below a nested one is neither charged nor      *)
(* otherwise touched by it: limits, depth, frames and the recursion check  *)
(* are per Thread.                                                         *)
NestedIsIsolated ==
  [][\A e \in Evals : e \notin {current, current'} =>
       /\ steps'[e]  = steps[e]
       /\ allocs'[e] = allocs[e]
       /\ depth'[e]  = depth[e]
       /\ active'[e] = active[e]
       /\ frames'[e] = frames[e]
       /\ armed'[e]  = armed[e]]_vars

(* With a step and an allocation limit every evaluation ends, whatever its *)
(* code does.                                                              *)
Termination ==
  \A e \in Evals : outcome[e] = "running" ~> outcome[e] # "running"
=============================================================================
