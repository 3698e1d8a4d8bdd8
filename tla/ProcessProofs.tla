---------------------------- MODULE ProcessProofs ----------------------------
(***************************************************************************)
(* Proofs about what all threads of the Python process share.              *)
(*                                                                         *)
(* Nesting: the recursion limit of the interpreter is the host's again     *)
(* when one thread has parsed, and never below it whatever several threads *)
(* do; and when the limits have room for the caps and for MaxLoose         *)
(* constructs more, a source in which at most MaxLoose constructs nest     *)
(* uncounted ends in the interpreter's own errors and never in Python's,   *)
(* however many brackets and suites it nests.                              *)
(*                                                                         *)
(* Equality: for any number of threads the record of pairs is what is      *)
(* being compared; and where one thread compares, its answers are those of *)
(* bisimulation, for every heap and every cap.                             *)
(***************************************************************************)
EXTENDS Nesting, Equality, StackLemmas, FiniteSetTheorems

JobsTypeOK ==
  /\ users \subseteq Threads /\ users # {}
  /\ base \in Nat /\ limit \in Nat
  /\ job \in [Threads -> Job]
  /\ result \in [Threads -> Results]

LEMMA JobFields ==
  ASSUME JobsTypeOK, NEW t \in Threads
  PROVE  /\ job[t].phase \in Phases /\ job[t].saved \in Nat /\ job[t].entry \in Nat
         /\ job[t].frames \in Nat /\ job[t].level \in Nat /\ job[t].tree \in Nat
         /\ job[t].loose \in Nat /\ job[t].exprs \in Nat
         /\ Idle \in Job /\ RaiseLimitTo(t) \in Nat
         /\ MaxCost \in Nat /\ ResolveCost \in Nat /\ LevelCost(t) \in Nat
         /\ \A c \in Constructs : Cost[c] \in Nat /\ Cost[c] <= MaxCost
  <1>1. job[t] \in Job
    BY DEF JobsTypeOK
  <1>2. Idle \in Job
    BY DEF Idle, Job, Phases
  <1> QED BY <1>1, <1>2, NumbersAssumption, CostAssumption DEF Job, RaiseLimitTo, LevelCost

(* How a step changes the job of the one thread that takes it.             *)
LEMMA EndJob ==
  ASSUME JobsTypeOK, NEW t \in Threads, NEW how \in Results, End(t, how)
  PROVE  /\ job' \in [Threads -> Job] /\ result' \in [Threads -> Results]
         /\ job'[t] = Idle /\ result'[t] = how
         /\ \A u \in Threads \ {t} : job'[u] = job[u] /\ result'[u] = result[u]
  BY JobFields DEF End, JobsTypeOK

(* the job of t after each step that does not end it                       *)
Saved(t, h) == [phase |-> "saved", saved |-> limit, entry |-> h, frames |-> h,
                level |-> 0, loose |-> 0, tree |-> 0, exprs |-> 0]

LEMMA NextJob ==
  ASSUME JobsTypeOK, NEW t \in Threads, NEW j \in Job, job' = [job EXCEPT ![t] = j]
  PROVE  /\ job' \in [Threads -> Job] /\ job'[t] = j
         /\ \A u \in Threads \ {t} : job'[u] = job[u]
  BY DEF JobsTypeOK

LEMMA SaveStep ==
  ASSUME JobsTypeOK, NEW t \in Threads, NEW h \in HostFrames, SaveLimit(t, h)
  PROVE  /\ job' \in [Threads -> Job] /\ job'[t] = Saved(t, h)
         /\ \A u \in Threads \ {t} : job'[u] = job[u]
  <1>1. Saved(t, h) \in Job
    BY NumbersAssumption DEF Saved, Job, Phases, JobsTypeOK
  <1>2. [Idle EXCEPT !.phase = "saved", !.saved = limit, !.entry = h, !.frames = h]
        = Saved(t, h)
    <2> DEFINE X == [Idle EXCEPT !.phase = "saved", !.saved = limit, !.entry = h,
                                 !.frames = h]
    <2>1. /\ X \in Job /\ X.phase = "saved" /\ X.saved = limit /\ X.entry = h
          /\ X.frames = h /\ X.level = Idle.level /\ X.tree = Idle.tree
          /\ X.loose = Idle.loose /\ X.exprs = Idle.exprs
      <3>1. Idle \in Job /\ h \in Nat /\ limit \in Nat /\ "saved" \in Phases
        BY JobFields, NumbersAssumption DEF JobsTypeOK, Phases
      <3> QED BY <3>1 DEF Job
    <2>2. Idle.level = 0 /\ Idle.tree = 0 /\ Idle.loose = 0 /\ Idle.exprs = 0
      BY DEF Idle
    <2>3. \A x \in Job : x = [phase |-> x.phase, saved |-> x.saved, entry |-> x.entry,
                             frames |-> x.frames, level |-> x.level,
                             loose |-> x.loose, tree |-> x.tree, exprs |-> x.exprs]
      BY DEF Job
    <2> HIDE DEF X
    <2>5. X = [phase |-> X.phase, saved |-> X.saved, entry |-> X.entry,
               frames |-> X.frames, level |-> X.level, loose |-> X.loose,
               tree |-> X.tree, exprs |-> X.exprs]
      BY <2>1, <2>3
    <2>6. X = Saved(t, h)
      BY <2>1, <2>2, <2>5, Zenon DEF Saved
    <2> QED BY <2>6 DEF X
  <1>3. job' = [job EXCEPT ![t] = Saved(t, h)]
    BY <1>2 DEF SaveLimit
  <1> QED BY <1>1, <1>3, NextJob

LEMMA RaiseStep ==
  ASSUME JobsTypeOK, NEW t \in Threads, RaiseLimit(t)
  PROVE  /\ job' \in [Threads -> Job] /\ job'[t] = [job[t] EXCEPT !.phase = "parsing"]
         /\ \A u \in Threads \ {t} : job'[u] = job[u]
  <1>1. [job[t] EXCEPT !.phase = "parsing"] \in Job
    BY DEF JobsTypeOK, Job, Phases
  <1>2. job' = [job EXCEPT ![t] = [job[t] EXCEPT !.phase = "parsing"]]
    BY DEF RaiseLimit
  <1> QED BY <1>1, <1>2, NextJob

(* One construct deeper, and how it may end instead.                       *)
LEMMA DeeperJob ==
  ASSUME JobsTypeOK, NEW t \in Threads, NEW c \in Constructs
  PROVE  /\ Deeper(t, c) \in Job
         /\ Deeper(t, c).phase = job[t].phase /\ Deeper(t, c).saved = job[t].saved
         /\ Deeper(t, c).entry = job[t].entry
         /\ Deeper(t, c).frames = job[t].frames + Cost[c]
         /\ Deeper(t, c).tree = job[t].tree + 1
         /\ c \in Counted => /\ Deeper(t, c).level = job[t].level + 1
                             /\ Deeper(t, c).loose = job[t].loose
         /\ c \notin Counted => /\ Deeper(t, c).level = job[t].level
                                /\ Deeper(t, c).loose = job[t].loose + 1
  <1> DEFINE F == job[t].frames + Cost[c]
             L == IF c \in Counted THEN job[t].level + 1 ELSE job[t].level
             U == IF c \in Counted THEN job[t].loose ELSE job[t].loose + 1
             T == job[t].tree + 1
             E == IF c \in Statements THEN job[t].exprs ELSE job[t].exprs + 1
  <1>1. F \in Nat /\ L \in Nat /\ U \in Nat /\ T \in Nat /\ E \in Nat
    BY JobFields
  <1>2. job[t] \in Job
    BY DEF JobsTypeOK
  <1>3. Deeper(t, c) = [job[t] EXCEPT !.frames = F, !.level = L, !.loose = U,
                                      !.tree = T, !.exprs = E]
    BY <1>2 DEF Deeper, Job
  <1>4. /\ c \in Counted => L = job[t].level + 1 /\ U = job[t].loose
        /\ c \notin Counted => L = job[t].level /\ U = job[t].loose + 1
        /\ F = job[t].frames + Cost[c] /\ T = job[t].tree + 1
    OBVIOUS
  <1> HIDE DEF F, L, U, T, E
  <1>5. /\ Deeper(t, c) \in Job
        /\ Deeper(t, c).phase = job[t].phase /\ Deeper(t, c).saved = job[t].saved
        /\ Deeper(t, c).entry = job[t].entry /\ Deeper(t, c).frames = F
        /\ Deeper(t, c).level = L /\ Deeper(t, c).loose = U /\ Deeper(t, c).tree = T
    BY <1>1, <1>2, <1>3 DEF Job
  <1> QED BY <1>4, <1>5

LEMMA NestStep ==
  ASSUME JobsTypeOK, NEW t \in Threads, NEW c \in Constructs, Nest(t, c)
  PROVE  \/ /\ job[t].frames + Cost[c] > limit
            /\ End(t, "recursion") /\ limit' = job[t].saved
         \/ End(t, "syntax") /\ limit' = job[t].saved
         \/ /\ Deeper(t, c).level <= MaxLevel
            /\ UNCHANGED <<limit, result>>
            /\ job' \in [Threads -> Job] /\ job'[t] = Deeper(t, c)
            /\ \A u \in Threads \ {t} : job'[u] = job[u]
  <1>1. /\ Deeper(t, c) \in Job /\ Deeper(t, c).level \in Nat
        /\ Deeper(t, c).frames = job[t].frames + Cost[c]
    BY DeeperJob DEF Job
  <1>2. CASE Deeper(t, c).frames > limit
    BY <1>1, <1>2 DEF Nest
  <1>3. CASE ~(Deeper(t, c).frames > limit) /\ Deeper(t, c).level > MaxLevel
    BY <1>3 DEF Nest
  <1>4. CASE ~(Deeper(t, c).frames > limit) /\ ~(Deeper(t, c).level > MaxLevel)
    <2>1. /\ UNCHANGED <<limit, result>> /\ job' = [job EXCEPT ![t] = Deeper(t, c)]
      BY <1>4 DEF Nest
    <2>2. Deeper(t, c).level <= MaxLevel
      BY <1>1, <1>4, NumbersAssumption
    <2> QED BY <1>1, <2>1, <2>2, NextJob
  <1> QED BY <1>2, <1>3, <1>4

LEMMA EndParseStep ==
  ASSUME JobsTypeOK, NEW t \in Threads, NEW ok \in BOOLEAN, EndParse(t, ok)
  PROVE  /\ limit' = job[t].saved
         /\ \/ End(t, "syntax")
            \/ /\ UNCHANGED result /\ job' \in [Threads -> Job]
               /\ job'[t] = [job[t] EXCEPT !.phase = "resolving", !.level = 0,
                                           !.frames = job[t].entry]
               /\ \A u \in Threads \ {t} : job'[u] = job[u]
  <1>1. CASE ~ok
    BY <1>1 DEF EndParse
  <1>2. CASE ok
    <2> DEFINE J == [job[t] EXCEPT !.phase = "resolving", !.level = 0, !.frames = job[t].entry]
    <2>1. J \in Job
      BY JobFields DEF JobsTypeOK, Job, Phases
    <2>2. /\ limit' = job[t].saved /\ UNCHANGED result
          /\ job' = [job EXCEPT ![t].phase = "resolving", ![t].level = 0,
                                ![t].frames = job[t].entry]
      BY <1>2 DEF EndParse
    <2>3. job' = [job EXCEPT ![t] = J]
      BY <2>2 DEF JobsTypeOK, Job
    <2> QED BY <2>1, <2>2, <2>3, NextJob
  <1> QED BY <1>1, <1>2

LEMMA WalkStep ==
  ASSUME JobsTypeOK, NEW t \in Threads, Walk(t)
  PROVE  \/ /\ job[t].frames + LevelCost(t) > limit
            /\ End(t, IF job[t].phase = "resolving" THEN "recursion" ELSE "eval")
         \/ End(t, "eval")
         \/ /\ UNCHANGED result /\ job' \in [Threads -> Job]
            /\ job'[t].phase = job[t].phase /\ job'[t].entry = job[t].entry
            /\ job'[t].tree = job[t].tree /\ job'[t].level = job[t].level + 1
            /\ job'[t].frames = job[t].frames + LevelCost(t)
            /\ \A u \in Threads \ {t} : job'[u] = job[u]
  <1> DEFINE F == job[t].frames + LevelCost(t)
             L == job[t].level + 1
             J == [job[t] EXCEPT !.frames = F, !.level = L]
             TooDeep == job[t].phase = "evaluating" /\ DepthBelow(t) > MaxLevel
  <1>1. CASE F > limit
    BY <1>1 DEF Walk
  <1>2. CASE ~(F > limit) /\ TooDeep
    BY <1>2 DEF Walk
  <1>3. CASE ~(F > limit) /\ ~TooDeep
    <2>1. F \in Nat /\ L \in Nat /\ job[t] \in Job
      BY JobFields DEF JobsTypeOK
    <2>2. /\ UNCHANGED result
          /\ job' = [job EXCEPT ![t].frames = @ + LevelCost(t), ![t].level = @ + 1]
      BY <1>3 DEF Walk
    <2>3. job' = [job EXCEPT ![t] = J]
      BY <2>2 DEF JobsTypeOK, Job
    <2> HIDE DEF F, L
    <2>4. /\ J \in Job /\ J.phase = job[t].phase /\ J.entry = job[t].entry
          /\ J.tree = job[t].tree /\ J.frames = F /\ J.level = L
      BY <2>1 DEF Job
    <2> HIDE DEF J
    <2>5. /\ job' \in [Threads -> Job] /\ job'[t] = J
          /\ \A u \in Threads \ {t} : job'[u] = job[u]
      BY <2>3, <2>4, NextJob
    <2> QED BY <2>2, <2>4, <2>5 DEF F, L
  <1> QED BY <1>1, <1>2, <1>3

LEMMA EndWalkStep ==
  ASSUME JobsTypeOK, NEW t \in Threads, EndWalk(t)
  PROVE  \/ End(t, "ok")
         \/ /\ UNCHANGED result /\ job' \in [Threads -> Job]
            /\ job'[t] = [job[t] EXCEPT !.phase = "evaluating", !.level = 0,
                                        !.frames = job[t].entry]
            /\ \A u \in Threads \ {t} : job'[u] = job[u]
  <1>1. CASE job[t].phase # "resolving"
    BY <1>1 DEF EndWalk
  <1>2. CASE job[t].phase = "resolving"
    <2> DEFINE J == [job[t] EXCEPT !.phase = "evaluating", !.level = 0,
                                   !.frames = job[t].entry]
    <2>1. J \in Job
      BY JobFields DEF JobsTypeOK, Job, Phases
    <2>2. /\ UNCHANGED result
          /\ job' = [job EXCEPT ![t].phase = "evaluating", ![t].level = 0,
                                ![t].frames = job[t].entry]
      BY <1>2 DEF EndWalk
    <2>3. job' = [job EXCEPT ![t] = J]
      BY <2>2 DEF JobsTypeOK, Job
    <2> QED BY <2>1, <2>2, <2>3, NextJob
  <1> QED BY <1>1, <1>2
-----------------------------------------------------------------------------
(* The variables keep their types, and the limit of the host is one of     *)
(* those it may have set.                                                  *)
TypeInv == JobsTypeOK /\ base \in Bases

LEMMA InitTypeInv == Init => TypeInv
  <1> SUFFICES ASSUME Init PROVE TypeInv
    OBVIOUS
  <1>1. Idle \in Job
    BY DEF Idle, Job, Phases
  <1> QED BY <1>1, NumbersAssumption DEF Init, TypeInv, JobsTypeOK, Results

(* A step: who takes it, and which.                                        *)
LEMMA StepTypes == TypeInv /\ [Next]_vars => TypeInv'
  <1> SUFFICES ASSUME TypeInv, [Next]_vars PROVE TypeInv'
    OBVIOUS
  <1> USE DEF TypeInv
  <1>1. CASE UNCHANGED vars
    BY <1>1 DEF vars, JobsTypeOK
  <1>2. CASE Next
    <2> PICK t \in Threads :
          \/ \E h \in HostFrames : SaveLimit(t, h)
          \/ RaiseLimit(t)
          \/ \E c \in Constructs : Nest(t, c)
          \/ \E ok \in BOOLEAN : EndParse(t, ok)
          \/ Walk(t)
          \/ EndWalk(t)
      BY <1>2 DEF Next
    <2> DEFINE Rest == UNCHANGED <<users, base>>
               Good == /\ limit' \in Nat /\ job' \in [Threads -> Job]
                       /\ result' \in [Threads -> Results] /\ Rest
    <2>0. SUFFICES Good
      BY DEF JobsTypeOK
    <2>f. job[t].saved \in Nat /\ RaiseLimitTo(t) \in Nat
      BY JobFields
    <2>1. ASSUME NEW h \in HostFrames, SaveLimit(t, h) PROVE Good
      BY <2>1, SaveStep DEF SaveLimit, JobsTypeOK
    <2>2. CASE RaiseLimit(t)
      BY <2>2, <2>f, RaiseStep DEF RaiseLimit, JobsTypeOK
    <2>3. ASSUME NEW c \in Constructs, Nest(t, c) PROVE Good
      <3>1. Rest
        BY <2>3 DEF Nest
      <3>2. "recursion" \in Results /\ "syntax" \in Results
        BY DEF Results
      <3> QED BY <2>3, <2>f, <3>1, <3>2, NestStep, EndJob DEF JobsTypeOK
    <2>4. ASSUME NEW ok \in BOOLEAN, EndParse(t, ok) PROVE Good
      <3>1. Rest
        BY <2>4 DEF EndParse
      <3>2. "syntax" \in Results
        BY DEF Results
      <3> QED BY <2>4, <2>f, <3>1, <3>2, EndParseStep, EndJob DEF JobsTypeOK
    <2>5. CASE Walk(t)
      <3>1. Rest /\ UNCHANGED limit
        BY <2>5 DEF Walk
      <3>2. /\ "eval" \in Results
            /\ (IF job[t].phase = "resolving" THEN "recursion" ELSE "eval") \in Results
        BY DEF Results
      <3> QED BY <2>5, <3>1, <3>2, WalkStep, EndJob DEF JobsTypeOK
    <2>6. CASE EndWalk(t)
      <3>1. Rest /\ UNCHANGED limit
        BY <2>6 DEF EndWalk
      <3>2. "ok" \in Results
        BY DEF Results
      <3> QED BY <2>6, <3>1, <3>2, EndWalkStep, EndJob DEF JobsTypeOK
    <2> QED BY <2>1, <2>2, <2>3, <2>4, <2>5, <2>6
  <1> QED BY <1>1, <1>2

-----------------------------------------------------------------------------
(* LimitKept is not inductive: what a thread restores is what it has saved,*)
(* so the invariant says what that is, and that only users have jobs.      *)
Working(t) == job[t].phase # "idle"
Saves(t)   == job[t].phase \in {"saved", "parsing"}

Limits ==
  /\ LimitKept
  /\ \A t \in Threads : Working(t) => t \in users
  /\ \A t \in Threads : Saves(t) => job[t].saved >= base
  /\ Alone => \A t \in Threads : Saves(t) => job[t].saved = base

LEMMA InitLimits == Init => Limits
  <1> SUFFICES ASSUME Init PROVE Limits
    OBVIOUS
  <1>1. TypeInv
    BY InitTypeInv
  <1>2. \A t \in Threads : job[t].phase = "idle"
    BY DEF Init, Idle
  <1>3. limit >= base /\ limit = base
    BY <1>1 DEF Init, TypeInv, JobsTypeOK
  <1> QED BY <1>2, <1>3 DEF Limits, LimitKept, LimitRestored, LimitNeverLower,
             Working, Saves

(* What one step of t may do to the limit and to the job of t, and that it *)
(* leaves the jobs of the others alone.                                    *)
Steps(t) ==
  /\ UNCHANGED <<users, base>>
  /\ \A u \in Threads \ {t} : job'[u] = job[u]
  /\ \/ /\ job[t].phase = "idle" /\ job'[t].phase = "saved" /\ t \in users
        /\ job'[t].saved = limit /\ limit' = limit
     \/ /\ job[t].phase = "saved" /\ job'[t].phase = "parsing"
        /\ job'[t].saved = job[t].saved /\ limit' = RaiseLimitTo(t)
     \/ /\ job[t].phase = "parsing" /\ job'[t].phase = "parsing"
        /\ job'[t].saved = job[t].saved /\ limit' = limit
     \/ /\ job[t].phase = "parsing" /\ job'[t].phase \in {"idle", "resolving"}
        /\ limit' = job[t].saved
     \/ /\ job[t].phase \in {"resolving", "evaluating"}
        /\ job'[t].phase \in {"idle", "resolving", "evaluating"}
        /\ limit' = limit

LEMMA NextSteps == TypeInv /\ Next => \E t \in Threads : Steps(t)
  <1> SUFFICES ASSUME TypeInv, Next PROVE \E t \in Threads : Steps(t)
    OBVIOUS
  <1> PICK t \in Threads :
        \/ \E h \in HostFrames : SaveLimit(t, h)
        \/ RaiseLimit(t)
        \/ \E c \in Constructs : Nest(t, c)
        \/ \E ok \in BOOLEAN : EndParse(t, ok)
        \/ Walk(t)
        \/ EndWalk(t)
    BY DEF Next
  <1>0. /\ JobsTypeOK /\ job[t] \in Job /\ Idle.phase = "idle"
        /\ {"ok", "syntax", "eval", "recursion"} \subseteq Results
    BY DEF TypeInv, JobsTypeOK, Idle, Results
  <1>1. ASSUME NEW h \in HostFrames, SaveLimit(t, h) PROVE Steps(t)
    <2>1. Saved(t, h).phase = "saved" /\ Saved(t, h).saved = limit
      BY DEF Saved
    <2> QED BY <1>0, <1>1, <2>1, SaveStep DEF SaveLimit, Steps
  <1>2. CASE RaiseLimit(t)
    <2>1. /\ [job[t] EXCEPT !.phase = "parsing"].phase = "parsing"
          /\ [job[t] EXCEPT !.phase = "parsing"].saved = job[t].saved
      BY <1>0 DEF Job
    <2> QED BY <1>0, <1>2, <2>1, RaiseStep DEF RaiseLimit, Steps
  <1>3. ASSUME NEW c \in Constructs, Nest(t, c) PROVE Steps(t)
    <2>1. Deeper(t, c).phase = job[t].phase /\ Deeper(t, c).saved = job[t].saved
      BY <1>0, DeeperJob
    <2>2. job[t].phase = "parsing" /\ UNCHANGED <<users, base>>
      BY <1>3 DEF Nest, MayNest
    <2>3. ASSUME NEW how \in Results, End(t, how), limit' = job[t].saved PROVE Steps(t)
      BY <1>0, <2>2, <2>3, EndJob DEF Steps
    <2>4. CASE /\ UNCHANGED <<limit, result>> /\ job'[t] = Deeper(t, c)
               /\ \A u \in Threads \ {t} : job'[u] = job[u]
      BY <2>1, <2>2, <2>4 DEF Steps
    <2> QED BY <1>0, <1>3, <2>3, <2>4, NestStep
  <1>4. ASSUME NEW ok \in BOOLEAN, EndParse(t, ok) PROVE Steps(t)
    <2>1. [job[t] EXCEPT !.phase = "resolving", !.level = 0,
                         !.frames = job[t].entry].phase = "resolving"
      BY <1>0 DEF Job
    <2>2. job[t].phase = "parsing" /\ UNCHANGED <<users, base>> /\ limit' = job[t].saved
      BY <1>4 DEF EndParse
    <2>3. CASE End(t, "syntax")
      BY <1>0, <2>2, <2>3, EndJob DEF Steps
    <2>4. CASE ~End(t, "syntax")
      BY <1>0, <1>4, <2>1, <2>2, <2>4, EndParseStep DEF Steps
    <2> QED BY <2>3, <2>4
  <1>5. CASE Walk(t)
    <2>2. job[t].phase \in {"resolving", "evaluating"} /\ UNCHANGED <<users, base, limit>>
      BY <1>5 DEF Walk
    <2>3. (IF job[t].phase = "resolving" THEN "recursion" ELSE "eval") \in Results
      BY <1>0
    <2> QED BY <1>0, <1>5, <2>2, <2>3, WalkStep, EndJob DEF Steps
  <1>6. CASE EndWalk(t)
    <2>1. [job[t] EXCEPT !.phase = "evaluating", !.level = 0,
                         !.frames = job[t].entry].phase = "evaluating"
      BY <1>0 DEF Job
    <2>2. job[t].phase \in {"resolving", "evaluating"} /\ UNCHANGED <<users, base, limit>>
      BY <1>6 DEF EndWalk
    <2> QED BY <1>0, <1>6, <2>1, <2>2, EndWalkStep, EndJob DEF Steps
  <1> QED BY <1>1, <1>2, <1>3, <1>4, <1>5, <1>6

(* When one thread works alone nobody else has a job.                      *)
LEMMA AloneIdle ==
  ASSUME Limits, Alone, NEW t \in Threads, Working(t)
  PROVE  \A u \in Threads \ {t} : job[u].phase = "idle"
  BY DEF Limits, Alone, Working

LEMMA StepLimits == TypeInv /\ Limits /\ [Next]_vars => Limits'
  <1> SUFFICES ASSUME TypeInv, Limits, [Next]_vars PROVE Limits'
    OBVIOUS
  <1>1. CASE UNCHANGED vars
    BY <1>1 DEF vars, Limits, LimitKept, LimitRestored, LimitNeverLower, Alone,
       NothingParsed, Working, Saves
  <1>2. CASE Next
    <2>1. PICK t \in Threads : Steps(t)
      BY <1>2, NextSteps
    <2>2. TypeInv'
      BY StepTypes
    <2>3. /\ limit \in Nat /\ base \in Nat /\ job[t].saved \in Nat /\ limit' \in Nat
          /\ Need \in Nat
      BY <2>2, JobFields, NumbersAssumption DEF TypeInv, JobsTypeOK
    <2>4. users' = users /\ base' = base /\ (Alone' <=> Alone)
      BY <2>1 DEF Steps, Alone
    <2>5. limit >= base /\ (Saves(t) => job[t].saved >= base)
      BY DEF Limits, LimitKept, LimitNeverLower
    <2>6. limit' >= base'
      BY <2>1, <2>3, <2>4, <2>5 DEF Steps, RaiseLimitTo, Saves
    <2>7. ASSUME NEW u \in Threads, Working(u)' PROVE u \in users'
      BY <2>1, <2>4, <2>7 DEF Steps, Limits, Working
    <2>8. ASSUME NEW u \in Threads, Saves(u)' PROVE job'[u].saved >= base'
      BY <2>1, <2>4, <2>5, <2>8 DEF Steps, Limits, Saves
    <2>9. ASSUME Alone' PROVE /\ \A u \in Threads : Saves(u)' => job'[u].saved = base'
                              /\ NothingParsed' => limit' = base'
      <3>1. /\ Alone /\ (NothingParsed => limit = base)
            /\ \A u \in Threads : Saves(u) => job[u].saved = base
        BY <2>4, <2>9 DEF Limits, LimitKept, LimitRestored
      <3>2. t \in users
        BY <2>1 DEF Steps, Limits, Working
      <3>3. \A u \in Threads \ {t} : job[u].phase = "idle"
        BY <3>1, <3>2 DEF Limits, Alone, Working
      <3>4. job[t].phase # "parsing" => limit = base
        BY <3>1, <3>3 DEF NothingParsed
      <3>5. \A u \in Threads : Saves(u)' => job'[u].saved = base'
        BY <2>1, <2>4, <3>1, <3>4 DEF Steps, Saves
      <3>6. NothingParsed' => limit' = base'
        BY <2>1, <2>4, <3>1, <3>4 DEF Steps, Saves, NothingParsed
      <3> QED BY <3>5, <3>6
    <2> QED BY <2>6, <2>7, <2>8, <2>9 DEF Limits, LimitKept, LimitRestored,
               LimitNeverLower
  <1> QED BY <1>1, <1>2

(* The recursion limit of the interpreter is never below the host's, and   *)
(* it is the host's whenever nothing is parsed, as long as one thread at   *)
(* most uses the interpreter: for every number of threads, every nesting   *)
(* and every way parse_file ends (its finally clause).                     *)
THEOREM LimitCorrect == Spec => []LimitKept
  <1>1. Init => TypeInv /\ Limits
    BY InitTypeInv, InitLimits
  <1>2. TypeInv /\ Limits /\ [Next]_vars => TypeInv' /\ Limits'
    BY StepTypes, StepLimits
  <1>3. TypeInv /\ Limits => LimitKept
    BY DEF Limits
  <1> QED BY <1>1, <1>2, <1>3, PTL DEF Spec

-----------------------------------------------------------------------------
(* HostContract, where the caps fit the limits.  The parser is as many     *)
(* levels down as constructs are open, counted and not, a tree is as deep  *)
(* as its source was nested, and no level costs more than the dearest.     *)
Room(t) ==
  /\ Working(t) => job[t].entry \in HostFrames
  /\ job[t].phase = "saved" =>
       /\ job[t].frames = job[t].entry
       /\ job[t].level = 0 /\ job[t].loose = 0 /\ job[t].tree = 0
  /\ job[t].phase = "parsing" =>
       /\ limit = RaiseLimitTo(t)
       /\ job[t].level <= MaxLevel /\ job[t].loose <= MaxLoose
       /\ job[t].tree = job[t].level + job[t].loose
       /\ job[t].frames <= job[t].entry + job[t].tree * MaxCost
  /\ job[t].phase = "resolving" =>
       /\ job[t].tree <= MaxLevel + MaxLoose
       /\ job[t].frames = job[t].entry + job[t].level * ResolveCost
  /\ result[t] # "recursion"

Rooms == Alone => \A t \in Threads : Room(t)

LEMMA TimesMonotone ==
  ASSUME NEW a \in Nat, NEW b \in Nat, NEW k \in Nat, a <= b
  PROVE  a * k <= b * k
  OBVIOUS

LEMMA TimesSuccessor ==
  ASSUME NEW a \in Nat, NEW k \in Nat
  PROVE  (a + 1) * k = a * k + k /\ 0 * k = 0 /\ a * k \in Nat
  OBVIOUS

(* From f frames, a levels of at most k frames above h, one level more     *)
(* fits a limit n that has room for b levels.                              *)
LEMMA OneLevelMore ==
  ASSUME NEW f \in Nat, NEW h \in Nat, NEW a \in Nat, NEW b \in Nat, NEW k \in Nat,
         NEW d \in Nat, NEW n \in Nat,
         f <= h + a * k, d <= k, a + 1 <= b, h + b * k <= n
  PROVE  f + d <= h + (a + 1) * k /\ f + d <= n
  <1>1. (a + 1) * k = a * k + k /\ a * k \in Nat
    BY TimesSuccessor
  <1>2. (a + 1) * k <= b * k
    BY TimesMonotone
  <1>3. b * k \in Nat /\ (a + 1) * k \in Nat
    OBVIOUS
  <1> DEFINE x == a * k
             y == (a + 1) * k
             z == b * k
  <1>4. /\ x \in Nat /\ y \in Nat /\ z \in Nat /\ y = x + k /\ y <= z
        /\ f <= h + x /\ h + z <= n
    BY <1>1, <1>2, <1>3
  <1> SUFFICES f + d <= h + y /\ f + d <= n
    OBVIOUS
  <1> HIDE DEF x, y, z
  <1> QED BY <1>4

LEMMA InitRooms == Init => Rooms
  <1> SUFFICES ASSUME Init, NEW t \in Threads PROVE Room(t)
    BY DEF Rooms
  <1>1. job[t].phase = "idle" /\ result[t] = "none"
    BY DEF Init, Idle
  <1> QED BY <1>1 DEF Room, Working

(* A call that ends has room again, unless it ends in a RecursionError.    *)
LEMMA EndRoom ==
  ASSUME JobsTypeOK, NEW t \in Threads, NEW how \in Results, End(t, how), how # "recursion"
  PROVE  Room(t)'
  <1>1. job'[t].phase = "idle" /\ result'[t] = how
    BY EndJob DEF Idle
  <1> QED BY <1>1 DEF Room, Working

LEMMA NestRoom ==
  ASSUME CapsFit, TypeInv, NEW t \in Threads, Room(t), NEW c \in Constructs, Nest(t, c)
  PROVE  Room(t)'
  <1> DEFINE h == job[t].entry
             f == job[t].frames
             a == job[t].tree
             b == MaxLevel + 1 + MaxLoose
  <1>1. /\ JobsTypeOK /\ MaxLevel \in Nat /\ MaxLoose \in Nat /\ Need \in Nat
        /\ f \in Nat /\ h \in Nat /\ a \in Nat /\ b \in Nat /\ job[t].saved \in Nat
        /\ job[t].level \in Nat /\ job[t].loose \in Nat
        /\ Cost[c] \in Nat /\ MaxCost \in Nat /\ Cost[c] <= MaxCost
        /\ job[t].phase = "parsing" /\ (c \notin Counted => job[t].loose < MaxLoose)
    BY JobFields, NumbersAssumption DEF TypeInv, Nest, MayNest
  <1>2. /\ h \in HostFrames /\ limit = RaiseLimitTo(t) /\ a = job[t].level + job[t].loose
        /\ job[t].level <= MaxLevel /\ job[t].loose <= MaxLoose /\ f <= h + a * MaxCost
    BY <1>1 DEF Room, Working
  <1>3. f + Cost[c] <= h + (a + 1) * MaxCost /\ f + Cost[c] <= Need
    <2>1. a + 1 <= b
      BY <1>1, <1>2
    <2>2. h + b * MaxCost <= Need
      BY <1>2 DEF CapsFit
    <2> DEFINE d == Cost[c]
    <2>3. d \in Nat /\ d <= MaxCost
      BY <1>1
    <2>4. f + d <= h + (a + 1) * MaxCost /\ f + d <= Need
      <3>1. /\ f \in Nat /\ h \in Nat /\ a \in Nat /\ b \in Nat /\ MaxCost \in Nat
            /\ Need \in Nat /\ f <= h + a * MaxCost
        BY <1>1, <1>2
      <3> HIDE DEF h, f, a, b, d
      <3> QED BY ONLY <2>1, <2>2, <2>3, <3>1, OneLevelMore
    <2> QED BY <2>4
  <1>4. Need <= limit /\ limit \in Nat
    BY <1>1, <1>2 DEF RaiseLimitTo, JobsTypeOK
  <1>5. ~(f + Cost[c] > limit)
    <2> HIDE DEF h, f, a, b
    <2> QED BY <1>1, <1>3, <1>4
  <1>6. CASE End(t, "syntax")
    <2>1. "syntax" \in Results /\ "syntax" # "recursion"
      BY DEF Results
    <2> QED BY <1>1, <1>6, <2>1, EndRoom
  <1>7. CASE ~End(t, "syntax")
    <2>1. /\ Deeper(t, c).level <= MaxLevel /\ UNCHANGED <<limit, result>>
          /\ job'[t] = Deeper(t, c)
      BY <1>1, <1>5, <1>7, NestStep
    <2>2. /\ job'[t].phase = "parsing" /\ job'[t].saved = job[t].saved
          /\ job'[t].entry = h /\ job'[t].frames = f + Cost[c] /\ job'[t].tree = a + 1
      BY <1>1, <2>1, DeeperJob
    <2>3. limit' = RaiseLimitTo(t)'
      BY <1>2, <2>1, <2>2 DEF RaiseLimitTo
    <2>4. job'[t].loose <= MaxLoose /\ job'[t].tree = job'[t].level + job'[t].loose
      BY <1>1, <1>2, <2>1, <2>2, DeeperJob
    <2>5. job'[t].frames <= job'[t].entry + job'[t].tree * MaxCost
      BY <1>3, <2>2
    <2>6. job'[t].level <= MaxLevel
      BY <2>1
    <2>7. result'[t] # "recursion"
      BY <2>1 DEF Room
    <2> QED BY <1>2, <2>2, <2>3, <2>4, <2>5, <2>6, <2>7 DEF Room, Working
  <1> QED BY <1>6, <1>7

(* The evaluator may run out of frames: that is an EvalError.              *)
LEMMA WalkRoom ==
  ASSUME CapsFit, TypeInv, NEW t \in Threads, Room(t), limit >= base, Walk(t)
  PROVE  Room(t)'
  <1> DEFINE h == job[t].entry
             f == job[t].frames
             a == job[t].level
             b == MaxLevel + MaxLoose
             k == ResolveCost
  <1>1. /\ JobsTypeOK /\ f \in Nat /\ h \in Nat /\ a \in Nat /\ b \in Nat
        /\ k \in Nat /\ job[t].tree \in Nat /\ base \in Nat /\ limit \in Nat
        /\ job[t].phase \in {"resolving", "evaluating"} /\ a < job[t].tree
    BY JobFields, NumbersAssumption DEF TypeInv, JobsTypeOK, Walk
  <1>2. job[t].entry \in HostFrames /\ result[t] # "recursion"
    BY <1>1 DEF Room, Working
  <1>3. CASE End(t, "eval")
    <2>1. "eval" \in Results /\ "eval" # "recursion"
      BY DEF Results
    <2> QED BY <1>1, <1>3, <2>1, EndRoom
  <1>4. CASE job[t].phase = "evaluating" /\ ~End(t, "eval")
    <2>1. /\ UNCHANGED result /\ job'[t].phase = "evaluating" /\ job'[t].entry = h
      BY <1>1, <1>4, WalkStep
    <2> QED BY <1>2, <2>1 DEF Room, Working
  <1>5. CASE job[t].phase = "resolving" /\ ~End(t, "eval")
    <2>1. LevelCost(t) = k /\ job[t].tree <= b /\ f = h + a * k
      BY <1>5 DEF Room, LevelCost
    <2>2. h + b * k <= base
      BY <1>2 DEF CapsFit, TypeInv
    <2>3. a + 1 <= b
      <3>1. job[t].tree <= b
        BY <2>1
      <3> HIDE DEF b
      <3> QED BY <1>1, <3>1
    <2>4. f <= h + a * k /\ k <= k
      BY <1>1, <2>1
    <2>5. f + k <= base
      <3> HIDE DEF h, f, a, b, k
      <3> QED BY <1>1, <2>2, <2>3, <2>4, OneLevelMore
    <2>6. f + k = h + (a + 1) * k
      <3>1. (a + 1) * k = a * k + k /\ a * k \in Nat
        BY <1>1, TimesSuccessor
      <3> DEFINE x == a * k
                 y == (a + 1) * k
      <3>2. x \in Nat /\ y = x + k /\ f = h + x
        BY <2>1, <3>1
      <3>3. f + k = h + y
        <4> HIDE DEF h, f, a, b, k, x, y
        <4> QED BY <1>1, <3>2
      <3> QED BY <3>3
    <2>7. ~(f + k > limit)
      <3> HIDE DEF h, f, a, b, k
      <3> QED BY <1>1, <2>5
    <2>8. /\ UNCHANGED result /\ job'[t].phase = "resolving"
          /\ job'[t].entry = h /\ job'[t].tree = job[t].tree
          /\ job'[t].level = a + 1 /\ job'[t].frames = f + k
      BY <1>1, <1>5, <2>1, <2>7, WalkStep
    <2>9. job'[t].frames = job'[t].entry + job'[t].level * ResolveCost
      BY <2>6, <2>8
    <2> QED BY <1>2, <2>1, <2>8, <2>9 DEF Room, Working
  <1> QED BY <1>1, <1>3, <1>4, <1>5

(* A walk begins where the parser or the resolver has come back to.        *)
LEMMA WalkBegins ==
  ASSUME JobsTypeOK, NEW t \in Threads, NEW p \in {"resolving", "evaluating"},
         Room(t), IF p = "resolving" THEN job[t].phase = "parsing" ELSE Working(t),
         UNCHANGED result,
         job'[t] = [job[t] EXCEPT !.phase = p, !.level = 0, !.frames = job[t].entry]
  PROVE  Room(t)'
  <1>1. /\ job[t] \in Job /\ job[t].entry \in Nat /\ ResolveCost \in Nat
        /\ job[t].level \in Nat /\ job[t].loose \in Nat
        /\ MaxLevel \in Nat /\ MaxLoose \in Nat
    BY JobFields, NumbersAssumption DEF JobsTypeOK
  <1>2. /\ job'[t].phase = p /\ job'[t].entry = job[t].entry /\ job'[t].level = 0
        /\ job'[t].frames = job[t].entry /\ job'[t].tree = job[t].tree
    BY <1>1 DEF Job
  <1>3. job[t].entry \in HostFrames /\ result'[t] # "recursion"
    BY <1>1 DEF Room, Working
  <1>4. p = "resolving" => job[t].tree <= MaxLevel + MaxLoose
    BY <1>1 DEF Room
  <1>5. 0 * ResolveCost = 0
    BY <1>1
  <1>6. job'[t].frames = job'[t].entry + job'[t].level * ResolveCost
    BY <1>1, <1>2, <1>5
  <1> QED BY <1>2, <1>3, <1>4, <1>6 DEF Room, Working

LEMMA StepRooms == CapsFit /\ TypeInv /\ Limits /\ Rooms /\ [Next]_vars => Rooms'
  <1> SUFFICES ASSUME CapsFit, TypeInv, Limits, Rooms, [Next]_vars, Alone',
                      NEW u \in Threads
               PROVE  Room(u)'
    BY DEF Rooms
  <1>1. CASE UNCHANGED vars
    BY <1>1 DEF vars, Rooms, Room, Alone, Working, RaiseLimitTo
  <1>2. CASE Next
    <2> PICK t \in Threads :
          \/ \E h \in HostFrames : SaveLimit(t, h)
          \/ RaiseLimit(t)
          \/ \E c \in Constructs : Nest(t, c)
          \/ \E ok \in BOOLEAN : EndParse(t, ok)
          \/ Walk(t)
          \/ EndWalk(t)
      BY <1>2 DEF Next
    <2>0. JobsTypeOK /\ job[t] \in Job /\ users' = users /\ job[t].phase \in Phases
      BY JobFields
         DEF TypeInv, JobsTypeOK, SaveLimit, RaiseLimit, Nest, EndParse, Walk, EndWalk
    <2>1. Alone /\ Room(t) /\ Room(u)
      BY <2>0 DEF Alone, Rooms
    <2>2. t \in users
      BY DEF Limits, Working, SaveLimit, RaiseLimit, Nest, MayNest, EndParse, Walk, EndWalk
    <2>3. \A v \in Threads \ {t} : job[v].phase = "idle"
      BY <2>1, <2>2 DEF Limits, Alone, Working
    <2> DEFINE Others == \A v \in Threads \ {t} :
                           job'[v] = job[v] /\ result'[v] = result[v]
    <2>r. {"ok", "syntax", "eval", "recursion"} \subseteq Results
      BY DEF Results
    <2>s. limit >= base
      BY DEF Limits, LimitKept, LimitNeverLower
    <2>4. Others /\ Room(t)'
      <3>1. ASSUME NEW h \in HostFrames, SaveLimit(t, h) PROVE Others /\ Room(t)'
        <4>1. UNCHANGED result
          BY <3>1 DEF SaveLimit
        <4>2. /\ Saved(t, h).phase = "saved" /\ Saved(t, h).entry = h
              /\ Saved(t, h).frames = h /\ Saved(t, h).level = 0
              /\ Saved(t, h).loose = 0 /\ Saved(t, h).tree = 0
          BY DEF Saved
        <4> QED BY <2>0, <2>1, <3>1, <4>1, <4>2, SaveStep DEF Room, Working
      <3>2. CASE RaiseLimit(t)
        <4>1. /\ UNCHANGED result /\ job[t].phase = "saved" /\ limit' = RaiseLimitTo(t)
              /\ job'[t] = [job[t] EXCEPT !.phase = "parsing"]
              /\ \A v \in Threads \ {t} : job'[v] = job[v]
          BY <2>0, <3>2, RaiseStep DEF RaiseLimit
        <4>2. /\ job'[t].phase = "parsing" /\ job'[t].saved = job[t].saved
              /\ job'[t].entry = job[t].entry /\ job'[t].frames = job[t].frames
              /\ job'[t].level = job[t].level /\ job'[t].tree = job[t].tree
              /\ job'[t].loose = job[t].loose
          BY <2>0, <4>1 DEF Job
        <4>3. job[t].entry \in HostFrames /\ job[t].frames = job[t].entry
              /\ job[t].level = 0 /\ job[t].loose = 0 /\ job[t].tree = 0
              /\ job[t].entry \in Nat
          BY <2>0, <2>1, <4>1, JobFields DEF Room, Working
        <4>4. limit' = RaiseLimitTo(t)'
          BY <4>1, <4>2 DEF RaiseLimitTo
        <4>5. job'[t].frames <= job'[t].entry + job'[t].tree * MaxCost
          <5>1. MaxCost \in Nat /\ 0 * MaxCost = 0
            BY <2>0, JobFields, TimesSuccessor
          <5>2. job[t].entry <= job[t].entry + 0
            BY <4>3
          <5> QED BY <4>2, <4>3, <5>1, <5>2
        <4>6. 0 <= MaxLevel /\ 0 <= MaxLoose /\ 0 = 0 + 0
          BY NumbersAssumption
        <4> QED BY <2>1, <4>1, <4>2, <4>3, <4>4, <4>5, <4>6 DEF Room, Working
      <3>3. ASSUME NEW c \in Constructs, Nest(t, c) PROVE Others /\ Room(t)'
        <4>1. Room(t)'
          BY <2>1, <3>3, NestRoom
        <4>2. Others
          BY <2>0, <2>r, <3>3, NestStep, EndJob
        <4> QED BY <4>1, <4>2
      <3>4. ASSUME NEW ok \in BOOLEAN, EndParse(t, ok) PROVE Others /\ Room(t)'
        <4>1. CASE End(t, "syntax")
          BY <2>0, <2>r, <4>1, EndJob, EndRoom
        <4>2. CASE ~End(t, "syntax")
          <5>1. /\ UNCHANGED result /\ \A v \in Threads \ {t} : job'[v] = job[v]
                /\ job'[t] = [job[t] EXCEPT !.phase = "resolving", !.level = 0,
                                            !.frames = job[t].entry]
            BY <2>0, <3>4, <4>2, EndParseStep
          <5>2. job[t].phase = "parsing" /\ "resolving" \in {"resolving", "evaluating"}
            BY <3>4 DEF EndParse
          <5> QED BY <2>0, <2>1, <5>1, <5>2, WalkBegins
        <4> QED BY <4>1, <4>2
      <3>5. CASE Walk(t)
        <4>1. Room(t)'
          BY <2>1, <2>s, <3>5, WalkRoom
        <4>2. (IF job[t].phase = "resolving" THEN "recursion" ELSE "eval") \in Results
          BY <2>r
        <4>3. Others
          BY <2>0, <2>r, <3>5, <4>2, WalkStep, EndJob
        <4> QED BY <4>1, <4>3
      <3>6. CASE EndWalk(t)
        <4>1. CASE End(t, "ok")
          BY <2>0, <2>r, <4>1, EndJob, EndRoom
        <4>2. CASE ~End(t, "ok")
          <5>1. /\ UNCHANGED result /\ \A v \in Threads \ {t} : job'[v] = job[v]
                /\ job'[t] = [job[t] EXCEPT !.phase = "evaluating", !.level = 0,
                                            !.frames = job[t].entry]
            BY <2>0, <3>6, <4>2, EndWalkStep
          <5>2. Working(t) /\ "evaluating" \in {"resolving", "evaluating"}
            BY <3>6 DEF EndWalk, Working
          <5> QED BY <2>0, <2>1, <5>1, <5>2, WalkBegins
        <4> QED BY <4>1, <4>2
      <3> QED BY <3>1, <3>2, <3>3, <3>4, <3>5, <3>6
    <2>5. CASE u = t
      BY <2>4, <2>5
    <2>6. CASE u # t
      <3>1. job'[u] = job[u] /\ result'[u] = result[u] /\ job[u].phase = "idle"
        BY <2>3, <2>4, <2>6
      <3> QED BY <2>1, <3>1 DEF Room, Working
    <2> QED BY <2>5, <2>6
  <1> QED BY <1>1, <1>2

(* When one thread uses the interpreter, and the limits of the parser and  *)
(* of the host have room for the caps and for MaxLoose levels more, a      *)
(* source ends in the interpreter's own errors and never in Python's       *)
(* RecursionError, whatever it is made of (brackets, suites, calls and     *)
(* indexes, prefixes, chains) and however many counted constructs it       *)
(* nests, if at most MaxLoose of those on the way to a node are not        *)
(* counted (Parser._enter, Thread.max_depth, the RecursionError clause of  *)
(* Program.exec).  Without that bound the contract is broken.              *)
THEOREM CapsFireFirst == CapsFit => (Spec => []HostContract)
  <1> SUFFICES ASSUME CapsFit PROVE Spec => []HostContract
    OBVIOUS
  <1>1. Init => TypeInv /\ Limits /\ Rooms
    BY InitTypeInv, InitLimits, InitRooms
  <1>2. TypeInv /\ Limits /\ Rooms /\ [Next]_vars => TypeInv' /\ Limits' /\ Rooms'
    BY StepTypes, StepLimits, StepRooms
  <1>3. Rooms => HostContract
    BY DEF Rooms, Room, HostContract
  <1> QED BY <1>1, <1>2, <1>3, PTL DEF Spec


-----------------------------------------------------------------------------
(* Equality.                                                               *)

Frames   == [pair : Pairs, todo : SUBSET AllKeys]
IsRec(p) == Recorded(p[1]) /\ Recorded(p[2])

CallsTypeOK ==
  /\ cap \in Nat /\ heap \in Heaps /\ seen \subseteq Pairs
  /\ stack \in [Threads -> Seq(Frames)]
  /\ verdict \in [Threads -> Answers]
  /\ asked \in [Threads -> Pairs \cup {<< >>}]
  /\ answer \in [Threads -> Answers]

-----------------------------------------------------------------------------
(* The two ways a call of equal() goes on: with a call of its own for the  *)
(* pair, or without.                                                       *)
Pushes(t, below, p) ==
  /\ ~(IsRec(p) /\ p \in seen)
  /\ seen'    = IF IsRec(p) THEN seen \cup {p} ELSE seen
  /\ stack'   = [stack EXCEPT ![t] = Append(below, Started(p))]
  /\ verdict' = [verdict EXCEPT ![t] =
        IF Comparable(p[1], p[2]) THEN "equal" ELSE "different"]
Returns(t, below, v) ==
  /\ stack'   = [stack EXCEPT ![t] = below]
  /\ verdict' = [verdict EXCEPT ![t] = v]
  /\ UNCHANGED seen

LEMMA EnterCases ==
  ASSUME NEW t, NEW p, NEW below, Enter(t, p, below)
  PROVE  \/ Len(below) > cap /\ Returns(t, below, "error")
         \/ ~(Len(below) > cap) /\ IsRec(p) /\ p \in seen /\ Returns(t, below, "equal")
         \/ ~(Len(below) > cap) /\ Pushes(t, below, p)
  <1>1. CASE Len(below) > cap
    BY <1>1 DEF Enter, Returns
  <1>2. CASE ~(Len(below) > cap) /\ IsRec(p) /\ p \in seen
    BY <1>2 DEF Enter, Returns, IsRec
  <1>3. CASE ~(Len(below) > cap) /\ ~(IsRec(p) /\ p \in seen)
    BY <1>3 DEF Enter, Pushes, IsRec
  <1> QED BY <1>1, <1>2, <1>3

(* The stack of t once the item under k is off the list.                   *)
Rest(t, k) == Append(Front(stack[t]), [Top(t) EXCEPT !.todo = @ \ {k}])

LEMMA RestIs ==
  ASSUME CallsTypeOK, NEW t \in Threads, NEW k, stack[t] # << >>
  PROVE  LET r == Rest(t, k)
             n == Len(stack[t])
         IN /\ n \in Nat \ {0} /\ Top(t) = stack[t][n] /\ Top(t) \in Frames
            /\ r \in Seq(Frames) /\ r # << >> /\ Len(r) = n
            /\ \A i \in 1..n : r[i].pair = stack[t][i].pair
            /\ \A i \in 1..n-1 : r[i] = stack[t][i]
            /\ r[n].todo = Top(t).todo \ {k}
  <1> DEFINE r == Rest(t, k)
             n == Len(stack[t])
             x == [Top(t) EXCEPT !.todo = @ \ {k}]
  <1>1. stack[t] \in Seq(Frames)
    BY DEF CallsTypeOK
  <1>2. n \in Nat \ {0} /\ Top(t) = stack[t][n] /\ Top(t) \in Frames
    BY <1>1, PopStack DEF Top
  <1>3. x \in Frames /\ x.pair = Top(t).pair /\ x.todo = Top(t).todo \ {k}
    BY <1>2 DEF Frames
  <1>4. /\ r \in Seq(Frames) /\ r # << >> /\ Len(r) = n /\ Last(r) = x
        /\ \A i \in 1..n-1 : r[i] = stack[t][i]
    <2>1. r = Append(Front(stack[t]), x)
      BY DEF Rest
    <2> HIDE DEF r, x, n
    <2>2. LET q == Append(Front(stack[t]), x)
          IN /\ q \in Seq(Frames) /\ q # << >> /\ Len(q) = Len(stack[t]) /\ Last(q) = x
             /\ \A i \in 1..Len(stack[t])-1 : q[i] = stack[t][i]
      BY <1>1, <1>3, ReplaceTop
    <2> QED BY <2>1, <2>2 DEF n
  <1>5. r[n] = x
    BY <1>2, <1>4 DEF Last
  <1>6. \A i \in 1..n : i \in 1..n-1 \/ i = n
    BY <1>2
  <1>7. \A i \in 1..n : r[i].pair = stack[t][i].pair
    BY <1>2, <1>3, <1>4, <1>5, <1>6
  <1> QED BY <1>2, <1>3, <1>4, <1>5, <1>7

LEMMA CallIs ==
  ASSUME NEW p \in Pairs
  PROVE  Started(p) \in Frames /\ Started(p).pair = p /\ Started(p).todo = ToCompare(p[1], p[2])
  <1>1. ToCompare(p[1], p[2]) \subseteq AllKeys
    BY DEF ToCompare, AllKeys, Pairs
  <1> QED BY <1>1 DEF Started, Frames

-----------------------------------------------------------------------------
(* What a step does to the pairs on the stacks.                            *)
SamePairs(u, v, n) == \A i \in 1..n : u[i].pair = v[i].pair
Others(t) == \A u \in Threads \ {t} : stack'[u] = stack[u]

Keeps(t) ==
  /\ Len(stack'[t]) = Len(stack[t]) /\ SamePairs(stack'[t], stack[t], Len(stack[t]))
  /\ UNCHANGED seen
Grows(t, p) ==
  /\ ~(IsRec(p) /\ p \in seen) /\ p \in Pairs
  /\ Len(stack'[t]) = Len(stack[t]) + 1
  /\ SamePairs(stack'[t], stack[t], Len(stack[t]))
  /\ stack'[t][Len(stack[t]) + 1].pair = p
  /\ seen' = IF IsRec(p) THEN seen \cup {p} ELSE seen
Shrinks(t) ==
  /\ stack[t] # << >>
  /\ Len(stack'[t]) = Len(stack[t]) - 1
  /\ SamePairs(stack'[t], stack[t], Len(stack[t]) - 1)
  /\ seen' = seen \ {stack[t][Len(stack[t])].pair}

LEMMA EnterShape ==
  ASSUME CallsTypeOK, NEW t \in Threads, NEW p \in Pairs, NEW below \in Seq(Frames),
         Len(below) = Len(stack[t]), SamePairs(below, stack[t], Len(stack[t])),
         Enter(t, p, below)
  PROVE  /\ seen' \subseteq Pairs
         /\ stack' \in [Threads -> Seq(Frames)] /\ verdict' \in [Threads -> Answers]
         /\ Others(t) /\ (Keeps(t) \/ Grows(t, p))
  <1>1. /\ \A s \in Seq(Frames) : \A v : Returns(t, s, v) => stack' \in [Threads -> Seq(Frames)]
                                                  /\ stack'[t] = s /\ Others(t)
        /\ \A v \in Answers : \A s : Returns(t, s, v) => verdict' \in [Threads -> Answers]
    BY DEF Returns, CallsTypeOK, Others
  <1>2. {"error", "equal", "different"} \subseteq Answers
    BY DEF Answers
  <1>3. ASSUME NEW v \in {"error", "equal"}, Returns(t, below, v)
        PROVE  /\ seen' \subseteq Pairs
               /\ stack' \in [Threads -> Seq(Frames)] /\ verdict' \in [Threads -> Answers]
               /\ Others(t) /\ Keeps(t)
    BY <1>1, <1>2, <1>3 DEF Keeps, SamePairs, Returns, CallsTypeOK
  <1>4. CASE Pushes(t, below, p)
    <2> DEFINE s == Append(below, Started(p))
    <2>1. /\ s \in Seq(Frames) /\ Len(s) = Len(below) + 1 /\ Len(below) \in Nat
          /\ s[Len(s)] = Started(p) /\ \A i \in 1..Len(below) : s[i] = below[i]
      BY CallIs, PushStack
    <2>2. /\ stack' \in [Threads -> Seq(Frames)] /\ stack'[t] = s /\ Others(t)
          /\ verdict' \in [Threads -> Answers]
      BY <1>2, <1>4, <2>1 DEF Pushes, CallsTypeOK, Others
    <2>3. seen' \subseteq Pairs
      BY <1>4 DEF Pushes, CallsTypeOK
    <2>4. Grows(t, p)
      BY <1>4, <2>1, <2>2, CallIs DEF Pushes, Grows, SamePairs
    <2> QED BY <2>2, <2>3, <2>4
  <1> QED BY <1>3, <1>4, EnterCases

LEMMA Shape ==
  ASSUME CallsTypeOK, EqualityNext
  PROVE  /\ CallsTypeOK' /\ UNCHANGED <<cap, heap>>
         /\ \E t \in Threads :
              Others(t) /\ (Keeps(t) \/ Shrinks(t) \/ \E p \in Pairs : Grows(t, p))
  <1> PICK t \in Threads : \/ \E p \in Pairs : Ask(t, p)
                           \/ \E k \in AllKeys : CompareItem(t, k)
                           \/ Leave(t)
                           \/ Report(t)
    BY DEF EqualityNext
  <1>0. {"none", "error", "equal", "different"} \subseteq Answers
    BY DEF Answers
  <1>t. ASSUME UNCHANGED <<cap, heap>>, seen' \subseteq Pairs,
               stack' \in [Threads -> Seq(Frames)], verdict' \in [Threads -> Answers],
               asked' \in [Threads -> Pairs \cup {<< >>}], answer' \in [Threads -> Answers]
        PROVE  CallsTypeOK'
    BY <1>t DEF CallsTypeOK, Frames, AllKeys, Keys
  <1>1. ASSUME NEW p \in Pairs, Ask(t, p)
        PROVE  /\ CallsTypeOK' /\ UNCHANGED <<cap, heap>>
               /\ Others(t) /\ (Keeps(t) \/ Grows(t, p))
    <2>1. stack[t] = << >> /\ Len(<< >>) = Len(stack[t]) /\ << >> \in Seq(Frames)
      BY <1>1 DEF Ask
    <2>2. SamePairs(<< >>, stack[t], Len(stack[t]))
      BY <2>1 DEF SamePairs
    <2>3. Enter(t, p, << >>)
      BY <1>1 DEF Ask
    <2>4. /\ seen' \subseteq Pairs
          /\ stack' \in [Threads -> Seq(Frames)] /\ verdict' \in [Threads -> Answers]
          /\ Others(t) /\ (Keeps(t) \/ Grows(t, p))
      BY <2>1, <2>2, <2>3, EnterShape
    <2>5. /\ UNCHANGED <<cap, heap>> /\ asked' \in [Threads -> Pairs \cup {<< >>}]
          /\ answer' \in [Threads -> Answers]
      BY <1>0, <1>1 DEF Ask, CallsTypeOK
    <2> QED BY <1>t, <2>4, <2>5
  <1>2. ASSUME NEW k \in AllKeys, CompareItem(t, k)
        PROVE  /\ CallsTypeOK' /\ UNCHANGED <<cap, heap>>
               /\ Others(t) /\ (Keeps(t) \/ \E p \in Pairs : Grows(t, p))
    <2> DEFINE a == heap[Top(t).pair[1]].items[k]
               b == heap[Top(t).pair[2]].items[k]
               r == Rest(t, k)
               v == IF Len(r) > cap THEN "error" ELSE IF a = b THEN "equal" ELSE "different"
    <2>1. /\ stack[t] # << >> /\ UNCHANGED <<cap, heap, asked, answer>>
          /\ IF a \in Objects /\ b \in Objects
             THEN Enter(t, <<a, b>>, r)
             ELSE Returns(t, r, v)
      BY <1>2 DEF CompareItem, Rest, Returns
    <2>2. /\ r \in Seq(Frames) /\ Len(r) = Len(stack[t])
          /\ SamePairs(r, stack[t], Len(stack[t]))
      BY <2>1, RestIs DEF SamePairs
    <2> DEFINE Good == /\ seen' \subseteq Pairs
                       /\ stack' \in [Threads -> Seq(Frames)]
                       /\ verdict' \in [Threads -> Answers]
                       /\ Others(t) /\ (Keeps(t) \/ \E p \in Pairs : Grows(t, p))
    <2>s. PICK s \in Seq(Frames) : s = r
      BY <2>2
    <2>3. ASSUME a \in Objects /\ b \in Objects PROVE Good
      <3>1. PICK p \in Pairs : p = <<a, b>>
        BY <2>3 DEF Pairs
      <3>2. Enter(t, p, s)
        BY <2>1, <2>3, <2>s, <3>1
      <3> HIDE DEF a, b, r
      <3> QED BY <2>2, <2>s, <3>2, EnterShape
    <2>4. ASSUME ~(a \in Objects /\ b \in Objects) PROVE Good
      <3>1. PICK w \in Answers : w = v
        BY <1>0
      <3>2. Returns(t, s, w)
        BY <2>1, <2>4, <2>s, <3>1
      <3> HIDE DEF a, b, r, v
      <3>3. stack' \in [Threads -> Seq(Frames)] /\ stack'[t] = s /\ Others(t)
        BY <3>2 DEF Returns, Others, CallsTypeOK
      <3>4. seen' \subseteq Pairs /\ verdict' \in [Threads -> Answers] /\ UNCHANGED seen
        BY <3>2 DEF Returns, CallsTypeOK
      <3>5. Len(s) = Len(stack[t]) /\ SamePairs(s, stack[t], Len(stack[t]))
        BY <2>2, <2>s
      <3> QED BY <3>3, <3>4, <3>5 DEF Keeps, SamePairs
    <2>5. Good
      BY <2>3, <2>4
    <2> HIDE DEF Good, a, b, r, v
    <2>6. CallsTypeOK'
      BY <1>t, <2>1, <2>5 DEF CallsTypeOK, Good
    <2> QED BY <2>1, <2>5, <2>6 DEF Good
  <1>3. ASSUME Leave(t)
        PROVE  CallsTypeOK' /\ UNCHANGED <<cap, heap>> /\ Others(t) /\ Shrinks(t)
    <2> DEFINE s == Front(stack[t])
    <2>1. /\ stack[t] # << >> /\ UNCHANGED <<cap, heap, verdict, asked, answer>>
          /\ seen' = seen \ {Top(t).pair} /\ stack' = [stack EXCEPT ![t] = s]
      BY <1>3 DEF Leave
    <2>2. stack[t] \in Seq(Frames)
      BY DEF CallsTypeOK
    <2>3. /\ s \in Seq(Frames) /\ Len(s) = Len(stack[t]) - 1
          /\ \A i \in 1..Len(s) : s[i] = stack[t][i]
          /\ Top(t) = stack[t][Len(stack[t])]
      BY <2>1, <2>2, PopStack DEF Top
    <2> HIDE DEF s
    <2>4. stack' \in [Threads -> Seq(Frames)] /\ stack'[t] = s /\ Others(t)
      BY <2>1, <2>3 DEF CallsTypeOK, Others
    <2>5. Shrinks(t)
      BY <2>1, <2>3, <2>4 DEF Shrinks, SamePairs
    <2>6. CallsTypeOK'
      BY <1>t, <2>1, <2>4 DEF CallsTypeOK
    <2> QED BY <2>1, <2>4, <2>5, <2>6
  <1>4. ASSUME Report(t)
        PROVE  CallsTypeOK' /\ UNCHANGED <<cap, heap>> /\ Others(t) /\ Keeps(t)
    <2>1. /\ UNCHANGED <<cap, heap, seen, stack, asked>>
          /\ answer' \in [Threads -> Answers] /\ verdict' \in [Threads -> Answers]
      BY <1>0, <1>4 DEF Report, CallsTypeOK
    <2>2. CallsTypeOK'
      BY <1>t, <2>1 DEF CallsTypeOK
    <2> QED BY <2>1, <2>2 DEF Others, Keeps, SamePairs
  <1> QED BY <1>1, <1>2, <1>3, <1>4

-----------------------------------------------------------------------------
(* The record.  A recorded pair is on one stack only, and once.            *)
At(u, i) == stack[u][i].pair

SeenInv ==
  /\ \A q \in seen : /\ IsRec(q)
                     /\ \E u \in Threads : \E i \in 1..Len(stack[u]) : At(u, i) = q
  /\ \A u \in Threads : \A i \in 1..Len(stack[u]) : IsRec(At(u, i)) => At(u, i) \in seen
  /\ \A u, v \in Threads : \A i \in 1..Len(stack[u]), j \in 1..Len(stack[v]) :
       IsRec(At(u, i)) /\ At(u, i) = At(v, j) => u = v /\ i = j

LEMMA InitSeen == EqualityInit => SeenInv
  BY DEF EqualityInit, SeenInv

LEMMA Lengths ==
  ASSUME CallsTypeOK, NEW u \in Threads
  PROVE  /\ Len(stack[u]) \in Nat
         /\ \A i \in 1..Len(stack[u]) : At(u, i) \in Pairs /\ stack[u][i] \in Frames
  <1>1. stack[u] \in Seq(Frames)
    BY DEF CallsTypeOK
  <1>2. ASSUME NEW i \in 1..Len(stack[u]) PROVE stack[u][i] \in Frames
    BY <1>1, ElementOfSeq
  <1> QED BY <1>1, <1>2, LenProperties DEF At, Frames

LEMMA StepSeen == CallsTypeOK /\ SeenInv /\ [EqualityNext]_equalityVars => SeenInv'
  <1> SUFFICES ASSUME CallsTypeOK, SeenInv, [EqualityNext]_equalityVars PROVE SeenInv'
    OBVIOUS
  <1>1. CASE UNCHANGED equalityVars
    <2>1. heap' = heap /\ seen' = seen /\ stack' = stack
      BY <1>1 DEF equalityVars
    <2>2. /\ \A q \in seen : /\ IsRec(q)'
                             /\ \E u \in Threads : \E i \in 1..Len(stack[u]) : At(u, i) = q
      BY <2>1 DEF SeenInv, IsRec, Recorded
    <2>3. \A u \in Threads : \A i \in 1..Len(stack[u]) :
            IsRec(At(u, i))' => At(u, i) \in seen
      BY <2>1 DEF SeenInv, At, IsRec, Recorded
    <2>4. \A u, v \in Threads : \A i \in 1..Len(stack[u]), j \in 1..Len(stack[v]) :
            IsRec(At(u, i))' /\ At(u, i) = At(v, j) => u = v /\ i = j
      BY <2>1 DEF SeenInv, At, IsRec, Recorded
    <2> QED BY <2>1, <2>2, <2>3, <2>4 DEF SeenInv, At
  <1>2. CASE EqualityNext
    <2>1. /\ CallsTypeOK' /\ UNCHANGED <<cap, heap>>
          /\ \E t \in Threads :
               Others(t) /\ (Keeps(t) \/ Shrinks(t) \/ \E p \in Pairs : Grows(t, p))
      BY <1>2, Shape
    <2>2. PICK t \in Threads :
            Others(t) /\ (Keeps(t) \/ Shrinks(t) \/ \E p \in Pairs : Grows(t, p))
      BY <2>1
    <2>3. \A q : IsRec(q)' <=> IsRec(q)
      BY <2>1 DEF IsRec, Recorded
    <2>4. \A u \in Threads \ {t} : stack'[u] = stack[u]
      BY <2>2 DEF Others
    <2>5. \A u \in Threads : Len(stack[u]) \in Nat /\ Len(stack'[u]) \in Nat
      BY <2>1, Lengths
    <2>6. PICK n \in Nat : n = Len(stack[t])
      BY <2>5
    <2>7. CASE Keeps(t)
      <3>1. \A u \in Threads : /\ Len(stack'[u]) = Len(stack[u])
                               /\ \A i \in 1..Len(stack[u]) : stack'[u][i].pair = stack[u][i].pair
        BY <2>4, <2>7 DEF Keeps, SamePairs
      <3>2. seen' = seen
        BY <2>7 DEF Keeps
      <3> QED BY <2>3, <3>1, <3>2, SMTT(30) DEF SeenInv, At
    <2>8. ASSUME NEW p \in Pairs, Grows(t, p) PROVE SeenInv'
      <3>1. /\ Len(stack'[t]) = n + 1
            /\ \A i \in 1..n : stack'[t][i].pair = stack[t][i].pair
            /\ stack'[t][n+1].pair = p
            /\ seen' = IF IsRec(p) THEN seen \cup {p} ELSE seen
            /\ ~(IsRec(p) /\ p \in seen)
        BY <2>6, <2>8 DEF Grows, SamePairs
      <3>2. \A u \in Threads : /\ 1..Len(stack[u]) \subseteq 1..Len(stack'[u])
                               /\ \A i \in 1..Len(stack[u]) : stack'[u][i].pair = stack[u][i].pair
        BY <2>4, <2>5, <2>6, <3>1
      <3>3. \A u \in Threads : \A i \in 1..Len(stack'[u]) :
              i \in 1..Len(stack[u]) \/ (u = t /\ i = n + 1)
        BY <2>4, <2>5, <2>6, <3>1
      <3>4. n + 1 \in 1..Len(stack'[t])
        BY <3>1
      <3>5. ASSUME NEW q \in seen'
            PROVE  /\ IsRec(q)
                   /\ \E u \in Threads : \E i \in 1..Len(stack'[u]) : stack'[u][i].pair = q
        <4>1. CASE q \in seen
          BY <3>2, <4>1 DEF SeenInv, At
        <4>2. CASE q \notin seen
          BY <3>1, <3>4, <3>5, <4>2
        <4> QED BY <4>1, <4>2
      <3>6. ASSUME NEW u \in Threads, NEW i \in 1..Len(stack'[u]), IsRec(stack'[u][i].pair)
            PROVE  stack'[u][i].pair \in seen'
        BY <3>1, <3>2, <3>3, <3>6, SMTT(30) DEF SeenInv, At
      <3>7. ASSUME NEW u \in Threads, NEW v \in Threads,
                   NEW i \in 1..Len(stack'[u]), NEW j \in 1..Len(stack'[v]),
                   IsRec(stack'[u][i].pair), stack'[u][i].pair = stack'[v][j].pair
            PROVE  u = v /\ i = j
        <4>1. CASE i \in 1..Len(stack[u]) /\ j \in 1..Len(stack[v])
          BY <3>2, <3>7, <4>1 DEF SeenInv, At
        <4>2. CASE i \notin 1..Len(stack[u]) /\ j \notin 1..Len(stack[v])
          BY <3>3, <4>2
        <4>3. CASE i \notin 1..Len(stack[u]) /\ j \in 1..Len(stack[v])
          <5>1. stack[v][j].pair = p /\ IsRec(p)
            BY <3>1, <3>2, <3>3, <3>7, <4>3
          <5> QED BY <3>1, <4>3, <5>1 DEF SeenInv, At
        <4>4. CASE i \in 1..Len(stack[u]) /\ j \notin 1..Len(stack[v])
          <5>1. stack[u][i].pair = p /\ IsRec(p)
            BY <3>1, <3>2, <3>3, <3>7, <4>4
          <5> QED BY <3>1, <4>4, <5>1 DEF SeenInv, At
        <4> QED BY <4>1, <4>2, <4>3, <4>4
      <3> QED BY <2>3, <3>5, <3>6, <3>7 DEF SeenInv, At
    <2>9. CASE Shrinks(t)
      <3>1. /\ stack[t] # << >> /\ Len(stack'[t]) = n - 1
            /\ \A i \in 1..n-1 : stack'[t][i].pair = stack[t][i].pair
            /\ seen' = seen \ {stack[t][n].pair}
        BY <2>6, <2>9 DEF Shrinks, SamePairs
      <3>2. n # 0 /\ n \in 1..Len(stack[t])
        <4>1. stack[t] \in Seq(Frames)
          BY DEF CallsTypeOK
        <4>2. n # 0
          BY <2>6, <3>1, <4>1, EmptySeq
        <4> QED BY <2>6, <4>2
      <3>3. \A u \in Threads : \A i \in 1..Len(stack'[u]) :
              /\ i \in 1..Len(stack[u]) /\ ~(u = t /\ i = n)
              /\ stack'[u][i].pair = stack[u][i].pair
        BY <2>4, <2>5, <2>6, <3>1
      <3>4. \A u \in Threads : \A i \in 1..Len(stack[u]) :
              i \in 1..Len(stack'[u]) \/ (u = t /\ i = n)
        BY <2>4, <2>5, <2>6, <3>1
      <3>5. ASSUME NEW q \in seen'
            PROVE  /\ IsRec(q)
                   /\ \E u \in Threads : \E i \in 1..Len(stack'[u]) : stack'[u][i].pair = q
        <4>1. IsRec(q) /\ q # stack[t][n].pair
          BY <3>1, <3>5 DEF SeenInv
        <4>2. PICK u \in Threads : \E i \in 1..Len(stack[u]) : stack[u][i].pair = q
          BY <3>1, <3>5 DEF SeenInv, At
        <4>3. PICK i \in 1..Len(stack[u]) : stack[u][i].pair = q
          BY <4>2
        <4>4. i \in 1..Len(stack'[u])
          BY <3>4, <4>1, <4>3
        <4> QED BY <3>3, <4>1, <4>3, <4>4
      <3>6. ASSUME NEW u \in Threads, NEW i \in 1..Len(stack'[u]), IsRec(stack'[u][i].pair)
            PROVE  stack'[u][i].pair \in seen'
        <4>1. /\ i \in 1..Len(stack[u]) /\ ~(u = t /\ i = n)
              /\ stack'[u][i].pair = stack[u][i].pair
          BY <3>3
        <4>2. stack[u][i].pair \in seen /\ stack[u][i].pair # stack[t][n].pair
          BY <3>2, <3>6, <4>1 DEF SeenInv, At
        <4> QED BY <3>1, <4>1, <4>2
      <3>7. ASSUME NEW u \in Threads, NEW v \in Threads,
                   NEW i \in 1..Len(stack'[u]), NEW j \in 1..Len(stack'[v]),
                   IsRec(stack'[u][i].pair), stack'[u][i].pair = stack'[v][j].pair
            PROVE  u = v /\ i = j
        BY <3>3, <3>7 DEF SeenInv, At
      <3> QED BY <2>3, <3>5, <3>6, <3>7 DEF SeenInv, At
    <2> QED BY <2>2, <2>7, <2>8, <2>9
  <1> QED BY <1>1, <1>2

LEMMA InitType ==
  ASSUME Caps \subseteq Nat
  PROVE  EqualityInit => CallsTypeOK
  <1> SUFFICES ASSUME EqualityInit PROVE CallsTypeOK
    OBVIOUS
  <1>1. << >> \in Seq(Frames) /\ "none" \in Answers
    BY DEF Answers
  <1> QED BY <1>1 DEF EqualityInit, CallsTypeOK

LEMMA StepType == CallsTypeOK /\ [EqualityNext]_equalityVars => CallsTypeOK'
  <1> SUFFICES ASSUME CallsTypeOK, UNCHANGED equalityVars PROVE CallsTypeOK'
    BY Shape
  <1> QED BY DEF equalityVars, CallsTypeOK, Frames, AllKeys, Keys

(* The record of equal() is exactly the pairs that are being compared, for *)
(* any number of threads, after errors and differences too (the finally    *)
(* clause of equal).                                                       *)
THEOREM RecordCorrect == Caps \subseteq Nat => (EqualitySpec => []SeenMirrorsStacks)
  <1> SUFFICES ASSUME Caps \subseteq Nat PROVE EqualitySpec => []SeenMirrorsStacks
    OBVIOUS
  <1>1. CallsTypeOK /\ SeenInv => SeenMirrorsStacks
    <2> SUFFICES ASSUME CallsTypeOK, SeenInv PROVE SeenMirrorsStacks
      OBVIOUS
    <2>1. ASSUME NEW q \in Pairs
          PROVE  q \in seen <=> /\ Recorded(q[1]) /\ Recorded(q[2])
                                /\ \E t \in Threads : \E i \in 1..Len(stack[t]) :
                                     stack[t][i].pair = q
      BY DEF SeenInv, At, IsRec
    <2> QED BY <2>1 DEF SeenMirrorsStacks, CallsTypeOK
  <1> QED BY <1>1, InitType, StepType, InitSeen, StepSeen, PTL DEF EqualitySpec

-----------------------------------------------------------------------------
(* The answers, where one thread compares.  A pair that comes up again is  *)
(* taken to be equal on the strength of a comparison that has not ended:   *)
(* the invariant says that the relation grown so far is respected except   *)
(* by what the stack has still to compare, and a different pair refutes    *)
(* every pair below it.                                                    *)
Item(o, k)     == heap[o].items[k]
Agree(R, p, k) ==
  IF Item(p[1], k) \in Objects /\ Item(p[2], k) \in Objects
  THEN <<Item(p[1], k), Item(p[2], k)>> \in R
  ELSE Item(p[1], k) = Item(p[2], k)
Sound(R, q)    == Comparable(q[1], q[2]) /\ \A k \in Keys(q[1]) : Agree(R, q, k)
On(s)          == {s[i].pair : i \in 1..Len(s)}

(* Each call on a stack s compares items of the call below it, and the     *)
(* lowest the values a that were asked about.                              *)
Link(q, p) ==
  /\ Comparable(q[1], q[2])
  /\ \E k \in Keys(q[1]) : /\ Item(q[1], k) \in Objects /\ Item(q[2], k) \in Objects
                           /\ p = <<Item(q[1], k), Item(q[2], k)>>
Links(s, a) ==
  /\ \A i \in 1..Len(s) : s[i].todo \subseteq Keys(s[i].pair[1])
  /\ s # << >> => a = s[1].pair
  /\ \A i \in 1..Len(s)-1 : Link(s[i].pair, s[i+1].pair)

(* What is on the stack is respected as far as it has been compared.       *)
Compared(R, s) ==
  \A i \in 1..Len(s) :
    /\ Comparable(s[i].pair[1], s[i].pair[2])
    /\ \A k \in Keys(s[i].pair[1]) \ s[i].todo : Agree(R, s[i].pair, k)

Grown(R, s, a) ==
  /\ a \in R /\ On(s) \subseteq R
  /\ \A q \in R \ On(s) : Sound(R, q)
  /\ Compared(R, s)

Subject(s, a) == IF s = << >> THEN a ELSE s[Len(s)].pair

Judged(v, s, a) ==
  /\ v = "equal" => \E R \in SUBSET Pairs : Grown(R, s, a)
  /\ v = "different" => ~Bisimilar(Subject(s, a))
  /\ s # << >> => v # "none"

Right(v, a) ==
  /\ v = "equal"     => Bisimilar(a)
  /\ v = "different" => ~Bisimilar(a)

One == \A t, u \in Threads : t = u
Judge ==
  \A t \in Threads : /\ Links(stack[t], asked[t])
                     /\ Judged(verdict[t], stack[t], asked[t])
                     /\ Right(answer[t], asked[t])

LEMMA InitJudge == EqualityInit => Judge
  <1> SUFFICES ASSUME EqualityInit, NEW t \in Threads
               PROVE  /\ Links(stack[t], asked[t])
                      /\ Judged(verdict[t], stack[t], asked[t])
                      /\ Right(answer[t], asked[t])
    BY DEF Judge
  <1>1. stack[t] = << >> /\ verdict[t] = "none" /\ answer[t] = "none"
    BY DEF EqualityInit
  <1> QED BY <1>1 DEF Links, Judged, Right

(* The reference in the terms of the invariant.                            *)
LEMMA RespectsIsSound ==
  ASSUME NEW R, NEW q
  PROVE  Respects(R, q) <=> Sound(R, q)
  BY DEF Respects, Sound, Agree, Item

LEMMA AgreeMonotone ==
  ASSUME NEW R, NEW S, R \subseteq S, NEW q, NEW k, Agree(R, q, k)
  PROVE  Agree(S, q, k)
  BY DEF Agree

LEMMA SoundMonotone ==
  ASSUME NEW R, NEW S, R \subseteq S, NEW q, Sound(R, q)
  PROVE  Sound(S, q)
  BY AgreeMonotone DEF Sound

LEMMA BisimilarIs ==
  ASSUME NEW q
  PROVE  Bisimilar(q) <=> \E R \in SUBSET Pairs : q \in R /\ \A r \in R : Sound(R, r)
  BY RespectsIsSound DEF Bisimilar

(* A pair with different items is different.                               *)
LEMMA DifferentItems ==
  ASSUME NEW p, NEW k \in Keys(p[1]),
         \A R \in SUBSET Pairs : (\A r \in R : Sound(R, r)) => ~Agree(R, p, k)
  PROVE  ~Bisimilar(p)
  BY BisimilarIs DEF Sound

LEMMA DifferentChild ==
  ASSUME NEW p, NEW k \in Keys(p[1]),
         Item(p[1], k) \in Objects, Item(p[2], k) \in Objects,
         ~Bisimilar(<<Item(p[1], k), Item(p[2], k)>>)
  PROVE  ~Bisimilar(p)
  <1>1. ASSUME NEW R \in SUBSET Pairs, \A r \in R : Sound(R, r)
        PROVE  ~Agree(R, p, k)
    BY <1>1, BisimilarIs DEF Agree
  <1> QED BY <1>1, DifferentItems

(* A new call has compared its keys, where it has nothing else to compare. *)
LEMMA NewCall ==
  ASSUME CallsTypeOK, SetsHoldAtoms, NEW p \in Pairs, Comparable(p[1], p[2]), NEW R
  PROVE  /\ ToCompare(p[1], p[2]) \subseteq Keys(p[1])
         /\ \A k \in Keys(p[1]) \ ToCompare(p[1], p[2]) : Agree(R, p, k)
  <1>1. CASE heap[p[1]].kind # "set"
    BY <1>1 DEF ToCompare
  <1>2. CASE heap[p[1]].kind = "set"
    <2>1. /\ ToCompare(p[1], p[2]) = {} /\ p[1] \in Objects /\ p[2] \in Objects
          /\ heap[p[2]].kind = "set" /\ Keys(p[1]) = Keys(p[2]) /\ heap \in Heaps
      BY <1>2 DEF ToCompare, Comparable, Pairs, CallsTypeOK
    <2>2. \A k \in Keys(p[1]) : /\ heap[p[1]].items[k] \notin Objects
                                /\ heap[p[1]].items[k] = heap[p[2]].items[k]
      BY <1>2, <2>1 DEF SetsHoldAtoms, Keys
    <2> QED BY <2>1, <2>2 DEF Agree, Item
  <1> QED BY <1>1, <1>2

(* A stack s on which a comparison of p is about to start, with a relation *)
(* in which p is all that nothing vouches for yet.                         *)
Ready(R, s, a, p) ==
  /\ R \in SUBSET Pairs /\ p \in R /\ a \in R /\ On(s) \subseteq R
  /\ \A q \in R \ (On(s) \cup {p}) : Sound(R, q)
  /\ Compared(R, s)
  /\ Links(s, a)
  /\ IF s = << >> THEN a = p ELSE Link(s[Len(s)].pair, p)

LEMMA SeenIsJudged ==
  ASSUME NEW R, NEW s, NEW a, NEW p, Ready(R, s, a, p), p \in On(s)
  PROVE  Links(s, a) /\ Judged("equal", s, a)
  <1>1. On(s) \cup {p} = On(s)
    OBVIOUS
  <1>2. Grown(R, s, a) /\ R \in SUBSET Pairs
    BY <1>1 DEF Grown, Ready
  <1> QED BY <1>2 DEF Judged, Ready

LEMMA PushIsJudged ==
  ASSUME CallsTypeOK, SetsHoldAtoms, NEW s \in Seq(Frames), NEW p \in Pairs, NEW R, NEW a,
         Ready(R, s, a, p)
  PROVE  LET x == Append(s, Started(p))
             v == IF Comparable(p[1], p[2]) THEN "equal" ELSE "different"
         IN  Links(x, a) /\ Judged(v, x, a)
  <1> DEFINE x == Append(s, Started(p))
             v == IF Comparable(p[1], p[2]) THEN "equal" ELSE "different"
             n == Len(s)
  <1>1. /\ x \in Seq(Frames) /\ Len(x) = n + 1 /\ n \in Nat /\ x # << >>
        /\ x[n+1] = Started(p) /\ \A i \in 1..n : x[i] = s[i]
    BY CallIs, PushStack
  <1>2. x[n+1].pair = p /\ x[n+1].todo = ToCompare(p[1], p[2])
    BY <1>1, CallIs
  <1>3. s = << >> <=> n = 0
    BY EmptySeq
  <1> HIDE DEF x
  <1>4. \A i \in 1..Len(x) : i \in 1..n \/ i = n + 1
    BY <1>1
  <1>5. Links(x, a)
    <2>1. \A i \in 1..Len(x) : x[i].todo \subseteq Keys(x[i].pair[1])
      <3>1. ToCompare(p[1], p[2]) \subseteq Keys(p[1])
        BY DEF ToCompare
      <3> QED BY <1>1, <1>2, <1>4, <3>1 DEF Ready, Links
    <2>2. a = x[1].pair
      BY <1>1, <1>2, <1>3 DEF Ready, Links
    <2>3. \A i \in 1..Len(x)-1 : Link(x[i].pair, x[i+1].pair)
      <3>1. TAKE i \in 1..Len(x)-1
      <3>2. CASE i \in 1..n-1
        <4>1. x[i] = s[i] /\ x[i+1] = s[i+1] /\ Link(s[i].pair, s[i+1].pair)
          BY <1>1, <3>2 DEF Ready, Links
        <4> QED BY <4>1
      <3>3. CASE i = n
        <4>1. x[i] = s[n] /\ n # 0 /\ Link(s[n].pair, p)
          BY <1>1, <1>3, <3>1, <3>3 DEF Ready
        <4> QED BY <1>2, <3>3, <4>1
      <3> QED BY <1>1, <3>1, <3>2, <3>3
    <2> QED BY <2>1, <2>2, <2>3 DEF Links
  <1>6. ASSUME Comparable(p[1], p[2]) PROVE Links(x, a) /\ Judged(v, x, a)
    <2>1. On(x) = On(s) \cup {p}
      <3>1. \A i \in 1..Len(x) : x[i].pair \in On(s) \cup {p}
        BY <1>1, <1>2, <1>4 DEF On
      <3>2. \A i \in 1..n : i \in 1..Len(x) /\ x[i].pair = s[i].pair
        BY <1>1
      <3>3. n + 1 \in 1..Len(x)
        BY <1>1
      <3> QED BY <1>2, <3>1, <3>2, <3>3 DEF On
    <2>2. Compared(R, x)
      <3>1. ASSUME NEW i \in 1..Len(x)
            PROVE  /\ Comparable(x[i].pair[1], x[i].pair[2])
                   /\ \A k \in Keys(x[i].pair[1]) \ x[i].todo : Agree(R, x[i].pair, k)
        <4>1. CASE i \in 1..n
          BY <1>1, <4>1 DEF Ready, Compared
        <4>2. CASE i = n + 1
          BY <1>2, <1>6, <4>2, NewCall
        <4> QED BY <1>4, <4>1, <4>2
      <3> QED BY <3>1 DEF Compared
    <2>3. Grown(R, x, a) /\ R \in SUBSET Pairs
      BY <2>1, <2>2 DEF Grown, Ready
    <2> QED BY <1>5, <1>6, <2>3 DEF Judged
  <1>7. ASSUME ~Comparable(p[1], p[2]) PROVE Links(x, a) /\ Judged(v, x, a)
    <2>1. ~Bisimilar(p)
      BY <1>7, BisimilarIs DEF Sound
    <2>2. Subject(x, a) = p
      BY <1>1, <1>2 DEF Subject
    <2> QED BY <1>5, <1>7, <2>1, <2>2 DEF Judged
  <1> QED BY <1>6, <1>7 DEF x

(* One item less to compare.                                               *)
LEMMA RestIsLinked ==
  ASSUME NEW s \in Seq(Frames), NEW r \in Seq(Frames), NEW k, NEW a,
         NEW n \in Nat \ {0}, Len(s) = n, Len(r) = n,
         \A i \in 1..n : r[i].pair = s[i].pair, \A i \in 1..n-1 : r[i] = s[i],
         r[n].todo = s[n].todo \ {k}, Links(s, a)
  PROVE  Links(r, a)
  <1>1. \A i \in 1..n : i \in 1..n-1 \/ i = n
    OBVIOUS
  <1>2. \A i \in 1..n : r[i].todo \subseteq Keys(r[i].pair[1])
    BY <1>1 DEF Links
  <1>3. s # << >> /\ a = r[1].pair
    BY EmptySeq DEF Links
  <1>4. \A i \in 1..n-1 : Link(r[i].pair, r[i+1].pair)
    <2>1. TAKE i \in 1..n-1
    <2>2. i \in 1..n /\ i + 1 \in 1..n
      BY <2>1
    <2> QED BY <2>1, <2>2 DEF Links
  <1> QED BY <1>2, <1>3, <1>4 DEF Links

LEMMA RestIsCompared ==
  ASSUME NEW s \in Seq(Frames), NEW r \in Seq(Frames), NEW k, NEW a, NEW Q, NEW R,
         NEW n \in Nat \ {0}, Len(s) = n, Len(r) = n,
         \A i \in 1..n : r[i].pair = s[i].pair, \A i \in 1..n-1 : r[i] = s[i],
         r[n].todo = s[n].todo \ {k},
         Links(s, a), Grown(Q, s, a), Q \subseteq R, Agree(R, s[n].pair, k)
  PROVE  /\ Links(r, a) /\ Compared(R, r) /\ On(r) = On(s)
         /\ \A q \in Q \ On(r) : Sound(R, q)
         /\ Comparable(s[n].pair[1], s[n].pair[2])
  <1>0. \A i \in 1..n : i \in 1..n-1 \/ i = n
    OBVIOUS
  <1>1. On(r) = On(s)
    BY DEF On
  <1>2. \A i \in 1..n : r[i].todo \subseteq s[i].todo /\ s[i].todo \ {k} \subseteq r[i].todo
                        /\ (i # n => r[i].todo = s[i].todo)
    BY <1>0
  <1>3. Links(r, a)
    BY RestIsLinked
  <1>4. Compared(R, r)
    <2>1. ASSUME NEW i \in 1..n, NEW j \in Keys(r[i].pair[1]) \ r[i].todo
          PROVE  Agree(R, r[i].pair, j)
      <3>1. CASE j \in s[i].todo
        <4>1. i = n /\ j = k
          BY <1>2, <2>1, <3>1
        <4> QED BY <4>1
      <3>2. CASE j \notin s[i].todo
        <4>1. Agree(Q, s[i].pair, j)
          BY <2>1, <3>2 DEF Grown, Compared
        <4> QED BY <4>1, AgreeMonotone
      <3> QED BY <3>1, <3>2
    <2>2. \A i \in 1..n : Comparable(r[i].pair[1], r[i].pair[2])
      BY DEF Grown, Compared
    <2> QED BY <2>1, <2>2 DEF Compared
  <1>5. \A q \in Q \ On(r) : Sound(R, q)
    BY <1>1, SoundMonotone DEF Grown
  <1>6. Comparable(s[n].pair[1], s[n].pair[2])
    BY DEF Grown, Compared
  <1> QED BY <1>1, <1>3, <1>4, <1>5, <1>6

(* A call less: its pair is vouched for, or refutes the one below.         *)
LEMMA FrontIsJudged ==
  ASSUME NEW s \in Seq(Frames), s # << >>, NEW a, NEW v, Links(s, a), Judged(v, s, a),
         v = "equal" => s[Len(s)].todo = {}
  PROVE  Links(Front(s), a) /\ Judged(v, Front(s), a)
  <1> DEFINE f == Front(s)
             n == Len(s)
  <1>1. /\ f \in Seq(Frames) /\ n \in Nat \ {0} /\ Len(f) = n - 1
        /\ \A i \in 1..n-1 : f[i] = s[i]
    BY PopStack
  <1> HIDE DEF f
  <1>2. f = << >> <=> n = 1
    BY <1>1, EmptySeq
  <1>3. Links(f, a)
    <2>1. \A i \in 1..n-2 : i \in 1..n-1 /\ i + 1 \in 1..n-1
      BY <1>1
    <2> QED BY <1>1, <1>2, <2>1, SMTT(30) DEF Links
  <1>4. ASSUME v = "equal" PROVE \E R \in SUBSET Pairs : Grown(R, f, a)
    <2>1. PICK R \in SUBSET Pairs : Grown(R, s, a)
      BY <1>4 DEF Judged
    <2>2. On(f) \subseteq On(s) /\ On(s) \subseteq On(f) \cup {s[n].pair}
      <3>1. \A i \in 1..n : i \in 1..n-1 \/ i = n
        BY <1>1
      <3> QED BY <1>1, <3>1 DEF On
    <2>3. Compared(R, f)
      BY <1>1, <2>1 DEF Grown, Compared
    <2>4. Sound(R, s[n].pair)
      <3>1. n \in 1..n /\ s[n].todo = {} /\ Compared(R, s)
        BY <1>1, <1>4, <2>1 DEF Grown
      <3>2. Keys(s[n].pair[1]) \ s[n].todo = Keys(s[n].pair[1])
        BY <3>1
      <3>3. /\ Comparable(s[n].pair[1], s[n].pair[2])
            /\ \A k \in Keys(s[n].pair[1]) : Agree(R, s[n].pair, k)
        BY <3>1, <3>2 DEF Compared
      <3> QED BY <3>3 DEF Sound
    <2>5. Grown(R, f, a)
      BY <2>1, <2>2, <2>3, <2>4 DEF Grown
    <2> QED BY <2>5
  <1>5. ASSUME v = "different" PROVE ~Bisimilar(Subject(f, a))
    <2>1. ~Bisimilar(s[n].pair)
      BY <1>5 DEF Judged, Subject
    <2>2. CASE n = 1
      BY <1>2, <2>1, <2>2 DEF Links, Subject
    <2>3. CASE n # 1
      <3>1. Link(s[n-1].pair, s[n].pair)
        <4>1. n - 1 \in 1..n-1 /\ (n - 1) + 1 = n
          BY <1>1, <2>3
        <4> QED BY <1>1, <4>1 DEF Links
      <3>2. ~Bisimilar(s[n-1].pair)
        BY <2>1, <3>1, DifferentChild DEF Link
      <3>3. Subject(f, a) = s[n-1].pair
        BY <1>1, <1>2, <2>3 DEF Subject
      <3> QED BY <3>2, <3>3
    <2> QED BY <2>2, <2>3
  <1>6. v # "none"
    BY DEF Judged
  <1> QED BY <1>3, <1>4, <1>5, <1>6 DEF Judged, f

J(s, a, v, w) == Links(s, a) /\ Judged(v, s, a) /\ Right(w, a)

(* Comparing leaves the heap alone, and what is said of it.                *)
LEMMA HeapStands ==
  ASSUME UNCHANGED heap, NEW s, NEW a, NEW v, NEW w
  PROVE  J(s, a, v, w)' <=> J(s, a, v, w)
  <1>1. /\ \A q, k : Item(q, k)' = Item(q, k)
        /\ \A q : Keys(q)' = Keys(q)
        /\ \A q, r : Comparable(q, r)' <=> Comparable(q, r)
    BY DEF Item, Keys, Comparable
  <1>2. \A R, q, k : Agree(R, q, k)' <=> Agree(R, q, k)
    BY <1>1 DEF Agree
  <1>3. \A R, q : Sound(R, q)' <=> Sound(R, q)
    BY <1>1, <1>2 DEF Sound
  <1>4. \A q : Bisimilar(q)' <=> Bisimilar(q)
    BY DEF Bisimilar, Respects, Comparable, Keys
  <1>5. \A q, p : Link(q, p)' <=> Link(q, p)
    BY <1>1 DEF Link
  <1>6. Links(s, a)' <=> Links(s, a)
    BY <1>1, <1>5 DEF Links
  <1>7. \A R : Grown(R, s, a)' <=> Grown(R, s, a)
    BY <1>1, <1>2, <1>3 DEF Grown, Compared, On
  <1>8. Judged(v, s, a)' <=> Judged(v, s, a)
    BY <1>4, <1>7 DEF Judged, Subject
  <1>9. Right(w, a)' <=> Right(w, a)
    BY <1>4 DEF Right
  <1> QED BY <1>6, <1>8, <1>9 DEF J

LEMMA JudgeNext ==
  ASSUME One, UNCHANGED heap, NEW t \in Threads, NEW s, NEW a, NEW v, NEW w,
         stack'[t] = s, asked'[t] = a, verdict'[t] = v, answer'[t] = w, J(s, a, v, w)
  PROVE  Judge'
  <1>1. J(s, a, v, w)'
    BY HeapStands
  <1>2. \A u \in Threads : u = t
    BY DEF One
  <1> QED BY <1>1, <1>2 DEF Judge, J

LEMMA StepJudge ==
  SetsHoldAtoms /\ One /\ CallsTypeOK /\ SeenInv /\ Judge /\ [EqualityNext]_equalityVars => Judge'
  <1> SUFFICES ASSUME SetsHoldAtoms, One, CallsTypeOK, SeenInv, Judge, [EqualityNext]_equalityVars
               PROVE  Judge'
    OBVIOUS
  <1>1. CASE UNCHANGED equalityVars
    <2> SUFFICES ASSUME NEW t \in Threads PROVE Judge'
      BY DEF Judge
    <2>1. PICK s, a, v, w : s = stack[t] /\ a = asked[t] /\ v = verdict[t] /\ w = answer[t]
      OBVIOUS
    <2>2. J(s, a, v, w)
      BY <2>1 DEF Judge, J
    <2> QED BY <1>1, <2>1, <2>2, JudgeNext DEF equalityVars
  <1>2. CASE EqualityNext
    <2> PICK t \in Threads : \/ \E p \in Pairs : Ask(t, p)
                             \/ \E k \in AllKeys : CompareItem(t, k)
                             \/ Leave(t)
                             \/ Report(t)
      BY <1>2 DEF EqualityNext
    <2>0. UNCHANGED heap
      BY DEF Ask, CompareItem, Leave, Report
    <2>1. PICK s \in Seq(Frames) : s = stack[t]
      BY DEF CallsTypeOK
    <2>2. PICK a : a = asked[t]
      OBVIOUS
    <2>3. PICK v : v = verdict[t]
      OBVIOUS
    <2>4. PICK w : w = answer[t]
      OBVIOUS
    <2>5. J(s, a, v, w)
      BY <2>1, <2>2, <2>3, <2>4 DEF Judge, J
    <2>6. \A p \in seen : p \in On(s)
      <3>1. \A u \in Threads : u = t
        BY DEF One
      <3> QED BY <2>1, <3>1 DEF SeenInv, On, At
    <2>7. ASSUME NEW p \in Pairs, Ask(t, p) PROVE Judge'
      <3>1. /\ s = << >> /\ Enter(t, p, << >>)
            /\ asked' = [asked EXCEPT ![t] = p] /\ answer' = [answer EXCEPT ![t] = "none"]
        BY <2>1, <2>7 DEF Ask
      <3>2. Len(<< >>) = 0 /\ << >> \in Seq(Frames) /\ ~(Len(<< >>) > cap)
        BY DEF CallsTypeOK
      <3>3. p \notin seen
        BY <2>6, <3>1, <3>2 DEF On
      <3>4. Pushes(t, << >>, p)
        BY <3>1, <3>2, <3>3, EnterCases
      <3> DEFINE x == Append(<< >>, Started(p))
                 c == IF Comparable(p[1], p[2]) THEN "equal" ELSE "different"
      <3>5. Links(x, p) /\ Judged(c, x, p)
        <4>1. Ready({p}, << >>, p, p)
          BY <3>2 DEF Ready, On, Compared, Links
        <4> QED BY <3>2, <4>1, PushIsJudged
      <3>6. PICK y : y = x
        OBVIOUS
      <3>7. PICK d : d = c
        OBVIOUS
      <3>8. stack'[t] = y /\ verdict'[t] = d /\ asked'[t] = p /\ answer'[t] = "none"
        BY <3>1, <3>4, <3>6, <3>7 DEF Pushes, CallsTypeOK
      <3> HIDE DEF x, c
      <3>9. J(y, p, d, "none")
        BY <3>5, <3>6, <3>7 DEF J, Right
      <3> QED BY <2>0, <3>8, <3>9, JudgeNext
    <2>8. ASSUME NEW k \in AllKeys, CompareItem(t, k) PROVE Judge'
      <3> DEFINE n == Len(s)
                 q == s[n].pair
      <3>1. /\ stack[t] # << >> /\ v = "equal" /\ k \in Top(t).todo
            /\ UNCHANGED <<asked, answer>>
        BY <2>3, <2>8 DEF CompareItem
      <3>2. PICK r : r = Rest(t, k)
        OBVIOUS
      <3>3. /\ n \in Nat \ {0} /\ Top(t) = s[n]
            /\ r \in Seq(Frames) /\ r # << >> /\ Len(r) = n
            /\ \A i \in 1..n : r[i].pair = s[i].pair
            /\ \A i \in 1..n-1 : r[i] = s[i]
            /\ r[n].todo = s[n].todo \ {k}
        BY <2>1, <3>1, <3>2, RestIs
      <3>4. PICK Q \in SUBSET Pairs : Grown(Q, s, a)
        BY <2>5, <3>1 DEF J, Judged
      <3>5. k \in Keys(q[1]) /\ Links(s, a) /\ q = r[n].pair /\ n \in 1..n
        BY <2>5, <3>1, <3>3 DEF J, Links
      <3>6. asked'[t] = a /\ answer'[t] = w
        BY <2>2, <2>4, <3>1
      <3>7. /\ IF Item(q[1], k) \in Objects /\ Item(q[2], k) \in Objects
               THEN Enter(t, <<Item(q[1], k), Item(q[2], k)>>, r)
               ELSE Returns(t, r, IF Len(r) > cap THEN "error"
                                  ELSE IF Item(q[1], k) = Item(q[2], k) THEN "equal"
                                  ELSE "different")
        BY <2>8, <3>2, <3>3 DEF CompareItem, Rest, Returns, Item
      <3>8. ASSUME NEW d, Returns(t, r, d), Links(r, a), Judged(d, r, a) PROVE Judge'
        <4>1. stack'[t] = r /\ verdict'[t] = d
          BY <3>8 DEF Returns, CallsTypeOK
        <4>2. J(r, a, d, w)
          BY <2>5, <3>8 DEF J
        <4> QED BY <2>0, <3>6, <4>1, <4>2, JudgeNext
      <3>9. \A R \in SUBSET Pairs : Q \subseteq R /\ Agree(R, q, k) =>
              /\ Links(r, a) /\ Compared(R, r) /\ On(r) = On(s)
              /\ \A z \in Q \ On(r) : Sound(R, z)
              /\ Comparable(q[1], q[2])
        BY <3>3, <3>4, <3>5, RestIsCompared
      <3>l. Links(r, a)
        BY <3>3, <3>5, RestIsLinked
      <3>e. Judged("error", r, a)
        BY DEF Judged
      <3> HIDE DEF n
      <3>10. CASE Item(q[1], k) \in Objects /\ Item(q[2], k) \in Objects
        <4>1. PICK p \in Pairs : p = <<Item(q[1], k), Item(q[2], k)>>
          BY <3>10 DEF Pairs
        <4> DEFINE R == Q \cup {p}
        <4>2. R \in SUBSET Pairs /\ Q \subseteq R /\ Agree(R, q, k)
          BY <3>10, <4>1 DEF Agree
        <4>3. /\ Links(r, a) /\ Compared(R, r) /\ On(r) = On(s)
              /\ \A z \in Q \ On(r) : Sound(R, z)
              /\ Comparable(q[1], q[2])
          BY <3>9, <4>2
        <4>4. Ready(R, r, a, p)
          <5>1. Link(r[Len(r)].pair, p)
            BY <3>3, <3>5, <3>10, <4>1, <4>3 DEF Link
          <5>2. a \in R /\ On(r) \subseteq R
            BY <3>4, <4>3 DEF Grown
          <5> QED BY <3>3, <4>2, <4>3, <5>1, <5>2 DEF Ready
        <4>5. Enter(t, p, r)
          BY <3>7, <3>10, <4>1
        <4>6. CASE Returns(t, r, "error")
          BY <3>8, <3>e, <4>3, <4>6
        <4>7. CASE p \in seen /\ Returns(t, r, "equal")
          <5>1. Links(r, a) /\ Judged("equal", r, a)
            BY <2>6, <4>3, <4>4, <4>7, SeenIsJudged
          <5> QED BY <3>8, <4>7, <5>1
        <4>8. CASE Pushes(t, r, p)
          <5> DEFINE x == Append(r, Started(p))
                     c == IF Comparable(p[1], p[2]) THEN "equal" ELSE "different"
          <5>1. Links(x, a) /\ Judged(c, x, a)
            BY <3>3, <4>4, PushIsJudged
          <5>2. PICK y : y = x
            OBVIOUS
          <5>3. PICK d : d = c
            OBVIOUS
          <5>4. stack'[t] = y /\ verdict'[t] = d
            BY <4>8, <5>2, <5>3 DEF Pushes, CallsTypeOK
          <5> HIDE DEF x, c
          <5>5. J(y, a, d, w)
            BY <2>5, <5>1, <5>2, <5>3 DEF J
          <5> QED BY <2>0, <3>6, <5>4, <5>5, JudgeNext
        <4> QED BY <4>5, <4>6, <4>7, <4>8, EnterCases
      <3>11. CASE ~(Item(q[1], k) \in Objects /\ Item(q[2], k) \in Objects)
        <4>1. CASE Len(r) > cap
          <5>1. Returns(t, r, "error")
            BY <3>7, <3>11, <4>1
          <5> QED BY <3>8, <3>e, <3>l, <5>1
        <4>2. CASE ~(Len(r) > cap) /\ Item(q[1], k) = Item(q[2], k)
          <5>1. Returns(t, r, "equal")
            BY <3>7, <3>11, <4>2
          <5>2. Agree(Q, q, k)
            BY <3>11, <4>2 DEF Agree
          <5>3. /\ Links(r, a) /\ Compared(Q, r) /\ On(r) = On(s)
                /\ \A z \in Q \ On(r) : Sound(Q, z)
            BY <3>9, <5>2
          <5>4. Grown(Q, r, a)
            BY <3>4, <5>3 DEF Grown
          <5> QED BY <3>8, <5>1, <5>3, <5>4 DEF Judged
        <4>3. CASE ~(Len(r) > cap) /\ Item(q[1], k) # Item(q[2], k)
          <5>1. Returns(t, r, "different")
            BY <3>7, <3>11, <4>3
          <5>2. \A R : ~Agree(R, q, k)
            BY <3>11, <4>3 DEF Agree
          <5>3. ~Bisimilar(q)
            BY <3>5, <5>2, DifferentItems
          <5>4. Subject(r, a) = q
            BY <3>3, <3>5 DEF Subject
          <5> QED BY <3>8, <3>l, <5>1, <5>3, <5>4 DEF Judged
        <4> QED BY <4>1, <4>2, <4>3
      <3> QED BY <3>10, <3>11
    <2>9. ASSUME Leave(t) PROVE Judge'
      <3>1. /\ s # << >> /\ UNCHANGED <<verdict, asked, answer>>
            /\ v = "equal" => Top(t).todo = {}
            /\ stack'[t] = Front(s)
        BY <2>1, <2>3, <2>9 DEF Leave, CallsTypeOK
      <3>2. Top(t) = s[Len(s)]
        BY <2>1 DEF Top, Last
      <3>3. PICK f : f = Front(s)
        OBVIOUS
      <3>4. Links(Front(s), a) /\ Judged(v, Front(s), a)
        BY <2>5, <3>1, <3>2, FrontIsJudged DEF J
      <3>5. J(f, a, v, w)
        BY <2>5, <3>3, <3>4 DEF J
      <3>6. stack'[t] = f /\ asked'[t] = a /\ verdict'[t] = v /\ answer'[t] = w
        BY <2>2, <2>3, <2>4, <3>1, <3>3
      <3> QED BY <2>0, <3>5, <3>6, JudgeNext
    <2>10. ASSUME Report(t) PROVE Judge'
      <3>1. /\ s = << >> /\ stack'[t] = s /\ asked'[t] = a /\ verdict'[t] = "none"
            /\ answer'[t] = v
        BY <2>1, <2>2, <2>3, <2>10 DEF Report, CallsTypeOK
      <3>2. ASSUME v = "equal" PROVE Bisimilar(a)
        <4>1. PICK R \in SUBSET Pairs : Grown(R, s, a)
          BY <2>5, <3>2 DEF J, Judged
        <4>2. On(s) = {}
          BY <3>1 DEF On
        <4> QED BY <4>1, <4>2, BisimilarIs DEF Grown
      <3>3. v = "different" => ~Bisimilar(a)
        BY <2>5, <3>1 DEF J, Judged, Subject
      <3>4. J(s, a, "none", v)
        BY <2>5, <3>1, <3>2, <3>3 DEF J, Judged, Right
      <3> QED BY <2>0, <3>1, <3>4, JudgeNext
    <2> QED BY <2>7, <2>8, <2>9, <2>10
  <1> QED BY <1>1, <1>2

(* equal() answers what the values are where one thread compares, for      *)
(* every heap, cyclic or not, and every cap on the depth: assuming equal   *)
(* what comes up again is sound because what the assumption is for has     *)
(* then still to be compared (the recorded pairs in equal).                *)
THEOREM AnswersCorrect ==
  Caps \subseteq Nat /\ SetsHoldAtoms /\ One => (EqualitySpec => []AnswersRight)
  <1> SUFFICES ASSUME Caps \subseteq Nat, SetsHoldAtoms, One PROVE EqualitySpec => []AnswersRight
    OBVIOUS
  <1>1. Judge => AnswersRight
    BY DEF Judge, Right, AnswersRight
  <1>2. SetsHoldAtoms /\ One /\ CallsTypeOK /\ SeenInv /\ Judge /\ [EqualityNext]_equalityVars => Judge'
    BY StepJudge
  <1> QED BY <1>1, <1>2, InitType, StepType, InitSeen, StepSeen, InitJudge, PTL DEF EqualitySpec

-----------------------------------------------------------------------------
(* Cycles and the cap.  Where every object is recorded, a stack is no      *)
(* deeper than there are pairs.                                            *)
AllRecorded == \A h \in Heaps : \A o \in Objects : h[o].kind \in {"list", "dict", "set"}

LEMMA StackWithinPairs ==
  ASSUME IsFiniteSet(Objects), AllRecorded, CallsTypeOK, SeenInv, NEW t \in Threads
  PROVE  Len(stack[t]) <= Cardinality(Pairs)
  <1> DEFINE n == Len(stack[t])
             f == [i \in 1..n |-> At(t, i)]
  <1>1. n \in Nat /\ \A i \in 1..n : At(t, i) \in Pairs
    BY Lengths
  <1>2. \A q \in Pairs : IsRec(q)
    BY DEF AllRecorded, IsRec, Recorded, Pairs, CallsTypeOK
  <1>3. \A i, j \in 1..n : At(t, i) = At(t, j) => i = j
    BY <1>1, <1>2 DEF SeenInv
  <1>4. f \in [1..n -> Pairs] /\ \A i, j \in 1..n : f[i] = f[j] => i = j
    BY <1>1, <1>3
  <1>5. IsFiniteSet(Pairs)
    BY FS_Product DEF Pairs
  <1>6. Cardinality(1..n) = n
    BY <1>1, FS_Interval
  <1> HIDE DEF n, f
  <1>7. Cardinality(1..n) <= Cardinality(Pairs)
    <2>1. f \in Injection(1..n, Pairs)
      BY <1>4 DEF Injection, IsInjective
    <2> QED BY <1>5, <2>1, FS_Injection
  <1> QED BY <1>6, <1>7 DEF n

NoErrors ==
  Cardinality(Pairs) <= cap =>
    \A t \in Threads : verdict[t] # "error" /\ answer[t] # "error"

LEMMA StepNoErrors ==
  IsFiniteSet(Objects) /\ AllRecorded /\ CallsTypeOK /\ SeenInv /\ NoErrors /\ [EqualityNext]_equalityVars
    => NoErrors'
  <1> SUFFICES ASSUME IsFiniteSet(Objects), AllRecorded, CallsTypeOK, SeenInv, NoErrors,
                      [EqualityNext]_equalityVars, Cardinality(Pairs) <= cap',
                      NEW u \in Threads
               PROVE  verdict'[u] # "error" /\ answer'[u] # "error"
    BY DEF NoErrors
  <1>1. CASE UNCHANGED equalityVars
    BY <1>1 DEF equalityVars, NoErrors
  <1>2. CASE EqualityNext
    <2> PICK t \in Threads : \/ \E p \in Pairs : Ask(t, p)
                             \/ \E k \in AllKeys : CompareItem(t, k)
                             \/ Leave(t)
                             \/ Report(t)
      BY <1>2 DEF EqualityNext
    <2>1. cap' = cap
      BY DEF Ask, CompareItem, Leave, Report
    <2>2. verdict[t] # "error" /\ verdict[u] # "error" /\ answer[u] # "error"
      BY <2>1 DEF NoErrors
    <2>3. ~(Len(stack[t]) > cap)
      <3>1. Len(stack[t]) <= Cardinality(Pairs)
        BY StackWithinPairs
      <3>2. IsFiniteSet(Pairs) /\ Cardinality(Pairs) \in Nat
        BY FS_Product, FS_CardinalityType DEF Pairs
      <3> QED BY <2>1, <3>1, <3>2, Lengths DEF CallsTypeOK
    <2>4. ASSUME NEW s, NEW p, Len(s) = Len(stack[t]), Enter(t, p, s)
          PROVE  verdict'[u] # "error"
      <3>1. \/ Returns(t, s, "equal")
            \/ Pushes(t, s, p)
        BY <2>3, <2>4, EnterCases
      <3> QED BY <2>2, <3>1 DEF Returns, Pushes, CallsTypeOK
    <2>5. ASSUME NEW p \in Pairs, Ask(t, p)
          PROVE  verdict'[u] # "error" /\ answer'[u] # "error"
      <3>1. stack[t] = << >> /\ Enter(t, p, << >>)
            /\ answer' = [answer EXCEPT ![t] = "none"]
        BY <2>5 DEF Ask
      <3> QED BY <2>2, <2>4, <3>1 DEF CallsTypeOK
    <2>6. ASSUME NEW k \in AllKeys, CompareItem(t, k)
          PROVE  verdict'[u] # "error" /\ answer'[u] # "error"
      <3> DEFINE a == heap[Top(t).pair[1]].items[k]
                 b == heap[Top(t).pair[2]].items[k]
      <3>1. stack[t] # << >> /\ UNCHANGED answer
        BY <2>6 DEF CompareItem
      <3>2. PICK r : r = Rest(t, k)
        OBVIOUS
      <3>3. Len(r) = Len(stack[t])
        BY <3>1, <3>2, RestIs
      <3>4. IF a \in Objects /\ b \in Objects
            THEN Enter(t, <<a, b>>, r)
            ELSE verdict' = [verdict EXCEPT ![t] =
                   IF Len(r) > cap THEN "error" ELSE IF a = b THEN "equal" ELSE "different"]
        BY <2>6, <3>2 DEF CompareItem, Rest
      <3>5. verdict'[u] # "error"
        <4>1. CASE a \in Objects /\ b \in Objects
          <5>1. PICK p : p = <<a, b>>
            OBVIOUS
          <5> QED BY <2>4, <3>3, <3>4, <4>1, <5>1
        <4>2. CASE ~(a \in Objects /\ b \in Objects)
          <5>1. PICK d : d = IF a = b THEN "equal" ELSE "different"
            OBVIOUS
          <5>2. verdict' = [verdict EXCEPT ![t] = d] /\ d # "error"
            BY <2>3, <3>3, <3>4, <4>2, <5>1
          <5> QED BY <2>2, <5>2 DEF CallsTypeOK
        <4> QED BY <4>1, <4>2
      <3> QED BY <2>2, <3>1, <3>5
    <2>7. CASE Leave(t)
      BY <2>2, <2>7 DEF Leave
    <2>8. CASE Report(t)
      BY <2>2, <2>8 DEF Report, CallsTypeOK
    <2> QED BY <2>5, <2>6, <2>7, <2>8
  <1> QED BY <1>1, <1>2

(* Cyclic lists, dicts and sets are compared to the end under every cap    *)
(* that is no less than the pairs of them, for any number of threads: only *)
(* depth that is no repetition meets _check_compare_depth.                 *)
THEOREM CyclesEnd ==
  Caps \subseteq Nat /\ IsFiniteSet(Objects) /\ AllRecorded =>
    (EqualitySpec => []CyclesAreAnswered)
  <1> SUFFICES ASSUME Caps \subseteq Nat, IsFiniteSet(Objects), AllRecorded
               PROVE  EqualitySpec => []CyclesAreAnswered
    OBVIOUS
  <1>1. EqualityInit => NoErrors
    BY DEF EqualityInit, NoErrors
  <1>2. NoErrors => CyclesAreAnswered
    BY DEF NoErrors, CyclesAreAnswered
  <1>3. CallsTypeOK /\ SeenInv /\ NoErrors /\ [EqualityNext]_equalityVars => NoErrors'
    BY StepNoErrors
  <1> QED BY <1>1, <1>2, <1>3, InitType, StepType, InitSeen, StepSeen, PTL DEF EqualitySpec
=============================================================================
