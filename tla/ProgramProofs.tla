--------------------------- MODULE ProgramProofs ---------------------------
(***************************************************************************)
(* Proofs about Program: the lock, for any number of threads and any depth *)
(* of re-entry, and the two conditions under which in-place resolution     *)
(* gives every evaluation its own environment.                             *)
(***************************************************************************)
EXTENDS Program, StackLemmas

(* No environment predeclares a name that is also universal in it.         *)
Disjoint == \A env \in Envs : env.pre \cap env.uni = {}

-----------------------------------------------------------------------------
LEMMA TopType ==
  ASSUME TypeOK, NEW t \in Threads, Inside(t)
  PROVE  /\ runs[t] \in Seq(Run)
         /\ Top(t) \in Run
  <1>1. runs[t] \in Seq(Run) /\ runs[t] # << >>
    BY DEF TypeOK, Inside
  <1> QED BY <1>1, PopStack DEF Top

LEMMA AmendType ==
  ASSUME TypeOK, NEW t \in Threads, Inside(t), NEW run \in Run, Amend(t, run)
  PROVE  /\ runs' \in [Threads -> Seq(Run)]
         /\ \A u \in Threads : Len(runs'[u]) = Len(runs[u])
         /\ \A u \in Threads \ {t} : runs'[u] = runs[u]
         /\ runs'[t] # << >> /\ Last(runs'[t]) = run
  <1>1. runs[t] \in Seq(Run) /\ runs[t] # << >> /\ runs \in [Threads -> Seq(Run)]
    BY DEF TypeOK, Inside
  <1>2. LET s == Append(Front(runs[t]), run)
        IN s \in Seq(Run) /\ s # << >> /\ Len(s) = Len(runs[t]) /\ Last(s) = run
    BY <1>1, ReplaceTop
  <1>3. runs' = [runs EXCEPT ![t] = Append(Front(runs[t]), run)]
    BY DEF Amend
  <1> QED BY <1>1, <1>2, <1>3

LEMMA ReleaseType ==
  ASSUME TypeOK, NEW t \in Threads, Inside(t), NEW how \in Endings, Release(t, how)
  PROVE  /\ runs' \in [Threads -> Seq(Run)]
         /\ Len(runs[t]) \in Nat \ {0}
         /\ Len(runs'[t]) = Len(runs[t]) - 1
         /\ \A u \in Threads \ {t} : runs'[u] = runs[u]
         /\ ending' \in [Threads -> Endings]
  <1>1. runs[t] \in Seq(Run) /\ runs[t] # << >> /\ runs \in [Threads -> Seq(Run)]
    BY DEF TypeOK, Inside
  <1>2. /\ Front(runs[t]) \in Seq(Run)
        /\ Len(runs[t]) \in Nat \ {0}
        /\ Len(Front(runs[t])) = Len(runs[t]) - 1
    BY <1>1, PopStack
  <1> QED BY <1>1, <1>2 DEF Release, TypeOK

LEMMA ReadType ==
  ASSUME NEW scope, NEW n, NEW run
  PROVE  ReadName(scope, n, run) \in Places
  BY DEF ReadName, Holds, Scan, Places, Scopes

LEMMA EnterType ==
  ASSUME TypeOK, NEW t \in Threads, NEW env \in Envs, Enter(t, env)
  PROVE  /\ runs' \in [Threads -> Seq(Run)]
         /\ Len(runs[t]) \in Nat
         /\ Len(runs'[t]) = Len(runs[t]) + 1
         /\ Last(runs'[t]) = [env |-> env, pending |-> Names, globals |-> {}]
         /\ \A u \in Threads \ {t} : runs'[u] = runs[u]
         /\ ending' \in [Threads -> Endings]
  <1> DEFINE new == [env |-> env, pending |-> Names, globals |-> {}]
  <1>1. runs[t] \in Seq(Run) /\ runs \in [Threads -> Seq(Run)] /\ new \in Run
    BY DEF TypeOK, Run
  <1>2. /\ Append(runs[t], new) \in Seq(Run)
        /\ Len(runs[t]) \in Nat
        /\ Len(Append(runs[t], new)) = Len(runs[t]) + 1
        /\ Last(Append(runs[t], new)) = new
    <2> HIDE DEF new
    <2> QED BY <1>1, PushStack
  <1>3. runs' = [runs EXCEPT ![t] = Append(runs[t], new)]
    BY DEF Enter
  <1>4. ending' \in [Threads -> Endings]
    BY DEF Enter, TypeOK, Endings
  <1> HIDE DEF new
  <1>5. /\ runs' \in [Threads -> Seq(Run)]
        /\ Len(runs'[t]) = Len(runs[t]) + 1
        /\ Last(runs'[t]) = new
        /\ \A u \in Threads \ {t} : runs'[u] = runs[u]
    BY <1>1, <1>2, <1>3
  <1> QED BY <1>2, <1>4, <1>5 DEF new

-----------------------------------------------------------------------------
LockInv == TypeOK /\ LockMirrorsRuns

LEMMA LockInit == ProgramInit => LockInv
  <1> SUFFICES ASSUME ProgramInit PROVE LockInv
    OBVIOUS
  <1>1. Len(<< >>) = 0 /\ << >> \in Seq(Run)
    OBVIOUS
  <1>2. \A t \in Threads : Len(runs[t]) = 0
    BY <1>1 DEF ProgramInit
  <1>3. LockMirrorsRuns
    BY <1>2, NobodyAssumption DEF ProgramInit, LockMirrorsRuns
  <1>4. TypeOK
    BY <1>1 DEF ProgramInit, TypeOK, Endings, Places
  <1> QED BY <1>3, <1>4 DEF LockInv

LEMMA LockStep == LockInv /\ [ProgramNext]_programVars => LockInv'
  <1> SUFFICES ASSUME LockInv, [ProgramNext]_programVars PROVE LockInv'
    OBVIOUS
  <1> USE DEF LockInv
  <1>1. ASSUME NEW t \in Threads, NEW env \in Envs, Enter(t, env) PROVE LockInv'
    <2>0. /\ runs' \in [Threads -> Seq(Run)]
          /\ Len(runs'[t]) = Len(runs[t]) + 1
          /\ \A u \in Threads \ {t} : runs'[u] = runs[u]
          /\ ending' \in [Threads -> Endings]
      BY <1>1, EnterType
    <2>1. TypeOK'
      BY <1>1, <2>0 DEF TypeOK, Enter
    <2>2. count = Len(runs[t]) /\ (\A u \in Threads \ {t} : Len(runs[u]) = 0)
      BY <1>1, NobodyAssumption DEF Enter, LockMirrorsRuns
    <2>3. LockMirrorsRuns'
      BY <1>1, <2>0, <2>2, NobodyAssumption DEF Enter, LockMirrorsRuns, TypeOK
    <2> QED BY <2>1, <2>3
  <1>2. ASSUME NEW t \in Threads, Refused(t) PROVE LockInv'
    BY <1>2 DEF Refused, TypeOK, Endings, LockMirrorsRuns
  <1>3. ASSUME NEW t \in Threads, NEW n \in Names, ResolveName(t, n) PROVE LockInv'
    <2>1. [Top(t) EXCEPT !.pending = @ \ {n}] \in Run
      BY <1>3, TopType DEF ResolveName, Run
    <2>2. TypeOK'
      BY <1>3, <2>1, AmendType DEF ResolveName, TypeOK, Classify, Scopes
    <2>3. LockMirrorsRuns'
      BY <1>3, <2>1, AmendType DEF ResolveName, LockMirrorsRuns
    <2> QED BY <2>2, <2>3
  <1>4. ASSUME NEW t \in Threads, NEW how \in Endings, Inside(t), Release(t, how)
        PROVE  LockInv'
    <2>0. /\ runs' \in [Threads -> Seq(Run)]
          /\ Len(runs[t]) \in Nat \ {0}
          /\ Len(runs'[t]) = Len(runs[t]) - 1
          /\ \A u \in Threads \ {t} : runs'[u] = runs[u]
          /\ ending' \in [Threads -> Endings]
      BY <1>4, ReleaseType
    <2>1. Len(runs[t]) = count /\ owner = t /\ count \in Nat \ {0}
      BY <2>0 DEF LockMirrorsRuns
    <2>2. TypeOK'
      BY <1>4, <2>0, <2>1 DEF TypeOK, Release
    <2>3. \A u \in Threads \ {t} : Len(runs'[u]) = 0
      BY <2>0, <2>1 DEF LockMirrorsRuns
    <2>4. count' = count - 1 /\ owner' = IF count = 1 THEN Nobody ELSE t
      BY <1>4, <2>1 DEF Release
    <2>5. owner' = Nobody <=> count' = 0
      BY <2>1, <2>4, NobodyAssumption
    <2>6. \A u \in Threads : Len(runs'[u]) = IF owner' = u THEN count' ELSE 0
      BY <2>0, <2>1, <2>3, <2>4, NobodyAssumption
    <2>7. LockMirrorsRuns'
      BY <2>5, <2>6 DEF LockMirrorsRuns
    <2> QED BY <2>2, <2>7
  <1>5. ASSUME NEW t \in Threads, ResolveFails(t) PROVE LockInv'
    BY <1>5, <1>4 DEF ResolveFails, Endings
  <1>6. ASSUME NEW t \in Threads, NEW n \in Assigned, Assign(t, n) PROVE LockInv'
    <2>1. [Top(t) EXCEPT !.globals = @ \cup {n}] \in Run
      BY <1>6, TopType DEF Assign, Running, Run
    <2>2. TypeOK'
      BY <1>6, <2>1, AmendType DEF Assign, Running, TypeOK
    <2>3. LockMirrorsRuns'
      BY <1>6, <2>1, AmendType DEF Assign, Running, LockMirrorsRuns
    <2> QED BY <2>2, <2>3
  <1>7. ASSUME NEW t \in Threads, NEW n \in Names, Read(t, n) PROVE LockInv'
    BY <1>7, ReadType DEF Read, TypeOK, LockMirrorsRuns
  <1>8. ASSUME NEW t \in Threads, Finish(t) PROVE LockInv'
    BY <1>8, <1>4 DEF Finish, Running, Endings
  <1>9. CASE UNCHANGED programVars
    BY <1>9 DEF programVars, TypeOK, LockMirrorsRuns
  <1> QED BY <1>1, <1>2, <1>3, <1>5, <1>6, <1>7, <1>8, <1>9 DEF ProgramNext

LEMMA LockInvariant == ProgramSpec => []LockInv
  <1> QED BY LockInit, LockStep, PTL DEF ProgramSpec

(* The lock is held by the thread that is inside the Program and counts    *)
(* the calls it is in, whatever fails (RLock use in Program.eval / exec).  *)
THEOREM LockCorrect == ProgramSpec => []LockMirrorsRuns
  <1>1. LockInv => LockMirrorsRuns
    BY DEF LockInv
  <1> QED BY <1>1, LockInvariant, PTL

(* At most one thread is inside the Program at a time.                     *)
THEOREM MutualExclusion ==
  ProgramSpec => [](\A t, u \in Threads : Inside(t) /\ Inside(u) => t = u)
  <1>1. LockInv => \A t, u \in Threads : Inside(t) /\ Inside(u) => t = u
    <2> SUFFICES ASSUME LockInv, NEW t \in Threads, NEW u \in Threads,
                        Inside(t), Inside(u)
                 PROVE  t = u
      OBVIOUS
    <2>1. Len(runs[t]) # 0 /\ Len(runs[u]) # 0
      BY EmptySeq DEF LockInv, TypeOK, Inside
    <2> QED BY <2>1 DEF LockInv, LockMirrorsRuns
  <1> QED BY <1>1, LockInvariant, PTL

-----------------------------------------------------------------------------
(* A global's binding says so once it has been resolved.                   *)
GlobalsStay == \A n \in Assigned : binding[n] \in {"unresolved", "global"}

LEMMA DisjointLookup ==
  ASSUME NEW env \in Envs, env.pre \cap env.uni = {},
         NEW run \in Run, run.env = env, NEW n \in Names,
         NEW scope \in Scopes \cup {"unresolved"},
         n \in Assigned => scope \in {"unresolved", "global"}
  PROVE  ReadName(scope, n, run) = ReadName(Classify(n, env), n, run)
  <1>1. run.globals \subseteq Assigned
    BY DEF Run
  <1> QED BY <1>1 DEF ReadName, Holds, Scan, Classify, Scopes

(* When no environment predeclares a name that is universal in it, every   *)
(* evaluation reads its own environment however the calls are nested and   *)
(* whatever the other environments are: the scan _read_name falls back to  *)
(* makes up for a binding that another call has overwritten.               *)
THEOREM DisjointReads ==
  ASSUME Disjoint
  PROVE  ProgramSpec => []ReadsOwnEnv
  <1> DEFINE I == LockInv /\ GlobalsStay /\ ReadsOwnEnv
  <1>1. ProgramInit => I
    <2>1. ProgramInit => GlobalsStay /\ ReadsOwnEnv
      BY AssignedAssumption DEF ProgramInit, GlobalsStay, ReadsOwnEnv
    <2> QED BY <2>1, LockInit
  <1>2. I /\ [ProgramNext]_programVars => I'
    <2> SUFFICES ASSUME I, [ProgramNext]_programVars PROVE GlobalsStay' /\ ReadsOwnEnv'
      BY LockStep
    <2>1. ASSUME NEW t \in Threads, NEW n \in Names, ResolveName(t, n)
          PROVE  GlobalsStay' /\ ReadsOwnEnv'
      BY <2>1, AssignedAssumption
         DEF ResolveName, GlobalsStay, ReadsOwnEnv, Classify, LockInv, TypeOK
    <2>2. ASSUME NEW t \in Threads, NEW n \in Names, Read(t, n)
          PROVE  GlobalsStay' /\ ReadsOwnEnv'
      <3>1. Top(t) \in Run /\ binding[n] \in Scopes \cup {"unresolved"}
        BY <2>2, TopType DEF Read, Running, LockInv, TypeOK
      <3>2. Top(t).env \in Envs /\ Top(t).env.pre \cap Top(t).env.uni = {}
        BY <3>1 DEF Run, Disjoint
      <3>3. n \in Assigned => binding[n] \in {"unresolved", "global"}
        BY DEF GlobalsStay
      <3>4. ReadName(binding[n], n, Top(t))
              = ReadName(Classify(n, Top(t).env), n, Top(t))
        BY <3>1, <3>2, <3>3, DisjointLookup
      <3> QED BY <2>2, <3>4 DEF Read, GlobalsStay, ReadsOwnEnv
    <2>3. CASE UNCHANGED <<binding, lookup>>
      BY <2>3 DEF GlobalsStay, ReadsOwnEnv
    <2> QED BY <2>1, <2>2, <2>3
            DEF ProgramNext, programVars, Enter, Refused, ResolveFails, Assign, Finish, Release
  <1>3. I => ReadsOwnEnv
    OBVIOUS
  <1> QED BY <1>1, <1>2, <1>3, PTL DEF ProgramSpec

-----------------------------------------------------------------------------
Flat == \A t \in Threads : Len(runs[t]) \in {0, 1}

(* The innermost run of a thread finds the bindings it has written.        *)
OwnBindings ==
  \A t \in Threads :
    Inside(t) => \A n \in Names \ Top(t).pending :
                   binding[n] = Classify(n, Top(t).env)

(* Without re-entry every evaluation reads its own environment, for any    *)
(* threads and any environments: the lock is enough.                       *)
THEOREM SequentialReads ==
  ASSUME MaxNesting = 1
  PROVE  ProgramSpec => []ReadsOwnEnv
  <1> DEFINE I == LockInv /\ Flat /\ OwnBindings /\ ReadsOwnEnv
  <1>1. ProgramInit => I
    <2>1. ProgramInit => OwnBindings /\ ReadsOwnEnv
      BY DEF ProgramInit, OwnBindings, Inside, ReadsOwnEnv
    <2>2. ProgramInit => Flat
      <3>1. Len(<< >>) = 0
        OBVIOUS
      <3> QED BY <3>1 DEF ProgramInit, Flat
    <2> QED BY <2>1, <2>2, LockInit
  <1>2. I /\ [ProgramNext]_programVars => I'
    <2> SUFFICES ASSUME I, [ProgramNext]_programVars PROVE Flat' /\ OwnBindings' /\ ReadsOwnEnv'
      BY LockStep
    <2>0. TypeOK
      BY DEF LockInv
    <2>1. ASSUME NEW t \in Threads, NEW env \in Envs, Enter(t, env)
          PROVE  Flat' /\ OwnBindings' /\ ReadsOwnEnv'
      <3>1. /\ Len(runs[t]) \in Nat
            /\ Len(runs'[t]) = Len(runs[t]) + 1
            /\ Last(runs'[t]) = [env |-> env, pending |-> Names, globals |-> {}]
            /\ \A u \in Threads \ {t} : runs'[u] = runs[u]
        BY <2>0, <2>1, EnterType
      <3>2. Len(runs[t]) = 0
        BY <2>1, <3>1 DEF Enter
      <3>3. Flat'
        BY <3>1, <3>2 DEF Flat
      <3>4. Top(t)'.pending = Names
        BY <3>1 DEF Top
      <3>5. binding' = binding
        BY <2>1 DEF Enter
      <3>6. OwnBindings'
        BY <3>1, <3>4, <3>5 DEF OwnBindings, Inside, Top
      <3> QED BY <2>1, <3>3, <3>6 DEF Enter, ReadsOwnEnv
    <2>2. ASSUME NEW t \in Threads, NEW n \in Names, ResolveName(t, n)
          PROVE  Flat' /\ OwnBindings' /\ ReadsOwnEnv'
      <3> DEFINE run == [Top(t) EXCEPT !.pending = @ \ {n}]
      <3>1. Top(t) \in Run /\ Inside(t)
        BY <2>0, <2>2, TopType DEF ResolveName
      <3>2. run \in Run /\ run.env = Top(t).env /\ run.pending = Top(t).pending \ {n}
        BY <3>1 DEF Run
      <3> HIDE DEF run
      <3>3. Amend(t, run)
        BY <2>2 DEF ResolveName, run
      <3>4. Top(t)' = run /\ (\A u \in Threads \ {t} : runs'[u] = runs[u])
        BY <2>0, <3>1, <3>2, <3>3, AmendType DEF Top
      <3>5. Flat'
        BY <2>0, <3>1, <3>2, <3>3, AmendType DEF Flat
      <3>6. \A u \in Threads \ {t} : ~Inside(u)'
        <4>1. \A u \in Threads : Inside(u) => Len(runs[u]) # 0
          BY <2>0, EmptySeq DEF TypeOK, Inside
        <4>2. \A u \in Threads \ {t} : ~Inside(u)
          BY <4>1, <3>1 DEF LockInv, LockMirrorsRuns
        <4> QED BY <4>2, <3>4 DEF Inside
      <3>7. \A m \in Names \ run.pending : binding'[m] = Classify(m, Top(t).env)
        BY <2>0, <2>2, <3>1, <3>2 DEF ResolveName, OwnBindings, TypeOK
      <3>8. OwnBindings'
        BY <3>2, <3>4, <3>6, <3>7 DEF OwnBindings
      <3> QED BY <2>2, <3>5, <3>8 DEF ResolveName, ReadsOwnEnv
    <2>3. ASSUME NEW t \in Threads, NEW how \in Endings, Inside(t), Release(t, how)
          PROVE  Flat' /\ OwnBindings' /\ ReadsOwnEnv'
      <3>0. /\ Len(runs[t]) \in Nat \ {0}
            /\ Len(runs'[t]) = Len(runs[t]) - 1
            /\ \A u \in Threads \ {t} : runs'[u] = runs[u]
        BY <2>0, <2>3, ReleaseType
      <3>1. Len(runs[t]) = 1 /\ Len(runs'[t]) = 0
        BY <3>0 DEF Flat
      <3>2. ~Inside(t)' /\ (\A u \in Threads \ {t} : runs'[u] = runs[u])
        <4>1. runs'[t] \in Seq(Run)
          BY <2>0, <2>3, ReleaseType
        <4> QED BY <4>1, <3>0, <3>1, EmptySeq DEF Inside
      <3>3. Flat'
        BY <3>1, <3>2 DEF Flat
      <3>4. OwnBindings'
        BY <2>3, <3>2 DEF OwnBindings, Inside, Top, Release
      <3> QED BY <2>3, <3>3, <3>4 DEF Release, ReadsOwnEnv
    <2>4. ASSUME NEW t \in Threads, NEW n \in Assigned, Assign(t, n)
          PROVE  Flat' /\ OwnBindings' /\ ReadsOwnEnv'
      <3> DEFINE run == [Top(t) EXCEPT !.globals = @ \cup {n}]
      <3>1. Top(t) \in Run /\ Inside(t)
        BY <2>0, <2>4, TopType DEF Assign, Running
      <3>2. run \in Run /\ run.env = Top(t).env /\ run.pending = Top(t).pending
        BY <3>1 DEF Run
      <3> HIDE DEF run
      <3>3. Amend(t, run)
        BY <2>4 DEF Assign, run
      <3>4. Top(t)' = run /\ (\A u \in Threads \ {t} : runs'[u] = runs[u])
        BY <2>0, <3>1, <3>2, <3>3, AmendType DEF Top
      <3>5. Flat'
        BY <2>0, <3>1, <3>2, <3>3, AmendType DEF Flat
      <3>6. OwnBindings'
        BY <2>4, <3>1, <3>2, <3>4 DEF OwnBindings, Assign, Inside, Top
      <3> QED BY <2>4, <3>5, <3>6 DEF Assign, ReadsOwnEnv
    <2>5. ASSUME NEW t \in Threads, NEW n \in Names, Read(t, n)
          PROVE  Flat' /\ OwnBindings' /\ ReadsOwnEnv'
      <3>1. binding[n] = Classify(n, Top(t).env)
        BY <2>5 DEF Read, Running, OwnBindings
      <3> QED BY <2>5, <3>1 DEF Read, Flat, OwnBindings, Inside, Top, ReadsOwnEnv
    <2>6. CASE UNCHANGED <<runs, binding, lookup>>
      BY <2>6 DEF Flat, OwnBindings, Inside, Top, ReadsOwnEnv
    <2> QED BY <2>1, <2>2, <2>3, <2>4, <2>5, <2>6
            DEF ProgramNext, programVars, Refused, ResolveFails, Finish, Running, Endings
  <1>3. I => ReadsOwnEnv
    OBVIOUS
  <1> QED BY <1>1, <1>2, <1>3, PTL DEF ProgramSpec
=============================================================================
