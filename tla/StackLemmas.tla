---------------------------- MODULE StackLemmas ----------------------------
(* Facts about sequences used as stacks: pushing, popping and replacing    *)
(* the last element; and the least and the greatest of some numbers.       *)
EXTENDS Integers, SequencesExt, SequenceTheorems, WellFoundedInduction, TLAPS

(* What pushing and popping do to a stack.                                 *)
LEMMA PushStack ==
  ASSUME NEW S, NEW s \in Seq(S), NEW x \in S
  PROVE  LET t == Append(s, x)
         IN /\ t \in Seq(S)
            /\ t # << >>
            /\ Len(t) = Len(s) + 1
            /\ Len(s) \in Nat
            /\ \A i \in 1..Len(s) : t[i] = s[i]
            /\ t[Len(s) + 1] = x
            /\ Last(t) = x
  BY AppendProperties DEF Last

LEMMA PopStack ==
  ASSUME NEW S, NEW s \in Seq(S), s # << >>
  PROVE  LET t == Front(s)
         IN /\ t \in Seq(S)
            /\ Len(s) \in Nat \ {0}
            /\ Len(t) = Len(s) - 1
            /\ \A i \in 1..Len(t) : t[i] = s[i]
            /\ Last(s) = s[Len(s)]
            /\ Last(s) \in S
            /\ t # << >> => Last(t) = s[Len(s) - 1]
            /\ t = << >> <=> Len(s) = 1
  <1>1. Len(s) \in Nat \ {0} /\ s[Len(s)] \in S
    BY EmptySeq, LenProperties, ElementOfSeq
  <1>2. \A i \in 1..(Len(s) - 1) : s[i] \in S
    BY <1>1, ElementOfSeq
  <1>3. /\ Front(s) \in Seq(S)
        /\ Len(Front(s)) = Len(s) - 1
        /\ \A i \in 1..(Len(s) - 1) : Front(s)[i] = s[i]
    <2> DEFINE n == Len(s) - 1
    <2>1. n \in Int /\ (\A i \in 1..n : s[i] \in S)
      BY <1>1, <1>2
    <2>2. /\ SubSeq(s, 1, n) \in Seq(S)
          /\ Len(SubSeq(s, 1, n)) = IF 1 <= n THEN n - 1 + 1 ELSE 0
          /\ \A i \in 1..(n - 1 + 1) : SubSeq(s, 1, n)[i] = s[1 + i - 1]
      <3> HIDE DEF n
      <3> QED BY <2>1, SubSeqProperties
    <2>3. n \in Nat
      BY <1>1
    <2>4. Front(s) = SubSeq(s, 1, n)
      BY DEF Front
    <2> HIDE DEF n
    <2>5. /\ Len(SubSeq(s, 1, n)) = n
          /\ \A i \in 1..n : SubSeq(s, 1, n)[i] = s[i]
      BY <2>2, <2>3
    <2>6. /\ Front(s) \in Seq(S)
          /\ Len(Front(s)) = n
          /\ \A i \in 1..n : Front(s)[i] = s[i]
      BY <2>2, <2>4, <2>5
    <2> QED BY <2>6 DEF n
  <1>4. Front(s) = << >> <=> Len(s) = 1
    BY <1>1, <1>3, EmptySeq
  <1>5. Front(s) # << >> => Last(Front(s)) = s[Len(s) - 1]
    BY <1>1, <1>3, <1>4 DEF Last
  <1> QED BY <1>1, <1>3, <1>4, <1>5 DEF Last

LEMMA FrontType ==
  ASSUME NEW S, NEW s \in Seq(S)
  PROVE  Front(s) \in Seq(S)
  <1>1. CASE s = << >>
    BY <1>1, SubSeqEmpty, EmptySeq DEF Front
  <1>2. CASE s # << >>
    BY <1>2, PopStack
  <1> QED BY <1>1, <1>2

LEMMA ReplaceTop ==
  ASSUME NEW S, NEW s \in Seq(S), s # << >>, NEW x \in S
  PROVE  LET t == Append(Front(s), x)
         IN /\ t \in Seq(S)
            /\ t # << >>
            /\ Len(t) = Len(s)
            /\ Last(t) = x
            /\ \A i \in 1..Len(s)-1 : t[i] = s[i]
  <1>1. /\ Front(s) \in Seq(S) /\ Len(Front(s)) = Len(s) - 1 /\ Len(s) \in Nat
        /\ \A i \in 1..Len(Front(s)) : Front(s)[i] = s[i]
    BY PopStack
  <1> QED BY <1>1, PushStack
-----------------------------------------------------------------------------
LEMMA Smallest ==
  ASSUME NEW T, T \subseteq Nat, T # {}
  PROVE  \E x \in T : \A y \in T : x <= y
  <1>1. PICK x \in T : \A y \in T : <<y, x>> \notin OpToRel(<, Nat)
    BY WFMin, NatLessThanWellFounded, Zenon
  <1>2. \A y \in T : ~(y < x)
    BY <1>1, Zenon DEF OpToRel
  <1>3. x \in Nat /\ (\A y \in T : y \in Nat)
    BY Zenon
  <1>4. \A y \in T : x <= y
    BY <1>2, <1>3
  <1> QED BY <1>4, Zenon

LEMMA Largest ==
  ASSUME NEW k \in Nat, NEW T, T \subseteq 1..k, T # {}
  PROVE  \E x \in T : \A y \in T : y <= x
  <1> DEFINE U == {u \in 0..k : k - u \in T}
  <1>1. U \subseteq Nat
    OBVIOUS
  <1>2. \A x \in T : x \in 1..k /\ k - x \in U
    OBVIOUS
  <1>3. U # {}
    BY <1>2
  <1>4. PICK u \in U : \A y \in U : u <= y
    <2> HIDE DEF U
    <2> QED BY <1>1, <1>3, Smallest
  <1>5. u \in 0..k /\ k - u \in T
    OBVIOUS
  <1>6. \A y \in T : u <= k - y
    BY <1>2, <1>4
  <1>7. \A y \in T : y <= k - u
    BY <1>2, <1>5, <1>6
  <1> QED BY <1>5, <1>7
=============================================================================
