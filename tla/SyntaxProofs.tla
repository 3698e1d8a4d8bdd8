----------------------------- MODULE SyntaxProofs ----------------------------
(***************************************************************************)
(* Proofs about Lexer: for every source, the scanner stays within it, and  *)
(* the INDENTs and OUTDENTs it returns balance.  The argument counts: the  *)
(* levels that are open in the tokens returned so far, and those that the  *)
(* scanner still owes, are together the levels on its stack.               *)
(*                                                                         *)
(* And about Parser, which drives it: whatever functions the parser is in, *)
(* a step of theirs leaves the scanner alone and touches the errors and    *)
(* the recovery in one of few ways; what has to be proved follows from     *)
(* those ways.  The functions that have entered are counted on the stack   *)
(* of goals: a step adds one and enters, takes one off and leaves, gives   *)
(* up the parse, or does neither.                                          *)
(*                                                                         *)
(* Then what the tokens are to the text: a step of the scanner passes over *)
(* white space or a comment, or returns a token that begins where that     *)
(* ends; in a string, it has passed no mark that could have ended it.      *)
(*                                                                         *)
(* Last, what they are to its lines: the stack of levels is what the lines *)
(* above say of a column.  Whatever column the next line has, the highest  *)
(* level that is not further right is that of the nearest line that is     *)
(* not further right, so a line's level is known before it has a token.    *)
(***************************************************************************)
EXTENDS Parser, StackLemmas, FiniteSetTheorems

(* The levels on the stack are those open in the tokens and those owed.    *)
LevelsOwed ==
  /\ indents[1] = 0
  /\ Level + dents = Len(indents) - 1

Inv == LexTypeOK /\ LevelsOwed /\ LayoutBalanced

-----------------------------------------------------------------------------
LEMMA PeekIn ==
  ASSUME LexTypeOK, NEW k \in Nat, Peek(k) # "end"
  PROVE  /\ pos + k <= Len(source) /\ Len(source) \in Nat /\ pos \in Nat
         /\ Peek(k) = source[pos + k] /\ Peek(k) \in Chars
  BY DEF LexTypeOK, Peek

LEMMA PosType ==
  ASSUME LexTypeOK
  PROVE  Len(source) \in Nat /\ pos \in Nat /\ first \in Nat /\ pos + 0 = pos
         /\ pos <= Len(source) + 1
  BY DEF LexTypeOK

LEMMA HereIn ==
  ASSUME LexTypeOK, Here # "end"
  PROVE  /\ pos + 1 \in 1 .. Len(source) + 1 /\ Len(source) \in Nat /\ pos \in Nat
         /\ Here \in Chars
  BY PeekIn DEF LexTypeOK, Here

LEMMA LevelType ==
  ASSUME LexTypeOK
  PROVE  Level \in Int /\ out \in Seq(Token) /\ Len(out) \in Nat
  <1>1. out \in Seq(Token)
    BY DEF LexTypeOK
  <1>2. out # << >> => out[Len(out)] \in Token
    BY <1>1, PopStack
  <1> QED BY <1>1, <1>2 DEF Level, Token

LEMMA EmitType ==
  ASSUME LexTypeOK, NEW kind \in Kinds, NEW from \in Nat, pos' \in Nat,
         Emit(kind, from)
  PROVE  /\ out' \in Seq(Token) /\ Len(out') = Len(out) + 1 /\ Len(out) \in Nat
         /\ \A i \in 1 .. Len(out) : out'[i] = out[i]
         /\ out'[Len(out')].kind = kind
         /\ out'[Len(out')].level = Level'
         /\ Level' = CASE kind = "INDENT"  -> Level + 1
                       [] kind = "OUTDENT" -> Level - 1
                       [] OTHER            -> Level
  <1> DEFINE new == [kind |-> kind, first |-> from, next |-> pos',
                     level |-> CASE kind = "INDENT"  -> Level + 1
                                 [] kind = "OUTDENT" -> Level - 1
                                 [] OTHER            -> Level]
  <1>1. new \in Token
    BY LevelType DEF Token
  <1>2. out' = Append(out, new)
    BY DEF Emit
  <1>3. new.kind = kind /\ new.level = CASE kind = "INDENT"  -> Level + 1
                                        [] kind = "OUTDENT" -> Level - 1
                                        [] OTHER            -> Level
    OBVIOUS
  <1> HIDE DEF new
  <1>4. /\ out' \in Seq(Token) /\ out' # << >> /\ Len(out') = Len(out) + 1
        /\ Len(out) \in Nat /\ out'[Len(out) + 1] = new
        /\ \A i \in 1 .. Len(out) : out'[i] = out[i]
    BY <1>1, <1>2, LevelType, PushStack
  <1>5. Level' = out'[Len(out')].level
    BY <1>4 DEF Level
  <1> QED BY <1>3, <1>4, <1>5

(* The tokens stay balanced as long as no level is closed that is not open *)
(* and all are closed at EOF.                                              *)
LEMMA EmitBalanced ==
  ASSUME LexTypeOK, LayoutBalanced, NEW kind \in Kinds, NEW from \in Nat, pos' \in Nat,
         Emit(kind, from), Level' >= 0, kind = "EOF" => Level' = 0
  PROVE  LayoutBalanced'
  <1>1. DOMAIN out = 1 .. Len(out) /\ DOMAIN out' = 1 .. Len(out')
    BY EmitType, LevelType
  <1>2. /\ Len(out') = Len(out) + 1 /\ Len(out) \in Nat
        /\ \A i \in 1 .. Len(out) : out'[i] = out[i]
        /\ out'[Len(out')].kind = kind /\ out'[Len(out')].level = Level'
    BY EmitType
  <1>3. ASSUME NEW i \in DOMAIN out'
        PROVE  out'[i].level >= 0 /\ (out'[i].kind = "EOF" => out'[i].level = 0)
    <2>1. CASE i = Len(out')
      BY <1>2, <2>1
    <2>2. CASE i \in 1 .. Len(out)
      BY <1>1, <1>2, <2>2 DEF LayoutBalanced
    <2> QED BY <1>1, <1>2, <2>1, <2>2
  <1> QED BY <1>3 DEF LayoutBalanced

LEMMA LevelNotNegative ==
  ASSUME LexTypeOK, LayoutBalanced
  PROVE  Level >= 0
  <1>1. out # << >> => Len(out) \in DOMAIN out
    BY PopStack, LevelType
  <1> QED BY <1>1 DEF Level, LayoutBalanced

LEMMA ErrorType ==
  ASSUME LexTypeOK, NEW yes \in BOOLEAN, Error(yes)
  PROVE  errors' \in Seq(Reports)
  <1>1. errors \in Seq(Reports)
    BY DEF LexTypeOK
  <1>a. "lexer" \in Reports
    BY DEF Reports
  <1>2. Append(errors, "lexer") \in Seq(Reports)
    BY ONLY <1>1, <1>a, PushStack
  <1> QED BY <1>1, <1>2 DEF Error

(* What has to be shown of a step of the scanner.                          *)
LEMMA StepType ==
  ASSUME LexTypeOK, source' = source, pos' \in 1 .. Len(source) + 1, mode' \in Modes,
         first' \in 1 .. pos', lit' \in [triple : BOOLEAN, raw : BOOLEAN, float : BOOLEAN],
         indent' \in Nat, indents' \in Seq(Nat), indents' # << >>, dents' \in Int,
         depth' \in Nat, out' \in Seq(Token), errors' \in Seq(Reports)
  PROVE  LexTypeOK'
  BY DEF LexTypeOK

LEMMA SkipType ==
  ASSUME LexTypeOK, NEW k \in Nat, NEW m \in Modes, Skip(k, m), pos + k <= Len(source) + 1,
         indent' \in Nat, indents' \in Seq(Nat), indents' # << >>, dents' \in Int,
         errors' \in Seq(Reports)
  PROVE  LexTypeOK'
  <1>1. pos' \in 1 .. Len(source) + 1 /\ first \in 1 .. pos'
    BY PosType DEF Skip, LexTypeOK
  <1> QED BY <1>1, StepType DEF Skip, LexTypeOK

(* A step that returns nothing and leaves the layout alone.                *)
LEMMA Quiet ==
  ASSUME Inv, UNCHANGED <<out, indents, dents>>
  PROVE  LevelsOwed' /\ LayoutBalanced'
  BY DEF Inv, LevelsOwed, LayoutBalanced, Level
-----------------------------------------------------------------------------
(* Steps that return no token.                                             *)
LEMMA LayoutSteps ==
  ASSUME Inv, Indentation \/ StartComment \/ Comment \/ Settle \/ Dedent
  PROVE  Inv'
  <1> USE DEF Inv
  <1>0. /\ indents \in Seq(Nat) /\ indents # << >> /\ indent \in Nat /\ indents[1] = 0
        /\ dents \in Int /\ errors \in Seq(Reports)
        /\ Level \in Int /\ Level + dents = Len(indents) - 1
    BY LevelType DEF LexTypeOK, LevelsOwed
  <1>1. CASE Indentation
    <2>1. Skip(1, "layout") /\ Here # "end" /\ indent' \in Nat /\ Error(Here = "tab")
          /\ UNCHANGED <<indents, dents>>
      BY <1>0, <1>1 DEF Indentation, Blanks
    <2>2. errors' \in Seq(Reports)
      BY <2>1, ErrorType
    <2>3. LexTypeOK'
      BY <1>0, <2>1, <2>2, HereIn, PosType, SkipType DEF Modes
    <2> QED BY <2>1, <2>3, Quiet DEF Skip
  <1>2. CASE StartComment
    <2>1. PICK m \in {"layoutComment", "comment"} : Skip(1, m)
      BY <1>2 DEF StartComment
    <2>2. Here # "end" /\ UNCHANGED <<errors, indent, indents, dents>>
      BY <1>2 DEF StartComment, Layout
    <2>3. LexTypeOK'
      BY <1>0, <2>1, <2>2, HereIn, PosType, SkipType DEF Modes
    <2> QED BY <2>1, <2>2, <2>3, Quiet DEF Skip
  <1>3. CASE Comment
    <2>1. PICK k \in {0, 1}, m \in Modes : Skip(k, m) /\ (k = 1 => Here # "end")
      BY <1>3 DEF Comment, Modes
    <2>2. indent' \in Nat /\ UNCHANGED <<errors, indents, dents>>
      BY <1>0, <1>3 DEF Comment
    <2>3. pos + k <= Len(source) + 1
      BY <2>1, HereIn, PosType
    <2>4. LexTypeOK'
      BY <1>0, <2>1, <2>2, <2>3, SkipType
    <2> QED BY <2>1, <2>2, <2>4, Quiet DEF Skip
  <1>4. CASE Settle
    <2>1. Measured \in Nat
      BY <1>0 DEF Measured
    <2>a. /\ Append(indents, Measured) \in Seq(Nat) /\ Append(indents, Measured) # << >>
          /\ Len(Append(indents, Measured)) = Len(indents) + 1
          /\ \A i \in 1 .. Len(indents) : Append(indents, Measured)[i] = indents[i]
      BY ONLY <1>0, <2>1, PushStack
    <2>b. Len(indents) \in Nat \ {0}
      BY ONLY <1>0, PopStack
    <2>2. /\ Append(indents, Measured) \in Seq(Nat) /\ Append(indents, Measured) # << >>
          /\ Len(Append(indents, Measured)) = Len(indents) + 1
          /\ Len(indents) \in Nat \ {0}
          /\ Append(indents, Measured)[1] = indents[1]
      BY <2>a, <2>b
    <2>3. PICK m \in Modes :
          /\ Skip(0, m) /\ indent' \in Nat /\ UNCHANGED errors
          /\ \/ indents' = Append(indents, Measured) /\ dents' = dents + 1
             \/ UNCHANGED <<indents, dents>>
      BY <1>4, <2>1 DEF Settle, Modes
    <2>4. /\ indents' \in Seq(Nat) /\ indents' # << >> /\ dents' \in Int
          /\ indents'[1] = 0 /\ Len(indents') \in Nat
          /\ Len(indents') - dents' = Len(indents) - dents
      <3>1. CASE indents' = Append(indents, Measured) /\ dents' = dents + 1
        BY <1>0, <2>2, <3>1
      <3>2. CASE UNCHANGED <<indents, dents>>
        BY <1>0, <2>2, <3>2
      <3> QED BY <2>3, <3>1, <3>2
    <2>5. pos + 0 <= Len(source) + 1 /\ errors' \in Seq(Reports)
      BY <1>0, <2>3, PosType
    <2>6. LexTypeOK'
      BY <2>3, <2>4, <2>5, SkipType
    <2>7. out' = out /\ Level' = Level
      BY <2>3 DEF Skip, Level
    <2>8. LevelsOwed'
      <3>1. Len(indents) \in Int /\ Len(indents') \in Int
        BY ONLY <2>2, <2>4
      <3>2. Level' + dents' = Len(indents') - 1
        BY ONLY <1>0, <2>4, <2>7, <3>1, SMTT(30)
      <3> QED BY ONLY <2>4, <3>2 DEF LevelsOwed
    <2> QED BY <2>6, <2>7, <2>8 DEF LayoutBalanced
  <1>5. CASE Dedent
    <2>1. CASE Top > indent
      <3>1. Len(indents) \in Nat /\ Len(indents) > 1
        BY <1>0, <2>1, PopStack DEF Top
      <3>2. Front(indents) = SubSeq(indents, 1, Len(indents) - 1)
        BY DEF Front
      <3>3. indents' = Front(indents) /\ dents' = dents - 1 /\ Skip(0, "dedent")
            /\ UNCHANGED <<indent, errors>>
        BY <1>5, <2>1, <3>2 DEF Dedent
      <3>a. /\ Front(indents) \in Seq(Nat) /\ Len(Front(indents)) = Len(indents) - 1
            /\ \A i \in 1 .. Len(Front(indents)) : Front(indents)[i] = indents[i]
            /\ Front(indents) = << >> <=> Len(indents) = 1
        BY ONLY <1>0, PopStack
      <3>4. Front(indents)[1] = indents[1] /\ Front(indents) # << >>
        BY <3>1, <3>a
      <3>5. LexTypeOK'
        BY <1>0, <3>3, <3>4, <3>a, PosType, SkipType DEF Modes
      <3>6. out' = out /\ Level' = Level
        BY <3>3 DEF Skip, Level
      <3>7. LevelsOwed'
        <4>1. Len(indents') = Len(indents) - 1 /\ dents' = dents - 1 /\ indents'[1] = 0
          BY ONLY <1>0, <3>3, <3>4, <3>a
        <4>2. Level' + dents' = Len(indents') - 1
          BY ONLY <1>0, <3>1, <3>6, <4>1
        <4> QED BY ONLY <4>1, <4>2 DEF LevelsOwed
      <3> QED BY <3>5, <3>6, <3>7 DEF LayoutBalanced
    <2>2. CASE ~ (Top > indent)
      <3>1. Error(Top < indent) /\ Skip(0, "scan") /\ UNCHANGED <<indent, indents, dents>>
        BY <1>5, <2>2 DEF Dedent
      <3>2. errors' \in Seq(Reports)
        BY <3>1, (Top < indent) \in BOOLEAN, ErrorType
      <3>3. LexTypeOK'
        BY <1>0, <3>1, <3>2, PosType, SkipType DEF Modes
      <3> QED BY <3>1, <3>3, Quiet DEF Skip
    <2> QED BY <2>1, <2>2
  <1> QED BY <1>1, <1>2, <1>3, <1>4, <1>5

LEMMA StayType ==
  ASSUME Inv, NEW k \in Nat, NEW m \in Modes, Stay(k, m), pos + k <= Len(source) + 1
  PROVE  Inv'
  <1>1. LexTypeOK'
    BY SkipType DEF Inv, LexTypeOK, Stay, Layout
  <1> QED BY <1>1, Quiet DEF Inv, Stay, Skip, Layout

LEMMA StartType ==
  ASSUME Inv, NEW k \in Nat, NEW m \in Modes, pos + k <= Len(source) + 1,
         NEW how \in [triple : BOOLEAN, raw : BOOLEAN, float : BOOLEAN], Start(k, m, how)
  PROVE  Inv'
  <1>1. pos' \in 1 .. Len(source) + 1 /\ first' \in 1 .. pos'
    BY PosType DEF Start, Inv, LexTypeOK
  <1>2. LexTypeOK'
    BY <1>1, StepType DEF Inv, LexTypeOK, Start, Layout
  <1> QED BY <1>2, Quiet DEF Inv, Start, Layout

(* Steps that return one token, none of them of the layout.                *)
LEMMA TokenStep ==
  ASSUME Inv, NEW kind \in Kinds \ {"INDENT", "OUTDENT", "EOF"}, NEW from \in Nat,
         Emit(kind, from), pos' \in 1 .. Len(source) + 1, first' \in 1 .. pos',
         mode' \in Modes, lit' = lit, indent' \in Nat, UNCHANGED <<source, indents, dents>>,
         depth' \in Nat, errors' \in Seq(Reports)
  PROVE  Inv'
  <1>1. pos' \in Nat /\ kind \in Kinds
    BY PosType DEF Inv
  <1>2. out' \in Seq(Token) /\ Level' = Level /\ Level \in Int /\ Level >= 0
    BY <1>1, EmitType, LevelType, LevelNotNegative DEF Inv
  <1>3. LexTypeOK'
    BY <1>2, StepType DEF Inv, LexTypeOK
  <1>4. LayoutBalanced'
    BY <1>1, <1>2, EmitBalanced DEF Inv
  <1> QED BY <1>2, <1>3, <1>4 DEF Inv, LevelsOwed

LEMMA FinishType ==
  ASSUME Inv, NEW kind \in {"IDENTIFIER", "STRING", "INT", "FLOAT"} \cup Words,
         NEW k \in Nat, Finish(kind, k), pos + k <= Len(source) + 1,
         errors' \in Seq(Reports)
  PROVE  Inv'
  <1>1. pos' \in 1 .. Len(source) + 1 /\ first' \in 1 .. pos' /\ first \in Nat
    BY PosType DEF Finish, Inv, LexTypeOK
  <1>2. kind \in Kinds \ {"INDENT", "OUTDENT", "EOF"}
    BY DEF Kinds, Words
  <1> QED BY <1>1, <1>2, TokenStep DEF Inv, LexTypeOK, Finish, Layout, Modes

LEMMA ScanInv ==
  ASSUME Inv
  PROVE  /\ LexTypeOK /\ pos \in Nat /\ first \in 1 .. pos /\ depth \in Nat /\ indent \in Nat
         /\ Len(source) \in Nat /\ pos <= Len(source) + 1 /\ mode \in Modes
         /\ errors \in Seq(Reports) /\ dents \in Int /\ indents \in Seq(Nat)
         /\ indents # << >> /\ Len(indents) \in Nat \ {0} /\ indents[1] = 0
         /\ Level \in Int /\ Level >= 0 /\ Level + dents = Len(indents) - 1
  <1>1. Len(indents) \in Nat \ {0}
    BY PopStack DEF Inv, LexTypeOK
  <1> QED BY <1>1, PosType, LevelType, LevelNotNegative DEF Inv, LexTypeOK, LevelsOwed

(* The layout's own tokens, and the end of the source.                     *)
LEMMA DentStep ==
  ASSUME Inv, Dent
  PROVE  Inv'
  <1> DEFINE kind == IF dents < 0 THEN "OUTDENT" ELSE "INDENT"
             from == IF pos = 1 THEN 1 ELSE pos - 1
  <1>1. /\ LexTypeOK /\ LayoutBalanced /\ dents \in Int /\ dents # 0
        /\ kind \in Kinds /\ from \in Nat
    BY ScanInv DEF Inv, Dent, Kinds, LexTypeOK
  <1>2. /\ Emit(kind, from) /\ pos' = pos /\ pos' \in Nat
        /\ dents' = IF dents < 0 THEN dents + 1 ELSE dents - 1
        /\ UNCHANGED <<source, mode, first, lit, indent, indents, depth, errors>>
    BY ScanInv DEF Dent
  <1>3. kind = (IF dents < 0 THEN "OUTDENT" ELSE "INDENT")
    OBVIOUS
  <1> HIDE DEF kind, from
  <1>4. /\ out' \in Seq(Token)
        /\ Level' = CASE kind = "INDENT"  -> Level + 1
                      [] kind = "OUTDENT" -> Level - 1
                      [] OTHER            -> Level
    BY <1>1, <1>2, EmitType
  <1>5. Level' + dents' = Level + dents /\ Level' >= 0 /\ dents' \in Int
    <2>0. Level \in Int /\ Level >= 0 /\ Len(indents) \in Nat \ {0} /\ dents \in Int
          /\ Level + dents = Len(indents) - 1
      BY ScanInv
    <2>1. CASE dents < 0
      <3>1. kind = "OUTDENT" /\ dents' = dents + 1
        BY <1>2, <1>3, <2>1
      <3>2. Level' = Level - 1
        BY <1>4, <3>1
      <3> QED BY <2>0, <2>1, <3>1, <3>2
    <2>2. CASE ~ (dents < 0)
      <3>1. kind = "INDENT" /\ dents' = dents - 1
        BY <1>2, <1>3, <2>2
      <3>2. Level' = Level + 1
        BY <1>4, <3>1
      <3> QED BY <2>0, <2>2, <3>1, <3>2
    <2> QED BY <2>1, <2>2
  <1>6. LexTypeOK'
    BY <1>2, <1>4, <1>5, StepType, ScanInv DEF LexTypeOK
  <1>7. LayoutBalanced'
    BY <1>1, <1>2, <1>3, <1>5, EmitBalanced
  <1> QED BY <1>2, <1>5, <1>6, <1>7, ScanInv DEF Inv, LevelsOwed

LEMMA EndStep ==
  ASSUME Inv, End
  PROVE  Inv'
  <1>1. /\ pos' = pos /\ pos \in Nat /\ dents = 0 /\ Level = Len(indents) - 1
        /\ UNCHANGED <<source, mode, first, lit, indent, depth, errors>>
    BY ScanInv DEF End
  <1>2. CASE Len(indents) > 1
    <2> DEFINE from == IF pos = 1 THEN 1 ELSE pos - 1
    <2>1. /\ indents' = <<0>> /\ dents' = 1 - Len(indents) /\ Emit("NEWLINE", from)
          /\ from \in Nat /\ "NEWLINE" \in Kinds
      BY <1>1, <1>2, ScanInv DEF End, Kinds
    <2> HIDE DEF from
    <2>2. out' \in Seq(Token) /\ Level' = Level
      BY <1>1, <2>1, EmitType DEF Inv
    <2>3. indents' \in Seq(Nat) /\ indents' # << >> /\ Len(indents') = 1 /\ indents'[1] = 0
      BY <2>1
    <2>4. dents' \in Int /\ Level' + dents' = Len(indents') - 1 /\ Level' >= 0
      BY <1>1, <2>1, <2>2, <2>3, ScanInv
    <2>5. LexTypeOK'
      BY <1>1, <2>2, <2>3, <2>4, StepType, ScanInv DEF LexTypeOK
    <2>6. LayoutBalanced'
      BY <1>1, <2>1, <2>4, EmitBalanced DEF Inv
    <2> QED BY <2>3, <2>4, <2>5, <2>6 DEF Inv, LevelsOwed
  <1>3. CASE ~ (Len(indents) > 1)
    <2>1. PICK kind \in {"EOF", "NEWLINE"} :
            Emit(kind, pos) /\ UNCHANGED <<indents, dents>>
      BY <1>3 DEF End
    <2>2. Level = 0 /\ kind \in Kinds
      BY <1>1, <1>3, <2>1, ScanInv DEF Kinds
    <2>3. out' \in Seq(Token) /\ Level' = 0
      BY <1>1, <2>1, <2>2, EmitType DEF Inv
    <2>4. LexTypeOK'
      BY <1>1, <2>1, <2>3, StepType, ScanInv DEF LexTypeOK
    <2>5. LayoutBalanced'
      BY <1>1, <2>1, <2>2, <2>3, EmitBalanced DEF Inv
    <2> QED BY <1>1, <2>1, <2>2, <2>3, <2>4, <2>5, ScanInv DEF Inv, LevelsOwed
  <1> QED BY <1>2, <1>3

-----------------------------------------------------------------------------
(* Steps that return one sign.                                             *)
LEMMA SignStep ==
  ASSUME Inv, NEW kind \in Kinds \ {"INDENT", "OUTDENT", "EOF"}, Emit(kind, pos),
         pos' \in pos .. Len(source) + 1, mode' \in Modes, indent' \in Nat,
         UNCHANGED <<source, first, lit, indents, dents>>, depth' \in Nat,
         errors' \in Seq(Reports)
  PROVE  Inv'
  <1>1. pos' \in 1 .. Len(source) + 1 /\ first' \in 1 .. pos' /\ pos \in Nat
    BY ScanInv, SMTT(30)
  <1> QED BY <1>1, TokenStep

LEMMA OpLengthIn ==
  ASSUME Inv, Here # "end"
  PROVE  OpLength \in {1, 2, 3} /\ pos + OpLength <= Len(source) + 1
  <1>1. /\ pos + 1 <= Len(source) + 1
        /\ Peek(1) # "end" => pos + 2 <= Len(source) + 1
        /\ Peek(2) # "end" => pos + 3 <= Len(source) + 1
        /\ Len(source) \in Nat /\ pos \in Nat
    BY HereIn, PeekIn DEF Inv
  <1>2. CASE Here \in EqualSigns /\ Peek(1) = "="
    BY <1>1, <1>2 DEF OpLength
  <1>3. CASE ~ (Here \in EqualSigns /\ Peek(1) = "=") /\ Here = "*" /\ Peek(1) = "*"
    BY <1>1, <1>3 DEF OpLength
  <1>4. CASE /\ ~ (Here \in EqualSigns /\ Peek(1) = "=") /\ ~ (Here = "*" /\ Peek(1) = "*")
             /\ Here \in Doubled /\ Peek(1) = Here
    <2>1. OpLength = IF Peek(2) = "=" THEN 3 ELSE 2
      BY <1>4 DEF OpLength
    <2> QED BY <1>1, <1>4, <2>1
  <1>5. CASE /\ ~ (Here \in EqualSigns /\ Peek(1) = "=") /\ ~ (Here = "*" /\ Peek(1) = "*")
             /\ ~ (Here \in Doubled /\ Peek(1) = Here)
    <2>1. OpLength = 1
      BY <1>5 DEF OpLength
    <2> QED BY <1>1, <2>1
  <1> QED BY <1>2, <1>3, <1>4, <1>5

LEMMA OpKindIn ==
  ASSUME Here \in Signs \/ (Here = "!" /\ Peek(1) = "=")
  PROVE  OpKind(OpLength) \in Kinds \ {"INDENT", "OUTDENT", "EOF"}
  <1> DEFINE named == {"aug=", "cmp", "**", "mul", "shift", "bit"}
  <1>1. CASE Here \in Signs
    <2>1. OpKind(OpLength) \in named \cup {Here}
      BY DEF OpKind
    <2> QED BY <1>1, <2>1 DEF Kinds, Signs, EqualSigns
  <1>2. CASE Here = "!" /\ Peek(1) = "="
    <2>1. OpLength = 2
      BY <1>2 DEF OpLength, EqualSigns
    <2>2. OpKind(2) = "cmp"
      BY <1>2 DEF OpKind
    <2> QED BY <2>1, <2>2 DEF Kinds, Words, Opening, Closing, Signs, EqualSigns
  <1> QED BY <1>1, <1>2

LEMMA SignSteps ==
  ASSUME Inv, Operator \/ Bracket \/ Newline \/ Illegal \/ Dot
  PROVE  Inv'
  <1>0. pos \in Nat /\ depth \in Nat /\ indent \in Nat /\ errors \in Seq(Reports)
        /\ mode \in Modes /\ LexTypeOK
    BY ScanInv
  <1>1. CASE Operator
    <2>1. Here # "end" /\ (Here \in Signs \/ (Here = "!" /\ Peek(1) = "="))
      BY <1>1 DEF Operator, Signs, EqualSigns
    <2>2. /\ pos' = pos + OpLength /\ Emit(OpKind(OpLength), pos)
          /\ UNCHANGED <<source, mode, first, lit, depth, errors, indent, indents, dents>>
      BY <1>1 DEF Operator, Layout
    <2>3. pos' \in pos .. Len(source) + 1
      BY <1>0, <2>1, <2>2, OpLengthIn, PosType
    <2> QED BY <1>0, <2>1, <2>2, <2>3, OpKindIn, SignStep
  <1>2. CASE Bracket
    <2>1. Here # "end" /\ Here \in Kinds \ {"INDENT", "OUTDENT", "EOF"}
      BY <1>2 DEF Bracket, Opening, Closing, Kinds
    <2>2. /\ pos' = pos + 1 /\ Emit(Here, pos) /\ Error(Here \in Closing /\ depth = 0)
          /\ UNCHANGED <<source, mode, first, lit, indent, indents, dents>>
      BY <1>2 DEF Bracket, Layout
    <2>3. depth' \in Nat
      BY <1>0, <1>2 DEF Bracket
    <2>4. errors' \in Seq(Reports)
      BY <1>0, <2>2, ErrorType
    <2>5. pos' \in pos .. Len(source) + 1
      BY <1>0, <2>1, <2>2, HereIn
    <2> QED BY <1>0, <2>1, <2>2, <2>3, <2>4, <2>5, SignStep
  <1>3. CASE Newline
    <2>1. /\ Here = "nl" /\ pos' = pos + 1 /\ mode' = "layout" /\ indent' = 0
          /\ Emit("NEWLINE", pos) /\ UNCHANGED <<source, first, lit, indents, dents, depth, errors>>
          /\ "NEWLINE" \in Kinds
      BY <1>3 DEF Newline, Kinds
    <2>2. pos' \in pos .. Len(source) + 1
      BY <1>0, <2>1, HereIn
    <2> QED BY <1>0, <2>1, <2>2, SignStep DEF Modes
  <1>4. CASE Illegal
    <2>1. /\ Here # "end" /\ pos' = pos + 1 /\ Error(TRUE) /\ Emit("ILLEGAL", pos)
          /\ UNCHANGED <<source, mode, first, lit, depth, indent, indents, dents>>
          /\ "ILLEGAL" \in Kinds
      BY <1>4 DEF Illegal, Layout, Kinds
    <2>2. pos' \in pos .. Len(source) + 1
      BY <1>0, <2>1, HereIn
    <2>3. errors' \in Seq(Reports)
      BY <1>0, <2>1, TRUE \in BOOLEAN, ErrorType
    <2> QED BY <1>0, <2>1, <2>2, <2>3, SignStep
  <1>5. CASE Dot
    <2>1. /\ Here = "." /\ pos' = pos + 1 /\ Emit(".", pos)
          /\ UNCHANGED <<source, mode, first, lit, depth, errors, indent, indents, dents>>
          /\ "." \in Kinds
      BY <1>5 DEF Dot, Layout, Kinds
    <2>2. pos' \in pos .. Len(source) + 1
      BY <1>0, <2>1, HereIn
    <2> QED BY <1>0, <2>1, <2>2, SignStep
  <1> QED BY <1>1, <1>2, <1>3, <1>4, <1>5

-----------------------------------------------------------------------------
(* Blanks, and steps in the middle of a word, a string or a number.        *)
LEMMA BlankStep ==
  ASSUME Inv, Blank
  PROVE  Inv'
  <1>0. LexTypeOK /\ Blank => UNCHANGED <<errors, indent, indents, dents>>
    BY DEF Blank, Layout
  <1>1. Continued > 0 => Continued \in {2, 3} /\ pos + Continued <= Len(source) + 1
    <2>1. /\ Peek(1) # "end" => pos + 2 <= Len(source) + 1
          /\ Peek(2) # "end" => pos + 3 <= Len(source) + 1
      BY PeekIn, PosType DEF Inv
    <2> QED BY <2>1 DEF Continued
  <1>2. PICK k \in {1, 2, 3} : Skip(k, "scan") /\ pos + k <= Len(source) + 1
    <2>1. CASE Here \in Blanks \cup {"nl"} /\ Skip(1, "scan")
      BY <2>1, HereIn DEF Inv, Blanks
    <2>2. CASE Continued > 0 /\ Skip(Continued, "scan")
      BY <1>1, <2>2
    <2> QED BY <2>1, <2>2 DEF Blank
  <1> QED BY <1>0, <1>2, ScanInv, StayType DEF Stay, Layout, Modes

LEMMA WordSteps ==
  ASSUME Inv, StartWord \/ Word
  PROVE  Inv'
  <1>0. LexTypeOK /\ pos \in Nat /\ Len(source) \in Nat /\ pos + 0 <= Len(source) + 1
        /\ errors \in Seq(Reports)
    BY ScanInv
  <1>1. CASE StartWord
    <2>1. Here # "end" /\ Start(1, "word", Plain)
      BY <1>1 DEF StartWord, Letters, Words
    <2>2. pos + 1 <= Len(source) + 1
      BY <1>0, <2>1, HereIn
    <2> QED BY <2>1, <2>2, StartType DEF Modes, Plain
  <1>2. CASE Word
    <2>1. CASE Here \in Letters \cup Words \cup Digits
      <3>1. Here # "end" /\ Stay(1, "word")
        BY <1>2, <2>1 DEF Word, Letters, Words, Digits
      <3> QED BY <1>0, <3>1, HereIn, StayType DEF Modes
    <2>2. CASE ~ (Here \in Letters \cup Words \cup Digits)
      <3>1. PICK kind \in {"IDENTIFIER"} \cup Words : Finish(kind, 0) /\ UNCHANGED errors
        BY <1>2, <2>2 DEF Word
      <3> QED BY <1>0, <3>1, FinishType
    <2> QED BY <2>1, <2>2
  <1> QED BY <1>1, <1>2

LEMMA EscapeLengthIn ==
  ASSUME Inv, Here # "end"
  PROVE  EscapeLength \in {1, 2, 3} /\ pos + EscapeLength <= Len(source) + 1
  <1> DEFINE ended == Here = "cr" /\ Peek(1) = "nl"
             hex   == ~ lit.raw /\ Here = "x" /\ {Peek(1), Peek(2)} \subseteq HexDigits
             octal == ~ lit.raw /\ Octals > 0
  <1>1. /\ pos + 1 <= Len(source) + 1
        /\ Peek(1) # "end" => pos + 2 <= Len(source) + 1
        /\ Peek(2) # "end" => pos + 3 <= Len(source) + 1
        /\ Len(source) \in Nat /\ pos \in Nat
    BY HereIn, PeekIn DEF Inv
  <1>2. "end" \notin HexDigits /\ "end" \notin Digits
    BY DEF HexDigits, Digits
  <1>3. Octals \in {0, 1, 2, 3} /\ pos + Octals <= Len(source) + 1
    BY <1>1, <1>2 DEF Octals
  <1>4. CASE ended
    <2>1. EscapeLength = 2
      BY <1>4 DEF EscapeLength, Octals, Digits
    <2> QED BY <1>1, <1>4, <2>1
  <1>5. CASE hex
    <2>1. EscapeLength = 3
      BY <1>5 DEF EscapeLength, Octals, Digits
    <2> QED BY <1>1, <1>2, <1>5, <2>1
  <1>6. CASE octal
    <2>1. EscapeLength = Octals
      BY <1>6 DEF EscapeLength, Octals, Digits
    <2> QED BY <1>1, <1>3, <1>6, <2>1
  <1>7. CASE ~ ended /\ ~ hex /\ ~ octal
    <2>1. EscapeLength = 1
      BY <1>7 DEF EscapeLength
    <2> QED BY <1>1, <2>1
  <1> HIDE DEF ended, hex, octal
  <1> QED BY <1>4, <1>5, <1>6, <1>7

LEMMA StringSteps ==
  ASSUME Inv, StartString \/ String \/ Escape
  PROVE  Inv'
  <1>0. /\ LexTypeOK /\ pos \in Nat /\ Len(source) \in Nat /\ pos + 0 <= Len(source) + 1
        /\ indent \in Nat /\ indents \in Seq(Nat) /\ indents # << >> /\ dents \in Int
        /\ Here # "end" => pos + 1 <= Len(source) + 1
        /\ Peek(1) # "end" => pos + 2 <= Len(source) + 1
        /\ Peek(2) # "end" => pos + 3 <= Len(source) + 1
        /\ Peek(3) # "end" => pos + 4 <= Len(source) + 1
    <2>1. LexTypeOK /\ pos \in Nat /\ Len(source) \in Nat
      BY ScanInv
    <2>2. Here # "end" => pos + 1 <= Len(source) + 1
      BY <2>1, HereIn
    <2>3. /\ Peek(1) # "end" => pos + 2 <= Len(source) + 1
          /\ Peek(2) # "end" => pos + 3 <= Len(source) + 1
          /\ Peek(3) # "end" => pos + 4 <= Len(source) + 1
      BY <2>1, 1 \in Nat, 2 \in Nat, 3 \in Nat, PeekIn
    <2> QED BY <2>1, <2>2, <2>3, ScanInv
  <1>1. CASE StartString
    <2>1. PICK k \in {1, 2, 3, 4}, how \in [triple : BOOLEAN, raw : BOOLEAN, float : BOOLEAN] :
            Start(k, "string", how) /\ pos + k <= Len(source) + 1
      <3> DEFINE n == IF Here = "r" THEN 2 ELSE 1
                 triple == Peek(n) = "q" /\ Peek(n + 1) = "q"
                 how == [triple |-> triple, raw |-> Here = "r", float |-> FALSE]
      <3>1. Start(IF triple THEN n + 2 ELSE n, "string", how)
        BY <1>1 DEF StartString
      <3>2. how \in [triple : BOOLEAN, raw : BOOLEAN, float : BOOLEAN]
        OBVIOUS
      <3>3. CASE Here = "r"
        <4>1. Peek(1) = "q" /\ n = 2 /\ n + 1 = 3 /\ n + 2 = 4
          BY <1>1, <3>3 DEF StartString
        <4> QED BY <1>0, <3>1, <3>2, <4>1
      <3>4. CASE Here # "r"
        <4>1. Here = "q" /\ n = 1 /\ n + 1 = 2 /\ n + 2 = 3
          BY <1>1, <3>4 DEF StartString
        <4> QED BY <1>0, <3>1, <3>2, <4>1
      <3> QED BY <3>3, <3>4
    <2> QED BY <2>1, StartType DEF Modes
  <1>2. CASE String
    <2>1. CASE Here = "end" \/ (Here = "nl" /\ ~ lit.triple)
      <3>1. Finish("STRING", IF Here = "end" THEN 0 ELSE 1) /\ Error(TRUE)
        BY <1>2, <2>1 DEF String
      <3>2. errors' \in Seq(Reports)
        BY <1>0, <3>1, TRUE \in BOOLEAN, ErrorType
      <3>3. PICK k \in {0, 1} : Finish("STRING", k) /\ pos + k <= Len(source) + 1
        BY <1>0, <3>1
      <3> QED BY <3>2, <3>3, FinishType
    <2>2. CASE Here = "q" /\ ~ lit.triple
      <3>1. Finish("STRING", 1) /\ Error(FALSE)
        BY <1>2, <2>2 DEF String
      <3>2. errors' \in Seq(Reports)
        BY <1>0, <3>1, FALSE \in BOOLEAN, ErrorType
      <3> QED BY <1>0, <2>2, <3>1, <3>2, FinishType
    <2>3. CASE Here = "q" /\ lit.triple /\ Peek(1) = "q" /\ Peek(2) = "q"
      <3>1. Finish("STRING", 3) /\ Error(FALSE)
        BY <1>2, <2>3 DEF String
      <3>2. errors' \in Seq(Reports)
        BY <1>0, <3>1, FALSE \in BOOLEAN, ErrorType
      <3> QED BY <1>0, <2>3, <3>1, <3>2, FinishType
    <2>4. CASE Here = "bs"
      <3>1. Stay(1, "escape")
        BY <1>2, <2>4 DEF String
      <3> QED BY <1>0, <2>4, <3>1, StayType DEF Modes
    <2>5. CASE /\ ~ (Here = "end" \/ (Here = "nl" /\ ~ lit.triple))
               /\ ~ (Here = "q" /\ ~ lit.triple) /\ Here # "bs"
               /\ ~ (Here = "q" /\ lit.triple /\ Peek(1) = "q" /\ Peek(2) = "q")
      <3>1. Stay(1, "string")
        BY <1>2, <2>5 DEF String
      <3> QED BY <1>0, <2>5, <3>1, StayType DEF Modes
    <2> QED BY <2>1, <2>2, <2>3, <2>4, <2>5
  <1>3. CASE Escape
    <2>1. CASE Here = "end"
      <3>1. Finish("STRING", 0) /\ Error(TRUE)
        BY <1>3, <2>1 DEF Escape
      <3>2. errors' \in Seq(Reports)
        BY <1>0, <3>1, TRUE \in BOOLEAN, ErrorType
      <3> QED BY <1>0, <3>1, <3>2, FinishType
    <2>2. CASE Here # "end"
      <3>1. Skip(EscapeLength, "string") /\ Error(EscapeBad) /\ UNCHANGED <<indent, indents, dents>>
        BY <1>3, <2>2 DEF Escape, Layout
      <3>2. errors' \in Seq(Reports)
        BY <1>0, <3>1, EscapeBad \in BOOLEAN, ErrorType DEF EscapeBad
      <3>3. LexTypeOK'
        BY <1>0, <2>2, <3>1, <3>2, EscapeLengthIn, SkipType DEF Modes
      <3> QED BY <3>1, <3>3, Quiet DEF Inv, Skip
    <2> QED BY <2>1, <2>2
  <1> QED BY <1>1, <1>2, <1>3

LEMMA NumberSteps ==
  ASSUME Inv, StartNumber \/ Number
  PROVE  Inv'
  <1> DEFINE Kind == [triple : BOOLEAN, raw : BOOLEAN, float : BOOLEAN]
  <1>0. /\ LexTypeOK /\ pos \in Nat /\ Len(source) \in Nat /\ pos + 0 <= Len(source) + 1
        /\ lit \in Kind /\ mode \in Modes
    BY ScanInv DEF LexTypeOK
  <1>1. /\ Here # "end" => pos + 1 <= Len(source) + 1
        /\ Peek(1) # "end" => pos + 2 <= Len(source) + 1
    <2>1. Here # "end" => pos + 1 <= Len(source) + 1
      BY <1>0, HereIn
    <2>2. Peek(1) # "end" => pos + 2 <= Len(source) + 1
      BY <1>0, 1 \in Nat, PeekIn
    <2> QED BY <2>1, <2>2
  <1>2. CASE StartNumber
    <2>1. PICK k \in {1, 2}, m \in Modes, how \in Kind :
            Start(k, m, how) /\ pos + k <= Len(source) + 1
      BY <1>0, <1>1, <1>2 DEF StartNumber, Plain, Modes, Digits
    <2> QED BY <2>1, StartType
  <1>3. ASSUME NEW k \in Nat, NEW m \in Modes, InFloat(k, m), pos + k <= Len(source) + 1
        PROVE  Inv'
    <2>a. pos' \in 1 .. Len(source) + 1 /\ first' \in 1 .. pos'
      BY <1>0, <1>3 DEF InFloat, LexTypeOK
    <2>b. lit' \in Kind
      BY <1>0, <1>3 DEF InFloat
    <2>1. pos' \in 1 .. Len(source) + 1 /\ first' \in 1 .. pos' /\ lit' \in Kind
      BY <2>a, <2>b
    <2>2. LexTypeOK'
      BY <1>0, <1>3, <2>1, StepType DEF LexTypeOK, InFloat, Layout
    <2> QED BY <1>3, <2>2, Quiet DEF Inv, InFloat, Layout
  <1>4. ASSUME NEW kind \in {"INT", "FLOAT"}, Finish(kind, 0), NEW yes \in BOOLEAN, Error(yes)
        PROVE  Inv'
    <2>1. errors' \in Seq(Reports)
      BY <1>0, <1>4, ErrorType
    <2> QED BY <1>0, <1>4, <2>1, FinishType
  <1>5. CASE Number
    <2>1. CASE /\ mode = "radix"
               /\ IF Here \in HexDigits THEN Stay(1, mode)
                  ELSE Finish("INT", 0) /\ Error(pos = first + 2)
      <3>1. CASE Here \in HexDigits
        BY <1>0, <1>1, <2>1, <3>1, StayType DEF HexDigits, Digits
      <3>2. CASE Here \notin HexDigits
        BY <1>4, <2>1, <3>2, (pos = first + 2) \in BOOLEAN
      <3> QED BY <3>1, <3>2
    <2>2. CASE /\ mode \in {"digits", "fraction", "exponent"} /\ Here \in Digits
               /\ Stay(1, mode)
      BY <1>0, <1>1, <2>2, StayType DEF Digits
    <2>3. CASE mode = "digits" /\ Here = "." /\ InFloat(1, "fraction")
      BY <1>0, <1>1, <1>3, <2>3 DEF Modes
    <2>4. CASE mode \in {"digits", "fraction"} /\ Here = "e" /\ InFloat(ExponentMark, "exponent")
      <3>1. ExponentMark \in {1, 2} /\ pos + ExponentMark <= Len(source) + 1
        BY <1>0, <1>1, <2>4 DEF ExponentMark
      <3> QED BY <1>3, <2>4, <3>1 DEF Modes
    <2>5. CASE mode = "digits" /\ Finish("INT", 0) /\ Error(LeadingZero)
      BY <1>4, <2>5, LeadingZero \in BOOLEAN DEF LeadingZero
    <2>6. CASE mode = "fraction" /\ Finish("FLOAT", 0) /\ Error(FALSE)
      BY <1>4, <2>6, FALSE \in BOOLEAN
    <2>7. CASE mode = "exponent" /\ Finish("FLOAT", 0) /\ Error(source[pos - 1] \notin Digits)
      BY <1>4, <2>7, (source[pos - 1] \notin Digits) \in BOOLEAN
    <2>8. "." \notin Digits /\ "e" \notin Digits
      BY DEF Digits
    <2> QED BY <1>5, <2>1, <2>2, <2>3, <2>4, <2>5, <2>6, <2>7, <2>8 DEF Number
  <1> QED BY <1>2, <1>5

-----------------------------------------------------------------------------
(* Every step of the scanner keeps the invariant.                          *)
LEMMA LexStepKeeps ==
  ASSUME Inv, LexStep
  PROVE  Inv'
  BY LayoutSteps, DentStep, EndStep, SignSteps, BlankStep, WordSteps, StringSteps,
     NumberSteps DEF LexStep

LEMMA StutterKeeps ==
  ASSUME Inv, UNCHANGED lexVars
  PROVE  Inv'
  <1>1. LexTypeOK'
    BY DEF Inv, LexTypeOK, lexVars
  <1> QED BY <1>1, Quiet DEF Inv, lexVars

LEMMA LexInitInv ==
  ASSUME LexInit
  PROVE  Inv
  <1>1. source \in Seq(Chars) /\ Len(source) \in Nat
    BY SourcesAssumption DEF LexInit
  <1>2. LexTypeOK
    BY <1>1 DEF LexInit, LexTypeOK, Plain, Modes
  <1>3. LevelsOwed /\ LayoutBalanced
    BY DEF LexInit, LevelsOwed, LayoutBalanced, Level
  <1> QED BY <1>2, <1>3 DEF Inv

LEMMA LexInvariant == LexSpec => []Inv
  <1>1. LexInit => Inv
    BY LexInitInv
  <1>2. Inv /\ [LexStep]_lexVars => Inv'
    BY LexStepKeeps, StutterKeeps
  <1> QED BY <1>1, <1>2, PTL DEF LexSpec

(* Whatever the source, the scanner never reads outside it, and every      *)
(* token, level and error it writes is one of those it has.                *)
THEOREM LexTypeCorrect == LexSpec => []LexTypeOK
  <1>1. Inv => LexTypeOK
    BY DEF Inv
  <1> QED BY <1>1, LexInvariant, PTL

(* Whatever the source, the scanner returns no OUTDENT without an INDENT   *)
(* before it, and all INDENTs are undone when it returns EOF.              *)
THEOREM Balanced == LexSpec => []LayoutBalanced
  <1>1. Inv => LayoutBalanced
    BY DEF Inv
  <1> QED BY <1>1, LexInvariant, PTL

-----------------------------------------------------------------------------

(* What the step of any function of the parser may do to the rest.         *)
Mild ==
  /\ UNCHANGED Rest
  /\ errors' = errors \/ errors' \in {Capped("syntax"), Capped("note"), Capped("deep")}
  /\ recovery' \in {recovery, FALSE} \/ Complain

(* A parse that has ended does nothing any more, and reports nothing.      *)
Ended ==
  /\ attempt \in {"expression", "file"}
  /\ Over => todo = << >> /\ tok # "none" /\ ((result = "syntax") <=> (errors # << >>))

ParserInv == Inv /\ RecoveryReported /\ Ended

-----------------------------------------------------------------------------
(* The ways a step ends are mild, whatever the goals.                      *)
LEMMA ConsumeMild == ASSUME NEW gs, Consume(gs) PROVE Mild
  BY DEF Consume, Mild
LEMMA ThenMild == ASSUME NEW gs, Then(gs) PROVE Mild
  BY DEF Then, Mild
LEMMA ValueMild == ASSUME NEW gs, NEW isName, Value(gs, isName) PROVE Mild
  BY DEF Value, Mild
LEMMA NoteMild == ASSUME NEW gs, Note(gs) PROVE Mild
  BY DEF Note, Mild
LEMMA FailMild == ASSUME NEW gs, Fail(gs) PROVE Mild
  BY DEF Fail, Complain, Mild
LEMMA EnterMild == ASSUME NEW gs, Enter(gs) PROVE Mild
  BY DEF Enter, Mild

LEMMA ParseStepMild ==
  ASSUME ParseStep
  PROVE  Mild /\ todo # << >> /\ tok # "none"
  <1> USE ConsumeMild, ThenMild, ValueMild, NoteMild, FailMild, EnterMild DEF Is
  <1>1. CASE ExpectToken
    BY <1>1 DEF ExpectToken, Complain, Mild
  <1>2. CASE Sync
    BY <1>2 DEF Sync
  <1>3. CASE Skipped
    BY <1>3 DEF Skipped
  <1>4. CASE Marked
    BY <1>4 DEF Marked, Mild
  <1>5. CASE Leave
    BY <1>5 DEF Leave, Mild
  <1>6. CASE File
    BY <1>6 DEF File
  <1>7. CASE Newlines
    BY <1>7 DEF Newlines
  <1>8. CASE Statement
    BY <1>8 DEF Statement
  <1>9. CASE Elifs
    BY <1>9 DEF Elifs
  <1>10. CASE Simple
    BY <1>10 DEF Simple
  <1>11. CASE Small
    BY <1>11 DEF Small
  <1>12. CASE LoadStatement
    BY <1>12 DEF LoadStatement
  <1>13. CASE Parameters
    BY <1>13 DEF Parameters
  <1>14. CASE Suite
    BY <1>14 DEF Suite
  <1>15. CASE ExprList
    BY <1>15 DEF ExprList
  <1>16. CASE Test
    BY <1>16 DEF Test
  <1>17. CASE Precedence
    BY <1>17 DEF Precedence
  <1>18. CASE Binop
    BY <1>18 DEF Binop, Complain, Mild
  <1>19. CASE Primary
    BY <1>19 DEF Primary
  <1>20. CASE Slice
    BY <1>20 DEF Slice
  <1>21. CASE Arguments
    BY <1>21 DEF Arguments
  <1>22. CASE Paren
    BY <1>22 DEF Paren
  <1>23. CASE ListMaker
    BY <1>23 DEF ListMaker
  <1>24. CASE DictMaker
    BY <1>24 DEF DictMaker
  <1>25. CASE LoopVars
    BY <1>25 DEF LoopVars
  <1>26. CASE Comprehension
    BY <1>26 DEF Comprehension
  <1>27. CASE Literal
    BY <1>27 DEF Literal
  <1> QED BY <1>1, <1>2, <1>3, <1>4, <1>5, <1>6, <1>7, <1>8, <1>9, <1>10, <1>11, <1>12, <1>13,
             <1>14, <1>15, <1>16, <1>17, <1>18, <1>19, <1>20, <1>21, <1>22, <1>23, <1>24, <1>25,
             <1>26, <1>27 DEF ParseStep

-----------------------------------------------------------------------------
(* What a mild step keeps.                                                 *)
LEMMA CappedType ==
  ASSUME errors \in Seq(Reports), NEW e \in Reports
  PROVE  Capped(e) \in Seq(Reports) /\ Capped(e) # << >>
  <1>1. MaxErrors \in Nat \ {0}
    BY LimitsAssumption
  <1>2. CASE Len(errors) >= MaxErrors
    <2>1. errors # << >>
      BY <1>1, <1>2
    <2> QED BY <1>2, <2>1 DEF Capped
  <1>3. CASE ~ (Len(errors) >= MaxErrors)
    <2>1. Append(errors, e) \in Seq(Reports) /\ Append(errors, e) # << >>
      BY ONLY errors \in Seq(Reports), e \in Reports, PushStack
    <2> QED BY <1>3, <2>1 DEF Capped
  <1> QED BY <1>2, <1>3

(* Errors are never taken back while a source is parsed.                   *)
LEMMA MildKeeps ==
  ASSUME ParserInv, ParseStep
  PROVE  ParserInv'
  <1>1. Mild /\ todo # << >> /\ errors \in Seq(Reports)
    BY ParseStepMild, ScanInv DEF ParserInv
  <1>2. /\ errors' \in Seq(Reports) /\ (errors # << >> => errors' # << >>)
        /\ errors' \in {Capped("syntax"), Capped("note"), Capped("deep")} => errors' # << >>
    <2>1. {"syntax", "note", "deep"} \subseteq Reports
      BY DEF Reports
    <2> QED BY <1>1, <2>1, CappedType DEF Mild
  <1>3. UNCHANGED <<source, pos, mode, first, lit, indent, indents, dents, depth, out, attempt,
                   result>>
    BY <1>1 DEF Mild, Rest, Layout
  <1>4. Inv'
    <2>1. LexTypeOK'
      BY <1>2, <1>3 DEF ParserInv, Inv, LexTypeOK
    <2> QED BY <1>3, <2>1, Quiet DEF ParserInv, Inv
  <1>5. RecoveryReported'
    <2>1. CASE recovery' \in {recovery, FALSE}
      BY <1>2, <2>1 DEF ParserInv, RecoveryReported
    <2>2. CASE Complain
      BY <1>1, <1>2, <2>2 DEF ParserInv, RecoveryReported, Complain
    <2> QED BY <1>1, <2>1, <2>2 DEF Mild
  <1>6. Ended'
    BY <1>1, <1>3 DEF ParserInv, Ended, Over
  <1> QED BY <1>4, <1>5, <1>6 DEF ParserInv

(* The scanner only adds to the errors.                                    *)
LEMMA LexErrors ==
  ASSUME LexStep
  PROVE  errors' = errors \/ errors' = Append(errors, "lexer")
  <1> USE DEF Error, Layout, Skip, Stay, Start, Finish, InFloat
  <1>1. CASE Indentation
    BY <1>1 DEF Indentation
  <1>2. CASE StartComment
    BY <1>2 DEF StartComment
  <1>3. CASE Comment
    BY <1>3 DEF Comment
  <1>4. CASE Settle
    BY <1>4 DEF Settle
  <1>5. CASE Dedent
    BY <1>5 DEF Dedent
  <1>6. CASE Dent
    BY <1>6 DEF Dent
  <1>7. CASE Operator
    BY <1>7 DEF Operator
  <1>8. CASE Bracket
    BY <1>8 DEF Bracket
  <1>9. CASE Blank
    BY <1>9 DEF Blank
  <1>10. CASE Newline
    BY <1>10 DEF Newline
  <1>11. CASE Illegal
    BY <1>11 DEF Illegal
  <1>12. CASE End
    BY <1>12 DEF End
  <1>13. CASE StartWord
    BY <1>13 DEF StartWord
  <1>14. CASE Word
    BY <1>14 DEF Word
  <1>15. CASE StartString
    BY <1>15 DEF StartString
  <1>16. CASE String
    BY <1>16 DEF String
  <1>17. CASE Escape
    BY <1>17 DEF Escape
  <1>18. CASE StartNumber
    BY <1>18 DEF StartNumber
  <1>19. CASE Dot
    BY <1>19 DEF Dot
  <1>20. CASE Number
    BY <1>20 DEF Number
  <1> QED BY <1>1, <1>2, <1>3, <1>4, <1>5, <1>6, <1>7, <1>8, <1>9, <1>10, <1>11, <1>12, <1>13,
             <1>14, <1>15, <1>16, <1>17, <1>18, <1>19, <1>20 DEF LexStep

LEMMA ScanKeeps ==
  ASSUME ParserInv, Scan
  PROVE  ParserInv'
  <1>1. /\ LexStep /\ tok = "none" /\ UNCHANGED <<attempt, todo, tok, recovery, result>>
        /\ errors \in Seq(Reports)
    BY ScanInv DEF Scan, parserVars, ParserInv
  <1>2. Inv'
    BY <1>1, LexStepKeeps DEF ParserInv
  <1>3. errors # << >> => errors' # << >>
    <2>1. "lexer" \in Reports
      BY DEF Reports
    <2>2. Append(errors, "lexer") # << >>
      BY ONLY <1>1, <2>1, PushStack
    <2> QED BY <1>1, <2>2, LexErrors
  <1> QED BY <1>1, <1>2, <1>3 DEF ParserInv, RecoveryReported, Ended, Over

LEMMA FetchKeeps ==
  ASSUME ParserInv, Fetch
  PROVE  ParserInv'
  <1>1. /\ tok = "none" /\ errors \in Seq(Reports)
        /\ errors' = errors \/ errors' = Capped("forbidden")
        /\ UNCHANGED <<source, pos, mode, first, lit, indent, indents, dents, depth, out,
                       attempt, todo, recovery, result>>
    BY ScanInv DEF Fetch, ParserInv
  <1>2. errors' \in Seq(Reports) /\ (errors # << >> => errors' # << >>)
    BY <1>1, CappedType DEF Reports
  <1>3. LexTypeOK'
    BY <1>1, <1>2 DEF ParserInv, Inv, LexTypeOK
  <1>4. Inv'
    BY <1>1, <1>3, Quiet DEF ParserInv, Inv
  <1> QED BY <1>1, <1>2, <1>4 DEF ParserInv, RecoveryReported, Ended, Over

(* The second parse of "auto" begins with a scanner of its own.            *)
LEMMA RetryKeeps ==
  ASSUME ParserInv, Retry
  PROVE  ParserInv'
  <1>1. source \in Seq(Chars) /\ Len(source) \in Nat
    BY DEF ParserInv, Inv, LexTypeOK
  <1>2. LexTypeOK'
    BY <1>1 DEF Retry, LexTypeOK, Plain, Modes
  <1>3. LevelsOwed' /\ LayoutBalanced'
    BY DEF Retry, LevelsOwed, LayoutBalanced, Level
  <1>4. RecoveryReported' /\ Ended'
    BY DEF Retry, RecoveryReported, Ended, Over
  <1> QED BY <1>2, <1>3, <1>4 DEF ParserInv, Inv

LEMMA EndKeeps ==
  ASSUME ParserInv, Succeed \/ Reject \/ UNCHANGED vars
  PROVE  ParserInv'
  <1>1. UNCHANGED <<lexVars, attempt, todo, tok, recovery>>
    BY DEF Succeed, Reject, vars, parserVars
  <1>2. Inv'
    BY <1>1, StutterKeeps DEF ParserInv
  <1>3. UNCHANGED errors
    BY <1>1 DEF lexVars
  <1>4. Ended'
    <2>a. attempt \in {"expression", "file"}
      BY DEF ParserInv, Ended
    <2>1. CASE Succeed
      <3>1. attempt # "syntax"
        BY <2>a
      <3> QED BY <1>1, <1>3, <2>a, <2>1, <3>1 DEF Succeed, Ended, Over
    <2>2. CASE Reject
      BY <1>1, <1>3, <2>a, <2>2 DEF Reject, Ended, Over
    <2>3. CASE UNCHANGED vars
      <3>1. UNCHANGED <<attempt, todo, tok, result, errors>>
        BY <1>1, <1>3, <2>3 DEF vars, parserVars
      <3> QED BY <3>1 DEF ParserInv, Ended, Over
    <2> QED BY <2>1, <2>2, <2>3
  <1> QED BY <1>1, <1>2, <1>3, <1>4 DEF ParserInv, RecoveryReported

-----------------------------------------------------------------------------
LEMMA ParserInvariant == Spec => []ParserInv
  <1>1. Init => ParserInv
    BY LexInitInv DEF Init, StartParser, ParserInv, RecoveryReported, Ended, Over
  <1>2. ParserInv /\ [Step]_vars => ParserInv'
    BY MildKeeps, ScanKeeps, FetchKeeps, RetryKeeps, EndKeeps DEF Step
  <1> QED BY <1>1, <1>2, PTL DEF Spec

(* The INDENTs and OUTDENTs balance under the parser as well, which stops  *)
(* asking for tokens wherever an error takes it and may start over.        *)
THEOREM BalancedUnderParser == Spec => []LayoutBalanced
  <1>1. ParserInv => LayoutBalanced
    BY DEF ParserInv, Inv
  <1> QED BY <1>1, ParserInvariant, PTL

(* For every source and every limit, the parser recovers only from errors  *)
(* that are in the list: recovery never hides that a parse went wrong.     *)
THEOREM RecoveryIsReported == Spec => []RecoveryReported
  <1>1. ParserInv => RecoveryReported
    BY DEF ParserInv
  <1> QED BY <1>1, ParserInvariant, PTL

(* compile refuses exactly the sources something was reported for, and no  *)
(* error is reported after it has returned.                                *)
THEOREM VerdictFollowsReports == Spec => [](Over => ((result = "syntax") <=> (errors # << >>)))
  <1>1. ParserInv => (Over => ((result = "syntax") <=> (errors # << >>)))
    BY DEF ParserInv, Ended
  <1> QED BY <1>1, ParserInvariant, PTL

-----------------------------------------------------------------------------
(* The goals of functions that do not leave.  An else clause has the goal  *)
(* for what follows it as its argument.                                    *)
Ordinary(g)    == g[1] # "leave" /\ (g[1] = "else_clause" => g[2] # "leave")
OrdinaryOnly(gs) == \E G : gs \in Seq(G) /\ \A g \in G : Ordinary(g)
Goals(gs)      == \E G : gs \in Seq(G) /\ \A g \in G : Ordinary(g) \/ g = Goal("leave")

(* What a function does that neither enters nor leaves.                    *)
Regular ==
  /\ todo # << >> /\ Ordinary(todo[1]) /\ nesting' = nesting
  /\ \E gs : OrdinaryOnly(gs) /\ Do(gs)

LEMMA TodoTop ==
  ASSUME Goals(todo), todo # << >>, todo[1][1] # "leave"
  PROVE  Ordinary(todo[1])
  <1>1. PICK G : todo \in Seq(G) /\ \A g \in G : Ordinary(g) \/ g = Goal("leave")
    BY DEF Goals
  <1>2. todo[1] \in G
    BY <1>1
  <1>3. Goal("leave")[1] = "leave"
    BY DEF Goal
  <1> QED BY <1>1, <1>2, <1>3

LEMMA Only ==
  ASSUME NEW G, NEW gs \in Seq(G), \A g \in G : Ordinary(g)
  PROVE  OrdinaryOnly(gs)
  <1> SUFFICES \E H : gs \in Seq(H) /\ \A g \in H : Ordinary(g)
    BY DEF OrdinaryOnly
  <1> WITNESS G
  <1> QED OBVIOUS
LEMMA None == OrdinaryOnly(<< >>)
  <1> DEFINE G == {}
             gs == << >>
  <1>1. gs \in Seq(G) /\ \A g \in G : Ordinary(g)
    OBVIOUS
  <1> HIDE DEF G, gs
  <1>2. OrdinaryOnly(gs)
    BY <1>1, Only
  <1> QED BY <1>2 DEF gs
LEMMA One == \A a : Ordinary(a) => OrdinaryOnly(<< a >>)
  <1> SUFFICES ASSUME NEW a, Ordinary(a) PROVE OrdinaryOnly(<< a >>)
    OBVIOUS
  <1> DEFINE G == {a}
             gs == << a >>
  <1>1. gs \in Seq(G) /\ \A g \in G : Ordinary(g)
    OBVIOUS
  <1> HIDE DEF G, gs
  <1>2. OrdinaryOnly(gs)
    BY <1>1, Only
  <1> QED BY <1>2 DEF gs
LEMMA Joined ==
  ASSUME NEW a, NEW b, OrdinaryOnly(a), OrdinaryOnly(b)
  PROVE  OrdinaryOnly(a \o b)
  <1>1. PICK A : a \in Seq(A) /\ \A g \in A : Ordinary(g)
    BY DEF OrdinaryOnly
  <1>2. PICK B : b \in Seq(B) /\ \A g \in B : Ordinary(g)
    BY DEF OrdinaryOnly
  <1>3. a \in Seq(A \cup B) /\ b \in Seq(A \cup B)
    BY <1>1, <1>2
  <1>4. a \o b \in Seq(A \cup B)
    BY <1>3
  <1>5. \A g \in A \cup B : Ordinary(g)
    BY <1>1, <1>2
  <1> QED BY <1>4, <1>5, Only

LEMMA Two == \A a, b : Ordinary(a) /\ Ordinary(b) => OrdinaryOnly(<< a, b >>)
  <1> SUFFICES ASSUME NEW a, NEW b, Ordinary(a), Ordinary(b) PROVE OrdinaryOnly(<< a, b >>)
    OBVIOUS
  <1> DEFINE G == {a, b}
             gs == << a, b >>
  <1>1. gs \in Seq(G) /\ \A g \in G : Ordinary(g)
    OBVIOUS
  <1> HIDE DEF G, gs
  <1>2. OrdinaryOnly(gs)
    BY <1>1, Only
  <1> QED BY <1>2 DEF gs
LEMMA Three ==
  \A a, b, c : Ordinary(a) /\ Ordinary(b) /\ Ordinary(c) => OrdinaryOnly(<< a, b, c >>)
  <1> SUFFICES ASSUME NEW a, NEW b, NEW c, Ordinary(a), Ordinary(b), Ordinary(c)
               PROVE  OrdinaryOnly(<< a, b, c >>)
    OBVIOUS
  <1> DEFINE G == {a, b, c}
             gs == << a, b, c >>
  <1>1. gs \in Seq(G) /\ \A g \in G : Ordinary(g)
    OBVIOUS
  <1> HIDE DEF G, gs
  <1>2. OrdinaryOnly(gs)
    BY <1>1, Only
  <1> QED BY <1>2 DEF gs
LEMMA Four ==
  \A a, b, c, d : Ordinary(a) /\ Ordinary(b) /\ Ordinary(c) /\ Ordinary(d)
                    => OrdinaryOnly(<< a, b, c, d >>)
  <1> SUFFICES ASSUME NEW a, NEW b, NEW c, NEW d, Ordinary(a), Ordinary(b), Ordinary(c),
                      Ordinary(d)
               PROVE  OrdinaryOnly(<< a, b, c, d >>)
    OBVIOUS
  <1> DEFINE G == {a, b, c, d}
             gs == << a, b, c, d >>
  <1>1. gs \in Seq(G) /\ \A g \in G : Ordinary(g)
    OBVIOUS
  <1> HIDE DEF G, gs
  <1>2. OrdinaryOnly(gs)
    BY <1>1, Only
  <1> QED BY <1>2 DEF gs
LEMMA Five ==
  \A a, b, c, d, e :
    Ordinary(a) /\ Ordinary(b) /\ Ordinary(c) /\ Ordinary(d) /\ Ordinary(e)
      => OrdinaryOnly(<< a, b, c, d, e >>)
  <1> SUFFICES ASSUME NEW a, NEW b, NEW c, NEW d, NEW e, Ordinary(a), Ordinary(b),
                      Ordinary(c), Ordinary(d), Ordinary(e)
               PROVE  OrdinaryOnly(<< a, b, c, d, e >>)
    OBVIOUS
  <1> DEFINE G == {a, b, c, d, e}
             gs == << a, b, c, d, e >>
  <1>1. gs \in Seq(G) /\ \A g \in G : Ordinary(g)
    OBVIOUS
  <1> HIDE DEF G, gs
  <1>2. OrdinaryOnly(gs)
    BY <1>1, Only
  <1> QED BY <1>2 DEF gs
LEMMA Six ==
  \A a, b, c, d, e, f :
    Ordinary(a) /\ Ordinary(b) /\ Ordinary(c) /\ Ordinary(d) /\ Ordinary(e) /\ Ordinary(f)
      => OrdinaryOnly(<< a, b, c, d, e, f >>)
  <1> SUFFICES ASSUME NEW a, NEW b, NEW c, NEW d, NEW e, NEW f, Ordinary(a), Ordinary(b),
                      Ordinary(c), Ordinary(d), Ordinary(e), Ordinary(f)
               PROVE  OrdinaryOnly(<< a, b, c, d, e, f >>)
    OBVIOUS
  <1> DEFINE G == {a, b, c, d, e, f}
             gs == << a, b, c, d, e, f >>
  <1>1. gs \in Seq(G) /\ \A g \in G : Ordinary(g)
    OBVIOUS
  <1> HIDE DEF G, gs
  <1>2. OrdinaryOnly(gs)
    BY <1>1, Only
  <1> QED BY <1>2 DEF gs

LEMMA ConsumeRegular ==
  ASSUME todo # << >>, Ordinary(todo[1]), NEW gs, OrdinaryOnly(gs), Consume(gs)
  PROVE  Regular
  BY DEF Regular, Consume
LEMMA ThenRegular ==
  ASSUME todo # << >>, Ordinary(todo[1]), NEW gs, OrdinaryOnly(gs), Then(gs)
  PROVE  Regular
  BY DEF Regular, Then

LEMMA ValueRegular ==
  ASSUME todo # << >>, Ordinary(todo[1]), NEW gs, OrdinaryOnly(gs), NEW isName, Value(gs, isName)
  PROVE  Regular
  BY DEF Regular, Value
LEMMA NoteRegular ==
  ASSUME todo # << >>, Ordinary(todo[1]), NEW gs, OrdinaryOnly(gs), Note(gs)
  PROVE  Regular
  BY DEF Regular, Note
LEMMA FailRegular ==
  ASSUME todo # << >>, Ordinary(todo[1]), NEW gs, OrdinaryOnly(gs), Fail(gs)
  PROVE  Regular
  BY DEF Regular, Fail
LEMMA SyncOrdinary ==
  \A s : OrdinaryOnly(SyncTo(s)) /\ OrdinaryOnly(SyncPast(s))
  BY Three DEF Ordinary, SyncTo, SyncPast, Goal
LEMMA PrecOrdinary == \A l : Ordinary(Prec(l))
  BY DEF Ordinary, Prec, Goal

LEMMA TestStep ==
  ASSUME Goals(todo), Test
  PROVE  Regular
  <1>1. todo # << >> /\ Ordinary(todo[1])
    BY TodoTop DEF Test, Is
  <1>2. CASE Is("test") \/ Is("test_no_cond")
    <2> DEFINE after == IF Is("test") THEN <<Goal("conditional")>> ELSE <<>>
    <2>1. /\ OrdinaryOnly(<<<<"parameters", "first">>, Expect(":"), todo[1], Goal("value")>>)
          /\ OrdinaryOnly(<<Prec(Level1)>>) /\ OrdinaryOnly(after)
      BY <1>1, None, One, Four, PrecOrdinary DEF Goal, Expect, Ordinary
    <2>2. \/ Consume(<<<<"parameters", "first">>, Expect(":"), todo[1], Goal("value")>>)
          \/ Then(<<Prec(Level1)>> \o after)
      BY <1>2 DEF Test, Is
    <2> HIDE DEF after
    <2> QED BY <1>1, <2>1, <2>2, Joined, ConsumeRegular, ThenRegular
  <1>3. CASE Is("conditional") \/ Is("else_clause")
    <2>1. Is("else_clause") => Ordinary(Goal(Arg))
      BY <1>1 DEF Is, Arg, Ordinary, Goal
    <2>2. /\ Ordinary(<<"else_clause", "error_name">>) /\ Ordinary(<<"else_clause", "value">>)
          /\ Ordinary(Goal("test")) /\ Ordinary(Goal("value"))
      BY DEF Ordinary, Goal
    <2> QED BY <1>1, <1>3, <2>1, <2>2, None, One, Two, PrecOrdinary, ConsumeRegular,
               ThenRegular,
               NoteRegular DEF Test, Is
  <1> QED BY <1>2, <1>3 DEF Test

LEMMA OrdinaryStep ==
  ASSUME Goals(todo),
         \/ ExpectToken \/ Sync \/ Skipped \/ Marked \/ File \/ Newlines \/ Statement
         \/ Elifs \/ Simple
         \/ Small \/ LoadStatement \/ Parameters \/ ExprList \/ Test \/ Precedence \/ Binop \/ Slice
         \/ Arguments \/ Paren \/ ListMaker \/ DictMaker \/ LoopVars \/ Comprehension \/ Literal
  PROVE  Regular
  <1> USE TodoTop, ConsumeRegular, ThenRegular, ValueRegular, NoteRegular, FailRegular,
          None, One, Two, Three, Four, Five, Six, SyncOrdinary, PrecOrdinary, Joined
      DEF Is, Goal, Expect, Ordinary
  <1>1. CASE ExpectToken
    BY <1>1 DEF ExpectToken, Regular
  <1>2. CASE Sync
    BY <1>2 DEF Sync
  <1>3. CASE Skipped
    BY <1>3 DEF Skipped
  <1>4. CASE Marked
    BY <1>4 DEF Marked, Regular
  <1>5. CASE File
    BY <1>5 DEF File
  <1>6. CASE Newlines
    BY <1>6 DEF Newlines
  <1>7. CASE Statement
    BY <1>7 DEF Statement
  <1>8. CASE Elifs
    BY <1>8 DEF Elifs
  <1>9. CASE Simple
    BY <1>9 DEF Simple
  <1>10. CASE Small
    BY <1>10 DEF Small
  <1>11. CASE LoadStatement
    BY <1>11 DEF LoadStatement
  <1>12. CASE Parameters
    BY <1>12 DEF Parameters
  <1>13. CASE ExprList
    BY <1>13 DEF ExprList
  <1>14. CASE Test
    BY <1>14, TestStep
  <1>15. CASE Precedence
    BY <1>15 DEF Precedence
  <1>16. CASE Binop
    BY <1>16 DEF Binop, Regular
  <1>17. CASE Slice
    BY <1>17 DEF Slice
  <1>18. CASE Arguments
    BY <1>18 DEF Arguments
  <1>19. CASE Paren
    BY <1>19 DEF Paren
  <1>20. CASE ListMaker
    BY <1>20 DEF ListMaker
  <1>21. CASE DictMaker
    BY <1>21 DEF DictMaker
  <1>22. CASE LoopVars
    BY <1>22 DEF LoopVars
  <1>23. CASE Comprehension
    BY <1>23 DEF Comprehension
  <1>24. CASE Literal
    BY <1>24 DEF Literal
  <1> QED BY <1>1, <1>2, <1>3, <1>4, <1>5, <1>6, <1>7, <1>8, <1>9, <1>10, <1>11, <1>12, <1>13,
             <1>14, <1>15, <1>16, <1>17, <1>18, <1>19, <1>20, <1>21, <1>22, <1>23, <1>24

(* How the goals change: a function enters, leaves, gives up the parse, or *)
(* does neither.                                                           *)
Enters ==
  /\ todo # << >> /\ Ordinary(todo[1]) /\ nesting + 1 <= MaxDepth /\ nesting' = nesting + 1
  /\ \E gs : OrdinaryOnly(gs) /\ Do(gs \o << Goal("leave") >>)
Leaves ==
  /\ todo # << >> /\ todo[1][1] = "leave" /\ nesting' = nesting - 1 /\ Do(<< >>)
GivesUp ==
  /\ nesting + 1 > MaxDepth /\ nesting' = nesting
  /\ todo' = << >> /\ errors' = Capped("deep")

LEMMA EnterStep ==
  ASSUME nesting \in Nat, todo # << >>, Ordinary(todo[1]), NEW gs, OrdinaryOnly(gs),
         Enter(gs \o << Goal("leave") >>)
  PROVE  Enters \/ GivesUp
  <1>1. MaxDepth \in Nat
    BY LimitsAssumption
  <1>2. CASE nesting + 1 > MaxDepth
    BY <1>2 DEF Enter, GivesUp
  <1>3. CASE ~(nesting + 1 > MaxDepth)
    BY <1>1, <1>3 DEF Enter, Enters
  <1> QED BY <1>2, <1>3

LEMMA GoalStep ==
  ASSUME Goals(todo), nesting \in Nat, ParseStep
  PROVE  Regular \/ Enters \/ Leaves \/ GivesUp
  <1>1. CASE Leave
    BY <1>1 DEF Leave, Leaves, Is
  <1>2. CASE Suite
    <2>0. todo # << >> /\ Ordinary(todo[1])
      BY <1>2, TodoTop DEF Suite, Is
    <2>1. OrdinaryOnly(<<Expect("NEWLINE"), Goal("block")>>) /\ OrdinaryOnly(<<Goal("simple")>>)
      BY One, Two DEF Goal, Expect, Ordinary
    <2>2. /\ <<Expect("NEWLINE"), Goal("block"), Goal("leave")>>
               = <<Expect("NEWLINE"), Goal("block")>> \o << Goal("leave") >>
          /\ <<Goal("simple"), Goal("leave")>> = <<Goal("simple")>> \o << Goal("leave") >>
      OBVIOUS
    <2>3. ASSUME Enter(IF tok = "NEWLINE" THEN <<Expect("NEWLINE"), Goal("block"), Goal("leave")>>
                       ELSE <<Goal("simple"), Goal("leave")>>)
          PROVE  Enters \/ GivesUp
      <3>1. CASE tok = "NEWLINE"
        BY <2>0, <2>1, <2>2, <2>3, <3>1, EnterStep
      <3>2. CASE tok # "NEWLINE"
        BY <2>0, <2>1, <2>2, <2>3, <3>2, EnterStep
      <3> QED BY <3>1, <3>2
    <2>4. OrdinaryOnly(<<Goal("statements"), <<"expect_recover", "OUTDENT">>>>)
          /\ OrdinaryOnly(<<Goal("statement"), Goal("statements")>>) /\ OrdinaryOnly(<< >>)
      BY None, Two DEF Goal, Ordinary
    <2> QED BY <1>2, <2>0, <2>3, <2>4, ConsumeRegular, ThenRegular, NoteRegular DEF Suite
  <1>3. CASE Primary
    <2>0. todo # << >> /\ Ordinary(todo[1])
      BY <1>3, TodoTop DEF Primary, Is
    <2>1. OrdinaryOnly(PrimaryGoals)
      BY One, Two, Three DEF PrimaryGoals, Goal, Ordinary
    <2>2. Enter(PrimaryGoals \o << Goal("leave") >>) => Enters \/ GivesUp
      BY <2>0, <2>1, EnterStep
    <2> QED BY <1>3, <2>0, <2>2, ConsumeRegular, ThenRegular, ValueRegular, FailRegular,
               None, One, Two, Four, SyncOrdinary DEF Primary, Goal, Expect, Ordinary
  <1> QED BY <1>1, <1>2, <1>3, OrdinaryStep DEF ParseStep

-----------------------------------------------------------------------------
(* Counting the functions that have entered.                               *)
LeavesOf(s) == {i \in DOMAIN s : s[i][1] = "leave"}
Entered(s)  == Cardinality(LeavesOf(s))

LEMMA LeavesFinite ==
  ASSUME NEW G, NEW s \in Seq(G)
  PROVE  IsFiniteSet(LeavesOf(s))
  <1>1. IsFiniteSet(1..Len(s)) /\ LeavesOf(s) \in SUBSET (1..Len(s))
    BY FS_Interval DEF LeavesOf
  <1> QED BY ONLY <1>1, FS_Subset

LEMMA EnteredAfter ==
  ASSUME NEW G, NEW s \in Seq(G), NEW gs \in Seq(G), s # << >>
  PROVE  Entered(gs \o Tail(s)) = Entered(gs) + Cardinality(LeavesOf(s) \ {1})
  <1> DEFINE t == gs \o Tail(s)
             n == Len(gs)
             A == LeavesOf(s) \ {1}
             B == {i \in LeavesOf(t) : i > n}
             f == [i \in A |-> i + n - 1]
  <1>1. /\ t \in Seq(G) /\ Len(t) = n + Len(s) - 1 /\ n \in Nat /\ Len(s) \in Nat \ {0}
        /\ \A i \in 1..n : t[i] = gs[i]
        /\ \A i \in n+1..Len(t) : t[i] = s[i - n + 1]
    OBVIOUS
  <1> HIDE DEF t, n
  <1>0. DOMAIN t = 1..Len(t) /\ DOMAIN s = 1..Len(s) /\ DOMAIN gs = 1..n
    BY <1>1 DEF n
  <1>2. LeavesOf(t) = LeavesOf(gs) \cup B /\ LeavesOf(gs) \cap B = {}
    <2>1. \A i \in 1..n : i \in LeavesOf(gs) <=> i \in LeavesOf(t)
      BY <1>0, <1>1 DEF LeavesOf
    <2>2. LeavesOf(gs) \subseteq 1..n /\ LeavesOf(t) \subseteq 1..Len(t)
      BY <1>0 DEF LeavesOf
    <2>3. Len(t) \in Nat /\ n \in Nat
      BY <1>1
    <2> QED BY <2>1, <2>2, <2>3
  <1>3. f \in Bijection(A, B)
    <2>1. \A i \in A : i \in 2..Len(s) /\ i + n - 1 \in B
      <3> SUFFICES ASSUME NEW i \in A PROVE i \in 2..Len(s) /\ i + n - 1 \in B
        OBVIOUS
      <3>1. i \in 2..Len(s) /\ s[i][1] = "leave"
        BY <1>0, <1>1 DEF LeavesOf
      <3>2. i + n - 1 \in n+1..Len(t) /\ (i + n - 1) - n + 1 = i
        BY <1>1, <3>1
      <3>3. t[i + n - 1] = s[i]
        BY <1>1, <3>2
      <3> QED BY <1>0, <1>1, <3>1, <3>2, <3>3, SMTT(30) DEF LeavesOf
    <2>2. f \in [A -> B]
      BY <2>1
    <2>3. \A i, j \in A : f[i] = f[j] => i = j
      BY <1>1, <2>1
    <2>4. \A j \in B : \E i \in A : f[i] = j
      <3> SUFFICES ASSUME NEW j \in B PROVE \E i \in A : f[i] = j
        OBVIOUS
      <3>1. j \in n+1..Len(t) /\ t[j][1] = "leave"
        BY <1>1 DEF LeavesOf
      <3>2. j - n + 1 \in A
        BY <1>1, <3>1 DEF LeavesOf
      <3>3. f[j - n + 1] = j
        BY <1>1, <3>1, <3>2
      <3> QED BY <3>2, <3>3
    <2>5. DOMAIN f = A
      OBVIOUS
    <2> HIDE DEF f, A, B
    <2> QED BY <2>2, <2>3, <2>4, <2>5 DEF Bijection, Injection, Surjection, IsInjective
  <1>4. IsFiniteSet(A) /\ IsFiniteSet(LeavesOf(gs))
    BY LeavesFinite, FS_Difference
  <1> HIDE DEF A, B, f
  <1>5. IsFiniteSet(B) /\ Cardinality(B) = Cardinality(A)
    BY <1>3, <1>4, FS_Bijection DEF ExistsBijection
  <1>6. Cardinality(LeavesOf(t)) = Cardinality(LeavesOf(gs)) + Cardinality(B) - Cardinality({})
    BY <1>2, <1>4, <1>5, FS_Union
  <1>7. /\ Cardinality({}) = 0 /\ Cardinality(LeavesOf(gs)) \in Nat /\ Cardinality(B) \in Nat
    BY <1>4, <1>5, FS_EmptySet, FS_CardinalityType
  <1> QED BY <1>5, <1>6, <1>7 DEF Entered, t, A

LEMMA OrdinaryGoals ==
  ASSUME NEW gs, OrdinaryOnly(gs)
  PROVE  /\ Goals(gs) /\ Entered(gs) = 0
         /\ Goals(gs \o << Goal("leave") >>) /\ Entered(gs \o << Goal("leave") >>) = 1
  <1>1. PICK G : gs \in Seq(G) /\ \A g \in G : Ordinary(g)
    BY DEF OrdinaryOnly
  <1> DEFINE H == G \cup {Goal("leave")}
             t == gs \o << Goal("leave") >>
  <1>2. gs \in Seq(H) /\ << Goal("leave") >> \in Seq(H)
    BY <1>1
  <1>3. /\ t \in Seq(H) /\ Len(t) = Len(gs) + 1 /\ Len(gs) \in Nat
        /\ \A i \in 1..Len(gs) : t[i] = gs[i]
        /\ t[Len(gs) + 1] = Goal("leave")
        /\ DOMAIN t = 1..Len(t) /\ DOMAIN gs = 1..Len(gs)
    BY <1>2
  <1>4. \A i \in 1..Len(gs) : gs[i] \in G
    BY <1>1
  <1>5. Goal("leave")[1] = "leave"
    BY DEF Goal
  <1> HIDE DEF t
  <1>6. LeavesOf(gs) = {}
    BY <1>1, <1>3, <1>4 DEF LeavesOf, Ordinary
  <1>7. LeavesOf(t) = {Len(gs) + 1}
    <2>1. \A i \in 1..Len(gs) : t[i][1] # "leave"
      BY <1>1, <1>3, <1>4 DEF Ordinary
    <2> QED BY <1>3, <1>5, <2>1 DEF LeavesOf
  <1>8. Goals(gs) /\ Goals(t)
    <2>1. \A g \in H : Ordinary(g) \/ g = Goal("leave")
      BY <1>1
    <2> HIDE DEF H
    <2> QED BY <1>2, <1>3, <2>1 DEF Goals
  <1> QED BY <1>6, <1>7, <1>8, FS_EmptySet, FS_Singleton DEF Entered, t

LEMMA GoalsAfter ==
  ASSUME NEW s, NEW gs, Goals(s), Goals(gs), s # << >>
  PROVE  /\ Goals(gs \o Tail(s))
         /\ Entered(s) \in Nat
         /\ Entered(gs \o Tail(s)) =
              Entered(gs) + IF s[1][1] = "leave" THEN Entered(s) - 1 ELSE Entered(s)
  <1>1. PICK G : s \in Seq(G) /\ \A g \in G : Ordinary(g) \/ g = Goal("leave")
    BY DEF Goals
  <1>2. PICK H : gs \in Seq(H) /\ \A g \in H : Ordinary(g) \/ g = Goal("leave")
    BY DEF Goals
  <1> DEFINE J == G \cup H
  <1>3. s \in Seq(J) /\ gs \in Seq(J) /\ gs \o Tail(s) \in Seq(J)
    BY <1>1, <1>2
  <1>4. \A g \in J : Ordinary(g) \/ g = Goal("leave")
    BY <1>1, <1>2
  <1> HIDE DEF J
  <1>5. Goals(gs \o Tail(s))
    BY <1>3, <1>4 DEF Goals
  <1>6. Entered(gs \o Tail(s)) = Entered(gs) + Cardinality(LeavesOf(s) \ {1})
    BY <1>3, EnteredAfter
  <1>7. 1 \in LeavesOf(s) <=> s[1][1] = "leave"
    BY <1>1 DEF LeavesOf
  <1>8. IsFiniteSet(LeavesOf(s))
    BY <1>1, LeavesFinite
  <1>9. Cardinality(LeavesOf(s) \ {1}) =
          IF 1 \in LeavesOf(s) THEN Cardinality(LeavesOf(s)) - 1 ELSE Cardinality(LeavesOf(s))
    BY ONLY <1>8, FS_RemoveElement
  <1> QED BY <1>5, <1>6, <1>7, <1>8, <1>9, FS_CardinalityType DEF Entered

LEMMA EnteredType ==
  ASSUME NEW s, Goals(s)
  PROVE  Entered(s) \in Nat
  <1>1. PICK G : s \in Seq(G)
    BY DEF Goals
  <1> QED BY <1>1, LeavesFinite, FS_CardinalityType DEF Entered

LEMMA EntryOrdinary == \A a : OrdinaryOnly(Entry(a))
  BY One, Three DEF Entry, Goal, Expect, Ordinary

-----------------------------------------------------------------------------
(* A parse that gave up says so, as far as the list of errors has room.    *)
Deep == Reported("deep") \/ Len(errors) >= MaxErrors

NestingInv == Goals(todo) /\ nesting \in 0..MaxDepth /\ NestingMirrorsGoals

LEMMA DeepStays ==
  ASSUME errors \in Seq(Reports), NEW e \in Reports,
         errors' = errors \/ errors' = Append(errors, e) \/ errors' = Capped(e)
  PROVE  Deep => Deep'
  <1>1. MaxErrors \in Nat /\ Len(errors) \in Nat
    BY LimitsAssumption
  <1>2. CASE errors' = errors
    BY <1>2 DEF Deep, Reported
  <1>3. CASE errors' = Append(errors, e)
    <2>1. /\ Len(errors') = Len(errors) + 1
          /\ \A i \in 1..Len(errors) : errors'[i] = errors[i]
          /\ DOMAIN errors = 1..Len(errors) /\ DOMAIN errors' = 1..Len(errors')
      BY <1>3
    <2> QED BY <1>1, <2>1 DEF Deep, Reported
  <1> QED BY <1>2, <1>3 DEF Capped

LEMMA GivesUpDeep ==
  ASSUME errors \in Seq(Reports), errors' = Capped("deep")
  PROVE  Deep'
  <1>1. CASE Len(errors) >= MaxErrors
    BY <1>1 DEF Capped, Deep
  <1>2. CASE ~(Len(errors) >= MaxErrors)
    <2>1. errors' = Append(errors, "deep")
      BY <1>2 DEF Capped
    <2>2. Len(errors) + 1 \in DOMAIN errors' /\ errors'[Len(errors) + 1] = "deep"
      BY <2>1
    <2> QED BY <2>2 DEF Deep, Reported
  <1> QED BY <1>1, <1>2

LEMMA NestingStep ==
  ASSUME ParserInv, NestingInv, ParseStep
  PROVE  NestingInv'
  <1>1. /\ todo # << >> /\ errors \in Seq(Reports) /\ MaxDepth \in Nat
        /\ nesting \in Nat /\ nesting <= MaxDepth /\ Goals(todo)
    BY ParseStepMild, ScanInv, LimitsAssumption DEF ParserInv, NestingInv
  <1>2. nesting = Entered(todo)
    BY <1>1 DEF NestingInv, NestingMirrorsGoals, Entered, LeavesOf
  <1>3. SUFFICES Goals(todo') /\ nesting' \in 0..MaxDepth
                 /\ (nesting' = Entered(todo') \/ (todo' = << >> /\ nesting' = MaxDepth /\ Deep'))
    BY DEF NestingInv, NestingMirrorsGoals, Entered, LeavesOf, Deep
  <1>4. CASE Regular
    <2>1. PICK gs : OrdinaryOnly(gs) /\ todo' = gs \o Tail(todo)
      BY <1>4 DEF Regular, Do
    <2>2. Goals(gs) /\ Entered(gs) = 0
      BY <2>1, OrdinaryGoals
    <2> QED BY <1>1, <1>2, <1>4, <2>1, <2>2, GoalsAfter DEF Regular, Ordinary
  <1>5. CASE Enters
    <2>1. PICK gs : OrdinaryOnly(gs) /\ todo' = (gs \o << Goal("leave") >>) \o Tail(todo)
      BY <1>5 DEF Enters, Do
    <2> DEFINE t == gs \o << Goal("leave") >>
    <2>2. Goals(t) /\ Entered(t) = 1
      BY <2>1, OrdinaryGoals
    <2> HIDE DEF t
    <2>3. Goals(t \o Tail(todo)) /\ Entered(t \o Tail(todo)) = 1 + Entered(todo)
      BY <1>1, <1>2, <1>5, <2>2, GoalsAfter DEF Enters, Ordinary
    <2> QED BY <1>1, <1>2, <1>5, <2>1, <2>3 DEF Enters, t
  <1>6. CASE Leaves
    <2> DEFINE gs == << >>
    <2>1. Goals(gs) /\ Entered(gs) = 0
      BY None, OrdinaryGoals
    <2>2. todo' = gs \o Tail(todo)
      BY <1>6 DEF Leaves, Do
    <2> HIDE DEF gs
    <2>3. Goals(todo') /\ Entered(todo') = Entered(todo) - 1
      BY <1>1, <1>2, <1>6, <2>1, <2>2, GoalsAfter DEF Leaves
    <2>4. Entered(todo') \in Nat
      BY <2>3, EnteredType
    <2> QED BY <1>1, <1>2, <1>6, <2>3, <2>4 DEF Leaves
  <1>7. CASE GivesUp
    <2>1. Goals(<< >>)
      BY None, OrdinaryGoals
    <2> QED BY <1>1, <1>7, <2>1, GivesUpDeep DEF GivesUp
  <1> QED BY <1>1, <1>4, <1>5, <1>6, <1>7, GoalStep

LEMMA NestingRest ==
  ASSUME ParserInv, NestingInv, Scan \/ Fetch \/ Succeed \/ Reject \/ UNCHANGED vars
  PROVE  NestingInv'
  <1>1. UNCHANGED << todo, nesting >> /\ errors \in Seq(Reports)
    BY ScanInv DEF Scan, Fetch, Succeed, Reject, vars, parserVars, ParserInv
  <1>2. {"lexer", "forbidden"} \subseteq Reports
    BY DEF Reports
  <1>3. \/ errors' = errors \/ errors' = Append(errors, "lexer") \/ errors' = Capped("forbidden")
    BY LexErrors DEF Scan, Fetch, Succeed, Reject, vars, lexVars
  <1>4. Deep => Deep'
    BY <1>1, <1>2, <1>3, DeepStays
  <1> QED BY <1>1, <1>4 DEF NestingInv, NestingMirrorsGoals, Deep

LEMMA NestingStart ==
  ASSUME NEW a
  PROVE  Goals(Entry(a)) /\ Entered(Entry(a)) = 0 /\ 0 \in 0..MaxDepth
  BY EntryOrdinary, OrdinaryGoals, LimitsAssumption

(* For every source, every limit and every way through the parser, _depth  *)
(* is the number of functions that have entered and not left; only a parse *)
(* that went too deep ends before they have.                               *)
THEOREM DepthIsRestored == Spec => []NestingMirrorsGoals
  <1>1. Init => NestingInv
    BY NestingStart DEF Init, StartParser, NestingInv, NestingMirrorsGoals, Entered, LeavesOf
  <1>2. ParserInv /\ NestingInv /\ [Step]_vars => NestingInv'
    <2>1. ASSUME ParserInv, NestingInv, Retry PROVE NestingInv'
      BY <2>1, NestingStart DEF Retry, NestingInv, NestingMirrorsGoals, Entered, LeavesOf
    <2> QED BY <2>1, NestingStep, NestingRest DEF Step
  <1>3. NestingInv => NestingMirrorsGoals
    BY DEF NestingInv
  <1> QED BY <1>1, <1>2, <1>3, ParserInvariant, PTL DEF Spec
-----------------------------------------------------------------------------
(* Escapes is what its definition says.  A recursive definition that a     *)
(* function satisfies is satisfied by the function it defines, and one can *)
(* be written down: a position is escaped if the backslashes right before  *)
(* it are odd in number.                                                   *)
RunFrom(s, p, r) ==
  /\ r \in s .. p
  /\ r = s \/ source[r - 1] # "bs"
  /\ \A k \in r .. p - 1 : source[k] = "bs"

OddRun(s, p) == \E r \in s .. p : RunFrom(s, p, r) /\ (p - r) % 2 = 1

LEMMA RunExists ==
  ASSUME NEW s \in Nat \ {0}, NEW p \in Nat, s <= p
  PROVE  \E r \in s .. p : RunFrom(s, p, r)
  <1> DEFINE T == {r \in s .. p : r = s \/ source[r - 1] # "bs"}
  <1>1. T \subseteq 1 .. p /\ T # {}
    <2>1. s \in T
      OBVIOUS
    <2> QED BY <2>1
  <1>2. PICK r \in T : \A y \in T : y <= r
    <2> HIDE DEF T
    <2> QED BY <1>1, Largest
  <1>3. ASSUME NEW k \in r .. p - 1, source[k] # "bs"
        PROVE  FALSE
    <2>1. k + 1 \in s .. p /\ (k + 1) - 1 = k
      OBVIOUS
    <2>2. k + 1 \in T
      BY <1>3, <2>1
    <2> QED BY <1>2, <2>2
  <1> QED BY <1>2, <1>3 DEF RunFrom

LEMMA RunUnique ==
  ASSUME NEW s \in Nat, NEW p \in Nat, NEW r, NEW q, RunFrom(s, p, r), RunFrom(s, p, q)
  PROVE  r = q
  <1>1. r \in s .. p /\ q \in s .. p
    BY DEF RunFrom
  <1>2. ASSUME r < q
        PROVE  FALSE
    <2>1. q - 1 \in r .. p - 1 /\ q # s
      BY <1>1, <1>2
    <2> QED BY <2>1 DEF RunFrom
  <1>3. ASSUME q < r
        PROVE  FALSE
    <2>1. r - 1 \in q .. p - 1 /\ r # s
      BY <1>1, <1>3
    <2> QED BY <2>1 DEF RunFrom
  <1> QED BY <1>1, <1>2, <1>3

LEMMA OddRunStep ==
  ASSUME NEW s \in Nat \ {0}, NEW p \in Nat
  PROVE  OddRun(s, p) <=> p > s /\ source[p - 1] = "bs" /\ ~ OddRun(s, p - 1)
  <1>1. ASSUME NEW r \in s .. p, RunFrom(s, p, r), p > r
        PROVE  /\ p > s /\ source[p - 1] = "bs" /\ p - 1 \in Nat
               /\ RunFrom(s, p - 1, r) /\ r \in s .. p - 1
    <2>1. r \in s .. p - 1 /\ p - 1 \in r .. p - 1 /\ p - 1 \in Nat
      BY <1>1
    <2>2. \A k \in r .. (p - 1) - 1 : k \in r .. p - 1
      OBVIOUS
    <2> QED BY <1>1, <2>1, <2>2 DEF RunFrom
  <1>2. ASSUME OddRun(s, p)
        PROVE  p > s /\ source[p - 1] = "bs" /\ ~ OddRun(s, p - 1)
    <2>1. PICK r \in s .. p : RunFrom(s, p, r) /\ (p - r) % 2 = 1
      BY <1>2 DEF OddRun
    <2>2. p > r /\ (p - r) \in Nat
      BY <2>1
    <2>3. /\ p > s /\ source[p - 1] = "bs" /\ p - 1 \in Nat
          /\ RunFrom(s, p - 1, r) /\ r \in s .. p - 1
      BY <1>1, <2>1, <2>2
    <2>4. ((p - 1) - r) % 2 # 1
      BY <2>1, <2>2
    <2>5. \A q \in s .. p - 1 : RunFrom(s, p - 1, q) => q = r
      BY <2>3, RunUnique
    <2> QED BY <2>3, <2>4, <2>5 DEF OddRun
  <1>3. ASSUME p > s, source[p - 1] = "bs", ~ OddRun(s, p - 1)
        PROVE  OddRun(s, p)
    <2>1. p - 1 \in Nat /\ s <= p - 1
      BY <1>3
    <2>2. PICK r \in s .. p - 1 : RunFrom(s, p - 1, r)
      BY <2>1, RunExists
    <2>3. ((p - 1) - r) % 2 # 1
      BY <1>3, <2>2 DEF OddRun
    <2>4. (p - r) % 2 = 1 /\ r \in s .. p
      BY <2>1, <2>3
    <2>5. \A k \in r .. p - 1 : k = p - 1 \/ k \in r .. (p - 1) - 1
      BY <2>1
    <2>6. RunFrom(s, p, r)
      BY <1>3, <2>2, <2>4, <2>5 DEF RunFrom
    <2> QED BY <2>4, <2>6 DEF OddRun
  <1> QED BY <1>2, <1>3

LEMMA EscapesIs ==
  ASSUME NEW s \in Nat \ {0}, Len(source) \in Nat, NEW p \in 0 .. Len(source)
  PROVE  Escapes(s)[p] = (p > s /\ source[p - 1] = "bs" /\ ~ Escapes(s)[p - 1])
  <1> DEFINE D == 0 .. Len(source)
             Solves(f) == f = [n \in D |-> n > s /\ source[n - 1] = "bs" /\ ~ f[n - 1]]
             g == [n \in D |-> OddRun(s, n)]
  <1>1. ASSUME NEW n \in D
        PROVE  g[n] = (n > s /\ source[n - 1] = "bs" /\ ~ g[n - 1])
    <2>1. n \in Nat /\ g[n] = OddRun(s, n) /\ (n > s => n - 1 \in D)
      OBVIOUS
    <2>2. n > s => g[n - 1] = OddRun(s, n - 1)
      BY <2>1
    <2>3. OddRun(s, n) = (n > s /\ source[n - 1] = "bs" /\ ~ OddRun(s, n - 1))
      BY <2>1, OddRunStep DEF OddRun
    <2> QED BY <2>1, <2>2, <2>3
  <1>2. Solves(g)
    <2> DEFINE h == [n \in D |-> n > s /\ source[n - 1] = "bs" /\ ~ g[n - 1]]
    <2>1. \A n \in D : g[n] = h[n]
      BY <1>1
    <2>2. g = h
      <3>1. DOMAIN g = D /\ DOMAIN h = D
        OBVIOUS
      <3>2. g = [n \in D |-> g[n]] /\ h = [n \in D |-> h[n]]
        OBVIOUS
      <3> QED BY <2>1, <3>2
    <2> QED BY <2>2
  <1>3. Escapes(s) = CHOOSE f : Solves(f)
    BY DEF Escapes
  <1>4. Solves(Escapes(s))
    <2> HIDE DEF Solves, g
    <2> QED BY <1>2, <1>3
  <1> QED BY <1>4

-----------------------------------------------------------------------------
(* Strings.  What the token of a string that begins at a has to be, and    *)
(* how far the scanner has got in one: it has passed no end of it, and is  *)
(* after a backslash exactly where the next character is escaped.          *)
Quoted      == {"string", "escape"}
OpenAt(a)   == a + (IF source[a] = "r" THEN 1 ELSE 0)
TripleAt(a) == /\ OpenAt(a) + 2 \in DOMAIN source
               /\ source[OpenAt(a) + 1] = "q" /\ source[OpenAt(a) + 2] = "q"
Marks(a)    == IF TripleAt(a) THEN 3 ELSE 1
BodyOf(a)   == OpenAt(a) + Marks(a)
EndsAt(a, p) ==
  /\ p + Marks(a) - 1 \in DOMAIN source
  /\ \A k \in 0 .. Marks(a) - 1 : source[p + k] = "q"
  /\ ~ Escapes(BodyOf(a))[p]
NoEnd(a, p, q) == \A i \in p .. q - 1 : ~ EndsAt(a, i)
ClosedAt(a, z) == EndsAt(a, z - Marks(a)) /\ NoEnd(a, BodyOf(a), z - Marks(a))

InString(a, z) ==
  /\ lit.triple = TripleAt(a) /\ BodyOf(a) <= z
  /\ NoEnd(a, BodyOf(a), z)
  /\ z <= Len(source) => (mode = "escape" <=> Escapes(BodyOf(a))[z])

StringsInv == StringsClosed /\ (mode \in Quoted => InString(first, pos))

LEMMA StringsClosedIs ==
  StringsClosed <=>
    (NoLexError => \A i \in DOMAIN out :
                     out[i].kind = "STRING" => ClosedAt(out[i].first, out[i].next))
  BY DEF StringsClosed, ClosedAt, NoEnd, EndsAt, BodyOf, Marks, TripleAt, OpenAt

(* The source never changes, so that nothing of this does.                 *)
LEMMA SameStrings ==
  ASSUME source' = source
  PROVE  /\ \A a, z : ClosedAt(a, z)' = ClosedAt(a, z)
         /\ \A a : TripleAt(a)' = TripleAt(a) /\ BodyOf(a)' = BodyOf(a)
         /\ \A a, p, q : NoEnd(a, p, q)' = NoEnd(a, p, q)
         /\ \A s : Escapes(s)' = Escapes(s)
  BY DEF ClosedAt, NoEnd, EndsAt, BodyOf, Marks, TripleAt, OpenAt, Escapes

LEMMA StringsClosedNext ==
  ASSUME source' = source
  PROVE  StringsClosed' <=>
           (NoLexError' => \A i \in DOMAIN out' :
                      out'[i].kind = "STRING" => ClosedAt(out'[i].first, out'[i].next))
  <1>1. StringsClosed' <=>
           (NoLexError' => \A i \in DOMAIN out' :
                      out'[i].kind = "STRING" => ClosedAt(out[i].first, out[i].next)')
    BY DEF StringsClosed, ClosedAt, NoEnd, EndsAt, BodyOf, Marks, TripleAt, OpenAt
  <1>2. ASSUME NEW i
        PROVE  ClosedAt(out[i].first, out[i].next)' = ClosedAt(out'[i].first, out'[i].next)
    <2> SUFFICES ASSUME NEW f, f = out'[i].first, NEW z, z = out'[i].next
                 PROVE  ClosedAt(out[i].first, out[i].next)' = ClosedAt(f, z)
      OBVIOUS
    <2>1. OpenAt(out[i].first)' = OpenAt(f)
      BY DEF OpenAt
    <2>2. TripleAt(out[i].first)' = TripleAt(f)
      BY <2>1 DEF TripleAt
    <2>3. Marks(out[i].first)' = Marks(f)
      BY <2>2 DEF Marks
    <2>4. BodyOf(out[i].first)' = BodyOf(f)
      BY <2>1, <2>3 DEF BodyOf
    <2>5. Escapes(BodyOf(out[i].first))' = Escapes(BodyOf(f))
      BY <2>4 DEF Escapes
    <2>6. \A p : EndsAt(out[i].first, p)' = EndsAt(f, p)
      BY <2>3, <2>5 DEF EndsAt
    <2> QED BY <2>3, <2>4, <2>6 DEF ClosedAt, NoEnd
  <1> QED BY <1>1, <1>2

(* Errors of the scanner are not taken back.                               *)
LEMMA ErrorsStay ==
  ASSUME Inv, LexStep
  PROVE  NoLexError' => NoLexError
  <1>1. errors \in Seq(Reports) /\ "lexer" \in Reports
    BY ScanInv DEF Reports
  <1>2. CASE errors' = Append(errors, "lexer")
    <2>1. \A i \in 1 .. Len(errors) : errors'[i] = errors[i]
      BY ONLY <1>1, <1>2, PushStack
    <2>2. DOMAIN errors = 1 .. Len(errors) /\ DOMAIN errors' = 1 .. Len(errors')
          /\ Len(errors') = Len(errors) + 1 /\ Len(errors) \in Nat
      <3>1. errors' \in Seq(Reports) /\ Len(errors') = Len(errors) + 1 /\ Len(errors) \in Nat
        BY ONLY <1>1, <1>2, PushStack
      <3> QED BY <1>1, <3>1
    <2> QED BY <2>1, <2>2 DEF NoLexError
  <1>3. CASE errors' = errors
    BY <1>3 DEF NoLexError
  <1> QED BY <1>2, <1>3, LexErrors

LEMMA ErrorNoted ==
  ASSUME Inv, Error(TRUE)
  PROVE  ~ NoLexError'
  <1>1. errors \in Seq(Reports) /\ "lexer" \in Reports
    BY ScanInv DEF Reports
  <1>2. errors' = Append(errors, "lexer")
    BY DEF Error
  <1>3. errors' \in Seq(Reports) /\ Len(errors') = Len(errors) + 1 /\ Len(errors) \in Nat
        /\ errors'[Len(errors) + 1] = "lexer"
    BY ONLY <1>1, <1>2, PushStack
  <1>4. Len(errors) + 1 \in DOMAIN errors'
    BY <1>3
  <1> QED BY <1>3, <1>4 DEF NoLexError

(* What a step does to the tokens and, if it is about no string, to the    *)
(* scanner's place in one.                                                 *)
Token1(kind, from) ==
  [kind |-> kind, first |-> from, next |-> pos',
   level |-> CASE kind = "INDENT"  -> Level + 1
               [] kind = "OUTDENT" -> Level - 1
               [] OTHER            -> Level]

LEMMA EmitIs ==
  ASSUME Inv, NEW kind \in Kinds, NEW from \in Nat, pos' \in Nat, Emit(kind, from)
  PROVE  /\ DOMAIN out = 1 .. Len(out) /\ DOMAIN out' = 1 .. Len(out) + 1 /\ Len(out) \in Nat
         /\ Len(out') = Len(out) + 1
         /\ \A i \in 1 .. Len(out) : out'[i] = out[i]
         /\ out'[Len(out) + 1].kind = kind
         /\ out'[Len(out) + 1].first = from /\ out'[Len(out) + 1].next = pos'
  <1>1. LexTypeOK /\ Level \in Int /\ out \in Seq(Token)
    BY LevelType DEF Inv
  <1>2. Token1(kind, from) \in Token
    BY <1>1 DEF Token1, Token
  <1>3. out' = Append(out, Token1(kind, from))
    BY DEF Emit, Token1
  <1>4. /\ Token1(kind, from).kind = kind /\ Token1(kind, from).first = from
        /\ Token1(kind, from).next = pos'
    BY DEF Token1
  <1>5. /\ out' \in Seq(Token) /\ Len(out') = Len(out) + 1 /\ Len(out) \in Nat
        /\ \A i \in 1 .. Len(out) : out'[i] = out[i]
        /\ out'[Len(out) + 1] = Token1(kind, from)
    BY ONLY <1>1, <1>2, <1>3, PushStack
  <1> QED BY <1>1, <1>4, <1>5

(* A step that returns nothing, or a token that is no string or is closed. *)
LEMMA SilentStrings ==
  ASSUME Inv, StringsInv, LexStep, out' = out, source' = source
  PROVE  StringsClosed'
  <1>1. NoLexError' => NoLexError
    BY ErrorsStay
  <1> QED BY <1>1, StringsClosedIs, StringsClosedNext DEF StringsInv

LEMMA TokenStrings ==
  ASSUME Inv, StringsInv, LexStep, source' = source,
         NEW kind \in Kinds, NEW from \in Nat, pos' \in Nat, Emit(kind, from),
         kind = "STRING" => ~ NoLexError' \/ ClosedAt(from, pos')
  PROVE  StringsClosed'
  <1>1. NoLexError' => NoLexError
    BY ErrorsStay
  <1> QED BY <1>1, EmitIs, StringsClosedIs, StringsClosedNext DEF StringsInv

-----------------------------------------------------------------------------
(* The text between tokens.  Begin is where the next token can begin: what *)
(* lies between the last token read and there is white space or a comment, *)
(* and a scanner that skips a comment is in one.                           *)
Literals == {"word", "string", "escape", "digits", "fraction", "exponent", "radix"}
Comments == {"comment", "layoutComment"}
Begin    == IF mode \in Literals THEN first ELSE pos
Gap(p)   == source[p] \in Blanks \cup {"nl", "#", "bs"} \/ InComment(p)
LastRead(i) == Read(i) /\ \A k \in i + 1 .. Len(out) : ~ Read(k)

Tight ==
  /\ \A i \in DOMAIN out : Read(i) => out[i].next <= Begin
  /\ \A i \in DOMAIN out : LastRead(i) => \A p \in out[i].next .. Begin - 1 : Gap(p)
  /\ mode \in Comments => InComment(pos)
  /\ mode \in Literals => first < pos

TextInv == NothingLost /\ Tight

(* A step passes over characters, or returns a token that lies between     *)
(* Begin and the next one.  The layout, the end of the source and a        *)
(* newline that is its last character return tokens that read nothing.     *)
Passes ==
  /\ out' = out /\ source' = source /\ Begin' \in Nat /\ Begin <= Begin'
  /\ \A p \in Begin .. Begin' - 1 : Gap(p)
  /\ mode' \in Comments => InComment(pos')
  /\ mode' \in Literals => first' < pos'

Reads(kind, from, z) ==
  /\ kind \notin Dents /\ from < z
  /\ IF kind = "NEWLINE" THEN from < Len(source) ELSE from <= Len(source)

Emits(kind, from) ==
  /\ source' = source /\ pos' \in Nat /\ Emit(kind, from)
  /\ mode' \notin Comments \cup Literals /\ Begin' \in Nat /\ Begin <= Begin'
  /\ \/ /\ ~ Reads(kind, from, pos')
        /\ \A p \in Begin .. Begin' - 1 : source[p] \in Blanks \cup {"nl", "#", "bs"}
     \/ Reads(kind, from, pos') /\ from = Begin /\ pos' = Begin'

LEMMA TextType ==
  ASSUME Inv
  PROVE  /\ Begin \in Nat \ {0} /\ pos \in Nat \ {0} /\ first \in Nat \ {0} /\ Begin <= pos
         /\ Len(source) \in Nat /\ DOMAIN out = 1 .. Len(out) /\ Len(out) \in Nat
         /\ \A i \in DOMAIN out : out[i].first \in Nat /\ out[i].next \in Nat
         /\ out \in Seq(Token)
  <1>1. out \in Seq(Token) /\ pos \in 1 .. Len(source) + 1 /\ first \in 1 .. pos
        /\ Len(source) \in Nat
    BY ScanInv DEF Inv, LexTypeOK
  <1>2. \A i \in DOMAIN out : out[i].first \in Nat /\ out[i].next \in Nat
    <2>1. \A i \in DOMAIN out : out[i] \in Token
      BY <1>1
    <2> QED BY <2>1 DEF Token
  <1>3. DOMAIN out = 1 .. Len(out) /\ Len(out) \in Nat
    BY <1>1
  <1>4. Begin \in Nat \ {0} /\ Begin <= pos
    BY <1>1 DEF Begin
  <1> QED BY <1>1, <1>2, <1>3, <1>4

LEMMA Between ==
  ASSUME NEW a \in Nat, NEW b \in Nat, NEW c \in Nat, NEW p \in a .. c - 1
  PROVE  p \in Nat /\ (p \in a .. b - 1 \/ p \in b .. c - 1)
  OBVIOUS

LEMMA PassesKeeps ==
  ASSUME Inv, TextInv, Passes
  PROVE  TextInv'
  <1>1. /\ \A i : Read(i)' = Read(i) /\ LastRead(i)' = LastRead(i)
        /\ \A p : InComment(p)' = InComment(p) /\ Gap(p)' = Gap(p)
    BY DEF Passes, Read, LastRead, InComment, Inside, Gap
  <1>2. NothingLost'
    BY <1>1 DEF TextInv, NothingLost, Gap, Passes
  <1>3. ASSUME NEW i \in DOMAIN out, Read(i)
        PROVE  out[i].next <= Begin'
    BY <1>3, TextType DEF TextInv, Tight, Passes
  <1>4. ASSUME NEW i \in DOMAIN out, LastRead(i), NEW p \in out[i].next .. Begin' - 1
        PROVE  Gap(p)
    <2>1. Begin \in Nat /\ Begin' \in Nat /\ out[i].next \in Nat
      BY TextType DEF Passes
    <2>2. p \in out[i].next .. Begin - 1 \/ p \in Begin .. Begin' - 1
      BY ONLY <2>1, p \in out[i].next .. Begin' - 1, Between
    <2> QED BY <1>4, <2>2 DEF TextInv, Tight, Passes
  <1>5. (mode' \in Comments => InComment(pos)') /\ (mode' \in Literals => first' < pos')
    BY <1>1 DEF Passes
  <1>6. Tight'
    BY <1>1, <1>3, <1>4, <1>5 DEF Tight, Passes
  <1> QED BY <1>2, <1>6 DEF TextInv

LEMMA EmitsKeeps ==
  ASSUME Inv, TextInv, NEW kind \in Kinds, NEW from \in Nat, Emits(kind, from)
  PROVE  TextInv'
  <1> SUFFICES ASSUME NEW n, n = Len(out) + 1 PROVE TextInv'
    OBVIOUS
  <1>1. /\ DOMAIN out = 1 .. Len(out) /\ DOMAIN out' = 1 .. n /\ Len(out) \in Nat
        /\ Len(out') = n
        /\ \A i \in 1 .. Len(out) : out'[i] = out[i]
        /\ out'[n].kind = kind /\ out'[n].first = from /\ out'[n].next = pos'
    BY EmitIs DEF Emits
  <1>2. /\ Begin \in Nat /\ pos' \in Nat /\ Begin' \in Nat /\ Begin <= Begin' /\ source' = source
        /\ \A i \in DOMAIN out : out[i].first \in Nat /\ out[i].next \in Nat
    BY TextType DEF Emits
  <1>3. /\ \A i \in DOMAIN out : Read(i)' = Read(i)
        /\ Read(n)' = Reads(kind, from, pos')
    BY <1>1, <1>2 DEF Read, Reads
  <1>4. \/ /\ ~ Read(n)'
           /\ \A p \in Begin .. Begin' - 1 : source[p] \in Blanks \cup {"nl", "#", "bs"}
        \/ Read(n)' /\ from = Begin /\ pos' = Begin'
    BY <1>3 DEF Emits
  <1>5. ASSUME NEW p \in Nat, p <= Begin, InComment(p)
        PROVE  InComment(p)'
    <2>1. PICK q \in 1 .. p - 1 : /\ source[q] = "#" /\ ~ \E i \in DOMAIN out : Inside(i, q)
                                  /\ \A r \in q .. p - 1 : source[r] # "nl"
      BY <1>5 DEF InComment
    <2>2. ASSUME NEW i \in DOMAIN out', Inside(i, q)'
          PROVE  FALSE
      <3>1. CASE i = n
        <4>1. from < q /\ q < pos' /\ Read(n)'
          BY <1>1, <2>2, <3>1 DEF Inside
        <4>2. from = Begin
          BY <1>4, <4>1
        <4>3. q \in 1 .. p - 1 /\ p \in Nat /\ p <= Begin /\ Begin \in Nat
          BY <1>2, <1>5
        <4> QED BY ONLY <4>1, <4>2, <4>3
      <3>2. CASE i \in 1 .. Len(out)
        <4>1. Inside(i, q)
          BY <1>1, <1>3, <2>2, <3>2 DEF Inside
        <4> QED BY <1>1, <2>1, <3>2, <4>1
      <3> QED BY <1>1, <3>1, <3>2
    <2> QED BY <1>2, <2>1, <2>2 DEF InComment
  <1>6. \A p \in Nat : p <= Begin /\ Gap(p) => Gap(p)'
    BY <1>2, <1>5 DEF Gap
  <1>7. \A i \in DOMAIN out : Read(i) => out[i].next <= Begin
    BY DEF TextInv, Tight
  <1>8. NothingLost'
    <2> SUFFICES ASSUME NEW i \in DOMAIN out', NEW j \in DOMAIN out', Read(i)', Read(j)',
                        i < j, \A k \in i + 1 .. j - 1 : ~ Read(k)'
                 PROVE  /\ out'[i].next <= out'[j].first
                        /\ \A p \in out'[i].next .. out'[j].first - 1 : Gap(p)'
      BY DEF NothingLost, Gap
    <2>0. i \in 1 .. Len(out) /\ i \in DOMAIN out /\ Read(i)
      BY <1>1, <1>3
    <2>1. CASE j = n
      <3>1. from = Begin
        BY <1>4, <2>1
      <3>2. LastRead(i)
        BY <1>1, <1>3, <2>0, <2>1 DEF LastRead
      <3>3. out[i].next <= Begin /\ \A p \in out[i].next .. Begin - 1 : Gap(p)
        BY <2>0, <3>2 DEF TextInv, Tight
      <3> QED BY <1>1, <1>2, <1>6, <2>0, <2>1, <3>1, <3>3
    <2>2. CASE j \in 1 .. Len(out)
      <3>1. j \in DOMAIN out /\ Read(j) /\ \A k \in i + 1 .. j - 1 : ~ Read(k)
        BY <1>1, <1>3, <2>0, <2>2
      <3>2. /\ out[i].next <= out[j].first
            /\ \A p \in out[i].next .. out[j].first - 1 : Gap(p)
        BY <2>0, <3>1 DEF TextInv, NothingLost, Gap
      <3>3. out[j].first < out[j].next /\ out[j].next <= Begin
        BY <1>7, <3>1 DEF Read
      <3> QED BY <1>1, <1>2, <1>6, <2>0, <3>1, <3>2, <3>3, SMTT(30)
    <2> QED BY <1>1, <2>1, <2>2
  <1>9. ASSUME NEW i \in DOMAIN out', Read(i)'
        PROVE  out'[i].next <= Begin'
    <2>1. CASE i = n
      <3>1. pos' = Begin'
        BY <1>4, <1>9, <2>1
      <3> QED BY <1>1, <1>2, <2>1, <3>1
    <2>2. CASE i \in 1 .. Len(out)
      BY <1>1, <1>2, <1>3, <1>7, <1>9, <2>2
    <2> QED BY <1>1, <2>1, <2>2
  <1>10. ASSUME NEW i \in DOMAIN out', LastRead(i)', NEW p \in out'[i].next .. Begin' - 1
         PROVE  Gap(p)'
    <2>0. Read(i)' /\ \A k \in i + 1 .. n : ~ Read(k)'
      BY <1>1, <1>10 DEF LastRead
    <2>1. i # n \/ Begin' # pos'
      BY <1>1, <1>2, <1>10
    <2>2. CASE i \in 1 .. Len(out)
      <3>1. /\ ~ Read(n)'
            /\ \A k \in Begin .. Begin' - 1 : source[k] \in Blanks \cup {"nl", "#", "bs"}
        BY <1>1, <1>4, <2>0, <2>2
      <3>2. LastRead(i) /\ i \in DOMAIN out
        BY <1>1, <1>3, <2>0, <2>2 DEF LastRead
      <3>3. out'[i] = out[i] /\ out[i].next \in Nat /\ p \in Nat
        BY <1>1, <1>2, <1>10, <2>2, <3>2
      <3>4. out'[i].next \in Nat /\ p \in out'[i].next .. Begin' - 1
        BY <1>10, <3>3
      <3>5. p \in out'[i].next .. Begin - 1 \/ p \in Begin .. Begin' - 1
        BY ONLY <1>2, <3>4, Between
      <3>6. CASE p \in out'[i].next .. Begin - 1
        <4>1. p \in out[i].next .. Begin - 1 /\ p <= Begin
          BY <1>2, <3>3, <3>6
        <4>2. Gap(p)
          BY <3>2, <4>1 DEF TextInv, Tight
        <4> QED BY <1>6, <3>3, <4>1, <4>2
      <3>7. CASE p \in Begin .. Begin' - 1
        BY <1>2, <3>1, <3>7 DEF Gap
      <3> QED BY <3>5, <3>6, <3>7
    <2>3. CASE i = n
      BY <1>4, <2>0, <2>1, <2>3
    <2> QED BY <1>1, <2>2, <2>3
  <1>11. Tight'
    <2>1. mode' \notin Comments \cup Literals
      BY DEF Emits
    <2> QED BY <1>9, <1>10, <2>1 DEF Tight
  <1> QED BY <1>8, <1>11 DEF TextInv

-----------------------------------------------------------------------------
(* Both together, and the kinds of steps that keep them.                   *)
FitInv == Inv /\ TextInv /\ StringsInv

LEMMA FitPasses ==
  ASSUME FitInv, LexStep, Passes, mode' \notin Quoted
  PROVE  FitInv'
  <1>1. StringsClosed'
    BY SilentStrings DEF FitInv, Passes
  <1> QED BY <1>1, LexStepKeeps, PassesKeeps DEF FitInv, StringsInv

LEMMA FitEmits ==
  ASSUME FitInv, LexStep, NEW kind \in Kinds, NEW from \in Nat, Emits(kind, from),
         kind = "STRING" => ~ NoLexError' \/ ClosedAt(from, pos')
  PROVE  FitInv'
  <1>1. StringsClosed'
    BY TokenStrings DEF FitInv, Emits
  <1>2. mode' \notin Quoted
    BY DEF Emits, Literals, Quoted
  <1> QED BY <1>1, <1>2, LexStepKeeps, EmitsKeeps DEF FitInv, StringsInv

(* Characters passed over where no token has begun.                        *)
LEMMA SkipFits ==
  ASSUME FitInv, LexStep, NEW k \in Nat, NEW m, Skip(k, m), mode \notin Literals,
         m \notin Literals \cup Comments, \A p \in pos .. pos + k - 1 : Gap(p)
  PROVE  FitInv'
  <1>1. Begin = pos /\ Begin' = pos' /\ pos' = pos + k /\ pos \in Nat
    BY TextType DEF Begin, Skip, FitInv
  <1>2. Passes
    BY <1>1 DEF Passes, Skip
  <1>3. mode' \notin Quoted
    BY DEF Skip, Literals, Quoted
  <1> QED BY <1>2, <1>3, FitPasses

(* A token that is a sign, a bracket or a newline, and one that ends what  *)
(* began at first.                                                         *)
LEMMA SignEmits ==
  ASSUME FitInv, NEW kind \in Kinds \ (Dents \cup {"STRING"}), NEW k \in Nat \ {0},
         pos' = pos + k, Emit(kind, pos), source' = source, mode \notin Literals,
         mode' \notin Literals \cup Comments, pos <= Len(source),
         kind = "NEWLINE" => k = 1 /\ source[pos] = "nl"
  PROVE  /\ Emits(kind, pos) /\ Begin = pos /\ Begin' = pos' /\ pos < pos'
         /\ Reads(kind, pos, pos') <=> (kind = "NEWLINE" => pos < Len(source))
  <1>1. pos \in Nat /\ Begin = pos /\ Begin' = pos' /\ pos' \in Nat /\ Len(source) \in Nat
    BY TextType DEF Begin, FitInv
  <1>2. Begin <= Begin' /\ pos < pos' /\ mode' \notin Comments \cup Literals
    BY <1>1
  <1>3. Reads(kind, pos, pos') <=> (kind = "NEWLINE" => pos < Len(source))
    BY <1>2 DEF Reads
  <1>4. CASE Reads(kind, pos, pos')
    BY <1>1, <1>2, <1>3, <1>4 DEF Emits
  <1>5. CASE ~ Reads(kind, pos, pos')
    <2>1. \A p \in pos .. pos + 1 - 1 : p = pos
      BY <1>1
    <2>2. \A p \in Begin .. Begin' - 1 : source[p] \in Blanks \cup {"nl", "#", "bs"}
      BY <1>1, <1>3, <1>5, <2>1
    <2> QED BY <1>1, <1>2, <1>3, <1>5, <2>2 DEF Emits
  <1> QED BY <1>4, <1>5

LEMMA SignFits ==
  ASSUME FitInv, LexStep, NEW kind \in Kinds \ (Dents \cup {"STRING"}), NEW k \in Nat \ {0},
         pos' = pos + k, Emit(kind, pos), source' = source, mode \notin Literals,
         mode' \notin Literals \cup Comments, pos <= Len(source),
         kind = "NEWLINE" => k = 1 /\ source[pos] = "nl"
  PROVE  FitInv'
  <1>1. pos \in Nat /\ Emits(kind, pos)
    BY SignEmits, TextType DEF FitInv
  <1> QED BY <1>1, FitEmits

LEMMA FinishEmits ==
  ASSUME FitInv, NEW kind \in Kinds \ (Dents \cup {"NEWLINE"}), NEW k \in Nat,
         Finish(kind, k), mode \in Literals
  PROVE  /\ Emits(kind, first) /\ Begin = first /\ Begin' = pos' /\ pos' = pos + k
         /\ Reads(kind, first, pos') /\ mode' = "scan" /\ source' = source
  <1>1. /\ pos \in Nat /\ first \in Nat /\ Begin = first /\ first < pos /\ pos <= Len(source) + 1
        /\ Len(source) \in Nat
    BY TextType, ScanInv DEF Begin, FitInv, TextInv, Tight
  <1>2. /\ pos' = pos + k /\ mode' = "scan" /\ Emit(kind, first) /\ source' = source
        /\ "scan" \notin Literals \cup Comments
    BY DEF Finish, Literals, Comments
  <1>3. Begin' = pos'
    BY <1>2 DEF Begin
  <1>4. Reads(kind, first, pos')
    BY <1>1, <1>2 DEF Reads
  <1> QED BY <1>1, <1>2, <1>3, <1>4 DEF Emits

LEMMA FinishFits ==
  ASSUME FitInv, LexStep, NEW kind \in Kinds \ (Dents \cup {"NEWLINE"}), NEW k \in Nat,
         Finish(kind, k), mode \in Literals,
         kind = "STRING" => ~ NoLexError' \/ ClosedAt(first, pos')
  PROVE  FitInv'
  <1>1. Emits(kind, first) /\ first \in Nat
    BY FinishEmits, TextType DEF FitInv
  <1> QED BY <1>1, FitEmits

LEMMA StayPasses ==
  ASSUME FitInv, NEW k \in Nat, NEW m \in Literals, mode \in Literals,
         pos' = pos + k, mode' = m, UNCHANGED <<source, first, out>>
  PROVE  Passes
  <1>1. Begin = first /\ Begin' = first /\ first \in Nat /\ first < pos' /\ mode' \notin Comments
    BY TextType DEF Begin, FitInv, TextInv, Tight, Literals, Comments
  <1>2. \A p \in Begin .. Begin' - 1 : Gap(p)
    BY <1>1
  <1> QED BY <1>1, <1>2 DEF Passes

LEMMA StartPasses ==
  ASSUME FitInv, NEW k \in Nat \ {0}, NEW m \in Literals, NEW how, mode \notin Literals,
         Start(k, m, how)
  PROVE  Passes
  <1>1. Begin = pos /\ Begin' = pos /\ pos \in Nat /\ mode' \notin Comments /\ first' < pos'
    BY TextType DEF Begin, FitInv, Start, Literals, Comments
  <1>2. \A p \in Begin .. Begin' - 1 : Gap(p)
    BY <1>1
  <1> QED BY <1>1, <1>2 DEF Passes, Start
-----------------------------------------------------------------------------
(* The steps one by one.                                                   *)
LEMMA LayoutFits ==
  ASSUME FitInv, LexStep, Indentation \/ StartComment \/ Comment \/ Settle \/ Dedent \/ Blank
  PROVE  FitInv'
  <1>0. /\ Inv /\ TextInv /\ pos \in Nat \ {0} /\ Len(source) \in Nat
        /\ pos <= Len(source) + 1 /\ pos + 0 = pos
        /\ DOMAIN source = 1 .. Len(source)
    BY TextType, ScanInv DEF FitInv, Inv, LexTypeOK
  <1>1. ASSUME NEW m, Skip(0, m), mode \notin Literals, m \notin Literals \cup Comments
        PROVE  FitInv'
    <2>1. \A p \in pos .. pos + 0 - 1 : Gap(p)
      BY <1>0
    <2> QED BY <1>1, <2>1, SkipFits
  <1>2. ASSUME NEW m, Skip(1, m), Here \in Blanks \cup {"nl"}, mode \notin Literals,
               m \notin Literals \cup Comments
        PROVE  FitInv'
    <2>1. Here = source[pos]
      BY <1>0, <1>2 DEF Here, Peek, Blanks
    <2>2. \A p \in pos .. pos + 1 - 1 : p = pos
      BY <1>0
    <2>3. \A p \in pos .. pos + 1 - 1 : Gap(p)
      BY <1>2, <2>1, <2>2 DEF Gap
    <2> QED BY <1>2, <2>3, SkipFits
  <1>3. CASE Indentation
    BY <1>2, <1>3 DEF Indentation, Literals, Comments
  <1>4. CASE Settle
    BY <1>1, <1>4 DEF Settle, Literals, Comments
  <1>5. CASE Dedent
    BY <1>1, <1>5 DEF Dedent, Literals, Comments
  <1>6. CASE StartComment
    <2>1. PICK m \in Comments : Skip(1, m)
      BY <1>6 DEF StartComment, Comments
    <2>2. mode \notin Literals /\ Here = "#"
      BY <1>6 DEF StartComment, Literals
    <2>3. source[pos] = "#" /\ pos \in 1 .. pos' - 1 /\ pos' = pos + 1
      BY <1>0, <2>1, <2>2 DEF Here, Peek, Skip
    <2>4. Begin = pos /\ Begin' = pos' /\ mode' \notin Literals \cup Quoted
      BY <2>1, <2>2 DEF Begin, Skip, Literals, Comments, Quoted
    <2>5. ~ \E i \in DOMAIN out : Inside(i, pos)
      <3>1. ASSUME NEW i \in DOMAIN out, Inside(i, pos)
            PROVE  FALSE
        <4>1. Read(i) /\ pos < out[i].next
          BY <3>1 DEF Inside
        <4>2. out[i].next <= pos /\ out[i].next \in Nat
          BY <1>0, <2>4, <4>1, TextType DEF TextInv, Tight
        <4> QED BY <1>0, <4>1, <4>2
      <3> QED BY <3>1
    <2>6. \A p \in pos .. pos' - 1 : p = pos
      BY <1>0, <2>3
    <2>7. InComment(pos')
      BY <2>3, <2>5, <2>6 DEF InComment
    <2>8. \A p \in Begin .. Begin' - 1 : Gap(p)
      BY <2>3, <2>4, <2>6 DEF Gap
    <2>9. Passes
      BY <1>0, <2>1, <2>3, <2>4, <2>7, <2>8 DEF Passes, Skip
    <2> QED BY <2>4, <2>9, FitPasses
  <1>7. CASE Comment
    <2>1. mode \in Comments /\ mode \notin Literals /\ InComment(pos)
      BY <1>0, <1>7 DEF Comment, TextInv, Tight, Literals, Comments
    <2>2. CASE Here \in {"nl", "end"}
      BY <1>1, <1>7, <2>1, <2>2 DEF Comment, Literals, Comments
    <2>3. CASE Here \notin {"nl", "end"}
      <3>1. Skip(1, mode) /\ source[pos] # "nl" /\ pos' = pos + 1
        BY <1>0, <1>7, <2>3 DEF Comment, Here, Peek, Skip
      <3>2. Begin = pos /\ Begin' = pos' /\ mode' \notin Literals \cup Quoted
        BY <2>1, <3>1 DEF Begin, Skip, Literals, Comments, Quoted
      <3>3. PICK q \in 1 .. pos - 1 :
              /\ source[q] = "#" /\ ~ \E i \in DOMAIN out : Inside(i, q)
              /\ \A r \in q .. pos - 1 : source[r] # "nl"
        BY <2>1 DEF InComment
      <3>4. q \in 1 .. pos' - 1 /\ \A r \in q .. pos' - 1 : r = pos \/ r \in q .. pos - 1
        BY <1>0, <3>1
      <3>5. InComment(pos')
        BY <3>1, <3>3, <3>4 DEF InComment
      <3>6. \A p \in Begin .. Begin' - 1 : p = pos
        BY <1>0, <3>1, <3>2
      <3>7. \A p \in Begin .. Begin' - 1 : Gap(p)
        BY <2>1, <3>6 DEF Gap
      <3>8. Passes
        BY <1>0, <3>1, <3>2, <3>5, <3>7 DEF Passes, Skip
      <3> QED BY <3>2, <3>8, FitPasses
    <2> QED BY <2>2, <2>3
  <1>8. CASE Blank
    <2>1. mode = "scan" /\ "scan" \notin Literals \cup Comments
      BY <1>8 DEF Blank, Scanning, Literals, Comments
    <2>2. CASE Here \in Blanks \cup {"nl"} /\ Skip(1, "scan")
      BY <1>2, <2>1, <2>2
    <2>3. CASE Continued > 0 /\ Skip(Continued, "scan")
      <3>1. /\ Continued \in {2, 3} /\ source[pos] = "bs"
            /\ Continued = 2 => source[pos + 1] = "nl"
            /\ Continued = 3 => source[pos + 1] = "cr" /\ source[pos + 2] = "nl"
        BY <1>0, <2>3 DEF Continued, Here, Peek
      <3>2. \A p \in pos .. pos + Continued - 1 :
              p = pos \/ p = pos + 1 \/ (Continued = 3 /\ p = pos + 2)
        BY <1>0, <3>1
      <3>3. \A p \in pos .. pos + Continued - 1 : Gap(p)
        BY <3>1, <3>2 DEF Gap, Blanks
      <3> QED BY <2>1, <2>3, <3>1, <3>3, SkipFits
    <2> QED BY <1>8, <2>2, <2>3 DEF Blank
  <1> QED BY <1>3, <1>4, <1>5, <1>6, <1>7, <1>8

LEMMA SignsFit ==
  ASSUME FitInv, LexStep, Operator \/ Bracket \/ Newline \/ Illegal \/ Dot
  PROVE  FitInv'
  <1> DEFINE Signed == Kinds \ (Dents \cup {"STRING"})
  <1>0. /\ Inv /\ pos \in Nat /\ Len(source) \in Nat /\ DOMAIN source = 1 .. Len(source)
        /\ {"scan", "layout"} \cap (Literals \cup Comments) = {}
    BY TextType, ScanInv DEF FitInv, Inv, LexTypeOK, Literals, Comments
  <1>1. CASE Operator
    <2>1. /\ mode = "scan" /\ mode' = mode /\ source' = source /\ pos <= Len(source)
          /\ pos' = pos + OpLength /\ Emit(OpKind(OpLength), pos)
          /\ Here # "end" /\ (Here \in Signs \/ (Here = "!" /\ Peek(1) = "="))
      BY <1>1 DEF Operator, Scanning, Signs, EqualSigns
    <2>2. OpLength \in Nat \ {0} /\ OpKind(OpLength) \in Kinds
      BY <1>0, <2>1, OpLengthIn, OpKindIn
    <2>3. OpKind(OpLength) \notin Dents \cup {"STRING", "NEWLINE"}
      <3>1. OpKind(OpLength) \in {"aug=", "cmp", "**", "mul", "shift", "bit", Here}
        BY DEF OpKind
      <3> QED BY <2>1, <3>1 DEF Dents, Signs, EqualSigns
    <2> QED BY <1>0, <2>1, <2>2, <2>3, SignFits
  <1>2. ASSUME NEW kind \in Signed, mode = "scan", mode' = "scan" \/ mode' = "layout",
               source' = source, pos <= Len(source), pos' = pos + 1, Emit(kind, pos),
               kind = "NEWLINE" => source[pos] = "nl"
        PROVE  FitInv'
    BY <1>0, <1>2, 1 \in Nat \ {0}, SignFits
  <1>3. CASE Bracket
    <2>1. Here \in Signed /\ Here # "NEWLINE"
      BY <1>3 DEF Bracket, Opening, Closing, Kinds, Dents
    <2> HIDE DEF Signed
    <2> QED BY <1>2, <1>3, <2>1 DEF Bracket, Scanning
  <1>4. CASE Newline
    <2>1. "NEWLINE" \in Signed
      BY DEF Kinds, Dents
    <2>2. source[pos] = "nl"
      BY <1>0, <1>4 DEF Newline, Here, Peek
    <2> HIDE DEF Signed
    <2> QED BY <1>2, <1>4, <2>1, <2>2 DEF Newline, Scanning
  <1>5. CASE Illegal
    <2>1. "ILLEGAL" \in Signed
      BY DEF Kinds, Dents
    <2> HIDE DEF Signed
    <2> QED BY <1>2, <1>5, <2>1 DEF Illegal, Scanning
  <1>6. CASE Dot
    <2>1. "." \in Signed
      BY DEF Kinds, Dents
    <2> HIDE DEF Signed
    <2> QED BY <1>2, <1>6, <2>1 DEF Dot, Scanning
  <1> QED BY <1>1, <1>3, <1>4, <1>5, <1>6

(* What the layout and the end of the source put in reads nothing.         *)
LEMMA PutInFits ==
  ASSUME FitInv, LexStep, Dent \/ End
  PROVE  FitInv'
  <1>0. /\ pos \in Nat \ {0} /\ Len(source) \in Nat /\ Begin \in Nat
        /\ pos <= Len(source) + 1 /\ "scan" \notin Literals \cup Comments
    BY TextType, ScanInv DEF FitInv, Literals, Comments
  <1>1. ASSUME NEW kind \in Kinds, NEW from \in Nat, Emit(kind, from), mode = "scan",
               mode' = mode, pos' = pos, source' = source, first' = first,
               ~ Reads(kind, from, pos), kind # "STRING"
        PROVE  FitInv'
    <2>1. Begin' = Begin /\ Begin <= Begin' /\ ~ Reads(kind, from, pos')
      BY <1>0, <1>1 DEF Begin
    <2>2. \A p \in Begin .. Begin' - 1 : source[p] \in Blanks \cup {"nl", "#", "bs"}
      BY <1>0, <2>1
    <2>3. Emits(kind, from)
      BY <1>0, <1>1, <2>1, <2>2 DEF Emits
    <2> QED BY <1>1, <2>3, FitEmits
  <1>2. CASE Dent
    <2> DEFINE kind == IF dents < 0 THEN "OUTDENT" ELSE "INDENT"
               from == IF pos = 1 THEN 1 ELSE pos - 1
    <2>1. kind \in Kinds /\ kind \in Dents /\ kind # "STRING" /\ from \in Nat
      BY <1>0 DEF Kinds, Dents
    <2>2. Emit(kind, from) /\ mode = "scan" /\ mode' = mode /\ pos' = pos /\ source' = source
          /\ first' = first
      BY <1>2 DEF Dent
    <2> HIDE DEF kind, from
    <2>3. ~ Reads(kind, from, pos)
      BY <2>1 DEF Reads
    <2> QED BY <1>1, <2>1, <2>2, <2>3
  <1>3. CASE End
    <2>1. /\ mode = "scan" /\ mode' = mode /\ pos' = pos /\ source' = source /\ first' = first
          /\ pos = Len(source) + 1 /\ {"NEWLINE", "EOF"} \subseteq Kinds
      BY <1>0, <1>3 DEF End, Kinds
    <2>2. PICK kind \in {"NEWLINE", "EOF"}, from \in {1, pos - 1, pos} :
            Emit(kind, from) /\ (kind = "EOF" => from = pos) /\ (from = 1 => pos = 1 \/ from = pos - 1)
      <3>1. CASE Len(indents) > 1
        BY <1>3, <3>1 DEF End
      <3>2. CASE ~ (Len(indents) > 1)
        BY <1>3, <3>2 DEF End
      <3> QED BY <3>1, <3>2
    <2>3. from \in Nat /\ ~ Reads(kind, from, pos)
      BY <1>0, <2>1, <2>2 DEF Reads
    <2> QED BY <1>1, <2>1, <2>2, <2>3
  <1> QED BY <1>2, <1>3

LEMMA WordsFit ==
  ASSUME FitInv, LexStep, StartWord \/ Word \/ StartNumber \/ Number
  PROVE  FitInv'
  <1>0. {"word", "digits", "fraction", "exponent", "radix"} \subseteq Literals \ Quoted
        /\ "scan" \notin Literals
    BY DEF Literals, Quoted
  <1>1. ASSUME NEW k \in Nat \ {0}, NEW m \in Literals \ Quoted, NEW how, Scanning, Start(k, m, how)
        PROVE  FitInv'
    <2>1. mode' \notin Quoted /\ mode \notin Literals
      BY <1>0, <1>1 DEF Start, Scanning
    <2>2. Passes
      BY <1>1, <2>1, StartPasses
    <2> QED BY <2>1, <2>2, FitPasses
  <1>2. ASSUME NEW k \in Nat, NEW m \in Literals \ Quoted, mode \in Literals, pos' = pos + k,
               mode' = m, UNCHANGED <<source, first, out>>
        PROVE  FitInv'
    <2>1. Passes
      BY <1>2, StayPasses
    <2> QED BY <1>2, <2>1, FitPasses
  <1>3. ASSUME NEW kind \in {"IDENTIFIER", "INT", "FLOAT"} \cup Words, Finish(kind, 0), mode \in Literals
        PROVE  FitInv'
    <2>1. kind \in Kinds \ (Dents \cup {"NEWLINE"}) /\ kind # "STRING"
      BY DEF Kinds, Dents, Words
    <2> QED BY <1>3, <2>1, FinishFits
  <1>4. CASE StartWord
    BY <1>0, <1>1, <1>4, 1 \in Nat \ {0} DEF StartWord
  <1>5. CASE Word
    <2>1. CASE Stay(1, "word")
      BY <1>0, <1>2, <1>5, <2>1 DEF Word, Stay, Skip
    <2>2. CASE \E kind \in {"IDENTIFIER"} \cup Words : Finish(kind, 0)
      BY <1>0, <1>3, <1>5, <2>2 DEF Word
    <2> QED BY <1>5, <2>1, <2>2 DEF Word
  <1>6. CASE StartNumber
    <2>1. PICK k \in {1, 2}, m \in {"fraction", "radix", "digits"},
               how \in {Plain, [Plain EXCEPT !.float = TRUE]} : Scanning /\ Start(k, m, how)
      BY <1>6 DEF StartNumber
    <2> QED BY <1>0, <1>1, <2>1
  <1>7. CASE Number
    <2>1. mode \in {"radix", "digits", "fraction", "exponent"}
      BY <1>7 DEF Number
    <2>2. ExponentMark \in {1, 2}
      BY DEF ExponentMark
    <2>3. CASE Stay(1, mode)
      BY <1>0, <1>2, <2>1, <2>3 DEF Stay, Skip
    <2>4. CASE \E k \in {1, 2}, m \in {"fraction", "exponent"} : InFloat(k, m)
      BY <1>0, <1>2, <2>1, <2>4 DEF InFloat
    <2>5. CASE Finish("INT", 0) \/ Finish("FLOAT", 0)
      BY <1>0, <1>3, <2>1, <2>5
    <2> QED BY <1>7, <2>2, <2>3, <2>4, <2>5 DEF Number
  <1> QED BY <1>4, <1>5, <1>6, <1>7
-----------------------------------------------------------------------------
(* A string step by step.                                                  *)
LEMMA BodyType ==
  ASSUME NEW a \in Nat \ {0}
  PROVE  /\ OpenAt(a) \in Nat /\ BodyOf(a) \in Nat \ {0} /\ a < BodyOf(a)
         /\ 0 \in 0 .. Marks(a) - 1
  <1>1. Marks(a) = 1 \/ Marks(a) = 3
    BY DEF Marks
  <1>2. OpenAt(a) = a \/ OpenAt(a) = a + 1
    BY DEF OpenAt
  <1> QED BY <1>1, <1>2 DEF BodyOf

LEMMA StaysIn ==
  ASSUME FitInv, LexStep, Passes, NEW a, NEW z, first' = a, pos' = z,
         lit'.triple = TripleAt(a), BodyOf(a) <= z, NoEnd(a, BodyOf(a), z),
         z <= Len(source) => (mode' = "escape" <=> Escapes(BodyOf(a))[z])
  PROVE  FitInv'
  <1>1. StringsClosed'
    BY SilentStrings DEF FitInv, Passes
  <1>2. /\ source' = source
        /\ TripleAt(a)' = TripleAt(a) /\ BodyOf(a)' = BodyOf(a)
        /\ NoEnd(a, BodyOf(a), z)' = NoEnd(a, BodyOf(a), z)
        /\ Escapes(BodyOf(a))' = Escapes(BodyOf(a))
    BY SameStrings DEF Passes
  <1>3. InString(first, pos)'
    BY <1>2, SameStrings DEF InString
  <1> QED BY <1>1, <1>3, LexStepKeeps, PassesKeeps DEF FitInv, StringsInv

LEMMA StartStringFits ==
  ASSUME FitInv, LexStep, StartString
  PROVE  FitInv'
  <1>0. /\ pos \in Nat \ {0} /\ Len(source) \in Nat /\ DOMAIN source = 1 .. Len(source)
        /\ pos <= Len(source) /\ mode \notin Literals /\ source[pos] = Here
    BY TextType, ScanInv DEF FitInv, Inv, LexTypeOK, StartString, Scanning, Literals, Here, Peek
  <1>1. PICK n, k, how :
          /\ n \in {1, 2} /\ k \in Nat \ {0}
          /\ n = IF Here = "r" THEN 2 ELSE 1
          /\ Start(k, "string", how)
          /\ how.triple = (Peek(n) = "q" /\ Peek(n + 1) = "q")
          /\ k = IF how.triple THEN n + 2 ELSE n
    <2> DEFINE n == IF Here = "r" THEN 2 ELSE 1
               triple == Peek(n) = "q" /\ Peek(n + 1) = "q"
               how == [triple |-> triple, raw |-> Here = "r", float |-> FALSE]
               k == IF triple THEN n + 2 ELSE n
    <2>1. Start(k, "string", how)
      BY DEF StartString
    <2>2. how.triple = triple /\ n \in {1, 2}
      OBVIOUS
    <2>3. k \in Nat \ {0}
      BY <2>2
    <2>4. k = IF how.triple THEN n + 2 ELSE n
      <3>1. CASE triple
        BY <2>2, <3>1
      <3>2. CASE ~ triple
        BY <2>2, <3>2
      <3> QED BY <3>1, <3>2
    <2> QED BY <2>1, <2>2, <2>3, <2>4
  <1>2. OpenAt(pos) + 1 = pos + n /\ OpenAt(pos) + 2 = pos + (n + 1)
    BY <1>0, <1>1 DEF OpenAt
  <1>3. how.triple = TripleAt(pos)
    <2>2. \A j \in Nat : Peek(j) = "q" => pos + j \in DOMAIN source /\ source[pos + j] = "q"
      BY DEF Peek
    <2>3. \A j \in Nat : pos + j \in DOMAIN source => Peek(j) = source[pos + j]
      BY DEF Peek
    <2>4. pos + (n + 1) \in DOMAIN source => pos + n \in DOMAIN source
      BY <1>0, <1>1
    <2>5. n \in Nat /\ n + 1 \in Nat
      BY <1>1
    <2>6. TripleAt(pos) <=> /\ pos + (n + 1) \in DOMAIN source
                            /\ source[pos + n] = "q" /\ source[pos + (n + 1)] = "q"
      BY <1>2 DEF TripleAt
    <2>7. TripleAt(pos) <=> Peek(n) = "q" /\ Peek(n + 1) = "q"
      BY <2>2, <2>3, <2>4, <2>5, <2>6
    <2> QED BY <1>1, <2>7 DEF TripleAt
  <1>4. BodyOf(pos) = pos + k /\ BodyOf(pos) \in Nat \ {0}
    <2>1. k = (n - 1) + Marks(pos)
      BY <1>1, <1>3 DEF Marks
    <2>2. OpenAt(pos) = pos + (n - 1) /\ (Marks(pos) = 1 \/ Marks(pos) = 3)
      BY <1>0, <1>1 DEF OpenAt, Marks
    <2> QED BY <1>0, <1>1, <2>1, <2>2 DEF BodyOf
  <1>5. Passes
    BY <1>0, <1>1, StartPasses DEF Literals
  <1>6. NoEnd(pos, BodyOf(pos), pos + k)
    BY <1>4 DEF NoEnd
  <1>7. pos + k <= Len(source) => ~ Escapes(BodyOf(pos))[pos + k]
    <2> SUFFICES ASSUME pos + k <= Len(source) PROVE ~ Escapes(BodyOf(pos))[pos + k]
      OBVIOUS
    <2>1. pos + k \in 0 .. Len(source)
      BY <1>0, <1>4
    <2>2. \A c \in Nat \ {0} : Escapes(c)[pos + k] =
            (pos + k > c /\ source[(pos + k) - 1] = "bs" /\ ~ Escapes(c)[(pos + k) - 1])
      BY <1>0, <2>1, EscapesIs
    <2>3. ~ (pos + k > BodyOf(pos))
      BY <1>0, <1>4
    <2> QED BY <1>4, <2>2, <2>3
  <1>8. first' = pos /\ pos' = pos + k /\ lit'.triple = how.triple /\ mode' = "string"
    BY <1>1 DEF Start
  <1> QED BY <1>3, <1>4, <1>5, <1>6, <1>7, <1>8, StaysIn

LEMMA StringFits ==
  ASSUME FitInv, LexStep, String
  PROVE  FitInv'
  <1> SUFFICES ASSUME NEW a, a = first, NEW b, b = BodyOf(a) PROVE FitInv'
    OBVIOUS
  <1>0. /\ pos \in Nat \ {0} /\ Len(source) \in Nat /\ DOMAIN source = 1 .. Len(source)
        /\ a \in Nat \ {0} /\ mode = "string" /\ mode \in Literals
        /\ pos <= Len(source) + 1
        /\ Here # "end" => pos <= Len(source) /\ source[pos] = Here
        /\ "STRING" \in Kinds \ (Dents \cup {"NEWLINE"})
    BY TextType, ScanInv, SMTT(30) DEF FitInv, Inv, LexTypeOK, String, Literals, Here, Peek, Kinds, Dents
  <1>1. /\ lit.triple = TripleAt(a) /\ b <= pos /\ NoEnd(a, b, pos)
        /\ b \in Nat \ {0}
        /\ pos <= Len(source) => ~ Escapes(b)[pos]
    BY <1>0, BodyType DEF FitInv, StringsInv, InString, Quoted
  <1>2. CASE Here = "end" \/ (Here = "nl" /\ ~ lit.triple)
    <2>1. PICK k \in {0, 1} : Finish("STRING", k) /\ Error(TRUE)
      BY <1>2 DEF String
    <2>2. ~ NoLexError'
      BY <2>1, ErrorNoted DEF FitInv
    <2> QED BY <1>0, <2>1, <2>2, FinishFits
  <1>3. ASSUME NEW k \in {1, 3}, k = Marks(a), Finish("STRING", k), Here = "q",
               k = 3 => Peek(1) = "q" /\ Peek(2) = "q"
        PROVE  FitInv'
    <2>1. pos + k - 1 \in DOMAIN source /\ \A j \in 0 .. k - 1 : source[pos + j] = "q"
      <3>1. CASE k = 1
        BY <1>0, <1>3, <3>1
      <3>2. CASE k = 3
        <4>1. /\ pos + 1 \in DOMAIN source /\ source[pos + 1] = "q"
              /\ pos + 2 \in DOMAIN source /\ source[pos + 2] = "q"
          BY <1>3, <3>2 DEF Peek
        <4>2. \A j \in 0 .. k - 1 : j = 0 \/ j = 1 \/ j = 2
          BY <3>2
        <4> QED BY <1>0, <1>3, <3>2, <4>1, <4>2
      <3> QED BY <1>3, <3>1, <3>2
    <2>2. EndsAt(a, pos)
      BY <1>0, <1>1, <1>3, <2>1 DEF EndsAt
    <2>3. pos' = pos + k /\ pos' - k = pos
      BY <1>0, <1>3 DEF Finish
    <2>4. ClosedAt(a, pos')
      BY <1>1, <1>3, <2>2, <2>3 DEF ClosedAt
    <2> QED BY <1>0, <1>3, <2>4, FinishFits
  <1>4. CASE Here = "q" /\ ~ lit.triple
    <2>1. Marks(a) = 1 /\ Finish("STRING", 1)
      BY <1>1, <1>4 DEF Marks, String
    <2> QED BY <1>3, <1>4, <2>1
  <1>5. CASE Here = "q" /\ lit.triple /\ Peek(1) = "q" /\ Peek(2) = "q"
    <2>1. Marks(a) = 3 /\ Finish("STRING", 3)
      BY <1>1, <1>5 DEF Marks, String
    <2> QED BY <1>3, <1>5, <2>1
  <1>6. ASSUME NEW m \in Quoted, Stay(1, m), Here # "end", ~ EndsAt(a, pos),
               m = "escape" <=> Here = "bs"
        PROVE  FitInv'
    <2>1. Passes
      BY <1>0, <1>6, StayPasses, 1 \in Nat DEF Stay, Skip, Quoted, Literals
    <2>2. \A i \in b .. (pos + 1) - 1 : i = pos \/ i \in b .. pos - 1
      BY <1>0, <1>1
    <2>3. NoEnd(a, b, pos + 1)
      BY <1>1, <1>6, <2>2 DEF NoEnd
    <2>4. pos + 1 <= Len(source) => (m = "escape" <=> Escapes(b)[pos + 1])
      <3> SUFFICES ASSUME pos + 1 <= Len(source) PROVE m = "escape" <=> Escapes(b)[pos + 1]
        OBVIOUS
      <3>1. pos + 1 \in 0 .. Len(source) /\ (pos + 1) - 1 = pos /\ pos + 1 > b
        BY <1>0, <1>1
      <3>2. Escapes(b)[pos + 1] = (pos + 1 > b /\ source[pos] = "bs" /\ ~ Escapes(b)[pos])
        BY <1>0, <1>1, <3>1, EscapesIs
      <3> QED BY <1>0, <1>1, <1>6, <3>1, <3>2
    <2>5. /\ first' = a /\ pos' = pos + 1 /\ lit' = lit /\ mode' = m
          /\ b <= pos + 1
      BY <1>0, <1>1, <1>6 DEF Stay, Skip
    <2> QED BY <1>1, <2>1, <2>3, <2>4, <2>5, StaysIn
  <1>7. ASSUME Here # "end", Here # "q"
        PROVE  ~ EndsAt(a, pos)
    <2>1. 0 \in 0 .. Marks(a) - 1
      BY <1>0, BodyType
    <2>2. source[pos + 0] = Here
      BY <1>0, <1>7
    <2> QED BY <1>7, <2>1, <2>2 DEF EndsAt
  <1>8. CASE Here = "bs"
    <2>1. Stay(1, "escape") /\ ~ EndsAt(a, pos)
      BY <1>7, <1>8 DEF String
    <2> QED BY <1>6, <1>8, <2>1 DEF Quoted
  <1>9. CASE /\ ~ (Here = "end" \/ (Here = "nl" /\ ~ lit.triple))
             /\ ~ (Here = "q" /\ ~ lit.triple) /\ Here # "bs"
             /\ ~ (Here = "q" /\ lit.triple /\ Peek(1) = "q" /\ Peek(2) = "q")
    <2>1. Stay(1, "string")
      BY <1>9 DEF String
    <2>2. ~ EndsAt(a, pos)
      <3>1. CASE Here # "q"
        BY <1>7, <1>9, <3>1
      <3>2. CASE Here = "q"
        <4>1. Marks(a) = 3 /\ ~ (Peek(1) = "q" /\ Peek(2) = "q")
          BY <1>1, <1>9, <3>2 DEF Marks
        <4>2. ASSUME EndsAt(a, pos)
              PROVE  FALSE
          <5>1. pos + 2 \in DOMAIN source /\ source[pos + 1] = "q" /\ source[pos + 2] = "q"
            BY <1>0, <4>1, <4>2, 1 \in 0 .. 3 - 1, 2 \in 0 .. 3 - 1, pos + 3 - 1 = pos + 2 DEF EndsAt
          <5>2. pos + 1 \in DOMAIN source
            BY <1>0, <5>1
          <5> QED BY <4>1, <5>1, <5>2 DEF Peek
        <4> QED BY <4>2
      <3> QED BY <3>1, <3>2
    <2> QED BY <1>6, <1>9, <2>1, <2>2 DEF Quoted
  <1> QED BY <1>2, <1>4, <1>5, <1>8, <1>9

(* What an escape takes in besides its first character is no mark.         *)
LEMMA EscapeTakes ==
  ASSUME FitInv, Here # "end"
  PROVE  \A j \in 1 .. EscapeLength - 1 :
           pos + j \in DOMAIN source /\ source[pos + j] \notin {"q", "bs"}
  <1> DEFINE Plainly(j) == pos + j \in DOMAIN source /\ source[pos + j] \notin {"q", "bs"}
  <1>1. \A j \in {1, 2} : Peek(j) \in HexDigits \cup Digits \cup {"nl"} => Plainly(j)
    BY DEF Peek, HexDigits, Digits
  <1> HIDE DEF Plainly
  <1>2. \A j \in 1 .. 2 - 1 : j = 1
    OBVIOUS
  <1>3. \A j \in 1 .. 3 - 1 : j = 1 \/ j = 2
    OBVIOUS
  <1>4. \A j : j \notin 1 .. 1 - 1
    OBVIOUS
  <1>5. EscapeLength \in {1, 2, 3}
    BY EscapeLengthIn DEF FitInv
  <1>6. EscapeLength = 2 => Peek(1) \in Digits \cup {"nl"}
    BY DEF EscapeLength, Octals, Digits
  <1>7. EscapeLength = 3 => Peek(1) \in HexDigits \cup Digits /\ Peek(2) \in HexDigits \cup Digits
    BY DEF EscapeLength, Octals
  <1>8. \A j \in 1 .. EscapeLength - 1 : Plainly(j)
    BY <1>1, <1>2, <1>3, <1>4, <1>5, <1>6, <1>7
  <1> QED BY <1>8 DEF Plainly

LEMMA EscapeFits ==
  ASSUME FitInv, LexStep, Escape
  PROVE  FitInv'
  <1> SUFFICES ASSUME NEW a, a = first, NEW b, b = BodyOf(a), NEW n, n = EscapeLength PROVE FitInv'
    OBVIOUS
  <1>0. /\ pos \in Nat \ {0} /\ Len(source) \in Nat /\ DOMAIN source = 1 .. Len(source)
        /\ a \in Nat \ {0} /\ mode = "escape" /\ mode \in Literals
        /\ pos <= Len(source) + 1
        /\ Here # "end" => pos <= Len(source) /\ source[pos] = Here
        /\ "STRING" \in Kinds \ (Dents \cup {"NEWLINE"})
    BY TextType, ScanInv DEF FitInv, Inv, LexTypeOK, Escape, Literals, Here, Peek, Kinds, Dents
  <1>1. /\ lit.triple = TripleAt(a) /\ b <= pos /\ NoEnd(a, b, pos)
        /\ b \in Nat \ {0}
        /\ pos <= Len(source) => Escapes(b)[pos]
    BY <1>0, BodyType DEF FitInv, StringsInv, InString, Quoted
  <1>2. CASE Here = "end"
    <2>1. Finish("STRING", 0) /\ Error(TRUE)
      BY <1>2 DEF Escape
    <2>2. ~ NoLexError'
      BY <2>1, ErrorNoted DEF FitInv
    <2> QED BY <1>0, <2>1, <2>2, FinishFits
  <1>3. CASE Here # "end"
    <2>0. /\ n \in {1, 2, 3} /\ pos <= Len(source) /\ Escapes(b)[pos]
          /\ \A j \in 1 .. n - 1 : pos + j \in DOMAIN source /\ source[pos + j] \notin {"q", "bs"}
      BY <1>0, <1>1, <1>3, EscapeLengthIn, EscapeTakes DEF FitInv
    <2>1. Skip(n, "string")
      BY <1>3 DEF Escape
    <2>2. Passes
      BY <1>0, <2>0, <2>1, StayPasses DEF Skip, Literals
    <2>3. ASSUME NEW i \in b .. (pos + n) - 1
          PROVE  ~ EndsAt(a, i)
      <3>1. i \in b .. pos - 1 \/ i = pos \/ i - pos \in 1 .. n - 1
        BY <1>0, <1>1, <2>0
      <3>2. CASE i \in b .. pos - 1
        BY <1>1, <3>2 DEF NoEnd
      <3>3. CASE i = pos
        BY <2>0, <3>3 DEF EndsAt
      <3>4. CASE i - pos \in 1 .. n - 1
        <4>1. pos + (i - pos) = i /\ i + 0 = i
          BY <1>0, <1>1
        <4>2. source[i] # "q"
          BY <2>0, <3>4, <4>1
        <4>3. 0 \in 0 .. Marks(a) - 1
          BY <1>0, BodyType
        <4> QED BY <4>1, <4>2, <4>3 DEF EndsAt
      <3> QED BY <3>1, <3>2, <3>3, <3>4
    <2>4. NoEnd(a, b, pos + n)
      BY <2>3 DEF NoEnd
    <2>5. pos + n <= Len(source) => ~ Escapes(b)[pos + n]
      <3> SUFFICES ASSUME pos + n <= Len(source) PROVE ~ Escapes(b)[pos + n]
        OBVIOUS
      <3>1. pos + n \in 0 .. Len(source) /\ (pos + n) - 1 = pos + (n - 1)
        BY <1>0, <2>0
      <3>2. Escapes(b)[pos + n] =
              (pos + n > b /\ source[pos + (n - 1)] = "bs" /\ ~ Escapes(b)[pos + (n - 1)])
        BY <1>0, <1>1, <3>1, EscapesIs
      <3>3. CASE n = 1
        <4>1. pos + (n - 1) = pos
          BY <1>0, <3>3
        <4> QED BY <2>0, <3>2, <4>1
      <3>4. CASE n # 1
        <4>1. n - 1 \in 1 .. n - 1
          BY <2>0, <3>4
        <4> QED BY <2>0, <3>2, <4>1
      <3> QED BY <3>3, <3>4
    <2>6. /\ first' = a /\ pos' = pos + n /\ lit' = lit /\ mode' = "string"
          /\ b <= pos + n
      BY <1>0, <1>1, <2>0, <2>1 DEF Skip
    <2> QED BY <1>1, <2>2, <2>4, <2>5, <2>6, StaysIn
  <1> QED BY <1>2, <1>3
LEMMA LexFits ==
  ASSUME FitInv, LexStep
  PROVE  FitInv'
  BY LayoutFits, SignsFit, PutInFits, WordsFit, StartStringFits, StringFits, EscapeFits DEF LexStep

(* Before anything is read there is nothing to lose, also in a retry.      *)
LEMMA StartFits ==
  ASSUME out = << >>, mode = "layout", pos = 1
  PROVE  TextInv /\ StringsInv
  <1>1. \A i : i \notin DOMAIN out
    OBVIOUS
  <1>2. NothingLost /\ StringsClosed
    BY <1>1 DEF NothingLost, StringsClosed
  <1>3. Tight
    BY <1>1 DEF Tight, Comments, Literals
  <1> QED BY <1>2, <1>3 DEF TextInv, StringsInv, Quoted

LEMMA RetryFits ==
  ASSUME out' = << >>, mode' = "layout", pos' = 1
  PROVE  TextInv' /\ StringsInv'
  <1>1. \A i : i \notin DOMAIN out'
    OBVIOUS
  <1>2. NothingLost' /\ StringsClosed'
    BY <1>1 DEF NothingLost, StringsClosed
  <1>3. Tight'
    BY <1>1 DEF Tight, Comments, Literals
  <1> QED BY <1>2, <1>3 DEF TextInv, StringsInv, Quoted

(* A step of the parser leaves the tokens and the scanner's place alone.   *)
LEMMA ParserFits ==
  ASSUME FitInv, Inv', UNCHANGED <<source, pos, mode, first, lit, out>>,
         NoLexError' => NoLexError
  PROVE  FitInv'
  <1>1. TextInv'
    BY DEF FitInv, TextInv, NothingLost, Tight, Read, LastRead, InComment, Inside, Gap, Begin
  <1>2. \A s : Escapes(s)' = Escapes(s)
    BY SameStrings
  <1>3. StringsClosed'
    BY StringsClosedIs, StringsClosedNext DEF FitInv, StringsInv
  <1>4. InString(first, pos) => InString(first, pos)'
    BY <1>2 DEF InString, TripleAt, NoEnd, EndsAt, BodyOf, Marks, OpenAt
  <1> QED BY <1>1, <1>3, <1>4 DEF FitInv, StringsInv

LEMMA CappedStays ==
  ASSUME errors \in Seq(Reports), NEW e \in Reports, errors' = errors \/ errors' = Capped(e)
  PROVE  NoLexError' => NoLexError
  <1>1. CASE errors' = errors
    BY <1>1 DEF NoLexError
  <1>2. CASE errors' = Append(errors, e)
    <2>1. /\ \A i \in 1 .. Len(errors) : errors'[i] = errors[i]
          /\ DOMAIN errors = 1 .. Len(errors) /\ DOMAIN errors' = 1 .. Len(errors')
          /\ Len(errors') = Len(errors) + 1 /\ Len(errors) \in Nat
      BY <1>2
    <2> QED BY <2>1 DEF NoLexError
  <1> QED BY <1>1, <1>2 DEF Capped

LEMMA TextStep ==
  ASSUME ParserInv, FitInv, [Step]_vars
  PROVE  FitInv'
  <1>0. ParserInv' /\ Inv' /\ errors \in Seq(Reports)
        /\ {"syntax", "note", "deep", "forbidden"} \subseteq Reports
    <2>1. ParserInv'
      BY MildKeeps, ScanKeeps, FetchKeeps, RetryKeeps, EndKeeps DEF Step
    <2> QED BY <2>1, ScanInv DEF ParserInv, Reports
  <1>1. CASE Scan
    BY <1>1, LexFits DEF Scan
  <1>2. CASE Fetch \/ ParseStep
    <2>1. UNCHANGED <<source, pos, mode, first, lit, out>>
      BY <1>2, ParseStepMild DEF Fetch, Mild, Rest
    <2>2. \/ errors' = errors
          \/ errors' \in {Capped("syntax"), Capped("note"), Capped("deep"), Capped("forbidden")}
      BY <1>2, ParseStepMild DEF Fetch, Mild
    <2>3. NoLexError' => NoLexError
      BY <1>0, <2>2, CappedStays
    <2> QED BY <1>0, <2>1, <2>3, ParserFits
  <1>3. CASE Succeed \/ Reject \/ UNCHANGED vars
    <2>1. UNCHANGED lexVars
      BY <1>3 DEF Succeed, Reject, vars
    <2>2. UNCHANGED <<source, pos, mode, first, lit, out, errors>>
      BY <2>1 DEF lexVars
    <2> QED BY <1>0, <2>2, ParserFits DEF NoLexError
  <1>4. CASE Retry
    <2>1. out' = << >> /\ mode' = "layout" /\ pos' = 1
      BY <1>4 DEF Retry
    <2>2. TextInv' /\ StringsInv'
      BY <2>1, RetryFits
    <2> QED BY <1>0, <2>2 DEF FitInv
  <1> QED BY <1>1, <1>2, <1>3, <1>4 DEF Step

(* For every source, layout and use the parser makes of the scanner, the   *)
(* tokens are in the order of the source, nothing but white space and      *)
(* comments lies between two of them, and without an error of the scanner  *)
(* every string ends at the first mark that no backslash escapes.          *)
THEOREM TextIsFit == Spec => []TokensFitText
  <1>1. Init => FitInv
    <2> SUFFICES ASSUME Init PROVE FitInv
      OBVIOUS
    <2>1. Inv /\ out = << >> /\ mode = "layout" /\ pos = 1
      BY LexInitInv DEF Init, LexInit
    <2> QED BY <2>1, StartFits DEF FitInv
  <1>2. ParserInv /\ FitInv /\ [Step]_vars => FitInv'
    BY TextStep
  <1>3. FitInv => TokensFitText
    BY DEF FitInv, TextInv, StringsInv, TokensFitText
  <1> QED BY <1>1, <1>2, <1>3, ParserInvariant, PTL DEF Spec

-----------------------------------------------------------------------------
(* The lines of the text.  A line begins at the start of the source or     *)
(* after a newline that no backslash escapes; Line(s, p) is one that began *)
(* at s and goes on before p.  Before its first character that is no white *)
(* space its spaces are its column.  Fresh is a scanner that has returned  *)
(* no token of its line yet.                                               *)
LayoutModes == {"layout", "layoutComment", "dedent"}
LineStart(s) == s = 1 \/ (source[s - 1] = "nl" /\ ~ EscapedEnd(s - 1))
Line(s, p) ==
  /\ s \in 1 .. p /\ LineStart(s)
  /\ \A r \in s .. p - 1 : source[r] = "nl" => EscapedEnd(r)
Blanked(s, p) == \A r \in s .. p - 1 : source[r] \in Blanks
SpacesIn(s, p) == {r \in s .. p - 1 : source[r] = "sp"}
Spaces(s, p)  == Cardinality(SpacesIn(s, p))

LineOver(i) ==
  \/ Before(i) = {}
  \/ \E j \in Before(i) : out[j].kind = "NEWLINE" /\ \A k \in Before(i) : k <= j
Fresh == LineOver(Len(out) + 1)

(* What the scanner has measured: in the layout, while it closes levels,   *)
(* and until the line has its first token.                                 *)
AtMargin(s, p) == Line(s, p) /\ Blanked(s, p) /\ indent = Spaces(s, p)
Indented(s, t) ==
  /\ t \in s .. Len(source) /\ Blanked(s, t) /\ source[t] \notin Blanks
  /\ Top = Spaces(s, t)

Margins ==
  /\ mode = "layout" => \/ \E s \in 1 .. pos : AtMargin(s, pos)
                        \/ Here \in {"nl", "end"} /\ InComment(pos)
  /\ mode = "dedent" /\ Here # "end" =>
       /\ Here \notin Blanks \cup {"nl", "#"}
       /\ \E s \in 1 .. pos : AtMargin(s, pos)
  /\ mode \notin LayoutModes /\ Fresh /\ Begin <= Len(source) =>
       \E s \in 1 .. Begin, t \in 1 .. Begin : Line(s, Begin) /\ Indented(s, t)

(* The lines with a token, and those of them that are not further right    *)
(* than a column.  The stack answers for a column: the highest level that  *)
(* is not further right (Holds) is that of the nearest such line.  Known   *)
(* are the columns it answers for: all, up to the line's own while that    *)
(* closes levels, and less than it until it has a token (Waiting).         *)
LineTokens    == {k \in DOMAIN out : BeginsLine(k)}
Above(c)      == {j \in LineTokens : Column(j) <= c}
Nearest(j, c) == j \in Above(c) /\ \A k \in Above(c) : k <= j
Holds(n, c) ==
  /\ n \in DOMAIN indents /\ indents[n] <= c
  /\ n < Len(indents) => c < indents[n + 1]
Waits    == mode \notin LayoutModes /\ Fresh
Known(c) == (mode = "dedent" => c <= indent) /\ (Waits => c < Top)
Rising   == \A a, b \in DOMAIN indents : a < b => indents[a] < indents[b]

Answers(n, c) ==
  /\ Above(c) = {} => n = 1
  /\ \A j \in LineTokens : Nearest(j, c) => out[j].level = n - 1 /\ Column(j) = indents[n]
Stacked ==
  /\ Rising
  /\ Begin <= Len(source) =>
       \A c \in Nat : Known(c) => \A n \in DOMAIN indents : Holds(n, c) => Answers(n, c)

Deeper(j) == IF Column(j) < Top THEN 1 ELSE 0
Waiting ==
  Waits /\ Begin <= Len(source) =>
    /\ Above(Top) = {} => Len(indents) - 1 = (IF Top = 0 THEN 0 ELSE 1)
    /\ \A j \in LineTokens : Nearest(j, Top) => Len(indents) - 1 = out[j].level + Deeper(j)

Upper(i)   == {j \in LineTokens : j < i /\ Column(j) <= Column(i)}
InBlock(i) ==
  IF Upper(i) = {} THEN out[i].level = (IF Column(i) = 0 THEN 0 ELSE 1)
  ELSE \E j \in Upper(i) :
         /\ \A k \in Upper(i) : k <= j
         /\ out[i].level = out[j].level + (IF Column(j) < Column(i) THEN 1 ELSE 0)
Placed == \A i \in LineTokens : InBlock(i)

(* The newlines passed, the brackets that are open, and what a place in    *)
(* the source says of the line up to it.                                   *)
NewlineAt(p) == \E i \in DOMAIN out : Read(i) /\ out[i].kind = "NEWLINE" /\ out[i].first = p
Within(p)    == \E i \in DOMAIN out : Inside(i, p)
NewlineFits(p) == NewlineAt(p) <=> Open(p) = Closed(p) /\ Begun(p) /\ ~ EscapedEnd(p)
NewlinesFit ==
  \A p \in 1 .. Len(source) - 1 :
    p < Begin /\ source[p] = "nl" /\ ~ Within(p) => NewlineFits(p)

Brackets == Opening \cup Closing
DepthFits ==
  /\ depth + Closed(Begin) = Open(Begin)
  /\ \A i \in DOMAIN out : out[i].kind \in Brackets => out[i].first < Begin
  /\ Fresh /\ Begin <= Len(source) => depth = 0
  /\ mode \in LayoutModes => Fresh

WordEnd == Letters \cup Words \cup Digits \cup {"."}
Places ==
  /\ mode \in {"layout", "layoutComment"} /\ pos <= Len(source) => ~ Begun(pos)
  /\ mode = "comment" => Begun(pos)
  /\ mode = "scan" => Begun(pos) \/ Here \notin Blanks \cup {"nl", "#"}
  /\ mode \in {"dedent", "scan"} => ~ EscapedEnd(pos)
  /\ mode = "scan" /\ Here \notin {"nl", "end"} => ~ InComment(pos)
  /\ mode \in Literals => ~ InComment(first) /\ source[first] \notin {"#", "nl"} /\ dents = 0
  /\ mode \in {"word", "digits", "fraction", "radix"} => source[pos - 1] \in WordEnd

LinesFit == Margins /\ Stacked /\ Waiting /\ Placed /\ NewlinesFit /\ DepthFits /\ Places
LinesInv == NoLexError => LinesFit

-----------------------------------------------------------------------------
(* The column of a token that begins a line.                               *)
LEMMA LineUnique ==
  ASSUME NEW p \in Nat, NEW s, NEW t, Line(s, p), Line(t, p)
  PROVE  s = t
  <1>1. ASSUME NEW a, NEW b, Line(a, p), Line(b, p), a < b
        PROVE  FALSE
    <2>1. a \in 1 .. p /\ b \in 1 .. p /\ b # 1 /\ b - 1 \in a .. p - 1
      BY <1>1 DEF Line
    <2>2. source[b - 1] = "nl" /\ ~ EscapedEnd(b - 1)
      BY <1>1, <2>1 DEF Line, LineStart
    <2> QED BY <1>1, <2>1, <2>2 DEF Line
  <1>2. s \in 1 .. p /\ t \in 1 .. p
    BY DEF Line
  <1>3. s < t \/ t < s \/ s = t
    BY <1>2
  <1> QED BY <1>1, <1>3

ColumnAt(f) ==
  LET from == CHOOSE s \in 1 .. f : Line(s, f)
  IN Cardinality({p \in from .. f - 1 :
                    source[p] = "sp" /\ \A q \in from .. p : source[q] \in Blanks})

LEMMA ColumnIs ==
  ASSUME NEW f \in Nat, NEW s, NEW t \in Nat, Line(s, f),
         t \in s .. f, Blanked(s, t), t < f => source[t] \notin Blanks
  PROVE  ColumnAt(f) = Spaces(s, t)
  <1> DEFINE from == CHOOSE x \in 1 .. f : Line(x, f)
             leading(x) == {p \in x .. f - 1 :
                              source[p] = "sp" /\ \A q \in x .. p : source[q] \in Blanks}
  <1>1. from = s
    <2>1. s \in 1 .. f
      BY DEF Line
    <2>2. from \in 1 .. f /\ Line(from, f)
      BY <2>1
    <2> HIDE DEF from
    <2> QED BY <2>2, LineUnique
  <1>2. ColumnAt(f) = Cardinality(leading(from))
    BY DEF ColumnAt
  <1>3. leading(s) = SpacesIn(s, t)
    <2>0. s \in Nat /\ t <= f /\ s <= t
      BY DEF Line
    <2>1. ASSUME NEW p \in leading(s)
          PROVE  p \in SpacesIn(s, t)
      <3>1. p \in s .. f - 1 /\ source[p] = "sp" /\ \A q \in s .. p : source[q] \in Blanks
        OBVIOUS
      <3>2. p < t
        <4>1. ASSUME t <= p PROVE FALSE
          <5>1. t \in s .. p /\ t < f
            BY <2>0, <3>1, <4>1
          <5> QED BY <3>1, <5>1
        <4> QED BY <2>0, <3>1, <4>1
      <3> QED BY <2>0, <3>1, <3>2 DEF SpacesIn
    <2>2. ASSUME NEW p \in SpacesIn(s, t)
          PROVE  p \in leading(s)
      <3>1. p \in s .. t - 1 /\ source[p] = "sp"
        BY DEF SpacesIn
      <3>2. p \in s .. f - 1 /\ \A q \in s .. p : q \in s .. t - 1
        BY <2>0, <3>1
      <3> QED BY <3>1, <3>2 DEF Blanked
    <2> QED BY <2>1, <2>2
  <1> HIDE DEF from, leading
  <1> QED BY <1>1, <1>2, <1>3 DEF Spaces

(* Spaces are counted one character at a time.                             *)
LEMMA SpacesStep ==
  ASSUME NEW s \in Nat, NEW p \in Nat, s <= p
  PROVE  /\ Spaces(s, p + 1) = Spaces(s, p) + (IF source[p] = "sp" THEN 1 ELSE 0)
         /\ Spaces(s, p) \in Nat
         /\ Spaces(s, s) = 0
  <1>1. IsFiniteSet(SpacesIn(s, p)) /\ p \notin SpacesIn(s, p)
    <2>1. IsFiniteSet(s .. p - 1) /\ SpacesIn(s, p) \in SUBSET (s .. p - 1)
      BY FS_Interval DEF SpacesIn
    <2>2. p \notin s .. p - 1
      OBVIOUS
    <2> QED BY <2>1, <2>2, FS_Subset
  <1>2. SpacesIn(s, p + 1) = IF source[p] = "sp" THEN SpacesIn(s, p) \cup {p} ELSE SpacesIn(s, p)
    <2>1. \A r : r \in s .. (p + 1) - 1 <=> r \in s .. p - 1 \/ r = p
      OBVIOUS
    <2> QED BY <2>1 DEF SpacesIn
  <1>3. Cardinality(SpacesIn(s, p)) \in Nat
    BY <1>1, FS_CardinalityType
  <1>4. Cardinality(SpacesIn(s, p) \cup {p}) = Cardinality(SpacesIn(s, p)) + 1
    BY <1>1, FS_AddElement
  <1>5. SpacesIn(s, s) = {}
    BY DEF SpacesIn
  <1>6. Spaces(s, s) = 0
    BY <1>5, FS_EmptySet DEF Spaces
  <1> QED BY <1>2, <1>3, <1>4, <1>6 DEF Spaces

-----------------------------------------------------------------------------
(* What a step leaves as it is: everything when no token is returned, and  *)
(* what lies before the place where the token begins when one is.          *)
LEMMA SameText ==
  ASSUME out' = out, source' = source
  PROVE  /\ \A p : InComment(p)' = InComment(p) /\ EscapedEnd(p)' = EscapedEnd(p)
         /\ \A p : Begun(p)' = Begun(p) /\ Within(p)' = Within(p) /\ NewlineAt(p)' = NewlineAt(p)
         /\ \A p : Open(p)' = Open(p) /\ Closed(p)' = Closed(p) /\ NewlineFits(p)' = NewlineFits(p)
         /\ \A s, p : Line(s, p)' = Line(s, p) /\ Blanked(s, p)' = Blanked(s, p)
         /\ \A s, p : Spaces(s, p)' = Spaces(s, p)
         /\ \A i : Read(i)' = Read(i) /\ Column(i)' = Column(i)
         /\ Fresh' = Fresh /\ LineTokens' = LineTokens
         /\ \A c : Above(c)' = Above(c)
         /\ \A j, c : Nearest(j, c)' = Nearest(j, c)
  <1>1. /\ \A i, p : Inside(i, p)' = Inside(i, p)
        /\ \A i : Read(i)' = Read(i) /\ Before(i)' = Before(i)
    BY DEF Inside, Read, Before
  <1>2. \A p : InComment(p)' = InComment(p) /\ Within(p)' = Within(p)
    BY <1>1 DEF InComment, Within
  <1>3. \A p : EscapedEnd(p)' = EscapedEnd(p)
    BY <1>2 DEF EscapedEnd
  <1>4. \A p : Begun(p)' = Begun(p) /\ NewlineAt(p)' = NewlineAt(p)
    BY <1>1, <1>2 DEF Begun, NewlineAt
  <1>5. \A p : Open(p)' = Open(p) /\ Closed(p)' = Closed(p)
    BY DEF Open, Closed
  <1>6. \A s, p : Line(s, p)' = Line(s, p) /\ Blanked(s, p)' = Blanked(s, p)
    BY <1>3 DEF Line, LineStart, Blanked
  <1>7. \A s, p : Spaces(s, p)' = Spaces(s, p)
    BY DEF Spaces, SpacesIn
  <1>8. \A i : Column(i)' = Column(i)
    BY <1>3, ZenonT(40) DEF Column
  <1>9. /\ \A i : BeginsLine(i)' = BeginsLine(i)
        /\ Fresh' = Fresh
    BY <1>1 DEF BeginsLine, Fresh, LineOver
  <1>10. LineTokens' = LineTokens
    BY <1>9 DEF LineTokens
  <1>11. \A c : Above(c)' = Above(c)
    BY <1>8, <1>10 DEF Above
  <1>12. \A j, c : Nearest(j, c)' = Nearest(j, c)
    BY <1>11 DEF Nearest
  <1> QED BY <1>1, <1>2, <1>3, <1>4, <1>5, <1>6, <1>7, <1>8, <1>9, <1>10, <1>11, <1>12 DEF NewlineFits

(* The characters before the place where a token begins.                   *)
LEMMA SameBefore ==
  ASSUME FitInv, NEW kind \in Kinds, NEW from \in Nat, Emits(kind, from),
         NEW p \in Nat, p <= Begin \/ ~ Reads(kind, from, pos')
  PROVE  /\ InComment(p)' = InComment(p) /\ EscapedEnd(p)' = EscapedEnd(p)
         /\ Begun(p)' = Begun(p) /\ Within(p)' = Within(p)
         /\ EscapedEnd(p + 1)' = EscapedEnd(p + 1)
         /\ \A q \in 1 .. p - 1 : NewlineAt(q)' = NewlineAt(q)
         /\ \A s : Line(s, p)' = Line(s, p)
         /\ \A i \in DOMAIN out : Read(i)' = Read(i)
         /\ \A s, q : Blanked(s, q)' = Blanked(s, q) /\ Spaces(s, q)' = Spaces(s, q)
  <1> SUFFICES ASSUME NEW n, n = Len(out) + 1,
                      NEW L, L = {q \in Nat : q <= Begin \/ ~ Reads(kind, from, pos')}
               PROVE  /\ InComment(p)' = InComment(p) /\ EscapedEnd(p)' = EscapedEnd(p)
                      /\ Begun(p)' = Begun(p) /\ Within(p)' = Within(p)
                      /\ EscapedEnd(p + 1)' = EscapedEnd(p + 1)
                      /\ \A q \in 1 .. p - 1 : NewlineAt(q)' = NewlineAt(q)
                      /\ \A s : Line(s, p)' = Line(s, p)
                      /\ \A i \in DOMAIN out : Read(i)' = Read(i)
                      /\ \A s, q : Blanked(s, q)' = Blanked(s, q) /\ Spaces(s, q)' = Spaces(s, q)
    OBVIOUS
  <1>1. /\ DOMAIN out = 1 .. Len(out) /\ DOMAIN out' = 1 .. n /\ Len(out) \in Nat
        /\ \A i \in 1 .. Len(out) : out'[i] = out[i]
        /\ out'[n].kind = kind /\ out'[n].first = from /\ out'[n].next = pos'
    BY EmitIs DEF Emits, FitInv
  <1>2. Begin \in Nat /\ source' = source /\ p \in L
    BY TextType DEF Emits, FitInv
  <1>3. \A i \in DOMAIN out : Read(i)' = Read(i)
    BY <1>1, <1>2 DEF Read
  <1>4. Read(n)' = Reads(kind, from, pos') /\ (Read(n)' => from = Begin)
    BY <1>1, <1>2 DEF Read, Reads, Emits
  <1>5. /\ \A q \in L : ~ Inside(n, q)' /\ (Read(n)' => q <= from)
        /\ \A i \in DOMAIN out, q \in L : Inside(i, q)' = Inside(i, q)
    BY <1>1, <1>2, <1>3, <1>4 DEF Inside
  <1>6. \A q \in L : Within(q)' = Within(q)
    BY <1>1, <1>5 DEF Within
  <1>7. \A q \in L : \A r \in 1 .. q : r \in L
    BY <1>2
  <1>8. \A q \in L : InComment(q)' = InComment(q)
    <2> SUFFICES ASSUME NEW q \in L PROVE InComment(q)' = InComment(q)
      OBVIOUS
    <2>1. \A r \in 1 .. q - 1 : r \in L
      BY <1>2, <1>7
    <2>2. InComment(q) = \E x \in 1 .. q - 1 :
             source[x] = "#" /\ ~ Within(x) /\ \A y \in x .. q - 1 : source[y] # "nl"
      BY DEF InComment, Within
    <2>3. InComment(q)' = \E x \in 1 .. q - 1 :
             source[x] = "#" /\ ~ Within(x)' /\ \A y \in x .. q - 1 : source[y] # "nl"
      BY <1>2 DEF InComment, Within
    <2> QED BY <1>6, <2>1, <2>2, <2>3
  <1>9. \A q \in L : EscapedEnd(q)' = EscapedEnd(q) /\ EscapedEnd(q + 1)' = EscapedEnd(q + 1)
    <2> SUFFICES ASSUME NEW q \in L
                 PROVE  EscapedEnd(q)' = EscapedEnd(q) /\ EscapedEnd(q + 1)' = EscapedEnd(q + 1)
      OBVIOUS
    <2>1. \A r \in 1 .. q : r \in L /\ InComment(r)' = InComment(r)
      BY <1>7, <1>8
    <2>2. \A r \in 1 .. q - 1 : r \in 1 .. q
      BY <1>2
    <2>3. \A r \in 1 .. (q + 1) - 1 : r \in 1 .. q
      BY <1>2
    <2> QED BY <1>2, <2>1, <2>2, <2>3 DEF EscapedEnd
  <1>10. \A q \in L : \A r \in 1 .. q - 1 : NewlineAt(r)' = NewlineAt(r)
    <2> SUFFICES ASSUME NEW q \in L, NEW r \in 1 .. q - 1 PROVE NewlineAt(r)' = NewlineAt(r)
      OBVIOUS
    <2>1. ~ (Read(n)' /\ out'[n].first = r)
      <3>1. Read(n)' => q <= from
        BY <1>5
      <3>2. out'[n].first = from
        BY <1>1
      <3>3. q \in Nat /\ r \in 1 .. q - 1
        BY <1>2
      <3>4. q <= from => r # from
        BY ONLY <3>3, from \in Nat, SMT
      <3> QED BY <3>1, <3>2, <3>4
    <2> QED BY <1>1, <1>3, <2>1 DEF NewlineAt
  <1>11. Begun(p)' = Begun(p)
    <2>1. \A q \in 1 .. p - 1 : q \in L /\ InComment(q)' = InComment(q)
      BY <1>2, <1>7, <1>8
    <2>2. \A q \in 1 .. p - 1 : ~ (Read(n)' /\ out'[n].first = q)
      BY <1>1, <1>2, <1>5
    <2>3. \A q \in 1 .. p - 1 :
            (\E i \in DOMAIN out : Read(i) /\ out[i].kind # "NEWLINE" /\ out[i].first = q)
             = (\E i \in DOMAIN out' : Read(i)' /\ out'[i].kind # "NEWLINE" /\ out'[i].first = q)
      BY <1>1, <1>3, <2>2
    <2>4. \A q \in 1 .. p - 1 :
            (\A j \in DOMAIN out : Read(j) /\ out[j].kind = "NEWLINE" => out[j].first \notin q .. p - 1)
             = (\A j \in DOMAIN out' : Read(j)' /\ out'[j].kind = "NEWLINE" => out'[j].first \notin q .. p - 1)
      <3> SUFFICES ASSUME NEW q \in 1 .. p - 1
                   PROVE (\A j \in DOMAIN out : Read(j) /\ out[j].kind = "NEWLINE" => out[j].first \notin q .. p - 1)
             = (\A j \in DOMAIN out' : Read(j)' /\ out'[j].kind = "NEWLINE" => out'[j].first \notin q .. p - 1)
        OBVIOUS
      <3>1. ~ (Read(n)' /\ out'[n].first \in q .. p - 1)
        BY <1>1, <1>2, <1>5
      <3> QED BY <1>1, <1>3, <3>1
    <2> QED BY <1>2, <2>1, <2>3, <2>4 DEF Begun
  <1>12. \A s : Line(s, p)' = Line(s, p)
    <2>1. \A q \in 1 .. p : q \in L /\ EscapedEnd(q)' = EscapedEnd(q)
      BY <1>2, <1>7, <1>9
    <2>2. \A s \in 1 .. p : (s # 1 => s - 1 \in 1 .. p) /\ \A r \in s .. p - 1 : r \in 1 .. p
      BY <1>2
    <2>3. \A s \in 1 .. p : LineStart(s)' = LineStart(s)
      BY <1>2, <2>1, <2>2 DEF LineStart
    <2> QED BY <1>2, <2>1, <2>2, <2>3 DEF Line
  <1>13. \A s, q : Blanked(s, q)' = Blanked(s, q) /\ Spaces(s, q)' = Spaces(s, q)
    BY <1>2 DEF Blanked, Spaces, SpacesIn
  <1> QED BY <1>2, <1>3, <1>6, <1>8, <1>9, <1>10, <1>11, <1>12, <1>13

(* The tokens and their lines, after one more.                             *)
LEMMA TokensNext ==
  ASSUME FitInv, NEW kind \in Kinds, NEW from \in Nat, Emits(kind, from), NEW n, n = Len(out) + 1
  PROVE  /\ DOMAIN out = 1 .. Len(out) /\ DOMAIN out' = 1 .. n /\ Len(out) \in Nat /\ n \in Nat
         /\ \A i \in DOMAIN out : out'[i] = out[i] /\ Read(i)' = Read(i)
         /\ out'[n].kind = kind /\ out'[n].first = from /\ out'[n].next = pos'
         /\ Read(n)' = Reads(kind, from, pos')
         /\ Fresh' = IF kind \in Dents THEN Fresh ELSE kind = "NEWLINE"
         /\ LineTokens' = IF Reads(kind, from, pos') /\ Fresh THEN LineTokens \cup {n} ELSE LineTokens
         /\ \A i \in LineTokens : i \in DOMAIN out /\ Column(i)' = Column(i)
  <1>1. /\ DOMAIN out = 1 .. Len(out) /\ DOMAIN out' = 1 .. n /\ Len(out) \in Nat /\ n \in Nat
        /\ Len(out') = n
        /\ \A i \in DOMAIN out : out'[i] = out[i]
        /\ out'[n].kind = kind /\ out'[n].first = from /\ out'[n].next = pos'
    BY EmitIs DEF Emits, FitInv
  <1>2. /\ Begin \in Nat /\ source' = source
        /\ \A i \in DOMAIN out : out[i].first \in Nat /\ out[i].next \in Nat
    BY TextType DEF Emits, FitInv
  <1>3. (\A i \in DOMAIN out : Read(i)' = Read(i)) /\ Read(n)' = Reads(kind, from, pos')
    BY <1>1, <1>2 DEF Read, Reads
  <1>4. \A i \in 1 .. n : Before(i)' = Before(i)
    <2>1. \A i \in 1 .. n : \A j : j \in DOMAIN out' /\ j < i <=> j \in DOMAIN out /\ j < i
      BY <1>1
    <2>2. \A j \in DOMAIN out : out'[j].kind = out[j].kind
      BY <1>1
    <2> QED BY <2>1, <2>2 DEF Before
  <1>5. \A i \in 1 .. n : LineOver(i)' = LineOver(i)
    <2>1. \A i, j : j \in Before(i) => j \in DOMAIN out
      BY DEF Before
    <2> QED BY <1>1, <1>4, <2>1 DEF LineOver
  <1>6. \A i : BeginsLine(i) = (Read(i) /\ LineOver(i)) /\ BeginsLine(i)' = (Read(i)' /\ LineOver(i)')
    BY DEF BeginsLine, LineOver
  <1>7. n \in 1 .. n /\ Fresh = LineOver(n) /\ Fresh' = LineOver(n + 1)'
    BY <1>1 DEF Fresh
  <1>8. Fresh' = IF kind \in Dents THEN Fresh ELSE kind = "NEWLINE"
    <2>1. Before(n + 1)' = IF kind \in Dents THEN Before(n)' ELSE Before(n)' \cup {n}
      <3>1. \A j : j \in DOMAIN out' /\ j < n + 1 <=> (j \in DOMAIN out' /\ j < n) \/ j = n
        BY <1>1
      <3>2. \A i : Before(i)' = {j \in DOMAIN out' : j < i /\ out'[j].kind \notin Dents}
        BY DEF Before
      <3>3. \A j : j \in Before(n + 1)' <=> (j \in Before(n)' \/ (j = n /\ kind \notin Dents))
        BY <1>1, <3>1, <3>2
      <3> QED BY <3>3
    <2>2. CASE kind \in Dents
      <3>1. Before(n + 1)' = Before(n)'
        BY <2>1, <2>2
      <3>2. LineOver(n + 1)' = LineOver(n)'
        BY <3>1 DEF LineOver
      <3> QED BY <1>5, <1>7, <2>2, <3>2
    <2>3. CASE kind \notin Dents
      <3>1. Before(n + 1)' = Before(n)' \cup {n}
        BY <2>1, <2>3
      <3>2. \A k \in Before(n)' : k \in Nat /\ k < n
        <4>1. Before(n)' = {j \in DOMAIN out' : j < n /\ out'[j].kind \notin Dents}
          BY DEF Before
        <4> QED BY <1>1, <4>1
      <3>3. \A j \in Before(n + 1)' : (\A k \in Before(n + 1)' : k <= j) <=> j = n
        BY <1>1, <3>1, <3>2
      <3>4. n \in Before(n + 1)'
        BY <3>1
      <3>5. LineOver(n + 1)' = (kind = "NEWLINE")
        BY <1>1, <3>3, <3>4 DEF LineOver
      <3> QED BY <1>7, <2>3, <3>5
    <2> QED BY <2>2, <2>3
  <1>9. LineTokens' = IF Reads(kind, from, pos') /\ Fresh THEN LineTokens \cup {n} ELSE LineTokens
    <2>1. \A i : i \in DOMAIN out' <=> i \in DOMAIN out \/ i = n
      BY <1>1
    <2>2. \A i \in DOMAIN out : i \in 1 .. n /\ i # n
      BY <1>1
    <2>3. \A i \in DOMAIN out : BeginsLine(i)' = BeginsLine(i)
      BY <1>3, <1>5, <1>6, <2>2
    <2>4. BeginsLine(n)' = (Reads(kind, from, pos') /\ Fresh)
      BY <1>3, <1>5, <1>6, <1>7
    <2>5. \A i : i \in LineTokens' <=> i \in LineTokens \/ (i = n /\ Reads(kind, from, pos') /\ Fresh)
      BY <2>1, <2>2, <2>3, <2>4 DEF LineTokens
    <2> QED BY <2>5
  <1>10. ASSUME NEW i \in LineTokens
         PROVE  i \in DOMAIN out /\ Column(i)' = Column(i)
    <2>1. i \in DOMAIN out /\ Read(i)
      BY <1>6 DEF LineTokens
    <2> SUFFICES ASSUME NEW f, f = out[i].first PROVE Column(i)' = Column(i)
      BY <2>1
    <2>2. f \in Nat /\ f <= Begin
      <3>1. f < out[i].next /\ out[i].next <= Begin
        BY <2>1 DEF Read, FitInv, TextInv, Tight
      <3> QED BY <1>2, <2>1, <3>1
    <2>3. \A s : Line(s, f)' = Line(s, f)
      BY <2>2, SameBefore
    <2>4. \A s : Cardinality({p \in s .. f - 1 :
                   source[p] = "sp" /\ \A q \in s .. p : source[q] \in Blanks})'
               = Cardinality({p \in s .. f - 1 :
                   source[p] = "sp" /\ \A q \in s .. p : source[q] \in Blanks})
      BY <1>2
    <2>5. Column(i) = LET from1 == CHOOSE s \in 1 .. f : Line(s, f)
                      IN Cardinality({p \in from1 .. f - 1 :
                           source[p] = "sp" /\ \A q \in from1 .. p : source[q] \in Blanks})
      BY DEF Column, Line, LineStart
    <2>6. Column(i)' = LET from1 == CHOOSE s \in 1 .. f : Line(s, f)'
                       IN Cardinality({p \in from1 .. f - 1 :
                           source[p] = "sp" /\ \A q \in from1 .. p : source[q] \in Blanks})
      BY <1>1, <1>2, <2>1, ZenonT(40) DEF Column, Line, LineStart
    <2>7. (CHOOSE s \in 1 .. f : Line(s, f)') = (CHOOSE s \in 1 .. f : Line(s, f))
      BY <2>3
    <2> QED BY <2>1, <2>5, <2>6, <2>7
  <1> QED BY <1>1, <1>3, <1>8, <1>9, <1>10

LEMMA CountNext ==
  ASSUME FitInv, NEW kind \in Kinds, NEW from \in Nat, pos' \in Nat, Emit(kind, from), NEW p \in Nat
  PROVE  /\ Open(p)' = Open(p) + (IF kind \in Opening /\ from < p THEN 1 ELSE 0)
         /\ Closed(p)' = Closed(p) + (IF kind \in Closing /\ from < p THEN 1 ELSE 0)
         /\ Open(p) \in Nat /\ Closed(p) \in Nat
  <1>1. /\ DOMAIN out = 1 .. Len(out) /\ DOMAIN out' = 1 .. Len(out) + 1 /\ Len(out) \in Nat
        /\ \A i \in 1 .. Len(out) : out'[i] = out[i]
        /\ out'[Len(out) + 1].kind = kind /\ out'[Len(out) + 1].first = from
    BY EmitIs DEF FitInv
  <1>2. ASSUME NEW K, NEW S, NEW T, S = {i \in DOMAIN out : out[i].kind \in K /\ out[i].first < p},
               T = {i \in DOMAIN out' : out'[i].kind \in K /\ out'[i].first < p}
        PROVE  /\ Cardinality(T) = Cardinality(S) + (IF kind \in K /\ from < p THEN 1 ELSE 0)
               /\ Cardinality(S) \in Nat
    <2>1. S \in SUBSET (1 .. Len(out)) /\ Len(out) + 1 \notin S
      BY <1>1, <1>2
    <2>2. IsFiniteSet(S) /\ Cardinality(S) \in Nat
      <3>1. IsFiniteSet(1 .. Len(out))
        BY <1>1, FS_Interval
      <3>2. IsFiniteSet(S)
        BY <2>1, <3>1, FS_Subset
      <3> QED BY <3>2, FS_CardinalityType
    <2>3. T = IF kind \in K /\ from < p THEN S \cup {Len(out) + 1} ELSE S
      BY <1>1, <1>2
    <2>4. Cardinality(S \cup {Len(out) + 1}) = Cardinality(S) + 1
      BY <2>1, <2>2, FS_AddElement
    <2> QED BY <2>2, <2>3, <2>4
  <1> DEFINE before(K) == {i \in DOMAIN out : out[i].kind \in K /\ out[i].first < p}
             after(K)  == {i \in DOMAIN out' : out'[i].kind \in K /\ out'[i].first < p}
  <1>3. \A K : /\ Cardinality(after(K)) = Cardinality(before(K))
                                           + (IF kind \in K /\ from < p THEN 1 ELSE 0)
               /\ Cardinality(before(K)) \in Nat
    BY <1>2
  <1>4. /\ Open(p) = Cardinality(before(Opening)) /\ Open(p)' = Cardinality(after(Opening))
        /\ Closed(p) = Cardinality(before(Closing)) /\ Closed(p)' = Cardinality(after(Closing))
    BY DEF Open, Closed
  <1> HIDE DEF before, after
  <1> QED BY <1>3, <1>4

(* Brackets are counted up to where the next token can begin.              *)
LEMMA CountAfter ==
  ASSUME \A i \in DOMAIN out : out[i].kind \in Brackets => out[i].first < Begin,
         \A i \in DOMAIN out : out[i].first \in Nat, Begin \in Nat, NEW p \in Nat, Begin <= p
  PROVE  Open(p) = Open(Begin) /\ Closed(p) = Closed(Begin)
  <1>1. \A i \in DOMAIN out : out[i].kind \in Opening \cup Closing =>
          (out[i].first < p <=> out[i].first < Begin)
    BY DEF Brackets
  <1>2. {i \in DOMAIN out : out[i].kind \in Opening /\ out[i].first < p}
         = {i \in DOMAIN out : out[i].kind \in Opening /\ out[i].first < Begin}
    BY <1>1
  <1>3. {i \in DOMAIN out : out[i].kind \in Closing /\ out[i].first < p}
         = {i \in DOMAIN out : out[i].kind \in Closing /\ out[i].first < Begin}
    BY <1>1
  <1> QED BY <1>2, <1>3 DEF Open, Closed

-----------------------------------------------------------------------------
(* What a place in the source says of the places after it.                 *)
LEMMA LineFacts ==
  ASSUME FitInv
  PROVE  /\ pos \in Nat \ {0} /\ Len(source) \in Nat /\ pos <= Len(source) + 1
         /\ Begin \in Nat \ {0} /\ first \in Nat \ {0} /\ pos + 0 = pos
         /\ DOMAIN source = 1 .. Len(source)
         /\ Here = IF pos <= Len(source) THEN source[pos] ELSE "end"
         /\ \A p \in 1 .. Len(source) : source[p] # "end"
         /\ \A i \in DOMAIN out : /\ out[i].first \in Nat /\ out[i].next \in Nat
                                  /\ Read(i) => out[i].first < Begin /\ out[i].next <= Begin
         /\ \A p \in Nat : Begin <= p => ~ NewlineAt(p) /\ ~ Within(p)
         /\ indents \in Seq(Nat) /\ Len(indents) \in Nat \ {0} /\ indents[1] = 0
         /\ DOMAIN indents = 1 .. Len(indents) /\ Top \in Nat /\ Top = indents[Len(indents)]
         /\ indent \in Nat /\ depth \in Nat /\ dents \in Int
         /\ Level + dents = Len(indents) - 1
  <1>1. /\ pos \in Nat \ {0} /\ Len(source) \in Nat /\ pos <= Len(source) + 1
        /\ Begin \in Nat \ {0} /\ first \in Nat \ {0}
        /\ source \in Seq(Chars) /\ indents \in Seq(Nat) /\ indents # << >>
        /\ indent \in Nat /\ depth \in Nat /\ dents \in Int
        /\ indents[1] = 0 /\ Level + dents = Len(indents) - 1
    BY TextType, ScanInv DEF FitInv, Inv, LexTypeOK, LevelsOwed
  <1>2. "end" \notin Chars
    BY DEF Chars, Letters, Digits, Words, Blanks, Opening, Closing, Signs, EqualSigns
  <1>3. DOMAIN source = 1 .. Len(source) /\ \A p \in 1 .. Len(source) : source[p] \in Chars
    BY <1>1
  <1>4. \A i \in DOMAIN out : /\ out[i].first \in Nat /\ out[i].next \in Nat
                              /\ Read(i) => out[i].first < Begin /\ out[i].next <= Begin
    <2>1. \A i \in DOMAIN out : Read(i) => out[i].next <= Begin
      BY DEF FitInv, TextInv, Tight
    <2>2. \A i \in DOMAIN out : out[i].first \in Nat /\ out[i].next \in Nat
      BY TextType DEF FitInv
    <2> QED BY <1>1, <2>1, <2>2 DEF Read
  <1>5. \A p \in Nat : Begin <= p => ~ NewlineAt(p) /\ ~ Within(p)
    BY <1>1, <1>4 DEF NewlineAt, Within, Inside
  <1>6. DOMAIN indents = 1 .. Len(indents) /\ Len(indents) \in Nat \ {0} /\ Top \in Nat
        /\ Top = indents[Len(indents)]
    BY <1>1 DEF Top
  <1>7. Here = IF pos <= Len(source) THEN source[pos] ELSE "end"
    BY <1>1, <1>3 DEF Here, Peek
  <1> QED BY <1>1, <1>2, <1>3, <1>4, <1>5, <1>6, <1>7

LEMMA BegunOn ==
  ASSUME FitInv, NEW p \in Nat, Begin <= p
  PROVE  /\ \A r \in Nat : Begun(p) /\ p <= r => Begun(r)
         /\ ~ Begun(p) /\ (source[p] # "bs" \/ InComment(p)) => ~ Begun(p + 1)
         /\ \A r \in Nat : source[p] = "bs" /\ ~ InComment(p) /\ p < r => Begun(r)
  <1>0. /\ Begin \in Nat \ {0}
        /\ \A i \in DOMAIN out : out[i].first \in Nat /\ (Read(i) => out[i].first < Begin)
    BY LineFacts
  <1>1. ASSUME NEW r \in Nat, Begun(p), p <= r
        PROVE  Begun(r)
    <2>1. PICK q \in 1 .. p - 1 :
            /\ \/ source[q] = "bs" /\ ~ InComment(q)
               \/ \E i \in DOMAIN out : Read(i) /\ out[i].kind # "NEWLINE" /\ out[i].first = q
            /\ \A j \in DOMAIN out :
                 Read(j) /\ out[j].kind = "NEWLINE" => out[j].first \notin q .. p - 1
      BY <1>1 DEF Begun
    <2>2. \A j \in DOMAIN out :
            Read(j) /\ out[j].kind = "NEWLINE" => out[j].first \notin q .. r - 1
      BY <1>0, <1>1, <2>1
    <2>3. q \in 1 .. r - 1
      BY <1>1
    <2> QED BY <2>1, <2>2, <2>3 DEF Begun
  <1>2. ASSUME ~ Begun(p), source[p] # "bs" \/ InComment(p), Begun(p + 1)
        PROVE  FALSE
    <2>1. PICK q \in 1 .. (p + 1) - 1 :
            /\ \/ source[q] = "bs" /\ ~ InComment(q)
               \/ \E i \in DOMAIN out : Read(i) /\ out[i].kind # "NEWLINE" /\ out[i].first = q
            /\ \A j \in DOMAIN out :
                 Read(j) /\ out[j].kind = "NEWLINE" => out[j].first \notin q .. (p + 1) - 1
      BY <1>2 DEF Begun
    <2>2. q # p
      BY <1>0, <1>2, <2>1
    <2>3. q \in 1 .. p - 1
      BY <2>2
    <2>4. \A j \in DOMAIN out :
            Read(j) /\ out[j].kind = "NEWLINE" => out[j].first \notin q .. p - 1
      BY <1>0, <2>1
    <2> QED BY <1>2, <2>1, <2>3, <2>4 DEF Begun
  <1>3. ASSUME NEW r \in Nat, source[p] = "bs", ~ InComment(p), p < r
        PROVE  Begun(r)
    <2>1. p \in 1 .. r - 1
      BY <1>0, <1>3
    <2>2. \A j \in DOMAIN out :
            Read(j) /\ out[j].kind = "NEWLINE" => out[j].first \notin p .. r - 1
      BY <1>0, <1>3
    <2> QED BY <1>3, <2>1, <2>2 DEF Begun
  <1> QED BY <1>1, <1>2, <1>3

LEMMA CommentOn ==
  ASSUME NEW p \in Nat \ {0}
  PROVE  /\ source[p] = "nl" => ~ InComment(p + 1)
         /\ ~ InComment(p) /\ source[p] # "#" => ~ InComment(p + 1)
         /\ InComment(p) => ~ EscapedEnd(p)
         /\ \A q \in 1 .. p : InComment(q) /\ (\A r \in q .. p - 1 : source[r] # "nl") => InComment(p)
  <1>1. ASSUME InComment(p + 1)
        PROVE  source[p] # "nl" /\ (source[p] # "#" => InComment(p))
    <2>1. PICK q \in 1 .. (p + 1) - 1 :
            /\ source[q] = "#" /\ ~ \E i \in DOMAIN out : Inside(i, q)
            /\ \A r \in q .. (p + 1) - 1 : source[r] # "nl"
      BY <1>1 DEF InComment
    <2>2. p \in q .. (p + 1) - 1 /\ \A r \in q .. p - 1 : r \in q .. (p + 1) - 1
      OBVIOUS
    <2>3. source[p] # "#" => q \in 1 .. p - 1
      BY <2>1
    <2> QED BY <2>1, <2>2, <2>3 DEF InComment
  <1>2. ASSUME InComment(p), EscapedEnd(p)
        PROVE  FALSE
    <2>1. PICK x \in 1 .. p - 1 :
            /\ source[x] = "#" /\ ~ \E i \in DOMAIN out : Inside(i, x)
            /\ \A r \in x .. p - 1 : source[r] # "nl"
      BY <1>2 DEF InComment
    <2>2. PICK q \in 1 .. p - 1 :
            /\ source[q] = "bs" /\ ~ InComment(q)
            /\ q = p - 1 \/ (q = p - 2 /\ source[p - 1] = "cr")
      BY <1>2 DEF EscapedEnd
    <2>3. x # q /\ (source[p - 1] = "cr" => x # p - 1)
      BY <2>1, <2>2
    <2>4. x \in 1 .. q - 1 /\ \A r \in x .. q - 1 : r \in x .. p - 1
      BY <2>2, <2>3
    <2>5. InComment(q)
      BY <2>1, <2>4 DEF InComment
    <2> QED BY <2>2, <2>5
  <1>3. ASSUME NEW q \in 1 .. p, InComment(q), \A r \in q .. p - 1 : source[r] # "nl"
        PROVE  InComment(p)
    <2>1. PICK x \in 1 .. q - 1 :
            /\ source[x] = "#" /\ ~ \E i \in DOMAIN out : Inside(i, x)
            /\ \A r \in x .. q - 1 : source[r] # "nl"
      BY <1>3 DEF InComment
    <2>2. x \in 1 .. p - 1 /\ \A r \in x .. p - 1 : r \in x .. q - 1 \/ r \in q .. p - 1
      OBVIOUS
    <2> QED BY <1>3, <2>1, <2>2 DEF InComment
  <1> QED BY <1>1, <1>2, <1>3

(* At the margin of a line nothing is escaped and nothing is a comment.    *)
LEMMA MarginClear ==
  ASSUME NEW p \in Nat \ {0}, NEW s \in 1 .. p, Line(s, p), Blanked(s, p)
  PROVE  ~ EscapedEnd(p) /\ ~ InComment(p)
  <1>0. /\ s # 1 => source[s - 1] = "nl"
        /\ \A r \in s .. p - 1 : source[r] \in {"sp", "tab", "cr"}
    BY DEF Line, LineStart, Blanked, Blanks
  <1>1. ASSUME EscapedEnd(p) PROVE FALSE
    <2>1. PICK q \in 1 .. p - 1 :
            /\ source[q] = "bs"
            /\ q = p - 1 \/ (q = p - 2 /\ source[p - 1] = "cr")
      BY <1>1 DEF EscapedEnd
    <2>2. q \notin s .. p - 1
      BY <1>0, <2>1
    <2>3. q < s
      BY <2>2
    <2>4. CASE q = p - 1
      <3>1. s # 1 /\ q = s - 1
        BY <2>3, <2>4
      <3> QED BY <1>0, <2>1, <3>1
    <2>5. CASE q = p - 2 /\ source[p - 1] = "cr"
      <3>1. s = p \/ s = p - 1
        BY <2>3, <2>5
      <3>2. s # 1 /\ (s = p => s - 1 = p - 1) /\ (s = p - 1 => s - 1 = q)
        BY <2>3, <2>5
      <3> QED BY <1>0, <2>1, <2>5, <3>1, <3>2
    <2> QED BY <2>1, <2>4, <2>5
  <1>2. ASSUME InComment(p) PROVE FALSE
    <2>1. PICK x \in 1 .. p - 1 : source[x] = "#" /\ \A r \in x .. p - 1 : source[r] # "nl"
      BY <1>2 DEF InComment
    <2>2. x \notin s .. p - 1
      BY <1>0, <2>1
    <2>3. s # 1 /\ s - 1 \in x .. p - 1
      BY <2>2
    <2> QED BY <1>0, <2>1, <2>3
  <1> QED BY <1>1, <1>2

-----------------------------------------------------------------------------
(* Steps that return no token.                                             *)
LEMMA PassStack ==
  ASSUME FitInv, Stacked, Waiting, Placed, UNCHANGED <<source, out, indents>>,
         Begin' \in Nat, Begin <= Begin',
         \A c \in Nat : Known(c)' => Known(c), Waits' => Waits
  PROVE  Stacked' /\ Waiting' /\ Placed'
  <1>1. /\ LineTokens' = LineTokens /\ \A i : Column(i)' = Column(i)
        /\ \A c : Above(c)' = Above(c)
        /\ \A j, c : Nearest(j, c)' = Nearest(j, c)
    BY SameText
  <1>2. /\ \A n, c : Answers(n, c)' = Answers(n, c) /\ Holds(n, c)' = Holds(n, c)
        /\ Rising' = Rising /\ Top' = Top /\ \A j : Deeper(j)' = Deeper(j)
    BY <1>1 DEF Answers, Holds, Rising, Top, Deeper
  <1>3. Begin' <= Len(source') => Begin <= Len(source)
    BY LineFacts
  <1>4. Stacked'
    BY <1>2, <1>3 DEF Stacked
  <1>5. Waiting'
    BY <1>1, <1>2, <1>3 DEF Waiting
  <1>6. \A i : Upper(i)' = Upper(i)
    BY <1>1 DEF Upper
  <1>7. Placed'
    BY <1>1, <1>6 DEF Placed, InBlock
  <1> QED BY <1>4, <1>5, <1>7

LEMMA PassNewlines ==
  ASSUME FitInv, NewlinesFit, UNCHANGED <<source, out>>, Begin' \in Nat, Begin <= Begin',
         \A p \in Begin .. Begin' - 1 :
           p <= Len(source) - 1 /\ source[p] = "nl" =>
             ~ (Open(p) = Closed(p) /\ Begun(p) /\ ~ EscapedEnd(p))
  PROVE  NewlinesFit'
  <1>1. /\ \A p : Within(p)' = Within(p) /\ NewlineFits(p)' = NewlineFits(p)
    BY SameText
  <1>2. ASSUME NEW p \in 1 .. Len(source) - 1, p < Begin', source[p] = "nl", ~ Within(p)
        PROVE  NewlineFits(p)
    <2>1. CASE p < Begin
      BY <1>2, <2>1 DEF NewlinesFit
    <2>2. CASE ~ (p < Begin)
      <3>0. Begin \in Nat /\ Len(source) \in Nat /\ \A q \in Nat : Begin <= q => ~ NewlineAt(q)
        BY LineFacts
      <3>a. p \in Nat
        BY <3>0
      <3>b. Begin <= p
        BY ONLY <2>2, <3>0, <3>a
      <3>c. p < Begin' /\ Begin' \in Nat
        BY <1>2
      <3>d. Begin \in Nat
        BY <3>0
      <3>e. \A x \in Nat, y \in Nat, z \in Nat : x <= y /\ y < z => y \in x .. z - 1
        OBVIOUS
      <3>1. p \in Begin .. Begin' - 1
        BY ONLY <3>a, <3>b, <3>c, <3>d, <3>e
      <3>2. ~ NewlineAt(p)
        BY ONLY <3>0, <3>a, <3>b
      <3>3. p <= Len(source) - 1
        BY <3>0
      <3>4. ~ (Open(p) = Closed(p) /\ Begun(p) /\ ~ EscapedEnd(p))
        BY <1>2, <3>1, <3>3
      <3> QED BY <3>2, <3>4 DEF NewlineFits
    <2> QED BY <2>1, <2>2
  <1> QED BY <1>1, <1>2 DEF NewlinesFit

LEMMA PassDepth ==
  ASSUME FitInv, DepthFits, UNCHANGED <<source, out, depth>>, Begin' \in Nat, Begin <= Begin',
         mode' \in LayoutModes => mode \in LayoutModes
  PROVE  DepthFits'
  <1>1. Fresh' = Fresh /\ \A p : Open(p)' = Open(p) /\ Closed(p)' = Closed(p)
    BY SameText
  <1>2. /\ Begin \in Nat /\ Len(source) \in Nat
        /\ \A i \in DOMAIN out : out[i].first \in Nat
        /\ \A i \in DOMAIN out : out[i].kind \in Brackets => out[i].first < Begin
    BY LineFacts DEF DepthFits
  <1>3. Open(Begin') = Open(Begin) /\ Closed(Begin') = Closed(Begin)
    BY <1>2, CountAfter
  <1>4. \A i \in DOMAIN out : out[i].kind \in Brackets => out[i].first < Begin'
    BY <1>2
  <1>5. Open(Begin)' = Open(Begin') /\ Closed(Begin)' = Closed(Begin')
    BY <1>1
  <1>6. (depth + Closed(Begin) = Open(Begin))'
    BY <1>3, <1>5 DEF DepthFits
  <1>7. (Fresh /\ Begin <= Len(source) => depth = 0)'
    BY <1>1, <1>2 DEF DepthFits
  <1>8. (mode \in LayoutModes => Fresh)'
    BY <1>1 DEF DepthFits
  <1> QED BY <1>4, <1>6, <1>7, <1>8 DEF DepthFits

LEMMA InRange ==
  ASSUME NEW a \in Nat, NEW b \in Nat, NEW c \in Nat
  PROVE  a <= b /\ b < c <=> b \in a .. c - 1
  OBVIOUS

(* A line goes on over a character that does not end it.                   *)
LEMMA LineOn ==
  ASSUME NEW p \in Nat \ {0}, NEW s, Line(s, p), source[p] = "nl" => EscapedEnd(p)
  PROVE  Line(s, p + 1)
  <1>1. s \in 1 .. p + 1 /\ \A r \in s .. (p + 1) - 1 : r = p \/ r \in s .. p - 1
    BY DEF Line
  <1> QED BY <1>1 DEF Line

LEMMA MarginOn ==
  ASSUME NEW p \in Nat \ {0}, NEW s \in 1 .. p, AtMargin(s, p), source[p] \in Blanks
  PROVE  /\ Line(s, p + 1) /\ Blanked(s, p + 1)
         /\ Spaces(s, p + 1) = indent + (IF source[p] = "sp" THEN 1 ELSE 0)
  <1>1. source[p] # "nl"
    BY DEF Blanks
  <1>2. \A r \in s .. (p + 1) - 1 : r = p \/ r \in s .. p - 1
    OBVIOUS
  <1>3. Blanked(s, p + 1)
    BY <1>2 DEF Blanked, AtMargin
  <1>4. Line(s, p + 1)
    BY <1>1, LineOn DEF AtMargin
  <1>5. s \in Nat /\ s <= p
    OBVIOUS
  <1>6. Spaces(s, p + 1) = Spaces(s, p) + (IF source[p] = "sp" THEN 1 ELSE 0)
    BY <1>5, SpacesStep
  <1> QED BY <1>3, <1>4, <1>6 DEF AtMargin

LEMMA LineBegins ==
  ASSUME NEW p \in Nat \ {0}, source[p] = "nl", ~ EscapedEnd(p)
  PROVE  Line(p + 1, p + 1) /\ Blanked(p + 1, p + 1) /\ Spaces(p + 1, p + 1) = 0
  <1>1. p + 1 \in 1 .. p + 1 /\ (p + 1) - 1 = p /\ \A r : r \notin p + 1 .. (p + 1) - 1
    OBVIOUS
  <1>2. Line(p + 1, p + 1) /\ Blanked(p + 1, p + 1)
    BY <1>1 DEF Line, LineStart, Blanked
  <1>3. SpacesIn(p + 1, p + 1) = {}
    BY <1>1 DEF SpacesIn
  <1> QED BY <1>2, <1>3, FS_EmptySet DEF Spaces

LEMMA IndentationLines ==
  ASSUME FitInv, LinesFit, Indentation, NoLexError'
  PROVE  LinesFit'
  <1>0. /\ mode = "layout" /\ mode' = "layout" /\ pos' = pos + 1 /\ Here \in Blanks \cup {"nl"}
        /\ UNCHANGED <<source, out, indents, depth>>
        /\ indent' = CASE Here = "nl" -> 0 [] Here = "cr" -> indent [] OTHER -> indent + 1
        /\ Error(Here = "tab")
    BY DEF Indentation, Skip
  <1>1. /\ pos \in Nat \ {0} /\ pos <= Len(source) /\ Here = source[pos] /\ Len(source) \in Nat
        /\ Here # "end"
    BY <1>0, LineFacts DEF Blanks
  <1>2. Begin = pos /\ Begin' = pos + 1 /\ Begin' \in Nat /\ Begin <= Begin'
    BY <1>0, <1>1 DEF Begin, Literals
  <1>3. source[pos] # "tab"
    <2>1. ASSUME Here = "tab" PROVE FALSE
      <3>1. Error(TRUE)
        BY <1>0, <2>1
      <3> QED BY <3>1, ErrorNoted DEF FitInv
    <2> QED BY <1>1, <2>1
  <1>4. \/ \E s \in 1 .. pos : AtMargin(s, pos)
        \/ source[pos] = "nl" /\ InComment(pos)
    BY <1>0, <1>1 DEF LinesFit, Margins
  <1>5. source[pos] = "nl" => ~ EscapedEnd(pos)
    BY <1>1, <1>4, CommentOn, MarginClear DEF AtMargin
  <1>6. \E s \in 1 .. pos' : AtMargin(s, pos)'
    <2>1. /\ \A s, p : Line(s, p)' = Line(s, p) /\ Blanked(s, p)' = Blanked(s, p)
          /\ \A s, p : Spaces(s, p)' = Spaces(s, p)
      BY <1>0, SameText
    <2>2. CASE source[pos] = "nl"
      <3>1. /\ Line(pos + 1, pos + 1) /\ Blanked(pos + 1, pos + 1)
            /\ Spaces(pos + 1, pos + 1) = 0
        BY <1>1, <1>5, <2>2, LineBegins
      <3>2. PICK s : s = pos + 1
        OBVIOUS
      <3>3. indent' = 0 /\ s \in 1 .. pos' /\ pos' = s
        BY <1>0, <1>1, <2>2, <3>2
      <3>4. AtMargin(s, pos)'
        BY <1>0, <2>1, <3>1, <3>2, <3>3 DEF AtMargin
      <3> QED BY <3>3, <3>4
    <2>3. CASE source[pos] \in Blanks
      <3>1. PICK s \in 1 .. pos : AtMargin(s, pos)
        BY <1>4, <2>3 DEF Blanks
      <3>2. /\ Line(s, pos + 1) /\ Blanked(s, pos + 1)
            /\ Spaces(s, pos + 1) = indent + (IF source[pos] = "sp" THEN 1 ELSE 0)
        BY <1>1, <2>3, <3>1, MarginOn
      <3>3. indent' = Spaces(s, pos + 1)
        <4>1. indent \in Nat
          BY LineFacts
        <4>2. source[pos] = "sp" \/ source[pos] = "cr"
          BY <1>3, <2>3 DEF Blanks
        <4> QED BY <1>0, <1>1, <3>2, <4>1, <4>2
      <3>4. AtMargin(s, pos)'
        BY <1>0, <2>1, <3>2, <3>3 DEF AtMargin
      <3>5. s \in 1 .. pos'
        BY <1>0, <1>1
      <3> QED BY <3>4, <3>5
    <2> QED BY <1>0, <1>1, <2>2, <2>3
  <1>7. Margins'
    BY <1>0, <1>6 DEF Margins, LayoutModes
  <1>8. Stacked' /\ Waiting' /\ Placed'
    <2>1. \A c \in Nat : Known(c)
      BY <1>0 DEF Known, Waits, LayoutModes
    <2>2. ~ Waits'
      BY <1>0 DEF Waits, LayoutModes
    <2> QED BY <1>0, <1>2, <2>1, <2>2, PassStack DEF LinesFit
  <1>9. ~ Begun(pos)
    BY <1>0, <1>1 DEF LinesFit, Places
  <1>10. NewlinesFit'
    <2>1. \A p \in Begin .. Begin' - 1 : p = pos
      BY <1>1, <1>2
    <2> QED BY <1>0, <1>2, <1>9, <2>1, PassNewlines DEF LinesFit
  <1>11. DepthFits'
    BY <1>0, <1>2, PassDepth DEF LinesFit
  <1>12. ~ Begun(pos)'
    <2>1. ~ Begun(pos + 1)
      BY <1>0, <1>1, <1>2, <1>9, BegunOn DEF Blanks
    <2> QED BY <1>0, <2>1, SameText
  <1>13. Places'
    BY <1>0, <1>12 DEF Places, Literals
  <1> QED BY <1>7, <1>8, <1>10, <1>11, <1>13 DEF LinesFit

(* Steps of the scanner within a line that return no token.                *)
LEMMA ScanPass ==
  ASSUME FitInv, LinesFit, UNCHANGED <<source, out, indents, depth>>,
         mode \notin LayoutModes, mode' \notin LayoutModes, Begin' \in Nat, Begin <= Begin',
         \A s : Fresh /\ Begin' <= Len(source) /\ Line(s, Begin) => Line(s, Begin'),
         \A p \in Begin .. Begin' - 1 :
           p <= Len(source) - 1 /\ source[p] = "nl" =>
             ~ (Open(p) = Closed(p) /\ Begun(p) /\ ~ EscapedEnd(p))
  PROVE  Margins' /\ Stacked' /\ Waiting' /\ Placed' /\ NewlinesFit' /\ DepthFits'
  <1>1. Begin \in Nat \ {0} /\ Len(source) \in Nat
    BY LineFacts
  <1>2. /\ Fresh' = Fresh
        /\ \A s, p : Line(s, p)' = Line(s, p) /\ Blanked(s, p)' = Blanked(s, p)
        /\ \A s, p : Spaces(s, p)' = Spaces(s, p)
    BY SameText
  <1>3. Stacked' /\ Waiting' /\ Placed'
    <2>1. (Waits' => Waits) /\ \A c \in Nat : Known(c)' => Known(c)
      BY <1>2 DEF Waits, Known, LayoutModes, Top
    <2> QED BY <1>1, <2>1, PassStack DEF LinesFit
  <1>4. NewlinesFit'
    BY PassNewlines DEF LinesFit
  <1>5. DepthFits'
    BY PassDepth DEF LinesFit
  <1>6. ASSUME Fresh, Begin' <= Len(source)
        PROVE  \E s \in 1 .. Begin', t \in 1 .. Begin' : Line(s, Begin)' /\ Indented(s, t)'
    <2>1. PICK s \in 1 .. Begin, t \in 1 .. Begin : Line(s, Begin) /\ Indented(s, t)
      BY <1>1, <1>6 DEF LinesFit, Margins
    <2>2. Indented(s, t)'
      BY <1>2, <2>1 DEF Indented, Top
    <2>3. Line(s, Begin)'
      BY <1>2, <1>6, <2>1
    <2>4. s \in 1 .. Begin' /\ t \in 1 .. Begin'
      BY <1>1
    <2> QED BY <2>2, <2>3, <2>4
  <1>7. Margins'
    BY <1>2, <1>6 DEF Margins, LayoutModes
  <1> QED BY <1>3, <1>4, <1>5, <1>7

LEMMA StartCommentLines ==
  ASSUME FitInv, LinesFit, StartComment, FitInv'
  PROVE  LinesFit'
  <1>0. /\ UNCHANGED <<source, out, indents, depth, indent, dents>> /\ pos' = pos + 1 /\ Here = "#"
        /\ \/ mode = "layout" /\ mode' = "layoutComment"
           \/ mode = "scan" /\ mode' = "comment"
    BY DEF StartComment, Skip, Layout
  <1>1. /\ pos \in Nat \ {0} /\ pos <= Len(source) /\ Here = source[pos] /\ Len(source) \in Nat
    BY <1>0, LineFacts
  <1>2. Begin = pos /\ Begin' = pos + 1 /\ Begin' \in Nat /\ Begin <= Begin'
    BY <1>0, <1>1 DEF Begin, Literals
  <1>3. \A p \in Begin .. Begin' - 1 : source[p] # "nl"
    <2>1. \A p \in Begin .. Begin' - 1 : p = pos
      BY <1>1, <1>2
    <2> QED BY <1>0, <1>1, <2>1
  <1>4. \A p : Begun(p)' = Begun(p)
    BY <1>0, SameText
  <1>5. CASE mode = "layout"
    <2>1. Margins'
      BY <1>0, <1>5 DEF Margins, LayoutModes
    <2>2. Stacked' /\ Waiting' /\ Placed'
      <3>1. (\A c \in Nat : Known(c)) /\ ~ Waits'
        BY <1>0, <1>5 DEF Known, Waits, LayoutModes
      <3> QED BY <1>0, <1>2, <3>1, PassStack DEF LinesFit
    <2>3. NewlinesFit'
      BY <1>0, <1>2, <1>3, PassNewlines DEF LinesFit
    <2>4. DepthFits'
      BY <1>0, <1>2, <1>5, PassDepth DEF LinesFit, LayoutModes
    <2>5. ~ Begun(pos + 1)
      BY <1>0, <1>1, <1>2, <1>5, BegunOn DEF LinesFit, Places
    <2>6. Places'
      BY <1>0, <1>4, <1>5, <2>5 DEF Places, Literals
    <2> QED BY <2>1, <2>2, <2>3, <2>4, <2>6 DEF LinesFit
  <1>6. CASE mode = "scan"
    <2>1. \A s : Line(s, Begin) => Line(s, Begin')
      BY <1>0, <1>1, <1>2, LineOn
    <2>2. Margins' /\ Stacked' /\ Waiting' /\ Placed' /\ NewlinesFit' /\ DepthFits'
      BY <1>0, <1>2, <1>3, <1>6, <2>1, ScanPass DEF LayoutModes
    <2>3. Begun(pos)
      BY <1>0, <1>6 DEF LinesFit, Places
    <2>4. Begun(pos + 1)
      BY <1>1, <1>2, <2>3, BegunOn
    <2>5. Places'
      BY <1>0, <1>4, <1>6, <2>4 DEF Places, Literals
    <2> QED BY <2>2, <2>5 DEF LinesFit
  <1> QED BY <1>0, <1>5, <1>6

LEMMA CommentLines ==
  ASSUME FitInv, LinesFit, Comment, FitInv'
  PROVE  LinesFit'
  <1>0. /\ UNCHANGED <<source, out, indents, depth, dents>>
        /\ mode \in {"comment", "layoutComment"}
        /\ \/ /\ Here \in {"nl", "end"} /\ pos' = pos + 0
              /\ mode' = IF mode = "comment" THEN "scan" ELSE "layout"
           \/ Here \notin {"nl", "end"} /\ pos' = pos + 1 /\ mode' = mode
    BY DEF Comment, Skip
  <1>1. /\ pos \in Nat \ {0} /\ Len(source) \in Nat /\ pos + 0 = pos /\ pos <= Len(source) + 1
        /\ Here # "end" => pos <= Len(source) /\ Here = source[pos]
        /\ Here = "end" => pos = Len(source) + 1
        /\ InComment(pos)
    <2>1. InComment(pos)
      BY <1>0 DEF FitInv, TextInv, Tight, Comments
    <2>2. pos <= Len(source) => source[pos] # "end"
      BY LineFacts
    <2> QED BY <2>1, <2>2, LineFacts
  <1>2. Begin = pos /\ Begin' = pos' /\ Begin' \in Nat /\ Begin <= Begin'
    BY <1>0, <1>1 DEF Begin, Literals
  <1>3. \A p \in Begin .. Begin' - 1 : source[p] # "nl" /\ p = pos
    <2>1. \A a \in Nat : \A p : (p \in a .. a - 1 => FALSE) /\ (p \in a .. (a + 1) - 1 => p = a)
      OBVIOUS
    <2>2. CASE pos' = pos
      BY <1>1, <1>2, <2>1, <2>2
    <2>3. CASE pos' = pos + 1
      <3>1. \A p \in Begin .. Begin' - 1 : p = pos
        BY <1>1, <1>2, <2>1, <2>3
      <3>2. Here = source[pos] /\ Here # "nl"
        BY <1>0, <1>1, <2>3
      <3> QED BY <3>1, <3>2
    <2> QED BY <1>0, <1>1, <2>2, <2>3
  <1>4. \A p : Begun(p)' = Begun(p) /\ InComment(p)' = InComment(p) /\ EscapedEnd(p)' = EscapedEnd(p)
    BY <1>0, SameText
  <1>5. ~ EscapedEnd(pos)
    BY <1>1, CommentOn
  <1>6. CASE mode = "layoutComment"
    <2>1. Margins'
      <3>1. CASE mode' = "layout"
        <4>1. Here' \in {"nl", "end"} /\ InComment(pos)'
          <5>1. Here' = Here /\ pos' = pos
            BY <1>0, <1>1, <1>6, <3>1 DEF Here, Peek
          <5> QED BY <1>0, <1>1, <1>4, <1>6, <3>1, <5>1
        <4> QED BY <3>1, <4>1 DEF Margins, LayoutModes
      <3>2. CASE mode' = "layoutComment"
        BY <3>2 DEF Margins, LayoutModes
      <3> QED BY <1>0, <1>6, <3>1, <3>2
    <2>2. Stacked' /\ Waiting' /\ Placed'
      <3>1. (\A c \in Nat : Known(c)) /\ ~ Waits'
        BY <1>0, <1>6 DEF Known, Waits, LayoutModes
      <3> QED BY <1>0, <1>2, <3>1, PassStack DEF LinesFit
    <2>3. NewlinesFit'
      BY <1>0, <1>2, <1>3, PassNewlines DEF LinesFit
    <2>4. DepthFits'
      BY <1>0, <1>2, <1>6, PassDepth DEF LinesFit, LayoutModes
    <2>5. pos' <= Len(source) => ~ Begun(pos')
      <3>1. pos <= Len(source) => ~ Begun(pos)
        BY <1>6 DEF LinesFit, Places
      <3>2. ~ Begun(pos) => ~ Begun(pos + 1)
        BY <1>1, <1>2, BegunOn
      <3> QED BY <1>0, <1>1, <3>1, <3>2
    <2>6. Places'
      BY <1>0, <1>4, <1>6, <2>5 DEF Places, Literals
    <2> QED BY <2>1, <2>2, <2>3, <2>4, <2>6 DEF LinesFit
  <1>7. CASE mode = "comment"
    <2>1. \A s : Line(s, Begin) => Line(s, Begin')
      BY <1>0, <1>1, <1>2, LineOn
    <2>2. Margins' /\ Stacked' /\ Waiting' /\ Placed' /\ NewlinesFit' /\ DepthFits'
      BY <1>0, <1>2, <1>3, <1>7, <2>1, ScanPass DEF LayoutModes
    <2>3. Begun(pos')
      <3>1. Begun(pos)
        BY <1>7 DEF LinesFit, Places
      <3> QED BY <1>1, <1>2, <3>1, BegunOn
    <2>6. Begun(pos)'
      BY <1>4, <2>3
    <2>4. ASSUME mode' = "comment" PROVE Places'
      BY <2>4, <2>6 DEF Places, Literals
    <2>5. ASSUME mode' = "scan" PROVE Places'
      <3>1. Here' = Here /\ pos' = pos /\ Here \in {"nl", "end"}
        BY <1>0, <1>1, <1>7, <2>5 DEF Here, Peek
      <3>2. ~ EscapedEnd(pos)'
        BY <1>4, <1>5, <3>1
      <3> QED BY <2>5, <2>6, <3>1, <3>2 DEF Places, Literals
    <2> QED BY <1>0, <1>7, <2>2, <2>4, <2>5 DEF LinesFit
  <1> QED BY <1>0, <1>6, <1>7

(* The layout is settled: at the end of the source, or before the first    *)
(* token of a line, whose column is then on top of the stack.              *)
LEMMA EndSettled ==
  ASSUME FitInv, LinesFit, mode \in {"layout", "dedent"}, mode' \in {"dedent", "scan"},
         Here = "end", UNCHANGED <<source, out, depth, pos>>, Rising'
  PROVE  LinesFit'
  <1>1. /\ pos = Len(source) + 1 /\ Len(source) \in Nat /\ Begin = pos /\ Begin' = pos
        /\ Begin' = Begin /\ pos \in Nat \ {0}
    BY LineFacts DEF Begin, Literals
  <1>2. Here' = "end"
    BY DEF Here, Peek
  <1>3. ~ (Begin' <= Len(source'))
    BY <1>1
  <1>4. Margins' /\ Stacked' /\ Waiting'
    BY <1>2, <1>3 DEF Margins, Stacked, Waiting, LayoutModes
  <1>5. Placed'
    <2>1. /\ LineTokens' = LineTokens /\ \A i : Column(i)' = Column(i)
      BY SameText
    <2>2. \A i : Upper(i)' = Upper(i)
      BY <2>1 DEF Upper
    <2> QED BY <2>1, <2>2 DEF LinesFit, Placed, InBlock
  <1>6. NewlinesFit'
    <2>1. \A p : p \notin Begin .. Begin' - 1
      BY <1>1
    <2> QED BY <1>1, <2>1, PassNewlines DEF LinesFit
  <1>7. DepthFits'
    BY <1>1, PassDepth DEF LinesFit, LayoutModes
  <1>8. ~ EscapedEnd(pos)'
    <2>1. ~ EscapedEnd(pos)
      BY <1>1, CommentOn, MarginClear DEF LinesFit, Margins, Places, AtMargin
    <2> QED BY <2>1, SameText
  <1>9. Places'
    BY <1>2, <1>8 DEF Places, Literals, Blanks
  <1> QED BY <1>4, <1>5, <1>6, <1>7, <1>9 DEF LinesFit

LEMMA LineSettled ==
  ASSUME FitInv, LinesFit, mode \in {"layout", "dedent"}, mode' = "scan",
         UNCHANGED <<source, out, depth, pos>>,
         Here \notin Blanks \cup {"nl", "#", "end"}, NEW s \in 1 .. pos, AtMargin(s, pos),
         Stacked', Waiting', Placed', Top' = indent
  PROVE  LinesFit'
  <1>1. /\ pos \in Nat \ {0} /\ pos <= Len(source) /\ Len(source) \in Nat /\ Here = source[pos]
        /\ Begin = pos /\ Begin' = pos /\ pos \in 1 .. pos /\ s \in 1 .. Begin' /\ pos \in 1 .. Begin'
    BY LineFacts DEF Begin, Literals
  <1>2. Here' = Here
    BY DEF Here, Peek
  <1>3. Margins'
    <2>1. /\ Line(s, pos) /\ Blanked(s, pos) /\ Spaces(s, pos) = indent
      BY DEF AtMargin
    <2>2. /\ \A p : Line(s, p)' = Line(s, p) /\ Blanked(s, p)' = Blanked(s, p)
          /\ \A p : Spaces(s, p)' = Spaces(s, p)
      BY SameText
    <2>3. Line(s, Begin)'
      BY <1>1, <2>1, <2>2
    <2>4. Indented(s, pos)'
      <3>1. pos \in s .. Len(source)
        BY <1>1
      <3> QED BY <1>1, <2>1, <2>2, <3>1 DEF Indented
    <2>5. \E t \in 1 .. Begin' : Indented(s, t)'
      BY <1>1, <2>4
    <2> QED BY <1>1, <2>3, <2>5 DEF Margins, LayoutModes
  <1>4. NewlinesFit'
    <2>1. \A p : p \notin Begin .. Begin' - 1
      BY <1>1
    <2> QED BY <1>1, <2>1, PassNewlines DEF LinesFit
  <1>5. DepthFits'
    BY <1>1, PassDepth DEF LinesFit, LayoutModes
  <1>6. ~ EscapedEnd(pos)' /\ ~ InComment(pos)'
    <2>1. ~ EscapedEnd(pos) /\ ~ InComment(pos)
      BY <1>1, MarginClear DEF AtMargin
    <2> QED BY <2>1, SameText
  <1>7. Places'
    BY <1>2, <1>6 DEF Places, Literals
  <1> QED BY <1>3, <1>4, <1>5, <1>7 DEF LinesFit

(* The line is as far right as the top of the stack.                       *)
LEMMA LevelMeets ==
  ASSUME FitInv, LinesFit, mode \in {"layout", "dedent"}, mode' = "scan",
         UNCHANGED <<source, out, indents, depth, pos>>,
         Here \notin Blanks \cup {"nl", "#", "end"}, NEW s \in 1 .. pos, AtMargin(s, pos),
         Top = indent
  PROVE  LinesFit'
  <1>1. /\ LineTokens' = LineTokens /\ \A i : Column(i)' = Column(i)
        /\ \A c : Above(c)' = Above(c)
        /\ \A j, c : Nearest(j, c)' = Nearest(j, c)
    BY SameText
  <1>2. /\ \A n, c : Answers(n, c)' = Answers(n, c) /\ Holds(n, c)' = Holds(n, c)
        /\ Rising' = Rising /\ Top' = Top /\ \A j : Deeper(j)' = Deeper(j)
    BY <1>1 DEF Answers, Holds, Rising, Top, Deeper
  <1>3. /\ Begin = pos /\ Begin' = pos /\ pos <= Len(source) /\ pos' = pos
        /\ Len(indents) \in Nat \ {0} /\ DOMAIN indents = 1 .. Len(indents) /\ indents[1] = 0
        /\ Top = indents[Len(indents)] /\ Top \in Nat
    BY LineFacts DEF Begin, Literals
  <1>4. Fresh' /\ Waits'
    BY SameText DEF LinesFit, DepthFits, LayoutModes, Waits
  <1>5. \A c \in Nat : c <= Top => Known(c)
    BY DEF Known, Waits, LayoutModes
  <1>6. Stacked'
    <2>1. \A c \in Nat : Known(c)' => c <= Top
      BY <1>2, <1>3, <1>4 DEF Known
    <2> QED BY <1>2, <1>3, <1>5, <2>1 DEF LinesFit, Stacked
  <1>7. Answers(Len(indents), Top)
    <2>1. Holds(Len(indents), Top)
      BY <1>3 DEF Holds
    <2>2. Known(Top)
      BY <1>3, <1>5
    <2> QED BY <1>3, <2>1, <2>2 DEF LinesFit, Stacked
  <1>8. Waiting'
    <2>1. Above(Top) = {} => Len(indents) - 1 = (IF Top = 0 THEN 0 ELSE 1)
      <3>1. Above(Top) = {} => Len(indents) = 1
        BY <1>7 DEF Answers
      <3>2. Len(indents) = 1 => Top = 0
        BY <1>3
      <3> QED BY <3>1, <3>2
    <2>2. \A j \in LineTokens : Nearest(j, Top) => Len(indents) - 1 = out[j].level + Deeper(j)
      <3>1. \A j \in LineTokens : Nearest(j, Top) => out[j].level = Len(indents) - 1 /\ Deeper(j) = 0
        BY <1>3, <1>7 DEF Answers, Deeper
      <3> QED BY <1>3, <3>1
    <2> QED BY <1>1, <1>2, <2>1, <2>2 DEF Waiting
  <1>9. Placed'
    <2>1. \A i : Upper(i)' = Upper(i)
      BY <1>1 DEF Upper
    <2> QED BY <1>1, <2>1 DEF LinesFit, Placed, InBlock
  <1> QED BY <1>2, <1>6, <1>8, <1>9, LineSettled

(* It is further right, and opens a level.                                 *)
LEMMA LevelOpens ==
  ASSUME FitInv, LinesFit, mode = "layout", mode' = "scan",
         UNCHANGED <<source, out, depth, pos>>,
         Here \notin Blanks \cup {"nl", "#", "end"}, NEW s \in 1 .. pos, AtMargin(s, pos),
         Top < indent, indents' = Append(indents, indent)
  PROVE  LinesFit'
  <1> SUFFICES ASSUME NEW m, m = Len(indents) PROVE LinesFit'
    OBVIOUS
  <1>1. /\ LineTokens' = LineTokens /\ \A i : Column(i)' = Column(i)
        /\ \A c : Above(c)' = Above(c)
        /\ \A j, c : Nearest(j, c)' = Nearest(j, c)
    BY SameText
  <1>2. /\ Begin = pos /\ Begin' = pos /\ pos <= Len(source)
        /\ m \in Nat \ {0} /\ DOMAIN indents = 1 .. m /\ indents[1] = 0
        /\ Top = indents[m] /\ Top \in Nat /\ indent \in Nat /\ indents \in Seq(Nat)
        /\ \A i \in 1 .. m : indents[i] \in Nat
    <2>1. Begin = pos /\ Begin' = pos
      BY DEF Begin, Literals
    <2>2. pos <= Len(source)
      BY LineFacts
    <2>3. /\ m \in Nat \ {0} /\ DOMAIN indents = 1 .. m /\ indents[1] = 0
          /\ Top = indents[m] /\ Top \in Nat /\ indent \in Nat /\ indents \in Seq(Nat)
      BY LineFacts
    <2>4. \A i \in 1 .. m : indents[i] \in Nat
      BY ONLY <2>3
    <2> QED BY <2>1, <2>2, <2>3, <2>4
  <1>3. /\ Len(indents') = m + 1 /\ DOMAIN indents' = 1 .. m + 1 /\ Top' = indent
        /\ indents'[m + 1] = indent /\ \A i \in 1 .. m : indents'[i] = indents[i]
    <2>1. /\ indents' \in Seq(Nat) /\ Len(indents') = m + 1
          /\ indents'[m + 1] = indent /\ \A i \in 1 .. m : indents'[i] = indents[i]
      BY ONLY <1>2, m = Len(indents), indents' = Append(indents, indent), PushStack
    <2> QED BY <2>1 DEF Top
  <1>4. Rising'
    <2>0. \A a \in 1 .. m, b \in 1 .. m : a < b => indents[a] < indents[b]
      BY <1>2 DEF LinesFit, Stacked, Rising
    <2>1. \A i \in 1 .. m : indents[i] <= Top
      BY <1>2, <2>0
    <2>2. ASSUME NEW a \in 1 .. m + 1, NEW b \in 1 .. m + 1, a < b
          PROVE  indents'[a] < indents'[b]
      <3>1. CASE b = m + 1
        <4>1. a \in 1 .. m
          BY <1>2, <2>2, <3>1
        <4> QED BY <1>2, <1>3, <2>1, <3>1, <4>1
      <3>2. CASE b # m + 1
        <4>0. m \in Nat /\ a \in 1 .. m + 1 /\ b \in 1 .. m + 1
          BY <1>2
        <4>1. a \in 1 .. m /\ b \in 1 .. m
          BY ONLY <4>0, <2>2, <3>2
        <4>2. indents'[a] = indents[a] /\ indents'[b] = indents[b]
          BY <1>3, <4>1
        <4>3. indents[a] < indents[b]
          BY <2>0, <2>2, <4>1
        <4> QED BY <4>2, <4>3
      <3> QED BY <3>1, <3>2
    <2> QED BY <1>3, <2>2 DEF Rising
  <1>5. \A c \in Nat, n \in 1 .. m : Holds(n, c) => Answers(n, c)
    <2>1. \A c \in Nat : Known(c)
      BY DEF Known, Waits, LayoutModes
    <2> QED BY <1>2, <2>1 DEF LinesFit, Stacked
  <1>6. Waits'
    BY SameText DEF LinesFit, DepthFits, LayoutModes, Waits
  <1>7. Stacked'
    <2>1. ASSUME NEW c \in Nat, Known(c)', NEW n \in 1 .. m + 1, Holds(n, c)'
          PROVE  Answers(n, c)'
      <3>1. c < indent
        BY <1>3, <1>6, <2>1 DEF Known
      <3>2. n \in 1 .. m
        <4>1. n # m + 1
          BY <1>2, <1>3, <2>1, <3>1 DEF Holds
        <4> QED BY <1>2, <4>1
      <3>3. Holds(n, c)
        BY <1>2, <1>3, <2>1, <3>2 DEF Holds
      <3>4. Answers(n, c)
        BY <1>5, <3>2, <3>3
      <3> QED BY <1>1, <1>3, <3>2, <3>4 DEF Answers
    <2> QED BY <1>3, <1>4, <2>1 DEF Stacked
  <1>8. Answers(m, indent)
    <2>1. Holds(m, indent)
      BY <1>2 DEF Holds
    <2> QED BY <1>2, <1>5, <2>1
  <1>9. Waiting'
    <2>1. Above(indent) = {} => m = 1
      BY <1>8 DEF Answers
    <2>2. \A j \in LineTokens : Nearest(j, indent) => out[j].level = m - 1 /\ Column(j) = Top
      BY <1>2, <1>8 DEF Answers
    <2>3. (Above(Top) = {} => Len(indents) - 1 = (IF Top = 0 THEN 0 ELSE 1))'
      BY <1>1, <1>2, <1>3, <2>1
    <2>4. (\A j \in LineTokens : Nearest(j, Top) => Len(indents) - 1 = out[j].level + Deeper(j))'
      <3>1. \A j \in LineTokens : Nearest(j, indent) =>
               (m + 1) - 1 = out[j].level + (IF Column(j) < indent THEN 1 ELSE 0)
        BY <1>2, <2>2
      <3> QED BY <1>1, <1>3, <3>1 DEF Deeper
    <2> QED BY <2>3, <2>4 DEF Waiting
  <1>10. Placed'
    <2>1. \A i : Upper(i)' = Upper(i)
      BY <1>1 DEF Upper
    <2> QED BY <1>1, <2>1 DEF LinesFit, Placed, InBlock
  <1> QED BY <1>3, <1>7, <1>9, <1>10, LineSettled

LEMMA SettleLines ==
  ASSUME FitInv, LinesFit, Settle
  PROVE  LinesFit'
  <1>0. /\ mode = "layout" /\ Here \notin Blanks \cup {"nl", "#"} /\ pos' = pos + 0
        /\ mode' = (IF Top > Measured THEN "dedent" ELSE "scan")
        /\ UNCHANGED <<source, out, depth>> /\ indent' = Measured
        /\ indents' = IF Top < Measured THEN Append(indents, Measured) ELSE indents
    BY DEF Settle, Skip
  <1>1. /\ pos \in Nat \ {0} /\ Len(source) \in Nat /\ pos' = pos /\ Top \in Nat /\ indent \in Nat
        /\ Begin = pos /\ Begin' = pos
    BY <1>0, LineFacts DEF Begin, Literals
  <1>2. CASE Here = "end"
    <2>1. indents' = indents
      BY <1>0, <1>1, <1>2 DEF Measured
    <2>2. Rising'
      BY <2>1 DEF LinesFit, Stacked, Rising
    <2> QED BY <1>0, <1>1, <1>2, <2>2, EndSettled
  <1>3. CASE Here # "end"
    <2>1. Measured = indent /\ indent' = indent
      BY <1>0, <1>3 DEF Measured
    <2>2. PICK s \in 1 .. pos : AtMargin(s, pos)
      BY <1>0, <1>3 DEF LinesFit, Margins
    <2>3. CASE Top = indent
      <3>1. mode' = "scan" /\ indents' = indents
        BY <1>0, <1>1, <2>1, <2>3
      <3> QED BY <1>0, <1>1, <1>3, <2>2, <2>3, <3>1, LevelMeets
    <2>4. CASE Top < indent
      <3>1. mode' = "scan" /\ indents' = Append(indents, indent)
        BY <1>0, <1>1, <2>1, <2>4
      <3> QED BY <1>0, <1>1, <1>3, <2>2, <2>4, <3>1, LevelOpens
    <2>5. CASE Top > indent
      <3>1. mode' = "dedent" /\ indents' = indents
        BY <1>0, <1>1, <2>1, <2>5
      <3>2. Stacked' /\ Waiting' /\ Placed'
        <4>1. (\A c \in Nat : Known(c)) /\ ~ Waits'
          BY <1>0, <3>1 DEF Known, Waits, LayoutModes
        <4> QED BY <1>0, <1>1, <3>1, <4>1, PassStack DEF LinesFit
      <3>3. Margins'
        <4>1. AtMargin(s, pos)' /\ s \in 1 .. pos'
          BY <1>0, <1>1, <2>1, <2>2, SameText DEF AtMargin
        <4>2. Here' = Here
          BY <1>0, <1>1 DEF Here, Peek
        <4> QED BY <1>0, <3>1, <4>1, <4>2 DEF Margins, LayoutModes
      <3>4. NewlinesFit'
        <4>1. \A p : p \notin Begin .. Begin' - 1
          BY <1>1
        <4> QED BY <1>0, <1>1, <4>1, PassNewlines DEF LinesFit
      <3>5. DepthFits'
        BY <1>0, <1>1, PassDepth DEF LinesFit, LayoutModes
      <3>6. ~ EscapedEnd(pos)'
        <4>1. ~ EscapedEnd(pos)
          BY <1>1, <2>2, MarginClear DEF AtMargin
        <4> QED BY <1>0, <1>1, <4>1, SameText
      <3>7. Places'
        BY <3>1, <3>6 DEF Places, Literals
      <3> QED BY <3>2, <3>3, <3>4, <3>5, <3>7 DEF LinesFit
    <2> QED BY <1>1, <2>3, <2>4, <2>5
  <1> QED BY <1>2, <1>3

LEMMA DedentLines ==
  ASSUME FitInv, LinesFit, Dedent, NoLexError'
  PROVE  LinesFit'
  <1> SUFFICES ASSUME NEW m, m = Len(indents) PROVE LinesFit'
    OBVIOUS
  <1>0. /\ mode = "dedent" /\ pos' = pos + 0 /\ UNCHANGED <<source, out, depth, indent>>
        /\ \/ /\ Top > indent /\ indents' = SubSeq(indents, 1, m - 1) /\ mode' = "dedent"
           \/ /\ ~ (Top > indent) /\ Error(Top < indent) /\ mode' = "scan" /\ indents' = indents
    BY DEF Dedent, Skip
  <1>1. /\ pos \in Nat \ {0} /\ Len(source) \in Nat /\ pos' = pos /\ Top \in Nat /\ indent \in Nat
        /\ Begin = pos /\ Begin' = pos /\ m \in Nat \ {0} /\ DOMAIN indents = 1 .. m
        /\ indents[1] = 0 /\ Top = indents[m] /\ indents \in Seq(Nat) /\ indents # << >>
    BY <1>0, LineFacts DEF Begin, Literals
  <1>2. CASE ~ (Top > indent)
    <2>1. Top = indent
      <3>1. ASSUME Top < indent PROVE FALSE
        <4>1. Error(TRUE)
          BY <1>0, <1>2, <3>1
        <4> QED BY <4>1, ErrorNoted DEF FitInv
      <3> QED BY <1>1, <1>2, <3>1
    <2>2. CASE Here = "end"
      <3>1. Rising'
        BY <1>0, <1>2 DEF LinesFit, Stacked, Rising
      <3> QED BY <1>0, <1>1, <1>2, <2>2, <3>1, EndSettled
    <2>3. CASE Here # "end"
      <3>1. Here \notin Blanks \cup {"nl", "#"} /\ \E s \in 1 .. pos : AtMargin(s, pos)
        BY <1>0, <2>3 DEF LinesFit, Margins
      <3> QED BY <1>0, <1>1, <1>2, <2>1, <2>3, <3>1, LevelMeets
    <2> QED BY <2>2, <2>3
  <1>3. CASE Top > indent
    <2>0. m # 1
      BY <1>1, <1>3
    <2>1. /\ Len(indents') = m - 1 /\ DOMAIN indents' = 1 .. m - 1 /\ mode' = "dedent"
          /\ \A i \in 1 .. m - 1 : indents'[i] = indents[i]
      <3>1. indents' = Front(indents)
        BY <1>0, <1>3 DEF Front
      <3>2. /\ indents' \in Seq(Nat) /\ Len(indents') = m - 1
            /\ \A i \in 1 .. m - 1 : indents'[i] = indents[i]
        BY ONLY <1>1, <3>1, m = Len(indents), PopStack
      <3> QED BY <1>0, <1>3, <3>2
    <2>2. Rising'
      <3>1. \A a \in 1 .. m, b \in 1 .. m : a < b => indents[a] < indents[b]
        BY <1>1 DEF LinesFit, Stacked, Rising
      <3>2. \A a \in 1 .. m - 1 : a \in 1 .. m
        BY <1>1
      <3> QED BY <2>1, <3>1, <3>2 DEF Rising
    <2>3. CASE Here = "end"
      BY <1>0, <1>1, <2>1, <2>2, <2>3, EndSettled
    <2>4. CASE Here # "end"
      <3>1. /\ LineTokens' = LineTokens /\ \A i : Column(i)' = Column(i)
            /\ \A c : Above(c)' = Above(c)
            /\ \A j, c : Nearest(j, c)' = Nearest(j, c)
        BY <1>0, SameText
      <3>2. Stacked'
        <4>1. ASSUME NEW c \in Nat, Known(c)', NEW n \in 1 .. m - 1, Holds(n, c)', Begin <= Len(source)
              PROVE  Answers(n, c)'
          <5>1. c <= indent /\ c < indents[m]
            <6>1. c <= indent
              BY <1>0, <2>1, <4>1 DEF Known
            <6>2. indent < indents[m] /\ indents[m] \in Nat /\ indent \in Nat
              BY <1>1, <1>3
            <6> QED BY ONLY <6>1, <6>2, c \in Nat
          <5>2. Known(c)
            BY <1>0, <5>1 DEF Known, Waits, LayoutModes
          <5>3. n \in 1 .. m /\ (n = m - 1 \/ (n < m - 1 /\ n + 1 \in 1 .. m - 1))
            BY <1>1
          <5>4. Holds(n, c)
            <6>1. indents[n] <= c /\ (n < m - 1 => c < indents'[n + 1])
              BY <2>1, <4>1 DEF Holds
            <6>2. n < m => c < indents[n + 1]
              <7>1. CASE n = m - 1
                <8>1. n + 1 = m
                  BY <1>1, <7>1
                <8> QED BY <5>1, <8>1
              <7>2. CASE n < m - 1 /\ n + 1 \in 1 .. m - 1
                BY <2>1, <6>1, <7>2
              <7> QED BY <5>3, <7>1, <7>2
            <6> QED BY <1>1, <5>3, <6>1, <6>2 DEF Holds
          <5>5. Answers(n, c)
            BY <1>1, <4>1, <5>2, <5>3, <5>4 DEF LinesFit, Stacked
          <5> QED BY <1>0, <2>1, <3>1, <4>1, <5>5 DEF Answers
        <4> QED BY <1>0, <1>1, <2>1, <2>2, <4>1 DEF Stacked
      <3>3. Waiting'
        BY <2>1 DEF Waiting, Waits, LayoutModes
      <3>4. Placed'
        <4>1. \A i : Upper(i)' = Upper(i)
          BY <3>1 DEF Upper
        <4> QED BY <1>0, <3>1, <4>1 DEF LinesFit, Placed, InBlock
      <3>5. Margins'
        <4>1. PICK s \in 1 .. pos : AtMargin(s, pos)
          BY <1>0, <2>4 DEF LinesFit, Margins
        <4>2. AtMargin(s, pos)' /\ s \in 1 .. pos'
          BY <1>0, <1>1, <4>1, SameText DEF AtMargin
        <4>3. Here' = Here /\ Here \notin Blanks \cup {"nl", "#"}
          BY <1>0, <1>1, <2>4 DEF Here, Peek, LinesFit, Margins
        <4> QED BY <2>1, <4>2, <4>3 DEF Margins, LayoutModes
      <3>6. NewlinesFit'
        <4>1. \A p : p \notin Begin .. Begin' - 1
          BY <1>1
        <4> QED BY <1>0, <1>1, <4>1, PassNewlines DEF LinesFit
      <3>7. DepthFits'
        BY <1>0, <1>1, PassDepth DEF LinesFit, LayoutModes
      <3>8. Places'
        <4>1. ~ EscapedEnd(pos)'
          BY <1>0, <1>1, SameText DEF LinesFit, Places
        <4> QED BY <2>1, <4>1 DEF Places, Literals
      <3> QED BY <3>2, <3>3, <3>4, <3>5, <3>6, <3>7, <3>8 DEF LinesFit
    <2> QED BY <2>3, <2>4
  <1> QED BY <1>2, <1>3

(* An escaped line end is right after the backslash.                       *)
LEMMA EscapedOn ==
  ASSUME NEW p \in Nat \ {0}
  PROVE  /\ ~ EscapedEnd(p) /\ source[p] # "bs" => ~ EscapedEnd(p + 1)
         /\ source[p] \notin {"bs", "cr"} => ~ EscapedEnd(p + 1)
         /\ source[p] = "bs" /\ ~ InComment(p) => EscapedEnd(p + 1)
         /\ source[p] = "bs" /\ ~ InComment(p) /\ source[p + 1] = "cr" => EscapedEnd(p + 2)
  <1>1. ASSUME EscapedEnd(p + 1), source[p] # "bs"
        PROVE  EscapedEnd(p) /\ source[p] = "cr"
    <2>1. PICK q \in 1 .. (p + 1) - 1 :
            /\ source[q] = "bs" /\ ~ InComment(q)
            /\ q = (p + 1) - 1 \/ (q = (p + 1) - 2 /\ source[(p + 1) - 1] = "cr")
      BY <1>1 DEF EscapedEnd
    <2>2. (p + 1) - 1 = p /\ (p + 1) - 2 = p - 1
      OBVIOUS
    <2>3. q = p - 1 /\ source[p] = "cr"
      BY <1>1, <2>1, <2>2
    <2>4. q \in 1 .. p - 1
      BY <2>3
    <2> QED BY <2>1, <2>3, <2>4 DEF EscapedEnd
  <1>2. ASSUME source[p] = "bs", ~ InComment(p)
        PROVE  EscapedEnd(p + 1) /\ (source[p + 1] = "cr" => EscapedEnd(p + 2))
    <2>1. /\ p \in 1 .. (p + 1) - 1 /\ p = (p + 1) - 1
          /\ p \in 1 .. (p + 2) - 1 /\ p = (p + 2) - 2 /\ (p + 2) - 1 = p + 1
      OBVIOUS
    <2> QED BY <1>2, <2>1 DEF EscapedEnd
  <1> QED BY <1>1, <1>2

LEMMA ScanPlaces ==
  ASSUME UNCHANGED <<source, out>>, mode' = "scan", ~ EscapedEnd(pos'), ~ InComment(pos'),
         Begun(pos')
  PROVE  Places'
  <1>1. ~ EscapedEnd(pos)' /\ ~ InComment(pos)' /\ Begun(pos)'
    BY SameText
  <1> QED BY <1>1 DEF Places, Literals

LEMMA BlankLines ==
  ASSUME FitInv, LinesFit, Blank
  PROVE  LinesFit'
  <1>0. /\ mode = "scan" /\ pos <= Len(source) /\ mode' = "scan"
        /\ UNCHANGED <<source, out, depth, indents>>
    BY DEF Blank, Scanning, Skip, Layout
  <1>1. /\ pos \in Nat \ {0} /\ Len(source) \in Nat /\ Here = source[pos] /\ depth \in Nat
        /\ Begin = pos /\ Begin' = pos' /\ Here # "end" /\ mode \notin LayoutModes
        /\ mode' \notin LayoutModes
    BY <1>0, LineFacts DEF Begin, Literals, LayoutModes
  <1>2. ~ EscapedEnd(pos)
    BY <1>0 DEF LinesFit, Places
  <1>3. CASE Here \in Blanks /\ Skip(1, "scan")
    <2>1. pos' = pos + 1 /\ source[pos] \notin {"nl", "bs", "#"}
      BY <1>1, <1>3 DEF Skip, Blanks
    <2>2. ~ InComment(pos) /\ Begun(pos)
      BY <1>0, <1>1, <1>3, <2>1 DEF LinesFit, Places
    <2>3. \A p \in Begin .. Begin' - 1 : p = pos
      BY <1>1, <2>1
    <2>4. \A s : Line(s, Begin) => Line(s, Begin')
      BY <1>1, <2>1, LineOn
    <2>5. Margins' /\ Stacked' /\ Waiting' /\ Placed' /\ NewlinesFit' /\ DepthFits'
      BY <1>0, <1>1, <2>1, <2>3, <2>4, ScanPass
    <2>6. ~ EscapedEnd(pos + 1) /\ ~ InComment(pos + 1)
      BY <1>1, <1>2, <2>1, <2>2, EscapedOn, CommentOn
    <2>7. Begun(pos + 1)
      BY <1>1, <2>2, BegunOn
    <2>8. Places'
      BY <1>0, <2>1, <2>6, <2>7, ScanPlaces
    <2> QED BY <2>5, <2>8 DEF LinesFit
  <1>4. CASE Here = "nl" /\ depth > 0 /\ Skip(1, "scan")
    <2>1. pos' = pos + 1 /\ source[pos] = "nl"
      BY <1>1, <1>4 DEF Skip
    <2>2. ~ Fresh /\ Begun(pos) /\ Open(pos) # Closed(pos)
      <3>1. ~ Fresh /\ Begun(pos) /\ depth + Closed(pos) = Open(pos)
        BY <1>0, <1>1, <1>4 DEF LinesFit, Places, DepthFits
      <3>2. DOMAIN out = 1 .. Len(out) /\ Len(out) \in Nat
        BY TextType DEF FitInv
      <3>3. Closed(pos) \in Nat
        <4>1. IsFiniteSet(1 .. Len(out))
          BY <3>2, FS_Interval
        <4>2. IsFiniteSet({i \in DOMAIN out : out[i].kind \in Closing /\ out[i].first < pos})
          BY <3>2, <4>1, FS_Subset
        <4> QED BY <4>2, FS_CardinalityType DEF Closed
      <3> QED BY <1>1, <1>4, <3>1, <3>3
    <2>3. \A p \in Begin .. Begin' - 1 : p = pos
      BY <1>1, <2>1
    <2>4. Margins' /\ Stacked' /\ Waiting' /\ Placed' /\ NewlinesFit' /\ DepthFits'
      BY <1>0, <1>1, <2>1, <2>2, <2>3, ScanPass
    <2>5. ~ EscapedEnd(pos + 1) /\ ~ InComment(pos + 1)
      BY <1>1, <1>2, <2>1, EscapedOn, CommentOn
    <2>6. Begun(pos + 1)
      BY <1>1, <2>2, BegunOn
    <2>7. Places'
      BY <1>0, <2>1, <2>5, <2>6, ScanPlaces
    <2> QED BY <2>4, <2>7 DEF LinesFit
  <1>5. CASE Here = "bs" /\ Peek(1) = "nl" /\ Skip(2, "scan")
    <2>1. /\ pos' = pos + 2 /\ source[pos] = "bs" /\ source[pos + 1] = "nl"
          /\ pos + 1 <= Len(source)
      <3>1. Peek(1) # "end"
        BY <1>5
      <3>2. pos + 1 <= Len(source) /\ Peek(1) = source[pos + 1]
        BY <3>1, PeekIn DEF FitInv, Inv
      <3> QED BY <1>1, <1>5, <3>2 DEF Skip
    <2>2. ~ InComment(pos)
      BY <1>0, <1>1, <2>1 DEF LinesFit, Places
    <2>3. PICK b : b = pos + 1
      OBVIOUS
    <2>4. b \in Nat \ {0} /\ b + 1 = pos + 2 /\ source[b] = "nl"
      BY <1>1, <2>1, <2>3
    <2>5. EscapedEnd(b)
      BY <1>1, <2>1, <2>2, <2>3, EscapedOn
    <2>6. \A p \in Begin .. Begin' - 1 : p = pos \/ p = b
      BY <1>1, <2>1, <2>3
    <2>7. \A s : Line(s, Begin) => Line(s, Begin')
      <3>1. \A s : Line(s, pos) => Line(s, b)
        BY <1>1, <2>1, <2>3, LineOn
      <3>2. \A s : Line(s, b) => Line(s, b + 1)
        BY <2>4, <2>5, LineOn
      <3> QED BY <1>1, <2>1, <2>4, <3>1, <3>2
    <2>8. Margins' /\ Stacked' /\ Waiting' /\ Placed' /\ NewlinesFit' /\ DepthFits'
      <3>1. \A p \in Begin .. Begin' - 1 : source[p] = "nl" => EscapedEnd(p)
        BY <2>1, <2>5, <2>6
      <3>2. Begin' \in Nat /\ Begin <= Begin'
        BY <1>1, <2>1
      <3> QED BY <1>0, <1>1, <2>7, <3>1, <3>2, ScanPass
    <2>9. ~ EscapedEnd(b + 1) /\ ~ InComment(b + 1)
      BY <2>4, EscapedOn, CommentOn
    <2>10. Begun(b + 1)
      <3>1. pos < b + 1
        BY <1>1, <2>3
      <3> QED BY <1>1, <2>1, <2>2, <2>4, <3>1, BegunOn
    <2>11. Places'
      BY <1>0, <2>1, <2>4, <2>9, <2>10, ScanPlaces
    <2> QED BY <2>8, <2>11 DEF LinesFit
  <1>6. CASE Here = "bs" /\ Peek(1) = "cr" /\ Peek(2) = "nl" /\ Skip(3, "scan")
    <2>1. /\ pos' = pos + 3 /\ source[pos] = "bs" /\ source[pos + 1] = "cr"
          /\ source[pos + 2] = "nl" /\ pos + 2 <= Len(source)
      <3>1. Peek(1) # "end" /\ Peek(2) # "end"
        BY <1>6
      <3>2. pos + 2 <= Len(source) /\ Peek(1) = source[pos + 1] /\ Peek(2) = source[pos + 2]
        BY <3>1, PeekIn DEF FitInv, Inv
      <3> QED BY <1>1, <1>6, <3>2 DEF Skip
    <2>2. ~ InComment(pos)
      BY <1>0, <1>1, <2>1 DEF LinesFit, Places
    <2>3. PICK b : b = pos + 1
      OBVIOUS
    <2>4. PICK c : c = pos + 2
      OBVIOUS
    <2>5. /\ b \in Nat \ {0} /\ c \in Nat \ {0} /\ b + 1 = c /\ c + 1 = pos + 3
          /\ source[b] = "cr" /\ source[c] = "nl"
      BY <1>1, <2>1, <2>3, <2>4
    <2>6. EscapedEnd(c)
      BY <1>1, <2>1, <2>2, <2>4, EscapedOn
    <2>7. \A p \in Begin .. Begin' - 1 : p = pos \/ p = b \/ p = c
      BY <1>1, <2>1, <2>3, <2>4
    <2>8. \A s : Line(s, Begin) => Line(s, Begin')
      <3>1. \A s : Line(s, pos) => Line(s, b)
        BY <1>1, <2>1, <2>3, LineOn
      <3>2. \A s : Line(s, b) => Line(s, c)
        BY <2>5, LineOn
      <3>3. \A s : Line(s, c) => Line(s, c + 1)
        BY <2>5, <2>6, LineOn
      <3> QED BY <1>1, <2>1, <2>5, <3>1, <3>2, <3>3
    <2>9. Margins' /\ Stacked' /\ Waiting' /\ Placed' /\ NewlinesFit' /\ DepthFits'
      <3>1. \A p \in Begin .. Begin' - 1 : source[p] = "nl" => EscapedEnd(p)
        BY <2>1, <2>5, <2>6, <2>7
      <3>2. Begin' \in Nat /\ Begin <= Begin'
        BY <1>1, <2>1
      <3> QED BY <1>0, <1>1, <2>8, <3>1, <3>2, ScanPass
    <2>10. ~ EscapedEnd(c + 1) /\ ~ InComment(c + 1)
      BY <2>5, EscapedOn, CommentOn
    <2>11. Begun(c + 1)
      <3>1. pos < c + 1
        BY <1>1, <2>4
      <3> QED BY <1>1, <2>1, <2>2, <2>5, <3>1, BegunOn
    <2>12. Places'
      BY <1>0, <2>1, <2>5, <2>10, <2>11, ScanPlaces
    <2> QED BY <2>9, <2>12 DEF LinesFit
  <1> QED BY <1>3, <1>4, <1>5, <1>6 DEF Blank, Continued

-----------------------------------------------------------------------------
(* Words, strings and numbers, as long as they go on.                      *)
LEMMA LiteralLines ==
  ASSUME FitInv, LinesFit, UNCHANGED <<source, out, indents, depth>>,
         mode \in Literals \cup {"scan"}, mode' \in Literals, first' = Begin, dents' = 0,
         ~ InComment(Begin), source[Begin] \notin {"#", "nl"},
         mode' \in {"word", "digits", "fraction", "radix"} => source[pos' - 1] \in WordEnd
  PROVE  LinesFit'
  <1>1. /\ Begin' = Begin /\ Begin \in Nat \ {0} /\ mode \notin LayoutModes
        /\ mode' \notin LayoutModes
    BY LineFacts DEF Begin, Literals, LayoutModes
  <1>2. \A p : p \notin Begin .. Begin' - 1
    BY <1>1
  <1>3. Margins' /\ Stacked' /\ Waiting' /\ Placed' /\ NewlinesFit' /\ DepthFits'
    BY <1>1, <1>2, ScanPass
  <1>4. ~ InComment(first)'
    BY SameText
  <1>5. Places'
    BY <1>4 DEF Places, Literals
  <1> QED BY <1>3, <1>5 DEF LinesFit

LEMMA ScanHere ==
  ASSUME FitInv, LinesFit, Scanning, Here \notin {"nl", "#"}
  PROVE  /\ pos \in Nat \ {0} /\ pos <= Len(source) /\ Len(source) \in Nat /\ mode = "scan"
         /\ Here = source[pos] /\ Begin = pos /\ dents = 0 /\ mode \notin LayoutModes
         /\ ~ InComment(pos) /\ source[pos] \notin {"#", "nl"}
  <1>1. /\ pos \in Nat \ {0} /\ pos <= Len(source) /\ Len(source) \in Nat
        /\ Here = source[pos] /\ Here # "end" /\ Begin = pos /\ dents = 0 /\ mode = "scan"
    BY LineFacts DEF Scanning, Begin, Literals
  <1>2. ~ InComment(pos)
    BY <1>1 DEF LinesFit, Places
  <1> QED BY <1>1, <1>2 DEF LayoutModes

LEMMA StartLines ==
  ASSUME FitInv, LinesFit, StartWord \/ StartString \/ StartNumber
  PROVE  LinesFit'
  <1>1. ASSUME Scanning, Here \notin {"nl", "#"}, NEW k \in Nat, NEW m \in Literals, NEW how,
               Start(k, m, how),
               m \in {"word", "digits", "fraction", "radix"} => source[pos' - 1] \in WordEnd
        PROVE  LinesFit'
    <2>1. /\ UNCHANGED <<source, out, indents, depth>> /\ mode' = m /\ first' = pos
          /\ dents' = dents
      BY <1>1 DEF Start, Layout
    <2> QED BY <1>1, <2>1, ScanHere, LiteralLines
  <1>2. CASE StartWord
    <2>1. /\ Scanning /\ Here \in Letters \cup Words /\ Start(1, "word", Plain)
      BY <1>2 DEF StartWord
    <2>2. Here \notin {"nl", "#"} /\ Here \in WordEnd
      BY <2>1 DEF Letters, Words, WordEnd
    <2>3. source[pos' - 1] \in WordEnd
      <3>1. Here = source[pos] /\ pos \in Nat /\ pos' = pos + 1
        BY <2>1, <2>2, ScanHere DEF Start
      <3> QED BY <2>2, <3>1
    <2>4. "word" \in Literals /\ 1 \in Nat
      BY DEF Literals
    <2> QED BY <1>1, <2>1, <2>2, <2>3, <2>4
  <1>3. CASE StartString
    <2>1. \E k \in Nat : \E how : Start(k, "string", how)
      BY <1>3 DEF StartString
    <2>2. Scanning /\ Here \notin {"nl", "#"}
      BY <1>3 DEF StartString
    <2>3. "string" \in Literals
      BY DEF Literals
    <2> QED BY <1>1, <2>1, <2>2, <2>3
  <1>4. CASE StartNumber
    <2>1. Scanning /\ Here \notin {"nl", "#"}
      BY <1>4 DEF StartNumber, Digits
    <2>2. {"fraction", "radix", "digits"} \subseteq Literals /\ 1 \in Nat /\ 2 \in Nat
      BY DEF Literals
    <2>3. Here = source[pos] /\ pos \in Nat
      BY <2>1, ScanHere
    <2>4. CASE Here = "." /\ Start(1, "fraction", [Plain EXCEPT !.float = TRUE])
      <3>1. source[pos' - 1] \in WordEnd
        <4>1. pos' - 1 = pos
          BY <2>3, <2>4 DEF Start
        <4> QED BY <2>3, <2>4, <4>1 DEF WordEnd
      <3> QED BY <1>1, <2>1, <2>2, <2>4, <3>1
    <2>5. CASE Here = "0" /\ Peek(1) = "x" /\ Start(2, "radix", Plain)
      <3>1. source[pos' - 1] \in WordEnd
        <4>1. source[pos + 1] = "x"
          BY <2>5, PeekIn DEF FitInv, Inv
        <4>2. pos' - 1 = pos + 1
          BY <2>3, <2>5 DEF Start
        <4> QED BY <4>1, <4>2 DEF WordEnd, Letters
      <3> QED BY <1>1, <2>1, <2>2, <2>5, <3>1
    <2>6. CASE Here \in Digits /\ Start(1, "digits", Plain)
      <3>1. source[pos' - 1] \in WordEnd
        <4>1. pos' - 1 = pos
          BY <2>3, <2>6 DEF Start
        <4> QED BY <2>3, <2>6, <4>1 DEF WordEnd
      <3> QED BY <1>1, <2>1, <2>2, <2>6, <3>1
    <2> QED BY <1>4, <2>4, <2>5, <2>6 DEF StartNumber
  <1> QED BY <1>2, <1>3, <1>4

(* A literal that goes on.                                                 *)
LEMMA StayLines ==
  ASSUME FitInv, LinesFit, mode \in Literals, mode' \in Literals,
         UNCHANGED <<source, out, indents, depth, first, dents>>,
         mode' \in {"word", "digits", "fraction", "radix"} => source[pos' - 1] \in WordEnd
  PROVE  LinesFit'
  <1>1. /\ Begin = first /\ first' = Begin /\ ~ InComment(Begin)
        /\ source[Begin] \notin {"#", "nl"} /\ dents' = 0
    BY DEF Begin, LinesFit, Places
  <1> QED BY <1>1, LiteralLines

LEMMA StepsOn ==
  ASSUME FitInv, pos' = pos + 1, Here \in WordEnd
  PROVE  source[pos' - 1] \in WordEnd
  <1>1. Here # "end"
    BY DEF WordEnd, Letters, Words, Digits
  <1>2. Here = source[pos] /\ pos \in Nat
    BY <1>1, LineFacts
  <1>3. pos' - 1 = pos
    BY <1>2
  <1> QED BY <1>2, <1>3

-----------------------------------------------------------------------------
(* Steps that return a token: what was there before it stays as it was.    *)
LEMMA ColumnNext ==
  ASSUME FitInv, NEW kind \in Kinds, NEW from \in Nat, Emits(kind, from), from <= Begin,
         NEW n, n = Len(out) + 1
  PROVE  Column(n)' = ColumnAt(from)
  <1>0. source' = source
    BY DEF Emits
  <1>1. out'[n].first = from /\ source' = source
    BY <1>0, TokensNext
  <1>2. \A s : Line(s, from)' = Line(s, from)
    BY SameBefore
  <1>3. Column(n)' = LET s1 == CHOOSE s \in 1 .. from : Line(s, from)'
                     IN Cardinality({p \in s1 .. from - 1 :
                          source[p] = "sp" /\ \A q \in s1 .. p : source[q] \in Blanks})
    BY <1>1, ZenonT(40) DEF Column, Line, LineStart
  <1>4. (CHOOSE s \in 1 .. from : Line(s, from)') = (CHOOSE s \in 1 .. from : Line(s, from))
    BY <1>2
  <1> QED BY <1>3, <1>4 DEF ColumnAt

LEMMA SameLines ==
  ASSUME FitInv, Placed, NEW kind \in Kinds, NEW from \in Nat, Emits(kind, from)
  PROVE  /\ \A i \in LineTokens : i \in DOMAIN out /\ out'[i] = out[i] /\ Column(i)' = Column(i)
         /\ \A i \in LineTokens : Upper(i)' = Upper(i) /\ InBlock(i)'
         /\ LineTokens' = LineTokens =>
              /\ Placed' /\ \A c : Above(c)' = Above(c)
              /\ \A j, c : Nearest(j, c)' = Nearest(j, c)
  <1> SUFFICES ASSUME NEW n, n = Len(out) + 1
               PROVE  /\ \A i \in LineTokens : /\ i \in DOMAIN out /\ out'[i] = out[i]
                                               /\ Column(i)' = Column(i)
                      /\ \A i \in LineTokens : Upper(i)' = Upper(i) /\ InBlock(i)'
                      /\ LineTokens' = LineTokens =>
                           /\ Placed' /\ \A c : Above(c)' = Above(c)
                           /\ \A j, c : Nearest(j, c)' = Nearest(j, c)
    OBVIOUS
  <1>1. /\ DOMAIN out = 1 .. Len(out) /\ Len(out) \in Nat /\ n = Len(out) + 1
        /\ \A i \in DOMAIN out : out'[i] = out[i]
        /\ LineTokens' \in {LineTokens, LineTokens \cup {n}}
        /\ \A i \in LineTokens : i \in DOMAIN out /\ Column(i)' = Column(i)
    BY TokensNext
  <1>2. ASSUME NEW i \in LineTokens
        PROVE  Upper(i)' = Upper(i) /\ InBlock(i)'
    <2>1. \A j \in LineTokens' : j < i => j \in LineTokens
      BY <1>1
    <2>2. Upper(i)' = Upper(i)
      <3>1. Upper(i)' = {j \in LineTokens' : j < i /\ Column(j)' <= Column(i)'}
        BY DEF Upper
      <3>2. LineTokens \subseteq LineTokens'
        BY <1>1
      <3> QED BY <1>1, <2>1, <3>1, <3>2 DEF Upper
    <2>3. InBlock(i) /\ \A j \in Upper(i) : j \in LineTokens
      BY DEF Placed, Upper
    <2> QED BY <1>1, <2>2, <2>3 DEF InBlock
  <1>3. ASSUME LineTokens' = LineTokens
        PROVE  /\ Placed' /\ \A c : Above(c)' = Above(c)
               /\ \A j, c : Nearest(j, c)' = Nearest(j, c)
    <2>1. \A c : Above(c)' = Above(c)
      BY <1>1, <1>3 DEF Above
    <2> QED BY <1>2, <1>3, <2>1 DEF Placed, Nearest
  <1> QED BY <1>1, <1>2, <1>3

LEMMA OldNewlines ==
  ASSUME FitInv, NewlinesFit, NEW kind \in Kinds, NEW from \in Nat, Emits(kind, from),
         kind \in Brackets => from = Begin
  PROVE  /\ \A p \in Nat : p <= Begin => Open(p)' = Open(p) /\ Closed(p)' = Closed(p)
         /\ \A p \in 1 .. Len(source) - 1 :
              p < Begin /\ source[p] = "nl" /\ ~ Within(p)' => NewlineFits(p)'
  <1>1. Begin \in Nat /\ Len(source) \in Nat /\ source' = source
    BY LineFacts DEF Emits
  <1>2. \A p \in Nat : p <= Begin => Open(p)' = Open(p) /\ Closed(p)' = Closed(p)
    <2> SUFFICES ASSUME NEW p \in Nat, p <= Begin
                 PROVE  Open(p)' = Open(p) /\ Closed(p)' = Closed(p)
      OBVIOUS
    <2>1. /\ Open(p)' = Open(p) + (IF kind \in Opening /\ from < p THEN 1 ELSE 0)
          /\ Closed(p)' = Closed(p) + (IF kind \in Closing /\ from < p THEN 1 ELSE 0)
          /\ Open(p) \in Nat /\ Closed(p) \in Nat
      BY CountNext DEF Emits
    <2>2. kind \in Opening \cup Closing => ~ (from < p)
      BY <1>1 DEF Brackets
    <2> QED BY <2>1, <2>2
  <1>3. ASSUME NEW p \in 1 .. Len(source) - 1, p < Begin, source[p] = "nl", ~ Within(p)'
        PROVE  NewlineFits(p)'
    <2>1. p \in Nat /\ p <= Begin /\ p \in 1 .. Begin - 1
      BY <1>1, <1>3
    <2>2. /\ Within(p)' = Within(p) /\ EscapedEnd(p)' = EscapedEnd(p) /\ Begun(p)' = Begun(p)
      BY <2>1, SameBefore
    <2>3. NewlineAt(p)' = NewlineAt(p)
      BY <1>1, <2>1, SameBefore
    <2>4. NewlineFits(p)
      BY <1>3, <2>2 DEF NewlinesFit
    <2> QED BY <1>2, <2>1, <2>2, <2>3, <2>4 DEF NewlineFits
  <1> QED BY <1>2, <1>3

LEMMA NextDepth ==
  ASSUME FitInv, DepthFits, NEW kind \in Kinds, NEW from \in Nat, Emits(kind, from),
         kind \in Brackets => from < Begin',
         depth' + (IF kind \in Closing THEN 1 ELSE 0) = depth + (IF kind \in Opening THEN 1 ELSE 0),
         depth' \in Nat,
         Fresh' /\ Begin' <= Len(source) => depth' = 0, mode' \in LayoutModes => Fresh'
  PROVE  DepthFits'
  <1> SUFFICES ASSUME NEW n, n = Len(out) + 1, NEW z \in Nat, z = Begin' PROVE DepthFits'
    BY DEF Emits
  <1>1. /\ DOMAIN out' = 1 .. n /\ DOMAIN out = 1 .. Len(out) /\ Len(out) \in Nat
        /\ \A i \in DOMAIN out : out'[i] = out[i]
        /\ out'[n].kind = kind /\ out'[n].first = from
    BY TokensNext
  <1>2. /\ Begin \in Nat /\ depth \in Nat /\ \A i \in DOMAIN out : out[i].first \in Nat
        /\ \A i \in DOMAIN out : out[i].kind \in Brackets => out[i].first < Begin
        /\ Begin <= z /\ source' = source
    BY LineFacts DEF DepthFits, Emits
  <1>3. Open(z) = Open(Begin) /\ Closed(z) = Closed(Begin)
    BY <1>2, CountAfter
  <1>4. /\ Open(z)' = Open(z) + (IF kind \in Opening /\ from < z THEN 1 ELSE 0)
        /\ Closed(z)' = Closed(z) + (IF kind \in Closing /\ from < z THEN 1 ELSE 0)
        /\ Open(z) \in Nat /\ Closed(z) \in Nat
    BY CountNext DEF Emits
  <1>5. (kind \in Opening => from < z) /\ (kind \in Closing => from < z)
    BY DEF Brackets
  <1>6. depth' + Closed(z)' = Open(z)'
    <2>1. /\ Open(z)' = Open(z) + (IF kind \in Opening THEN 1 ELSE 0)
          /\ Closed(z)' = Closed(z) + (IF kind \in Closing THEN 1 ELSE 0)
      BY <1>4, <1>5
    <2>2. depth + Closed(z) = Open(z)
      BY <1>3 DEF DepthFits
    <2>3. PICK x \in {0, 1} : x = IF kind \in Opening THEN 1 ELSE 0
      OBVIOUS
    <2>4. PICK y \in {0, 1} : y = IF kind \in Closing THEN 1 ELSE 0
      OBVIOUS
    <2>5. depth' + y = depth + x /\ Open(z)' = Open(z) + x /\ Closed(z)' = Closed(z) + y
      BY <2>1, <2>3, <2>4
    <2>6. \A a \in Nat, b \in Nat, d \in Nat, e \in Nat :
            d + b = a /\ e + y = d + x => e + (b + y) = a + x
      OBVIOUS
    <2> QED BY <1>2, <1>4, <2>2, <2>5, <2>6
  <1>7. (depth + Closed(Begin) = Open(Begin))'
    BY <1>6
  <1>8. \A i \in DOMAIN out' : out'[i].kind \in Brackets => out'[i].first < z
    <2>1. \A i \in DOMAIN out' : i \in DOMAIN out \/ i = n
      BY <1>1
    <2> QED BY <1>1, <1>2, <2>1
  <1> QED BY <1>2, <1>7, <1>8 DEF DepthFits

(* The first token of a line is as far right as the top of the stack, and  *)
(* the stack answers for every column again.                               *)
LEMMA ReadStack ==
  ASSUME FitInv, LinesFit, NEW kind \in Kinds \ Dents, Emits(kind, Begin),
         Reads(kind, Begin, pos'), Begin <= Len(source), mode \notin LayoutModes, dents = 0,
         indents' = indents, mode' # "dedent", kind = "NEWLINE" => mode' \in LayoutModes
  PROVE  Stacked' /\ Waiting' /\ Placed'
  <1> SUFFICES ASSUME NEW n, n = Len(out) + 1, NEW m, m = Len(indents)
               PROVE  Stacked' /\ Waiting' /\ Placed'
    OBVIOUS
  <1>1. /\ DOMAIN out = 1 .. Len(out) /\ Len(out) \in Nat /\ n \in Nat
        /\ \A i \in DOMAIN out : out'[i] = out[i]
        /\ Fresh' = (kind = "NEWLINE")
        /\ LineTokens' = IF Fresh THEN LineTokens \cup {n} ELSE LineTokens
    <2>1. Begin \in Nat
      BY LineFacts
    <2> QED BY <2>1, TokensNext
  <1>2. /\ m \in Nat \ {0} /\ DOMAIN indents = 1 .. m /\ Top = indents[m] /\ Top \in Nat
        /\ indents[1] = 0 /\ indents \in Seq(Nat) /\ Begin \in Nat
        /\ \A i \in 1 .. m : indents[i] \in Nat
    <2>1. /\ m \in Nat \ {0} /\ DOMAIN indents = 1 .. m /\ Top = indents[m] /\ Top \in Nat
          /\ indents[1] = 0 /\ indents \in Seq(Nat) /\ Begin \in Nat
      BY LineFacts
    <2>2. \A i \in 1 .. m : indents[i] \in Nat
      BY ONLY <2>1
    <2> QED BY <2>1, <2>2
  <1>3. ~ Waits' /\ \A c \in Nat : Known(c)'
    BY <1>1 DEF Waits, Known, LayoutModes
  <1>4. Waiting'
    BY <1>3 DEF Waiting
  <1>5. \A c, k : Holds(k, c)' = Holds(k, c)
    BY DEF Holds
  <1>6. Rising' /\ \A a \in 1 .. m, b \in 1 .. m : a < b => indents[a] < indents[b]
    BY <1>2 DEF LinesFit, Stacked, Rising
  <1>7. /\ \A i \in LineTokens : i \in DOMAIN out /\ out'[i] = out[i] /\ Column(i)' = Column(i)
        /\ \A i \in LineTokens : Upper(i)' = Upper(i) /\ InBlock(i)'
        /\ LineTokens' = LineTokens =>
             /\ Placed' /\ \A c : Above(c)' = Above(c)
             /\ \A j, c : Nearest(j, c)' = Nearest(j, c)
    BY <1>2, SameLines DEF LinesFit
  <1>8. \A c \in Nat : Known(c) => \A k \in 1 .. m : Holds(k, c) => Answers(k, c)
    BY <1>2 DEF LinesFit, Stacked
  <1>9. CASE ~ Fresh
    <2>1. LineTokens' = LineTokens /\ \A c \in Nat : Known(c)
      BY <1>1, <1>9 DEF Known, Waits, LayoutModes
    <2>2. \A c \in Nat, k \in 1 .. m : Holds(k, c) => Answers(k, c)'
      BY <1>7, <1>8, <2>1 DEF Answers
    <2> QED BY <1>2, <1>4, <1>5, <1>6, <1>7, <2>1, <2>2 DEF Stacked
  <1>10. CASE Fresh
    <2>1. LineTokens' = LineTokens \cup {n} /\ \A c \in Nat : Known(c) <=> c < Top
      BY <1>1, <1>10 DEF Known, Waits, LayoutModes
    <2>2. Column(n)' = Top
      <3>1. PICK s \in 1 .. Begin, t \in 1 .. Begin : Line(s, Begin) /\ Indented(s, t)
        BY <1>10 DEF LinesFit, Margins
      <3>2. Column(n)' = ColumnAt(Begin)
        BY <1>2, ColumnNext
      <3>3. t \in Nat /\ t \in s .. Begin
        BY <1>2, <3>1 DEF Indented
      <3>4. ColumnAt(Begin) = Spaces(s, t)
        BY <1>2, <3>1, <3>3, ColumnIs DEF Indented
      <3> QED BY <3>1, <3>2, <3>4 DEF Indented
    <2>3. out'[n].level = m - 1
      <3>1. LexTypeOK /\ pos' \in Nat /\ Emit(kind, Begin)
        BY DEF FitInv, Inv, Emits
      <3>2. Len(out') = n /\ out'[Len(out')].level = Level' /\ Level' = Level
        BY <1>2, <3>1, EmitType DEF Dents
      <3>3. Level + dents = m - 1
        BY LineFacts
      <3>4. Level \in Int
        BY <3>1, LevelType
      <3> QED BY <3>2, <3>3, <3>4
    <2>4. \A c : Above(c)' = Above(c) \cup (IF Top <= c THEN {n} ELSE {})
      BY <1>7, <2>1, <2>2 DEF Above
    <2>5. \A j \in LineTokens : j < n /\ j # n
      BY <1>1, <1>7
    <2>6. Stacked'
      <3>1. ASSUME NEW c \in Nat, NEW k \in 1 .. m, Holds(k, c)
            PROVE  Answers(k, c)'
        <4>1. CASE Top <= c
          <5>1. k = m
            <6>1. ASSUME k # m PROVE FALSE
              <7>1. k + 1 \in 1 .. m /\ k < m
                BY <1>2, <6>1
              <7>2. indents[k + 1] <= indents[m]
                <8>1. m \in 1 .. m /\ (k + 1 < m \/ k + 1 = m)
                  BY <1>2, <7>1
                <8>2. indents[k + 1] \in Nat /\ indents[m] \in Nat
                  BY <1>2, <7>1, <8>1
                <8>3. k + 1 < m => indents[k + 1] < indents[m]
                  BY <1>6, <7>1, <8>1
                <8> QED BY <8>1, <8>2, <8>3
              <7>3. c < indents[k + 1]
                BY <3>1, <7>1 DEF Holds
              <7> QED BY <1>2, <4>1, <7>1, <7>2, <7>3
            <6> QED BY <6>1
          <5>2. n \in Above(c)' /\ \A j : Nearest(j, c)' => j = n
            <6>1. n \in Above(c)'
              BY <2>4, <4>1
            <6>2. ASSUME NEW j, Nearest(j, c)' PROVE j = n
              <7>1. j \in Above(c)' /\ n <= j
                BY <6>1, <6>2 DEF Nearest
              <7>2. j \in LineTokens \/ j = n
                BY <2>4, <7>1 DEF Above
              <7> QED BY <1>1, <1>7, <2>5, <7>1, <7>2
            <6> QED BY <6>1, <6>2
          <5> QED BY <1>2, <2>2, <2>3, <5>1, <5>2 DEF Answers
        <4>2. CASE ~ (Top <= c)
          <5>0. c < Top
            BY <1>2, <4>2
          <5>1. Known(c) /\ Above(c)' = Above(c)
            <6>1. Known(c)
              BY <2>1, <5>0
            <6>2. Above(c)' = Above(c)
              BY <2>4, <4>2
            <6> QED BY <6>1, <6>2
          <5>2. Answers(k, c)
            BY <1>8, <3>1, <5>1
          <5>3. \A j : Nearest(j, c)' = Nearest(j, c)
            BY <5>1 DEF Nearest
          <5>4. \A j : Nearest(j, c) => j \in LineTokens
            BY DEF Nearest, Above
          <5> QED BY <1>7, <5>1, <5>2, <5>3, <5>4 DEF Answers
        <4> QED BY <4>1, <4>2
      <3> QED BY <1>2, <1>5, <1>6, <3>1 DEF Stacked
    <2>7. Placed'
      <3>1. Upper(n)' = Above(Top)
        <4>1. Upper(n)' = {j \in LineTokens' : j < n /\ Column(j)' <= Top}
          BY <2>2 DEF Upper
        <4>2. ~ (n < n)
          BY <1>1
        <4> QED BY <1>7, <2>1, <2>5, <4>1, <4>2 DEF Above
      <3>2. /\ Above(Top) = {} => m - 1 = (IF Top = 0 THEN 0 ELSE 1)
            /\ \A j \in LineTokens : Nearest(j, Top) => m - 1 = out[j].level + Deeper(j)
        BY <1>10 DEF LinesFit, Waiting, Waits
      <3>3. InBlock(n)'
        <4>1. CASE Above(Top) = {}
          BY <2>2, <2>3, <3>1, <3>2, <4>1 DEF InBlock
        <4>2. CASE Above(Top) # {}
          <5>1. Above(Top) \subseteq 1 .. Len(out)
            BY <1>1, <1>7 DEF Above
          <5>2. PICK j \in Above(Top) : \A k \in Above(Top) : k <= j
            BY <1>1, <4>2, <5>1, Largest
          <5>3. j \in LineTokens /\ Nearest(j, Top)
            BY <5>2 DEF Nearest, Above
          <5>4. m - 1 = out[j].level + (IF Column(j) < Top THEN 1 ELSE 0)
            BY <3>2, <5>3 DEF Deeper
          <5>5. out'[j] = out[j] /\ Column(j)' = Column(j)
            BY <1>7, <5>3
          <5>6. out'[n].level = out'[j].level + (IF Column(j)' < Column(n)' THEN 1 ELSE 0)
            BY <2>2, <2>3, <5>4, <5>5
          <5> QED BY <3>1, <4>2, <5>2, <5>6 DEF InBlock
        <4> QED BY <4>1, <4>2
      <3> QED BY <1>7, <2>1, <3>3 DEF Placed
    <2> QED BY <1>4, <2>6, <2>7
  <1> QED BY <1>9, <1>10

(* A token of the source that ends no line.                                *)
LEMMA ReadLines ==
  ASSUME FitInv, LinesFit, NEW kind \in Kinds \ (Dents \cup {"NEWLINE"}), Emits(kind, Begin),
         Reads(kind, Begin, pos'), Begin <= Len(source), mode \notin LayoutModes, dents = 0,
         indents' = indents, mode' = "scan", ~ InComment(Begin), source[Begin] \notin {"#", "nl"},
         source[pos' - 1] \notin {"bs", "cr"}, depth' \in Nat,
         depth' + (IF kind \in Closing THEN 1 ELSE 0) = depth + (IF kind \in Opening THEN 1 ELSE 0)
  PROVE  LinesFit'
  <1> SUFFICES ASSUME NEW n, n = Len(out) + 1, NEW z, z = pos', NEW b, b = Begin PROVE LinesFit'
    OBVIOUS
  <1>1. /\ b \in Nat \ {0} /\ z \in Nat /\ Begin' = z /\ b < z /\ source' = source
        /\ Len(source) \in Nat
    BY LineFacts DEF Begin, Emits, Reads, Literals
  <1>2. /\ DOMAIN out' = 1 .. n /\ DOMAIN out = 1 .. Len(out) /\ Len(out) \in Nat
        /\ \A i \in DOMAIN out : out'[i] = out[i] /\ Read(i)' = Read(i)
        /\ out'[n].kind = kind /\ out'[n].first = b /\ out'[n].next = z /\ Read(n)'
        /\ ~ Fresh'
    <2>1. b \in Nat /\ Emits(kind, b) /\ Reads(kind, b, pos') /\ kind \in Kinds
      BY <1>1
    <2>2. /\ DOMAIN out' = 1 .. n /\ DOMAIN out = 1 .. Len(out) /\ Len(out) \in Nat
          /\ \A i \in DOMAIN out : out'[i] = out[i] /\ Read(i)' = Read(i)
          /\ out'[n].kind = kind /\ out'[n].first = b /\ out'[n].next = z
      BY <2>1, TokensNext
    <2>3. Fresh' = (kind = "NEWLINE")
      BY <2>1, TokensNext
    <2>4. Read(n)' = Reads(kind, b, pos')
      BY <2>1, TokensNext
    <2> QED BY <2>1, <2>2, <2>3, <2>4
  <1>3. \A i \in DOMAIN out : /\ out[i].first \in Nat /\ out[i].next \in Nat
                              /\ Read(i) => out[i].first < b /\ out[i].next <= b
    BY LineFacts
  <1>4. Stacked' /\ Waiting' /\ Placed'
    BY ReadStack DEF LayoutModes
  <1>5. Margins'
    BY <1>2 DEF Margins, LayoutModes
  <1>6. DepthFits'
    BY <1>1, <1>2, NextDepth DEF LinesFit, LayoutModes
  <1>7. \A p \in Nat : b < p /\ p < z => Within(p)'
    <2>1. n \in DOMAIN out'
      BY <1>2
    <2>2. \A p \in Nat : b < p /\ p < z => Inside(n, p)'
      BY <1>2 DEF Inside
    <2> QED BY <2>1, <2>2 DEF Within
  <1>8. NewlinesFit'
    <2>1. ASSUME NEW p \in 1 .. Len(source) - 1, p < z, source[p] = "nl", ~ Within(p)'
          PROVE  NewlineFits(p)'
      <3>1. p \in Nat /\ p < b
        <4>1. p \in Nat /\ p # b
          BY <1>1, <2>1
        <4>2. ~ (b < p)
          BY <1>7, <2>1, <4>1
        <4> QED BY <1>1, <4>1, <4>2
      <3> QED BY <1>1, <2>1, <3>1, OldNewlines DEF LinesFit
    <2> QED BY <1>1, <2>1 DEF NewlinesFit
  <1>9. ~ EscapedEnd(z)'
    <2>1. EscapedEnd(z)' => \E q \in 1 .. z - 1 :
             source[q] = "bs" /\ (q = z - 1 \/ (q = z - 2 /\ source[z - 1] = "cr"))
      BY <1>1 DEF EscapedEnd
    <2> QED BY <2>1
  <1>10. ~ InComment(z)'
    <2>1. ASSUME NEW x \in 1 .. z - 1, source[x] = "#", ~ Within(x)',
                 \A r \in x .. z - 1 : source[r] # "nl"
          PROVE  FALSE
      <3>b. x # b
        BY <2>1
      <3>c. z \in Nat /\ x \in 1 .. z - 1
        BY <1>1
      <3>0. x \in Nat \ {0} /\ x < z /\ x # b
        BY ONLY <3>b, <3>c
      <3>1. ~ (b < x)
        BY <1>7, <2>1, <3>0
      <3>a. b \in Nat /\ z \in Nat /\ b < z /\ x < b
        BY <1>1, <3>0, <3>1
      <3>2. x \in 1 .. b - 1 /\ x <= b /\ \A r \in x .. b - 1 : r \in x .. z - 1
        BY ONLY <3>0, <3>a
      <3>3. ~ Within(x)
        BY <1>1, <2>1, <3>0, <3>2, SameBefore
      <3>4. InComment(b)
        BY <2>1, <3>2, <3>3 DEF InComment, Within
      <3> QED BY <3>4
    <2>2. InComment(z)' => \E x \in 1 .. z - 1 :
            source[x] = "#" /\ ~ Within(x)' /\ \A r \in x .. z - 1 : source[r] # "nl"
      BY <1>1 DEF InComment, Within
    <2> QED BY <2>1, <2>2
  <1>11. Begun(z)'
    <2>1. n \in DOMAIN out' /\ b \in 1 .. z - 1
      <3>1. b \in Nat \ {0} /\ z \in Nat /\ b < z
        BY <1>1
      <3>2. b \in 1 .. z - 1
        BY ONLY <3>1, SMT
      <3>3. DOMAIN out' = 1 .. n /\ n \in Nat \ {0}
        BY <1>2
      <3> QED BY ONLY <3>2, <3>3
    <2>2. ASSUME NEW j \in DOMAIN out', Read(j)', out'[j].kind = "NEWLINE"
          PROVE  out'[j].first \notin b .. z - 1
      <3>1. j \in DOMAIN out
        BY <1>2, <2>2
      <3> QED BY <1>1, <1>2, <1>3, <2>2, <3>1
    <2>3. \E i \in DOMAIN out' : Read(i)' /\ out'[i].kind # "NEWLINE" /\ out'[i].first = b
      BY <1>2, <2>1
    <2> QED BY <2>1, <2>2, <2>3 DEF Begun
  <1>12. Places'
    BY <1>9, <1>10, <1>11 DEF Places, Literals
  <1> QED BY <1>4, <1>5, <1>6, <1>8, <1>12 DEF LinesFit

(* The end of a line, and of the source when that is its last character.   *)
LEMMA NewlineLines ==
  ASSUME FitInv, LinesFit, Newline
  PROVE  LinesFit'
  <1> SUFFICES ASSUME NEW n, n = Len(out) + 1, NEW w, w = pos,
                      NEW z, z = pos + 1
               PROVE  LinesFit'
    OBVIOUS
  <1>0. /\ mode = "scan" /\ dents = 0 /\ pos <= Len(source) /\ Here = "nl" /\ depth = 0
        /\ pos' = pos + 1 /\ mode' = "layout" /\ indent' = 0 /\ Emit("NEWLINE", pos)
        /\ UNCHANGED <<source, indents, depth>>
    BY DEF Newline, Scanning
  <1>1. /\ w \in Nat \ {0} /\ pos \in Nat \ {0} /\ Len(source) \in Nat /\ source[w] = "nl" /\ z \in Nat \ {0}
        /\ z - 1 = w /\ mode \notin LayoutModes /\ mode \notin Literals
        /\ mode' \notin Literals \cup Comments
    <2>1. /\ pos \in Nat \ {0} /\ Len(source) \in Nat
          /\ Here = IF pos <= Len(source) THEN source[pos] ELSE "end"
      BY LineFacts
    <2>2. z \in Nat \ {0} /\ z - 1 = w
      BY <2>1
    <2> QED BY <1>0, <2>1, <2>2 DEF LayoutModes, Literals, Comments
  <1>2. "NEWLINE" \in Kinds /\ "NEWLINE" \notin Dents \cup {"STRING"} \cup Brackets
    BY DEF Kinds, Dents, Brackets, Opening, Closing
  <1>3. /\ Emits("NEWLINE", w) /\ Begin = w /\ Begin' = pos' /\ pos < pos'
        /\ Reads("NEWLINE", w, pos') <=> pos < Len(source)
    BY <1>0, <1>1, <1>2, SignEmits
  <1>4. Begun(w) /\ ~ EscapedEnd(w) /\ ~ Within(w)
    <2>1. Begun(w) /\ ~ EscapedEnd(w)
      BY <1>0, <1>1 DEF LinesFit, Places
    <2> QED BY <1>1, <1>3, <2>1, LineFacts
  <1>5. Begun(w)' /\ ~ EscapedEnd(w)' /\ ~ Within(w)'
    <2>1. Begun(w)' = Begun(w) /\ EscapedEnd(w)' = EscapedEnd(w) /\ Within(w)' = Within(w)
      BY <1>1, <1>2, <1>3, SameBefore
    <2>2. Begun(w)
      BY <1>4
    <2>3. ~ EscapedEnd(w) /\ ~ Within(w)
      BY <1>4
    <2> QED BY <2>1, <2>2, <2>3
  <1>6. /\ DOMAIN out' = 1 .. n /\ DOMAIN out = 1 .. Len(out) /\ Len(out) \in Nat
        /\ out'[n].kind = "NEWLINE" /\ out'[n].first = w /\ Fresh'
        /\ (pos < Len(source) => Read(n)')
        /\ (~ (pos < Len(source)) => LineTokens' = LineTokens)
    <2>1. /\ DOMAIN out' = 1 .. n /\ DOMAIN out = 1 .. Len(out) /\ Len(out) \in Nat
          /\ out'[n].kind = "NEWLINE" /\ out'[n].first = w
      BY <1>1, <1>2, <1>3, TokensNext
    <2>2. Fresh' = ("NEWLINE" = "NEWLINE")
      BY <1>1, <1>2, <1>3, TokensNext
    <2>3. Read(n)' = Reads("NEWLINE", w, pos')
      BY <1>1, <1>2, <1>3, TokensNext
    <2>4. LineTokens' = IF Reads("NEWLINE", w, pos') /\ Fresh THEN LineTokens \cup {n} ELSE LineTokens
      BY <1>1, <1>2, <1>3, TokensNext
    <2> QED BY <1>3, <2>1, <2>2, <2>3, <2>4
  <1>7. Stacked' /\ Waiting' /\ Placed'
    <2>1. CASE pos < Len(source)
      BY <1>0, <1>1, <1>2, <1>3, <2>1, ReadStack DEF LayoutModes
    <2>2. CASE ~ (pos < Len(source))
      <3>1. ~ (Begin' <= Len(source'))
        BY <1>0, <1>1, <1>3, <2>2
      <3>2. Stacked' /\ Waiting'
        BY <1>0, <3>1 DEF Stacked, Waiting, Rising, LinesFit
      <3> QED BY <1>1, <1>2, <1>3, <1>6, <2>2, <3>2, SameLines DEF LinesFit
    <2> QED BY <2>1, <2>2
  <1>8. Margins'
    <2>1. LineStart(z)'
      BY <1>0, <1>1, <1>5 DEF LineStart
    <2>2. z \in 1 .. z /\ \A r : r \notin z .. z - 1
      BY <1>1
    <2>3. Line(z, z)' /\ Blanked(z, z)'
      BY <2>1, <2>2 DEF Line, Blanked
    <2>4. Spaces(z, z)' = 0
      <3>1. SpacesIn(z, z)' = {}
        BY <2>2 DEF SpacesIn
      <3> QED BY <3>1, FS_EmptySet DEF Spaces
    <2>5. AtMargin(z, pos)' /\ z \in 1 .. pos'
      BY <1>0, <2>2, <2>3, <2>4 DEF AtMargin
    <2> QED BY <1>0, <2>5 DEF Margins, LayoutModes
  <1>9. DepthFits'
    BY <1>0, <1>1, <1>2, <1>3, <1>6, NextDepth DEF Brackets, LinesFit
  <1>10. NewlinesFit'
    <2>1. ASSUME NEW p \in 1 .. Len(source) - 1, p < z, source[p] = "nl", ~ Within(p)'
          PROVE  NewlineFits(p)'
      <3>1. CASE p = w
        <4>1. pos < Len(source)
          BY <1>1, <3>1
        <4>2. NewlineAt(w)'
          BY <1>6, <4>1 DEF NewlineAt
        <4>3. Open(w)' = Closed(w)'
          <5>1. Open(w)' = Open(w) /\ Closed(w)' = Closed(w)
            BY <1>1, <1>2, <1>3, OldNewlines DEF LinesFit
          <5>2. depth + Closed(w) = Open(w)
            BY <1>3 DEF LinesFit, DepthFits
          <5>3. Closed(w) \in Nat
            BY <1>0, <1>1, <1>2, CountNext
          <5> QED BY <1>0, <5>1, <5>2, <5>3
        <4> QED BY <1>5, <3>1, <4>2, <4>3 DEF NewlineFits
      <3>2. CASE p # w
        <4>1. p < Begin
          BY <1>1, <1>3, <2>1, <3>2
        <4> QED BY <1>1, <1>2, <1>3, <2>1, <4>1, OldNewlines DEF LinesFit
      <3> QED BY <3>1, <3>2
    <2> QED BY <1>0, <1>3, <2>1 DEF NewlinesFit
  <1>11. z <= Len(source) => ~ Begun(z)'
    <2>1. ASSUME z <= Len(source), Begun(z)' PROVE FALSE
      <3>1. PICK q \in 1 .. z - 1 :
              \A j \in DOMAIN out' : Read(j)' /\ out'[j].kind = "NEWLINE" => out'[j].first \notin q .. z - 1
        BY <2>1 DEF Begun
      <3>2. w \in q .. z - 1
        BY <1>1, <3>1
      <3>3. Read(n)' /\ n \in DOMAIN out'
        BY <1>1, <1>6, <2>1
      <3> QED BY <1>6, <3>1, <3>2, <3>3
    <2> QED BY <2>1
  <1>12. Places'
    BY <1>0, <1>11 DEF Places, Literals
  <1> QED BY <1>7, <1>8, <1>9, <1>10, <1>12 DEF LinesFit

(* Tokens that are put in between.                                         *)
LEMMA PutIn ==
  ASSUME FitInv, LinesFit, NEW kind \in Kinds \ Brackets, NEW from \in Nat,
         mode = "scan", mode' = "scan", pos' = pos, source' = source, Emit(kind, from),
         ~ Reads(kind, from, pos'), depth' = depth,
         Fresh' /\ pos <= Len(source) => depth = 0
  PROVE  /\ Emits(kind, from) /\ Begin = pos /\ Begin' = pos /\ LineTokens' = LineTokens
         /\ Placed' /\ NewlinesFit' /\ DepthFits' /\ Places'
  <1>1. /\ Begin = pos /\ Begin' = pos /\ pos \in Nat \ {0} /\ Len(source) \in Nat /\ depth \in Nat
        /\ mode' \notin Comments \cup Literals
    BY LineFacts DEF Begin, Literals, Comments
  <1>2. Emits(kind, from)
    <2>1. \A p : p \notin pos .. pos - 1
      BY <1>1
    <2> QED BY <1>1, <2>1 DEF Emits
  <1>3. LineTokens' = LineTokens
    BY <1>2, TokensNext
  <1>4. Placed'
    BY <1>2, <1>3, SameLines DEF LinesFit
  <1>5. NewlinesFit'
    BY <1>1, <1>2, OldNewlines DEF LinesFit, NewlinesFit
  <1>6. DepthFits'
    <2>1. kind \notin Opening /\ kind \notin Closing
      BY DEF Brackets
    <2> QED BY <1>1, <1>2, <2>1, NextDepth DEF LinesFit, LayoutModes
  <1>7. Places'
    <2>1. /\ InComment(pos)' = InComment(pos) /\ EscapedEnd(pos)' = EscapedEnd(pos)
          /\ Begun(pos)' = Begun(pos)
      BY <1>1, <1>2, SameBefore
    <2>2. Here' = Here
      BY DEF Here, Peek
    <2>3. ~ EscapedEnd(pos)
      BY DEF LinesFit, Places
    <2>4. Begun(pos) \/ Here \notin Blanks \cup {"nl", "#"}
      BY DEF LinesFit, Places
    <2>5. Here \notin {"nl", "end"} => ~ InComment(pos)
      BY DEF LinesFit, Places
    <2>6. ~ EscapedEnd(pos)'
      BY <2>1, <2>3
    <2>7. Begun(pos)' \/ Here' \notin Blanks \cup {"nl", "#"}
      BY <2>1, <2>2, <2>4
    <2>8. Here' \notin {"nl", "end"} => ~ InComment(pos)'
      BY <2>1, <2>2, <2>5
    <2> QED BY <2>6, <2>7, <2>8 DEF Places, Literals
  <1> QED BY <1>1, <1>2, <1>3, <1>4, <1>5, <1>6, <1>7

LEMMA DentLines ==
  ASSUME FitInv, LinesFit, Dent
  PROVE  LinesFit'
  <1> SUFFICES ASSUME NEW kind, kind = (IF dents < 0 THEN "OUTDENT" ELSE "INDENT"),
                      NEW from, from = (IF pos = 1 THEN 1 ELSE pos - 1)
               PROVE  LinesFit'
    OBVIOUS
  <1>1. /\ mode = "scan" /\ mode' = "scan" /\ pos' = pos /\ Emit(kind, from)
        /\ UNCHANGED <<source, indents, depth, indent>>
    BY DEF Dent
  <1>2. /\ kind \in Kinds \ Brackets /\ kind \in Dents /\ ~ Reads(kind, from, pos')
    BY DEF Kinds, Dents, Brackets, Opening, Closing, Reads
  <1>3. pos \in Nat \ {0} /\ from \in Nat
    BY LineFacts
  <1>4. Begin = pos
    BY <1>1 DEF Begin, Literals
  <1>5. Emits(kind, from)
    <2>1. Begin' = pos /\ mode' \notin Comments \cup Literals
      BY <1>1 DEF Begin, Comments, Literals
    <2>2. \A p : p \notin pos .. pos - 1
      BY <1>3
    <2> QED BY <1>1, <1>2, <1>3, <1>4, <2>1, <2>2 DEF Emits
  <1>6. Fresh' = Fresh
    BY <1>2, <1>3, <1>5, TokensNext
  <1>7. /\ Begin' = pos /\ LineTokens' = LineTokens
        /\ Placed' /\ NewlinesFit' /\ DepthFits' /\ Places'
    <2>1. Fresh' /\ pos <= Len(source) => depth = 0
      BY <1>4, <1>6 DEF LinesFit, DepthFits
    <2> QED BY <1>1, <1>2, <1>3, <2>1, PutIn
  <1>8. /\ \A c : Above(c)' = Above(c)
        /\ \A j, c : Nearest(j, c)' = Nearest(j, c)
        /\ \A i \in LineTokens : out'[i] = out[i] /\ Column(i)' = Column(i)
    BY <1>2, <1>3, <1>5, <1>7, SameLines DEF LinesFit
  <1>9. /\ \A n, c : Holds(n, c)' = Holds(n, c)
        /\ Rising' = Rising /\ Top' = Top /\ Waits' = Waits
    BY <1>1, <1>6 DEF Holds, Rising, Top, Waits
  <1>10. /\ \A c : Known(c)' = Known(c)
         /\ \A n, c : Answers(n, c) => Answers(n, c)'
         /\ \A j \in LineTokens : Deeper(j)' = Deeper(j)
    BY <1>1, <1>7, <1>8, <1>9 DEF Known, Answers, Deeper
  <1>11. Stacked'
    BY <1>1, <1>4, <1>7, <1>9, <1>10 DEF LinesFit, Stacked
  <1>12. Waiting'
    BY <1>1, <1>4, <1>7, <1>8, <1>9, <1>10 DEF LinesFit, Waiting
  <1>13. Margins'
    <2>1. \A s, p : Blanked(s, p)' = Blanked(s, p) /\ Spaces(s, p)' = Spaces(s, p)
      BY <1>1 DEF Blanked, Spaces, SpacesIn
    <2>a. \A p \in Nat : \A s : Line(s, p)' = Line(s, p)
      <3> SUFFICES ASSUME NEW p \in Nat PROVE \A s : Line(s, p)' = Line(s, p)
        OBVIOUS
      <3> QED BY <1>2, <1>3, <1>5, SameBefore
    <2>2. \A s : Line(s, pos)' = Line(s, pos)
      BY <1>1, <1>3, <2>a
    <2>3. \A s, t : Indented(s, t)' = Indented(s, t)
      BY <1>1, <1>9, <2>1 DEF Indented
    <2>4. ASSUME Fresh', pos <= Len(source)
          PROVE  \E s \in 1 .. pos, t \in 1 .. pos : Line(s, pos)' /\ Indented(s, t)'
      <3>1. Fresh
        BY <1>6, <2>4
      <3>2. PICK s \in 1 .. pos, t \in 1 .. pos : Line(s, pos) /\ Indented(s, t)
        BY <1>1, <1>4, <2>4, <3>1 DEF LinesFit, Margins, LayoutModes
      <3>3. Line(s, pos)' /\ Indented(s, t)'
        <4>1. Line(s, pos)'
          BY <2>2, <3>2
        <4>2. Indented(s, t)'
          BY <2>3, <3>2
        <4> QED BY <4>1, <4>2
      <3> QED BY <3>3
    <2> QED BY <1>1, <1>4, <1>7, <2>4 DEF Margins, LayoutModes
  <1> QED BY <1>7, <1>11, <1>12, <1>13 DEF LinesFit

LEMMA EndLines ==
  ASSUME FitInv, LinesFit, End
  PROVE  LinesFit'
  <1>1. /\ mode = "scan" /\ mode' = "scan" /\ pos' = pos /\ pos > Len(source)
        /\ UNCHANGED <<source, depth>> /\ indents' \in {<<0>>, indents}
        /\ \E kind \in {"NEWLINE", "EOF"}, from \in {IF pos = 1 THEN 1 ELSE pos - 1, pos} :
             Emit(kind, from) /\ (kind = "EOF" => from = pos)
    BY DEF End
  <1>2. PICK kind \in {"NEWLINE", "EOF"}, from \in {IF pos = 1 THEN 1 ELSE pos - 1, pos} :
          Emit(kind, from) /\ (kind = "EOF" => from = pos)
    BY <1>1
  <1>3. /\ pos \in Nat \ {0} /\ Len(source) \in Nat /\ from \in Nat /\ ~ (pos <= Len(source))
        /\ kind \in Kinds \ Brackets
    <2>1. pos \in Nat \ {0} /\ Len(source) \in Nat
      BY LineFacts
    <2>2. {"NEWLINE", "EOF"} \subseteq Kinds \ Brackets
      BY DEF Kinds, Brackets, Opening, Closing
    <2> QED BY <1>1, <2>1, <2>2
  <1>4. ~ Reads(kind, from, pos')
    <2>1. ASSUME Reads(kind, from, pos') PROVE FALSE
      <3>1. from < pos /\ from <= Len(source) /\ (kind = "NEWLINE" => from < Len(source))
        BY <1>1, <1>3, <2>1 DEF Reads
      <3>2. from # pos /\ kind = "NEWLINE"
        BY <1>2, <1>3, <3>1
      <3>3. from = (IF pos = 1 THEN 1 ELSE pos - 1)
        BY <1>2, <3>2
      <3> QED BY <1>1, <1>3, <3>1, <3>2, <3>3
    <2> QED BY <2>1
  <1>5. /\ Begin' = pos /\ Placed' /\ NewlinesFit' /\ DepthFits' /\ Places'
    BY <1>1, <1>2, <1>3, <1>4, PutIn
  <1>6. Rising'
    <2>1. CASE indents' = indents
      BY <2>1 DEF LinesFit, Stacked, Rising
    <2>2. CASE indents' = <<0>>
      <3>1. DOMAIN indents' = {1}
        BY <2>2
      <3> QED BY <3>1 DEF Rising
    <2> QED BY <1>1, <2>1, <2>2
  <1>7. ~ (Begin' <= Len(source'))
    BY <1>1, <1>3, <1>5
  <1>8. Margins' /\ Stacked' /\ Waiting'
    BY <1>1, <1>6, <1>7 DEF Margins, Stacked, Waiting, LayoutModes
  <1> QED BY <1>5, <1>8 DEF LinesFit

-----------------------------------------------------------------------------
(* The tokens of the source, kind by kind.                                 *)
LEMMA SignLines ==
  ASSUME FitInv, LinesFit, Scanning, Here \notin {"nl", "#"},
         NEW kind \in Kinds \ (Dents \cup {"STRING", "NEWLINE"}), NEW k \in Nat \ {0},
         pos' = pos + k, Emit(kind, pos), UNCHANGED <<source, mode, indents>>,
         source[pos' - 1] \notin {"bs", "cr"}, depth' \in Nat,
         depth' + (IF kind \in Closing THEN 1 ELSE 0) = depth + (IF kind \in Opening THEN 1 ELSE 0)
  PROVE  LinesFit'
  <1>1. /\ pos <= Len(source) /\ mode = "scan" /\ Begin = pos /\ dents = 0
        /\ mode \notin LayoutModes /\ ~ InComment(pos) /\ source[pos] \notin {"#", "nl"}
    BY ScanHere
  <1>2. mode \notin Literals /\ mode' \notin Literals \cup Comments /\ mode' = "scan"
    BY <1>1 DEF Literals, Comments
  <1>3. Emits(kind, pos) /\ Reads(kind, pos, pos')
    BY <1>1, <1>2, SignEmits
  <1> QED BY <1>1, <1>2, <1>3, ReadLines

LEMMA FinishLines ==
  ASSUME FitInv, LinesFit, mode \in Literals,
         NEW kind \in Kinds \ (Dents \cup {"NEWLINE"} \cup Brackets), NEW k \in Nat,
         Finish(kind, k), source[pos' - 1] \notin {"bs", "cr"}
  PROVE  LinesFit'
  <1>1. /\ Emits(kind, first) /\ Begin = first /\ Reads(kind, first, pos') /\ mode' = "scan"
    BY FinishEmits
  <1>2. first <= Len(source) /\ depth \in Nat /\ kind \notin Opening /\ kind \notin Closing
    BY <1>1, LineFacts DEF Reads, Brackets
  <1>3. /\ mode \notin LayoutModes /\ dents = 0 /\ ~ InComment(first)
        /\ source[first] \notin {"#", "nl"}
    BY DEF LinesFit, Places, Literals, LayoutModes
  <1>4. indents' = indents /\ depth' = depth
    BY DEF Finish, Layout
  <1> QED BY <1>1, <1>2, <1>3, <1>4, ReadLines

LEMMA OperatorEnd ==
  ASSUME FitInv, Here \in Signs \/ (Here = "!" /\ Peek(1) = "=")
  PROVE  /\ OpLength \in Nat \ {0}
         /\ source[(pos + OpLength) - 1] \notin {"bs", "cr"}
  <1>1. Here # "end" /\ Here \notin {"bs", "cr"}
    BY DEF Signs, EqualSigns
  <1>2. OpLength \in {1, 2, 3}
    BY <1>1, OpLengthIn DEF FitInv
  <1>3. pos \in Nat /\ Here = source[pos]
    BY <1>1, LineFacts
  <1>4. CASE OpLength = 1
    <2>1. (pos + OpLength) - 1 = pos
      BY <1>3, <1>4
    <2> QED BY <1>1, <1>3, <1>4, <2>1
  <1>5. CASE OpLength = 2
    <2>1. (pos + OpLength) - 1 = pos + 1
      BY <1>3, <1>5
    <2>2. Peek(1) \in {"=", "*", "<", ">", "/"}
      BY <1>5 DEF OpLength, Doubled
    <2>3. Peek(1) = source[pos + 1]
      <3>1. Peek(1) # "end"
        BY <2>2
      <3> QED BY <3>1, PeekIn DEF FitInv, Inv
    <2> QED BY <1>5, <2>1, <2>2, <2>3
  <1>6. CASE OpLength = 3
    <2>1. (pos + OpLength) - 1 = pos + 2
      BY <1>3, <1>6
    <2>2. Peek(2) = "="
      BY <1>6 DEF OpLength
    <2>3. Peek(2) = source[pos + 2]
      BY <2>2, PeekIn DEF FitInv, Inv
    <2> QED BY <1>6, <2>1, <2>2, <2>3
  <1> QED BY <1>2, <1>4, <1>5, <1>6

LEMMA SignsLines ==
  ASSUME FitInv, LinesFit, Operator \/ Bracket \/ Dot \/ Illegal, NoLexError'
  PROVE  LinesFit'
  <1>0. pos \in Nat /\ depth \in Nat /\ (Here # "end" => Here = source[pos])
    BY LineFacts
  <1>1. ASSUME NEW c, Error(c) PROVE ~ c
    <2>1. ASSUME c PROVE FALSE
      <3>1. Error(TRUE)
        BY <1>1, <2>1 DEF Error
      <3> QED BY <3>1, ErrorNoted DEF FitInv
    <2> QED BY <2>1
  <1>2. CASE Operator
    <2>1. /\ Scanning /\ (Here \in Signs \/ (Here = "!" /\ Peek(1) = "="))
          /\ pos' = pos + OpLength /\ Emit(OpKind(OpLength), pos)
          /\ UNCHANGED <<source, mode, indents, depth>>
      BY <1>2 DEF Operator, Layout
    <2>2. Here \notin {"nl", "#"} /\ Here # "end"
      BY <2>1 DEF Signs, EqualSigns
    <2>3. /\ OpLength \in Nat \ {0} /\ source[pos' - 1] \notin {"bs", "cr"}
      BY <2>1, OperatorEnd
    <2>4. /\ OpKind(OpLength) \in Kinds \ (Dents \cup {"STRING", "NEWLINE"})
          /\ OpKind(OpLength) \notin Opening /\ OpKind(OpLength) \notin Closing
      <3>1. OpKind(OpLength) \in {"aug=", "cmp", "**", "mul", "shift", "bit", Here}
        BY DEF OpKind
      <3>2. OpKind(OpLength) \in Kinds
        BY <2>1, OpKindIn
      <3> QED BY <2>1, <3>1, <3>2 DEF Dents, Signs, EqualSigns, Opening, Closing
    <2>5. PICK kind : kind = OpKind(OpLength)
      OBVIOUS
    <2>6. PICK k : k = OpLength
      OBVIOUS
    <2> QED BY <1>0, <2>1, <2>2, <2>3, <2>4, <2>5, <2>6, SignLines
  <1>3. CASE Bracket
    <2>1. /\ Scanning /\ Here \in Opening \cup Closing /\ pos' = pos + 1 /\ Emit(Here, pos)
          /\ UNCHANGED <<source, mode, indents>>
          /\ depth' = CASE Here \in Opening               -> depth + 1
                        [] Here \in Closing /\ depth > 0 -> depth - 1
                        [] OTHER                         -> depth
      BY <1>3 DEF Bracket, Layout
    <2>2. ~ (Here \in Closing /\ depth = 0)
      BY <1>1, <1>3 DEF Bracket
    <2>3. PICK kind : kind = Here
      OBVIOUS
    <2>4. /\ kind \in Kinds \ (Dents \cup {"STRING", "NEWLINE"}) /\ Here \notin {"nl", "#", "end"}
          /\ kind \notin {"bs", "cr"} /\ (kind \in Opening => kind \notin Closing)
      BY <2>1, <2>3 DEF Kinds, Opening, Closing, Dents
    <2>5. source[pos' - 1] = kind
      <3>1. pos' - 1 = pos
        BY <1>0, <2>1
      <3> QED BY <1>0, <2>3, <2>4, <3>1
    <2>6. /\ depth' \in Nat
          /\ depth' + (IF kind \in Closing THEN 1 ELSE 0) = depth + (IF kind \in Opening THEN 1 ELSE 0)
      <3>1. CASE kind \in Opening
        <4>1. kind \notin Closing /\ depth' = depth + 1
          BY <2>1, <2>3, <2>4, <3>1
        <4> QED BY <1>0, <3>1, <4>1
      <3>2. CASE kind \notin Opening
        <4>1. kind \in Closing /\ depth > 0
          BY <1>0, <2>1, <2>2, <2>3, <3>2
        <4>2. depth' = depth - 1
          BY <2>1, <2>3, <3>2, <4>1
        <4> QED BY <1>0, <3>2, <4>1, <4>2
      <3> QED BY <3>1, <3>2
    <2> QED BY <2>1, <2>3, <2>4, <2>5, <2>6, 1 \in Nat \ {0}, SignLines
  <1>4. CASE Dot
    <2>1. /\ Scanning /\ Here = "." /\ pos' = pos + 1 /\ Emit(".", pos)
          /\ UNCHANGED <<source, mode, indents, depth>>
      BY <1>4 DEF Dot, Layout
    <2>2. source[pos' - 1] = "."
      <3>1. pos' - 1 = pos
        BY <1>0, <2>1
      <3> QED BY <1>0, <2>1, <3>1
    <2>3. "." \in Kinds \ (Dents \cup {"STRING", "NEWLINE"}) /\ "." \notin Opening /\ "." \notin Closing
      BY DEF Kinds, Dents, Opening, Closing
    <2> QED BY <1>0, <2>1, <2>2, <2>3, 1 \in Nat \ {0}, SignLines
  <1>5. CASE Illegal
    <2>1. Error(TRUE)
      BY <1>5 DEF Illegal
    <2> QED BY <2>1, ErrorNoted DEF FitInv
  <1> QED BY <1>2, <1>3, <1>4, <1>5

LEMMA PlainKinds ==
  /\ {"IDENTIFIER", "STRING", "INT", "FLOAT"} \cup Words
       \subseteq Kinds \ (Dents \cup {"NEWLINE"} \cup Brackets)
  BY DEF Kinds, Dents, Words, Brackets, Opening, Closing

LEMMA WordLines ==
  ASSUME FitInv, LinesFit, Word \/ Number, NoLexError'
  PROVE  LinesFit'
  <1>0. /\ pos \in Nat /\ pos + 0 = pos
        /\ mode \in {"word", "digits", "fraction", "radix"} => source[pos - 1] \in WordEnd
        /\ WordEnd \cap {"bs", "cr"} = {} /\ Digits \cap {"bs", "cr"} = {}
    BY LineFacts DEF LinesFit, Places, WordEnd, Letters, Words, Digits
  <1>1. ASSUME NEW c, Error(c) PROVE ~ c
    <2>1. ASSUME c PROVE FALSE
      <3>1. Error(TRUE)
        BY <1>1, <2>1 DEF Error
      <3> QED BY <3>1, ErrorNoted DEF FitInv
    <2> QED BY <2>1
  <1>2. ASSUME NEW kind \in {"IDENTIFIER", "INT", "FLOAT"} \cup Words, Finish(kind, 0),
               mode \in Literals, source[pos - 1] \notin {"bs", "cr"}
        PROVE  LinesFit'
    <2>1. pos' = pos
      BY <1>0, <1>2 DEF Finish
    <2> QED BY <1>2, <2>1, 0 \in Nat, PlainKinds, FinishLines
  <1>3. ASSUME NEW m \in Literals, Stay(1, m), mode \in Literals,
               m \in {"word", "digits", "fraction", "radix"} => Here \in WordEnd
        PROVE  LinesFit'
    <2>1. /\ pos' = pos + 1 /\ mode' = m /\ UNCHANGED <<source, out, indents, depth, first, dents>>
      BY <1>3 DEF Stay, Skip, Layout
    <2> QED BY <1>3, <2>1, StepsOn, StayLines
  <1>4. CASE Word
    <2>0. mode = "word" /\ mode \in Literals
      BY <1>4 DEF Word, Literals
    <2>1. CASE Here \in Letters \cup Words \cup Digits
      <3>1. Stay(1, "word") /\ Here \in WordEnd
        BY <1>4, <2>1 DEF Word, WordEnd
      <3> QED BY <1>3, <2>0, <3>1
    <2>2. CASE Here \notin Letters \cup Words \cup Digits
      <3>1. PICK kind \in {"IDENTIFIER", "INT", "FLOAT"} \cup Words : Finish(kind, 0)
        BY <1>4, <2>2 DEF Word
      <3>2. source[pos - 1] \notin {"bs", "cr"}
        BY <1>0, <2>0
      <3> QED BY <1>2, <2>0, <3>1, <3>2
    <2> QED BY <2>1, <2>2
  <1>5. CASE Number
    <2>0. /\ mode \in {"radix", "digits", "fraction", "exponent"} /\ mode \in Literals
          /\ {"fraction", "exponent"} \subseteq Literals
      BY <1>5 DEF Number, Literals
    <2>1. ASSUME NEW k, NEW m \in {"fraction", "exponent"}, InFloat(k, m),
                 m = "fraction" => k = 1 /\ Here \in WordEnd
          PROVE  LinesFit'
      <3>1. /\ pos' = pos + k /\ mode' = m
            /\ UNCHANGED <<source, out, indents, depth, first, dents>>
        BY <2>1 DEF InFloat, Layout
      <3>2. m = "fraction" => source[pos' - 1] \in WordEnd
        BY <2>1, <3>1, StepsOn
      <3>3. mode' \in {"word", "digits", "fraction", "radix"} => source[pos' - 1] \in WordEnd
        BY <3>1, <3>2
      <3> QED BY <2>0, <3>1, <3>3, StayLines
    <2>2. CASE Stay(1, mode) /\ Here \in HexDigits
      <3>1. Here \in WordEnd
        BY <2>2 DEF HexDigits, WordEnd, Letters
      <3> QED BY <1>3, <2>0, <2>2, <3>1
    <2>3. CASE Finish("INT", 0) \/ Finish("FLOAT", 0)
      <3>1. source[pos - 1] \notin {"bs", "cr"}
        <4>1. CASE mode # "exponent"
          BY <1>0, <2>0, <4>1
        <4>2. CASE mode = "exponent"
          <5>1. Stay(1, mode) \/ Error(source[pos - 1] \notin Digits)
            BY <1>5, <4>2 DEF Number
          <5>2. ~ Stay(1, mode)
            BY <1>0, <2>3 DEF Stay, Skip, Finish
          <5>3. source[pos - 1] \in Digits
            BY <1>1, <5>1, <5>2
          <5> QED BY <1>0, <5>3
        <4> QED BY <4>1, <4>2
      <3> QED BY <1>2, <2>0, <2>3, <3>1
    <2>4. CASE InFloat(1, "fraction") /\ Here = "."
      BY <2>1, <2>4 DEF WordEnd
    <2>5. CASE InFloat(ExponentMark, "exponent")
      <3>1. PICK k : k = ExponentMark
        OBVIOUS
      <3> QED BY <2>1, <2>5, <3>1
    <2> QED BY <1>5, <2>0, <2>2, <2>3, <2>4, <2>5 DEF Number, HexDigits
  <1> QED BY <1>4, <1>5

LEMMA StringLines ==
  ASSUME FitInv, LinesFit, String \/ Escape, NoLexError'
  PROVE  LinesFit'
  <1>0. /\ pos \in Nat /\ (Here # "end" => Here = source[pos])
        /\ "STRING" \in Kinds \ (Dents \cup {"NEWLINE"} \cup Brackets)
        /\ mode \in Literals /\ {"string", "escape"} \subseteq Literals
    BY LineFacts, PlainKinds DEF String, Escape, Literals
  <1>1. ~ Error(TRUE)
    BY ErrorNoted DEF FitInv
  <1>2. ASSUME NEW k, NEW m \in {"string", "escape"}, Skip(k, m), UNCHANGED Layout
        PROVE  LinesFit'
    <2>1. /\ mode' = m /\ UNCHANGED <<source, out, indents, depth, first, dents>>
      BY <1>2 DEF Skip, Layout
    <2> QED BY <1>0, <2>1, StayLines
  <1>3. CASE String
    <2>1. CASE Here = "end" \/ (Here = "nl" /\ ~ lit.triple)
      BY <1>1, <1>3, <2>1 DEF String
    <2>2. CASE Here = "q" /\ ~ lit.triple
      <3>1. Finish("STRING", 1)
        BY <1>3, <2>2 DEF String
      <3>2. source[pos' - 1] = "q"
        <4>1. pos' - 1 = pos
          BY <1>0, <3>1 DEF Finish
        <4> QED BY <1>0, <2>2, <4>1
      <3> QED BY <1>0, <3>1, <3>2, 1 \in Nat, FinishLines
    <2>3. CASE Here = "q" /\ lit.triple /\ Peek(1) = "q" /\ Peek(2) = "q"
      <3>1. Finish("STRING", 3)
        BY <1>3, <2>3 DEF String
      <3>2. source[pos' - 1] = "q"
        <4>1. pos' - 1 = pos + 2
          BY <1>0, <3>1 DEF Finish
        <4>2. source[pos + 2] = "q"
          BY <2>3, PeekIn DEF FitInv, Inv
        <4> QED BY <4>1, <4>2
      <3> QED BY <1>0, <3>1, <3>2, 3 \in Nat, FinishLines
    <2>4. CASE Here = "bs"
      <3>1. Stay(1, "escape")
        BY <1>3, <2>4 DEF String
      <3> QED BY <1>2, <3>1 DEF Stay
    <2>5. CASE /\ ~ (Here = "end" \/ (Here = "nl" /\ ~ lit.triple))
               /\ ~ (Here = "q" /\ ~ lit.triple) /\ Here # "bs"
               /\ ~ (Here = "q" /\ lit.triple /\ Peek(1) = "q" /\ Peek(2) = "q")
      <3>1. Stay(1, "string")
        BY <1>3, <2>5 DEF String
      <3> QED BY <1>2, <3>1 DEF Stay
    <2> QED BY <2>1, <2>2, <2>3, <2>4, <2>5
  <1>4. CASE Escape
    <2>1. Here # "end"
      BY <1>1, <1>4 DEF Escape
    <2>2. PICK k : k = EscapeLength
      OBVIOUS
    <2>3. Skip(k, "string") /\ UNCHANGED Layout
      BY <1>4, <2>1, <2>2 DEF Escape
    <2> QED BY <1>2, <2>3
  <1> QED BY <1>3, <1>4

LEMMA LexLines ==
  ASSUME FitInv, LinesInv, LexStep
  PROVE  LinesInv'
  <1>1. FitInv' /\ (NoLexError' => NoLexError)
    BY LexFits, ErrorsStay DEF FitInv
  <1>2. ASSUME NoLexError' PROVE LinesFit'
    <2>1. LinesFit
      BY <1>1, <1>2 DEF LinesInv
    <2> QED BY <1>1, <1>2, <2>1, IndentationLines, StartCommentLines, CommentLines, SettleLines,
               DedentLines, DentLines, SignsLines, BlankLines, NewlineLines, EndLines,
               StartLines, WordLines, StringLines DEF LexStep
  <1> QED BY <1>2 DEF LinesInv

-----------------------------------------------------------------------------
(* The margins of a source that has not been read, also in a retry.        *)
Unread ==
  /\ out = << >> /\ mode = "layout" /\ pos = 1
  /\ indent = 0 /\ indents = <<0>> /\ depth = 0

LEMMA UnreadLines ==
  ASSUME Inv, Unread
  PROVE  LinesFit
  <1>1. /\ DOMAIN out = {} /\ Len(out) = 0 /\ LineTokens = {} /\ Begin = 1
        /\ \A c : Above(c) = {}
    <2>1. DOMAIN out = {} /\ Len(out) = 0
      BY DEF Unread
    <2> QED BY <2>1 DEF LineTokens, Above, Begin, Unread, Literals
  <1>2. Margins
    <2>1. Spaces(1, 1) = 0
      BY SpacesStep
    <2>2. AtMargin(1, 1)
      BY <2>1 DEF AtMargin, Line, LineStart, Blanked, Unread
    <2> QED BY <2>2 DEF Margins, LayoutModes, Unread
  <1>3. Stacked /\ Waiting
    <2>1. indents = <<0>> /\ DOMAIN indents = {1} /\ Len(indents) = 1
      BY DEF Unread
    <2>2. Rising
      BY <2>1 DEF Rising
    <2>3. ~ Waits
      BY DEF Waits, LayoutModes, Unread
    <2> QED BY <1>1, <2>1, <2>2, <2>3 DEF Stacked, Waiting, Holds, Answers
  <1>4. Placed /\ NewlinesFit
    <2>1. \A p \in 1 .. Len(source) - 1 : ~ (p < 1)
      BY TextType
    <2> QED BY <1>1, <2>1 DEF Placed, NewlinesFit
  <1>5. DepthFits
    <2>1. Open(Begin) = 0 /\ Closed(Begin) = 0
      <3>1. /\ {i \in DOMAIN out : out[i].kind \in Opening /\ out[i].first < Begin} = {}
            /\ {i \in DOMAIN out : out[i].kind \in Closing /\ out[i].first < Begin} = {}
        BY <1>1
      <3> QED BY <3>1, FS_EmptySet DEF Open, Closed
    <2>2. Before(Len(out) + 1) = {}
      BY <1>1 DEF Before
    <2> QED BY <1>1, <2>1, <2>2 DEF DepthFits, Fresh, LineOver, Unread
  <1>6. Places
    <2>1. \A q : q \notin 1 .. 1 - 1
      OBVIOUS
    <2>2. ~ Begun(1)
      BY <2>1 DEF Begun
    <2> QED BY <2>2 DEF Places, Literals, Unread
  <1> QED BY <1>2, <1>3, <1>4, <1>5, <1>6 DEF LinesFit

LEMMA RetryLines ==
  ASSUME Inv', Retry
  PROVE  LinesInv'
  <1>1. Unread'
    BY DEF Retry, Unread
  <1>2. Inv /\ Unread => LinesFit
    BY UnreadLines
  <1>3. (Inv /\ Unread => LinesFit)'
    BY UnreadLines, PTL
  <1> QED BY <1>1, <1>3 DEF LinesInv

(* A step of the parser leaves the lines alone.                            *)
LEMMA ParserLines ==
  ASSUME LinesInv, NoLexError' => NoLexError,
         UNCHANGED <<source, pos, mode, first, indent, indents, dents, depth, out>>
  PROVE  LinesInv'
  <1>1. /\ \A i : Read(i)' <=> Read(i)
        /\ \A i, p : Inside(i, p)' <=> Inside(i, p)
        /\ \A p : InComment(p)' <=> InComment(p)
        /\ \A p : EscapedEnd(p)' <=> EscapedEnd(p)
    BY DEF Read, Inside, InComment, EscapedEnd
  <1>2. /\ \A p : Begun(p)' <=> Begun(p)
        /\ \A i : BeginsLine(i)' <=> BeginsLine(i)
        /\ Fresh' <=> Fresh
    BY DEF Begun, Read, InComment, Inside, BeginsLine, Before, Fresh, LineOver
  <1>3. /\ \A i : Column(i)' = Column(i)
        /\ \A s, p : Spaces(s, p)' = Spaces(s, p)
        /\ \A p : Open(p)' = Open(p) /\ Closed(p)' = Closed(p)
    BY DEF Column, EscapedEnd, InComment, Inside, Read, Spaces, SpacesIn, Open, Closed
  <1>4. /\ LineTokens' = LineTokens
        /\ \A c : Above(c)' = Above(c)
        /\ \A i : Upper(i)' = Upper(i)
        /\ Begin' = Begin /\ Top' = Top /\ Here' = Here
    BY <1>2, <1>3 DEF LineTokens, Above, Upper, Begin, Top, Here, Peek
  <1>5. Margins => Margins'
    BY <1>1, <1>2, <1>3, <1>4 DEF Margins, AtMargin, Line, LineStart, Blanked, Indented
  <1>6. Stacked => Stacked'
    BY <1>2, <1>3, <1>4 DEF Stacked, Rising, Known, Waits, Holds, Answers, Nearest
  <1>7. Waiting => Waiting'
    BY <1>2, <1>3, <1>4 DEF Waiting, Waits, Nearest, Deeper
  <1>8. Placed => Placed'
    BY <1>3, <1>4 DEF Placed, InBlock
  <1>9. NewlinesFit => NewlinesFit'
    BY <1>1, <1>2, <1>3, <1>4 DEF NewlinesFit, NewlineFits, NewlineAt, Within
  <1>10. DepthFits => DepthFits'
    BY <1>2, <1>3, <1>4 DEF DepthFits
  <1>11. Places => Places'
    BY <1>1, <1>2, <1>4 DEF Places
  <1> QED BY <1>5, <1>6, <1>7, <1>8, <1>9, <1>10, <1>11 DEF LinesInv, LinesFit

(* The scanner stops as soon as it has returned a token, and then it is in *)
(* no word, number or string: what it has read ends where it is.           *)
Paused == taken # Len(out) \/ tok # "none" => mode \notin Literals

LEMMA ScanPauses ==
  ASSUME LexStep
  PROVE  out' = out \/ mode' \notin Literals
  <1> USE DEF Skip, Stay, Start, Finish, InFloat, Scanning, Literals
  <1>1. CASE Indentation
    BY <1>1 DEF Indentation
  <1>2. CASE StartComment
    BY <1>2 DEF StartComment
  <1>3. CASE Comment
    BY <1>3 DEF Comment
  <1>4. CASE Settle
    BY <1>4 DEF Settle
  <1>5. CASE Dedent
    BY <1>5 DEF Dedent
  <1>6. CASE Dent
    BY <1>6 DEF Dent
  <1>7. CASE Operator
    BY <1>7 DEF Operator
  <1>8. CASE Bracket
    BY <1>8 DEF Bracket
  <1>9. CASE Blank
    BY <1>9 DEF Blank
  <1>10. CASE Newline
    BY <1>10 DEF Newline
  <1>11. CASE Illegal
    BY <1>11 DEF Illegal
  <1>12. CASE End
    BY <1>12 DEF End
  <1>13. CASE StartWord
    BY <1>13 DEF StartWord
  <1>14. CASE Word
    BY <1>14 DEF Word
  <1>15. CASE StartString
    BY <1>15 DEF StartString
  <1>16. CASE String
    BY <1>16 DEF String
  <1>17. CASE Escape
    BY <1>17 DEF Escape
  <1>18. CASE StartNumber
    BY <1>18 DEF StartNumber
  <1>19. CASE Dot
    BY <1>19 DEF Dot
  <1>20. CASE Number
    BY <1>20 DEF Number
  <1> QED BY <1>1, <1>2, <1>3, <1>4, <1>5, <1>6, <1>7, <1>8, <1>9, <1>10, <1>11,
             <1>12, <1>13, <1>14, <1>15, <1>16, <1>17, <1>18, <1>19, <1>20 DEF LexStep

LEMMA PausedStep ==
  ASSUME Paused, [Step]_vars
  PROVE  Paused'
  <1>1. CASE Scan
    <2>1. taken = Len(out) /\ tok = "none" /\ taken' = taken /\ tok' = tok
      BY <1>1 DEF Scan, parserVars
    <2>2. out' = out \/ mode' \notin Literals
      BY <1>1, ScanPauses DEF Scan
    <2> QED BY <2>1, <2>2 DEF Paused
  <1>2. CASE Fetch
    BY <1>2 DEF Fetch, Paused
  <1>3. CASE ParseStep
    <2>1. mode' = mode /\ tok # "none"
      BY <1>3, ParseStepMild DEF Mild, Rest
    <2> QED BY <2>1 DEF Paused
  <1>4. CASE Succeed \/ Reject \/ UNCHANGED vars
    <2>1. UNCHANGED <<mode, out, taken, tok>>
      BY <1>4 DEF Succeed, Reject, vars, lexVars, parserVars
    <2> QED BY <2>1 DEF Paused
  <1>5. CASE Retry
    BY <1>5 DEF Retry, Paused, Literals
  <1> QED BY <1>1, <1>2, <1>3, <1>4, <1>5 DEF Step

LEMMA LinesStep ==
  ASSUME ParserInv, FitInv, LinesInv, [Step]_vars
  PROVE  LinesInv'
  <1>0. FitInv' /\ errors \in Seq(Reports)
        /\ {"syntax", "note", "deep", "forbidden"} \subseteq Reports
    BY TextStep, ScanInv DEF ParserInv, Reports
  <1>1. CASE Scan
    BY <1>1, LexLines DEF Scan
  <1>2. CASE Fetch \/ ParseStep
    <2>1. UNCHANGED <<source, pos, mode, first, indent, indents, dents, depth, out>>
      BY <1>2, ParseStepMild DEF Fetch, Mild, Rest, Layout
    <2>2. \/ errors' = errors
          \/ errors' \in {Capped("syntax"), Capped("note"), Capped("deep"), Capped("forbidden")}
      BY <1>2, ParseStepMild DEF Fetch, Mild
    <2>3. NoLexError' => NoLexError
      BY <1>0, <2>2, CappedStays
    <2> QED BY <2>1, <2>3, ParserLines
  <1>3. CASE Succeed \/ Reject \/ UNCHANGED vars
    <2>1. UNCHANGED lexVars
      BY <1>3 DEF Succeed, Reject, vars
    <2>2. UNCHANGED <<source, pos, mode, first, indent, indents, dents, depth, out, errors>>
      BY <2>1 DEF lexVars
    <2> QED BY <2>2, ParserLines DEF NoLexError
  <1>4. CASE Retry
    BY <1>0, <1>4, RetryLines DEF FitInv
  <1> QED BY <1>1, <1>2, <1>3, <1>4 DEF Step

(* For every source, layout and use the parser makes of the scanner: when  *)
(* a parse has ended without an error of the scanner, each line is in the  *)
(* block of the nearest line above it that is not further right, and the   *)
(* newlines of the source that are tokens are those that end a line.       *)
THEOREM LinesAreRight == Spec => []TokensFitLines
  <1>1. Init => FitInv /\ LinesInv /\ Paused
    <2> SUFFICES ASSUME Init PROVE FitInv /\ LinesInv /\ Paused
      OBVIOUS
    <2>1. Inv /\ Unread
      BY LexInitInv DEF Init, LexInit, Unread
    <2>2. FitInv
      BY <2>1, StartFits DEF FitInv, Unread
    <2>3. LinesInv
      BY <2>1, UnreadLines DEF LinesInv
    <2>4. Paused
      BY <2>1 DEF Paused, Unread, Literals
    <2> QED BY <2>2, <2>3, <2>4
  <1>2. ParserInv /\ FitInv /\ LinesInv /\ Paused /\ [Step]_vars
        => FitInv' /\ LinesInv' /\ Paused'
    BY TextStep, LinesStep, PausedStep
  <1>3. ParserInv /\ LinesInv /\ Paused => TokensFitLines
    <2> SUFFICES ASSUME ParserInv, LinesInv, Paused, Over, NoLexError
                 PROVE  OffSide /\ NewlinesAreRight
      BY DEF TokensFitLines, OffSide, NewlinesAreRight
    <2>1. LinesFit
      BY DEF LinesInv
    <2>2. Begin = pos
      BY DEF ParserInv, Ended, Paused, Begin
    <2>3. OffSide
      <3>1. \A i : Upper(i) = {j \in DOMAIN out : j < i /\ BeginsLine(j) /\ Column(j) <= Column(i)}
        BY DEF Upper, LineTokens
      <3>2. \A i \in LineTokens : InBlock(i)
        BY <2>1 DEF LinesFit, Placed
      <3> QED BY <3>1, <3>2 DEF OffSide, LineTokens, InBlock
    <2>4. NewlinesAreRight
      BY <2>1, <2>2 DEF LinesFit, NewlinesFit, NewlineFits, NewlineAt, Within, NewlinesAreRight
    <2> QED BY <2>3, <2>4
  <1> QED BY <1>1, <1>2, <1>3, ParserInvariant, PTL DEF Spec
=============================================================================
