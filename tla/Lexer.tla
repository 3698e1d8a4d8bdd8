-------------------------------- MODULE Lexer --------------------------------
(***************************************************************************)
(* The scanner: next_token, one token at a time, with the layout it works  *)
(* out at the start of a line.  A source is a sequence of characters; a    *)
(* character is its class:                                                 *)
(*   "sp" "tab" "cr" "nl" "#" "bs" (backslash) "q" (a quotation mark)      *)
(*   letters and keywords ("x" is any letter, a keyword is one element),   *)
(*   digits, brackets, the signs operators are made of, "?" for the rest.  *)
(* One action is one turn of a loop of the scanner, so that a state is a   *)
(* position in the source and what the scanner is in the middle of there.  *)
(***************************************************************************)
EXTENDS Integers, Sequences, FiniteSets

CONSTANTS Sources     (* the sources that are scanned                      *)

VARIABLES
  source,    (* _source                                                    *)
  pos,       (* _pos, counted from 1                                       *)
  mode,      (* the loop the scanner is in; "layout" is _check_indent      *)
  first,     (* where the word, number or string it is in began            *)
  lit,       (* how that string is written, or which number it is so far   *)
  indent,    (* indent_len of the line whose layout is being worked out    *)
  indents,   (* _indent_stack                                              *)
  dents,     (* _dents                                                     *)
  depth,     (* _paren_depth                                               *)
  out,       (* the tokens returned so far, the last one is _pending_kind  *)
  errors     (* the list of errors, shared with the parser                 *)

lexVars == <<source, pos, mode, first, lit, indent, indents, dents, depth, out,
             errors>>

Letters  == {"x", "r", "e", "f"}
Digits   == {"0", "1", "7"}
HexDigits == Digits \cup {"e", "f"}
Words == {"if", "else", "elif", "for", "in", "def", "return", "pass", "load",
          "lambda", "not", "and", "or", "while"}
Blanks   == {"sp", "tab", "cr"}
Opening  == {"(", "[", "{"}
Closing  == {")", "]", "}"}
EqualSigns == {"=", "!", ">", "<", "+", "-", "*", "/", "%", "^", "&", "|"}
Signs == {":", ",", ";", "~"} \cup (EqualSigns \ {"!"})
Doubled  == {"<", ">", "/"}
Chars == Letters \cup Digits \cup Words \cup Blanks \cup Opening \cup Closing \cup Signs
         \cup {"!", ".", "nl", "#", "bs", "q", "?"}

ASSUME SourcesAssumption == \A s \in Sources : s \in Seq(Chars)

Modes == {"layout", "layoutComment", "dedent", "scan", "comment", "word", "string",
          "escape", "digits", "fraction", "exponent", "radix"}

Peek(k) == IF pos + k \in DOMAIN source THEN source[pos + k] ELSE "end"
Here == Peek(0)
Top == indents[Len(indents)]

Pending == IF out = <<>> THEN "none" ELSE out[Len(out)].kind
Level == IF out = <<>> THEN 0 ELSE out[Len(out)].level

Plain == [triple |-> FALSE, raw |-> FALSE, float |-> FALSE]

LexInit ==
  /\ source \in Sources
  /\ pos = 1 /\ mode = "layout" /\ first = 1 /\ lit = Plain
  /\ indent = 0 /\ indents = <<0>> /\ dents = 0 /\ depth = 0
  /\ out = <<>> /\ errors = <<>>

(* Return a token; its level is how many INDENTs are open after it.        *)
Emit(kind, from) ==
  out' = Append(out,
    [kind |-> kind, first |-> from, next |-> pos',
     level |-> CASE kind = "INDENT"  -> Level + 1
                 [] kind = "OUTDENT" -> Level - 1
                 [] OTHER            -> Level])

Error(yes) == errors' = IF yes THEN Append(errors, "lexer") ELSE errors
Layout == <<indent, indents, dents>>
Skip(k, m) ==
  pos' = pos + k /\ mode' = m /\ UNCHANGED <<source, first, lit, depth, out>>

-----------------------------------------------------------------------------
(* The layout of a line: _compute_indentation.  Blank lines and comments   *)
(* start it over, a tab counts as one column and is an error.              *)
Indentation ==
  /\ mode = "layout" /\ Here \in Blanks \cup {"nl"}
  /\ Skip(1, "layout")
  /\ indent' = CASE Here = "nl" -> 0 [] Here = "cr" -> indent [] OTHER -> indent + 1
  /\ Error(Here = "tab")
  /\ UNCHANGED <<indents, dents>>

StartComment ==
  /\ mode = "layout" \/ (mode = "scan" /\ dents = 0)
  /\ Here = "#"
  /\ Skip(1, IF mode = "layout" THEN "layoutComment" ELSE "comment")
  /\ UNCHANGED <<errors, Layout>>

Comment ==
  /\ mode \in {"comment", "layoutComment"}
  /\ IF Here \in {"nl", "end"}
     THEN /\ Skip(0, IF mode = "comment" THEN "scan" ELSE "layout")
          /\ indent' = IF mode = "comment" THEN indent ELSE 0
     ELSE Skip(1, mode) /\ UNCHANGED indent
  /\ UNCHANGED <<errors, indents, dents>>

Measured == IF Here = "end" THEN 0 ELSE indent

Settle ==
  /\ mode = "layout" /\ Here \notin Blanks \cup {"nl", "#"}
  /\ Skip(0, IF Top > Measured THEN "dedent" ELSE "scan")
  /\ indent' = Measured
  /\ indents' = IF Top < Measured THEN Append(indents, Measured) ELSE indents
  /\ dents' = IF Top < Measured THEN dents + 1 ELSE dents
  /\ UNCHANGED errors

DedentAny ==                     (* mutant: pops one level for any dedent  *)
  /\ mode = "dedent"
  /\ indents' = SubSeq(indents, 1, Len(indents) - 1)
  /\ dents' = dents - 1
  /\ Skip(0, "scan")
  /\ UNCHANGED <<errors, indent>>

(* while self._indent_stack[-1] > indent_len: pop; no such level: an error *)
Dedent ==
  /\ mode = "dedent"
  /\ IF Top > indent
     THEN /\ indents' = SubSeq(indents, 1, Len(indents) - 1)
          /\ dents' = dents - 1
          /\ Skip(0, mode) /\ UNCHANGED errors
     ELSE Error(Top < indent) /\ Skip(0, "scan") /\ UNCHANGED <<indents, dents>>
  /\ UNCHANGED indent

(* One INDENT or OUTDENT the layout owes.                                  *)
Dent ==
  /\ mode = "scan" /\ dents # 0
  /\ pos' = pos
  /\ dents' = IF dents < 0 THEN dents + 1 ELSE dents - 1
  /\ Emit(IF dents < 0 THEN "OUTDENT" ELSE "INDENT", IF pos = 1 THEN 1 ELSE pos - 1)
  /\ UNCHANGED <<source, mode, first, lit, indent, indents, depth, errors>>

-----------------------------------------------------------------------------
Scanning == mode = "scan" /\ dents = 0 /\ pos <= Len(source)

(* _try_two_char_op first, then the operators that double a sign.          *)
OpLength ==
  CASE Here \in EqualSigns /\ Peek(1) = "="     -> 2
    [] Here = "*" /\ Peek(1) = "*"              -> 2
    [] Here \in Doubled /\ Peek(1) = Here       -> IF Peek(2) = "=" THEN 3 ELSE 2
    [] OTHER                                    -> 1

OpKind(n) ==
  CASE n = 3 -> "aug="
    [] n = 2 /\ Peek(1) = "=" -> IF Here \in {"=", "!", "<", ">"} THEN "cmp" ELSE "aug="
    [] n = 2 /\ Peek(1) = "*" -> "**"
    [] n = 2 /\ Peek(1) = "/" -> "mul"
    [] n = 2 /\ Peek(1) \in {"<", ">"} -> "shift"
    [] n = 1 /\ Here \in {"<", ">"}      -> "cmp"
    [] n = 1 /\ Here \in {"/", "%"}      -> "mul"
    [] n = 1 /\ Here \in {"|", "&", "^"} -> "bit"
    [] OTHER -> Here

Operator ==
  /\ Scanning
  /\ Here \in Signs \/ (Here = "!" /\ Peek(1) = "=")
  /\ pos' = pos + OpLength
  /\ Emit(OpKind(OpLength), pos)
  /\ UNCHANGED <<source, mode, first, lit, depth, errors, Layout>>

(* Inside brackets a newline is white space; the kinds are not matched.    *)
Bracket ==
  /\ Scanning
  /\ Here \in Opening \cup Closing
  /\ pos' = pos + 1
  /\ depth' = CASE Here \in Opening               -> depth + 1
                [] Here \in Closing /\ depth > 0 -> depth - 1
                [] OTHER                         -> depth
  /\ Error(Here \in Closing /\ depth = 0)
  /\ Emit(Here, pos)
  /\ UNCHANGED <<source, mode, first, lit, Layout>>

(* A backslash continues the line only right before the line's end.        *)
Continued ==
  CASE Here = "bs" /\ Peek(1) = "nl"                     -> 2
    [] Here = "bs" /\ Peek(1) = "cr" /\ Peek(2) = "nl"   -> 3
    [] OTHER                                             -> 0

Blank ==
  /\ Scanning
  /\ \/ Here \in Blanks /\ Skip(1, "scan")
     \/ Continued > 0 /\ Skip(Continued, "scan")
     \/ Here = "nl" /\ depth > 0 /\ Skip(1, "scan")
  /\ UNCHANGED <<errors, Layout>>

Newline ==
  /\ Scanning /\ Here = "nl" /\ depth = 0
  /\ pos' = pos + 1 /\ mode' = "layout" /\ indent' = 0
  /\ Emit("NEWLINE", pos)
  /\ UNCHANGED <<source, first, lit, indents, dents, depth, errors>>

Illegal ==
  /\ Scanning
  /\ \/ Here = "?"
     \/ Here = "!" /\ Peek(1) # "="
     \/ Here = "bs" /\ Continued = 0
  /\ pos' = pos + 1
  /\ Error(TRUE)
  /\ Emit("ILLEGAL", pos)
  /\ UNCHANGED <<source, mode, first, lit, depth, Layout>>

(* At the end of the source the levels that are open are closed, after a   *)
(* NEWLINE; next_token puts a NEWLINE before the first EOF as well.        *)
EndKeepingLevels ==              (* mutant: the levels stay open           *)
  /\ mode = "scan" /\ dents = 0 /\ pos > Len(source)
  /\ pos' = pos
  /\ Emit(IF Pending = "NEWLINE" THEN "EOF" ELSE "NEWLINE", pos)
  /\ UNCHANGED <<source, mode, first, lit, depth, errors, Layout>>

End ==
  /\ mode = "scan" /\ dents = 0 /\ pos > Len(source)
  /\ pos' = pos
  /\ IF Len(indents) > 1
     THEN /\ indents' = <<0>> /\ dents' = 1 - Len(indents)
          /\ Emit("NEWLINE", IF pos = 1 THEN 1 ELSE pos - 1)
     ELSE /\ Emit(IF Pending = "NEWLINE" THEN "EOF" ELSE "NEWLINE", pos)
          /\ UNCHANGED <<indents, dents>>
  /\ UNCHANGED <<source, mode, first, lit, indent, depth, errors>>

-----------------------------------------------------------------------------
(* Begin a word, a string or a number.                                     *)
Start(k, m, how) ==
  /\ pos' = pos + k /\ mode' = m /\ first' = pos /\ lit' = how
  /\ UNCHANGED <<source, depth, out, errors, Layout>>

(* Return the token that began at first and ends before pos + k.           *)
Finish(kind, k) ==
  /\ pos' = pos + k /\ mode' = "scan"
  /\ Emit(kind, first)
  /\ UNCHANGED <<source, first, lit, depth, Layout>>

Stay(k, m) == Skip(k, m) /\ UNCHANGED <<errors, Layout>>

StartWord ==
  /\ Scanning
  /\ Here \in Letters \cup Words /\ ~ (Here = "r" /\ Peek(1) = "q")
  /\ Start(1, "word", Plain)

(* A word is a keyword only as a whole.                                    *)
Word ==
  /\ mode = "word"
  /\ IF Here \in Letters \cup Words \cup Digits
     THEN Stay(1, "word")
     ELSE /\ Finish(IF pos = first + 1 /\ source[first] \in Words
                    THEN source[first] ELSE "IDENTIFIER", 0)
          /\ UNCHANGED errors

(* A string begins with one quotation mark or with three, after r or not.  *)
StartString ==
  /\ Scanning
  /\ Here = "q" \/ (Here = "r" /\ Peek(1) = "q")
  /\ LET n == IF Here = "r" THEN 2 ELSE 1
         triple == Peek(n) = "q" /\ Peek(n + 1) = "q"
     IN Start(IF triple THEN n + 2 ELSE n, "string",
              [triple |-> triple, raw |-> Here = "r", float |-> FALSE])

(* An unescaped newline ends a string that is not triple, with an error:   *)
(* it is part of the string then and ends no line.                         *)
String ==
  /\ mode = "string"
  /\ CASE Here = "end" \/ (Here = "nl" /\ ~ lit.triple) ->
            Finish("STRING", IF Here = "end" THEN 0 ELSE 1) /\ Error(TRUE)
       [] Here = "q" /\ ~ lit.triple -> Finish("STRING", 1) /\ Error(FALSE)
       [] Here = "q" /\ lit.triple /\ Peek(1) = "q" /\ Peek(2) = "q" ->
            Finish("STRING", 3) /\ Error(FALSE)
       [] Here = "bs" -> Stay(1, "escape")
       [] OTHER -> Stay(1, "string")

(* What follows a backslash in a string: how far it goes, and whether it   *)
(* is an escape.  Octal takes up to three digits, x must have two.         *)
Octals == IF Here \notin Digits THEN 0 ELSE IF Peek(1) \notin Digits THEN 1
          ELSE IF Peek(2) \notin Digits THEN 2 ELSE 3
EscapeLength ==
  CASE Here = "cr" /\ Peek(1) = "nl" -> 2
    [] ~ lit.raw /\ Here = "x" /\ {Peek(1), Peek(2)} \subseteq HexDigits -> 3
    [] ~ lit.raw /\ Octals > 0 -> Octals
    [] OTHER -> 1
EscapeBad ==
  /\ ~ lit.raw
  /\ \/ Here = "x" /\ EscapeLength = 1
     \/ Here = "7" /\ Octals = 3
     \/ Here \notin {"nl", "cr", "bs", "q", "r", "f", "x"} \cup Digits

EscapeIgnored ==                 (* mutant: a raw string has no escapes    *)
  /\ mode = "escape"
  /\ IF lit.raw THEN Stay(0, "string")
     ELSE Skip(EscapeLength, "string") /\ Error(EscapeBad) /\ UNCHANGED Layout

Escape ==
  /\ mode = "escape"
  /\ IF Here = "end" THEN Finish("STRING", 0) /\ Error(TRUE)
     ELSE Skip(EscapeLength, "string") /\ Error(EscapeBad) /\ UNCHANGED Layout

(* Numbers: an integer with a radix, a decimal integer, a fraction.        *)
StartNumber ==
  /\ Scanning
  /\ \/ Here = "." /\ Peek(1) \in Digits /\ Start(1, "fraction", [Plain EXCEPT !.float = TRUE])
     \/ Here = "0" /\ Peek(1) = "x" /\ Start(2, "radix", Plain)
     \/ Here \in Digits /\ ~ (Here = "0" /\ Peek(1) = "x") /\ Start(1, "digits", Plain)

Dot ==
  /\ Scanning /\ Here = "." /\ Peek(1) \notin Digits
  /\ pos' = pos + 1
  /\ Emit(".", pos)
  /\ UNCHANGED <<source, mode, first, lit, depth, errors, Layout>>

LeadingZero ==
  /\ source[first] = "0"
  /\ \E i \in first .. pos - 1 : source[i] # "0"

ExponentMark == IF Peek(1) \in {"+", "-"} THEN 2 ELSE 1
InFloat(k, m) ==
  /\ pos' = pos + k /\ mode' = m /\ lit' = [lit EXCEPT !.float = TRUE]
  /\ UNCHANGED <<source, first, depth, out, errors, Layout>>

Number ==
  \/ /\ mode = "radix"
     /\ IF Here \in HexDigits THEN Stay(1, mode)
        ELSE Finish("INT", 0) /\ Error(pos = first + 2)
  \/ /\ mode = "digits"
     /\ CASE Here \in Digits -> Stay(1, mode)
          [] Here = "."      -> InFloat(1, "fraction")
          [] Here = "e"      -> InFloat(ExponentMark, "exponent")
          [] OTHER           -> Finish("INT", 0) /\ Error(LeadingZero)
  \/ /\ mode = "fraction"
     /\ CASE Here \in Digits -> Stay(1, mode)
          [] Here = "e"      -> InFloat(ExponentMark, "exponent")
          [] OTHER           -> Finish("FLOAT", 0) /\ Error(FALSE)
  \/ /\ mode = "exponent"
     /\ IF Here \in Digits THEN Stay(1, mode)
        ELSE Finish("FLOAT", 0) /\ Error(source[pos - 1] \notin Digits)

(* One step towards the next token.                                        *)
LexStep ==
  \/ Indentation \/ StartComment \/ Comment \/ Settle \/ Dedent \/ Dent
  \/ Operator \/ Bracket \/ Blank \/ Newline \/ Illegal \/ End
  \/ StartWord \/ Word \/ StartString \/ String \/ Escape
  \/ StartNumber \/ Dot \/ Number

LexSpec == LexInit /\ [][LexStep]_lexVars

-----------------------------------------------------------------------------
Kinds == {"NEWLINE", "INDENT", "OUTDENT", "EOF", "ILLEGAL", "IDENTIFIER", "STRING", "INT",
          "FLOAT", "aug=", "cmp", "**", "mul", "shift", "bit", "."}
         \cup Words \cup Opening \cup Closing \cup Signs
Reports == {"lexer", "forbidden", "syntax", "note", "deep"}
Token == [kind : Kinds, first : Nat, next : Nat, level : Int]

LexTypeOK ==
  /\ source \in Seq(Chars) /\ pos \in 1 .. Len(source) + 1 /\ mode \in Modes
  /\ first \in 1 .. pos /\ lit \in [triple : BOOLEAN, raw : BOOLEAN, float : BOOLEAN]
  /\ indent \in Nat /\ indents \in Seq(Nat) \ {<<>>}
  /\ dents \in Int /\ depth \in Nat
  /\ out \in Seq(Token)
  /\ errors \in Seq(Reports)

(* Every INDENT returned is undone by one OUTDENT, however the source is   *)
(* laid out and whatever is wrong with it: no OUTDENT without an INDENT    *)
(* before it, none owed or open at EOF.                                    *)
LayoutBalanced ==
  \A i \in DOMAIN out :
    /\ out[i].level >= 0
    /\ out[i].kind = "EOF" => out[i].level = 0

(* The references below say what the tokens of a source without scanner    *)
(* errors must be.                                                         *)
NoLexError == \A i \in DOMAIN errors : errors[i] # "lexer"
Dents == {"INDENT", "OUTDENT"}
Read(i) ==                       (* not put in; at the very end either way *)
  /\ out[i].kind \notin Dents /\ out[i].first < out[i].next
  /\ IF out[i].kind = "NEWLINE" THEN out[i].first < Len(source)
     ELSE out[i].first <= Len(source)

Inside(i, p) == Read(i) /\ out[i].first < p /\ p < out[i].next
Before(i) == {j \in DOMAIN out : j < i /\ out[j].kind \notin Dents}
BeginsLine(i) ==
  /\ Read(i)
  /\ \/ Before(i) = {}
     \/ \E j \in Before(i) : out[j].kind = "NEWLINE" /\ \A k \in Before(i) : k <= j
InComment(p) ==
  \E q \in 1 .. p - 1 : /\ source[q] = "#" /\ ~ \E i \in DOMAIN out : Inside(i, q)
                        /\ \A r \in q .. p - 1 : source[r] # "nl"
EscapedEnd(p) ==                 (* right before it, or before its return  *)
  \E q \in 1 .. p - 1 :
    /\ source[q] = "bs" /\ ~ InComment(q)
    /\ q = p - 1 \/ (q = p - 2 /\ source[p - 1] = "cr")
Column(i) ==
  LET from == CHOOSE s \in 1 .. out[i].first :
                /\ s = 1 \/ (source[s - 1] = "nl" /\ ~ EscapedEnd(s - 1))
                /\ \A p \in s .. out[i].first - 1 : source[p] = "nl" => EscapedEnd(p)
  IN Cardinality({p \in from .. out[i].first - 1 :
                    source[p] = "sp" /\ \A q \in from .. p : source[q] \in Blanks})

(* The off-side rule: a line is in the block of the nearest line above it  *)
(* that is not further right, one level deeper if it is further right than *)
(* that line, and then opens the block; other columns are errors.          *)
OffSide ==
  NoLexError =>
    \A i \in {k \in DOMAIN out : BeginsLine(k)} :
      LET above == {j \in DOMAIN out : j < i /\ BeginsLine(j) /\ Column(j) <= Column(i)}
      IN IF above = {} THEN out[i].level = (IF Column(i) = 0 THEN 0 ELSE 1)
         ELSE \E j \in above :
                /\ \A k \in above : k <= j
                /\ out[i].level = out[j].level + (IF Column(j) < Column(i) THEN 1 ELSE 0)

(* A newline of the source is a token when a line it ends has begun, with  *)
(* a token or a continuation, it is outside brackets and strings and is    *)
(* not escaped; otherwise it is none.                                      *)
Open(p) == Cardinality({i \in DOMAIN out : out[i].kind \in Opening /\ out[i].first < p})
Closed(p) == Cardinality({i \in DOMAIN out : out[i].kind \in Closing /\ out[i].first < p})
Begun(p) ==
  \E q \in 1 .. p - 1 :
    /\ \/ source[q] = "bs" /\ ~ InComment(q)
       \/ \E i \in DOMAIN out : Read(i) /\ out[i].kind # "NEWLINE" /\ out[i].first = q
    /\ \A j \in DOMAIN out :
         Read(j) /\ out[j].kind = "NEWLINE" => out[j].first \notin q .. p - 1
NewlinesAreRight ==
  NoLexError =>
    \A p \in {q \in 1 .. Len(source) - 1 : q < pos /\ source[q] = "nl"} :
      (~ \E i \in DOMAIN out : Inside(i, p)) =>
      (\E i \in DOMAIN out : Read(i) /\ out[i].kind = "NEWLINE" /\ out[i].first = p)
        <=> Open(p) = Closed(p) /\ Begun(p) /\ ~ EscapedEnd(p)

(* The tokens are in the order of the source, and what lies between two of *)
(* them is white space or a comment: no character is lost or read twice.   *)
NothingLost ==
  \A i, j \in {k \in DOMAIN out : Read(k)} :
    i < j /\ (\A k \in i + 1 .. j - 1 : ~ Read(k)) =>
      /\ out[i].next <= out[j].first
      /\ \A p \in out[i].next .. out[j].first - 1 :
           source[p] \in Blanks \cup {"nl", "#", "bs"} \/ InComment(p)

(* A string ends at the first mark, or the first three, that no backslash  *)
(* escapes, raw or not.                                                    *)
Escapes(s) ==
  LET f[p \in 0 .. Len(source)] == p > s /\ source[p - 1] = "bs" /\ ~ f[p - 1] IN f
StringsClosed ==
  NoLexError =>
    \A i \in {k \in DOMAIN out : out[k].kind = "STRING"} :
      LET open == out[i].first + (IF source[out[i].first] = "r" THEN 1 ELSE 0)
          triple == /\ open + 2 \in DOMAIN source
                    /\ source[open + 1] = "q" /\ source[open + 2] = "q"
          n == IF triple THEN 3 ELSE 1
          body == open + n
          escaped == Escapes(body)
          ends(p) == /\ p + n - 1 \in DOMAIN source
                     /\ \A k \in 0 .. n - 1 : source[p + k] = "q"
                     /\ ~ escaped[p]
      IN /\ ends(out[i].next - n)
         /\ \A p \in body .. out[i].next - n - 1 : ~ ends(p)
=============================================================================
