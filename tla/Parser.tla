------------------------------- MODULE Parser -------------------------------
(***************************************************************************)
(* The recursive-descent parser on top of the scanner, and compile, which  *)
(* runs it once or twice on a source.  The parser asks the scanner for one *)
(* token at a time and has one token of lookahead; both report into the    *)
(* same list of errors.  The Python call stack is a stack of goals: what   *)
(* the functions that have been entered still have to do, innermost first. *)
(* A goal is <<function, argument>>; an action takes the goal on top and   *)
(* puts what that function does next in its place.                         *)
(***************************************************************************)
EXTENDS Lexer

CONSTANTS
  WantedModes,   (* the modes compile is called with                       *)
  MaxDepth,      (* Parser._max_depth                                      *)
  MaxErrors      (* Parser._max_errors                                     *)

ASSUME LimitsAssumption == MaxDepth \in Nat \ {0} /\ MaxErrors \in Nat \ {0}

VARIABLES
  wanted,    (* compile's argument: "auto", "expression" or "file"         *)
  attempt,   (* the entry point that is running                            *)
  taken,     (* how many tokens the parser has fetched                     *)
  tok,       (* _tok: its kind, "none" while the scanner looks for it      *)
  todo,      (* the goals, the one to do next first                        *)
  recovery,  (* _recovery                                                  *)
  nesting,   (* _depth                                                     *)
  name,      (* is the expression parsed last an Identifier?               *)
  result     (* how compile ended: an attempt, "syntax", or "none" yet     *)

parserVars == <<wanted, attempt, taken, tok, todo, recovery, nesting, name, result>>
vars == <<lexVars, parserVars>>

StatementEnd == {"EOF", "NEWLINE", ";"}
ListEnd      == {"EOF", "]", ";"}
DictEnd      == {"EOF", "}", ";"}
ExprListEnd  == {"EOF", "NEWLINE", "=", "}", "]", ")", ";"}
ExprEnd      == {":", ",", "EOF", "for", "-", "mul", "+", "]", ")"}
Terminators(s) == CASE s = "statement" -> StatementEnd [] s = "list" -> ListEnd
                    [] s = "dict" -> DictEnd [] s = "expr" -> ExprEnd

Forbidden == {"while"}
Levels == <<"or", "and", "not", "cmp", "bit", "shift", "sum", "mul">>
Operators(l) ==
  CASE l = "cmp" -> {"cmp", "in", "not in"}
    [] l = "sum" -> {"+", "-"}
    [] l = "mul" -> {"mul", "*"}
    [] OTHER     -> {l}
Tighter(l) ==
  LET i == CHOOSE j \in DOMAIN Levels : Levels[j] = l
  IN IF i = Len(Levels) THEN "suffixed" ELSE Levels[i + 1]
Level1 == Levels[1]

Goal(f)     == <<f, "">>
Expect(k)   == <<"expect", k>>
Prec(l)     == IF l = "suffixed" THEN Goal(l) ELSE <<"prec", l>>
SyncTo(s)   == <<Goal("skip"), <<"sync", s>>, Goal("error_name")>>
SyncPast(s) == <<<<"sync", s>>, Goal("skip"), Goal("error_name")>>

Entry(a) == IF a = "file" THEN <<Goal("file")>>
            ELSE <<Goal("test"), Goal("newlines"), Expect("EOF")>>

StartParser(a) ==
  /\ attempt = a /\ todo = Entry(a)
  /\ taken = 0 /\ tok = "none" /\ recovery = FALSE /\ nesting = 0 /\ name = FALSE

Init ==
  /\ LexInit
  /\ wanted \in WantedModes
  /\ StartParser(IF wanted = "file" THEN "file" ELSE "expression")
  /\ result = "none"

-----------------------------------------------------------------------------
(* The handshake: _fetch asks the scanner, which runs until it returns a   *)
(* token; a keyword that is not part of the language is reported here.     *)
Capped(e) == IF Len(errors) >= MaxErrors THEN errors ELSE Append(errors, e)

Scan ==
  /\ tok = "none" /\ taken = Len(out)
  /\ LexStep
  /\ UNCHANGED parserVars

Fetch ==
  /\ tok = "none" /\ taken < Len(out)
  /\ tok' = out[taken + 1].kind
  /\ taken' = taken + 1
  /\ errors' = IF tok' \in Forbidden THEN Capped("forbidden") ELSE errors
  /\ UNCHANGED <<source, pos, mode, first, lit, indent, indents, dents, depth, out,
                 wanted, attempt, todo, recovery, nesting, name, result>>

(* What a step of a function may do besides its own goals: consume the     *)
(* token (EOF stays), report with or without going into recovery, or leave *)
(* it at that.                                                             *)
Is(f)  == tok # "none" /\ todo # <<>> /\ todo[1][1] = f
Arg    == todo[1][2]
Do(gs) == todo' = gs \o Tail(todo)
Rest   == <<source, pos, mode, first, lit, Layout, depth, out, wanted, attempt, taken,
            result>>

Consumed == IF tok = "EOF" THEN tok ELSE "none"

Consume(gs) ==
  /\ Do(gs) /\ tok' = Consumed
  /\ UNCHANGED <<Rest, errors, recovery, nesting, name>>
Then(gs) ==
  /\ Do(gs) /\ UNCHANGED <<Rest, tok, errors, recovery, nesting, name>>
Value(gs, isName) ==
  /\ Do(gs) /\ tok' = Consumed /\ name' = isName
  /\ UNCHANGED <<Rest, errors, recovery, nesting>>
Note(gs) ==
  /\ Do(gs) /\ errors' = Capped("note")
  /\ UNCHANGED <<Rest, tok, recovery, nesting, name>>

(* _syntax_error: silent while the parser is recovering from another one.  *)
ComplainSilently ==              (* mutant: recovers without a report      *)
  /\ recovery' = TRUE /\ UNCHANGED errors
Complain ==
  /\ errors' = IF recovery THEN errors ELSE Capped("syntax")
  /\ recovery' = TRUE
Fail(gs) == Do(gs) /\ Complain /\ UNCHANGED <<Rest, tok, nesting, name>>

-----------------------------------------------------------------------------
(* _expect, _expect_and_recover, _next, _sync_to and _sync_past            *)
ExpectToken ==
  /\ Is("expect") \/ Is("expect_recover")
  /\ Do(<<>>) /\ tok' = Consumed
  /\ IF tok # Arg THEN Complain
     ELSE /\ recovery' = (recovery /\ todo[1][1] = "expect")
          /\ UNCHANGED errors
  /\ UNCHANGED <<Rest, nesting, name>>

SyncForever ==                   (* mutant: does not stop at the end       *)
  /\ Is("sync")
  /\ IF tok \in Terminators(Arg) \ {"EOF"} THEN Then(<<>>) ELSE Consume(<<todo[1]>>)

Sync ==
  /\ Is("sync")
  /\ IF tok \in Terminators(Arg) \cup {"EOF"} THEN Then(<<>>) ELSE Consume(<<todo[1]>>)

Skipped == Is("skip") /\ Consume(<<>>)

(* Registers the goals around an expression set.                           *)
Marked ==
  \/ /\ Is("error_name") \/ Is("value")
     /\ Do(<<>>) /\ name' = Is("error_name")
     /\ UNCHANGED <<Rest, tok, errors, recovery, nesting>>
  \/ /\ Is("calm")
     /\ Do(<<>>) /\ recovery' = FALSE
     /\ UNCHANGED <<Rest, tok, errors, nesting, name>>

LeaveNot ==                      (* mutant: no finally around the parse    *)
  /\ Is("leave")
  /\ Then(<<>>)

Leave ==
  /\ Is("leave")
  /\ Do(<<>>) /\ nesting' = nesting - 1
  /\ UNCHANGED <<Rest, tok, errors, recovery, name>>

(* _enter: too deep ends the whole parse.                                  *)
Enter(gs) ==
  IF nesting + 1 > MaxDepth
  THEN /\ todo' = <<>> /\ errors' = Capped("deep")
       /\ UNCHANGED <<Rest, tok, recovery, nesting, name>>
  ELSE /\ Do(gs) /\ nesting' = nesting + 1
       /\ UNCHANGED <<Rest, tok, errors, recovery, name>>

-----------------------------------------------------------------------------
(* parse_file and parse_expression                                         *)
File ==
  /\ Is("file")
  /\ \/ tok = "EOF" /\ Then(<<>>)
     \/ tok = "NEWLINE" /\ Then(<<<<"expect_recover", tok>>, Goal("file")>>)
     \/ /\ tok \notin {"EOF", "NEWLINE"} /\ recovery
        /\ Then(<<Goal("skip"), <<"sync", "statement">>, Goal("calm"), Goal("file")>>)
     \/ /\ tok \notin {"EOF", "NEWLINE"} /\ ~ recovery
        /\ Then(<<Goal("statement"), Goal("file")>>)

Newlines ==
  /\ Is("newlines")
  /\ IF tok = "NEWLINE" THEN Consume(<<todo[1]>>) ELSE Then(<<>>)

Statement ==
  /\ Is("statement")
  /\ \/ /\ tok = "def"
        /\ Consume(<<Goal("ident"), Expect("("), <<"parameters", "first">>, Expect(")"),
                  Expect(":"), Goal("suite")>>)
     \/ /\ tok = "if"
        /\ Consume(<<Goal("test"), Expect(":"), Goal("suite"), Goal("elifs")>>)
     \/ /\ tok = "for"
        /\ Consume(<<Goal("loop_vars"), Expect("in"), Goal("expr"), Expect(":"),
                  Goal("suite")>>)
     \/ tok \notin {"def", "if", "for"} /\ Then(<<Goal("simple")>>)

Elifs ==
  /\ Is("elifs")
  /\ CASE tok = "elif" -> Consume(<<Goal("test"), Expect(":"), Goal("suite"), Goal("elifs")>>)
       [] tok = "else" -> Consume(<<Expect(":"), Goal("suite")>>)
       [] OTHER        -> Then(<<>>)

Simple ==
  \/ Is("simple") /\ Then(<<Goal("small"), Goal("semis"), <<"expect_recover", "NEWLINE">>>>)
  \/ /\ Is("semis")
     /\ IF tok = ";" THEN Consume(<<Goal("after_semi")>>) ELSE Then(<<>>)
  \/ /\ Is("after_semi")
     /\ Then(IF tok \in {"NEWLINE", "EOF"} THEN <<>> ELSE <<Goal("small"), Goal("semis")>>)

Small ==
  \/ /\ Is("small")
     /\ CASE tok = "return" -> Consume(<<Goal("return_value")>>)
          [] tok = "pass"   -> Consume(<<>>)
          [] tok = "load"   -> Consume(<<Expect("("), Goal("module"), Goal("loaded")>>)
          [] OTHER          -> Then(<<Goal("expr"), Goal("assign")>>)
  \/ /\ Is("return_value")
     /\ Then(IF tok \in StatementEnd THEN <<>> ELSE <<Goal("expr")>>)
  \/ /\ Is("assign")
     /\ IF tok \in {"=", "aug="} THEN Consume(<<Goal("expr")>>) ELSE Then(<<>>)

LoadStatement ==
  \/ /\ Is("module")
     /\ Then(<<IF tok = "STRING" THEN Goal("string") ELSE Expect("STRING")>>)
  \/ /\ Is("loaded")
     /\ IF tok = ")" THEN Fail(<<Goal("skip")>>)
        ELSE Then(<<Expect(","), Goal("symbol"), Goal("symbols")>>)
  \/ /\ Is("symbols")
     /\ Then(IF tok \in {")", "EOF"} THEN <<Expect(")")>>
             ELSE <<Expect(","), Goal("next_symbol")>>)
  \/ /\ Is("next_symbol")
     /\ Then(IF tok = ")" THEN <<Expect(")")>> ELSE <<Goal("symbol"), Goal("symbols")>>)
  \/ /\ Is("symbol")
     /\ CASE tok = "STRING"     -> Consume(<<>>)
          [] tok = "IDENTIFIER" -> Consume(<<Expect("="), Goal("original")>>)
          [] OTHER              -> Fail(<<>>)
  \/ /\ Is("original")
     /\ IF tok = "STRING" THEN Consume(<<>>) ELSE Fail(<<>>)

(* Where the list of parameters stops: ":" too, for a lambda.              *)
ParameterEnd == {")", ":", "EOF"}

Parameters ==
  \/ /\ Is("parameters")
     /\ Then(IF tok \in (IF Arg = "comma" THEN {")"} ELSE ParameterEnd) THEN <<>>
             ELSE IF Arg = "more" THEN <<Expect(","), <<"parameters", "comma">>>>
             ELSE <<Goal("parameter"), <<"parameters", "more">>>>)
  \/ /\ Is("parameter")
     /\ CASE tok = "**" -> Consume(<<Goal("ident")>>)
          [] tok = "*"  -> Consume(<<Goal("star_name")>>)
          [] OTHER      -> Then(<<Goal("ident"), Goal("default")>>)
  \/ /\ Is("star_name")
     /\ Then(IF tok = "IDENTIFIER" THEN <<Goal("ident")>> ELSE <<>>)
  \/ /\ Is("default")
     /\ IF tok = "=" THEN Consume(<<Goal("test")>>) ELSE Then(<<>>)

(* A suite is one line, or a block between INDENT and OUTDENT.             *)
Suite ==
  \/ /\ Is("suite")
     /\ Enter(IF tok = "NEWLINE" THEN <<Expect("NEWLINE"), Goal("block"), Goal("leave")>>
              ELSE <<Goal("simple"), Goal("leave")>>)
  \/ /\ Is("block")
     /\ IF tok = "INDENT"
        THEN Consume(<<Goal("statements"), <<"expect_recover", "OUTDENT">>>>)
        ELSE Note(<<>>)
  \/ /\ Is("statements")
     /\ Then(IF tok \in {"OUTDENT", "EOF"} THEN <<>>
             ELSE <<Goal("statement"), Goal("statements")>>)

-----------------------------------------------------------------------------
(* Expressions.  "bare" lists may not end in a comma, "enclosed" ones may. *)
ExprList ==
  \/ Is("expr") /\ Then(<<Goal("test"), <<"list", "bare">>>>)
  \/ /\ Is("list")
     /\ IF tok = "," THEN Consume(<<<<"item", Arg>>>>) ELSE Then(<<>>)
  \/ /\ Is("item")
     /\ IF tok \notin ExprListEnd THEN Then(<<Goal("test"), <<"list", Arg>>>>)
        ELSE IF Arg = "bare" THEN Note(<<>>) ELSE Then(<<>>)

Test ==
  \/ /\ Is("test") \/ Is("test_no_cond")
     /\ IF tok = "lambda"
        THEN Consume(<<<<"parameters", "first">>, Expect(":"), todo[1], Goal("value")>>)
        ELSE Then(<<Prec(Level1)>> \o IF Is("test") THEN <<Goal("conditional")>> ELSE <<>>)
  \/ /\ Is("conditional")
     /\ IF tok = "if"
        THEN Consume(<<Prec(Level1), <<"else_clause", IF name THEN "error_name" ELSE "value">>>>)
        ELSE Then(<<>>)
  \/ /\ Is("else_clause")
     /\ IF tok = "else" THEN Consume(<<Goal("test"), Goal("value")>>) ELSE Note(<<Goal(Arg)>>)

(* One level of OPERATOR_PRECEDENCE, then what follows its first operand.  *)
Precedence ==
  /\ Is("prec")
  /\ IF tok = "not" /\ Arg = "not" THEN Consume(<<todo[1], Goal("value")>>)
     ELSE Then(<<Prec(Tighter(Arg)), <<"binop", Arg>>>>)

Chained == Is("more_binop") /\ Arg = "cmp"

Binop ==
  \/ /\ Is("binop") \/ Is("more_binop")
     /\ CASE tok = "not" -> Consume(<<Goal("not_in"), todo[1]>>)
          [] tok \in Operators(Arg) \ {"not"} ->
               /\ Do(<<Prec(Tighter(Arg)), <<"more_binop", Arg>>>>)
               /\ tok' = Consumed
               /\ errors' = IF Chained THEN Capped("note") ELSE errors
               /\ UNCHANGED <<Rest, recovery, nesting, name>>
          [] OTHER -> Then(IF Is("binop") THEN <<>> ELSE <<Goal("value")>>)
  \/ /\ Is("not_in")
     /\ Do(<<>>) /\ tok' = "not in"
     /\ IF tok = "in" THEN UNCHANGED <<errors, recovery>> ELSE Complain
     /\ UNCHANGED <<Rest, nesting, name>>

PrimaryGoals ==
  CASE tok \in {"-", "+", "~"} -> <<Goal("skip"), Goal("suffixed"), Goal("value")>>
    [] tok = "STRING" -> <<Goal("string")>>
    [] tok = "("      -> <<Goal("skip"), Goal("paren")>>
    [] tok = "["      -> <<Goal("skip"), Goal("list_maker")>>
    [] tok = "{"      -> <<Goal("skip"), Goal("dict")>>
    [] OTHER          -> <<Goal("atom")>>

(* _parse_primary and the loop over its suffixes                           *)
Primary ==
  \/ Is("suffixed") /\ Then(<<Goal("primary"), Goal("suffixes")>>)
  \/ Is("primary") /\ Enter(PrimaryGoals \o <<Goal("leave")>>)
  \/ /\ Is("atom")
     /\ IF tok \in {"INT", "FLOAT", "IDENTIFIER"} THEN Value(<<>>, tok = "IDENTIFIER")
        ELSE Fail(SyncTo("expr"))
  \/ /\ Is("suffixes")
     /\ CASE tok = "." -> Consume(<<Goal("selector"), Goal("suffixes")>>)
          [] tok = "[" -> Consume(<<Goal("index"), Goal("suffixes")>>)
          [] tok = "(" -> Consume(<<<<"arguments", "first">>, Expect(")"), Goal("value"),
                                 Goal("suffixes")>>)
          [] OTHER     -> Then(<<>>)
  \/ /\ Is("selector")
     /\ IF tok = "IDENTIFIER" THEN Value(<<>>, FALSE) ELSE Fail(SyncTo("expr"))

Slice ==
  \/ /\ Is("index")
     /\ Then(IF tok = ":" THEN <<Goal("slice")>> ELSE <<Goal("expr"), Goal("indexed")>>)
  \/ /\ Is("indexed")
     /\ IF tok = "]" THEN Value(<<>>, FALSE) ELSE Then(<<Goal("slice")>>)
  \/ Is("slice") /\ Then(<<Expect(":"), Goal("slice_end"), Expect("]"), Goal("value")>>)
  \/ /\ Is("slice_end")
     /\ Then(IF tok \in {":", "]"} THEN <<Goal("slice_step")>>
             ELSE <<Goal("test"), Goal("slice_step")>>)
  \/ /\ Is("slice_step")
     /\ IF tok = ":" THEN Consume(<<Goal("slice_stride")>>) ELSE Then(<<>>)
  \/ /\ Is("slice_stride")
     /\ Then(IF tok = "]" THEN <<>> ELSE <<Goal("test")>>)

Arguments ==
  \/ /\ Is("arguments")
     /\ IF tok = ")" \/ (tok = "EOF" /\ Arg # "comma") THEN Then(<<>>)
        ELSE IF Arg # "more" THEN Then(<<Goal("argument"), <<"arguments", "more">>>>)
        ELSE IF tok = "for" THEN Fail(<<Expect(","), <<"arguments", "comma">>>>)
        ELSE Then(<<Expect(","), <<"arguments", "comma">>>>)
  \/ /\ Is("argument")
     /\ IF tok \in {"*", "**"} THEN Consume(<<Goal("test")>>)
        ELSE Then(<<Goal("test"), Goal("keyword")>>)
  \/ /\ Is("keyword")
     /\ IF name /\ tok = "=" THEN Consume(<<Goal("test")>>) ELSE Then(<<>>)

(* Displays: (..), [..], {..} and comprehensions                           *)
Paren ==
  \/ /\ Is("paren")
     /\ IF tok = ")" THEN Value(<<>>, FALSE) ELSE Then(<<Goal("test"), Goal("close_paren")>>)
  \/ /\ Is("close_paren")
     /\ CASE tok = ")" -> Consume(<<>>)
          [] tok = "," -> Then(<<<<"list", "enclosed">>, Expect(")"), Goal("value")>>)
          [] tok = "for" -> Fail(<<Expect(")")>> \o SyncTo("expr"))
          [] OTHER -> Then(<<Expect(")")>> \o SyncTo("expr"))

ListMaker ==
  \/ /\ Is("list_maker")
     /\ IF tok = "]" THEN Value(<<>>, FALSE) ELSE Then(<<Goal("test"), Goal("close_list")>>)
  \/ /\ Is("close_list")
     /\ CASE tok = "]"   -> Value(<<>>, FALSE)
          [] tok = "for" -> Then(<<<<"comprehension", "]">>>>)
          [] tok = ","   -> Then(<<<<"list", "enclosed">>, Goal("end_list")>>)
          [] OTHER       -> Fail(SyncPast("list"))
  \/ /\ Is("end_list")
     /\ IF tok = "]" THEN Value(<<>>, FALSE) ELSE Then(<<Expect("]")>> \o SyncPast("list"))

DictMaker ==
  \/ /\ Is("dict")
     /\ IF tok = "}" THEN Value(<<>>, FALSE) ELSE Then(<<Goal("entry"), Goal("after_entry")>>)
  \/ Is("entry") /\ Then(<<Goal("test"), Expect(":"), Goal("test")>>)
  \/ /\ Is("after_entry")
     /\ CASE tok = "for" -> Then(<<<<"comprehension", "}">>>>)
          [] tok = ","   -> Consume(<<Goal("entries"), Goal("end_dict")>>)
          [] OTHER       -> Then(<<Goal("end_dict")>>)
  \/ /\ Is("entries")
     /\ Then(IF tok = "}" THEN <<>> ELSE <<Goal("entry"), Goal("more_entries")>>)
  \/ /\ Is("more_entries")
     /\ IF tok = "," THEN Consume(<<Goal("entries")>>) ELSE Then(<<>>)
  \/ /\ Is("end_dict")
     /\ IF tok = "}" THEN Value(<<>>, FALSE) ELSE Then(<<Expect("}")>> \o SyncPast("dict"))

LoopVars ==
  \/ Is("loop_vars") /\ Then(<<Goal("suffixed"), Goal("more_vars")>>)
  \/ /\ Is("more_vars")
     /\ IF tok = "," THEN Consume(<<Goal("next_var")>>) ELSE Then(<<>>)
  \/ /\ Is("next_var")
     /\ Then(IF tok \in ExprListEnd THEN <<>> ELSE <<Goal("suffixed"), Goal("more_vars")>>)

Comprehension ==
  /\ Is("comprehension")
  /\ CASE tok = "for" ->
            Consume(<<Goal("loop_vars"), Expect("in"), Prec(Level1), todo[1]>>)
       [] tok = "if"  -> Consume(<<Goal("test_no_cond"), todo[1]>>)
       [] tok = Arg   -> Value(<<>>, FALSE)
       [] OTHER       -> Fail(SyncPast("list"))

Literal ==
  \/ /\ Is("string")
     /\ Value(<<Goal("after_string")>>, FALSE)
  \/ /\ Is("after_string")
     /\ IF tok = "STRING" THEN Note(<<>>) ELSE Then(<<>>)
  \/ /\ Is("ident")
     /\ Then(<<Expect("IDENTIFIER")>>)

-----------------------------------------------------------------------------
(* compile: mode "auto" tries the source as an expression first; when that *)
(* fails, whatever failed, it is scanned and parsed again as a file.       *)
Succeed ==
  /\ todo = <<>> /\ tok # "none" /\ result = "none" /\ errors = <<>>
  /\ result' = attempt
  /\ UNCHANGED <<lexVars, wanted, attempt, taken, tok, todo, recovery, nesting, name>>

Reject ==
  /\ todo = <<>> /\ tok # "none" /\ result = "none" /\ errors # <<>>
  /\ ~ (wanted = "auto" /\ attempt = "expression")
  /\ result' = "syntax"
  /\ UNCHANGED <<lexVars, wanted, attempt, taken, tok, todo, recovery, nesting, name>>

RetryKeeping ==                  (* mutant: the second parse shares errors *)
  /\ todo = <<>> /\ tok # "none" /\ result = "none" /\ errors # <<>>
  /\ wanted = "auto" /\ attempt = "expression"
  /\ UNCHANGED <<source, wanted, result, errors>>
  /\ pos' = 1 /\ mode' = "layout" /\ first' = 1 /\ lit' = Plain
  /\ indent' = 0 /\ indents' = <<0>> /\ dents' = 0 /\ depth' = 0 /\ out' = <<>>
  /\ attempt' = "file" /\ todo' = Entry("file")
  /\ taken' = 0 /\ tok' = "none" /\ recovery' = FALSE /\ nesting' = 0 /\ name' = FALSE

Retry ==
  /\ todo = <<>> /\ tok # "none" /\ result = "none" /\ errors # <<>>
  /\ wanted = "auto" /\ attempt = "expression"
  /\ source' = source /\ UNCHANGED <<wanted, result>>
  /\ pos' = 1 /\ mode' = "layout" /\ first' = 1 /\ lit' = Plain
  /\ indent' = 0 /\ indents' = <<0>> /\ dents' = 0 /\ depth' = 0
  /\ out' = <<>> /\ errors' = <<>>
  /\ attempt' = "file" /\ todo' = Entry("file")
  /\ taken' = 0 /\ tok' = "none" /\ recovery' = FALSE /\ nesting' = 0 /\ name' = FALSE

ParseStep ==
  \/ ExpectToken \/ Sync \/ Skipped \/ Marked \/ Leave
  \/ File \/ Newlines \/ Statement \/ Elifs \/ Simple \/ Small \/ LoadStatement
  \/ Parameters \/ Suite \/ ExprList \/ Test \/ Precedence \/ Binop \/ Primary
  \/ Slice \/ Arguments \/ Paren \/ ListMaker \/ DictMaker \/ LoopVars
  \/ Comprehension \/ Literal

Step == Scan \/ Fetch \/ ParseStep \/ Succeed \/ Reject \/ Retry

Spec == Init /\ [][Step]_vars /\ WF_vars(Step)

-----------------------------------------------------------------------------
TypeOK ==
  /\ LexTypeOK
  /\ wanted \in WantedModes /\ attempt \in {"expression", "file"}
  /\ taken \in 0 .. Len(out) /\ tok \in Kinds \cup {"none", "not in"}
  /\ todo \in Seq(STRING \X STRING)
  /\ recovery \in BOOLEAN /\ nesting \in 0 .. MaxDepth /\ name \in BOOLEAN
  /\ result \in {"none", "expression", "file", "syntax"}

Over == result # "none"
Reported(e) == \E i \in DOMAIN errors : errors[i] = e

(* The parser recovers only from errors it has reported: a source whose    *)
(* parse went wrong is never returned without an error (parse_file).       *)
RecoveryReported == recovery => errors # <<>>

(* _depth counts the functions that have entered and not yet left, on      *)
(* every path through them.  Only a parse that went too deep ends with     *)
(* functions still entered; that is reported, unless the list is full.     *)
NestingMirrorsGoals ==
  \/ nesting = Cardinality({i \in DOMAIN todo : todo[i][1] = "leave"})
  \/ /\ todo = <<>> /\ nesting = MaxDepth
     /\ Reported("deep") \/ Len(errors) >= MaxErrors

(* When a parse has ended, the lines and blocks its tokens make are those  *)
(* of the source, and its tokens are all of the source's text.             *)
TokensFitLines == Over => OffSide /\ NewlinesAreRight
TokensFitText  == Over => NothingLost /\ StringsClosed

(* Whatever the source, compile ends: no loop of the parser goes on        *)
(* without consuming tokens, at the end of the source in particular.       *)
Termination == <>Over
=============================================================================
