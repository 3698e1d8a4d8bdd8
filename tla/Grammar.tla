------------------------------ MODULE Grammar ------------------------------
(***************************************************************************)
(* The grammar of docs/spec.md, as a reference for the parser: a table of  *)
(* rules, and what it means for a rule to match part of a text, which is   *)
(* the sequence of the kinds of its tokens, EOF the last one.              *)
(***************************************************************************)
EXTENDS Integers, Sequences

Token(kinds)   == [op |-> "token", of |-> kinds]
Rule(r)        == [op |-> "rule", of |-> r]
InOrder(es)    == [op |-> "in order", of |-> es]
AnyOf(es)      == [op |-> "any of", of |-> es]
Many(e)        == [op |-> "many", of |-> e]
Optional(e)    == [op |-> "optional", of |-> e]

Sign(k)        == Token({k})
Name           == Token({"IDENTIFIER"})
Text           == Token({"STRING"})
Listed(e)      == InOrder(<<e, Many(InOrder(<<Sign(","), e>>))>>)
(* A list that may be empty and may end in a comma.                        *)
Enclosed(e)    == Optional(InOrder(<<Listed(e), Optional(Sign(","))>>))
Infix(e, kinds) == InOrder(<<e, Many(InOrder(<<Token(kinds), e>>))>>)

Binary == [
  or    |-> Infix(Rule("and"), {"or"}),
  and   |-> Infix(Rule("not"), {"and"}),
  not   |-> InOrder(<<Many(Sign("not")), Rule("cmp")>>),
  cmp   |-> InOrder(<<Rule("bit"), Optional(InOrder(<<Rule("comparison"), Rule("bit")>>))>>),
  comparison |-> AnyOf(<<Token({"cmp", "in"}), InOrder(<<Sign("not"), Sign("in")>>)>>),
  bit   |-> Infix(Rule("shift"), {"bit"}),
  shift |-> Infix(Rule("sum"), {"shift"}),
  sum   |-> Infix(Rule("mul"), {"+", "-"}),
  mul   |-> Infix(Rule("unary"), {"*", "mul"}) ]

Operands == [
  unary   |-> InOrder(<<Many(Token({"+", "-", "~"})), Rule("operand"), Many(Rule("suffix"))>>),
  operand |-> AnyOf(<<Token({"IDENTIFIER", "INT", "FLOAT", "STRING"}),
                InOrder(<<Sign("("), Enclosed(Rule("test")), Sign(")")>>),
                InOrder(<<Sign("["), Enclosed(Rule("test")), Sign("]")>>),
                InOrder(<<Sign("["), Rule("test"), Rule("clauses"), Sign("]")>>),
                InOrder(<<Sign("{"), Enclosed(Rule("entry")), Sign("}")>>),
                InOrder(<<Sign("{"), Rule("entry"), Rule("clauses"), Sign("}")>>)>>),
  entry   |-> InOrder(<<Rule("test"), Sign(":"), Rule("test")>>),
  suffix  |-> AnyOf(<<InOrder(<<Sign("."), Name>>),
                InOrder(<<Sign("("), Enclosed(Rule("argument")), Sign(")")>>),
                InOrder(<<Sign("["), AnyOf(<<Rule("expr"), Rule("slice")>>), Sign("]")>>)>>),
  (* Starred arguments may stand anywhere: their order is not the parser's. *)
  argument |-> AnyOf(<<Rule("test"), InOrder(<<Token({"*", "**"}), Rule("test")>>),
                       InOrder(<<Name, Sign("="), Rule("test")>>)>>),
  slice   |-> InOrder(<<Optional(Rule("expr")), Sign(":"), Optional(Rule("test")),
                        Optional(InOrder(<<Sign(":"), Optional(Rule("test"))>>))>>),
  vars    |-> Listed(Rule("unary")),
  for     |-> InOrder(<<Sign("for"), Rule("vars"), Sign("in"), Rule("or")>>),
  if      |-> InOrder(<<Sign("if"), Rule("test_no_cond")>>),
  clauses |-> InOrder(<<Rule("for"), Many(AnyOf(<<Rule("for"), Rule("if")>>))>>) ]

Tests == [
  expr    |-> Listed(Rule("test")),
  test    |-> AnyOf(<<InOrder(<<Rule("or"), Optional(InOrder(
                                 <<Sign("if"), Rule("or"), Sign("else"), Rule("test")>>))>>),
                      InOrder(<<Rule("lambda"), Rule("test")>>)>>),
  test_no_cond |-> InOrder(<<Many(Rule("lambda")), Rule("or")>>),
  lambda  |-> InOrder(<<Sign("lambda"), Optional(Listed(Rule("parameter"))), Sign(":")>>),
  parameter |-> AnyOf(<<InOrder(<<Name, Optional(InOrder(<<Sign("="), Rule("test")>>))>>),
                        Sign("*"), InOrder(<<Token({"*", "**"}), Name>>)>>) ]

Statements == [
  file    |-> Many(AnyOf(<<Rule("statement"), Sign("NEWLINE")>>)),
  statement |-> AnyOf(<<Rule("simple"), Rule("if_stmt"), Rule("for_stmt"), Rule("def")>>),
  simple  |-> InOrder(<<Rule("small"), Many(InOrder(<<Sign(";"), Rule("small")>>)),
                        Optional(Sign(";")), Sign("NEWLINE")>>),
  small   |-> AnyOf(<<Sign("pass"), InOrder(<<Sign("return"), Optional(Rule("expr"))>>),
                Rule("load"), InOrder(<<Rule("expr"), Optional(InOrder(
                                          <<Token({"=", "aug="}), Rule("expr")>>))>>)>>),
  (* At least one symbol: the parser's rule, and that of its messages.     *)
  load    |-> InOrder(<<Sign("load"), Sign("("), Text, Sign(","), Listed(Rule("symbol")),
                        Optional(Sign(",")), Sign(")")>>),
  symbol  |-> InOrder(<<Optional(InOrder(<<Name, Sign("=")>>)), Text>>),
  suite   |-> AnyOf(<<Rule("simple"),
                InOrder(<<Sign("NEWLINE"), Sign("INDENT"), Rule("statement"),
                          Many(Rule("statement")), Sign("OUTDENT")>>)>>),
  branch  |-> InOrder(<<Rule("test"), Sign(":"), Rule("suite")>>),
  if_stmt |-> InOrder(<<Sign("if"), Rule("branch"),
                Many(InOrder(<<Sign("elif"), Rule("branch")>>)),
                Optional(InOrder(<<Sign("else"), Sign(":"), Rule("suite")>>))>>),
  for_stmt |-> InOrder(<<Sign("for"), Rule("vars"), Sign("in"), Rule("expr"), Sign(":"),
                         Rule("suite")>>),
  def     |-> InOrder(<<Sign("def"), Name, Sign("("), Enclosed(Rule("parameter")), Sign(")"),
                        Sign(":"), Rule("suite")>>) ]

Rules(r) == CASE r \in DOMAIN Binary   -> Binary[r]
              [] r \in DOMAIN Operands -> Operands[r]
              [] r \in DOMAIN Tests    -> Tests[r]
              [] OTHER                 -> Statements[r]

(* The positions where e may end when it begins at one of the positions S. *)
RECURSIVE After(_, _, _)
After(text, e, S) ==
  IF S = {} THEN {} ELSE
  CASE e.op = "token" -> {p + 1 : p \in {q \in S : q <= Len(text) /\ text[q] \in e.of}}
    [] e.op = "rule" -> After(text, Rules(e.of), S)
    [] e.op = "in order" ->
         LET upto[i \in 0 .. Len(e.of)] ==
               IF i = 0 THEN S ELSE After(text, e.of[i], upto[i - 1])
         IN upto[Len(e.of)]
    [] e.op = "any of" -> UNION {After(text, e.of[i], S) : i \in DOMAIN e.of}
    [] e.op = "optional" -> S \cup After(text, e.of, S)
    [] e.op = "many" ->
         LET more == After(text, e.of, S)
         IN IF more \subseteq S THEN S ELSE After(text, e, S \cup more)

Matches(e, text) == After(text, InOrder(<<e, Sign("EOF")>>), {1}) = {Len(text) + 1}
IsFile(text)       == Matches(Rule("file"), text)
IsExpression(text) == Matches(InOrder(<<Rule("test"), Many(Sign("NEWLINE"))>>), text)
=============================================================================
