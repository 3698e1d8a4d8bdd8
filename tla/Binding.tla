------------------------------ MODULE Binding ------------------------------
(* A call of a function of the program: the evaluator flattens the         *)
(* arguments of the call, in order, into a list and a dict of named ones   *)
(* (evaluator.py, _eval_call); bind_arguments (function.py) then gives     *)
(* every parameter its value.  A value is << i, j >>, the j-th that the    *)
(* i-th argument yields, or << 0, i >>, the default of the i-th parameter. *)
EXTENDS Integers, FiniteSets, SequencesExt

CONSTANTS Signatures,   \* parameter lists that _validate_parameters accepts
          Calls         \* argument lists that the parser accepts

VARIABLES params,       \* fn.params: a sequence of [kind, name]
          args,         \* expr.args: a sequence of [kind, names]; names has an
                          \* entry for each value, a name where it has one
          at,           \* the argument evaluated next
          positional, keyword,   \* lists of values and of << name, value >>
          bound         \* what bind_arguments returns or raises, or Unbound
bindingVars == << params, args, at, positional, keyword, bound >>

Unbound == [ok |-> FALSE, why |-> "not called", locals |-> << >>, star |-> << >>, rest |-> << >>]
Raise(why) == [Unbound EXCEPT !.why = why]

(* Ordinary parameters before and after the first star.                    *)
Named(p)    == p.kind \in {"mandatory", "optional"}
StarAt(ps)  == SelectInSeq(ps, LAMBDA p : p.kind = "star")
NamesOf(ps) == [i \in DOMAIN ps |-> ps[i].name]
PositionalNames(ps) == NamesOf(SelectSeq(IF StarAt(ps) = 0 THEN ps ELSE SubSeq(ps, 1, StarAt(ps) - 1), Named))
KeywordOnly(ps)     == NamesOf(SelectSeq(IF StarAt(ps) = 0 THEN << >> ELSE SubSeq(ps, StarAt(ps), Len(ps)), Named))
HasStar(ps)     == StarAt(ps) # 0
StarName(ps)    == HasStar(ps) /\ ps[StarAt(ps)].name # "*"     \* not the bare separator
HasStarStar(ps) == \E i \in DOMAIN ps : ps[i].kind = "starstar"

(* --------------------------------------------------------- _eval_call -- *)
Arg == args[at]
Evaluating == at <= Len(args) /\ bound = Unbound
EvalPositional ==
  /\ Evaluating /\ Arg.kind = "positional"
  /\ positional' = Append(positional, << at, 1 >>)
  /\ at' = at + 1
  /\ UNCHANGED << params, args, keyword, bound >>

(* keyword[name] = value: a name given before by ** is written over.       *)
NameTaken(kw, name) == \E i \in DOMAIN kw : kw[i][1] = name
Store(kw, name, value) == IF NameTaken(kw, name)
                          THEN [i \in DOMAIN kw |-> IF kw[i][1] = name THEN << name, value >> ELSE kw[i]]
                          ELSE Append(kw, << name, value >>)
EvalKeyword ==
  /\ Evaluating /\ Arg.kind = "keyword"
  /\ keyword' = Store(keyword, Arg.names[1], << at, 1 >>)
  /\ at' = at + 1
  /\ UNCHANGED << params, args, positional, bound >>

EvalStar ==
  /\ Evaluating /\ Arg.kind = "star"
  /\ positional' = positional \o [j \in DOMAIN Arg.names |-> << at, j >>]
  /\ at' = at + 1
  /\ UNCHANGED << params, args, keyword, bound >>

(* Every key of the dict must be new.                                      *)
EvalStarStar ==
  /\ Evaluating /\ Arg.kind = "starstar"
  /\ IF \E j \in DOMAIN Arg.names : NameTaken(keyword, Arg.names[j])
     THEN bound' = Raise("duplicate") /\ UNCHANGED << at, keyword >>
     ELSE /\ keyword' = keyword \o [j \in DOMAIN Arg.names |-> << Arg.names[j], << at, j >> >>]
          /\ at' = at + 1
          /\ UNCHANGED bound
  /\ UNCHANGED << params, args, positional >>

(* ----------------------------------------------------- bind_arguments -- *)
(* A result under construction; each step passes an error on.              *)
OfPositionalsLoose(ps, values) ==   (* mutant: a bare star takes what is left over *)
  LET names == PositionalNames(ps)
      n     == IF Len(values) < Len(names) THEN Len(values) ELSE Len(names)
      extra == SubSeq(values, n + 1, Len(values))
  IN  IF extra # << >> /\ ~HasStar(ps) THEN Raise("too many positional")
      ELSE [Unbound EXCEPT !.ok = TRUE, !.star = extra,
                           !.locals = [i \in 1..n |-> << names[i], values[i] >>]]
OfPositionals(ps, values) ==
  LET names == PositionalNames(ps)
      n     == IF Len(values) < Len(names) THEN Len(values) ELSE Len(names)
      extra == SubSeq(values, n + 1, Len(values))
  IN  IF extra # << >> /\ ~StarName(ps) THEN Raise("too many positional")
      ELSE [Unbound EXCEPT !.ok = TRUE, !.star = extra,
                           !.locals = [i \in 1..n |-> << names[i], values[i] >>]]

OfKeywords(ps, kw, r) ==
  LET known(e) == e[1] \in ToSet(PositionalNames(ps)) \cup ToSet(KeywordOnly(ps))
      mine     == SelectSeq(kw, known)
      leftover == SelectSeq(kw, LAMBDA e : ~known(e))
  IN  CASE ~r.ok -> r
        [] r.ok /\ (\E i \in DOMAIN mine : NameTaken(r.locals, mine[i][1])) -> Raise("multiple values")
        [] OTHER -> IF leftover # << >> /\ ~HasStarStar(ps) THEN Raise("unexpected keyword")
                    ELSE [r EXCEPT !.locals = @ \o mine, !.rest = leftover]

OfDefaults(ps, r) ==
  LET missing(kind) == SelectSeq([i \in DOMAIN ps |-> << ps[i].name, << 0, i >> >>],
                                 LAMBDA e : ps[e[2][2]].kind = kind /\ ~NameTaken(r.locals, e[1]))
  IN  CASE ~r.ok -> r
        [] r.ok /\ missing("mandatory") # << >> -> Raise("missing")
        [] OTHER -> [r EXCEPT !.locals = @ \o missing("optional")]

BindArguments ==
  /\ at > Len(args) /\ bound = Unbound
  /\ bound' = OfDefaults(params, OfKeywords(params, keyword, OfPositionals(params, positional)))
  /\ UNCHANGED << params, args, at, positional, keyword >>

BindingInit ==
  /\ params \in Signatures /\ args \in Calls
  /\ at = 1 /\ positional = << >> /\ keyword = << >> /\ bound = Unbound

BindingNext == EvalPositional \/ EvalKeyword \/ EvalStar \/ EvalStarStar \/ BindArguments

(* ---------------------------------------------------------- properties -- *)
(* What the language says of a call, without an order of evaluation: the   *)
(* values given by position and those given by name.                       *)
ByPosition == {<< i, j >> \in (DOMAIN args) \X (1..3) :
                 args[i].kind \in {"positional", "star"} /\ j \in DOMAIN args[i].names}
Before(u, v) == u[1] < v[1] \/ (u[1] = v[1] /\ u[2] < v[2])
Nth(v) == Cardinality({u \in ByPosition : Before(u, v)}) + 1
ByName(name) == {<< i, j >> \in (DOMAIN args) \X (1..3) :
                   /\ args[i].kind \in {"keyword", "starstar"}
                   /\ j \in DOMAIN args[i].names /\ args[i].names[j] = name}
GivenNames == UNION {ToSet(args[i].names) : i \in {k \in DOMAIN args : args[k].kind \in {"keyword", "starstar"}}}

Positional(i) == \E k \in DOMAIN PositionalNames(params) : PositionalNames(params)[k] = params[i].name
Rank(i)       == CHOOSE k \in DOMAIN PositionalNames(params) : PositionalNames(params)[k] = params[i].name
Given(i)      == {v \in ByPosition : Positional(i) /\ Nth(v) = Rank(i)} \cup ByName(params[i].name)
Ordinary      == {i \in DOMAIN params : Named(params[i])}

Acceptable ==
  /\ \A i \in Ordinary : Cardinality(Given(i)) <= 1 /\ (params[i].kind = "mandatory" => Given(i) # {})
  /\ \A name \in GivenNames : Cardinality(ByName(name)) = 1
  /\ HasStarStar(params) \/ GivenNames \subseteq {params[i].name : i \in Ordinary}
  /\ StarName(params) \/ Cardinality(ByPosition) <= Len(PositionalNames(params))

(* A ** argument followed by a named one of a name it holds: the code      *)
(* keeps the later value and says nothing (README, section 7).             *)
WrittenOver ==
  \E i, k \in DOMAIN args : /\ i < k /\ args[i].kind = "starstar" /\ args[k].kind = "keyword"
                            /\ args[k].names[1] \in ToSet(args[i].names)

(* A call is accepted if and only if every parameter without a default has *)
(* exactly one value, none has two, and nothing is left over that no       *)
(* parameter takes; each parameter then has the value given to it, by      *)
(* position before by name, or its default; *args has the other positional *)
(* values and **kwargs the other named ones, in the order of the call.     *)
BindingIsRight ==
  bound # Unbound /\ ~WrittenOver =>
    /\ bound.ok <=> Acceptable
    /\ bound.ok =>
         /\ {e[1] : e \in ToSet(bound.locals)} = {params[i].name : i \in Ordinary}
         /\ Len(bound.locals) = Cardinality(Ordinary)
         /\ \A i \in Ordinary, e \in ToSet(bound.locals) : e[1] = params[i].name =>
              e[2] \in (IF Given(i) = {} THEN {<< 0, i >>} ELSE Given(i))
         /\ bound.star = SetToSortSeq({v \in ByPosition : Nth(v) > Len(PositionalNames(params))}, Before)
         /\ LET others == GivenNames \ {params[i].name : i \in Ordinary}
            IN  bound.rest = SetToSortSeq({<< name, v >> \in others \X UNION {ByName(o) : o \in others} :
                                             v \in ByName(name)}, LAMBDA d, e : Before(d[2], e[2]))
=============================================================================
