------------------------------- MODULE MCData -------------------------------
(* Instances of Containers, Binding, JsonText and Equality.  A behaviour   *)
(* is one of a container, of a call, of a JSON text or of comparisons.     *)
EXTENDS Containers, Binding, JsonText, Equality

(* ---------------------------------------------------------- containers -- *)
(* Three keys, two values, and every kind of operand: empty, with          *)
(* duplicates, with a value that cannot be a key, with a pair that is      *)
(* none, two iterables at once, the container itself.                      *)

CONSTANTS x, y, z, v, w, bad

Request(op, index, item, others, self) ==
  [op |-> op, at |-> index, item |-> item, others |-> others, self |-> self]
Plain(ops)         == {Request(op, 0, << >>, << >>, FALSE) : op \in ops}
Item(ops, items)   == {Request(op, 0, e, << >>, FALSE) : op \in ops, e \in items}
With(ops, others)  == {Request(op, 0, << >>, o, FALSE) : op \in ops, o \in others}
Itself(ops)        == {Request(op, 0, << >>, << << >> >>, TRUE) : op \in ops}

ListRequests ==
  Plain({"clear"}) \cup Item({"append", "remove"}, {<< x >>, << y >>})
    \cup {Request(op, i, << z >>, << >>, FALSE) : op \in {"insert", "setitem", "pop"}, i \in -2..2}
    \cup With({"extend", "+="}, {<< << >> >>, << << << x >>, << y >> >> >>})
    \cup Itself({"extend", "+="})

PairLists == {<< << x, w >>, << z, v >> >>, << << y, v >>, << bad, v >> >>, << << z, v >>, << y >> >>,
          << << x, v >>, << x, w >> >>}
DictRequests ==
  Plain({"clear", "popitem"})
    \cup Item({"setitem"}, {<< k, u >> : k \in {x, y, z}, u \in {v, w}} \cup {<< bad, v >>})
    \cup Item({"setdefault"}, {<< k, v >> : k \in {x, bad}})
    \cup Item({"pop"}, {<< x >>, << y >>, << z >>, << x, v >>, << bad >>})
    \cup With({"update"}, {<< p >> : p \in PairLists} \cup {<< << >>, << << y, w >> >> >>})
    \cup With({"merge", "|="}, {<< << << z, v >>, << x, w >> >> >>})
    \cup With({"merge"}, {<< << << y, v >> >>, << << z, w >> >> >>})
    \cup Itself({"merge", "|="})

Sets   == {<< << x >>, << y >> >>, << << z >>, << x >> >>, << << x >>, << y >>, << z >> >>}
Others == {<< s >> : s \in Sets} \cup {<< << << z >>, << z >>, << bad >> >> >>,
           << << << y >> >>, << << z >>, << y >> >> >>}
SetRequests ==
  Plain({"clear", "pop"})
    \cup Item({"add", "discard", "remove"}, {<< x >>, << y >>, << z >>, << bad >>})
    \cup With({"|=", "&=", "-=", "^="}, {<< s >> : s \in Sets})
    \cup With({"update", "intersection_update", "difference_update", "union", "intersection", "difference"},
              Others)
    \cup With({"symmetric_difference", "symmetric_difference_update"}, {o \in Others : Len(o) = 1})
    \cup Itself({"|=", "&=", "-=", "^=", "update", "difference_update"})

AllRequests(k) ==
  CASE k = "list" -> ListRequests [] k = "dict" -> DictRequests [] k = "set" -> SetRequests [] OTHER -> {}

(* --------------------------------------------------------------- calls -- *)
(* Parameters a and b before the star, c after it; every way to declare    *)
(* them, with and without *args, a bare star and **kwargs.                 *)
Param(kind_, name) == << [kind |-> kind_, name |-> name] >>
M(name) == Param("mandatory", name)
O(name) == Param("optional", name)
Firsts  == {<< >>, M("a"), O("a"), M("a") \o M("b"), M("a") \o O("b"), O("a") \o O("b")}
Seconds == {<< >>} \cup {Param("star", s) \o only : s \in {"*", "args"}, only \in {<< >>, M("c"), O("c")}}
Thirds  == {<< >>, Param("starstar", "kwargs")}
AllSignatures == {f \o s \o t : f \in Firsts, s \in Seconds, t \in Thirds}

(* Up to three arguments; the parser refuses two named ones of one name.   *)
Argument(kind_, names) == [kind |-> kind_, names |-> names]
Arguments ==
  {Argument("positional", << "" >>), Argument("star", << "", "" >>),
   Argument("starstar", << "c" >>), Argument("starstar", << "b", "d" >>)}
    \cup {Argument("keyword", << name >>) : name \in {"a", "b", "d"}}
AllCalls == {c \in UNION {[1..n -> Arguments] : n \in 0..3} :
               \A i, j \in DOMAIN c : i # j /\ c[i].kind = "keyword" => c[i] # c[j]}

(* ---------------------------------------------------------------- JSON -- *)
(* Numerals in every combination of their parts, strings with every short  *)
(* sequence of escapes, and documents with one character too few, too many *)
(* or in the place of another.                                             *)
Numerals == {sign \o whole \o fraction \o exponent :
               sign     \in {<< >>, << "-" >>},
               whole    \in {<< >>, << "0" >>, << "1" >>, << "0", "1" >>, << "1", "0" >>},
               fraction \in {<< >>, << "." >>, << ".", "0" >>, << ".", "1", "0" >>},
               exponent \in {<< >>, << "e" >>, << "e", "1" >>, << "e", "+" >>, << "e", "-", "0" >>,
                             << "e", "999" >>, << "e", "-", "999" >>, << "e", "+", "-", "1" >>}}
Quoted == {<< "q" >> \o body \o << "q" >> :
             body \in BoundedSeq({"x", "n", "u", "nl", "us", "q", "bs", "0078", "+078", High, Low}, 3)
                        \cup {<< "bs", "u", High >> \o rest :
                                rest \in BoundedSeq({"u", "x", "q", "bs", High, Low}, 4)}}

Number(t)   == Atom("int", t)
Text(t)     == Atom("string", t)
Word(name)  == Atom("word", << name >>)
NonFinite   == Atom("inf", << >>)
Function    == Atom("function", << >>)
JsonScalars == {Word("true"), Word("null"), Number(<< "-", "1" >>), Atom("float", << "1", ".", "0" >>), Text(<< >>),
                Text(<< "q", "us", "bs", "x" >>), Text(<< "nl", "astral" >>), NonFinite, Function}
JsonLists   == {List(<< >>), List(<< Word("null"), List(<< >>), Number(<< "0" >>) >>),
                List(<< Number(<< "1" >>), NonFinite >>)} \cup {List(<< List(<< s >>) >>) : s \in JsonScalars}
JsonObjects == {Object(<< >>), Object(<< >> :> Object(<< >>)),
                Object(<< "x" >> :> List(<< >>) @@ << "x", "nl" >> :> Number(<< "1" >>)),
                Object(<< "q" >> :> List(<< Function >>)),
                Object(<< "u" >> :> Text(<< "x" >>) @@ << "n" >> :> Object(<< "x" >> :> Word("false")))}
JsonTooDeep == {List(<< Object(<< >> :> List(<< s >>)) >>) : s \in JsonScalars}
                 \cup {List(<< List(<< List(<< >>) >>) >>), Object(<< >> :> List(<< Object(<< >>) >>))}
JsonValues  == JsonScalars \cup JsonLists \cup JsonObjects \cup JsonTooDeep
OddValues   == {[s EXCEPT !.odd = TRUE] : s \in JsonObjects} \cup {List(<< [Object(<< >>) EXCEPT !.odd = TRUE] >>)}

TwiceX(d, e) == << "{", "q", "x", "q", ":" >> \o d \o << ",", "q", "x", "q", ":", "sp" >> \o e \o << "nl", "}" >>
Documents == {d \in {EncodeValue(s, 0) : s \in JsonValues} : ToSet(d) \cap {"bs", "refused"} = {}}
               \cup {TwiceX(<< "[", "]" >>, << "1" >>), TwiceX(<< "1" >>, << "[", "{", "}", "]" >>),
                     TwiceX(<< "[", "[", "[", "]", "]", "]" >>, << "1" >>)}
Edits(d) == LET chars == {"[", "]", "{", "}", ",", ":", "q", "sp", "1", "x", "null"}
            IN  {d} \cup {RemoveAt(d, i) : i \in DOMAIN d} \cup {ReplaceAt(d, i, c) : i \in DOMAIN d, c \in chars}
                    \cup {InsertAt(d, i, c) : i \in 1..Len(d) + 1, c \in chars}
AllTexts    == Numerals \cup Quoted \cup UNION {Edits(d) : d \in Documents}
AllEncoded  == JsonValues \cup OddValues

(* -------------------------------------------------------- comparisons -- *)
(* Heaps of lists, dicts and tuples that may contain each other and        *)
(* themselves: o1 and o2 hold any two values, o3 any one.  A tuple cannot  *)
(* be made to contain itself.  A dict has one key, 1, a set one element, 1.*)
CONSTANTS o1, o2, o3, atom

HeapValues == {o1, o2, o3, atom}
HeapObject(k, items) == [kind |-> k, items |-> items]
ListsOf(n) == {HeapObject("list", i) : i \in [1..n -> HeapValues]}
DictsOf    == {HeapObject("dict", << u >>) : u \in {o1, o2, o3}}
SetsOf     == {HeapObject("set", << atom >>)}
TuplesOf   == {HeapObject("tuple", << u >>) : u \in {o1, o2}}
AllHeaps   == {[k \in {o1, o2, o3} |-> IF k = o1 THEN a ELSE IF k = o2 THEN b ELSE c] :
                 a \in ListsOf(2), b \in ListsOf(2) \cup DictsOf,
                 c \in ListsOf(1) \cup TuplesOf \cup DictsOf \cup SetsOf}

(* the hypothesis under which AnswersRight is proved holds here            *)
ASSUME SetsHoldAtomsHere == SetsHoldAtoms

(* -------------------------------------------------------- the instance -- *)
(* kind says what a behaviour is of; the variables of the rest stand still.*)
NoCall      == params = << >> /\ args = << >> /\ at = 1 /\ positional = << >> /\ keyword = << >> /\ bound = Unbound
NoContainer == slots = << >> /\ frozen = TRUE /\ loops = << >>
NoText      == text = << >> /\ pos = 0 /\ want = "over" /\ open = << >> /\ last = Unread /\ outcome = Error /\ given = {}
NoHeap      == LET none == [t \in Threads |-> "none"]
               IN  /\ cap = 0 /\ heap = [k \in Objects |-> HeapObject("list", << >>)] /\ seen = {} /\ verdict = none /\ answer = none
                   /\ stack = [t \in Threads |-> << >>] /\ asked = [t \in Threads |-> << >>]

DataInit == \/ Init /\ NoCall /\ NoText /\ NoHeap
            \/ kind = "call" /\ BindingInit /\ NoContainer /\ NoText /\ NoHeap
            \/ kind = "text" /\ JsonInit /\ NoContainer /\ NoCall /\ NoHeap
            \/ kind = "compare" /\ EqualityInit /\ NoContainer /\ NoCall /\ NoText
DataNext == \/ kind \in Kinds /\ Next /\ UNCHANGED << bindingVars, jsonVars, equalityVars >>
            \/ kind = "call" /\ BindingNext /\ UNCHANGED << vars, jsonVars, equalityVars >>
            \/ kind = "text" /\ JsonNext /\ UNCHANGED << vars, bindingVars, equalityVars >>
            \/ kind = "compare" /\ EqualityNext /\ UNCHANGED << vars, bindingVars, jsonVars >>
DataSpec == DataInit /\ [][DataNext]_<< vars, bindingVars, jsonVars, equalityVars >>
=============================================================================
