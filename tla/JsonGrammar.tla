---------------------------- MODULE JsonGrammar -----------------------------
(* The texts of JSON and the values they denote, by the grammar of RFC     *)
(* 8259 and with no order of reading: the reference for the decoder and    *)
(* the encoders of JsonText.                                               *)
(*                                                                         *)
(* A text is a sequence of characters, by class: "q" a quotation mark,     *)
(* "bs" a backslash, "nl" the blanks that are control characters, "us" the *)
(* controls that are not blank, "1" the digits but 0, "e" also E, "x" any  *)
(* other letter.  "true", "false", "null", "999" (an exponent out of       *)
(* range) and the four digits of a \u escape are one element each.         *)
EXTENDS Integers, SequencesExt

Digits   == {"0", "1", "999"}
Blanks   == {"sp", "nl"}
Controls == {"nl", "us"}
Words    == {"true", "false", "null"}

(* A \u escape names a character, or one of the two halves of "astral".    *)
High == "d83d"
Low  == "de39"
CodeOf == [c \in {"0078", "001f"} |-> IF c = "001f" THEN "us" ELSE "x"]

(* ------------------------------------------------------------- values -- *)
(* items are those of a list, entries the values of a dict by the texts of *)
(* its keys; odd says that it has other keys than strings.  Tuples, ranges *)
(* and sets are written as lists, structs as dicts.                        *)
Value(kind_, spelled, items_, entries_, odd_) ==
  [kind |-> kind_, text |-> spelled, items |-> items_, entries |-> entries_, odd |-> odd_]
Atom(kind_, spelled) == Value(kind_, spelled, << >>, << >>, FALSE)
List(items_)         == Value("list", << >>, items_, << >>, FALSE)
Object(entries_)     == Value("dict", << >>, << >>, entries_, FALSE)

Occurs(S, t)  == \E i \in DOMAIN t : t[i] \in S
Mantissa(t)   == SelectInSeq(t \o << "e" >>, LAMBDA c : c = "e") - 1
IsZero(t)     == ~Occurs({"1", "999"}, t)

(* The number a numeral stands for: numbers are told apart by their value, *)
(* so every zero is one, and a float by the numeral that spells it.        *)
NumberOf(t) ==
  LET scale == SubSeq(t, Mantissa(t) + 2, Len(t))
      huge  == Occurs({"999"}, scale)
  IN  IF IsZero(SubSeq(t, 1, Mantissa(t))) \/ (huge /\ Occurs({"-"}, scale)) THEN Atom("int", << "0" >>)
      ELSE IF huge THEN Atom("inf", << >>)
      ELSE Atom(IF Occurs({".", "e"}, t) THEN "float" ELSE "int", t)

(* ------------------------------------------------------------ grammar -- *)
Part(t, i, j) == SubSeq(t, i + 1, j)
AllDigits(t)  == t # << >> /\ ToSet(t) \subseteq Digits
IsNumeral(t) ==
  \E s \in 0..1, i, j \in 0..Len(t) :
    LET fraction == Part(t, i, j)
        exponent == Part(t, j, Len(t))
    IN  /\ s <= i /\ i <= j
        /\ Part(t, 0, s) \in {<< >>, << "-" >>}
        /\ AllDigits(Part(t, s, i)) /\ (t[s + 1] = "0" => i = s + 1)
        /\ fraction # << >> => fraction[1] = "." /\ AllDigits(Tail(fraction))
        /\ exponent # << >> =>
             /\ exponent[1] = "e"
             /\ \E k \in {1, 2} \cap (1..Len(exponent)) : Part(exponent, 1, k) \in {<< >>, << "+" >>, << "-" >>}
                                /\ AllDigits(Part(exponent, k, Len(exponent)))

(* What one character of a string may look like, and the string a body of  *)
(* such characters spells.                                                 *)
Denotes(u) ==
  {c \in ToSet(u) : u = << c >> /\ c \notin Controls \cup {"q", "bs"}}
    \cup {c \in {"q", "bs"} : u = << "bs", c >>}
    \cup {c \in {"nl"} : u = << "bs", "n" >>}
    \cup {CodeOf[c] : c \in {d \in DOMAIN CodeOf : u = << "bs", "u", d >>}}
    \cup {c \in {"astral"} : u = << "bs", "u", High, "bs", "u", Low >>}
RECURSIVE Spelled(_)
Spelled(body) ==
  IF body = << >> THEN {<< >>}
  ELSE UNION {{<< c >> \o rest : c \in Denotes(Part(body, 0, k)), rest \in Spelled(Part(body, k, Len(body)))} :
                k \in {n \in {1, 2, 3, 6} \cap (1..Len(body)) : Denotes(Part(body, 0, n)) # {}}}
Enclosed(t, left, right) == Len(t) > 1 /\ t[1] = left /\ t[Len(t)] = right
Strings(t) == IF Enclosed(t, "q", "q") THEN Spelled(Part(t, 1, Len(t) - 1)) ELSE {}

Scalars(t) == {Atom("string", s) : s \in Strings(t)}
                \cup {v \in {NumberOf(t)} : IsNumeral(t)}
                \cup {v \in {Atom("word", t)} : t \in {<< w >> : w \in Words}}

(* A list and an object are cut at some of their commas; every piece must  *)
(* be a text of its own.                                                   *)
Trim(t) ==
  LET inked == {i \in DOMAIN t : t[i] \notin Blanks}
  IN  IF inked = {} THEN << >> ELSE SubSeq(t, Min(inked), Max(inked))
Places(S, t) == {i \in DOMAIN t : t[i] \in S}
Cut(t, C) ==
  LET at == << 0 >> \o SetToSortSeq(C, <) \o << Len(t) + 1 >>
  IN  [i \in 1..Cardinality(C) + 1 |-> Part(t, at[i], at[i + 1] - 1)]
Inside(t) == Trim(Part(t, 1, Len(t) - 1))

(* A reading is a value and how deep the text nests.                       *)
Reading(v, n) == [value |-> v, deep |-> n]
Deepest(readings) == Max({0} \cup {readings[i].deep : i \in DOMAIN readings})

RECURSIVE Readings(_)
Members(piece) ==
  UNION {{<< k, r >> : k \in Strings(Trim(Part(piece, 0, c - 1))), r \in Readings(Part(piece, c, Len(piece)))} :
           c \in Places({":"}, piece)}
(* Of two values for one key the last counts.                              *)
ObjectOf(members) ==
  Object([k \in {members[i][1] : i \in DOMAIN members} |->
            members[Max({i \in DOMAIN members : members[i][1] = k})][2].value])
Readings(padded) ==
  LET t == Trim(padded)
      pieces == {Cut(Inside(t), C) : C \in SUBSET Places({","}, Inside(t))}
      all(Of(_)) == {[i \in DOMAIN p |-> CHOOSE r \in Of(p[i]) : TRUE] :
                       p \in {q \in pieces : \A i \in DOMAIN q : Of(q[i]) # {}}}
  IN  {Reading(v, 0) : v \in Scalars(t)}
        \cup CASE Enclosed(t, "[", "]") ->
                    IF Inside(t) = << >> THEN {Reading(List(<< >>), 1)}
                    ELSE {Reading(List([i \in DOMAIN p |-> p[i].value]), 1 + Deepest(p)) : p \in all(Readings)}
               [] Enclosed(t, "{", "}") ->
                    IF Inside(t) = << >> THEN {Reading(Object(<< >>), 1)}
                    ELSE {Reading(ObjectOf(p), 1 + Deepest([i \in DOMAIN p |-> p[i][2]])) : p \in all(Members)}
               [] OTHER -> {}

(* -------------------------------------------------- values and depths -- *)
Parts(v) == ToSet(v.items) \cup {v.entries[k] : k \in DOMAIN v.entries}
RECURSIVE Nested(_)
Nested(v) == IF v.kind \notin {"list", "dict"} THEN 0 ELSE 1 + Max({0} \cup {Nested(w) : w \in Parts(v)})
RECURSIVE Representable(_)
Representable(v) ==
  /\ v.kind \notin {"function", "inf"} /\ ~v.odd
  /\ \A w \in Parts(v) : Representable(w)
=============================================================================
