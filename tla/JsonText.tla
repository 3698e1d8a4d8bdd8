------------------------------ MODULE JsonText ------------------------------
(* json.encode, json.decode and json.encode_indent of                      *)
(* src/starlark/eval/json_module.py.  The decoder is a recursive descent   *)
(* over the text; here its calls are a stack of the lists and objects that *)
(* are open, and one action reads a scalar, a key or a punctuation mark.   *)
(* The encoders are functions from values to texts.                        *)
EXTENDS JsonGrammar

CONSTANTS Texts,        \* texts a program passes to json.decode
          Encoded,      \* values it passes to json.encode, to decode the result
          Indented,     \* values it passes to json.encode_indent, likewise
          JsonDepth     \* MAX_DEPTH

VARIABLES text,     \* source
          pos,      \* pos, counted from 1
          want,     \* what the decoder reads next: "value", "key", "more" or "over"
          open,     \* the calls of _array and _object, innermost last; depth is their number
          last,     \* what _value returned last
          outcome,  \* what decode returned
          given     \* the value the text was made from, if any
jsonVars == << text, pos, want, open, last, outcome, given >>

(* ------------------------------------------------------------ encoder -- *)
Refuse    == << "refused" >>
Order     == << "nl", "us", "sp", "q", "bs", "n", "u", "x", "astral" >>
Precedes(s, t) ==        \* lexicographic, characters by their code points
  LET code(c) == SelectInSeq(Order, LAMBDA d : d = c)
      differ  == {i \in DOMAIN s \cap DOMAIN t : s[i] # t[i]}
  IN  IF differ = {} THEN Len(s) < Len(t) ELSE code(s[Min(differ)]) < code(t[Min(differ)])
SortedKeys(v) == SetToSortSeq(DOMAIN v.entries, Precedes)

EscapedRaw(c) == IF c \in {"q", "bs"} THEN << "bs", c >> ELSE << c >>   (* mutant: controls written raw *)
Escaped(c) ==
  CASE c \in {"q", "bs"} -> << "bs", c >>
    [] c = "nl"          -> << "bs", "n" >>
    [] c = "us"          -> << "bs", "u", "001f" >>
    [] OTHER             -> << c >>
EncodeString(s) == << "q" >> \o FlattenSeq([i \in DOMAIN s |-> Escaped(s[i])]) \o << "q" >>
Separated(parts, mark) ==
  FlattenSeq([i \in DOMAIN parts |-> IF i = 1 THEN parts[i] ELSE mark \o parts[i]])

RECURSIVE EncodeValue(_, _)
EncodeValue(v, depth) ==
  LET keys == SortedKeys(v)
  IN  IF depth > JsonDepth \/ v.odd THEN Refuse
      ELSE CASE v.kind \in {"word", "int", "float"} -> v.text
             [] v.kind = "string" -> EncodeString(v.text)
             [] v.kind = "list"   ->
                  << "[" >> \o Separated([i \in DOMAIN v.items |-> EncodeValue(v.items[i], depth + 1)], << "," >>)
                    \o << "]" >>
             [] v.kind = "dict"   ->
                  << "{" >> \o Separated([i \in DOMAIN keys |-> EncodeString(keys[i]) \o << ":" >>
                                            \o EncodeValue(v.entries[keys[i]], depth + 1)], << "," >>)
                    \o << "}" >>
             [] OTHER -> Refuse

(* A new line and its padding are one blank.                               *)
RECURSIVE IndentValue(_)
IndentValue(v) ==
  LET keys == SortedKeys(v)
      lines(left, parts, right) ==
        IF parts = << >> THEN << left, right >>
        ELSE << left, "nl" >> \o Separated(parts, << ",", "nl" >>) \o << "nl", right >>
  IN  CASE v.kind = "list" -> lines("[", [i \in DOMAIN v.items |-> IndentValue(v.items[i])], "]")
        [] v.kind = "dict" -> lines("{", [i \in DOMAIN keys |-> EncodeString(keys[i]) \o << ":", "sp" >>
                                            \o IndentValue(v.entries[keys[i]])], "}")
        [] OTHER           -> EncodeValue(v, 0)

(* ------------------------------------------------ characters, scalars -- *)
CharAt(p) == IF p \in DOMAIN text THEN text[p] ELSE "end"
Past(p, S) == Min({i \in p..Len(text) + 1 : CharAt(i) \notin S})
Skip(p)    == Past(p, Blanks)                        \* _skip_ws

Read(p, v) == [ok |-> TRUE, next |-> p, value |-> v]
Wrong      == [ok |-> FALSE, next |-> 0, value |-> << >>]

ReadNumber(p) ==
  LET whole    == IF CharAt(p) = "-" THEN p + 1 ELSE p
      point    == IF CharAt(whole) = "0" THEN whole + 1 ELSE Past(whole, Digits)
      scale    == IF CharAt(point) = "." THEN Past(point + 1, Digits) ELSE point
      exponent == IF CharAt(scale + 1) \in {"+", "-"} THEN scale + 2 ELSE scale + 1
      end      == IF CharAt(scale) = "e" THEN Past(exponent, Digits) ELSE scale
  IN  IF \/ CharAt(whole) \notin Digits
         \/ CharAt(whole) = "0" /\ CharAt(point) \in Digits
         \/ CharAt(point) = "." /\ CharAt(point + 1) \notin Digits
         \/ CharAt(scale) = "e" /\ CharAt(exponent) \notin Digits
      THEN Wrong
      ELSE Read(end, NumberOf(SubSeq(text, p, end - 1)))

(* int(_, 16) takes more than four digits for a number: a sign, blanks, an *)
(* underscore.  "+078" stands for those.                                   *)
ReadCode == CodeOf @@ ("+078" :> "x")
UnicodeEscape(p) ==
  CASE CharAt(p) \in DOMAIN ReadCode -> Read(p + 1, << ReadCode[CharAt(p)] >>)
    [] CharAt(p) = High /\ CharAt(p + 1) = "bs" /\ CharAt(p + 2) = "u" /\ CharAt(p + 3) = Low ->
         Read(p + 4, << "astral" >>)
    [] OTHER -> Wrong
Escape(p) ==
  CASE CharAt(p) \in {"q", "bs"} -> Read(p + 1, << CharAt(p) >>)
    [] CharAt(p) = "n"           -> Read(p + 1, << "nl" >>)
    [] CharAt(p) = "u"           -> UnicodeEscape(p + 1)
    [] OTHER                     -> Wrong

RECURSIVE ReadString(_, _)
ReadString(p, read) ==
  CASE CharAt(p) = "q"                   -> Read(p + 1, read)
    [] CharAt(p) = "bs"                  -> IF Escape(p + 1).ok
                                            THEN ReadString(Escape(p + 1).next, read \o Escape(p + 1).value)
                                            ELSE Wrong
    [] CharAt(p) \in Controls \cup {"end"} -> Wrong
    [] OTHER                             -> ReadString(p + 1, Append(read, CharAt(p)))

(* ------------------------------------------------------------ decoder -- *)
Unread == Atom("nothing", << >>)
Error   == Atom("error", << >>)

Reject ==
  want' = "over" /\ outcome' = Error /\ UNCHANGED << text, pos, open, last, given >>
Return(v, p) ==
  want' = "more" /\ last' = v /\ pos' = p /\ UNCHANGED << text, outcome, given >>

ClosingOf(c) == IF c = "[" THEN "]" ELSE "}"
First(c)     == IF c = "[" THEN "value" ELSE "key"
Made(f)      == IF f.left = "[" THEN List(f.items) ELSE Object(f.entries)
Extended(f, v) == IF f.left = "[" THEN [f EXCEPT !.items = Append(@, v)]
                ELSE [f EXCEPT !.entries = (f.key :> v) @@ @]

Scalar ==
  /\ want = "value" /\ CharAt(Skip(pos)) \notin {"[", "{"}
  /\ LET p == Skip(pos)
         c == CharAt(p)
         s == ReadString(p + 1, << >>)
         r == CASE c = "q"                     -> IF s.ok THEN Read(s.next, Atom("string", s.value)) ELSE Wrong
                [] c \in Words                 -> Read(p + 1, Atom("word", << c >>))
                [] c \in Digits \cup {"-"}     -> ReadNumber(p)
                [] OTHER                       -> Wrong
     IN  IF r.ok THEN Return(r.value, r.next) /\ UNCHANGED open ELSE Reject

OpenContainer ==
  /\ want = "value" /\ CharAt(Skip(pos)) \in {"[", "{"}
  /\ LET c == CharAt(Skip(pos))
         p == Skip(Skip(pos) + 1)
         f == [left |-> c, items |-> << >>, entries |-> << >>, key |-> << >>]
     IN  IF Len(open) >= JsonDepth THEN Reject
         ELSE IF CharAt(p) = ClosingOf(c) THEN Return(Made(f), p + 1) /\ UNCHANGED open
         ELSE /\ open' = Append(open, f) /\ want' = First(c) /\ pos' = p
              /\ UNCHANGED << text, last, outcome, given >>

Key ==
  /\ want = "key"
  /\ LET p     == Skip(pos)
         s     == ReadString(p + 1, << >>)
         colon == Skip(s.next)
     IN  IF CharAt(p) = "q" /\ s.ok /\ CharAt(colon) = ":"
         THEN /\ open' = [open EXCEPT ![Len(open)].key = s.value]
              /\ want' = "value" /\ pos' = colon + 1
              /\ UNCHANGED << text, last, outcome, given >>
         ELSE Reject

MoreTrailing ==          (* mutant: a comma may come before the bracket that closes *)
  /\ want = "more" /\ open # << >>
  /\ LET p == Skip(pos)
         f == Extended(Last(open), last)
         n == Skip(p + 1)
     IN  CASE CharAt(p) = "," /\ CharAt(n) # "]" ->
                /\ open' = Append(Front(open), f) /\ want' = First(f.left) /\ pos' = p + 1
                /\ UNCHANGED << text, last, outcome, given >>
           [] CharAt(p) = ClosingOf(f.left) -> Return(Made(f), p + 1) /\ open' = Front(open)
           [] CharAt(p) = "," /\ CharAt(n) = "]" -> Return(Made(f), n + 1) /\ open' = Front(open)
           [] OTHER -> Reject
More ==
  /\ want = "more" /\ open # << >>
  /\ LET p == Skip(pos)
         f == Extended(Last(open), last)
     IN  CASE CharAt(p) = "," ->
                /\ open' = Append(Front(open), f) /\ want' = First(f.left) /\ pos' = p + 1
                /\ UNCHANGED << text, last, outcome, given >>
           [] CharAt(p) = ClosingOf(f.left) -> Return(Made(f), p + 1) /\ open' = Front(open)
           [] OTHER -> Reject

EndOfInput ==
  /\ want = "more" /\ open = << >>
  /\ IF CharAt(Skip(pos)) = "end"
     THEN want' = "over" /\ outcome' = last /\ UNCHANGED << text, pos, open, last, given >>
     ELSE Reject

JsonInit ==
  /\ pos = 1 /\ want = "value" /\ open = << >> /\ last = Unread /\ outcome = Unread
  /\ \/ text \in Texts /\ given = {}
     \/ \E v \in Encoded : given = {v} /\ text = EncodeValue(v, 0)
     \/ \E v \in Indented : given = {v} /\ text = IndentValue(v)
JsonNext == Scalar \/ OpenContainer \/ Key \/ More \/ EndOfInput
JsonSpec == JsonInit /\ [][JsonNext]_jsonVars

(* --------------------------------------------------------- properties -- *)
(* json.decode returns the one value a text denotes, duplicate keys, every *)
(* escape and every way to write a number included, and refuses each text  *)
(* that denotes none or nests deeper than MAX_DEPTH, wherever the mistake  *)
(* is ("strict JSON", json_module.py).  Excepted are texts with a \u escape *)
(* whose four characters are a number to Python and no four digits: they   *)
(* are not refused.                                                        *)
DecodesTexts ==
  want = "over" /\ given = {} /\ ~Occurs({"+078"}, text) =>
    {outcome} = LET read == {r \in Readings(text) : r.deep <= JsonDepth}
                IN  IF read = {} THEN {Error} ELSE {r.value : r \in read}

(* What json.encode or json.encode_indent writes reads back as the value   *)
(* it was made from: nothing is lost on the way, and a value no text       *)
(* stands for, or none within the depth, never gets through.               *)
RoundTrip ==
  want = "over" =>
    \A v \in given : outcome = IF Representable(v) /\ Nested(v) <= JsonDepth THEN v ELSE Error
=============================================================================
