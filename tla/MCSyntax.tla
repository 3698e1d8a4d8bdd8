------------------------------ MODULE MCSyntax ------------------------------
(* Sources: programs that between them use every production, every way to  *)
(* spoil one of them in one place, and every small stack of indented lines.*)
EXTENDS Syntax

Block(head, line) == head \o <<":", "nl", "sp">> \o line \o <<"nl">>

Programs == {
  <<"x", "=", "-", "x", "+", "x", "*", "x", "nl">>,
  <<"x", "sp", "or", "sp", "not", "sp", "x", "<", "x", "&", "x">>,
  <<"x", "sp", "not", "sp", "in", "sp", "x", ">", ">", "x">>,
  <<"x", "sp", "if", "sp", "x", "sp", "else", "sp", "x", "nl">>,
  <<"x", "(", "x", ",", "x", "=", "x", ",", "*", "x", ",", ")", ".", "x">>,
  <<"x", "[", "x", ",", "x", "]", "[", ":", "x", ":", "]", "[", ":", ":", "x", "]">>,
  <<"(", ")", ",", "(", "x", ")", ",", "(", "x", ",", ")">>,
  <<"[", "]", ",", "[", "x", ",", "x", ",", "]">>,
  <<"[", "x", "sp", "for", "sp", "x", ",", "x", "sp", "in", "sp", "x", "sp", "if", "sp", "x", "]">>,
  <<"{", "}", ",", "{", "1", ":", "x", ",", "nl", "x", ":", "x", "}">>,
  <<"{", "x", ":", "x", "sp", "for", "sp", "x", "sp", "in", "sp", "x", "}">>,
  <<"lambda", "sp", "x", ",", "x", "=", "1", ",", "*", "*", "x", ":", "x">>,
  <<"load", "(", "q", "x", "q", ",", "q", "q", ",", "x", "=", "q", "q", ")", "nl">>,
  <<"pass", ";", "return", "sp", "x", ",", "x", ";", "nl", "x", "+", "=", "x">>,
  <<"return", "nl", "#", "x", "nl", "r", "q", "bs", "q", "q">>,
  <<"q", "q", "q", "nl", "q", "q", "q", "+", "1", ".", "7", "nl">>,
  Block(<<"if", "sp", "x">>, <<"x">>) \o Block(<<"elif", "sp", "x">>, <<"x">>)
     \o Block(<<"else">>, <<"x">>),
  Block(<<"for", "sp", "x", ",", "x", "sp", "in", "sp", "x">>, <<"pass">>) \o <<"x">>,
  Block(<<"def", "sp", "x", "(", "x", ",", "*", ",", "x", "=", "x", ")">>,
        <<"return">>),
  <<"def", "sp", "x", "(", "*", "x", ",", ")", ":", "return", "nl">>
}

Delete(s, i) == SubSeq(s, 1, i - 1) \o SubSeq(s, i + 1, Len(s))
Spoilers == {"(", "]", ",", "nl", "q", "bs"}
Spoiled(s) ==
  {Delete(s, i) : i \in DOMAIN s} \cup {SubSeq(s, 1, i) : i \in DOMAIN s}
  \cup {[s EXCEPT ![i] = c] : i \in DOMAIN s, c \in Spoilers}

Lines(contents) ==
  {m \o c \o <<"nl">> : m \in {<<>>, <<"sp">>, <<"sp", "sp">>}, c \in contents}
Headers == Lines({<<"if", "sp", "x", ":">>})
Plains == Lines({<<"x">>})
Bodies == Headers \cup Plains
Others == Lines({<<>>, <<"#">>, <<"(">>, <<"x", ")">>, <<"x", "bs">>, <<"q">>, <<"tab">>,
                 <<"cr">>})
Stacks ==
  {a \o b \o c : a \in Headers, b \in Bodies \cup Others, c \in Bodies}
  \cup {a \o b \o c \o d : a \in Headers, b \in Headers, c \in Headers, d \in Plains}

UpTo(n, chars) == UNION {[1 .. k -> chars] : k \in 0 .. n}
Strings == {p \o s : p \in {<<"q">>, <<"r", "q">>}, s \in UpTo(4, {"q", "bs", "nl", "x"})}
Escaped == {<<"q", "bs">> \o s \o <<"q">> : s \in UpTo(4, {"x", "7", "e"})
              \cup {<<"?">>, <<"cr", "nl">>, <<"cr">>, <<"r">>}}
Numbers == {<<d>> \o s : d \in {"0", "7", "."}, s \in UpTo(3, {"0", "7", "x", "e", "."})}
Signed == {<<"x">> \o s \o <<"x">> : s \in UpTo(3, {"<", "=", "*", "/", "!"})}

Oddities == {
  <<"while", "sp", "x", ":", "nl", "sp", "x">>, <<"x", "+", "while">>,
  <<"(", "(", "(", "(", "x", ")", ")", ")", ")">>,
  <<"x", "bs", "nl", "sp", "bs", "cr", "nl", "+", "bs", "cr", "x", "?">>,
  <<"x", "bs", "cr", "nl", "+", "x", "nl", "bs", "cr", "nl", "sp", "nl", "x">>,
  <<"x", "#", "x", "nl", "#", "x", "cr", "nl", "sp", "cr">>,
  <<"lambda", "1", ":", "x">>, <<"x", "if", "x", "else", "lambda", ":", "x">> }

MCSources == Programs \cup UNION {Spoiled(s) : s \in Programs} \cup Stacks
               \cup Strings \cup Escaped \cup Numbers \cup Signed \cup Oddities
MCModes == {"auto", "expression", "file"}

(* "auto" parses a source both ways.                                       *)
MCInit == Init /\ (wanted = "auto" \/ source \in Programs)
MCSpec == MCInit /\ [][Step]_vars /\ WF_vars(Step)
=============================================================================
