-------------------------------- MODULE Syntax --------------------------------
(* What compile promises, with the grammar of docs/spec.md as reference.   *)
EXTENDS Parser

(* The text the parser was given, when it has read all of it.              *)
Text ==
  LET n == CHOOSE i \in DOMAIN out :
             out[i].kind = "EOF" /\ \A j \in 1 .. i - 1 : out[j].kind # "EOF"
  IN [i \in 1 .. n |-> out[i].kind]
Complete == \E i \in DOMAIN out : out[i].kind = "EOF"
G == INSTANCE Grammar

(* compile accepts exactly the sources the grammar has, and in mode "auto" *)
(* takes a source for a file only when it is no expression; the recovery   *)
(* of the parser neither hides an error nor finds one in a sound source.   *)
VerdictIsRight ==
  Over /\ ~ Reported("deep") =>
    /\ (result = "syntax") <=> (errors # <<>>)
    /\ result = "expression" => G!IsExpression(Text)
    /\ result = "file" => G!IsFile(Text) /\ (wanted = "auto" => ~ G!IsExpression(Text))
    /\ result = "syntax" /\ Complete /\ NoLexError =>
         /\ attempt = "file" => ~ G!IsFile(Text)
         /\ wanted # "file" => ~ G!IsExpression(Text)
=============================================================================
