----------------------------- MODULE MCStatements -----------------------------
(* Statements on the pieces of its configuration, compared with Grammar. *)
EXTENDS Statements

G == INSTANCE Grammar

(* What globals are made of, and what the statements of a body are.        *)
MCPieces == [
    globals |-> {"name", "infix", "(", ")", ",", "{", "}", ";", "return", "fn", "cfn", "fn~", "return~"},
    statement |-> {"name", "infix", "(", ")", "{", "}", ";", "if", "else", "while", "if~", "else~"}]

WholeWords == \A p \in DOMAIN input : input[p] \notin Glued

(* Texts that begin with what the parser had read when it gave up. *)
Endings == {<< >>, <<";">>, <<"}">>, <<"name", ";">>, <<")", ";">>, <<";", "}">>, <<"}", "}">>}

Continued == IF tok = "end" THEN {input} ELSE {input \o s \o <<"end">> : s \in Endings}

(***************************************************************************)
(* Without words that begin with a keyword, the parser reads the grammar:  *)
(* what it accepts is a text, of a statement the longest one, and what it  *)
(* turns down is not the beginning of any text.                            *)
(***************************************************************************)
ReadsGrammar ==
    WholeWords =>
        /\ at = "done" /\ InGlobals => G!IsText(input)
        /\ at = "done" /\ ~InGlobals =>
              LET ends == G!Statement(input \o <<"end", "end">>, 1) IN
              Here \in ends /\ \A j \in ends : j <= Here
        /\ at = "error" => \A s \in Continued : IF InGlobals THEN ~G!IsText(s) ELSE ~G!IsStatement(s)

=============================================================================
