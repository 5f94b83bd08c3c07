------------------------------- MODULE Grammar -------------------------------
(***************************************************************************)
(* The language as a grammar: every way to read a text, without the        *)
(* choices a parser makes.  Each operator gives the positions at which a   *)
(* phrase that begins at i may end; s is a sequence of the pieces of       *)
(* Statements that ends with "end".                                        *)
(***************************************************************************)
EXTENDS Naturals, Sequences

RECURSIVE Phrase(_, _), Tails(_, _), Arguments(_, _), Statement(_, _), Parts(_, _), Globals(_, _)

If(test, set) == IF test THEN set ELSE {}
After(ends, s, piece) == {j + 1 : j \in {k \in ends : s[k] = piece}}

Operators == {"prefix", "infix", "postfix"}

(* Operand { infix Operand }, an operand with operators before it and calls, *)
(* subscripts and postfix operators behind it.                               *)
Phrase(s, i) ==
    CASE s[i] \in Operators -> Phrase(s, i + 1)
      [] s[i] = "name" -> Tails(s, i + 1)
      [] s[i] = "(" -> UNION {Tails(s, j) : j \in After(Phrase(s, i + 1), s, ")")}
      [] OTHER -> {}

Arguments(s, i) ==
    LET ends == Phrase(s, i) IN
    After(ends, s, ")") \cup UNION {Arguments(s, j) : j \in After(ends, s, ",")}

Tails(s, i) ==
    {i} \cup
    CASE s[i] = "infix" -> Phrase(s, i + 1)
      [] s[i] = "postfix" -> Tails(s, i + 1)
      [] s[i] = "(" -> UNION {Tails(s, j) : j \in Arguments(s, i + 1) \cup If(s[i + 1] = ")", {i + 2})}
      [] s[i] = "[" -> UNION {Tails(s, j) : j \in After(Phrase(s, i + 1), s, "]")}
      [] OTHER -> {}

Simple(s, i) == After(Phrase(s, i), s, ";")

Body(s, i) == IF s[i] = ";" THEN {i + 1} ELSE Statement(s, i)

Parts(s, i) == If(s[i] = "}", {i + 1}) \cup UNION {Parts(s, j) : j \in Statement(s, i)}

Statement(s, i) ==
    LET ends == Phrase(s, i + 1)
        bodies == UNION {Body(s, j) : j \in ends}
    IN
    CASE s[i] = "{" -> Parts(s, i + 1)
      [] s[i] = "while" -> bodies
      [] s[i] = "if" -> bodies \cup UNION {Body(s, j) : j \in After(bodies, s, "else")}
      [] s[i] = "return" -> ends \cup After(ends, s, ";")
      [] OTHER -> Simple(s, i)

RECURSIVE Names(_, _)
Names(s, i) ==
    If(s[i] = "name", If(s[i + 1] = ")", {i + 2}) \cup If(s[i + 1] = ",", Names(s, i + 2)))

FunctionOrDeclaration(s, i) ==
    LET named == s[i + 1] = "name" /\ s[i + 2] = "("
        signed == If(named, Names(s, i + 3) \cup If(s[i + 3] = ")", {i + 4}))
    IN After(signed, s, ";") \cup UNION {Parts(s, j + 1) : j \in {k \in signed : s[k] = "{"}}

Globals(s, i) ==
    {i} \cup UNION {Globals(s, j) : j \in
        IF s[i] \in {"fn", "cfn"} THEN FunctionOrDeclaration(s, i) ELSE Simple(s, i)}

IsStatement(s) == Len(s) \in Statement(s, 1)
IsText(s) == Len(s) \in Globals(s, 1)

=============================================================================
