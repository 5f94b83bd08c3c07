------------------------------- MODULE MCLexer -------------------------------
(* Lexer on short texts with one keyword, if. *)
EXTENDS Lexer

If == <<"i", "f">>
MCAlphabet == {"i", "f", "1", " ", "\n", "#", "&", "*", "@", "("}
MCKeywords == {If}
MCPunctuation == {If, <<"(">>}

=============================================================================
