----------------------------- MODULE Expressions -----------------------------
(***************************************************************************)
(* What parse_expression promises its callers (parser.hpp): which tokens   *)
(* it takes and where it stops, whatever the binding powers.  They shape   *)
(* the tree; how far the expression goes depends on the brackets only.     *)
(* Pratt implements this specification, and Statements is built on it.     *)
(*                                                                         *)
(* A token is here one of the classes                                      *)
(*   "atom"     a name or a number                                         *)
(*   "prefix"   ! and @type: begins an operand, continues none             *)
(*   "infix"    any other operator; where an operand begins, any operator  *)
(*              is taken for a prefix one                                  *)
(*   "postfix"  ++ and --                                                  *)
(* a bracket, "," or "end", whatever begins no operand and continues none. *)
(***************************************************************************)
EXTENDS Naturals, Sequences, SequencesExt

CONSTANTS Tokens, MaxTokens, Class(_)

VARIABLES
    input,          \* the tokens read; the last one is the lookahead
    open,           \* the brackets that are open: "(", "[" or "call"
    at              \* "operand", "args" after the ( of a call, "loop", ...

tok == input[Len(input)]

InExpression == at \in {"operand", "args", "loop"}

Operand(c) == c \in {"atom", "prefix", "infix", "postfix", "("}

(* What may end the innermost bracket, or an argument. *)
Closes(c) ==
    /\ open # << >>
    /\ CASE Last(open) = "(" -> c = ")"
         [] Last(open) = "[" -> c = "]"
         [] Last(open) = "call" -> c \in {")", ","}

Continues(c) == c \in {"infix", "postfix", "(", "["}

Takes(c) ==
    CASE at = "operand" -> Operand(c)
      [] at = "args" -> Operand(c) \/ c = ")"
      [] at = "loop" -> Continues(c) \/ Closes(c)
      [] OTHER -> FALSE

(* The token, of class c, is taken into the expression. *)
Read(c) ==
    /\ Takes(c)
    /\ at' = CASE c = "(" -> IF at = "loop" THEN "args" ELSE "operand"
               [] c \in {"atom", ")", "]"} -> "loop"
               [] c = "postfix" -> IF at = "loop" THEN "loop" ELSE "operand"
               [] OTHER -> "operand"
    /\ open' = CASE c = "(" -> Append(open, IF at = "loop" THEN "call" ELSE "(")
                 [] c = "[" -> Append(open, "[")
                 [] c \in {")", "]"} -> Front(open)
                 [] OTHER -> open

Ends(c) == at = "loop" /\ open = << >> /\ ~Takes(c)

Fails(c) == InExpression /\ ~Takes(c) /\ ~Ends(c)

-----------------------------------------------------------------------------
Init ==
    /\ input \in {<<t>> : t \in Tokens \cup {"end"}}
    /\ open = << >>
    /\ at = "operand"

Step ==
    /\ Read(Class(tok))
    /\ \E t \in IF Len(input) < MaxTokens THEN Tokens \cup {"end"} ELSE {"end"} :
            input' = Append(input, t)

Accept == Ends(Class(tok)) /\ at' = "done" /\ UNCHANGED <<input, open>>

Reject == Fails(Class(tok)) /\ at' = "error" /\ UNCHANGED <<input, open>>

Next == Step \/ Accept \/ Reject

Spec == Init /\ [][Next]_<<input, open, at>>

=============================================================================
