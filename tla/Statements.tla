----------------------------- MODULE Statements -----------------------------
(***************************************************************************)
(* parse_global, parse_func_args, parse_statement, parse_block and         *)
(* parse_proper_block (parser.hpp), with the loop over globals that        *)
(* compile_source and ast_printer run.  An expression is what Expressions  *)
(* says parse_expression takes.                                            *)
(*                                                                         *)
(* Keywords are looked for with try_consume, which compares a prefix: the  *)
(* word iffy begins with the keyword if.  A word that begins with a        *)
(* keyword is given here in two pieces, "if~" for the keyword and another  *)
(* piece for the rest.  A position is the index of a piece.                *)
(***************************************************************************)
EXTENDS Naturals, Sequences, SequencesExt

CONSTANTS
    Pieces,         \* the kinds of piece an input of each of the Entries is made of
    MaxPieces       \* bound: pieces of an input

Leads == {"if", "else", "while", "return", "fn", "cfn"}
Keyword == [p \in {"if~", "else~", "while~", "return~", "fn~", "cfn~"} |->
    CASE p = "if~" -> "if" [] p = "else~" -> "else" [] p = "while~" -> "while"
      [] p = "return~" -> "return" [] p = "fn~" -> "fn" [] p = "cfn~" -> "cfn"]
Glued == DOMAIN Keyword

OtherPieces == {"name", "prefix", "infix", "postfix", "(", ")", "[", "]", ",", "{", "}", ";"}

(* The parsers that are called from outside. *)
Entries == {"globals", "statement"}

ASSUME StatementsAssumption ==
    /\ Pieces \in [Entries -> SUBSET (Leads \cup Glued \cup OtherPieces)]
    /\ \A e \in Entries : Glued \cap Pieces[e] # {} => "name" \in Pieces[e]
    /\ MaxPieces \in Nat

VARIABLES
    input,          \* the pieces read; the last one is the lookahead
    nodes,          \* the nodes made, in order; a node returned is the last one
    frames,         \* the statements and blocks that are open, innermost last
    open,           \* the brackets of the expression that is read
    at              \* what is read next

vars == <<input, nodes, frames, open, at>>

-----------------------------------------------------------------------------
(* first and last are the text of a node; first is 0 when nothing set it.  *)
Kinds == {"Exp", "Basic", "Return", "While", "If", "Block", "FuncDec", "Function"}
Node == [kind : Kinds, first : Nat, last : Nat, kids : Seq(Nat)]

(* "Single" is a block made of one statement without braces; "Globals" the *)
(* loop that calls parse_global, until the text is empty.                   *)
Frame == [kind : {"Globals", "Function", "Basic", "Return", "While", "If", "Block", "Single"},
          start : Nat, kids : Seq(Nat)]

SignatureTrailing == {                      \* mutant of Signature: f(a,) is one
    <<"fname", "name", "args(">>, <<"args(", "(", "arg)">>, <<"arg)", ")", "body">>,
    <<"arg)", "name", "arg,">>, <<"arg,", ",", "arg">>, <<"arg", "name", "arg,">>,
    <<"arg,", ")", "body">>, <<"arg", ")", "body">>}

(* The states of a signature, and the token that leads from one to the next. *)
Signature == {
    <<"fname", "name", "args(">>, <<"args(", "(", "arg)">>, <<"arg)", ")", "body">>,
    <<"arg)", "name", "arg,">>, <<"arg,", ",", "arg">>, <<"arg", "name", "arg,">>,
    <<"arg,", ")", "body">>}
InSignature == {s[1] : s \in Signature}

InGlobals == frames # << >> /\ frames[1].kind = "Globals"
Alphabet == Pieces[IF InGlobals THEN "globals" ELSE "statement"]

TypeOK ==
    /\ input \in Seq(Alphabet \cup {"end"}) /\ Len(input) \in 1 .. MaxPieces + 2
    /\ nodes \in Seq(Node)
    /\ frames \in Seq(Frame)
    /\ open \in Seq({"(", "[", "call"}) /\ (at \in InSignature => open = << >>)
    /\ at \in InSignature \cup {"globals", "body", "part", "statement", "block",
                "operand", "args", "loop", "else", "return", "done", "error"}
    /\ at = "globals" => Len(frames) = 1
    /\ at = "done" => Len(frames) <= 1
    /\ at \in {"operand", "args", "loop"} =>
            frames # << >> /\ Last(frames).kind \in {"Basic", "Return", "While", "If"}

(* A word begun by a glued keyword has another piece, the last of it. *)
NextPiece(before) == IF before < MaxPieces THEN Alphabet \cup {"end"} ELSE {"end"}
Rest == Alphabet \cap (Leads \cup {"name"})

Following(piece, before) ==
    IF piece \in Glued THEN {<<r>> : r \in Rest} ELSE {<<t>> : t \in NextPiece(before)}

Init ==
    /\ at \in Entries
    /\ frames = IF at = "globals" THEN <<[kind |-> "Globals", start |-> 1, kids |-> << >>]>> ELSE << >>
    /\ input \in {<<t>> : t \in NextPiece(0)}
    /\ nodes = << >> /\ open = << >>

tok == input[Len(input)]
Here == Len(input)
Top == Last(frames)

Consume == \E next \in Following(tok, Here) : input' = input \o next

ConsumePiece == (tok = "name" \/ tok \in Glued) /\ Consume     \* mutant of ConsumeName

(* try_name takes a whole word, unless the word is a keyword. *)
ConsumeName ==
    \/ tok = "name" /\ Consume
    \/ tok \in Glued /\ \E r \in Rest, t \in NextPiece(Here + 1) : input' = input \o <<r, t>>

(* try_consume takes the keyword and leaves the rest of its word. *)
Lead == IF tok \in Glued THEN Keyword[tok] ELSE tok

Class ==
    CASE tok \in Glued \cup {"name"} -> "atom"
      [] tok \in Leads \cup {"{", "}", ";"} -> "end"
      [] OTHER -> tok

Opened(kind) == [kind |-> kind, start |-> Here, kids |-> << >>]
Made(kind, first, last, kids) == [kind |-> kind, first |-> first, last |-> last, kids |-> kids]

E == INSTANCE Expressions WITH
    Tokens <- UNION {Pieces[e] : e \in Entries}, MaxTokens <- MaxPieces, Class <- LAMBDA t : t

Fail(where) == at \in where /\ at' = "error" /\ UNCHANGED <<input, nodes, frames, open>>

-----------------------------------------------------------------------------
(* Globals. *)

EndOfText ==
    /\ at = "globals" /\ tok = "end"
    /\ at' = "done"
    /\ UNCHANGED <<input, nodes, frames, open>>

BeginFunction ==
    /\ at = "globals" /\ Lead \in {"cfn", "fn"}
    /\ Consume
    /\ frames' = Append(frames, Opened("Function"))
    /\ at' = "fname"
    /\ UNCHANGED <<nodes, open>>

BeginGlobalBasic ==
    /\ at = "globals" /\ tok # "end" /\ Lead \notin {"cfn", "fn"}
    /\ frames' = Append(frames, Opened("Basic"))
    /\ at' = "operand"
    /\ UNCHANGED <<input, nodes, open>>

IsName == tok \in Glued \cup {"name"}
Reads == IF IsName THEN "name" ELSE tok

InFuncDec ==
    /\ \E s \in Signature : s[1] = at /\ s[2] = Reads /\ at' = s[3]
    /\ IF IsName THEN ConsumeName ELSE Consume
    /\ UNCHANGED <<nodes, frames, open>>

FinishFuncDec ==
    /\ at = "body" /\ tok = ";"
    /\ Consume
    /\ nodes' = Append(nodes, Made("FuncDec", Top.start, Here, << >>))
    /\ frames' = Front(frames)
    /\ at' = "return"
    /\ UNCHANGED open

FuncDecError ==
    /\ \A s \in Signature : ~(s[1] = at /\ s[2] = Reads)
    /\ at = "body" => tok \notin {";", "{"}
    /\ Fail(InSignature \cup {"body"})

-----------------------------------------------------------------------------
(* Statements and blocks. *)

StartsStatement == at = "statement" \/ (at = "part" /\ tok \notin {"}", "end"})

OpenBlock ==
    /\ StartsStatement \/ at \in {"block", "body"}
    /\ tok = "{"
    /\ Consume
    /\ frames' = Append(frames, Opened("Block"))
    /\ at' = "part"
    /\ UNCHANGED <<nodes, open>>

BeginKeywordLate ==                         \* mutant of BeginKeyword: late marker
    /\ StartsStatement /\ Lead \in {"while", "if", "return"}
    /\ Consume
    /\ frames' = Append(frames, [Opened(CASE Lead = "while" -> "While"
                                          [] Lead = "if" -> "If"
                                          [] Lead = "return" -> "Return") EXCEPT !.start = Here + 1])
    /\ at' = "operand"
    /\ UNCHANGED <<nodes, open>>

(* The keyword may be the beginning of a longer word. *)
BeginKeyword ==
    /\ StartsStatement /\ Lead \in {"while", "if", "return"}
    /\ Consume
    /\ frames' = Append(frames, Opened(CASE Lead = "while" -> "While"
                                         [] Lead = "if" -> "If"
                                         [] Lead = "return" -> "Return"))
    /\ at' = "operand"
    /\ UNCHANGED <<nodes, open>>

BeginBasic ==
    /\ StartsStatement /\ tok # "{" /\ Lead \notin {"while", "if", "return"}
    /\ frames' = Append(frames, Opened("Basic"))
    /\ at' = "operand"
    /\ UNCHANGED <<input, nodes, open>>

CloseBlock ==
    /\ at = "part" /\ tok = "}"
    /\ Consume
    /\ nodes' = Append(nodes, Made("Block", Top.start, Here, Top.kids))
    /\ frames' = Front(frames)
    /\ at' = "return"
    /\ UNCHANGED open

NoCloseBlock == tok = "end" /\ Fail({"part"})

(* parse_block: what an if, a while or an else governs. *)
EmptyBlock ==
    /\ at = "block" /\ tok = ";"
    /\ Consume
    /\ nodes' = Append(nodes, Made("Block", Here, Here, << >>))
    /\ at' = "return"
    /\ UNCHANGED <<frames, open>>

BeginSingle ==
    /\ at = "block" /\ tok \notin {";", "{"}
    /\ frames' = Append(frames, Opened("Single"))
    /\ at' = "statement"
    /\ UNCHANGED <<input, nodes, open>>

-----------------------------------------------------------------------------
(* Expressions, and what follows them. *)

InExpression ==
    /\ E!Read(Class)
    /\ IF IsName THEN ConsumeName ELSE Consume
    /\ UNCHANGED <<nodes, frames>>

(* mutant of ExpressionError: the loop over the parts of a block goes on *)
ExpressionErrorIgnored ==
    /\ E!Fails(Class)
    /\ frames' = Front(frames)
    /\ open' = << >>
    /\ at' = IF Len(frames) = 1 THEN "error" ELSE "part"
    /\ UNCHANGED <<input, nodes>>

ExpressionError == E!Fails(Class) /\ Fail({at})

(* The text of the expression that ends here, which the caller keeps. *)
Expression ==
    Made("Exp", IF Top.kind = "Basic" THEN Top.start ELSE Top.start + 1, Here - 1, << >>)

ConditionInParens ==                        \* mutant of Condition: ends with its )
    /\ E!Ends(Class) \/ (at = "loop" /\ open = << >> /\ input[Here - 1] = ")")
    /\ Top.kind \in {"While", "If"}
    /\ nodes' = Append(nodes, Expression)
    /\ frames' = Append(Front(frames), [Top EXCEPT !.kids = <<Len(nodes) + 1>>])
    /\ at' = "block"
    /\ UNCHANGED <<input, open>>

Condition ==
    /\ E!Ends(Class) /\ Top.kind \in {"While", "If"}
    /\ nodes' = Append(nodes, Expression)
    /\ frames' = Append(Front(frames), [Top EXCEPT !.kids = <<Len(nodes) + 1>>])
    /\ at' = "block"
    /\ UNCHANGED <<input, open>>

FinishLenient ==                            \* mutant of FinishSimple: no ; needed
    /\ E!Ends(Class) /\ Top.kind \in {"Basic", "Return"}
    /\ IF tok = ";" THEN Consume ELSE UNCHANGED input
    /\ nodes' = nodes \o <<Expression,
            Made(Top.kind, Top.start, IF tok = ";" THEN Here ELSE Here - 1, <<Len(nodes) + 1>>)>>
    /\ frames' = Front(frames)
    /\ at' = "return"
    /\ UNCHANGED open

(* The ; of a return may be missing, that of an expression may not. *)
FinishSimple ==
    /\ E!Ends(Class) /\ Top.kind \in {"Basic", "Return"}
    /\ tok = ";" \/ Top.kind = "Return"
    /\ IF tok = ";" THEN Consume ELSE UNCHANGED input
    /\ nodes' = nodes \o <<Expression,
            Made(Top.kind, Top.start, IF tok = ";" THEN Here ELSE Here - 1, <<Len(nodes) + 1>>)>>
    /\ frames' = Front(frames)
    /\ at' = "return"
    /\ UNCHANGED open

NoSemicolon == E!Ends(Class) /\ Top.kind = "Basic" /\ tok # ";" /\ Fail({at})

-----------------------------------------------------------------------------
(* A node is returned to what it is part of. *)

Keep(next) ==
    /\ frames' = Append(Front(frames), [Top EXCEPT !.kids = Append(@, Len(nodes))])
    /\ at' = next
    /\ UNCHANGED <<input, nodes, open>>

Finish(kind, first) ==
    /\ nodes' = Append(nodes, Made(kind, first, IF first = 0 THEN 0 ELSE Here - 1,
                                   Append(Top.kids, Len(nodes))))
    /\ frames' = Front(frames)
    /\ UNCHANGED <<input, open, at>>

ReturnTo(kinds) == at = "return" /\ frames # << >> /\ Top.kind \in kinds

ReturnToCaller ==
    /\ at = "return" /\ frames = << >>
    /\ at' = "done"
    /\ UNCHANGED <<input, nodes, frames, open>>

NextPart == ReturnTo({"Block"}) /\ Keep("part")

NextGlobal == ReturnTo({"Globals"}) /\ Keep("globals")

(* parse_block returns the statement in a Block that has no text. *)
FinishSingle == ReturnTo({"Single"}) /\ Finish("Block", 0)

FinishWhile == ReturnTo({"While"}) /\ Finish("While", Top.start)

FinishFunction == ReturnTo({"Function"}) /\ Finish("Function", Top.start)

IfThen == ReturnTo({"If"}) /\ Len(Top.kids) = 1 /\ Keep("else")

OuterElse == Lead = "else" /\ Len(frames) = 1    \* mutant of TakesElse
TakesElse == Lead = "else"

BeginElse ==
    /\ at = "else" /\ TakesElse
    /\ Consume
    /\ at' = "block"
    /\ UNCHANGED <<nodes, frames, open>>

(* Only an if with an else is given a text. *)
FinishIf ==
    /\ at = "else" /\ ~TakesElse
    /\ nodes' = Append(nodes, Made("If", 0, 0, Top.kids))
    /\ frames' = Front(frames)
    /\ at' = "return"
    /\ UNCHANGED <<input, open>>

FinishIfElse == ReturnTo({"If"}) /\ Len(Top.kids) = 2 /\ Finish("If", Top.start)

Done == at \in {"done", "error"} /\ UNCHANGED vars

Next ==
    \/ EndOfText \/ BeginFunction \/ BeginGlobalBasic
    \/ InFuncDec \/ FinishFuncDec \/ FuncDecError
    \/ OpenBlock \/ BeginKeyword \/ BeginBasic \/ CloseBlock \/ NoCloseBlock
    \/ EmptyBlock \/ BeginSingle
    \/ InExpression \/ ExpressionError \/ Condition \/ FinishSimple \/ NoSemicolon
    \/ ReturnToCaller \/ NextPart \/ NextGlobal \/ FinishSingle \/ FinishWhile \/ FinishFunction
    \/ IfThen \/ BeginElse \/ FinishIf \/ FinishIfElse
    \/ Done

(* One thread that never blocks. *)
Spec == Init /\ [][Next]_vars /\ WF_vars(Next)

-----------------------------------------------------------------------------
(* ast_print.hpp: the nodes in the order they are printed. *)

(* mutant of Shown: a while is printed without its condition *)
ShownBody(n) ==
    CASE n.kind = "While" -> <<n.kids[2]>>
      [] n.kind = "If" -> SubSeq(n.kids, 1, 2)
      [] OTHER -> n.kids

(* An if is printed without its else. *)
Shown(n) == IF n.kind = "If" THEN SubSeq(n.kids, 1, 2) ELSE n.kids

Printed[n \in DOMAIN nodes] ==
    <<n>> \o FlattenSeq([k \in DOMAIN Shown(nodes[n]) |-> Printed[Shown(nodes[n])[k]]])

-----------------------------------------------------------------------------
(* Properties. *)

(* Where a node begins and ends, whether its text says so or not. *)
Lo[n \in DOMAIN nodes] ==
    CASE nodes[n].first # 0 -> nodes[n].first
      [] nodes[n].first = 0 /\ nodes[n].kind = "If" -> Lo[nodes[n].kids[1]] - 1
      [] OTHER -> Lo[nodes[n].kids[1]]

Hi[n \in DOMAIN nodes] == IF nodes[n].first # 0 THEN nodes[n].last ELSE Hi[Last(nodes[n].kids)]

LeadAt(p) == IF input[p] \in Glued THEN Keyword[input[p]] ELSE input[p]

(* Nodes that stand side by side, from one position to another. *)
Row(kids, from, to) ==
    IF kids = << >> THEN from = to + 1
    ELSE /\ Lo[kids[1]] = from /\ Hi[Last(kids)] = to
         /\ \A i \in 1 .. Len(kids) - 1 : Lo[kids[i + 1]] = Hi[kids[i]] + 1

(***************************************************************************)
(* Every statement is its own keywords and the texts of its parts, with    *)
(* nothing between them, and the globals fill the text: an error message   *)
(* that quotes a statement quotes all of it and nothing else.  An if       *)
(* without an else and a block without braces have no text of their own.   *)
(* The parser is type correct, too.                                        *)
(***************************************************************************)
Whole(n) ==
    LET k == nodes[n].kids
        lo == Lo[n]
        hi == Hi[n]
    IN
    CASE nodes[n].kind = "Exp" -> lo <= hi /\ \A p \in lo .. hi : input[p] \notin {";", "{", "}"}
      [] nodes[n].kind = "Basic" -> Row(k, lo, hi - 1) /\ input[hi] = ";"
      [] nodes[n].kind = "Return" ->
            /\ LeadAt(lo) = "return"
            /\ Row(k, lo + 1, IF input[hi] = ";" THEN hi - 1 ELSE hi)
      [] nodes[n].kind = "While" -> LeadAt(lo) = "while" /\ Row(k, lo + 1, hi)
      [] nodes[n].kind = "If" /\ Len(k) = 2 -> LeadAt(lo) = "if" /\ Row(k, lo + 1, hi)
      [] nodes[n].kind = "If" /\ Len(k) # 2 ->
            /\ LeadAt(lo) = "if" /\ Row(SubSeq(k, 1, 2), lo + 1, Lo[k[3]] - 2)
            /\ LeadAt(Lo[k[3]] - 1) = "else" /\ Hi[k[3]] = hi
      [] nodes[n].kind = "Block" /\ nodes[n].first = 0 -> Len(k) = 1
      [] nodes[n].kind = "Block" /\ nodes[n].first # 0 ->
            \/ input[lo] = "{" /\ input[hi] = "}" /\ Row(k, lo + 1, hi - 1)
            \/ input[lo] = ";" /\ lo = hi /\ k = << >>
      [] nodes[n].kind = "FuncDec" -> LeadAt(lo) \in {"fn", "cfn"} /\ input[hi] = ";"
      [] nodes[n].kind = "Function" ->
            /\ LeadAt(lo) \in {"fn", "cfn"} /\ Row(k, Lo[k[1]], hi)
            /\ input[Lo[k[1]]] = "{" /\ input[Lo[k[1]] - 1] = ")"

Roots == IF InGlobals THEN frames[1].kids ELSE <<Len(nodes)>>

StatementsTile ==
    /\ TypeOK
    /\ \A n \in DOMAIN nodes : Whole(n)
    /\ at = "done" => Row(Roots, 1, Here - 1)

(***************************************************************************)
(* An else belongs to the nearest if: no if that ends where the first      *)
(* branch of another ends is left without an else that follows there.      *)
(***************************************************************************)
Ifs == {n \in DOMAIN nodes : nodes[n].kind = "If"}

ElseNearest ==
    \A n, inner \in Ifs :
        /\ Len(nodes[n].kids) = 3
        /\ Lo[inner] > Lo[n] /\ Hi[inner] = Hi[nodes[n].kids[2]]
        => Len(nodes[inner].kids) = 3

(***************************************************************************)
(* The condition of an if or a while has no parentheses of its own, so it  *)
(* goes on as long as it can: what it governs never begins with (, [ or an *)
(* operator that continues an expression, whatever was closed before it.   *)
(***************************************************************************)
BodyStartsFresh ==
    \A n \in DOMAIN nodes :
        nodes[n].kind \in {"If", "While"} =>
            input[Lo[nodes[n].kids[2]]] \notin {"infix", "postfix", "(", "["}

(***************************************************************************)
(* A word that begins with a keyword is a name of its own, except where a  *)
(* statement or a global begins and after the first branch of an if: there *)
(* it is always taken apart, and iffy = 3; is an if.                       *)
(***************************************************************************)
InName(p) ==
    \E n \in DOMAIN nodes :
        CASE nodes[n].kind = "Exp" -> Lo[n] <= p /\ p < Hi[n]
          [] nodes[n].kind = "FuncDec" -> Lo[n] < p /\ p < Hi[n]
          [] nodes[n].kind = "Function" -> Lo[n] < p /\ p < Lo[nodes[n].kids[1]]
          [] OTHER -> FALSE

Apart(p) ==
    \E n \in DOMAIN nodes :
        \/ nodes[n].kind \in {"If", "While", "Return", "FuncDec", "Function"} /\ Lo[n] = p
        \/ nodes[n].kind = "If" /\ Len(nodes[n].kids) = 3 /\ Lo[nodes[n].kids[3]] = p + 1

WordsSplitAtStarts ==
    /\ at = "done" => \A p \in 1 .. Here - 1 : input[p] \in Glued => InName(p) = ~Apart(p)
    /\ \A n \in DOMAIN nodes :
          nodes[n].kind = "Basic" /\ at = "done" /\ (InGlobals => n \notin Range(Roots)) =>
              LeadAt(Lo[n]) \notin {"if", "while", "return"}

(***************************************************************************)
(* The printed tree has every node once and in the order of the text; what *)
(* it lacks is what an else governs.                                       *)
(***************************************************************************)
PrintedOnce ==
    at = "done" =>
        LET shown == FlattenSeq([i \in DOMAIN Roots |-> Printed[Roots[i]]]) IN
        /\ \A i, j \in DOMAIN shown : i < j => shown[i] # shown[j] /\ Lo[shown[i]] <= Lo[shown[j]]
        /\ \A n \in DOMAIN nodes :
              n \in Range(shown) <=> ~\E i \in Ifs :
                  Len(nodes[i].kids) = 3 /\ Lo[nodes[i].kids[3]] <= Lo[n] /\ Hi[n] <= Hi[i]

(* No loop and no recursion of the parser is idle: it stops on every input. *)
Stops == <>(at \in {"done", "error"})

=============================================================================
