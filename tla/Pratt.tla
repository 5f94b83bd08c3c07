-------------------------------- MODULE Pratt --------------------------------
(***************************************************************************)
(* parse_expression (parser.hpp) with parse_atom, parse_paren_expression,  *)
(* parse_type and parse_call_args: the recursive descent with binding      *)
(* powers, as a machine whose frames are the activations of                *)
(* parse_expression.  The input is chosen token by token, so every token   *)
(* string within the bounds is parsed.                                     *)
(*                                                                         *)
(* A position is the index of a token; whitespace and comments are gone.   *)
(* "end" stands for whatever begins no operand and continues none: the end *)
(* of the text, ; or { or a keyword.                                       *)
(***************************************************************************)
EXTENDS Naturals, Sequences, FiniteSets

CONSTANTS
    Tokens,         \* the kinds of token an input is made of
    MaxTokens       \* bound: tokens of an input

OperatorKinds == {"Plus", "Minus", "Star", "Slash", "Percent", "Lt", "Gt", "Le",
    "Ge", "EqEq", "NotEq", "AndAnd", "OrOr", "Not", "BitAnd", "BitOr", "BitXor",
    "Assign", "PlusPlus", "MinusMinus", "Arrow", "Dot"}

(* "@" is a whole type, @int**, which parse_type consumes. *)
OtherTokens == {"name", "num", "(", ")", "[", "]", ",", "@"}

ASSUME PrattAssumption ==
    /\ Tokens \subseteq OperatorKinds \cup OtherTokens
    /\ MaxTokens \in Nat

Operators == Tokens \cap OperatorKinds

VARIABLES
    input,          \* the tokens read; the last one is the lookahead
    nodes,          \* the nodes made, in order; out is always the last one
    frames,         \* the activations of parse_expression, innermost last
    mode            \* "operand", "loop", "done" or "error"

vars == <<input, nodes, frames, mode>>

-----------------------------------------------------------------------------
(* Binding powers. *)

CALL_BP == 16
SUBSCRIPT_BP == 16
CAST_BP == 15

PrefixKinds == {"Plus", "Minus", "Not", "BitAnd", "Star", "PlusPlus", "MinusMinus"}
bp_prefix(op) == IF op \in PrefixKinds THEN 16 ELSE 0

bp_infix_left(op) ==
    CASE op \in {"Dot", "Arrow"} -> 20
      [] op \in {"Star", "Slash", "Percent"} -> 14
      [] op \in {"Plus", "Minus"} -> 13
      [] op \in {"Lt", "Gt", "Le", "Ge"} -> 11
      [] op \in {"EqEq", "NotEq"} -> 10
      [] op = "BitAnd" -> 9
      [] op = "BitXor" -> 8
      [] op = "BitOr" -> 7
      [] op = "AndAnd" -> 6
      [] op = "OrOr" -> 5
      [] op = "Assign" -> 3
      [] OTHER -> 0

bp_infix_right(op) == IF op = "Assign" THEN 4 ELSE bp_infix_left(op)

bp_postfix(op) == IF op \in {"PlusPlus", "MinusMinus"} THEN 15 ELSE 0

(* How tightly a token continues the operand on its left; 0: it does not. *)
Power(t) ==
    CASE t = "(" -> CALL_BP
      [] t = "[" -> SUBSCRIPT_BP
      [] OTHER -> IF bp_postfix(t) # 0 THEN bp_postfix(t) ELSE bp_infix_left(t)

-----------------------------------------------------------------------------
(***************************************************************************)
(* first and last are the text of a node, which parentheses widen; wraps   *)
(* is history: how many pairs of them there were.  post is history: a PreOp *)
(* made from a++, which the code does not tell from ++a.                   *)
(***************************************************************************)
Index == Nat \ {0}
Kinds == {"Var", "Num", "PreOp", "BinOp", "TypeCast", "SubScript", "Call"}
Node == [kind : Kinds, op : OperatorKinds \cup {""}, kids : Seq(Nat),
         first : Index, last : Nat, wraps : Nat, post : BOOLEAN]

(***************************************************************************)
(* role: what the caller does with the expression.  left and args: the     *)
(* nodes it already has, the operand on the left and the arguments so far. *)
(***************************************************************************)
Roles == {"root", "prefix", "cast", "right", "paren", "index", "arg"}
Activation == [role : Roles, op : OperatorKinds \cup {""}, left : Nat,
               args : Seq(Nat), min : Nat, start : Index]

TypeOK ==
    /\ input \in Seq(Tokens \cup {"end"}) /\ Len(input) \in 1 .. MaxTokens + 1
    /\ Len(input) > MaxTokens => input[Len(input)] = "end"
    /\ nodes \in Seq(Node)
    /\ frames \in Seq(Activation) /\ frames # << >>
    /\ mode \in {"operand", "loop", "done", "error"}
    /\ \A i \in DOMAIN frames : frames[i].role = "root" <=> i = 1
    /\ mode \in {"loop", "done"} => nodes # << >>

Root == [role |-> "root", op |-> "", left |-> 0, args |-> << >>, min |-> 0, start |-> 1]

(* The next token, chosen when the one before it is consumed. *)
NextToken(before) == IF before < MaxTokens THEN Tokens \cup {"end"} ELSE {"end"}

Init ==
    /\ input \in {<<t>> : t \in NextToken(0)}
    /\ nodes = << >>
    /\ frames = <<Root>>
    /\ mode = "operand"

tok == input[Len(input)]
Out == Len(nodes)
Frame == frames[Len(frames)]
Callers == SubSeq(frames, 1, Len(frames) - 1)
Caller == frames[Len(frames) - 1]

Consume == \E t \in NextToken(Len(input)) : input' = Append(input, t)

(* Consume a token and parse an expression: the recursive call. *)
Recurse(callers, role, op, left, args, min) ==
    /\ Consume
    /\ frames' = Append(callers, [role |-> role, op |-> op, left |-> left,
                    args |-> args, min |-> min, start |-> Len(input) + 1])
    /\ mode' = "operand"
    /\ UNCHANGED nodes

New(kind, op, kids, start, last) ==
    [kind |-> kind, op |-> op, kids |-> kids, first |-> start, last |-> last,
     wraps |-> 0, post |-> FALSE]

-----------------------------------------------------------------------------
(* The start of an expression. *)

(* Any operator is taken for a prefix one; bp_prefix is 0 when it is none. *)
Prefix ==
    /\ mode = "operand" /\ tok \in Operators
    /\ Recurse(frames, "prefix", tok, 0, << >>, bp_prefix(tok))

OpenParen ==
    /\ mode = "operand" /\ tok = "("
    /\ Recurse(frames, "paren", "", 0, << >>, 0)

OpenCast ==
    /\ mode = "operand" /\ tok = "@"
    /\ Recurse(frames, "cast", "", 0, << >>, CAST_BP)

Atom ==
    /\ mode = "operand" /\ tok \in {"name", "num"}
    /\ Consume
    /\ nodes' = Append(nodes, New(IF tok = "name" THEN "Var" ELSE "Num", "",
                                  << >>, Frame.start, Len(input)))
    /\ mode' = "loop"
    /\ UNCHANGED frames

(* f(): parse_call_args looks for ) before it parses an argument. *)
EmptyCall ==
    /\ mode = "operand" /\ tok = ")"
    /\ Frame.role = "arg" /\ Frame.args = << >>
    /\ Consume
    /\ nodes' = Append(nodes, New("Call", "", <<Frame.left>>, Caller.start, Len(input)))
    /\ frames' = Callers
    /\ mode' = "loop"

NoOperand ==
    /\ mode = "operand" /\ tok \in {")", "[", "]", ",", "end"}
    /\ tok = ")" => Frame.role # "arg" \/ Frame.args # << >>
    /\ mode' = "error"
    /\ UNCHANGED <<input, nodes, frames>>

-----------------------------------------------------------------------------
(* The loop: a token that binds tightly enough continues the operand. *)

AnyBinds(power, min) == power # 0           \* mutant of Binds: no comparison
EqualStops(power, min) == power > min       \* mutant of Binds: > for >=
Binds(power, min) == power # 0 /\ power >= min

Goes == mode = "loop" /\ Binds(Power(tok), Frame.min)
Stops == mode = "loop" /\ ~Binds(Power(tok), Frame.min)

OpenCall ==
    /\ Goes /\ tok = "("
    /\ Recurse(frames, "arg", "", Out, << >>, 0)

OpenIndex ==
    /\ Goes /\ tok = "["
    /\ Recurse(frames, "index", "", Out, << >>, 0)

PostfixPeeked ==                            \* mutant of Postfix: not consumed
    /\ Goes /\ bp_postfix(tok) # 0
    /\ nodes' = Append(nodes, [New("PreOp", tok, <<Out>>, Frame.start, Len(input))
                                EXCEPT !.post = TRUE])
    /\ UNCHANGED <<input, frames, mode>>

(* a++ is the node ++a is. *)
Postfix ==
    /\ Goes /\ bp_postfix(tok) # 0
    /\ Consume
    /\ nodes' = Append(nodes, [New("PreOp", tok, <<Out>>, Frame.start, Len(input))
                                EXCEPT !.post = TRUE])
    /\ UNCHANGED <<frames, mode>>

Infix ==
    /\ Goes /\ tok \in Operators /\ bp_postfix(tok) = 0
    /\ Recurse(frames, "right", tok, Out, << >>, bp_infix_right(tok))

-----------------------------------------------------------------------------
(* The return to the caller, and what it does with the expression. *)

Finish(role, kind, kids) ==
    /\ Stops /\ Frame.role = role
    /\ nodes' = Append(nodes, New(kind, Frame.op, kids, Caller.start, Len(input) - 1))
    /\ frames' = Callers
    /\ UNCHANGED <<input, mode>>

FinishPrefix == Finish("prefix", "PreOp", <<Out>>)
FinishCast == Finish("cast", "TypeCast", <<Out>>)
FinishInfix == Finish("right", "BinOp", <<Frame.left, Out>>)

CloseParenPlain ==                          \* mutant of CloseParen: text kept
    /\ Stops /\ Frame.role = "paren" /\ tok = ")"
    /\ Consume
    /\ nodes' = [nodes EXCEPT ![Out].wraps = @ + 1]
    /\ frames' = Callers
    /\ UNCHANGED mode

(* The parenthesised node is kept, with a text that has the parentheses. *)
CloseParen ==
    /\ Stops /\ Frame.role = "paren" /\ tok = ")"
    /\ Consume
    /\ nodes' = [nodes EXCEPT ![Out].first = Caller.start,
                              ![Out].last = Len(input),
                              ![Out].wraps = @ + 1]
    /\ frames' = Callers
    /\ UNCHANGED mode

CloseIndex ==
    /\ Stops /\ Frame.role = "index" /\ tok = "]"
    /\ Consume
    /\ nodes' = Append(nodes, New("SubScript", "", <<Frame.left, Out>>, Caller.start, Len(input)))
    /\ frames' = Callers
    /\ UNCHANGED mode

NextArg ==
    /\ Stops /\ Frame.role = "arg" /\ tok = ","
    /\ Recurse(Callers, "arg", "", Frame.left, Append(Frame.args, Out), 0)

CloseCall ==
    /\ Stops /\ Frame.role = "arg" /\ tok = ")"
    /\ Consume
    /\ nodes' = Append(nodes, New("Call", "", <<Frame.left>> \o Append(Frame.args, Out),
                                  Caller.start, Len(input)))
    /\ frames' = Callers
    /\ UNCHANGED mode

OneCloser(role) ==                          \* mutant of Closers: consume(")")
    CASE role \in {"paren", "arg"} -> {")"}
      [] role = "index" -> {"]"}
      [] OTHER -> Tokens \cup {"end"}

Closers(role) ==
    CASE role = "paren" -> {")"}
      [] role = "index" -> {"]"}
      [] role = "arg" -> {",", ")"}
      [] OTHER -> Tokens \cup {"end"}

NoCloser ==
    /\ Stops /\ tok \notin Closers(Frame.role)
    /\ mode' = "error"
    /\ UNCHANGED <<input, nodes, frames>>

(* What follows the expression is the statement's business. *)
Accept ==
    /\ Stops /\ Frame.role = "root"
    /\ mode' = "done"
    /\ UNCHANGED <<input, nodes, frames>>

Done == mode \in {"done", "error"} /\ UNCHANGED vars

Next ==
    \/ Prefix \/ OpenParen \/ OpenCast \/ Atom \/ EmptyCall \/ NoOperand
    \/ OpenCall \/ OpenIndex \/ Postfix \/ Infix
    \/ FinishPrefix \/ FinishCast \/ FinishInfix
    \/ CloseParen \/ CloseIndex \/ NextArg \/ CloseCall \/ NoCloser
    \/ Accept
    \/ Done

Spec == Init /\ [][Next]_vars

-----------------------------------------------------------------------------
(* Properties. *)

(***************************************************************************)
(* The text of every node is its own tokens and the texts of its children, *)
(* side by side and in the order of the source, with nothing lost, read    *)
(* twice or taken from a neighbour: errors and names are taken from it.    *)
(***************************************************************************)
Lo(n) == nodes[n].first + nodes[n].wraps
Hi(n) == nodes[n].last - nodes[n].wraps

Wrapped(n) ==
    \A d \in 0 .. nodes[n].wraps - 1 :
        input[nodes[n].first + d] = "(" /\ input[nodes[n].last - d] = ")"

Spans(k, lo, hi) == nodes[k].first = lo /\ nodes[k].last = hi

(* The children stand in a row, one token apart. *)
InARow(kids, seps) ==
    \A i \in 1 .. Len(kids) - 1 :
        /\ nodes[kids[i + 1]].first = nodes[kids[i]].last + 2
        /\ input[nodes[kids[i]].last + 1] = seps[i]

Tiled(n) ==
    LET kids == nodes[n].kids
        op == nodes[n].op
        row == Spans(kids[1], Lo(n), nodes[kids[1]].last)
        seps == <<"(">> \o [i \in 1 .. Len(kids) |-> ","]
        end == nodes[kids[Len(kids)]].last
    IN
    CASE nodes[n].kind = "Var" -> Lo(n) = Hi(n) /\ input[Lo(n)] = "name"
      [] nodes[n].kind = "Num" -> Lo(n) = Hi(n) /\ input[Lo(n)] = "num"
      [] nodes[n].kind = "TypeCast" ->
            input[Lo(n)] = "@" /\ Spans(kids[1], Lo(n) + 1, Hi(n))
      [] nodes[n].kind = "PreOp" /\ nodes[n].post ->
            input[Hi(n)] = op /\ Spans(kids[1], Lo(n), Hi(n) - 1)
      [] nodes[n].kind = "PreOp" /\ ~nodes[n].post ->
            input[Lo(n)] = op /\ Spans(kids[1], Lo(n) + 1, Hi(n))
      [] nodes[n].kind = "BinOp" -> row /\ InARow(kids, <<op>>) /\ end = Hi(n)
      [] nodes[n].kind = "SubScript" ->
            row /\ InARow(kids, <<"[">>) /\ end = Hi(n) - 1 /\ input[Hi(n)] = "]"
      [] nodes[n].kind = "Call" ->
            /\ row /\ InARow(kids, seps) /\ input[Hi(n)] = ")"
            /\ IF Len(kids) = 1 THEN end = Hi(n) - 2 /\ input[end + 1] = "("
                                ELSE end = Hi(n) - 1

TextsTile ==
    /\ \A n \in DOMAIN nodes : Wrapped(n) /\ Tiled(n)
    /\ mode = "done" => Spans(Out, 1, Len(input) - 1)

(***************************************************************************)
(* The tree is the one the binding powers describe.  An operand without    *)
(* parentheses binds more tightly than the operator it belongs to: on the  *)
(* right at least as tightly, and on the left its own right operand was    *)
(* not loose enough to take the operator.                                  *)
(***************************************************************************)
LeftPower(n) ==
    CASE n.kind = "BinOp" -> bp_infix_left(n.op)
      [] n.kind = "Call" -> CALL_BP
      [] n.kind = "SubScript" -> SUBSCRIPT_BP
      [] n.kind = "PreOp" /\ n.post -> bp_postfix(n.op)
      [] OTHER -> 0

EndsInOperand(n) == n.kind \in {"BinOp", "TypeCast", "PreOp"} /\ ~n.post

RightPower(n) ==
    CASE n.kind = "BinOp" -> bp_infix_right(n.op)
      [] n.kind = "PreOp" -> bp_prefix(n.op)
      [] OTHER -> CAST_BP

LeftFits(power, l) == l.wraps = 0 /\ EndsInOperand(l) => power < RightPower(l)
RightFits(min, r) == r.wraps = 0 /\ LeftPower(r) # 0 => LeftPower(r) >= min

NodeFits(n, ns) ==
    /\ LeftPower(n) # 0 => LeftFits(LeftPower(n), ns[n.kids[1]])
    /\ EndsInOperand(n) => RightFits(RightPower(n), ns[n.kids[Len(n.kids)]])

Precedence == \A i \in DOMAIN nodes : NodeFits(nodes[i], nodes)

(***************************************************************************)
(* The same over any distance, of the tokens: in the text of a BinOp, at   *)
(* its own depth of brackets, no infix operator on the right is looser     *)
(* than its operator lets in, and every infix operator on the left was     *)
(* ended by something too loose for it, this operator or one before.  A    *)
(* stray operator that the code reads as a prefix is left out.             *)
(***************************************************************************)
BinOps == {n \in DOMAIN nodes : nodes[n].kind = "BinOp"}
Continuations == {n \in DOMAIN nodes : LeftPower(nodes[n]) # 0}
OpAt(n) == nodes[nodes[n].kids[1]].last + 1

Brackets(p) ==
    Cardinality({q \in 1 .. p - 1 : input[q] \in {"(", "["}})
        - Cardinality({q \in 1 .. p - 1 : input[q] \in {")", "]"}})

SideBySide(n, d) == Brackets(OpAt(n)) = Brackets(OpAt(d))

ProperPrefixes ==
    \A n \in DOMAIN nodes :
        nodes[n].kind = "PreOp" /\ ~nodes[n].post => nodes[n].op \in PrefixKinds

SplitsAtWeakest ==
    ProperPrefixes =>
        \A n, d \in BinOps :
            OpAt(d) \in Lo(n) .. Hi(n) /\ SideBySide(n, d) =>
                /\ OpAt(d) < OpAt(n) =>
                      \E c \in Continuations :
                          /\ OpAt(c) \in OpAt(d) + 1 .. OpAt(n) /\ SideBySide(c, d)
                          /\ LeftPower(nodes[c]) < bp_infix_right(nodes[d].op)
                /\ OpAt(d) > OpAt(n) =>
                      bp_infix_left(nodes[d].op) >= bp_infix_right(nodes[n].op)

(***************************************************************************)
(* No iteration of for(;;) and no recursive call is idle: the parser stops *)
(* on every input, after at most two steps a token.                        *)
(***************************************************************************)
Measure ==
    2 * (MaxTokens + 1 - Len(input)) + Len(frames)
        + (IF mode \in {"operand", "loop"} THEN 1 ELSE 0)

Progress == [][Measure' < Measure]_vars

-----------------------------------------------------------------------------
(***************************************************************************)
(* The parser implements Expressions: which tokens an expression takes and *)
(* whether it is turned down depends on the brackets that are open and not *)
(* on binding powers, which stop inner activations but never the outermost *)
(* one.  The frames that are no brackets and their returns are hidden.     *)
(***************************************************************************)
Class(t) ==
    CASE t \in {"name", "num"} -> "atom"
      [] t \in {"Not", "@"} -> "prefix"
      [] t \in {"PlusPlus", "MinusMinus"} -> "postfix"
      [] t \in OperatorKinds \ {"Not", "PlusPlus", "MinusMinus"} -> "infix"
      [] OTHER -> t

Bracket == [role \in {"paren", "index", "arg"} |->
    CASE role = "paren" -> "("
      [] role = "index" -> "["
      [] role = "arg" -> "call"]

(* The brackets that activations keep open, innermost last. *)
BracketsOf(activations) ==
    LET open[k \in 0 .. Len(activations)] ==
            IF k = 0 THEN << >>
            ELSE IF activations[k].role \in DOMAIN Bracket
                 THEN Append(open[k - 1], Bracket[activations[k].role])
                 ELSE open[k - 1]
    IN  open[Len(activations)]

BeforeArgs == mode = "operand" /\ Frame.role = "arg" /\ Frame.args = << >>

Extent == INSTANCE Expressions WITH
    open <- BracketsOf(frames), at <- IF BeforeArgs THEN "args" ELSE mode

ImplementsExtent == Extent!Spec

-----------------------------------------------------------------------------
(* What the repository says of the parser, and the code does not do. *)

(***************************************************************************)
(* "left-associative ops use same as left" (parser.hpp:128): a - b - c is  *)
(* (a - b) - c.  An operator as loose as the one on its left would have to *)
(* be the right operand's only in parentheses.                             *)
(***************************************************************************)
LeftAssociative ==
    \A i \in BinOps :
        LET r == nodes[nodes[i].kids[2]] IN
        nodes[i].op # "Assign" /\ r.kind = "BinOp" /\ r.wraps = 0 =>
            bp_infix_left(r.op) > bp_infix_left(nodes[i].op)

(* "right-assoc" (parser.hpp:148), of =: a = b = c is a = (b = c). *)
RightAssocAssign ==
    \A i \in BinOps :
        LET l == nodes[nodes[i].kids[1]] IN
        nodes[i].op = "Assign" /\ l.kind = "BinOp" /\ l.wraps = 0 => l.op # "Assign"

(* At least one of the two comments is true of every expression. *)
AssociatesAsCommented == LeftAssociative \/ RightAssocAssign

-----------------------------------------------------------------------------
(***************************************************************************)
(* The inductive invariant behind Precedence.  Children are older than     *)
(* their parents, so the node in hand, the last one, is nobody's child yet *)
(* and may still be widened; what a frame keeps was bound tightly enough   *)
(* for the caller, and the node in hand for its own frame and, whatever    *)
(* the lookahead, for the operator that may follow.                        *)
(***************************************************************************)
KidsBelow(n, i) ==
    /\ LeftPower(n) # 0 \/ EndsInOperand(n) => n.kids # << >>
    /\ \A k \in DOMAIN n.kids : n.kids[k] \in 1 .. i - 1

KidsOlder == \A i \in DOMAIN nodes : KidsBelow(nodes[i], i)

(* While an operand is read, the last node may be the one a frame keeps. *)
Kept == IF mode = "operand" THEN Len(nodes) ELSE Len(nodes) - 1

KeptNodes(f, kept) ==
    /\ f.role \in {"right", "index", "arg"} => f.left \in 1 .. kept
    /\ \A k \in DOMAIN f.args : f.args[k] \in 1 .. kept

(* The power with which the node a frame will make binds its left operand. *)
FramePower(f) ==
    CASE f.role = "right" -> bp_infix_left(f.op)
      [] f.role = "arg" -> CALL_BP
      [] f.role = "index" -> SUBSCRIPT_BP
      [] OTHER -> 0

FrameFits(f, caller, ns) ==
    /\ f.role = "right" => f.min = bp_infix_right(f.op)
    /\ f.role = "prefix" => f.min = bp_prefix(f.op)
    /\ f.role = "cast" => f.min = CAST_BP
    /\ f.role \in {"right", "index", "arg"} =>
          /\ FramePower(f) # 0 /\ FramePower(f) >= caller.min
          /\ LeftFits(FramePower(f), ns[f.left])

FramesFit ==
    /\ \A i \in DOMAIN frames : KeptNodes(frames[i], Kept)
    /\ \A i \in 2 .. Len(frames) : FrameFits(frames[i], frames[i - 1], nodes)

LoopFits ==
    mode = "loop" =>
        /\ RightFits(Frame.min, nodes[Out])
        /\ Power(tok) # 0 => LeftFits(Power(tok), nodes[Out])

Inductive ==
    /\ KidsOlder /\ Precedence
    /\ mode # "error" => FramesFit /\ LoopFits

=============================================================================
