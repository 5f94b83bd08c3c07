----------------------------- MODULE PrattProof -----------------------------
(* Types, the shape of the trees, termination, the texts, and that Pratt *)
(* implements Expressions, for inputs of any length.                     *)
EXTENDS Integers, Pratt, SequenceTheorems, FiniteSetTheorems, TLAPS

-----------------------------------------------------------------------------
(* Facts about sequences and numbers. *)

(* Without its last element: pop_back. *)
LEMMA PopFacts ==
    ASSUME NEW S, NEW s \in Seq(S), s # << >>
    PROVE  /\ Len(s) \in Nat \ {0}
           /\ SubSeq(s, 1, Len(s) - 1) \in Seq(S)
           /\ Len(SubSeq(s, 1, Len(s) - 1)) = Len(s) - 1
           /\ \A i \in 1 .. Len(s) - 1 : SubSeq(s, 1, Len(s) - 1)[i] = s[i]
<1>1. Len(s) \in Nat \ {0}
  BY EmptySeq
<1> DEFINE n == Len(s) - 1
<1>2. n \in Nat /\ 1 \in Int
  BY <1>1
<1>3. \A i \in 1 .. n : s[i] \in S
  BY <1>1, ElementOfSeq
<1> HIDE DEF n
<1>4. /\ SubSeq(s, 1, n) \in Seq(S)
      /\ Len(SubSeq(s, 1, n)) = IF 1 <= n THEN n - 1 + 1 ELSE 0
      /\ \A i \in 1 .. n - 1 + 1 : SubSeq(s, 1, n)[i] = s[1 + i - 1]
  BY <1>2, <1>3, SubSeqProperties
<1>5. /\ Len(SubSeq(s, 1, n)) = n
      /\ \A i \in 1 .. n : SubSeq(s, 1, n)[i] = s[i]
  BY <1>2, <1>4
<1> QED
  BY <1>1, <1>4, <1>5 DEF n

(***************************************************************************)
(* Induction, for a set: numbers without the set would, with the numbers   *)
(* up to one of them, be injected into themselves by n - 1, which a finite *)
(* set does not survive unless it is empty.                                *)
(***************************************************************************)
LEMMA SetInduction ==
    ASSUME NEW S, 0 \in S, \A n \in Nat : n \in S => n + 1 \in S
    PROVE  Nat \subseteq S
<1>1. SUFFICES ASSUME NEW k \in Nat, k \notin S PROVE FALSE
  OBVIOUS
<1> DEFINE U == {n \in 0 .. k : n \notin S}
           f == [n \in U |-> n - 1]
<1>2. IsFiniteSet(U)
  <2>1. IsFiniteSet(0 .. k)
    BY FS_Interval
  <2> QED
    BY <2>1, FS_Subset
<1>3. f \in Injection(U, U)
  <2>1. \A n \in U : n - 1 \in U
    <3> SUFFICES ASSUME NEW n \in U PROVE n - 1 \in U
      OBVIOUS
    <3>1. n # 0
      OBVIOUS
    <3>2. n - 1 \in Nat
      BY <3>1
    <3>3. n - 1 \in S => (n - 1) + 1 \in S
      BY <3>2
    <3> QED
      BY <3>1, <3>2, <3>3
  <2> QED
    BY <2>1 DEF Injection, IsInjective
<1>4. f \in Surjection(U, U)
  BY <1>2, <1>3, FS_Injection
<1>5. PICK n \in U : f[n] = k
  <2>1. k \in U
    BY <1>1
  <2>2. \A t \in U : \E n \in U : f[n] = t
    BY <1>4 DEF Surjection
  <2> QED
    BY <2>1, <2>2
<1> QED
  BY <1>5

(* The binding powers are natural numbers. *)
LEMMA PowersAreNumbers ==
  ASSUME NEW t
  PROVE  /\ bp_prefix(t) \in Nat /\ bp_postfix(t) \in Nat
         /\ bp_infix_left(t) \in Nat /\ bp_infix_right(t) \in Nat
         /\ Power(t) \in Nat
<1>1. bp_prefix(t) \in Nat /\ bp_postfix(t) \in Nat
  BY DEF bp_prefix, bp_postfix
<1>2. bp_infix_left(t) \in Nat
  BY DEF bp_infix_left
<1>3. bp_infix_right(t) \in Nat
  BY <1>2 DEF bp_infix_right
<1>4. Power(t) \in Nat
  BY <1>1, <1>2 DEF Power, CALL_BP, SUBSCRIPT_BP
<1> QED
  BY <1>1, <1>2, <1>3, <1>4

(* What Power is of an operator, a parenthesis and a bracket. *)
LEMMA PowerOf ==
  ASSUME NEW t \in OperatorKinds
  PROVE  /\ bp_postfix(t) # 0 => Power(t) = bp_postfix(t)
         /\ bp_postfix(t) = 0 => Power(t) = bp_infix_left(t)
<1>1. t # "(" /\ t # "["
  BY DEF OperatorKinds
<1> QED
  BY <1>1 DEF Power

LEMMA Tuples == \A a, b \in Nat : <<a>> \in Seq(Nat) /\ <<a, b>> \in Seq(Nat)
OBVIOUS

(* A node that parentheses widen is a node. *)
LEMMA WidenedNode ==
  ASSUME NEW n \in Node, NEW start \in Index, NEW last \in Nat
  PROVE  [n EXCEPT !.first = start, !.last = last, !.wraps = @ + 1] \in Node
<1>a. n.wraps \in Nat
  BY DEF Node
<1>1. n.wraps + 1 \in Nat /\ last \in Nat /\ start \in Index
  BY <1>a
<1> DEFINE m == [n EXCEPT !.first = start, !.last = last, !.wraps = @ + 1]
<1> DEFINE w == n.wraps + 1
<1>2. w \in Nat /\ m = [n EXCEPT !.first = start, !.last = last, !.wraps = w]
  BY <1>1
<1> HIDE DEF m, w
<1>3. m \in Node
  BY <1>2 DEF Node
<1> QED
  BY <1>3 DEF m

(* A node just made is a node. *)
LEMMA NewNode ==
  ASSUME NEW kind \in Kinds, NEW op \in OperatorKinds \cup {""},
         NEW kids \in Seq(Nat), NEW start \in Index, NEW last \in Nat
  PROVE  /\ New(kind, op, kids, start, last) \in Node
         /\ [New(kind, op, kids, start, last) EXCEPT !.post = TRUE] \in Node
  BY DEF New, Node

-----------------------------------------------------------------------------
(* Types. *)

(* The lookahead is a token, and after one is consumed there is another. *)
LEMMA Lookahead ==
  ASSUME TypeOK
  PROVE  /\ tok \in Tokens \cup {"end"} /\ Len(input) \in Nat \ {0}
         /\ Consume /\ tok # "end" => 
               /\ input' \in Seq(Tokens \cup {"end"}) 
               /\ Len(input') = Len(input) + 1
               /\ Len(input') \in 2 .. MaxTokens + 1
               /\ Len(input') > MaxTokens => input'[Len(input')] = "end"
<1> USE PrattAssumption
<1>1. input \in Seq(Tokens \cup {"end"}) /\ Len(input) \in 1 .. MaxTokens + 1
  BY DEF TypeOK
<1>2. tok \in Tokens \cup {"end"}
  BY <1>1 DEF tok
<1>3. ASSUME Consume, tok # "end"
      PROVE  /\ input' \in Seq(Tokens \cup {"end"}) /\ Len(input') = Len(input) + 1
             /\ Len(input') \in 2 .. MaxTokens + 1
             /\ Len(input') > MaxTokens => input'[Len(input')] = "end"
  <2>1. PICK t \in NextToken(Len(input)) : input' = Append(input, t)
    BY <1>3 DEF Consume
  <2>2. t \in Tokens \cup {"end"}
    BY DEF NextToken
  <2>3. Len(input) <= MaxTokens
    BY <1>1, <1>3 DEF tok, TypeOK
  <2>4. input'[Len(input) + 1] = t /\ Len(input') = Len(input) + 1
    BY <1>1, <2>1, <2>2
  <2>5. Len(input) + 1 > MaxTokens => t = "end"
    BY <1>1, <2>3 DEF NextToken
  <2> QED
    BY <1>1, <2>1, <2>2, <2>3, <2>4, <2>5
<1> QED
  BY <1>1, <1>2, <1>3

InputOK ==
    /\ input \in Seq(Tokens \cup {"end"}) /\ Len(input) \in 1 .. MaxTokens + 1
    /\ Len(input) > MaxTokens => input[Len(input)] = "end"

FramesOK ==
    /\ frames \in Seq(Activation) /\ frames # << >>
    /\ \A i \in DOMAIN frames : frames[i].role = "root" <=> i = 1

(* Whoever is no root has a caller, and is called by typed frames. *)
LEMMA TopFrames ==
  ASSUME TypeOK
  PROVE  /\ Len(frames) \in Nat \ {0} /\ Frame \in Activation
         /\ Callers \in Seq(Activation) /\ Len(Callers) = Len(frames) - 1
         /\ \A i \in 1 .. Len(frames) - 1 : Callers[i] = frames[i]
         /\ Frame.role # "root" =>
               /\ Len(frames) > 1 /\ Caller \in Activation /\ Callers # << >>
               /\ \A i \in DOMAIN Callers : Callers[i].role = "root" <=> i = 1
<1>1. frames \in Seq(Activation) /\ frames # << >> /\ Len(frames) \in Nat
  BY DEF TypeOK
<1>2. Len(frames) # 0 /\ Frame \in Activation
  BY <1>1 DEF Frame
<1>3. /\ Callers \in Seq(Activation) /\ Len(Callers) = Len(frames) - 1
      /\ \A i \in 1 .. Len(frames) - 1 : Callers[i] = frames[i]
  BY <1>1, PopFacts DEF Callers
<1>4. ASSUME Frame.role # "root"
      PROVE  /\ Len(frames) > 1 /\ Caller \in Activation /\ Callers # << >>
             /\ \A i \in DOMAIN Callers : Callers[i].role = "root" <=> i = 1
  <2>1. Len(frames) # 1
    BY <1>1, <1>2, <1>4 DEF Frame, TypeOK
  <2>2. Len(frames) > 1
    BY <1>1, <1>2, <2>1
  <2>3. Caller \in Activation
    BY <1>1, <2>2 DEF Caller
  <2>4. Callers # << >>
    BY <1>1, <1>3, <2>2
  <2>5. ASSUME NEW i \in DOMAIN Callers
        PROVE  Callers[i].role = "root" <=> i = 1
    <3>1. i \in 1 .. Len(frames) - 1 /\ i \in DOMAIN frames
      BY <1>1, <1>3
    <3> QED
      BY <1>3, <3>1 DEF TypeOK
  <2> QED
    BY <2>2, <2>3, <2>4, <2>5
<1> QED
  BY <1>1, <1>2, <1>3, <1>4

(* A recursive call keeps the types. *)
LEMMA PushTyped ==
  ASSUME TypeOK, Consume, tok # "end",
         NEW callers \in Seq(Activation), callers # << >>,
         \A i \in DOMAIN callers : callers[i].role = "root" <=> i = 1,
         NEW f \in Activation, f.role # "root",
         frames' = Append(callers, f), nodes' = nodes, mode' = "operand"
  PROVE  TypeOK'
<1>1. InputOK'
  BY Lookahead DEF InputOK
<1>2. FramesOK'
  <2>1. Len(callers) \in Nat \ {0}
    BY PopFacts
  <2>2. /\ frames' \in Seq(Activation) /\ frames' # << >>
        /\ DOMAIN frames' = 1 .. Len(callers) + 1
        /\ \A i \in 1 .. Len(callers) : frames'[i] = callers[i]
        /\ frames'[Len(callers) + 1] = f
    BY AppendProperties
  <2>3. DOMAIN callers = 1 .. Len(callers)
    BY LenProperties
  <2>4. ASSUME NEW i \in DOMAIN frames'
        PROVE  frames'[i].role = "root" <=> i = 1
    <3>1. CASE i \in DOMAIN callers
      BY <2>2, <2>3, <3>1
    <3>2. CASE i = Len(callers) + 1
      <4>1. i # 1
        BY <2>1, <3>2
      <4> QED
        BY <2>2, <3>2, <4>1
    <3> QED
      BY <2>1, <2>2, <2>3, <3>1, <3>2
  <2> QED
    BY <2>2, <2>4 DEF FramesOK
<1> QED
  BY <1>1, <1>2 DEF TypeOK, InputOK, FramesOK

LEMMA NextPlace == TypeOK => Len(input) + 1 \in Index /\ Len(input) \in Index
BY Lookahead DEF Index

(* The activation a call makes. *)
LEMMA NewFrame ==
  ASSUME TypeOK, NEW role \in Roles, NEW op \in OperatorKinds \cup {""},
         NEW left \in Nat, NEW args \in Seq(Nat), NEW min \in Nat
  PROVE  [role |-> role, op |-> op, left |-> left, args |-> args, min |-> min,
          start |-> Len(input) + 1] \in Activation
BY NextPlace DEF Activation

(* So does a node that is made, with or without a return to the caller. *)
LEMMA MakeTyped ==
  ASSUME TypeOK, NEW n \in Node, nodes' = Append(nodes, n),
         InputOK', FramesOK', mode' \in {"operand", "loop", "done", "error"}
  PROVE  TypeOK'
<1>1. nodes' \in Seq(Node) /\ nodes' # << >>
  BY DEF TypeOK
<1> QED
  BY <1>1 DEF TypeOK, InputOK, FramesOK

LEMMA SameInput == TypeOK /\ input' = input => InputOK'
  BY DEF TypeOK, InputOK
LEMMA SameFrames == TypeOK /\ frames' = frames => FramesOK'
  BY DEF TypeOK, FramesOK
LEMMA NextInput == TypeOK /\ Consume /\ tok # "end" => InputOK' /\ Len(input') = Len(input) + 1
  BY Lookahead DEF InputOK
LEMMA Returned == TypeOK /\ Frame.role # "root" /\ frames' = Callers => FramesOK'
  BY TopFrames DEF FramesOK

LEMMA TokenKinds ==
  /\ Operators \subseteq OperatorKinds
  /\ \A t \in Operators : t \notin {"end", "(", ")", "[", "]", ",", "@", "name", "num"}
BY PrattAssumption DEF Operators, OperatorKinds

(* The parser begins with types and keeps them, whatever it reads. *)
LEMMA InitTyped == Init => TypeOK
<1> SUFFICES ASSUME Init PROVE TypeOK
  OBVIOUS
<1>1. PICK t \in NextToken(0) : input = <<t>>
  BY DEF Init
<1>2. t \in Tokens \cup {"end"} /\ (0 >= MaxTokens => t = "end")
  BY PrattAssumption DEF NextToken
<1>3. input \in Seq(Tokens \cup {"end"}) /\ Len(input) = 1 /\ input[1] = t
  BY <1>1, <1>2
<1>4. Root \in Activation
  BY DEF Root, Activation, Roles, Index
<1>5. frames = <<Root>> /\ nodes = << >>
  BY DEF Init
<1>a. mode = "operand"
  BY DEF Init
<1>6. frames \in Seq(Activation) /\ frames # << >> /\ DOMAIN frames = {1} /\ frames[1] = Root
  BY <1>4, <1>5
<1>7. nodes \in Seq(Node)
  BY <1>5
<1>8. InputOK
  BY <1>2, <1>3, PrattAssumption DEF InputOK
<1>9. FramesOK
  <2>1. Root.role = "root"
    BY DEF Root
  <2>2. frames # << >> /\ frames \in Seq(Activation)
    BY <1>6
  <2>3. \A i \in DOMAIN frames : i = 1 /\ frames[i].role = "root"
    BY <1>6, <2>1
  <2> QED
    BY <2>2, <2>3 DEF FramesOK
<1> QED
  BY <1>a, <1>7, <1>8, <1>9 DEF TypeOK, InputOK, FramesOK

(* The calls: Prefix, OpenParen, OpenCast, OpenCall, OpenIndex, Infix. *)
LEMMA CallTyped ==
  ASSUME TypeOK, tok # "end",
         NEW role \in Roles \ {"root"}, NEW op \in OperatorKinds \cup {""},
         NEW left \in Nat, NEW args \in Seq(Nat), NEW min \in Nat,
         \/ Recurse(frames, role, op, left, args, min)
         \/ Recurse(Callers, role, op, left, args, min) /\ Frame.role # "root"
  PROVE  TypeOK'
<1> DEFINE f == [role |-> role, op |-> op, left |-> left, args |-> args, min |-> min,
                 start |-> Len(input) + 1]
<1>1. f \in Activation /\ f.role # "root"
  BY NewFrame
<1>2. Consume /\ nodes' = nodes /\ mode' = "operand"
  BY DEF Recurse
<1>3. \/ frames' = Append(frames, f)
      \/ frames' = Append(Callers, f) /\ Frame.role # "root"
  BY DEF Recurse
<1> HIDE DEF f
<1>4. CASE frames' = Append(frames, f)
  <2>1. /\ frames \in Seq(Activation) /\ frames # << >>
        /\ \A i \in DOMAIN frames : frames[i].role = "root" <=> i = 1
    BY DEF TypeOK
  <2> QED
    BY <1>1, <1>2, <1>4, <2>1, PushTyped
<1>5. CASE frames' = Append(Callers, f) /\ Frame.role # "root"
  <2>1. /\ Callers \in Seq(Activation) /\ Callers # << >>
        /\ \A i \in DOMAIN Callers : Callers[i].role = "root" <=> i = 1
    BY <1>5, TopFrames
  <2> QED
    BY <1>1, <1>2, <1>5, <2>1, PushTyped
<1> QED
  BY <1>3, <1>4, <1>5

(* What a caller keeps, and the node in hand, are indices and types. *)
LEMMA InHand ==
  ASSUME TypeOK, mode = "loop"
  PROVE  /\ Out \in Index /\ Out \in Nat /\ <<Out>> \in Seq(Nat)
         /\ nodes[Out] \in Node /\ Len(nodes) = Out /\ nodes \in Seq(Node)
<1>1. nodes \in Seq(Node) /\ nodes # << >>
  BY DEF TypeOK
<1>2. Len(nodes) \in Nat \ {0}
  BY <1>1, PopFacts
<1> QED
  BY <1>1, <1>2 DEF Out, Index

LEMMA FrameFields ==
  ASSUME TypeOK
  PROVE  /\ Frame.start \in Index /\ Frame.op \in OperatorKinds \cup {""}
         /\ Frame.left \in Nat /\ Frame.args \in Seq(Nat) /\ Frame.min \in Nat
         /\ Frame.role # "root" => Caller.start \in Index /\ Caller.min \in Nat
BY TopFrames DEF Activation

LEMMA StepTyped == TypeOK /\ Next => TypeOK'
<1> SUFFICES ASSUME TypeOK, Next PROVE TypeOK'
  OBVIOUS
<1>t. tok \in Tokens \cup {"end"}
  BY Lookahead
<1>k. \A r \in {"prefix", "cast", "right", "paren", "index", "arg"} : r \in Roles \ {"root"}
  BY DEF Roles
<1>e. << >> \in Seq(Nat) /\ 0 \in Nat /\ "" \in OperatorKinds \cup {""}
  OBVIOUS
<1>m. CAST_BP \in Nat
  BY DEF CAST_BP
<1>1. CASE Prefix
  <2>1. tok # "end" /\ tok \in OperatorKinds /\ tok \in OperatorKinds \cup {""}
    BY <1>1, TokenKinds DEF Prefix
  <2>2. Recurse(frames, "prefix", tok, 0, << >>, bp_prefix(tok))
    BY <1>1 DEF Prefix
  <2> QED
    BY <1>k, <1>e, <2>1, <2>2, CallTyped, PowersAreNumbers
<1>2. CASE OpenParen
  <2>1. tok # "end" /\ Recurse(frames, "paren", "", 0, << >>, 0)
    BY <1>2 DEF OpenParen
  <2> QED
    BY <1>k, <1>e, <2>1, CallTyped
<1>3. CASE OpenCast
  <2>1. tok # "end" /\ Recurse(frames, "cast", "", 0, << >>, CAST_BP)
    BY <1>3 DEF OpenCast
  <2> QED
    BY <1>k, <1>e, <1>m, <2>1, CallTyped
<1>4. CASE Atom
  <2> DEFINE kind == IF tok = "name" THEN "Var" ELSE "Num"
             n == New(kind, "", << >>, Frame.start, Len(input))
  <2>1. kind \in Kinds
    BY DEF Kinds
  <2>2. n \in Node
    BY <1>e, <2>1, NewNode, FrameFields, Lookahead
  <2>3. tok # "end" /\ Consume /\ nodes' = Append(nodes, n) /\ mode' = "loop" /\ frames' = frames
    BY <1>4 DEF Atom
  <2> HIDE DEF n
  <2> QED
    BY <2>2, <2>3, MakeTyped, NextInput, SameFrames
<1>5. CASE EmptyCall
  <2> DEFINE n == New("Call", "", <<Frame.left>>, Caller.start, Len(input))
  <2>1. tok # "end" /\ Consume /\ nodes' = Append(nodes, n) /\ mode' = "loop"
        /\ frames' = Callers /\ Frame.role # "root" /\ Frame.role = "arg"
    BY <1>5 DEF EmptyCall
  <2>2. <<Frame.left>> \in Seq(Nat)
    <3>1. Frame.left \in Nat
      BY FrameFields
    <3> QED
      BY <3>1, Tuples
  <2>3. n \in Node
    BY <1>e, <2>1, <2>2, NewNode, FrameFields, Lookahead DEF Kinds
  <2> HIDE DEF n
  <2> QED
    BY <2>1, <2>3, MakeTyped, NextInput, Returned
<1>6. CASE NoOperand
  <2>1. UNCHANGED <<input, nodes, frames>> /\ mode' = "error"
    BY <1>6 DEF NoOperand
  <2> QED
    BY <2>1 DEF TypeOK
<1>7. CASE OpenCall
  <2>1. tok # "end" /\ mode = "loop" /\ Recurse(frames, "arg", "", Out, << >>, 0)
    BY <1>7 DEF OpenCall, Goes
  <2> QED
    BY <1>k, <1>e, <2>1, CallTyped, InHand
<1>8. CASE OpenIndex
  <2>1. tok # "end" /\ mode = "loop" /\ Recurse(frames, "index", "", Out, << >>, 0)
    BY <1>8 DEF OpenIndex, Goes
  <2> QED
    BY <1>k, <1>e, <2>1, CallTyped, InHand
<1>9. CASE Postfix
  <2> DEFINE n == [New("PreOp", tok, <<Out>>, Frame.start, Len(input)) EXCEPT !.post = TRUE]
  <2>1. /\ mode = "loop" /\ bp_postfix(tok) # 0 /\ Consume /\ nodes' = Append(nodes, n)
        /\ frames' = frames /\ mode' = mode
    BY <1>9 DEF Postfix, Goes
  <2>2. tok # "end" /\ tok \in OperatorKinds
    BY <2>1 DEF bp_postfix, OperatorKinds
  <2>3. n \in Node
    BY <2>1, <2>2, NewNode, FrameFields, Lookahead, InHand DEF Kinds
  <2> HIDE DEF n
  <2> QED
    BY <2>1, <2>2, <2>3, MakeTyped, NextInput, SameFrames
<1>10. CASE Infix
  <2>1. /\ tok # "end" /\ tok \in OperatorKinds /\ mode = "loop"
        /\ Recurse(frames, "right", tok, Out, << >>, bp_infix_right(tok))
    BY <1>10, TokenKinds DEF Infix, Goes
  <2>2. tok \in OperatorKinds \cup {""}
    BY <2>1
  <2> QED
    BY <1>k, <1>e, <2>1, <2>2, CallTyped, InHand, PowersAreNumbers
<1>11. ASSUME NEW role, NEW kind \in Kinds, NEW kids \in Seq(Nat), role # "root",
              Finish(role, kind, kids)
       PROVE  TypeOK'
  <2> DEFINE n == New(kind, Frame.op, kids, Caller.start, Len(input) - 1)
  <2>1. /\ mode = "loop" /\ Frame.role # "root" /\ nodes' = Append(nodes, n)
        /\ frames' = Callers /\ input' = input /\ mode' = mode
    BY <1>11 DEF Finish, Stops
  <2>2. Len(input) - 1 \in Nat
    BY Lookahead
  <2>3. n \in Node
    BY <2>1, <2>2, NewNode, FrameFields
  <2> HIDE DEF n
  <2> QED
    BY <2>1, <2>3, MakeTyped, SameInput, Returned
<1>12. CASE FinishPrefix
  <2>1. <<Out>> \in Seq(Nat)
    BY <1>12, InHand DEF FinishPrefix, Finish, Stops
  <2> QED
    BY <1>11, <1>12, <2>1 DEF FinishPrefix, Kinds
<1>13. CASE FinishCast
  <2>1. <<Out>> \in Seq(Nat)
    BY <1>13, InHand DEF FinishCast, Finish, Stops
  <2> QED
    BY <1>11, <1>13, <2>1 DEF FinishCast, Kinds
<1>14. CASE FinishInfix
  <2>1. Out \in Nat /\ Frame.left \in Nat
    BY <1>14, InHand, FrameFields DEF FinishInfix, Finish, Stops
  <2>2. <<Frame.left, Out>> \in Seq(Nat)
    BY <2>1
  <2> QED
    BY <1>11, <1>14, <2>2 DEF FinishInfix, Kinds
<1>15. CASE CloseParen
  <2> DEFINE n == [nodes[Out] EXCEPT !.first = Caller.start, !.last = Len(input),
                                     !.wraps = @ + 1]
  <2>1. /\ mode = "loop" /\ mode' = "loop" /\ Frame.role # "root" /\ tok # "end"
        /\ Consume /\ frames' = Callers /\ nodes' = [nodes EXCEPT ![Out] = n]
    BY <1>15 DEF CloseParen, Stops
  <2>2. n \in Node
    <3>1. nodes[Out] \in Node /\ Caller.start \in Index /\ Len(input) \in Nat
      BY <2>1, InHand, FrameFields, Lookahead
    <3> QED
      BY <3>1, WidenedNode
  <2> HIDE DEF n
  <2>3. nodes' \in Seq(Node) /\ nodes' # << >>
    BY <2>1, <2>2, InHand, ExceptSeq, EmptySeq DEF Index
  <2>4. InputOK' /\ FramesOK'
    BY <2>1, NextInput, Returned
  <2> QED
    BY <2>1, <2>3, <2>4 DEF TypeOK, InputOK, FramesOK
<1>16. CASE CloseIndex
  <2> DEFINE n == New("SubScript", "", <<Frame.left, Out>>, Caller.start, Len(input))
  <2>1. /\ mode = "loop" /\ mode' = mode /\ Frame.role # "root" /\ tok # "end"
        /\ Consume /\ frames' = Callers /\ nodes' = Append(nodes, n)
    BY <1>16 DEF CloseIndex, Stops
  <2>2. <<Frame.left, Out>> \in Seq(Nat)
    <3>1. Frame.left \in Nat /\ Out \in Nat
      BY <2>1, InHand, FrameFields
    <3> QED
      BY <3>1, Tuples
  <2>3. n \in Node
    BY <1>e, <2>1, <2>2, NewNode, FrameFields, Lookahead DEF Kinds
  <2> HIDE DEF n
  <2> QED
    BY <2>1, <2>3, MakeTyped, NextInput, Returned
<1>17. CASE NextArg
  <2>1. /\ mode = "loop" /\ Frame.role # "root" /\ tok # "end"
        /\ Recurse(Callers, "arg", "", Frame.left, Append(Frame.args, Out), 0)
    BY <1>17 DEF NextArg, Stops
  <2>2. Append(Frame.args, Out) \in Seq(Nat) /\ Frame.left \in Nat
    BY <2>1, InHand, FrameFields, AppendProperties
  <2> QED
    BY <1>k, <1>e, <2>1, <2>2, CallTyped
<1>18. CASE CloseCall
  <2> DEFINE kids == <<Frame.left>> \o Append(Frame.args, Out)
             n == New("Call", "", kids, Caller.start, Len(input))
  <2>1. /\ mode = "loop" /\ mode' = mode /\ Frame.role # "root" /\ tok # "end"
        /\ Consume /\ frames' = Callers /\ nodes' = Append(nodes, n)
    BY <1>18 DEF CloseCall, Stops
  <2>2. Append(Frame.args, Out) \in Seq(Nat) /\ <<Frame.left>> \in Seq(Nat)
    <3>1. Frame.left \in Nat /\ Out \in Nat /\ Frame.args \in Seq(Nat)
      BY <2>1, InHand, FrameFields
    <3> QED
      BY <3>1, Tuples, AppendProperties
  <2>3. kids \in Seq(Nat)
    BY <2>2, ConcatProperties
  <2> HIDE DEF kids
  <2>4. n \in Node
    BY <1>e, <2>1, <2>3, NewNode, FrameFields, Lookahead DEF Kinds
  <2> HIDE DEF n
  <2> QED
    BY <2>1, <2>4, MakeTyped, NextInput, Returned
<1>19. CASE NoCloser \/ Accept
  <2>1. UNCHANGED <<input, nodes, frames>> /\ mode' \in {"error", "done"} /\ mode = "loop"
    BY <1>19 DEF NoCloser, Accept, Stops
  <2> QED
    BY <2>1 DEF TypeOK
<1>20. CASE Done
  BY <1>20 DEF Done, TypeOK, vars
<1> QED
  BY <1>1, <1>2, <1>3, <1>4, <1>5, <1>6, <1>7, <1>8, <1>9, <1>10, <1>12, <1>13,
     <1>14, <1>15, <1>16, <1>17, <1>18, <1>19, <1>20 DEF Next

(* Whatever is read, the parser's state keeps its types. *)
THEOREM TypeCorrect == Spec => []TypeOK
<1>1. TypeOK /\ [Next]_vars => TypeOK'
  <2>1. TypeOK /\ UNCHANGED vars => TypeOK'
    BY DEF TypeOK, vars
  <2> QED
    BY <2>1, StepTyped
<1> QED
  BY <1>1, InitTyped, PTL DEF Spec

-----------------------------------------------------------------------------
(* The shape of the trees. *)

(* A node's fit depends on its children only, and they are older. *)
LEMMA FitsSame ==
  ASSUME NEW n \in Node, NEW i \in Nat, KidsBelow(n, i), NEW ns, NEW ms,
         \A k \in 1 .. i - 1 : ms[k] = ns[k],
         NodeFits(n, ns)
  PROVE  NodeFits(n, ms)
<1>1. n.kids \in Seq(Nat)
  BY DEF Node
<1>2. CASE n.kids = << >>
  BY <1>2 DEF KidsBelow, NodeFits
<1>3. CASE n.kids # << >>
  <2>1. Len(n.kids) \in Nat \ {0} /\ DOMAIN n.kids = 1 .. Len(n.kids)
    BY <1>1, <1>3, PopFacts, LenProperties
  <2>2. 1 \in DOMAIN n.kids /\ Len(n.kids) \in DOMAIN n.kids
    BY <2>1
  <2>3. n.kids[1] \in 1 .. i - 1 /\ n.kids[Len(n.kids)] \in 1 .. i - 1
    BY <2>2 DEF KidsBelow
  <2>4. ms[n.kids[1]] = ns[n.kids[1]] /\ ms[n.kids[Len(n.kids)]] = ns[n.kids[Len(n.kids)]]
    BY <2>3
  <2> QED
    BY <2>4 DEF NodeFits
<1> QED
  BY <1>2, <1>3

(* A fitting node put after fitting nodes. *)
LEMMA OneMoreFits ==
  ASSUME NEW c \in Nat, NEW ns, NEW ms, NEW n \in Node,
         \A i \in 1 .. c : ns[i] \in Node /\ KidsBelow(ns[i], i) /\ NodeFits(ns[i], ns),
         KidsBelow(n, c + 1), NodeFits(n, ns),
         \A i \in 1 .. c : ms[i] = ns[i], ms[c + 1] = n
  PROVE  \A i \in 1 .. c + 1 : KidsBelow(ms[i], i) /\ NodeFits(ms[i], ms)
<1>1. ASSUME NEW i \in 1 .. c
      PROVE  KidsBelow(ms[i], i) /\ NodeFits(ms[i], ms)
  <2>1. i \in Nat /\ ms[i] = ns[i] /\ ns[i] \in Node
    OBVIOUS
  <2>2. \A k \in 1 .. i - 1 : ms[k] = ns[k]
    OBVIOUS
  <2>3. KidsBelow(ns[i], i) /\ NodeFits(ns[i], ns)
    OBVIOUS
  <2>4. NodeFits(ns[i], ms)
    BY ONLY <2>1, <2>2, <2>3, FitsSame
  <2> QED
    BY <2>1, <2>3, <2>4
<1>2. NodeFits(n, ms)
  <2>1. c + 1 \in Nat /\ \A k \in 1 .. (c + 1) - 1 : ms[k] = ns[k]
    OBVIOUS
  <2> DEFINE j == c + 1
  <2>2. j \in Nat /\ KidsBelow(n, j) /\ \A k \in 1 .. j - 1 : ms[k] = ns[k]
    BY <2>1
  <2> HIDE DEF j
  <2> QED
    BY <2>2, FitsSame
<1> QED
  BY <1>1, <1>2

LEMMA AppendFits ==
  ASSUME NEW ns \in Seq(Node), NEW n \in Node,
         \A i \in DOMAIN ns : KidsBelow(ns[i], i) /\ NodeFits(ns[i], ns),
         KidsBelow(n, Len(ns) + 1), NodeFits(n, ns)
  PROVE  \A i \in DOMAIN Append(ns, n) :
            /\ KidsBelow(Append(ns, n)[i], i)
            /\ NodeFits(Append(ns, n)[i], Append(ns, n))
<1> DEFINE ms == Append(ns, n)
           c == Len(ns)
<1>1. /\ DOMAIN ms = 1 .. c + 1 /\ ms[c + 1] = n /\ c \in Nat
      /\ \A i \in 1 .. c : ms[i] = ns[i]
  BY AppendProperties, LenProperties
<1>2. DOMAIN ns = 1 .. c /\ \A i \in 1 .. c : ns[i] \in Node
  BY LenProperties, ElementOfSeq
<1>3. \A i \in 1 .. c : KidsBelow(ns[i], i) /\ NodeFits(ns[i], ns)
  BY <1>2
<1>4. KidsBelow(n, c + 1)
  OBVIOUS
<1> HIDE DEF ms, c
<1>5. \A i \in 1 .. c + 1 : KidsBelow(ms[i], i) /\ NodeFits(ms[i], ms)
  BY <1>1, <1>2, <1>3, <1>4, OneMoreFits
<1> QED
  BY <1>1, <1>5 DEF ms

(* A frame that fits still does when later nodes change. *)
LEMMA KeptMore ==
  ASSUME NEW f, NEW k \in Int, NEW m \in Int, k <= m, KeptNodes(f, k)
  PROVE  KeptNodes(f, m)
BY DEF KeptNodes

LEMMA FrameSame ==
  ASSUME NEW f, NEW caller, NEW kept, KeptNodes(f, kept), NEW ns, NEW ms,
         \A j \in 1 .. kept : ms[j] = ns[j],
         FrameFits(f, caller, ns)
  PROVE  FrameFits(f, caller, ms)
BY DEF KeptNodes, FrameFits

(* What a node binds on either side. *)
LEMMA KindBinds ==
  ASSUME NEW n
  PROVE  /\ n.kind \in {"Var", "Num"} => LeftPower(n) = 0 /\ ~EndsInOperand(n)
         /\ n.kind = "Call" => LeftPower(n) = CALL_BP /\ ~EndsInOperand(n)
         /\ n.kind = "SubScript" => LeftPower(n) = SUBSCRIPT_BP /\ ~EndsInOperand(n)
         /\ n.kind = "PreOp" /\ n.post => LeftPower(n) = bp_postfix(n.op) /\ ~EndsInOperand(n)
         /\ n.kind = "PreOp" /\ ~n.post => LeftPower(n) = 0 /\ RightPower(n) = bp_prefix(n.op)
         /\ n.kind = "TypeCast" => LeftPower(n) = 0 /\ RightPower(n) = CAST_BP
         /\ n.kind = "BinOp" =>
               /\ LeftPower(n) = bp_infix_left(n.op)
               /\ RightPower(n) = bp_infix_right(n.op)
BY DEF LeftPower, EndsInOperand, RightPower

LEMMA MakeFits ==
  ASSUME TypeOK, KidsOlder, Precedence, NEW n \in Node, nodes' = Append(nodes, n),
         KidsBelow(n, Len(nodes) + 1), NodeFits(n, nodes)
  PROVE  KidsOlder' /\ Precedence'
<1>1. /\ nodes \in Seq(Node)
      /\ \A i \in DOMAIN nodes : KidsBelow(nodes[i], i) /\ NodeFits(nodes[i], nodes)
  BY DEF TypeOK, KidsOlder, Precedence
<1>2. \A i \in DOMAIN Append(nodes, n) :
         /\ KidsBelow(Append(nodes, n)[i], i)
         /\ NodeFits(Append(nodes, n)[i], Append(nodes, n))
  BY <1>1, AppendFits
<1> QED
  BY <1>2 DEF KidsOlder, Precedence

(* The node in hand is no child of a node, nor kept by a frame. *)
LEMMA KeptIsInt == TypeOK => Kept \in Int /\ Len(nodes) \in Nat /\ Kept <= Len(nodes)
<1> SUFFICES ASSUME TypeOK PROVE Kept \in Int /\ Len(nodes) \in Nat /\ Kept <= Len(nodes)
  OBVIOUS
<1>1. Len(nodes) \in Nat
  BY LenProperties DEF TypeOK
<1> QED
  BY <1>1 DEF Kept

(* The frames that stay fit as before. *)
LEMMA FramesStay ==
  ASSUME TypeOK, TypeOK', FramesFit, Kept <= Kept',
         \A j \in 1 .. Kept : nodes'[j] = nodes[j],
         NEW m \in Nat, m <= Len(frames), Len(frames') >= m,
         \A i \in 1 .. m : frames'[i] = frames[i]
  PROVE  /\ \A i \in 1 .. m : KeptNodes(frames'[i], Kept')
         /\ \A i \in 2 .. m : FrameFits(frames'[i], frames'[i - 1], nodes')
<1>1. Kept \in Int /\ Kept' \in Int
  <2>1. Len(nodes) \in Nat /\ Len(nodes') \in Nat
    BY LenProperties DEF TypeOK
  <2> QED
    BY <2>1 DEF Kept
<1>2. Len(frames) \in Nat /\ DOMAIN frames = 1 .. Len(frames)
  BY LenProperties DEF TypeOK
<1>3. ASSUME NEW i \in 1 .. m
      PROVE  KeptNodes(frames'[i], Kept')
  <2>1. KeptNodes(frames[i], Kept)
    BY <1>2 DEF FramesFit
  <2>2. KeptNodes(frames[i], Kept')
    BY <1>1, <2>1, KeptMore
  <2> QED
    BY <2>2
<1>4. ASSUME NEW i \in 2 .. m
      PROVE  FrameFits(frames'[i], frames'[i - 1], nodes')
  <2>1. KeptNodes(frames[i], Kept) /\ FrameFits(frames[i], frames[i - 1], nodes)
    BY <1>2 DEF FramesFit
  <2>2. FrameFits(frames[i], frames[i - 1], nodes')
    BY <2>1, FrameSame
  <2>3. frames'[i] = frames[i] /\ frames'[i - 1] = frames[i - 1]
    OBVIOUS
  <2> QED
    BY <2>2, <2>3
<1> QED
  BY <1>3, <1>4

(* A return to the caller, or none. *)
LEMMA FramesBack ==
  ASSUME TypeOK, TypeOK', FramesFit, Kept <= Kept',
         \A j \in 1 .. Kept : nodes'[j] = nodes[j],
         frames' = frames \/ frames' = Callers
  PROVE  FramesFit'
<1> DEFINE m == Len(frames')
<1>1. m \in Nat /\ DOMAIN frames' = 1 .. m
  BY LenProperties DEF TypeOK
<1>2. m <= Len(frames) /\ \A i \in 1 .. m : frames'[i] = frames[i]
  BY <1>1, TopFrames
<1> HIDE DEF m
<1>3. /\ \A i \in 1 .. m : KeptNodes(frames'[i], Kept')
      /\ \A i \in 2 .. m : FrameFits(frames'[i], frames'[i - 1], nodes')
  BY <1>1, <1>2, FramesStay DEF m
<1> QED
  BY <1>1, <1>3 DEF FramesFit, m

(* A call: the new frame has to fit below the last of those that stay. *)
LEMMA FramesOn ==
  ASSUME TypeOK, TypeOK', FramesFit, Kept <= Kept', nodes' = nodes,
         NEW base \in Seq(Activation), Len(base) <= Len(frames), base # << >>,
         \A i \in 1 .. Len(base) : base[i] = frames[i],
         NEW f \in Activation, frames' = Append(base, f),
         KeptNodes(f, Kept'), FrameFits(f, base[Len(base)], nodes)
  PROVE  FramesFit'
<1> DEFINE m == Len(base)
<1>1. /\ m \in Nat \ {0} /\ Len(frames') = m + 1 /\ DOMAIN frames' = 1 .. m + 1
      /\ \A i \in 1 .. m : frames'[i] = base[i]
      /\ frames'[m + 1] = f
  BY AppendProperties, PopFacts
<1>2. m <= Len(frames) /\ \A i \in 1 .. m : frames'[i] = frames[i]
  BY <1>1
<1>3. base[m] = frames'[m]
  BY <1>1
<1>4. FrameFits(f, frames'[m], nodes')
  BY <1>3
<1> HIDE DEF m
<1>5. /\ \A i \in 1 .. m : KeptNodes(frames'[i], Kept')
      /\ \A i \in 2 .. m : FrameFits(frames'[i], frames'[i - 1], nodes')
  BY <1>1, <1>2, FramesStay
<1>6. \A i \in 1 .. m + 1 : KeptNodes(frames'[i], Kept')
  BY <1>1, <1>5
<1>7. \A i \in 2 .. m + 1 : FrameFits(frames'[i], frames'[i - 1], nodes')
  <2> SUFFICES ASSUME NEW i \in 2 .. m + 1
               PROVE  FrameFits(frames'[i], frames'[i - 1], nodes')
    OBVIOUS
  <2>1. CASE i \in 2 .. m
    BY <1>5, <2>1
  <2>2. CASE i = m + 1
    <3>1. i - 1 = m /\ frames'[i] = f
      BY <1>1, <2>2
    <3> QED
      BY <1>4, <3>1
  <2> QED
    BY <1>1, <2>1, <2>2
<1> QED
  BY <1>1, <1>6, <1>7 DEF FramesFit

(* What the invariant says of the innermost frame. *)
LEMMA TopFits ==
  ASSUME TypeOK, FramesFit
  PROVE  /\ KeptNodes(Frame, Kept)
         /\ Frame.role # "root" => FrameFits(Frame, Caller, nodes)
<1>1. Len(frames) \in Nat \ {0} /\ DOMAIN frames = 1 .. Len(frames)
  BY TopFrames, LenProperties DEF TypeOK
<1>2. KeptNodes(Frame, Kept)
  BY <1>1 DEF FramesFit, Frame
<1>3. ASSUME Frame.role # "root"
      PROVE  FrameFits(Frame, Caller, nodes)
  <2>1. Len(frames) \in 2 .. Len(frames)
    BY <1>1, <1>3, TopFrames
  <2> QED
    BY <2>1 DEF FramesFit, Frame, Caller
<1> QED
  BY <1>2, <1>3

(* A recursive call, for an operand of what the caller has in hand. *)
LEMMA CallFits ==
  ASSUME TypeOK, TypeOK', Inductive, mode # "error",
         NEW base \in Seq(Activation), Len(base) <= Len(frames), base # << >>,
         \A i \in 1 .. Len(base) : base[i] = frames[i],
         nodes' = nodes, mode' = "operand",
         NEW f \in Activation, frames' = Append(base, f),
         KeptNodes(f, Len(nodes)), FrameFits(f, base[Len(base)], nodes)
  PROVE  Inductive'
<1>1. Kept' = Len(nodes) /\ Kept <= Kept'
  BY KeptIsInt DEF Kept
<1>2. FramesFit
  BY DEF Inductive
<1>3. FramesFit'
  BY <1>1, <1>2, FramesOn
<1>4. KidsOlder' /\ Precedence'
  BY DEF Inductive, KidsOlder, Precedence
<1> QED
  BY <1>3, <1>4 DEF Inductive, LoopFits

(* A node made, which is the one in hand from now on. *)
LEMMA NodeMadeFits ==
  ASSUME TypeOK, TypeOK', Inductive, mode \in {"operand", "loop"},
         NEW n \in Node, nodes' = Append(nodes, n), mode' = "loop",
         frames' = frames \/ frames' = Callers,
         KidsBelow(n, Len(nodes) + 1), NodeFits(n, nodes),
         RightFits(Frame'.min, n),
         Power(tok') # 0 => LeftFits(Power(tok'), n)
  PROVE  Inductive'
<1>1. FramesFit /\ KidsOlder /\ Precedence
  BY DEF Inductive
<1>2. KidsOlder' /\ Precedence'
  BY <1>1, MakeFits
<1>3. /\ nodes \in Seq(Node) /\ Len(nodes) \in Nat /\ Len(nodes') = Len(nodes) + 1
      /\ nodes'[Len(nodes) + 1] = n /\ \A j \in 1 .. Len(nodes) : nodes'[j] = nodes[j]
  BY AppendProperties, LenProperties DEF TypeOK
<1>4. Kept' = Len(nodes) /\ Kept <= Kept'
  BY <1>3, KeptIsInt DEF Kept
<1>5. \A j \in 1 .. Kept : nodes'[j] = nodes[j]
  BY <1>3, KeptIsInt
<1>6. FramesFit'
  BY <1>1, <1>4, <1>5, FramesBack
<1>7. nodes'[Out'] = n
  BY <1>3 DEF Out
<1>8. LoopFits'
  BY <1>7 DEF LoopFits
<1> QED
  BY <1>2, <1>6, <1>8 DEF Inductive

LEMMA CallerIsNext ==
  ASSUME TypeOK, Frame.role # "root", frames' = Callers
  PROVE  Frame' = Caller
<1>1. /\ Len(frames) > 1 /\ Len(frames) \in Nat /\ Len(Callers) = Len(frames) - 1
      /\ \A i \in 1 .. Len(frames) - 1 : Callers[i] = frames[i]
  BY TopFrames
<1>2. Frame' = Callers[Len(Callers)]
  BY DEF Frame
<1>3. Callers[Len(frames) - 1] = frames[Len(frames) - 1]
  BY <1>1
<1> QED
  BY <1>1, <1>2, <1>3 DEF Caller

(* The frame of a call in progress, its callee and arguments. *)
LEMMA BelowTheTop ==
  ASSUME TypeOK, Frame.role # "root"
  PROVE  /\ Callers \in Seq(Activation) /\ Callers # << >> /\ Len(Callers) <= Len(frames)
         /\ \A i \in 1 .. Len(Callers) : Callers[i] = frames[i]
         /\ Callers[Len(Callers)] = Caller
<1>1. /\ Len(frames) > 1 /\ Len(frames) \in Nat /\ Len(Callers) = Len(frames) - 1
      /\ \A i \in 1 .. Len(frames) - 1 : Callers[i] = frames[i]
      /\ Callers \in Seq(Activation) /\ Callers # << >>
  BY TopFrames
<1>2. Callers[Len(frames) - 1] = frames[Len(frames) - 1]
  BY <1>1
<1> QED
  BY <1>1, <1>2 DEF Caller

LEMMA WholeStack ==
  ASSUME TypeOK
  PROVE  /\ frames \in Seq(Activation) /\ frames # << >> /\ Len(frames) <= Len(frames)
         /\ \A i \in 1 .. Len(frames) : frames[i] = frames[i]
         /\ frames[Len(frames)] = Frame
BY TopFrames DEF TypeOK, Frame

(* The parser begins with the invariant. *)
LEMMA InitFits == Init => Inductive
<1> SUFFICES ASSUME Init PROVE Inductive
  OBVIOUS
<1>1. mode = "operand" /\ nodes = << >> /\ frames = <<Root>>
  BY DEF Init
<1>2. DOMAIN nodes = {} /\ DOMAIN frames = {1} /\ frames[1] = Root /\ Len(frames) = 1
  BY <1>1
<1>3. Root.role = "root" /\ DOMAIN Root.args = {}
  BY DEF Root
<1>4. KeptNodes(frames[1], Kept)
  BY <1>2, <1>3 DEF KeptNodes
<1>5. FramesFit
  BY <1>2, <1>4 DEF FramesFit
<1> QED
  BY <1>1, <1>2, <1>5 DEF Inductive, KidsOlder, Precedence, LoopFits

(* The calls that start an operand. *)
LEMMA OpenFits ==
  ASSUME TypeOK, TypeOK', Inductive, mode = "operand", NEW f \in Activation,
         nodes' = nodes, mode' = "operand", frames' = Append(frames, f),
         f.role \in {"prefix", "paren", "cast"}, f.args = << >>,
         f.role = "prefix" => f.min = bp_prefix(f.op),
         f.role = "cast" => f.min = CAST_BP
  PROVE  Inductive'
<1>1. DOMAIN f.args = {}
  OBVIOUS
<1>2. KeptNodes(f, Len(nodes))
  BY <1>1 DEF KeptNodes
<1>3. FrameFits(f, frames[Len(frames)], nodes)
  BY DEF FrameFits
<1> QED
  BY <1>2, <1>3, CallFits, WholeStack

(* The calls of the loop, with the operand in hand on the left. *)
LEMMA ContinueFits ==
  ASSUME TypeOK, TypeOK', Inductive, Goes, NEW f \in Activation,
         nodes' = nodes, mode' = "operand", frames' = Append(frames, f),
         f.role \in {"right", "index", "arg"}, f.args = << >>, f.left = Out,
         f.role = "right" => f.min = bp_infix_right(f.op),
         FramePower(f) = Power(tok)
  PROVE  Inductive'
<1>1. DOMAIN f.args = {}
  OBVIOUS
<1>2. mode = "loop"
  BY DEF Goes
<1>3. Out \in 1 .. Len(nodes)
  <2>1. Len(nodes) \in Nat \ {0}
    BY <1>2, InHand DEF Index, Out
  <2> QED
    BY <2>1 DEF Out
<1>4. KeptNodes(f, Len(nodes))
  BY <1>1, <1>3 DEF KeptNodes
<1>5. Power(tok) # 0 /\ Power(tok) >= Frame.min /\ LeftFits(Power(tok), nodes[Out])
  BY <1>2 DEF Goes, Binds, Inductive, LoopFits
<1>6. FrameFits(f, Frame, nodes)
  BY <1>5 DEF FrameFits
<1> QED
  BY <1>2, <1>4, <1>6, CallFits, WholeStack

(* The next argument: the frame of the call in progress is replaced. *)
LEMMA NextArgFits ==
  ASSUME TypeOK, TypeOK', Inductive, NEW f \in Activation,
         mode = "loop", Frame.role = "arg",
         nodes' = nodes, mode' = "operand", frames' = Append(Callers, f),
         f.role = "arg", f.left = Frame.left, f.args = Append(Frame.args, Out)
  PROVE  Inductive'
<1>1. FramesFit
  BY DEF Inductive
<1>2. KeptNodes(Frame, Kept) /\ FrameFits(Frame, Caller, nodes)
  BY <1>1, TopFits
<1>3. Frame.args \in Seq(Nat) /\ Out \in Nat \ {0} /\ Len(nodes) = Out /\ Kept = Out - 1
  BY FrameFields, InHand DEF Index, Kept
<1>4. /\ DOMAIN f.args = 1 .. Len(Frame.args) + 1 /\ DOMAIN Frame.args = 1 .. Len(Frame.args)
      /\ Len(Frame.args) \in Nat
      /\ \A k \in 1 .. Len(Frame.args) : f.args[k] = Frame.args[k]
      /\ f.args[Len(Frame.args) + 1] = Out
  BY <1>3, AppendProperties, LenProperties
<1>5. \A k \in DOMAIN Frame.args : Frame.args[k] \in 1 .. Out - 1
  BY <1>2, <1>3 DEF KeptNodes
<1>6. \A k \in DOMAIN f.args : f.args[k] \in 1 .. Out
  BY <1>3, <1>4, <1>5
<1>7. f.left \in 1 .. Out
  BY <1>2, <1>3 DEF KeptNodes
<1>8. KeptNodes(f, Len(nodes))
  BY <1>3, <1>6, <1>7 DEF KeptNodes
<1>9. FrameFits(f, Caller, nodes)
  BY <1>2 DEF FrameFits, FramePower
<1> QED
  BY <1>8, <1>9, CallFits, BelowTheTop

(* What a node of an operand on the left needs, on either side. *)
LEMMA OperandFits ==
  ASSUME TypeOK, TypeOK', Inductive, mode \in {"operand", "loop"},
         Frame.role \in {"right", "index", "arg"},
         NEW n \in Node, nodes' = Append(nodes, n), mode' = "loop", frames' = Callers,
         n.kids # << >>, n.kids[1] = Frame.left,
         \A k \in DOMAIN n.kids : n.kids[k] \in 1 .. Len(nodes),
         LeftPower(n) = FramePower(Frame),
         EndsInOperand(n) => RightFits(RightPower(n), nodes[n.kids[Len(n.kids)]]),
         Power(tok') # 0 => LeftFits(Power(tok'), n)
  PROVE  Inductive'
<1>1. FrameFits(Frame, Caller, nodes)
  BY TopFits DEF Inductive
<1>2. /\ FramePower(Frame) >= Caller.min
      /\ LeftFits(FramePower(Frame), nodes[Frame.left])
  BY <1>1 DEF FrameFits
<1>3. NodeFits(n, nodes)
  BY <1>2 DEF NodeFits
<1>4. Len(nodes) \in Nat /\ (Len(nodes) + 1) - 1 = Len(nodes)
  BY LenProperties DEF TypeOK
<1>5. KidsBelow(n, Len(nodes) + 1)
  BY <1>4 DEF KidsBelow
<1>6. RightFits(Frame'.min, n)
  BY <1>2, CallerIsNext DEF RightFits
<1> QED
  BY <1>3, <1>5, <1>6, NodeMadeFits

(* A node without an operand on its left: an atom, a prefix or a cast. *)
LEMMA UnaryFits ==
  ASSUME TypeOK, TypeOK', Inductive, mode \in {"operand", "loop"},
         frames' = frames \/ frames' = Callers,
         NEW n \in Node, nodes' = Append(nodes, n), mode' = "loop",
         \A k \in DOMAIN n.kids : n.kids[k] \in 1 .. Len(nodes),
         LeftPower(n) = 0,
         EndsInOperand(n) =>
            /\ n.kids # << >>
            /\ RightFits(RightPower(n), nodes[n.kids[Len(n.kids)]])
            /\ Power(tok') # 0 => Power(tok') < RightPower(n)
  PROVE  Inductive'
<1>1. NodeFits(n, nodes)
  BY DEF NodeFits
<1>2. Len(nodes) \in Nat /\ (Len(nodes) + 1) - 1 = Len(nodes)
  BY LenProperties DEF TypeOK
<1>3. KidsBelow(n, Len(nodes) + 1)
  BY <1>2 DEF KidsBelow
<1>4. RightFits(Frame'.min, n)
  BY DEF RightFits
<1>5. Power(tok') # 0 => LeftFits(Power(tok'), n)
  BY DEF LeftFits
<1> QED
  BY <1>1, <1>3, <1>4, <1>5, NodeMadeFits

(* a++ : the operand in hand becomes the child. *)
LEMMA PostfixFits ==
  ASSUME TypeOK, TypeOK', Inductive, Goes,
         NEW n \in Node, nodes' = Append(nodes, n), mode' = "loop", frames' = frames,
         n.kids = <<Out>>, LeftPower(n) = Power(tok), ~EndsInOperand(n)
  PROVE  Inductive'
<1>1. mode = "loop" /\ Power(tok) # 0 /\ Power(tok) >= Frame.min
  BY DEF Goes, Binds
<1>2. LeftFits(Power(tok), nodes[Out])
  BY <1>1 DEF Inductive, LoopFits
<1>3. Out \in Nat \ {0} /\ Len(nodes) = Out
  BY <1>1, InHand DEF Index
<1>4. n.kids[1] = Out /\ n.kids # << >> /\ DOMAIN n.kids = {1}
  OBVIOUS
<1>5. NodeFits(n, nodes)
  BY <1>2, <1>4 DEF NodeFits
<1>6. (Len(nodes) + 1) - 1 = Out /\ Out \in 1 .. Out
  BY <1>3
<1>7. KidsBelow(n, Len(nodes) + 1)
  BY <1>4, <1>6 DEF KidsBelow
<1>8. RightFits(Frame'.min, n)
  <2>1. Frame' = Frame
    BY DEF Frame
  <2> QED
    BY <1>1, <2>1 DEF RightFits
<1>9. Power(tok') # 0 => LeftFits(Power(tok'), n)
  BY DEF LeftFits
<1> QED
  BY <1>1, <1>5, <1>7, <1>8, <1>9, NodeMadeFits

(* ( a ): the node in hand is widened, and is no looser for it. *)
LEMMA ParenFits ==
  ASSUME TypeOK, TypeOK', Inductive, mode = "loop", mode' = "loop", Frame.role # "root",
         NEW w \in Node, nodes' = [nodes EXCEPT ![Out] = w], frames' = Callers,
         w.kind = nodes[Out].kind, w.op = nodes[Out].op, w.kids = nodes[Out].kids,
         w.post = nodes[Out].post, w.wraps # 0
  PROVE  Inductive'
<1>1. Out \in Nat \ {0} /\ Len(nodes) = Out /\ nodes \in Seq(Node) /\ nodes[Out] \in Node
  BY InHand DEF Index
<1>2. /\ DOMAIN nodes = 1 .. Out /\ DOMAIN nodes' = 1 .. Out /\ Len(nodes') = Out
      /\ nodes'[Out] = w
      /\ \A j \in 1 .. Out - 1 : nodes'[j] = nodes[j]
      /\ \A j \in 1 .. Out : nodes[j] \in Node
  BY <1>1
<1>3. \A i \in 1 .. Out : KidsBelow(nodes[i], i) /\ NodeFits(nodes[i], nodes)
  BY <1>2 DEF Inductive, KidsOlder, Precedence
<1>4. ASSUME NEW i \in 1 .. Out
      PROVE  NodeFits(nodes[i], nodes')
  <2>1. i \in Nat /\ nodes[i] \in Node /\ KidsBelow(nodes[i], i) /\ NodeFits(nodes[i], nodes)
    BY <1>1, <1>2, <1>3
  <2>2. \A k \in 1 .. i - 1 : nodes'[k] = nodes[k]
    BY <1>1, <1>2
  <2> QED
    BY ONLY <2>1, <2>2, FitsSame
<1>5. /\ KidsBelow(nodes[Out], Out) /\ NodeFits(nodes[Out], nodes')
      /\ LeftPower(w) = LeftPower(nodes[Out]) /\ RightPower(w) = RightPower(nodes[Out])
      /\ EndsInOperand(w) = EndsInOperand(nodes[Out])
  <2>1. Out \in 1 .. Out
    BY <1>1
  <2>2. KidsBelow(nodes[Out], Out) /\ NodeFits(nodes[Out], nodes')
    BY <1>3, <1>4, <2>1
  <2> QED
    BY <2>2 DEF LeftPower, RightPower, EndsInOperand
<1>6. KidsBelow(w, Out) /\ NodeFits(w, nodes')
  BY <1>5 DEF KidsBelow, NodeFits
<1>7. \A i \in 1 .. Out : KidsBelow(nodes'[i], i) /\ NodeFits(nodes'[i], nodes')
  <2> SUFFICES ASSUME NEW i \in 1 .. Out
               PROVE  KidsBelow(nodes'[i], i) /\ NodeFits(nodes'[i], nodes')
    OBVIOUS
  <2>1. CASE i = Out
    BY <1>2, <1>6, <2>1
  <2>2. CASE i # Out
    <3>1. nodes'[i] = nodes[i]
      BY <1>1, <1>2, <2>2
    <3> QED
      BY <1>3, <1>4, <3>1
  <2> QED
    BY <2>1, <2>2
<1>8. KidsOlder' /\ Precedence'
  BY <1>2, <1>7 DEF KidsOlder, Precedence
<1>9. FramesFit'
  <2>1. FramesFit
    BY DEF Inductive
  <2>2. Kept = Out - 1 /\ Kept' = Out - 1 /\ Kept <= Kept'
    BY <1>1, <1>2 DEF Kept
  <2>3. \A j \in 1 .. Kept : nodes'[j] = nodes[j]
    BY <1>2, <2>2
  <2> QED
    BY <2>1, <2>2, <2>3, FramesBack
<1>10. nodes'[Out'] = w
  <2>1. Out' = Out
    BY <1>2 DEF Out
  <2> QED
    BY <1>2, <2>1
<1>11. LoopFits'
  BY <1>10 DEF LoopFits, RightFits, LeftFits
<1> QED
  BY <1>8, <1>9, <1>11 DEF Inductive

(* What ends or stops the parser leaves the trees as they are. *)
LEMMA EndFits ==
  ASSUME TypeOK, TypeOK', Inductive, UNCHANGED <<input, nodes, frames>>,
         mode' = "error" \/ (mode = "loop" /\ mode' = "done")
  PROVE  Inductive'
<1>1. KidsOlder' /\ Precedence'
  BY DEF Inductive, KidsOlder, Precedence
<1>2. CASE mode' = "error"
  BY <1>1, <1>2 DEF Inductive
<1>3. CASE mode = "loop" /\ mode' = "done"
  <2>1. Kept' = Kept /\ FramesFit
    BY <1>3 DEF Kept, Inductive
  <2>2. FramesFit'
    BY <2>1 DEF FramesFit
  <2> QED
    BY <1>1, <1>3, <2>2 DEF Inductive, LoopFits
<1> QED
  BY <1>2, <1>3

LEMMA SameFits ==
  ASSUME Inductive, UNCHANGED <<input, nodes, frames, mode>>
  PROVE  Inductive'
BY DEF Inductive, KidsOlder, Precedence, FramesFit, Kept, LoopFits, Frame, Out, tok

(* The node in hand and what the innermost frame keeps have been made. *)
LEMMA HandAndKept ==
  ASSUME TypeOK, Inductive, mode = "loop"
  PROVE  /\ Out \in 1 .. Len(nodes)
         /\ Frame.role \in {"right", "index", "arg"} => Frame.left \in 1 .. Len(nodes)
         /\ \A k \in DOMAIN Frame.args : Frame.args[k] \in 1 .. Len(nodes)
<1>1. Out \in 1 .. Len(nodes)
  BY InHand DEF Index
<1>2. KeptNodes(Frame, Len(nodes))
  <2>1. KeptNodes(Frame, Kept) /\ Kept \in Int /\ Len(nodes) \in Int /\ Kept <= Len(nodes)
    BY TopFits, KeptIsInt DEF Inductive
  <2> QED
    BY <2>1, KeptMore
<1> QED
  BY <1>1, <1>2 DEF KeptNodes

(* The children of a call: the callee, the arguments read and the last one. *)
LEMMA CalleeAndArguments ==
  ASSUME NEW left \in Nat, NEW args \in Seq(Nat), NEW last \in Nat, NEW top \in Nat,
         left \in 1 .. top, last \in 1 .. top,
         \A k \in DOMAIN args : args[k] \in 1 .. top
  PROVE  LET kids == <<left>> \o Append(args, last) IN
         /\ kids \in Seq(Nat) /\ kids # << >> /\ kids[1] = left
         /\ \A k \in DOMAIN kids : kids[k] \in 1 .. top
<1> DEFINE kids == <<left>> \o Append(args, last)
<1>1. /\ Append(args, last) \in Seq(1 .. top)
  <2>1. args \in Seq(1 .. top)
    BY LenProperties
  <2> QED
    BY <2>1, AppendProperties
<1>2. kids \in Seq(1 .. top) /\ Len(kids) = 1 + Len(Append(args, last)) /\ kids[1] = left
  BY <1>1
<1>3. kids # << >>
  BY <1>1, <1>2, LenProperties, EmptySeq
<1> QED
  BY <1>2, <1>3, LenProperties

(* Every step of the parser keeps the invariant. *)
LEMMA StepFits ==
  ASSUME TypeOK, TypeOK', Inductive, Next
  PROVE  Inductive'
<1>a. DOMAIN << >> = {} /\ 0 \in Nat /\ << >> \in Seq(Nat) /\ "" \in OperatorKinds \cup {""}
  OBVIOUS
<1>r. {"prefix", "cast", "right", "paren", "index", "arg"} \subseteq Roles
  BY DEF Roles
<1>p. Power(tok) \in Nat /\ Power(tok') \in Nat /\ Frame.min \in Nat
  BY PowersAreNumbers, FrameFields
<1>t. mode # "error" => /\ KeptNodes(Frame, Kept)
                        /\ Frame.role # "root" => FrameFits(Frame, Caller, nodes)
  BY TopFits DEF Inductive
<1>n. Len(nodes) \in Nat /\ Out = Len(nodes)
  BY LenProperties DEF TypeOK, Out
<1>1. CASE Prefix
  <2> DEFINE f == [role |-> "prefix", op |-> tok, left |-> 0, args |-> << >>,
                   min |-> bp_prefix(tok), start |-> Len(input) + 1]
  <2>1. tok \in OperatorKinds \cup {""} /\ bp_prefix(tok) \in Nat
    BY <1>1, TokenKinds, PowersAreNumbers DEF Prefix
  <2>2. f \in Activation
    BY <1>a, <1>r, <2>1, NewFrame
  <2>3. /\ mode = "operand" /\ nodes' = nodes /\ mode' = "operand" /\ frames' = Append(frames, f)
    BY <1>1 DEF Prefix, Recurse
  <2>4. f.role = "prefix" /\ f.args = << >> /\ f.min = bp_prefix(f.op)
    OBVIOUS
  <2> HIDE DEF f
  <2> QED
    BY <2>2, <2>3, <2>4, OpenFits
<1>2. CASE OpenParen
  <2> DEFINE f == [role |-> "paren", op |-> "", left |-> 0, args |-> << >>,
                   min |-> 0, start |-> Len(input) + 1]
  <2>1. f \in Activation
    BY <1>a, <1>r, NewFrame
  <2>2. /\ mode = "operand" /\ nodes' = nodes /\ mode' = "operand" /\ frames' = Append(frames, f)
    BY <1>2 DEF OpenParen, Recurse
  <2>3. f.role = "paren" /\ f.args = << >>
    OBVIOUS
  <2> HIDE DEF f
  <2> QED
    BY <2>1, <2>2, <2>3, OpenFits
<1>3. CASE OpenCast
  <2> DEFINE f == [role |-> "cast", op |-> "", left |-> 0, args |-> << >>,
                   min |-> CAST_BP, start |-> Len(input) + 1]
  <2>1. CAST_BP \in Nat
    BY DEF CAST_BP
  <2>2. f \in Activation
    BY <1>a, <1>r, <2>1, NewFrame
  <2>3. /\ mode = "operand" /\ nodes' = nodes /\ mode' = "operand" /\ frames' = Append(frames, f)
    BY <1>3 DEF OpenCast, Recurse
  <2>4. f.role = "cast" /\ f.args = << >> /\ f.min = CAST_BP
    OBVIOUS
  <2> HIDE DEF f
  <2> QED
    BY <2>2, <2>3, <2>4, OpenFits
<1>4. CASE Atom
  <2> DEFINE kind == IF tok = "name" THEN "Var" ELSE "Num"
             n == New(kind, "", << >>, Frame.start, Len(input))
  <2>1. kind \in {"Var", "Num"} /\ kind \in Kinds
    BY DEF Kinds
  <2>2. n \in Node
    BY <1>a, <2>1, NewNode, FrameFields, Lookahead
  <2>3. /\ mode = "operand" /\ nodes' = Append(nodes, n) /\ mode' = "loop" /\ frames' = frames
    BY <1>4 DEF Atom
  <2> HIDE DEF kind
  <2>b. n.kind = kind /\ n.kids = << >>
    BY DEF New
  <2> HIDE DEF n
  <2>4. n.kids = << >> /\ LeftPower(n) = 0 /\ ~EndsInOperand(n)
    BY <2>1, <2>b, KindBinds
  <2>5. DOMAIN n.kids = {}
    BY <2>4
  <2> QED
    BY <2>2, <2>3, <2>4, <2>5, UnaryFits
<1>k. mode = "loop" =>
         /\ Out \in 1 .. Len(nodes)
         /\ Frame.role \in {"right", "index", "arg"} => Frame.left \in 1 .. Len(nodes)
         /\ \A k \in DOMAIN Frame.args : Frame.args[k] \in 1 .. Len(nodes)
  BY HandAndKept
<1>5. CASE EmptyCall
  <2> DEFINE n == New("Call", "", <<Frame.left>>, Caller.start, Len(input))
  <2>1. /\ mode = "operand" /\ nodes' = Append(nodes, n) /\ mode' = "loop"
        /\ frames' = Callers /\ Frame.role = "arg"
    BY <1>5 DEF EmptyCall
  <2>2. Frame.left \in Nat /\ Frame.left \in 1 .. Len(nodes)
    BY <1>t, <1>n, <2>1, FrameFields DEF KeptNodes, Kept
  <2>3. n \in Node
    <3>1. <<Frame.left>> \in Seq(Nat) /\ Caller.start \in Index /\ Len(input) \in Nat
      BY <2>1, <2>2, Tuples, FrameFields, Lookahead
    <3> QED
      BY <1>a, <3>1, NewNode DEF Kinds
  <2>b. n.kind = "Call" /\ n.kids = <<Frame.left>>
    BY DEF New
  <2> HIDE DEF n
  <2>4. n.kids = <<Frame.left>> /\ LeftPower(n) = CALL_BP /\ ~EndsInOperand(n)
    BY <2>b, KindBinds
  <2>5. n.kids # << >> /\ n.kids[1] = Frame.left /\ DOMAIN n.kids = {1}
    BY <2>4
  <2>6. LeftPower(n) = FramePower(Frame)
    BY <2>1, <2>4 DEF FramePower
  <2>7. Power(tok') # 0 => LeftFits(Power(tok'), n)
    BY <2>4 DEF LeftFits
  <2> QED
    BY <2>1, <2>2, <2>3, <2>4, <2>5, <2>6, <2>7, OperandFits
<1>6. CASE NoOperand
  BY <1>6, EndFits DEF NoOperand
<1>7. CASE OpenCall
  <2> DEFINE f == [role |-> "arg", op |-> "", left |-> Out, args |-> << >>,
                   min |-> 0, start |-> Len(input) + 1]
  <2>1. f \in Activation
    BY <1>a, <1>r, <1>n, NewFrame
  <2>2. /\ Goes /\ tok = "(" /\ nodes' = nodes /\ mode' = "operand"
        /\ frames' = Append(frames, f)
    BY <1>7 DEF OpenCall, Recurse
  <2>3. f.role = "arg" /\ f.args = << >> /\ f.left = Out
    OBVIOUS
  <2> HIDE DEF f
  <2>4. FramePower(f) = Power(tok)
    BY <2>2, <2>3 DEF FramePower, Power
  <2> QED
    BY <2>1, <2>2, <2>3, <2>4, ContinueFits
<1>8. CASE OpenIndex
  <2> DEFINE f == [role |-> "index", op |-> "", left |-> Out, args |-> << >>,
                   min |-> 0, start |-> Len(input) + 1]
  <2>1. f \in Activation
    BY <1>a, <1>r, <1>n, NewFrame
  <2>2. /\ Goes /\ tok = "[" /\ nodes' = nodes /\ mode' = "operand"
        /\ frames' = Append(frames, f)
    BY <1>8 DEF OpenIndex, Recurse
  <2>3. f.role = "index" /\ f.args = << >> /\ f.left = Out
    OBVIOUS
  <2> HIDE DEF f
  <2>4. FramePower(f) = Power(tok)
    BY <2>2, <2>3 DEF FramePower, Power
  <2> QED
    BY <2>1, <2>2, <2>3, <2>4, ContinueFits
<1>9. CASE Postfix
  <2> DEFINE n == [New("PreOp", tok, <<Out>>, Frame.start, Len(input)) EXCEPT !.post = TRUE]
  <2>1. /\ Goes /\ mode = "loop" /\ bp_postfix(tok) # 0 /\ nodes' = Append(nodes, n)
        /\ frames' = frames /\ mode' = "loop"
    BY <1>9 DEF Postfix, Goes
  <2>2. tok \in OperatorKinds
    BY <2>1 DEF bp_postfix, OperatorKinds
  <2>3. n \in Node
    BY <2>1, <2>2, NewNode, FrameFields, Lookahead, InHand DEF Kinds
  <2>b. n.kind = "PreOp" /\ n.op = tok /\ n.post /\ n.kids = <<Out>>
    BY DEF New
  <2> HIDE DEF n
  <2>4. n.kids = <<Out>> /\ LeftPower(n) = bp_postfix(tok) /\ ~EndsInOperand(n)
    BY <2>b, KindBinds
  <2>5. Power(tok) = bp_postfix(tok)
    BY <2>1, <2>2, PowerOf
  <2> QED
    BY <2>1, <2>3, <2>4, <2>5, PostfixFits
<1>10. CASE Infix
  <2> DEFINE f == [role |-> "right", op |-> tok, left |-> Out, args |-> << >>,
                   min |-> bp_infix_right(tok), start |-> Len(input) + 1]
  <2>1. /\ Goes /\ tok \in OperatorKinds /\ bp_postfix(tok) = 0 /\ nodes' = nodes
        /\ mode' = "operand" /\ frames' = Append(frames, f)
    BY <1>10, TokenKinds DEF Infix, Recurse
  <2>2. f \in Activation
    BY <1>a, <1>r, <1>n, <2>1, PowersAreNumbers, NewFrame
  <2>3. f.role = "right" /\ f.args = << >> /\ f.left = Out /\ f.op = tok
        /\ f.min = bp_infix_right(f.op)
    OBVIOUS
  <2> HIDE DEF f
  <2>4. FramePower(f) = Power(tok)
    BY <2>1, <2>3, PowerOf DEF FramePower
  <2> QED
    BY <2>1, <2>2, <2>3, <2>4, ContinueFits
<1>11. CASE FinishPrefix
  <2> DEFINE n == New("PreOp", Frame.op, <<Out>>, Caller.start, Len(input) - 1)
  <2>1. /\ Stops /\ mode = "loop" /\ Frame.role = "prefix" /\ nodes' = Append(nodes, n)
        /\ frames' = Callers /\ tok' = tok /\ mode' = "loop"
    BY <1>11 DEF FinishPrefix, Finish, Stops, tok
  <2>2. n \in Node
    <3>1. Len(input) - 1 \in Nat
      BY Lookahead
    <3> QED
      BY <2>1, <3>1, NewNode, FrameFields, InHand DEF Kinds
  <2>3. n.kind = "PreOp" /\ ~n.post /\ n.op = Frame.op /\ n.kids = <<Out>>
    BY DEF New
  <2> HIDE DEF n
  <2>4. LeftPower(n) = 0 /\ RightPower(n) = Frame.min
    BY <1>t, <2>1, <2>3, KindBinds DEF FrameFits
  <2>5. DOMAIN n.kids = {1} /\ Len(n.kids) = 1 /\ n.kids[1] = Out /\ n.kids # << >>
    BY <2>3
  <2>6. Out \in 1 .. Len(nodes)
    BY <1>n, <2>1, InHand DEF Index
  <2>7. RightFits(RightPower(n), nodes[Out])
    BY <2>1, <2>4 DEF Inductive, LoopFits
  <2>8. Power(tok') # 0 => Power(tok') < RightPower(n)
    BY <1>p, <2>1, <2>4 DEF Stops, Binds
  <2> QED
    BY <2>1, <2>2, <2>4, <2>5, <2>6, <2>7, <2>8, UnaryFits
<1>12. CASE FinishCast
  <2> DEFINE n == New("TypeCast", Frame.op, <<Out>>, Caller.start, Len(input) - 1)
  <2>1. /\ Stops /\ mode = "loop" /\ Frame.role = "cast" /\ nodes' = Append(nodes, n)
        /\ frames' = Callers /\ tok' = tok /\ mode' = "loop"
    BY <1>12 DEF FinishCast, Finish, Stops, tok
  <2>2. n \in Node
    <3>1. Len(input) - 1 \in Nat
      BY Lookahead
    <3> QED
      BY <2>1, <3>1, NewNode, FrameFields, InHand DEF Kinds
  <2>3. n.kind = "TypeCast" /\ n.kids = <<Out>>
    BY DEF New
  <2> HIDE DEF n
  <2>4. LeftPower(n) = 0 /\ RightPower(n) = Frame.min
    BY <1>t, <2>1, <2>3, KindBinds DEF FrameFits
  <2>5. DOMAIN n.kids = {1} /\ Len(n.kids) = 1 /\ n.kids[1] = Out /\ n.kids # << >>
    BY <2>3
  <2>6. Out \in 1 .. Len(nodes)
    BY <1>n, <2>1, InHand DEF Index
  <2>7. RightFits(RightPower(n), nodes[Out])
    BY <2>1, <2>4 DEF Inductive, LoopFits
  <2>8. Power(tok') # 0 => Power(tok') < RightPower(n)
    BY <1>p, <2>1, <2>4 DEF Stops, Binds
  <2> QED
    BY <2>1, <2>2, <2>4, <2>5, <2>6, <2>7, <2>8, UnaryFits
<1>13. CASE FinishInfix
  <2> DEFINE n == New("BinOp", Frame.op, <<Frame.left, Out>>, Caller.start, Len(input) - 1)
  <2>1. /\ Stops /\ mode = "loop" /\ Frame.role = "right" /\ nodes' = Append(nodes, n)
        /\ frames' = Callers /\ tok' = tok /\ mode' = "loop"
    BY <1>13 DEF FinishInfix, Finish, Stops, tok
  <2>2. Frame.left \in 1 .. Len(nodes) /\ Out \in 1 .. Len(nodes)
    BY <1>k, <2>1
  <2>3. n \in Node
    <3>1. Len(input) - 1 \in Nat /\ <<Frame.left, Out>> \in Seq(Nat)
      BY <1>n, <2>2, Lookahead, Tuples
    <3> QED
      BY <2>1, <3>1, NewNode, FrameFields DEF Kinds
  <2>4. n.kind = "BinOp" /\ n.op = Frame.op /\ n.kids = <<Frame.left, Out>>
    BY DEF New
  <2> HIDE DEF n
  <2>5. Frame.min = bp_infix_right(Frame.op)
    BY <1>t, <2>1 DEF FrameFits
  <2>6. LeftPower(n) = FramePower(Frame) /\ RightPower(n) = Frame.min
    <3>1. LeftPower(n) = bp_infix_left(Frame.op) /\ RightPower(n) = Frame.min
      BY <2>4, <2>5, KindBinds
    <3> QED
      BY <2>1, <3>1 DEF FramePower
  <2>7. /\ DOMAIN n.kids = {1, 2} /\ Len(n.kids) = 2 /\ n.kids # << >>
        /\ n.kids[1] = Frame.left /\ n.kids[2] = Out
    BY <2>4
  <2>8. RightFits(RightPower(n), nodes[Out])
    BY <2>1, <2>6 DEF Inductive, LoopFits
  <2>9. Power(tok') # 0 => LeftFits(Power(tok'), n)
    BY <1>p, <2>1, <2>6 DEF Stops, Binds, LeftFits
  <2>10. \A k \in DOMAIN n.kids : n.kids[k] \in 1 .. Len(nodes)
    BY <2>2, <2>7
  <2> QED
    BY <2>1, <2>3, <2>6, <2>7, <2>8, <2>9, <2>10, OperandFits
<1>14. CASE CloseParen
  <2> DEFINE w == [nodes[Out] EXCEPT !.first = Caller.start, !.last = Len(input),
                                     !.wraps = @ + 1]
  <2>1. /\ mode = "loop" /\ mode' = "loop" /\ Frame.role # "root"
        /\ frames' = Callers /\ nodes' = [nodes EXCEPT ![Out] = w]
    BY <1>14 DEF CloseParen, Stops
  <2>2. nodes[Out] \in Node /\ Caller.start \in Index /\ Len(input) \in Nat
    BY <2>1, InHand, FrameFields, Lookahead
  <2>3. w \in Node
    BY <2>2, WidenedNode
  <2>4. /\ w.kind = nodes[Out].kind /\ w.op = nodes[Out].op /\ w.kids = nodes[Out].kids
        /\ w.post = nodes[Out].post /\ w.wraps = nodes[Out].wraps + 1
    BY <2>2 DEF Node
  <2>5. nodes[Out].wraps \in Nat
    BY <2>2 DEF Node
  <2> HIDE DEF w
  <2>6. w.wraps # 0
    BY <2>4, <2>5
  <2> QED
    BY <2>1, <2>3, <2>4, <2>6, ParenFits
<1>15. CASE CloseIndex
  <2> DEFINE n == New("SubScript", "", <<Frame.left, Out>>, Caller.start, Len(input))
  <2>1. /\ mode = "loop" /\ Frame.role = "index" /\ nodes' = Append(nodes, n)
        /\ frames' = Callers /\ mode' = "loop"
    BY <1>15 DEF CloseIndex, Stops
  <2>2. Frame.left \in 1 .. Len(nodes) /\ Out \in 1 .. Len(nodes)
    BY <1>k, <2>1
  <2>3. n \in Node
    <3>1. <<Frame.left, Out>> \in Seq(Nat)
      BY <1>n, <2>2, Tuples
    <3> QED
      BY <1>a, <2>1, <3>1, NewNode, FrameFields, Lookahead DEF Kinds
  <2>4. n.kind = "SubScript" /\ n.kids = <<Frame.left, Out>>
    BY DEF New
  <2> HIDE DEF n
  <2>5. LeftPower(n) = SUBSCRIPT_BP /\ ~EndsInOperand(n)
    BY <2>4, KindBinds
  <2>6. LeftPower(n) = FramePower(Frame)
    BY <2>1, <2>5 DEF FramePower
  <2>7. /\ DOMAIN n.kids = {1, 2} /\ n.kids # << >>
        /\ n.kids[1] = Frame.left /\ n.kids[2] = Out
    BY <2>4
  <2>8. Power(tok') # 0 => LeftFits(Power(tok'), n)
    BY <2>5 DEF LeftFits
  <2>9. \A k \in DOMAIN n.kids : n.kids[k] \in 1 .. Len(nodes)
    BY <2>2, <2>7
  <2> QED
    BY <2>1, <2>3, <2>5, <2>6, <2>7, <2>8, <2>9, OperandFits
<1>16. CASE NextArg
  <2> DEFINE f == [role |-> "arg", op |-> "", left |-> Frame.left,
                   args |-> Append(Frame.args, Out), min |-> 0, start |-> Len(input) + 1]
  <2>1. /\ mode = "loop" /\ Frame.role = "arg" /\ nodes' = nodes /\ mode' = "operand"
        /\ frames' = Append(Callers, f)
    BY <1>16 DEF NextArg, Recurse, Stops
  <2>2. f \in Activation
    <3>1. Frame.left \in Nat /\ Append(Frame.args, Out) \in Seq(Nat)
      BY <1>n, FrameFields, AppendProperties
    <3> QED
      BY <1>a, <1>r, <3>1, NewFrame
  <2>3. f.role = "arg" /\ f.left = Frame.left /\ f.args = Append(Frame.args, Out)
    OBVIOUS
  <2> HIDE DEF f
  <2> QED
    BY <2>1, <2>2, <2>3, NextArgFits
<1>17. CASE CloseCall
  <2> DEFINE kids == <<Frame.left>> \o Append(Frame.args, Out)
             n == New("Call", "", kids, Caller.start, Len(input))
  <2>1. /\ mode = "loop" /\ Frame.role = "arg" /\ nodes' = Append(nodes, n)
        /\ frames' = Callers /\ mode' = "loop"
    BY <1>17 DEF CloseCall, Stops
  <2>2. /\ Frame.left \in 1 .. Len(nodes) /\ Out \in 1 .. Len(nodes)
        /\ \A k \in DOMAIN Frame.args : Frame.args[k] \in 1 .. Len(nodes)
    BY <1>k, <2>1
  <2>3. Frame.args \in Seq(Nat) /\ Frame.left \in Nat /\ Out \in Nat
    BY <1>n, FrameFields
  <2>4. /\ kids \in Seq(Nat) /\ kids # << >> /\ kids[1] = Frame.left
        /\ \A k \in DOMAIN kids : kids[k] \in 1 .. Len(nodes)
    BY <2>2, <2>3, CalleeAndArguments
  <2> HIDE DEF kids
  <2>5. n \in Node
    BY <1>a, <2>1, <2>4, NewNode, FrameFields, Lookahead DEF Kinds
  <2>6. n.kind = "Call" /\ n.kids = kids
    BY DEF New
  <2> HIDE DEF n
  <2>7. LeftPower(n) = CALL_BP /\ ~EndsInOperand(n)
    BY <2>6, KindBinds
  <2>8. LeftPower(n) = FramePower(Frame)
    BY <2>1, <2>7 DEF FramePower
  <2>9. Power(tok') # 0 => LeftFits(Power(tok'), n)
    BY <2>7 DEF LeftFits
  <2> QED
    BY <2>1, <2>4, <2>5, <2>6, <2>7, <2>8, <2>9, OperandFits
<1>18. CASE NoCloser \/ Accept
  BY <1>18, EndFits DEF NoCloser, Accept, Stops
<1>19. CASE Done
  <2>1. UNCHANGED <<input, nodes, frames, mode>>
    BY <1>19 DEF Done, vars
  <2> QED
    BY <2>1, SameFits
<1> QED
  BY <1>1, <1>2, <1>3, <1>4, <1>5, <1>6, <1>7, <1>8, <1>9, <1>10, <1>11, <1>12, <1>13,
     <1>14, <1>15, <1>16, <1>17, <1>18, <1>19 DEF Next

(* Every tree the parser makes is the one the binding powers describe. *)
THEOREM PowersShapeTheTree == Spec => []Precedence
<1>1. Inductive /\ TypeOK /\ TypeOK' /\ [Next]_vars => Inductive'
  <2>1. Inductive /\ UNCHANGED vars => Inductive'
    BY SameFits DEF vars
  <2> QED
    BY <2>1, StepFits
<1>2. Inductive => Precedence
  BY DEF Inductive
<1> QED
  BY <1>1, <1>2, InitFits, TypeCorrect, PTL DEF Spec

-----------------------------------------------------------------------------
(* Termination. *)

(* The three ways of a step: a token or a frame goes, or the parser ends. *)
LEMMA MeasureFalls ==
  ASSUME TypeOK, TypeOK', mode \in {"operand", "loop"},
         \/ /\ Len(input') = Len(input) + 1 /\ Len(frames') <= Len(frames) + 1
            /\ mode' \in {"operand", "loop"}
         \/ /\ input' = input /\ Len(frames') = Len(frames) - 1 /\ mode' = mode
         \/ /\ input' = input /\ frames' = frames /\ mode' \in {"error", "done"}
  PROVE  Measure' < Measure
<1>1. /\ Len(input) \in Nat /\ Len(input') \in Nat /\ Len(frames) \in Nat
      /\ Len(frames') \in Nat /\ MaxTokens \in Nat
  BY LenProperties, PrattAssumption DEF TypeOK
<1> QED
  BY <1>1 DEF Measure

LEMMA StepFalls ==
  ASSUME TypeOK, TypeOK', Next, vars' # vars
  PROVE  Measure' < Measure
<1>1. /\ Len(frames) \in Nat /\ Len(input) \in Nat /\ frames \in Seq(Activation)
      /\ Frame.role # "root" =>
            Callers \in Seq(Activation) /\ Len(Callers) = Len(frames) - 1
  BY TopFrames, LenProperties DEF TypeOK
<1>2. Consume => Len(input') = Len(input) + 1
  BY LenProperties DEF Consume, TypeOK
<1>3. \A base \in Seq(Activation) : \A f : Len(Append(base, f)) = Len(base) + 1
  OBVIOUS
<1>4. CASE Prefix \/ OpenParen \/ OpenCast \/ OpenCall \/ OpenIndex \/ Infix
  <2>1. Consume /\ mode' = "operand" /\ mode \in {"operand", "loop"}
        /\ \E f : frames' = Append(frames, f)
    BY <1>4 DEF Prefix, OpenParen, OpenCast, OpenCall, OpenIndex, Infix, Recurse, Goes
  <2> QED
    BY <1>1, <1>2, <1>3, <2>1, MeasureFalls
<1>5. CASE NextArg
  <2>1. Consume /\ mode' = "operand" /\ mode = "loop" /\ Frame.role # "root"
        /\ \E f : frames' = Append(Callers, f)
    BY <1>5 DEF NextArg, Recurse, Stops
  <2>2. Len(frames') = Len(frames) - 1 + 1
    BY <1>1, <1>3, <2>1
  <2> QED
    BY <1>1, <1>2, <2>1, <2>2, MeasureFalls
<1>6. CASE Atom \/ Postfix
  <2>1. Consume /\ mode' = "loop" /\ mode \in {"operand", "loop"} /\ frames' = frames
    BY <1>6 DEF Atom, Postfix, Goes
  <2> QED
    BY <1>1, <1>2, <2>1, MeasureFalls
<1>7. CASE EmptyCall \/ CloseParen \/ CloseIndex \/ CloseCall
  <2>1. Consume /\ mode' = "loop" /\ mode \in {"operand", "loop"} /\ frames' = Callers
        /\ Frame.role # "root"
    BY <1>7 DEF EmptyCall, CloseParen, CloseIndex, CloseCall, Stops
  <2> QED
    BY <1>1, <1>2, <2>1, MeasureFalls
<1>8. CASE FinishPrefix \/ FinishCast \/ FinishInfix
  <2>1. input' = input /\ mode' = mode /\ mode = "loop" /\ frames' = Callers
        /\ Frame.role # "root"
    BY <1>8 DEF FinishPrefix, FinishCast, FinishInfix, Finish, Stops
  <2> QED
    BY <1>1, <2>1, MeasureFalls
<1>9. CASE NoOperand \/ NoCloser \/ Accept
  <2>1. input' = input /\ frames' = frames /\ mode' \in {"error", "done"}
        /\ mode \in {"operand", "loop"}
    BY <1>9 DEF NoOperand, NoCloser, Accept, Stops
  <2> QED
    BY <2>1, MeasureFalls
<1>10. CASE Done
  BY <1>10 DEF Done
<1> QED
  BY <1>4, <1>5, <1>6, <1>7, <1>8, <1>9, <1>10 DEF Next

(* Whatever it reads, the parser stops, after at most two steps a token. *)
THEOREM ParsingEnds == Spec => Progress
<1>1. TypeOK /\ TypeOK' /\ [Next]_vars => [Measure' < Measure]_vars
  <2>1. ASSUME TypeOK, TypeOK', [Next]_vars, vars' # vars
        PROVE  Measure' < Measure
    BY <2>1, StepFalls
  <2> QED
    BY <2>1
<1> QED
  BY <1>1, TypeCorrect, PTL DEF Spec, Progress

-----------------------------------------------------------------------------
(* The texts of the nodes. *)

(***************************************************************************)
(* What TextsTile says of one node, of the text ts and the nodes ns: its   *)
(* text is not empty and has been read, it begins and ends with the        *)
(* parentheses, and the children stand in it side by side.                 *)
(***************************************************************************)
Begin(n) == n.first + n.wraps
End(n) == n.last - n.wraps

Placed(n, ts) == Begin(n) <= End(n) /\ n.last < Len(ts)

Parenthesised(n, ts) ==
    \A d \in 0 .. n.wraps - 1 : ts[n.first + d] = "(" /\ ts[n.last - d] = ")"

(* Node m begins behind the one token sep that follows k. *)
Follows(m, k, sep, ts) == m.first = k.last + 2 /\ ts[k.last + 1] = sep

Comma(j) == IF j = 1 THEN "(" ELSE ","

Separator(n, j) ==
    CASE n.kind = "BinOp" -> n.op
      [] n.kind = "SubScript" -> "["
      [] OTHER -> Comma(j)

Leaf(n) == n.kind \in {"Var", "Num"}
Infixed(n) == n.kind \in {"BinOp", "SubScript", "Call"}

Parts(n, ns, ts) ==
    LET kid(j) == ns[n.kids[j]]
        len == Len(n.kids)
    IN
    /\ Leaf(n) =>
          /\ Begin(n) = End(n)
          /\ ts[Begin(n)] = IF n.kind = "Var" THEN "name" ELSE "num"
    /\ ~Leaf(n) => len # 0
    /\ n.kind \in {"BinOp", "SubScript"} => len = 2
    /\ n.kind = "TypeCast" =>
          ts[Begin(n)] = "@" /\ kid(1).first = Begin(n) + 1 /\ kid(1).last = End(n)
    /\ n.kind = "PreOp" /\ n.post =>
          ts[End(n)] = n.op /\ kid(1).first = Begin(n) /\ kid(1).last = End(n) - 1
    /\ n.kind = "PreOp" /\ ~n.post =>
          ts[Begin(n)] = n.op /\ kid(1).first = Begin(n) + 1 /\ kid(1).last = End(n)
    /\ Infixed(n) =>
          /\ kid(1).first = Begin(n)
          /\ \A j \in 1 .. len - 1 : Follows(kid(j + 1), kid(j), Separator(n, j), ts)
    /\ n.kind = "BinOp" => kid(len).last = End(n)
    /\ n.kind = "SubScript" => kid(len).last = End(n) - 1 /\ ts[End(n)] = "]"
    /\ n.kind = "Call" =>
          /\ ts[End(n)] = ")"
          /\ len = 1 => kid(1).last = End(n) - 2 /\ ts[End(n) - 1] = "("
          /\ len # 1 => kid(len).last = End(n) - 1

NodeTiled(n, ns, ts) == Placed(n, ts) /\ Parenthesised(n, ts) /\ Parts(n, ns, ts)

(***************************************************************************)
(* Where an activation f of parse_expression began: behind a token of its  *)
(* caller c, which stands at the caller's own beginning or behind what the *)
(* caller has already read.                                                *)
(***************************************************************************)
Sign(f) ==
    CASE f.role \in {"prefix", "right"} -> f.op
      [] f.role = "cast" -> "@"
      [] f.role = "paren" -> "("
      [] f.role = "index" -> "["
      [] OTHER -> Comma(Len(f.args) + 1)

BeforeArgument(f, j) == IF j = 1 THEN f.left ELSE f.args[j - 1]

Joined == {"right", "index", "arg"}

Behind(f) == IF f.role = "arg" THEN BeforeArgument(f, Len(f.args) + 1) ELSE f.left

Laid(f, c, ns, ts) ==
    /\ f.start \in 2 .. Len(ts) /\ ts[f.start - 1] = Sign(f)
    /\ f.role \notin Joined => f.start = c.start + 1
    /\ f.role \in Joined => ns[f.left].first = c.start /\ f.start = ns[Behind(f)].last + 2
    /\ f.role = "arg" =>
          \A j \in DOMAIN f.args : Follows(ns[f.args[j]], ns[BeforeArgument(f, j)], Comma(j), ts)

(* What is in hand: the lookahead, or the expression up to it. *)
InPlace ==
    /\ mode = "operand" => Frame.start = Len(input)
    /\ mode \in {"loop", "done"} =>
          nodes[Out].first = Frame.start /\ nodes[Out].last = Len(input) - 1
    /\ mode = "done" => Frame.role = "root"

AllTiled == \A i \in DOMAIN nodes : NodeTiled(nodes[i], nodes, input)

AllLaid ==
    /\ frames[1].start = 1
    /\ \A i \in 2 .. Len(frames) : Laid(frames[i], frames[i - 1], nodes, input)

Textual == AllTiled /\ (mode # "error" => InPlace /\ AllLaid)

(* us is ts, perhaps read further. *)
ReadOn(us, ts) ==
    Len(ts) \in Nat /\ Len(us) \in Nat /\ Len(ts) <= Len(us) /\ \A p \in 1 .. Len(ts) : us[p] = ts[p]

LEMMA NodeFields ==
  ASSUME NEW n \in Node
  PROVE  /\ n.first \in Nat \ {0} /\ n.last \in Nat /\ n.wraps \in Nat /\ n.kids \in Seq(Nat)
         /\ Begin(n) \in Nat \ {0} /\ End(n) \in Int
         /\ Len(n.kids) \in Nat /\ DOMAIN n.kids = 1 .. Len(n.kids)
<1>1. n.first \in Nat \ {0} /\ n.last \in Nat /\ n.wraps \in Nat /\ n.kids \in Seq(Nat)
  BY DEF Node, Index
<1>2. Begin(n) \in Nat \ {0} /\ End(n) \in Int
  BY <1>1 DEF Begin, End
<1>3. Len(n.kids) \in Nat /\ DOMAIN n.kids = 1 .. Len(n.kids)
  BY <1>1, LenProperties
<1> QED
  BY <1>1, <1>2, <1>3

(* The text of a node is not empty and what ends it has been read. *)
LEMMA PlacedFacts ==
  ASSUME NEW n \in Node, NEW ts, Len(ts) \in Nat, Placed(n, ts)
  PROVE  /\ Begin(n) \in 1 .. Len(ts) - 1 /\ End(n) \in 1 .. Len(ts) - 1
         /\ n.first <= n.last /\ n.last \in 1 .. Len(ts) - 1
         /\ n.first <= Begin(n) /\ End(n) <= n.last
<1>1. Begin(n) <= End(n) /\ n.last < Len(ts)
  BY DEF Placed
<1> QED
  BY <1>1, NodeFields DEF Begin, End

(* The parentheses of a node stay where they are. *)
LEMMA ParenthesesStay ==
  ASSUME NEW n \in Node, NEW ts, NEW us, ReadOn(us, ts), Placed(n, ts), Parenthesised(n, ts)
  PROVE  Placed(n, us) /\ Parenthesised(n, us)
<1>1. Len(ts) \in Nat /\ Len(us) \in Nat /\ Len(ts) <= Len(us) /\ \A p \in 1 .. Len(ts) : us[p] = ts[p]
  BY DEF ReadOn
<1>2. Placed(n, us)
  BY <1>1, NodeFields DEF Placed
<1>3. ASSUME NEW d \in 0 .. n.wraps - 1
      PROVE  us[n.first + d] = "(" /\ us[n.last - d] = ")"
  <2>1. ts[n.first + d] = "(" /\ ts[n.last - d] = ")"
    BY DEF Parenthesised
  <2>2. n.first + d \in 1 .. Len(ts) /\ n.last - d \in 1 .. Len(ts)
    <3>1. Begin(n) <= End(n) /\ n.last < Len(ts)
      BY DEF Placed
    <3> QED
      BY <1>1, <3>1, NodeFields DEF Begin, End
  <2> QED
    BY <1>1, <2>1, <2>2
<1> QED
  BY <1>2, <1>3 DEF Parenthesised

(* So do its own tokens and its children, when those are old enough. *)
LEMMA PartsStay ==
  ASSUME NEW n \in Node, NEW m \in Node, NEW ns, NEW ms, NEW ts, NEW us, ReadOn(us, ts),
         NEW b \in Nat, \A k \in DOMAIN n.kids : n.kids[k] \in 1 .. b,
         \A k \in 1 .. b : ms[k] = ns[k] /\ ns[k] \in Node /\ Placed(ns[k], ts),
         Placed(n, ts), Parts(n, ns, ts),
         m.kind = n.kind, m.op = n.op, m.kids = n.kids, m.post = n.post,
         Begin(m) = Begin(n), End(m) = End(n)
  PROVE  Parts(m, ms, us)
<1>1. Len(ts) \in Nat /\ Len(us) \in Nat /\ Len(ts) <= Len(us) /\ \A p \in 1 .. Len(ts) : us[p] = ts[p]
  BY DEF ReadOn
<1>2. us[Begin(n)] = ts[Begin(n)] /\ us[End(n)] = ts[End(n)] /\ End(n) \in 1 .. Len(ts)
  <2>1. Begin(n) \in 1 .. Len(ts) /\ End(n) \in 1 .. Len(ts)
    BY <1>1, PlacedFacts
  <2> QED
    BY <1>1, <2>1
<1>3. Len(n.kids) \in Nat /\ DOMAIN n.kids = 1 .. Len(n.kids)
  BY NodeFields
<1>4. ASSUME NEW j \in 1 .. Len(n.kids)
      PROVE  /\ ms[n.kids[j]] = ns[n.kids[j]] /\ ns[n.kids[j]].last \in Nat
             /\ us[ns[n.kids[j]].last + 1] = ts[ns[n.kids[j]].last + 1]
  <2>1. n.kids[j] \in 1 .. b
    BY <1>3
  <2>2. ms[n.kids[j]] = ns[n.kids[j]] /\ ns[n.kids[j]] \in Node /\ Placed(ns[n.kids[j]], ts)
    BY <2>1
  <2>3. ns[n.kids[j]].last \in Nat /\ ns[n.kids[j]].last < Len(ts)
    BY <2>2, NodeFields DEF Placed
  <2> DEFINE p == ns[n.kids[j]].last
             l == Len(ts)
  <2>4. p \in Nat /\ l \in Nat /\ p < l
    BY <1>1, <2>3
  <2> HIDE DEF p, l
  <2>5. p + 1 \in 1 .. l
    BY <2>4
  <2>6. us[p + 1] = ts[p + 1]
    BY <1>1, <2>5 DEF l
  <2> QED
    BY <2>2, <2>3, <2>6 DEF p
<1>5. Separator(m, 1) = Separator(n, 1) /\ \A j : Separator(m, j) = Separator(n, j)
  BY DEF Separator
<1>6. Leaf(m) = Leaf(n) /\ Infixed(m) = Infixed(n)
  BY DEF Leaf, Infixed
<1>7. CASE Leaf(n)
  <2>1. /\ Begin(n) = End(n)
        /\ ts[Begin(n)] = IF n.kind = "Var" THEN "name" ELSE "num"
    BY <1>7 DEF Parts
  <2>2. n.kind \in {"Var", "Num"}
    BY <1>7 DEF Leaf
  <2> QED
    BY <1>2, <1>6, <1>7, <2>1, <2>2 DEF Parts, Infixed
<1>8. CASE ~Leaf(n)
  <2>1. Len(n.kids) # 0 /\ 1 \in 1 .. Len(n.kids) /\ Len(n.kids) \in 1 .. Len(n.kids)
    BY <1>3, <1>8 DEF Parts
  <2>2. /\ ms[n.kids[1]] = ns[n.kids[1]]
        /\ ms[n.kids[Len(n.kids)]] = ns[n.kids[Len(n.kids)]]
    BY <1>4, <2>1
  <2>3. CASE n.kind \in {"TypeCast", "PreOp"}
    <3>1. ~Leaf(m) /\ ~Infixed(m)
      BY <1>6, <2>3, <1>8 DEF Infixed
    <3> QED
      BY <1>2, <2>1, <2>2, <2>3, <3>1 DEF Parts
  <2>4. CASE Infixed(n)
    <3>1. ASSUME NEW j \in 1 .. Len(n.kids) - 1
          PROVE  Follows(ms[n.kids[j + 1]], ms[n.kids[j]], Separator(m, j), us)
      <4>1. Follows(ns[n.kids[j + 1]], ns[n.kids[j]], Separator(n, j), ts)
        BY <2>4 DEF Parts
      <4>2. j \in 1 .. Len(n.kids) /\ j + 1 \in 1 .. Len(n.kids)
        BY <1>3
      <4>3. /\ ms[n.kids[j]] = ns[n.kids[j]] /\ ms[n.kids[j + 1]] = ns[n.kids[j + 1]]
            /\ us[ns[n.kids[j]].last + 1] = ts[ns[n.kids[j]].last + 1]
        BY <1>4, <4>2
      <4> QED
        BY <1>5, <4>1, <4>3 DEF Follows
    <3>2. ms[m.kids[1]].first = Begin(m)
      BY <2>2, <2>4 DEF Parts
    <3>3. n.kind \in {"BinOp", "SubScript", "Call"} /\ ~Leaf(m) /\ Infixed(m)
      BY <1>6, <1>8, <2>4 DEF Infixed
    <3>4. \A j \in 1 .. Len(m.kids) - 1 :
             Follows(ms[m.kids[j + 1]], ms[m.kids[j]], Separator(m, j), us)
      BY <3>1
    <3>5. CASE n.kind \in {"BinOp", "SubScript"}
      BY <1>2, <2>1, <2>2, <3>2, <3>3, <3>4, <3>5 DEF Parts
    <3>6. CASE n.kind = "Call"
      <4>1. /\ ts[End(n)] = ")"
            /\ Len(n.kids) = 1 =>
                  ns[n.kids[1]].last = End(n) - 2 /\ ts[End(n) - 1] = "("
            /\ Len(n.kids) # 1 => ns[n.kids[Len(n.kids)]].last = End(n) - 1
        BY <3>6 DEF Parts
      <4>2. Len(n.kids) = 1 => us[End(n) - 1] = "("
        <5>1. ASSUME Len(n.kids) = 1
              PROVE  ns[n.kids[1]].last + 1 = End(n) - 1
          BY <1>2, <1>4, <2>1, <4>1, <5>1
        <5> QED
          BY <1>4, <2>1, <4>1, <5>1
      <4> QED
        BY <1>2, <2>1, <2>2, <3>2, <3>3, <3>4, <3>6, <4>1, <4>2 DEF Parts
    <3> QED
      BY <3>3, <3>5, <3>6
  <2>5. n.kind \in {"TypeCast", "PreOp"} \/ Infixed(n)
    BY <1>8 DEF Node, Kinds, Leaf, Infixed
  <2> QED
    BY <2>3, <2>4, <2>5
<1> QED
  BY <1>7, <1>8

LEMMA TiledSame ==
  ASSUME NEW n \in Node, NEW ns, NEW ms, NEW ts, NEW us, ReadOn(us, ts),
         NEW b \in Nat, \A k \in DOMAIN n.kids : n.kids[k] \in 1 .. b,
         \A k \in 1 .. b : ms[k] = ns[k] /\ ns[k] \in Node /\ Placed(ns[k], ts),
         NodeTiled(n, ns, ts)
  PROVE  NodeTiled(n, ms, us)
<1>1. Placed(n, ts) /\ Parenthesised(n, ts) /\ Parts(n, ns, ts)
  BY DEF NodeTiled
<1>2. Placed(n, us) /\ Parenthesised(n, us)
  BY <1>1, ParenthesesStay
<1>3. Parts(n, ms, us)
  BY <1>1, PartsStay
<1> QED
  BY <1>2, <1>3 DEF NodeTiled

(* What a frame has read last is among what it keeps. *)
LEMMA BehindIsKept ==
  ASSUME NEW f \in Activation, NEW kept \in Int, KeptNodes(f, kept)
  PROVE  /\ f.role = "arg" => \A j \in 1 .. Len(f.args) + 1 : BeforeArgument(f, j) \in 1 .. kept
         /\ f.role \in Joined => f.left \in 1 .. kept /\ Behind(f) \in 1 .. kept
<1>1. f.args \in Seq(Nat) /\ Len(f.args) \in Nat /\ DOMAIN f.args = 1 .. Len(f.args)
  BY LenProperties DEF Activation
<1>2. ASSUME f.role = "arg", NEW j \in 1 .. Len(f.args) + 1
      PROVE  BeforeArgument(f, j) \in 1 .. kept
  <2>1. CASE j = 1
    BY <1>2, <2>1 DEF BeforeArgument, KeptNodes
  <2>2. CASE j # 1
    <3>1. j - 1 \in DOMAIN f.args
      BY <1>1, <2>2
    <3> QED
      BY <2>2, <3>1 DEF BeforeArgument, KeptNodes
  <2> QED
    BY <2>1, <2>2
<1>3. ASSUME f.role \in Joined
      PROVE  f.left \in 1 .. kept /\ Behind(f) \in 1 .. kept
  <2>1. f.left \in 1 .. kept
    BY <1>3 DEF Joined, KeptNodes
  <2>2. Len(f.args) + 1 \in 1 .. Len(f.args) + 1
    BY <1>1
  <2> QED
    BY <1>2, <2>1, <2>2 DEF Behind
<1> QED
  BY <1>2, <1>3

(* Where a frame began stays too, while the nodes it keeps do. *)
LEMMA LaidSame ==
  ASSUME NEW f \in Activation, NEW c, NEW kept \in Int, KeptNodes(f, kept),
         NEW ns, NEW ms, NEW ts, NEW us, ReadOn(us, ts),
         \A j \in 1 .. kept : ms[j] = ns[j] /\ ns[j] \in Node /\ Placed(ns[j], ts),
         Laid(f, c, ns, ts)
  PROVE  Laid(f, c, ms, us)
<1>1. Len(ts) \in Nat /\ Len(us) \in Nat /\ Len(ts) <= Len(us) /\ \A p \in 1 .. Len(ts) : us[p] = ts[p]
  BY DEF ReadOn
<1>2. f.args \in Seq(Nat) /\ Len(f.args) \in Nat /\ DOMAIN f.args = 1 .. Len(f.args)
  BY LenProperties DEF Activation
<1>3. f.start \in 2 .. Len(ts) /\ ts[f.start - 1] = Sign(f)
  BY DEF Laid
<1>4. f.start \in 2 .. Len(us) /\ us[f.start - 1] = Sign(f)
  <2>1. f.start - 1 \in 1 .. Len(ts)
    BY <1>1, <1>3
  <2> QED
    BY <1>1, <1>3, <2>1
<1>5. ASSUME NEW j \in 1 .. kept
      PROVE  ms[j] = ns[j] /\ us[ns[j].last + 1] = ts[ns[j].last + 1]
  <2> DEFINE p == ns[j].last
             l == Len(ts)
  <2>1. p \in Nat /\ p < l /\ l \in Nat
    BY <1>1, NodeFields DEF Placed
  <2> HIDE DEF p, l
  <2>2. p + 1 \in 1 .. l
    BY <2>1
  <2>3. us[p + 1] = ts[p + 1]
    BY <1>1, <2>2 DEF l
  <2> QED
    BY <2>3 DEF p
<1>6. f.role \in Joined => ms[f.left].first = c.start /\ f.start = ms[Behind(f)].last + 2
  BY <1>5, BehindIsKept DEF Laid
<1>7. ASSUME f.role = "arg", NEW j \in DOMAIN f.args
      PROVE  Follows(ms[f.args[j]], ms[BeforeArgument(f, j)], Comma(j), us)
  <2>1. Follows(ns[f.args[j]], ns[BeforeArgument(f, j)], Comma(j), ts)
    BY <1>7 DEF Laid
  <2>2. f.args[j] \in 1 .. kept
    BY DEF KeptNodes
  <2>3. j \in 1 .. Len(f.args) + 1
    BY <1>2
  <2>4. BeforeArgument(f, j) \in 1 .. kept
    BY <1>7, <2>3, BehindIsKept
  <2> QED
    BY <1>5, <2>1, <2>2, <2>4 DEF Follows
<1> QED
  BY <1>4, <1>6, <1>7 DEF Laid

LEMMA InputGrows ==
  ASSUME TypeOK, input' = input \/ (Consume /\ tok # "end")
  PROVE  ReadOn(input', input)
<1>1. input \in Seq(Tokens \cup {"end"}) /\ Len(input) \in Nat
  BY LenProperties DEF TypeOK
<1>2. CASE input' = input
  BY <1>1, <1>2 DEF ReadOn
<1>3. CASE Consume /\ tok # "end"
  <2>1. PICK t \in NextToken(Len(input)) : input' = Append(input, t)
    BY <1>3 DEF Consume
  <2>2. t \in Tokens \cup {"end"}
    BY DEF NextToken
  <2>3. Len(input') = Len(input) + 1 /\ \A p \in 1 .. Len(input) : input'[p] = input[p]
    BY <1>1, <2>1, <2>2
  <2> QED
    BY <1>1, <2>3 DEF ReadOn
<1> QED
  BY <1>2, <1>3

(* The nodes that stay are tiled as before. *)
LEMMA NodesStay ==
  ASSUME TypeOK, KidsOlder, AllTiled, ReadOn(input', input),
         NEW m \in Nat, m <= Len(nodes), \A j \in 1 .. m : nodes'[j] = nodes[j]
  PROVE  \A i \in 1 .. m : NodeTiled(nodes'[i], nodes', input')
<1>1. nodes \in Seq(Node) /\ Len(nodes) \in Nat /\ DOMAIN nodes = 1 .. Len(nodes)
  BY LenProperties DEF TypeOK
<1>2. \A j \in 1 .. m : nodes[j] \in Node /\ NodeTiled(nodes[j], nodes, input)
  BY <1>1, ElementOfSeq DEF AllTiled
<1>3. ASSUME NEW i \in 1 .. m
      PROVE  NodeTiled(nodes'[i], nodes', input')
  <2> DEFINE b == i - 1
  <2>1. b \in Nat /\ \A k \in 1 .. b : k \in 1 .. m
    OBVIOUS
  <2>2. \A k \in DOMAIN nodes[i].kids : nodes[i].kids[k] \in 1 .. b
    BY <1>1 DEF KidsOlder, KidsBelow
  <2> HIDE DEF b
  <2>3. \A k \in 1 .. b : nodes'[k] = nodes[k] /\ nodes[k] \in Node /\ Placed(nodes[k], input)
    BY <1>2, <2>1 DEF NodeTiled
  <2>4. NodeTiled(nodes[i], nodes', input')
    BY <1>2, <2>1, <2>2, <2>3, TiledSame
  <2> QED
    BY <2>4
<1> QED
  BY <1>3

(* The frames that stay are laid as before. *)
LEMMA FramesStayLaid ==
  ASSUME TypeOK, FramesFit, AllTiled, AllLaid, ReadOn(input', input),
         \A j \in 1 .. Kept : nodes'[j] = nodes[j],
         NEW m \in Nat, m <= Len(frames), \A i \in 1 .. m : frames'[i] = frames[i]
  PROVE  \A i \in 2 .. m : Laid(frames'[i], frames'[i - 1], nodes', input')
<1>1. Kept \in Int /\ Len(nodes) \in Nat /\ Kept <= Len(nodes)
  BY KeptIsInt
<1>2. nodes \in Seq(Node) /\ DOMAIN nodes = 1 .. Len(nodes)
  BY LenProperties DEF TypeOK
<1>3. frames \in Seq(Activation) /\ Len(frames) \in Nat /\ DOMAIN frames = 1 .. Len(frames)
  BY LenProperties DEF TypeOK
<1>4. \A j \in 1 .. Kept : nodes'[j] = nodes[j] /\ nodes[j] \in Node /\ Placed(nodes[j], input)
  <2>1. \A j \in 1 .. Kept : j \in DOMAIN nodes
    BY <1>1, <1>2
  <2> QED
    BY <1>2, <2>1, ElementOfSeq DEF AllTiled, NodeTiled
<1>5. ASSUME NEW i \in 2 .. m
      PROVE  Laid(frames'[i], frames'[i - 1], nodes', input')
  <2>1. i \in DOMAIN frames /\ i \in 1 .. m /\ i - 1 \in 1 .. m /\ i \in 2 .. Len(frames)
    BY <1>3
  <2>2. frames[i] \in Activation /\ KeptNodes(frames[i], Kept)
    BY <1>3, <2>1, ElementOfSeq DEF FramesFit
  <2>3. Laid(frames[i], frames[i - 1], nodes, input)
    BY <2>1 DEF AllLaid
  <2>4. Laid(frames[i], frames[i - 1], nodes', input')
    BY <1>1, <1>4, <2>2, <2>3, LaidSame
  <2>5. frames'[i] = frames[i] /\ frames'[i - 1] = frames[i - 1]
    BY <2>1
  <2> QED
    BY <2>4, <2>5
<1> QED
  BY <1>5

(* What the invariant says of the innermost frame and of the node in hand. *)
LEMMA TopLaid ==
  ASSUME TypeOK, AllLaid, Frame.role # "root"
  PROVE  Laid(Frame, Caller, nodes, input)
<1>1. Len(frames) \in 2 .. Len(frames)
  BY TopFrames
<1> QED
  BY <1>1 DEF AllLaid, Frame, Caller

LEMMA RootIsFirst ==
  ASSUME TypeOK, AllLaid, Frame.role = "root"
  PROVE  Frame.start = 1
<1>1. frames \in Seq(Activation) /\ Len(frames) \in Nat \ {0} /\ DOMAIN frames = 1 .. Len(frames)
  BY TopFrames, LenProperties DEF TypeOK
<1>2. Len(frames) = 1
  BY <1>1 DEF TypeOK, Frame
<1> QED
  BY <1>2 DEF AllLaid, Frame

LEMMA HandIsPlaced ==
  ASSUME TypeOK, AllTiled, NEW j \in 1 .. Len(nodes)
  PROVE  nodes[j] \in Node /\ Placed(nodes[j], input) /\ NodeTiled(nodes[j], nodes, input)
<1>1. nodes \in Seq(Node) /\ DOMAIN nodes = 1 .. Len(nodes)
  BY LenProperties DEF TypeOK
<1> QED
  BY <1>1, ElementOfSeq DEF AllTiled, NodeTiled

(* A call: the new frame is laid below the last of those that stay. *)
LEMMA CallText ==
  ASSUME TypeOK, TypeOK', Inductive, Textual, mode # "error", ReadOn(input', input),
         nodes' = nodes, mode' = "operand",
         NEW base \in Seq(Activation), Len(base) <= Len(frames), base # << >>,
         \A i \in 1 .. Len(base) : base[i] = frames[i],
         NEW f \in Activation, frames' = Append(base, f), f.start = Len(input'),
         Laid(f, base[Len(base)], nodes, input')
  PROVE  Textual'
<1> DEFINE m == Len(base)
<1>1. /\ m \in Nat \ {0} /\ Len(frames') = m + 1
      /\ \A i \in 1 .. m : frames'[i] = base[i]
      /\ frames'[m + 1] = f
  BY AppendProperties, PopFacts
<1>2. m <= Len(frames) /\ \A i \in 1 .. m : frames'[i] = frames[i]
  BY <1>1
<1>3. base[m] = frames'[m]
  BY <1>1
<1>4. Laid(f, frames'[m], nodes', input')
  BY <1>3
<1> HIDE DEF m
<1>5. KidsOlder /\ AllTiled /\ AllLaid /\ FramesFit
  BY DEF Inductive, Textual
<1>6. AllTiled'
  <2>1. Len(nodes) \in Nat /\ DOMAIN nodes = 1 .. Len(nodes)
    BY LenProperties DEF TypeOK
  <2>2. \A i \in 1 .. Len(nodes) : NodeTiled(nodes'[i], nodes', input')
    BY <1>5, <2>1, NodesStay
  <2> QED
    BY <2>1, <2>2 DEF AllTiled
<1>7. \A i \in 2 .. m : Laid(frames'[i], frames'[i - 1], nodes', input')
  BY <1>1, <1>2, <1>5, FramesStayLaid
<1>8. ASSUME NEW i \in 2 .. m + 1
      PROVE  Laid(frames'[i], frames'[i - 1], nodes', input')
  <2>1. CASE i \in 2 .. m
    BY <1>7, <2>1
  <2>2. CASE i = m + 1
    <3>1. i - 1 = m /\ frames'[i] = f
      BY <1>1, <2>2
    <3> QED
      BY <1>4, <3>1
  <2> QED
    BY <1>1, <2>1, <2>2
<1>9. frames'[1].start = 1
  BY <1>1, <1>2, <1>5 DEF AllLaid
<1>10. AllLaid'
  BY <1>1, <1>8, <1>9 DEF AllLaid
<1>11. InPlace'
  BY <1>1 DEF InPlace, Frame
<1> QED
  BY <1>6, <1>10, <1>11 DEF Textual

(* A return to the caller, or none, with the node in hand at Frame'. *)
LEMMA BackText ==
  ASSUME TypeOK, TypeOK', Inductive, Textual, mode # "error", ReadOn(input', input),
         \A j \in 1 .. Kept : nodes'[j] = nodes[j],
         frames' = frames \/ frames' = Callers, mode' = "loop", AllTiled',
         nodes'[Out'].first = Frame'.start, nodes'[Out'].last = Len(input') - 1
  PROVE  Textual'
<1> DEFINE m == Len(frames')
<1>1. m \in Nat \ {0}
  <2>1. frames' \in Seq(Activation) /\ frames' # << >>
    BY DEF TypeOK
  <2> QED
    BY <2>1, PopFacts
<1>2. m <= Len(frames) /\ \A i \in 1 .. m : frames'[i] = frames[i]
  BY <1>1, TopFrames
<1> HIDE DEF m
<1>3. AllTiled /\ AllLaid /\ FramesFit
  BY DEF Inductive, Textual
<1>4. \A i \in 2 .. m : Laid(frames'[i], frames'[i - 1], nodes', input')
  BY <1>1, <1>2, <1>3, FramesStayLaid
<1>5. frames'[1].start = 1
  BY <1>1, <1>2, <1>3 DEF AllLaid
<1>6. AllLaid'
  BY <1>4, <1>5 DEF AllLaid, m
<1>7. InPlace'
  BY DEF InPlace
<1> QED
  BY <1>6, <1>7 DEF Textual


LEMMA PlacedFurther ==
  ASSUME NEW n, NEW ts, NEW us, ReadOn(us, ts), Placed(n, ts), n.last \in Nat
  PROVE  Placed(n, us)
BY DEF Placed, ReadOn

(* A new node, without parentheses of its own, is tiled by what made it. *)
LEMMA NewTiled ==
  ASSUME TypeOK, AllTiled, ReadOn(input', input), NEW n \in Node,
         \A k \in DOMAIN n.kids : n.kids[k] \in 1 .. Len(nodes),
         \A j \in 1 .. Len(nodes) : nodes'[j] = nodes[j],
         n.wraps = 0, n.first <= n.last, n.last < Len(input'), Parts(n, nodes, input')
  PROVE  NodeTiled(n, nodes', input')
<1>1. Len(nodes) \in Nat /\ Len(input) \in Nat /\ Len(input') \in Nat
  BY LenProperties DEF TypeOK, ReadOn
<1>2. Begin(n) = n.first /\ End(n) = n.last
  BY NodeFields DEF Begin, End
<1>3. Placed(n, input')
  BY <1>2 DEF Placed
<1>4. Parenthesised(n, input')
  <2>1. 0 .. n.wraps - 1 = {}
    OBVIOUS
  <2> QED
    BY <2>1 DEF Parenthesised
<1>5. ReadOn(input', input')
  BY <1>1 DEF ReadOn
<1>6. \A k \in 1 .. Len(nodes) : nodes'[k] = nodes[k] /\ nodes[k] \in Node /\ Placed(nodes[k], input')
  <2> SUFFICES ASSUME NEW k \in 1 .. Len(nodes)
               PROVE  nodes[k] \in Node /\ Placed(nodes[k], input')
    OBVIOUS
  <2>1. nodes[k] \in Node /\ Placed(nodes[k], input)
    BY HandIsPlaced
  <2> QED
    BY <2>1, NodeFields, PlacedFurther
<1>7. Parts(n, nodes', input')
  BY <1>1, <1>3, <1>5, <1>6, PartsStay
<1> QED
  BY <1>3, <1>4, <1>7 DEF NodeTiled

(* A node made, which is the one in hand from now on. *)
LEMMA MadeText ==
  ASSUME TypeOK, TypeOK', Inductive, Textual, mode \in {"operand", "loop"},
         ReadOn(input', input), NEW n \in Node, nodes' = Append(nodes, n), mode' = "loop",
         frames' = frames \/ frames' = Callers,
         \A k \in DOMAIN n.kids : n.kids[k] \in 1 .. Len(nodes),
         n.wraps = 0, n.first <= n.last, Parts(n, nodes, input'),
         n.first = Frame'.start, n.last = Len(input') - 1
  PROVE  Textual'
<1>1. KidsOlder /\ AllTiled
  BY DEF Inductive, Textual
<1>2. /\ Len(nodes) \in Nat /\ Len(nodes') = Len(nodes) + 1
      /\ DOMAIN nodes' = 1 .. Len(nodes) + 1
      /\ nodes'[Len(nodes) + 1] = n /\ \A j \in 1 .. Len(nodes) : nodes'[j] = nodes[j]
  BY AppendProperties, LenProperties DEF TypeOK
<1>3. \A i \in 1 .. Len(nodes) : NodeTiled(nodes'[i], nodes', input')
  BY <1>1, <1>2, NodesStay
<1>4. NodeTiled(n, nodes', input')
  <2>1. n.last < Len(input')
    BY DEF ReadOn
  <2> QED
    BY <1>1, <1>2, <2>1, NewTiled
<1>5. AllTiled'
  <2> SUFFICES ASSUME NEW i \in DOMAIN nodes'
               PROVE  NodeTiled(nodes'[i], nodes', input')
    BY DEF AllTiled
  <2>1. i \in 1 .. Len(nodes) \/ i = Len(nodes) + 1
    BY <1>2
  <2> QED
    BY <1>2, <1>3, <1>4, <2>1
<1>6. nodes'[Out'] = n
  BY <1>2 DEF Out
<1>7. \A j \in 1 .. Kept : nodes'[j] = nodes[j]
  BY <1>2, KeptIsInt
<1> QED
  BY <1>5, <1>6, <1>7, BackText

LEMMA Outward ==
  ASSUME NEW f \in Int, NEW l \in Int, NEW p \in Int
  PROVE  /\ (f - 1) + (p + 1) = f + p /\ (l + 1) - (p + 1) = l - p
         /\ \A d \in 0 .. (p + 1) - 1 : d # 0 =>
               /\ d - 1 \in 0 .. p - 1
               /\ f + (d - 1) = (f - 1) + d /\ l - (d - 1) = (l + 1) - d
         /\ (f - 1) + 0 = f - 1 /\ (l + 1) - 0 = l + 1
OBVIOUS

(* One more pair of parentheses around a node. *)
LEMMA OnePairMore ==
  ASSUME NEW n \in Node, NEW w, NEW ts,
         w.first = n.first - 1, w.last = n.last + 1, w.wraps = n.wraps + 1,
         Parenthesised(n, ts), ts[w.first] = "(", ts[w.last] = ")"
  PROVE  Begin(w) = Begin(n) /\ End(w) = End(n) /\ Parenthesised(w, ts)
<1>1. n.first \in Int /\ n.last \in Int /\ n.wraps \in Int
  BY NodeFields
<1> DEFINE f == n.first
           l == n.last
           p == n.wraps
<1>2. /\ (f - 1) + (p + 1) = f + p /\ (l + 1) - (p + 1) = l - p
      /\ \A d \in 0 .. (p + 1) - 1 : d # 0 =>
            /\ d - 1 \in 0 .. p - 1
            /\ f + (d - 1) = (f - 1) + d /\ l - (d - 1) = (l + 1) - d
      /\ (f - 1) + 0 = f - 1 /\ (l + 1) - 0 = l + 1
  BY <1>1, Outward
<1>3. /\ w.first = f - 1 /\ w.last = l + 1 /\ w.wraps = p + 1
      /\ n.first = f /\ n.last = l /\ n.wraps = p
  OBVIOUS
<1>4. \A d \in 0 .. p - 1 : ts[f + d] = "(" /\ ts[l - d] = ")"
  BY DEF Parenthesised
<1>5. ts[f - 1] = "(" /\ ts[l + 1] = ")"
  OBVIOUS
<1> HIDE DEF f, l, p
<1>6. Begin(w) = Begin(n) /\ End(w) = End(n)
  BY ONLY <1>2, <1>3 DEF Begin, End
<1>7. ASSUME NEW d \in 0 .. (p + 1) - 1
      PROVE  ts[(f - 1) + d] = "(" /\ ts[(l + 1) - d] = ")"
  <2>1. CASE d = 0
    BY ONLY <1>2, <1>5, <2>1
  <2>2. CASE d # 0
    <3> DEFINE e == d - 1
    <3>1. e \in 0 .. p - 1 /\ f + e = (f - 1) + d /\ l - e = (l + 1) - d
      BY <1>2, <2>2
    <3> HIDE DEF e
    <3>2. ts[f + e] = "(" /\ ts[l - e] = ")"
      BY <1>4, <3>1
    <3> QED
      BY ONLY <3>1, <3>2
  <2> QED
    BY <2>1, <2>2
<1>8. Parenthesised(w, ts)
  BY ONLY <1>3, <1>7 DEF Parenthesised
<1> QED
  BY <1>6, <1>8

(* ( a ) : the node in hand is widened by the parentheses. *)
LEMMA WidenedText ==
  ASSUME TypeOK, TypeOK', Inductive, Textual, mode = "loop", mode' = "loop",
         Frame.role = "paren", tok = ")", ReadOn(input', input), Len(input') = Len(input) + 1,
         NEW w \in Node, nodes' = [nodes EXCEPT ![Out] = w], frames' = Callers,
         w.kind = nodes[Out].kind, w.op = nodes[Out].op, w.kids = nodes[Out].kids,
         w.post = nodes[Out].post, w.wraps = nodes[Out].wraps + 1,
         w.first = Caller.start, w.last = Len(input)
  PROVE  Textual'
<1> DEFINE n == nodes[Out]
<1>1. KidsOlder /\ AllTiled /\ AllLaid /\ InPlace
  BY DEF Inductive, Textual
<1>2. /\ Out \in Nat \ {0} /\ Len(nodes) = Out /\ nodes \in Seq(Node) /\ n \in Node
      /\ Out \in 1 .. Out
  BY InHand DEF Index
<1>3. /\ DOMAIN nodes = 1 .. Out /\ DOMAIN nodes' = 1 .. Out /\ Len(nodes') = Out
      /\ nodes'[Out] = w /\ \A j \in 1 .. Out - 1 : nodes'[j] = nodes[j]
  BY <1>2
<1>4. /\ n.first = Caller.start + 1 /\ n.last = Len(input) - 1
      /\ input[Caller.start] = "("
  <2>1. Laid(Frame, Caller, nodes, input)
    BY <1>1, TopLaid
  <2>2. Frame.start = Caller.start + 1 /\ input[Frame.start - 1] = "("
    BY <2>1 DEF Laid, Joined, Sign
  <2>3. n.first = Frame.start /\ n.last = Len(input) - 1
    BY <1>1 DEF InPlace
  <2>4. Caller.start \in Nat
    BY FrameFields DEF Index
  <2> QED
    BY <2>2, <2>3, <2>4
<1>5. NodeTiled(n, nodes, input)
  BY <1>1, <1>3, <1>2 DEF AllTiled
<1> HIDE DEF n
<1>a. /\ n.first \in Nat \ {0} /\ n.last \in Nat /\ n.wraps \in Nat /\ Len(input) \in Nat
      /\ w.first \in Nat \ {0} /\ w.last \in Nat /\ w.wraps \in Nat
  BY <1>2, NodeFields, Lookahead
<1>6. w.first = n.first - 1 /\ w.last = n.last + 1 /\ w.wraps = n.wraps + 1
  <2>1. w.first = Caller.start /\ w.last = Len(input) /\ w.wraps = n.wraps + 1
    BY DEF n
  <2> QED
    BY <1>a, <1>4, <2>1
<1>b. input'[w.first] = "(" /\ input'[w.last] = ")"
  <2>1. Placed(n, input)
    BY <1>5 DEF NodeTiled
  <2>2. n.first <= n.last /\ n.last \in 1 .. Len(input) - 1
    BY <1>a, <1>2, <2>1, PlacedFacts
  <2>3. w.first \in 1 .. Len(input) /\ w.last \in 1 .. Len(input)
    BY <1>a, <1>6, <2>2
  <2>4. input[w.first] = "(" /\ input[w.last] = ")"
    BY <1>4 DEF tok
  <2> QED
    BY <2>3, <2>4 DEF ReadOn
<1>7. Begin(w) = Begin(n) /\ End(w) = End(n) /\ Parenthesised(w, input')
  <2>1. Parenthesised(n, input')
    BY <1>2, <1>5, ParenthesesStay DEF NodeTiled
  <2> QED
    BY ONLY <1>2, <1>6, <1>b, <2>1, OnePairMore
<1>8. Placed(w, input')
  <2>1. Begin(n) <= End(n)
    BY <1>5 DEF NodeTiled, Placed
  <2>2. w.last < Len(input')
    BY <1>a
  <2> QED
    BY <1>7, <2>1, <2>2 DEF Placed
<1>10. \A i \in 1 .. Out - 1 : NodeTiled(nodes'[i], nodes', input')
  <2> DEFINE m == Out - 1
  <2>1. m \in Nat /\ m <= Len(nodes) /\ \A j \in 1 .. m : nodes'[j] = nodes[j]
    BY <1>2, <1>3
  <2> HIDE DEF m
  <2>2. \A i \in 1 .. m : NodeTiled(nodes'[i], nodes', input')
    BY <1>1, <2>1, NodesStay
  <2> QED
    BY <2>2 DEF m
<1>11. Parts(w, nodes', input')
  <2> DEFINE b == Out - 1
  <2>1. b \in Nat /\ \A k \in 1 .. b : nodes'[k] = nodes[k] /\ k \in 1 .. Len(nodes)
    BY <1>2, <1>3
  <2>2. \A k \in DOMAIN n.kids : n.kids[k] \in 1 .. b
    BY <1>1, <1>2, <1>3 DEF KidsOlder, KidsBelow, n
  <2> HIDE DEF b
  <2>3. \A k \in 1 .. b : nodes'[k] = nodes[k] /\ nodes[k] \in Node /\ Placed(nodes[k], input)
    BY <1>1, <2>1, HandIsPlaced
  <2>4. Placed(n, input) /\ Parts(n, nodes, input)
    BY <1>5 DEF NodeTiled
  <2>5. /\ w.kind = n.kind /\ w.op = n.op /\ w.kids = n.kids /\ w.post = n.post
        /\ n \in Node
    BY <1>2 DEF n
  <2> QED
    BY ONLY <1>7, <2>1, <2>2, <2>3, <2>4, <2>5, PartsStay, w \in Node, ReadOn(input', input)
<1>12. AllTiled'
  <2>1. NodeTiled(w, nodes', input')
    BY <1>7, <1>8, <1>11 DEF NodeTiled
  <2> SUFFICES ASSUME NEW i \in DOMAIN nodes'
               PROVE  NodeTiled(nodes'[i], nodes', input')
    BY DEF AllTiled
  <2>2. i \in 1 .. Out - 1 \/ i = Out
    BY <1>2, <1>3
  <2> QED
    BY <1>3, <1>10, <2>1, <2>2
<1>13. nodes'[Out'] = w
  <2>1. Out' = Out
    BY <1>3 DEF Out
  <2> QED
    BY <1>3, <2>1
<1>14. \A j \in 1 .. Kept : nodes'[j] = nodes[j]
  BY <1>2, <1>3 DEF Kept
<1>15. w.first = Frame'.start /\ w.last = Len(input') - 1
  BY CallerIsNext, Lookahead
<1> QED
  BY <1>12, <1>13, <1>14, <1>15, BackText

(* A new node of each kind, from the tokens and the children it is made of. *)
LEMMA LeafParts ==
  ASSUME NEW n \in Node, NEW ns, NEW ts, n.wraps = 0, n.first = n.last, n.kind \in {"Var", "Num"},
         ts[n.first] = IF n.kind = "Var" THEN "name" ELSE "num"
  PROVE  Parts(n, ns, ts)
<1>1. Begin(n) = n.first /\ End(n) = n.first
  BY NodeFields DEF Begin, End
<1> QED
  BY <1>1 DEF Parts, Leaf, Infixed

LEMMA UnaryParts ==
  ASSUME NEW n \in Node, NEW ns, NEW ts, NEW k, n.wraps = 0, n.kids = <<k>>,
         n.kind \in {"TypeCast", "PreOp"}, n.kind = "TypeCast" => ~n.post,
         n.post => ts[n.last] = n.op /\ ns[k].first = n.first /\ ns[k].last = n.last - 1,
         ~n.post => /\ ts[n.first] = IF n.kind = "PreOp" THEN n.op ELSE "@"
                    /\ ns[k].first = n.first + 1 /\ ns[k].last = n.last
  PROVE  Parts(n, ns, ts)
<1>1. Begin(n) = n.first /\ End(n) = n.last
  BY NodeFields DEF Begin, End
<1>2. Len(n.kids) = 1 /\ n.kids[1] = k
  OBVIOUS
<1>3. ~Leaf(n) /\ ~Infixed(n)
  BY DEF Leaf, Infixed
<1> QED
  BY <1>1, <1>2, <1>3 DEF Parts

LEMMA PairParts ==
  ASSUME NEW n \in Node, NEW ns, NEW ts, NEW l, NEW r, n.wraps = 0, n.kids = <<l, r>>,
         n.kind \in {"BinOp", "SubScript"}, ns[l].first = n.first,
         Follows(ns[r], ns[l], IF n.kind = "BinOp" THEN n.op ELSE "[", ts),
         n.kind = "BinOp" => ns[r].last = n.last,
         n.kind = "SubScript" => ns[r].last = n.last - 1 /\ ts[n.last] = "]"
  PROVE  Parts(n, ns, ts)
<1>1. Begin(n) = n.first /\ End(n) = n.last
  BY NodeFields DEF Begin, End
<1>2. Len(n.kids) = 2 /\ n.kids[1] = l /\ n.kids[2] = r
  OBVIOUS
<1>3. ~Leaf(n) /\ Infixed(n)
  BY DEF Leaf, Infixed
<1>4. \A j \in 1 .. Len(n.kids) - 1 : j = 1 /\ j + 1 = 2
  BY <1>2
<1>5. Separator(n, 1) = IF n.kind = "BinOp" THEN n.op ELSE "["
  BY DEF Separator
<1>6. \A j \in 1 .. Len(n.kids) - 1 :
         Follows(ns[n.kids[j + 1]], ns[n.kids[j]], Separator(n, j), ts)
  BY <1>2, <1>4, <1>5
<1> QED
  BY <1>1, <1>2, <1>3, <1>6 DEF Parts

(* f() : the callee is followed by both parentheses. *)
LEMMA EmptyCallParts ==
  ASSUME NEW n \in Node, NEW ns, NEW ts, NEW l, n.wraps = 0, n.kids = <<l>>, n.kind = "Call",
         ns[l].first = n.first, ns[l].last = n.last - 2,
         ts[n.last - 1] = "(", ts[n.last] = ")"
  PROVE  Parts(n, ns, ts)
<1>1. Begin(n) = n.first /\ End(n) = n.last
  BY NodeFields DEF Begin, End
<1>2. Len(n.kids) = 1 /\ n.kids[1] = l /\ 1 .. Len(n.kids) - 1 = {}
  OBVIOUS
<1>3. ~Leaf(n) /\ Infixed(n)
  BY DEF Leaf, Infixed
<1> QED
  BY <1>1, <1>2, <1>3 DEF Parts

LEMMA Children ==
  ASSUME NEW left \in Nat, NEW args \in Seq(Nat), NEW last \in Nat,
         NEW kids, kids = <<left>> \o Append(args, last)
  PROVE  /\ Len(args) \in Nat /\ Len(kids) = Len(args) + 2 /\ kids[1] = left
         /\ \A j \in 1 .. Len(args) : kids[j + 1] = args[j]
         /\ kids[Len(args) + 2] = last
<1> DEFINE tail == Append(args, last)
<1>1. /\ tail \in Seq(Nat) /\ Len(tail) = Len(args) + 1 /\ Len(args) \in Nat
      /\ \A j \in 1 .. Len(args) : tail[j] = args[j]
      /\ tail[Len(args) + 1] = last
  BY AppendProperties, LenProperties
<1>2. kids = <<left>> \o tail
  OBVIOUS
<1> HIDE DEF tail
<1>3. Len(kids) = Len(tail) + 1 /\ kids[1] = left /\ \A j \in 1 .. Len(tail) : kids[j + 1] = tail[j]
  BY <1>1, <1>2
<1> DEFINE c == Len(args)
           d == c + 1
<1>4. c \in Nat /\ d \in 1 .. Len(tail) /\ d + 1 = c + 2 /\ tail[d] = last
  BY <1>1
<1>5. \A j \in 1 .. c : kids[j + 1] = args[j]
  BY <1>1, <1>3
<1> HIDE DEF d
<1>6. kids[d + 1] = last
  BY <1>3, <1>4
<1> QED
  BY <1>1, <1>3, <1>4, <1>5, <1>6

(* f(a, b) : the commas stand between the arguments. *)
LEMMA CallParts ==
  ASSUME NEW n \in Node, NEW ns, NEW ts, NEW f \in Activation, NEW last \in Nat,
         n.wraps = 0, n.kind = "Call", n.kids = <<f.left>> \o Append(f.args, last),
         ns[f.left].first = n.first,
         \A j \in DOMAIN f.args : Follows(ns[f.args[j]], ns[BeforeArgument(f, j)], Comma(j), ts),
         Follows(ns[last], ns[BeforeArgument(f, Len(f.args) + 1)], Comma(Len(f.args) + 1), ts),
         ns[last].last = n.last - 1, ts[n.last] = ")"
  PROVE  Parts(n, ns, ts)
<1> DEFINE c == Len(f.args)
           kids == n.kids
<1>1. f.left \in Nat /\ f.args \in Seq(Nat) /\ DOMAIN f.args = 1 .. c
  BY LenProperties DEF Activation
<1>2. /\ c \in Nat /\ Len(kids) = c + 2 /\ kids[1] = f.left
      /\ \A j \in 1 .. c : kids[j + 1] = f.args[j]
      /\ kids[c + 2] = last
  BY <1>1, Children
<1>3. Begin(n) = n.first /\ End(n) = n.last
  BY NodeFields DEF Begin, End
<1>4. ~Leaf(n) /\ Infixed(n)
  BY DEF Leaf, Infixed
<1>5. \A j \in 1 .. c + 1 : BeforeArgument(f, j) = kids[j]
  <2> SUFFICES ASSUME NEW j \in 1 .. c + 1 PROVE BeforeArgument(f, j) = kids[j]
    OBVIOUS
  <2>1. CASE j = 1
    BY <1>2, <2>1 DEF BeforeArgument
  <2>2. CASE j # 1
    <3> DEFINE i == j - 1
    <3>1. i \in 1 .. c /\ i + 1 = j
      BY <1>2, <2>2
    <3>2. BeforeArgument(f, j) = f.args[i]
      BY <2>2 DEF BeforeArgument
    <3> HIDE DEF i
    <3>3. kids[i + 1] = f.args[i]
      BY <1>2, <3>1
    <3> QED
      BY <3>1, <3>2, <3>3
  <2> QED
    BY <2>1, <2>2
<1>6. ASSUME NEW j \in 1 .. c + 1
      PROVE  Follows(ns[kids[j + 1]], ns[kids[j]], Comma(j), ts)
  <2>1. CASE j \in 1 .. c
    <3>1. kids[j + 1] = f.args[j] /\ BeforeArgument(f, j) = kids[j]
      BY <1>2, <1>5, <2>1
    <3>2. Follows(ns[f.args[j]], ns[BeforeArgument(f, j)], Comma(j), ts)
      BY <1>1, <2>1
    <3> QED
      BY <3>1, <3>2
  <2>2. CASE j = c + 1
    <3>1. j + 1 = c + 2
      BY <1>2, <2>2
    <3>2. kids[j + 1] = last /\ BeforeArgument(f, j) = kids[j]
      BY <1>2, <1>5, <3>1
    <3>3. Follows(ns[last], ns[BeforeArgument(f, j)], Comma(j), ts)
      BY <2>2
    <3> QED
      BY <3>2, <3>3
  <2> QED
    BY <1>2, <2>1, <2>2
<1>7. Len(kids) # 0 /\ Len(kids) # 1 /\ Len(kids) - 1 = c + 1 /\ kids[Len(kids)] = last
  BY <1>2
<1>8. \A j : Separator(n, j) = Comma(j)
  BY DEF Separator
<1> HIDE DEF c
<1>9. \A j \in 1 .. Len(kids) - 1 : Follows(ns[kids[j + 1]], ns[kids[j]], Separator(n, j), ts)
  BY <1>6, <1>7, <1>8
<1>10. ns[kids[1]].first = n.first
  BY <1>2
<1> QED
  BY <1>3, <1>4, <1>7, <1>9, <1>10 DEF Parts

LEMMA TopLaidOn ==
  ASSUME TypeOK, Inductive, Textual, mode # "error", Frame.role # "root",
         NEW us, ReadOn(us, input)
  PROVE  Laid(Frame, Caller, nodes, us)
<1>1. AllTiled /\ AllLaid /\ FramesFit
  BY DEF Inductive, Textual
<1>2. Laid(Frame, Caller, nodes, input) /\ KeptNodes(Frame, Kept) /\ Frame \in Activation
  BY <1>1, TopLaid, TopFits, TopFrames
<1>3. Kept \in Int /\ Len(nodes) \in Nat /\ Kept <= Len(nodes)
  BY KeptIsInt
<1>4. \A j \in 1 .. Kept : nodes[j] \in Node /\ Placed(nodes[j], input)
  BY <1>1, <1>3, HandIsPlaced
<1> QED
  BY <1>2, <1>3, <1>4, LaidSame

(* The token an activation is called behind, and the expression it reads. *)
LEMMA HandFollows ==
  ASSUME TypeOK, Inductive, Textual, mode = "loop", Frame.role \in Joined,
         NEW us, ReadOn(us, input)
  PROVE  /\ Laid(Frame, Caller, nodes, us) /\ nodes[Frame.left].first = Caller.start
         /\ Follows(nodes[Out], nodes[Behind(Frame)], Sign(Frame), us)
<1>1. Laid(Frame, Caller, nodes, us)
  BY TopLaidOn DEF Joined
<1>2. nodes[Out].first = Frame.start
  BY DEF Textual, InPlace
<1>3. /\ us[Frame.start - 1] = Sign(Frame) /\ Frame.start = nodes[Behind(Frame)].last + 2
      /\ nodes[Frame.left].first = Caller.start
  BY <1>1 DEF Laid
<1>4. nodes[Behind(Frame)].last \in Nat
  <2>1. Behind(Frame) \in 1 .. Kept /\ Kept \in Int /\ Kept <= Len(nodes) /\ Len(nodes) \in Nat
    BY TopFits, TopFrames, KeptIsInt, BehindIsKept DEF Inductive
  <2>2. nodes[Behind(Frame)] \in Node
    BY <2>1, HandIsPlaced DEF Textual
  <2> QED
    BY <2>2, NodeFields
<1>5. Frame.start - 1 = nodes[Behind(Frame)].last + 1
  BY <1>3, <1>4
<1> QED
  BY <1>1, <1>2, <1>3, <1>5 DEF Follows

LEMMA HandText ==
  ASSUME TypeOK, Inductive, Textual, mode = "loop"
  PROVE  /\ nodes[Out] \in Node /\ Out \in 1 .. Len(nodes)
         /\ nodes[Out].first = Frame.start /\ nodes[Out].last = Len(input) - 1
         /\ nodes[Out].first <= nodes[Out].last
<1>1. nodes[Out].first = Frame.start /\ nodes[Out].last = Len(input) - 1
  BY DEF Textual, InPlace
<1>2. Out \in 1 .. Len(nodes)
  BY HandAndKept
<1>3. nodes[Out] \in Node /\ Placed(nodes[Out], input)
  BY <1>2, HandIsPlaced DEF Textual
<1>4. nodes[Out].first <= nodes[Out].last
  BY <1>3, PlacedFacts, Lookahead
<1> QED
  BY <1>1, <1>2, <1>3, <1>4

(* Every activation began within what has been read. *)
LEMMA StartsAreRead ==
  ASSUME TypeOK, AllLaid
  PROVE  /\ Frame.start \in 1 .. Len(input)
         /\ Frame.role # "root" => Caller.start \in 1 .. Len(input)
<1>1. Len(frames) \in Nat \ {0} /\ Len(input) \in Nat \ {0}
  BY TopFrames, Lookahead
<1>2. \A i \in 1 .. Len(frames) : frames[i].start \in 1 .. Len(input)
  <2> SUFFICES ASSUME NEW i \in 1 .. Len(frames)
               PROVE  frames[i].start \in 1 .. Len(input)
    OBVIOUS
  <2>1. CASE i = 1
    BY <1>1, <2>1 DEF AllLaid
  <2>2. CASE i # 1
    <3>1. i \in 2 .. Len(frames)
      BY <1>1, <2>2
    <3>2. frames[i].start \in 2 .. Len(input)
      BY <3>1 DEF AllLaid, Laid
    <3> QED
      BY <1>1, <3>2
  <2> QED
    BY <2>1, <2>2
<1>3. Frame.role # "root" => Len(frames) > 1
  BY TopFrames
<1> QED
  BY <1>1, <1>2, <1>3 DEF Frame, Caller

LEMMA TokenStays ==
  ASSUME TypeOK, Consume, tok # "end"
  PROVE  /\ ReadOn(input', input) /\ Len(input) \in Nat \ {0} /\ Len(input') = Len(input) + 1
         /\ input'[Len(input)] = tok
<1>1. ReadOn(input', input)
  BY InputGrows
<1>2. Len(input) \in Nat \ {0} /\ Len(input') = Len(input) + 1
  BY Lookahead, NextInput
<1>3. input'[Len(input)] = input[Len(input)]
  BY <1>1, <1>2 DEF ReadOn
<1> QED
  BY <1>1, <1>2, <1>3 DEF tok

(* The calls that start an operand, behind the token just consumed. *)
LEMMA OpenText ==
  ASSUME TypeOK, TypeOK', Inductive, Textual, mode = "operand", Consume, tok # "end",
         NEW f \in Activation, nodes' = nodes, mode' = "operand", frames' = Append(frames, f),
         f.role \in {"prefix", "paren", "cast"}, f.start = Len(input) + 1, Sign(f) = tok
  PROVE  Textual'
<1>1. Frame.start = Len(input)
  BY DEF Textual, InPlace
<1>2. f.role \notin Joined /\ f.role # "arg"
  BY DEF Joined
<1>3. f.start \in 2 .. Len(input') /\ f.start = Len(input') /\ f.start - 1 = Len(input)
  BY TokenStays
<1>4. input'[f.start - 1] = Sign(f)
  BY <1>3, TokenStays
<1>5. Laid(f, Frame, nodes, input')
  BY <1>1, <1>2, <1>3, <1>4 DEF Laid
<1> QED
  BY <1>3, <1>5, TokenStays, WholeStack, CallText

(* The calls of the loop, behind the token that continues the operand. *)
LEMMA ContinueText ==
  ASSUME TypeOK, TypeOK', Inductive, Textual, mode = "loop", Consume, tok # "end",
         NEW f \in Activation, nodes' = nodes, mode' = "operand", frames' = Append(frames, f),
         f.role \in {"right", "index", "arg"}, f.start = Len(input) + 1, Sign(f) = tok,
         f.args = << >>, f.left = Out
  PROVE  Textual'
<1>1. nodes[Out].first = Frame.start /\ nodes[Out].last = Len(input) - 1
  BY HandText
<1>2. Behind(f) = Out
  BY DEF Behind, BeforeArgument
<1>3. f.start \in 2 .. Len(input') /\ f.start = Len(input') /\ f.start - 1 = Len(input)
      /\ f.start = (Len(input) - 1) + 2
  BY TokenStays
<1>4. input'[f.start - 1] = Sign(f)
  BY <1>3, TokenStays
<1>5. f.role \in Joined /\ DOMAIN f.args = {}
  BY DEF Joined
<1>6. Laid(f, Frame, nodes, input')
  BY <1>1, <1>2, <1>3, <1>4, <1>5 DEF Laid
<1> QED
  BY <1>3, <1>6, TokenStays, WholeStack, CallText

(* An argument more: what stands before the earlier ones is unchanged. *)
LEMMA OneArgumentMore ==
  ASSUME NEW g, NEW f, NEW out \in Nat,
         g.args \in Seq(Nat), f.args = Append(g.args, out),
         g.role = "arg", f.role = "arg", f.left = g.left
  PROVE  /\ Len(g.args) \in Nat /\ DOMAIN g.args = 1 .. Len(g.args)
         /\ DOMAIN f.args = 1 .. Len(g.args) + 1
         /\ \A j \in 1 .. Len(g.args) : f.args[j] = g.args[j]
         /\ f.args[Len(g.args) + 1] = out
         /\ \A j \in 1 .. Len(g.args) + 1 : BeforeArgument(f, j) = BeforeArgument(g, j)
         /\ Behind(g) = BeforeArgument(g, Len(g.args) + 1) /\ Sign(g) = Comma(Len(g.args) + 1)
         /\ Behind(f) = out /\ Sign(f) = ","
<1> DEFINE args == g.args
<1>a. args \in Seq(Nat) /\ f.args = Append(args, out) /\ g.args = args
  OBVIOUS
<1> HIDE DEF args
<1> DEFINE more == Append(args, out)
<1>1. /\ Len(args) \in Nat /\ DOMAIN args = 1 .. Len(args)
      /\ Len(more) = Len(args) + 1 /\ DOMAIN more = 1 .. Len(args) + 1
      /\ \A j \in 1 .. Len(args) : more[j] = args[j]
      /\ more[Len(args) + 1] = out
  BY <1>a, AppendProperties, LenProperties
<1>2. f.args = more
  BY <1>a
<1> HIDE DEF more
<1> DEFINE c == Len(args)
<1>3. \A j \in 1 .. c + 1 : j # 1 => j - 1 \in 1 .. c
  BY <1>1
<1>4. (c + 1) + 1 # 1 /\ ((c + 1) + 1) - 1 = c + 1
  BY <1>1
<1> HIDE DEF c
<1>5. \A j \in 1 .. c + 1 : BeforeArgument(f, j) = BeforeArgument(g, j)
  BY <1>a, <1>1, <1>2, <1>3 DEF BeforeArgument, c
<1>6. Behind(f) = out /\ Sign(f) = ","
  BY <1>1, <1>2, <1>4 DEF BeforeArgument, Behind, Sign, Comma, c
<1>7. Behind(g) = BeforeArgument(g, c + 1) /\ Sign(g) = Comma(c + 1)
  BY <1>a DEF Behind, Sign, c
<1> QED
  BY <1>a, <1>1, <1>2, <1>5, <1>6, <1>7 DEF c

(* The next argument, behind the comma. *)
LEMMA NextArgText ==
  ASSUME TypeOK, TypeOK', Inductive, Textual, mode = "loop", Consume, tok # "end",
         Frame.role = "arg", NEW f \in Activation, Sign(f) = tok,
         nodes' = nodes, mode' = "operand", frames' = Append(Callers, f),
         f.role = "arg", f.start = Len(input) + 1,
         f.left = Frame.left, f.args = Append(Frame.args, Out)
  PROVE  Textual'
<1> DEFINE c == Len(Frame.args)
<1>1. nodes[Out].last = Len(input) - 1 /\ Len(input) \in Nat
  BY HandText, Lookahead
<1>2. Frame.args \in Seq(Nat) /\ Out \in Nat
  BY FrameFields, InHand
<1>3. /\ c \in Nat /\ DOMAIN Frame.args = 1 .. c /\ DOMAIN f.args = 1 .. c + 1
      /\ \A j \in 1 .. c : f.args[j] = Frame.args[j]
      /\ f.args[c + 1] = Out
      /\ \A j \in 1 .. c + 1 : BeforeArgument(f, j) = BeforeArgument(Frame, j)
      /\ Behind(Frame) = BeforeArgument(Frame, c + 1) /\ Sign(Frame) = Comma(c + 1)
      /\ Behind(f) = Out
  BY ONLY <1>2, f.args = Append(Frame.args, Out), Frame.role = "arg", f.role = "arg",
     f.left = Frame.left, OneArgumentMore
<1> HIDE DEF c
<1>6. /\ Laid(Frame, Caller, nodes, input') /\ nodes[Frame.left].first = Caller.start
      /\ Follows(nodes[Out], nodes[Behind(Frame)], Sign(Frame), input')
  <2>1. Frame.role \in Joined
    BY DEF Joined
  <2> QED
    BY <2>1, TokenStays, HandFollows
<1>7. ASSUME NEW j \in 1 .. c + 1
      PROVE  Follows(nodes[f.args[j]], nodes[BeforeArgument(f, j)], Comma(j), input')
  <2>1. CASE j \in 1 .. c
    <3>1. Follows(nodes[Frame.args[j]], nodes[BeforeArgument(Frame, j)], Comma(j), input')
      BY <1>3, <1>6, <2>1 DEF Laid
    <3>2. f.args[j] = Frame.args[j] /\ BeforeArgument(f, j) = BeforeArgument(Frame, j)
      BY <1>3, <2>1
    <3> QED
      BY <3>1, <3>2
  <2>2. CASE j = c + 1
    <3>1. Behind(Frame) = BeforeArgument(Frame, j) /\ Sign(Frame) = Comma(j)
      BY <1>3, <2>2
    <3>2. f.args[j] = Out /\ BeforeArgument(f, j) = BeforeArgument(Frame, j)
      BY <1>3, <2>2
    <3> QED
      BY <1>6, <3>1, <3>2
  <2> QED
    BY <1>3, <2>1, <2>2
<1>8. f.start \in 2 .. Len(input') /\ f.start = Len(input') /\ f.start - 1 = Len(input)
      /\ f.start = (Len(input) - 1) + 2
  BY TokenStays
<1>9. input'[f.start - 1] = Sign(f)
  BY <1>8, TokenStays
<1>a. f.role \in Joined
  BY DEF Joined
<1>b. nodes[f.left].first = Caller.start /\ f.start = nodes[Behind(f)].last + 2
  BY <1>1, <1>3, <1>6, <1>8
<1>c. \A j \in DOMAIN f.args :
         Follows(nodes[f.args[j]], nodes[BeforeArgument(f, j)], Comma(j), input')
  BY <1>3, <1>7
<1>10. Laid(f, Caller, nodes, input')
  BY <1>8, <1>9, <1>a, <1>b, <1>c DEF Laid
<1> QED
  BY <1>8, <1>10, TokenStays, BelowTheTop, CallText

(* A node made of what a caller keeps, on the return to it. *)
LEMMA ReturnText ==
  ASSUME TypeOK, TypeOK', Inductive, Textual, mode \in {"operand", "loop"}, Frame.role # "root",
         ReadOn(input', input), NEW n \in Node, nodes' = Append(nodes, n), mode' = "loop",
         frames' = Callers,
         \A k \in DOMAIN n.kids : n.kids[k] \in 1 .. Len(nodes),
         n.wraps = 0, n.first = Caller.start, n.first <= n.last, n.last = Len(input') - 1,
         Parts(n, nodes, input')
  PROVE  Textual'
BY CallerIsNext, MadeText

(* What ends or stops the parser leaves the texts as they are. *)
LEMMA EndText ==
  ASSUME Textual, UNCHANGED <<input, nodes, frames>>,
         \/ mode' = "error"
         \/ mode = "loop" /\ mode' = "done" /\ Frame.role = "root"
         \/ mode' = mode
  PROVE  Textual'
<1>1. AllTiled' /\ (AllLaid' = AllLaid)
  BY DEF Textual, AllTiled, AllLaid
<1>2. mode # "error" => InPlace /\ AllLaid
  BY DEF Textual
<1>3. CASE mode' = "error"
  BY <1>1, <1>3 DEF Textual
<1>4. CASE mode = "loop" /\ mode' = "done" /\ Frame.role = "root"
  <2>1. InPlace'
    BY <1>2, <1>4 DEF InPlace, Frame, Out
  <2> QED
    BY <1>1, <1>2, <1>4, <2>1 DEF Textual
<1>5. CASE mode' = mode
  <2>1. mode # "error" => InPlace'
    BY <1>2, <1>5 DEF InPlace, Frame, Out
  <2> QED
    BY <1>1, <1>2, <1>5, <2>1 DEF Textual
<1> QED
  BY <1>3, <1>4, <1>5

LEMMA InitText == Init => Textual
<1> SUFFICES ASSUME Init PROVE Textual
  OBVIOUS
<1>1. mode = "operand" /\ nodes = << >> /\ frames = <<Root>>
  BY DEF Init
<1>2. DOMAIN nodes = {} /\ frames[1] = Root /\ Len(frames) = 1
  BY <1>1
<1>7. Root.start = 1
  BY DEF Root
<1>3. Len(input) = 1
  <2>1. PICK t \in NextToken(0) : input = <<t>>
    BY DEF Init
  <2> QED
    BY <2>1
<1>4. AllTiled
  BY <1>2 DEF AllTiled
<1>5. AllLaid
  BY <1>2, <1>7 DEF AllLaid
<1>6. InPlace
  BY <1>1, <1>2, <1>3, <1>7 DEF InPlace, Frame
<1> QED
  BY <1>4, <1>5, <1>6 DEF Textual

(* What the three returns that consume no token make. *)
LEMMA FinishMakes ==
  ASSUME TypeOK, NEW role \in {"prefix", "cast", "right"}, NEW kind \in Kinds,
         NEW kids \in Seq(Nat), Finish(role, kind, kids)
  PROVE  /\ mode = "loop" /\ mode' = "loop" /\ Frame.role = role /\ role # "root"
         /\ frames' = Callers /\ input' = input /\ ReadOn(input', input)
         /\ \E n \in Node :
               /\ nodes' = Append(nodes, n)
               /\ n.kind = kind /\ n.op = Frame.op /\ n.kids = kids /\ n.wraps = 0 /\ ~n.post
               /\ n.first = Caller.start /\ n.last = Len(input) - 1
<1> DEFINE n == New(kind, Frame.op, kids, Caller.start, Len(input) - 1)
<1>1. /\ mode = "loop" /\ Frame.role = role /\ role # "root"
      /\ nodes' = Append(nodes, n) /\ frames' = Callers /\ input' = input /\ mode' = "loop"
  BY DEF Finish, Stops
<1>2. /\ n.kind = kind /\ n.op = Frame.op /\ n.kids = kids /\ n.wraps = 0 /\ ~n.post
      /\ n.first = Caller.start /\ n.last = Len(input) - 1
  BY DEF New
<1>3. n \in Node
  <2>1. Len(input) - 1 \in Nat
    BY Lookahead
  <2> QED
    BY <1>1, <2>1, NewNode, FrameFields
<1>4. ReadOn(input', input)
  BY <1>1, InputGrows
<1> HIDE DEF n
<1> QED
  BY <1>1, <1>2, <1>3, <1>4

(* Every step of the parser keeps the texts side by side. *)
LEMMA StepText ==
  ASSUME TypeOK, TypeOK', Inductive, Textual, Next
  PROVE  Textual'
<1>a. DOMAIN << >> = {} /\ 0 \in Nat /\ << >> \in Seq(Nat) /\ "" \in OperatorKinds \cup {""}
  OBVIOUS
<1>r. {"prefix", "cast", "right", "paren", "index", "arg"} \subseteq Roles
  BY DEF Roles
<1>n. Len(nodes) \in Nat /\ Out = Len(nodes)
  BY LenProperties DEF TypeOK, Out
<1>s. mode # "error" => AllTiled /\ AllLaid
  BY DEF Textual
<1>1. CASE Prefix
  <2> DEFINE f == [role |-> "prefix", op |-> tok, left |-> 0, args |-> << >>,
                   min |-> bp_prefix(tok), start |-> Len(input) + 1]
  <2>1. tok \in OperatorKinds \cup {""} /\ tok # "end" /\ bp_prefix(tok) \in Nat
    BY <1>1, TokenKinds, PowersAreNumbers DEF Prefix
  <2>2. f \in Activation
    BY <1>a, <1>r, <2>1, NewFrame
  <2>3. /\ mode = "operand" /\ Consume /\ nodes' = nodes /\ mode' = "operand"
        /\ frames' = Append(frames, f)
    BY <1>1 DEF Prefix, Recurse
  <2>4. f.role = "prefix" /\ f.start = Len(input) + 1 /\ f.op = tok
    OBVIOUS
  <2> HIDE DEF f
  <2>5. Sign(f) = tok
    BY <2>4 DEF Sign
  <2> QED
    BY <2>1, <2>2, <2>3, <2>4, <2>5, OpenText
<1>2. CASE OpenParen
  <2> DEFINE f == [role |-> "paren", op |-> "", left |-> 0, args |-> << >>,
                   min |-> 0, start |-> Len(input) + 1]
  <2>1. f \in Activation
    BY <1>a, <1>r, NewFrame
  <2>2. /\ mode = "operand" /\ Consume /\ nodes' = nodes /\ mode' = "operand"
        /\ frames' = Append(frames, f) /\ tok = "("
    BY <1>2 DEF OpenParen, Recurse
  <2>3. f.role = "paren" /\ f.start = Len(input) + 1
    OBVIOUS
  <2> HIDE DEF f
  <2>4. Sign(f) = tok /\ tok # "end"
    BY <2>2, <2>3 DEF Sign
  <2> QED
    BY <2>1, <2>2, <2>3, <2>4, OpenText
<1>3. CASE OpenCast
  <2> DEFINE f == [role |-> "cast", op |-> "", left |-> 0, args |-> << >>,
                   min |-> CAST_BP, start |-> Len(input) + 1]
  <2>1. CAST_BP \in Nat
    BY DEF CAST_BP
  <2>2. f \in Activation
    BY <1>a, <1>r, <2>1, NewFrame
  <2>3. /\ mode = "operand" /\ Consume /\ nodes' = nodes /\ mode' = "operand"
        /\ frames' = Append(frames, f) /\ tok = "@"
    BY <1>3 DEF OpenCast, Recurse
  <2>4. f.role = "cast" /\ f.start = Len(input) + 1
    OBVIOUS
  <2> HIDE DEF f
  <2>5. Sign(f) = tok /\ tok # "end"
    BY <2>3, <2>4 DEF Sign
  <2> QED
    BY <2>2, <2>3, <2>4, <2>5, OpenText
<1>4. CASE Atom
  <2> DEFINE kind == IF tok = "name" THEN "Var" ELSE "Num"
             n == New(kind, "", << >>, Frame.start, Len(input))
  <2>1. kind \in {"Var", "Num"} /\ kind \in Kinds
    BY DEF Kinds
  <2>2. n \in Node
    BY <1>a, <2>1, NewNode, FrameFields, Lookahead
  <2>3. /\ mode = "operand" /\ tok \in {"name", "num"} /\ Consume
        /\ nodes' = Append(nodes, n) /\ mode' = "loop" /\ frames' = frames
    BY <1>4 DEF Atom
  <2>4. /\ n.kind = kind /\ n.kids = << >> /\ n.wraps = 0
        /\ n.first = Frame.start /\ n.last = Len(input)
    BY DEF New
  <2>5. tok = IF kind = "Var" THEN "name" ELSE "num"
    BY <2>3
  <2> HIDE DEF kind, n
  <2>6. Frame.start = Len(input) /\ Frame' = Frame
    BY <2>3 DEF Textual, InPlace, Frame
  <2>7. /\ ReadOn(input', input) /\ Len(input) \in Nat \ {0} /\ Len(input') = Len(input) + 1
        /\ input'[Len(input)] = tok
    BY <2>3, TokenStays
  <2>8. Parts(n, nodes, input')
    BY <2>1, <2>2, <2>4, <2>5, <2>6, <2>7, LeafParts
  <2>9. DOMAIN n.kids = {}
    BY <2>4
  <2>10. n.first <= n.last /\ n.first = Frame'.start /\ n.last = Len(input') - 1
    BY <2>4, <2>6, <2>7
  <2> QED
    BY <2>2, <2>3, <2>4, <2>7, <2>8, <2>9, <2>10, MadeText
<1>5. CASE EmptyCall
  <2> DEFINE n == New("Call", "", <<Frame.left>>, Caller.start, Len(input))
  <2>1. /\ mode = "operand" /\ tok = ")" /\ Frame.role = "arg" /\ Frame.args = << >>
        /\ Consume /\ nodes' = Append(nodes, n) /\ mode' = "loop" /\ frames' = Callers
    BY <1>5 DEF EmptyCall
  <2>2. Frame.left \in 1 .. Len(nodes) /\ Frame.left \in Nat
    <3>1. KeptNodes(Frame, Len(nodes))
      BY <2>1, TopFits DEF Inductive, Kept
    <3> QED
      BY <2>1, <3>1, FrameFields DEF KeptNodes
  <2>3. n \in Node
    <3>1. <<Frame.left>> \in Seq(Nat)
      BY <2>2, Tuples
    <3>2. Frame.role # "root"
      BY <2>1
    <3> QED
      BY <1>a, <3>1, <3>2, NewNode, FrameFields, Lookahead DEF Kinds
  <2>4. /\ n.kind = "Call" /\ n.kids = <<Frame.left>> /\ n.wraps = 0
        /\ n.first = Caller.start /\ n.last = Len(input)
    BY DEF New
  <2> HIDE DEF n
  <2>5. /\ ReadOn(input', input) /\ Len(input) \in Nat \ {0} /\ Len(input') = Len(input) + 1
        /\ input'[Len(input)] = tok
    <3>1. tok # "end"
      BY <2>1
    <3> QED
      BY <2>1, <3>1, TokenStays
  <2>6. Laid(Frame, Caller, nodes, input')
    BY <2>1, <2>5, TopLaidOn
  <2>7. Frame.start = Len(input)
    BY <2>1 DEF Textual, InPlace
  <2>8. Behind(Frame) = Frame.left /\ Sign(Frame) = "("
    <3>1. Len(Frame.args) = 0
      BY <2>1
    <3> QED
      BY <2>1, <3>1 DEF Behind, BeforeArgument, Sign, Comma
  <2>9. /\ input'[Len(input) - 1] = "(" /\ nodes[Frame.left].first = Caller.start
        /\ Len(input) = nodes[Frame.left].last + 2
    BY <2>1, <2>6, <2>7, <2>8 DEF Laid, Joined
  <2>10. nodes[Frame.left].last \in Nat
    BY <1>s, <2>1, <2>2, HandIsPlaced, NodeFields
  <2>11. Parts(n, nodes, input')
    <3>1. nodes[Frame.left].last = n.last - 2
      BY <2>4, <2>9, <2>10
    <3>2. input'[n.last] = ")" /\ input'[n.last - 1] = "(" /\ nodes[Frame.left].first = n.first
      BY <2>1, <2>4, <2>5, <2>9
    <3> QED
      BY <2>3, <2>4, <3>1, <3>2, EmptyCallParts
  <2>12. n.first <= n.last /\ n.last = Len(input') - 1
    <3>1. Caller.start \in 1 .. Len(input)
      BY <1>s, <2>1, StartsAreRead
    <3> QED
      BY <2>4, <2>5, <3>1
  <2>13. \A k \in DOMAIN n.kids : n.kids[k] \in 1 .. Len(nodes)
    <3>1. DOMAIN n.kids = {1} /\ n.kids[1] = Frame.left
      BY <2>4
    <3> QED
      BY <2>2, <3>1
  <2>14. mode \in {"operand", "loop"} /\ Frame.role # "root"
    BY <2>1
  <2> QED
    BY <2>1, <2>3, <2>4, <2>5, <2>11, <2>12, <2>13, <2>14, ReturnText
<1>6. CASE NoOperand
  BY <1>6, EndText DEF NoOperand
<1>7. CASE OpenCall
  <2> DEFINE f == [role |-> "arg", op |-> "", left |-> Out, args |-> << >>,
                   min |-> 0, start |-> Len(input) + 1]
  <2>1. f \in Activation
    BY <1>a, <1>r, <1>n, NewFrame
  <2>2. /\ mode = "loop" /\ Consume /\ nodes' = nodes /\ mode' = "operand"
        /\ frames' = Append(frames, f) /\ tok = "("
    BY <1>7 DEF OpenCall, Recurse, Goes
  <2>3. f.role = "arg" /\ f.start = Len(input) + 1 /\ f.args = << >> /\ f.left = Out
    OBVIOUS
  <2> HIDE DEF f
  <2>4. Sign(f) = tok /\ tok # "end"
    <3>1. Len(f.args) = 0
      BY <2>3
    <3> QED
      BY <2>2, <2>3, <3>1 DEF Sign, Comma
  <2> QED
    BY <2>1, <2>2, <2>3, <2>4, ContinueText
<1>8. CASE OpenIndex
  <2> DEFINE f == [role |-> "index", op |-> "", left |-> Out, args |-> << >>,
                   min |-> 0, start |-> Len(input) + 1]
  <2>1. f \in Activation
    BY <1>a, <1>r, <1>n, NewFrame
  <2>2. /\ mode = "loop" /\ Consume /\ nodes' = nodes /\ mode' = "operand"
        /\ frames' = Append(frames, f) /\ tok = "["
    BY <1>8 DEF OpenIndex, Recurse, Goes
  <2>3. f.role = "index" /\ f.start = Len(input) + 1 /\ f.args = << >> /\ f.left = Out
    OBVIOUS
  <2> HIDE DEF f
  <2>4. Sign(f) = tok /\ tok # "end"
    BY <2>2, <2>3 DEF Sign
  <2> QED
    BY <2>1, <2>2, <2>3, <2>4, ContinueText
<1>9. CASE Postfix
  <2> DEFINE n == [New("PreOp", tok, <<Out>>, Frame.start, Len(input)) EXCEPT !.post = TRUE]
  <2>1. /\ mode = "loop" /\ bp_postfix(tok) # 0 /\ Consume /\ nodes' = Append(nodes, n)
        /\ frames' = frames /\ mode' = "loop"
    BY <1>9 DEF Postfix, Goes
  <2>2. tok # "end" /\ tok \in OperatorKinds
    BY <2>1 DEF bp_postfix, OperatorKinds
  <2>3. n \in Node
    BY <2>1, <2>2, NewNode, FrameFields, Lookahead, InHand DEF Kinds
  <2>4. /\ n.kind = "PreOp" /\ n.op = tok /\ n.kids = <<Out>> /\ n.wraps = 0 /\ n.post = TRUE
        /\ n.first = Frame.start /\ n.last = Len(input)
    BY DEF New
  <2> HIDE DEF n
  <2>5. /\ ReadOn(input', input) /\ Len(input) \in Nat \ {0} /\ Len(input') = Len(input) + 1
        /\ input'[Len(input)] = tok
    BY <2>1, <2>2, TokenStays
  <2>6. /\ nodes[Out].first = Frame.start /\ nodes[Out].last = Len(input) - 1
        /\ Out \in 1 .. Len(nodes)
    BY <2>1, HandText
  <2>7. Parts(n, nodes, input')
    BY <2>3, <2>4, <2>5, <2>6, UnaryParts
  <2>8. \A k \in DOMAIN n.kids : n.kids[k] \in 1 .. Len(nodes)
    <3>1. DOMAIN n.kids = {1} /\ n.kids[1] = Out
      BY <2>4
    <3> QED
      BY <2>6, <3>1
  <2>9. n.first <= n.last /\ n.first = Frame'.start /\ n.last = Len(input') - 1
    <3>1. Frame.start \in 1 .. Len(input)
      BY <1>s, <2>1, StartsAreRead
    <3>2. Frame' = Frame
      BY <2>1 DEF Frame
    <3> QED
      BY <2>4, <2>5, <3>1, <3>2
  <2> QED
    BY <2>1, <2>3, <2>4, <2>5, <2>7, <2>8, <2>9, MadeText
<1>10. CASE Infix
  <2> DEFINE f == [role |-> "right", op |-> tok, left |-> Out, args |-> << >>,
                   min |-> bp_infix_right(tok), start |-> Len(input) + 1]
  <2>1. tok \in OperatorKinds \cup {""} /\ tok # "end" /\ bp_infix_right(tok) \in Nat
    BY <1>10, TokenKinds, PowersAreNumbers DEF Infix
  <2>2. f \in Activation
    BY <1>a, <1>r, <1>n, <2>1, NewFrame
  <2>3. /\ mode = "loop" /\ Consume /\ nodes' = nodes /\ mode' = "operand"
        /\ frames' = Append(frames, f)
    BY <1>10 DEF Infix, Recurse, Goes
  <2>4. /\ f.role = "right" /\ f.start = Len(input) + 1 /\ f.args = << >> /\ f.left = Out
        /\ f.op = tok
    OBVIOUS
  <2> HIDE DEF f
  <2>5. Sign(f) = tok
    BY <2>4 DEF Sign
  <2> QED
    BY <2>1, <2>2, <2>3, <2>4, <2>5, ContinueText
<1>12. ASSUME FinishPrefix \/ FinishCast
       PROVE  Textual'
  <2> DEFINE role == IF FinishPrefix THEN "prefix" ELSE "cast"
             kind == IF FinishPrefix THEN "PreOp" ELSE "TypeCast"
  <2>1. Finish(role, kind, <<Out>>) /\ role \in {"prefix", "cast"}
    BY <1>12 DEF FinishPrefix, FinishCast
  <2>2. <<Out>> \in Seq(Nat) /\ kind \in Kinds
    BY <1>n, Tuples DEF Kinds
  <2>k. kind \in {"PreOp", "TypeCast"} /\ (kind = "PreOp" <=> role = "prefix")
    OBVIOUS
  <2> HIDE DEF role, kind
  <2>m. /\ mode = "loop" /\ mode' = "loop" /\ Frame.role = role /\ role # "root"
        /\ frames' = Callers /\ input' = input /\ ReadOn(input', input)
        /\ \E n \in Node :
              /\ nodes' = Append(nodes, n)
              /\ n.kind = kind /\ n.op = Frame.op /\ n.kids = <<Out>> /\ n.wraps = 0 /\ ~n.post
              /\ n.first = Caller.start /\ n.last = Len(input) - 1
    <3>1. role \in {"prefix", "cast", "right"}
      BY <2>1
    <3> QED
      BY ONLY TypeOK, <2>1, <2>2, <3>1, FinishMakes
  <2>n. PICK n \in Node :
              /\ nodes' = Append(nodes, n)
              /\ n.kind = kind /\ n.op = Frame.op /\ n.kids = <<Out>> /\ n.wraps = 0 /\ ~n.post
              /\ n.first = Caller.start /\ n.last = Len(input) - 1
    BY <2>m
  <2>3. n.last = Len(input') - 1
    BY <2>m, <2>n
  <2>4. /\ nodes[Out].first = Frame.start /\ nodes[Out].last = Len(input) - 1
        /\ Out \in 1 .. Len(nodes) /\ Frame.start <= Len(input) - 1
    BY <2>m, <2>n, <2>3, HandText
  <2>5. Laid(Frame, Caller, nodes, input')
    BY <2>m, <2>n, <2>3, TopLaidOn
  <2>6. Frame.role \notin Joined
    BY <2>1, <2>m, <2>n, <2>3 DEF Joined
  <2>7. /\ Frame.start = Caller.start + 1 /\ input'[Frame.start - 1] = Sign(Frame)
        /\ Caller.start \in Nat \ {0} /\ Len(input) \in Nat
    BY <2>m, <2>n, <2>3, <2>5, <2>6, FrameFields, Lookahead DEF Laid, Index
  <2>8. Sign(Frame) = IF kind = "PreOp" THEN Frame.op ELSE "@"
    BY <2>1, <2>m, <2>n, <2>3, <2>k DEF Sign
  <2>9. input'[n.first] = IF n.kind = "PreOp" THEN n.op ELSE "@"
    <3>1. Frame.start - 1 = Caller.start
      BY <2>7
    <3> QED
      BY <2>m, <2>n, <2>3, <2>7, <2>8, <3>1
  <2>10. nodes[Out].first = n.first + 1 /\ nodes[Out].last = n.last /\ n.first <= n.last
    BY <2>m, <2>n, <2>3, <2>4, <2>7
  <2>11. Parts(n, nodes, input')
    BY <2>m, <2>n, <2>3, <2>k, <2>9, <2>10, UnaryParts
  <2>12. \A k \in DOMAIN n.kids : n.kids[k] \in 1 .. Len(nodes)
    <3>1. DOMAIN n.kids = {1} /\ n.kids[1] = Out
      BY <2>m, <2>n, <2>3
    <3> QED
      BY <2>4, <3>1
  <2> QED
    BY <2>m, <2>n, <2>3, <2>10, <2>11, <2>12, ReturnText
<1>13. CASE FinishInfix
  <2>1. Finish("right", "BinOp", <<Frame.left, Out>>)
    BY <1>13 DEF FinishInfix
  <2>2. <<Frame.left, Out>> \in Seq(Nat) /\ "BinOp" \in Kinds
    BY <1>n, FrameFields, Tuples DEF Kinds
  <2>m. /\ mode = "loop" /\ mode' = "loop" /\ Frame.role = "right"
        /\ frames' = Callers /\ input' = input /\ ReadOn(input', input)
        /\ \E n \in Node :
              /\ nodes' = Append(nodes, n)
              /\ n.kind = "BinOp" /\ n.op = Frame.op /\ n.kids = <<Frame.left, Out>>
              /\ n.wraps = 0 /\ ~n.post
              /\ n.first = Caller.start /\ n.last = Len(input) - 1
    <3> DEFINE role == "right"
               kind == "BinOp"
               kids == <<Frame.left, Out>>
    <3>1. role \in {"prefix", "cast", "right"} /\ kind \in Kinds /\ kids \in Seq(Nat)
      BY <2>2
    <3>2. Finish(role, kind, kids)
      BY <2>1
    <3> HIDE DEF role, kind, kids
    <3>3. /\ mode = "loop" /\ mode' = "loop" /\ Frame.role = role
          /\ frames' = Callers /\ input' = input /\ ReadOn(input', input)
          /\ \E n \in Node :
                /\ nodes' = Append(nodes, n)
                /\ n.kind = kind /\ n.op = Frame.op /\ n.kids = kids
                /\ n.wraps = 0 /\ ~n.post
                /\ n.first = Caller.start /\ n.last = Len(input) - 1
      BY <3>1, <3>2, FinishMakes
    <3> QED
      BY <3>3 DEF role, kind, kids
  <2>n. PICK n \in Node :
              /\ nodes' = Append(nodes, n)
              /\ n.kind = "BinOp" /\ n.op = Frame.op /\ n.kids = <<Frame.left, Out>>
              /\ n.wraps = 0 /\ ~n.post
              /\ n.first = Caller.start /\ n.last = Len(input) - 1
    BY <2>m
  <2>3. n.last = Len(input') - 1
    BY <2>m, <2>n
  <2>4. nodes[Out].last = Len(input) - 1 /\ nodes[Out].first <= nodes[Out].last
    BY <2>m, <2>n, <2>3, HandText
  <2>5. /\ nodes[Frame.left].first = Caller.start
        /\ Follows(nodes[Out], nodes[Behind(Frame)], Sign(Frame), input')
    BY <2>m, <2>n, <2>3, HandFollows DEF Joined
  <2>6. Behind(Frame) = Frame.left /\ Sign(Frame) = n.op
    BY <2>m, <2>n, <2>3 DEF Behind, Sign
  <2>7. /\ Out \in 1 .. Len(nodes) /\ Frame.left \in 1 .. Len(nodes)
        /\ nodes[Frame.left] \in Node /\ Placed(nodes[Frame.left], input)
    BY <1>s, <2>m, <2>n, <2>3, HandAndKept, HandIsPlaced
  <2>8. Parts(n, nodes, input')
    BY <2>m, <2>n, <2>3, <2>4, <2>5, <2>6, PairParts
  <2>9. n.first <= n.last
    <3>1. nodes[Frame.left].first <= nodes[Frame.left].last /\ Len(input) \in Nat
      BY <2>7, PlacedFacts, Lookahead
    <3>2. nodes[Out].first = nodes[Frame.left].last + 2
      BY <2>5, <2>6 DEF Follows
    <3>3. nodes[Frame.left].first \in Nat /\ nodes[Frame.left].last \in Nat
      BY <2>7, NodeFields
    <3> QED
      BY <2>m, <2>n, <2>3, <2>4, <2>5, <3>1, <3>2, <3>3
  <2>10. \A k \in DOMAIN n.kids : n.kids[k] \in 1 .. Len(nodes)
    <3>1. DOMAIN n.kids = {1, 2} /\ n.kids[1] = Frame.left /\ n.kids[2] = Out
      BY <2>m, <2>n, <2>3
    <3> QED
      BY <2>7, <3>1
  <2>11. Frame.role # "root"
    BY <2>m, <2>n, <2>3
  <2> QED
    BY <2>m, <2>n, <2>3, <2>8, <2>9, <2>10, <2>11, ReturnText
<1>14. CASE CloseParen
  <2> DEFINE w == [nodes[Out] EXCEPT !.first = Caller.start, !.last = Len(input),
                                     !.wraps = @ + 1]
  <2>1. /\ mode = "loop" /\ mode' = "loop" /\ Frame.role = "paren" /\ tok = ")" /\ Consume
        /\ frames' = Callers /\ nodes' = [nodes EXCEPT ![Out] = w]
    BY <1>14 DEF CloseParen, Stops
  <2>2. nodes[Out] \in Node /\ Caller.start \in Index /\ Len(input) \in Nat
    <3>1. Frame.role # "root"
      BY <2>1
    <3> QED
      BY <2>1, <3>1, InHand, FrameFields, Lookahead
  <2>3. w \in Node
    BY <2>2, WidenedNode
  <2>4. /\ w.kind = nodes[Out].kind /\ w.op = nodes[Out].op /\ w.kids = nodes[Out].kids
        /\ w.post = nodes[Out].post /\ w.wraps = nodes[Out].wraps + 1
        /\ w.first = Caller.start /\ w.last = Len(input)
    BY <2>2 DEF Node
  <2> HIDE DEF w
  <2>5. ReadOn(input', input) /\ Len(input') = Len(input) + 1
    <3>1. tok # "end"
      BY <2>1
    <3> QED
      BY <2>1, <3>1, TokenStays
  <2> QED
    BY <2>1, <2>3, <2>4, <2>5, WidenedText
<1>15. CASE CloseIndex
  <2> DEFINE n == New("SubScript", "", <<Frame.left, Out>>, Caller.start, Len(input))
  <2>1. /\ mode = "loop" /\ Frame.role = "index" /\ tok = "]" /\ Consume
        /\ nodes' = Append(nodes, n) /\ frames' = Callers /\ mode' = "loop"
    BY <1>15 DEF CloseIndex, Stops
  <2>2. n \in Node
    <3>1. <<Frame.left, Out>> \in Seq(Nat) /\ Frame.role # "root"
      BY <1>n, <2>1, FrameFields, Tuples
    <3> QED
      BY <1>a, <3>1, NewNode, FrameFields, Lookahead DEF Kinds
  <2>3. /\ n.kind = "SubScript" /\ n.kids = <<Frame.left, Out>> /\ n.wraps = 0
        /\ n.first = Caller.start /\ n.last = Len(input)
    BY DEF New
  <2> HIDE DEF n
  <2>4. /\ ReadOn(input', input) /\ Len(input) \in Nat \ {0} /\ Len(input') = Len(input) + 1
        /\ input'[Len(input)] = tok
    <3>1. tok # "end"
      BY <2>1
    <3> QED
      BY <2>1, <3>1, TokenStays
  <2>5. /\ nodes[Frame.left].first = Caller.start
        /\ Follows(nodes[Out], nodes[Behind(Frame)], Sign(Frame), input')
    BY <2>1, <2>4, HandFollows DEF Joined
  <2>6. Behind(Frame) = Frame.left /\ Sign(Frame) = "["
    BY <2>1 DEF Behind, Sign
  <2>7. nodes[Out].last = Len(input) - 1
    BY <2>1, HandText
  <2>8. Parts(n, nodes, input')
    BY <2>1, <2>2, <2>3, <2>4, <2>5, <2>6, <2>7, PairParts
  <2>9. n.first <= n.last /\ n.last = Len(input') - 1
    <3>1. Caller.start \in 1 .. Len(input)
      BY <1>s, <2>1, StartsAreRead
    <3> QED
      BY <2>3, <2>4, <3>1
  <2>10. \A k \in DOMAIN n.kids : n.kids[k] \in 1 .. Len(nodes)
    <3>1. DOMAIN n.kids = {1, 2} /\ n.kids[1] = Frame.left /\ n.kids[2] = Out
      BY <2>3
    <3> QED
      BY <2>1, <3>1, HandAndKept
  <2>11. Frame.role # "root"
    BY <2>1
  <2> QED
    BY <2>1, <2>2, <2>3, <2>4, <2>8, <2>9, <2>10, <2>11, ReturnText
<1>16. CASE NextArg
  <2> DEFINE f == [role |-> "arg", op |-> "", left |-> Frame.left,
                   args |-> Append(Frame.args, Out), min |-> 0, start |-> Len(input) + 1]
  <2>1. /\ mode = "loop" /\ Frame.role = "arg" /\ tok = "," /\ Consume
        /\ nodes' = nodes /\ mode' = "operand" /\ frames' = Append(Callers, f)
    BY <1>16 DEF NextArg, Recurse, Stops
  <2>2. Frame.left \in Nat /\ Frame.args \in Seq(Nat) /\ Append(Frame.args, Out) \in Seq(Nat)
    BY <1>n, FrameFields, AppendProperties
  <2>3. f \in Activation
    BY <1>a, <1>r, <2>2, NewFrame
  <2>4. /\ f.role = "arg" /\ f.start = Len(input) + 1
        /\ f.left = Frame.left /\ f.args = Append(Frame.args, Out)
    OBVIOUS
  <2> HIDE DEF f
  <2>5. Sign(f) = tok /\ tok # "end"
    <3>1. Out \in Nat
      BY <1>n
    <3>2. Sign(f) = ","
      BY ONLY <2>1, <2>2, <2>4, <3>1, OneArgumentMore
    <3> QED
      BY <2>1, <3>2
  <2> QED
    BY <2>1, <2>3, <2>4, <2>5, NextArgText
<1>17. CASE CloseCall
  <2> DEFINE kids == <<Frame.left>> \o Append(Frame.args, Out)
             n == New("Call", "", kids, Caller.start, Len(input))
  <2>1. /\ mode = "loop" /\ Frame.role = "arg" /\ tok = ")" /\ Consume
        /\ nodes' = Append(nodes, n) /\ frames' = Callers /\ mode' = "loop"
    BY <1>17 DEF CloseCall, Stops
  <2>2. Frame.args \in Seq(Nat) /\ Frame.left \in Nat /\ Out \in Nat
    BY <1>n, FrameFields
  <2>3. /\ kids \in Seq(Nat)
        /\ \A k \in DOMAIN kids : kids[k] \in 1 .. Len(nodes)
    <3>1. /\ Out \in 1 .. Len(nodes) /\ Frame.left \in 1 .. Len(nodes)
          /\ \A k \in DOMAIN Frame.args : Frame.args[k] \in 1 .. Len(nodes)
      BY <2>1, HandAndKept
    <3> QED
      BY ONLY <1>n, <2>2, <3>1, CalleeAndArguments
  <2>e. kids = <<Frame.left>> \o Append(Frame.args, Out)
    OBVIOUS
  <2> HIDE DEF kids
  <2>4. n \in Node
    <3>1. Frame.role # "root"
      BY <2>1
    <3> QED
      BY <1>a, <2>3, <3>1, NewNode, FrameFields, Lookahead DEF Kinds
  <2>5. /\ n.kind = "Call" /\ n.kids = kids /\ n.wraps = 0
        /\ n.first = Caller.start /\ n.last = Len(input)
    BY DEF New
  <2> HIDE DEF n
  <2>6. /\ ReadOn(input', input) /\ Len(input) \in Nat \ {0} /\ Len(input') = Len(input) + 1
        /\ input'[Len(input)] = tok
    <3>1. tok # "end"
      BY <2>1
    <3> QED
      BY <2>1, <3>1, TokenStays
  <2>7. /\ Laid(Frame, Caller, nodes, input') /\ nodes[Frame.left].first = Caller.start
        /\ Follows(nodes[Out], nodes[Behind(Frame)], Sign(Frame), input')
    BY <2>1, <2>6, HandFollows DEF Joined
  <2>8. nodes[Out].last = Len(input) - 1
    BY <2>1, HandText
  <2>9. Parts(n, nodes, input')
    <3>1. \A j \in DOMAIN Frame.args :
             Follows(nodes[Frame.args[j]], nodes[BeforeArgument(Frame, j)], Comma(j), input')
      BY <2>1, <2>7 DEF Laid
    <3>2. Behind(Frame) = BeforeArgument(Frame, Len(Frame.args) + 1)
          /\ Sign(Frame) = Comma(Len(Frame.args) + 1)
      BY <2>1 DEF Behind, Sign
    <3>3. Follows(nodes[Out], nodes[BeforeArgument(Frame, Len(Frame.args) + 1)],
                  Comma(Len(Frame.args) + 1), input')
      BY <2>7, <3>2
    <3>4. /\ nodes[Frame.left].first = n.first /\ nodes[Out].last = n.last - 1
          /\ input'[n.last] = ")"
      BY <2>1, <2>5, <2>6, <2>7, <2>8
    <3>5. n.kids = <<Frame.left>> \o Append(Frame.args, Out) /\ Frame \in Activation
      BY <2>5, <2>e, TopFrames
    <3> QED
      BY ONLY <2>2, <2>4, <2>5, <3>1, <3>3, <3>4, <3>5, CallParts
  <2>10. n.first <= n.last /\ n.last = Len(input') - 1
    <3>1. Caller.start \in 1 .. Len(input)
      BY <1>s, <2>1, StartsAreRead
    <3> QED
      BY <2>5, <2>6, <3>1
  <2>11. Frame.role # "root" /\ \A k \in DOMAIN n.kids : n.kids[k] \in 1 .. Len(nodes)
    BY <2>1, <2>3, <2>5
  <2> QED
    BY <2>1, <2>4, <2>5, <2>6, <2>9, <2>10, <2>11, ReturnText
<1>18. CASE NoCloser \/ Accept
  BY <1>18, EndText DEF NoCloser, Accept, Stops
<1>19. CASE Done
  BY <1>19, EndText DEF Done, vars
<1> QED
  BY <1>1, <1>2, <1>3, <1>4, <1>5, <1>6, <1>7, <1>8, <1>9, <1>10, <1>12, <1>13,
     <1>14, <1>15, <1>16, <1>17, <1>18, <1>19 DEF Next

LEMMA Commas ==
  ASSUME NEW len \in Nat
  PROVE  \A j \in 1 .. len - 1 : (<<"(">> \o [i \in 1 .. len |-> ","])[j] = Comma(j)
<1> DEFINE commas == [i \in 1 .. len |-> ","]
<1>1. commas \in Seq({"(", ","}) /\ Len(commas) = len
  BY SeqDef
<1>2. \A j \in 1 .. len : commas[j] = ","
  OBVIOUS
<1> HIDE DEF commas
<1> DEFINE open == <<"(">>
           both == open \o commas
<1>3. open \in Seq({"(", ","}) /\ Len(open) = 1 /\ open[1] = "("
  OBVIOUS
<1> HIDE DEF open
<1>4. \A j \in 1 .. 1 + len : both[j] = IF j <= 1 THEN open[j] ELSE commas[j - 1]
  <2>1. \A j \in 1 .. Len(open) + Len(commas) :
           both[j] = IF j <= Len(open) THEN open[j] ELSE commas[j - Len(open)]
    BY <1>1, <1>3, ConcatProperties
  <2> HIDE DEF both
  <2> QED
    BY <1>1, <1>3, <2>1
<1> HIDE DEF both
<1>5. ASSUME NEW j \in 1 .. len - 1
      PROVE  both[j] = Comma(j)
  <2>1. j \in 1 .. 1 + len /\ (j # 1 => j - 1 \in 1 .. len /\ ~(j <= 1))
    OBVIOUS
  <2>2. CASE j = 1
    <3>1. both[j] = open[1]
      BY <1>4, <2>1, <2>2
    <3> QED
      BY <1>3, <2>2, <3>1 DEF Comma
  <2>3. CASE j # 1
    <3>1. both[j] = commas[j - 1] /\ commas[j - 1] = ","
      BY <1>2, <1>4, <2>1, <2>3
    <3> QED
      BY <2>3, <3>1 DEF Comma
  <2> QED
    BY <2>2, <2>3
<1> QED
  BY <1>5 DEF both, open, commas

(* The property the runs check, from the invariant. *)
LEMMA NodeTiles ==
  ASSUME TypeOK, NEW i \in DOMAIN nodes, NodeTiled(nodes[i], nodes, input)
  PROVE  Wrapped(i) /\ Tiled(i)
<1> DEFINE n == nodes[i]
           len == Len(n.kids)
<1>1. n \in Node /\ len \in Nat
  BY ElementOfSeq, NodeFields DEF TypeOK
<1>2. Begin(n) = Lo(i) /\ End(n) = Hi(i)
  BY DEF Begin, End, Lo, Hi
<1>3. Wrapped(i)
  BY DEF NodeTiled, Parenthesised, Wrapped
<1>4. Parts(n, nodes, input)
  BY DEF NodeTiled
<1>5. CASE Leaf(n)
  <2>1. n.kind = "Var" \/ n.kind = "Num"
    BY <1>5 DEF Leaf
  <2>2. Lo(i) = Hi(i) /\ input[Lo(i)] = IF n.kind = "Var" THEN "name" ELSE "num"
    BY <1>2, <1>4, <1>5 DEF Parts
  <2> QED
    BY <1>3, <2>1, <2>2 DEF Tiled
<1>6. CASE n.kind = "TypeCast"
  BY <1>2, <1>3, <1>4, <1>6 DEF Parts, Tiled, Spans
<1>7. CASE n.kind = "PreOp"
  <2>1. CASE n.post
    <3>1. input[Hi(i)] = n.op /\ Spans(n.kids[1], Lo(i), Hi(i) - 1)
      BY <1>2, <1>4, <1>7, <2>1 DEF Parts, Spans
    <3>2. nodes[i].kind # "Var" /\ nodes[i].kind # "Num" /\ nodes[i].kind # "TypeCast"
      BY <1>7
    <3> QED
      BY <1>3, <1>7, <2>1, <3>1, <3>2, Zenon DEF Tiled
  <2>2. CASE ~n.post
    BY <1>2, <1>3, <1>4, <1>7, <2>2 DEF Parts, Tiled, Spans
  <2> QED
    BY <2>1, <2>2
<1>8. ASSUME Infixed(n)
      PROVE  /\ len # 0 /\ Spans(n.kids[1], Lo(i), nodes[n.kids[1]].last)
             /\ \A j \in 1 .. len - 1 :
                   /\ nodes[n.kids[j + 1]].first = nodes[n.kids[j]].last + 2
                   /\ input[nodes[n.kids[j]].last + 1] = Separator(n, j)
  <2>1. ~Leaf(n)
    BY <1>8 DEF Infixed, Leaf
  <2> QED
    BY <1>2, <1>4, <1>8, <2>1 DEF Parts, Spans, Follows
<1>9. CASE n.kind \in {"BinOp", "SubScript"}
  <2>1. Infixed(n) /\ len = 2
    BY <1>4, <1>9 DEF Infixed, Parts
  <2>2. \A j \in 1 .. len - 1 : j = 1
    BY <2>1
  <2>3. CASE n.kind = "BinOp"
    <3>1. \A j \in 1 .. len - 1 : Separator(n, j) = <<n.op>>[j]
      BY <2>2, <2>3 DEF Separator
    <3>2. InARow(n.kids, <<n.op>>)
      BY <1>8, <2>1, <3>1 DEF InARow
    <3>3. nodes[n.kids[len]].last = Hi(i)
      BY <1>2, <1>4, <2>3 DEF Parts
    <3> QED
      BY <1>3, <1>8, <2>1, <2>3, <3>2, <3>3 DEF Tiled
  <2>4. CASE n.kind = "SubScript"
    <3>1. \A j \in 1 .. len - 1 : Separator(n, j) = <<"[">>[j]
      BY <2>2, <2>4 DEF Separator
    <3>2. InARow(n.kids, <<"[">>)
      BY <1>8, <2>1, <3>1 DEF InARow
    <3>3. nodes[n.kids[len]].last = Hi(i) - 1 /\ input[Hi(i)] = "]"
      BY <1>2, <1>4, <2>4 DEF Parts
    <3> QED
      BY <1>3, <1>8, <2>1, <2>4, <3>2, <3>3 DEF Tiled
  <2> QED
    BY <1>9, <2>3, <2>4
<1>10. CASE n.kind = "Call"
  <2> DEFINE seps == <<"(">> \o [j \in 1 .. len |-> ","]
  <2>1. Infixed(n)
    BY <1>10 DEF Infixed
  <2>2. \A j \in 1 .. len - 1 : seps[j] = Comma(j)
    BY <1>1, Commas
  <2> HIDE DEF seps
  <2>3. \A j : Separator(n, j) = Comma(j)
    BY <1>10 DEF Separator
  <2>4. InARow(n.kids, seps)
    BY <1>8, <2>1, <2>2, <2>3 DEF InARow
  <2>5. /\ input[Hi(i)] = ")"
        /\ len = 1 => nodes[n.kids[1]].last = Hi(i) - 2 /\ input[Hi(i) - 1] = "("
        /\ len # 1 => nodes[n.kids[len]].last = Hi(i) - 1
    BY <1>2, <1>4, <1>10 DEF Parts
  <2>6. len = 1 => nodes[n.kids[len]].last + 1 = Hi(i) - 1
    <3>1. Hi(i) \in Int
      BY <1>1, <1>2, NodeFields
    <3> QED
      BY <2>5, <3>1
  <2> QED
    BY <1>3, <1>8, <1>10, <2>1, <2>4, <2>5, <2>6 DEF Tiled, seps
<1> QED
  BY <1>1, <1>5, <1>6, <1>7, <1>9, <1>10 DEF Node, Kinds, Leaf

LEMMA TextualTiles == TypeOK /\ Textual => TextsTile
<1> SUFFICES ASSUME TypeOK, Textual PROVE TextsTile
  OBVIOUS
<1>1. \A i \in DOMAIN nodes : Wrapped(i) /\ Tiled(i)
  BY NodeTiles DEF Textual, AllTiled
<1>2. ASSUME mode = "done"
      PROVE  Spans(Out, 1, Len(input) - 1)
  <2>1. nodes[Out].first = Frame.start /\ nodes[Out].last = Len(input) - 1 /\ Frame.role = "root"
    BY <1>2 DEF Textual, InPlace
  <2>2. AllLaid
    BY <1>2 DEF Textual
  <2>3. Frame.start = 1
    BY <2>1, <2>2, RootIsFirst
  <2> QED
    BY <2>1, <2>3 DEF Spans
<1> QED
  BY <1>1, <1>2 DEF TextsTile

(* Whatever is read, every node's text is its tokens and its children's texts. *)
THEOREM TextsTileTheSource == Spec => []TextsTile
<1>1. TypeOK /\ TypeOK' /\ Inductive /\ Textual /\ [Next]_vars => Textual'
  <2>1. Textual /\ UNCHANGED vars => Textual'
    BY EndText DEF vars
  <2> QED
    BY <2>1, StepText
<1>2. Spec => []Inductive
  <2>1. Inductive /\ TypeOK /\ TypeOK' /\ [Next]_vars => Inductive'
    <3>1. Inductive /\ UNCHANGED vars => Inductive'
      BY SameFits DEF vars
    <3> QED
      BY <3>1, StepFits
  <2> QED
    BY <2>1, InitFits, TypeCorrect, PTL DEF Spec
<1>3. Spec => []Textual
  BY <1>1, <1>2, InitText, TypeCorrect, PTL DEF Spec
<1> QED
  BY <1>3, TextualTiles, TypeCorrect, PTL

-----------------------------------------------------------------------------
(* The parser implements Expressions. *)

Marks == {"(", "[", "call"}

BracketStep(f, open) == IF f.role \in DOMAIN Bracket THEN Append(open, Bracket[f.role]) ELSE open

(* open is what BracketsOf computes, activation by activation. *)
BracketSteps(fs, open) ==
    /\ open \in [0 .. Len(fs) -> Seq(Marks)]
    /\ open[0] = << >>
    /\ \A k \in 1 .. Len(fs) : open[k] = BracketStep(fs[k], open[k - 1])

LEMMA BracketStepFacts ==
    ASSUME NEW f, NEW open \in Seq(Marks)
    PROVE  BracketStep(f, open) \in Seq(Marks)
<1>1. ASSUME f.role \in DOMAIN Bracket PROVE Bracket[f.role] \in Marks
  BY <1>1 DEF Bracket, Marks
<1> QED
  BY <1>1 DEF BracketStep

LEMMA BracketsExist ==
    ASSUME NEW fs, Len(fs) \in Nat
    PROVE  \E open : BracketSteps(fs, open) /\ BracketsOf(fs) = open[Len(fs)]
<1> DEFINE m == Len(fs)
           Good(k) == {f \in [0 .. m -> Seq(Marks)] :
                \A n \in 0 .. m : n <= k => f[n] = IF n = 0 THEN << >> ELSE BracketStep(fs[n], f[n - 1])}
           S == {k \in Nat : Good(k) # {}}
           Step(g) == [k \in 0 .. m |-> IF k = 0 THEN << >>
                          ELSE IF fs[k].role \in DOMAIN Bracket
                               THEN Append(g[k - 1], Bracket[fs[k].role]) ELSE g[k - 1]]
           open == CHOOSE g : g = Step(g)
<1>1. 0 \in S
  <2> DEFINE g == [n \in 0 .. m |-> << >>]
  <2>1. << >> \in Seq(Marks)
    OBVIOUS
  <2>2. g \in [0 .. m -> Seq(Marks)] /\ \A n \in 0 .. m : n <= 0 => n = 0 /\ g[n] = << >>
    BY <2>1
  <2>3. g \in Good(0)
    BY <2>2
  <2> HIDE DEF Good, g
  <2> QED
    BY <2>3
<1>2. ASSUME NEW k \in Nat, k \in S PROVE k + 1 \in S
  <2>1. PICK f \in [0 .. m -> Seq(Marks)] : f \in Good(k)
    BY <1>2
  <2> DEFINE g == [n \in 0 .. m |-> IF n <= k THEN f[n]
                                    ELSE IF n = 0 THEN << >> ELSE BracketStep(fs[n], f[n - 1])]
  <2>2. \A n \in 1 .. m : n - 1 \in 0 .. m /\ BracketStep(fs[n], f[n - 1]) \in Seq(Marks)
    BY BracketStepFacts
  <2>3. g \in [0 .. m -> Seq(Marks)]
    BY <2>2
  <2>4. \A n \in 0 .. m : n <= k => g[n] = f[n]
    OBVIOUS
  <2>5. ASSUME NEW n \in 0 .. m, n <= k + 1
        PROVE  g[n] = IF n = 0 THEN << >> ELSE BracketStep(fs[n], g[n - 1])
    <3>1. CASE n = 0
      BY <2>1, <2>4, <3>1
    <3>2. CASE n # 0
      <4>1. n - 1 \in 0 .. m /\ n - 1 <= k
        BY <2>5, <3>2
      <4>2. g[n - 1] = f[n - 1]
        BY <2>4, <4>1
      <4>3. g[n] = BracketStep(fs[n], f[n - 1])
        BY <2>1, <3>2
      <4> QED
        BY <4>2, <4>3, <3>2
    <3> QED
      BY <3>1, <3>2
  <2>6. g \in Good(k + 1)
    BY <2>3, <2>5
  <2> HIDE DEF Good, g
  <2> QED
    BY <2>6
<1>3. m \in S
  BY <1>1, <1>2, SetInduction
<1>4. PICK f \in [0 .. m -> Seq(Marks)] : f \in Good(m)
  BY <1>3
<1>5. \A n \in 0 .. m : f[n] = IF n = 0 THEN << >> ELSE BracketStep(fs[n], f[n - 1])
  BY <1>4
<1>6. f = Step(f)
  <2>1. ASSUME NEW n \in 0 .. m PROVE f[n] = Step(f)[n]
    BY <1>5 DEF BracketStep
  <2> QED
    BY <2>1
<1>7. open = Step(open)
  <2> HIDE DEF Step
  <2> QED
    BY <1>6
<1>8. BracketsOf(fs) = open[m]
  BY DEF BracketsOf
<1>9. \A k \in 0 .. m : open[k] = IF k = 0 THEN << >> ELSE BracketStep(fs[k], open[k - 1])
  <2> HIDE DEF open
  <2> QED
    BY <1>7 DEF BracketStep
<1>10. open = [k \in 0 .. m |-> open[k]]
  <2> HIDE DEF open
  <2> QED
    BY <1>7
<1> HIDE DEF open
<1>11. \A k \in 0 .. m : open[k] \in Seq(Marks)
  <2> DEFINE T == {k \in Nat : k <= m => open[k] \in Seq(Marks)}
  <2>0. 0 \in 0 .. m /\ << >> \in Seq(Marks)
    OBVIOUS
  <2>a. open[0] \in Seq(Marks)
    BY <1>9, <2>0
  <2>1. 0 \in T
    BY <2>a
  <2>2. ASSUME NEW k \in Nat, k \in T PROVE k + 1 \in T
    <3> SUFFICES ASSUME k + 1 <= m PROVE open[k + 1] \in Seq(Marks)
      OBVIOUS
    <3>1. open[k] \in Seq(Marks)
      BY <2>2
    <3>0. k + 1 \in 0 .. m /\ k + 1 # 0 /\ (k + 1) - 1 = k
      OBVIOUS
    <3>2. open[k + 1] = BracketStep(fs[k + 1], open[k])
      BY <1>9, <3>0
    <3> QED
      BY <3>1, <3>2, BracketStepFacts
  <2>3. Nat \subseteq T
    BY <2>1, <2>2, SetInduction
  <2> QED
    BY <2>3
<1>12. BracketSteps(fs, open)
  <2>1. open \in [0 .. m -> Seq(Marks)]
    BY <1>10, <1>11
  <2>2. \A k \in 1 .. m : k \in 0 .. m /\ k # 0
    OBVIOUS
  <2>3. open[0] = << >> /\ \A k \in 1 .. m : open[k] = BracketStep(fs[k], open[k - 1])
    BY <1>9, <2>2
  <2> QED
    BY <2>1, <2>3 DEF BracketSteps
<1> QED
  BY <1>8, <1>12

(* One activation more, or one less. *)
LEMMA OneMoreActivation ==
    ASSUME NEW fs \in Seq(Activation), NEW f \in Activation
    PROVE  /\ BracketsOf(fs) \in Seq(Marks)
           /\ BracketsOf(Append(fs, f)) = BracketStep(f, BracketsOf(fs))
<1> DEFINE more == Append(fs, f)
<1>1. /\ Len(fs) \in Nat /\ Len(more) = Len(fs) + 1
      /\ \A i \in 1 .. Len(fs) : more[i] = fs[i]
      /\ more[Len(fs) + 1] = f
  BY AppendProperties
<1> HIDE DEF more
<1>2. PICK a : BracketSteps(fs, a) /\ BracketsOf(fs) = a[Len(fs)]
  BY <1>1, BracketsExist
<1>3. PICK b : BracketSteps(more, b) /\ BracketsOf(more) = b[Len(fs) + 1]
  BY <1>1, BracketsExist
<1> DEFINE S == {k \in Nat : k <= Len(fs) => a[k] = b[k]}
<1>4. 0 \in S
  BY <1>2, <1>3 DEF BracketSteps
<1>5. ASSUME NEW k \in Nat, k \in S PROVE k + 1 \in S
  <2> SUFFICES ASSUME k + 1 <= Len(fs) PROVE a[k + 1] = b[k + 1]
    OBVIOUS
  <2>1. a[k] = b[k] /\ more[k + 1] = fs[k + 1]
    BY <1>1, <1>5
  <2>2. a[k + 1] = BracketStep(fs[k + 1], a[k])
    BY <1>1, <1>2 DEF BracketSteps
  <2>3. b[k + 1] = BracketStep(more[k + 1], b[k])
    BY <1>1, <1>3 DEF BracketSteps
  <2> QED
    BY <2>1, <2>2, <2>3
<1>6. a[Len(fs)] = b[Len(fs)]
  <2>1. Nat \subseteq S
    BY <1>4, <1>5, SetInduction
  <2> QED
    BY <1>1, <2>1
<1>7. b[Len(fs) + 1] = BracketStep(f, b[Len(fs)])
  BY <1>1, <1>3 DEF BracketSteps
<1>8. a[Len(fs)] \in Seq(Marks)
  BY <1>1, <1>2 DEF BracketSteps
<1> QED
  BY <1>2, <1>3, <1>6, <1>7, <1>8 DEF more

LEMMA TopBrackets ==
    ASSUME TypeOK
    PROVE  /\ BracketsOf(Callers) \in Seq(Marks)
           /\ BracketsOf(frames) = BracketStep(Frame, BracketsOf(Callers))
           /\ Frame.role = "root" => BracketsOf(frames) = << >>
<1>1. /\ frames \in Seq(Activation) /\ Len(frames) \in Nat \ {0}
      /\ Frame \in Activation /\ Callers \in Seq(Activation)
      /\ Len(Callers) = Len(frames) - 1
      /\ \A i \in 1 .. Len(frames) - 1 : Callers[i] = frames[i]
  BY TopFrames DEF TypeOK
<1>2. frames = Append(Callers, Frame)
  <2>1. /\ Append(Callers, Frame) \in Seq(Activation)
        /\ Len(Append(Callers, Frame)) = Len(frames)
        /\ \A i \in 1 .. Len(frames) - 1 : Append(Callers, Frame)[i] = frames[i]
        /\ Append(Callers, Frame)[Len(frames)] = Frame
    BY <1>1, AppendProperties
  <2>2. \A i \in 1 .. Len(frames) : Append(Callers, Frame)[i] = frames[i]
    BY <1>1, <2>1 DEF Frame
  <2> QED
    BY <1>1, <2>1, <2>2, SeqEqual
<1>3. BracketsOf(Callers) \in Seq(Marks) /\ BracketsOf(frames) = BracketStep(Frame, BracketsOf(Callers))
  BY <1>1, <1>2, OneMoreActivation
<1>4. ASSUME Frame.role = "root" PROVE BracketsOf(frames) = << >>
  <2>1. Len(frames) \in DOMAIN frames /\ frames[Len(frames)].role = "root"
    BY <1>1, <1>4 DEF Frame
  <2>2. Len(frames) = 1
    BY <2>1 DEF TypeOK
  <2>3. Len(Callers) = 0
    BY <1>1, <2>2
  <2>4. PICK open : BracketSteps(Callers, open) /\ BracketsOf(Callers) = open[Len(Callers)]
    BY <2>3, BracketsExist
  <2>5. BracketsOf(Callers) = << >>
    BY <2>3, <2>4 DEF BracketSteps
  <2> QED
    BY <1>3, <1>4, <2>5 DEF BracketStep, Bracket
<1> QED
  BY <1>3, <1>4

(* Only prefix operators, casts and infix operators ask for a binding power. *)
Loose(f) == f.role \in {"root"} \cup DOMAIN Bracket => f.min = 0
LooseFrames == \A i \in DOMAIN frames : Loose(frames[i])

LEMMA OneMoreLoose ==
    ASSUME TypeOK, LooseFrames, NEW callers \in {frames, Callers}, NEW f \in Activation, Loose(f)
    PROVE  frames' = Append(callers, f) => LooseFrames'
<1>1. /\ frames \in Seq(Activation) /\ Callers \in Seq(Activation)
      /\ Len(Callers) = Len(frames) - 1
      /\ \A i \in 1 .. Len(frames) - 1 : Callers[i] = frames[i]
  BY TopFrames DEF TypeOK
<1>2. \A i \in 1 .. Len(callers) : Loose(callers[i])
  BY <1>1 DEF LooseFrames
<1> SUFFICES ASSUME frames' = Append(callers, f) PROVE LooseFrames'
  OBVIOUS
<1>3. /\ Len(callers) \in Nat /\ DOMAIN frames' = 1 .. Len(callers) + 1
      /\ \A i \in 1 .. Len(callers) : frames'[i] = callers[i]
      /\ frames'[Len(callers) + 1] = f
  BY <1>1, AppendProperties
<1>4. ASSUME NEW i \in DOMAIN frames' PROVE Loose(frames'[i])
  BY <1>2, <1>3
<1> QED
  BY <1>4 DEF LooseFrames, Loose

LEMMA StepLoose == TypeOK /\ LooseFrames /\ Next => LooseFrames'
<1> SUFFICES ASSUME TypeOK, LooseFrames, Next PROVE LooseFrames'
  OBVIOUS
<1>1. ASSUME frames' = frames PROVE LooseFrames'
  BY <1>1 DEF LooseFrames, Loose
<1>2. ASSUME frames' = Callers PROVE LooseFrames'
  <2>1. /\ frames \in Seq(Activation) /\ Len(frames) \in Nat
        /\ Callers \in Seq(Activation) /\ Len(Callers) = Len(frames) - 1
        /\ \A i \in 1 .. Len(frames) - 1 : Callers[i] = frames[i]
    BY TopFrames DEF TypeOK
  <2>2. \A i \in DOMAIN Callers : Loose(Callers[i])
    BY <2>1 DEF LooseFrames
  <2> QED
    BY <1>2, <2>2 DEF LooseFrames, Loose
<1>3. ASSUME NEW callers \in {frames, Callers}, NEW role \in Roles,
             NEW op \in OperatorKinds \cup {""}, NEW left \in Nat, NEW args \in Seq(Nat),
             NEW min \in Nat, role \in {"root"} \cup DOMAIN Bracket => min = 0,
             Recurse(callers, role, op, left, args, min)
      PROVE  LooseFrames'
  <2> DEFINE f == [role |-> role, op |-> op, left |-> left,
                   args |-> args, min |-> min, start |-> Len(input) + 1]
  <2>1. f \in Activation
    BY NextPlace DEF Activation
  <2>2. Loose(f)
    BY <1>3 DEF Loose
  <2>3. frames' = Append(callers, f)
    BY <1>3 DEF Recurse
  <2> HIDE DEF f
  <2> QED
    BY <2>1, <2>2, <2>3, OneMoreLoose
<1>a. << >> \in Seq(Nat) /\ Out \in Nat /\ "" \in OperatorKinds \cup {""}
  BY DEF TypeOK, Out
<1>b. Operators \subseteq OperatorKinds
  BY DEF Operators
<1>c. /\ Frame.left \in Nat /\ Frame.args \in Seq(Nat) /\ Append(Frame.args, Out) \in Seq(Nat)
  <2>1. Frame.left \in Nat /\ Frame.args \in Seq(Nat)
    BY FrameFields
  <2> QED
    BY <1>a, <2>1, AppendProperties
<1>d. DOMAIN Bracket = {"paren", "index", "arg"}
  BY DEF Bracket
<1>e. bp_prefix(tok) \in Nat /\ bp_infix_right(tok) \in Nat
  BY PowersAreNumbers
<1>4. CASE Prefix
  <2>1. tok \in OperatorKinds /\ "prefix" \in Roles /\ "prefix" \notin {"root"} \cup DOMAIN Bracket
    BY <1>4, <1>b, <1>d DEF Prefix, Roles
  <2>2. Recurse(frames, "prefix", tok, 0, << >>, bp_prefix(tok))
    BY <1>4 DEF Prefix
  <2> QED
    BY <1>3, <1>a, <1>e, <2>1, <2>2
<1>5. CASE OpenParen
  BY <1>3, <1>5, <1>a, <1>d DEF OpenParen, Roles
<1>6. CASE OpenCast
  BY <1>3, <1>6, <1>a, <1>d DEF OpenCast, Roles, CAST_BP
<1>7. CASE OpenCall
  BY <1>3, <1>7, <1>a, <1>d DEF OpenCall, Roles
<1>8. CASE OpenIndex
  BY <1>3, <1>8, <1>a, <1>d DEF OpenIndex, Roles
<1>9. CASE Infix
  <2>1. tok \in OperatorKinds /\ "right" \in Roles /\ "right" \notin {"root"} \cup DOMAIN Bracket
    BY <1>9, <1>b, <1>d DEF Infix, Roles
  <2>2. Recurse(frames, "right", tok, Out, << >>, bp_infix_right(tok))
    BY <1>9 DEF Infix
  <2> QED
    BY <1>3, <1>a, <1>e, <2>1, <2>2
<1>10. CASE NextArg
  BY <1>3, <1>10, <1>a, <1>c, <1>d DEF NextArg, Roles
<1>11. CASE Atom \/ NoOperand \/ Postfix \/ NoCloser \/ Accept \/ Done
  BY <1>1, <1>11 DEF Atom, NoOperand, Postfix, NoCloser, Accept, Done, vars
<1>12. CASE EmptyCall \/ FinishPrefix \/ FinishCast \/ FinishInfix
            \/ CloseParen \/ CloseIndex \/ CloseCall
  BY <1>2, <1>12 DEF EmptyCall, FinishPrefix, FinishCast, FinishInfix, Finish,
                     CloseParen, CloseIndex, CloseCall
<1> QED
  BY <1>4, <1>5, <1>6, <1>7, <1>8, <1>9, <1>10, <1>11, <1>12 DEF Next

(* The tokens, as Expressions sees them. *)
LEMMA ClassFacts ==
    ASSUME NEW t \in OperatorKinds \cup OtherTokens \cup {"end"}
    PROVE  /\ t \in OperatorKinds => Class(t) \in {"prefix", "infix", "postfix"}
           /\ t \in OperatorKinds => (Class(t) = "postfix" <=> bp_postfix(t) # 0)
           /\ t \in {"name", "num"} => Class(t) = "atom"
           /\ t = "@" => Class(t) = "prefix"
           /\ t \in {"(", ")", "[", "]", ",", "end"} => Class(t) = t
           /\ Power(t) # 0 <=> Class(t) \in {"infix", "postfix", "(", "["}
<1>1. CASE t = "Not"
  <2>1. Class(t) = "prefix" /\ bp_postfix(t) = 0 /\ Power(t) = 0 /\ t \in OperatorKinds
    BY <1>1 DEF OperatorKinds, Class, Power, bp_postfix, bp_infix_left
  <2> QED
    BY <1>1, <2>1
<1>2. CASE t \in {"PlusPlus", "MinusMinus"}
  <2>1. Class(t) = "postfix" /\ bp_postfix(t) = 15 /\ t \in OperatorKinds
    BY <1>2 DEF OperatorKinds, Class, bp_postfix
  <2>2. Power(t) = 15
    BY <1>2, <2>1 DEF Power
  <2>3. bp_postfix(t) # 0 /\ Power(t) # 0
    BY <2>1, <2>2
  <2>4. t \notin {"name", "num", "@", "(", ")", "[", "]", ",", "end"}
    BY <1>2
  <2>5. Class(t) = "postfix"
    BY <2>1
  <2> QED
    BY ONLY <2>3, <2>4, <2>5, Zenon
<1>4. CASE t \in {"(", "["}
  <2>1. Class(t) = t /\ Power(t) = 16 /\ t \notin OperatorKinds
    BY <1>4 DEF OperatorKinds, Class, Power, CALL_BP, SUBSCRIPT_BP
  <2> QED
    BY <1>4, <2>1
<1>5. CASE t \in {"name", "num", "@", ")", "]", ",", "end"}
  <2>1. bp_postfix(t) = 0 /\ bp_infix_left(t) = 0 /\ t \notin OperatorKinds
    BY <1>5 DEF OperatorKinds, bp_postfix, bp_infix_left
  <2>2. Power(t) = 0
    BY <1>5, <2>1 DEF Power
  <2>3. /\ t \in {"name", "num"} => Class(t) = "atom"
        /\ t = "@" => Class(t) = "prefix"
        /\ t \in {")", "]", ",", "end"} => Class(t) = t
    BY <1>5 DEF Class, OperatorKinds
  <2> QED
    BY <1>5, <2>1, <2>2, <2>3
<1>3. CASE t \in OperatorKinds \ {"Not", "PlusPlus", "MinusMinus"}
  <2>1. Class(t) = "infix" /\ bp_postfix(t) = 0
    BY <1>3 DEF OperatorKinds, Class, bp_postfix
  <2>2. t \notin {"name", "num", "@", "(", ")", "[", "]", ",", "end"}
    BY <1>3 DEF OperatorKinds
  <2>3. bp_infix_left(t) # 0
    BY <1>3 DEF OperatorKinds, bp_infix_left
  <2>4. Power(t) # 0
    BY <2>1, <2>2, <2>3 DEF Power
  <2> QED
    BY <1>3, <2>1, <2>2, <2>4
<1> QED
  BY <1>1, <1>2, <1>3, <1>4, <1>5 DEF OtherTokens

AtNow == IF BeforeArgs THEN "args" ELSE mode
OpenNow == BracketsOf(frames)

LEMMA LastOfAppend ==
    ASSUME NEW S, NEW s \in Seq(S), NEW x \in S
    PROVE  Append(s, x)[Len(Append(s, x))] = x
OBVIOUS

(* What is read, and what it does to the brackets. *)
LEMMA Recursed ==
    ASSUME TypeOK, NEW callers \in {frames, Callers}, NEW role \in Roles \ {"root"},
           NEW op \in OperatorKinds \cup {""}, NEW left \in Nat, NEW args \in Seq(Nat),
           NEW min \in Nat, Recurse(callers, role, op, left, args, min)
    PROVE  /\ AtNow' = IF role = "arg" /\ args = << >> THEN "args" ELSE "operand"
           /\ OpenNow' = IF role \in DOMAIN Bracket
                         THEN Append(BracketsOf(callers), Bracket[role])
                         ELSE BracketsOf(callers)
           /\ Consume
<1> DEFINE f == [role |-> role, op |-> op, left |-> left,
                 args |-> args, min |-> min, start |-> Len(input) + 1]
<1>1. f \in Activation
  BY NextPlace DEF Activation
<1>2. frames' = Append(callers, f) /\ mode' = "operand" /\ Consume
  BY DEF Recurse
<1>3. f.role = role /\ f.args = args
  OBVIOUS
<1> HIDE DEF f
<1>4. callers \in Seq(Activation)
  BY TopFrames DEF TypeOK
<1>5. frames'[Len(frames')] = f
  BY <1>1, <1>2, <1>4, LastOfAppend
<1>6. BracketsOf(frames') = BracketStep(f, BracketsOf(callers))
  BY <1>1, <1>2, <1>4, OneMoreActivation
<1>7. BeforeArgs' <=> f.role = "arg" /\ f.args = << >>
  BY <1>2, <1>5 DEF BeforeArgs, Frame
<1>8. AtNow' = IF BeforeArgs' THEN "args" ELSE "operand"
  BY <1>2 DEF AtNow
<1>9. OpenNow' = BracketsOf(frames')
  BY DEF OpenNow, BracketsOf
<1> QED
  BY <1>2, <1>3, <1>6, <1>7, <1>8, <1>9 DEF BracketStep

LEMMA NoArgsLeft ==
    ASSUME mode' # "operand"
    PROVE  AtNow' = mode'
BY DEF AtNow, BeforeArgs

LEMMA BackAt ==
    ASSUME TypeOK, frames' = Callers, mode' = "loop"
    PROVE  AtNow' = "loop" /\ OpenNow' = BracketsOf(Callers)
<1>1. OpenNow' = BracketsOf(frames')
  BY DEF OpenNow, BracketsOf
<1> QED
  BY <1>1, NoArgsLeft

LEMMA StayedAt == frames' = frames => OpenNow' = OpenNow
BY DEF OpenNow, BracketsOf

(* What ends the innermost bracket is what its activation asks for. *)
LEMMA ClosersClose ==
    ASSUME TypeOK, NEW c
    PROVE  /\ Frame.role = "root" => ~Extent!Closes(c)
           /\ Frame.role \in DOMAIN Bracket => (Extent!Closes(c) <=> c \in Closers(Frame.role))
           /\ Frame.role \in DOMAIN Bracket =>
                 /\ SubSeq(OpenNow, 1, Len(OpenNow) - 1) = BracketsOf(Callers)
                 /\ OpenNow # << >>
<1>1. /\ BracketsOf(Callers) \in Seq(Marks)
      /\ OpenNow = BracketStep(Frame, BracketsOf(Callers))
      /\ Frame.role = "root" => OpenNow = << >>
  BY TopBrackets DEF OpenNow
<1>2. Frame.role = "root" => ~Extent!Closes(c)
  BY <1>1 DEF Extent!Closes, OpenNow
<1>3. ASSUME Frame.role \in DOMAIN Bracket
      PROVE  /\ Extent!Closes(c) <=> c \in Closers(Frame.role)
             /\ SubSeq(OpenNow, 1, Len(OpenNow) - 1) = BracketsOf(Callers)
             /\ OpenNow # << >>
  <2> DEFINE outer == BracketsOf(Callers)
             mark == Bracket[Frame.role]
  <2>1. OpenNow = Append(outer, mark) /\ outer \in Seq(Marks)
    BY <1>1, <1>3 DEF BracketStep
  <2>2. mark \in Marks
    BY <1>3 DEF Bracket, Marks
  <2> HIDE DEF outer, mark
  <2>3. /\ Len(OpenNow) = Len(outer) + 1 /\ Len(outer) \in Nat
        /\ OpenNow # << >> /\ OpenNow[Len(OpenNow)] = mark
    BY <2>1, <2>2, AppendProperties
  <2>4. SubSeq(OpenNow, 1, Len(OpenNow) - 1) = outer
    BY <2>1, <2>2, <2>3
  <2>5. Extent!Closes(c) <=>
            CASE mark = "(" -> c = ")"
              [] mark = "[" -> c = "]"
              [] mark = "call" -> c \in {")", ","}
    BY <2>3 DEF Extent!Closes, OpenNow, Extent!Last
  <2>6. \/ Frame.role = "paren" /\ mark = "("
        \/ Frame.role = "index" /\ mark = "["
        \/ Frame.role = "arg" /\ mark = "call"
    BY <1>3 DEF Bracket, mark
  <2>7. Extent!Closes(c) <=> c \in Closers(Frame.role)
    BY <2>5, <2>6 DEF Closers
  <2> QED
    BY <2>3, <2>4, <2>7 DEF outer
<1> QED
  BY <1>2, <1>3

LEMMA InitExtent == Init => Extent!Init
<1> SUFFICES ASSUME Init PROVE Extent!Init
  OBVIOUS
<1>1. TypeOK
  BY InitTyped
<1>2. Frame.role = "root" /\ Frame.args = << >>
  BY DEF Init, Root, Frame
<1>3. BracketsOf(frames) = << >>
  BY <1>1, <1>2, TopBrackets
<1>4. ~BeforeArgs
  BY <1>2 DEF BeforeArgs
<1>5. input \in {<<t>> : t \in Tokens \cup {"end"}}
  BY DEF Init, NextToken
<1> QED
  BY <1>3, <1>4, <1>5 DEF Init, Extent!Init

TokOK == tok \in OperatorKinds \cup OtherTokens \cup {"end"}

LEMMA TokFacts == TypeOK => TokOK
<1> SUFFICES ASSUME TypeOK PROVE TokOK
  OBVIOUS
<1>1. Len(input) \in DOMAIN input /\ input \in Seq(Tokens \cup {"end"})
  BY DEF TypeOK
<1>2. tok \in Tokens \cup {"end"}
  BY <1>1 DEF tok
<1> QED
  BY <1>2, PrattAssumption DEF TokOK

(* A loop that stops where no power is asked for has a token that does not continue. *)
LEMMA StopsLoosely ==
    ASSUME TypeOK, LooseFrames, Stops, Frame.role \in {"root"} \cup DOMAIN Bracket
    PROVE  ~Extent!Continues(Class(tok))
<1>1. Frame.min = 0
  BY TopFrames DEF LooseFrames, Loose, Frame, TypeOK
<1>2. Power(tok) = 0
  BY <1>1, PowersAreNumbers DEF Stops, Binds
<1>3. Class(tok) \notin {"infix", "postfix", "(", "["}
  BY <1>2, TokFacts, ClassFacts DEF TokOK
<1> QED
  BY <1>3 DEF Extent!Continues

LEMMA GoesOn ==
    ASSUME TypeOK, Goes
    PROVE  Extent!Continues(Class(tok)) /\ AtNow = "loop"
<1>1. Power(tok) # 0 /\ mode = "loop"
  BY DEF Goes, Binds
<1>2. Class(tok) \in {"infix", "postfix", "(", "["}
  BY <1>1, TokFacts, ClassFacts DEF TokOK
<1> QED
  BY <1>1, <1>2 DEF Extent!Continues, AtNow, BeforeArgs

(* A step of Expressions: c is read, and the lookahead behind it chosen. *)
LEMMA ReadsStep ==
    ASSUME NEW c, c = Class(tok), Consume,
           \/ /\ AtNow \in {"operand", "args"} /\ Extent!Operand(c)
              /\ AtNow' = IF c = "atom" THEN "loop" ELSE "operand"
              /\ OpenNow' = IF c = "(" THEN Append(OpenNow, "(") ELSE OpenNow
           \/ /\ AtNow = "loop" /\ Extent!Continues(c)
              /\ AtNow' = CASE c = "(" -> "args" [] c = "postfix" -> "loop" [] OTHER -> "operand"
              /\ OpenNow' = CASE c = "(" -> Append(OpenNow, "call")
                              [] c = "[" -> Append(OpenNow, "[")
                              [] OTHER -> OpenNow
           \/ /\ (AtNow = "loop" /\ Extent!Closes(c)) \/ (AtNow = "args" /\ c = ")")
              /\ c \in {")", "]", ","}
              /\ AtNow' = IF c = "," THEN "operand" ELSE "loop"
              /\ OpenNow' = IF c = "," THEN OpenNow ELSE SubSeq(OpenNow, 1, Len(OpenNow) - 1)
    PROVE  Extent!Step
<1>1. Extent!Read(c)
  <2>1. CASE /\ AtNow \in {"operand", "args"} /\ Extent!Operand(c)
             /\ AtNow' = IF c = "atom" THEN "loop" ELSE "operand"
             /\ OpenNow' = IF c = "(" THEN Append(OpenNow, "(") ELSE OpenNow
    BY <2>1 DEF Extent!Read, Extent!Takes, Extent!Operand, AtNow, OpenNow
  <2>2. CASE /\ AtNow = "loop" /\ Extent!Continues(c)
             /\ AtNow' = CASE c = "(" -> "args" [] c = "postfix" -> "loop" [] OTHER -> "operand"
             /\ OpenNow' = CASE c = "(" -> Append(OpenNow, "call")
                              [] c = "[" -> Append(OpenNow, "[")
                              [] OTHER -> OpenNow
    BY <2>2 DEF Extent!Read, Extent!Takes, Extent!Continues, AtNow, OpenNow
  <2>3. CASE /\ (AtNow = "loop" /\ Extent!Closes(c)) \/ (AtNow = "args" /\ c = ")")
             /\ c \in {")", "]", ","}
             /\ AtNow' = IF c = "," THEN "operand" ELSE "loop"
             /\ OpenNow' = IF c = "," THEN OpenNow ELSE SubSeq(OpenNow, 1, Len(OpenNow) - 1)
    BY <2>3 DEF Extent!Read, Extent!Takes, Extent!Operand, Extent!Front, AtNow, OpenNow
  <2> QED
    BY <2>1, <2>2, <2>3
<1>2. \E t \in IF Len(input) < MaxTokens THEN Tokens \cup {"end"} ELSE {"end"} :
            input' = Append(input, t)
  BY DEF Consume, NextToken
<1>3. c = Class(Extent!tok)
  BY DEF Extent!tok, tok
<1> QED
  BY <1>1, <1>2, <1>3 DEF Extent!Step

ExtentStep == Extent!Next \/ UNCHANGED <<input, OpenNow, AtNow>>

LEMMA RefusedStep ==
    ASSUME AtNow \in {"operand", "args", "loop"}, ~Extent!Takes(Class(tok)),
           AtNow = "loop" => OpenNow # << >>,
           mode' = "error", UNCHANGED <<input, frames>>
    PROVE  Extent!Reject
<1>1. AtNow' = "error" /\ OpenNow' = OpenNow
  BY NoArgsLeft, StayedAt
<1>2. Extent!InExpression /\ ~Extent!Ends(Class(tok))
  BY DEF Extent!InExpression, Extent!Ends, AtNow, OpenNow
<1>3. tok = Extent!tok
  BY DEF tok, Extent!tok
<1> QED
  BY <1>1, <1>2, <1>3 DEF Extent!Reject, Extent!Fails, AtNow, OpenNow

LEMMA OperandSteps ==
    ASSUME TypeOK, Prefix \/ OpenParen \/ OpenCast \/ Atom
    PROVE  Extent!Step
<1> DEFINE c == Class(tok)
<1>a. << >> \in Seq(Nat) /\ "" \in OperatorKinds \cup {""} /\ 0 \in Nat /\ CAST_BP \in Nat
  BY DEF CAST_BP
<1>b. AtNow \in {"operand", "args"}
  BY DEF AtNow, Prefix, OpenParen, OpenCast, Atom
<1>c. DOMAIN Bracket = {"paren", "index", "arg"} /\ Bracket["paren"] = "("
  BY DEF Bracket
<1>d. OpenNow = BracketsOf(frames)
  BY DEF OpenNow
<1>1. CASE Prefix
  <2>1. Recurse(frames, "prefix", tok, 0, << >>, bp_prefix(tok)) /\ tok \in OperatorKinds
    BY <1>1 DEF Prefix, Operators
  <2>2. bp_prefix(tok) \in Nat /\ "prefix" \in Roles \ {"root"}
    BY PowersAreNumbers DEF Roles
  <2>3. AtNow' = "operand" /\ OpenNow' = OpenNow /\ Consume
    BY <1>a, <1>c, <1>d, <2>1, <2>2, Recursed
  <2>4. c \in {"prefix", "infix", "postfix"}
    BY <2>1, ClassFacts
  <2> HIDE DEF c
  <2>5. Extent!Operand(c) /\ c # "atom" /\ c # "("
    BY <2>4 DEF Extent!Operand
  <2> QED
    BY <1>b, <2>3, <2>5, ReadsStep DEF c
<1>2. CASE OpenParen
  <2>1. Recurse(frames, "paren", "", 0, << >>, 0) /\ tok = "("
    BY <1>2 DEF OpenParen
  <2>2. "paren" \in Roles \ {"root"}
    BY DEF Roles
  <2>3. AtNow' = "operand" /\ OpenNow' = Append(OpenNow, "(") /\ Consume
    BY <1>a, <1>c, <1>d, <2>1, <2>2, Recursed
  <2>4. c = "("
    BY <2>1, ClassFacts DEF OtherTokens
  <2> HIDE DEF c
  <2>5. Extent!Operand(c) /\ c # "atom"
    BY <2>4 DEF Extent!Operand
  <2> QED
    BY <1>b, <2>3, <2>4, <2>5, ReadsStep DEF c
<1>3. CASE OpenCast
  <2>1. Recurse(frames, "cast", "", 0, << >>, CAST_BP) /\ tok = "@"
    BY <1>3 DEF OpenCast
  <2>2. "cast" \in Roles \ {"root"}
    BY DEF Roles
  <2>3. AtNow' = "operand" /\ OpenNow' = OpenNow /\ Consume
    BY <1>a, <1>c, <1>d, <2>1, <2>2, Recursed
  <2>4. c = "prefix"
    BY <2>1, ClassFacts DEF OtherTokens
  <2> HIDE DEF c
  <2>5. Extent!Operand(c) /\ c # "atom" /\ c # "("
    BY <2>4 DEF Extent!Operand
  <2> QED
    BY <1>b, <2>3, <2>5, ReadsStep DEF c
<1>4. CASE Atom
  <2>1. mode' = "loop" /\ frames' = frames /\ Consume /\ tok \in {"name", "num"}
    BY <1>4 DEF Atom
  <2>2. AtNow' = "loop" /\ OpenNow' = OpenNow
    BY <2>1, NoArgsLeft, StayedAt
  <2>3. c = "atom"
    BY <2>1, ClassFacts DEF OtherTokens
  <2> HIDE DEF c
  <2>4. Extent!Operand(c) /\ c # "("
    BY <2>3 DEF Extent!Operand
  <2> QED
    BY <1>b, <2>1, <2>2, <2>3, <2>4, ReadsStep DEF c
<1> QED
  BY <1>1, <1>2, <1>3, <1>4

LEMMA ContinuingSteps ==
    ASSUME TypeOK, OpenCall \/ OpenIndex \/ Postfix \/ Infix
    PROVE  Extent!Step
<1> DEFINE c == Class(tok)
<1>a. << >> \in Seq(Nat) /\ "" \in OperatorKinds \cup {""} /\ 0 \in Nat /\ Out \in Nat
  BY DEF TypeOK, Out
<1>b. AtNow = "loop" /\ Extent!Continues(c)
  BY GoesOn DEF OpenCall, OpenIndex, Postfix, Infix
<1>c. /\ DOMAIN Bracket = {"paren", "index", "arg"}
      /\ Bracket["arg"] = "call" /\ Bracket["index"] = "["
  BY DEF Bracket
<1>d. OpenNow = BracketsOf(frames)
  BY DEF OpenNow
<1>1. CASE OpenCall
  <2>1. Recurse(frames, "arg", "", Out, << >>, 0) /\ tok = "("
    BY <1>1 DEF OpenCall
  <2>2. "arg" \in Roles \ {"root"}
    BY DEF Roles
  <2>3. AtNow' = "args" /\ OpenNow' = Append(OpenNow, "call") /\ Consume
    BY <1>a, <1>c, <1>d, <2>1, <2>2, Recursed
  <2>4. c = "("
    BY <2>1, ClassFacts DEF OtherTokens
  <2> HIDE DEF c
  <2> QED
    BY <1>b, <2>3, <2>4, ReadsStep DEF c
<1>2. CASE OpenIndex
  <2>1. Recurse(frames, "index", "", Out, << >>, 0) /\ tok = "["
    BY <1>2 DEF OpenIndex
  <2>2. "index" \in Roles \ {"root"}
    BY DEF Roles
  <2>3. AtNow' = "operand" /\ OpenNow' = Append(OpenNow, "[") /\ Consume
    BY <1>a, <1>c, <1>d, <2>1, <2>2, Recursed
  <2>4. c = "["
    BY <2>1, ClassFacts DEF OtherTokens
  <2> HIDE DEF c
  <2> QED
    BY <1>b, <2>3, <2>4, ReadsStep DEF c
<1>3. CASE Postfix
  <2>1. mode' = "loop" /\ frames' = frames /\ Consume /\ bp_postfix(tok) # 0
    BY <1>3 DEF Postfix, Goes
  <2>2. AtNow' = "loop" /\ OpenNow' = OpenNow
    BY <2>1, NoArgsLeft, StayedAt
  <2>3. tok \in OperatorKinds
    BY <2>1 DEF bp_postfix, OperatorKinds
  <2>4. c = "postfix"
    BY <2>1, <2>3, ClassFacts
  <2> HIDE DEF c
  <2> QED
    BY <1>b, <2>1, <2>2, <2>4, ReadsStep DEF c
<1>4. CASE Infix
  <2>1. /\ Recurse(frames, "right", tok, Out, << >>, bp_infix_right(tok))
        /\ tok \in OperatorKinds /\ bp_postfix(tok) = 0
    BY <1>4 DEF Infix, Operators
  <2>2. bp_infix_right(tok) \in Nat /\ "right" \in Roles \ {"root"}
    BY PowersAreNumbers DEF Roles
  <2>3. AtNow' = "operand" /\ OpenNow' = OpenNow /\ Consume
    BY <1>a, <1>c, <1>d, <2>1, <2>2, Recursed
  <2>4. c \in {"prefix", "infix", "postfix"} /\ c # "postfix"
    BY <2>1, ClassFacts
  <2> HIDE DEF c
  <2>5. c = "infix"
    BY <1>b, <2>4 DEF Extent!Continues
  <2> QED
    BY <1>b, <2>3, <2>5, ReadsStep DEF c
<1> QED
  BY <1>1, <1>2, <1>3, <1>4

(* The end of an activation that is no bracket is not seen from outside. *)
LEMMA HiddenReturns ==
    ASSUME TypeOK, FinishPrefix \/ FinishCast \/ FinishInfix
    PROVE  UNCHANGED <<input, OpenNow, AtNow>>
<1>1. /\ Frame.role \notin DOMAIN Bracket
      /\ mode = "loop" /\ mode' = "loop" /\ input' = input /\ frames' = Callers
  BY DEF FinishPrefix, FinishCast, FinishInfix, Finish, Stops, Bracket
<1>2. AtNow = "loop" /\ AtNow' = "loop" /\ OpenNow' = BracketsOf(Callers)
  BY <1>1, BackAt DEF AtNow, BeforeArgs
<1>3. OpenNow = BracketsOf(Callers)
  BY <1>1, TopBrackets DEF OpenNow, BracketStep
<1> QED
  BY <1>1, <1>2, <1>3

LEMMA ClosingSteps ==
    ASSUME TypeOK, EmptyCall \/ CloseParen \/ CloseIndex \/ CloseCall
    PROVE  Extent!Step
<1> DEFINE c == Class(tok)
<1>1. /\ Frame.role \in DOMAIN Bracket /\ tok \in Closers(Frame.role)
      /\ tok \in {")", "]"} /\ Consume /\ frames' = Callers /\ mode' = "loop"
      /\ AtNow = "loop" \/ (AtNow = "args" /\ tok = ")")
  <2> USE DEF Bracket, Closers, AtNow, BeforeArgs
  <2>1. CASE EmptyCall
    BY <2>1 DEF EmptyCall
  <2>2. CASE CloseParen
    BY <2>2 DEF CloseParen, Stops
  <2>3. CASE CloseIndex
    BY <2>3 DEF CloseIndex, Stops
  <2>4. CASE CloseCall
    BY <2>4 DEF CloseCall, Stops
  <2> QED
    BY <2>1, <2>2, <2>3, <2>4
<1>2. c = tok
  BY <1>1, ClassFacts DEF OtherTokens
<1> HIDE DEF c
<1>3. AtNow' = "loop" /\ OpenNow' = BracketsOf(Callers)
  BY <1>1, BackAt
<1>4. Extent!Closes(c) /\ SubSeq(OpenNow, 1, Len(OpenNow) - 1) = BracketsOf(Callers)
  BY <1>1, <1>2, ClosersClose
<1>5. c \in {")", "]"} /\ c # ","
  BY <1>1, <1>2
<1>6. (AtNow = "loop" /\ Extent!Closes(c)) \/ (AtNow = "args" /\ c = ")")
  BY <1>1, <1>2, <1>4
<1> QED
  BY <1>1, <1>3, <1>4, <1>5, <1>6, ReadsStep DEF c

LEMMA CommaStep ==
    ASSUME TypeOK, NextArg
    PROVE  Extent!Step
<1> DEFINE c == Class(tok)
           args == Append(Frame.args, Out)
<1>1. /\ Frame.role = "arg" /\ tok = "," /\ mode = "loop"
      /\ Recurse(Callers, "arg", "", Frame.left, args, 0)
  BY DEF NextArg, Stops
<1>2. /\ Frame.left \in Nat /\ args \in Seq(Nat) /\ args # << >>
      /\ "" \in OperatorKinds \cup {""} /\ 0 \in Nat /\ "arg" \in Roles \ {"root"}
  <2>a. Out \in Nat
    BY DEF TypeOK, Out
  <2>1. Out \in Nat /\ Frame.left \in Nat /\ Frame.args \in Seq(Nat)
    BY <2>a, FrameFields
  <2> QED
    BY <2>1, AppendProperties DEF Roles
<1> HIDE DEF args
<1>3. "arg" \in DOMAIN Bracket /\ Bracket["arg"] = "call"
  BY DEF Bracket
<1>4. /\ AtNow' = "operand" /\ Consume
      /\ OpenNow' = Append(BracketsOf(Callers), "call")
  BY <1>1, <1>2, <1>3, Recursed
<1>5. OpenNow' = OpenNow
  BY <1>1, <1>3, <1>4, TopBrackets DEF OpenNow, BracketStep
<1>6. c = ","
  BY <1>1, ClassFacts DEF OtherTokens
<1> HIDE DEF c
<1>7. Extent!Closes(c)
  BY <1>1, <1>3, <1>6, ClosersClose DEF Closers
<1>8. AtNow = "loop"
  BY <1>1 DEF AtNow, BeforeArgs
<1> QED
  <2>1. /\ (AtNow = "loop" /\ Extent!Closes(c)) \/ (AtNow = "args" /\ c = ")")
        /\ c \in {")", "]", ","}
        /\ AtNow' = IF c = "," THEN "operand" ELSE "loop"
        /\ OpenNow' = IF c = "," THEN OpenNow ELSE SubSeq(OpenNow, 1, Len(OpenNow) - 1)
    BY <1>4, <1>5, <1>6, <1>7, <1>8
  <2>2. c = Class(tok)
    BY DEF c
  <2> QED
    BY <1>4, <2>1, <2>2, ReadsStep

LEMMA RefusingSteps ==
    ASSUME TypeOK, LooseFrames, NoOperand \/ NoCloser
    PROVE  Extent!Reject
<1> DEFINE c == Class(tok)
<1>1. CASE NoOperand
  <2>1. /\ tok \in {")", "[", "]", ",", "end"} /\ mode = "operand"
        /\ tok = ")" => ~BeforeArgs
        /\ mode' = "error" /\ UNCHANGED <<input, frames>>
    BY <1>1 DEF NoOperand, BeforeArgs
  <2>2. c = tok
    BY <2>1, ClassFacts DEF OtherTokens
  <2> HIDE DEF c
  <2>3. AtNow \in {"operand", "args"} /\ (c = ")" => AtNow = "operand")
    BY <2>1, <2>2 DEF AtNow
  <2>4. ~Extent!Takes(c)
    BY <2>1, <2>2, <2>3 DEF Extent!Takes, Extent!Operand, AtNow
  <2> QED
    BY <2>1, <2>3, <2>4, RefusedStep DEF c
<1>2. CASE NoCloser
  <2>1. /\ Stops /\ tok \notin Closers(Frame.role) /\ AtNow = "loop"
        /\ mode' = "error" /\ UNCHANGED <<input, frames>>
    BY <1>2 DEF NoCloser, Stops, AtNow, BeforeArgs
  <2>2. Frame.role \in DOMAIN Bracket
    <3>1. tok \in Tokens \cup {"end"}
      BY DEF TypeOK, tok
    <3> QED
      BY <2>1, <3>1 DEF Closers, Bracket
  <2>3. ~Extent!Continues(c)
    BY <2>1, <2>2, StopsLoosely
  <2>4. ~Extent!Closes(c) /\ OpenNow # << >>
    <3>1. Extent!Closes(c) <=> c \in Closers(Frame.role)
      BY <2>2, ClosersClose
    <3>2. c \in Closers(Frame.role) => c = tok
      <4>1. Closers(Frame.role) \subseteq {")", "]", ","}
        BY <2>2 DEF Closers, Bracket
      <4>2. TokOK
        BY TokFacts
      <4>3. tok \in OperatorKinds => c \in {"prefix", "infix", "postfix"}
        BY <4>2, ClassFacts DEF TokOK
      <4>4. tok \in OtherTokens \cup {"end"} => c = tok \/ c \in {"atom", "prefix"}
        BY <4>2, ClassFacts DEF TokOK, OtherTokens
      <4> HIDE DEF c
      <4> QED
        BY <4>1, <4>2, <4>3, <4>4 DEF TokOK
    <3> QED
      BY <2>1, <2>2, <3>1, <3>2, ClosersClose
  <2> HIDE DEF c
  <2>5. ~Extent!Takes(c)
    BY <2>1, <2>3, <2>4 DEF Extent!Takes, AtNow
  <2> QED
    BY <2>1, <2>4, <2>5, RefusedStep DEF c
<1> QED
  BY <1>1, <1>2

LEMMA AcceptingStep ==
    ASSUME TypeOK, LooseFrames, Accept
    PROVE  Extent!Accept
<1> DEFINE c == Class(tok)
<1>1. /\ Stops /\ Frame.role = "root" /\ AtNow = "loop"
      /\ mode' = "done" /\ UNCHANGED <<input, frames>>
  BY DEF Accept, Stops, AtNow, BeforeArgs
<1>2. ~Extent!Continues(c) /\ ~Extent!Closes(c)
  BY <1>1, StopsLoosely, ClosersClose
<1> HIDE DEF c
<1>3. OpenNow = << >>
  BY <1>1, TopBrackets DEF OpenNow
<1>4. Extent!Ends(c)
  BY <1>1, <1>2, <1>3 DEF Extent!Ends, Extent!Takes, AtNow, OpenNow
<1>5. AtNow' = "done" /\ OpenNow' = OpenNow
  BY <1>1, NoArgsLeft, StayedAt
<1>6. tok = Extent!tok
  BY DEF tok, Extent!tok
<1> QED
  BY <1>1, <1>4, <1>5, <1>6 DEF Extent!Accept, AtNow, OpenNow, c

LEMMA StepExtent == TypeOK /\ LooseFrames /\ Next => ExtentStep
<1> SUFFICES ASSUME TypeOK, LooseFrames, Next PROVE ExtentStep
  OBVIOUS
<1>1. ASSUME Done PROVE UNCHANGED <<input, OpenNow, AtNow>>
  <2>1. /\ input' = input /\ frames' = frames /\ mode' = mode
    BY <1>1 DEF Done, vars
  <2>2. AtNow' = AtNow
    BY <2>1 DEF AtNow, BeforeArgs, Frame
  <2> QED
    BY <2>1, <2>2, StayedAt
<1> QED
  BY <1>1, OperandSteps, ContinuingSteps, HiddenReturns, ClosingSteps, CommaStep,
     RefusingSteps, AcceptingStep DEF Next, ExtentStep, Extent!Next

(***************************************************************************)
(* The parser implements Expressions: whatever the binding powers, which   *)
(* tokens an expression takes and whether it is turned down is decided by  *)
(* the brackets that are open alone, for inputs of any length.             *)
(***************************************************************************)
THEOREM ExtentIsPromised == Spec => ImplementsExtent
<1>1. Init => TypeOK /\ LooseFrames /\ Extent!Init
  <2>1. Root.min = 0
    BY DEF Root
  <2>2. Init => DOMAIN frames = {1} /\ frames[1] = Root
    BY DEF Init
  <2>3. Init => LooseFrames
    BY <2>1, <2>2 DEF LooseFrames, Loose
  <2> QED
    BY <2>3, InitTyped, InitExtent
<1>2. TypeOK /\ LooseFrames /\ [Next]_vars => TypeOK' /\ LooseFrames'
  <2>1. TypeOK /\ LooseFrames /\ UNCHANGED vars => TypeOK' /\ LooseFrames'
    BY DEF vars, TypeOK, LooseFrames, Loose
  <2> QED
    BY <2>1, StepTyped, StepLoose
<1>3. TypeOK /\ LooseFrames /\ [Next]_vars
        => [Extent!Next]_<<input, BracketsOf(frames), IF BeforeArgs THEN "args" ELSE mode>>
  <2>1. ASSUME UNCHANGED vars PROVE UNCHANGED <<input, OpenNow, AtNow>>
    <3>1. /\ input' = input /\ frames' = frames /\ mode' = mode
      BY <2>1 DEF vars
    <3>2. AtNow' = AtNow
      BY <3>1 DEF AtNow, BeforeArgs, Frame
    <3> QED
      BY <3>1, <3>2, StayedAt
  <2>2. TypeOK /\ LooseFrames /\ [Next]_vars => ExtentStep
    BY <2>1, StepExtent DEF ExtentStep
  <2> QED
    BY <2>2 DEF ExtentStep, OpenNow, AtNow
<1> QED
  BY <1>1, <1>2, <1>3, PTL DEF Spec, ImplementsExtent, Extent!Spec

-----------------------------------------------------------------------------
(* How deep in brackets a token is. *)

Opening == {"(", "["}
Closing == {")", "]"}
Ending == {")", "]", ","}

Count(ts, p, T) == Cardinality({q \in 1 .. p - 1 : ts[q] \in T})

(* Brackets, of the text ts. *)
Depth(ts, p) == Count(ts, p, Opening) - Count(ts, p, Closing)

(***************************************************************************)
(* The brackets between a and b are closed there, none that was open is,   *)
(* and a token that is not in one of them is none of the barred ones.      *)
(***************************************************************************)
Level(ts, a, b, barred) ==
    /\ Depth(ts, b + 1) = Depth(ts, a)
    /\ \A p \in a .. b : /\ Depth(ts, p) >= Depth(ts, a)
                         /\ Depth(ts, p) = Depth(ts, a) => ts[p] \notin barred

LEMMA BracketsIsDepth == \A p : Brackets(p) = Depth(input, p)
BY DEF Brackets, Depth, Count, Opening, Closing

LEMMA CountOneMore ==
  ASSUME NEW ts, NEW p \in Nat \ {0}, NEW T
  PROVE  /\ Count(ts, p, T) \in Nat
         /\ Count(ts, p + 1, T) = Count(ts, p, T) + (IF ts[p] \in T THEN 1 ELSE 0)
<1> DEFINE A == {q \in 1 .. p - 1 : ts[q] \in T}
           B == {q \in 1 .. (p + 1) - 1 : ts[q] \in T}
<1>1. IsFiniteSet(A) /\ Cardinality(A) \in Nat
  <2>1. IsFiniteSet(1 .. p - 1)
    BY FS_Interval
  <2>2. IsFiniteSet(A)
    BY <2>1, FS_Subset
  <2> QED
    BY <2>2, FS_CardinalityType
<1>2. Count(ts, p, T) = Cardinality(A) /\ Count(ts, p + 1, T) = Cardinality(B)
  BY DEF Count
<1>3. CASE ts[p] \in T
  <2>1. B = A \cup {p} /\ p \notin A
    BY <1>3
  <2> HIDE DEF A, B
  <2>2. Cardinality(B) = Cardinality(A) + 1
    BY <1>1, <2>1, FS_AddElement
  <2> QED
    BY <1>1, <1>2, <1>3, <2>2
<1>4. CASE ts[p] \notin T
  <2>1. B = A
    BY <1>4
  <2> HIDE DEF A, B
  <2> QED
    BY <1>1, <1>2, <1>4, <2>1
<1> QED
  BY <1>3, <1>4

(* A bracket changes the depth of what follows it by one. *)
LEMMA DepthOneMore ==
  ASSUME NEW ts, NEW p \in Nat \ {0}
  PROVE  /\ Depth(ts, p) \in Int /\ Depth(ts, p + 1) \in Int
         /\ ts[p] \in Opening => Depth(ts, p + 1) = Depth(ts, p) + 1
         /\ ts[p] \in Closing => Depth(ts, p + 1) = Depth(ts, p) - 1
         /\ ts[p] \notin Opening \cup Closing => Depth(ts, p + 1) = Depth(ts, p)
<1>1. /\ Count(ts, p, Opening) \in Nat /\ Count(ts, p, Closing) \in Nat
      /\ Count(ts, p + 1, Opening) = Count(ts, p, Opening) + (IF ts[p] \in Opening THEN 1 ELSE 0)
      /\ Count(ts, p + 1, Closing) = Count(ts, p, Closing) + (IF ts[p] \in Closing THEN 1 ELSE 0)
  BY CountOneMore
<1>2. ~(ts[p] \in Opening /\ ts[p] \in Closing)
  BY DEF Opening, Closing
<1> QED
  BY <1>1, <1>2 DEF Depth

LEMMA DepthSame ==
  ASSUME NEW ts, NEW us, ReadOn(us, ts), NEW p \in 1 .. Len(ts) + 1
  PROVE  Depth(us, p) = Depth(ts, p)
<1>1. \A q \in 1 .. p - 1 : us[q] = ts[q]
  BY DEF ReadOn
<1>2. ASSUME NEW T PROVE {q \in 1 .. p - 1 : us[q] \in T} = {q \in 1 .. p - 1 : ts[q] \in T}
  BY <1>1
<1> QED
  BY <1>2 DEF Depth, Count

LEMMA LevelSame ==
  ASSUME NEW ts, NEW us, ReadOn(us, ts), NEW barred, NEW a \in Nat \ {0}, NEW b \in Nat,
         a <= b + 1, b <= Len(ts), Level(ts, a, b, barred)
  PROVE  Level(us, a, b, barred)
<1>1. Len(ts) \in Nat /\ \A p \in 1 .. Len(ts) : us[p] = ts[p]
  BY DEF ReadOn
<1>2. \A p \in a .. b + 1 : p \in 1 .. Len(ts) + 1
  BY <1>1
<1>3. \A p \in a .. b + 1 : Depth(us, p) = Depth(ts, p)
  BY <1>2, DepthSame
<1>4. a \in a .. b + 1 /\ b + 1 \in a .. b + 1 /\ \A p \in a .. b : p \in a .. b + 1 /\ p \in 1 .. Len(ts)
  BY <1>1
<1> QED
  BY <1>1, <1>3, <1>4 DEF Level

LEMMA LevelWeaker ==
  ASSUME NEW ts, NEW a, NEW b, Level(ts, a, b, Ending)
  PROVE  Level(ts, a, b, Closing)
BY DEF Level, Ending, Closing

LEMMA LevelJoin ==
  ASSUME NEW ts, NEW barred, NEW a \in Nat, NEW b \in Nat, NEW c \in Nat, a <= b + 1, b <= c,
         Level(ts, a, b, barred), Level(ts, b + 1, c, barred)
  PROVE  Level(ts, a, c, barred)
<1>1. Depth(ts, c + 1) = Depth(ts, a) /\ Depth(ts, b + 1) = Depth(ts, a)
  BY DEF Level
<1>2. ASSUME NEW p \in a .. c
      PROVE  Depth(ts, p) >= Depth(ts, a) /\ (Depth(ts, p) = Depth(ts, a) => ts[p] \notin barred)
  <2>1. p \in a .. b \/ p \in b + 1 .. c
    OBVIOUS
  <2> QED
    BY <1>1, <2>1 DEF Level
<1> QED
  BY <1>1, <1>2 DEF Level

LEMMA LevelOne ==
  ASSUME NEW ts, NEW barred, NEW p \in Nat \ {0}, ts[p] \notin Opening \cup Closing, ts[p] \notin barred
  PROVE  Level(ts, p, p, barred)
<1>1. Depth(ts, p + 1) = Depth(ts, p) /\ Depth(ts, p) \in Int
  BY DepthOneMore
<1>2. \A q \in p .. p : q = p
  OBVIOUS
<1> QED
  BY <1>1, <1>2 DEF Level

(* What is in brackets is not seen from outside. *)
LEMMA LevelWrapped ==
  ASSUME NEW ts, NEW a \in Nat \ {0}, NEW b \in Nat, a < b, ts[a] \in Opening, ts[b] \in Closing,
         Level(ts, a + 1, b - 1, Closing)
  PROVE  Level(ts, a, b, Ending)
<1>1. Depth(ts, a) \in Int /\ Depth(ts, a + 1) = Depth(ts, a) + 1
  BY DepthOneMore
<1>2. Depth(ts, b) = Depth(ts, a + 1)
  <2>1. (b - 1) + 1 = b
    OBVIOUS
  <2> QED
    BY <2>1 DEF Level
<1>3. Depth(ts, b + 1) = Depth(ts, b) - 1
  BY DepthOneMore
<1>4. ASSUME NEW p \in a .. b
      PROVE  Depth(ts, p) >= Depth(ts, a) /\ (Depth(ts, p) = Depth(ts, a) => ts[p] \notin Ending)
  <2>1. CASE p = a
    <3>1. \A t \in Opening : t \notin Ending
      BY DEF Opening, Ending
    <3> QED
      BY <1>1, <2>1, <3>1
  <2>2. CASE p = b
    BY <1>1, <1>2, <2>2
  <2>3. CASE p # a /\ p # b
    <3>1. p \in a + 1 .. b - 1 /\ p \in Nat \ {0}
      BY <2>3
    <3>2. Depth(ts, p) >= Depth(ts, a + 1) /\ Depth(ts, p) \in Int
      BY <3>1, DepthOneMore DEF Level
    <3> QED
      BY <1>1, <3>2
  <2> QED
    BY <2>1, <2>2, <2>3
<1> QED
  BY <1>1, <1>2, <1>3, <1>4 DEF Level
-----------------------------------------------------------------------------
(* Operators side by side. *)

(* Where the operator, or the bracket, of a node or an activation stands. *)
SignAt(n, ns) == ns[n.kids[1]].last + 1
OpensAt(f, ns) == ns[f.left].last + 1

AllLevel(ns, ts) == \A i \in 1 .. Len(ns) : Level(ts, ns[i].first, ns[i].last, Ending)

(* The arguments of an open call. *)
ArgumentsLevel(fs, ns, ts) ==
    \A i \in 1 .. Len(fs) : fs[i].role = "arg" =>
        /\ ts[OpensAt(fs[i], ns)] = "("
        /\ Level(ts, OpensAt(fs[i], ns) + 1, fs[i].start - 1, Closing)

(* A stray operator lets everything follow it. *)
Proper(f) == f.role = "prefix" => f.op \in PrefixKinds

(* What is tight enough for high is tight enough for low. *)
Narrower(low, high) ==
    \A op \in OperatorKinds :
        bp_infix_left(op) # 0 /\ bp_infix_left(op) >= high => bp_infix_left(op) >= low

(* Activation f is an outer one of g, the i-th and the j-th. *)
Within(i, j, fs, ts) ==
    /\ fs[i].start <= fs[j].start /\ Depth(ts, fs[i].start) <= Depth(ts, fs[j].start)
    /\ Depth(ts, fs[i].start) = Depth(ts, fs[j].start) /\ (\A k \in i + 1 .. j : Proper(fs[k]))
          => Narrower(fs[i].min, fs[j].min)

AllWithin(fs, ts) == \A i, j \in 1 .. Len(fs) : i < j => Within(i, j, fs, ts)

(* No node made so far has the operator of an open activation in it. *)
Beside(f, ns) ==
    f.role \in Joined =>
        /\ OpensAt(f, ns) < f.start
        /\ \A k \in 1 .. Len(ns) : ns[k].last < OpensAt(f, ns) \/ ns[k].first > OpensAt(f, ns)

AllBeside(fs, ns) == \A i \in 1 .. Len(fs) : Beside(fs[i], ns)

(***************************************************************************)
(* An infix operator d was ended by what follows its right operand, which  *)
(* is too loose for it: the lookahead, the operator of a node or of an     *)
(* activation that is open; or what follows closes a bracket.              *)
(***************************************************************************)
ByNode(t, power, ns) ==
    \E c \in 1 .. Len(ns) :
        LeftPower(ns[c]) # 0 /\ SignAt(ns[c], ns) = t /\ LeftPower(ns[c]) < power

ByFrame(t, power, fs, ns) ==
    \E i \in 1 .. Len(fs) :
        fs[i].role \in Joined /\ OpensAt(fs[i], ns) = t /\ FramePower(fs[i]) < power

Stopped(t, power, ns, fs, ts, md) ==
    \/ t = Len(ts) /\ md # "operand" /\ Power(ts[t]) < power
    \/ ts[t] \in Ending
    \/ ByNode(t, power, ns)
    \/ ByFrame(t, power, fs, ns)

Bins(ns) == {n \in 1 .. Len(ns) : ns[n].kind = "BinOp"}

AllStopped(ns, fs, ts, md) ==
    \A d \in Bins(ns) : Stopped(End(ns[d]) + 1, bp_infix_right(ns[d].op), ns, fs, ts, md)

(* SplitsAtWeakest, of n and an operator d on its left or on its right. *)
Same(n, d, ns, ts) == Depth(ts, SignAt(d, ns)) = Depth(ts, SignAt(n, ns))

LeftOf(n, d, ns, ts) ==
    SignAt(d, ns) \in Begin(n) .. SignAt(n, ns) - 1 /\ Same(n, d, ns, ts) =>
        \E c \in 1 .. Len(ns) :
            /\ LeftPower(ns[c]) # 0 /\ LeftPower(ns[c]) < bp_infix_right(d.op)
            /\ SignAt(ns[c], ns) \in SignAt(d, ns) + 1 .. SignAt(n, ns)
            /\ Same(d, ns[c], ns, ts)

RightOf(n, d, ns, ts) ==
    SignAt(d, ns) \in SignAt(n, ns) + 1 .. End(n) /\ Same(n, d, ns, ts) =>
        bp_infix_left(d.op) >= bp_infix_right(n.op)

AllLeft(ns, ts) == \A n, d \in Bins(ns) : LeftOf(ns[n], ns[d], ns, ts)
AllRight(ns, ts) == \A n, d \in Bins(ns) : RightOf(ns[n], ns[d], ns, ts)

(* What an activation has read at its own depth is tight enough for it. *)
TightEnough(d, f, ns, ts) ==
    SignAt(d, ns) >= f.start /\ Depth(ts, SignAt(d, ns)) = Depth(ts, f.start) =>
        bp_infix_left(d.op) >= f.min

Tight(i, fs, ns, ts) ==
    (\A k \in i + 1 .. Len(fs) : Proper(fs[k])) => \A d \in Bins(ns) : TightEnough(ns[d], fs[i], ns, ts)

AllTight(fs, ns, ts) == \A i \in 1 .. Len(fs) : Tight(i, fs, ns, ts)

Split ==
    /\ AllLevel(nodes, input) /\ ArgumentsLevel(frames, nodes, input)
    /\ AllWithin(frames, input) /\ AllBeside(frames, nodes)
    /\ AllStopped(nodes, frames, input, mode) /\ AllLeft(nodes, input)
    /\ ProperPrefixes => AllRight(nodes, input) /\ AllTight(frames, nodes, input)

(* The operator of a node stands in its text, behind its first child. *)
LEMMA SignIsRead ==
  ASSUME TypeOK, Inductive, Textual, NEW i \in 1 .. Len(nodes)
  PROVE  /\ nodes[i] \in Node /\ NodeTiled(nodes[i], nodes, input)
         /\ nodes[i].first \in 1 .. Len(input) - 1 /\ nodes[i].last \in 1 .. Len(input) - 1
         /\ nodes[i].first <= nodes[i].last
         /\ End(nodes[i]) + 1 \in 1 .. Len(input) /\ Begin(nodes[i]) \in 1 .. Len(input)
         /\ \A k \in DOMAIN nodes[i].kids : nodes[i].kids[k] \in 1 .. i - 1
         /\ LeftPower(nodes[i]) # 0 \/ nodes[i].kind = "BinOp" => nodes[i].kids # << >>
         /\ nodes[i].kids # << >> =>
               /\ 1 \in DOMAIN nodes[i].kids
               /\ nodes[i].kids[1] \in 1 .. Len(nodes) /\ nodes[i].kids[1] < i
               /\ SignAt(nodes[i], nodes) \in 1 .. Len(input)
<1>1. nodes[i] \in Node /\ Placed(nodes[i], input) /\ NodeTiled(nodes[i], nodes, input)
  BY HandIsPlaced DEF Textual
<1>2. Len(input) \in Nat \ {0} /\ Len(nodes) \in Nat /\ DOMAIN nodes = 1 .. Len(nodes)
  BY Lookahead, LenProperties DEF TypeOK
<1>3. /\ nodes[i].first \in 1 .. Len(input) - 1 /\ nodes[i].last \in 1 .. Len(input) - 1
      /\ nodes[i].first <= nodes[i].last
      /\ End(nodes[i]) + 1 \in 1 .. Len(input) /\ Begin(nodes[i]) \in 1 .. Len(input)
  <2>1. /\ Begin(nodes[i]) \in 1 .. Len(input) - 1 /\ End(nodes[i]) \in 1 .. Len(input) - 1
        /\ nodes[i].first <= nodes[i].last /\ nodes[i].last \in 1 .. Len(input) - 1
        /\ nodes[i].first <= Begin(nodes[i]) /\ nodes[i].first \in Nat \ {0}
    BY <1>1, <1>2, PlacedFacts, NodeFields
  <2> QED
    BY <1>2, <2>1
<1>4. /\ \A k \in DOMAIN nodes[i].kids : nodes[i].kids[k] \in 1 .. i - 1
      /\ LeftPower(nodes[i]) # 0 \/ EndsInOperand(nodes[i]) => nodes[i].kids # << >>
  BY <1>2 DEF Inductive, KidsOlder, KidsBelow
<1>5. nodes[i].kind = "BinOp" => nodes[i].kids # << >>
  <2>1. nodes[i].kind = "BinOp" => Parts(nodes[i], nodes, input) /\ ~Leaf(nodes[i])
    BY <1>1 DEF NodeTiled, Leaf
  <2>2. nodes[i].kind = "BinOp" => Len(nodes[i].kids) # 0
    BY <2>1 DEF Parts
  <2> QED
    BY <2>2
<1>6. ASSUME nodes[i].kids # << >>
      PROVE  /\ 1 \in DOMAIN nodes[i].kids
             /\ nodes[i].kids[1] \in 1 .. Len(nodes) /\ nodes[i].kids[1] < i
             /\ SignAt(nodes[i], nodes) \in 1 .. Len(input)
  <2>1. Len(nodes[i].kids) \in Nat \ {0} /\ DOMAIN nodes[i].kids = 1 .. Len(nodes[i].kids)
    BY <1>1, <1>6, NodeFields, EmptySeq
  <2>2. nodes[i].kids[1] \in 1 .. i - 1
    BY <1>4, <2>1
  <2>3. nodes[i].kids[1] \in 1 .. Len(nodes) /\ nodes[i].kids[1] < i
    BY <1>2, <2>2
  <2>4. nodes[nodes[i].kids[1]].last \in 1 .. Len(input) - 1
    <3>1. nodes[nodes[i].kids[1]] \in Node /\ Placed(nodes[nodes[i].kids[1]], input)
      BY <2>3, HandIsPlaced DEF Textual
    <3> QED
      BY <1>2, <3>1, PlacedFacts
  <2> QED
    BY <1>2, <2>1, <2>3, <2>4 DEF SignAt
<1> QED
  BY <1>1, <1>3, <1>4, <1>5, <1>6

(* The nodes ns are still among ms, with their operators where they were. *)
Shaped(ns, ms) ==
    /\ Len(ns) \in Nat /\ Len(ms) \in Nat /\ Len(ns) <= Len(ms)
    /\ \A i \in 1 .. Len(ns) :
          /\ ms[i].kind = ns[i].kind /\ ms[i].op = ns[i].op
          /\ ms[i].post = ns[i].post /\ ms[i].kids = ns[i].kids
          /\ Begin(ms[i]) = Begin(ns[i]) /\ End(ms[i]) = End(ns[i])
          /\ ns[i].kids # << >> => SignAt(ms[i], ms) = SignAt(ns[i], ns)

LEMMA SignStays ==
  ASSUME TypeOK, Inductive, Textual, ReadOn(input', input), Shaped(nodes, nodes'),
         NEW i \in 1 .. Len(nodes)
  PROVE  /\ i \in 1 .. Len(nodes') /\ LeftPower(nodes'[i]) = LeftPower(nodes[i])
         /\ nodes'[i].kind = nodes[i].kind /\ nodes'[i].op = nodes[i].op
         /\ nodes'[i].post = nodes[i].post
         /\ Begin(nodes'[i]) = Begin(nodes[i]) /\ End(nodes'[i]) = End(nodes[i])
         /\ LeftPower(nodes[i]) # 0 \/ nodes[i].kind = "BinOp" =>
               /\ SignAt(nodes'[i], nodes') = SignAt(nodes[i], nodes)
               /\ Depth(input', SignAt(nodes[i], nodes)) = Depth(input, SignAt(nodes[i], nodes))
<1>1. /\ i \in 1 .. Len(nodes')
      /\ nodes'[i].kind = nodes[i].kind /\ nodes'[i].op = nodes[i].op
      /\ nodes'[i].post = nodes[i].post
      /\ Begin(nodes'[i]) = Begin(nodes[i]) /\ End(nodes'[i]) = End(nodes[i])
      /\ nodes[i].kids # << >> => SignAt(nodes'[i], nodes') = SignAt(nodes[i], nodes)
  BY DEF Shaped
<1>2. LeftPower(nodes'[i]) = LeftPower(nodes[i])
  BY <1>1 DEF LeftPower
<1>3. ASSUME LeftPower(nodes[i]) # 0 \/ nodes[i].kind = "BinOp"
      PROVE  /\ SignAt(nodes'[i], nodes') = SignAt(nodes[i], nodes)
             /\ Depth(input', SignAt(nodes[i], nodes)) = Depth(input, SignAt(nodes[i], nodes))
  <2>1. nodes[i].kids # << >> /\ SignAt(nodes[i], nodes) \in 1 .. Len(input)
    BY <1>3, SignIsRead
  <2>2. Len(input) \in Nat
    BY DEF ReadOn
  <2>3. SignAt(nodes[i], nodes) \in 1 .. Len(input) + 1
    BY <2>1, <2>2
  <2> QED
    BY <1>1, <2>1, <2>3, DepthSame
<1> QED
  BY <1>1, <1>2, <1>3

LEMMA BinsStay ==
  ASSUME TypeOK, Inductive, Textual, ReadOn(input', input), Shaped(nodes, nodes'),
         NEW d \in Bins(nodes)
  PROVE  /\ d \in 1 .. Len(nodes) /\ d \in Bins(nodes') /\ nodes'[d].op = nodes[d].op
         /\ SignAt(nodes[d], nodes) \in 1 .. Len(input)
         /\ SignAt(nodes'[d], nodes') = SignAt(nodes[d], nodes)
         /\ Depth(input', SignAt(nodes[d], nodes)) = Depth(input, SignAt(nodes[d], nodes))
         /\ Begin(nodes'[d]) = Begin(nodes[d]) /\ End(nodes'[d]) = End(nodes[d])
<1>1. d \in 1 .. Len(nodes) /\ nodes[d].kind = "BinOp"
  BY DEF Bins
<1>2. SignAt(nodes[d], nodes) \in 1 .. Len(input)
  BY <1>1, SignIsRead
<1> QED
  BY <1>1, <1>2, SignStays DEF Bins

(* What was said of two nodes is still so. *)
LEMMA LeftStays ==
  ASSUME TypeOK, Inductive, Textual, ReadOn(input', input), Shaped(nodes, nodes'),
         NEW n \in Bins(nodes), NEW d \in Bins(nodes), LeftOf(nodes[n], nodes[d], nodes, input)
  PROVE  LeftOf(nodes'[n], nodes'[d], nodes', input')
<1> SUFFICES ASSUME SignAt(nodes'[d], nodes') \in Begin(nodes'[n]) .. SignAt(nodes'[n], nodes') - 1,
                    Same(nodes'[n], nodes'[d], nodes', input')
             PROVE  \E c \in 1 .. Len(nodes') :
                        /\ LeftPower(nodes'[c]) # 0
                        /\ LeftPower(nodes'[c]) < bp_infix_right(nodes'[d].op)
                        /\ SignAt(nodes'[c], nodes')
                              \in SignAt(nodes'[d], nodes') + 1 .. SignAt(nodes'[n], nodes')
                        /\ Same(nodes'[d], nodes'[c], nodes', input')
  BY DEF LeftOf
<1>1. /\ SignAt(nodes'[d], nodes') = SignAt(nodes[d], nodes)
      /\ SignAt(nodes'[n], nodes') = SignAt(nodes[n], nodes)
      /\ Depth(input', SignAt(nodes[d], nodes)) = Depth(input, SignAt(nodes[d], nodes))
      /\ Depth(input', SignAt(nodes[n], nodes)) = Depth(input, SignAt(nodes[n], nodes))
      /\ Begin(nodes'[n]) = Begin(nodes[n]) /\ nodes'[d].op = nodes[d].op
  BY BinsStay
<1>2. /\ SignAt(nodes[d], nodes) \in Begin(nodes[n]) .. SignAt(nodes[n], nodes) - 1
      /\ Same(nodes[n], nodes[d], nodes, input)
  BY <1>1 DEF Same
<1>3. PICK c \in 1 .. Len(nodes) :
         /\ LeftPower(nodes[c]) # 0 /\ LeftPower(nodes[c]) < bp_infix_right(nodes[d].op)
         /\ SignAt(nodes[c], nodes) \in SignAt(nodes[d], nodes) + 1 .. SignAt(nodes[n], nodes)
         /\ Same(nodes[d], nodes[c], nodes, input)
  BY <1>2 DEF LeftOf
<1>4. /\ c \in 1 .. Len(nodes') /\ LeftPower(nodes'[c]) = LeftPower(nodes[c])
      /\ SignAt(nodes'[c], nodes') = SignAt(nodes[c], nodes)
      /\ Depth(input', SignAt(nodes[c], nodes)) = Depth(input, SignAt(nodes[c], nodes))
  BY <1>3, SignStays
<1>5. Same(nodes'[d], nodes'[c], nodes', input')
  BY <1>1, <1>3, <1>4 DEF Same
<1>6. /\ LeftPower(nodes'[c]) # 0 /\ LeftPower(nodes'[c]) < bp_infix_right(nodes'[d].op)
      /\ SignAt(nodes'[c], nodes') \in SignAt(nodes'[d], nodes') + 1 .. SignAt(nodes'[n], nodes')
  BY <1>1, <1>3, <1>4
<1> QED
  BY <1>4, <1>5, <1>6

LEMMA RightStays ==
  ASSUME TypeOK, Inductive, Textual, ReadOn(input', input), Shaped(nodes, nodes'),
         NEW n \in Bins(nodes), NEW d \in Bins(nodes), RightOf(nodes[n], nodes[d], nodes, input)
  PROVE  RightOf(nodes'[n], nodes'[d], nodes', input')
<1>1. /\ SignAt(nodes'[d], nodes') = SignAt(nodes[d], nodes)
      /\ SignAt(nodes'[n], nodes') = SignAt(nodes[n], nodes)
      /\ Depth(input', SignAt(nodes[d], nodes)) = Depth(input, SignAt(nodes[d], nodes))
      /\ Depth(input', SignAt(nodes[n], nodes)) = Depth(input, SignAt(nodes[n], nodes))
      /\ End(nodes'[n]) = End(nodes[n]) /\ nodes'[d].op = nodes[d].op /\ nodes'[n].op = nodes[n].op
  BY BinsStay
<1> QED
  BY <1>1 DEF RightOf, Same

LEMMA TightStays ==
  ASSUME TypeOK, Inductive, Textual, ReadOn(input', input), Shaped(nodes, nodes'),
         NEW f, f.start \in 1 .. Len(input), NEW d \in Bins(nodes),
         TightEnough(nodes[d], f, nodes, input)
  PROVE  TightEnough(nodes'[d], f, nodes', input')
<1>1. /\ SignAt(nodes'[d], nodes') = SignAt(nodes[d], nodes)
      /\ Depth(input', SignAt(nodes[d], nodes)) = Depth(input, SignAt(nodes[d], nodes))
      /\ nodes'[d].op = nodes[d].op
  BY BinsStay
<1>2. Depth(input', f.start) = Depth(input, f.start)
  <2>1. f.start \in 1 .. Len(input) + 1
    BY DEF ReadOn
  <2> QED
    BY <2>1, DepthSame
<1> QED
  BY <1>1, <1>2 DEF TightEnough

(* Something continues the operand before t with this power. *)
Continued(t, power, ns, fs) ==
    \/ \E c \in 1 .. Len(ns) : LeftPower(ns[c]) = power /\ power # 0 /\ SignAt(ns[c], ns) = t
    \/ \E i \in 1 .. Len(fs) :
          fs[i].role \in Joined /\ OpensAt(fs[i], ns) = t /\ FramePower(fs[i]) = power

(***************************************************************************)
(* An operator stays stopped: the lookahead, once consumed, ends something *)
(* or is the operator of an activation or a node, and an activation that   *)
(* returns leaves a node with its operator.                                *)
(***************************************************************************)
LEMMA StoppedStays ==
  ASSUME TypeOK, Inductive, Textual, ReadOn(input', input), Shaped(nodes, nodes'),
         \A i \in 1 .. Len(frames) : frames[i].role \in Joined =>
            Continued(OpensAt(frames[i], nodes), FramePower(frames[i]), nodes', frames'),
         mode # "operand" =>
            \/ input' = input /\ mode' # "operand"
            \/ tok \in Ending
            \/ Continued(Len(input), Power(tok), nodes', frames'),
         NEW power, NEW t \in 1 .. Len(input), Stopped(t, power, nodes, frames, input, mode)
  PROVE  Stopped(t, power, nodes', frames', input', mode')
<1>1. input'[t] = input[t] /\ Len(input) \in Nat
  BY DEF ReadOn
<1>2. \A p : Continued(t, p, nodes', frames') /\ p < power
            => ByNode(t, power, nodes') \/ ByFrame(t, power, frames', nodes')
  BY DEF Continued, ByNode, ByFrame
<1>3. CASE t = Len(input) /\ mode # "operand" /\ Power(input[t]) < power
  <2>1. tok = input[t]
    BY <1>3 DEF tok
  <2>2. CASE input' = input /\ mode' # "operand"
    BY <1>3, <2>2 DEF Stopped
  <2>3. CASE tok \in Ending
    BY <1>1, <2>1, <2>3 DEF Stopped
  <2>4. CASE Continued(Len(input), Power(tok), nodes', frames')
    BY <1>2, <1>3, <2>1, <2>4 DEF Stopped
  <2> QED
    BY <1>3, <2>2, <2>3, <2>4
<1>4. CASE input[t] \in Ending
  BY <1>1, <1>4 DEF Stopped
<1>5. CASE ByNode(t, power, nodes)
  <2>1. PICK c \in 1 .. Len(nodes) :
           LeftPower(nodes[c]) # 0 /\ SignAt(nodes[c], nodes) = t /\ LeftPower(nodes[c]) < power
    BY <1>5 DEF ByNode
  <2>2. /\ c \in 1 .. Len(nodes') /\ LeftPower(nodes'[c]) = LeftPower(nodes[c])
        /\ SignAt(nodes'[c], nodes') = SignAt(nodes[c], nodes)
    BY <2>1, SignStays
  <2>3. ByNode(t, power, nodes')
    BY <2>1, <2>2 DEF ByNode
  <2> QED
    BY <2>3 DEF Stopped
<1>6. CASE ByFrame(t, power, frames, nodes)
  <2>1. PICK i \in 1 .. Len(frames) :
           frames[i].role \in Joined /\ OpensAt(frames[i], nodes) = t /\ FramePower(frames[i]) < power
    BY <1>6 DEF ByFrame
  <2>2. Continued(t, FramePower(frames[i]), nodes', frames')
    BY <2>1
  <2> QED
    BY <1>2, <2>1, <2>2 DEF Stopped
<1> QED
  BY <1>3, <1>4, <1>5, <1>6 DEF Stopped

-----------------------------------------------------------------------------
(* A node made of level parts is level. *)

LEMMA LevelNone ==
  ASSUME NEW ts, NEW barred, NEW a \in Nat
  PROVE  Level(ts, a, a - 1, barred)
<1>1. (a - 1) + 1 = a /\ a .. a - 1 = {}
  OBVIOUS
<1> QED
  BY <1>1 DEF Level

(* A token that is no bracket, and what ends nothing. *)
LEMMA PlainToken ==
  ASSUME NEW t \in OperatorKinds \cup {"", "name", "num", "@"}
  PROVE  t \notin Opening \cup Closing /\ t \notin Ending
BY DEF OperatorKinds, Opening, Closing, Ending

LEMMA NodeLevel ==
  ASSUME NEW n \in Node, NEW ns, NEW ts, Parts(n, ns, ts), n.wraps = 0,
         \A k \in DOMAIN n.kids : /\ ns[n.kids[k]] \in Node
                                  /\ ns[n.kids[k]].first <= ns[n.kids[k]].last
                                  /\ Level(ts, ns[n.kids[k]].first, ns[n.kids[k]].last, Ending),
         n.kind = "Call" =>
            /\ ns[n.kids[1]].last < n.last
            /\ Level(ts, ns[n.kids[1]].last + 1, n.last, Ending)
  PROVE  Level(ts, n.first, n.last, Ending)
<1>1. /\ n.first \in Nat \ {0} /\ n.last \in Nat /\ Begin(n) = n.first /\ End(n) = n.last
      /\ Len(n.kids) \in Nat /\ DOMAIN n.kids = 1 .. Len(n.kids)
  BY NodeFields DEF Begin, End
<1>2. n.op \in OperatorKinds \cup {""} /\ n.kind \in Kinds
  BY DEF Node
<1>3. \/ n.kind \in {"Var", "Num"} \/ n.kind = "TypeCast" \/ n.kind = "PreOp"
      \/ n.kind = "BinOp" \/ n.kind = "SubScript" \/ n.kind = "Call"
  BY <1>2 DEF Kinds
<1> DEFINE kid == ns[n.kids[1]]
           last == ns[n.kids[Len(n.kids)]]
<1>4. ASSUME ~Leaf(n)
      PROVE  /\ Len(n.kids) # 0 /\ kid.first \in Nat \ {0} /\ kid.last \in Nat
             /\ kid.first <= kid.last /\ Level(ts, kid.first, kid.last, Ending)
  <2>1. Len(n.kids) # 0
    BY <1>4 DEF Parts
  <2>2. 1 \in DOMAIN n.kids
    BY <1>1, <2>1
  <2>3. kid \in Node /\ kid.first <= kid.last /\ Level(ts, kid.first, kid.last, Ending)
    BY <2>2
  <2> QED
    BY <2>1, <2>3, NodeFields
<1>5. ASSUME n.kind \in {"BinOp", "SubScript"}
      PROVE  /\ last.first \in Nat \ {0} /\ last.last \in Nat
             /\ last.first <= last.last /\ Level(ts, last.first, last.last, Ending)
             /\ kid.first = n.first /\ last.first = kid.last + 2
             /\ ts[kid.last + 1] = Separator(n, 1)
  <2>1. Len(n.kids) = 2 /\ Infixed(n)
    BY <1>5 DEF Parts, Infixed
  <2>2. Len(n.kids) \in DOMAIN n.kids /\ 1 \in 1 .. Len(n.kids) - 1 /\ 1 + 1 = Len(n.kids)
    BY <1>1, <2>1
  <2>3. last \in Node /\ last.first <= last.last /\ Level(ts, last.first, last.last, Ending)
    BY <2>2
  <2>4. kid.first = n.first /\ Follows(last, kid, Separator(n, 1), ts)
    BY <1>1, <2>1, <2>2 DEF Parts
  <2> QED
    BY <2>3, <2>4, NodeFields DEF Follows
<1> HIDE DEF kid, last
<1>6. CASE n.kind \in {"Var", "Num"}
  <2>1. n.first = n.last /\ ts[n.first] \in {"name", "num"}
    BY <1>1, <1>6 DEF Parts, Leaf
  <2> QED
    BY <1>1, <2>1, PlainToken, LevelOne
<1>7. ASSUME ~Leaf(n), ts[n.first] \in OperatorKinds \cup {"", "@"},
             kid.first = n.first + 1, kid.last = n.last
      PROVE  Level(ts, n.first, n.last, Ending)
  <2>1. Level(ts, n.first, n.first, Ending)
    BY <1>1, <1>7, PlainToken, LevelOne
  <2>2. Level(ts, n.first + 1, n.last, Ending) /\ n.first <= n.last
    <3>1. kid.first = n.first + 1 /\ kid.last = n.last /\ ~Leaf(n)
      BY <1>7
    <3> QED
      BY <1>1, <1>4, <3>1
  <2> QED
    BY <1>1, <2>1, <2>2, LevelJoin
<1>8. CASE n.kind = "PreOp"
  <2>1. ~Leaf(n)
    BY <1>8 DEF Leaf
  <2>2. CASE n.post
    <3>1. kid.first = n.first /\ kid.last = n.last - 1
      BY <1>1, <1>8, <2>2 DEF Parts, kid
    <3>2. ts[n.last] \in OperatorKinds \cup {""}
      BY <1>1, <1>2, <1>8, <2>2 DEF Parts
    <3>3. Level(ts, n.last, n.last, Ending)
      <4>1. n.last \in Nat \ {0}
        BY <1>1, <1>4, <2>1, <3>1
      <4> QED
        BY <3>2, <4>1, PlainToken, LevelOne
    <3>4. /\ Level(ts, n.first, kid.last, Ending) /\ kid.last + 1 = n.last
          /\ kid.last \in Nat /\ n.first <= kid.last + 1 /\ kid.last <= n.last
      BY <1>1, <1>4, <2>1, <3>1
    <3> QED
      BY <1>1, <3>3, <3>4, LevelJoin
  <2>3. CASE ~n.post
    <3>1. kid.first = n.first + 1 /\ kid.last = n.last
      BY <1>1, <1>8, <2>3 DEF Parts, kid
    <3>2. ts[n.first] \in OperatorKinds \cup {"", "@"}
      BY <1>1, <1>2, <1>8, <2>3 DEF Parts
    <3> QED
      BY <1>7, <2>1, <3>1, <3>2
  <2> QED
    BY <2>2, <2>3
<1>12. CASE n.kind = "TypeCast"
  <2>1. ~Leaf(n)
    BY <1>12 DEF Leaf
  <2>2. kid.first = n.first + 1 /\ kid.last = n.last
    BY <1>1, <1>12 DEF Parts, kid
  <2>3. ts[n.first] \in OperatorKinds \cup {"", "@"}
    BY <1>1, <1>12 DEF Parts
  <2> QED
    BY <1>7, <2>1, <2>2, <2>3
<1>9. CASE n.kind = "BinOp"
  <2>1. ~Leaf(n)
    BY <1>9 DEF Leaf
  <2>2. Separator(n, 1) = n.op /\ last.last = n.last
    BY <1>1, <1>9 DEF Separator, Parts, last
  <2>3. ts[kid.last + 1] \in OperatorKinds \cup {""}
    BY <1>2, <1>5, <1>9, <2>2
  <2>4. kid.last + 1 \in Nat \ {0}
    BY <1>4, <2>1
  <2>5. Level(ts, kid.last + 1, kid.last + 1, Ending)
    BY <2>3, <2>4, PlainToken, LevelOne
  <2>6. Level(ts, n.first, kid.last + 1, Ending)
    <3>1. /\ Level(ts, n.first, kid.last, Ending) /\ kid.last \in Nat
          /\ n.first <= kid.last + 1 /\ kid.last <= kid.last + 1
      BY <1>4, <1>5, <1>9, <2>1
    <3> QED
      BY <1>1, <2>4, <2>5, <3>1, LevelJoin
  <2>7. /\ Level(ts, (kid.last + 1) + 1, n.last, Ending)
        /\ n.first <= (kid.last + 1) + 1 /\ kid.last + 1 <= n.last
    BY <1>1, <1>4, <1>5, <1>9, <2>1, <2>2
  <2> QED
    BY <1>1, <2>4, <2>6, <2>7, LevelJoin
<1>10. CASE n.kind = "SubScript"
  <2>1. ~Leaf(n)
    BY <1>10 DEF Leaf
  <2>2. Separator(n, 1) = "[" /\ last.last = n.last - 1 /\ ts[n.last] = "]"
    BY <1>1, <1>10 DEF Separator, Parts, last
  <2>3. ts[kid.last + 1] \in Opening /\ ts[n.last] \in Closing
    BY <1>5, <1>10, <2>2 DEF Opening, Closing
  <2>4. kid.last + 1 \in Nat \ {0} /\ kid.last + 1 < n.last
    BY <1>1, <1>4, <1>5, <1>10, <2>1, <2>2
  <2>5. Level(ts, (kid.last + 1) + 1, n.last - 1, Closing)
    <3>1. (kid.last + 1) + 1 = last.first /\ n.last - 1 = last.last
      BY <1>4, <1>5, <1>10, <2>1, <2>2
    <3> QED
      BY <1>5, <1>10, <3>1, LevelWeaker
  <2>6. Level(ts, kid.last + 1, n.last, Ending)
    BY <1>1, <2>3, <2>4, <2>5, LevelWrapped
  <2>7. /\ Level(ts, n.first, kid.last, Ending) /\ kid.last \in Nat
        /\ n.first <= kid.last + 1 /\ kid.last <= n.last
    BY <1>1, <1>4, <1>5, <1>10, <2>1, <2>4
  <2> QED
    BY <1>1, <2>6, <2>7, LevelJoin
<1>11. CASE n.kind = "Call"
  <2>1. ~Leaf(n) /\ Infixed(n)
    BY <1>11 DEF Leaf, Infixed
  <2>2. kid.first = n.first
    BY <1>1, <2>1 DEF Parts, kid
  <2>3. kid.last < n.last /\ Level(ts, kid.last + 1, n.last, Ending)
    BY <1>11 DEF kid
  <2>4. /\ Level(ts, n.first, kid.last, Ending) /\ kid.last \in Nat
        /\ n.first <= kid.last + 1 /\ kid.last <= n.last
    BY <1>1, <1>4, <2>1, <2>2, <2>3
  <2> QED
    BY <1>1, <2>3, <2>4, LevelJoin
<1> QED
  BY <1>3, <1>6, <1>8, <1>9, <1>10, <1>11, <1>12

-----------------------------------------------------------------------------
(* Where the activations and the infix operators stand. *)

LEMMA StackFacts ==
  ASSUME TypeOK, Inductive, Textual, mode # "error", NEW i \in 1 .. Len(frames)
  PROVE  /\ frames[i] \in Activation /\ frames[i].start \in 1 .. Len(input)
         /\ KeptNodes(frames[i], Kept)
         /\ frames[i].role \in Joined =>
               /\ i \in 2 .. Len(frames) /\ frames[i].left \in 1 .. Kept
               /\ frames[i].left \in 1 .. Len(nodes)
               /\ OpensAt(frames[i], nodes) \in 1 .. Len(input)
               /\ nodes[frames[i].left].first = frames[i - 1].start
               /\ nodes[frames[i].left].last \in Nat
<1>1. AllTiled /\ AllLaid /\ FramesFit
  BY DEF Inductive, Textual
<1>2. Len(frames) \in Nat \ {0} /\ Len(input) \in Nat \ {0} /\ DOMAIN frames = 1 .. Len(frames)
  BY TopFrames, Lookahead, LenProperties DEF TypeOK
<1>3. frames[i] \in Activation
  BY <1>2 DEF TypeOK
<1>4. KeptNodes(frames[i], Kept)
  BY <1>1, <1>2 DEF FramesFit
<1>5. frames[i].start \in 1 .. Len(input)
  <2>1. CASE i = 1
    BY <1>1, <1>2, <2>1 DEF AllLaid
  <2>2. CASE i # 1
    <3>1. i \in 2 .. Len(frames)
      BY <1>2, <2>2
    <3>2. frames[i].start \in 2 .. Len(input)
      BY <1>1, <3>1 DEF AllLaid, Laid
    <3> QED
      BY <1>2, <3>2
  <2> QED
    BY <2>1, <2>2
<1>6. ASSUME frames[i].role \in Joined
      PROVE  /\ i \in 2 .. Len(frames) /\ frames[i].left \in 1 .. Kept
             /\ frames[i].left \in 1 .. Len(nodes)
             /\ OpensAt(frames[i], nodes) \in 1 .. Len(input)
             /\ nodes[frames[i].left].first = frames[i - 1].start
             /\ nodes[frames[i].left].last \in Nat
  <2>1. frames[i].role # "root" /\ frames[i].role \in {"right", "index", "arg"}
    BY <1>6 DEF Joined
  <2>2. i # 1
    BY <1>2, <2>1 DEF TypeOK
  <2>3. i \in 2 .. Len(frames)
    BY <1>2, <2>2
  <2>4. frames[i].left \in 1 .. Kept /\ Kept \in Int /\ Kept <= Len(nodes) /\ Len(nodes) \in Nat
    BY <1>4, <2>1, KeptIsInt DEF KeptNodes
  <2>5. frames[i].left \in 1 .. Len(nodes)
    BY <2>4
  <2>6. nodes[frames[i].left] \in Node /\ Placed(nodes[frames[i].left], input)
    BY <1>1, <2>5, HandIsPlaced
  <2>7. nodes[frames[i].left].last \in 1 .. Len(input) - 1
    BY <1>2, <2>6, PlacedFacts
  <2>8. nodes[frames[i].left].first = frames[i - 1].start
    BY <1>1, <1>6, <2>3 DEF AllLaid, Laid
  <2>9. OpensAt(frames[i], nodes) \in 1 .. Len(input) /\ nodes[frames[i].left].last \in Nat
    BY <1>2, <2>7 DEF OpensAt
  <2> QED
    BY <2>3, <2>4, <2>5, <2>8, <2>9
<1> QED
  BY <1>3, <1>4, <1>5, <1>6

LEMMA OpensStay ==
  ASSUME TypeOK, Inductive, Textual, mode # "error", \A j \in 1 .. Kept : nodes'[j] = nodes[j],
         NEW i \in 1 .. Len(frames), frames[i].role \in Joined
  PROVE  OpensAt(frames[i], nodes') = OpensAt(frames[i], nodes)
<1>1. frames[i].left \in 1 .. Kept
  BY StackFacts
<1> QED
  BY <1>1 DEF OpensAt

LEMMA StartsStay ==
  ASSUME TypeOK, Inductive, Textual, mode # "error", ReadOn(input', input),
         NEW i \in 1 .. Len(frames)
  PROVE  Depth(input', frames[i].start) = Depth(input, frames[i].start)
<1>1. frames[i].start \in 1 .. Len(input) /\ Len(input) \in Nat
  BY StackFacts DEF ReadOn
<1>2. frames[i].start \in 1 .. Len(input) + 1
  BY <1>1
<1> QED
  BY <1>2, DepthSame

LEMMA BinOpText ==
  ASSUME TypeOK, Inductive, Textual, NEW d \in Bins(nodes)
  PROVE  /\ d \in 1 .. Len(nodes) /\ nodes[d] \in Node
         /\ nodes[d].first \in Nat \ {0} /\ nodes[d].last \in 1 .. Len(input) - 1
         /\ Begin(nodes[d]) \in Nat /\ SignAt(nodes[d], nodes) \in Nat \ {0}
         /\ End(nodes[d]) \in Nat /\ End(nodes[d]) + 1 \in 1 .. Len(input)
         /\ nodes[d].first <= Begin(nodes[d]) /\ Begin(nodes[d]) < SignAt(nodes[d], nodes)
         /\ SignAt(nodes[d], nodes) < End(nodes[d]) /\ End(nodes[d]) <= nodes[d].last
         /\ nodes[d].kids[2] \in 1 .. Len(nodes)
         /\ nodes[nodes[d].kids[2]].first = SignAt(nodes[d], nodes) + 1
         /\ nodes[nodes[d].kids[2]].last = End(nodes[d])
         /\ input[SignAt(nodes[d], nodes)] = nodes[d].op /\ nodes[d].op \in OperatorKinds
<1> DEFINE n == nodes[d]
<1>1. d \in 1 .. Len(nodes) /\ n.kind = "BinOp"
  BY DEF Bins
<1>2. /\ n \in Node /\ NodeTiled(n, nodes, input)
      /\ \A k \in DOMAIN n.kids : n.kids[k] \in 1 .. d - 1
      /\ SignAt(n, nodes) \in 1 .. Len(input)
  BY <1>1, SignIsRead
<1>3. Len(input) \in Nat \ {0} /\ Len(nodes) \in Nat
  BY Lookahead, LenProperties DEF TypeOK
<1>4. Len(n.kids) = 2 /\ Infixed(n) /\ DOMAIN n.kids = 1 .. 2
  BY <1>1, <1>2, NodeFields DEF NodeTiled, Parts, Infixed
<1>5. n.kids[1] \in 1 .. Len(nodes) /\ n.kids[2] \in 1 .. Len(nodes)
  BY <1>1, <1>2, <1>3, <1>4
<1> DEFINE l == nodes[n.kids[1]]
           r == nodes[n.kids[2]]
<1>6. /\ l.first = Begin(n) /\ Follows(r, l, n.op, input) /\ r.last = End(n)
  <2>1. Separator(n, 1) = n.op /\ 1 \in 1 .. Len(n.kids) - 1
    BY <1>1, <1>4 DEF Separator
  <2> QED
    BY <1>1, <1>2, <1>4, <2>1 DEF NodeTiled, Parts
<1>7. l \in Node /\ r \in Node /\ Placed(l, input) /\ Placed(r, input)
  BY <1>5, HandIsPlaced DEF Textual
<1>8. /\ l.first <= l.last /\ r.first <= r.last /\ l.last \in 1 .. Len(input) - 1
      /\ l.first \in Nat \ {0} /\ r.first \in Nat \ {0} /\ r.last \in Nat
  BY <1>3, <1>7, PlacedFacts, NodeFields
<1>9. /\ n.first \in Nat \ {0} /\ n.last \in 1 .. Len(input) - 1 /\ n.first <= Begin(n)
      /\ End(n) <= n.last /\ Begin(n) \in Nat /\ End(n) \in 1 .. Len(input) - 1
  BY <1>2, <1>3, PlacedFacts, NodeFields DEF NodeTiled
<1>10. SignAt(n, nodes) = l.last + 1
  BY DEF SignAt
<1>11. input[SignAt(n, nodes)] = n.op /\ r.first = l.last + 2
  BY <1>6, <1>10 DEF Follows
<1>12. n.op \in OperatorKinds
  <2>1. input[SignAt(n, nodes)] \in Tokens \cup {"end"}
    BY <1>2 DEF TypeOK
  <2>2. n.op \in OperatorKinds \cup {""}
    BY <1>2 DEF Node
  <2>3. n.op # ""
    BY <1>11, <2>1, PrattAssumption DEF OperatorKinds, OtherTokens
  <2> QED
    BY <2>2, <2>3
<1> HIDE DEF n, l, r
<1>13. /\ Begin(n) < SignAt(n, nodes) /\ SignAt(n, nodes) < End(n)
       /\ r.first = SignAt(n, nodes) + 1 /\ End(n) + 1 \in 1 .. Len(input)
       /\ End(n) \in Nat /\ SignAt(n, nodes) \in Nat \ {0}
  BY <1>3, <1>6, <1>8, <1>9, <1>10, <1>11
<1> QED
  BY <1>1, <1>2, <1>5, <1>6, <1>9, <1>11, <1>12, <1>13 DEF n, l, r

(* What follows an infix expression is as deep as its operator. *)
LEMMA BinOpDepth ==
  ASSUME TypeOK, Inductive, Textual, AllLevel(nodes, input), NEW d \in Bins(nodes)
  PROVE  /\ Depth(input, End(nodes[d]) + 1) = Depth(input, SignAt(nodes[d], nodes))
         /\ Depth(input, SignAt(nodes[d], nodes)) \in Int
<1> DEFINE r == nodes[nodes[d].kids[2]]
           p == SignAt(nodes[d], nodes)
<1>1. /\ p \in Nat \ {0} /\ nodes[d].kids[2] \in 1 .. Len(nodes)
      /\ r.first = p + 1 /\ r.last = End(nodes[d])
      /\ input[p] \in OperatorKinds
  BY BinOpText
<1>2. Level(input, r.first, r.last, Ending)
  BY <1>1 DEF AllLevel
<1> HIDE DEF r, p
<1>3. Depth(input, End(nodes[d]) + 1) = Depth(input, p + 1)
  BY <1>1, <1>2 DEF Level
<1>4. input[p] \notin Opening \cup Closing
  BY <1>1, PlainToken
<1>5. Depth(input, p + 1) = Depth(input, p) /\ Depth(input, p) \in Int
  BY <1>1, <1>4, DepthOneMore
<1> QED
  BY <1>3, <1>5 DEF p

-----------------------------------------------------------------------------
(* What is true of the activations that a step leaves open. *)

LEMMA LevelsStay ==
  ASSUME TypeOK, Inductive, Textual, ReadOn(input', input), AllLevel(nodes, input),
         NEW j \in 1 .. Len(nodes), nodes'[j] = nodes[j]
  PROVE  Level(input', nodes'[j].first, nodes'[j].last, Ending)
<1>1. Level(input, nodes[j].first, nodes[j].last, Ending)
  BY DEF AllLevel
<1>2. Len(input) \in Nat
  BY DEF ReadOn
<1>3. /\ nodes[j].first \in 1 .. Len(input) - 1 /\ nodes[j].last \in 1 .. Len(input) - 1
      /\ nodes[j].first <= nodes[j].last
  BY SignIsRead
<1>4. /\ nodes[j].first \in Nat \ {0} /\ nodes[j].last \in Nat
      /\ nodes[j].first <= nodes[j].last + 1 /\ nodes[j].last <= Len(input)
  BY <1>2, <1>3
<1> QED
  BY <1>1, <1>4, LevelSame

LEMMA ArgumentsStay ==
  ASSUME TypeOK, Inductive, Textual, mode # "error", ReadOn(input', input),
         \A j \in 1 .. Kept : nodes'[j] = nodes[j],
         AllBeside(frames, nodes), ArgumentsLevel(frames, nodes, input),
         NEW i \in 1 .. Len(frames), frames[i].role = "arg"
  PROVE  /\ OpensAt(frames[i], nodes) < frames[i].start
         /\ input'[OpensAt(frames[i], nodes')] = "("
         /\ Level(input', OpensAt(frames[i], nodes') + 1, frames[i].start - 1, Closing)
<1> DEFINE p == OpensAt(frames[i], nodes)
<1>1. frames[i].role \in Joined
  BY DEF Joined
<1>2. /\ OpensAt(frames[i], nodes') = p /\ p \in 1 .. Len(input)
      /\ frames[i].start \in 1 .. Len(input) /\ Len(input) \in Nat
  BY <1>1, OpensStay, StackFacts DEF ReadOn
<1>3. p < frames[i].start
  BY <1>1 DEF AllBeside, Beside
<1>4. input[p] = "(" /\ Level(input, p + 1, frames[i].start - 1, Closing)
  BY DEF ArgumentsLevel
<1> HIDE DEF p
<1>5. input'[p] = "("
  BY <1>2, <1>4 DEF ReadOn
<1>6. /\ p + 1 \in Nat \ {0} /\ frames[i].start - 1 \in Nat
      /\ p + 1 <= (frames[i].start - 1) + 1 /\ frames[i].start - 1 <= Len(input)
  BY <1>2, <1>3
<1>7. Level(input', p + 1, frames[i].start - 1, Closing)
  BY <1>4, <1>6, LevelSame
<1> QED
  BY <1>2, <1>3, <1>5, <1>7 DEF p

LEMMA WithinStays ==
  ASSUME TypeOK, Inductive, Textual, mode # "error", ReadOn(input', input),
         AllWithin(frames, input),
         NEW i \in 1 .. Len(frames), NEW j \in 1 .. Len(frames), i < j,
         NEW fs, \A k \in 1 .. j : fs[k] = frames[k]
  PROVE  Within(i, j, fs, input')
<1>1. Within(i, j, frames, input)
  BY DEF AllWithin
<1>2. /\ Depth(input', frames[i].start) = Depth(input, frames[i].start)
      /\ Depth(input', frames[j].start) = Depth(input, frames[j].start)
  BY StartsStay
<1>3. fs[i] = frames[i] /\ fs[j] = frames[j] /\ \A k \in i + 1 .. j : fs[k] = frames[k]
  OBVIOUS
<1> QED
  BY <1>1, <1>2, <1>3 DEF Within

(* The activations began one inside the other, and behind their operators. *)
LEMMA StartsAscend ==
  ASSUME TypeOK, Inductive, Textual, mode # "error", AllWithin(frames, input),
         NEW i \in 1 .. Len(frames), NEW j \in 1 .. Len(frames), i <= j
  PROVE  frames[i].start <= frames[j].start
<1>1. frames[i].start \in Int /\ i \in Int /\ j \in Int
  BY StackFacts
<1>2. CASE i = j
  BY <1>1, <1>2
<1>3. CASE i # j
  <2>1. i < j
    BY <1>1, <1>3
  <2>2. Within(i, j, frames, input)
    BY <2>1 DEF AllWithin
  <2> QED
    BY <2>2 DEF Within
<1> QED
  BY <1>2, <1>3

(* Tight, of the operators there already are. *)
LEMMA OldStayTight ==
  ASSUME TypeOK, Inductive, Textual, mode # "error", ReadOn(input', input),
         Shaped(nodes, nodes'), NEW i \in 1 .. Len(frames), Tight(i, frames, nodes, input),
         \A k \in i + 1 .. Len(frames) : Proper(frames[k]),
         NEW d \in Bins(nodes)
  PROVE  TightEnough(nodes'[d], frames[i], nodes', input')
<1>1. TightEnough(nodes[d], frames[i], nodes, input)
  BY DEF Tight
<1>2. frames[i].start \in 1 .. Len(input)
  BY StackFacts
<1> QED
  BY <1>1, <1>2, TightStays

LEMMA PrefixesWereProper ==
  ASSUME Shaped(nodes, nodes'), TypeOK, TypeOK', ProperPrefixes'
  PROVE  ProperPrefixes
<1>1. DOMAIN nodes = 1 .. Len(nodes) /\ DOMAIN nodes' = 1 .. Len(nodes') /\ Len(nodes') \in Nat
  BY LenProperties DEF TypeOK
<1>2. \A n \in DOMAIN nodes : /\ n \in DOMAIN nodes' /\ nodes'[n].kind = nodes[n].kind
                              /\ nodes'[n].post = nodes[n].post /\ nodes'[n].op = nodes[n].op
  BY <1>1 DEF Shaped
<1> QED
  BY <1>2 DEF ProperPrefixes

-----------------------------------------------------------------------------
(* A new infix expression among those there are. *)

(* What FinishInfix makes of the activation on the right of the operator. *)
InfixMade(n) ==
    /\ mode = "loop" /\ Frame.role = "right" /\ Stops
    /\ n \in Node /\ nodes' = Append(nodes, n)
    /\ n.kind = "BinOp" /\ n.op = Frame.op /\ n.kids = <<Frame.left, Out>> /\ n.wraps = 0
    /\ n.first = Caller.start /\ n.last = Len(input) - 1
    /\ frames' = Callers /\ input' = input /\ mode' = "loop"

(* Where the operator of the innermost activation stands. *)
TopSign == OpensAt(Frame, nodes)

LEMMA InfixStands ==
  ASSUME TypeOK, Inductive, Textual, AllLevel(nodes, input), NEW n, InfixMade(n)
  PROVE  /\ Len(nodes) \in Nat /\ Len(nodes') = Len(nodes) + 1 /\ nodes'[Len(nodes) + 1] = n
         /\ \A j \in 1 .. Len(nodes) : nodes'[j] = nodes[j]
         /\ SignAt(n, nodes') = TopSign /\ TopSign \in Nat \ {0} /\ TopSign + 1 = Frame.start
         /\ TopSign < Len(input) /\ Len(input) \in Nat
         /\ Begin(n) = Caller.start /\ Caller.start \in Nat \ {0} /\ Caller.start < TopSign
         /\ End(n) = Len(input) - 1
         /\ input[TopSign] = Frame.op /\ Frame.op \in OperatorKinds
         /\ Frame.min = bp_infix_right(Frame.op)
         /\ LeftPower(n) = bp_infix_left(Frame.op) /\ FramePower(Frame) = bp_infix_left(Frame.op)
         /\ bp_infix_left(Frame.op) # 0 /\ bp_infix_left(Frame.op) >= Caller.min
         /\ bp_infix_right(Frame.op) # 0
         /\ Depth(input, TopSign) \in Int
         /\ Depth(input, TopSign) = Depth(input, Caller.start)
         /\ Depth(input, TopSign) = Depth(input, Frame.start)
         /\ \A q \in Caller.start .. TopSign - 1 :
               Depth(input, q) = Depth(input, TopSign) => input[q] \notin Ending
<1> DEFINE l == nodes[Frame.left]
<1>1. mode = "loop" /\ Frame.role = "right" /\ n \in Node /\ nodes' = Append(nodes, n)
  BY DEF InfixMade
<1>2. /\ Len(nodes) \in Nat /\ Len(nodes') = Len(nodes) + 1 /\ nodes'[Len(nodes) + 1] = n
      /\ \A j \in 1 .. Len(nodes) : nodes'[j] = nodes[j]
  <2>1. nodes \in Seq(Node)
    BY DEF TypeOK
  <2> QED
    BY <1>1, <2>1, AppendProperties
<1>3. Frame.left \in 1 .. Len(nodes)
  BY <1>1, HandAndKept
<1>4. Frame.role \in Joined /\ Frame.role # "root" /\ ReadOn(input, input)
  BY <1>1, Lookahead DEF Joined, ReadOn
<1>5. /\ Laid(Frame, Caller, nodes, input) /\ l.first = Caller.start
      /\ Follows(nodes[Out], nodes[Behind(Frame)], Sign(Frame), input)
  BY <1>1, <1>4, HandFollows
<1>6. l \in Node /\ Placed(l, input) /\ Len(input) \in Nat \ {0}
  BY <1>3, HandIsPlaced, Lookahead DEF Textual
<1>7. l.first \in Nat \ {0} /\ l.last \in 1 .. Len(input) - 1 /\ l.first <= l.last
  BY <1>6, PlacedFacts, NodeFields
<1>8. TopSign = l.last + 1
  BY DEF TopSign, OpensAt
<1>9. Frame.start = l.last + 2 /\ input[Frame.start - 1] = Frame.op
  BY <1>1, <1>4, <1>5 DEF Laid, Behind, Sign
<1>10. Frame.start \in 1 .. Len(input)
  BY <1>1, StartsAreRead DEF Textual
<1>11. SignAt(n, nodes') = TopSign
  <2>1. n.kids[1] = Frame.left
    BY DEF InfixMade
  <2>2. nodes'[Frame.left] = l
    BY <1>2, <1>3
  <2> QED
    BY <1>8, <2>1, <2>2 DEF SignAt
<1>12. Begin(n) = Caller.start /\ End(n) = Len(input) - 1
  <2>1. n.wraps = 0 /\ n.first = Caller.start /\ n.last = Len(input) - 1
    BY DEF InfixMade
  <2> QED
    BY <1>5, <1>6, <1>7, <2>1 DEF Begin, End
<1>13. Level(input, l.first, l.last, Ending)
  BY <1>3 DEF AllLevel
<1> HIDE DEF l
<1>14. /\ TopSign \in Nat \ {0} /\ TopSign + 1 = Frame.start /\ TopSign < Len(input)
       /\ Len(input) \in Nat /\ Caller.start \in Nat \ {0} /\ Caller.start < TopSign
       /\ input[TopSign] = Frame.op
  BY <1>5, <1>6, <1>7, <1>8, <1>9, <1>10
<1>15. Frame.op \in OperatorKinds
  <2>1. Frame.op \in OperatorKinds \cup {""}
    BY FrameFields
  <2>2. TopSign \in 1 .. Len(input)
    BY <1>14
  <2>3. input[TopSign] \in Tokens \cup {"end"}
    BY <2>2 DEF TypeOK
  <2>4. Frame.op # ""
    BY <1>14, <2>3, PrattAssumption DEF OperatorKinds, OtherTokens
  <2> QED
    BY <2>1, <2>4
<1>16. /\ Frame.min = bp_infix_right(Frame.op) /\ FramePower(Frame) = bp_infix_left(Frame.op)
       /\ bp_infix_left(Frame.op) # 0 /\ bp_infix_left(Frame.op) >= Caller.min
  <2>1. FrameFits(Frame, Caller, nodes)
    BY <1>1, <1>4, TopFits DEF Inductive
  <2>2. FramePower(Frame) = bp_infix_left(Frame.op)
    BY <1>1 DEF FramePower
  <2> QED
    BY <1>1, <2>1, <2>2 DEF FrameFits
<1>17. LeftPower(n) = bp_infix_left(Frame.op)
  BY DEF InfixMade, LeftPower
<1>18. bp_infix_right(Frame.op) # 0
  BY <1>16 DEF bp_infix_right
<1>19. /\ Depth(input, TopSign) = Depth(input, Caller.start)
       /\ \A q \in Caller.start .. TopSign - 1 :
             Depth(input, q) = Depth(input, TopSign) => input[q] \notin Ending
  <2>1. TopSign - 1 = l.last
    BY <1>7, <1>8
  <2> QED
    BY <1>5, <1>8, <1>13, <2>1 DEF Level
<1>20. Depth(input, TopSign) \in Int /\ Depth(input, TopSign + 1) = Depth(input, TopSign)
  <2>1. input[TopSign] \notin Opening \cup Closing
    BY <1>14, <1>15, PlainToken
  <2> QED
    BY <1>14, <2>1, DepthOneMore
<1>21. Depth(input, TopSign) = Depth(input, Frame.start)
  BY <1>14, <1>20
<1> QED
  BY <1>2, <1>11, <1>12, <1>14, <1>15, <1>16, <1>17, <1>18, <1>19, <1>20, <1>21

LEMMA MadeIsTop ==
  ASSUME TypeOK, Inductive, Textual, NEW n, InfixMade(n)
  PROVE  /\ Len(frames) \in 1 .. Len(frames) /\ frames[Len(frames)] = Frame
         /\ Len(frames) \in Nat /\ Len(frames) > 1
         /\ Frame.role \in Joined
         /\ \A i \in 1 .. Len(frames) - 1 : i \in 1 .. Len(frames)
         /\ Len(frames) - 1 \in 1 .. Len(frames) /\ frames[Len(frames) - 1] = Caller
<1>1. Frame.role = "right" /\ Frame.role # "root"
  BY DEF InfixMade
<1>2. Len(frames) \in Nat \ {0} /\ Len(frames) > 1
  BY <1>1, TopFrames
<1> QED
  BY <1>1, <1>2 DEF Frame, Caller, Joined

(* An operator d in the left operand was stopped by the new one or before. *)
LEMMA NewOnTheRight ==
  ASSUME TypeOK, Inductive, Textual, AllLevel(nodes, input), AllWithin(frames, input),
         AllBeside(frames, nodes), AllStopped(nodes, frames, input, mode),
         NEW n, InfixMade(n), Shaped(nodes, nodes'), NEW d \in Bins(nodes)
  PROVE  LeftOf(n, nodes'[d], nodes', input')
<1> DEFINE p == TopSign
           s == SignAt(nodes[d], nodes)
           t == End(nodes[d]) + 1
           power == bp_infix_right(nodes[d].op)
<1>a. input' = input /\ ReadOn(input', input) /\ mode = "loop" /\ mode # "error"
  BY InputGrows DEF InfixMade
<1>1. /\ SignAt(nodes'[d], nodes') = s /\ nodes'[d].op = nodes[d].op
  BY <1>a, BinsStay
<1>2. /\ SignAt(n, nodes') = p /\ p \in Nat \ {0} /\ p + 1 = Frame.start
      /\ p < Len(input) /\ Len(input) \in Nat /\ Begin(n) = Caller.start
      /\ Caller.start \in Nat \ {0}
      /\ input[p] = Frame.op /\ Frame.op \in OperatorKinds
      /\ Depth(input, p) \in Int
      /\ \A q \in Caller.start .. p - 1 : Depth(input, q) = Depth(input, p) => input[q] \notin Ending
  BY InfixStands
<1>3. /\ s \in Nat \ {0} /\ t \in 1 .. Len(input) /\ s < t
      /\ nodes[d].first <= s /\ t - 1 <= nodes[d].last /\ nodes[d].first \in Nat
      /\ nodes[d].last \in Nat /\ d \in 1 .. Len(nodes)
  BY BinOpText
<1>4. Depth(input, t) = Depth(input, s) /\ Depth(input, s) \in Int
  BY BinOpDepth
<1> SUFFICES ASSUME s \in Caller.start .. p - 1, Depth(input, s) = Depth(input, p)
             PROVE  \E c \in 1 .. Len(nodes') :
                        /\ LeftPower(nodes'[c]) # 0 /\ LeftPower(nodes'[c]) < power
                        /\ SignAt(nodes'[c], nodes') \in s + 1 .. p
                        /\ Depth(input, SignAt(nodes'[c], nodes')) = Depth(input, s)
  BY <1>a, <1>1, <1>2 DEF LeftOf, Same
<1>5. t <= p
  <2>1. Beside(Frame, nodes) /\ Frame.role \in Joined
    BY MadeIsTop DEF AllBeside
  <2>2. nodes[d].last < p \/ nodes[d].first > p
    BY <1>3, <2>1 DEF Beside, TopSign
  <2> QED
    BY <1>2, <1>3, <2>2
<1>6. Stopped(t, power, nodes, frames, input, mode)
  BY DEF AllStopped
<1> HIDE DEF p, s, t, power
<1>7. ~(t = Len(input))
  BY <1>2, <1>5
<1>8. input[t] \notin Ending
  <2>1. CASE t = p
    BY <1>2, <2>1, PlainToken
  <2>2. CASE t # p
    <3>1. t \in Caller.start .. p - 1
      BY <1>2, <1>3, <1>5, <2>2
    <3> QED
      BY <1>2, <1>4, <3>1
  <2> QED
    BY <2>1, <2>2
<1>9. t \in s + 1 .. p
  BY <1>2, <1>3, <1>5
<1>10. CASE ByNode(t, power, nodes)
  <2>1. PICK c \in 1 .. Len(nodes) :
           LeftPower(nodes[c]) # 0 /\ SignAt(nodes[c], nodes) = t /\ LeftPower(nodes[c]) < power
    BY <1>10 DEF ByNode
  <2>2. /\ c \in 1 .. Len(nodes') /\ LeftPower(nodes'[c]) = LeftPower(nodes[c])
        /\ SignAt(nodes'[c], nodes') = t
    BY <1>a, <2>1, SignStays
  <2> QED
    BY <1>4, <1>9, <2>1, <2>2
<1>11. CASE ByFrame(t, power, frames, nodes)
  <2>1. PICK i \in 1 .. Len(frames) :
           frames[i].role \in Joined /\ OpensAt(frames[i], nodes) = t /\ FramePower(frames[i]) < power
    BY <1>11 DEF ByFrame
  <2>2. CASE i = Len(frames)
    <3>1. frames[i] = Frame
      BY <2>2 DEF Frame
    <3>2. t = p /\ FramePower(Frame) < power
      BY <2>1, <3>1 DEF p, TopSign
    <3>3. /\ LeftPower(n) = FramePower(Frame) /\ LeftPower(n) # 0
          /\ nodes'[Len(nodes) + 1] = n /\ Len(nodes) + 1 \in 1 .. Len(nodes')
      BY InfixStands
    <3> QED
      BY <1>2, <1>4, <1>9, <3>2, <3>3
  <2>3. CASE i # Len(frames)
    <3>1. /\ Len(frames) - 1 \in 1 .. Len(frames) /\ i <= Len(frames) - 1
          /\ frames[Len(frames) - 1] = Caller
      BY <2>1, <2>3, MadeIsTop
    <3>2. frames[i].start <= Caller.start
      BY <1>a, <3>1, StartsAscend
    <3>3. t < frames[i].start
      BY <2>1 DEF AllBeside, Beside
    <3>4. frames[i].start \in Nat
      BY <1>a, StackFacts
    <3>5. FALSE
      BY <1>2, <1>3, <3>2, <3>3, <3>4
    <3> QED
      BY <3>5
  <2> QED
    BY <2>2, <2>3
<1> QED
  BY <1>6, <1>7, <1>8, <1>10, <1>11 DEF Stopped

(* The new operator is in no text there was. *)
LEMMA NewOnTheLeft ==
  ASSUME TypeOK, Inductive, Textual, AllLevel(nodes, input), AllBeside(frames, nodes),
         NEW n, InfixMade(n), Shaped(nodes, nodes'), NEW d \in Bins(nodes)
  PROVE  LeftOf(nodes'[d], n, nodes', input') /\ RightOf(nodes'[d], n, nodes', input')
<1> DEFINE p == TopSign
           s == SignAt(nodes[d], nodes)
<1>a. input' = input /\ ReadOn(input', input)
  BY InputGrows DEF InfixMade
<1>1. /\ SignAt(nodes'[d], nodes') = s
      /\ Begin(nodes'[d]) = Begin(nodes[d]) /\ End(nodes'[d]) = End(nodes[d])
  BY <1>a, BinsStay
<1>2. SignAt(n, nodes') = p /\ p \in Nat \ {0}
  BY InfixStands
<1>3. /\ s \in Nat \ {0} /\ Begin(nodes[d]) \in Nat /\ End(nodes[d]) \in Nat
      /\ nodes[d].first \in Nat /\ nodes[d].last \in Nat
      /\ nodes[d].first <= Begin(nodes[d]) /\ Begin(nodes[d]) < s
      /\ s < End(nodes[d]) /\ End(nodes[d]) <= nodes[d].last /\ d \in 1 .. Len(nodes)
  BY BinOpText
<1>4. nodes[d].last < p \/ nodes[d].first > p
  <2>1. Beside(Frame, nodes) /\ Frame.role \in Joined
    BY MadeIsTop DEF AllBeside
  <2> QED
    BY <1>3, <2>1 DEF Beside, TopSign
<1> HIDE DEF p, s
<1>5. p \notin Begin(nodes[d]) .. s - 1 /\ p \notin s + 1 .. End(nodes[d])
  BY <1>2, <1>3, <1>4
<1> QED
  BY <1>1, <1>2, <1>5 DEF LeftOf, RightOf

(* An operator d in the right operand is tight enough for the new one. *)
LEMMA NewBeforeIt ==
  ASSUME TypeOK, Inductive, Textual, AllLevel(nodes, input), AllTight(frames, nodes, input),
         NEW n, InfixMade(n), Shaped(nodes, nodes'), NEW d \in Bins(nodes)
  PROVE  RightOf(n, nodes'[d], nodes', input')
<1> DEFINE p == TopSign
           s == SignAt(nodes[d], nodes)
<1>a. input' = input /\ ReadOn(input', input) /\ n.op = Frame.op
  BY InputGrows DEF InfixMade
<1>1. /\ SignAt(nodes'[d], nodes') = s /\ nodes'[d].op = nodes[d].op
  BY <1>a, BinsStay
<1>2. /\ SignAt(n, nodes') = p /\ p \in Nat \ {0} /\ p + 1 = Frame.start
      /\ Depth(input, p) = Depth(input, Frame.start) /\ Frame.min = bp_infix_right(Frame.op)
  BY InfixStands
<1>3. TightEnough(nodes[d], Frame, nodes, input)
  <2>1. Tight(Len(frames), frames, nodes, input)
    BY MadeIsTop DEF AllTight
  <2>2. Len(frames) + 1 .. Len(frames) = {} /\ frames[Len(frames)] = Frame
    BY MadeIsTop
  <2> QED
    BY <2>1, <2>2 DEF Tight
<1>4. s \in Nat
  BY BinOpText
<1> HIDE DEF p, s
<1>5. s \in p + 1 .. End(n) => s >= Frame.start
  BY <1>2, <1>4
<1> QED
  BY <1>a, <1>1, <1>2, <1>3, <1>5 DEF RightOf, Same, TightEnough, s

(* The new operator is tight enough for the activations that stay open. *)
LEMMA NewIsTight ==
  ASSUME TypeOK, Inductive, Textual, AllLevel(nodes, input), AllWithin(frames, input),
         NEW n, InfixMade(n), NEW i \in 1 .. Len(frames) - 1,
         \A k \in i + 1 .. Len(frames) - 1 : Proper(frames[k])
  PROVE  TightEnough(n, frames[i], nodes', input')
<1>a. input' = input /\ mode # "error" /\ n.op = Frame.op
  BY DEF InfixMade
<1>1. /\ SignAt(n, nodes') = TopSign /\ Frame.op \in OperatorKinds
      /\ bp_infix_left(Frame.op) # 0 /\ bp_infix_left(Frame.op) >= Caller.min
      /\ Depth(input, TopSign) = Depth(input, Caller.start)
  BY InfixStands
<1>2. /\ i \in 1 .. Len(frames) /\ Len(frames) - 1 \in 1 .. Len(frames) /\ Len(frames) \in Nat
      /\ frames[Len(frames) - 1] = Caller
  BY MadeIsTop
<1> SUFFICES ASSUME Depth(input, TopSign) = Depth(input, frames[i].start)
             PROVE  bp_infix_left(Frame.op) >= frames[i].min
  BY <1>a, <1>1 DEF TightEnough
<1>3. CASE i = Len(frames) - 1
  BY <1>1, <1>2, <1>3
<1>4. CASE i # Len(frames) - 1
  <2>1. i < Len(frames) - 1
    BY <1>2, <1>4
  <2>2. Within(i, Len(frames) - 1, frames, input)
    BY <1>2, <2>1 DEF AllWithin
  <2>3. Narrower(frames[i].min, Caller.min)
    BY <1>1, <1>2, <2>2 DEF Within
  <2> QED
    BY <1>1, <2>3 DEF Narrower
<1> QED
  BY <1>3, <1>4

-----------------------------------------------------------------------------
(* Every step keeps the operators split. *)

(***************************************************************************)
(* A node is in hand, made or widened.  Its text is level; the lookahead   *)
(* and the operator of an activation that returned are not forgotten.      *)
(***************************************************************************)
LEMMA HandSplit ==
  ASSUME TypeOK, TypeOK', Inductive, Textual, Textual', Split,
         mode \in {"operand", "loop"}, mode' = "loop",
         ReadOn(input', input), Shaped(nodes, nodes'),
         \A j \in 1 .. Kept : nodes'[j] = nodes[j],
         \A j \in 1 .. Len(nodes') - 1 : j \in 1 .. Len(nodes) /\ nodes'[j] = nodes[j],
         Level(input', nodes'[Len(nodes')].first, nodes'[Len(nodes')].last, Ending),
         \/ frames' = frames
         \/ /\ frames' = Callers /\ Frame.role # "root"
            /\ ProperPrefixes' => Proper(Frame)
            /\ Frame.role \in Joined =>
                  Continued(OpensAt(Frame, nodes), FramePower(Frame), nodes', frames'),
         \/ mode = "operand" \/ input' = input \/ tok \in Ending
         \/ Continued(Len(input), Power(tok), nodes', frames'),
         \A d \in Bins(nodes') :
            d \in Bins(nodes) \/ (d = Len(nodes') /\ InfixMade(nodes'[d]))
  PROVE  Split'
<1> DEFINE m == Len(frames')
<1>a. mode # "error" /\ mode' # "operand" /\ Len(nodes') \in Nat /\ Len(nodes) \in Nat
      /\ Len(nodes) <= Len(nodes')
  BY DEF Shaped
<1>b. /\ AllLevel(nodes, input) /\ ArgumentsLevel(frames, nodes, input)
      /\ AllWithin(frames, input) /\ AllBeside(frames, nodes)
      /\ AllStopped(nodes, frames, input, mode) /\ AllLeft(nodes, input)
      /\ ProperPrefixes => AllRight(nodes, input) /\ AllTight(frames, nodes, input)
  BY DEF Split
<1>c. /\ m \in Nat \ {0} /\ Len(frames) \in Nat \ {0} /\ m <= Len(frames)
      /\ \A i \in 1 .. m : i \in 1 .. Len(frames) /\ frames'[i] = frames[i]
      /\ m = Len(frames) \/ (m = Len(frames) - 1 /\ frames' = Callers /\ Frame.role # "root")
  <2>1. /\ Len(frames) \in Nat \ {0} /\ Len(Callers) = Len(frames) - 1
        /\ \A i \in 1 .. Len(frames) - 1 : Callers[i] = frames[i]
        /\ Frame.role # "root" => Len(frames) > 1
    BY TopFrames
  <2> QED
    BY <2>1
<1> HIDE DEF m
(* The hand. *)
<1>d. /\ nodes'[Len(nodes')].first = frames'[m].start /\ Len(nodes') # 0
      /\ m \in 1 .. Len(frames)
  <2>1. nodes' # << >> /\ frames' # << >>
    BY DEF TypeOK
  <2>2. InPlace'
    BY DEF Textual
  <2>3. nodes'[Len(nodes')].first = frames'[m].start
    BY <2>2 DEF InPlace, Out, Frame, m
  <2>4. Len(nodes') # 0
    BY <2>1, EmptySeq DEF TypeOK
  <2> QED
    BY <1>c, <2>3, <2>4
<1>1. AllLevel(nodes', input')
  <2> SUFFICES ASSUME NEW j \in 1 .. Len(nodes')
               PROVE  Level(input', nodes'[j].first, nodes'[j].last, Ending)
    BY DEF AllLevel
  <2>1. CASE j = Len(nodes')
    BY <2>1
  <2>2. CASE j # Len(nodes')
    <3>1. j \in 1 .. Len(nodes') - 1
      BY <1>a, <2>2
    <3>2. j \in 1 .. Len(nodes) /\ nodes'[j] = nodes[j]
      BY <3>1
    <3> QED
      BY <1>b, <3>2, LevelsStay
  <2> QED
    BY <2>1, <2>2
<1>2. ArgumentsLevel(frames', nodes', input')
  <2> SUFFICES ASSUME NEW i \in 1 .. m, frames'[i].role = "arg"
               PROVE  /\ input'[OpensAt(frames'[i], nodes')] = "("
                      /\ Level(input', OpensAt(frames'[i], nodes') + 1, frames'[i].start - 1, Closing)
    BY DEF ArgumentsLevel, m
  <2>1. i \in 1 .. Len(frames) /\ frames'[i] = frames[i]
    BY <1>c
  <2> QED
    BY <1>a, <1>b, <2>1, ArgumentsStay
<1>3. AllWithin(frames', input')
  <2> SUFFICES ASSUME NEW i \in 1 .. m, NEW j \in 1 .. m, i < j
               PROVE  Within(i, j, frames', input')
    BY DEF AllWithin, m
  <2>1. /\ i \in 1 .. Len(frames) /\ j \in 1 .. Len(frames)
        /\ \A k \in 1 .. j : frames'[k] = frames[k]
    BY <1>c
  <2> QED
    BY <1>a, <1>b, <2>1, WithinStays
<1>o. ASSUME NEW i \in 1 .. m, frames'[i].role \in Joined
      PROVE  OpensAt(frames'[i], nodes') = OpensAt(frames[i], nodes)
  <2>1. i \in 1 .. Len(frames) /\ frames'[i] = frames[i]
    BY <1>c
  <2> QED
    BY <1>a, <1>o, <2>1, OpensStay
<1>4. AllBeside(frames', nodes')
  <2> SUFFICES ASSUME NEW i \in 1 .. m, frames'[i].role \in Joined
               PROVE  /\ OpensAt(frames'[i], nodes') < frames'[i].start
                      /\ \A k \in 1 .. Len(nodes') :
                            \/ nodes'[k].last < OpensAt(frames'[i], nodes')
                            \/ nodes'[k].first > OpensAt(frames'[i], nodes')
    BY DEF AllBeside, Beside, m
  <2>1. i \in 1 .. Len(frames) /\ frames'[i] = frames[i] /\ frames[i].role \in Joined
    BY <1>c
  <2>2. OpensAt(frames'[i], nodes') = OpensAt(frames[i], nodes)
    BY <1>o
  <2>3. /\ OpensAt(frames[i], nodes) < frames[i].start
        /\ \A k \in 1 .. Len(nodes) : \/ nodes[k].last < OpensAt(frames[i], nodes)
                                      \/ nodes[k].first > OpensAt(frames[i], nodes)
    BY <1>b, <2>1 DEF AllBeside, Beside
  <2>4. OpensAt(frames[i], nodes) \in Nat /\ frames[i].start \in Nat /\ frames[m].start \in Nat
    BY <1>a, <1>d, <2>1, StackFacts
  <2>5. frames[i].start <= frames[m].start
    BY <1>a, <1>b, <1>d, <2>1, StartsAscend
  <2>6. ASSUME NEW k \in 1 .. Len(nodes')
        PROVE  \/ nodes'[k].last < OpensAt(frames[i], nodes)
               \/ nodes'[k].first > OpensAt(frames[i], nodes)
    <3>1. CASE k = Len(nodes')
      <4>1. nodes'[k].first = frames[m].start
        BY <1>c, <1>d, <3>1
      <4> QED
        BY <2>3, <2>4, <2>5, <4>1
    <3>2. CASE k # Len(nodes')
      <4>1. k \in 1 .. Len(nodes') - 1
        BY <1>a, <3>2
      <4>2. k \in 1 .. Len(nodes) /\ nodes'[k] = nodes[k]
        BY <4>1
      <4> QED
        BY <2>3, <4>2
    <3> QED
      BY <3>1, <3>2
  <2> QED
    BY <2>1, <2>2, <2>3, <2>6
<1>5. AllStopped(nodes', frames', input', mode')
  <2> SUFFICES ASSUME NEW d \in Bins(nodes')
               PROVE  Stopped(End(nodes'[d]) + 1, bp_infix_right(nodes'[d].op),
                              nodes', frames', input', mode')
    BY DEF AllStopped
  <2>1. CASE d \in Bins(nodes)
    <3>1. nodes'[d].op = nodes[d].op /\ End(nodes'[d]) = End(nodes[d]) /\ d \in 1 .. Len(nodes)
      BY <2>1, BinsStay
    <3>2. End(nodes[d]) + 1 \in 1 .. Len(input)
      BY <3>1, SignIsRead
    <3>3. Stopped(End(nodes[d]) + 1, bp_infix_right(nodes[d].op), nodes, frames, input, mode)
      BY <1>b, <2>1 DEF AllStopped
    <3>4. ASSUME NEW i \in 1 .. Len(frames), frames[i].role \in Joined
          PROVE  Continued(OpensAt(frames[i], nodes), FramePower(frames[i]), nodes', frames')
      <4>1. CASE i \in 1 .. m
        <5>1. frames'[i] = frames[i] /\ i \in 1 .. Len(frames')
          BY <1>c, <4>1 DEF m
        <5>2. OpensAt(frames'[i], nodes') = OpensAt(frames[i], nodes)
          BY <1>o, <3>4, <4>1, <5>1
        <5> QED
          BY <3>4, <5>1, <5>2 DEF Continued
      <4>2. CASE i \notin 1 .. m
        <5>1. i = Len(frames) /\ frames' = Callers /\ frames' # frames
          <6>1. m = Len(frames) - 1 /\ frames' = Callers /\ i = Len(frames) /\ m # Len(frames)
            BY <1>c, <3>4, <4>2
          <6> QED
            BY <6>1 DEF m
        <5>2. frames[i] = Frame
          BY <5>1 DEF Frame
        <5> QED
          BY <3>4, <5>1, <5>2
      <4> QED
        BY <4>1, <4>2
    <3> HIDE DEF Continued, Stopped
    <3>5. mode # "operand" =>
             \/ input' = input /\ mode' # "operand"
             \/ tok \in Ending
             \/ Continued(Len(input), Power(tok), nodes', frames')
      BY <1>a
    <3>6. Stopped(End(nodes[d]) + 1, bp_infix_right(nodes[d].op), nodes', frames', input', mode')
      BY <3>2, <3>3, <3>4, <3>5, StoppedStays
    <3> QED
      BY <3>1, <3>6
  <2>2. CASE d = Len(nodes') /\ InfixMade(nodes'[d])
    <3>1. /\ End(nodes'[d]) = Len(input) - 1 /\ Len(input) \in Nat
          /\ Frame.min = bp_infix_right(Frame.op) /\ bp_infix_right(Frame.op) # 0
      BY <1>b, <2>2, InfixStands
    <3>2. nodes'[d].op = Frame.op /\ input' = input /\ Stops
      BY <2>2 DEF InfixMade
    <3>3. Power(tok) < Frame.min
      <4>1. ~Binds(Power(tok), Frame.min)
        BY <3>2 DEF Stops
      <4>2. Power(tok) \in Nat /\ bp_infix_right(Frame.op) \in Nat
        BY PowersAreNumbers
      <4> QED
        BY <3>1, <4>1, <4>2 DEF Binds
    <3>4. End(nodes'[d]) + 1 = Len(input')
      BY <3>1, <3>2
    <3>5. Power(input'[Len(input')]) < bp_infix_right(nodes'[d].op)
      BY <3>1, <3>2, <3>3 DEF tok
    <3> QED
      BY <1>a, <3>4, <3>5 DEF Stopped
  <2> QED
    BY <2>1, <2>2
<1>6. AllLeft(nodes', input')
  <2> SUFFICES ASSUME NEW n \in Bins(nodes'), NEW d \in Bins(nodes')
               PROVE  LeftOf(nodes'[n], nodes'[d], nodes', input')
    BY DEF AllLeft
  <2>1. CASE n \in Bins(nodes) /\ d \in Bins(nodes)
    <3>1. LeftOf(nodes[n], nodes[d], nodes, input)
      BY <1>b, <2>1 DEF AllLeft
    <3> QED
      BY <2>1, <3>1, LeftStays
  <2>2. CASE n \in Bins(nodes) /\ d \notin Bins(nodes)
    <3>1. InfixMade(nodes'[d])
      BY <2>2
    <3> QED
      BY <1>b, <2>2, <3>1, NewOnTheLeft
  <2>3. CASE n \notin Bins(nodes) /\ d \in Bins(nodes)
    <3>1. InfixMade(nodes'[n])
      BY <2>3
    <3> QED
      BY <1>b, <2>3, <3>1, NewOnTheRight
  <2>4. CASE n \notin Bins(nodes) /\ d \notin Bins(nodes)
    <3>1. n = d /\ InfixMade(nodes'[d])
      BY <2>4
    <3>2. SignAt(nodes'[d], nodes') \in Nat
      BY <1>b, <3>1, InfixStands
    <3> QED
      BY <3>1, <3>2 DEF LeftOf
  <2> QED
    BY <2>1, <2>2, <2>3, <2>4
<1>7. ASSUME ProperPrefixes'
      PROVE  AllRight(nodes', input') /\ AllTight(frames', nodes', input')
  <2>a. AllRight(nodes, input) /\ AllTight(frames, nodes, input)
    BY <1>7, <1>b, PrefixesWereProper
  <2>b. AllRight(nodes', input')
    <3> SUFFICES ASSUME NEW n \in Bins(nodes'), NEW d \in Bins(nodes')
                 PROVE  RightOf(nodes'[n], nodes'[d], nodes', input')
      BY DEF AllRight
    <3>1. CASE n \in Bins(nodes) /\ d \in Bins(nodes)
      <4>1. RightOf(nodes[n], nodes[d], nodes, input)
        BY <2>a, <3>1 DEF AllRight
      <4> QED
        BY <3>1, <4>1, RightStays
    <3>2. CASE n \in Bins(nodes) /\ d \notin Bins(nodes)
      <4>1. InfixMade(nodes'[d])
        BY <3>2
      <4> QED
        BY <1>b, <3>2, <4>1, NewOnTheLeft
    <3>3. CASE n \notin Bins(nodes) /\ d \in Bins(nodes)
      <4>1. InfixMade(nodes'[n])
        BY <3>3
      <4> QED
        BY <1>b, <2>a, <3>3, <4>1, NewBeforeIt
    <3>4. CASE n \notin Bins(nodes) /\ d \notin Bins(nodes)
      <4>1. n = d /\ InfixMade(nodes'[d])
        BY <3>4
      <4>2. SignAt(nodes'[d], nodes') \in Nat
        BY <1>b, <4>1, InfixStands
      <4> QED
        BY <4>1, <4>2 DEF RightOf
    <3> QED
      BY <3>1, <3>2, <3>3, <3>4
  <2>c. AllTight(frames', nodes', input')
    <3> SUFFICES ASSUME NEW i \in 1 .. m, \A k \in i + 1 .. m : Proper(frames'[k]),
                        NEW d \in Bins(nodes')
                 PROVE  TightEnough(nodes'[d], frames'[i], nodes', input')
      BY DEF AllTight, Tight, m
    <3>1. i \in 1 .. Len(frames) /\ frames'[i] = frames[i]
      BY <1>c
    <3>2. CASE d \in Bins(nodes)
      <4>1. ASSUME NEW k \in i + 1 .. Len(frames) PROVE Proper(frames[k])
        <5>1. CASE k \in i + 1 .. m
          <6>1. k \in 1 .. m
            BY <3>1, <5>1, <1>c
          <6> QED
            BY <1>c, <5>1, <6>1
        <5>2. CASE k \notin i + 1 .. m
          <6>1. m = Len(frames) - 1 /\ frames' = Callers /\ k = Len(frames) /\ m # Len(frames)
            BY <1>c, <3>1, <4>1, <5>2
          <6>2. frames' # frames /\ frames[k] = Frame
            BY <6>1 DEF m, Frame
          <6> QED
            BY <1>7, <6>1, <6>2
        <5> QED
          BY <5>1, <5>2
      <4>2. Tight(i, frames, nodes, input)
        BY <2>a, <3>1 DEF AllTight
      <4>3. TightEnough(nodes'[d], frames[i], nodes', input')
        BY <1>a, <3>1, <3>2, <4>1, <4>2, OldStayTight
      <4> QED
        BY <3>1, <4>3
    <3>3. CASE d \notin Bins(nodes)
      <4>1. InfixMade(nodes'[d])
        BY <3>3
      <4>2. m = Len(frames) - 1
        <5>1. frames' = Callers /\ Len(Callers) = Len(frames) - 1
          BY <4>1, TopFrames DEF InfixMade
        <5> QED
          BY <5>1 DEF m
      <4>3. \A k \in i + 1 .. Len(frames) - 1 : Proper(frames[k])
        <5>1. \A k \in i + 1 .. m : k \in 1 .. m
          BY <1>c, <3>1
        <5> QED
          BY <1>c, <4>2, <5>1
      <4> QED
        BY <1>b, <3>1, <4>1, <4>2, <4>3, NewIsTight
    <3> QED
      BY <3>2, <3>3
  <2> QED
    BY <2>b, <2>c
<1> QED
  BY <1>1, <1>2, <1>3, <1>4, <1>5, <1>6, <1>7 DEF Split

(* Activation f is called, behind the token just consumed. *)
LEMMA CallSplit ==
  ASSUME TypeOK, TypeOK', Inductive, Textual, Split, mode \in {"operand", "loop"},
         mode' = "operand", nodes' = nodes, Consume, tok # "end",
         NEW base \in Seq(Activation), Len(base) <= Len(frames),
         \A i \in 1 .. Len(base) : base[i] = frames[i],
         NEW f \in Activation, frames' = Append(base, f), f.start = Len(input) + 1,
         \A i \in 1 .. Len(base) : Within(i, Len(base) + 1, frames', input'),
         Beside(f, nodes),
         f.role = "arg" => /\ input'[OpensAt(f, nodes)] = "("
                           /\ Level(input', OpensAt(f, nodes) + 1, f.start - 1, Closing),
         \/ mode = "operand" \/ tok \in Ending
         \/ f.role \in Joined /\ OpensAt(f, nodes) = Len(input) /\ FramePower(f) = Power(tok),
         \/ Len(base) = Len(frames)
         \/ /\ Len(base) = Len(frames) - 1 /\ Proper(Frame)
            /\ Frame.role \in Joined =>
                  /\ f.role \in Joined /\ OpensAt(f, nodes) = OpensAt(Frame, nodes)
                  /\ FramePower(f) = FramePower(Frame)
  PROVE  Split'
<1> DEFINE m == Len(base)
<1>a. /\ mode # "error" /\ ReadOn(input', input) /\ Len(input) \in Nat /\ Len(nodes) \in Nat
      /\ Len(frames) \in Nat
  BY TokenStays, LenProperties DEF TypeOK
<1>b. /\ AllLevel(nodes, input) /\ ArgumentsLevel(frames, nodes, input)
      /\ AllWithin(frames, input) /\ AllBeside(frames, nodes)
      /\ AllStopped(nodes, frames, input, mode) /\ AllLeft(nodes, input)
      /\ ProperPrefixes => AllRight(nodes, input) /\ AllTight(frames, nodes, input)
  BY DEF Split
<1>s. Shaped(nodes, nodes')
  BY <1>a DEF Shaped
<1>k. \A j \in 1 .. Kept : nodes'[j] = nodes[j]
  OBVIOUS
<1>c. /\ m \in Nat /\ Len(frames') = m + 1 /\ frames'[m + 1] = f
      /\ \A i \in 1 .. m : i \in 1 .. Len(frames) /\ frames'[i] = frames[i]
      /\ \A i \in 1 .. m + 1 : i \in 1 .. m \/ i = m + 1
  BY <1>a, AppendProperties
<1>m. m = Len(frames) \/ m = Len(frames) - 1
  OBVIOUS
<1> HIDE DEF m
<1>1. AllLevel(nodes', input')
  <2> SUFFICES ASSUME NEW j \in 1 .. Len(nodes)
               PROVE  Level(input', nodes'[j].first, nodes'[j].last, Ending)
    BY DEF AllLevel
  <2> QED
    BY <1>a, <1>b, LevelsStay
<1>2. ArgumentsLevel(frames', nodes', input')
  <2> SUFFICES ASSUME NEW i \in 1 .. m + 1, frames'[i].role = "arg"
               PROVE  /\ input'[OpensAt(frames'[i], nodes')] = "("
                      /\ Level(input', OpensAt(frames'[i], nodes') + 1, frames'[i].start - 1, Closing)
    BY <1>c DEF ArgumentsLevel
  <2>1. CASE i \in 1 .. m
    <3>1. i \in 1 .. Len(frames) /\ frames'[i] = frames[i]
      BY <1>c, <2>1
    <3> QED
      BY <1>a, <1>b, <1>k, <3>1, ArgumentsStay
  <2>2. CASE i = m + 1
    BY <1>c, <2>2
  <2> QED
    BY <1>c, <2>1, <2>2
<1>3. AllWithin(frames', input')
  <2> SUFFICES ASSUME NEW i \in 1 .. m + 1, NEW j \in 1 .. m + 1, i < j
               PROVE  Within(i, j, frames', input')
    BY <1>c DEF AllWithin
  <2>0. i \in 1 .. m
    BY <1>c
  <2>1. CASE j \in 1 .. m
    <3>1. /\ i \in 1 .. Len(frames) /\ j \in 1 .. Len(frames)
          /\ \A k \in 1 .. j : frames'[k] = frames[k]
      BY <1>c, <2>0, <2>1
    <3> QED
      BY <1>a, <1>b, <3>1, WithinStays
  <2>2. CASE j = m + 1
    BY <2>0, <2>2 DEF m
  <2> QED
    BY <1>c, <2>1, <2>2
<1>4. AllBeside(frames', nodes')
  <2> SUFFICES ASSUME NEW i \in 1 .. m + 1 PROVE Beside(frames'[i], nodes')
    BY <1>c DEF AllBeside
  <2>1. CASE i \in 1 .. m
    BY <1>b, <1>c, <2>1 DEF AllBeside
  <2>2. CASE i = m + 1
    BY <1>c, <2>2
  <2> QED
    BY <1>c, <2>1, <2>2
<1>5. AllStopped(nodes', frames', input', mode')
  <2> SUFFICES ASSUME NEW d \in Bins(nodes)
               PROVE  Stopped(End(nodes[d]) + 1, bp_infix_right(nodes[d].op),
                              nodes', frames', input', mode')
    BY DEF AllStopped
  <2>1. End(nodes[d]) + 1 \in 1 .. Len(input)
    BY BinOpText
  <2>2. Stopped(End(nodes[d]) + 1, bp_infix_right(nodes[d].op), nodes, frames, input, mode)
    BY <1>b DEF AllStopped
  <2>f. m + 1 \in 1 .. Len(frames')
    BY <1>c
  <2>3. ASSUME NEW i \in 1 .. Len(frames), frames[i].role \in Joined
        PROVE  Continued(OpensAt(frames[i], nodes), FramePower(frames[i]), nodes', frames')
    <3>1. CASE i \in 1 .. m
      <4>1. frames'[i] = frames[i] /\ i \in 1 .. Len(frames')
        BY <1>c, <3>1
      <4> QED
        BY <2>3, <4>1 DEF Continued
    <3>2. CASE i \notin 1 .. m
      <4>1. i = Len(frames) /\ m = Len(frames) - 1 /\ m # Len(frames)
        BY <1>a, <1>m, <2>3, <3>2
      <4>2. frames[i] = Frame
        BY <4>1 DEF Frame
      <4>3. /\ f.role \in Joined /\ OpensAt(f, nodes) = OpensAt(Frame, nodes)
            /\ FramePower(f) = FramePower(Frame)
        BY <2>3, <4>1, <4>2 DEF m
      <4> QED
        BY <1>c, <2>f, <4>2, <4>3 DEF Continued
    <3> QED
      BY <3>1, <3>2
  <2>4. mode # "operand" => tok \in Ending \/ Continued(Len(input), Power(tok), nodes', frames')
    BY <1>c, <2>f DEF Continued
  <2> HIDE DEF Continued, Stopped
  <2> QED
    BY <1>a, <1>s, <2>1, <2>2, <2>3, <2>4, StoppedStays
<1>6. AllLeft(nodes', input')
  <2> SUFFICES ASSUME NEW n \in Bins(nodes), NEW d \in Bins(nodes)
               PROVE  LeftOf(nodes'[n], nodes'[d], nodes', input')
    BY DEF AllLeft
  <2>1. LeftOf(nodes[n], nodes[d], nodes, input)
    BY <1>b DEF AllLeft
  <2> QED
    BY <1>a, <1>s, <2>1, LeftStays
<1>7. ASSUME ProperPrefixes'
      PROVE  AllRight(nodes', input') /\ AllTight(frames', nodes', input')
  <2>a. AllRight(nodes, input) /\ AllTight(frames, nodes, input)
    BY <1>7, <1>b, <1>s, PrefixesWereProper
  <2>b. AllRight(nodes', input')
    <3> SUFFICES ASSUME NEW n \in Bins(nodes), NEW d \in Bins(nodes)
                 PROVE  RightOf(nodes'[n], nodes'[d], nodes', input')
      BY DEF AllRight
    <3>1. RightOf(nodes[n], nodes[d], nodes, input)
      BY <2>a DEF AllRight
    <3> QED
      BY <1>a, <1>s, <3>1, RightStays
  <2>c. AllTight(frames', nodes', input')
    <3> SUFFICES ASSUME NEW i \in 1 .. m + 1, \A k \in i + 1 .. m + 1 : Proper(frames'[k]),
                        NEW d \in Bins(nodes)
                 PROVE  TightEnough(nodes'[d], frames'[i], nodes', input')
      BY <1>c DEF AllTight, Tight
    <3>1. CASE i \in 1 .. m
      <4>1. i \in 1 .. Len(frames) /\ frames'[i] = frames[i]
        BY <1>c, <3>1
      <4>2. ASSUME NEW k \in i + 1 .. Len(frames) PROVE Proper(frames[k])
        <5>1. CASE k \in 1 .. m
          <6>1. k \in i + 1 .. m + 1 /\ frames'[k] = frames[k]
            BY <1>c, <4>2, <5>1
          <6> QED
            BY <6>1
        <5>2. CASE k \notin 1 .. m
          <6>1. k = Len(frames) /\ m = Len(frames) - 1 /\ m # Len(frames)
            BY <1>a, <1>m, <3>1, <4>2, <5>2
          <6> QED
            BY <6>1 DEF m, Frame
        <5> QED
          BY <5>1, <5>2
      <4>3. Tight(i, frames, nodes, input)
        BY <2>a, <4>1 DEF AllTight
      <4> QED
        BY <1>a, <1>s, <4>1, <4>2, <4>3, OldStayTight
    <3>2. CASE i = m + 1
      <4>1. SignAt(nodes'[d], nodes') <= Len(input) /\ SignAt(nodes'[d], nodes') \in Nat
        BY BinOpText
      <4>2. ~(SignAt(nodes'[d], nodes') >= frames'[i].start)
        BY <1>a, <1>c, <3>2, <4>1
      <4> QED
        BY <4>2 DEF TightEnough
    <3> QED
      BY <1>c, <3>1, <3>2
  <2> QED
    BY <2>b, <2>c
<1> QED
  BY <1>1, <1>2, <1>3, <1>4, <1>5, <1>6, <1>7 DEF Split

(* The lookahead is as deep as the beginning of the expression being read. *)
LEMMA HandDepth ==
  ASSUME TypeOK, Inductive, Textual, AllLevel(nodes, input), mode \in {"operand", "loop"}
  PROVE  /\ Depth(input, Len(input)) = Depth(input, Frame.start)
         /\ Depth(input, Frame.start) \in Int
<1>1. Frame.start \in 1 .. Len(input) /\ Len(input) \in Nat \ {0}
  BY StartsAreRead, Lookahead DEF Textual
<1>2. Depth(input, Frame.start) \in Int
  BY <1>1, DepthOneMore
<1>3. CASE mode = "operand"
  <2>1. Frame.start = Len(input)
    BY <1>3 DEF Textual, InPlace
  <2> QED
    BY <1>2, <2>1
<1>4. CASE mode = "loop"
  <2>1. /\ Out \in 1 .. Len(nodes) /\ nodes[Out].first = Frame.start
        /\ nodes[Out].last = Len(input) - 1
    BY <1>4, HandText
  <2>2. Level(input, nodes[Out].first, nodes[Out].last, Ending)
    BY <2>1 DEF AllLevel
  <2>3. (Len(input) - 1) + 1 = Len(input)
    BY <1>1
  <2> QED
    BY <1>2, <2>1, <2>2, <2>3 DEF Level
<1> QED
  BY <1>3, <1>4

LEMMA DepthBehind ==
  ASSUME TypeOK, Inductive, Textual, AllLevel(nodes, input), mode \in {"operand", "loop"},
         Consume, tok # "end"
  PROVE  /\ tok \in Opening => Depth(input', Len(input) + 1) = Depth(input, Frame.start) + 1
         /\ tok \notin Opening \cup Closing
               => Depth(input', Len(input) + 1) = Depth(input, Frame.start)
         /\ Depth(input, Frame.start) \in Int
<1>1. /\ ReadOn(input', input) /\ Len(input) \in Nat \ {0} /\ input'[Len(input)] = tok
  BY TokenStays
<1>2. Len(input) \in 1 .. Len(input) + 1
  BY <1>1
<1>3. Depth(input', Len(input)) = Depth(input, Len(input))
  BY <1>1, <1>2, DepthSame
<1>4. /\ Depth(input, Len(input)) = Depth(input, Frame.start)
      /\ Depth(input, Frame.start) \in Int
  BY HandDepth
<1>5. /\ Len(input) \in Nat \ {0}
      /\ tok \in Opening => Depth(input', Len(input) + 1) = Depth(input', Len(input)) + 1
      /\ tok \notin Opening \cup Closing
            => Depth(input', Len(input) + 1) = Depth(input', Len(input))
  BY <1>1, DepthOneMore
<1> QED
  BY <1>3, <1>4, <1>5

(* A binding power is 20 at most, and a stray operator's is 0. *)
LEMMA PowersAreSmall ==
  \A op : bp_infix_left(op) <= 20 /\ bp_infix_right(op) <= 20 /\ bp_prefix(op) <= 20
<1> TAKE op
<1>1. bp_infix_left(op) <= 20
  BY DEF bp_infix_left
<1>2. bp_infix_right(op) <= 20
  BY <1>1 DEF bp_infix_right
<1>3. bp_prefix(op) <= 20
  BY DEF bp_prefix
<1> QED
  BY <1>1, <1>2, <1>3

LEMMA SmallMin ==
  ASSUME TypeOK, Inductive, LooseFrames, mode # "error"
  PROVE  Frame.min \in Nat /\ Frame.min <= 20
<1>1. Frame.min \in Nat /\ Frame \in Activation
  BY FrameFields, TopFrames
<1>2. Frame.role \in Roles
  BY <1>1 DEF Activation
<1>3. Loose(Frame)
  <2>1. Len(frames) \in DOMAIN frames
    BY TopFrames, LenProperties DEF TypeOK
  <2> QED
    BY <2>1 DEF LooseFrames, Frame
<1>4. CASE Frame.role \in {"prefix", "cast", "right"}
  <2>1. Frame.role # "root" /\ FrameFits(Frame, Caller, nodes)
    BY <1>4, TopFits DEF Inductive
  <2>2. \/ Frame.min = bp_infix_right(Frame.op) \/ Frame.min = bp_prefix(Frame.op)
        \/ Frame.min = CAST_BP
    BY <1>4, <2>1 DEF FrameFits
  <2> QED
    BY <1>1, <2>2, PowersAreSmall DEF CAST_BP
<1>5. CASE Frame.role \notin {"prefix", "cast", "right"}
  <2>1. Frame.role \in {"root"} \cup DOMAIN Bracket
    BY <1>2, <1>5 DEF Roles, Bracket
  <2>2. Frame.min = 0
    BY <1>3, <2>1 DEF Loose
  <2> QED
    BY <2>2
<1> QED
  BY <1>1, <1>4, <1>5

(* Nothing but . and -> is as tight as a prefix operator or a cast. *)
LEMMA NarrowerThanUnary ==
  ASSUME NEW low \in Nat, low <= 20, NEW high \in Nat, high >= 15
  PROVE  Narrower(low, high)
<1> SUFFICES ASSUME NEW op \in OperatorKinds, bp_infix_left(op) # 0, bp_infix_left(op) >= high
             PROVE  bp_infix_left(op) >= low
  BY DEF Narrower
<1>1. bp_infix_left(op) \in Nat
  BY PowersAreNumbers
<1>2. bp_infix_left(op) = 20 \/ bp_infix_left(op) < 15
  BY DEF bp_infix_left
<1> QED
  BY <1>1, <1>2

LEMMA NarrowerThanInfix ==
  ASSUME NEW low \in Nat, NEW op, bp_infix_left(op) >= low
  PROVE  Narrower(low, bp_infix_right(op))
<1>1. bp_infix_right(op) >= bp_infix_left(op) /\ bp_infix_right(op) \in Nat /\ bp_infix_left(op) \in Nat
  <2>1. bp_infix_left("Assign") = 3
    BY DEF bp_infix_left
  <2> QED
    BY <2>1, PowersAreNumbers DEF bp_infix_right
<1>2. \A t : bp_infix_left(t) \in Nat
  BY PowersAreNumbers
<1> QED
  BY <1>1, <1>2 DEF Narrower

(* What binds tighter than the activation in between binds tighter than both. *)
LEMMA NarrowerChain ==
  ASSUME NEW low, NEW middle, NEW high, Narrower(low, middle), Narrower(middle, high)
  PROVE  Narrower(low, high)
BY DEF Narrower

(* An expression in the expression being read. *)
LEMMA PushSplit ==
  ASSUME TypeOK, TypeOK', Inductive, Textual, Split, mode \in {"operand", "loop"},
         mode' = "operand", nodes' = nodes, Consume, tok # "end",
         NEW f \in Activation, frames' = Append(frames, f), f.start = Len(input) + 1,
         \/ tok \in Opening
         \/ tok \notin Opening \cup Closing /\ (Proper(f) => Narrower(Frame.min, f.min)),
         f.role \in Joined => mode = "loop" /\ f.left = Out,
         f.role = "arg" => tok = "(",
         mode = "operand" \/ (f.role \in Joined /\ FramePower(f) = Power(tok))
  PROVE  Split'
<1> DEFINE m == Len(frames)
<1>a. /\ mode # "error" /\ AllLevel(nodes, input) /\ AllWithin(frames, input)
  BY DEF Split
<1>b. /\ ReadOn(input', input) /\ Len(input) \in Nat \ {0} /\ input'[Len(input)] = tok
  BY TokenStays
<1>c. frames \in Seq(Activation) /\ m \in Nat \ {0} /\ frames[m] = Frame
  BY TopFrames DEF TypeOK, Frame
<1>d. /\ frames'[m + 1] = f /\ \A i \in 1 .. m : frames'[i] = frames[i]
  BY <1>c, AppendProperties
<1>e. /\ tok \in Opening => Depth(input', f.start) = Depth(input, Frame.start) + 1
      /\ tok \notin Opening \cup Closing => Depth(input', f.start) = Depth(input, Frame.start)
      /\ Depth(input, Frame.start) \in Int
  BY <1>a, DepthBehind
<1> HIDE DEF m
<1>1. ASSUME NEW i \in 1 .. m
      PROVE  Within(i, m + 1, frames', input')
  <2>1. /\ frames'[i] = frames[i] /\ i \in 1 .. Len(frames) /\ m \in 1 .. Len(frames)
        /\ frames[i].start \in 1 .. Len(input)
    BY <1>a, <1>c, <1>d, StackFacts DEF m
  <2>2. Depth(input', frames[i].start) = Depth(input, frames[i].start)
    BY <1>a, <1>b, <2>1, StartsStay
  <2>i. frames[i].start \in Nat \ {0} /\ Len(input) \in Nat
    BY <1>b, <2>1
  <2>3. Depth(input, frames[i].start) \in Int
    BY <2>i, DepthOneMore
  <2>4. frames[i].start <= f.start
    BY <1>b, <2>1
  <2>w. i # m => Within(i, m, frames, input) /\ frames[m] = Frame
    <3>1. i # m => i < m
      BY <1>c
    <3> QED
      BY <1>a, <1>c, <2>1, <3>1 DEF AllWithin
  <2>5. Depth(input, frames[i].start) <= Depth(input, Frame.start)
    <3>1. CASE i = m
      <4>1. frames[i] = Frame
        BY <1>c, <3>1
      <4> QED
        BY <2>3, <4>1
    <3>2. CASE i # m
      BY <2>w, <3>2 DEF Within
    <3> QED
      BY <3>1, <3>2
  <2>8. ASSUME i # m, Depth(input, frames[i].start) = Depth(input, Frame.start),
               \A k \in i + 1 .. m : Proper(frames[k])
        PROVE  Narrower(frames[i].min, Frame.min)
    BY <2>w, <2>8, Zenon DEF Within
  <2>6. CASE tok \in Opening
    <3>1. Depth(input', f.start) > Depth(input, frames[i].start)
      BY <1>e, <2>3, <2>5, <2>6
    <3> QED
      BY <1>d, <1>e, <2>1, <2>2, <2>3, <2>4, <2>6, <3>1 DEF Within
  <2>7. CASE tok \notin Opening
    <3>1. tok \notin Opening \cup Closing /\ (Proper(f) => Narrower(Frame.min, f.min))
      BY <2>7
    <3>2. Depth(input', f.start) = Depth(input, Frame.start)
      BY <1>e, <3>1
    <3>3. ASSUME Depth(input', frames[i].start) = Depth(input', f.start),
                 \A k \in i + 1 .. m + 1 : Proper(frames'[k])
          PROVE  Narrower(frames[i].min, f.min)
      <4>1. Proper(f) /\ \A k \in i + 1 .. m : Proper(frames[k])
        <5>1. m + 1 \in i + 1 .. m + 1
          BY <1>c
        <5>2. \A k \in i + 1 .. m : k \in i + 1 .. m + 1 /\ k \in 1 .. m
          BY <1>c
        <5> QED
          BY <1>d, <3>3, <5>1, <5>2
      <4>2. Narrower(Frame.min, f.min)
        BY <3>1, <4>1
      <4>3. CASE i = m
        BY <1>c, <4>2, <4>3
      <4>4. CASE i # m
        <5>0. Depth(input, frames[i].start) = Depth(input, Frame.start)
          BY <2>2, <3>2, <3>3
        <5>1. Narrower(frames[i].min, Frame.min)
          BY <2>8, <4>1, <4>4, <5>0
        <5> QED
          BY <4>2, <5>1, NarrowerChain
      <4> QED
        BY <4>3, <4>4
    <3>4. Depth(input', frames[i].start) <= Depth(input', f.start)
      BY <2>2, <2>5, <3>2
    <3> QED
      BY <1>d, <2>1, <2>4, <3>3, <3>4 DEF Within
  <2> QED
    BY <2>6, <2>7
<1>2. f.role \in Joined => OpensAt(f, nodes) = Len(input)
  <2> SUFFICES ASSUME f.role \in Joined PROVE OpensAt(f, nodes) = Len(input)
    OBVIOUS
  <2>1. nodes[Out].last = Len(input) - 1 /\ f.left = Out
    BY HandText
  <2> QED
    BY <1>b, <2>1 DEF OpensAt
<1>3. Beside(f, nodes)
  <2> SUFFICES ASSUME f.role \in Joined
               PROVE  /\ OpensAt(f, nodes) < f.start
                      /\ \A k \in 1 .. Len(nodes) : nodes[k].last < OpensAt(f, nodes)
    BY DEF Beside
  <2>1. OpensAt(f, nodes) = Len(input)
    BY <1>2
  <2>2. \A k \in 1 .. Len(nodes) : nodes[k].last \in 1 .. Len(input) - 1
    BY SignIsRead
  <2> QED
    BY <1>b, <2>1, <2>2
<1>4. f.role = "arg" => /\ input'[OpensAt(f, nodes)] = "("
                        /\ Level(input', OpensAt(f, nodes) + 1, f.start - 1, Closing)
  <2> SUFFICES ASSUME f.role = "arg"
               PROVE  /\ input'[OpensAt(f, nodes)] = "("
                      /\ Level(input', OpensAt(f, nodes) + 1, f.start - 1, Closing)
    OBVIOUS
  <2>1. OpensAt(f, nodes) = Len(input) /\ tok = "("
    BY <1>2 DEF Joined
  <2>2. Level(input', Len(input) + 1, (Len(input) + 1) - 1, Closing)
    <3>1. Len(input) + 1 \in Nat
      BY <1>b
    <3> QED
      BY <3>1, LevelNone
  <2> QED
    BY <1>b, <2>1, <2>2
<1>5. \/ mode = "operand" \/ tok \in Ending
      \/ f.role \in Joined /\ OpensAt(f, nodes) = Len(input) /\ FramePower(f) = Power(tok)
  BY <1>2
<1> QED
  BY <1>1, <1>3, <1>4, <1>5, WholeStack, CallSplit DEF m

(* The arguments of a call so far, and the bracket before them. *)
LEMMA OpenArguments ==
  ASSUME TypeOK, Inductive, Textual, Split, mode \in {"operand", "loop"},
         ReadOn(input', input), \A j \in 1 .. Len(nodes) : nodes'[j] = nodes[j],
         Frame.role = "arg", NEW p, p = OpensAt(Frame, nodes)
  PROVE  /\ p \in Nat \ {0} /\ p < Frame.start /\ Frame.start <= Len(input)
         /\ Frame.start \in Nat /\ Len(input) \in Nat \ {0}
         /\ input'[p] = "(" /\ Level(input', p + 1, Len(input) - 1, Closing)
<1>a. /\ mode # "error" /\ AllLevel(nodes, input) /\ AllBeside(frames, nodes)
      /\ ArgumentsLevel(frames, nodes, input)
  BY DEF Split
<1>b. Frame.role \in Joined
  BY DEF Joined
<1>c. /\ Len(frames) \in 1 .. Len(frames) /\ frames[Len(frames)] = Frame
      /\ Len(input) \in Nat \ {0} /\ Len(nodes) \in Nat
  BY TopFrames, Lookahead, LenProperties DEF Frame, TypeOK
<1>d. p \in 1 .. Len(input) /\ p < Frame.start /\ Frame.start \in 1 .. Len(input)
  <2>1. p \in 1 .. Len(input) /\ Frame.start \in 1 .. Len(input)
    BY <1>a, <1>b, <1>c, StackFacts
  <2>2. Beside(Frame, nodes)
    BY <1>a, <1>c DEF AllBeside
  <2> QED
    BY <1>b, <2>1, <2>2 DEF Beside
<1>e. input'[p] = "(" /\ Level(input', p + 1, Frame.start - 1, Closing)
  <2>1. \A j \in 1 .. Kept : nodes'[j] = nodes[j]
    <3>1. Kept \in Int /\ Kept <= Len(nodes)
      BY KeptIsInt
    <3> QED
      BY <1>c, <3>1
  <2>2. /\ input'[OpensAt(Frame, nodes')] = "("
        /\ Level(input', OpensAt(Frame, nodes') + 1, Frame.start - 1, Closing)
    BY <1>a, <1>c, <2>1, ArgumentsStay
  <2>3. OpensAt(Frame, nodes') = p
    BY <1>a, <1>b, <1>c, <2>1, OpensStay
  <2> QED
    BY <2>2, <2>3
<1>1. CASE mode = "operand"
  <2>1. Frame.start = Len(input)
    BY <1>1 DEF Textual, InPlace
  <2> QED
    BY <1>c, <1>d, <1>e, <2>1
<1>2. CASE mode = "loop"
  <2>1. /\ Out \in 1 .. Len(nodes) /\ nodes[Out].first = Frame.start
        /\ nodes[Out].last = Len(input) - 1
    BY <1>2, HandText
  <2>2. Level(input', nodes'[Out].first, nodes'[Out].last, Ending)
    BY <1>a, <2>1, LevelsStay
  <2>3. Level(input', Frame.start, Len(input) - 1, Closing)
    BY <2>1, <2>2, LevelWeaker
  <2>4. /\ p + 1 \in Nat /\ Frame.start - 1 \in Nat /\ p + 1 <= (Frame.start - 1) + 1
        /\ Frame.start - 1 <= Len(input) - 1 /\ (Frame.start - 1) + 1 = Frame.start
        /\ Len(input) - 1 \in Nat
    BY <1>c, <1>d
  <2>5. Level(input', p + 1, Len(input) - 1, Closing)
    BY <1>e, <2>3, <2>4, LevelJoin
  <2> QED
    BY <1>c, <1>d, <1>e, <2>5
<1> QED
  BY <1>1, <1>2

(* The next argument of a call. *)
LEMMA NextArgSplit ==
  ASSUME TypeOK, TypeOK', Inductive, Textual, Split, mode = "loop",
         mode' = "operand", nodes' = nodes, Consume, tok # "end",
         tok \in Ending, tok \notin Opening \cup Closing, Frame.role = "arg",
         NEW f \in Activation, frames' = Append(Callers, f), f.start = Len(input) + 1,
         f.role = "arg", f.left = Frame.left, f.min = Frame.min
  PROVE  Split'
<1> DEFINE m == Len(Callers)
           p == OpensAt(Frame, nodes)
<1>a. /\ mode # "error" /\ AllLevel(nodes, input) /\ AllWithin(frames, input)
      /\ AllBeside(frames, nodes) /\ ArgumentsLevel(frames, nodes, input)
  BY DEF Split
<1>b. ReadOn(input', input) /\ Len(input) \in Nat \ {0}
  BY TokenStays
<1>t. input'[Len(input)] = tok
  BY TokenStays
<1>c. /\ Callers \in Seq(Activation) /\ m = Len(frames) - 1 /\ Len(frames) \in Nat \ {0}
      /\ Len(frames) > 1
      /\ \A i \in 1 .. m : Callers[i] = frames[i]
      /\ frames[Len(frames)] = Frame /\ Len(frames) \in 1 .. Len(frames)
  <2>1. Frame.role # "root"
    OBVIOUS
  <2>2. /\ Callers \in Seq(Activation) /\ m = Len(frames) - 1 /\ Len(frames) \in Nat \ {0}
        /\ Len(frames) > 1
        /\ \A i \in 1 .. Len(frames) - 1 : Callers[i] = frames[i]
    BY <2>1, TopFrames
  <2> QED
    BY <2>2 DEF Frame
<1>d. /\ frames'[m + 1] = f /\ \A i \in 1 .. m : frames'[i] = frames[i]
  <2>1. Callers \in Seq(Activation) /\ \A i \in 1 .. m : Callers[i] = frames[i]
    BY <1>c
  <2>2. /\ Append(Callers, f)[m + 1] = f
        /\ \A i \in 1 .. m : Append(Callers, f)[i] = Callers[i]
    BY <2>1, AppendProperties
  <2> QED
    BY <2>1, <2>2
<1>e. Frame.role \in Joined /\ f.role \in Joined
  BY DEF Joined
<1>g. OpensAt(f, nodes) = p /\ FramePower(f) = FramePower(Frame)
  BY DEF OpensAt, FramePower
<1>i. Depth(input', f.start) = Depth(input, Frame.start)
  BY <1>a, DepthBehind
<1>j. /\ p \in Nat \ {0} /\ p < Frame.start /\ Frame.start <= Len(input) /\ Frame.start \in Nat
  BY <1>b, OpenArguments
<1>k. input'[p] = "(" /\ Level(input', p + 1, Len(input) - 1, Closing)
  BY <1>b, OpenArguments
<1> HIDE DEF m, p
<1>1. ASSUME NEW i \in 1 .. m
      PROVE  Within(i, m + 1, frames', input')
  <2>0. frames'[i] = frames[i]
    BY <1>d
  <2>1. i \in 1 .. Len(frames) /\ i < Len(frames) /\ Len(frames) = m + 1 /\ m \in Nat
    <3>1. m = Len(frames) - 1 /\ Len(frames) \in Nat \ {0}
      BY <1>c
    <3> QED
      BY <3>1
  <2>2. Within(i, Len(frames), frames, input)
    BY <1>a, <1>c, <2>1 DEF AllWithin
  <2>3. Depth(input', frames[i].start) = Depth(input, frames[i].start)
    BY <1>a, <1>b, <2>1, StartsStay
  <2>4. /\ frames[i].start <= Frame.start
        /\ Depth(input, frames[i].start) <= Depth(input, Frame.start)
        /\ Depth(input, frames[i].start) = Depth(input, Frame.start)
           /\ (\A k \in i + 1 .. Len(frames) : Proper(frames[k]))
              => Narrower(frames[i].min, f.min)
    BY <1>c, <2>2 DEF Within
  <2>5. frames[i].start <= f.start
    <3>1. frames[i].start \in Nat
      BY <1>a, <2>1, StackFacts
    <3> QED
      BY <1>b, <1>j, <2>4, <3>1
  <2>6. ASSUME \A k \in i + 1 .. m + 1 : Proper(frames'[k])
        PROVE  \A k \in i + 1 .. Len(frames) : Proper(frames[k])
    <3> SUFFICES ASSUME NEW k \in i + 1 .. Len(frames) PROVE Proper(frames[k])
      OBVIOUS
    <3>1. CASE k = Len(frames)
      BY <1>c, <3>1 DEF Proper
    <3>2. CASE k # Len(frames)
      <4>1. k \in 1 .. m /\ k \in i + 1 .. m + 1
        BY <2>1, <3>2
      <4> QED
        BY <1>d, <2>6, <4>1
    <3> QED
      BY <3>1, <3>2
  <2> QED
    BY <1>d, <1>i, <2>0, <2>1, <2>3, <2>4, <2>5, <2>6 DEF Within
<1>2. Beside(f, nodes)
  <2>1. Beside(Frame, nodes)
    BY <1>a, <1>c DEF AllBeside
  <2>2. p < f.start
    BY <1>b, <1>j
  <2> QED
    BY <1>e, <1>g, <2>1, <2>2 DEF Beside, p
<1>3. Level(input', p + 1, f.start - 1, Closing)
  <2>1. Level(input', Len(input), Len(input), Closing)
    <3>2. input'[Len(input)] \notin Opening \cup Closing /\ input'[Len(input)] \notin Closing
      BY <1>t
    <3> QED
      BY <1>b, <3>2, LevelOne
  <2>3. Level(input', p + 1, Len(input), Closing)
    <3>1. /\ p + 1 \in Nat /\ Len(input) - 1 \in Nat /\ p + 1 <= (Len(input) - 1) + 1
          /\ Len(input) - 1 <= Len(input) /\ (Len(input) - 1) + 1 = Len(input)
      BY <1>b, <1>j
    <3> QED
      BY <1>b, <1>k, <2>1, <3>1, LevelJoin
  <2>4. f.start - 1 = Len(input)
    BY <1>b
  <2> QED
    BY <2>3, <2>4
<1>4. Proper(Frame)
  BY DEF Proper
<1>5. /\ Len(Callers) <= Len(frames) /\ Len(Callers) = Len(frames) - 1
      /\ \A i \in 1 .. Len(Callers) : Callers[i] = frames[i]
      /\ Callers \in Seq(Activation)
  BY <1>c DEF m
<1>6. \A i \in 1 .. Len(Callers) : Within(i, Len(Callers) + 1, frames', input')
  BY <1>1 DEF m
<1>7. f.role = "arg" => /\ input'[OpensAt(f, nodes)] = "("
                        /\ Level(input', OpensAt(f, nodes) + 1, f.start - 1, Closing)
  BY <1>3, <1>g, <1>k
<1>8. Frame.role \in Joined => /\ f.role \in Joined /\ OpensAt(f, nodes) = OpensAt(Frame, nodes)
                               /\ FramePower(f) = FramePower(Frame)
  BY <1>e, <1>g DEF p
<1> QED
  BY <1>2, <1>4, <1>5, <1>6, <1>7, <1>8, CallSplit

LEMMA AppendShapes ==
  ASSUME TypeOK, Inductive, NEW n \in Node, nodes' = Append(nodes, n)
  PROVE  /\ Shaped(nodes, nodes') /\ Len(nodes) \in Nat
         /\ Len(nodes') = Len(nodes) + 1 /\ nodes'[Len(nodes')] = n
         /\ \A j \in 1 .. Len(nodes) : nodes'[j] = nodes[j]
         /\ \A j \in 1 .. Len(nodes') - 1 : j \in 1 .. Len(nodes) /\ nodes'[j] = nodes[j]
         /\ \A j \in 1 .. Kept : nodes'[j] = nodes[j]
<1>1. /\ Len(nodes) \in Nat /\ Len(nodes') = Len(nodes) + 1 /\ nodes'[Len(nodes) + 1] = n
      /\ \A j \in 1 .. Len(nodes) : nodes'[j] = nodes[j]
  <2>1. nodes \in Seq(Node)
    BY DEF TypeOK
  <2> QED
    BY <2>1, AppendProperties
<1>2. \A j \in 1 .. Len(nodes') - 1 : j \in 1 .. Len(nodes)
  BY <1>1
<1>3. \A j \in 1 .. Kept : j \in 1 .. Len(nodes)
  BY <1>1, KeptIsInt
<1>4. ASSUME NEW i \in 1 .. Len(nodes), nodes[i].kids # << >>
      PROVE  SignAt(nodes'[i], nodes') = SignAt(nodes[i], nodes)
  <2>1. nodes[i].kids[1] \in 1 .. Len(nodes)
    <3>1. nodes[i] \in Node /\ DOMAIN nodes = 1 .. Len(nodes)
      BY LenProperties DEF TypeOK
    <3>2. 1 \in DOMAIN nodes[i].kids
      BY <1>4, <3>1, NodeFields, EmptySeq
    <3>3. nodes[i].kids[1] \in 1 .. i - 1
      BY <3>1, <3>2 DEF Inductive, KidsOlder, KidsBelow
    <3> QED
      BY <1>1, <3>3
  <2> QED
    BY <1>1, <2>1 DEF SignAt
<1>5. Shaped(nodes, nodes')
  BY <1>1, <1>4 DEF Shaped
<1> QED
  BY <1>1, <1>2, <1>3, <1>5

(* A node is made, of the one in hand or of what the activation keeps. *)
LEMMA MakeSplit ==
  ASSUME TypeOK, TypeOK', Inductive, Inductive', Textual, Textual', Split,
         mode \in {"operand", "loop"}, mode' = "loop", ReadOn(input', input),
         NEW n \in Node, nodes' = Append(nodes, n), n.wraps = 0,
         n.kind = "Call" =>
            /\ n.kids[1] = Frame.left /\ Frame.left \in 1 .. Len(nodes)
            /\ nodes[Frame.left].last < n.last
            /\ Level(input', nodes[Frame.left].last + 1, n.last, Ending),
         n.kind = "BinOp" => InfixMade(n),
         \/ frames' = frames
         \/ /\ frames' = Callers /\ Frame.role # "root"
            /\ ProperPrefixes' => Proper(Frame)
            /\ Frame.role \in Joined =>
                  /\ Frame.left \in 1 .. Len(nodes) /\ n.kids[1] = Frame.left
                  /\ LeftPower(n) = FramePower(Frame) /\ LeftPower(n) # 0,
         \/ mode = "operand" \/ input' = input \/ tok \in Ending
         \/ /\ LeftPower(n) = Power(tok) /\ LeftPower(n) # 0
            /\ n.kids[1] \in 1 .. Len(nodes) /\ SignAt(n, nodes) = Len(input)
  PROVE  Split'
<1>1. /\ Shaped(nodes, nodes') /\ Len(nodes) \in Nat
      /\ Len(nodes') = Len(nodes) + 1 /\ nodes'[Len(nodes')] = n
      /\ \A j \in 1 .. Len(nodes) : nodes'[j] = nodes[j]
      /\ \A j \in 1 .. Len(nodes') - 1 : j \in 1 .. Len(nodes) /\ nodes'[j] = nodes[j]
      /\ \A j \in 1 .. Kept : nodes'[j] = nodes[j]
  BY AppendShapes
<1> DEFINE N == Len(nodes')
<1>2. N \in 1 .. Len(nodes') /\ N = Len(nodes) + 1 /\ nodes'[N] = n
  BY <1>1
<1> HIDE DEF N
<1>3. /\ NodeTiled(n, nodes', input') /\ DOMAIN nodes' = 1 .. Len(nodes')
  <2>1. DOMAIN nodes' = 1 .. Len(nodes')
    BY LenProperties DEF TypeOK
  <2> QED
    BY <1>2, <2>1 DEF Textual, AllTiled
<1>4. Level(input', n.first, n.last, Ending)
  <2>1. Parts(n, nodes', input')
    BY <1>3 DEF NodeTiled
  <2>2. ASSUME NEW k \in DOMAIN n.kids
        PROVE  /\ nodes'[n.kids[k]] \in Node
               /\ nodes'[n.kids[k]].first <= nodes'[n.kids[k]].last
               /\ Level(input', nodes'[n.kids[k]].first, nodes'[n.kids[k]].last, Ending)
    <3>1. n.kids[k] \in 1 .. N - 1
      BY <1>2, <1>3 DEF Inductive, KidsOlder, KidsBelow
    <3>2. n.kids[k] \in 1 .. Len(nodes)
      BY <1>1, <1>2, <3>1
    <3>3. nodes'[n.kids[k]] = nodes[n.kids[k]]
      BY <1>1, <3>2
    <3>4. Level(input', nodes'[n.kids[k]].first, nodes'[n.kids[k]].last, Ending)
      BY <3>2, <3>3, LevelsStay DEF Split
    <3> QED
      BY <3>2, <3>3, <3>4, SignIsRead
  <2>3. n.kind = "Call" =>
           /\ nodes'[n.kids[1]].last < n.last
           /\ Level(input', nodes'[n.kids[1]].last + 1, n.last, Ending)
    BY <1>1
  <2> QED
    BY <2>1, <2>2, <2>3, NodeLevel
<1>5. ASSUME n.kids[1] \in 1 .. Len(nodes), LeftPower(n) # 0
      PROVE  Continued(SignAt(n, nodes), LeftPower(n), nodes', frames')
  <2>1. SignAt(nodes'[N], nodes') = SignAt(n, nodes)
    BY <1>1, <1>2, <1>5 DEF SignAt
  <2> QED
    BY <1>2, <1>5, <2>1 DEF Continued
<1>6. ASSUME frames' = Callers, Frame.role # "root", Frame.role \in Joined,
             Frame.left \in 1 .. Len(nodes), n.kids[1] = Frame.left,
             LeftPower(n) = FramePower(Frame), LeftPower(n) # 0
      PROVE  Continued(OpensAt(Frame, nodes), FramePower(Frame), nodes', frames')
  <2>1. OpensAt(Frame, nodes) = SignAt(n, nodes)
    BY <1>6 DEF OpensAt, SignAt
  <2> QED
    BY <1>5, <1>6, <2>1
<1>7. \/ frames' = frames
      \/ /\ frames' = Callers /\ Frame.role # "root"
         /\ ProperPrefixes' => Proper(Frame)
         /\ Frame.role \in Joined =>
               Continued(OpensAt(Frame, nodes), FramePower(Frame), nodes', frames')
  BY <1>6
<1>8. \/ mode = "operand" \/ input' = input \/ tok \in Ending
      \/ Continued(Len(input), Power(tok), nodes', frames')
  BY <1>5
<1>9. ASSUME NEW d \in Bins(nodes')
      PROVE  d \in Bins(nodes) \/ (d = Len(nodes') /\ InfixMade(nodes'[d]))
  <2>1. CASE d = Len(nodes')
    BY <1>1, <2>1 DEF Bins
  <2>2. CASE d # Len(nodes')
    <3>1. d \in 1 .. Len(nodes)
      BY <1>1, <2>2 DEF Bins
    <3> QED
      BY <1>1, <3>1 DEF Bins
  <2> QED
    BY <2>1, <2>2
<1>10. Level(input', nodes'[Len(nodes')].first, nodes'[Len(nodes')].last, Ending)
  BY <1>1, <1>4
<1> HIDE DEF Continued
<1> QED
  BY <1>1, <1>7, <1>8, <1>9, <1>10, HandSplit

(* The parenthesised node keeps its operator; its text is one bracket wider. *)
LEMMA WidenSplit ==
  ASSUME TypeOK, TypeOK', Inductive, Textual, Textual', Split,
         mode = "loop", mode' = "loop", Frame.role = "paren", Consume, tok = ")",
         NEW w \in Node, nodes' = [nodes EXCEPT ![Out] = w], frames' = Callers,
         w.kind = nodes[Out].kind, w.op = nodes[Out].op, w.kids = nodes[Out].kids,
         w.post = nodes[Out].post, w.wraps = nodes[Out].wraps + 1,
         w.first = Caller.start, w.last = Len(input)
  PROVE  Split'
<1>a. tok # "end" /\ mode # "error" /\ Frame.role # "root" /\ Frame.role \notin Joined
  BY DEF Joined
<1>b. /\ ReadOn(input', input) /\ Len(input) \in Nat \ {0} /\ input'[Len(input)] = tok
  BY <1>a, TokenStays
<1>c. /\ nodes[Out] \in Node /\ Out \in 1 .. Len(nodes)
      /\ nodes[Out].first = Frame.start /\ nodes[Out].last = Len(input) - 1
      /\ nodes[Out].first <= nodes[Out].last
  BY HandText
<1>d. /\ Len(nodes) \in Nat /\ Out = Len(nodes) /\ nodes'[Out] = w /\ Len(nodes') = Len(nodes)
      /\ \A j \in 1 .. Len(nodes) - 1 : j \in 1 .. Len(nodes) /\ nodes'[j] = nodes[j]
  BY <1>c, LenProperties DEF TypeOK, Out
<1>e. Laid(Frame, Caller, nodes, input)
  BY <1>a, TopLaid DEF Textual
<1>f. /\ Frame.start = Caller.start + 1 /\ input[Frame.start - 1] = "("
      /\ Frame.start \in 2 .. Len(input)
  BY <1>a, <1>e DEF Laid, Sign
<1>g. Caller.start \in 1 .. Len(input)
  BY <1>a, StartsAreRead DEF Textual
<1>h. /\ input'[Caller.start] = "(" /\ Caller.start \in Nat \ {0} /\ Caller.start < Len(input)
      /\ Frame.start = Caller.start + 1
  <2>1. Frame.start - 1 = Caller.start
    BY <1>b, <1>f, <1>g
  <2>2. input[Caller.start] = "("
    BY <1>f, <2>1
  <2>3. input'[Caller.start] = input[Caller.start]
    BY <1>b, <1>g DEF ReadOn
  <2>4. Caller.start < Len(input)
    BY <1>b, <1>f, <1>g
  <2> QED
    BY <1>b, <1>f, <1>g, <2>2, <2>3, <2>4
<1>i. Begin(w) = Begin(nodes[Out]) /\ End(w) = End(nodes[Out])
  BY <1>b, <1>c, <1>h, NodeFields DEF Begin, End
<1>1. Level(input', w.first, w.last, Ending)
  <2>1. Level(input, nodes[Out].first, nodes[Out].last, Ending)
    BY <1>c DEF Split, AllLevel
  <2>2. Level(input', nodes[Out].first, nodes[Out].last, Ending)
    <3>1. /\ nodes[Out].first \in Nat \ {0} /\ nodes[Out].last \in Nat
          /\ nodes[Out].first <= nodes[Out].last + 1 /\ nodes[Out].last <= Len(input)
      BY <1>b, <1>c, NodeFields
    <3> QED
      BY <1>b, <2>1, <3>1, LevelSame
  <2>3. Level(input', Caller.start + 1, Len(input) - 1, Closing)
    BY <1>c, <1>h, <2>2, LevelWeaker
  <2>4. input'[Caller.start] \in Opening /\ input'[Len(input)] \in Closing
    BY <1>b, <1>h DEF Opening, Closing
  <2> QED
    BY <1>b, <1>h, <2>3, <2>4, LevelWrapped
<1>2. Shaped(nodes, nodes')
  <2>1. ASSUME NEW i \in 1 .. Len(nodes)
        PROVE  /\ nodes'[i].kind = nodes[i].kind /\ nodes'[i].op = nodes[i].op
               /\ nodes'[i].post = nodes[i].post /\ nodes'[i].kids = nodes[i].kids
               /\ Begin(nodes'[i]) = Begin(nodes[i]) /\ End(nodes'[i]) = End(nodes[i])
    <3>1. CASE i = Out
      BY <1>d, <1>i, <3>1
    <3>2. CASE i # Out
      <4>1. i \in 1 .. Len(nodes) - 1
        BY <1>d, <3>2
      <4> QED
        BY <1>d, <4>1
    <3> QED
      BY <3>1, <3>2
  <2>2. ASSUME NEW i \in 1 .. Len(nodes), nodes[i].kids # << >>
        PROVE  SignAt(nodes'[i], nodes') = SignAt(nodes[i], nodes)
    <3>1. nodes[i].kids[1] \in 1 .. Len(nodes) /\ nodes[i].kids[1] < i
      BY <2>2, SignIsRead
    <3>2. nodes[i].kids[1] \in 1 .. Len(nodes) - 1
      BY <1>d, <3>1
    <3> QED
      BY <1>d, <2>1, <3>2 DEF SignAt
  <2>3. Len(nodes) \in Nat /\ Len(nodes') \in Nat /\ Len(nodes) <= Len(nodes')
    BY <1>d
  <2> QED
    BY <2>1, <2>2, <2>3 DEF Shaped
<1>3. \A j \in 1 .. Kept : nodes'[j] = nodes[j]
  <2>1. Kept = Len(nodes) - 1
    BY DEF Kept
  <2> QED
    BY <1>d, <2>1
<1>4. ASSUME NEW d \in Bins(nodes') PROVE d \in Bins(nodes)
  <2>1. d \in 1 .. Len(nodes) /\ nodes'[d].kind = "BinOp"
    BY <1>d DEF Bins
  <2>2. nodes[d].kind = "BinOp"
    BY <1>2, <2>1 DEF Shaped
  <2> QED
    BY <2>1, <2>2 DEF Bins
<1>5. Proper(Frame) /\ tok \in Ending
  BY DEF Proper, Ending
<1>6. Level(input', nodes'[Len(nodes')].first, nodes'[Len(nodes')].last, Ending)
  BY <1>1, <1>d
<1> QED
  BY <1>a, <1>b, <1>d, <1>2, <1>3, <1>4, <1>5, <1>6, HandSplit

-----------------------------------------------------------------------------
(* Every step of the parser splits the operators where they are weakest. *)

LEMMA InitSplit == Init => Split
<1> SUFFICES ASSUME Init PROVE Split
  OBVIOUS
<1>1. nodes = << >> /\ frames = <<Root>>
  BY DEF Init
<1>2. Len(nodes) = 0 /\ Len(frames) = 1 /\ frames[1] = Root /\ Root.role = "root"
  BY <1>1 DEF Root
<1>3. 1 .. Len(nodes) = {} /\ \A i \in 1 .. Len(frames) : i = 1
  BY <1>2
<1>4. Bins(nodes) = {}
  BY <1>3 DEF Bins
<1>5. AllLevel(nodes, input) /\ AllStopped(nodes, frames, input, mode) /\ AllLeft(nodes, input)
  BY <1>3, <1>4 DEF AllLevel, AllStopped, AllLeft
<1>6. ArgumentsLevel(frames, nodes, input) /\ AllBeside(frames, nodes)
  BY <1>2, <1>3 DEF ArgumentsLevel, AllBeside, Beside, Joined
<1>7. AllWithin(frames, input)
  <2>1. ~(1 < 1)
    OBVIOUS
  <2> QED
    BY <1>3, <2>1 DEF AllWithin
<1>8. AllRight(nodes, input) /\ AllTight(frames, nodes, input)
  BY <1>4 DEF AllRight, AllTight, Tight
<1> QED
  BY <1>5, <1>6, <1>7, <1>8 DEF Split

(* The lookahead may stop an operator once an operand has been read. *)
LEMMA SameSplit ==
  ASSUME Split, UNCHANGED <<input, nodes, frames>>, mode = "operand" \/ mode' # "operand"
  PROVE  Split'
<1>1. /\ AllLevel(nodes, input)' /\ ArgumentsLevel(frames, nodes, input)'
      /\ AllWithin(frames, input)' /\ AllBeside(frames, nodes)' /\ AllLeft(nodes, input)'
      /\ ProperPrefixes' => AllRight(nodes, input)' /\ AllTight(frames, nodes, input)'
  BY DEF Split, AllLevel, ArgumentsLevel, AllWithin, AllBeside, AllLeft, AllRight, AllTight,
         ProperPrefixes
<1>2. ASSUME NEW t, NEW power, Stopped(t, power, nodes, frames, input, mode)
      PROVE  Stopped(t, power, nodes, frames, input, mode')
  BY <1>2 DEF Stopped
<1>3. AllStopped(nodes, frames, input, mode)'
  <2>1. AllStopped(nodes, frames, input, mode)
    BY DEF Split
  <2>2. AllStopped(nodes, frames, input, mode')
    BY <1>2, <2>1 DEF AllStopped
  <2> QED
    BY <2>2
<1> QED
  BY <1>1, <1>3 DEF Split

LEMMA OperandSplit ==
  ASSUME TypeOK, TypeOK', Inductive, Textual, LooseFrames, Split,
         Prefix \/ OpenParen \/ OpenCast
  PROVE  Split'
<1>a. 0 \in Nat /\ << >> \in Seq(Nat) /\ "" \in OperatorKinds \cup {""}
  OBVIOUS
<1>r. {"prefix", "cast", "right", "paren", "index", "arg"} \subseteq Roles
  BY DEF Roles
<1>m. mode # "error" => Frame.min \in Nat /\ Frame.min <= 20
  BY SmallMin
<1>1. CASE Prefix
  <2> DEFINE f == [role |-> "prefix", op |-> tok, left |-> 0, args |-> << >>,
                   min |-> bp_prefix(tok), start |-> Len(input) + 1]
  <2>1. tok \in OperatorKinds /\ tok # "end" /\ bp_prefix(tok) \in Nat
    BY <1>1, TokenKinds, PowersAreNumbers DEF Prefix
  <2>2. f \in Activation
    BY <1>a, <1>r, <2>1, NewFrame
  <2>3. /\ mode = "operand" /\ Consume /\ nodes' = nodes /\ mode' = "operand"
        /\ frames' = Append(frames, f)
    BY <1>1 DEF Prefix, Recurse
  <2>4. f.role = "prefix" /\ f.start = Len(input) + 1 /\ f.op = tok /\ f.min = bp_prefix(tok)
    OBVIOUS
  <2> HIDE DEF f
  <2>5. tok \notin Opening \cup Closing
    BY <2>1, PlainToken
  <2>6. ASSUME Proper(f) PROVE Narrower(Frame.min, f.min)
    <3>1. f.min = 16
      BY <2>4, <2>6 DEF Proper, bp_prefix
    <3>2. Frame.min \in Nat /\ Frame.min <= 20 /\ 16 \in Nat /\ 16 >= 15
      BY <1>m, <2>3
    <3>3. Narrower(Frame.min, 16)
      BY <3>2, NarrowerThanUnary
    <3> QED
      BY <3>1, <3>3
  <2>7. f.role \notin Joined /\ f.role # "arg"
    BY <2>4 DEF Joined
  <2> QED
    BY <2>1, <2>2, <2>3, <2>4, <2>5, <2>6, <2>7, PushSplit
<1>2. CASE OpenParen
  <2> DEFINE f == [role |-> "paren", op |-> "", left |-> 0, args |-> << >>,
                   min |-> 0, start |-> Len(input) + 1]
  <2>1. f \in Activation
    BY <1>a, <1>r, NewFrame
  <2>2. /\ mode = "operand" /\ Consume /\ nodes' = nodes /\ mode' = "operand"
        /\ frames' = Append(frames, f) /\ tok = "("
    BY <1>2 DEF OpenParen, Recurse
  <2>3. f.role = "paren" /\ f.start = Len(input) + 1
    OBVIOUS
  <2> HIDE DEF f
  <2>4. tok \in Opening /\ tok # "end" /\ f.role \notin Joined /\ f.role # "arg"
    BY <2>2, <2>3 DEF Opening, Joined
  <2> QED
    BY <2>1, <2>2, <2>3, <2>4, PushSplit
<1>3. CASE OpenCast
  <2> DEFINE f == [role |-> "cast", op |-> "", left |-> 0, args |-> << >>,
                   min |-> CAST_BP, start |-> Len(input) + 1]
  <2>1. CAST_BP \in Nat /\ CAST_BP >= 15
    BY DEF CAST_BP
  <2>2. f \in Activation
    BY <1>a, <1>r, <2>1, NewFrame
  <2>3. /\ mode = "operand" /\ Consume /\ nodes' = nodes /\ mode' = "operand"
        /\ frames' = Append(frames, f) /\ tok = "@"
    BY <1>3 DEF OpenCast, Recurse
  <2>4. f.role = "cast" /\ f.start = Len(input) + 1 /\ f.min = CAST_BP
    OBVIOUS
  <2> HIDE DEF f
  <2>5. tok \notin Opening \cup Closing /\ tok # "end"
    BY <2>3, PlainToken
  <2>6. Narrower(Frame.min, f.min)
    <3>1. Narrower(Frame.min, CAST_BP)
      BY <1>m, <2>1, <2>3, NarrowerThanUnary
    <3> QED
      BY <2>4, <3>1
  <2>7. f.role \notin Joined /\ f.role # "arg"
    BY <2>4 DEF Joined
  <2> QED
    BY <2>2, <2>3, <2>4, <2>5, <2>6, <2>7, PushSplit
<1> QED
  BY <1>1, <1>2, <1>3

LEMMA ContinueSplit ==
  ASSUME TypeOK, TypeOK', Inductive, Textual, LooseFrames, Split,
         OpenCall \/ OpenIndex \/ Infix
  PROVE  Split'
<1>a. 0 \in Nat /\ << >> \in Seq(Nat) /\ "" \in OperatorKinds \cup {""} /\ Out \in Nat
  BY LenProperties DEF TypeOK, Out
<1>r. {"prefix", "cast", "right", "paren", "index", "arg"} \subseteq Roles
  BY DEF Roles
<1>1. CASE OpenCall
  <2> DEFINE f == [role |-> "arg", op |-> "", left |-> Out, args |-> << >>,
                   min |-> 0, start |-> Len(input) + 1]
  <2>1. f \in Activation
    BY <1>a, <1>r, NewFrame
  <2>2. /\ mode = "loop" /\ Consume /\ nodes' = nodes /\ mode' = "operand"
        /\ frames' = Append(frames, f) /\ tok = "("
    BY <1>1 DEF OpenCall, Recurse, Goes
  <2>3. f.role = "arg" /\ f.start = Len(input) + 1 /\ f.left = Out
    OBVIOUS
  <2> HIDE DEF f
  <2>4. tok \in Opening /\ tok # "end" /\ f.role \in Joined
    BY <2>2, <2>3 DEF Opening, Joined
  <2>5. FramePower(f) = Power(tok)
    BY <2>2, <2>3 DEF FramePower, Power
  <2> QED
    BY <2>1, <2>2, <2>3, <2>4, <2>5, PushSplit
<1>2. CASE OpenIndex
  <2> DEFINE f == [role |-> "index", op |-> "", left |-> Out, args |-> << >>,
                   min |-> 0, start |-> Len(input) + 1]
  <2>1. f \in Activation
    BY <1>a, <1>r, NewFrame
  <2>2. /\ mode = "loop" /\ Consume /\ nodes' = nodes /\ mode' = "operand"
        /\ frames' = Append(frames, f) /\ tok = "["
    BY <1>2 DEF OpenIndex, Recurse, Goes
  <2>3. f.role = "index" /\ f.start = Len(input) + 1 /\ f.left = Out
    OBVIOUS
  <2> HIDE DEF f
  <2>4. tok \in Opening /\ tok # "end" /\ f.role \in Joined /\ f.role # "arg"
    BY <2>2, <2>3 DEF Opening, Joined
  <2>5. FramePower(f) = Power(tok)
    BY <2>2, <2>3 DEF FramePower, Power
  <2> QED
    BY <2>1, <2>2, <2>3, <2>4, <2>5, PushSplit
<1>3. CASE Infix
  <2> DEFINE f == [role |-> "right", op |-> tok, left |-> Out, args |-> << >>,
                   min |-> bp_infix_right(tok), start |-> Len(input) + 1]
  <2>1. /\ tok \in OperatorKinds /\ tok # "end" /\ bp_infix_right(tok) \in Nat
        /\ bp_postfix(tok) = 0
    BY <1>3, TokenKinds, PowersAreNumbers DEF Infix
  <2>2. f \in Activation
    BY <1>a, <1>r, <2>1, NewFrame
  <2>3. /\ mode = "loop" /\ Consume /\ nodes' = nodes /\ mode' = "operand"
        /\ frames' = Append(frames, f) /\ Binds(Power(tok), Frame.min)
    BY <1>3 DEF Infix, Recurse, Goes
  <2>4. /\ f.role = "right" /\ f.start = Len(input) + 1 /\ f.left = Out
        /\ f.op = tok /\ f.min = bp_infix_right(tok)
    OBVIOUS
  <2> HIDE DEF f
  <2>5. tok \notin Opening \cup Closing /\ f.role \in Joined /\ f.role # "arg"
    BY <2>1, <2>4, PlainToken DEF Joined
  <2>6. Power(tok) = bp_infix_left(tok) /\ FramePower(f) = Power(tok)
    BY <2>1, <2>4, PowerOf DEF FramePower
  <2>7. Narrower(Frame.min, f.min)
    <3>1. Frame.min \in Nat /\ bp_infix_left(tok) >= Frame.min
      BY <2>3, <2>6, FrameFields DEF Binds
    <3>2. Narrower(Frame.min, bp_infix_right(tok))
      BY <3>1, NarrowerThanInfix
    <3> QED
      BY <2>4, <3>2
  <2> QED
    BY <2>1, <2>2, <2>3, <2>4, <2>5, <2>6, <2>7, PushSplit
<1> QED
  BY <1>1, <1>2, <1>3

(* An operand that is read at once, and a++. *)
LEMMA ReadSplit ==
  ASSUME TypeOK, TypeOK', Inductive, Inductive', Textual, Textual', Split, Atom \/ Postfix
  PROVE  Split'
<1>1. CASE Atom
  <2> DEFINE kind == IF tok = "name" THEN "Var" ELSE "Num"
             n == New(kind, "", << >>, Frame.start, Len(input))
  <2>1. kind \in {"Var", "Num"} /\ kind \in Kinds /\ << >> \in Seq(Nat)
        /\ "" \in OperatorKinds \cup {""}
    BY DEF Kinds
  <2>2. n \in Node
    BY <2>1, NewNode, FrameFields, Lookahead
  <2>3. /\ mode = "operand" /\ Consume /\ tok # "end"
        /\ nodes' = Append(nodes, n) /\ mode' = "loop" /\ frames' = frames
    BY <1>1 DEF Atom
  <2>4. n.kind = kind /\ n.wraps = 0
    BY DEF New
  <2> HIDE DEF kind, n
  <2>5. n.kind # "Call" /\ n.kind # "BinOp"
    BY <2>1, <2>4
  <2>6. ReadOn(input', input)
    BY <2>3, TokenStays
  <2> QED
    BY <2>2, <2>3, <2>4, <2>5, <2>6, MakeSplit
<1>2. CASE Postfix
  <2> DEFINE n == [New("PreOp", tok, <<Out>>, Frame.start, Len(input)) EXCEPT !.post = TRUE]
  <2>1. /\ mode = "loop" /\ bp_postfix(tok) # 0 /\ Consume /\ nodes' = Append(nodes, n)
        /\ frames' = frames /\ mode' = "loop"
    BY <1>2 DEF Postfix, Goes
  <2>2. tok # "end" /\ tok \in OperatorKinds
    BY <2>1 DEF bp_postfix, OperatorKinds
  <2>3. n \in Node
    BY <2>1, <2>2, NewNode, FrameFields, Lookahead, InHand DEF Kinds
  <2>4. n.kind = "PreOp" /\ n.op = tok /\ n.kids = <<Out>> /\ n.wraps = 0 /\ n.post
    BY DEF New
  <2> HIDE DEF n
  <2>5. ReadOn(input', input) /\ Len(input) \in Nat \ {0}
    BY <2>1, <2>2, TokenStays
  <2>6. nodes[Out].last = Len(input) - 1 /\ Out \in 1 .. Len(nodes)
    BY <2>1, HandText
  <2>7. n.kids[1] = Out
    BY <2>4
  <2>8. SignAt(n, nodes) = Len(input)
    BY <2>5, <2>6, <2>7 DEF SignAt
  <2>9. LeftPower(n) = Power(tok) /\ LeftPower(n) # 0
    BY <2>1, <2>2, <2>4, KindBinds, PowerOf
  <2>10. n.kind # "Call" /\ n.kind # "BinOp"
    BY <2>4
  <2> QED
    BY <2>1, <2>3, <2>4, <2>5, <2>6, <2>7, <2>8, <2>9, <2>10, MakeSplit
<1> QED
  BY <1>1, <1>2

LEMMA UnarySplit ==
  ASSUME TypeOK, TypeOK', Inductive, Inductive', Textual, Textual', Split,
         FinishPrefix \/ FinishCast
  PROVE  Split'
<1> DEFINE role == IF FinishPrefix THEN "prefix" ELSE "cast"
           kind == IF FinishPrefix THEN "PreOp" ELSE "TypeCast"
           kids == <<Out>>
<1>1. Finish(role, kind, kids) /\ role \in {"prefix", "cast"}
  BY DEF FinishPrefix, FinishCast
<1>2. kids \in Seq(Nat) /\ kind \in Kinds
  <2>1. Out \in Nat
    BY LenProperties DEF TypeOK, Out
  <2> QED
    BY <2>1, Tuples DEF Kinds
<1>k. kind \in {"PreOp", "TypeCast"} /\ (role = "prefix" => kind = "PreOp")
  OBVIOUS
<1> HIDE DEF role, kind, kids
<1>3. /\ mode = "loop" /\ mode' = "loop" /\ Frame.role = role /\ role # "root"
      /\ frames' = Callers /\ input' = input /\ ReadOn(input', input)
      /\ \E n \in Node :
            /\ nodes' = Append(nodes, n)
            /\ n.kind = kind /\ n.op = Frame.op /\ n.kids = kids /\ n.wraps = 0 /\ ~n.post
            /\ n.first = Caller.start /\ n.last = Len(input) - 1
  <2>1. role \in {"prefix", "cast", "right"}
    BY <1>1
  <2> QED
    BY ONLY TypeOK, <1>1, <1>2, <2>1, FinishMakes
<1>4. PICK n \in Node :
            /\ nodes' = Append(nodes, n)
            /\ n.kind = kind /\ n.op = Frame.op /\ n.kids = kids /\ n.wraps = 0 /\ ~n.post
            /\ n.first = Caller.start /\ n.last = Len(input) - 1
  BY <1>3
<1>5. n.kind # "Call" /\ n.kind # "BinOp"
  BY <1>4, <1>k
<1>6. Frame.role # "root" /\ Frame.role \notin Joined
  BY <1>1, <1>3 DEF Joined
<1>7. ASSUME ProperPrefixes' PROVE Proper(Frame)
  <2>1. Len(nodes') \in DOMAIN nodes' /\ nodes'[Len(nodes')] = n
    <3>1. /\ Len(nodes) \in Nat /\ Len(nodes') = Len(nodes) + 1 /\ nodes'[Len(nodes')] = n
      BY <1>4, AppendShapes
    <3>2. DOMAIN nodes' = 1 .. Len(nodes')
      BY LenProperties DEF TypeOK
    <3> QED
      BY <3>1, <3>2
  <2>2. n.kind = "PreOp" => n.op \in PrefixKinds
    BY <1>4, <1>7, <2>1 DEF ProperPrefixes
  <2> QED
    BY <1>3, <1>4, <1>k, <2>2 DEF Proper
<1> QED
  BY <1>3, <1>4, <1>5, <1>6, <1>7, MakeSplit

LEMMA InfixSplit ==
  ASSUME TypeOK, TypeOK', Inductive, Inductive', Textual, Textual', Split, FinishInfix
  PROVE  Split'
<1> DEFINE role == "right"
           kind == "BinOp"
           kids == <<Frame.left, Out>>
<1>1. Finish(role, kind, kids) /\ Stops
  BY DEF FinishInfix, Finish
<1>2. kids \in Seq(Nat) /\ kind \in Kinds /\ role \in {"prefix", "cast", "right"}
  <2>1. Out \in Nat /\ Frame.left \in Nat
    BY LenProperties, FrameFields DEF TypeOK, Out
  <2> QED
    BY <2>1, Tuples DEF Kinds
<1>e. role = "right" /\ kind = "BinOp" /\ kids = <<Frame.left, Out>>
  OBVIOUS
<1> HIDE DEF role, kind, kids
<1>3. /\ mode = "loop" /\ mode' = "loop" /\ Frame.role = role /\ role # "root"
      /\ frames' = Callers /\ input' = input /\ ReadOn(input', input)
      /\ \E n \in Node :
            /\ nodes' = Append(nodes, n)
            /\ n.kind = kind /\ n.op = Frame.op /\ n.kids = kids /\ n.wraps = 0 /\ ~n.post
            /\ n.first = Caller.start /\ n.last = Len(input) - 1
  BY ONLY TypeOK, <1>1, <1>2, FinishMakes
<1>4. PICK n \in Node :
            /\ nodes' = Append(nodes, n)
            /\ n.kind = kind /\ n.op = Frame.op /\ n.kids = kids /\ n.wraps = 0 /\ ~n.post
            /\ n.first = Caller.start /\ n.last = Len(input) - 1
  BY <1>3
<1>5. InfixMade(n)
  BY <1>1, <1>3, <1>4, <1>e DEF InfixMade
<1>6. Frame.left \in 1 .. Len(nodes) /\ n.kids[1] = Frame.left
  BY <1>3, <1>4, <1>e, HandAndKept
<1>7. LeftPower(n) = FramePower(Frame)
  BY <1>3, <1>4, <1>e, KindBinds DEF FramePower
<1>8. FramePower(Frame) # 0
  <2>1. FrameFits(Frame, Caller, nodes)
    BY <1>3, <1>e, TopFits DEF Inductive
  <2> QED
    BY <1>3, <1>e, <2>1 DEF FrameFits
<1>9. Proper(Frame) /\ n.kind # "Call"
  BY <1>3, <1>4, <1>e DEF Proper
<1> QED
  BY <1>3, <1>4, <1>5, <1>6, <1>7, <1>8, <1>9, MakeSplit

LEMMA IndexSplit ==
  ASSUME TypeOK, TypeOK', Inductive, Inductive', Textual, Textual', Split, CloseIndex
  PROVE  Split'
<1> DEFINE n == New("SubScript", "", <<Frame.left, Out>>, Caller.start, Len(input))
<1>1. /\ mode = "loop" /\ Frame.role = "index" /\ tok = "]" /\ Consume
      /\ nodes' = Append(nodes, n) /\ frames' = Callers /\ mode' = "loop"
  BY DEF CloseIndex, Stops
<1>2. n \in Node
  <2>1. /\ <<Frame.left, Out>> \in Seq(Nat) /\ Frame.role # "root"
        /\ "" \in OperatorKinds \cup {""} /\ "SubScript" \in Kinds
    BY <1>1, FrameFields, InHand, Tuples DEF Kinds
  <2> QED
    BY <2>1, NewNode, FrameFields, Lookahead
<1>3. n.kind = "SubScript" /\ n.kids = <<Frame.left, Out>> /\ n.wraps = 0
  BY DEF New
<1> HIDE DEF n
<1>4. ReadOn(input', input) /\ tok \in Ending
  BY <1>1, TokenStays DEF Ending
<1>5. Frame.left \in 1 .. Len(nodes) /\ n.kids[1] = Frame.left
  BY <1>1, <1>3, HandAndKept
<1>6. LeftPower(n) = FramePower(Frame) /\ LeftPower(n) # 0
  BY <1>1, <1>3, KindBinds DEF FramePower, SUBSCRIPT_BP
<1>7. Proper(Frame) /\ n.kind # "Call" /\ n.kind # "BinOp" /\ Frame.role # "root"
  BY <1>1, <1>3 DEF Proper
<1> QED
  BY <1>1, <1>2, <1>3, <1>4, <1>5, <1>6, <1>7, MakeSplit

(* A call is closed, with or without arguments. *)
LEMMA CallMadeSplit ==
  ASSUME TypeOK, TypeOK', Inductive, Inductive', Textual, Textual', Split,
         mode \in {"operand", "loop"}, mode' = "loop", Frame.role = "arg", tok = ")", Consume,
         frames' = Callers, NEW n \in Node, nodes' = Append(nodes, n),
         n.kind = "Call", n.wraps = 0, n.kids[1] = Frame.left, n.last = Len(input)
  PROVE  Split'
<1>1. /\ ReadOn(input', input) /\ Len(input) \in Nat \ {0} /\ input'[Len(input)] = tok
  <2>1. tok # "end"
    OBVIOUS
  <2> QED
    BY <2>1, TokenStays
<1>2. \A j \in 1 .. Len(nodes) : nodes'[j] = nodes[j]
  BY AppendShapes
<1>3. Frame.left \in 1 .. Len(nodes)
  <2>1. /\ mode # "error" /\ Frame.role \in Joined
        /\ Len(frames) \in 1 .. Len(frames) /\ frames[Len(frames)] = Frame
    BY TopFrames DEF Frame, Joined
  <2> QED
    BY <2>1, StackFacts
<1> DEFINE p == OpensAt(Frame, nodes)
<1>p. p = nodes[Frame.left].last + 1 /\ p = OpensAt(Frame, nodes)
  BY DEF OpensAt
<1> HIDE DEF p
<1>4. /\ p \in Nat \ {0} /\ p < Frame.start /\ Frame.start <= Len(input)
      /\ Frame.start \in Nat
      /\ input'[p] = "(" /\ Level(input', p + 1, Len(input) - 1, Closing)
  BY <1>1, <1>2, <1>p, OpenArguments
<1>5. p < Len(input) /\ nodes[Frame.left].last < Len(input)
  <2>1. nodes[Frame.left].last \in Nat
    BY <1>3, SignIsRead
  <2>2. p < Len(input)
    BY <1>1, <1>4
  <2> QED
    BY <1>1, <1>p, <2>1, <2>2
<1>6. Level(input', p, Len(input), Ending)
  <2>1. input'[p] \in Opening /\ input'[Len(input)] \in Closing
    BY <1>1, <1>4 DEF Opening, Closing
  <2>2. p \in Nat \ {0} /\ Len(input) \in Nat
    BY <1>1, <1>4
  <2> QED
    BY <1>4, <1>5, <2>1, <2>2, LevelWrapped
<1>7. /\ nodes[Frame.left].last < n.last
      /\ Level(input', nodes[Frame.left].last + 1, n.last, Ending)
  BY <1>p, <1>5, <1>6
<1>8. LeftPower(n) = FramePower(Frame) /\ LeftPower(n) # 0
  BY KindBinds DEF FramePower, CALL_BP
<1>9. Proper(Frame) /\ n.kind # "BinOp" /\ Frame.role # "root" /\ tok \in Ending
  BY DEF Proper, Ending
<1> QED
  BY <1>1, <1>3, <1>7, <1>8, <1>9, MakeSplit

LEMMA CallsSplit ==
  ASSUME TypeOK, TypeOK', Inductive, Inductive', Textual, Textual', Split, EmptyCall \/ CloseCall
  PROVE  Split'
<1>a. "" \in OperatorKinds \cup {""} /\ "Call" \in Kinds
  BY DEF Kinds
<1>1. CASE EmptyCall
  <2> DEFINE n == New("Call", "", <<Frame.left>>, Caller.start, Len(input))
  <2>1. /\ mode = "operand" /\ tok = ")" /\ Frame.role = "arg"
        /\ Consume /\ nodes' = Append(nodes, n) /\ mode' = "loop" /\ frames' = Callers
    BY <1>1 DEF EmptyCall
  <2>2. n \in Node
    <3>1. Frame.left \in Nat /\ Frame.role # "root"
      BY <2>1, FrameFields
    <3>2. <<Frame.left>> \in Seq(Nat)
      BY <3>1, Tuples
    <3> QED
      BY <1>a, <3>1, <3>2, NewNode, FrameFields, Lookahead
  <2>3. n.kind = "Call" /\ n.kids = <<Frame.left>> /\ n.wraps = 0 /\ n.last = Len(input)
    BY DEF New
  <2> HIDE DEF n
  <2>4. n.kids[1] = Frame.left
    BY <2>3
  <2> QED
    BY <2>1, <2>2, <2>3, <2>4, CallMadeSplit
<1>2. CASE CloseCall
  <2> DEFINE kids == <<Frame.left>> \o Append(Frame.args, Out)
             n == New("Call", "", kids, Caller.start, Len(input))
  <2>1. /\ mode = "loop" /\ Frame.role = "arg" /\ tok = ")" /\ Consume
        /\ nodes' = Append(nodes, n) /\ frames' = Callers /\ mode' = "loop"
    BY <1>2 DEF CloseCall, Stops
  <2>2. Frame.args \in Seq(Nat) /\ Frame.left \in Nat /\ Out \in Nat
    BY <2>1, FrameFields, InHand
  <2>3. kids \in Seq(Nat) /\ kids[1] = Frame.left
    BY <2>2, AppendProperties
  <2> HIDE DEF kids
  <2>4. n \in Node
    <3>1. Frame.role # "root"
      BY <2>1
    <3> QED
      BY <1>a, <2>3, <3>1, NewNode, FrameFields, Lookahead
  <2>5. n.kind = "Call" /\ n.kids = kids /\ n.wraps = 0 /\ n.last = Len(input)
    BY DEF New
  <2> HIDE DEF n
  <2>6. n.kids[1] = Frame.left
    BY <2>3, <2>5
  <2> QED
    BY <2>1, <2>4, <2>5, <2>6, CallMadeSplit
<1> QED
  BY <1>1, <1>2

LEMMA ParenSplit ==
  ASSUME TypeOK, TypeOK', Inductive, Textual, Textual', Split, CloseParen
  PROVE  Split'
<1> DEFINE w == [nodes[Out] EXCEPT !.first = Caller.start, !.last = Len(input),
                                   !.wraps = @ + 1]
<1>1. /\ mode = "loop" /\ mode' = "loop" /\ Frame.role = "paren" /\ tok = ")" /\ Consume
      /\ frames' = Callers /\ nodes' = [nodes EXCEPT ![Out] = w]
  BY DEF CloseParen, Stops
<1>2. nodes[Out] \in Node /\ Caller.start \in Index /\ Len(input) \in Nat
  <2>1. Frame.role # "root"
    BY <1>1
  <2> QED
    BY <1>1, <2>1, InHand, FrameFields, Lookahead
<1>3. w \in Node
  BY <1>2, WidenedNode
<1>4. /\ w.kind = nodes[Out].kind /\ w.op = nodes[Out].op /\ w.kids = nodes[Out].kids
      /\ w.post = nodes[Out].post /\ w.wraps = nodes[Out].wraps + 1
      /\ w.first = Caller.start /\ w.last = Len(input)
  BY <1>2 DEF Node
<1> HIDE DEF w
<1> QED
  BY <1>1, <1>3, <1>4, WidenSplit

LEMMA CommaSplit ==
  ASSUME TypeOK, TypeOK', Inductive, Textual, LooseFrames, Split, NextArg
  PROVE  Split'
<1> DEFINE f == [role |-> "arg", op |-> "", left |-> Frame.left,
                 args |-> Append(Frame.args, Out), min |-> 0, start |-> Len(input) + 1]
<1>1. /\ mode = "loop" /\ Frame.role = "arg" /\ Consume
      /\ nodes' = nodes /\ mode' = "operand" /\ frames' = Append(Callers, f)
  BY DEF NextArg, Recurse, Stops
<1>t. tok # "end" /\ tok \in Ending /\ tok \notin Opening \cup Closing
  BY DEF NextArg, Opening, Closing, Ending
<1>2. /\ Append(Frame.args, Out) \in Seq(Nat) /\ Frame.left \in Nat /\ 0 \in Nat
      /\ "" \in OperatorKinds \cup {""} /\ "arg" \in Roles
  BY <1>1, FrameFields, InHand, AppendProperties DEF Roles
<1>3. f \in Activation
  BY <1>2, NewFrame
<1>4. f.role = "arg" /\ f.start = Len(input) + 1 /\ f.left = Frame.left /\ f.min = 0
  OBVIOUS
<1> HIDE DEF f
<1>5. Frame.min = 0
  <2>1. Len(frames) \in DOMAIN frames
    BY TopFrames, LenProperties DEF TypeOK
  <2>2. Loose(Frame)
    BY <2>1 DEF LooseFrames, Frame
  <2> QED
    BY <1>1, <2>2 DEF Loose, Bracket
<1> QED
  BY <1>1, <1>t, <1>3, <1>4, <1>5, NextArgSplit

LEMMA StepSplit ==
  ASSUME TypeOK, TypeOK', Inductive, Inductive', Textual, Textual', LooseFrames, Split, Next
  PROVE  Split'
<1>1. CASE NoOperand \/ NoCloser \/ Accept \/ Done
  <2>1. UNCHANGED <<input, nodes, frames>>
    BY <1>1 DEF NoOperand, NoCloser, Accept, Done, vars
  <2>2. mode = "operand" \/ mode' # "operand"
    BY <1>1 DEF NoOperand, NoCloser, Accept, Done, vars
  <2> QED
    BY <2>1, <2>2, SameSplit
<1> QED
  BY <1>1, OperandSplit, ContinueSplit, ReadSplit, UnarySplit, InfixSplit, IndexSplit,
     CallsSplit, ParenSplit, CommaSplit DEF Next

LEMMA SplitIsWeakest ==
  ASSUME TypeOK, Inductive, Textual, Split
  PROVE  SplitsAtWeakest
<1> SUFFICES ASSUME ProperPrefixes, NEW n \in BinOps, NEW d \in BinOps,
                    OpAt(d) \in Lo(n) .. Hi(n), SideBySide(n, d)
             PROVE  /\ OpAt(d) < OpAt(n) =>
                          \E c \in Continuations :
                              /\ OpAt(c) \in OpAt(d) + 1 .. OpAt(n) /\ SideBySide(c, d)
                              /\ LeftPower(nodes[c]) < bp_infix_right(nodes[d].op)
                    /\ OpAt(d) > OpAt(n) =>
                          bp_infix_left(nodes[d].op) >= bp_infix_right(nodes[n].op)
  BY DEF SplitsAtWeakest
<1>1. DOMAIN nodes = 1 .. Len(nodes)
  BY LenProperties DEF TypeOK
<1>2. n \in Bins(nodes) /\ d \in Bins(nodes)
  BY <1>1 DEF BinOps, Bins
<1>3. \A i : OpAt(i) = SignAt(nodes[i], nodes)
  BY DEF OpAt, SignAt
<1>4. Lo(n) = Begin(nodes[n]) /\ Hi(n) = End(nodes[n])
  BY DEF Lo, Hi, Begin, End
<1>5. \A i, j : SideBySide(i, j) <=> Same(nodes[i], nodes[j], nodes, input)
  BY <1>3, BracketsIsDepth DEF SideBySide, Same
<1>6. OpAt(n) \in Nat /\ OpAt(d) \in Nat /\ Lo(n) \in Nat /\ Hi(n) \in Nat
  BY <1>2, <1>3, <1>4, BinOpText
<1>7. LeftOf(nodes[n], nodes[d], nodes, input) /\ RightOf(nodes[n], nodes[d], nodes, input)
  BY <1>2 DEF Split, AllLeft, AllRight
<1>8. ASSUME OpAt(d) < OpAt(n)
      PROVE  \E c \in Continuations :
                 /\ OpAt(c) \in OpAt(d) + 1 .. OpAt(n) /\ SideBySide(c, d)
                 /\ LeftPower(nodes[c]) < bp_infix_right(nodes[d].op)
  <2>1. OpAt(d) \in Lo(n) .. OpAt(n) - 1
    BY <1>6, <1>8
  <2>2. PICK c \in 1 .. Len(nodes) :
            /\ LeftPower(nodes[c]) # 0 /\ LeftPower(nodes[c]) < bp_infix_right(nodes[d].op)
            /\ SignAt(nodes[c], nodes) \in SignAt(nodes[d], nodes) + 1 .. SignAt(nodes[n], nodes)
            /\ Same(nodes[d], nodes[c], nodes, input)
    BY <1>3, <1>4, <1>5, <1>7, <2>1 DEF LeftOf
  <2>3. c \in Continuations /\ SideBySide(c, d)
    BY <1>1, <1>5, <2>2 DEF Continuations, Same
  <2> QED
    BY <1>3, <2>2, <2>3
<1>9. ASSUME OpAt(d) > OpAt(n)
      PROVE  bp_infix_left(nodes[d].op) >= bp_infix_right(nodes[n].op)
  <2>1. OpAt(d) \in OpAt(n) + 1 .. Hi(n)
    BY <1>6, <1>9
  <2> QED
    BY <1>3, <1>4, <1>5, <1>7, <2>1 DEF RightOf
<1> QED
  BY <1>8, <1>9

(***************************************************************************)
(* The binding powers decide the tree over any distance: whatever is read, *)
(* in the text of a BinOp and at its depth of brackets no infix operator   *)
(* on its right is looser than it lets in, and every one on its left was   *)
(* ended by one too loose for it; stray prefix operators are left out.     *)
(***************************************************************************)
THEOREM WeakestSplits == Spec => []SplitsAtWeakest
<1>1. Spec => []Inductive
  <2>1. Inductive /\ TypeOK /\ TypeOK' /\ [Next]_vars => Inductive'
    <3>1. Inductive /\ UNCHANGED vars => Inductive'
      BY SameFits DEF vars
    <3> QED
      BY <3>1, StepFits
  <2> QED
    BY <2>1, InitFits, TypeCorrect, PTL DEF Spec
<1>2. Spec => []Textual
  <2>1. TypeOK /\ TypeOK' /\ Inductive /\ Textual /\ [Next]_vars => Textual'
    <3>1. Textual /\ UNCHANGED vars => Textual'
      BY EndText DEF vars
    <3> QED
      BY <3>1, StepText
  <2> QED
    BY <1>1, <2>1, InitText, TypeCorrect, PTL DEF Spec
<1>3. Spec => []LooseFrames
  <2>1. Init => LooseFrames
    <3>1. Root.min = 0
      BY DEF Root
    <3>2. Init => DOMAIN frames = {1} /\ frames[1] = Root
      BY DEF Init
    <3> QED
      BY <3>1, <3>2 DEF LooseFrames, Loose
  <2>2. TypeOK /\ LooseFrames /\ [Next]_vars => LooseFrames'
    <3>1. LooseFrames /\ UNCHANGED vars => LooseFrames'
      BY DEF vars, LooseFrames, Loose
    <3> QED
      BY <3>1, StepLoose
  <2> QED
    BY <2>1, <2>2, TypeCorrect, PTL DEF Spec
<1>4. TypeOK /\ TypeOK' /\ Inductive /\ Inductive' /\ Textual /\ Textual' /\ LooseFrames
      /\ Split /\ [Next]_vars => Split'
  <2>1. Split /\ UNCHANGED vars => Split'
    BY SameSplit DEF vars
  <2> QED
    BY <2>1, StepSplit
<1>5. Spec => []Split
  BY <1>1, <1>2, <1>3, <1>4, InitSplit, TypeCorrect, PTL DEF Spec
<1> QED
  BY <1>1, <1>2, <1>5, SplitIsWeakest, TypeCorrect, PTL

=============================================================================
