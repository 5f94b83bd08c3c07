--------------------------- MODULE StatementsProof ---------------------------
(***************************************************************************)
(* Statements.tla, for every set of pieces and inputs of every length:     *)
(* types, and which text every node has, from an invariant of the nodes    *)
(* made and of the statements that are still open.                         *)
(***************************************************************************)
EXTENDS Integers, Statements, SequenceTheorems, FiniteSetTheorems, TLAPS

-----------------------------------------------------------------------------
(* Facts about sequences and numbers. *)

(* Without its last element: pop_back. *)
LEMMA PopFacts ==
    ASSUME NEW S, NEW s \in Seq(S), s # << >>
    PROVE  /\ Len(s) \in Nat \ {0}
           /\ SubSeq(s, 1, Len(s) - 1) \in Seq(S)
           /\ Len(SubSeq(s, 1, Len(s) - 1)) = Len(s) - 1
           /\ \A i \in 1 .. Len(s) - 1 : SubSeq(s, 1, Len(s) - 1)[i] = s[i]
<1>1. Len(s) \in Nat \ {0}
  BY EmptySeq
<1> DEFINE n == Len(s) - 1
<1>2. n \in Nat /\ 1 \in Int
  BY <1>1
<1>3. \A i \in 1 .. n : s[i] \in S
  BY <1>1, ElementOfSeq
<1> HIDE DEF n
<1>4. /\ SubSeq(s, 1, n) \in Seq(S)
      /\ Len(SubSeq(s, 1, n)) = IF 1 <= n THEN n - 1 + 1 ELSE 0
      /\ \A i \in 1 .. n - 1 + 1 : SubSeq(s, 1, n)[i] = s[1 + i - 1]
  BY <1>2, <1>3, SubSeqProperties
<1>5. /\ Len(SubSeq(s, 1, n)) = n
      /\ \A i \in 1 .. n : SubSeq(s, 1, n)[i] = s[i]
  BY <1>2, <1>4
<1> QED
  BY <1>1, <1>4, <1>5 DEF n

(* With two more: push_back twice. *)
LEMMA PushTwoFacts ==
    ASSUME NEW S, NEW s \in Seq(S), NEW x \in S, NEW y \in S
    PROVE  /\ s \o <<x, y>> \in Seq(S)
           /\ Len(s \o <<x, y>>) = Len(s) + 2
           /\ \A i \in 1 .. Len(s) : (s \o <<x, y>>)[i] = s[i]
           /\ (s \o <<x, y>>)[Len(s) + 1] = x
           /\ (s \o <<x, y>>)[Len(s) + 2] = y
OBVIOUS

(***************************************************************************)
(* Induction, for a set: numbers without the set would, with the numbers   *)
(* up to one of them, be injected into themselves by n - 1, which a finite *)
(* set does not survive unless it is empty.                                *)
(***************************************************************************)
LEMMA SetInduction ==
    ASSUME NEW S, 0 \in S, \A n \in Nat : n \in S => n + 1 \in S
    PROVE  Nat \subseteq S
<1>1. SUFFICES ASSUME NEW k \in Nat, k \notin S PROVE FALSE
  OBVIOUS
<1> DEFINE U == {n \in 0 .. k : n \notin S}
           f == [n \in U |-> n - 1]
<1>2. IsFiniteSet(U)
  <2>1. IsFiniteSet(0 .. k)
    BY FS_Interval
  <2> QED
    BY <2>1, FS_Subset
<1>3. f \in Injection(U, U)
  <2>1. \A n \in U : n - 1 \in U
    <3> SUFFICES ASSUME NEW n \in U PROVE n - 1 \in U
      OBVIOUS
    <3>1. n # 0
      OBVIOUS
    <3>2. n - 1 \in Nat
      BY <3>1
    <3>3. n - 1 \in S => (n - 1) + 1 \in S
      BY <3>2
    <3> QED
      BY <3>1, <3>2, <3>3
  <2> QED
    BY <2>1 DEF Injection, IsInjective
<1>4. f \in Surjection(U, U)
  BY <1>2, <1>3, FS_Injection
<1>5. PICK n \in U : f[n] = k
  <2>1. k \in U
    BY <1>1
  <2>2. \A t \in U : \E n \in U : f[n] = t
    BY <1>4 DEF Surjection
  <2> QED
    BY <2>1, <2>2
<1> QED
  BY <1>5

-----------------------------------------------------------------------------
(* Types. *)

InExp == at \in {"operand", "args", "loop"}

InputFits ==
    /\ Len(input) > MaxPieces => tok \notin Glued
    /\ Len(input) > MaxPieces + 1 => tok = "end"

InputOK ==
    /\ input \in Seq(Alphabet \cup {"end"}) /\ Len(input) \in 1 .. MaxPieces + 2
    /\ InputFits

FramesOK ==
    /\ frames \in Seq(Frame)
    /\ \A i \in DOMAIN frames : frames[i].kind = "Globals" => i = 1

States == InSignature \cup {"globals", "body", "part", "statement", "block",
                            "operand", "args", "loop", "else", "return", "done", "error"}

AtOK ==
    /\ at \in States
    /\ at = "globals" => Len(frames) = 1
    /\ at = "done" => Len(frames) <= 1
    /\ InExp => frames # << >> /\ Top.kind \in {"Basic", "Return", "While", "If"}
    /\ open \in Seq({"(", "[", "call"})
    /\ InExp \/ at = "error" \/ open = << >>

(* Whose turn it is. *)
Owned ==
    /\ at = "globals" => frames # << >> /\ Top.kind = "Globals"
    /\ at \in InSignature \cup {"body"} => frames # << >> /\ Top.kind = "Function"
    /\ at = "part" => frames # << >> /\ Top.kind = "Block"
    /\ at = "statement" => frames = << >> \/ Top.kind = "Single"
    /\ at = "block" => frames # << >> /\ Top.kind \in {"While", "If"}
    /\ at = "else" => frames # << >> /\ Top.kind = "If"

Typed == InputOK /\ FramesOK /\ nodes \in Seq(Node) /\ AtOK /\ Owned

LEMMA SignatureStates == InSignature = {"fname", "args(", "arg)", "arg,", "arg"}
<1> DEFINE Firsts == {"fname", "args(", "arg)", "arg,", "arg"}
<1>1. \A s \in Signature : s[1] \in Firsts
  <2>1. /\ <<"fname", "name", "args(">>[1] \in Firsts /\ <<"args(", "(", "arg)">>[1] \in Firsts
        /\ <<"arg)", ")", "body">>[1] \in Firsts /\ <<"arg)", "name", "arg,">>[1] \in Firsts
        /\ <<"arg,", ",", "arg">>[1] \in Firsts /\ <<"arg", "name", "arg,">>[1] \in Firsts
        /\ <<"arg,", ")", "body">>[1] \in Firsts
    OBVIOUS
  <2> HIDE DEF Firsts
  <2> QED
    BY <2>1, Zenon DEF Signature
<1>2. \E s \in Signature : s[1] = "fname"
  BY DEF Signature
<1>3. \E s \in Signature : s[1] = "args("
  BY DEF Signature
<1>4. \E s \in Signature : s[1] = "arg)"
  BY DEF Signature
<1>5. \E s \in Signature : s[1] = "arg,"
  BY DEF Signature
<1>6. \E s \in Signature : s[1] = "arg"
  BY DEF Signature
<1> QED
  BY <1>1, <1>2, <1>3, <1>4, <1>5, <1>6 DEF InSignature

LEMMA TypedIsTypeOK == Typed => TypeOK
<1> SUFFICES ASSUME Typed PROVE TypeOK
  OBVIOUS
<1>1. at \in InSignature => ~InExp /\ at # "error"
  BY SignatureStates DEF InExp
<1>2. Last(frames) = Top
  BY DEF Top
<1> QED
  BY <1>1, <1>2 DEF Typed, InputOK, FramesOK, AtOK, TypeOK, States, InExp

LEMMA TopFacts ==
    ASSUME FramesOK, frames # << >>
    PROVE  /\ Len(frames) \in Nat \ {0} /\ Top = frames[Len(frames)] /\ Top \in Frame
           /\ Front(frames) \in Seq(Frame) /\ Len(Front(frames)) = Len(frames) - 1
           /\ \A i \in 1 .. Len(frames) - 1 : Front(frames)[i] = frames[i]
<1>1. Len(frames) \in Nat \ {0} /\ frames \in Seq(Frame)
  BY EmptySeq DEF FramesOK
<1>2. Top = frames[Len(frames)] /\ Top \in Frame
  BY <1>1 DEF Top, Last
<1> QED
  BY <1>1, <1>2, PopFacts DEF Front

(* A frame more, one less, or the innermost changed: the first stays. *)
FramesNext == FramesOK' /\ InGlobals' = InGlobals

LEMMA FramesSame == FramesOK /\ frames' = frames => FramesNext
BY DEF FramesOK, FramesNext, InGlobals

LEMMA PushFrame ==
    ASSUME FramesOK, NEW f \in Frame, f.kind # "Globals", frames' = Append(frames, f)
    PROVE  /\ FramesNext /\ Len(frames') = Len(frames) + 1 /\ frames' # << >>
           /\ \A i \in 1 .. Len(frames) : frames'[i] = frames[i]
           /\ frames'[Len(frames) + 1] = f /\ Top' = f
<1>1. /\ frames \in Seq(Frame) /\ Len(frames) \in Nat
      /\ frames' \in Seq(Frame) /\ Len(frames') = Len(frames) + 1 /\ frames' # << >>
      /\ \A i \in 1 .. Len(frames) : frames'[i] = frames[i]
      /\ frames'[Len(frames) + 1] = f
  BY AppendProperties DEF FramesOK
<1>2. Top' = f
  BY <1>1 DEF Top, Last
<1>3. FramesOK'
  BY <1>1 DEF FramesOK
<1>4. CASE frames = << >>
  <2>1. Len(frames) = 0 /\ frames'[1] = f
    BY <1>1, <1>4
  <2> QED
    BY <1>1, <1>2, <1>3, <1>4, <2>1 DEF FramesNext, InGlobals
<1>5. CASE frames # << >>
  <2>1. 1 \in 1 .. Len(frames)
    BY <1>1, <1>5, EmptySeq
  <2>2. frames'[1] = frames[1]
    BY <1>1, <2>1
  <2> QED
    BY <1>1, <1>2, <1>3, <1>5, <2>2 DEF FramesNext, InGlobals
<1> QED
  BY <1>4, <1>5

LEMMA PopFrame ==
    ASSUME FramesOK, frames # << >>, Top.kind # "Globals", frames' = Front(frames)
    PROVE  /\ FramesNext /\ Len(frames') = Len(frames) - 1 /\ Len(frames) \in Nat \ {0}
           /\ \A i \in 1 .. Len(frames) - 1 : frames'[i] = frames[i]
           /\ frames' # << >> => Len(frames) > 1 /\ Top' = frames[Len(frames) - 1]
<1>1. /\ Len(frames) \in Nat \ {0} /\ Top = frames[Len(frames)]
      /\ frames' \in Seq(Frame) /\ Len(frames') = Len(frames) - 1
      /\ \A i \in 1 .. Len(frames) - 1 : frames'[i] = frames[i]
  BY TopFacts
<1>2. frames' # << >> => Len(frames) > 1 /\ Top' = frames[Len(frames) - 1]
  <2> SUFFICES ASSUME frames' # << >>
               PROVE  Len(frames) > 1 /\ Top' = frames[Len(frames) - 1]
    OBVIOUS
  <2>1. Len(frames') # 0
    BY <1>1, EmptySeq
  <2> QED
    BY <1>1, <2>1 DEF Top, Last
<1>3. FramesOK'
  BY <1>1 DEF FramesOK
<1>4. CASE Len(frames) = 1
  <2>1. frames' = << >>
    BY <1>1, <1>4, EmptySeq
  <2> QED
    BY <1>1, <1>2, <1>3, <1>4, <2>1 DEF FramesNext, InGlobals
<1>5. CASE Len(frames) # 1
  <2>1. 1 \in 1 .. Len(frames) - 1 /\ frames' # << >>
    BY <1>1, <1>5
  <2>2. frames'[1] = frames[1]
    BY <1>1, <2>1
  <2> QED
    BY <1>1, <1>2, <1>3, <1>5, <2>1, <2>2 DEF FramesNext, InGlobals
<1> QED
  BY <1>4, <1>5

LEMMA SwapFrame ==
    ASSUME FramesOK, frames # << >>, NEW f \in Frame, f.kind = Top.kind,
           frames' = Append(Front(frames), f)
    PROVE  /\ FramesNext /\ Len(frames') = Len(frames) /\ Len(frames) \in Nat \ {0}
           /\ frames' # << >>
           /\ \A i \in 1 .. Len(frames) - 1 : frames'[i] = frames[i]
           /\ frames'[Len(frames)] = f /\ Top' = f
<1> DEFINE outer == Front(frames)
<1>1. /\ Len(frames) \in Nat \ {0} /\ Top = frames[Len(frames)]
      /\ outer \in Seq(Frame) /\ Len(outer) = Len(frames) - 1
      /\ \A i \in 1 .. Len(frames) - 1 : outer[i] = frames[i]
  BY TopFacts
<1> HIDE DEF outer
<1>2. /\ frames' \in Seq(Frame) /\ Len(frames') = Len(outer) + 1 /\ frames' # << >>
      /\ \A i \in 1 .. Len(outer) : frames'[i] = outer[i]
      /\ frames'[Len(outer) + 1] = f
  BY <1>1, AppendProperties DEF outer
<1>3. /\ Len(frames') = Len(frames)
      /\ \A i \in 1 .. Len(frames) - 1 : frames'[i] = frames[i]
      /\ frames'[Len(frames)] = f
  BY <1>1, <1>2
<1>4. Top' = f
  BY <1>3 DEF Top, Last
<1>5. \A i \in DOMAIN frames' : frames'[i].kind = frames[i].kind
  BY <1>1, <1>2, <1>3
<1>6. FramesOK'
  BY <1>1, <1>2, <1>3, <1>5 DEF FramesOK
<1>7. 1 \in DOMAIN frames'
  BY <1>1, <1>2, <1>3
<1>8. InGlobals' = InGlobals
  BY <1>2, <1>5, <1>7 DEF InGlobals
<1> QED
  BY <1>1, <1>2, <1>3, <1>4, <1>6, <1>8 DEF FramesNext

-----------------------------------------------------------------------------
(* What is consumed. *)

Grown ==
    /\ InputOK' /\ Len(input') > Len(input)
    /\ \A p \in 1 .. Len(input) : input'[p] = input[p]
    /\ \A p \in Len(input) + 1 .. Len(input') - 1 : input'[p] \in Leads \cup {"name"}

(* Nothing that is known about what was read changes. *)
Kept == InputOK' /\ Len(input') >= Len(input) /\ \A p \in 1 .. Len(input) : input'[p] = input[p]

LEMMA Words == /\ Glued \cap (Leads \cup {"name", "end"}) = {}
               /\ "end" \notin Leads
BY DEF Glued, Keyword, Leads

LEMMA ConsumeGrows ==
    ASSUME InputOK, tok # "end", Consume, Alphabet' = Alphabet
    PROVE  Grown /\ Len(input') = Len(input) + 1
<1> DEFINE n == Len(input)
           set == Alphabet \cup {"end"}
<1>1. input \in Seq(set) /\ n \in 1 .. MaxPieces + 2 /\ n \in Nat
  BY DEF InputOK
<1>2. MaxPieces \in Nat
  BY StatementsAssumption
<1>3. n <= MaxPieces + 1 /\ (n > MaxPieces => tok \notin Glued)
  BY <1>1, <1>2 DEF InputOK, InputFits
<1>4. PICK x : /\ input' = input \o <<x>> /\ x \in set
               /\ n + 1 > MaxPieces => x \notin Glued
               /\ n + 1 > MaxPieces + 1 => x = "end"
  <2>1. PICK next \in Following(tok, n) : input' = input \o next
    BY DEF Consume, Here
  <2>2. CASE tok \in Glued
    <3>1. PICK x \in Rest : next = <<x>>
      BY <2>1, <2>2 DEF Following
    <3>2. x \in set /\ x \notin Glued
      BY <3>1, Words DEF Rest
    <3> QED
      BY <1>1, <1>2, <1>3, <2>1, <2>2, <3>1, <3>2
  <2>3. CASE tok \notin Glued
    <3>1. PICK x \in NextPiece(n) : next = <<x>>
      BY <2>1, <2>3 DEF Following
    <3>2. x \in set /\ (n + 1 > MaxPieces => x = "end")
      BY <1>1, <1>2, <3>1 DEF NextPiece
    <3>3. x = "end" => x \notin Glued
      BY Words
    <3> QED
      BY <1>1, <1>2, <2>1, <3>1, <3>2, <3>3
  <2> QED
    BY <2>2, <2>3
<1> HIDE DEF set
<1>5. /\ input' \in Seq(set) /\ Len(input') = n + 1 /\ input'[n + 1] = x
      /\ \A p \in 1 .. n : input'[p] = input[p]
  BY <1>1, <1>4
<1>6. tok' = x
  BY <1>1, <1>5 DEF tok
<1>7. InputOK'
  <2>1. InputFits'
    BY <1>4, <1>5, <1>6 DEF InputFits
  <2> QED
    BY <1>1, <1>2, <1>3, <1>5, <2>1 DEF InputOK, set
<1> QED
  BY <1>1, <1>5, <1>7 DEF Grown

LEMMA ConsumeNameGrows ==
    ASSUME InputOK, tok # "end", ConsumeName, Alphabet' = Alphabet
    PROVE  Grown
<1> DEFINE n == Len(input)
           set == Alphabet \cup {"end"}
<1>1. input \in Seq(set) /\ n \in 1 .. MaxPieces + 2 /\ n \in Nat
  BY DEF InputOK
<1>2. MaxPieces \in Nat
  BY StatementsAssumption
<1>3. CASE tok = "name" /\ Consume
  BY <1>3, ConsumeGrows
<1>4. CASE tok \in Glued /\ \E r \in Rest, t \in NextPiece(Here + 1) : input' = input \o <<r, t>>
  <2>1. n <= MaxPieces
    BY <1>1, <1>2, <1>4 DEF InputOK, InputFits
  <2>2. PICK r \in Rest, t \in NextPiece(n + 1) : input' = input \o <<r, t>>
    BY <1>4 DEF Here
  <2>3. r \in set /\ r \in Leads \cup {"name"}
    BY DEF Rest
  <2>4. t \in set /\ (n + 2 > MaxPieces => t = "end")
    BY <1>1, <1>2 DEF NextPiece
  <2> HIDE DEF set
  <2>5. /\ input' \in Seq(set) /\ Len(input') = n + 2
        /\ input'[n + 1] = r /\ input'[n + 2] = t
        /\ \A p \in 1 .. n : input'[p] = input[p]
    BY <1>1, <2>2, <2>3, <2>4, PushTwoFacts
  <2>6. tok' = t
    BY <1>1, <2>5 DEF tok
  <2>7. InputFits'
    BY <1>1, <1>2, <2>4, <2>5, <2>6, Words DEF InputFits
  <2>8. InputOK'
    BY <1>1, <1>2, <2>1, <2>5, <2>7 DEF InputOK, set
  <2>9. \A p \in n + 1 .. Len(input') - 1 : input'[p] \in Leads \cup {"name"}
    BY <1>1, <2>3, <2>5
  <2> QED
    BY <1>1, <2>5, <2>8, <2>9 DEF Grown
<1> QED
  BY <1>3, <1>4 DEF ConsumeName

(* A name, whole, or a piece that is none. *)
LEMMA TakeGrows ==
    ASSUME InputOK, tok # "end", IF IsName THEN ConsumeName ELSE Consume, Alphabet' = Alphabet
    PROVE  Grown /\ (~IsName => Len(input') = Len(input) + 1)
BY ConsumeGrows, ConsumeNameGrows

LEMMA GrownIsKept == InputOK /\ Grown => Kept
BY DEF InputOK, Grown, Kept

LEMMA InputSame == InputOK /\ input' = input /\ Alphabet' = Alphabet => Kept
BY DEF InputOK, InputFits, tok, Kept

LEMMA AlphabetSame == InGlobals' = InGlobals => Alphabet' = Alphabet
BY DEF Alphabet

-----------------------------------------------------------------------------
(* The types are kept. *)

Marks == {"(", "[", "call"}
Out == Len(nodes)

LEMMA Compose ==
    ASSUME Typed, Kept, FramesNext, nodes' \in Seq(Node), AtOK', Owned'
    PROVE  Typed'
BY DEF Typed, Kept, FramesNext

LEMMA Numbers ==
    ASSUME Typed
    PROVE  /\ Here \in Nat \ {0} /\ Here - 1 \in Nat /\ Out \in Nat /\ Here = Len(input)
           /\ Len(frames) \in Nat /\ input \in Seq(Alphabet \cup {"end"})
<1>1. MaxPieces \in Nat
  BY StatementsAssumption
<1>2. nodes \in Seq(Node) /\ frames \in Seq(Frame)
  BY DEF Typed, FramesOK
<1> QED
  BY <1>1, <1>2 DEF Typed, InputOK, Here, Out

LEMMA MadeTyped ==
    ASSUME NEW kind \in Kinds, NEW first \in Nat, NEW last \in Nat, NEW kids \in Seq(Nat)
    PROVE  Made(kind, first, last, kids) \in Node
BY DEF Made, Node

LEMMA OpenedTyped ==
    ASSUME Typed, NEW kind \in {"Globals", "Function", "Basic", "Return", "While", "If",
                                "Block", "Single"}
    PROVE  Opened(kind) \in Frame /\ Opened(kind).kind = kind
BY Numbers DEF Opened, Frame

LEMMA KidsTyped ==
    ASSUME NEW f \in Frame, NEW kids \in Seq(Nat)
    PROVE  [f EXCEPT !.kids = kids] \in Frame /\ [f EXCEPT !.kids = kids].kind = f.kind
BY DEF Frame

LEMMA NodeMore ==
    ASSUME nodes \in Seq(Node), NEW n \in Node, nodes' = Append(nodes, n)
    PROVE  nodes' \in Seq(Node)
BY AppendProperties

(* What is read of an expression. *)
LEMMA ReadFacts ==
    ASSUME Typed, NEW c, E!Read(c)
    PROVE  /\ at \in {"operand", "args", "loop"} /\ at' \in {"operand", "args", "loop"}
           /\ open' \in Seq(Marks)
           /\ c # "end" /\ c \in {"atom", "prefix", "infix", "postfix", "(", ")", "[", "]", ","}
<1>1. open \in Seq(Marks)
  BY DEF Typed, AtOK, Marks
<1>2. at \in {"operand", "args", "loop"} /\ at' \in {"operand", "args", "loop"}
  BY DEF E!Read, E!Takes
<1>3. c \in {"atom", "prefix", "infix", "postfix", "(", ")", "[", "]", ","}
  <2>1. ASSUME E!Closes(c) PROVE c \in {")", "]", ","}
    <3>1. Len(open) \in DOMAIN open
      <4>1. open # << >>
        BY <2>1 DEF E!Closes
      <4>2. Len(open) \in Nat \ {0}
        BY <1>1, <4>1, PopFacts
      <4> QED
        BY <1>1, <4>2
    <3>2. E!Last(open) \in Marks
      BY <1>1, <3>1 DEF E!Last
    <3>3. \/ E!Last(open) = "(" \/ E!Last(open) = "[" \/ E!Last(open) = "call"
      BY <3>2 DEF Marks
    <3>4. CASE E!Last(open) = "("
      BY <2>1, <3>4 DEF E!Closes
    <3>5. CASE E!Last(open) = "["
      BY <2>1, <3>5 DEF E!Closes
    <3>6. CASE E!Last(open) = "call"
      BY <2>1, <3>6 DEF E!Closes
    <3> QED
      BY <3>3, <3>4, <3>5, <3>6
  <2> QED
    BY <2>1 DEF E!Read, E!Takes, E!Operand, E!Continues
<1>4. open' \in Seq(Marks)
  <2>1. Append(open, IF at = "loop" THEN "call" ELSE "(") \in Seq(Marks)
    BY <1>1 DEF Marks
  <2>2. Append(open, "[") \in Seq(Marks)
    BY <1>1 DEF Marks
  <2>3. Front(open) \in Seq(Marks)
    <3>1. CASE open = << >>
      BY <3>1 DEF Front
    <3>2. CASE open # << >>
      BY <1>1, <3>2, PopFacts DEF Front
    <3> QED
      BY <3>1, <3>2
  <2>4. \/ open' = Append(open, IF at = "loop" THEN "call" ELSE "(")
        \/ open' = Append(open, "[") \/ open' = Front(open) \/ open' = open
    BY <1>3 DEF E!Read, E!Front, Front
  <2> QED
    BY <1>1, <2>1, <2>2, <2>3, <2>4
<1> QED
  BY <1>2, <1>3, <1>4

LEMMA EndsFacts ==
    ASSUME E!Ends(Class)
    PROVE  at = "loop" /\ open = << >> /\ Class \notin {"infix", "postfix", "(", "["}
BY DEF E!Ends, E!Takes, E!Continues

LEMMA ClassEnd == tok = "end" => Class = "end"
BY Words DEF Class, Glued, Keyword

LEMMA InExpressionGrows ==
    ASSUME Typed, InExpression
    PROVE  /\ Grown /\ frames' = frames /\ nodes' = nodes /\ Alphabet' = Alphabet
           /\ at \in {"operand", "args", "loop"} /\ at' \in {"operand", "args", "loop"}
           /\ open' \in Seq(Marks) /\ (~IsName => Len(input') = Len(input) + 1)
           /\ Class \in {"atom", "prefix", "infix", "postfix", "(", ")", "[", "]", ","}
<1>1. /\ E!Read(Class) /\ (IF IsName THEN ConsumeName ELSE Consume)
      /\ frames' = frames /\ nodes' = nodes
  BY DEF InExpression
<1>2. tok # "end"
  BY <1>1, ReadFacts, ClassEnd
<1>3. Alphabet' = Alphabet
  BY <1>1, FramesSame, AlphabetSame DEF FramesNext, Typed
<1> QED
  BY <1>1, <1>2, <1>3, ReadFacts, TakeGrows DEF Typed

LEMMA InFuncDecGrows ==
    ASSUME Typed, InFuncDec
    PROVE  /\ Grown /\ frames' = frames /\ nodes' = nodes /\ open' = open
           /\ (~IsName => Len(input') = Len(input) + 1)
           /\ at \in InSignature /\ at' \in InSignature \cup {"body"}
           /\ at' = "body" => tok = ")" /\ ~IsName
<1>1. PICK s \in Signature : s[1] = at /\ s[2] = Reads /\ at' = s[3]
  BY DEF InFuncDec
<1>2. /\ s[2] \in {"name", "(", ")", ","}
      /\ s[3] \in {"args(", "arg)", "arg,", "arg", "body"}
      /\ s[3] = "body" => s[2] = ")"
  <2> DEFINE P(t) == /\ t[2] \in {"name", "(", ")", ","}
                     /\ t[3] \in {"args(", "arg)", "arg,", "arg", "body"}
                     /\ t[3] = "body" => t[2] = ")"
  <2>1. /\ P(<<"fname", "name", "args(">>) /\ P(<<"args(", "(", "arg)">>)
        /\ P(<<"arg)", ")", "body">>) /\ P(<<"arg)", "name", "arg,">>)
        /\ P(<<"arg,", ",", "arg">>) /\ P(<<"arg", "name", "arg,">>)
        /\ P(<<"arg,", ")", "body">>)
    OBVIOUS
  <2> HIDE DEF P
  <2>2. P(s)
    BY <2>1, Zenon DEF Signature
  <2> QED
    BY <2>2 DEF P
<1>3. at \in InSignature /\ at' \in InSignature \cup {"body"}
  BY <1>1, <1>2, SignatureStates DEF InSignature
<1>4. tok # "end"
  BY <1>1, <1>2 DEF Reads, IsName, Glued, Keyword
<1>5. (IF IsName THEN ConsumeName ELSE Consume) /\ frames' = frames /\ nodes' = nodes /\ open' = open
  BY DEF InFuncDec
<1>6. Alphabet' = Alphabet
  BY <1>5, FramesSame, AlphabetSame DEF FramesNext, Typed
<1>7. at' = "body" => tok = ")" /\ ~IsName
  BY <1>1, <1>2 DEF Reads
<1> QED
  BY <1>3, <1>4, <1>5, <1>6, <1>7, TakeGrows DEF Typed

Steady == {"globals", "part", "statement", "block", "else", "return"}

(* Wherever no expression is read and nothing failed, no bracket is open. *)
LEMMA AtSteady ==
    ASSUME at' \in Steady, open' = << >>, at' = "globals" => Len(frames') = 1
    PROVE  AtOK'
<1>1. << >> \in Seq({"(", "[", "call"})
  OBVIOUS
<1> QED
  BY <1>1 DEF AtOK, InExp, States, Steady

LEMMA AtEnd ==
    ASSUME at' = "done", open' = << >>, Len(frames') <= 1
    PROVE  AtOK'
<1>1. << >> \in Seq({"(", "[", "call"})
  OBVIOUS
<1> QED
  BY <1>1 DEF AtOK, InExp, States

LEMMA StayTyped ==
    ASSUME Typed,
           \/ EndOfText \/ InFuncDec \/ FuncDecError \/ NoCloseBlock \/ InExpression
           \/ ExpressionError \/ NoSemicolon \/ ReturnToCaller \/ BeginElse \/ UNCHANGED vars
    PROVE  Typed'
<1>a. frames' = frames => FramesNext /\ Alphabet' = Alphabet
  BY FramesSame, AlphabetSame DEF Typed, FramesNext
<1>b. nodes \in Seq(Node) /\ InputOK /\ AtOK /\ Len(frames) \in Nat /\ << >> \in Seq(Marks)
  BY Numbers DEF Typed
<1>c. Owned /\ (frames' = frames => Top' = Top)
  BY DEF Typed, Top
<1>1. ASSUME NEW where, Fail(where) PROVE Typed'
  <2>1. UNCHANGED <<input, nodes, frames, open>> /\ at' = "error"
    BY <1>1 DEF Fail
  <2>2. AtOK'
    BY <1>b, <2>1 DEF AtOK, States, InExp
  <2>o. Owned'
    BY <2>1, SignatureStates DEF Owned
  <2> QED
    BY <1>a, <1>b, <2>1, <2>2, <2>o, InputSame, Compose
<1>2. CASE EndOfText
  <2>1. /\ UNCHANGED <<input, nodes, frames, open>> /\ at = "globals" /\ at' = "done"
    BY <1>2 DEF EndOfText
  <2>3. open = << >> /\ Len(frames) = 1
    BY <1>b, <2>1 DEF AtOK, InExp
  <2>2. AtOK'
    BY <2>1, <2>3, AtEnd
  <2>o. Owned'
    BY <2>1, SignatureStates DEF Owned
  <2> QED
    BY <1>a, <1>b, <2>1, <2>2, <2>o, InputSame, Compose
<1>3. CASE ReturnToCaller
  <2>1. /\ UNCHANGED <<input, nodes, frames, open>> /\ at = "return" /\ at' = "done"
        /\ frames = << >>
    BY <1>3 DEF ReturnToCaller
  <2>3. open = << >> /\ Len(frames) = 0
    BY <1>b, <2>1 DEF AtOK, InExp
  <2>2. AtOK'
    BY <2>1, <2>3, AtEnd
  <2>o. Owned'
    BY <2>1, SignatureStates DEF Owned
  <2> QED
    BY <1>a, <1>b, <2>1, <2>2, <2>o, InputSame, Compose
<1>4. CASE InFuncDec
  <2>1. /\ Grown /\ frames' = frames /\ nodes' = nodes /\ open' = open
        /\ at \in InSignature /\ at' \in InSignature \cup {"body"}
    BY <1>4, InFuncDecGrows
  <2>2. AtOK'
    BY <1>b, <2>1, SignatureStates DEF AtOK, States, InExp
  <2>o. Owned'
    BY <1>c, <2>1, SignatureStates DEF Owned
  <2> QED
    BY <1>a, <1>b, <2>1, <2>2, <2>o, GrownIsKept, Compose
<1>5. CASE InExpression
  <2>1. /\ Grown /\ frames' = frames /\ nodes' = nodes
        /\ at \in {"operand", "args", "loop"} /\ at' \in {"operand", "args", "loop"}
        /\ open' \in Seq(Marks)
    BY <1>5, InExpressionGrows
  <2>2. Top' = Top
    BY <2>1 DEF Top
  <2>3. AtOK'
    BY <1>b, <2>1, <2>2 DEF AtOK, States, InExp, Marks
  <2>o. Owned'
    BY <2>1, SignatureStates DEF Owned
  <2> QED
    BY <1>a, <1>b, <2>1, <2>3, <2>o, GrownIsKept, Compose
<1>6. CASE BeginElse
  <2>1. /\ Consume /\ UNCHANGED <<nodes, frames, open>> /\ at = "else" /\ at' = "block"
        /\ Lead = "else"
    BY <1>6 DEF BeginElse, TakesElse
  <2>2. tok # "end"
    BY <2>1, Words DEF Lead
  <2>3. Grown
    BY <1>a, <1>b, <2>1, <2>2, ConsumeGrows
  <2>4. open = << >>
    BY <1>b, <2>1 DEF AtOK, InExp
  <2>5. AtOK'
    BY <2>1, <2>4, AtSteady DEF Steady
  <2>o. Owned'
    BY <1>c, <2>1, SignatureStates DEF Owned
  <2> QED
    BY <1>a, <1>b, <2>1, <2>3, <2>5, <2>o, GrownIsKept, Compose
<1>7. CASE UNCHANGED vars
  <2>1. UNCHANGED <<input, nodes, frames, open, at>>
    BY <1>7 DEF vars
  <2>2. AtOK'
    BY <1>b, <2>1 DEF AtOK, InExp, Top
  <2>o. Owned'
    BY <1>c, <2>1 DEF Owned
  <2> QED
    BY <1>a, <1>b, <2>1, <2>2, <2>o, InputSame, Compose
<1> QED
  BY <1>1, <1>2, <1>3, <1>4, <1>5, <1>6, <1>7
  DEF FuncDecError, NoCloseBlock, ExpressionError, NoSemicolon

(* An expression begins. *)
LEMMA AtOperand ==
    ASSUME at' = "operand", open' = << >>, frames' # << >>,
           Top'.kind \in {"Basic", "Return", "While", "If"}
    PROVE  AtOK'
<1>1. << >> \in Seq({"(", "[", "call"})
  OBVIOUS
<1> QED
  BY <1>1 DEF AtOK, InExp, States

(* What a step that opens a frame does. *)
LEMMA Opens ==
    ASSUME Typed,
           \/ BeginFunction \/ BeginGlobalBasic \/ OpenBlock \/ BeginKeyword
           \/ BeginBasic \/ BeginSingle
    PROVE  /\ at \in {"globals", "part", "statement", "block", "body"}
           /\ nodes' = nodes /\ open' = open
           /\ \E kind \in {"Function", "Basic", "Return", "While", "If", "Block", "Single"} :
                /\ frames' = Append(frames, Opened(kind))
                /\ kind = "Function" =>
                      at = "globals" /\ at' = "fname" /\ Lead \in {"fn", "cfn"} /\ Consume
                /\ kind = "Block" =>
                      at # "globals" /\ at' = "part" /\ tok = "{" /\ Consume
                /\ kind = "Single" =>
                      at = "block" /\ at' = "statement" /\ input' = input /\ tok # "{"
                /\ kind = "Basic" =>
                      at \notin {"block", "body"} /\ at' = "operand" /\ input' = input
                /\ kind \in {"Return", "While", "If"} =>
                      /\ at \in {"part", "statement"} /\ at' = "operand" /\ Consume
                      /\ Lead = CASE kind = "While" -> "while" [] kind = "If" -> "if"
                                  [] kind = "Return" -> "return"
<1>1. CASE BeginFunction
  BY <1>1 DEF BeginFunction
<1>2. CASE BeginGlobalBasic
  BY <1>2 DEF BeginGlobalBasic
<1>3. CASE OpenBlock
  BY <1>3 DEF OpenBlock, StartsStatement
<1>4. CASE BeginBasic
  BY <1>4 DEF BeginBasic, StartsStatement
<1>5. CASE BeginSingle
  BY <1>5 DEF BeginSingle
<1>6. CASE BeginKeyword
  <2>1. /\ StartsStatement /\ Consume /\ at' = "operand" /\ UNCHANGED <<nodes, open>>
        /\ Lead \in {"while", "if", "return"}
    BY <1>6 DEF BeginKeyword
  <2>2. at \in {"part", "statement"}
    BY <2>1 DEF StartsStatement
  <2>3. \/ Lead = "while" /\ frames' = Append(frames, Opened("While"))
        \/ Lead = "if" /\ frames' = Append(frames, Opened("If"))
        \/ Lead = "return" /\ frames' = Append(frames, Opened("Return"))
    BY <1>6 DEF BeginKeyword
  <2> QED
    BY <2>1, <2>2, <2>3
<1> QED
  BY <1>1, <1>2, <1>3, <1>4, <1>5, <1>6

LEMMA LeadEnd == tok = "end" => Lead = "end"
BY DEF Lead, Glued, Keyword

LEMMA OpenTyped ==
    ASSUME Typed,
           \/ BeginFunction \/ BeginGlobalBasic \/ OpenBlock \/ BeginKeyword
           \/ BeginBasic \/ BeginSingle
    PROVE  /\ Typed' /\ Kept
           /\ Consume => Grown /\ Len(input') = Len(input) + 1
<1>1. PICK kind \in {"Function", "Basic", "Return", "While", "If", "Block", "Single"} :
                /\ frames' = Append(frames, Opened(kind))
                /\ kind = "Function" =>
                      at = "globals" /\ at' = "fname" /\ Lead \in {"fn", "cfn"} /\ Consume
                /\ kind = "Block" =>
                      at # "globals" /\ at' = "part" /\ tok = "{" /\ Consume
                /\ kind = "Single" =>
                      at = "block" /\ at' = "statement" /\ input' = input /\ tok # "{"
                /\ kind = "Basic" =>
                      at \notin {"block", "body"} /\ at' = "operand" /\ input' = input
                /\ kind \in {"Return", "While", "If"} =>
                      /\ at \in {"part", "statement"} /\ at' = "operand" /\ Consume
                      /\ Lead = CASE kind = "While" -> "while" [] kind = "If" -> "if"
                                  [] kind = "Return" -> "return"
  BY Opens
<1>2. at \in {"globals", "part", "statement", "block", "body"} /\ nodes' = nodes /\ open' = open
  BY Opens
<1>3. open = << >> /\ nodes \in Seq(Node) /\ InputOK /\ FramesOK
  BY <1>2 DEF Typed, AtOK, InExp
<1>4. Opened(kind) \in Frame /\ Opened(kind).kind = kind
  BY OpenedTyped
<1>5. /\ FramesNext /\ frames' # << >> /\ Top'.kind = kind /\ Alphabet' = Alphabet
  <2>1. FramesNext /\ frames' # << >> /\ Top' = Opened(kind)
    BY <1>1, <1>3, <1>4, PushFrame
  <2> QED
    BY <1>4, <2>1, AlphabetSame DEF FramesNext
<1>6. kind \in {"Function", "Block", "Return", "While", "If"} => tok # "end"
  <2>1. CASE kind = "Return"
    BY <1>1, <2>1, LeadEnd
  <2>2. CASE kind = "While"
    BY <1>1, <2>2, LeadEnd
  <2>3. CASE kind = "If"
    BY <1>1, <2>3, LeadEnd
  <2>4. CASE kind \in {"Function", "Block"}
    BY <1>1, <2>4, LeadEnd
  <2> QED
    BY <2>1, <2>2, <2>3, <2>4
<1>7. (kind \in {"Function", "Block", "Return", "While", "If"} /\ Consume) \/ input' = input
  BY <1>1
<1>8. Kept
  BY <1>3, <1>5, <1>6, <1>7, ConsumeGrows, GrownIsKept, InputSame
<1>9. Consume => Grown /\ Len(input') = Len(input) + 1
  <2>1. ASSUME Consume PROVE input' # input
    <3>1. PICK next \in Following(tok, Here) : input' = input \o next
      BY <2>1 DEF Consume
    <3>2. PICK x : next = <<x>>
      BY <3>1 DEF Following
    <3>3. input \in Seq(Alphabet \cup {"end"})
      BY Numbers
    <3>4. Len(input \o <<x>>) = Len(input) + 1 /\ Len(input) \in Nat
      BY <3>3
    <3> QED
      BY <3>1, <3>2, <3>4
  <2> QED
    BY <1>3, <1>5, <1>6, <1>7, <2>1, ConsumeGrows
<1>10. AtOK'
  <2>1. CASE kind \in {"Basic", "Return", "While", "If"}
    BY <1>1, <1>2, <1>3, <1>5, <2>1, AtOperand
  <2>2. CASE kind \in {"Block", "Single"}
    BY <1>1, <1>2, <1>3, <2>2, AtSteady DEF Steady
  <2>3. CASE kind = "Function"
    <3>1. at' = "fname" /\ open' = << >>
      BY <1>1, <1>2, <1>3, <2>3
    <3>2. << >> \in Seq({"(", "[", "call"})
      OBVIOUS
    <3> QED
      BY <3>1, <3>2, SignatureStates DEF AtOK, InExp, States
  <2> QED
    BY <2>1, <2>2, <2>3
<1>11. Owned'
  <2>1. CASE kind \in {"Basic", "Return", "While", "If"}
    BY <1>1, <2>1, SignatureStates DEF Owned
  <2>2. CASE kind = "Block"
    BY <1>1, <1>5, <2>2, SignatureStates DEF Owned
  <2>3. CASE kind = "Single"
    BY <1>1, <1>5, <2>3, SignatureStates DEF Owned
  <2>4. CASE kind = "Function"
    BY <1>1, <1>5, <2>4, SignatureStates DEF Owned
  <2> QED
    BY <2>1, <2>2, <2>3, <2>4
<1> QED
  BY <1>2, <1>3, <1>5, <1>8, <1>9, <1>10, <1>11, Compose

(* What a step that ends a frame does: the node made is the last. *)
LEMMA Ends ==
    ASSUME Typed,
           \/ FinishFuncDec \/ CloseBlock \/ FinishSingle \/ FinishWhile \/ FinishFunction
           \/ FinishIf \/ FinishIfElse
    PROVE  /\ at \in {"body", "part", "return", "else"} /\ at' = "return" /\ open' = open
           /\ frames # << >> /\ Top.kind # "Globals" /\ frames' = Front(frames)
           /\ (Consume /\ tok # "end") \/ input' = input
           /\ \E m \in Node : nodes' = Append(nodes, m)
<1>1. /\ Here \in Nat \ {0} /\ Here - 1 \in Nat /\ Len(nodes) \in Nat /\ nodes \in Seq(Node)
      /\ 0 \in Nat /\ << >> \in Seq(Nat)
  BY Numbers DEF Out, Typed
<1>2. frames # << >> => Top.start \in Nat /\ Top.kids \in Seq(Nat)
  BY TopFacts DEF Typed, Frame
<1>3. frames # << >> => Append(Top.kids, Len(nodes)) \in Seq(Nat)
  BY <1>1, <1>2
<1>4. ASSUME NEW kind \in Kinds, NEW first \in Nat, Finish(kind, first), at = "return",
             frames # << >>, Top.kind # "Globals"
      PROVE  /\ at' = "return" /\ open' = open /\ frames' = Front(frames) /\ input' = input
             /\ \E m \in Node : nodes' = Append(nodes, m)
  <2>1. Made(kind, first, IF first = 0 THEN 0 ELSE Here - 1, Append(Top.kids, Len(nodes))) \in Node
    BY <1>1, <1>3, <1>4, MadeTyped
  <2> QED
    BY <1>4, <2>1 DEF Finish
<1>5. CASE FinishFuncDec
  <2>1. Made("FuncDec", Top.start, Here, << >>) \in Node /\ frames # << >> /\ Top.kind = "Function"
    BY <1>1, <1>2, <1>5, MadeTyped DEF FinishFuncDec, Kinds, Typed, Owned
  <2> QED
    BY <1>5, <2>1 DEF FinishFuncDec
<1>6. CASE CloseBlock
  <2>1. Made("Block", Top.start, Here, Top.kids) \in Node /\ frames # << >> /\ Top.kind = "Block"
    BY <1>1, <1>2, <1>6, MadeTyped DEF CloseBlock, Kinds, Typed, Owned
  <2> QED
    BY <1>6, <2>1 DEF CloseBlock
<1>7. CASE FinishIf
  <2>1. Made("If", 0, 0, Top.kids) \in Node /\ frames # << >> /\ Top.kind = "If"
    BY <1>1, <1>2, <1>7, MadeTyped DEF FinishIf, Kinds, Typed, Owned
  <2> QED
    BY <1>7, <2>1 DEF FinishIf
<1>8. CASE FinishSingle
  BY <1>1, <1>4, <1>8 DEF FinishSingle, ReturnTo, Kinds
<1>9. CASE FinishWhile
  BY <1>2, <1>4, <1>9 DEF FinishWhile, ReturnTo, Kinds
<1>10. CASE FinishFunction
  BY <1>2, <1>4, <1>10 DEF FinishFunction, ReturnTo, Kinds
<1>11. CASE FinishIfElse
  BY <1>2, <1>4, <1>11 DEF FinishIfElse, ReturnTo, Kinds
<1> QED
  BY <1>5, <1>6, <1>7, <1>8, <1>9, <1>10, <1>11

LEMMA ReturnTyped ==
    ASSUME Typed, Kept, FramesNext, nodes' \in Seq(Node), at' = "return", open' = << >>
    PROVE  Typed'
<1>1. AtOK'
  BY AtSteady DEF Steady
<1>2. Owned'
  BY SignatureStates DEF Owned
<1> QED
  BY <1>1, <1>2, Compose

LEMMA EndTyped ==
    ASSUME Typed,
           \/ FinishFuncDec \/ CloseBlock \/ FinishSingle \/ FinishWhile \/ FinishFunction
           \/ FinishIf \/ FinishIfElse
    PROVE  Typed' /\ Kept /\ (Consume => Len(input') = Len(input) + 1)
<1>1. /\ at \in {"body", "part", "return", "else"} /\ at' = "return" /\ open' = open
      /\ frames # << >> /\ Top.kind # "Globals" /\ frames' = Front(frames)
      /\ (Consume /\ tok # "end") \/ input' = input
      /\ \E m \in Node : nodes' = Append(nodes, m)
  BY Ends
<1>2. open' = << >> /\ nodes \in Seq(Node) /\ InputOK /\ FramesOK
  BY <1>1, SignatureStates DEF Typed, AtOK, InExp
<1>3. FramesNext /\ Alphabet' = Alphabet
  BY <1>1, <1>2, PopFrame, AlphabetSame DEF FramesNext
<1>4. nodes' \in Seq(Node)
  BY <1>1, <1>2, NodeMore
<1>5. ASSUME Consume PROVE input' # input
  <2>1. PICK next \in Following(tok, Here) : input' = input \o next
    BY <1>5 DEF Consume
  <2>2. PICK x : next = <<x>>
    BY <2>1 DEF Following
  <2>3. input \in Seq(Alphabet \cup {"end"})
    BY Numbers
  <2>4. Len(input \o <<x>>) = Len(input) + 1 /\ Len(input) \in Nat
    BY <2>3
  <2> QED
    BY <2>1, <2>2, <2>4
<1>6. Kept
  BY <1>1, <1>2, <1>3, ConsumeGrows, GrownIsKept, InputSame
<1>7. Consume => Len(input') = Len(input) + 1
  BY <1>1, <1>2, <1>3, <1>5, ConsumeGrows
<1> QED
  BY <1>1, <1>2, <1>3, <1>4, <1>6, <1>7, ReturnTyped

(* An expression has ended. *)
LEMMA ExpressionFacts ==
    ASSUME Typed, E!Ends(Class)
    PROVE  /\ at = "loop" /\ open = << >> /\ frames # << >>
           /\ Top.kind \in {"Basic", "Return", "While", "If"}
           /\ Top \in Frame /\ Expression \in Node
<1>1. /\ at = "loop" /\ open = << >> /\ frames # << >>
      /\ Top.kind \in {"Basic", "Return", "While", "If"}
  BY EndsFacts DEF Typed, AtOK, InExp
<1>2. Top \in Frame
  BY <1>1, TopFacts DEF Typed
<1>3. Top.start \in Nat /\ Top.start + 1 \in Nat /\ Here - 1 \in Nat /\ << >> \in Seq(Nat)
  BY <1>2, Numbers DEF Frame
<1>4. Expression \in Node
  BY <1>3, MadeTyped DEF Expression, Kinds
<1> QED
  BY <1>1, <1>2, <1>4

LEMMA ConditionTyped ==
    ASSUME Typed, Condition
    PROVE  Typed' /\ Kept
<1>1. /\ E!Ends(Class) /\ Top.kind \in {"While", "If"} /\ input' = input /\ open' = open
      /\ nodes' = Append(nodes, Expression) /\ at' = "block"
      /\ frames' = Append(Front(frames), [Top EXCEPT !.kids = <<Len(nodes) + 1>>])
  BY DEF Condition
<1>2. /\ open = << >> /\ frames # << >> /\ Top \in Frame /\ Expression \in Node
      /\ nodes \in Seq(Node) /\ FramesOK /\ InputOK
  BY <1>1, ExpressionFacts DEF Typed
<1>3. <<Len(nodes) + 1>> \in Seq(Nat)
  BY <1>2
<1>4. /\ [Top EXCEPT !.kids = <<Len(nodes) + 1>>] \in Frame
      /\ [Top EXCEPT !.kids = <<Len(nodes) + 1>>].kind = Top.kind
  BY <1>2, <1>3, KidsTyped
<1>5. FramesNext /\ frames' # << >> /\ Top'.kind = Top.kind /\ Alphabet' = Alphabet
  <2>1. FramesNext /\ frames' # << >> /\ Top' = [Top EXCEPT !.kids = <<Len(nodes) + 1>>]
    BY <1>1, <1>2, <1>4, SwapFrame
  <2> QED
    BY <1>4, <2>1, AlphabetSame DEF FramesNext
<1>6. nodes' \in Seq(Node) /\ Kept
  BY <1>1, <1>2, <1>5, NodeMore, InputSame
<1>7. AtOK'
  BY <1>1, <1>2, AtSteady DEF Steady
<1>8. Owned'
  BY <1>1, <1>5, SignatureStates DEF Owned
<1> QED
  BY <1>5, <1>6, <1>7, <1>8, Compose

LEMMA FinishSimpleTyped ==
    ASSUME Typed, FinishSimple
    PROVE  Typed' /\ Kept /\ (tok = ";" => Len(input') = Len(input) + 1)
<1>1. /\ E!Ends(Class) /\ Top.kind \in {"Basic", "Return"} /\ open' = open /\ at' = "return"
      /\ (IF tok = ";" THEN Consume ELSE UNCHANGED input) /\ frames' = Front(frames)
      /\ nodes' = nodes \o <<Expression,
            Made(Top.kind, Top.start, IF tok = ";" THEN Here ELSE Here - 1, <<Len(nodes) + 1>>)>>
  BY DEF FinishSimple
<1>2. /\ open = << >> /\ frames # << >> /\ Top \in Frame /\ Expression \in Node
      /\ nodes \in Seq(Node) /\ FramesOK /\ InputOK
  BY <1>1, ExpressionFacts DEF Typed
<1>3. /\ <<Len(nodes) + 1>> \in Seq(Nat) /\ Here \in Nat /\ Here - 1 \in Nat /\ Top.start \in Nat
      /\ Top.kind \in Kinds
  <2>1. <<Len(nodes) + 1>> \in Seq(Nat)
    BY <1>2
  <2>2. Top.start \in Nat
    BY <1>2 DEF Frame
  <2>3. Top.kind \in Kinds
    BY <1>1 DEF Kinds
  <2> QED
    BY <2>1, <2>2, <2>3, Numbers
<1> DEFINE whole == Made(Top.kind, Top.start, IF tok = ";" THEN Here ELSE Here - 1, <<Len(nodes) + 1>>)
<1>4. whole \in Node
  <2>1. (IF tok = ";" THEN Here ELSE Here - 1) \in Nat
    BY <1>3
  <2> QED
    BY <1>3, <2>1, MadeTyped
<1>5. nodes' \in Seq(Node)
  <2>1. nodes' = nodes \o <<Expression, whole>>
    BY <1>1
  <2> HIDE DEF whole
  <2> QED
    BY <1>2, <1>4, <2>1, PushTwoFacts
<1>6. FramesNext /\ Alphabet' = Alphabet
  BY <1>1, <1>2, PopFrame, AlphabetSame DEF FramesNext
<1>7. Kept /\ (tok = ";" => Len(input') = Len(input) + 1)
  BY <1>1, <1>2, <1>6, ConsumeGrows, GrownIsKept, InputSame
<1> QED
  BY <1>1, <1>2, <1>5, <1>6, <1>7, ReturnTyped

LEMMA KeepTyped ==
    ASSUME Typed, NextPart \/ NextGlobal \/ IfThen
    PROVE  Typed' /\ Kept
<1>1. /\ at = "return" /\ frames # << >> /\ Top.kind \in {"Block", "Globals", "If"}
      /\ frames' = Append(Front(frames), [Top EXCEPT !.kids = Append(@, Len(nodes))])
      /\ UNCHANGED <<input, nodes, open>>
      /\ at' = CASE Top.kind = "Block" -> "part" [] Top.kind = "Globals" -> "globals"
                 [] Top.kind = "If" -> "else"
  BY DEF NextPart, NextGlobal, IfThen, ReturnTo, Keep
<1>2. open' = << >> /\ nodes \in Seq(Node) /\ InputOK /\ FramesOK /\ Len(nodes) \in Nat
  <2>1. open = << >>
    BY <1>1 DEF Typed, AtOK, InExp
  <2>2. nodes \in Seq(Node) /\ InputOK /\ FramesOK
    BY DEF Typed
  <2> QED
    BY <1>1, <2>1, <2>2
<1>3. Top \in Frame /\ Append(Top.kids, Len(nodes)) \in Seq(Nat)
  BY <1>1, <1>2, TopFacts DEF Frame
<1>4. /\ [Top EXCEPT !.kids = Append(Top.kids, Len(nodes))] \in Frame
      /\ [Top EXCEPT !.kids = Append(Top.kids, Len(nodes))].kind = Top.kind
  BY <1>3, KidsTyped
<1>5. FramesNext /\ frames' # << >> /\ Top'.kind = Top.kind /\ Alphabet' = Alphabet
      /\ Len(frames') = Len(frames)
  <2>1. /\ FramesNext /\ frames' # << >> /\ Len(frames') = Len(frames)
        /\ Top' = [Top EXCEPT !.kids = Append(Top.kids, Len(nodes))]
    BY <1>1, <1>2, <1>4, SwapFrame
  <2> QED
    BY <1>4, <2>1, AlphabetSame DEF FramesNext
<1>6. Kept
  BY <1>1, <1>2, <1>5, InputSame
<1>7. Top.kind = "Globals" => Len(frames) = 1
  <2>1. Len(frames) \in Nat \ {0} /\ Top = frames[Len(frames)] /\ frames \in Seq(Frame)
    BY <1>1, <1>2, TopFacts DEF FramesOK
  <2>2. Len(frames) \in DOMAIN frames
    BY <2>1
  <2> QED
    BY <1>2, <2>1, <2>2 DEF FramesOK
<1>8. AtOK'
  BY <1>1, <1>2, <1>5, <1>7, AtSteady DEF Steady
<1>9. Owned'
  BY <1>1, <1>5, SignatureStates DEF Owned
<1> QED
  BY <1>1, <1>2, <1>5, <1>6, <1>8, <1>9, Compose

LEMMA EmptyBlockTyped ==
    ASSUME Typed, EmptyBlock
    PROVE  Typed' /\ Kept /\ Len(input') = Len(input) + 1
<1>1. /\ at = "block" /\ tok = ";" /\ Consume /\ at' = "return" /\ frames' = frames /\ open' = open
      /\ nodes' = Append(nodes, Made("Block", Here, Here, << >>))
  BY DEF EmptyBlock
<1>2. open' = << >> /\ nodes \in Seq(Node) /\ InputOK /\ FramesOK
  BY <1>1, SignatureStates DEF Typed, AtOK, InExp
<1>3. Made("Block", Here, Here, << >>) \in Node
  <2>1. Here \in Nat /\ << >> \in Seq(Nat) /\ "Block" \in Kinds
    BY Numbers DEF Kinds
  <2> QED
    BY <2>1, MadeTyped
<1>4. nodes' \in Seq(Node)
  BY <1>1, <1>2, <1>3, NodeMore
<1>5. FramesNext /\ Alphabet' = Alphabet
  BY <1>1, <1>2, FramesSame, AlphabetSame DEF FramesNext
<1>6. Kept /\ Len(input') = Len(input) + 1
  BY <1>1, <1>2, <1>5, ConsumeGrows, GrownIsKept
<1> QED
  BY <1>1, <1>2, <1>4, <1>5, <1>6, ReturnTyped

LEMMA StepTyped == Typed /\ [Next]_vars => Typed'
<1> SUFFICES ASSUME Typed, [Next]_vars PROVE Typed'
  OBVIOUS
<1>1. Done => UNCHANGED vars
  BY DEF Done
<1> QED
  BY <1>1, StayTyped, OpenTyped, EndTyped, ConditionTyped, FinishSimpleTyped, KeepTyped,
     EmptyBlockTyped DEF Next

LEMMA InitTyped == Init => Typed
<1> SUFFICES ASSUME Init PROVE Typed
  OBVIOUS
<1> DEFINE globals == [kind |-> "Globals", start |-> 1, kids |-> << >>]
<1>1. globals \in Frame /\ globals.kind = "Globals"
  BY DEF Frame
<1> HIDE DEF globals
<1>2. MaxPieces \in Nat
  BY StatementsAssumption
<1>3. PICK t \in NextPiece(0) : input = <<t>>
  BY DEF Init
<1>4. t \in Alphabet \cup {"end"} /\ (MaxPieces = 0 => t = "end")
  BY <1>2, <1>3 DEF NextPiece
<1>5. InputOK
  <2>1. input \in Seq(Alphabet \cup {"end"}) /\ Len(input) = 1 /\ tok = t
    BY <1>3, <1>4 DEF tok
  <2> QED
    BY <1>2, <1>4, <2>1, Words DEF InputOK, InputFits
<1>6. nodes \in Seq(Node) /\ open = << >> /\ open \in Seq({"(", "[", "call"})
  BY DEF Init
<1>7. CASE at = "globals"
  <2>1. frames = <<globals>>
    BY <1>7 DEF Init, globals
  <2>2. frames \in Seq(Frame) /\ Len(frames) = 1 /\ frames # << >> /\ Top = globals
    BY <1>1, <2>1 DEF Top, Last
  <2>3. FramesOK
    BY <2>2 DEF FramesOK
  <2> QED
    BY <1>1, <1>5, <1>6, <1>7, <2>2, <2>3, SignatureStates
    DEF Typed, AtOK, Owned, InExp, States
<1>8. CASE at # "globals"
  <2>1. at = "statement" /\ frames = << >>
    BY <1>8 DEF Init, Entries
  <2>2. FramesOK
    BY <2>1 DEF FramesOK
  <2> QED
    BY <1>5, <1>6, <2>1, <2>2, SignatureStates DEF Typed, AtOK, Owned, InExp, States
<1> QED
  BY <1>7, <1>8

LEMMA AlwaysTyped == Spec => []Typed
<1>1. Init => Typed
  BY InitTyped
<1>2. Typed /\ [Next]_vars => Typed'
  BY StepTyped
<1> QED
  BY <1>1, <1>2, PTL DEF Spec

(* TypeOK: each parser of parser.hpp is entered with the frame it expects  *)
(* on the stack, and a condition or an expression only inside a statement. *)
THEOREM TypeCorrect == Spec => []TypeOK
<1>1. Typed => TypeOK
  BY TypedIsTypeOK
<1> QED
  BY <1>1, AlwaysTyped, PTL

-----------------------------------------------------------------------------
(* Where nodes begin and end. *)

(* What a number says itself, or what the lower one it names says. *)
Follows(f, n, own, said, lower, more) ==
    f[n] = IF own[n] THEN said[n] ELSE f[lower[n]] + more[n]

AllFollow(m, f, own, said, lower, more) ==
    \A n \in 1 .. m : Follows(f, n, own, said, lower, more)

Grounded(m, own, lower) == \A n \in 1 .. m : own[n] \/ lower[n] \in 1 .. n - 1

LEMMA FollowsExist ==
    ASSUME NEW m \in Nat, NEW own, NEW said \in [1 .. m -> Int], NEW lower,
           NEW more \in [1 .. m -> Int], \A n \in 1 .. m : own[n] \/ lower[n] \in 1 .. n - 1
    PROVE  \E f \in [1 .. m -> Int] : \A n \in 1 .. m : Follows(f, n, own, said, lower, more)
<1> DEFINE Good(k) == {f \in [1 .. m -> Int] :
                \A n \in 1 .. m : n <= k => Follows(f, n, own, said, lower, more)}
           S == {k \in Nat : Good(k) # {}}
<1>1. 0 \in S
  <2>1. said \in Good(0)
    OBVIOUS
  <2> HIDE DEF Good
  <2> QED
    BY <2>1
<1>2. ASSUME NEW k \in Nat, k \in S PROVE k + 1 \in S
  <2>1. PICK f \in [1 .. m -> Int] : f \in Good(k)
    BY <1>2
  <2> DEFINE g == [n \in 1 .. m |-> IF n <= k THEN f[n]
                                    ELSE IF own[n] THEN said[n]
                                    ELSE IF lower[n] \in 1 .. m THEN f[lower[n]] + more[n] ELSE 0]
  <2>2. g \in [1 .. m -> Int]
    <3>1. f \in [1 .. m -> Int]
      BY <2>1
    <3> HIDE DEF Good, S
    <3>2. ASSUME NEW n \in 1 .. m, lower[n] \in 1 .. m PROVE f[lower[n]] + more[n] \in Int
      <4>1. f[lower[n]] \in Int /\ more[n] \in Int
        BY <3>1, <3>2
      <4> QED
        BY <4>1
    <3>3. \A n \in 1 .. m : f[n] \in Int /\ said[n] \in Int /\ 0 \in Int
      BY <3>1
    <3> QED
      BY <3>2, <3>3, ZenonT(30)
  <2>3. \A n \in 1 .. m : n <= k => g[n] = f[n]
    <3> HIDE DEF Good, S
    <3> QED
      OBVIOUS
  <2>4. ASSUME NEW n \in 1 .. m, n <= k + 1
        PROVE  Follows(g, n, own, said, lower, more)
    <3>1. ASSUME ~own[n] PROVE lower[n] \in 1 .. m /\ lower[n] <= k /\ g[lower[n]] = f[lower[n]]
      <4>1. lower[n] \in 1 .. n - 1
        BY <3>1
      <4>2. lower[n] \in 1 .. m /\ lower[n] <= k
        BY <2>4, <4>1
      <4> HIDE DEF Good, S, g
      <4> QED
        BY <2>3, <4>2
    <3>2. CASE n <= k
      <4>1. Follows(f, n, own, said, lower, more) /\ g[n] = f[n]
        BY <2>1, <2>3, <3>2
      <4> HIDE DEF g
      <4> QED
        BY <3>1, <4>1 DEF Follows
    <3>3. CASE n > k
      <4>1. g[n] = IF own[n] THEN said[n] ELSE IF lower[n] \in 1 .. m THEN f[lower[n]] + more[n] ELSE 0
        BY <3>3
      <4> HIDE DEF g
      <4> QED
        BY <3>1, <4>1 DEF Follows
    <3> QED
      BY <3>2, <3>3
  <2>5. g \in Good(k + 1)
    <3> HIDE DEF g
    <3> QED
      BY <2>2, <2>4
  <2> HIDE DEF Good, g
  <2> QED
    BY <2>5
<1>3. m \in S
  <2> HIDE DEF S
  <2> QED
    BY <1>1, <1>2, SetInduction
<1> QED
  BY <1>3

LEMMA FollowsAlone ==
    ASSUME NEW m \in Nat, NEW own, NEW said, NEW lower, NEW more, NEW f, NEW g,
           Grounded(m, own, lower),
           AllFollow(m, f, own, said, lower, more), AllFollow(m, g, own, said, lower, more)
    PROVE  \A n \in 1 .. m : f[n] = g[n]
<1> DEFINE S == {k \in Nat : \A n \in 1 .. m : n <= k => f[n] = g[n]}
<1>1. 0 \in S
  OBVIOUS
<1>2. ASSUME NEW k \in Nat, k \in S PROVE k + 1 \in S
  <2>1. ASSUME NEW n \in 1 .. m, n <= k + 1 PROVE f[n] = g[n]
    <3>1. ~own[n] => f[lower[n]] = g[lower[n]]
      <4>1. own[n] \/ lower[n] \in 1 .. n - 1
        BY DEF Grounded
      <4> QED
        BY <1>2, <2>1, <4>1
    <3>2. /\ Follows(f, n, own, said, lower, more) /\ Follows(g, n, own, said, lower, more)
      BY DEF AllFollow
    <3> QED
      BY <3>1, <3>2 DEF Follows
  <2> QED
    BY <2>1
<1>3. Nat \subseteq S
  <2> HIDE DEF S
  <2> QED
    BY <1>1, <1>2, SetInduction
<1> QED
  BY <1>3

(* The parts of a node were made before it, and what has no text has parts. *)
NodeShape(n, i) ==
    /\ \A k \in DOMAIN n.kids : n.kids[k] \in 1 .. i - 1
    /\ n.kind \in {"Basic", "Return", "Function"} => Len(n.kids) = 1
    /\ n.kind = "While" => Len(n.kids) = 2
    /\ n.kind = "If" => Len(n.kids) \in {2, 3}
    /\ n.kind = "Block" /\ n.first = 0 => Len(n.kids) = 1
    /\ n.first = 0 => n.kind \in {"If", "Block"}

KidsOlder == \A i \in DOMAIN nodes : NodeShape(nodes[i], i)

Older(ns) == ns \in Seq(Node) /\ \A i \in 1 .. Len(ns) : NodeShape(ns[i], i)

LoOf(ns) ==
    LET lo[n \in DOMAIN ns] ==
            CASE ns[n].first # 0 -> ns[n].first
              [] ns[n].first = 0 /\ ns[n].kind = "If" -> lo[ns[n].kids[1]] - 1
              [] OTHER -> lo[ns[n].kids[1]]
    IN lo

HiOf(ns) ==
    LET hi[n \in DOMAIN ns] == IF ns[n].first # 0 THEN ns[n].last ELSE hi[Last(ns[n].kids)]
    IN hi

LEMMA LoIsLoOf == Lo = LoOf(nodes)
BY DEF Lo, LoOf

LEMMA HiIsHiOf == Hi = HiOf(nodes)
BY DEF Hi, HiOf

Told(ns) == [n \in 1 .. Len(ns) |-> ns[n].first # 0]
Firsts(ns) == [n \in 1 .. Len(ns) |-> ns[n].first]
Lasts(ns) == [n \in 1 .. Len(ns) |-> ns[n].last]
Eldest(ns) == [n \in 1 .. Len(ns) |-> ns[n].kids[1]]
Youngest(ns) == [n \in 1 .. Len(ns) |-> ns[n].kids[Len(ns[n].kids)]]
Word(ns) == [n \in 1 .. Len(ns) |-> IF ns[n].kind = "If" THEN 0 - 1 ELSE 0]
NoWord(ns) == [n \in 1 .. Len(ns) |-> 0]

LEMMA NodeFacts ==
    ASSUME NEW ns, Older(ns)
    PROVE  /\ Len(ns) \in Nat /\ DOMAIN ns = 1 .. Len(ns) /\ ns \in Seq(Node)
           /\ Firsts(ns) \in [1 .. Len(ns) -> Int] /\ Lasts(ns) \in [1 .. Len(ns) -> Int]
           /\ Word(ns) \in [1 .. Len(ns) -> Int] /\ NoWord(ns) \in [1 .. Len(ns) -> Int]
           /\ \A n \in 1 .. Len(ns) : Told(ns)[n] \/ Eldest(ns)[n] \in 1 .. n - 1
           /\ \A n \in 1 .. Len(ns) : Told(ns)[n] \/ Youngest(ns)[n] \in 1 .. n - 1
<1>1. Len(ns) \in Nat /\ DOMAIN ns = 1 .. Len(ns) /\ ns \in Seq(Node)
  BY DEF Older
<1>2. \A n \in 1 .. Len(ns) : ns[n] \in Node
  BY <1>1
<1>3. \A n \in 1 .. Len(ns) : ns[n].first \in Nat /\ ns[n].last \in Nat /\ ns[n].kids \in Seq(Nat)
  BY <1>2 DEF Node
<1>4. Firsts(ns) \in [1 .. Len(ns) -> Int] /\ Lasts(ns) \in [1 .. Len(ns) -> Int]
  BY <1>3 DEF Firsts, Lasts
<1>5. Word(ns) \in [1 .. Len(ns) -> Int] /\ NoWord(ns) \in [1 .. Len(ns) -> Int]
  BY <1>1 DEF Word, NoWord
<1>6. ASSUME NEW n \in 1 .. Len(ns)
      PROVE  /\ Told(ns)[n] \/ Eldest(ns)[n] \in 1 .. n - 1
             /\ Told(ns)[n] \/ Youngest(ns)[n] \in 1 .. n - 1
  <2>1. CASE ns[n].first # 0
    BY <2>1 DEF Told
  <2>2. CASE ns[n].first = 0
    <3>1. NodeShape(ns[n], n)
      BY DEF Older
    <3>2. Len(ns[n].kids) \in {1, 2, 3}
      BY <2>2, <3>1 DEF NodeShape
    <3>3. 1 \in DOMAIN ns[n].kids /\ Len(ns[n].kids) \in DOMAIN ns[n].kids
      BY <1>3, <3>2
    <3>4. ns[n].kids[1] \in 1 .. n - 1 /\ ns[n].kids[Len(ns[n].kids)] \in 1 .. n - 1
      BY <3>1, <3>3 DEF NodeShape
    <3> QED
      BY <3>4 DEF Eldest, Youngest
  <2> QED
    BY <2>1, <2>2
<1> QED
  BY <1>1, <1>4, <1>5, <1>6

LoFits(ns, n, lo) == Follows(lo, n, Told(ns), Firsts(ns), Eldest(ns), Word(ns))
HiFits(ns, n, hi) == Follows(hi, n, Told(ns), Lasts(ns), Youngest(ns), NoWord(ns))

LEMMA LoExists ==
    ASSUME NEW ns, Older(ns)
    PROVE  LoOf(ns) \in [1 .. Len(ns) -> Int] /\ \A n \in 1 .. Len(ns) : LoFits(ns, n, LoOf(ns))
<1> DEFINE m == Len(ns)
           Step(g) == [n \in 1 .. m |->
                CASE ns[n].first # 0 -> ns[n].first
                  [] ns[n].first = 0 /\ ns[n].kind = "If" -> g[ns[n].kids[1]] - 1
                  [] OTHER -> g[ns[n].kids[1]]]
           lo == CHOOSE g : g = Step(g)
<1>1. m \in Nat /\ DOMAIN ns = 1 .. m
  BY NodeFacts
<1>2. PICK f \in [1 .. m -> Int] : \A n \in 1 .. m : LoFits(ns, n, f)
  BY NodeFacts, FollowsExist DEF LoFits
<1>3. ASSUME NEW n \in 1 .. m, NEW g
      PROVE  /\ ns[n].first # 0 => Step(g)[n] = ns[n].first
             /\ ns[n].first = 0 /\ ns[n].kind = "If" => Step(g)[n] = g[ns[n].kids[1]] - 1
             /\ ns[n].first = 0 /\ ns[n].kind # "If" => Step(g)[n] = g[ns[n].kids[1]]
  OBVIOUS
<1>4. ASSUME NEW n \in 1 .. m, NEW g, ns[n].first = 0 => g[ns[n].kids[1]] \in Int
      PROVE  LoFits(ns, n, g) <=> g[n] = Step(g)[n]
  <2> HIDE DEF Step
  <2>1. CASE ns[n].first # 0
    BY <1>3, <2>1 DEF LoFits, Follows, Told, Firsts
  <2>2. CASE ns[n].first = 0 /\ ns[n].kind = "If"
    <3>1. Step(g)[n] = g[ns[n].kids[1]] - 1
      BY <1>3, <2>2
    <3>2. LoFits(ns, n, g) <=> g[n] = g[ns[n].kids[1]] + (0 - 1)
      BY <2>2 DEF LoFits, Follows, Told, Firsts, Eldest, Word
    <3> QED
      BY <1>4, <2>2, <3>1, <3>2
  <2>3. CASE ns[n].first = 0 /\ ns[n].kind # "If"
    <3>1. Step(g)[n] = g[ns[n].kids[1]]
      BY <1>3, <2>3
    <3>2. LoFits(ns, n, g) <=> g[n] = g[ns[n].kids[1]] + 0
      BY <2>3 DEF LoFits, Follows, Told, Firsts, Eldest, Word
    <3> QED
      BY <1>4, <2>3, <3>1, <3>2
  <2> QED
    BY <2>1, <2>2, <2>3
<1>5. \A n \in 1 .. m : ns[n].first = 0 => ns[n].kids[1] \in 1 .. m
  <2> SUFFICES ASSUME NEW n \in 1 .. m, ns[n].first = 0 PROVE ns[n].kids[1] \in 1 .. m
    OBVIOUS
  <2>1. Told(ns)[n] \/ Eldest(ns)[n] \in 1 .. n - 1
    BY NodeFacts
  <2>2. ns[n].kids[1] \in 1 .. n - 1
    BY <2>1 DEF Told, Eldest
  <2> QED
    BY <1>1, <2>2
<1>6. f = Step(f)
  <2>1. \A n \in 1 .. m : f[n] = Step(f)[n]
    <3> HIDE DEF Step
    <3> QED
      BY <1>2, <1>4, <1>5
  <2> QED
    BY <2>1
<1>7. lo = Step(lo)
  <2> HIDE DEF Step
  <2> QED
    BY <1>6
<1>8. LoOf(ns) = lo
  BY <1>1 DEF LoOf
<1>9. \A n \in 1 .. m : lo[n] = f[n]
  <2> DEFINE S == {k \in Nat : \A n \in 1 .. m : n <= k => lo[n] = f[n]}
  <2>1. 0 \in S
    OBVIOUS
  <2>2. ASSUME NEW k \in Nat, k \in S PROVE k + 1 \in S
    <3> HIDE DEF lo, Step
    <3>1. ASSUME NEW n \in 1 .. m, n <= k + 1 PROVE lo[n] = f[n]
      <4>1. ns[n].first = 0 => ns[n].kids[1] \in 1 .. n - 1
        <5>1. Told(ns)[n] \/ Eldest(ns)[n] \in 1 .. n - 1
          BY NodeFacts
        <5> QED
          BY <1>1, <5>1 DEF Told, Eldest
      <4>2. ns[n].first = 0 => lo[ns[n].kids[1]] = f[ns[n].kids[1]]
        BY <1>1, <2>2, <3>1, <4>1
      <4>3. lo[n] = Step(lo)[n] /\ f[n] = Step(f)[n]
        BY <1>6, <1>7
      <4> QED
        BY <1>3, <4>2, <4>3
    <3> QED
      BY <3>1
  <2>3. Nat \subseteq S
    <3> HIDE DEF S
    <3> QED
      BY <2>1, <2>2, SetInduction
  <2> QED
    BY <1>1, <2>3
<1>10. lo = f
  <2>1. DOMAIN Step(lo) = 1 .. m /\ Step(lo) = [n \in 1 .. m |-> Step(lo)[n]]
    <3> HIDE DEF lo
    <3> QED
      OBVIOUS
  <2>2. lo = [n \in 1 .. m |-> lo[n]]
    <3> HIDE DEF lo, Step
    <3> QED
      BY <1>7, <2>1
  <2>3. f = [n \in 1 .. m |-> f[n]]
    OBVIOUS
  <2> HIDE DEF lo, Step
  <2> QED
    BY <1>9, <2>2, <2>3
<1> QED
  BY <1>2, <1>8, <1>10

LEMMA HiExists ==
    ASSUME NEW ns, Older(ns)
    PROVE  HiOf(ns) \in [1 .. Len(ns) -> Int] /\ \A n \in 1 .. Len(ns) : HiFits(ns, n, HiOf(ns))
<1> DEFINE m == Len(ns)
           Step(g) == [n \in 1 .. m |->
                IF ns[n].first # 0 THEN ns[n].last ELSE g[Last(ns[n].kids)]]
           hi == CHOOSE g : g = Step(g)
<1>1. m \in Nat /\ DOMAIN ns = 1 .. m
  BY NodeFacts
<1>2. PICK f \in [1 .. m -> Int] : \A n \in 1 .. m : HiFits(ns, n, f)
  BY NodeFacts, FollowsExist DEF HiFits
<1>3. ASSUME NEW n \in 1 .. m, NEW g
      PROVE  /\ ns[n].first # 0 => Step(g)[n] = ns[n].last
             /\ ns[n].first = 0 => Step(g)[n] = g[Last(ns[n].kids)]
  OBVIOUS
<1>4. ASSUME NEW n \in 1 .. m, NEW g, ns[n].first = 0 => g[Last(ns[n].kids)] \in Int
      PROVE  HiFits(ns, n, g) <=> g[n] = Step(g)[n]
  <2> HIDE DEF Step
  <2>1. CASE ns[n].first # 0
    BY <1>3, <2>1 DEF HiFits, Follows, Told, Lasts
  <2>2. CASE ns[n].first = 0
    <3>1. Step(g)[n] = g[Last(ns[n].kids)]
      BY <1>3, <2>2
    <3>2. HiFits(ns, n, g) <=> g[n] = g[Last(ns[n].kids)] + 0
      BY <2>2 DEF HiFits, Follows, Told, Lasts, Youngest, NoWord, Last
    <3> QED
      BY <1>4, <2>2, <3>1, <3>2
  <2> QED
    BY <2>1, <2>2
<1>5. \A n \in 1 .. m : ns[n].first = 0 => Last(ns[n].kids) \in 1 .. m
  <2> SUFFICES ASSUME NEW n \in 1 .. m, ns[n].first = 0 PROVE Last(ns[n].kids) \in 1 .. m
    OBVIOUS
  <2>1. Told(ns)[n] \/ Youngest(ns)[n] \in 1 .. n - 1
    BY NodeFacts
  <2>2. Last(ns[n].kids) \in 1 .. n - 1
    BY <2>1 DEF Told, Youngest, Last
  <2> QED
    BY <1>1, <2>2
<1>6. f = Step(f)
  <2>1. \A n \in 1 .. m : f[n] = Step(f)[n]
    <3> HIDE DEF Step
    <3> QED
      BY <1>2, <1>4, <1>5
  <2> QED
    BY <2>1
<1>7. hi = Step(hi)
  <2> HIDE DEF Step
  <2> QED
    BY <1>6
<1>8. HiOf(ns) = hi
  BY <1>1 DEF HiOf
<1>9. \A n \in 1 .. m : hi[n] = f[n]
  <2> DEFINE S == {k \in Nat : \A n \in 1 .. m : n <= k => hi[n] = f[n]}
  <2>1. 0 \in S
    OBVIOUS
  <2>2. ASSUME NEW k \in Nat, k \in S PROVE k + 1 \in S
    <3> HIDE DEF hi, Step
    <3>1. ASSUME NEW n \in 1 .. m, n <= k + 1 PROVE hi[n] = f[n]
      <4>1. ns[n].first = 0 => Last(ns[n].kids) \in 1 .. n - 1
        <5>1. Told(ns)[n] \/ Youngest(ns)[n] \in 1 .. n - 1
          BY NodeFacts
        <5> QED
          BY <1>1, <5>1 DEF Told, Youngest, Last
      <4>2. ns[n].first = 0 => hi[Last(ns[n].kids)] = f[Last(ns[n].kids)]
        BY <1>1, <2>2, <3>1, <4>1
      <4>3. hi[n] = Step(hi)[n] /\ f[n] = Step(f)[n]
        BY <1>6, <1>7
      <4> QED
        BY <1>3, <4>2, <4>3
    <3> QED
      BY <3>1
  <2>3. Nat \subseteq S
    <3> HIDE DEF S
    <3> QED
      BY <2>1, <2>2, SetInduction
  <2> QED
    BY <1>1, <2>3
<1>10. hi = f
  <2>1. DOMAIN Step(hi) = 1 .. m /\ Step(hi) = [n \in 1 .. m |-> Step(hi)[n]]
    <3> HIDE DEF hi
    <3> QED
      OBVIOUS
  <2>2. hi = [n \in 1 .. m |-> hi[n]]
    <3> HIDE DEF hi, Step
    <3> QED
      BY <1>7, <2>1
  <2>3. f = [n \in 1 .. m |-> f[n]]
    OBVIOUS
  <2> HIDE DEF hi, Step
  <2> QED
    BY <1>9, <2>2, <2>3
<1> QED
  BY <1>2, <1>8, <1>10

LEMMA LoHiOf ==
    ASSUME NEW ns, Older(ns), NEW n \in 1 .. Len(ns)
    PROVE  /\ LoOf(ns)[n] \in Int /\ HiOf(ns)[n] \in Int
           /\ ns[n].first # 0 => LoOf(ns)[n] = ns[n].first /\ HiOf(ns)[n] = ns[n].last
           /\ ns[n].first = 0 =>
                /\ ns[n].kids[1] \in 1 .. n - 1 /\ Last(ns[n].kids) \in 1 .. n - 1
                /\ HiOf(ns)[n] = HiOf(ns)[Last(ns[n].kids)]
           /\ ns[n].first = 0 /\ ns[n].kind = "If" => LoOf(ns)[n] = LoOf(ns)[ns[n].kids[1]] - 1
           /\ ns[n].first = 0 /\ ns[n].kind # "If" => LoOf(ns)[n] = LoOf(ns)[ns[n].kids[1]]
<1>1. /\ LoOf(ns) \in [1 .. Len(ns) -> Int] /\ LoFits(ns, n, LoOf(ns))
      /\ HiOf(ns) \in [1 .. Len(ns) -> Int] /\ HiFits(ns, n, HiOf(ns))
  BY LoExists, HiExists
<1>2. /\ Told(ns)[n] = (ns[n].first # 0) /\ Firsts(ns)[n] = ns[n].first /\ Lasts(ns)[n] = ns[n].last
      /\ Eldest(ns)[n] = ns[n].kids[1] /\ Youngest(ns)[n] = Last(ns[n].kids)
      /\ Word(ns)[n] = (IF ns[n].kind = "If" THEN 0 - 1 ELSE 0) /\ NoWord(ns)[n] = 0
  BY DEF Told, Firsts, Lasts, Eldest, Youngest, Word, NoWord, Last
<1>3. Len(ns) \in Nat /\ (Told(ns)[n] \/ (Eldest(ns)[n] \in 1 .. n - 1 /\ Youngest(ns)[n] \in 1 .. n - 1))
  BY NodeFacts
<1>4. CASE ns[n].first # 0
  BY <1>1, <1>2, <1>4 DEF LoFits, HiFits, Follows
<1>5. CASE ns[n].first = 0
  <2>1. ns[n].kids[1] \in 1 .. n - 1 /\ Last(ns[n].kids) \in 1 .. n - 1
    BY <1>2, <1>3, <1>5
  <2>2. /\ ns[n].kids[1] \in 1 .. Len(ns) /\ Last(ns[n].kids) \in 1 .. Len(ns)
    BY <1>3, <2>1
  <2>3. LoOf(ns)[ns[n].kids[1]] \in Int /\ HiOf(ns)[Last(ns[n].kids)] \in Int
    BY <1>1, <2>2
  <2>4. /\ LoOf(ns)[n] = LoOf(ns)[ns[n].kids[1]] + (IF ns[n].kind = "If" THEN 0 - 1 ELSE 0)
        /\ HiOf(ns)[n] = HiOf(ns)[Last(ns[n].kids)] + 0
    BY <1>1, <1>2, <1>5 DEF LoFits, HiFits, Follows
  <2>5. /\ LoOf(ns)[n] \in Int /\ HiOf(ns)[n] \in Int
        /\ HiOf(ns)[n] = HiOf(ns)[Last(ns[n].kids)]
    BY <1>1, <2>3, <2>4
  <2>6. CASE ns[n].kind = "If"
    <3>1. LoOf(ns)[n] = LoOf(ns)[ns[n].kids[1]] - 1
      BY <2>3, <2>4, <2>6
    <3> QED
      BY <1>5, <2>1, <2>5, <2>6, <3>1
  <2>7. CASE ns[n].kind # "If"
    <3>1. LoOf(ns)[n] = LoOf(ns)[ns[n].kids[1]]
      BY <2>3, <2>4, <2>7
    <3> QED
      BY <1>5, <2>1, <2>5, <2>7, <3>1
  <2> QED
    BY <2>6, <2>7
<1> QED
  BY <1>4, <1>5

(* Nodes that are made do not move those that were. *)
LEMMA LoHiKept ==
    ASSUME NEW ns, NEW ms, Older(ns), Older(ms), Len(ns) <= Len(ms),
           \A n \in 1 .. Len(ns) : ms[n] = ns[n]
    PROVE  \A n \in 1 .. Len(ns) : LoOf(ms)[n] = LoOf(ns)[n] /\ HiOf(ms)[n] = HiOf(ns)[n]
<1>1. Len(ns) \in Nat /\ Len(ms) \in Nat
  BY NodeFacts
<1>2. ASSUME NEW n \in 1 .. Len(ns)
      PROVE  /\ n \in 1 .. Len(ms)
             /\ Told(ms)[n] = Told(ns)[n] /\ Firsts(ms)[n] = Firsts(ns)[n]
             /\ Lasts(ms)[n] = Lasts(ns)[n] /\ Eldest(ms)[n] = Eldest(ns)[n]
             /\ Youngest(ms)[n] = Youngest(ns)[n] /\ Word(ms)[n] = Word(ns)[n]
             /\ NoWord(ms)[n] = NoWord(ns)[n]
  BY <1>1 DEF Told, Firsts, Lasts, Eldest, Youngest, Word, NoWord
<1>3. \A n \in 1 .. Len(ns) : LoFits(ns, n, LoOf(ns)) /\ HiFits(ns, n, HiOf(ns))
  BY LoExists, HiExists
<1>4. \A n \in 1 .. Len(ms) : LoFits(ms, n, LoOf(ms)) /\ HiFits(ms, n, HiOf(ms))
  BY LoExists, HiExists
<1>5. \A n \in 1 .. Len(ns) : LoFits(ns, n, LoOf(ms)) /\ HiFits(ns, n, HiOf(ms))
  BY <1>2, <1>4 DEF LoFits, HiFits, Follows
<1>6. Grounded(Len(ns), Told(ns), Eldest(ns)) /\ Grounded(Len(ns), Told(ns), Youngest(ns))
  BY NodeFacts DEF Grounded
<1>7. \A n \in 1 .. Len(ns) : LoOf(ms)[n] = LoOf(ns)[n]
  <2>1. AllFollow(Len(ns), LoOf(ms), Told(ns), Firsts(ns), Eldest(ns), Word(ns))
    BY <1>5 DEF LoFits, AllFollow
  <2>2. AllFollow(Len(ns), LoOf(ns), Told(ns), Firsts(ns), Eldest(ns), Word(ns))
    BY <1>3 DEF LoFits, AllFollow
  <2> QED
    BY <1>1, <1>6, <2>1, <2>2, FollowsAlone
<1>8. \A n \in 1 .. Len(ns) : HiOf(ms)[n] = HiOf(ns)[n]
  <2>1. AllFollow(Len(ns), HiOf(ms), Told(ns), Lasts(ns), Youngest(ns), NoWord(ns))
    BY <1>5 DEF HiFits, AllFollow
  <2>2. AllFollow(Len(ns), HiOf(ns), Told(ns), Lasts(ns), Youngest(ns), NoWord(ns))
    BY <1>3 DEF HiFits, AllFollow
  <2> QED
    BY <1>1, <1>6, <2>1, <2>2, FollowsAlone
<1> QED
  BY <1>7, <1>8

LEMMA LoHiNext ==
    ASSUME Typed', KidsOlder', NEW n \in 1 .. Out'
    PROVE  /\ Lo'[n] \in Int /\ Hi'[n] \in Int
           /\ nodes'[n].first # 0 => Lo'[n] = nodes'[n].first /\ Hi'[n] = nodes'[n].last
           /\ nodes'[n].first = 0 =>
                /\ nodes'[n].kids[1] \in 1 .. n - 1 /\ Last(nodes'[n].kids) \in 1 .. n - 1
                /\ Hi'[n] = Hi'[Last(nodes'[n].kids)]
           /\ nodes'[n].first = 0 /\ nodes'[n].kind = "If" => Lo'[n] = Lo'[nodes'[n].kids[1]] - 1
           /\ nodes'[n].first = 0 /\ nodes'[n].kind # "If" => Lo'[n] = Lo'[nodes'[n].kids[1]]
<1>1. Older(nodes')
  BY DEF Typed, KidsOlder, Older
<1>2. Lo' = LoOf(nodes') /\ Hi' = HiOf(nodes')
  BY DEF Lo, Hi, LoOf, HiOf
<1> QED
  BY <1>1, <1>2, LoHiOf DEF Out

(* More nodes, or none. *)
More ==
    /\ Len(nodes') >= Len(nodes)
    /\ \A n \in 1 .. Len(nodes) : nodes'[n] = nodes[n] /\ Lo'[n] = Lo[n] /\ Hi'[n] = Hi[n]

LEMMA MoreNodes ==
    ASSUME Typed, Typed', KidsOlder, KidsOlder', Len(nodes') >= Len(nodes),
           \A n \in 1 .. Len(nodes) : nodes'[n] = nodes[n]
    PROVE  More
<1>1. Older(nodes) /\ Older(nodes')
  BY DEF Typed, KidsOlder, Older
<1>2. Lo' = LoOf(nodes') /\ Hi' = HiOf(nodes')
  BY DEF Lo, Hi, LoOf, HiOf
<1>3. Len(nodes') \in Nat /\ Len(nodes) \in Nat
  BY <1>1, NodeFacts
<1> QED
  BY <1>1, <1>2, <1>3, LoHiKept, LoIsLoOf, HiIsHiOf DEF More

-----------------------------------------------------------------------------
(* The inductive invariant: what nodes and open statements are the text of. *)

Continuing == {"infix", "postfix", "(", "["}

Placed(n) == Lo[n] \in 1 .. Hi[n] /\ Hi[n] \in 1 .. Here - 1

(* What BodyStartsFresh and ElseNearest rest on. *)
Fresh(n) == nodes[n].kind \in {"If", "While"} => input[Lo[nodes[n].kids[2]]] \notin Continuing
NoElse(n) == nodes[n].kind = "If" /\ Len(nodes[n].kids) = 2 => LeadAt(Hi[n] + 1) # "else"

(* Whole, with the parts of every kind of node named one by one. *)
Braced(n) ==
    \/ input[Lo[n]] = "{" /\ input[Hi[n]] = "}" /\ Row(nodes[n].kids, Lo[n] + 1, Hi[n] - 1)
    \/ input[Lo[n]] = ";" /\ Lo[n] = Hi[n] /\ nodes[n].kids = << >>

FillsSimple(n, kind, k) ==
    /\ kind = "Exp" => \A p \in Lo[n] .. Hi[n] : input[p] \notin {";", "{", "}"}
    /\ kind = "Basic" => Lo[k[1]] = Lo[n] /\ Hi[k[1]] = Hi[n] - 1 /\ input[Hi[n]] = ";"
    /\ kind = "Return" =>
            /\ LeadAt(Lo[n]) = "return" /\ Lo[k[1]] = Lo[n] + 1
            /\ Hi[k[1]] = IF input[Hi[n]] = ";" THEN Hi[n] - 1 ELSE Hi[n]

FillsBranches(n, kind, k) ==
    /\ kind = "While" => LeadAt(Lo[n]) = "while" /\ Hi[k[2]] = Hi[n]
    /\ kind = "If" => LeadAt(Lo[n]) = "if"
    /\ kind \in {"While", "If"} => Lo[k[1]] = Lo[n] + 1 /\ Lo[k[2]] = Hi[k[1]] + 1
    /\ kind = "If" /\ Len(k) = 2 => Hi[k[2]] = Hi[n]
    /\ kind = "If" /\ Len(k) = 3 =>
            Lo[k[3]] = Hi[k[2]] + 2 /\ LeadAt(Hi[k[2]] + 1) = "else" /\ Hi[k[3]] = Hi[n]

FillsGlobal(n, kind, k) ==
    /\ kind \in {"FuncDec", "Function"} => LeadAt(Lo[n]) \in {"fn", "cfn"}
    /\ kind = "FuncDec" => input[Hi[n]] = ";"
    /\ kind = "Function" =>
            /\ Hi[k[1]] = Hi[n] /\ Lo[n] < Lo[k[1]]
            /\ input[Lo[k[1]]] = "{" /\ input[Lo[k[1]] - 1] = ")"

Fills(n) ==
    /\ FillsSimple(n, nodes[n].kind, nodes[n].kids)
    /\ FillsBranches(n, nodes[n].kind, nodes[n].kids)
    /\ nodes[n].kind = "Block" /\ nodes[n].first # 0 => Braced(n)
    /\ FillsGlobal(n, nodes[n].kind, nodes[n].kids)

NodeFits(n) == Placed(n) /\ Fills(n) /\ Fresh(n) /\ NoElse(n)

NodesFit == \A n \in 1 .. Out : NodeFits(n)

(* Where the first part of a statement begins. *)
From(f) == IF f.kind \in {"Globals", "Basic", "Single"} THEN f.start ELSE f.start + 1

(* The parts of a frame are in a row behind its word. *)
InRow(f) ==
    /\ \A i \in DOMAIN f.kids : f.kids[i] \in 1 .. Out
    /\ \A i \in 1 .. Len(f.kids) - 1 : Lo[f.kids[i + 1]] = Hi[f.kids[i]] + 1
    /\ f.kids # << >> => Lo[f.kids[1]] = From(f)

Worded(f) ==
    /\ f.kind = "Globals" => f.start = 1
    /\ f.kind = "Block" => input[f.start] = "{"
    /\ f.kind = "Function" => LeadAt(f.start) \in {"fn", "cfn"}
    /\ f.kind = "Return" => LeadAt(f.start) = "return"
    /\ f.kind = "While" => LeadAt(f.start) = "while" /\ Len(f.kids) <= 1
    /\ f.kind = "If" => LeadAt(f.start) = "if" /\ Len(f.kids) <= 2
    /\ f.kind \in {"Function", "Basic", "Return", "Single"} => f.kids = << >>
    /\ f.kind \in {"If", "While"} /\ f.kids # << >> => input[Hi[f.kids[1]] + 1] \notin Continuing

Laid(f) == f.start \in 1 .. Here /\ InRow(f) /\ Worded(f)

(* A part of the frame begins at p. *)
Begins(f, p) ==
    /\ f.kind \notin {"Basic", "Return"}
    /\ f.kind \in {"While", "If"} => f.kids # << >>
    /\ f.kind = "Function" => f.start < p - 1 /\ input[p - 1] = ")" /\ input[p] = "{"
    /\ f.kind = "If" /\ Len(f.kids) = 2 => p = Hi[f.kids[2]] + 2 /\ LeadAt(p - 1) = "else"
    /\ f.kind # "Function" /\ ~(f.kind = "If" /\ Len(f.kids) = 2) =>
            p = IF f.kids = << >> THEN From(f) ELSE Hi[Last(f.kids)] + 1

(* The node in hand ends here, and is what was to begin where it does. *)
InHand ==
    /\ Out > 0 /\ Hi[Out] = Here - 1
    /\ frames = << >> => Lo[Out] = 1
    /\ frames # << >> => Begins(Top, Lo[Out])

(* An expression is read, and no text of one has a brace or a semicolon. *)
Reading ==
    /\ Top.kids = << >> /\ From(Top) <= Here /\ (at = "loop" => From(Top) < Here)
    /\ \A p \in From(Top) .. Here - 1 : input[p] \notin {";", "{", "}"}

(* What is read now. *)
Now ==
    /\ at \in {"globals", "part", "block"} => Begins(Top, Here)
    /\ at = "statement" => IF frames = << >> THEN Here = 1 ELSE Begins(Top, Here)
    /\ at = "else" => Len(Top.kids) = 2 /\ Here = Hi[Top.kids[2]] + 1
    /\ at = "body" => Top.start < Here - 1 /\ input[Here - 1] = ")"
    /\ at \in InSignature => Top.start < Here
    /\ InExp => Reading
    /\ at = "return" => InHand
    /\ at = "done" => IF InGlobals THEN Begins(Top, Here) ELSE frames = << >> /\ InHand

Stacked ==
    /\ frames # << >> => frames[1].start = 1
    /\ \A i \in 1 .. Len(frames) : Laid(frames[i])
    /\ \A i \in 1 .. Len(frames) - 1 : Begins(frames[i], frames[i + 1].start)

Inductive == KidsOlder /\ NodesFit /\ (at # "error" => Stacked /\ Now)

-----------------------------------------------------------------------------
(* What was read stays where it is. *)

Still == Typed /\ Kept /\ More /\ KidsOlder /\ NodesFit

LEMMA KidFacts ==
    ASSUME Typed, KidsOlder, NodesFit, NEW n \in 1 .. Out
    PROVE  /\ nodes[n] \in Node /\ nodes[n].kids \in Seq(Nat) /\ NodeShape(nodes[n], n)
           /\ \A i \in DOMAIN nodes[n].kids :
                nodes[n].kids[i] \in 1 .. Out /\ Placed(nodes[n].kids[i])
<1>1. nodes \in Seq(Node) /\ Out \in Nat /\ Out = Len(nodes)
  BY Numbers DEF Typed, Out
<1>2. nodes[n] \in Node /\ NodeShape(nodes[n], n)
  BY <1>1 DEF KidsOlder
<1>3. nodes[n].kids \in Seq(Nat)
  BY <1>2 DEF Node
<1>4. ASSUME NEW i \in DOMAIN nodes[n].kids
      PROVE  nodes[n].kids[i] \in 1 .. Out /\ Placed(nodes[n].kids[i])
  <2>1. nodes[n].kids[i] \in 1 .. n - 1
    BY <1>2 DEF NodeShape
  <2>2. nodes[n].kids[i] \in 1 .. Out
    BY <1>1, <2>1
  <2> QED
    BY <2>2 DEF NodesFit, NodeFits
<1> QED
  BY <1>2, <1>3, <1>4

LEMMA StillThere ==
    ASSUME Still
    PROVE  /\ Here \in Nat \ {0} /\ Here' \in Nat /\ Here <= Here' /\ Out \in Nat
           /\ \A p \in 1 .. Here : input'[p] = input[p] /\ LeadAt(p)' = LeadAt(p)
           /\ \A n \in 1 .. Out : nodes'[n] = nodes[n] /\ Lo'[n] = Lo[n] /\ Hi'[n] = Hi[n]
<1>1. Here \in Nat \ {0} /\ Here = Len(input) /\ Here' = Len(input') /\ Out \in Nat
  BY Numbers DEF Still, Here
<1>2. Here' \in Nat /\ Here <= Here' /\ \A p \in 1 .. Here : input'[p] = input[p]
  <2>1. MaxPieces \in Nat
    BY StatementsAssumption
  <2> QED
    BY <1>1, <2>1 DEF Still, Kept, InputOK
<1>3. \A p \in 1 .. Here : LeadAt(p)' = LeadAt(p)
  BY <1>2 DEF LeadAt
<1> QED
  BY <1>1, <1>2, <1>3 DEF Still, More, Out

LEMMA StillPlaced ==
    ASSUME Still, NEW n \in 1 .. Out
    PROVE  Placed(n)'
<1>1. Placed(n)
  BY DEF Still, NodesFit, NodeFits
<1>2. /\ Here \in Nat \ {0} /\ Here' \in Nat /\ Here <= Here'
      /\ Lo'[n] = Lo[n] /\ Hi'[n] = Hi[n]
  BY StillThere
<1> QED
  BY <1>1, <1>2 DEF Placed

LEMMA Indices ==
    ASSUME NEW k \in Seq(Nat)
    PROVE  /\ Len(k) = 1 => 1 \in DOMAIN k
           /\ Len(k) = 2 => 1 \in DOMAIN k /\ 2 \in DOMAIN k
           /\ Len(k) = 3 => 1 \in DOMAIN k /\ 2 \in DOMAIN k /\ 3 \in DOMAIN k
OBVIOUS

LEMMA StillFills ==
    ASSUME Still, NEW n \in 1 .. Out
    PROVE  Fills(n)'
<1> DEFINE k == nodes[n].kids
           kind == nodes[n].kind
<1>1. /\ nodes[n] \in Node /\ k \in Seq(Nat) /\ NodeShape(nodes[n], n)
      /\ \A i \in DOMAIN k : k[i] \in 1 .. Out /\ Placed(k[i])
  BY KidFacts DEF Still
<1>2. Fills(n) /\ Placed(n)
  BY DEF Still, NodesFit, NodeFits
<1>3. /\ Here \in Nat \ {0} /\ nodes'[n] = nodes[n] /\ Lo'[n] = Lo[n] /\ Hi'[n] = Hi[n]
      /\ \A p \in 1 .. Here : input'[p] = input[p] /\ LeadAt(p)' = LeadAt(p)
  BY StillThere
<1>4. /\ Lo[n] \in 1 .. Here /\ Hi[n] \in 1 .. Here
      /\ \A p \in Lo[n] .. Hi[n] : p \in 1 .. Here
  BY <1>2, <1>3 DEF Placed
<1>5. \A i \in DOMAIN k :
        /\ Lo'[k[i]] = Lo[k[i]] /\ Hi'[k[i]] = Hi[k[i]]
        /\ Lo[k[i]] \in 1 .. Here - 1 /\ Hi[k[i]] \in 1 .. Here - 1 /\ Lo[k[i]] <= Hi[k[i]]
  <2> SUFFICES ASSUME NEW i \in DOMAIN k
               PROVE  /\ Lo'[k[i]] = Lo[k[i]] /\ Hi'[k[i]] = Hi[k[i]]
                      /\ Lo[k[i]] \in 1 .. Here - 1 /\ Hi[k[i]] \in 1 .. Here - 1
                      /\ Lo[k[i]] <= Hi[k[i]]
    OBVIOUS
  <2>1. k[i] \in 1 .. Out /\ Placed(k[i])
    BY <1>1
  <2>2. Lo'[k[i]] = Lo[k[i]] /\ Hi'[k[i]] = Hi[k[i]]
    BY <2>1, StillThere
  <2> QED
    BY <1>3, <2>1, <2>2 DEF Placed
<1>6. Len(k) \in Nat /\ DOMAIN k = 1 .. Len(k)
  BY <1>1
<1>k. /\ kind \in {"Basic", "Return", "Function"} => Len(k) = 1
      /\ kind = "While" => Len(k) = 2
      /\ kind = "If" => Len(k) = 2 \/ Len(k) = 3
  BY <1>1 DEF NodeShape
<1>d. /\ Len(k) = 1 => 1 \in DOMAIN k
      /\ Len(k) = 2 => 1 \in DOMAIN k /\ 2 \in DOMAIN k
      /\ Len(k) = 3 => 1 \in DOMAIN k /\ 2 \in DOMAIN k /\ 3 \in DOMAIN k
  BY <1>1, Indices
<1>7. FillsSimple(n, kind, k)'
  <2>1. FillsSimple(n, kind, k)
    BY <1>2 DEF Fills
  <2>2. kind \in {"Basic", "Return"} => 1 \in DOMAIN k
    BY <1>d, <1>k
  <2> QED
    BY <1>3, <1>4, <1>5, <2>1, <2>2 DEF FillsSimple
<1>8. FillsBranches(n, kind, k)'
  <2>1. FillsBranches(n, kind, k)
    BY <1>2 DEF Fills
  <2>2. /\ kind \in {"While", "If"} => 1 \in DOMAIN k /\ 2 \in DOMAIN k
        /\ Len(k) = 3 => 3 \in DOMAIN k
    BY <1>d, <1>k
  <2>3. kind = "If" /\ Len(k) = 3 => Hi[k[2]] + 1 \in 1 .. Here
    BY <1>3, <1>5, <2>2
  <2> QED
    BY <1>3, <1>4, <1>5, <2>1, <2>2, <2>3 DEF FillsBranches
<1>9. kind = "Block" /\ nodes[n].first # 0 => Braced(n)'
  <2> SUFFICES ASSUME kind = "Block" /\ nodes[n].first # 0 PROVE Braced(n)'
    OBVIOUS
  <2>1. Braced(n)
    BY <1>2 DEF Fills
  <2>2. CASE input[Lo[n]] = ";" /\ Lo[n] = Hi[n] /\ k = << >>
    BY <1>3, <1>4, <2>2 DEF Braced
  <2>3. CASE input[Lo[n]] = "{" /\ input[Hi[n]] = "}" /\ Row(k, Lo[n] + 1, Hi[n] - 1)
    <3>1. k # << >> => 1 \in DOMAIN k /\ Len(k) \in DOMAIN k
      BY <1>1, <1>6, EmptySeq
    <3>2. \A i \in 1 .. Len(k) - 1 : i \in DOMAIN k /\ i + 1 \in DOMAIN k
      BY <1>6
    <3>3. Row(k, Lo[n] + 1, Hi[n] - 1)'
      <4>1. CASE k = << >>
        BY <1>3, <2>3, <4>1 DEF Row
      <4>2. CASE k # << >>
        <5>1. /\ Lo[k[1]] = Lo[n] + 1 /\ Hi[k[Len(k)]] = Hi[n] - 1
              /\ \A i \in 1 .. Len(k) - 1 : Lo[k[i + 1]] = Hi[k[i]] + 1
          BY <2>3, <4>2 DEF Row, Last
        <5>2. Lo'[k[1]] = Lo[k[1]] /\ Hi'[k[Len(k)]] = Hi[k[Len(k)]]
          BY <1>5, <3>1, <4>2
        <5>3. \A i \in 1 .. Len(k) - 1 : Lo'[k[i + 1]] = Hi'[k[i]] + 1
          BY <1>5, <3>2, <5>1
        <5> QED
          BY <1>3, <4>2, <5>1, <5>2, <5>3 DEF Row, Last
      <4> QED
        BY <4>1, <4>2
    <3>4. input'[Lo'[n]] = "{" /\ input'[Hi'[n]] = "}"
      BY <1>3, <1>4, <2>3
    <3> QED
      BY <1>3, <3>3, <3>4 DEF Braced
  <2> QED
    BY <2>1, <2>2, <2>3 DEF Braced
<1>10. FillsGlobal(n, kind, k)'
  <2>1. FillsGlobal(n, kind, k)
    BY <1>2 DEF Fills
  <2>2. kind = "Function" => 1 \in DOMAIN k
    BY <1>d, <1>k
  <2>3. ASSUME kind = "Function"
        PROVE  /\ Lo'[k[1]] = Lo[k[1]] /\ Hi'[k[1]] = Hi[k[1]]
               /\ input'[Lo[k[1]]] = "{" /\ input'[Lo[k[1]] - 1] = ")"
    <3>1. input[Lo[k[1]]] = "{" /\ input[Lo[k[1]] - 1] = ")"
      BY <2>1, <2>3 DEF FillsGlobal
    <3>2. Lo[k[1]] \in 1 .. Here
      BY <1>3, <1>5, <2>2, <2>3
    <3>4. Lo[n] < Lo[k[1]]
      BY <2>1, <2>3 DEF FillsGlobal
    <3>3. Lo[k[1]] - 1 \in 1 .. Here
      BY <1>3, <1>4, <3>2, <3>4
    <3> QED
      BY <1>3, <1>5, <2>2, <2>3, <3>1, <3>2, <3>3
  <2> QED
    BY <1>3, <1>4, <2>1, <2>2, <2>3 DEF FillsGlobal
<1> QED
  BY <1>3, <1>7, <1>8, <1>9, <1>10 DEF Fills

LEMMA StillFits ==
    ASSUME Still, NEW n \in 1 .. Out
    PROVE  NodeFits(n)'
<1> DEFINE k == nodes[n].kids
<1>1. /\ nodes[n] \in Node /\ k \in Seq(Nat) /\ NodeShape(nodes[n], n)
      /\ \A i \in DOMAIN k : k[i] \in 1 .. Out /\ Placed(k[i])
  BY KidFacts DEF Still
<1>2. NodeFits(n) /\ Placed(n)
  BY DEF Still, NodesFit, NodeFits
<1>3. /\ Here \in Nat \ {0} /\ nodes'[n] = nodes[n] /\ Hi'[n] = Hi[n]
      /\ \A p \in 1 .. Here : input'[p] = input[p] /\ LeadAt(p)' = LeadAt(p)
  BY StillThere
<1>4. Fresh(n)'
  <2> SUFFICES ASSUME nodes[n].kind \in {"If", "While"}
               PROVE  input'[Lo'[k[2]]] \notin Continuing
    BY <1>3 DEF Fresh
  <2>1. 2 \in DOMAIN k
    BY <1>1 DEF NodeShape
  <2>2. k[2] \in 1 .. Out /\ Placed(k[2]) /\ input[Lo[k[2]]] \notin Continuing
    BY <1>1, <1>2, <2>1 DEF NodeFits, Fresh
  <2>3. Lo'[k[2]] = Lo[k[2]] /\ Lo[k[2]] \in 1 .. Here
    BY <1>3, <2>2, StillThere DEF Placed
  <2> QED
    BY <1>3, <2>2, <2>3
<1>5. NoElse(n)'
  <2>1. Hi[n] + 1 \in 1 .. Here
    BY <1>2, <1>3 DEF Placed
  <2>2. LeadAt(Hi[n] + 1)' = LeadAt(Hi[n] + 1)
    BY <1>3, <2>1
  <2> QED
    BY <1>2, <1>3, <2>2 DEF NodeFits, NoElse
<1> QED
  BY <1>4, <1>5, StillPlaced, StillFills DEF NodeFits

(* What a frame keeps. *)
LEMMA RowFacts ==
    ASSUME Typed, NodesFit, NEW f \in Frame, InRow(f)
    PROVE  /\ f.kids \in Seq(Nat) /\ Len(f.kids) \in Nat /\ DOMAIN f.kids = 1 .. Len(f.kids)
           /\ f.start \in Nat
           /\ \A i \in DOMAIN f.kids :
                /\ f.kids[i] \in 1 .. Out /\ Lo[f.kids[i]] \in 1 .. Here - 1
                /\ Hi[f.kids[i]] \in 1 .. Here - 1 /\ Lo[f.kids[i]] <= Hi[f.kids[i]]
           /\ f.kids # << >> => 1 \in DOMAIN f.kids /\ Len(f.kids) \in DOMAIN f.kids
           /\ Len(f.kids) = 2 => f.kids # << >> /\ 2 \in DOMAIN f.kids
<1>1. f.kids \in Seq(Nat) /\ f.start \in Nat
  BY DEF Frame
<1>2. Len(f.kids) \in Nat /\ DOMAIN f.kids = 1 .. Len(f.kids)
  BY <1>1
<1>3. ASSUME NEW i \in DOMAIN f.kids
      PROVE  /\ f.kids[i] \in 1 .. Out /\ Lo[f.kids[i]] \in 1 .. Here - 1
             /\ Hi[f.kids[i]] \in 1 .. Here - 1 /\ Lo[f.kids[i]] <= Hi[f.kids[i]]
  <2>1. f.kids[i] \in 1 .. Out /\ Placed(f.kids[i])
    BY DEF InRow, NodesFit, NodeFits
  <2>2. Here \in Nat
    BY Numbers
  <2> QED
    BY <2>1, <2>2 DEF Placed
<1>4. f.kids # << >> => 1 \in DOMAIN f.kids /\ Len(f.kids) \in DOMAIN f.kids
  BY <1>1, <1>2, EmptySeq
<1>5. Len(f.kids) = 2 => f.kids # << >> /\ 2 \in DOMAIN f.kids
  BY <1>1
<1> QED
  BY <1>1, <1>2, <1>3, <1>4, <1>5

LEMMA StillRow ==
    ASSUME Still, NEW f \in Frame, InRow(f)
    PROVE  /\ InRow(f)'
           /\ \A i \in DOMAIN f.kids : Lo'[f.kids[i]] = Lo[f.kids[i]] /\ Hi'[f.kids[i]] = Hi[f.kids[i]]
<1> DEFINE k == f.kids
<1>1. /\ k \in Seq(Nat) /\ Len(k) \in Nat /\ DOMAIN k = 1 .. Len(k)
      /\ \A i \in DOMAIN k : k[i] \in 1 .. Out
      /\ k # << >> => 1 \in DOMAIN k /\ Len(k) \in DOMAIN k
  BY RowFacts DEF Still
<1>2. \A i \in DOMAIN k : Lo'[k[i]] = Lo[k[i]] /\ Hi'[k[i]] = Hi[k[i]]
  BY <1>1, StillThere
<1>3. Out \in Nat /\ Out' \in Nat /\ Out <= Out'
  <2>1. Len(nodes') >= Len(nodes) /\ Out \in Nat
    BY StillThere DEF Still, More
  <2>2. Out' \in Nat
    BY <2>1, StillThere DEF Still, More, Out
  <2> QED
    BY <2>1, <2>2 DEF Out
<1>4. \A i \in DOMAIN k : k[i] \in 1 .. Out'
  BY <1>1, <1>3
<1>5. \A i \in 1 .. Len(k) - 1 : Lo'[k[i + 1]] = Hi'[k[i]] + 1
  <2>1. \A i \in 1 .. Len(k) - 1 : i \in DOMAIN k /\ i + 1 \in DOMAIN k /\ Lo[k[i + 1]] = Hi[k[i]] + 1
    BY <1>1 DEF InRow
  <2> QED
    BY <1>2, <2>1
<1>6. k # << >> => Lo'[k[1]] = From(f)
  BY <1>1, <1>2 DEF InRow
<1> QED
  BY <1>2, <1>4, <1>5, <1>6 DEF InRow, From

LEMMA StillLaid ==
    ASSUME Still, NEW f \in Frame, Laid(f)
    PROVE  Laid(f)'
<1> DEFINE k == f.kids
<1>1. InRow(f) /\ Worded(f) /\ f.start \in 1 .. Here
  BY DEF Laid
<1>2. /\ Here \in Nat \ {0} /\ Here' \in Nat /\ Here <= Here'
      /\ \A p \in 1 .. Here : input'[p] = input[p] /\ LeadAt(p)' = LeadAt(p)
  BY StillThere
<1>3. InRow(f)' /\ \A i \in DOMAIN k : Hi'[k[i]] = Hi[k[i]]
  BY <1>1, StillRow
<1>4. /\ \A i \in DOMAIN k : Hi[k[i]] \in 1 .. Here - 1
      /\ k # << >> => 1 \in DOMAIN k
  BY <1>1, RowFacts DEF Still
<1>5. input'[f.start] = input[f.start] /\ LeadAt(f.start)' = LeadAt(f.start)
  BY <1>1, <1>2
<1>6. k # << >> => input'[Hi'[k[1]] + 1] = input[Hi[k[1]] + 1]
  <2> SUFFICES ASSUME k # << >> PROVE input'[Hi'[k[1]] + 1] = input[Hi[k[1]] + 1]
    OBVIOUS
  <2>1. Hi[k[1]] + 1 \in 1 .. Here
    BY <1>2, <1>4
  <2> QED
    BY <1>2, <1>3, <1>4, <2>1
<1>7. Worded(f)'
  BY <1>1, <1>5, <1>6 DEF Worded
<1>8. f.start \in 1 .. Here'
  BY <1>1, <1>2
<1> QED
  BY <1>3, <1>7, <1>8 DEF Laid

LEMMA StillBegins ==
    ASSUME Still, NEW f \in Frame, InRow(f), NEW p \in 1 .. Here, Begins(f, p)
    PROVE  Begins(f, p)'
<1> DEFINE k == f.kids
<1>1. /\ Here \in Nat \ {0}
      /\ \A q \in 1 .. Here : input'[q] = input[q] /\ LeadAt(q)' = LeadAt(q)
  BY StillThere
<1>2. \A i \in DOMAIN k : Hi'[k[i]] = Hi[k[i]]
  BY StillRow
<1>3. /\ \A i \in DOMAIN k : Hi[k[i]] \in 1 .. Here - 1
      /\ k # << >> => Len(k) \in DOMAIN k
      /\ Len(k) = 2 => 2 \in DOMAIN k
      /\ f.start \in Nat
  BY RowFacts DEF Still
<1>4. ASSUME f.kind = "Function"
      PROVE  f.start < p - 1 /\ input'[p - 1] = ")" /\ input'[p] = "{"
  <2>1. f.start < p - 1 /\ input[p - 1] = ")" /\ input[p] = "{"
    BY <1>4 DEF Begins
  <2>3. f.start < p - 1 /\ f.start \in Nat /\ Here \in Nat
    BY <1>1, <1>3, <2>1
  <2>2. p - 1 \in 1 .. Here
    BY <2>3
  <2> QED
    BY <1>1, <2>1, <2>2
<1>5. ASSUME f.kind = "If", Len(k) = 2
      PROVE  p = Hi'[k[2]] + 2 /\ LeadAt(p - 1)' = "else"
  <2>1. p = Hi[k[2]] + 2 /\ LeadAt(p - 1) = "else"
    BY <1>5 DEF Begins
  <2>2. p - 1 \in 1 .. Here
    BY <1>1, <1>3, <1>5, <2>1
  <2> QED
    BY <1>1, <1>2, <1>3, <1>5, <2>1, <2>2
<1>6. ASSUME f.kind # "Function", ~(f.kind = "If" /\ Len(k) = 2)
      PROVE  p = IF k = << >> THEN From(f) ELSE Hi'[Last(k)] + 1
  <2>1. p = IF k = << >> THEN From(f) ELSE Hi[Last(k)] + 1
    BY <1>6 DEF Begins
  <2> QED
    BY <1>2, <1>3, <2>1 DEF Last
<1>7. /\ f.kind \notin {"Basic", "Return"}
      /\ f.kind \in {"While", "If"} => k # << >>
  BY DEF Begins
<1> QED
  BY <1>4, <1>5, <1>6, <1>7 DEF Begins, From

-----------------------------------------------------------------------------
(* Frames that stay, come and go. *)

LEMMA FrameFacts ==
    ASSUME Typed
    PROVE  /\ frames \in Seq(Frame) /\ Len(frames) \in Nat
           /\ \A i \in 1 .. Len(frames) : frames[i] \in Frame
           /\ frames # << >> => Len(frames) >= 1 /\ Top = frames[Len(frames)] /\ Top \in Frame
<1>1. frames \in Seq(Frame)
  BY DEF Typed, FramesOK
<1>2. frames # << >> => Len(frames) >= 1
  BY <1>1, EmptySeq
<1> QED
  BY <1>1, <1>2 DEF Top, Last

LEMMA StackPart ==
    ASSUME Still, Stacked, NEW m \in 0 .. Len(frames),
           \A i \in 1 .. m : frames'[i] = frames[i]
    PROVE  /\ \A i \in 1 .. m : Laid(frames[i])'
           /\ \A i \in 1 .. m - 1 : Begins(frames[i], frames[i + 1].start)'
<1>1. frames \in Seq(Frame) /\ Len(frames) \in Nat /\ \A i \in 1 .. Len(frames) : frames[i] \in Frame
  BY FrameFacts DEF Still
<1>2. ASSUME NEW i \in 1 .. m PROVE Laid(frames[i])'
  <2>1. i \in 1 .. Len(frames)
    BY <1>1
  <2>2. frames[i] \in Frame /\ Laid(frames[i]) /\ frames'[i] = frames[i]
    BY <1>1, <2>1 DEF Stacked
  <2> QED
    BY <2>2, StillLaid
<1>3. ASSUME NEW i \in 1 .. m - 1 PROVE Begins(frames[i], frames[i + 1].start)'
  <2>1. i \in 1 .. m /\ i + 1 \in 1 .. m /\ i \in 1 .. Len(frames) - 1
        /\ i \in 1 .. Len(frames) /\ i + 1 \in 1 .. Len(frames)
    BY <1>1
  <2>2. /\ frames[i] \in Frame /\ Laid(frames[i]) /\ frames'[i] = frames[i]
        /\ Laid(frames[i + 1]) /\ frames'[i + 1] = frames[i + 1]
        /\ Begins(frames[i], frames[i + 1].start)
    BY <1>1, <2>1 DEF Stacked
  <2>3. InRow(frames[i]) /\ frames[i + 1].start \in 1 .. Here
    BY <2>2 DEF Laid
  <2> QED
    BY <2>2, <2>3, StillBegins
<1> QED
  BY <1>2, <1>3

LEMMA StackSame ==
    ASSUME Still, Stacked, frames' = frames
    PROVE  Stacked'
<1>1. Len(frames) \in 0 .. Len(frames)
  BY FrameFacts DEF Still
<1>2. /\ \A i \in 1 .. Len(frames) : Laid(frames[i])'
      /\ \A i \in 1 .. Len(frames) - 1 : Begins(frames[i], frames[i + 1].start)'
  BY <1>1, StackPart
<1> QED
  BY <1>2 DEF Stacked

LEMMA StackPush ==
    ASSUME Still, Stacked, NEW f \in Frame, frames' = Append(frames, f), Laid(f)',
           IF frames = << >> THEN f.start = 1
           ELSE f.start \in 1 .. Here /\ Begins(Top, f.start)
    PROVE  Stacked'
<1> DEFINE m == Len(frames)
<1>1. frames \in Seq(Frame) /\ m \in Nat
  BY FrameFacts DEF Still
<1>2. /\ Len(frames') = m + 1 /\ frames'[m + 1] = f
      /\ \A i \in 1 .. m : frames'[i] = frames[i]
  BY <1>1, AppendProperties
<1>3. m \in 0 .. m
  BY <1>1
<1>4. /\ \A i \in 1 .. m : Laid(frames[i])'
      /\ \A i \in 1 .. m - 1 : Begins(frames[i], frames[i + 1].start)'
  BY <1>2, <1>3, StackPart
<1>5. \A i \in 1 .. Len(frames') : Laid(frames[i])'
  <2>1. ASSUME NEW i \in 1 .. m + 1 PROVE Laid(frames[i])'
    <3>1. CASE i \in 1 .. m
      BY <1>4, <3>1
    <3>2. CASE i = m + 1
      BY <1>2, <3>2
    <3> QED
      BY <1>1, <3>1, <3>2
  <2> QED
    BY <1>2, <2>1
<1>6. \A i \in 1 .. Len(frames') - 1 : Begins(frames[i], frames[i + 1].start)'
  <2>1. ASSUME NEW i \in 1 .. m PROVE Begins(frames[i], frames[i + 1].start)'
    <3>1. CASE i \in 1 .. m - 1
      BY <1>4, <3>1
    <3>2. CASE i = m
      <4>1. frames # << >> /\ m \in 1 .. m
        BY <1>1, <3>2
      <4>2. Top \in Frame /\ Top = frames[m] /\ Begins(Top, f.start) /\ InRow(Top)
        BY <4>1, FrameFacts DEF Still, Stacked, Laid
      <4>3. Begins(Top, f.start) /\ f.start \in 1 .. Here
        BY <4>1
      <4>4. frames'[i] = frames[m] /\ frames'[i + 1] = f
        BY <1>2, <3>2, <4>1
      <4> QED
        BY <4>2, <4>3, <4>4, StillBegins
    <3> QED
      BY <1>1, <3>1, <3>2
  <2>2. Len(frames') - 1 = m
    BY <1>1, <1>2
  <2> QED
    BY <2>1, <2>2
<1>7. frames'[1].start = 1
  <2>1. CASE frames = << >>
    <3>1. m = 0
      BY <2>1
    <3>2. frames'[1] = f
      BY <1>2, <3>1
    <3> QED
      BY <2>1, <3>2
  <2>2. CASE frames # << >>
    <3>1. 1 \in 1 .. m
      BY <1>1, <2>2, EmptySeq
    <3>2. frames'[1] = frames[1] /\ frames[1].start = 1
      BY <1>2, <2>2, <3>1 DEF Stacked
    <3> QED
      BY <3>2
  <2> QED
    BY <2>1, <2>2
<1> QED
  BY <1>5, <1>6, <1>7 DEF Stacked

LEMMA StackPop ==
    ASSUME Still, Stacked, frames # << >>, frames' = Front(frames)
    PROVE  Stacked'
<1> DEFINE m == Len(frames) - 1
<1>1. Len(frames) \in Nat \ {0} /\ Len(frames') = m /\ \A i \in 1 .. m : frames'[i] = frames[i]
  BY TopFacts DEF Still, Typed
<1>2. m \in 0 .. Len(frames)
  BY <1>1
<1>3. /\ \A i \in 1 .. m : Laid(frames[i])'
      /\ \A i \in 1 .. m - 1 : Begins(frames[i], frames[i + 1].start)'
  BY <1>1, <1>2, StackPart
<1>4. frames' # << >> => frames'[1].start = 1
  <2> SUFFICES ASSUME frames' # << >> PROVE frames'[1].start = 1
    OBVIOUS
  <2>0. frames' \in Seq(Frame)
    BY TopFacts DEF Still, Typed
  <2>1. Len(frames') # 0
    BY <2>0, EmptySeq
  <2>2. 1 \in 1 .. m
    BY <1>1, <2>1
  <2> QED
    BY <1>1, <2>2 DEF Stacked
<1> QED
  BY <1>1, <1>3, <1>4 DEF Stacked

LEMMA StackSwap ==
    ASSUME Still, Stacked, frames # << >>, NEW f \in Frame, f.start = Top.start,
           frames' = Append(Front(frames), f), Laid(f)'
    PROVE  Stacked'
<1> DEFINE m == Len(frames)
           outer == Front(frames)
<1>1. /\ m \in Nat \ {0} /\ Top = frames[m] /\ outer \in Seq(Frame) /\ Len(outer) = m - 1
      /\ \A i \in 1 .. m - 1 : outer[i] = frames[i]
  BY TopFacts DEF Still, Typed
<1> HIDE DEF outer
<1>2. /\ Len(frames') = Len(outer) + 1 /\ frames'[Len(outer) + 1] = f
      /\ \A i \in 1 .. Len(outer) : frames'[i] = outer[i]
  BY <1>1, AppendProperties DEF outer
<1>3. /\ Len(frames') = m /\ frames'[m] = f /\ \A i \in 1 .. m - 1 : frames'[i] = frames[i]
  BY <1>1, <1>2
<1>4. m - 1 \in 0 .. Len(frames)
  BY <1>1
<1>5. /\ \A i \in 1 .. m - 1 : Laid(frames[i])'
      /\ \A i \in 1 .. (m - 1) - 1 : Begins(frames[i], frames[i + 1].start)'
  BY <1>3, <1>4, StackPart
<1>m. m \in Nat /\ m # 0
  BY <1>1
<1>6. \A i \in 1 .. m : Laid(frames[i])'
  <2>1. ASSUME NEW i \in 1 .. m PROVE Laid(frames[i])'
    <3>1. CASE i \in 1 .. m - 1
      BY <1>5, <3>1
    <3>2. CASE i = m
      BY <1>3, <3>2
    <3>3. i \in 1 .. m - 1 \/ i = m
      BY <1>m
    <3> QED
      BY <3>1, <3>2, <3>3
  <2> QED
    BY <2>1
<1>7. \A i \in 1 .. m - 1 : Begins(frames[i], frames[i + 1].start)'
  <2>1. ASSUME NEW i \in 1 .. m - 1 PROVE Begins(frames[i], frames[i + 1].start)'
    <3>1. CASE i \in 1 .. (m - 1) - 1
      BY <1>5, <3>1
    <3>2. CASE i = m - 1
      <4>1. i \in 1 .. m /\ i + 1 = m /\ m \in 1 .. m
        BY <1>1, <3>2
      <4>2. /\ frames[i] \in Frame /\ Laid(frames[i]) /\ Laid(Top)
            /\ Begins(frames[i], frames[i + 1].start)
        BY <1>1, <4>1, FrameFacts DEF Still, Stacked
      <4>3. InRow(frames[i]) /\ Top.start \in 1 .. Here /\ frames[i + 1].start = Top.start
        BY <1>1, <4>1, <4>2 DEF Laid
      <4>4. frames'[i] = frames[i] /\ frames'[i + 1].start = frames[i + 1].start
        BY <1>1, <1>3, <4>1
      <4> QED
        BY <4>2, <4>3, <4>4, StillBegins
    <3>3. i \in 1 .. (m - 1) - 1 \/ i = m - 1
      BY <1>m
    <3> QED
      BY <3>1, <3>2, <3>3
  <2> QED
    BY <2>1
<1>8. frames'[1].start = 1
  <2>1. CASE m = 1
    BY <1>1, <1>3, <2>1 DEF Stacked
  <2>2. CASE m # 1
    <3>1. 1 \in 1 .. m - 1
      BY <1>1, <2>2
    <3> QED
      BY <1>3, <3>1 DEF Stacked
  <2> QED
    BY <2>1, <2>2
<1> QED
  BY <1>3, <1>6, <1>7, <1>8 DEF Stacked

(* What a step that makes no node leaves. *)
LEMMA NoNode ==
    ASSUME Typed, Typed', Kept, KidsOlder, NodesFit, nodes' = nodes
    PROVE  Still /\ KidsOlder' /\ NodesFit'
<1>1. KidsOlder'
  BY DEF KidsOlder
<1>2. Len(nodes) \in Nat
  BY Numbers DEF Out
<1>3. Still
  BY <1>1, <1>2, MoreNodes DEF Still
<1>4. \A n \in 1 .. Out : NodeFits(n)'
  BY <1>3, StillFits
<1> QED
  BY <1>1, <1>3, <1>4 DEF NodesFit, Out

(* What a step that makes a node leaves. *)
LEMMA NewNode ==
    ASSUME Typed, Typed', Kept, KidsOlder, NodesFit, NEW m \in Node,
           nodes' = Append(nodes, m), NodeShape(m, Out + 1)
    PROVE  /\ Still /\ KidsOlder' /\ Out \in Nat /\ Out' = Out + 1 /\ nodes'[Out'] = m
           /\ Lo'[Out'] \in Int /\ Hi'[Out'] \in Int
           /\ m.first # 0 => Lo'[Out'] = m.first /\ Hi'[Out'] = m.last
           /\ m.first = 0 => Hi'[Out'] = Hi[Last(m.kids)]
           /\ m.first = 0 /\ m.kind = "If" => Lo'[Out'] = Lo[m.kids[1]] - 1
           /\ m.first = 0 /\ m.kind # "If" => Lo'[Out'] = Lo[m.kids[1]]
           /\ \A i \in DOMAIN m.kids : Lo'[m.kids[i]] = Lo[m.kids[i]] /\ Hi'[m.kids[i]] = Hi[m.kids[i]]
           /\ NodeFits(Out)' => NodesFit'
<1>1. nodes \in Seq(Node) /\ Out \in Nat /\ Out = Len(nodes)
  BY Numbers DEF Typed, Out
<1>2. /\ Len(nodes') = Out + 1 /\ nodes'[Out + 1] = m
      /\ \A i \in 1 .. Out : nodes'[i] = nodes[i] /\ DOMAIN nodes' = 1 .. Out + 1
  BY <1>1, AppendProperties
<1>3. Out' = Out + 1 /\ nodes' \in Seq(Node)
  BY <1>2 DEF Out, Typed
<1>4. KidsOlder'
  <2>1. ASSUME NEW i \in 1 .. Out + 1 PROVE NodeShape(nodes'[i], i)
    <3>1. CASE i \in 1 .. Out
      <4>1. i \in DOMAIN nodes
        BY <1>1, <3>1
      <4> QED
        BY <1>2, <3>1, <4>1 DEF KidsOlder
    <3>2. CASE i = Out + 1
      BY <1>2, <3>2
    <3>3. i \in 1 .. Out \/ i = Out + 1
      BY <1>1
    <3> QED
      BY <3>1, <3>2, <3>3
  <2>2. DOMAIN nodes' = 1 .. Out + 1
    BY <1>2, <1>3
  <2> QED
    BY <2>1, <2>2 DEF KidsOlder
<1>5. More
  <2>1. Len(nodes') >= Len(nodes)
    BY <1>1, <1>2
  <2> QED
    BY <1>1, <1>2, <1>4, <2>1, MoreNodes
<1>6. Still
  BY <1>5 DEF Still
<1>7. Out' \in 1 .. Out'
  BY <1>1, <1>3
<1>8. /\ Lo'[Out'] \in Int /\ Hi'[Out'] \in Int
      /\ m.first # 0 => Lo'[Out'] = m.first /\ Hi'[Out'] = m.last
      /\ m.first = 0 =>
            /\ m.kids[1] \in 1 .. Out' - 1 /\ Last(m.kids) \in 1 .. Out' - 1
            /\ Hi'[Out'] = Hi'[Last(m.kids)]
      /\ m.first = 0 /\ m.kind = "If" => Lo'[Out'] = Lo'[m.kids[1]] - 1
      /\ m.first = 0 /\ m.kind # "If" => Lo'[Out'] = Lo'[m.kids[1]]
  <2>1. nodes'[Out'] = m
    BY <1>2, <1>3
  <2> QED
    BY <1>4, <1>7, <2>1, LoHiNext
<1>9. \A k \in 1 .. Out : Lo'[k] = Lo[k] /\ Hi'[k] = Hi[k]
  BY <1>6, StillThere
<1>10. 1 .. Out' - 1 = 1 .. Out
  BY <1>1, <1>3
<1>11. \A i \in DOMAIN m.kids : Lo'[m.kids[i]] = Lo[m.kids[i]] /\ Hi'[m.kids[i]] = Hi[m.kids[i]]
  <2>1. 1 .. (Out + 1) - 1 = 1 .. Out
    BY <1>1
  <2>2. \A i \in DOMAIN m.kids : m.kids[i] \in 1 .. Out
    BY <2>1 DEF NodeShape
  <2> QED
    BY <1>9, <2>2
<1>12. ASSUME NodeFits(Out)' PROVE NodesFit'
  <2>1. ASSUME NEW n \in 1 .. Out + 1 PROVE NodeFits(n)'
    <3>1. CASE n \in 1 .. Out
      BY <1>6, <3>1, StillFits
    <3>2. CASE n = Out + 1
      <4>1. n = Out'
        BY <1>3, <3>2
      <4> QED
        BY <1>12, <4>1
    <3>3. n \in 1 .. Out \/ n = Out + 1
      BY <1>1
    <3> QED
      BY <3>1, <3>2, <3>3
  <2> QED
    BY <1>3, <2>1 DEF NodesFit
<1> QED
  BY <1>1, <1>2, <1>3, <1>4, <1>6, <1>8, <1>9, <1>10, <1>11, <1>12

(* An expression, and the statement that is made of it. *)
LEMMA NewPair ==
    ASSUME Typed, Typed', Kept, KidsOlder, NodesFit, NEW e \in Node, NEW m \in Node,
           nodes' = nodes \o <<e, m>>, NodeShape(e, Out + 1), NodeShape(m, Out + 2),
           e.first # 0, m.first # 0
    PROVE  /\ Still /\ KidsOlder' /\ Out \in Nat /\ Out' = Out + 2
           /\ nodes'[Out + 1] = e /\ nodes'[Out'] = m
           /\ Lo'[Out + 1] = e.first /\ Hi'[Out + 1] = e.last
           /\ Lo'[Out'] = m.first /\ Hi'[Out'] = m.last
           /\ (\A n \in Out + 1 .. Out + 2 : NodeFits(n)') => NodesFit'
<1>1. nodes \in Seq(Node) /\ Out \in Nat /\ Out = Len(nodes)
  BY Numbers DEF Typed, Out
<1>2. /\ Len(nodes') = Out + 2 /\ nodes'[Out + 1] = e /\ nodes'[Out + 2] = m
      /\ \A i \in 1 .. Out : nodes'[i] = nodes[i]
  BY <1>1, PushTwoFacts
<1>3. Out' = Out + 2 /\ nodes' \in Seq(Node)
  BY <1>2 DEF Out, Typed
<1>s. \A i \in 1 .. Out + 2 : i \in 1 .. Out \/ i = Out + 1 \/ i = Out + 2
  BY <1>1
<1>4. KidsOlder'
  <2>1. ASSUME NEW i \in 1 .. Out + 2 PROVE NodeShape(nodes'[i], i)
    <3>1. CASE i \in 1 .. Out
      <4>1. i \in DOMAIN nodes
        BY <1>1, <3>1
      <4> QED
        BY <1>2, <3>1, <4>1 DEF KidsOlder
    <3>2. CASE i = Out + 1
      BY <1>2, <3>2
    <3>3. CASE i = Out + 2
      BY <1>2, <3>3
    <3> QED
      BY <1>s, <3>1, <3>2, <3>3
  <2>2. DOMAIN nodes' = 1 .. Out + 2
    BY <1>2, <1>3
  <2> QED
    BY <2>1, <2>2 DEF KidsOlder
<1>5. Still
  <2>1. Len(nodes') >= Len(nodes)
    BY <1>1, <1>2
  <2>2. More
    BY <1>1, <1>2, <1>4, <2>1, MoreNodes
  <2> QED
    BY <2>2 DEF Still
<1>6. Out + 1 \in 1 .. Out' /\ Out' \in 1 .. Out'
  BY <1>1, <1>3
<1>7. Lo'[Out + 1] = e.first /\ Hi'[Out + 1] = e.last
  BY <1>2, <1>4, <1>6, LoHiNext
<1>8. nodes'[Out'] = m
  BY <1>2, <1>3
<1>9. Lo'[Out'] = m.first /\ Hi'[Out'] = m.last
  BY <1>4, <1>6, <1>8, LoHiNext
<1>10. ASSUME \A n \in Out + 1 .. Out + 2 : NodeFits(n)' PROVE NodesFit'
  <2>0. Out + 1 \in Out + 1 .. Out + 2 /\ Out + 2 \in Out + 1 .. Out + 2
    BY <1>1
  <2>1. ASSUME NEW n \in 1 .. Out + 2 PROVE NodeFits(n)'
    <3>1. CASE n \in 1 .. Out
      BY <1>5, <3>1, StillFits
    <3>2. CASE n = Out + 1 \/ n = Out + 2
      BY <1>10, <2>0, <3>2
    <3> QED
      BY <1>s, <3>1, <3>2
  <2> QED
    BY <1>3, <2>1 DEF NodesFit
<1> QED
  BY <1>1, <1>2, <1>3, <1>4, <1>5, <1>7, <1>8, <1>9, <1>10

-----------------------------------------------------------------------------
(* The invariant is kept: steps that make no node. *)

LEMMA AtWork ==
    ASSUME Typed, Inductive, at # "error"
    PROVE  KidsOlder /\ NodesFit /\ Stacked /\ Now
BY DEF Inductive

LEMMA FailKeeps ==
    ASSUME Typed, Typed', Inductive, NEW where, Fail(where)
    PROVE  Inductive'
<1>1. /\ UNCHANGED <<input, nodes, frames, open>> /\ at' = "error"
  BY DEF Fail
<1>2. KidsOlder /\ NodesFit
  BY DEF Inductive
<1>3. Kept
  BY <1>1, InputSame, AlphabetSame DEF Typed, InGlobals
<1>4. KidsOlder' /\ NodesFit'
  BY <1>1, <1>2, <1>3, NoNode
<1> QED
  BY <1>1, <1>4 DEF Inductive

(* An expression goes on. *)
LEMMA InExpressionKeeps ==
    ASSUME Typed, Typed', Inductive, InExpression
    PROVE  Inductive'
<1>1. /\ Grown /\ frames' = frames /\ nodes' = nodes
      /\ at \in {"operand", "args", "loop"} /\ at' \in {"operand", "args", "loop"}
      /\ ~IsName => Len(input') = Len(input) + 1
      /\ Class \in {"atom", "prefix", "infix", "postfix", "(", ")", "[", "]", ","}
  BY InExpressionGrows
<1>2. Kept
  BY <1>1, GrownIsKept DEF Typed
<1>3. KidsOlder /\ NodesFit /\ Stacked /\ Now
  BY <1>1, AtWork
<1>4. Still /\ KidsOlder' /\ NodesFit'
  BY <1>1, <1>2, <1>3, NoNode
<1>5. Stacked'
  BY <1>1, <1>3, <1>4, StackSame
<1>6. Reading
  BY <1>1, <1>3 DEF Now, InExp
<1>7. frames # << >> /\ Top \in Frame /\ Top.start \in Nat /\ From(Top) \in Nat
  <2>1. frames # << >>
    BY <1>1 DEF Typed, AtOK, InExp
  <2>2. Top \in Frame
    BY <2>1, FrameFacts
  <2>3. Top.start \in Nat
    BY <2>2 DEF Frame
  <2> QED
    BY <2>1, <2>2, <2>3 DEF From
<1>f. From(Top) \in Nat /\ From(Top) >= 1
  <2>1. Len(frames) \in 1 .. Len(frames) /\ Top = frames[Len(frames)]
    BY <1>7, FrameFacts
  <2>2. Top.start \in 1 .. Here
    BY <1>3, <2>1 DEF Stacked, Laid
  <2>3. Top.start >= 1 /\ Top.start + 1 >= 1
    BY <1>7, <2>2
  <2> QED
    BY <1>7, <2>3 DEF From
<1>8. Here \in Nat /\ Here' \in Nat /\ Here < Here' /\ Here' = Len(input') /\ Here = Len(input)
  <2>1. Here' \in Nat /\ Here \in Nat
    BY <1>4, StillThere
  <2> QED
    BY <1>1, <2>1 DEF Grown, Here
<1>9. tok \notin {";", "{", "}"}
  <2>1. ASSUME tok \in {";", "{", "}"} PROVE Class = "end"
    <3>1. tok \notin Glued \cup {"name"}
      BY <2>1 DEF Glued, Keyword
    <3> QED
      BY <2>1, <3>1 DEF Class
  <2> QED
    BY <1>1, <2>1
<1>10. ASSUME NEW p \in From(Top) .. Here' - 1 PROVE input'[p] \notin {";", "{", "}"}
  <2>1. p \in From(Top) .. Here - 1 \/ p = Here \/ p \in Here + 1 .. Here' - 1
    BY <1>7, <1>8
  <2>2. CASE p \in From(Top) .. Here - 1
    <3>1. CASE p \in 1 .. Here
      <4>1. input'[p] = input[p]
        BY <3>1, <1>4, StillThere
      <4> QED
        BY <1>6, <2>2, <4>1 DEF Reading
    <3>2. p \in 1 .. Here
      BY <1>f, <1>8, <2>2
    <3> QED
      BY <3>1, <3>2
  <2>3. CASE p = Here
    <3>1. input'[p] = tok
      <4>1. Here \in 1 .. Here
        BY Numbers
      <4> QED
        BY <1>4, <2>3, <4>1, StillThere DEF tok, Here
    <3> QED
      BY <1>9, <3>1
  <2>4. CASE p \in Here + 1 .. Here' - 1
    <3>1. input'[p] \in Leads \cup {"name"}
      BY <1>1, <1>8, <2>4 DEF Grown
    <3> QED
      BY <3>1 DEF Leads
  <2> QED
    BY <2>1, <2>2, <2>3, <2>4
<1>11. Reading'
  <2>1. Top' = Top
    BY <1>1 DEF Top
  <2>0. From(Top) <= Here
    BY <1>6 DEF Reading
  <2>2. From(Top) <= Here' /\ From(Top) < Here'
    BY <1>7, <1>8, <2>0
  <2>3. From(Top)' = From(Top)
    BY <2>1 DEF From
  <2> QED
    BY <1>6, <1>10, <2>1, <2>2, <2>3 DEF Reading
<1>12. Now'
  BY <1>1, <1>11, SignatureStates DEF Now, InExp
<1> QED
  BY <1>4, <1>5, <1>12 DEF Inductive

LEMMA TopLaid ==
    ASSUME Typed, NodesFit, Stacked, frames # << >>
    PROVE  /\ Top \in Frame /\ Laid(Top) /\ InRow(Top) /\ Worded(Top)
           /\ Top.start \in 1 .. Here /\ Top.start \in Nat /\ Top.kids \in Seq(Nat)
           /\ From(Top) \in Nat /\ Top.start <= From(Top) /\ From(Top) <= Top.start + 1
<1>1. Len(frames) \in 1 .. Len(frames) /\ Top = frames[Len(frames)] /\ Top \in Frame
  BY FrameFacts
<1>2. Laid(Top)
  BY <1>1 DEF Stacked
<1>3. Top.start \in Nat /\ Top.kids \in Seq(Nat)
  BY <1>1 DEF Frame
<1>4. From(Top) \in Nat /\ Top.start <= From(Top) /\ From(Top) <= Top.start + 1
  BY <1>3 DEF From
<1> QED
  BY <1>1, <1>2, <1>3, <1>4 DEF Laid

LEMMA InFuncDecKeeps ==
    ASSUME Typed, Typed', Inductive, InFuncDec
    PROVE  Inductive'
<1>1. /\ Grown /\ frames' = frames /\ nodes' = nodes
      /\ ~IsName => Len(input') = Len(input) + 1
      /\ at \in InSignature /\ at' \in InSignature \cup {"body"}
      /\ at' = "body" => tok = ")" /\ ~IsName
  BY InFuncDecGrows
<1>2. Kept
  BY <1>1, GrownIsKept DEF Typed
<1>3. KidsOlder /\ NodesFit /\ Stacked /\ Now
  BY <1>1, AtWork, SignatureStates
<1>4. Still /\ KidsOlder' /\ NodesFit'
  BY <1>1, <1>2, <1>3, NoNode
<1>5. Stacked'
  BY <1>1, <1>3, <1>4, StackSame
<1>6. frames # << >> /\ Top.start < Here /\ Top' = Top
  BY <1>1, <1>3 DEF Typed, Owned, Now, Top
<1>7. Top.start \in Nat
  BY <1>3, <1>6, TopLaid
<1>8. Here \in Nat \ {0} /\ Here' \in Nat /\ Here < Here'
  <2>1. Here' \in Nat /\ Here \in Nat \ {0}
    BY <1>4, StillThere
  <2> QED
    BY <1>1, <2>1 DEF Grown, Here
<1>9. ASSUME at' = "body" PROVE Top'.start < Here' - 1 /\ input'[Here' - 1] = ")"
  <2>1. Here' = Here + 1
    BY <1>1, <1>9 DEF Here
  <2>2. Here' - 1 = Here /\ Here \in 1 .. Here
    BY <1>8, <2>1
  <2>3. input'[Here] = tok
    BY <1>4, <2>2, StillThere DEF tok, Here
  <2> QED
    BY <1>1, <1>6, <1>9, <2>2, <2>3
<1>10. Top'.start < Here'
  BY <1>6, <1>7, <1>8
<1>11. Now'
  BY <1>1, <1>9, <1>10, SignatureStates DEF Now, InExp
<1> QED
  BY <1>4, <1>5, <1>11 DEF Inductive

LEMMA EndKeeps ==
    ASSUME Typed, Typed', Inductive, EndOfText \/ ReturnToCaller
    PROVE  Inductive'
<1>1. /\ UNCHANGED <<input, nodes, frames, open>> /\ at' = "done"
      /\ \/ at = "globals" /\ EndOfText
         \/ at = "return" /\ frames = << >>
  BY DEF EndOfText, ReturnToCaller
<1>2. Kept
  BY <1>1, InputSame, AlphabetSame DEF Typed, InGlobals
<1>3. KidsOlder /\ NodesFit /\ Stacked /\ Now
  BY <1>1, AtWork
<1>4. Still /\ KidsOlder' /\ NodesFit'
  BY <1>1, <1>2, <1>3, NoNode
<1>5. Stacked'
  BY <1>1, <1>3, <1>4, StackSame
<1>6. Here' = Here /\ Top' = Top /\ Out' = Out /\ Here \in 1 .. Here /\ InGlobals' = InGlobals
  BY <1>1, Numbers DEF Here, Top, Out, InGlobals
<1>7. CASE at = "globals"
  <2>1. frames # << >> /\ Top.kind = "Globals" /\ Len(frames) = 1 /\ Begins(Top, Here)
    BY <1>3, <1>7 DEF Typed, Owned, AtOK, Now
  <2>2. Top \in Frame /\ InRow(Top)
    BY <1>3, <2>1, TopLaid
  <2>3. Begins(Top, Here)'
    BY <1>4, <1>6, <2>1, <2>2, StillBegins
  <2>4. InGlobals
    BY <2>1, FrameFacts DEF InGlobals
  <2>5. Now'
    BY <1>1, <1>6, <2>3, <2>4, SignatureStates DEF Now, InExp
  <2> QED
    BY <1>4, <1>5, <2>5 DEF Inductive
<1>8. CASE at = "return"
  <2>1. frames = << >> /\ InHand
    BY <1>1, <1>3, <1>8 DEF Now
  <2>2. Out \in 1 .. Out
    BY <2>1, Numbers DEF InHand
  <2>3. Lo'[Out] = Lo[Out] /\ Hi'[Out] = Hi[Out]
    BY <1>4, <2>2, StillThere
  <2>4. InHand'
    BY <1>1, <1>6, <2>1, <2>3 DEF InHand
  <2>5. ~InGlobals'
    BY <1>1, <2>1 DEF InGlobals
  <2>6. Now'
    BY <1>1, <2>1, <2>4, <2>5, SignatureStates DEF Now, InExp
  <2> QED
    BY <1>4, <1>5, <2>6 DEF Inductive
<1> QED
  BY <1>1, <1>7, <1>8

LEMMA LeadHere == LeadAt(Here) = Lead /\ input[Here] = tok
BY DEF LeadAt, Lead, tok, Here

LEMMA BeginElseKeeps ==
    ASSUME Typed, Typed', Inductive, BeginElse
    PROVE  Inductive'
<1>1. /\ Consume /\ UNCHANGED <<nodes, frames, open>> /\ at = "else" /\ at' = "block"
      /\ Lead = "else"
  BY DEF BeginElse, TakesElse
<1>2. Grown /\ Len(input') = Len(input) + 1
  BY <1>1, LeadEnd, ConsumeGrows, AlphabetSame DEF Typed, InGlobals
<1>3. Kept
  BY <1>2, GrownIsKept DEF Typed
<1>4. KidsOlder /\ NodesFit /\ Stacked /\ Now
  BY <1>1, AtWork
<1>5. Still /\ KidsOlder' /\ NodesFit'
  BY <1>1, <1>3, <1>4, NoNode
<1>6. Stacked'
  BY <1>1, <1>4, <1>5, StackSame
<1>7. /\ frames # << >> /\ Top.kind = "If" /\ Len(Top.kids) = 2 /\ Here = Hi[Top.kids[2]] + 1
      /\ Top' = Top
  BY <1>1, <1>4 DEF Typed, Owned, Now, Top
<1>8. Top \in Frame /\ InRow(Top)
  BY <1>4, <1>7, TopLaid
<1>9. Here \in Nat /\ Here' = Here + 1 /\ Here \in 1 .. Here
  BY <1>2, Numbers DEF Here
<1>10. /\ Hi[Top.kids[2]] \in 1 .. Here - 1 /\ Hi'[Top.kids[2]] = Hi[Top.kids[2]]
       /\ Top.kids # << >>
  <2>1. 2 \in DOMAIN Top.kids /\ Top.kids # << >>
    BY <1>4, <1>7, <1>8, RowFacts
  <2> QED
    BY <1>4, <1>5, <1>8, <2>1, RowFacts, StillRow
<1>11. Here' = Hi'[Top.kids[2]] + 2 /\ Here' - 1 = Here
  BY <1>7, <1>9, <1>10
<1>12. LeadAt(Here - 1)' = "else"
  <2>1. LeadAt(Here) = "else"
    BY <1>1, LeadHere
  <2>2. input'[Here' - 1] = input[Here]
    BY <1>5, <1>9, <1>11, StillThere
  <2> QED
    BY <2>1, <2>2 DEF LeadAt
<1>13. Begins(Top, Here)'
  BY <1>7, <1>10, <1>11, <1>12 DEF Begins
<1>14. Now'
  BY <1>1, <1>13, SignatureStates DEF Now, InExp
<1> QED
  BY <1>5, <1>6, <1>14 DEF Inductive

LEMMA StutterKeeps ==
    ASSUME Typed, Inductive, UNCHANGED vars
    PROVE  Inductive'
<1>1. UNCHANGED <<input, nodes, frames, open, at>>
  BY DEF vars
<1>2. Lo' = Lo /\ Hi' = Hi
  BY <1>1 DEF Lo, Hi
<1>3. Here' = Here /\ Top' = Top /\ Out' = Out /\ InGlobals' = InGlobals /\ InExp' = InExp
  BY <1>1 DEF Here, Top, Out, InGlobals, InExp
<1>4. KidsOlder = KidsOlder' /\ NodesFit = NodesFit'
  BY <1>1, <1>2, <1>3
  DEF KidsOlder, NodesFit, NodeFits, Placed, Fills, FillsSimple, FillsBranches, FillsGlobal,
      Braced, Row, Fresh, NoElse, LeadAt
<1>5. Stacked = Stacked'
  BY <1>1, <1>2, <1>3 DEF Stacked, Laid, InRow, Worded, Begins, From, LeadAt
<1>6. Now = Now'
  BY <1>1, <1>2, <1>3 DEF Now, InHand, Reading, Begins, From, LeadAt
<1> QED
  BY <1>1, <1>4, <1>5, <1>6 DEF Inductive

LEMMA NothingBetween == ASSUME NEW g \in Nat PROVE g <= g /\ \A p \in g .. g - 1 : FALSE
OBVIOUS

(* A statement, a block or a function is opened. *)
LEMMA OpenKeeps ==
    ASSUME Typed, Inductive,
           \/ BeginFunction \/ BeginGlobalBasic \/ OpenBlock \/ BeginKeyword
           \/ BeginBasic \/ BeginSingle
    PROVE  Inductive'
<1>1. PICK kind \in {"Function", "Basic", "Return", "While", "If", "Block", "Single"} :
                /\ frames' = Append(frames, Opened(kind))
                /\ kind = "Function" =>
                      at = "globals" /\ at' = "fname" /\ Lead \in {"fn", "cfn"} /\ Consume
                /\ kind = "Block" =>
                      at # "globals" /\ at' = "part" /\ tok = "{" /\ Consume
                /\ kind = "Single" =>
                      at = "block" /\ at' = "statement" /\ input' = input /\ tok # "{"
                /\ kind = "Basic" =>
                      at \notin {"block", "body"} /\ at' = "operand" /\ input' = input
                /\ kind \in {"Return", "While", "If"} =>
                      /\ at \in {"part", "statement"} /\ at' = "operand" /\ Consume
                      /\ Lead = CASE kind = "While" -> "while" [] kind = "If" -> "if"
                                  [] kind = "Return" -> "return"
  BY Opens
<1>2. at \in {"globals", "part", "statement", "block", "body"} /\ nodes' = nodes /\ open' = open
  BY Opens
<1>3. Typed' /\ Kept /\ (Consume => Len(input') = Len(input) + 1)
  BY OpenTyped
<1>4. KidsOlder /\ NodesFit /\ Stacked /\ Now
  BY <1>2, AtWork
<1>5. Still /\ KidsOlder' /\ NodesFit'
  BY <1>2, <1>3, <1>4, NoNode
<1>6. PICK f \in Frame : f = Opened(kind)
  BY OpenedTyped
<1>7. f.kind = kind /\ f.start = Here /\ f.kids = << >>
  BY <1>6 DEF Opened
<1>8. PICK h \in Nat : h = Here /\ h >= 1
  BY Numbers
<1>9. h \in 1 .. h /\ Here' \in Nat /\ h \in 1 .. Here' /\ (Consume => Here' = h + 1)
      /\ (input' = input => Here' = h)
  <2>1. Here' \in Nat /\ h <= Here'
    BY <1>5, <1>8, StillThere
  <2> QED
    BY <1>3, <1>8, <2>1 DEF Here
<1>10. input'[h] = tok /\ LeadAt(h)' = Lead
  <2>1. input'[h] = input[h] /\ LeadAt(h)' = LeadAt(h)
    BY <1>5, <1>8, <1>9, StillThere
  <2> QED
    BY <1>8, <2>1, LeadHere
<1>11. Laid(f)'
  <2>1. InRow(f)'
    BY <1>7 DEF InRow
  <2>2. Worded(f)'
    <3>1. /\ kind = "Return" => Lead = "return"
          /\ kind = "While" => Lead = "while"
          /\ kind = "If" => Lead = "if"
      BY <1>1
    <3>2. f.start = h /\ Len(f.kids) = 0
      BY <1>7, <1>8
    <3>3. Len(f.kids) <= 1 /\ Len(f.kids) <= 2
      BY <3>2
    <3>4. kind # "Globals"
      BY <1>1
    <3>5. LeadAt(f.start)' = Lead /\ input'[f.start] = tok
      BY <1>10, <3>2
    <3>6. /\ kind = "Block" => tok = "{"
          /\ kind = "Function" => Lead \in {"fn", "cfn"}
      BY <1>1
    <3>7. CASE kind \in {"Basic", "Single"}
      BY <1>7, <3>7 DEF Worded
    <3>8. CASE kind = "Function"
      BY <1>7, <3>5, <3>6, <3>8 DEF Worded
    <3>9. CASE kind = "Block"
      BY <1>7, <3>5, <3>6, <3>9 DEF Worded
    <3>10. CASE kind = "Return"
      BY <1>7, <3>1, <3>5, <3>10 DEF Worded
    <3>11. CASE kind = "While"
      BY <1>7, <3>1, <3>3, <3>5, <3>11 DEF Worded
    <3>12. CASE kind = "If"
      BY <1>7, <3>1, <3>3, <3>5, <3>12 DEF Worded
    <3> QED
      BY <3>7, <3>8, <3>9, <3>10, <3>11, <3>12
  <2>3. f.start \in 1 .. Here'
    BY <1>7, <1>8, <1>9
  <2> QED
    BY <2>1, <2>2, <2>3 DEF Laid
<1>12. IF frames = << >> THEN h = 1 ELSE Begins(Top, h)
  <2>1. CASE at \in {"globals", "part", "block"}
    BY <1>4, <1>8, <2>1 DEF Typed, Owned, Now
  <2>2. CASE at = "statement"
    BY <1>4, <1>8, <2>2 DEF Now
  <2>3. CASE at = "body"
    <3>1. kind = "Block"
      BY <1>1, <2>3
    <3>2. frames # << >> /\ Top.kind = "Function" /\ Top.start < h - 1 /\ input[h - 1] = ")"
      BY <1>4, <1>8, <2>3 DEF Typed, Owned, Now
    <3>3. input[h] = "{"
      BY <1>1, <1>8, <3>1, LeadHere
    <3> QED
      BY <3>2, <3>3 DEF Begins
  <2> QED
    BY <1>2, <2>1, <2>2, <2>3
<1>13. Stacked'
  <2>1. frames' = Append(frames, f)
    BY <1>1, <1>6
  <2>2. IF frames = << >> THEN f.start = 1 ELSE f.start \in 1 .. Here /\ Begins(Top, f.start)
    BY <1>7, <1>8, <1>9, <1>12
  <2> QED
    BY <1>4, <1>5, <1>11, <2>1, <2>2, StackPush
<1>14. Top' = f /\ frames' # << >>
  <2>1. frames \in Seq(Frame) /\ frames' = Append(frames, f)
    BY <1>1, <1>6, FrameFacts
  <2>2. /\ frames' # << >> /\ Len(frames') = Len(frames) + 1 /\ frames'[Len(frames) + 1] = f
    BY <2>1, AppendProperties
  <2> QED
    BY <2>2 DEF Top, Last
<1>15. CASE kind = "Function"
  <2>1. at' = "fname" /\ Top'.start < Here'
    BY <1>1, <1>7, <1>8, <1>9, <1>14, <1>15
  <2>2. Now'
    BY <2>1, SignatureStates DEF Now, InExp
  <2> QED
    BY <1>5, <1>13, <2>2 DEF Inductive
<1>16. CASE kind = "Block"
  <2>1. at' = "part" /\ Here' = h + 1
    BY <1>1, <1>9, <1>16
  <2>2. From(f) = h + 1
    BY <1>7, <1>8, <1>16 DEF From
  <2>3. Begins(Top, Here)'
    BY <1>7, <1>14, <1>16, <2>1, <2>2 DEF Begins, From
  <2>4. Now'
    BY <2>1, <2>3, SignatureStates DEF Now, InExp
  <2> QED
    BY <1>5, <1>13, <2>4 DEF Inductive
<1>17. CASE kind = "Single"
  <2>1. at' = "statement" /\ Here' = h
    BY <1>1, <1>9, <1>17
  <2>2. From(f) = h
    BY <1>7, <1>8, <1>17 DEF From
  <2>3. Begins(Top, Here)'
    BY <1>7, <1>14, <1>17, <2>1, <2>2 DEF Begins, From
  <2>4. Now'
    BY <1>14, <2>1, <2>3, SignatureStates DEF Now, InExp
  <2> QED
    BY <1>5, <1>13, <2>4 DEF Inductive
<1>18. CASE kind \in {"Basic", "Return", "While", "If"}
  <2>1. at' = "operand"
    BY <1>1, <1>18
  <2>2. From(f) \in Nat /\ From(f) = Here'
    <3>1. CASE kind = "Basic"
      BY <1>1, <1>7, <1>8, <1>9, <3>1 DEF From
    <3>2. CASE kind \in {"Return", "While", "If"}
      BY <1>1, <1>7, <1>8, <1>9, <3>2 DEF From
    <3> QED
      BY <1>18, <3>1, <3>2
  <2>3. From(Top)' = Here'
    BY <1>14, <2>2 DEF From
  <2>n. PICK g \in Nat : g = Here'
    BY <1>9
  <2>4. g <= g /\ \A p \in g .. g - 1 : FALSE
    BY <2>n, NothingBetween
  <2>5. Reading'
    BY <1>7, <1>14, <2>1, <2>3, <2>n, <2>4 DEF Reading
  <2>6. Now'
    BY <2>1, <2>5, SignatureStates DEF Now, InExp
  <2> QED
    BY <1>5, <1>13, <2>6 DEF Inductive
<1> QED
  BY <1>15, <1>16, <1>17, <1>18

(* What is next to be part of a frame. *)
Ahead(f) == IF f.kids = << >> THEN From(f) ELSE Hi[Last(f.kids)] + 1

LEMMA KeptInRow ==
    ASSUME Typed, NodesFit, NEW f \in Frame, InRow(f), NEW n \in 1 .. Out, Lo[n] = Ahead(f),
           NEW g \in Frame, g = [f EXCEPT !.kids = Append(@, n)]
    PROVE  /\ InRow(g) /\ g.kids # << >> /\ Len(g.kids) = Len(f.kids) + 1
           /\ g.kind = f.kind /\ g.start = f.start /\ Ahead(g) = Hi[n] + 1
           /\ g.kids[Len(f.kids) + 1] = n
           /\ f.kids # << >> => g.kids[1] = f.kids[1]
<1>1. /\ f.kids \in Seq(Nat) /\ Len(f.kids) \in Nat /\ DOMAIN f.kids = 1 .. Len(f.kids)
      /\ f.kids # << >> => 1 \in DOMAIN f.kids
      /\ \A i \in DOMAIN f.kids : f.kids[i] \in 1 .. Out
  BY RowFacts
<1> DEFINE m == Len(f.kids)
<1>2. g.kids = Append(f.kids, n) /\ g.kind = f.kind /\ g.start = f.start
  BY DEF Frame
<1>3. n \in Nat
  BY Numbers
<1>4. /\ g.kids # << >> /\ Len(g.kids) = m + 1 /\ DOMAIN g.kids = 1 .. m + 1
      /\ \A i \in 1 .. m : g.kids[i] = f.kids[i]
      /\ g.kids[m + 1] = n
  BY <1>1, <1>2, <1>3, AppendProperties
<1>5. Ahead(g) = Hi[n] + 1
  BY <1>4 DEF Ahead, Last
<1>6. \A i \in DOMAIN g.kids : g.kids[i] \in 1 .. Out
  <2>1. ASSUME NEW i \in 1 .. m + 1 PROVE g.kids[i] \in 1 .. Out
    <3>1. i \in 1 .. m \/ i = m + 1
      BY <1>1
    <3> QED
      BY <1>1, <1>4, <3>1
  <2> QED
    BY <1>4, <2>1
<1>7. \A i \in 1 .. Len(g.kids) - 1 : Lo[g.kids[i + 1]] = Hi[g.kids[i]] + 1
  <2>1. ASSUME NEW i \in 1 .. m PROVE Lo[g.kids[i + 1]] = Hi[g.kids[i]] + 1
    <3>1. CASE i \in 1 .. m - 1
      <4>1. i + 1 \in 1 .. m
        BY <1>1, <3>1
      <4>2. Lo[f.kids[i + 1]] = Hi[f.kids[i]] + 1
        BY <3>1 DEF InRow
      <4> QED
        BY <1>4, <4>1, <4>2
    <3>2. CASE i = m
      <4>1. f.kids # << >> /\ Last(f.kids) = f.kids[m]
        BY <1>1, <3>2 DEF Last
      <4>2. Lo[n] = Hi[f.kids[m]] + 1
        BY <4>1 DEF Ahead
      <4>3. g.kids[i + 1] = n /\ g.kids[i] = f.kids[m]
        BY <1>4, <3>2
      <4> QED
        BY <4>2, <4>3
    <3>3. i \in 1 .. m - 1 \/ i = m
      BY <1>1
    <3> QED
      BY <3>1, <3>2, <3>3
  <2>2. Len(g.kids) - 1 = m
    BY <1>1, <1>4
  <2> QED
    BY <2>1, <2>2
<1>8. f.kids # << >> => g.kids[1] = f.kids[1]
  BY <1>1, <1>4
<1>9. Lo[g.kids[1]] = From(g)
  <2>1. From(g) = From(f)
    BY <1>2 DEF From
  <2>2. CASE f.kids = << >>
    <3>1. m = 0
      BY <2>2
    <3>2. g.kids[1] = n
      BY <1>4, <3>1
    <3> QED
      BY <2>1, <2>2, <3>2 DEF Ahead
  <2>3. CASE f.kids # << >>
    BY <1>8, <2>1, <2>3 DEF InRow
  <2> QED
    BY <2>2, <2>3
<1> QED
  BY <1>2, <1>4, <1>5, <1>6, <1>7, <1>8, <1>9 DEF InRow

(* A part that is returned is kept. *)
LEMMA KeepKeeps ==
    ASSUME Typed, Inductive, NextPart \/ NextGlobal \/ IfThen
    PROVE  Inductive'
<1>1. /\ at = "return" /\ frames # << >> /\ Top.kind \in {"Block", "Globals", "If"}
      /\ frames' = Append(Front(frames), [Top EXCEPT !.kids = Append(@, Out)])
      /\ UNCHANGED <<input, nodes, open>>
      /\ at' = CASE Top.kind = "Block" -> "part" [] Top.kind = "Globals" -> "globals"
                 [] Top.kind = "If" -> "else"
  BY DEF NextPart, NextGlobal, IfThen, ReturnTo, Keep, Out
<1>0. ASSUME Top.kind = "If" PROVE Len(Top.kids) = 1
  BY <1>0 DEF NextPart, NextGlobal, IfThen, ReturnTo
<1>2. Typed' /\ Kept
  BY KeepTyped
<1>3. KidsOlder /\ NodesFit /\ Stacked /\ Now
  BY <1>1, AtWork
<1>4. Still /\ KidsOlder' /\ NodesFit'
  BY <1>1, <1>2, <1>3, NoNode
<1>5. /\ Top \in Frame /\ InRow(Top) /\ Worded(Top) /\ Top.start \in 1 .. Here
      /\ Top.kids \in Seq(Nat)
  BY <1>1, <1>3, TopLaid
<1>6. Out \in 1 .. Out /\ Hi[Out] = Here - 1 /\ Begins(Top, Lo[Out])
  <2>1. InHand
    BY <1>1, <1>3 DEF Now
  <2> QED
    BY <1>1, <2>1, Numbers DEF InHand
<1>7. Lo[Out] = Ahead(Top)
  <2>1. ASSUME Top.kind = "If" PROVE Len(Top.kids) # 2
    <3>1. Len(Top.kids) = 1
      BY <1>0, <2>1
    <3> QED
      BY <3>1
  <2>2. Top.kind # "Function" /\ ~(Top.kind = "If" /\ Len(Top.kids) = 2)
    BY <1>1, <2>1, Zenon
  <2> QED
    BY <1>6, <2>2 DEF Begins, Ahead
<1>8. PICK g \in Frame : g = [Top EXCEPT !.kids = Append(@, Out)]
  <2>1. Append(Top.kids, Out) \in Seq(Nat)
    BY <1>5, <1>6, Numbers
  <2> QED
    BY <1>5, <2>1, KidsTyped
<1>9. /\ InRow(g) /\ g.kids # << >> /\ Len(g.kids) = Len(Top.kids) + 1
      /\ g.kind = Top.kind /\ g.start = Top.start /\ Ahead(g) = Hi[Out] + 1
      /\ g.kids[Len(Top.kids) + 1] = Out
      /\ Top.kids # << >> => g.kids[1] = Top.kids[1]
  BY <1>3, <1>5, <1>6, <1>7, <1>8, KeptInRow
<1>10. Worded(g)
  <2>1. CASE g.kind = "If"
    <3>0. Len(Top.kids) = 1
      BY <1>0, <1>9, <2>1, Zenon
    <3>1. Len(g.kids) = 2
      BY <1>9, <3>0
    <3>2. Top.kids # << >> /\ g.kids[1] = Top.kids[1]
      <4>1. Len(<< >>) = 0 /\ 0 # 1
        OBVIOUS
      <4>2. Top.kids # << >>
        BY <3>0, <4>1
      <4> QED
        BY <1>9, <4>2
    <3>3. Len(g.kids) <= 2
      BY <3>1
    <3> QED
      BY <1>5, <1>9, <2>1, <3>2, <3>3 DEF Worded
  <2>2. CASE g.kind \in {"Block", "Globals"}
    BY <1>5, <1>9, <2>2 DEF Worded
  <2> QED
    BY <1>1, <1>9, <2>1, <2>2
<1>11. Laid(g)
  BY <1>5, <1>9, <1>10 DEF Laid
<1>12. Stacked'
  <2>1. Laid(g)'
    BY <1>4, <1>11, StillLaid
  <2> QED
    BY <1>1, <1>3, <1>4, <1>8, <1>9, <2>1, StackSwap
<1>13. Top' = g /\ frames' # << >>
  <2>1. Front(frames) \in Seq(Frame) /\ frames' = Append(Front(frames), g)
    BY <1>1, <1>8, TopFacts DEF Typed
  <2>2. /\ frames' # << >> /\ Len(frames') = Len(Front(frames)) + 1
        /\ frames'[Len(Front(frames)) + 1] = g
    BY <2>1, AppendProperties
  <2> QED
    BY <2>2 DEF Top, Last
<1>14. Here' = Here /\ Here \in 1 .. Here /\ Hi[Out] + 1 = Here
  BY <1>1, <1>6, Numbers DEF Here
<1>15. CASE Top.kind \in {"Block", "Globals"}
  <2>1. Begins(g, Here)
    BY <1>9, <1>14, <1>15 DEF Begins, Ahead
  <2>2. Begins(g, Here)'
    BY <1>4, <1>9, <1>14, <2>1, StillBegins
  <2>3. Begins(Top, Here)'
    BY <1>13, <1>14, <2>2
  <2>4. at' \in {"part", "globals"}
    BY <1>1, <1>15
  <2>5. Now'
    BY <2>3, <2>4, SignatureStates DEF Now, InExp
  <2> QED
    BY <1>4, <1>12, <2>5 DEF Inductive
<1>16. CASE Top.kind = "If"
  <2>0. Len(Top.kids) = 1
    BY <1>0, <1>16
  <2>1. Len(g.kids) = 2 /\ g.kids[2] = Out
    BY <1>9, <2>0
  <2>2. Hi'[Out] = Hi[Out]
    BY <1>4, <1>6, StillThere
  <2>3. Len(Top'.kids) = 2 /\ Here' = Hi'[Top'.kids[2]] + 1
    BY <1>13, <1>14, <2>1, <2>2
  <2>4. at' = "else"
    BY <1>1, <1>16
  <2>5. Now'
    BY <2>3, <2>4, SignatureStates DEF Now, InExp
  <2> QED
    BY <1>4, <1>12, <2>5 DEF Inductive
<1> QED
  BY <1>1, <1>15, <1>16

(* A text without braces and semicolons. *)
Plain(from, to) == \A p \in from .. to : input[p] \notin {";", "{", "}"}

LEMMA Continued ==
    ASSUME Class \notin Continuing
    PROVE  tok \notin Continuing
<1>1. ASSUME tok \in Continuing PROVE Class = tok
  <2>1. tok \notin Glued \cup {"name"} /\ tok \notin Leads \cup {"{", "}", ";"}
    BY <1>1 DEF Continuing, Glued, Keyword, Leads
  <2> QED
    BY <2>1 DEF Class
<1> QED
  BY <1>1

(* The expression that ends here, and the node made of it. *)
LEMMA ExpressionText ==
    ASSUME Typed, NodesFit, Stacked, Now, E!Ends(Class)
    PROVE  /\ Expression.kind = "Exp" /\ Expression.kids = << >>
           /\ Expression.first = From(Top) /\ Expression.last = Here - 1
           /\ From(Top) \in 1 .. Here - 1 /\ Top.kids = << >>
           /\ Plain(From(Top), Here - 1)
           /\ Expression.first # 0
           /\ \A i : NodeShape(Expression, i)
<1>1. /\ at = "loop" /\ frames # << >> /\ Top.kind \in {"Basic", "Return", "While", "If"}
  BY ExpressionFacts
<1>2. Reading
  BY <1>1 DEF Now, InExp
<1>3. Top.kids = << >> /\ From(Top) < Here /\ Plain(From(Top), Here - 1)
  BY <1>1, <1>2 DEF Reading, Plain
<1>4. /\ Top.start \in 1 .. Here /\ From(Top) \in Nat /\ Top.start <= From(Top) /\ Here \in Nat
  BY <1>1, TopLaid, Numbers
<1>5. From(Top) \in 1 .. Here - 1 /\ From(Top) # 0
  BY <1>3, <1>4
<1>6. /\ Expression.kind = "Exp" /\ Expression.kids = << >> /\ Expression.last = Here - 1
      /\ Expression.first = IF Top.kind = "Basic" THEN Top.start ELSE Top.start + 1
  BY DEF Expression, Made
<1>7. Expression.first = From(Top)
  BY <1>1, <1>6 DEF From
<1>8. \A i : NodeShape(Expression, i)
  <2>1. DOMAIN << >> = {} /\ Expression.first # 0
    BY <1>5, <1>7
  <2> QED
    BY <1>6, <2>1 DEF NodeShape
<1> QED
  BY <1>3, <1>5, <1>6, <1>7, <1>8

LEMMA LaterEnd ==
    ASSUME NEW h \in Nat \ {0}, NEW next \in Nat, h <= next, NEW from \in 1 .. h - 1
    PROVE  from \in 1 .. h - 1 /\ h - 1 \in 1 .. next - 1
OBVIOUS

LEMMA ExpressionFits ==
    ASSUME Still, NEW n, NEW from, from \in 1 .. Here - 1, Plain(from, Here - 1),
           nodes'[n].kind = "Exp", Lo'[n] = from, Hi'[n] = Here - 1
    PROVE  NodeFits(n)'
<1>1. /\ Here \in Nat \ {0} /\ Here' \in Nat /\ Here <= Here'
      /\ \A p \in 1 .. Here : input'[p] = input[p]
  BY StillThere
<1>2. Placed(n)'
  <2>1. from \in 1 .. Here - 1 /\ Here - 1 \in 1 .. Here' - 1
    BY <1>1, LaterEnd
  <2> QED
    BY <2>1 DEF Placed
<1>3. \A p \in Lo'[n] .. Hi'[n] : input'[p] \notin {";", "{", "}"}
  <2>1. ASSUME NEW p \in from .. Here - 1 PROVE input'[p] \notin {";", "{", "}"}
    <3>1. p \in 1 .. Here
      BY <1>1
    <3>2. input'[p] = input[p]
      BY <1>1, <3>1
    <3> QED
      BY <2>1, <3>2 DEF Plain
  <2> QED
    BY <2>1
<1>4. Fills(n)'
  BY <1>3 DEF Fills, FillsSimple, FillsBranches, FillsGlobal
<1>5. Fresh(n)' /\ NoElse(n)'
  BY DEF Fresh, NoElse
<1> QED
  BY <1>2, <1>4, <1>5 DEF NodeFits

(* A condition ends, and what it governs begins. *)
LEMMA ConditionKeeps ==
    ASSUME Typed, Inductive, Condition
    PROVE  Inductive'
<1>1. /\ E!Ends(Class) /\ Top.kind \in {"While", "If"} /\ input' = input
      /\ nodes' = Append(nodes, Expression) /\ at' = "block"
      /\ frames' = Append(Front(frames), [Top EXCEPT !.kids = <<Out + 1>>])
  BY DEF Condition, Out
<1>2. Typed' /\ Kept
  BY ConditionTyped
<1>3. at = "loop" /\ frames # << >> /\ Top \in Frame /\ Expression \in Node
  BY <1>1, ExpressionFacts
<1>4. KidsOlder /\ NodesFit /\ Stacked /\ Now
  BY <1>3, AtWork
<1>5. /\ Expression.kind = "Exp" /\ Expression.kids = << >>
      /\ Expression.first = From(Top) /\ Expression.last = Here - 1
      /\ From(Top) \in 1 .. Here - 1 /\ Plain(From(Top), Here - 1)
      /\ Expression.first # 0 /\ NodeShape(Expression, Out + 1)
  BY <1>1, <1>4, ExpressionText
<1>6. /\ Still /\ KidsOlder' /\ Out \in Nat /\ Out' = Out + 1 /\ nodes'[Out'] = Expression
      /\ Lo'[Out'] = From(Top) /\ Hi'[Out'] = Here - 1
      /\ NodeFits(Out)' => NodesFit'
  BY <1>1, <1>2, <1>3, <1>4, <1>5, NewNode
<1>7. NodesFit'
  <2>1. PICK n : n = Out'
    OBVIOUS
  <2>2. NodeFits(n)'
    BY <1>5, <1>6, <2>1, ExpressionFits
  <2>3. NodeFits(Out)'
    BY <2>1, <2>2
  <2> QED
    BY <1>6, <2>3
<1>8. PICK g \in Frame : g = [Top EXCEPT !.kids = <<Out + 1>>]
  <2>1. <<Out + 1>> \in Seq(Nat)
    BY <1>6
  <2> QED
    BY <1>3, <2>1, KidsTyped
<1>9. g.kids = <<Out + 1>> /\ g.kind = Top.kind /\ g.start = Top.start
  BY <1>3, <1>8 DEF Frame
<1>10. /\ Len(g.kids) = 1 /\ DOMAIN g.kids = {1} /\ g.kids[1] = Out' /\ Last(g.kids) = Out'
       /\ g.kids # << >>
  <2>1. /\ Len(<<Out + 1>>) = 1 /\ DOMAIN <<Out + 1>> = {1} /\ <<Out + 1>>[1] = Out + 1
        /\ <<Out + 1>> # << >>
    BY <1>6
  <2> QED
    BY <1>6, <1>9, <2>1 DEF Last
<1>11. From(g) = From(Top) /\ From(g)' = From(g)
  BY <1>9 DEF From
<1>12. InRow(g)'
  <2>1. Out' \in 1 .. Out'
    BY <1>6
  <2>2. \A i \in 1 .. Len(g.kids) - 1 : FALSE
    BY <1>10
  <2> QED
    BY <1>6, <1>10, <1>11, <2>1, <2>2 DEF InRow
<1>13. Here' = Here /\ Here \in 1 .. Here /\ Hi'[Out'] + 1 = Here
  BY <1>1, <1>2, <1>6, Numbers DEF Here
<1>14. input'[Hi'[Out'] + 1] \notin Continuing
  <2>1. Class \notin Continuing
    BY <1>1, EndsFacts DEF Continuing
  <2> QED
    BY <1>1, <1>13, <2>1, Continued DEF tok, Here
<1>15. Top.start \in 1 .. Here /\ Worded(Top)
  BY <1>3, <1>4, TopLaid
<1>16. Worded(g)'
  <2>1. LeadAt(g.start)' = LeadAt(g.start)
    BY <1>1 DEF LeadAt
  <2>2. Len(g.kids) <= 1 /\ Len(g.kids) <= 2
    BY <1>10
  <2>3. CASE g.kind = "While"
    <3>1. LeadAt(g.start)' = "while"
      <4>1. LeadAt(Top.start) = "while"
        BY <1>9, <1>15, <2>3 DEF Worded
      <4>2. LeadAt(g.start) = "while"
        BY <1>9, <4>1
      <4> QED
        BY <2>1, <4>2
    <3> QED
      BY <1>10, <1>14, <2>2, <2>3, <3>1 DEF Worded
  <2>4. CASE g.kind = "If"
    <3>1. LeadAt(g.start)' = "if"
      <4>1. LeadAt(Top.start) = "if"
        BY <1>9, <1>15, <2>4 DEF Worded
      <4>2. LeadAt(g.start) = "if"
        BY <1>9, <4>1
      <4> QED
        BY <2>1, <4>2
    <3> QED
      BY <1>10, <1>14, <2>2, <2>4, <3>1 DEF Worded
  <2> QED
    BY <1>1, <1>9, <2>3, <2>4
<1>17. Stacked'
  <2>1. Laid(g)'
    BY <1>9, <1>12, <1>13, <1>15, <1>16 DEF Laid
  <2> QED
    BY <1>1, <1>3, <1>4, <1>6, <1>8, <1>9, <2>1, StackSwap
<1>18. Top' = g /\ frames' # << >>
  BY <1>1, <1>3, <1>8, <1>9, SwapFrame DEF Typed
<1>19. Begins(Top, Here)'
  <2>1. Len(g.kids) # 2
    BY <1>10
  <2>2. Begins(g, Here)'
    BY <1>1, <1>9, <1>10, <1>13, <2>1 DEF Begins
  <2> QED
    BY <1>18, <2>2
<1>20. Now'
  BY <1>1, <1>19, SignatureStates DEF Now, InExp
<1> QED
  BY <1>6, <1>7, <1>17, <1>20 DEF Inductive

-----------------------------------------------------------------------------
(* The invariant is kept: steps that make a node. *)

(* The statement that ends is handed to what it is part of. *)
LEMMA Closed ==
    ASSUME Still, KidsOlder', NodesFit', Stacked, frames # << >>, frames' = Front(frames),
           at' = "return", Out' > 0, Lo'[Out'] = Top.start, Hi'[Out'] = Here' - 1
    PROVE  Inductive'
<1> DEFINE m == Len(frames)
<1>1. /\ m \in Nat \ {0} /\ Top = frames[m] /\ Len(frames') = m - 1
      /\ \A i \in 1 .. m - 1 : frames'[i] = frames[i]
  BY TopFacts DEF Still, Typed
<1>2. Stacked'
  BY StackPop
<1>3. frames \in Seq(Frame) /\ \A i \in 1 .. m : frames[i] \in Frame
  BY FrameFacts DEF Still
<1>4. ASSUME frames' = << >> PROVE Lo'[Out'] = 1
  <2>1. m = 1
    BY <1>1, <1>4
  <2> QED
    BY <1>1, <2>1 DEF Stacked
<1>5. ASSUME frames' # << >> PROVE Begins(Top, Lo[Out])'
  <2>1. m - 1 # 0
    <3>1. frames' \in Seq(Frame)
      BY TopFacts DEF Still, Typed
    <3> QED
      BY <1>1, <1>5, <3>1, EmptySeq
  <2>2. m - 1 \in 1 .. m - 1 /\ m - 1 \in 1 .. m /\ (m - 1) + 1 = m /\ m \in 1 .. m
    BY <1>1, <2>1
  <2>3. PICK f \in Frame : f = frames[m - 1]
    BY <1>3, <2>2
  <2>4. Begins(f, Top.start) /\ Laid(f) /\ Laid(Top)
    <3>1. Begins(frames[m - 1], frames[(m - 1) + 1].start)
      BY <2>2 DEF Stacked
    <3> QED
      BY <1>1, <2>2, <2>3, <3>1 DEF Stacked
  <2>5. PICK p : p = Top.start
    OBVIOUS
  <2>6. InRow(f) /\ p \in 1 .. Here
    BY <2>4, <2>5 DEF Laid
  <2>7. Begins(f, p)'
    BY <2>4, <2>5, <2>6, StillBegins
  <2>8. Top' = f
    <3>1. frames'[Len(frames')] = f
      BY <1>1, <2>2, <2>3
    <3> QED
      BY <3>1 DEF Top, Last
  <2> QED
    BY <2>5, <2>7, <2>8
<1>6. InHand'
  BY <1>4, <1>5 DEF InHand
<1>7. Now'
  BY <1>6, SignatureStates DEF Now, InExp
<1> QED
  BY <1>2, <1>7 DEF Inductive, Still

LEMMA FinishFuncDecKeeps ==
    ASSUME Typed, Inductive, FinishFuncDec
    PROVE  Inductive'
<1>1. /\ at = "body" /\ tok = ";" /\ Consume /\ at' = "return" /\ frames' = Front(frames)
      /\ nodes' = Append(nodes, Made("FuncDec", Top.start, Here, << >>))
  BY DEF FinishFuncDec
<1>2. Typed' /\ Kept /\ Len(input') = Len(input) + 1
  BY <1>1, EndTyped
<1>3. KidsOlder /\ NodesFit /\ Stacked /\ Now
  BY <1>1, AtWork
<1>4. /\ frames # << >> /\ Top.kind = "Function" /\ Top.start < Here - 1
  BY <1>1, <1>3 DEF Typed, Owned, Now
<1>5. Top \in Frame /\ Worded(Top) /\ Top.start \in 1 .. Here /\ Top.start \in Nat
  BY <1>3, <1>4, TopLaid
<1>6. Here \in Nat \ {0} /\ Here' = Here + 1 /\ Here \in 1 .. Here
  BY <1>2, Numbers DEF Here
<1>7. PICK m \in Node : m = Made("FuncDec", Top.start, Here, << >>)
  <2>1. "FuncDec" \in Kinds /\ << >> \in Seq(Nat)
    BY DEF Kinds
  <2>2. Made("FuncDec", Top.start, Here, << >>) \in Node
    BY <1>5, <1>6, <2>1, MadeTyped
  <2> QED
    BY <2>2
<1>8. m.kind = "FuncDec" /\ m.first = Top.start /\ m.last = Here /\ m.kids = << >>
  BY <1>7 DEF Made
<1>9. NodeShape(m, Out + 1)
  <2>1. DOMAIN << >> = {} /\ m.first # 0
    BY <1>5, <1>8
  <2> QED
    BY <1>8, <2>1 DEF NodeShape
<1>10. /\ Still /\ KidsOlder' /\ Out \in Nat /\ Out' = Out + 1 /\ nodes'[Out'] = m
       /\ Lo'[Out'] = Top.start /\ Hi'[Out'] = Here
       /\ NodeFits(Out)' => NodesFit'
  <2>1. m.first # 0
    BY <1>5, <1>8
  <2> QED
    BY <1>1, <1>2, <1>3, <1>7, <1>8, <1>9, <2>1, NewNode
<1>11. /\ \A p \in 1 .. Here : input'[p] = input[p] /\ LeadAt(p)' = LeadAt(p)
  BY <1>10, StillThere
<1>12. PICK n : n = Out'
  OBVIOUS
<1>13. PICK s \in 1 .. Here : s = Top.start
  BY <1>5
<1>14. Placed(n)'
  <2>1. s \in 1 .. Here /\ Here \in 1 .. Here' - 1
    BY <1>6
  <2> QED
    BY <1>10, <1>12, <1>13, <2>1 DEF Placed
<1>15. Fills(n)'
  <2>1. LeadAt(s) \in {"fn", "cfn"} /\ LeadAt(s)' = LeadAt(s) /\ input'[Here] = ";"
    BY <1>1, <1>4, <1>5, <1>6, <1>11, <1>13 DEF Worded, tok, Here
  <2>2. Lo'[n] = s /\ Hi'[n] = Here /\ nodes'[n].kind = "FuncDec"
    BY <1>8, <1>10, <1>12, <1>13
  <2> QED
    BY <2>1, <2>2 DEF Fills, FillsSimple, FillsBranches, FillsGlobal, LeadAt
<1>16. Fresh(n)' /\ NoElse(n)'
  BY <1>8, <1>10, <1>12 DEF Fresh, NoElse
<1>17. NodesFit'
  <2>1. NodeFits(n)'
    BY <1>14, <1>15, <1>16 DEF NodeFits
  <2>2. NodeFits(Out)'
    BY <1>12, <2>1
  <2> QED
    BY <1>10, <2>2
<1>18. Out' > 0 /\ Hi'[Out'] = Here' - 1
  BY <1>6, <1>10
<1> QED
  BY <1>1, <1>3, <1>4, <1>10, <1>17, <1>18, Closed

(* The parts of a frame fill it, up to what is ahead of it. *)
LEMMA RowFills ==
    ASSUME Still, NEW f \in Frame, InRow(f), NEW h \in Nat, h = Ahead(f)
    PROVE  Row(f.kids, From(f), h - 1)'
<1> DEFINE k == f.kids
<1>1. /\ k \in Seq(Nat) /\ Len(k) \in Nat /\ DOMAIN k = 1 .. Len(k)
      /\ k # << >> => 1 \in DOMAIN k /\ Len(k) \in DOMAIN k
      /\ \A i \in DOMAIN k : Hi[k[i]] \in 1 .. Here - 1
      /\ f.start \in Nat
  BY RowFacts DEF Still
<1>2. \A i \in DOMAIN k : Lo'[k[i]] = Lo[k[i]] /\ Hi'[k[i]] = Hi[k[i]]
  BY StillRow
<1>3. CASE k = << >>
  <2>1. h = (h - 1) + 1
    OBVIOUS
  <2>2. h = From(f)
    BY <1>3 DEF Ahead
  <2> QED
    BY <1>3, <2>1, <2>2 DEF Row
<1>4. CASE k # << >>
  <2>1. h = Hi[k[Len(k)]] + 1
    BY <1>4 DEF Ahead, Last
  <2>2. Hi'[k[Len(k)]] = h - 1
    <3>1. Hi[k[Len(k)]] \in Int
      BY <1>1, <1>4
    <3> QED
      BY <1>1, <1>2, <1>4, <2>1, <3>1
  <2>3. Lo'[k[1]] = From(f)
    BY <1>1, <1>2, <1>4 DEF InRow
  <2>4. ASSUME NEW i \in 1 .. Len(k) - 1 PROVE Lo'[k[i + 1]] = Hi'[k[i]] + 1
    <3>1. i \in DOMAIN k /\ i + 1 \in DOMAIN k
      BY <1>1
    <3>2. Lo[k[i + 1]] = Hi[k[i]] + 1
      BY DEF InRow
    <3> QED
      BY <1>2, <3>1, <3>2
  <2> QED
    BY <1>4, <2>2, <2>3, <2>4 DEF Row, Last
<1> QED
  BY <1>3, <1>4

LEMMA CloseBlockKeeps ==
    ASSUME Typed, Inductive, CloseBlock
    PROVE  Inductive'
<1>1. /\ at = "part" /\ tok = "}" /\ Consume /\ at' = "return" /\ frames' = Front(frames)
      /\ nodes' = Append(nodes, Made("Block", Top.start, Here, Top.kids))
  BY DEF CloseBlock
<1>2. Typed' /\ Kept /\ Len(input') = Len(input) + 1
  BY <1>1, EndTyped
<1>3. KidsOlder /\ NodesFit /\ Stacked /\ Now
  BY <1>1, AtWork
<1>4. /\ frames # << >> /\ Top.kind = "Block" /\ Begins(Top, Here)
  BY <1>1, <1>3 DEF Typed, Owned, Now
<1>5. /\ Top \in Frame /\ Worded(Top) /\ InRow(Top) /\ Top.start \in 1 .. Here
      /\ Top.start \in Nat /\ Top.kids \in Seq(Nat)
  BY <1>3, <1>4, TopLaid
<1>6. Here \in Nat \ {0} /\ Here' = Here + 1 /\ Here \in 1 .. Here
  BY <1>2, Numbers DEF Here
<1>7. PICK m \in Node : m = Made("Block", Top.start, Here, Top.kids)
  <2>1. "Block" \in Kinds
    BY DEF Kinds
  <2>2. Made("Block", Top.start, Here, Top.kids) \in Node
    BY <1>5, <1>6, <2>1, MadeTyped
  <2> QED
    BY <2>2
<1>8. m.kind = "Block" /\ m.first = Top.start /\ m.last = Here /\ m.kids = Top.kids
  BY <1>7 DEF Made
<1>9. m.first # 0
  BY <1>5, <1>8
<1>10. NodeShape(m, Out + 1)
  <2>1. Out \in Nat
    BY Numbers
  <2>2. (Out + 1) - 1 = Out
    BY <2>1
  <2>3. \A i \in DOMAIN m.kids : m.kids[i] \in 1 .. (Out + 1) - 1
    BY <1>5, <1>8, <2>2 DEF InRow
  <2> QED
    BY <1>8, <1>9, <2>3 DEF NodeShape
<1>11. /\ Still /\ KidsOlder' /\ Out \in Nat /\ Out' = Out + 1 /\ nodes'[Out'] = m
       /\ Lo'[Out'] = Top.start /\ Hi'[Out'] = Here
       /\ NodeFits(Out)' => NodesFit'
  BY <1>1, <1>2, <1>3, <1>7, <1>8, <1>9, <1>10, NewNode
<1>12. PICK n : n = Out'
  OBVIOUS
<1>13. PICK f \in Frame : f = Top
  BY <1>5
<1>14. PICK h \in Nat : h = Here
  BY <1>6
<1>15. Placed(n)'
  <2>1. f.start \in 1 .. h /\ h \in 1 .. Here' - 1
    BY <1>5, <1>6, <1>13, <1>14
  <2> QED
    BY <1>11, <1>12, <1>13, <1>14, <2>1 DEF Placed
<1>16. Row(f.kids, From(f), h - 1)'
  <2>1. InRow(f) /\ Begins(f, h) /\ f.kind = "Block"
    BY <1>4, <1>5, <1>13, <1>14
  <2>2. h = Ahead(f)
    BY <2>1 DEF Begins, Ahead
  <2> QED
    BY <1>11, <2>1, <2>2, RowFills
<1>17. Braced(n)'
  <2>1. From(f) = f.start + 1
    BY <1>4, <1>13 DEF From
  <2>2. nodes'[n].kids = f.kids /\ Lo'[n] = f.start /\ Hi'[n] = h
    BY <1>8, <1>11, <1>12, <1>13, <1>14
  <2>3. input'[f.start] = "{" /\ input'[h] = "}"
    <3>1. f.start \in 1 .. Here /\ h \in 1 .. Here /\ input[f.start] = "{"
      BY <1>4, <1>5, <1>6, <1>13, <1>14 DEF Worded
    <3>2. input[h] = "}"
      BY <1>1, <1>14 DEF tok, Here
    <3> QED
      BY <1>11, <3>1, <3>2, StillThere
  <2> QED
    BY <1>16, <2>1, <2>2, <2>3 DEF Braced
<1>18. Fills(n)' /\ Fresh(n)' /\ NoElse(n)'
  <2>1. nodes'[n].kind = "Block"
    BY <1>8, <1>11, <1>12
  <2> QED
    BY <1>17, <2>1 DEF Fills, FillsSimple, FillsBranches, FillsGlobal, Fresh, NoElse
<1>19. NodesFit'
  <2>1. NodeFits(n)'
    BY <1>15, <1>18 DEF NodeFits
  <2>2. NodeFits(Out)'
    BY <1>12, <2>1
  <2> QED
    BY <1>11, <2>2
<1>20. Out' > 0 /\ Hi'[Out'] = Here' - 1
  BY <1>6, <1>11
<1> QED
  BY <1>1, <1>3, <1>4, <1>11, <1>19, <1>20, Closed

LEMMA EmptyBlockKeeps ==
    ASSUME Typed, Inductive, EmptyBlock
    PROVE  Inductive'
<1>1. /\ at = "block" /\ tok = ";" /\ at' = "return" /\ frames' = frames
      /\ nodes' = Append(nodes, Made("Block", Here, Here, << >>))
  BY DEF EmptyBlock
<1>2. Typed' /\ Kept /\ Len(input') = Len(input) + 1
  BY EmptyBlockTyped
<1>3. KidsOlder /\ NodesFit /\ Stacked /\ Now
  BY <1>1, AtWork
<1>4. frames # << >> /\ Begins(Top, Here) /\ Top' = Top
  BY <1>1, <1>3, SignatureStates DEF Typed, Owned, Now, Top
<1>5. Top \in Frame /\ InRow(Top)
  BY <1>3, <1>4, TopLaid
<1>6. PICK h \in Nat \ {0} : h = Here
  BY Numbers
<1>7. Here' = h + 1 /\ h \in 1 .. Here
  BY <1>2, <1>6 DEF Here
<1>8. PICK m \in Node : m = Made("Block", h, h, << >>)
  <2>1. "Block" \in Kinds /\ << >> \in Seq(Nat)
    BY DEF Kinds
  <2>2. Made("Block", h, h, << >>) \in Node
    BY <1>6, <2>1, MadeTyped
  <2> QED
    BY <2>2
<1>9. m.kind = "Block" /\ m.first = h /\ m.last = h /\ m.kids = << >> /\ m.first # 0
  BY <1>6, <1>8 DEF Made
<1>10. NodeShape(m, Out + 1)
  <2>1. DOMAIN << >> = {}
    OBVIOUS
  <2> QED
    BY <1>9, <2>1 DEF NodeShape
<1>11. /\ Still /\ KidsOlder' /\ Out \in Nat /\ Out' = Out + 1 /\ nodes'[Out'] = m
       /\ Lo'[Out'] = h /\ Hi'[Out'] = h
       /\ NodeFits(Out)' => NodesFit'
  BY <1>1, <1>2, <1>3, <1>6, <1>8, <1>9, <1>10, NewNode
<1>12. PICK n : n = Out'
  OBVIOUS
<1>13. Placed(n)'
  <2>1. h \in 1 .. h /\ h \in 1 .. Here' - 1
    BY <1>7
  <2> QED
    BY <1>11, <1>12, <2>1 DEF Placed
<1>14. Braced(n)'
  <2>1. input'[h] = ";"
    BY <1>1, <1>6, <1>7, <1>11, StillThere DEF tok, Here
  <2> QED
    BY <1>9, <1>11, <1>12, <2>1 DEF Braced
<1>15. Fills(n)' /\ Fresh(n)' /\ NoElse(n)'
  <2>1. nodes'[n].kind = "Block"
    BY <1>9, <1>11, <1>12
  <2> QED
    BY <1>14, <2>1 DEF Fills, FillsSimple, FillsBranches, FillsGlobal, Fresh, NoElse
<1>16. NodesFit'
  <2>1. NodeFits(n)'
    BY <1>13, <1>15 DEF NodeFits
  <2>2. NodeFits(Out)'
    BY <1>12, <2>1
  <2> QED
    BY <1>11, <2>2
<1>17. Stacked'
  BY <1>1, <1>3, <1>11, StackSame
<1>18. Out' > 0 /\ Hi'[Out'] = Here' - 1
  BY <1>7, <1>11
<1>19. Begins(Top, Lo[Out])'
  <2>1. PICK f \in Frame : f = Top
    BY <1>5
  <2>2. Begins(f, h)'
    BY <1>4, <1>5, <1>6, <1>7, <1>11, <2>1, StillBegins
  <2> QED
    BY <1>4, <1>11, <2>1, <2>2
<1>20. InHand'
  BY <1>1, <1>4, <1>18, <1>19 DEF InHand
<1>21. Now'
  BY <1>1, <1>20, SignatureStates DEF Now, InExp
<1> QED
  BY <1>11, <1>16, <1>17, <1>21 DEF Inductive

(* An expression, and the ; that may follow it. *)
LEMMA FinishSimpleKeeps ==
    ASSUME Typed, Inductive, FinishSimple
    PROVE  Inductive'
<1>1. /\ E!Ends(Class) /\ Top.kind \in {"Basic", "Return"} /\ at' = "return"
      /\ tok = ";" \/ Top.kind = "Return"
      /\ tok # ";" => input' = input
      /\ frames' = Front(frames)
      /\ nodes' = nodes \o <<Expression,
            Made(Top.kind, Top.start, IF tok = ";" THEN Here ELSE Here - 1, <<Out + 1>>)>>
  BY DEF FinishSimple, Out
<1>2. Typed' /\ Kept /\ (tok = ";" => Len(input') = Len(input) + 1)
  BY FinishSimpleTyped
<1>3. at = "loop" /\ frames # << >> /\ Top \in Frame
  BY <1>1, ExpressionFacts
<1>4. KidsOlder /\ NodesFit /\ Stacked /\ Now
  BY <1>3, AtWork
<1>5. Worded(Top) /\ Top.start \in 1 .. Here /\ Top.start \in Nat
  BY <1>3, <1>4, TopLaid
<1>6. PICK e \in Node : e = Expression
  BY <1>1, ExpressionFacts
<1>7. /\ e.kind = "Exp" /\ e.first = From(Top) /\ e.last = Here - 1 /\ e.first # 0
      /\ From(Top) \in 1 .. Here - 1 /\ Plain(From(Top), Here - 1)
      /\ \A i : NodeShape(e, i)
  BY <1>1, <1>4, <1>6, ExpressionText
<1>8. Here \in Nat \ {0} /\ Here - 1 \in Nat /\ Out \in Nat /\ Here \in 1 .. Here
  BY Numbers
<1>9. PICK last \in Nat : last = IF tok = ";" THEN Here ELSE Here - 1
  BY <1>8
<1>10. PICK m \in Node : m = Made(Top.kind, Top.start, last, <<Out + 1>>)
  <2>1. <<Out + 1>> \in Seq(Nat)
    BY <1>8
  <2>2. Top.kind \in Kinds
    BY <1>1 DEF Kinds
  <2>3. Made(Top.kind, Top.start, last, <<Out + 1>>) \in Node
    BY <1>5, <2>1, <2>2, MadeTyped
  <2> QED
    BY <2>3
<1>11. m.kind = Top.kind /\ m.first = Top.start /\ m.last = last /\ m.kids = <<Out + 1>>
  BY <1>10 DEF Made
<1>12. m.first # 0
  BY <1>5, <1>11
<1>13. Len(m.kids) = 1 /\ m.kids[1] = Out + 1 /\ DOMAIN m.kids = {1}
  BY <1>8, <1>11
<1>14. NodeShape(m, Out + 2)
  <2>1. Out + 1 \in 1 .. (Out + 2) - 1
    BY <1>8
  <2>2. \A i \in DOMAIN m.kids : m.kids[i] \in 1 .. (Out + 2) - 1
    BY <1>13, <2>1
  <2> QED
    BY <1>1, <1>11, <1>12, <1>13, <2>2 DEF NodeShape
<1>15. /\ Still /\ KidsOlder' /\ Out' = Out + 2
       /\ nodes'[Out + 1] = e /\ nodes'[Out'] = m
       /\ Lo'[Out + 1] = From(Top) /\ Hi'[Out + 1] = Here - 1
       /\ Lo'[Out'] = Top.start /\ Hi'[Out'] = last
       /\ (\A n \in Out + 1 .. Out + 2 : NodeFits(n)') => NodesFit'
  <2>1. nodes' = nodes \o <<e, m>>
    BY <1>1, <1>6, <1>9, <1>10
  <2>2. NodeShape(e, Out + 1)
    BY <1>7
  <2> QED
    BY <1>2, <1>4, <1>6, <1>7, <1>10, <1>11, <1>12, <1>14, <2>1, <2>2, NewPair
<1>16. PICK n : n = Out'
  OBVIOUS
<1>17. PICK s \in 1 .. Here : s = Top.start
  BY <1>5
<1>18. PICK h \in Nat \ {0} : h = Here
  BY <1>8
<1>19. s \in 1 .. last /\ last \in 1 .. Here' - 1 /\ last = Here' - 1
  <2>1. s <= From(Top) /\ From(Top) <= h - 1 /\ s \in Nat /\ From(Top) \in Nat
    BY <1>3, <1>4, <1>7, <1>17, <1>18, TopLaid
  <2>2. CASE tok = ";"
    <3>1. last = h /\ Here' = h + 1
      BY <1>2, <1>9, <1>18, <2>2 DEF Here
    <3> QED
      BY <2>1, <3>1
  <2>3. CASE tok # ";"
    <3>1. last = h - 1 /\ Here' = h
      BY <1>1, <1>9, <1>18, <2>3 DEF Here
    <3> QED
      BY <2>1, <3>1
  <2> QED
    BY <2>2, <2>3
<1>20. Placed(n)'
  BY <1>15, <1>16, <1>17, <1>19 DEF Placed
<1>21. /\ nodes'[n].kind = Top.kind /\ nodes'[n].kids[1] = Out + 1
       /\ Lo'[n] = s /\ Hi'[n] = last
  BY <1>11, <1>13, <1>15, <1>16, <1>17
<1>22. ASSUME Top.kind = "Basic" PROVE Fills(n)'
  <2>1. From(Top) = s /\ last = h
    BY <1>1, <1>9, <1>17, <1>18, <1>22 DEF From
  <2>2. input'[last] = ";"
    <3>1. input[h] = ";" /\ h \in 1 .. Here
      BY <1>1, <1>8, <1>18, <1>22 DEF tok, Here
    <3> QED
      BY <1>15, <2>1, <3>1, StillThere
  <2>3. Lo'[Out + 1] = s /\ Hi'[Out + 1] = last - 1
    BY <1>15, <1>18, <2>1
  <2> QED
    BY <1>21, <1>22, <2>2, <2>3 DEF Fills, FillsSimple, FillsBranches, FillsGlobal
<1>23. ASSUME Top.kind = "Return" PROVE Fills(n)'
  <2>1. From(Top) = s + 1
    BY <1>17, <1>23 DEF From
  <2>2. LeadAt(s)' = "return"
    <3>1. LeadAt(s) = "return"
      BY <1>5, <1>17, <1>23 DEF Worded
    <3> QED
      BY <1>15, <1>17, <3>1, StillThere
  <2>3. Lo'[Out + 1] = s + 1 /\ Hi'[Out + 1] = h - 1
    BY <1>15, <1>18, <2>1
  <2>4. h - 1 = IF input'[last] = ";" THEN last - 1 ELSE last
    <3>1. CASE tok = ";"
      <4>1. input[h] = ";" /\ h \in 1 .. Here /\ last = h
        BY <1>8, <1>9, <1>18, <3>1 DEF tok, Here
      <4>2. input'[last] = ";"
        BY <1>15, <4>1, StillThere
      <4> QED
        BY <4>1, <4>2
    <3>2. CASE tok # ";"
      <4>1. last = h - 1 /\ input' = input
        BY <1>1, <1>9, <1>18, <3>2
      <4>2. last \in From(Top) .. Here - 1
        BY <1>7, <1>8, <1>18, <4>1
      <4>3. input[last] # ";"
        BY <1>7, <4>2 DEF Plain
      <4> QED
        BY <4>1, <4>3
    <3> QED
      BY <3>1, <3>2
  <2> QED
    BY <1>21, <1>23, <2>2, <2>3, <2>4 DEF Fills, FillsSimple, FillsBranches, FillsGlobal
<1>24. Fresh(n)' /\ NoElse(n)'
  BY <1>1, <1>21 DEF Fresh, NoElse
<1>25. NodeFits(n)'
  <2>1. Fills(n)'
    BY <1>1, <1>22, <1>23
  <2> QED
    BY <1>20, <1>24, <2>1 DEF NodeFits
<1>26. NodesFit'
  <2>1. PICK o : o = Out + 1
    OBVIOUS
  <2>2. NodeFits(o)'
    BY <1>7, <1>15, <2>1, ExpressionFits
  <2>3. \A i \in Out + 1 .. Out + 2 : i = o \/ i = n
    BY <1>8, <1>15, <1>16, <2>1
  <2>4. \A i \in Out + 1 .. Out + 2 : NodeFits(i)'
    BY <1>25, <2>2, <2>3
  <2> QED
    BY <1>15, <2>4
<1>27. Out' > 0 /\ Hi'[Out'] = Here' - 1
  BY <1>8, <1>15, <1>19
<1> QED
  BY <1>1, <1>3, <1>4, <1>15, <1>26, <1>27, Closed

(* A node is returned to what it is part of: it begins where a part was to. *)
LEMMA Returned ==
    ASSUME Typed, NodesFit, Stacked, Now, at = "return", frames # << >>
    PROVE  /\ Here \in Nat \ {0} /\ Out \in 1 .. Out /\ Out \in Nat /\ Hi[Out] = Here - 1
           /\ Lo[Out] \in 1 .. Here - 1 /\ Begins(Top, Lo[Out])
<1>1. InHand
  BY DEF Now
<1>2. Here \in Nat \ {0} /\ Out \in Nat /\ Out > 0 /\ Hi[Out] = Here - 1 /\ Begins(Top, Lo[Out])
  BY <1>1, Numbers DEF InHand
<1>3. Out \in 1 .. Out
  BY <1>2
<1>4. Placed(Out)
  BY <1>3 DEF NodesFit, NodeFits
<1> QED
  BY <1>2, <1>3, <1>4 DEF Placed

(* The node becomes the last part of a statement that begins with its word. *)
LEMMA FinishMakes ==
    ASSUME Typed, Inductive, NEW kind \in {"While", "Function", "If"},
           at = "return", frames # << >>, Top.kind = kind, Finish(kind, Top.start), Typed', Kept,
           Len(Top.kids) \in Nat,
           kind = "Function" => Len(Top.kids) = 0,
           kind = "While" => Len(Top.kids) = 1,
           kind = "If" => Len(Top.kids) = 2
    PROVE  /\ Still /\ Out \in Nat /\ Out' = Out + 1
           /\ nodes'[Out'].kind = kind /\ nodes'[Out'].kids = Append(Top.kids, Out)
           /\ nodes'[Out'].first = Top.start
           /\ Lo'[Out'] = Top.start /\ Hi'[Out'] = Here - 1 /\ Here' = Here
           /\ NodeFits(Out)' => Inductive'
<1>1. /\ nodes' = Append(nodes, Made(kind, Top.start, IF Top.start = 0 THEN 0 ELSE Here - 1,
                                      Append(Top.kids, Out)))
      /\ frames' = Front(frames) /\ input' = input /\ at' = "return"
  BY DEF Finish, Out
<1>2. KidsOlder /\ NodesFit /\ Stacked /\ Now
  BY AtWork
<1>3. /\ Top \in Frame /\ InRow(Top) /\ Top.start \in 1 .. Here /\ Top.start \in Nat
      /\ Top.kids \in Seq(Nat)
  BY <1>2, TopLaid
<1>4. Here \in Nat \ {0} /\ Here - 1 \in Nat /\ Here' = Here /\ Out \in 1 .. Out /\ Out \in Nat
  BY <1>1, <1>2, Returned, Numbers DEF Here
<1> DEFINE q == Append(Top.kids, Out)
<1>5. /\ q \in Seq(Nat) /\ Len(q) = Len(Top.kids) + 1 /\ q[Len(q)] = Out
      /\ DOMAIN q = 1 .. Len(Top.kids) + 1
      /\ \A i \in 1 .. Len(Top.kids) : q[i] = Top.kids[i]
  BY <1>3, <1>4, AppendProperties
<1>6. PICK m \in Node : m = Made(kind, Top.start, Here - 1, q)
  <2>1. kind \in Kinds
    BY DEF Kinds
  <2>2. Made(kind, Top.start, Here - 1, q) \in Node
    BY <1>3, <1>4, <1>5, <2>1, MadeTyped
  <2> QED
    BY <2>2
<1>7. m.kind = kind /\ m.first = Top.start /\ m.last = Here - 1 /\ m.kids = q
  BY <1>6 DEF Made
<1>8. m.first # 0 /\ nodes' = Append(nodes, m)
  <2>1. Top.start # 0
    BY <1>3
  <2> QED
    BY <1>1, <1>6, <1>7, <2>1
<1>9. \A i \in DOMAIN q : q[i] \in 1 .. (Out + 1) - 1
  <2>1. (Out + 1) - 1 = Out
    BY <1>4
  <2>2. DOMAIN Top.kids = 1 .. Len(Top.kids)
    BY <1>3
  <2>3. \A i \in 1 .. Len(Top.kids) : q[i] \in 1 .. Out
    BY <1>3, <1>5, <2>2 DEF InRow
  <2>4. \A i \in 1 .. Len(Top.kids) + 1 : i \in 1 .. Len(Top.kids) \/ i = Len(Top.kids) + 1
    OBVIOUS
  <2>5. q[Len(Top.kids) + 1] \in 1 .. Out
    BY <1>4, <1>5
  <2> HIDE DEF q
  <2> QED
    BY <1>5, <2>1, <2>3, <2>4, <2>5
<1>10. /\ kind = "Function" => Len(q) = 1
       /\ kind = "While" => Len(q) = 2
       /\ kind = "If" => Len(q) = 3
  <2>1. ASSUME kind = "Function" PROVE Len(q) = 1
    <3>1. Len(Top.kids) = 0
      BY <2>1
    <3> QED
      BY <1>5, <3>1
  <2>2. ASSUME kind = "While" PROVE Len(q) = 2
    <3>1. Len(Top.kids) = 1
      BY <2>2
    <3> QED
      BY <1>5, <3>1
  <2>3. ASSUME kind = "If" PROVE Len(q) = 3
    <3>1. Len(Top.kids) = 2
      BY <2>3
    <3> QED
      BY <1>5, <3>1
  <2> QED
    BY <2>1, <2>2, <2>3
<1>11. NodeShape(m, Out + 1)
  <2> HIDE DEF q
  <2> QED
    BY <1>7, <1>8, <1>9, <1>10 DEF NodeShape
<1>12. /\ Still /\ KidsOlder' /\ Out' = Out + 1 /\ nodes'[Out'] = m
       /\ Lo'[Out'] = Top.start /\ Hi'[Out'] = Here - 1
       /\ NodeFits(Out)' => NodesFit'
  <2> HIDE DEF q
  <2> QED
    BY <1>2, <1>6, <1>7, <1>8, <1>11, NewNode
<1>13. Out' > 0 /\ Hi'[Out'] = Here' - 1
  BY <1>4, <1>12
<1>14. ASSUME NodeFits(Out)' PROVE Inductive'
  BY <1>1, <1>2, <1>12, <1>13, <1>14, Closed
<1> QED
  BY <1>4, <1>7, <1>12, <1>14

LEMMA FinishWhileKeeps ==
    ASSUME Typed, Inductive, FinishWhile
    PROVE  Inductive'
<1>1. at = "return" /\ frames # << >> /\ Top.kind = "While" /\ Finish("While", Top.start)
  BY DEF FinishWhile, ReturnTo
<1>2. Typed' /\ Kept
  BY EndTyped
<1>3. KidsOlder /\ NodesFit /\ Stacked /\ Now
  BY <1>1, AtWork
<1>4. PICK f \in Frame : f = Top
  BY <1>1, <1>3, TopLaid
<1>5. InRow(f) /\ Worded(f) /\ f.start \in 1 .. Here /\ f.start \in Nat /\ f.kids \in Seq(Nat)
  BY <1>1, <1>3, <1>4, TopLaid
<1>6. PICK h \in Nat \ {0} : h = Here
  BY <1>1, <1>3, Returned
<1>7. PICK o \in 1 .. Out : o = Out
  BY <1>1, <1>3, Returned
<1>8. o \in Nat /\ Hi[o] = h - 1 /\ Lo[o] \in 1 .. h - 1 /\ Begins(f, Lo[o])
  BY <1>1, <1>3, <1>4, <1>6, <1>7, Returned
<1>9. f.kids # << >> /\ f.kind = "While"
  BY <1>1, <1>4, <1>8 DEF Begins
<1>10. Len(f.kids) = 1
  <2>1. Len(f.kids) <= 1
    BY <1>5, <1>9 DEF Worded
  <2>2. Len(f.kids) \in Nat /\ Len(f.kids) # 0
    BY <1>5, <1>9, EmptySeq
  <2>3. \A x \in Nat : x <= 1 /\ x # 0 => x = 1
    OBVIOUS
  <2> QED
    BY <2>1, <2>2, <2>3
<1>11. PICK a \in 1 .. Out : a = f.kids[1]
  BY <1>3, <1>5, <1>9, RowFacts
<1>12. /\ Hi[a] \in 1 .. h - 1 /\ Lo[a] \in 1 .. h - 1 /\ Lo[a] = f.start + 1
       /\ input[Hi[a] + 1] \notin Continuing /\ LeadAt(f.start) = "while"
       /\ Lo[o] = Hi[a] + 1
  <2>1. Hi[a] \in 1 .. h - 1 /\ Lo[a] \in 1 .. h - 1
    BY <1>3, <1>5, <1>6, <1>9, <1>11, RowFacts
  <2>2. Lo[a] = f.start + 1
    BY <1>5, <1>9, <1>11 DEF InRow, From
  <2>3. input[Hi[a] + 1] \notin Continuing /\ LeadAt(f.start) = "while"
    BY <1>5, <1>9, <1>11 DEF Worded
  <2>4. Lo[o] = Hi[a] + 1
    <3>1. Last(f.kids) = a
      BY <1>10, <1>11 DEF Last
    <3> QED
      BY <1>8, <1>9, <3>1 DEF Begins
  <2> QED
    BY <2>1, <2>2, <2>3, <2>4
<1>13. /\ Still /\ Out' = Out + 1
       /\ nodes'[Out'].kind = "While" /\ nodes'[Out'].kids = Append(f.kids, o)
       /\ Lo'[Out'] = f.start /\ Hi'[Out'] = h - 1 /\ Here' = h
       /\ NodeFits(Out)' => Inductive'
  <2>1. Len(Top.kids) \in Nat /\ Len(Top.kids) = 1
    BY <1>4, <1>10
  <2> QED
    BY <1>1, <1>2, <1>4, <1>6, <1>7, <2>1, FinishMakes
<1>14. PICK n : n = Out'
  OBVIOUS
<1>15. PICK q : q = nodes'[n].kids
  OBVIOUS
<1>16. Len(q) = 2 /\ q[1] = a /\ q[2] = o
  <2>1. q = Append(f.kids, o)
    BY <1>13, <1>14, <1>15
  <2>2. /\ Len(q) = Len(f.kids) + 1 /\ q[Len(f.kids) + 1] = o
        /\ \A i \in 1 .. Len(f.kids) : q[i] = f.kids[i]
    BY <1>5, <1>8, <2>1, AppendProperties
  <2>3. Len(f.kids) + 1 = 2 /\ 1 \in 1 .. Len(f.kids)
    BY <1>10
  <2> QED
    BY <1>11, <2>2, <2>3
<1>17. /\ Lo'[a] = Lo[a] /\ Hi'[a] = Hi[a] /\ Lo'[o] = Lo[o] /\ Hi'[o] = Hi[o]
       /\ LeadAt(f.start)' = LeadAt(f.start)
       /\ input'[Lo[o]] = input[Lo[o]]
  <2>1. Lo[o] \in 1 .. Here
    BY <1>6, <1>8
  <2> QED
    BY <1>5, <1>13, <2>1, StillThere
<1>18. Placed(n)'
  <2>1. f.start \in 1 .. h - 1 /\ h - 1 \in 1 .. h - 1
    BY <1>5, <1>12
  <2> QED
    BY <1>13, <1>14, <2>1 DEF Placed
<1>19. Fills(n)'
  <2>1. /\ Lo'[n] = f.start /\ Hi'[n] = h - 1 /\ nodes'[n].kind = "While"
        /\ LeadAt(f.start)' = "while" /\ Hi'[o] = h - 1
        /\ Lo'[a] = f.start + 1 /\ Lo'[o] = Hi'[a] + 1
    BY <1>8, <1>12, <1>13, <1>14, <1>17
  <2> QED
    BY <1>15, <1>16, <2>1 DEF Fills, FillsSimple, FillsBranches, FillsGlobal
<1>20. Fresh(n)'
  <2>1. input'[Lo'[o]] \notin Continuing
    BY <1>12, <1>17
  <2> QED
    BY <1>15, <1>16, <2>1 DEF Fresh
<1>21. NoElse(n)'
  BY <1>13, <1>14 DEF NoElse
<1>22. NodeFits(n)'
  BY <1>18, <1>19, <1>20, <1>21 DEF NodeFits
<1> QED
  BY <1>13, <1>14, <1>22

LEMMA FinishFunctionKeeps ==
    ASSUME Typed, Inductive, FinishFunction
    PROVE  Inductive'
<1>1. at = "return" /\ frames # << >> /\ Top.kind = "Function" /\ Finish("Function", Top.start)
  BY DEF FinishFunction, ReturnTo
<1>2. Typed' /\ Kept
  BY EndTyped
<1>3. KidsOlder /\ NodesFit /\ Stacked /\ Now
  BY <1>1, AtWork
<1>4. PICK f \in Frame : f = Top
  BY <1>1, <1>3, TopLaid
<1>5. InRow(f) /\ Worded(f) /\ f.start \in 1 .. Here /\ f.start \in Nat /\ f.kids \in Seq(Nat)
  BY <1>1, <1>3, <1>4, TopLaid
<1>6. PICK h \in Nat \ {0} : h = Here
  BY <1>1, <1>3, Returned
<1>7. PICK o \in 1 .. Out : o = Out
  BY <1>1, <1>3, Returned
<1>8. o \in Nat /\ Hi[o] = h - 1 /\ Lo[o] \in 1 .. h - 1 /\ Begins(f, Lo[o])
  BY <1>1, <1>3, <1>4, <1>6, <1>7, Returned
<1>9. /\ f.kids = << >> /\ f.kind = "Function" /\ LeadAt(f.start) \in {"fn", "cfn"}
      /\ f.start < Lo[o] - 1 /\ input[Lo[o] - 1] = ")" /\ input[Lo[o]] = "{"
  <2>1. f.kind = "Function"
    BY <1>1, <1>4
  <2>2. f.kids = << >> /\ LeadAt(f.start) \in {"fn", "cfn"}
    BY <1>5, <2>1 DEF Worded
  <2> QED
    BY <1>8, <2>1, <2>2 DEF Begins
<1>s. /\ f.start \in 1 .. h - 1 /\ h - 1 \in 1 .. h - 1 /\ f.start < Lo[o]
      /\ Lo[o] \in 1 .. h /\ Lo[o] - 1 \in 1 .. h
  <2>1. f.start \in Nat \ {0}
    BY <1>5
  <2>2. f.start < Lo[o] - 1
    BY <1>9
  <2> QED
    BY <1>8, <2>1, <2>2
<1>10. /\ Still /\ Out' = Out + 1
       /\ nodes'[Out'].kind = "Function" /\ nodes'[Out'].kids = Append(f.kids, o)
       /\ Lo'[Out'] = f.start /\ Hi'[Out'] = h - 1 /\ Here' = h
       /\ NodeFits(Out)' => Inductive'
  <2>1. Len(<< >>) \in Nat /\ Len(<< >>) = 0
    OBVIOUS
  <2>2. Top.kids = << >>
    BY <1>4, <1>9
  <2>3. Len(Top.kids) \in Nat /\ Len(Top.kids) = 0
    BY <2>1, <2>2
  <2> QED
    BY <1>1, <1>2, <1>4, <1>6, <1>7, <2>3, FinishMakes
<1>11. PICK n : n = Out'
  OBVIOUS
<1>12. PICK q : q = nodes'[n].kids
  OBVIOUS
<1>13. q[1] = o
  <2>1. q = Append(<< >>, o)
    BY <1>9, <1>10, <1>11, <1>12
  <2>2. Append(<< >>, o)[1] = o
    BY <1>8
  <2> QED
    BY <2>1, <2>2
<1>14. /\ Lo'[o] = Lo[o] /\ Hi'[o] = Hi[o] /\ LeadAt(f.start)' = LeadAt(f.start)
       /\ input'[Lo[o]] = input[Lo[o]] /\ input'[Lo[o] - 1] = input[Lo[o] - 1]
  <2>1. Lo[o] \in 1 .. Here /\ Lo[o] - 1 \in 1 .. Here
    BY <1>6, <1>s
  <2> QED
    BY <1>5, <1>10, <2>1, StillThere
<1>15. Placed(n)'
  BY <1>10, <1>11, <1>s DEF Placed
<1>16. Fills(n)'
  <2>2. LeadAt(f.start)' \in {"fn", "cfn"}
    BY <1>9, <1>14
  <2>3. /\ Lo'[n] = f.start /\ Hi'[n] = h - 1 /\ nodes'[n].kind = "Function"
        /\ Hi'[o] = h - 1 /\ f.start < Lo'[o]
        /\ input'[Lo'[o]] = "{" /\ input'[Lo'[o] - 1] = ")"
    BY <1>8, <1>9, <1>10, <1>11, <1>14, <1>s
  <2> QED
    BY <1>12, <1>13, <2>2, <2>3 DEF Fills, FillsSimple, FillsBranches, FillsGlobal
<1>17. Fresh(n)' /\ NoElse(n)'
  BY <1>10, <1>11 DEF Fresh, NoElse
<1>18. NodeFits(n)'
  BY <1>15, <1>16, <1>17 DEF NodeFits
<1> QED
  BY <1>10, <1>11, <1>18

(* An if whose condition and first branch are read. *)
LEMMA Branched ==
    ASSUME Typed, NodesFit, NEW f \in Frame, InRow(f), Worded(f), f.start \in 1 .. Here,
           f.kind = "If", Len(f.kids) = 2,
           NEW a, a = f.kids[1], NEW b, b = f.kids[2], NEW h \in Nat, h = Here
    PROVE  /\ a \in 1 .. Out /\ b \in 1 .. Out /\ f.start \in Nat
           /\ Lo[a] \in 1 .. h - 1 /\ Hi[a] \in 1 .. h - 1 /\ Lo[a] = f.start + 1
           /\ Lo[b] \in 1 .. h - 1 /\ Hi[b] \in 1 .. h - 1 /\ Lo[b] = Hi[a] + 1
           /\ LeadAt(f.start) = "if" /\ input[Lo[b]] \notin Continuing
<1>1. /\ f.kids # << >> /\ 1 \in DOMAIN f.kids /\ 2 \in DOMAIN f.kids /\ f.start \in Nat
      /\ \A i \in DOMAIN f.kids :
            /\ f.kids[i] \in 1 .. Out /\ Lo[f.kids[i]] \in 1 .. Here - 1
            /\ Hi[f.kids[i]] \in 1 .. Here - 1
  BY RowFacts
<1>2. /\ a \in 1 .. Out /\ b \in 1 .. Out
      /\ Lo[a] \in 1 .. h - 1 /\ Hi[a] \in 1 .. h - 1
      /\ Lo[b] \in 1 .. h - 1 /\ Hi[b] \in 1 .. h - 1
  BY <1>1
<1>3. Lo[a] = f.start + 1
  BY <1>1 DEF InRow, From
<1>4. Lo[b] = Hi[a] + 1
  <2>1. 1 \in 1 .. Len(f.kids) - 1 /\ 1 + 1 = 2
    OBVIOUS
  <2>2. \A i \in 1 .. Len(f.kids) - 1 : Lo[f.kids[i + 1]] = Hi[f.kids[i]] + 1
    BY DEF InRow
  <2>3. Lo[f.kids[1 + 1]] = Hi[f.kids[1]] + 1
    BY <2>1, <2>2
  <2> QED
    BY <2>1, <2>3
<1>5. LeadAt(f.start) = "if" /\ input[Hi[a] + 1] \notin Continuing
  BY <1>1 DEF Worded
<1> QED
  BY <1>1, <1>2, <1>3, <1>4, <1>5

LEMMA FinishIfElseKeeps ==
    ASSUME Typed, Inductive, FinishIfElse
    PROVE  Inductive'
<1>1. /\ at = "return" /\ frames # << >> /\ Top.kind = "If" /\ Finish("If", Top.start)
      /\ Len(Top.kids) = 2
  BY DEF FinishIfElse, ReturnTo
<1>2. Typed' /\ Kept
  BY EndTyped
<1>3. KidsOlder /\ NodesFit /\ Stacked /\ Now
  BY <1>1, AtWork
<1>4. PICK f \in Frame : f = Top
  BY <1>1, <1>3, TopLaid
<1>5. InRow(f) /\ Worded(f) /\ f.start \in 1 .. Here /\ f.start \in Nat /\ f.kids \in Seq(Nat)
  BY <1>1, <1>3, <1>4, TopLaid
<1>6. PICK h \in Nat \ {0} : h = Here
  BY <1>1, <1>3, Returned
<1>7. PICK o \in 1 .. Out : o = Out
  BY <1>1, <1>3, Returned
<1>8. o \in Nat /\ Hi[o] = h - 1 /\ Lo[o] \in 1 .. h - 1 /\ Begins(f, Lo[o])
  BY <1>1, <1>3, <1>4, <1>6, <1>7, Returned
<1>9. f.kind = "If" /\ Len(f.kids) = 2
  BY <1>1, <1>4
<1>10. PICK a : a = f.kids[1]
  OBVIOUS
<1>11. PICK b : b = f.kids[2]
  OBVIOUS
<1>12. /\ a \in 1 .. Out /\ b \in 1 .. Out
       /\ Lo[a] \in 1 .. h - 1 /\ Hi[a] \in 1 .. h - 1 /\ Lo[a] = f.start + 1
       /\ Lo[b] \in 1 .. h - 1 /\ Hi[b] \in 1 .. h - 1 /\ Lo[b] = Hi[a] + 1
       /\ LeadAt(f.start) = "if" /\ input[Lo[b]] \notin Continuing
  BY <1>3, <1>5, <1>6, <1>9, <1>10, <1>11, Branched
<1>13. Lo[o] = Hi[b] + 2 /\ LeadAt(Lo[o] - 1) = "else"
  BY <1>8, <1>9, <1>11 DEF Begins
<1>14. /\ Still /\ Out' = Out + 1
       /\ nodes'[Out'].kind = "If" /\ nodes'[Out'].kids = Append(f.kids, o)
       /\ Lo'[Out'] = f.start /\ Hi'[Out'] = h - 1 /\ Here' = h
       /\ NodeFits(Out)' => Inductive'
  <2>1. Len(Top.kids) \in Nat /\ Len(Top.kids) = 2
    BY <1>4, <1>9
  <2> QED
    BY <1>1, <1>2, <1>4, <1>6, <1>7, <2>1, FinishMakes
<1>15. PICK n : n = Out'
  OBVIOUS
<1>16. PICK q : q = nodes'[n].kids
  OBVIOUS
<1>17. Len(q) = 3 /\ q[1] = a /\ q[2] = b /\ q[3] = o
  <2>1. q = Append(f.kids, o)
    BY <1>14, <1>15, <1>16
  <2>2. /\ Len(q) = Len(f.kids) + 1 /\ q[Len(f.kids) + 1] = o
        /\ \A i \in 1 .. Len(f.kids) : q[i] = f.kids[i]
    BY <1>5, <1>8, <2>1, AppendProperties
  <2>3. Len(f.kids) + 1 = 3 /\ 1 \in 1 .. Len(f.kids) /\ 2 \in 1 .. Len(f.kids)
    BY <1>9
  <2> QED
    BY <1>10, <1>11, <2>2, <2>3
<1>18. /\ Lo'[a] = Lo[a] /\ Hi'[a] = Hi[a] /\ Lo'[b] = Lo[b] /\ Hi'[b] = Hi[b]
       /\ Lo'[o] = Lo[o] /\ Hi'[o] = Hi[o]
       /\ LeadAt(f.start)' = LeadAt(f.start)
       /\ input'[Lo[b]] = input[Lo[b]]
  <2>1. Lo[b] \in 1 .. Here
    BY <1>6, <1>12
  <2> QED
    BY <1>5, <1>12, <1>14, <2>1, StillThere
<1>19. PICK w : w = Hi[b] + 1
  OBVIOUS
<1>20. LeadAt(w)' = "else"
  <2>1. w = Lo[o] - 1 /\ w \in 1 .. Here
    BY <1>6, <1>8, <1>12, <1>13, <1>19
  <2> QED
    BY <1>13, <1>14, <2>1, StillThere
<1>21. Placed(n)'
  <2>1. f.start \in 1 .. h - 1 /\ h - 1 \in 1 .. h - 1
    BY <1>5, <1>12
  <2> QED
    BY <1>14, <1>15, <2>1 DEF Placed
<1>22. Fills(n)'
  <2>1. /\ Lo'[n] = f.start /\ Hi'[n] = h - 1 /\ nodes'[n].kind = "If"
        /\ Hi'[o] = h - 1 /\ Lo'[a] = f.start + 1 /\ Lo'[b] = Hi'[a] + 1
        /\ Lo'[o] = Hi'[b] + 2 /\ w = Hi'[b] + 1
    BY <1>8, <1>12, <1>13, <1>14, <1>15, <1>18, <1>19
  <2>2. LeadAt(f.start)' = "if"
    BY <1>12, <1>18
  <2>3. Len(q) # 2
    BY <1>17
  <2> QED
    BY <1>16, <1>17, <1>20, <2>1, <2>2, <2>3 DEF Fills, FillsSimple, FillsBranches, FillsGlobal
<1>23. Fresh(n)'
  <2>1. input'[Lo'[b]] \notin Continuing
    BY <1>12, <1>18
  <2> QED
    BY <1>16, <1>17, <2>1 DEF Fresh
<1>24. NoElse(n)'
  <2>1. Len(q) # 2
    BY <1>17
  <2> QED
    BY <1>16, <2>1 DEF NoElse
<1>25. NodeFits(n)'
  BY <1>21, <1>22, <1>23, <1>24 DEF NodeFits
<1> QED
  BY <1>14, <1>15, <1>25

(* What has no text of its own. *)
LEMMA FinishIfKeeps ==
    ASSUME Typed, Inductive, FinishIf
    PROVE  Inductive'
<1>1. /\ at = "else" /\ Lead # "else" /\ input' = input /\ frames' = Front(frames)
      /\ at' = "return" /\ nodes' = Append(nodes, Made("If", 0, 0, Top.kids))
  BY DEF FinishIf, TakesElse
<1>2. Typed' /\ Kept
  BY EndTyped
<1>3. KidsOlder /\ NodesFit /\ Stacked /\ Now
  BY <1>1, AtWork
<1>4. frames # << >> /\ Top.kind = "If" /\ Len(Top.kids) = 2 /\ Here = Hi[Top.kids[2]] + 1
  BY <1>1, <1>3 DEF Typed, Owned, Now
<1>5. PICK f \in Frame : f = Top
  BY <1>3, <1>4, TopLaid
<1>6. InRow(f) /\ Worded(f) /\ f.start \in 1 .. Here /\ f.start \in Nat /\ f.kids \in Seq(Nat)
  BY <1>3, <1>4, <1>5, TopLaid
<1>7. PICK h \in Nat \ {0} : h = Here
  BY Numbers
<1>8. f.kind = "If" /\ Len(f.kids) = 2
  BY <1>4, <1>5
<1>9. PICK a : a = f.kids[1]
  OBVIOUS
<1>10. PICK b : b = f.kids[2]
  OBVIOUS
<1>11. /\ a \in 1 .. Out /\ b \in 1 .. Out
       /\ Lo[a] \in 1 .. h - 1 /\ Hi[a] \in 1 .. h - 1 /\ Lo[a] = f.start + 1
       /\ Lo[b] \in 1 .. h - 1 /\ Hi[b] \in 1 .. h - 1 /\ Lo[b] = Hi[a] + 1
       /\ LeadAt(f.start) = "if" /\ input[Lo[b]] \notin Continuing
  BY <1>3, <1>6, <1>7, <1>8, <1>9, <1>10, Branched
<1>12. Hi[b] = h - 1
  BY <1>4, <1>5, <1>7, <1>10, <1>11
<1>13. PICK m \in Node : m = Made("If", 0, 0, f.kids)
  <2>1. "If" \in Kinds /\ 0 \in Nat
    BY DEF Kinds
  <2>2. Made("If", 0, 0, f.kids) \in Node
    BY <1>6, <2>1, MadeTyped
  <2> QED
    BY <2>2
<1>14. m.kind = "If" /\ m.first = 0 /\ m.kids = f.kids
  BY <1>13 DEF Made
<1>15. NodeShape(m, Out + 1)
  <2>1. Out \in Nat
    BY Numbers
  <2>2. (Out + 1) - 1 = Out
    BY <2>1
  <2>3. \A i \in DOMAIN m.kids : m.kids[i] \in 1 .. (Out + 1) - 1
    BY <1>6, <1>14, <2>2 DEF InRow
  <2>4. Len(m.kids) \in {2, 3}
    BY <1>8, <1>14
  <2> QED
    BY <1>14, <2>3, <2>4 DEF NodeShape
<1>16. /\ Still /\ KidsOlder' /\ Out \in Nat /\ Out' = Out + 1 /\ nodes'[Out'] = m
       /\ Lo'[Out'] = Lo[m.kids[1]] - 1 /\ Hi'[Out'] = Hi[Last(m.kids)]
       /\ NodeFits(Out)' => NodesFit'
  <2>1. nodes' = Append(nodes, m)
    BY <1>1, <1>5, <1>13
  <2> QED
    BY <1>2, <1>3, <1>13, <1>14, <1>15, <2>1, NewNode
<1>17. Lo'[Out'] = f.start /\ Hi'[Out'] = h - 1
  <2>1. Last(m.kids) = b /\ m.kids[1] = a
    BY <1>8, <1>9, <1>10, <1>14 DEF Last
  <2>2. (f.start + 1) - 1 = f.start
    BY <1>6
  <2> QED
    BY <1>11, <1>12, <1>16, <2>1, <2>2
<1>18. PICK n : n = Out'
  OBVIOUS
<1>19. Here' = h /\ h \in 1 .. Here
  BY <1>1, <1>7 DEF Here
<1>20. /\ Lo'[a] = Lo[a] /\ Hi'[a] = Hi[a] /\ Lo'[b] = Lo[b] /\ Hi'[b] = Hi[b]
       /\ LeadAt(f.start)' = LeadAt(f.start) /\ LeadAt(h)' = LeadAt(h)
       /\ input'[Lo[b]] = input[Lo[b]]
  <2>1. Lo[b] \in 1 .. Here
    BY <1>7, <1>11
  <2> QED
    BY <1>6, <1>11, <1>16, <1>19, <2>1, StillThere
<1>21. Placed(n)'
  <2>1. f.start \in 1 .. h - 1 /\ h - 1 \in 1 .. h - 1
    BY <1>6, <1>11
  <2> QED
    BY <1>17, <1>18, <1>19, <2>1 DEF Placed
<1>22. nodes'[n].kids = f.kids /\ nodes'[n].kind = "If" /\ Lo'[n] = f.start /\ Hi'[n] = h - 1
  BY <1>14, <1>16, <1>17, <1>18
<1>23. Fills(n)'
  <2>1. Hi'[b] = h - 1 /\ Lo'[a] = f.start + 1 /\ Lo'[b] = Hi'[a] + 1
    BY <1>11, <1>12, <1>20
  <2>2. LeadAt(f.start)' = "if"
    BY <1>11, <1>20
  <2>3. Len(f.kids) # 3
    BY <1>8
  <2> QED
    BY <1>9, <1>10, <1>22, <2>1, <2>2, <2>3
    DEF Fills, FillsSimple, FillsBranches, FillsGlobal
<1>24. Fresh(n)'
  <2>1. input'[Lo'[b]] \notin Continuing
    BY <1>11, <1>20
  <2> QED
    BY <1>10, <1>22, <2>1 DEF Fresh
<1>25. NoElse(n)'
  <2>1. LeadAt(h)' # "else"
    <3>1. LeadAt(h) # "else"
      BY <1>1, <1>7, LeadHere
    <3> QED
      BY <1>20, <3>1
  <2>2. Hi'[n] + 1 = h
    BY <1>22
  <2> QED
    BY <2>1, <2>2 DEF NoElse
<1>26. NodesFit'
  <2>1. NodeFits(n)'
    BY <1>21, <1>23, <1>24, <1>25 DEF NodeFits
  <2>2. NodeFits(Out)'
    BY <1>18, <2>1
  <2> QED
    BY <1>16, <2>2
<1>27. Out' > 0 /\ Hi'[Out'] = Here' - 1
  BY <1>16, <1>17, <1>19
<1> QED
  BY <1>1, <1>3, <1>4, <1>5, <1>16, <1>17, <1>26, <1>27, Closed

LEMMA FinishSingleKeeps ==
    ASSUME Typed, Inductive, FinishSingle
    PROVE  Inductive'
<1>1. /\ at = "return" /\ frames # << >> /\ Top.kind = "Single" /\ input' = input
      /\ frames' = Front(frames) /\ at' = "return"
      /\ nodes' = Append(nodes, Made("Block", 0, 0, Append(Top.kids, Out)))
  BY DEF FinishSingle, ReturnTo, Finish, Out
<1>2. Typed' /\ Kept
  BY EndTyped
<1>3. KidsOlder /\ NodesFit /\ Stacked /\ Now
  BY <1>1, AtWork
<1>4. PICK f \in Frame : f = Top
  BY <1>1, <1>3, TopLaid
<1>5. Worded(f) /\ f.start \in 1 .. Here /\ f.start \in Nat /\ f.kind = "Single"
  BY <1>1, <1>3, <1>4, TopLaid
<1>6. f.kids = << >>
  BY <1>5 DEF Worded
<1>7. PICK h \in Nat \ {0} : h = Here
  BY <1>1, <1>3, Returned
<1>8. PICK o \in 1 .. Out : o = Out
  BY <1>1, <1>3, Returned
<1>9. o \in Nat /\ Hi[o] = h - 1 /\ Lo[o] \in 1 .. h - 1 /\ Begins(f, Lo[o])
  BY <1>1, <1>3, <1>4, <1>7, <1>8, Returned
<1>10. Lo[o] = f.start
  BY <1>5, <1>6, <1>9 DEF Begins, From
<1>11. PICK m \in Node : m = Made("Block", 0, 0, <<o>>)
  <2>1. "Block" \in Kinds /\ 0 \in Nat
    BY DEF Kinds
  <2>2. <<o>> \in Seq(Nat)
    BY <1>9
  <2>3. Made("Block", 0, 0, <<o>>) \in Node
    BY <2>1, <2>2, MadeTyped
  <2> QED
    BY <2>3
<1>12. m.kind = "Block" /\ m.first = 0 /\ m.kids = <<o>>
  BY <1>11 DEF Made
<1>13. Len(m.kids) = 1 /\ DOMAIN m.kids = {1} /\ m.kids[1] = o /\ Last(m.kids) = o
  BY <1>9, <1>12 DEF Last
<1>14. NodeShape(m, Out + 1)
  <2>1. o \in 1 .. (Out + 1) - 1
    BY <1>8, <1>9
  <2>2. \A i \in DOMAIN m.kids : m.kids[i] \in 1 .. (Out + 1) - 1
    BY <1>13, <2>1
  <2> QED
    BY <1>12, <1>13, <2>2 DEF NodeShape
<1>15. /\ Still /\ KidsOlder' /\ Out \in Nat /\ Out' = Out + 1 /\ nodes'[Out'] = m
       /\ Lo'[Out'] = f.start /\ Hi'[Out'] = h - 1
       /\ NodeFits(Out)' => NodesFit'
  <2>1. nodes' = Append(nodes, m)
    <3>1. Append(Top.kids, Out) = <<o>>
      BY <1>4, <1>6, <1>8
    <3> QED
      BY <1>1, <1>11, <3>1
  <2>2. m.kind # "If"
    BY <1>12
  <2> QED
    BY <1>2, <1>3, <1>9, <1>10, <1>11, <1>12, <1>13, <1>14, <2>1, <2>2, NewNode
<1>16. PICK n : n = Out'
  OBVIOUS
<1>17. Here' = h
  BY <1>1, <1>7 DEF Here
<1>18. Placed(n)'
  <2>1. f.start \in 1 .. h - 1 /\ h - 1 \in 1 .. h - 1
    BY <1>9, <1>10
  <2> QED
    BY <1>15, <1>16, <1>17, <2>1 DEF Placed
<1>19. Fills(n)' /\ Fresh(n)' /\ NoElse(n)'
  <2>1. nodes'[n].kind = "Block" /\ nodes'[n].first = 0
    BY <1>12, <1>15, <1>16
  <2> QED
    BY <2>1 DEF Fills, FillsSimple, FillsBranches, FillsGlobal, Fresh, NoElse
<1>20. NodesFit'
  <2>1. NodeFits(n)'
    BY <1>18, <1>19 DEF NodeFits
  <2>2. NodeFits(Out)'
    BY <1>16, <2>1
  <2> QED
    BY <1>15, <2>2
<1>21. Out' > 0 /\ Hi'[Out'] = Here' - 1
  BY <1>15, <1>17
<1> QED
  BY <1>1, <1>3, <1>4, <1>15, <1>20, <1>21, Closed

-----------------------------------------------------------------------------
(* The invariant holds. *)

LEMMA InitInductive == Init => Inductive
<1> SUFFICES ASSUME Init PROVE Inductive
  OBVIOUS
<1>1. /\ at \in {"globals", "statement"} /\ nodes = << >>
      /\ at = "globals" => frames = <<[kind |-> "Globals", start |-> 1, kids |-> << >>]>>
      /\ at = "statement" => frames = << >>
      /\ \E t : input = <<t>>
  BY DEF Init, Entries
<1>2. Here = 1 /\ Out = 0
  BY <1>1 DEF Here, Out
<1>3. KidsOlder /\ NodesFit
  BY <1>1, <1>2 DEF KidsOlder, NodesFit
<1>4. CASE at = "statement"
  <2>1. frames = << >> /\ Len(frames) = 0
    BY <1>1, <1>4
  <2>2. Stacked
    BY <2>1 DEF Stacked
  <2>3. Now
    BY <1>2, <1>4, <2>1, SignatureStates DEF Now, InExp
  <2> QED
    BY <1>3, <2>2, <2>3 DEF Inductive
<1>5. CASE at = "globals"
  <2> DEFINE f == [kind |-> "Globals", start |-> 1, kids |-> << >>]
  <2>1. f.kind = "Globals" /\ f.start = 1 /\ f.kids = << >>
    OBVIOUS
  <2>2. frames = <<f>>
    BY <1>1, <1>5
  <2> HIDE DEF f
  <2>3. /\ Len(frames) = 1 /\ frames[1] = f /\ frames # << >> /\ Top = f
        /\ \A i \in 1 .. Len(frames) : i = 1
        /\ \A i \in 1 .. Len(frames) - 1 : FALSE
    BY <2>2 DEF Top, Last
  <2>4. Laid(f)
    <3>1. DOMAIN << >> = {} /\ \A i \in 1 .. Len(<< >>) - 1 : FALSE
      OBVIOUS
    <3>2. InRow(f)
      BY <2>1, <3>1 DEF InRow
    <3>3. Worded(f)
      BY <2>1 DEF Worded
    <3>4. f.start \in 1 .. Here
      BY <1>2, <2>1
    <3> QED
      BY <3>2, <3>3, <3>4 DEF Laid
  <2>5. Stacked
    BY <2>1, <2>3, <2>4 DEF Stacked
  <2>6. Begins(Top, Here)
    <3>1. From(f) = Here
      BY <1>2, <2>1 DEF From
    <3> QED
      BY <2>1, <2>3, <3>1 DEF Begins
  <2>7. Now
    BY <1>5, <2>6, SignatureStates DEF Now, InExp
  <2> QED
    BY <1>3, <2>5, <2>7 DEF Inductive
<1> QED
  BY <1>1, <1>4, <1>5

LEMMA StepKeeps == Typed /\ Inductive /\ [Next]_vars => Inductive'
<1> SUFFICES ASSUME Typed, Inductive, [Next]_vars PROVE Inductive'
  OBVIOUS
<1>1. Typed'
  BY StepTyped
<1>2. CASE EndOfText \/ ReturnToCaller
  BY <1>1, <1>2, EndKeeps
<1>3. CASE \/ BeginFunction \/ BeginGlobalBasic \/ OpenBlock \/ BeginKeyword
           \/ BeginBasic \/ BeginSingle
  BY <1>3, OpenKeeps
<1>4. CASE InFuncDec
  BY <1>1, <1>4, InFuncDecKeeps
<1>5. CASE FuncDecError \/ NoCloseBlock \/ ExpressionError \/ NoSemicolon
  BY <1>1, <1>5, FailKeeps DEF FuncDecError, NoCloseBlock, ExpressionError, NoSemicolon
<1>6. CASE InExpression
  BY <1>1, <1>6, InExpressionKeeps
<1>7. CASE NextPart \/ NextGlobal \/ IfThen
  BY <1>7, KeepKeeps
<1>8. CASE BeginElse
  BY <1>1, <1>8, BeginElseKeeps
<1>9. CASE Done \/ UNCHANGED vars
  BY <1>9, StutterKeeps DEF Done
<1> QED
  BY <1>2, <1>3, <1>4, <1>5, <1>6, <1>7, <1>8, <1>9, FinishFuncDecKeeps, CloseBlockKeeps,
     EmptyBlockKeeps, ConditionKeeps, FinishSimpleKeeps, FinishSingleKeeps, FinishWhileKeeps,
     FinishFunctionKeeps, FinishIfKeeps, FinishIfElseKeeps
  DEF Next

(* The nodes made and the statements that are open have the texts that     *)
(* Inductive says, in every state parse_global and the others reach.       *)
THEOREM InductiveInvariant == Spec => [](Typed /\ Inductive)
<1>1. Init => Typed /\ Inductive
  BY InitTyped, InitInductive
<1>2. Typed /\ Inductive /\ [Next]_vars => (Typed /\ Inductive)'
  BY StepTyped, StepKeeps
<1> QED
  BY <1>1, <1>2, PTL DEF Spec

-----------------------------------------------------------------------------
(* What the invariant says of the texts. *)

LEMMA RowOfOne ==
    ASSUME NEW k \in Seq(Nat), Len(k) = 1, NEW from, NEW to, Lo[k[1]] = from, Hi[k[1]] = to
    PROVE  Row(k, from, to)
<1>1. k # << >> /\ Last(k) = k[1] /\ \A i \in 1 .. Len(k) - 1 : FALSE
  BY DEF Last
<1> QED
  BY <1>1 DEF Row

LEMMA RowOfTwo ==
    ASSUME NEW k \in Seq(Nat), Len(k) = 2, NEW from, NEW to,
           Lo[k[1]] = from, Lo[k[2]] = Hi[k[1]] + 1, Hi[k[2]] = to
    PROVE  Row(k, from, to)
<1>1. k # << >> /\ Last(k) = k[2] /\ \A i \in 1 .. Len(k) - 1 : i = 1
  BY DEF Last
<1>2. \A i \in 1 .. Len(k) - 1 : Lo[k[i + 1]] = Hi[k[i]] + 1
  <2>1. ASSUME NEW i \in 1 .. Len(k) - 1 PROVE Lo[k[i + 1]] = Hi[k[i]] + 1
    <3>1. i = 1 /\ i + 1 = 2
      BY <1>1
    <3> QED
      BY <3>1
  <2> QED
    BY <2>1
<1> QED
  BY <1>1, <1>2 DEF Row

LEMMA WholeNodes ==
    ASSUME Typed, KidsOlder, NodesFit, NEW n \in 1 .. Out
    PROVE  Whole(n)
<1> DEFINE k == nodes[n].kids
           lo == Lo[n]
           hi == Hi[n]
<1>1. /\ nodes[n] \in Node /\ k \in Seq(Nat) /\ NodeShape(nodes[n], n)
      /\ \A i \in DOMAIN k : k[i] \in 1 .. Out /\ Placed(k[i])
  BY KidFacts
<1>2. Placed(n) /\ Fills(n)
  BY DEF NodesFit, NodeFits
<1>3. CASE nodes[n].kind = "Exp"
  <2>1. lo <= hi
    BY <1>2 DEF Placed
  <2>2. \A p \in lo .. hi : input[p] \notin {";", "{", "}"}
    BY <1>2, <1>3 DEF Fills, FillsSimple
  <2> QED
    BY <1>3, <2>1, <2>2 DEF Whole
<1>4. CASE nodes[n].kind = "Basic"
  <2>1. Len(k) = 1
    BY <1>1, <1>4 DEF NodeShape
  <2>2. Lo[k[1]] = lo /\ Hi[k[1]] = hi - 1 /\ input[hi] = ";"
    BY <1>2, <1>4 DEF Fills, FillsSimple
  <2>3. Row(k, lo, hi - 1)
    BY <1>1, <2>1, <2>2, RowOfOne
  <2> QED
    BY <1>4, <2>2, <2>3 DEF Whole
<1>5. CASE nodes[n].kind = "Return"
  <2> DEFINE to == IF input[hi] = ";" THEN hi - 1 ELSE hi
  <2>1. Len(k) = 1
    BY <1>1, <1>5 DEF NodeShape
  <2>2. LeadAt(lo) = "return" /\ Lo[k[1]] = lo + 1 /\ Hi[k[1]] = to
    BY <1>2, <1>5 DEF Fills, FillsSimple
  <2>3. Row(k, lo + 1, to)
    <3> HIDE DEF to
    <3> QED
      BY <1>1, <2>1, <2>2, RowOfOne
  <2> QED
    BY <1>5, <2>2, <2>3 DEF Whole
<1>6. CASE nodes[n].kind = "While"
  <2>1. Len(k) = 2
    BY <1>1, <1>6 DEF NodeShape
  <2>2. /\ LeadAt(lo) = "while" /\ Hi[k[2]] = hi /\ Lo[k[1]] = lo + 1
        /\ Lo[k[2]] = Hi[k[1]] + 1
    BY <1>2, <1>6 DEF Fills, FillsBranches
  <2>3. Row(k, lo + 1, hi)
    BY <1>1, <2>1, <2>2, RowOfTwo
  <2> QED
    BY <1>6, <2>2, <2>3 DEF Whole
<1>7. CASE nodes[n].kind = "If" /\ Len(k) = 2
  <2>1. /\ LeadAt(lo) = "if" /\ Hi[k[2]] = hi /\ Lo[k[1]] = lo + 1
        /\ Lo[k[2]] = Hi[k[1]] + 1
    BY <1>2, <1>7 DEF Fills, FillsBranches
  <2>2. Row(k, lo + 1, hi)
    BY <1>1, <1>7, <2>1, RowOfTwo
  <2> QED
    BY <1>7, <2>1, <2>2 DEF Whole
<1>8. CASE nodes[n].kind = "If" /\ Len(k) # 2
  <2>1. Len(k) = 3
    BY <1>1, <1>8 DEF NodeShape
  <2>2. /\ LeadAt(lo) = "if" /\ Lo[k[1]] = lo + 1 /\ Lo[k[2]] = Hi[k[1]] + 1
        /\ Lo[k[3]] = Hi[k[2]] + 2 /\ LeadAt(Hi[k[2]] + 1) = "else" /\ Hi[k[3]] = hi
    BY <1>2, <1>8, <2>1 DEF Fills, FillsBranches
  <2>3. Hi[k[2]] \in Int
    BY <1>1, <2>1, Indices, Numbers DEF Placed
  <2>4. Hi[k[2]] = Lo[k[3]] - 2 /\ Hi[k[2]] + 1 = Lo[k[3]] - 1
    BY <2>2, <2>3
  <2> DEFINE q == SubSeq(k, 1, 2)
  <2>5. q \in Seq(Nat) /\ Len(q) = 2 /\ q[1] = k[1] /\ q[2] = k[2]
    BY <1>1, <2>1
  <2>6. Row(q, lo + 1, Lo[k[3]] - 2)
    <3> HIDE DEF q
    <3> QED
      BY <2>2, <2>4, <2>5, RowOfTwo
  <2>7. LeadAt(Lo[k[3]] - 1) = "else"
    BY <2>2, <2>4
  <2> QED
    BY <1>8, <2>2, <2>6, <2>7 DEF Whole
<1>9. CASE nodes[n].kind = "Block" /\ nodes[n].first = 0
  BY <1>1, <1>9 DEF NodeShape, Whole
<1>10. CASE nodes[n].kind = "Block" /\ nodes[n].first # 0
  <2>1. Braced(n)
    BY <1>2, <1>10 DEF Fills
  <2> QED
    BY <1>10, <2>1 DEF Whole, Braced
<1>11. CASE nodes[n].kind = "FuncDec"
  <2>1. LeadAt(lo) \in {"fn", "cfn"} /\ input[hi] = ";"
    BY <1>2, <1>11 DEF Fills, FillsGlobal
  <2> QED
    BY <1>11, <2>1 DEF Whole
<1>12. CASE nodes[n].kind = "Function"
  <2>1. Len(k) = 1
    BY <1>1, <1>12 DEF NodeShape
  <2>2. /\ LeadAt(lo) \in {"fn", "cfn"} /\ Hi[k[1]] = hi
        /\ input[Lo[k[1]]] = "{" /\ input[Lo[k[1]] - 1] = ")"
    BY <1>2, <1>12 DEF Fills, FillsGlobal
  <2>3. Row(k, Lo[k[1]], hi)
    BY <1>1, <2>1, <2>2, RowOfOne
  <2> QED
    BY <1>12, <2>2, <2>3 DEF Whole
<1>13. nodes[n].kind \in Kinds
  BY <1>1 DEF Node
<1> QED
  BY <1>3, <1>4, <1>5, <1>6, <1>7, <1>8, <1>9, <1>10, <1>11, <1>12, <1>13 DEF Kinds

(* The globals of a text that is read to its end, or its one statement. *)
LEMMA RootsFill ==
    ASSUME Typed, Inductive, at = "done"
    PROVE  Row(Roots, 1, Here - 1)
<1>1. KidsOlder /\ NodesFit /\ Stacked /\ Now
  BY AtWork
<1>2. Here \in Nat \ {0} /\ Out \in Nat
  BY Numbers
<1>3. CASE InGlobals
  <2>1. Begins(Top, Here) /\ frames # << >> /\ frames[1].kind = "Globals"
    BY <1>1, <1>3 DEF Now, InGlobals
  <2>2. Len(frames) = 1 /\ Top = frames[1]
    <3>1. Len(frames) >= 1 /\ Len(frames) \in Nat /\ Top = frames[Len(frames)]
      BY <2>1, FrameFacts
    <3>2. Len(frames) <= 1
      BY DEF Typed, AtOK
    <3>3. \A x \in Nat : x >= 1 /\ x <= 1 => x = 1
      OBVIOUS
    <3>4. Len(frames) = 1
      BY <3>1, <3>2, <3>3
    <3> QED
      BY <3>1, <3>4
  <2>3. PICK f \in Frame : f = Top
    BY <1>1, <2>1, TopLaid
  <2>4. InRow(f) /\ Worded(f) /\ f.kind = "Globals" /\ Roots = f.kids /\ Begins(f, Here)
    BY <1>1, <1>3, <2>1, <2>2, <2>3, TopLaid DEF Roots
  <2>5. From(f) = 1
    BY <2>4 DEF Worded, From
  <2> DEFINE k == f.kids
  <2>6. /\ k \in Seq(Nat) /\ Len(k) \in Nat
        /\ k # << >> => Len(k) \in DOMAIN k
        /\ \A i \in DOMAIN k : Hi[k[i]] \in 1 .. Here - 1
    BY <1>1, <2>4, RowFacts
  <2>7. CASE k = << >>
    <3>1. Here = 1
      BY <2>4, <2>5, <2>7 DEF Begins
    <3>2. 1 = (Here - 1) + 1
      BY <3>1
    <3> QED
      BY <2>4, <2>7, <3>2 DEF Row
  <2>8. CASE k # << >>
    <3>1. Here = Hi[Last(k)] + 1 /\ Last(k) = k[Len(k)]
      BY <2>4, <2>8 DEF Begins, Last
    <3>2. Hi[Last(k)] \in Int
      <4>1. Hi[Last(k)] \in 1 .. Here - 1
        BY <2>6, <2>8, <3>1
      <4> QED
        BY <1>2, <4>1
    <3>3. Hi[Last(k)] = Here - 1
      BY <3>1, <3>2
    <3> QED
      BY <2>4, <2>5, <2>8, <3>3 DEF Row, InRow
  <2> QED
    BY <2>7, <2>8
<1>4. CASE ~InGlobals
  <2>1. frames = << >> /\ InHand
    BY <1>1, <1>4 DEF Now
  <2>2. Lo[Out] = 1 /\ Hi[Out] = Here - 1 /\ Roots = <<Out>>
    BY <1>4, <2>1 DEF InHand, Roots, Out
  <2>3. Roots \in Seq(Nat) /\ Len(Roots) = 1 /\ Roots[1] = Out
    BY <1>2, <2>2
  <2> QED
    BY <2>2, <2>3, RowOfOne
<1> QED
  BY <1>3, <1>4

(***************************************************************************)
(* StatementsTile: of every text that is parsed, every node made is its    *)
(* own keywords and the texts of its parts and nothing else, from where it *)
(* was begun to the last piece read for it, and when parse_global has read *)
(* everything the globals fill the text.                                   *)
(***************************************************************************)
THEOREM TextsAreWhole == Spec => []StatementsTile
<1>1. Typed /\ Inductive => StatementsTile
  <2> SUFFICES ASSUME Typed, Inductive PROVE StatementsTile
    OBVIOUS
  <2>1. KidsOlder /\ NodesFit
    BY DEF Inductive
  <2>2. DOMAIN nodes = 1 .. Out
    BY DEF Typed, Out
  <2>3. \A n \in DOMAIN nodes : Whole(n)
    BY <2>1, <2>2, WholeNodes
  <2> QED
    BY <2>3, TypedIsTypeOK, RootsFill DEF StatementsTile
<1> QED
  BY <1>1, InductiveInvariant, PTL

(* ElseNearest: parse_statement looks for else as soon as the first branch *)
(* is read, so an if within it takes the else before the outer one sees it. *)
THEOREM ElseTaken == Spec => []ElseNearest
<1>1. Typed /\ Inductive => ElseNearest
  <2> SUFFICES ASSUME Typed, Inductive,
                      NEW n \in Ifs, NEW inner \in Ifs,
                      Len(nodes[n].kids) = 3, Hi[inner] = Hi[nodes[n].kids[2]]
               PROVE  Len(nodes[inner].kids) = 3
    BY DEF ElseNearest
  <2>1. /\ n \in 1 .. Out /\ nodes[n].kind = "If"
        /\ inner \in 1 .. Out /\ nodes[inner].kind = "If"
    BY DEF Ifs, Typed, Out
  <2>2. NodeFits(n) /\ NodeFits(inner)
    BY <2>1 DEF Inductive, NodesFit
  <2>3. LeadAt(Hi[nodes[n].kids[2]] + 1) = "else"
    BY <2>1, <2>2 DEF NodeFits, Fills, FillsBranches
  <2>4. Len(nodes[inner].kids) # 2
    BY <2>1, <2>2, <2>3 DEF NodeFits, NoElse
  <2>5. NodeShape(nodes[inner], inner)
    BY <2>1 DEF Inductive, KidsOlder, Typed, Out
  <2> QED
    BY <2>1, <2>4, <2>5 DEF NodeShape
<1> QED
  BY <1>1, InductiveInvariant, PTL

(* BodyStartsFresh: parse_expression stops only where no operator and no  *)
(* bracket follows, so what an if or a while governs never begins with one. *)
THEOREM BodiesStartFresh == Spec => []BodyStartsFresh
<1>1. Typed /\ Inductive => BodyStartsFresh
  <2> SUFFICES ASSUME Typed, Inductive, NEW n \in DOMAIN nodes,
                      nodes[n].kind \in {"If", "While"}
               PROVE  input[Lo[nodes[n].kids[2]]] \notin {"infix", "postfix", "(", "["}
    BY DEF BodyStartsFresh
  <2>1. n \in 1 .. Out
    BY DEF Typed, Out
  <2>2. Fresh(n)
    BY <2>1 DEF Inductive, NodesFit, NodeFits
  <2> QED
    BY <2>2 DEF Fresh, Continuing
<1> QED
  BY <1>1, InductiveInvariant, PTL

-----------------------------------------------------------------------------
(* Which words are taken whole, and which are taken apart. *)

SaysWord == {"If", "While", "Return", "FuncDec", "Function"}

(* What InName and Apart say of one node. *)
Names(n, p) ==
    \/ nodes[n].kind = "Exp" /\ Lo[n] <= p /\ p < Hi[n]
    \/ nodes[n].kind = "FuncDec" /\ Lo[n] < p /\ p < Hi[n]
    \/ nodes[n].kind = "Function" /\ Lo[n] < p /\ p < Lo[nodes[n].kids[1]]

Splits(n, p) ==
    \/ nodes[n].kind \in SaysWord /\ Lo[n] = p
    \/ nodes[n].kind = "If" /\ Len(nodes[n].kids) = 3 /\ Lo[nodes[n].kids[3]] = p + 1

(* The keywords that an open statement was begun and went on with. *)
Said(f, p) ==
    \/ f.kind \in SaysWord /\ p = f.start
    \/ f.kind = "If" /\ Len(f.kids) = 2 /\ p = Hi[f.kids[2]] + 1

(* The signature of a function that is open ends before its body. *)
Body(i) ==
    IF i < Len(frames) THEN frames[i + 1].start ELSE IF at = "return" THEN Lo[Out] ELSE Here

InHead(i, p) == frames[i].kind = "Function" /\ frames[i].start < p /\ p < Body(i)

TakenApart(p) ==
    \/ \E i \in 1 .. Len(frames) : Said(frames[i], p)
    \/ \E n \in 1 .. Out : Splits(n, p)

TakenWhole(p) ==
    \/ InExp /\ From(Top) <= p
    \/ \E i \in 1 .. Len(frames) : InHead(i, p)
    \/ \E n \in 1 .. Out : Names(n, p)

(* No word is both, and none is neither. *)
WordsTaken ==
    \A p \in 1 .. Here - 1 :
        /\ ~(TakenApart(p) /\ TakenWhole(p))
        /\ input[p] \in Glued => TakenApart(p) \/ TakenWhole(p)

(* Only a keyword is cut off its word: an atom ends with the last piece. *)
AtomEnds == InExp /\ From(Top) < Here => input[Here - 1] \notin Glued

(* An expression that is a statement begins with no keyword of one, unless *)
(* it is a global.                                                         *)
Bare(p) == LeadAt(p) \notin {"if", "while", "return"}

BareNodes ==
    \A n \in 1 .. Out : nodes[n].kind = "Basic" =>
        \/ Bare(Lo[n])
        \/ InGlobals /\ n \in Range(frames[1].kids)
        \/ InGlobals /\ n = Out /\ at = "return" /\ Len(frames) = 1

BareFrames ==
    \A i \in 1 .. Len(frames) : frames[i].kind = "Basic" =>
        Bare(frames[i].start) \/ (InGlobals /\ i = 2)

Spelled == at # "error" => WordsTaken /\ AtomEnds /\ BareNodes /\ BareFrames

LEMMA StillNames ==
    ASSUME Still, NEW n \in 1 .. Out, NEW p
    PROVE  (Names(n, p)' <=> Names(n, p)) /\ (Splits(n, p)' <=> Splits(n, p))
<1>1. nodes'[n] = nodes[n] /\ Lo'[n] = Lo[n] /\ Hi'[n] = Hi[n]
  BY StillThere
<1> DEFINE k == nodes[n].kids
<1>2. /\ k \in Seq(Nat) /\ NodeShape(nodes[n], n)
      /\ \A i \in DOMAIN k : k[i] \in 1 .. Out
  BY KidFacts DEF Still
<1>3. \A i \in DOMAIN k : Lo'[k[i]] = Lo[k[i]]
  BY <1>2, StillThere
<1>4. nodes[n].kind = "Function" => Lo'[k[1]] = Lo[k[1]]
  BY <1>2, <1>3, Indices DEF NodeShape
<1>5. Len(k) = 3 => Lo'[k[3]] = Lo[k[3]]
  BY <1>2, <1>3, Indices
<1>6. Names(n, p)' <=> Names(n, p)
  BY <1>1, <1>4 DEF Names
<1>7. Splits(n, p)' <=> Splits(n, p)
  BY <1>1, <1>5 DEF Splits
<1> QED
  BY <1>6, <1>7

(* The nodes that were there say what they said. *)
LEMMA NodesSay ==
    ASSUME Still, Out' \in Nat, Out <= Out', NEW p
    PROVE  /\ (\E n \in 1 .. Out' : Names(n, p)') <=>
                \/ \E n \in 1 .. Out : Names(n, p)
                \/ \E n \in Out + 1 .. Out' : Names(n, p)'
           /\ (\E n \in 1 .. Out' : Splits(n, p)') <=>
                \/ \E n \in 1 .. Out : Splits(n, p)
                \/ \E n \in Out + 1 .. Out' : Splits(n, p)'
<1>1. Out \in Nat
  BY StillThere
<1>2. \A n \in 1 .. Out' : n \in 1 .. Out \/ n \in Out + 1 .. Out'
  BY <1>1
<1>3. /\ \A n \in 1 .. Out : n \in 1 .. Out'
      /\ \A n \in Out + 1 .. Out' : n \in 1 .. Out'
  BY <1>1
<1>4. \A n \in 1 .. Out : (Names(n, p)' <=> Names(n, p)) /\ (Splits(n, p)' <=> Splits(n, p))
  BY StillNames
<1> QED
  BY <1>2, <1>3, <1>4

LEMMA StillSaid ==
    ASSUME Still, NEW f \in Frame, InRow(f), NEW p
    PROVE  Said(f, p)' <=> Said(f, p)
<1>1. Len(f.kids) = 2 => 2 \in DOMAIN f.kids
  BY RowFacts DEF Still
<1>2. Len(f.kids) = 2 => Hi'[f.kids[2]] = Hi[f.kids[2]]
  BY <1>1, StillRow
<1> QED
  BY <1>2 DEF Said

(* What a statement was begun with is before what is part of it. *)
LEMMA SaidBefore ==
    ASSUME Typed, NodesFit, NEW f \in Frame, Laid(f), NEW q \in Nat, Begins(f, q),
           NEW p, Said(f, p)
    PROVE  p \in Nat /\ p < q
<1>1. InRow(f) /\ Worded(f) /\ f.start \in Nat
  BY RowFacts DEF Laid
<1>2. /\ \A i \in DOMAIN f.kids :
            /\ Lo[f.kids[i]] \in 1 .. Here - 1 /\ Hi[f.kids[i]] \in 1 .. Here - 1
            /\ Lo[f.kids[i]] <= Hi[f.kids[i]]
      /\ f.kids # << >> => 1 \in DOMAIN f.kids /\ Len(f.kids) \in DOMAIN f.kids
      /\ Len(f.kids) = 2 => f.kids # << >> /\ 2 \in DOMAIN f.kids
      /\ f.kids \in Seq(Nat) /\ Len(f.kids) \in Nat
  BY <1>1, RowFacts
<1>3. CASE f.kind = "If" /\ Len(f.kids) = 2
  <2>1. q = Hi[f.kids[2]] + 2 /\ p \in {f.start, Hi[f.kids[2]] + 1}
    BY <1>3 DEF Begins, Said
  <2>2. Hi[f.kids[2]] \in Nat /\ Hi[f.kids[1]] \in Nat /\ Lo[f.kids[1]] = f.start + 1
        /\ Lo[f.kids[1]] <= Hi[f.kids[1]]
        /\ Lo[f.kids[2]] = Hi[f.kids[1]] + 1 /\ Lo[f.kids[2]] <= Hi[f.kids[2]]
    <3>1. Lo[f.kids[1]] = From(f) /\ From(f) = f.start + 1
      BY <1>1, <1>2, <1>3 DEF InRow, From
    <3>2. 1 \in 1 .. Len(f.kids) - 1
      BY <1>3
    <3>3. Lo[f.kids[1 + 1]] = Hi[f.kids[1]] + 1
      BY <1>1, <3>2 DEF InRow
    <3>4. Here \in Nat
      BY Numbers
    <3> QED
      BY <1>2, <1>3, <3>1, <3>3, <3>4
  <2> QED
    BY <1>1, <2>1, <2>2
<1>4. CASE ~(f.kind = "If" /\ Len(f.kids) = 2)
  <2>1. p = f.start /\ f.kind \in SaysWord
    BY <1>4 DEF Said
  <2>2. CASE f.kind = "Function"
    <3>1. f.start < q - 1
      BY <2>2 DEF Begins
    <3> QED
      BY <1>1, <2>1, <3>1
  <2>3. CASE f.kind # "Function"
    <3>1. f.kind \in {"If", "While"}
      BY <2>1, <2>3 DEF Begins, SaysWord, Frame
    <3>2. f.kids # << >> /\ q = Hi[Last(f.kids)] + 1 /\ Last(f.kids) = f.kids[Len(f.kids)]
      BY <1>4, <3>1 DEF Begins, Last
    <3>3. Len(f.kids) = 1
      <4>1. f.kind = "While" => Len(f.kids) <= 1
        BY <1>1 DEF Worded
      <4>2. f.kind = "If" => Len(f.kids) <= 2 /\ Len(f.kids) # 2
        BY <1>1, <1>4 DEF Worded
      <4>3. Len(f.kids) # 0
        BY <1>2, <3>2
      <4>4. PICK m \in Nat : m = Len(f.kids)
        BY <1>2
      <4>5. m <= 1 \/ (m <= 2 /\ m # 2)
        BY <3>1, <4>1, <4>2, <4>4
      <4>6. \A x \in Nat : x # 0 /\ (x <= 1 \/ (x <= 2 /\ x # 2)) => x = 1
        OBVIOUS
      <4>7. m # 0
        BY <4>3, <4>4
      <4> QED
        BY <4>4, <4>5, <4>6, <4>7
    <3>4. Lo[f.kids[1]] = f.start + 1
      BY <1>1, <3>1, <3>2 DEF InRow, From
    <3>5. Here \in Nat
      BY Numbers
    <3>6. Lo[f.kids[1]] \in Nat /\ Hi[f.kids[1]] \in Nat /\ Lo[f.kids[1]] <= Hi[f.kids[1]]
      BY <1>2, <3>2, <3>5
    <3> QED
      BY <1>1, <2>1, <3>2, <3>3, <3>4, <3>6
  <2> QED
    BY <2>2, <2>3
<1> QED
  BY <1>3, <1>4

LEMMA SaidOuter ==
    ASSUME Typed, NodesFit, Stacked, NEW i \in 1 .. Len(frames) - 1, NEW p, Said(frames[i], p)
    PROVE  p \in Nat /\ p < frames[i + 1].start /\ frames[i + 1].start \in 1 .. Here
<1>1. Len(frames) \in Nat /\ \A j \in 1 .. Len(frames) : frames[j] \in Frame
  BY FrameFacts
<1>2. i \in 1 .. Len(frames) /\ i + 1 \in 1 .. Len(frames)
  BY <1>1
<1>3. PICK f \in Frame : f = frames[i]
  BY <1>1, <1>2
<1>4. PICK q \in Nat : q = frames[i + 1].start /\ q \in 1 .. Here
  <2>1. frames[i + 1].start \in 1 .. Here
    BY <1>2 DEF Stacked, Laid
  <2>2. Here \in Nat
    BY Numbers
  <2> QED
    BY <2>1, <2>2
<1>5. Laid(f) /\ Begins(f, q) /\ Said(f, p)
  BY <1>2, <1>3, <1>4 DEF Stacked
<1>6. p \in Nat /\ p < q
  BY <1>5, SaidBefore
<1> QED
  BY <1>4, <1>6

LEMMA SaidInner ==
    ASSUME Typed, KidsOlder, NodesFit, Stacked, Now, frames # << >>, at \notin {"else", "error"},
           NEW p, Said(Top, p)
    PROVE  p \in Nat /\ p < Here
<1>1. PICK f \in Frame : f = Top
  BY FrameFacts
<1>2. Laid(f) /\ InRow(f) /\ Worded(f) /\ f.start \in Nat /\ Said(f, p)
  BY <1>1, TopLaid
<1>3. PICK h \in Nat : h = Here
  BY Numbers
<1>4. CASE at \in {"globals", "part", "block", "statement", "done"}
  <2>1. CASE at = "done" /\ ~InGlobals
    BY <2>1 DEF Now
  <2>2. CASE ~(at = "done" /\ ~InGlobals)
    <3>1. Begins(f, h)
      BY <1>1, <1>3, <1>4, <2>2 DEF Now
    <3> QED
      BY <1>2, <1>3, <3>1, SaidBefore
  <2> QED
    BY <2>1, <2>2
<1>5. CASE at \in InSignature \cup {"body"}
  <2>1. f.kind = "Function"
    BY <1>1, <1>5 DEF Typed, Owned
  <2>2. p = f.start
    BY <1>2, <2>1 DEF Said
  <2>3. f.start < h \/ f.start < h - 1
    BY <1>1, <1>3, <1>5 DEF Now
  <2> QED
    BY <1>2, <1>3, <2>2, <2>3
<1>6. CASE InExp
  <2>1. f.kids = << >> /\ From(f) <= h
    BY <1>1, <1>3, <1>6 DEF Now, Reading
  <2>2. f.kind \in {"Basic", "Return", "While", "If"}
    BY <1>1, <1>6 DEF Typed, AtOK
  <2>3. Len(f.kids) = 0
    BY <2>1
  <2>4. Len(f.kids) # 2
    BY <2>3
  <2>5. p = f.start /\ f.kind # "Basic"
    BY <1>2, <2>4 DEF Said, SaysWord
  <2>6. From(f) = f.start + 1
    BY <2>2, <2>5 DEF From
  <2> QED
    BY <1>2, <1>3, <2>1, <2>5, <2>6
<1>7. CASE at = "return"
  <2>1. Lo[Out] \in 1 .. Here - 1 /\ Begins(Top, Lo[Out])
    BY <1>7, Returned
  <2>2. PICK q \in Nat : q = Lo[Out] /\ q < h
    BY <1>3, <2>1
  <2>3. p < q /\ p \in Nat
    BY <1>1, <1>2, <2>1, <2>2, SaidBefore
  <2> QED
    BY <1>3, <2>2, <2>3
<1> QED
  BY <1>4, <1>5, <1>6, <1>7 DEF Typed, AtOK, States, InExp

(* A text that is not yet read says nothing. *)
LEMMA NodesBefore ==
    ASSUME Typed, KidsOlder, NodesFit, NEW n \in 1 .. Out, NEW p \in Nat, p >= Here
    PROVE  ~Names(n, p) /\ ~Splits(n, p)
<1>1. PICK h \in Nat : h = Here
  BY Numbers
<1>2. \A i \in 1 .. Out : Lo[i] \in Nat /\ Hi[i] \in Nat /\ Lo[i] <= Hi[i] /\ Hi[i] < h
  <2>1. \A i \in 1 .. Out : Placed(i)
    BY DEF NodesFit, NodeFits
  <2> QED
    BY <1>1, <2>1 DEF Placed
<1> DEFINE k == nodes[n].kids
<1>3. k \in Seq(Nat) /\ NodeShape(nodes[n], n) /\ \A i \in DOMAIN k : k[i] \in 1 .. Out
  BY KidFacts
<1>4. nodes[n].kind = "Function" => Lo[k[1]] \in Nat /\ Lo[k[1]] < h
  <2>1. nodes[n].kind = "Function" => k[1] \in 1 .. Out
    BY <1>3, Indices DEF NodeShape
  <2>2. ASSUME NEW j \in 1 .. Out PROVE Lo[j] \in Nat /\ Lo[j] < h
    BY <1>1, <1>2
  <2> QED
    BY <2>1, <2>2
<1>5. Len(k) = 3 => Lo[k[3]] \in Nat /\ Lo[k[3]] < h
  <2>1. Len(k) = 3 => k[3] \in 1 .. Out
    BY <1>3, Indices
  <2>2. ASSUME NEW j \in 1 .. Out PROVE Lo[j] \in Nat /\ Lo[j] < h
    BY <1>1, <1>2
  <2> QED
    BY <2>1, <2>2
<1>6. Lo[n] \in Nat /\ Hi[n] \in Nat /\ Lo[n] < h /\ Hi[n] < h
  BY <1>1, <1>2
<1>7. p >= h /\ ~(p < Hi[n]) /\ Lo[n] # p
  BY <1>1, <1>6
<1>8. nodes[n].kind = "Function" => ~(p < Lo[k[1]])
  BY <1>4, <1>7
<1>9. Len(k) = 3 => Lo[k[3]] # p + 1
  BY <1>5, <1>7
<1> QED
  BY <1>7, <1>8, <1>9 DEF Names, Splits

LEMMA HeadBefore ==
    ASSUME Typed, NodesFit, Stacked, Now, at # "error", NEW i \in 1 .. Len(frames), NEW p \in Nat,
           p >= Here
    PROVE  ~InHead(i, p)
<1>1. PICK h \in Nat : h = Here
  BY Numbers
<1>2. Len(frames) \in Nat
  BY FrameFacts
<1>3. CASE i < Len(frames)
  <2>1. i + 1 \in 1 .. Len(frames)
    BY <1>2, <1>3
  <2>2. frames[i + 1].start \in 1 .. Here
    BY <2>1 DEF Stacked, Laid
  <2>3. Body(i) = frames[i + 1].start
    BY <1>3 DEF Body
  <2>4. ~(p < Body(i))
    BY <1>1, <2>2, <2>3
  <2> QED
    BY <2>4 DEF InHead
<1>4. CASE ~(i < Len(frames)) /\ at = "return"
  <2>1. frames # << >>
    BY <1>2
  <2>2. Lo[Out] \in 1 .. Here - 1
    BY <1>4, <2>1, Returned
  <2>3. Body(i) = Lo[Out]
    BY <1>4 DEF Body
  <2>4. ~(p < Body(i))
    BY <1>1, <2>2, <2>3
  <2> QED
    BY <2>4 DEF InHead
<1>5. CASE ~(i < Len(frames)) /\ at # "return"
  <2>1. Body(i) = Here
    BY <1>5 DEF Body
  <2>2. ~(p < Body(i))
    BY <1>1, <2>1
  <2> QED
    BY <2>2 DEF InHead
<1> QED
  BY <1>3, <1>4, <1>5

LEMMA WordsNext ==
    ASSUME Still, Here' \in Nat, WordsTaken,
           \A p \in 1 .. Here - 1 :
              /\ TakenApart(p)' => TakenApart(p)
              /\ TakenWhole(p)' => TakenWhole(p)
              /\ input[p] \in Glued /\ TakenApart(p) => TakenApart(p)'
              /\ input[p] \in Glued /\ TakenWhole(p) => TakenWhole(p)',
           \A p \in Here .. Here' - 1 :
              /\ ~(TakenApart(p)' /\ TakenWhole(p)')
              /\ input'[p] \in Glued => TakenApart(p)' \/ TakenWhole(p)'
    PROVE  WordsTaken'
<1>1. /\ Here \in Nat \ {0} /\ Here <= Here'
      /\ \A p \in 1 .. Here : input'[p] = input[p]
  BY StillThere
<1>2. ASSUME NEW p \in 1 .. Here' - 1
      PROVE  /\ ~(TakenApart(p)' /\ TakenWhole(p)')
             /\ input'[p] \in Glued => TakenApart(p)' \/ TakenWhole(p)'
  <2>0. \A h, g \in Nat : p \in 1 .. g - 1 => p \in 1 .. h - 1 \/ p \in h .. g - 1
    OBVIOUS
  <2>1. p \in 1 .. Here - 1 \/ p \in Here .. Here' - 1
    BY <1>1, <2>0
  <2>2. CASE p \in 1 .. Here - 1
    <3>1. input'[p] = input[p]
      <4>1. p \in 1 .. Here
        BY <1>1, <2>2
      <4> QED
        BY <1>1, <4>1
    <3>2. /\ ~(TakenApart(p) /\ TakenWhole(p))
          /\ input[p] \in Glued => TakenApart(p) \/ TakenWhole(p)
      BY <2>2 DEF WordsTaken
    <3> QED
      BY <2>2, <3>1, <3>2
  <2> QED
    BY <2>1, <2>2
<1> QED
  BY <1>2 DEF WordsTaken

(* The frames that stay say what they said. *)
LEMMA FramesSay ==
    ASSUME Still, Stacked, NEW m \in 0 .. Len(frames), Len(frames') \in Nat, m <= Len(frames'),
           \A i \in 1 .. m : frames'[i] = frames[i], NEW p
    PROVE  /\ \A i \in 1 .. m : Said(frames[i], p)' <=> Said(frames[i], p)
           /\ \A i \in 1 .. m - 1 : InHead(i, p)' <=> InHead(i, p)
<1>1. Len(frames) \in Nat /\ \A i \in 1 .. Len(frames) : frames[i] \in Frame
  BY FrameFacts DEF Still
<1>2. ASSUME NEW i \in 1 .. m PROVE Said(frames[i], p)' <=> Said(frames[i], p)
  <2>1. i \in 1 .. Len(frames) /\ frames'[i] = frames[i]
    BY <1>1
  <2>2. PICK f \in Frame : f = frames[i]
    BY <1>1, <2>1
  <2>3. InRow(f)
    BY <2>1, <2>2 DEF Stacked, Laid
  <2>4. Said(f, p)' <=> Said(f, p)
    BY <2>3, StillSaid
  <2> QED
    BY <2>1, <2>2, <2>4
<1>3. ASSUME NEW i \in 1 .. m - 1 PROVE InHead(i, p)' <=> InHead(i, p)
  <2>1. /\ i \in 1 .. m /\ i + 1 \in 1 .. m /\ i < Len(frames) /\ i < Len(frames')
    BY <1>1
  <2>2. frames'[i] = frames[i] /\ frames'[i + 1] = frames[i + 1]
    BY <2>1
  <2>3. Body(i)' = Body(i)
    BY <2>1, <2>2 DEF Body
  <2> QED
    BY <2>2, <2>3 DEF InHead
<1> QED
  BY <1>2, <1>3

(* A step that opens and closes nothing. *)
LEMMA StayWords ==
    ASSUME Still, Typed', Stacked, Now, at # "error", nodes' = nodes, frames' = frames,
           InExp' = InExp, frames # << >> => at # "return" /\ at' # "return"
    PROVE  /\ \A p \in 1 .. Here - 1 :
                (TakenApart(p)' <=> TakenApart(p)) /\ (TakenWhole(p)' <=> TakenWhole(p))
           /\ at # "else" => \A p \in Here .. Here' - 1 : ~TakenApart(p)'
           /\ \A p \in Here .. Here' - 1 :
                /\ \A n \in 1 .. Out' : ~Names(n, p)'
                /\ \A i \in 1 .. Len(frames) - 1 : ~InHead(i, p)'
<1>1. /\ Typed /\ KidsOlder /\ NodesFit /\ Here \in Nat /\ Here' \in Nat /\ Here <= Here'
      /\ Out \in Nat /\ Out' = Out
  BY StillThere DEF Still, Out
<1>2. /\ Len(frames) \in Nat /\ Len(frames) \in 0 .. Len(frames) /\ Len(frames') = Len(frames)
      /\ \A i \in 1 .. Len(frames) : frames'[i] = frames[i]
      /\ Top' = Top /\ From(Top)' = From(Top)
  BY <1>1, FrameFacts DEF Top, From
<1>3. ASSUME NEW p
      PROVE  /\ \A i \in 1 .. Len(frames) : Said(frames[i], p)' <=> Said(frames[i], p)
             /\ \A i \in 1 .. Len(frames) - 1 : InHead(i, p)' <=> InHead(i, p)
             /\ \A n \in 1 .. Out : (Names(n, p)' <=> Names(n, p)) /\ (Splits(n, p)' <=> Splits(n, p))
  <2>1. Len(frames') \in Nat /\ Len(frames) <= Len(frames')
    BY <1>2
  <2> QED
    BY <1>2, <2>1, FramesSay, StillNames
<1>4. ASSUME NEW p PROVE TakenApart(p)' <=> TakenApart(p)
  BY <1>1, <1>2, <1>3 DEF TakenApart
<1>5. ASSUME NEW p \in 1 .. Here - 1 PROVE TakenWhole(p)' <=> TakenWhole(p)
  <2>1. ASSUME NEW i \in 1 .. Len(frames) PROVE InHead(i, p)' <=> InHead(i, p)
    <3>1. CASE i \in 1 .. Len(frames) - 1
      BY <1>3, <3>1
    <3>2. CASE i = Len(frames)
      <4>1. at # "return" /\ at' # "return"
        BY <1>2
      <4>2. Body(i) = Here /\ Body(i)' = Here'
        BY <1>2, <3>2, <4>1 DEF Body
      <4>3. p < Here /\ p < Here'
        BY <1>1
      <4> QED
        BY <1>2, <4>2, <4>3 DEF InHead
    <3>3. i \in 1 .. Len(frames) - 1 \/ i = Len(frames)
      BY <1>2
    <3> QED
      BY <3>1, <3>2, <3>3
  <2> QED
    BY <1>1, <1>2, <1>3, <2>1 DEF TakenWhole
<1>6. ASSUME NEW p \in Here .. Here' - 1
      PROVE  /\ p \in Nat /\ p >= Here
             /\ \A n \in 1 .. Out' : ~Names(n, p)' /\ ~Splits(n, p)'
             /\ \A i \in 1 .. Len(frames) - 1 : ~InHead(i, p)'
  <2>1. p \in Nat /\ p >= Here
    BY <1>1
  <2>2. \A n \in 1 .. Out : ~Names(n, p) /\ ~Splits(n, p)
    BY <1>1, <2>1, NodesBefore
  <2>3. \A i \in 1 .. Len(frames) : ~InHead(i, p)
    BY <1>1, <2>1, HeadBefore
  <2>4. \A i \in 1 .. Len(frames) - 1 : i \in 1 .. Len(frames)
    BY <1>2
  <2> QED
    BY <1>1, <1>3, <2>1, <2>2, <2>3, <2>4
<1>7. ASSUME at # "else", NEW p \in Here .. Here' - 1 PROVE ~TakenApart(p)'
  <2>1. p \in Nat /\ p >= Here /\ \A n \in 1 .. Out' : ~Splits(n, p)'
    BY <1>6
  <2>2. ASSUME NEW i \in 1 .. Len(frames), Said(frames[i], p) PROVE FALSE
    <3>1. CASE i \in 1 .. Len(frames) - 1
      <4>1. p < frames[i + 1].start /\ frames[i + 1].start \in 1 .. Here
        BY <1>1, <2>2, <3>1, SaidOuter
      <4>2. PICK s \in 1 .. Here : s = frames[i + 1].start
        BY <4>1
      <4> QED
        BY <1>1, <2>1, <4>1, <4>2
    <3>2. CASE i = Len(frames)
      <4>1. frames # << >> /\ Said(Top, p)
        BY <1>1, <1>2, <2>2, <3>2, FrameFacts
      <4>2. p < Here
        BY <1>1, <1>7, <4>1, SaidInner
      <4> QED
        BY <1>1, <2>1, <4>2
    <3>3. i \in 1 .. Len(frames) - 1 \/ i = Len(frames)
      BY <1>2
    <3> QED
      BY <3>1, <3>2, <3>3
  <2> QED
    BY <1>2, <1>3, <2>1, <2>2 DEF TakenApart
<1> QED
  BY <1>4, <1>5, <1>6, <1>7

(* What the next steps have in common. *)
LEMMA WordsStay ==
    ASSUME Still, Typed', Stacked, Now, WordsTaken, at # "error", nodes' = nodes, frames' = frames,
           InExp' = InExp, frames # << >> => at # "return" /\ at' # "return",
           \A p \in Here .. Here' - 1 :
              /\ ~(TakenApart(p)' /\ TakenWhole(p)')
              /\ input'[p] \in Glued => TakenApart(p)' \/ TakenWhole(p)'
    PROVE  WordsTaken'
<1>1. Here' \in Nat
  BY StillThere
<1>2. \A p \in 1 .. Here - 1 :
          (TakenApart(p)' <=> TakenApart(p)) /\ (TakenWhole(p)' <=> TakenWhole(p))
  BY StayWords
<1> QED
  BY <1>1, <1>2, WordsNext

LEMMA InExpressionWords ==
    ASSUME Typed, Typed', Inductive, InExpression, WordsTaken
    PROVE  WordsTaken'
<1>1. /\ Grown /\ frames' = frames /\ nodes' = nodes
      /\ at \in {"operand", "args", "loop"} /\ at' \in {"operand", "args", "loop"}
  BY InExpressionGrows
<1>2. Kept
  BY <1>1, GrownIsKept DEF Typed
<1>3. KidsOlder /\ NodesFit /\ Stacked /\ Now
  BY <1>1, AtWork
<1>4. Still
  BY <1>1, <1>2, <1>3, NoNode
<1>5. Here \in Nat /\ Here' \in Nat
  BY <1>4, StillThere
<1>6. /\ InExp /\ InExp' /\ at \notin {"return", "error", "else"} /\ at' # "return"
      /\ frames # << >> /\ From(Top)' = From(Top) /\ From(Top) \in Nat /\ From(Top) <= Here
  <2>1. InExp /\ InExp' /\ at \notin {"return", "error", "else"} /\ at' # "return"
    BY <1>1 DEF InExp
  <2>2. frames # << >>
    BY <2>1 DEF Typed, AtOK
  <2>3. From(Top) \in Nat /\ From(Top)' = From(Top)
    BY <1>1, <1>3, <2>2, TopLaid DEF From, Top
  <2>4. From(Top) <= Here
    BY <1>3, <2>1 DEF Now, Reading
  <2> QED
    BY <2>1, <2>2, <2>3, <2>4
<1>7. ASSUME NEW p \in Here .. Here' - 1 PROVE ~TakenApart(p)' /\ TakenWhole(p)'
  <2>1. ~TakenApart(p)'
    BY <1>1, <1>3, <1>4, <1>6, StayWords
  <2>2. From(Top) <= p
    BY <1>5, <1>6
  <2>3. From(Top)' <= p
    BY <1>6, <2>2
  <2>4. TakenWhole(p)'
    BY <1>6, <2>3 DEF TakenWhole
  <2> QED
    BY <2>1, <2>4
<1> QED
  BY <1>1, <1>3, <1>4, <1>6, <1>7, WordsStay

LEMMA InFuncDecWords ==
    ASSUME Typed, Typed', Inductive, InFuncDec, WordsTaken
    PROVE  WordsTaken'
<1>1. /\ Grown /\ frames' = frames /\ nodes' = nodes
      /\ at \in InSignature /\ at' \in InSignature \cup {"body"}
  BY InFuncDecGrows
<1>2. Kept
  BY <1>1, GrownIsKept DEF Typed
<1>3. KidsOlder /\ NodesFit /\ Stacked /\ Now
  BY <1>1, AtWork, SignatureStates
<1>4. Still
  BY <1>1, <1>2, <1>3, NoNode
<1>5. Here \in Nat /\ Here' \in Nat
  BY <1>4, StillThere
<1>6. ~InExp /\ ~InExp' /\ at \notin {"return", "error", "else"} /\ at' # "return"
  BY <1>1, SignatureStates DEF InExp
<1>7. PICK m \in Nat \ {0}, s \in Nat :
            m = Len(frames) /\ frames[m].kind = "Function" /\ frames[m].start = s /\ s < Here
  <2>1. frames # << >> /\ Top.kind = "Function" /\ Top.start < Here
    BY <1>1, <1>3 DEF Typed, Owned, Now
  <2>2. Top.start \in Nat /\ Len(frames) >= 1 /\ Len(frames) \in Nat /\ Top = frames[Len(frames)]
    BY <1>3, <2>1, TopLaid, FrameFacts
  <2> QED
    BY <2>1, <2>2
<1>8. InExp' = InExp
  BY <1>6 DEF InExp
<1>9. ASSUME NEW p \in Here .. Here' - 1 PROVE ~TakenApart(p)' /\ TakenWhole(p)'
  <2>1. ~TakenApart(p)'
    BY <1>1, <1>3, <1>4, <1>6, <1>8, StayWords
  <2>2. Body(m)' = Here'
    BY <1>1, <1>6, <1>7 DEF Body
  <2>s. s < Here
    BY <1>7
  <2>3. s < p /\ p < Here'
    <3>1. \A h, g \in Nat : s < h /\ p \in h .. g - 1 => s < p /\ p < g
      OBVIOUS
    <3> QED
      BY <1>5, <2>s, <3>1
  <2>4. InHead(m, p)'
    BY <1>1, <1>7, <2>2, <2>3 DEF InHead
  <2>5. m \in 1 .. Len(frames')
    BY <1>1, <1>7
  <2>6. TakenWhole(p)'
    BY <2>4, <2>5 DEF TakenWhole
  <2> QED
    BY <2>1, <2>6
<1> QED
  BY <1>1, <1>3, <1>4, <1>6, <1>8, <1>9, WordsStay

LEMMA BeginElseWords ==
    ASSUME Typed, Typed', Inductive, BeginElse, WordsTaken
    PROVE  WordsTaken'
<1>1. /\ Consume /\ UNCHANGED <<nodes, frames, open>> /\ at = "else" /\ at' = "block"
      /\ Lead = "else"
  BY DEF BeginElse, TakesElse
<1>2. Grown /\ Len(input') = Len(input) + 1
  BY <1>1, LeadEnd, ConsumeGrows, AlphabetSame DEF Typed, InGlobals
<1>3. Kept
  BY <1>2, GrownIsKept DEF Typed
<1>4. KidsOlder /\ NodesFit /\ Stacked /\ Now
  BY <1>1, AtWork
<1>5. Still
  BY <1>1, <1>3, <1>4, NoNode
<1>6. Here \in Nat /\ Here' = Here + 1
  BY <1>2, Numbers DEF Here
<1>7. ~InExp /\ ~InExp' /\ InExp' = InExp
  BY <1>1 DEF InExp
<1>8. /\ frames # << >> /\ Len(frames) \in 1 .. Len(frames) /\ Len(frames) \in Nat
      /\ frames[Len(frames)] = Top /\ Top.kind = "If" /\ Top.kids \in Seq(Nat)
      /\ Len(Top.kids) = 2 /\ Here = Hi[Top.kids[2]] + 1 /\ InRow(Top) /\ Top \in Frame
  BY <1>1, <1>4, TopLaid, FrameFacts DEF Typed, Owned, Now
<1>9. ASSUME NEW p \in Here .. Here' - 1 PROVE TakenApart(p)' /\ ~TakenWhole(p)'
  <2>1. p = Here
    BY <1>6
  <2>2. Said(Top, p)
    BY <1>8, <2>1 DEF Said
  <2>3. PICK f \in Frame : f = Top
    BY <1>8
  <2>4. Said(f, p)'
    BY <1>5, <1>8, <2>2, <2>3, StillSaid
  <2>5. frames'[Len(frames)] = f /\ Len(frames) \in 1 .. Len(frames')
    BY <1>1, <1>8, <2>3
  <2>6. TakenApart(p)'
    BY <2>4, <2>5 DEF TakenApart
  <2>7. /\ \A n \in 1 .. Out' : ~Names(n, p)'
        /\ \A i \in 1 .. Len(frames) - 1 : ~InHead(i, p)'
    BY <1>1, <1>4, <1>5, <1>7, StayWords
  <2>8. ~InHead(Len(frames), p)'
    BY <1>1, <1>8 DEF InHead
  <2>9. \A i \in 1 .. Len(frames') : i \in 1 .. Len(frames) - 1 \/ i = Len(frames)
    BY <1>1, <1>8
  <2>10. ~TakenWhole(p)'
    BY <1>7, <2>7, <2>8, <2>9 DEF TakenWhole
  <2> QED
    BY <2>6, <2>10
<1> QED
  BY <1>1, <1>4, <1>5, <1>7, <1>9, WordsStay

LEMMA EndWords ==
    ASSUME Typed, Typed', Inductive, EndOfText \/ ReturnToCaller, WordsTaken
    PROVE  WordsTaken'
<1>1. /\ UNCHANGED <<input, nodes, frames, open>> /\ at' = "done"
      /\ at = "globals" \/ (at = "return" /\ frames = << >>)
  BY DEF EndOfText, ReturnToCaller
<1>2. Kept
  BY <1>1, InputSame, AlphabetSame DEF Typed, InGlobals
<1>3. KidsOlder /\ NodesFit /\ Stacked /\ Now
  BY <1>1, AtWork
<1>4. Still
  BY <1>1, <1>2, <1>3, NoNode
<1>5. InExp' = InExp
  BY <1>1 DEF InExp
<1>6. \A p \in Here .. Here' - 1 : FALSE
  <2>1. Here' = Here /\ Here \in Nat
    BY <1>1, Numbers DEF Here
  <2> QED
    BY <2>1
<1> QED
  BY <1>1, <1>3, <1>4, <1>5, <1>6, WordsStay

(* A keyword is taken apart from what it begins as soon as it is read. *)
LEMMA OpenWords ==
    ASSUME Typed, Inductive, WordsTaken,
           \/ BeginFunction \/ BeginGlobalBasic \/ OpenBlock \/ BeginKeyword
           \/ BeginBasic \/ BeginSingle
    PROVE  WordsTaken'
<1>1. PICK kind \in {"Function", "Basic", "Return", "While", "If", "Block", "Single"} :
                /\ frames' = Append(frames, Opened(kind))
                /\ kind = "Function" =>
                      at = "globals" /\ at' = "fname" /\ Lead \in {"fn", "cfn"} /\ Consume
                /\ kind = "Block" =>
                      at # "globals" /\ at' = "part" /\ tok = "{" /\ Consume
                /\ kind = "Single" =>
                      at = "block" /\ at' = "statement" /\ input' = input /\ tok # "{"
                /\ kind = "Basic" =>
                      at \notin {"block", "body"} /\ at' = "operand" /\ input' = input
                /\ kind \in {"Return", "While", "If"} =>
                      /\ at \in {"part", "statement"} /\ at' = "operand" /\ Consume
                      /\ Lead = CASE kind = "While" -> "while" [] kind = "If" -> "if"
                                  [] kind = "Return" -> "return"
  BY Opens
<1>2. at \in {"globals", "part", "statement", "block", "body"} /\ nodes' = nodes
  BY Opens
<1>3. Typed' /\ Kept /\ (Consume => Len(input') = Len(input) + 1)
  BY OpenTyped
<1>4. KidsOlder /\ NodesFit /\ Stacked /\ Now
  BY <1>2, AtWork
<1>5. Still
  BY <1>2, <1>3, <1>4, NoNode
<1>6. PICK f \in Frame : f = Opened(kind)
  BY <1>1, OpenedTyped
<1>7. f.kind = kind /\ f.start = Here /\ f.kids = << >> /\ Len(f.kids) # 2
  BY <1>6 DEF Opened
<1>8. PICK h \in Nat : h = Here /\ h >= 1
  BY Numbers
<1>9. PICK g \in Nat : g = Here' /\ (g = h \/ g = h + 1) /\ (g = h + 1 => Consume)
  <2>1. input' = input => Here' = h
    BY <1>8 DEF Here
  <2>2. Consume => Here' = h + 1
    BY <1>3, <1>8 DEF Here
  <2>3. input' = input \/ Consume
    BY <1>1
  <2>4. Here' = h \/ (Here' = h + 1 /\ Consume)
    BY <2>1, <2>2, <2>3
  <2>5. h \in Nat /\ h + 1 \in Nat /\ h # h + 1
    OBVIOUS
  <2> QED
    BY <2>4, <2>5
<1>10. PICK m \in Nat :
          /\ m = Len(frames) /\ Len(frames') = m + 1
          /\ \A i \in 1 .. m : frames'[i] = frames[i]
          /\ frames'[m + 1] = f
  <2>1. frames \in Seq(Frame) /\ frames' = Append(frames, f)
    BY <1>1, <1>6, FrameFacts
  <2> QED
    BY <2>1, AppendProperties
<1>11. Top' = f
  BY <1>10 DEF Top, Last
<1>12. ~InExp /\ at # "return" /\ at' # "return" /\ at # "error" /\ at # "else"
  BY <1>1, <1>2 DEF InExp
<1>13. Out \in Nat /\ Out' = Out
  BY <1>2, Numbers DEF Out
<1>14. ASSUME NEW p
       PROVE  /\ \A i \in 1 .. m : Said(frames[i], p)' <=> Said(frames[i], p)
              /\ \A i \in 1 .. m - 1 : InHead(i, p)' <=> InHead(i, p)
              /\ \A n \in 1 .. Out :
                    (Names(n, p)' <=> Names(n, p)) /\ (Splits(n, p)' <=> Splits(n, p))
  <2>1. m \in 0 .. Len(frames) /\ Len(frames') \in Nat /\ m <= Len(frames')
    BY <1>10
  <2> QED
    BY <1>4, <1>5, <1>10, <2>1, FramesSay, StillNames
<1>15. \A i \in 1 .. m + 1 : i \in 1 .. m \/ i = m + 1
  OBVIOUS
<1>16. \A i \in 1 .. m : i \in 1 .. m - 1 \/ i = m
  OBVIOUS
<1>17. m + 1 \in 1 .. m + 1 /\ \A i \in 1 .. m : i \in 1 .. m + 1
  OBVIOUS
<1>18. ASSUME NEW p PROVE Said(f, p)' <=> p = h /\ kind \in SaysWord
  BY <1>7, <1>8 DEF Said
<1>19. Body(m)' = h /\ Body(m) = h
  <2>1. m < m + 1 /\ ~(m < m)
    OBVIOUS
  <2> QED
    BY <1>7, <1>8, <1>10, <1>12, <2>1 DEF Body
<1>20. ASSUME NEW p \in 1 .. h, p # h \/ g # h
       PROVE  ~(InExp' /\ From(Top)' <= p) /\ ~InHead(m + 1, p)'
  <2>1. ~InHead(m + 1, p)'
    <3>1. ~(h < p)
      OBVIOUS
    <3>2. frames'[m + 1].start = h
      BY <1>7, <1>8, <1>10
    <3> QED
      BY <3>1, <3>2 DEF InHead
  <2>2. ASSUME InExp', From(Top)' <= p PROVE FALSE
    <3>1. From(Top)' = From(f)
      BY <1>11 DEF From
    <3>2. kind \in {"Basic", "Return", "While", "If"}
      BY <1>1, <2>2, SignatureStates DEF InExp
    <3>3. CASE kind = "Basic"
      <4>1. g = h
        BY <1>1, <1>8, <1>9, <3>3 DEF Here
      <4>2. From(f) = h
        BY <1>7, <1>8, <3>3 DEF From
      <4>3. h <= p
        BY <2>2, <3>1, <4>2
      <4> QED
        BY <1>20, <4>1, <4>3
    <3>4. CASE kind # "Basic"
      <4>1. From(f) = h + 1
        BY <1>7, <1>8, <3>2, <3>4 DEF From
      <4>2. h + 1 <= p
        BY <2>2, <3>1, <4>1
      <4> QED
        BY <4>2
    <3> QED
      BY <3>3, <3>4
  <2> QED
    BY <2>1, <2>2
<1>21. ASSUME NEW p \in 1 .. h - 1
       PROVE  (TakenApart(p)' <=> TakenApart(p)) /\ (TakenWhole(p)' <=> TakenWhole(p))
  <2>1. p # h /\ p < h /\ p \in 1 .. h
    OBVIOUS
  <2>2. TakenApart(p)' <=> TakenApart(p)
    <3>1. ~Said(f, p)'
      BY <1>18, <2>1
    <3>2. TakenApart(p)' <=>
              \/ \E i \in 1 .. m : Said(frames[i], p)'
              \/ \E n \in 1 .. Out : Splits(n, p)'
      BY <1>10, <1>13, <1>15, <1>17, <3>1 DEF TakenApart
    <3>3. /\ (\E i \in 1 .. m : Said(frames[i], p)') <=> \E i \in 1 .. m : Said(frames[i], p)
          /\ (\E n \in 1 .. Out : Splits(n, p)') <=> \E n \in 1 .. Out : Splits(n, p)
      BY <1>14
    <3> QED
      BY <1>10, <3>2, <3>3 DEF TakenApart
  <2>3. ASSUME NEW i \in 1 .. m PROVE InHead(i, p)' <=> InHead(i, p)
    <3>1. CASE i \in 1 .. m - 1
      BY <1>14, <3>1
    <3>2. CASE i = m
      <4>1. frames'[m] = frames[m]
        BY <1>10, <3>2
      <4> QED
        BY <1>19, <3>2, <4>1 DEF InHead
    <3> QED
      BY <1>16, <3>1, <3>2
  <2>4. TakenWhole(p)' <=> TakenWhole(p)
    <3>1. ~(InExp' /\ From(Top)' <= p) /\ ~InHead(m + 1, p)'
      BY <1>20, <2>1
    <3>2. TakenWhole(p)' <=>
              \/ \E i \in 1 .. m : InHead(i, p)'
              \/ \E n \in 1 .. Out : Names(n, p)'
      BY <1>10, <1>13, <1>15, <1>17, <3>1 DEF TakenWhole
    <3> QED
      BY <1>10, <1>12, <1>14, <2>3, <3>2 DEF TakenWhole
  <2> QED
    BY <2>2, <2>4
<1>22. ASSUME NEW p \in h .. g - 1
       PROVE  ~TakenWhole(p)' /\ (input'[p] \in Glued => TakenApart(p)')
  <2>0. g = h + 1
    <3>1. h \in Nat /\ ~\E x \in h .. h - 1 : TRUE
      OBVIOUS
    <3> QED
      BY <1>9, <3>1
  <2>n. p = h
    BY <2>0
  <2>m. h \in 1 .. h /\ h + 1 # h
    BY <1>8
  <2>1. p = h /\ g # h /\ Consume /\ p \in 1 .. h /\ p \in Nat
    BY <1>9, <2>0, <2>n, <2>m
  <2>2. ASSUME NEW i \in 1 .. m PROVE ~InHead(i, p)'
    <3>1. CASE i \in 1 .. m - 1
      <4>1. i \in 1 .. Len(frames) /\ p >= Here
        BY <1>8, <1>10, <2>1
      <4>2. ~InHead(i, p)
        BY <1>4, <1>12, <2>1, <4>1, HeadBefore
      <4> QED
        BY <1>14, <3>1, <4>2
    <3>2. CASE i = m
      <4>1. ~(p < h)
        BY <2>1
      <4> QED
        BY <1>19, <3>2, <4>1 DEF InHead
    <3> QED
      BY <1>16, <3>1, <3>2
  <2>3. ASSUME NEW n \in 1 .. Out PROVE ~Names(n, p)'
    <3>1. p >= Here
      BY <1>8, <2>1
    <3>2. ~Names(n, p)
      BY <1>4, <2>1, <3>1, NodesBefore
    <3> QED
      BY <1>14, <3>2
  <2>4. ~(InExp' /\ From(Top)' <= p) /\ ~InHead(m + 1, p)'
    BY <1>20, <2>1
  <2>5. ~TakenWhole(p)'
    BY <1>10, <1>13, <1>15, <2>2, <2>3, <2>4 DEF TakenWhole
  <2>6. ASSUME input'[p] \in Glued PROVE TakenApart(p)'
    <3>1. tok \in Glued
      <4>1. h \in 1 .. Here
        BY <1>8
      <4> QED
        BY <1>5, <1>8, <2>1, <2>6, <4>1, StillThere, LeadHere
    <3>2. tok # "{"
      BY <3>1 DEF Glued, Keyword
    <3>3. Consume /\ input' # input
      <4>1. Len(input') # Len(input)
        BY <1>3, <1>8, <2>1 DEF Here
      <4> QED
        BY <2>1, <4>1
    <3>4. kind \in SaysWord
      BY <1>1, <3>2, <3>3 DEF SaysWord
    <3>5. Said(f, p)'
      BY <1>18, <2>1, <3>4
    <3>6. frames'[m + 1] = f /\ m + 1 \in 1 .. Len(frames')
      BY <1>10, <1>17
    <3> QED
      BY <3>5, <3>6 DEF TakenApart
  <2> QED
    BY <2>5, <2>6
<1> QED
  BY <1>5, <1>8, <1>9, <1>21, <1>22, WordsNext

(* What the innermost statement keeps from being taken apart. *)
TopTakes(p) == (InExp /\ From(Top) <= p) \/ InHead(Len(frames), p)

(* A statement that ends leaves a node that says what the frame said. *)
LEMMA CloseWords ==
    ASSUME Still, Stacked, Now, at # "error", WordsTaken, frames # << >>, frames' = Front(frames),
           at' = "return", Here' \in Nat, Out' \in Nat, Out <= Out', Lo'[Out'] = Top.start,
           \A p \in 1 .. Here - 1 :
              /\ Said(Top, p) <=> \E n \in Out + 1 .. Out' : Splits(n, p)'
              /\ (\E n \in Out + 1 .. Out' : Names(n, p)') => TopTakes(p)
              /\ input[p] \in Glued /\ TopTakes(p) => \E n \in Out + 1 .. Out' : Names(n, p)',
           \A p \in Here .. Here' - 1 :
              input'[p] \notin Glued /\ ~\E n \in Out + 1 .. Out' : Splits(n, p)'
    PROVE  WordsTaken'
<1>1. Typed /\ KidsOlder /\ NodesFit
  BY DEF Still
<1>2. PICK h \in Nat : h = Here /\ h >= 1
  BY <1>1, Numbers
<1>3. PICK m \in Nat :
          /\ Len(frames) = m + 1 /\ Len(frames') = m /\ frames[m + 1] = Top
          /\ \A i \in 1 .. m : frames'[i] = frames[i]
  <2>1. /\ Len(frames) \in Nat \ {0} /\ Top = frames[Len(frames)] /\ Front(frames) \in Seq(Frame)
        /\ Len(Front(frames)) = Len(frames) - 1
        /\ \A i \in 1 .. Len(frames) - 1 : Front(frames)[i] = frames[i]
    BY <1>1, TopFacts DEF Typed
  <2>2. PICK m \in Nat : m = Len(frames) - 1
    BY <2>1
  <2>3. m + 1 = Len(frames)
    BY <2>1, <2>2
  <2> QED
    BY <2>1, <2>2, <2>3
<1>4. ~InExp'
  BY DEF InExp
<1>5. /\ \A i \in 1 .. m + 1 : i \in 1 .. m \/ i = m + 1
      /\ \A i \in 1 .. m : i \in 1 .. m - 1 \/ i = m
      /\ m + 1 \in 1 .. m + 1 /\ \A i \in 1 .. m : i \in 1 .. m + 1
  OBVIOUS
<1>6. ASSUME NEW p
      PROVE  /\ \A i \in 1 .. m : Said(frames[i], p)' <=> Said(frames[i], p)
             /\ \A i \in 1 .. m - 1 : InHead(i, p)' <=> InHead(i, p)
  <2>1. m \in 0 .. Len(frames) /\ Len(frames') \in Nat /\ m <= Len(frames')
    BY <1>3
  <2> QED
    BY <1>3, <2>1, FramesSay
<1>7. m # 0 => Body(m)' = Body(m) /\ frames'[m] = frames[m]
  <2>1. m < m + 1 /\ ~(m < m)
    OBVIOUS
  <2>2. Body(m)' = Top.start /\ Body(m) = Top.start
    BY <1>3, <2>1 DEF Body
  <2>3. m # 0 => m \in 1 .. m
    OBVIOUS
  <2> QED
    BY <1>3, <2>2, <2>3
<1>8. ASSUME NEW p, NEW i \in 1 .. m PROVE InHead(i, p)' <=> InHead(i, p)
  <2>1. CASE i \in 1 .. m - 1
    BY <1>6, <2>1
  <2>2. CASE i = m
    <3>1. m # 0
      BY <2>2
    <3> QED
      BY <1>7, <2>2, <3>1 DEF InHead
  <2> QED
    BY <1>5, <2>1, <2>2
<1>9. ASSUME NEW p
      PROVE  /\ (\E n \in 1 .. Out' : Names(n, p)') <=>
                    \/ \E n \in 1 .. Out : Names(n, p)
                    \/ \E n \in Out + 1 .. Out' : Names(n, p)'
             /\ (\E n \in 1 .. Out' : Splits(n, p)') <=>
                    \/ \E n \in 1 .. Out : Splits(n, p)
                    \/ \E n \in Out + 1 .. Out' : Splits(n, p)'
  BY NodesSay
<1>10. ASSUME NEW p
       PROVE  /\ (\E i \in 1 .. m : Said(frames[i], p)') <=> \E i \in 1 .. m : Said(frames[i], p)
              /\ (\E i \in 1 .. m : InHead(i, p)') <=> \E i \in 1 .. m : InHead(i, p)
  BY <1>6, <1>8
<1>11. ASSUME NEW p
       PROVE  /\ TakenApart(p)' <=>
                    \/ \E i \in 1 .. m : Said(frames[i], p)
                    \/ \E n \in 1 .. Out : Splits(n, p)
                    \/ \E n \in Out + 1 .. Out' : Splits(n, p)'
              /\ TakenWhole(p)' <=>
                    \/ \E i \in 1 .. m : InHead(i, p)
                    \/ \E n \in 1 .. Out : Names(n, p)
                    \/ \E n \in Out + 1 .. Out' : Names(n, p)'
  <2>1. TakenApart(p)' <=> (\E i \in 1 .. m : Said(frames[i], p)') \/ \E n \in 1 .. Out' : Splits(n, p)'
    BY <1>3 DEF TakenApart
  <2>2. TakenWhole(p)' <=> (\E i \in 1 .. m : InHead(i, p)') \/ \E n \in 1 .. Out' : Names(n, p)'
    BY <1>3, <1>4 DEF TakenWhole
  <2> QED
    BY <1>9, <1>10, <2>1, <2>2
<1>12. ASSUME NEW p
       PROVE  /\ TakenApart(p) <=>
                    \/ \E i \in 1 .. m : Said(frames[i], p)
                    \/ \E n \in 1 .. Out : Splits(n, p)
                    \/ Said(Top, p)
              /\ TakenWhole(p) <=>
                    \/ \E i \in 1 .. m : InHead(i, p)
                    \/ \E n \in 1 .. Out : Names(n, p)
                    \/ TopTakes(p)
  <2>1. (\E i \in 1 .. Len(frames) : Said(frames[i], p)) <=>
            (\E i \in 1 .. m : Said(frames[i], p)) \/ Said(Top, p)
    BY <1>3, <1>5
  <2>2. (\E i \in 1 .. Len(frames) : InHead(i, p)) <=>
            (\E i \in 1 .. m : InHead(i, p)) \/ InHead(m + 1, p)
    BY <1>3, <1>5
  <2>3. TopTakes(p) <=> (InExp /\ From(Top) <= p) \/ InHead(m + 1, p)
    BY <1>3 DEF TopTakes
  <2> QED
    BY <2>1, <2>2, <2>3 DEF TakenApart, TakenWhole
<1>13. ASSUME NEW p \in 1 .. Here - 1
       PROVE  /\ TakenApart(p)' <=> TakenApart(p)
              /\ TakenWhole(p)' => TakenWhole(p)
              /\ input[p] \in Glued /\ TakenWhole(p) => TakenWhole(p)'
  BY <1>11, <1>12
<1>14. ASSUME NEW p \in Here .. Here' - 1
       PROVE  ~TakenApart(p)' /\ input'[p] \notin Glued
  <2>1. p \in Nat /\ p >= h
    BY <1>2
  <2>2. ASSUME NEW i \in 1 .. m, Said(frames[i], p) PROVE FALSE
    <3>1. i \in 1 .. Len(frames) - 1
      BY <1>3
    <3>2. p < frames[i + 1].start /\ frames[i + 1].start \in 1 .. Here
      BY <1>1, <2>2, <3>1, SaidOuter
    <3>3. PICK s \in 1 .. h : s = frames[i + 1].start
      BY <1>2, <3>2
    <3> QED
      BY <2>1, <3>2, <3>3
  <2>3. \A n \in 1 .. Out : ~Splits(n, p)
    BY <1>1, <1>2, <2>1, NodesBefore
  <2> QED
    BY <1>11, <2>2, <2>3
<1> QED
  BY <1>13, <1>14, WordsNext

(* Every statement but a simple one leaves one node. *)
LEMMA CloseOneWords ==
    ASSUME Still, Stacked, Now, at # "error", WordsTaken, frames # << >>, frames' = Front(frames),
           at' = "return", Here' \in Nat, Out' = Out + 1, Lo'[Out'] = Top.start,
           \A p \in 1 .. Here - 1 :
              /\ Said(Top, p) <=> Splits(Out, p)'
              /\ Names(Out, p)' <=> TopTakes(p),
           \A p \in Here .. Here' - 1 : input'[p] \notin Glued /\ ~Splits(Out, p)'
    PROVE  WordsTaken'
<1>1. Out \in Nat
  BY StillThere
<1>2. Out' \in Nat /\ Out <= Out' /\ \A n : n \in Out + 1 .. Out' <=> n = Out'
  BY <1>1
<1>3. ASSUME NEW p
      PROVE  /\ (\E n \in Out + 1 .. Out' : Names(n, p)') <=> Names(Out, p)'
             /\ (\E n \in Out + 1 .. Out' : Splits(n, p)') <=> Splits(Out, p)'
  <2>1. PICK m : m = Out'
    OBVIOUS
  <2>2. /\ (\E n \in Out + 1 .. Out' : Names(n, p)') <=> Names(m, p)'
        /\ (\E n \in Out + 1 .. Out' : Splits(n, p)') <=> Splits(m, p)'
    BY <1>2, <2>1
  <2>3. (Names(m, p)' <=> Names(Out, p)') /\ (Splits(m, p)' <=> Splits(Out, p)')
    BY <2>1 DEF Names, Splits
  <2> QED
    BY <2>2, <2>3
<1> QED
  BY <1>2, <1>3, CloseWords

(* A node that is made, in the tree that has it. *)
LEMMA MadeNode ==
    ASSUME Typed, Typed', Inductive, Inductive', Kept, NEW m \in Node, nodes' = Append(nodes, m)
    PROVE  /\ Still /\ Out \in Nat /\ Out' = Out + 1 /\ nodes'[Out'] = m
           /\ Here \in Nat /\ Here' \in Nat
           /\ m.first # 0 => Lo'[Out'] = m.first /\ Hi'[Out'] = m.last
           /\ m.first = 0 => m.kids[1] \in 1 .. Out
           /\ m.first = 0 /\ m.kind = "If" => Lo'[Out'] = Lo[m.kids[1]] - 1
           /\ m.first = 0 /\ m.kind # "If" => Lo'[Out'] = Lo[m.kids[1]]
<1>1. KidsOlder /\ NodesFit /\ KidsOlder'
  BY DEF Inductive
<1>2. nodes \in Seq(Node) /\ Out \in Nat /\ Out = Len(nodes)
  BY Numbers DEF Typed, Out
<1>3. /\ Len(nodes') = Out + 1 /\ nodes'[Out + 1] = m
      /\ \A i \in 1 .. Out : nodes'[i] = nodes[i]
  BY <1>2, AppendProperties
<1>4. Out' = Out + 1 /\ nodes'[Out'] = m
  BY <1>3 DEF Out
<1>5. More
  <2>1. Len(nodes') >= Len(nodes) /\ \A i \in 1 .. Len(nodes) : nodes'[i] = nodes[i]
    BY <1>2, <1>3
  <2> QED
    BY <1>1, <2>1, MoreNodes
<1>6. Still
  BY <1>1, <1>5 DEF Still
<1>7. PICK n \in Nat : n = Out' /\ n = Out + 1
  BY <1>2, <1>4
<1>8. n \in 1 .. Out'
  BY <1>2, <1>7
<1>9. /\ m.first # 0 => Lo'[n] = m.first /\ Hi'[n] = m.last
      /\ m.first = 0 => m.kids[1] \in 1 .. n - 1
      /\ m.first = 0 /\ m.kind = "If" => Lo'[n] = Lo'[m.kids[1]] - 1
      /\ m.first = 0 /\ m.kind # "If" => Lo'[n] = Lo'[m.kids[1]]
  <2>1. nodes'[n] = m
    BY <1>4, <1>7
  <2> QED
    BY <1>1, <1>8, <2>1, LoHiNext
<1>10. n - 1 = Out
  BY <1>2, <1>7
<1>11. m.first = 0 => Lo'[m.kids[1]] = Lo[m.kids[1]]
  BY <1>6, <1>9, <1>10, StillThere
<1>12. Here \in Nat /\ Here' \in Nat
  BY <1>6, StillThere
<1> QED
  BY <1>4, <1>6, <1>2, <1>7, <1>9, <1>10, <1>11, <1>12

LEMMA SemicolonIsNone == tok \in {";", "{", "}"} => tok \notin Glued
BY DEF Glued, Keyword

LEMMA OneIsOne == \A h \in Nat \ {0} : h \in 1 .. h /\ \A p \in h .. (h + 1) - 1 : p = h
OBVIOUS

(* The piece that ends a statement is read, and no other. *)
LEMMA OneMore ==
    ASSUME Still, Here' = Here + 1, tok \in {";", "{", "}"}
    PROVE  \A p \in Here .. Here' - 1 : p = Here /\ input'[p] \notin Glued
<1>1. Here \in Nat \ {0}
  BY StillThere
<1>2. \A h \in Nat \ {0} : h \in 1 .. h /\ \A p \in h .. (h + 1) - 1 : p = h
  BY OneIsOne
<1>3. Here \in 1 .. Here /\ \A p \in Here .. (Here + 1) - 1 : p = Here
  BY <1>1, <1>2
<1>4. input'[Here] = tok
  BY <1>3, StillThere, LeadHere
<1>5. input'[Here] \notin Glued
  BY <1>4, SemicolonIsNone
<1> QED
  BY <1>3, <1>5

LEMMA FinishFuncDecWords ==
    ASSUME Typed, Typed', Inductive, Inductive', FinishFuncDec, WordsTaken
    PROVE  WordsTaken'
<1>1. /\ at = "body" /\ tok = ";" /\ Consume /\ at' = "return" /\ frames' = Front(frames)
      /\ nodes' = Append(nodes, Made("FuncDec", Top.start, Here, << >>))
  BY DEF FinishFuncDec
<1>2. Kept /\ Len(input') = Len(input) + 1
  BY <1>1, EndTyped
<1>3. KidsOlder /\ NodesFit /\ Stacked /\ Now
  BY <1>1, AtWork
<1>4. /\ frames # << >> /\ Top.kind = "Function" /\ Top.start < Here - 1
  BY <1>1, <1>3 DEF Typed, Owned, Now
<1>5. Top \in Frame /\ Worded(Top) /\ Top.start \in 1 .. Here /\ Top.start \in Nat
  BY <1>3, <1>4, TopLaid
<1>6. PICK h \in Nat \ {0} : h = Here /\ Here' = h + 1
  BY <1>2, Numbers DEF Here
<1>7. PICK s \in Nat \ {0} : s = Top.start /\ s < h - 1
  BY <1>4, <1>5, <1>6
<1>8. PICK m \in Node : m = Made("FuncDec", s, h, << >>)
  <2>1. "FuncDec" \in Kinds /\ << >> \in Seq(Nat)
    BY DEF Kinds
  <2> QED
    BY <1>6, <1>7, <2>1, MadeTyped
<1>9. m.kind = "FuncDec" /\ m.first = s /\ m.last = h /\ m.kids = << >>
  BY <1>8 DEF Made
<1>10. /\ Still /\ Out \in Nat /\ Out' = Out + 1 /\ nodes'[Out'] = m
       /\ Lo'[Out'] = s /\ Hi'[Out'] = h
  <2>1. m.first # 0 /\ nodes' = Append(nodes, m)
    BY <1>1, <1>6, <1>7, <1>8, <1>9
  <2> QED
    BY <1>2, <1>9, <2>1, MadeNode
<1>11. ASSUME NEW p
       PROVE  /\ Splits(Out, p)' <=> p = s
              /\ Names(Out, p)' <=> s < p /\ p < h
              /\ Said(Top, p) <=> p = s
              /\ TopTakes(p) <=> s < p /\ p < h
  <2>1. Splits(Out, p)' <=> p = s
    BY <1>9, <1>10 DEF Splits, SaysWord
  <2>2. Names(Out, p)' <=> s < p /\ p < h
    BY <1>9, <1>10 DEF Names
  <2>3. Said(Top, p) <=> p = s
    BY <1>4, <1>7 DEF Said, SaysWord
  <2>4. TopTakes(p) <=> s < p /\ p < h
    <3>1. ~InExp /\ at # "return"
      BY <1>1 DEF InExp
    <3>2. Len(frames) \in Nat /\ frames[Len(frames)] = Top
      BY <1>4, FrameFacts
    <3>3. ~(Len(frames) < Len(frames))
      BY <3>2
    <3>4. Body(Len(frames)) = h
      BY <1>6, <3>1, <3>3 DEF Body
    <3> QED
      BY <1>4, <1>7, <3>1, <3>2, <3>4 DEF TopTakes, InHead
  <2> QED
    BY <2>1, <2>2, <2>3, <2>4
<1>12. ASSUME NEW p \in Here .. Here' - 1 PROVE input'[p] \notin Glued /\ ~Splits(Out, p)'
  <2>1. p = h /\ input'[p] \notin Glued
    BY <1>1, <1>6, <1>10, OneMore
  <2>2. h # s
    BY <1>7
  <2> QED
    BY <1>11, <2>1, <2>2
<1>13. Here' \in Nat /\ at # "error"
  <2>1. h + 1 \in Nat
    OBVIOUS
  <2>2. at # "error"
    BY <1>1
  <2> QED
    BY <1>6, <2>1, <2>2
<1> QED
  BY <1>1, <1>3, <1>4, <1>7, <1>10, <1>11, <1>12, <1>13, CloseOneWords

(* A block is no statement that is begun with a word. *)
LEMMA BlockWords ==
    ASSUME Still, Stacked, Now, at # "error", WordsTaken, frames # << >>, frames' = Front(frames),
           at' = "return", ~InExp, Top.kind \in {"Block", "Single"}, Here' \in Nat,
           Out' = Out + 1, Lo'[Out'] = Top.start, nodes'[Out'].kind = "Block",
           \A p \in Here .. Here' - 1 : input'[p] \notin Glued
    PROVE  WordsTaken'
<1>1. ASSUME NEW p
      PROVE  ~Said(Top, p) /\ ~Splits(Out, p)' /\ ~Names(Out, p)' /\ ~TopTakes(p)
  <2>1. Typed
    BY DEF Still
  <2>2. frames[Len(frames)] = Top
    BY <2>1, FrameFacts
  <2>3. ~TopTakes(p)
    BY <2>2 DEF TopTakes, InHead
  <2>4. ~Said(Top, p)
    BY DEF Said, SaysWord
  <2>5. ~Splits(Out, p)' /\ ~Names(Out, p)'
    BY DEF Splits, SaysWord, Names
  <2> QED
    BY <2>3, <2>4, <2>5
<1> QED
  BY <1>1, CloseOneWords

LEMMA CloseBlockWords ==
    ASSUME Typed, Typed', Inductive, Inductive', CloseBlock, WordsTaken
    PROVE  WordsTaken'
<1>1. /\ at = "part" /\ tok = "}" /\ Consume /\ at' = "return" /\ frames' = Front(frames)
      /\ nodes' = Append(nodes, Made("Block", Top.start, Here, Top.kids))
  BY DEF CloseBlock
<1>2. Kept /\ Len(input') = Len(input) + 1
  BY <1>1, EndTyped
<1>3. KidsOlder /\ NodesFit /\ Stacked /\ Now
  BY <1>1, AtWork
<1>4. frames # << >> /\ Top.kind = "Block"
  BY <1>1 DEF Typed, Owned
<1>5. Top.start \in 1 .. Here /\ Top.start \in Nat /\ Top.kids \in Seq(Nat)
  BY <1>3, <1>4, TopLaid
<1>6. Here \in Nat \ {0} /\ Here' = Here + 1
  BY <1>2, Numbers DEF Here
<1>7. PICK m \in Node : m = Made("Block", Top.start, Here, Top.kids)
  <2>1. "Block" \in Kinds
    BY DEF Kinds
  <2> QED
    BY <1>5, <1>6, <2>1, MadeTyped
<1>8. m.kind = "Block" /\ m.first = Top.start /\ m.first # 0
  BY <1>5, <1>7 DEF Made
<1>9. Still /\ Out' = Out + 1 /\ nodes'[Out'] = m /\ Lo'[Out'] = Top.start
  BY <1>1, <1>2, <1>7, <1>8, MadeNode
<1>10. \A p \in Here .. Here' - 1 : input'[p] \notin Glued
  BY <1>1, <1>6, <1>9, OneMore
<1>11. ~InExp /\ at # "error"
  BY <1>1 DEF InExp
<1>12. Here' \in Nat
  BY <1>9, StillThere
<1> QED
  BY <1>1, <1>3, <1>4, <1>8, <1>9, <1>10, <1>11, <1>12, BlockWords

LEMMA FinishSingleWords ==
    ASSUME Typed, Typed', Inductive, Inductive', FinishSingle, WordsTaken
    PROVE  WordsTaken'
<1>1. /\ at = "return" /\ frames # << >> /\ Top.kind = "Single" /\ input' = input
      /\ frames' = Front(frames) /\ at' = "return"
      /\ nodes' = Append(nodes, Made("Block", 0, 0, Append(Top.kids, Out)))
  BY DEF FinishSingle, ReturnTo, Finish, Out
<1>2. Kept
  BY EndTyped
<1>3. KidsOlder /\ NodesFit /\ Stacked /\ Now
  BY <1>1, AtWork
<1>4. PICK f \in Frame : f = Top
  BY <1>1, <1>3, TopLaid
<1>5. f.kids = << >> /\ f.kind = "Single"
  BY <1>1, <1>3, <1>4, TopLaid DEF Worded
<1>6. Here \in Nat \ {0} /\ Out \in Nat /\ Begins(f, Lo[Out])
  BY <1>1, <1>3, <1>4, Returned
<1>7. Lo[Out] = f.start
  BY <1>5, <1>6 DEF Begins, From
<1>8. PICK m \in Node : m = Made("Block", 0, 0, <<Out>>)
  <2>1. "Block" \in Kinds /\ 0 \in Nat
    BY DEF Kinds
  <2>2. <<Out>> \in Seq(Nat)
    BY <1>6
  <2> QED
    BY <2>1, <2>2, MadeTyped
<1>9. m.kind = "Block" /\ m.first = 0 /\ m.kids = <<Out>> /\ m.kids[1] = Out
  BY <1>8 DEF Made
<1>10. nodes' = Append(nodes, m)
  <2>1. Append(f.kids, Out) = <<Out>>
    BY <1>5, <1>6
  <2> QED
    BY <1>1, <1>4, <1>8, <2>1
<1>11. Still /\ Out' = Out + 1 /\ nodes'[Out'] = m /\ Lo'[Out'] = Lo[Out]
  <2>1. m.kind # "If"
    BY <1>9
  <2> QED
    BY <1>2, <1>9, <1>10, <2>1, MadeNode
<1>12. \A p \in Here .. Here' - 1 : FALSE
  <2>1. Here' = Here
    BY <1>1 DEF Here
  <2> QED
    BY <1>6, <2>1
<1>13. ~InExp /\ at # "error" /\ Lo'[Out'] = Top.start
  BY <1>1, <1>4, <1>7, <1>11 DEF InExp
<1>14. Here' \in Nat
  BY <1>11, StillThere
<1> QED
  BY <1>1, <1>3, <1>9, <1>11, <1>12, <1>13, <1>14, BlockWords

(* The steps that follow read nothing. *)
LEMMA NothingRead ==
    ASSUME Typed, input' = input
    PROVE  Here' = Here /\ Here' \in Nat /\ \A p \in Here .. Here' - 1 : FALSE
<1>1. Here' = Here /\ Here \in Nat
  BY Numbers DEF Here
<1>2. \A h \in Nat : \A p \in h .. h - 1 : FALSE
  OBVIOUS
<1> QED
  BY <1>1, <1>2

LEMMA CloseHereWords ==
    ASSUME Still, Stacked, Now, at # "error", ~InExp, WordsTaken, frames # << >>,
           frames' = Front(frames), at' = "return", input' = input, Out' = Out + 1,
           Lo'[Out'] = Top.start,
           \A p \in 1 .. Here - 1 :
              /\ Said(Top, p) <=> Splits(Out, p)'
              /\ Names(Out, p)' <=> InHead(Len(frames), p)
    PROVE  WordsTaken'
<1>1. Here' \in Nat /\ \A p \in Here .. Here' - 1 : FALSE
  BY NothingRead DEF Still
<1>2. \A p : TopTakes(p) <=> InHead(Len(frames), p)
  BY DEF TopTakes
<1>3. \A p \in 1 .. Here - 1 : (Said(Top, p) <=> Splits(Out, p)') /\ (Names(Out, p)' <=> TopTakes(p))
  BY <1>2
<1> QED
  BY <1>1, <1>3, CloseOneWords

LEMMA FinishWhileWords ==
    ASSUME Typed, Typed', Inductive, Inductive', FinishWhile, WordsTaken
    PROVE  WordsTaken'
<1>1. /\ at = "return" /\ frames # << >> /\ Top.kind = "While" /\ Finish("While", Top.start)
      /\ frames' = Front(frames) /\ input' = input /\ at' = "return"
  BY DEF FinishWhile, ReturnTo, Finish
<1>2. Kept
  BY EndTyped
<1>3. KidsOlder /\ NodesFit /\ Stacked /\ Now
  BY <1>1, AtWork
<1>4. Worded(Top) /\ Top.kids \in Seq(Nat) /\ Begins(Top, Lo[Out])
  BY <1>1, <1>3, TopLaid, Returned
<1>5. Len(Top.kids) \in Nat /\ Len(Top.kids) = 1
  <2>1. Len(Top.kids) <= 1 /\ Top.kids # << >>
    BY <1>1, <1>4 DEF Worded, Begins
  <2>2. Len(Top.kids) \in Nat /\ Len(Top.kids) # 0
    BY <1>4, <2>1, EmptySeq
  <2>3. \A x \in Nat : x <= 1 /\ x # 0 => x = 1
    OBVIOUS
  <2> QED
    BY <2>1, <2>2, <2>3
<1>6. /\ Still /\ Out' = Out + 1 /\ nodes'[Out'].kind = "While" /\ Lo'[Out'] = Top.start
  BY <1>1, <1>2, <1>5, FinishMakes
<1>7. ASSUME NEW p
      PROVE  (Said(Top, p) <=> Splits(Out, p)') /\ (Names(Out, p)' <=> InHead(Len(frames), p))
  <2>1. Said(Top, p) <=> p = Top.start
    BY <1>1 DEF Said, SaysWord
  <2>2. (Splits(Out, p)' <=> p = Top.start) /\ ~Names(Out, p)'
    BY <1>6 DEF Splits, Names, SaysWord
  <2>3. ~InHead(Len(frames), p)
    BY <1>1, FrameFacts DEF InHead
  <2> QED
    BY <2>1, <2>2, <2>3
<1>8. at # "error" /\ ~InExp
  BY <1>1 DEF InExp
<1> QED
  BY <1>1, <1>3, <1>6, <1>7, <1>8, CloseHereWords

LEMMA FinishFunctionWords ==
    ASSUME Typed, Typed', Inductive, Inductive', FinishFunction, WordsTaken
    PROVE  WordsTaken'
<1>1. /\ at = "return" /\ frames # << >> /\ Top.kind = "Function"
      /\ Finish("Function", Top.start)
      /\ frames' = Front(frames) /\ input' = input /\ at' = "return"
  BY DEF FinishFunction, ReturnTo, Finish
<1>2. Kept
  BY EndTyped
<1>3. KidsOlder /\ NodesFit /\ Stacked /\ Now
  BY <1>1, AtWork
<1>4. Worded(Top) /\ Out \in 1 .. Out /\ Out \in Nat
  BY <1>1, <1>3, TopLaid, Returned
<1>5. Top.kids = << >>
  BY <1>1, <1>4 DEF Worded
<1>6. PICK o \in 1 .. Out : o = Out
  BY <1>4
<1>7. /\ Still /\ Out' = Out + 1 /\ nodes'[Out'].kind = "Function" /\ Lo'[Out'] = Top.start
      /\ nodes'[Out'].kids = Append(Top.kids, o)
  <2>1. Len(<< >>) \in Nat /\ Len(<< >>) = 0
    OBVIOUS
  <2>2. Len(Top.kids) \in Nat /\ Len(Top.kids) = 0
    BY <1>5, <2>1
  <2> QED
    BY <1>1, <1>2, <1>6, <2>2, FinishMakes
<1>8. nodes'[Out'].kids[1] = o
  <2>1. o \in Nat
    BY <1>4, <1>6
  <2>2. Append(<< >>, o)[1] = o
    BY <2>1
  <2> QED
    BY <1>5, <1>7, <2>2
<1>9. Lo'[nodes'[Out'].kids[1]] = Lo[Out]
  BY <1>6, <1>7, <1>8, StillThere
<1>10. ASSUME NEW p
       PROVE  (Said(Top, p) <=> Splits(Out, p)') /\ (Names(Out, p)' <=> InHead(Len(frames), p))
  <2>1. Said(Top, p) <=> p = Top.start
    BY <1>1 DEF Said, SaysWord
  <2>2. Splits(Out, p)' <=> p = Top.start
    BY <1>7 DEF Splits, SaysWord
  <2>3. Names(Out, p)' <=> Top.start < p /\ p < Lo[Out]
    BY <1>7, <1>9 DEF Names
  <2>4. InHead(Len(frames), p) <=> Top.start < p /\ p < Lo[Out]
    <3>1. Len(frames) \in Nat /\ frames[Len(frames)] = Top
      BY <1>1, FrameFacts
    <3>2. ~(Len(frames) < Len(frames))
      BY <3>1
    <3>3. Body(Len(frames)) = Lo[Out]
      BY <1>1, <3>2 DEF Body
    <3> QED
      BY <1>1, <3>1, <3>3 DEF InHead
  <2> QED
    BY <2>1, <2>2, <2>3, <2>4
<1>11. at # "error" /\ ~InExp
  BY <1>1 DEF InExp
<1> QED
  BY <1>1, <1>3, <1>7, <1>10, <1>11, CloseHereWords

LEMMA FinishIfElseWords ==
    ASSUME Typed, Typed', Inductive, Inductive', FinishIfElse, WordsTaken
    PROVE  WordsTaken'
<1>1. /\ at = "return" /\ frames # << >> /\ Top.kind = "If" /\ Finish("If", Top.start)
      /\ Len(Top.kids) = 2 /\ frames' = Front(frames) /\ input' = input /\ at' = "return"
  BY DEF FinishIfElse, ReturnTo, Finish
<1>2. Kept
  BY EndTyped
<1>3. KidsOlder /\ NodesFit /\ Stacked /\ Now
  BY <1>1, AtWork
<1>4. PICK f \in Frame : f = Top
  BY <1>1, <1>3, TopLaid
<1>5. PICK o \in 1 .. Out : o = Out
  BY <1>1, <1>3, Returned
<1>6. /\ f.kids \in Seq(Nat) /\ InRow(f) /\ Begins(f, Lo[o]) /\ o \in Nat /\ Here \in Nat
      /\ f.kind = "If" /\ Len(f.kids) = 2
  BY <1>1, <1>3, <1>4, <1>5, TopLaid, Returned
<1>7. PICK b \in 1 .. Out : b = f.kids[2]
  BY <1>6 DEF InRow
<1>8. Lo[o] = Hi[b] + 2 /\ Hi[b] \in Nat
  <2>1. Hi[b] \in 1 .. Here - 1
    BY <1>3, <1>6, <1>7, RowFacts
  <2> QED
    BY <1>6, <1>7, <2>1 DEF Begins
<1>9. /\ Still /\ Out' = Out + 1 /\ nodes'[Out'].kind = "If" /\ Lo'[Out'] = f.start
      /\ nodes'[Out'].kids = Append(f.kids, o)
  <2>1. Len(Top.kids) \in Nat /\ Len(Top.kids) = 2
    BY <1>1
  <2> QED
    BY <1>1, <1>2, <1>4, <1>5, <2>1, FinishMakes
<1>10. Len(nodes'[Out'].kids) = 3 /\ nodes'[Out'].kids[3] = o
  <2>1. PICK q : q = nodes'[Out'].kids
    OBVIOUS
  <2>2. q = Append(f.kids, o)
    BY <1>9, <2>1
  <2>0. f.kids \in Seq(Nat) /\ o \in Nat
    BY <1>6
  <2>3. Len(q) = Len(f.kids) + 1 /\ q[Len(f.kids) + 1] = o
    BY <2>0, <2>2, AppendProperties
  <2>4. Len(f.kids) + 1 = 3
    BY <1>6
  <2> QED
    BY <2>1, <2>3, <2>4
<1>11. Lo'[nodes'[Out'].kids[3]] = Hi[b] + 2
  BY <1>5, <1>8, <1>9, <1>10, StillThere
<1>12. ASSUME NEW p \in 1 .. Here - 1
       PROVE  (Said(Top, p) <=> Splits(Out, p)') /\ (Names(Out, p)' <=> InHead(Len(frames), p))
  <2>1. Said(Top, p) <=> p = f.start \/ p = Hi[b] + 1
    BY <1>4, <1>6, <1>7 DEF Said, SaysWord
  <2>2. Splits(Out, p)' <=> p = f.start \/ Hi[b] + 2 = p + 1
    BY <1>9, <1>10, <1>11 DEF Splits, SaysWord
  <2>3. p \in Nat
    OBVIOUS
  <2>4. p = Hi[b] + 1 <=> Hi[b] + 2 = p + 1
    <3>1. \A x, y \in Nat : x = y + 1 <=> y + 2 = x + 1
      OBVIOUS
    <3> QED
      BY <1>8, <2>3, <3>1
  <2>5. ~Names(Out, p)'
    BY <1>9 DEF Names
  <2>6. ~InHead(Len(frames), p)
    BY <1>1, FrameFacts DEF InHead
  <2> QED
    BY <2>1, <2>2, <2>4, <2>5, <2>6
<1>13. at # "error" /\ ~InExp
  BY <1>1 DEF InExp
<1> QED
  BY <1>1, <1>3, <1>4, <1>9, <1>12, <1>13, CloseHereWords

LEMMA FinishIfWords ==
    ASSUME Typed, Typed', Inductive, Inductive', FinishIf, WordsTaken
    PROVE  WordsTaken'
<1>1. /\ at = "else" /\ input' = input /\ frames' = Front(frames)
      /\ at' = "return" /\ nodes' = Append(nodes, Made("If", 0, 0, Top.kids))
  BY DEF FinishIf
<1>2. Kept
  BY EndTyped
<1>3. KidsOlder /\ NodesFit /\ Stacked /\ Now
  BY <1>1, AtWork
<1>4. frames # << >> /\ Top.kind = "If" /\ Len(Top.kids) = 2 /\ Here = Hi[Top.kids[2]] + 1
  BY <1>1, <1>3 DEF Typed, Owned, Now
<1>5. PICK f \in Frame : f = Top
  BY <1>3, <1>4, TopLaid
<1>6. InRow(f) /\ Worded(f) /\ f.start \in 1 .. Here /\ f.start \in Nat /\ f.kids \in Seq(Nat)
  BY <1>3, <1>4, <1>5, TopLaid
<1>7. PICK h \in Nat \ {0} : h = Here
  BY Numbers
<1>8. f.kind = "If" /\ Len(f.kids) = 2
  BY <1>4, <1>5
<1>9. PICK a : a = f.kids[1]
  OBVIOUS
<1>10. PICK b : b = f.kids[2]
  OBVIOUS
<1>11. Lo[a] = f.start + 1 /\ a \in 1 .. Out
  BY <1>3, <1>6, <1>7, <1>8, <1>9, <1>10, Branched
<1>12. PICK m \in Node : m = Made("If", 0, 0, f.kids)
  <2>1. "If" \in Kinds /\ 0 \in Nat
    BY DEF Kinds
  <2>2. Made("If", 0, 0, f.kids) \in Node
    BY <1>6, <2>1, MadeTyped
  <2> QED
    BY <2>2
<1>13. m.kind = "If" /\ m.first = 0 /\ m.kids = f.kids
  BY <1>12 DEF Made
<1>14. Still /\ Out' = Out + 1 /\ nodes'[Out'] = m /\ Lo'[Out'] = Lo[m.kids[1]] - 1
  <2>1. nodes' = Append(nodes, m)
    BY <1>1, <1>5, <1>12
  <2> QED
    BY <1>2, <1>13, <2>1, MadeNode
<1>15. Lo'[Out'] = f.start
  <2>1. (f.start + 1) - 1 = f.start
    BY <1>6
  <2> QED
    BY <1>9, <1>11, <1>13, <1>14, <2>1
<1>16. ASSUME NEW p \in 1 .. Here - 1
       PROVE  (Said(Top, p) <=> Splits(Out, p)') /\ (Names(Out, p)' <=> InHead(Len(frames), p))
  <2>1. p # Here
    <3>1. \A g \in Nat \ {0} : p \in 1 .. g - 1 => p # g
      OBVIOUS
    <3> QED
      BY <1>7, <3>1
  <2>2. Said(Top, p) <=> p = f.start
    BY <1>4, <1>5, <1>8, <2>1 DEF Said, SaysWord
  <2>3. Len(m.kids) # 3
    BY <1>8, <1>13
  <2>4. (Splits(Out, p)' <=> p = f.start) /\ ~Names(Out, p)'
    BY <1>13, <1>14, <1>15, <2>3 DEF Splits, Names, SaysWord
  <2>5. ~InHead(Len(frames), p)
    BY <1>4, FrameFacts DEF InHead
  <2> QED
    BY <2>2, <2>4, <2>5
<1>17. at # "error" /\ ~InExp
  BY <1>1 DEF InExp
<1> QED
  BY <1>1, <1>3, <1>4, <1>5, <1>14, <1>15, <1>16, <1>17, CloseHereWords

(* A statement goes on with a part more. *)
LEMMA SwapWords ==
    ASSUME Still, Stacked, Now, at # "error", WordsTaken, frames # << >>, NEW f \in Frame,
           f.start = Top.start, f.kind = Top.kind, Top.kind # "Function",
           frames' = Append(Front(frames), f), ~InExp', input' = input,
           Out' \in Nat, Out <= Out',
           \A p \in 1 .. Here - 1 :
              /\ Said(f, p)' <=> Said(Top, p)
              /\ \A n \in Out + 1 .. Out' : ~Splits(n, p)'
              /\ (\E n \in Out + 1 .. Out' : Names(n, p)') => InExp /\ From(Top) <= p
              /\ input[p] \in Glued /\ InExp /\ From(Top) <= p =>
                    \E n \in Out + 1 .. Out' : Names(n, p)'
    PROVE  WordsTaken'
<1>1. Typed /\ KidsOlder /\ NodesFit
  BY DEF Still
<1>2. PICK m \in Nat :
          /\ Len(frames) = m + 1 /\ Len(frames') = m + 1 /\ frames[m + 1] = Top
          /\ frames'[m + 1] = f /\ \A i \in 1 .. m : frames'[i] = frames[i]
  <2>1. /\ Len(frames) \in Nat \ {0} /\ Top = frames[Len(frames)] /\ Front(frames) \in Seq(Frame)
        /\ Len(Front(frames)) = Len(frames) - 1
        /\ \A i \in 1 .. Len(frames) - 1 : Front(frames)[i] = frames[i]
    BY <1>1, TopFacts DEF Typed
  <2>2. PICK m \in Nat : m = Len(frames) - 1
    BY <2>1
  <2>3. m + 1 = Len(frames)
    BY <2>1, <2>2
  <2>4. PICK front \in Seq(Frame) : front = Front(frames)
    BY <2>1
  <2>5. /\ Len(frames') = m + 1 /\ frames'[m + 1] = f
        /\ \A i \in 1 .. m : frames'[i] = front[i]
    <3>1. frames' = Append(front, f) /\ Len(front) = m
      BY <2>1, <2>2, <2>4
    <3> QED
      BY <3>1, AppendProperties
  <2> QED
    BY <2>1, <2>2, <2>3, <2>4, <2>5
<1>3. /\ \A i \in 1 .. m + 1 : i \in 1 .. m \/ i = m + 1
      /\ \A i \in 1 .. m : i \in 1 .. m - 1 \/ i = m
      /\ m + 1 \in 1 .. m + 1 /\ \A i \in 1 .. m : i \in 1 .. m + 1
  OBVIOUS
<1>4. ASSUME NEW p
      PROVE  /\ \A i \in 1 .. m : Said(frames[i], p)' <=> Said(frames[i], p)
             /\ \A i \in 1 .. m - 1 : InHead(i, p)' <=> InHead(i, p)
  <2>1. m \in 0 .. Len(frames) /\ Len(frames') \in Nat /\ m <= Len(frames')
    BY <1>2
  <2> QED
    BY <1>2, <2>1, FramesSay
<1>5. m # 0 => Body(m)' = Body(m) /\ frames'[m] = frames[m]
  <2>1. m < m + 1 /\ (m # 0 => m \in 1 .. m)
    OBVIOUS
  <2>2. Body(m)' = Top.start /\ Body(m) = Top.start
    BY <1>2, <2>1 DEF Body
  <2> QED
    BY <1>2, <2>1, <2>2
<1>6. ASSUME NEW p, NEW i \in 1 .. m PROVE InHead(i, p)' <=> InHead(i, p)
  <2>1. CASE i \in 1 .. m - 1
    BY <1>4, <2>1
  <2>2. CASE i = m
    <3>1. m # 0
      BY <2>2
    <3> QED
      BY <1>5, <2>2, <3>1 DEF InHead
  <2> QED
    BY <1>3, <2>1, <2>2
<1>7. ASSUME NEW p PROVE ~InHead(m + 1, p) /\ ~InHead(m + 1, p)'
  BY <1>2 DEF InHead
<1>8. ASSUME NEW p \in 1 .. Here - 1
      PROVE  /\ TakenApart(p)' <=> TakenApart(p)
             /\ TakenWhole(p)' => TakenWhole(p)
             /\ input[p] \in Glued /\ TakenWhole(p) => TakenWhole(p)'
  <2>1. /\ (\E n \in 1 .. Out' : Names(n, p)') <=>
                    \/ \E n \in 1 .. Out : Names(n, p)
                    \/ \E n \in Out + 1 .. Out' : Names(n, p)'
        /\ (\E n \in 1 .. Out' : Splits(n, p)') <=>
                    \/ \E n \in 1 .. Out : Splits(n, p)
                    \/ \E n \in Out + 1 .. Out' : Splits(n, p)'
    BY NodesSay
  <2>2. (\E i \in 1 .. Len(frames') : Said(frames[i], p)') <=>
            \E i \in 1 .. Len(frames) : Said(frames[i], p)
    <3>1. Said(f, p)' <=> Said(Top, p)
      OBVIOUS
    <3>2. (\E i \in 1 .. m + 1 : Said(frames[i], p)') <=>
              (\E i \in 1 .. m : Said(frames[i], p)') \/ Said(f, p)'
      BY <1>2, <1>3
    <3>3. (\E i \in 1 .. m + 1 : Said(frames[i], p)) <=>
              (\E i \in 1 .. m : Said(frames[i], p)) \/ Said(Top, p)
      BY <1>2, <1>3
    <3>4. (\E i \in 1 .. m : Said(frames[i], p)') <=> \E i \in 1 .. m : Said(frames[i], p)
      BY <1>4
    <3> QED
      BY <1>2, <3>1, <3>2, <3>3, <3>4
  <2>3. (\E i \in 1 .. Len(frames') : InHead(i, p)') <=> \E i \in 1 .. Len(frames) : InHead(i, p)
    BY <1>2, <1>3, <1>6, <1>7
  <2>4. TakenApart(p)' <=> TakenApart(p)
    BY <2>1, <2>2 DEF TakenApart
  <2> QED
    BY <2>1, <2>3, <2>4 DEF TakenWhole
<1>9. Here' \in Nat /\ \A p \in Here .. Here' - 1 : FALSE
  BY <1>1, NothingRead
<1> QED
  BY <1>8, <1>9, WordsNext

LEMMA KeepWords ==
    ASSUME Typed, Typed', Inductive, NextPart \/ NextGlobal \/ IfThen, WordsTaken
    PROVE  WordsTaken'
<1>1. /\ at = "return" /\ frames # << >> /\ Top.kind \in {"Block", "Globals", "If"}
      /\ frames' = Append(Front(frames), [Top EXCEPT !.kids = Append(@, Out)])
      /\ UNCHANGED <<input, nodes, open>>
      /\ at' = CASE Top.kind = "Block" -> "part" [] Top.kind = "Globals" -> "globals"
                 [] Top.kind = "If" -> "else"
  BY DEF NextPart, NextGlobal, IfThen, ReturnTo, Keep, Out
<1>2. ASSUME Top.kind = "If" PROVE Len(Top.kids) = 1
  BY <1>2 DEF NextPart, NextGlobal, IfThen, ReturnTo
<1>3. Kept
  BY KeepTyped
<1>4. KidsOlder /\ NodesFit /\ Stacked /\ Now
  BY <1>1, AtWork
<1>5. Still
  BY <1>1, <1>3, <1>4, NoNode
<1>6. /\ Top \in Frame /\ Top.kids \in Seq(Nat)
      /\ Out \in 1 .. Out /\ Out \in Nat /\ Hi[Out] = Here - 1 /\ Here \in Nat \ {0}
  BY <1>1, <1>4, TopLaid, Returned
<1>7. PICK f \in Frame : f = [Top EXCEPT !.kids = Append(@, Out)]
  <2>1. Append(Top.kids, Out) \in Seq(Nat)
    BY <1>6
  <2> QED
    BY <1>6, <2>1, KidsTyped
<1>8. f.kids = Append(Top.kids, Out) /\ f.kind = Top.kind /\ f.start = Top.start
  BY <1>6, <1>7 DEF Frame
<1>9. Top.kind = "If" => Len(f.kids) = 2 /\ f.kids[2] = Out
  <2>1. Len(f.kids) = Len(Top.kids) + 1 /\ f.kids[Len(Top.kids) + 1] = Out
    <3>1. Top.kids \in Seq(Nat) /\ Out \in Nat /\ f.kids = Append(Top.kids, Out)
      BY <1>6, <1>8
    <3> QED
      BY <3>1, AppendProperties
  <2>2. Len(Top.kids) = 1 => Len(Top.kids) + 1 = 2
    OBVIOUS
  <2> QED
    BY <1>2, <2>1, <2>2
<1>10. ASSUME NEW p \in 1 .. Here - 1 PROVE Said(f, p)' <=> Said(Top, p)
  <2>1. CASE Top.kind = "If"
    <3>1. Len(Top.kids) # 2
      <4>1. Len(Top.kids) = 1
        BY <1>2, <2>1
      <4> QED
        BY <4>1
    <3>2. Said(Top, p) <=> p = Top.start
      BY <2>1, <3>1 DEF Said, SaysWord
    <3>3. Said(f, p)' <=> p = Top.start \/ p = Hi'[Out] + 1
      BY <1>8, <1>9, <2>1 DEF Said, SaysWord
    <3>4. Hi'[Out] = Here - 1
      BY <1>5, <1>6, StillThere
    <3>5. \A h \in Nat \ {0} : p \in 1 .. h - 1 => p # (h - 1) + 1
      OBVIOUS
    <3>6. p # Hi'[Out] + 1
      BY <1>6, <3>4, <3>5
    <3> QED
      BY <3>2, <3>3, <3>6
  <2>2. CASE Top.kind # "If"
    BY <1>1, <1>8, <2>2 DEF Said, SaysWord
  <2> QED
    BY <2>1, <2>2
<1>11. ~InExp /\ ~InExp' /\ at # "error" /\ Top.kind # "Function"
  BY <1>1 DEF InExp
<1>12. Out' = Out /\ Out' \in Nat /\ Out <= Out' /\ \A n \in Out + 1 .. Out' : FALSE
  <2>1. Out' = Out
    BY <1>1 DEF Out
  <2>2. \A x \in Nat : x <= x /\ \A n \in x + 1 .. x : FALSE
    OBVIOUS
  <2> QED
    BY <1>6, <2>1, <2>2
<1>13. frames' = Append(Front(frames), f)
  BY <1>1, <1>7
<1> QED
  BY <1>1, <1>4, <1>5, <1>8, <1>10, <1>11, <1>12, <1>13, SwapWords

LEMMA ConditionWords ==
    ASSUME Typed, Typed', Inductive, Inductive', Condition, WordsTaken, AtomEnds
    PROVE  WordsTaken'
<1>1. /\ E!Ends(Class) /\ Top.kind \in {"While", "If"} /\ input' = input
      /\ nodes' = Append(nodes, Expression) /\ at' = "block"
      /\ frames' = Append(Front(frames), [Top EXCEPT !.kids = <<Out + 1>>])
  BY DEF Condition, Out
<1>2. Kept
  BY ConditionTyped
<1>3. at = "loop" /\ frames # << >> /\ Top \in Frame /\ Expression \in Node
  BY <1>1, ExpressionFacts
<1>4. KidsOlder /\ NodesFit /\ Stacked /\ Now
  BY <1>3, AtWork
<1>5. PICK e \in Node : e = Expression
  BY <1>3
<1>6. /\ e.kind = "Exp" /\ e.first = From(Top) /\ e.last = Here - 1 /\ e.first # 0
      /\ From(Top) \in 1 .. Here - 1 /\ Top.kids = << >>
  BY <1>1, <1>4, <1>5, ExpressionText
<1>7. /\ Still /\ Out \in Nat /\ Out' = Out + 1 /\ nodes'[Out'] = e /\ Here \in Nat
      /\ Lo'[Out'] = From(Top) /\ Hi'[Out'] = Here - 1
  <2>1. nodes' = Append(nodes, e)
    BY <1>1, <1>5
  <2> QED
    BY <1>2, <1>6, <2>1, MadeNode
<1>8. PICK f \in Frame : f = [Top EXCEPT !.kids = <<Out + 1>>]
  <2>1. <<Out + 1>> \in Seq(Nat)
    BY <1>7
  <2> QED
    BY <1>3, <2>1, KidsTyped
<1>9. f.kids = <<Out + 1>> /\ f.kind = Top.kind /\ f.start = Top.start
  BY <1>3, <1>8 DEF Frame
<1>10. Len(f.kids) # 2 /\ Len(Top.kids) # 2
  <2>1. Len(<<Out + 1>>) # 2 /\ Len(<< >>) # 2
    OBVIOUS
  <2> QED
    BY <1>6, <1>9, <2>1
<1>11. ASSUME NEW p PROVE Said(f, p)' <=> Said(Top, p)
  BY <1>9, <1>10 DEF Said
<1>12. InExp /\ ~InExp' /\ at # "error" /\ Top.kind # "Function"
  BY <1>1, <1>3 DEF InExp
<1>13. PICK n : n = Out'
  OBVIOUS
<1>14. Out' \in Nat /\ Out <= Out' /\ \A i : i \in Out + 1 .. Out' <=> i = n
  BY <1>7, <1>13
<1>15. ASSUME NEW p
       PROVE  ~Splits(n, p)' /\ (Names(n, p)' <=> From(Top) <= p /\ p < Here - 1)
  BY <1>6, <1>7, <1>13 DEF Splits, SaysWord, Names
<1>16. ASSUME NEW p \in 1 .. Here - 1, input[p] \in Glued PROVE p < Here - 1
  <2>1. From(Top) < Here
    <3>1. \A h \in Nat : \A x \in 1 .. h - 1 : x < h
      OBVIOUS
    <3> QED
      BY <1>6, <1>7, <3>1
  <2>2. p # Here - 1
    BY <1>12, <1>16, <2>1 DEF AtomEnds
  <2>3. \A h \in Nat : \A x \in 1 .. h - 1 : x # h - 1 => x < h - 1
    OBVIOUS
  <2> QED
    BY <1>7, <2>2, <2>3
<1>17. ASSUME NEW p \in 1 .. Here - 1
       PROVE  /\ Said(f, p)' <=> Said(Top, p)
              /\ \A i \in Out + 1 .. Out' : ~Splits(i, p)'
              /\ (\E i \in Out + 1 .. Out' : Names(i, p)') => InExp /\ From(Top) <= p
              /\ input[p] \in Glued /\ InExp /\ From(Top) <= p =>
                    \E i \in Out + 1 .. Out' : Names(i, p)'
  BY <1>11, <1>12, <1>14, <1>15, <1>16
<1>18. frames' = Append(Front(frames), f)
  BY <1>1, <1>8
<1> QED
  BY <1>1, <1>3, <1>4, <1>7, <1>9, <1>12, <1>14, <1>17, <1>18, SwapWords

LEMMA EmptyBlockWords ==
    ASSUME Typed, Typed', Inductive, Inductive', EmptyBlock, WordsTaken
    PROVE  WordsTaken'
<1>1. /\ at = "block" /\ tok = ";" /\ at' = "return" /\ frames' = frames
      /\ nodes' = Append(nodes, Made("Block", Here, Here, << >>))
  BY DEF EmptyBlock
<1>2. Kept /\ Len(input') = Len(input) + 1
  BY EmptyBlockTyped
<1>3. KidsOlder /\ NodesFit /\ Stacked /\ Now
  BY <1>1, AtWork
<1>4. PICK h \in Nat \ {0} : h = Here /\ Here' = h + 1
  BY <1>2, Numbers DEF Here
<1>5. PICK e \in Node : e = Made("Block", h, h, << >>)
  <2>1. "Block" \in Kinds /\ << >> \in Seq(Nat)
    BY DEF Kinds
  <2>2. Made("Block", h, h, << >>) \in Node
    BY <1>4, <2>1, MadeTyped
  <2> QED
    BY <2>2
<1>6. e.kind = "Block" /\ e.first = h /\ e.first # 0
  BY <1>4, <1>5 DEF Made
<1>7. Still /\ Out \in Nat /\ Out' = Out + 1 /\ nodes'[Out'] = e /\ Here' \in Nat
  <2>1. nodes' = Append(nodes, e)
    BY <1>1, <1>4, <1>5
  <2> QED
    BY <1>2, <1>6, <2>1, MadeNode
<1>8. frames # << >> /\ Top.kind \in {"While", "If"}
  BY <1>1 DEF Typed, Owned
<1>9. PICK m \in Nat :
          /\ Len(frames) = m + 1 /\ frames[m + 1] = Top
  <2>1. Len(frames) \in Nat /\ Len(frames) >= 1 /\ Top = frames[Len(frames)]
    BY <1>8, FrameFacts
  <2>2. PICK m \in Nat : m = Len(frames) - 1
    BY <2>1
  <2> QED
    BY <2>1, <2>2
<1>10. /\ \A i \in 1 .. m + 1 : i \in 1 .. (m + 1) - 1 \/ i = m + 1
       /\ (m + 1) - 1 = m
  OBVIOUS
<1>11. ASSUME NEW p
       PROVE  /\ \A i \in 1 .. m + 1 : Said(frames[i], p)' <=> Said(frames[i], p)
              /\ \A i \in 1 .. m + 1 : InHead(i, p)' <=> InHead(i, p)
  <2>1. m + 1 \in 0 .. Len(frames) /\ Len(frames') \in Nat /\ m + 1 <= Len(frames')
        /\ \A i \in 1 .. m + 1 : frames'[i] = frames[i]
    <3>1. frames' = frames
      BY <1>1
    <3> QED
      BY <1>9, <3>1
  <2>2. /\ \A i \in 1 .. m + 1 : Said(frames[i], p)' <=> Said(frames[i], p)
        /\ \A i \in 1 .. (m + 1) - 1 : InHead(i, p)' <=> InHead(i, p)
    BY <1>3, <1>7, <2>1, FramesSay
  <2>3. ~InHead(m + 1, p) /\ ~InHead(m + 1, p)'
    BY <1>1, <1>8, <1>9 DEF InHead
  <2> QED
    BY <1>10, <2>2, <2>3
<1>12. PICK n : n = Out'
  OBVIOUS
<1>13. Out' \in Nat /\ Out <= Out' /\ \A i : i \in Out + 1 .. Out' <=> i = n
  BY <1>7, <1>12
<1>14. ASSUME NEW p PROVE ~Splits(n, p)' /\ ~Names(n, p)'
  BY <1>6, <1>7, <1>12 DEF Splits, SaysWord, Names
<1>15. ASSUME NEW p
       PROVE  (TakenApart(p)' <=> TakenApart(p)) /\ (TakenWhole(p)' <=> TakenWhole(p))
  <2>1. /\ (\E i \in 1 .. Out' : Names(i, p)') <=> \E i \in 1 .. Out : Names(i, p)
        /\ (\E i \in 1 .. Out' : Splits(i, p)') <=> \E i \in 1 .. Out : Splits(i, p)
    BY <1>7, <1>13, <1>14, NodesSay
  <2>2. TakenApart(p)' <=> TakenApart(p)
    BY <1>1, <1>9, <1>11, <2>1 DEF TakenApart
  <2>3. ~InExp /\ ~InExp'
    BY <1>1 DEF InExp
  <2>4. TakenWhole(p)' <=> TakenWhole(p)
    BY <1>1, <1>9, <1>11, <2>1, <2>3 DEF TakenWhole
  <2> QED
    BY <2>2, <2>4
<1>16. ASSUME NEW p \in Here .. Here' - 1
       PROVE  ~TakenApart(p)' /\ input'[p] \notin Glued
  <2>1. p = Here /\ input'[p] \notin Glued
    <3>1. Here' = Here + 1
      BY <1>4
    <3> QED
      BY <1>1, <1>7, <3>1, OneMore
  <2>2. p \in Nat /\ p >= Here
    BY <1>4, <2>1
  <2>3. ASSUME NEW i \in 1 .. m + 1, Said(frames[i], p) PROVE FALSE
    <3>1. CASE i \in 1 .. (m + 1) - 1
      <4>1. i \in 1 .. Len(frames) - 1
        BY <1>9, <3>1
      <4>2. p < frames[i + 1].start /\ frames[i + 1].start \in 1 .. Here
        BY <1>3, <2>3, <4>1, SaidOuter
      <4>3. PICK s \in 1 .. h : s = frames[i + 1].start
        BY <1>4, <4>2
      <4>4. p = h /\ p < s
        BY <1>4, <2>1, <4>2, <4>3
      <4> QED
        BY <4>4
    <3>2. CASE i = m + 1
      <4>1. Said(Top, p) /\ at \notin {"else", "error"}
        BY <1>1, <1>9, <2>3, <3>2
      <4>2. p < Here
        BY <1>3, <1>8, <4>1, SaidInner
      <4> QED
        BY <2>1, <4>2, <1>4
    <3> QED
      BY <1>10, <3>1, <3>2
  <2>4. \A i \in 1 .. Out : ~Splits(i, p)
    BY <1>3, <2>2, NodesBefore
  <2>5. ~TakenApart(p)
    BY <1>9, <2>3, <2>4 DEF TakenApart
  <2> QED
    BY <1>15, <2>1, <2>5
<1> QED
  BY <1>7, <1>15, <1>16, WordsNext

LEMMA FinishSimpleWords ==
    ASSUME Typed, Typed', Inductive, FinishSimple, WordsTaken, AtomEnds
    PROVE  WordsTaken'
<1>1. /\ E!Ends(Class) /\ Top.kind \in {"Basic", "Return"} /\ at' = "return"
      /\ tok # ";" => input' = input
      /\ frames' = Front(frames)
      /\ nodes' = nodes \o <<Expression,
            Made(Top.kind, Top.start, IF tok = ";" THEN Here ELSE Here - 1, <<Out + 1>>)>>
  BY DEF FinishSimple, Out
<1>2. Kept /\ (tok = ";" => Len(input') = Len(input) + 1)
  BY FinishSimpleTyped
<1>3. at = "loop" /\ frames # << >> /\ Top \in Frame
  BY <1>1, ExpressionFacts
<1>4. KidsOlder /\ NodesFit /\ Stacked /\ Now
  BY <1>3, AtWork
<1>5. Top.start \in Nat \ {0} /\ From(Top) \in Nat /\ Top.start <= From(Top)
  BY <1>3, <1>4, TopLaid
<1>6. PICK e \in Node : e = Expression
  BY <1>1, ExpressionFacts
<1>7. /\ e.kind = "Exp" /\ e.first = From(Top) /\ e.last = Here - 1 /\ e.first # 0
      /\ From(Top) \in 1 .. Here - 1 /\ \A i : NodeShape(e, i)
  BY <1>1, <1>4, <1>6, ExpressionText
<1>8. Here \in Nat \ {0} /\ Here - 1 \in Nat /\ Out \in Nat
  BY Numbers
<1>9. PICK last \in Nat : last = IF tok = ";" THEN Here ELSE Here - 1
  BY <1>8
<1>10. PICK x \in Node : x = Made(Top.kind, Top.start, last, <<Out + 1>>)
  <2>1. <<Out + 1>> \in Seq(Nat)
    BY <1>8
  <2>2. Top.kind \in Kinds
    BY <1>1 DEF Kinds
  <2>3. Made(Top.kind, Top.start, last, <<Out + 1>>) \in Node
    BY <1>5, <2>1, <2>2, MadeTyped
  <2> QED
    BY <2>3
<1>11. x.kind = Top.kind /\ x.first = Top.start /\ x.kids = <<Out + 1>> /\ x.first # 0
  BY <1>5, <1>10 DEF Made
<1>12. NodeShape(x, Out + 2)
  <2>1. Out + 1 \in 1 .. (Out + 2) - 1
    BY <1>8
  <2>2. Len(x.kids) = 1 /\ x.kids[1] = Out + 1 /\ DOMAIN x.kids = {1}
    BY <1>8, <1>11
  <2>3. \A i \in DOMAIN x.kids : x.kids[i] \in 1 .. (Out + 2) - 1
    BY <2>1, <2>2
  <2> QED
    BY <1>1, <1>11, <2>2, <2>3 DEF NodeShape
<1>13. /\ Still /\ Out' = Out + 2
       /\ nodes'[Out + 1] = e /\ nodes'[Out'] = x
       /\ Lo'[Out + 1] = From(Top) /\ Hi'[Out + 1] = Here - 1
       /\ Lo'[Out'] = Top.start
  <2>1. nodes' = nodes \o <<e, x>>
    BY <1>1, <1>6, <1>9, <1>10
  <2>2. NodeShape(e, Out + 1)
    BY <1>7
  <2> QED
    BY <1>2, <1>4, <1>7, <1>11, <1>12, <2>1, <2>2, NewPair
<1>14. PICK n : n = Out'
  OBVIOUS
<1>15. PICK o : o = Out + 1
  OBVIOUS
<1>16. Out' \in Nat /\ Out <= Out' /\ \A i : i \in Out + 1 .. Out' <=> i = o \/ i = n
  BY <1>8, <1>13, <1>14, <1>15
<1>17. ASSUME NEW p
       PROVE  /\ ~Splits(o, p)' /\ ~Names(n, p)'
              /\ Names(o, p)' <=> From(Top) <= p /\ p < Here - 1
              /\ Splits(n, p)' <=> Top.kind = "Return" /\ p = Top.start
              /\ Said(Top, p) <=> Top.kind = "Return" /\ p = Top.start
  <2>1. ~Splits(o, p)' /\ (Names(o, p)' <=> From(Top) <= p /\ p < Here - 1)
    BY <1>7, <1>13, <1>15 DEF Splits, SaysWord, Names
  <2>2. ~Names(n, p)' /\ (Splits(n, p)' <=> Top.kind = "Return" /\ p = Top.start)
    BY <1>1, <1>11, <1>13, <1>14 DEF Splits, SaysWord, Names
  <2>3. Said(Top, p) <=> Top.kind = "Return" /\ p = Top.start
    BY <1>1 DEF Said, SaysWord
  <2> QED
    BY <2>1, <2>2, <2>3
<1>18. InExp /\ at # "error"
  BY <1>3 DEF InExp
<1>19. \A p : TopTakes(p) <=> From(Top) <= p
  <2>1. \A p : ~InHead(Len(frames), p)
    BY <1>1, <1>3, FrameFacts DEF InHead
  <2> QED
    BY <1>18, <2>1 DEF TopTakes
<1>s. From(Top) < Here
  <2>1. \A h \in Nat : \A q \in 1 .. h - 1 : q < h
    OBVIOUS
  <2> QED
    BY <1>7, <1>8, <2>1
<1>20. ASSUME NEW p \in 1 .. Here - 1, input[p] \in Glued PROVE p < Here - 1
  <2>2. p # Here - 1
    BY <1>18, <1>20, <1>s DEF AtomEnds
  <2>3. \A h \in Nat : \A q \in 1 .. h - 1 : q # h - 1 => q < h - 1
    OBVIOUS
  <2> QED
    BY <1>8, <2>2, <2>3
<1>21. ASSUME NEW p \in 1 .. Here - 1
       PROVE  /\ Said(Top, p) <=> \E i \in Out + 1 .. Out' : Splits(i, p)'
              /\ (\E i \in Out + 1 .. Out' : Names(i, p)') => TopTakes(p)
              /\ input[p] \in Glued /\ TopTakes(p) => \E i \in Out + 1 .. Out' : Names(i, p)'
  BY <1>16, <1>17, <1>19, <1>20
<1>22. ASSUME NEW p \in Here .. Here' - 1
       PROVE  input'[p] \notin Glued /\ ~\E i \in Out + 1 .. Out' : Splits(i, p)'
  <2>1. CASE tok = ";"
    <3>1. Here' = Here + 1
      BY <1>2, <2>1 DEF Here
    <3>2. p = Here /\ input'[p] \notin Glued
      BY <1>13, <2>1, <3>1, OneMore
    <3>3. p # Top.start
      BY <1>5, <1>8, <1>s, <3>2
    <3> QED
      BY <1>16, <1>17, <3>2, <3>3
  <2>2. CASE tok # ";"
    BY <1>1, <2>2, NothingRead
  <2> QED
    BY <2>1, <2>2
<1>23. Here' \in Nat
  BY <1>13, StillThere
<1> QED
  BY <1>1, <1>3, <1>4, <1>13, <1>16, <1>18, <1>21, <1>22, <1>23, CloseWords

-----------------------------------------------------------------------------
(* An atom ends with the last piece of its word. *)

LEMMA InExpressionAtomEnds ==
    ASSUME Typed, InExpression
    PROVE  input'[Here' - 1] \notin Glued
<1>1. /\ Grown /\ Alphabet' = Alphabet
      /\ ~IsName => Len(input') = Len(input) + 1
      /\ IF IsName THEN ConsumeName ELSE Consume
  BY InExpressionGrows DEF InExpression
<1>2. PICK h \in Nat \ {0} : h = Len(input) /\ h = Here
  BY Numbers DEF Here
<1>3. PICK g \in Nat : g = Len(input') /\ g = Here' /\ g > h
  <2>1. Len(input') \in 1 .. MaxPieces + 2 /\ Len(input') > Len(input)
    BY <1>1 DEF Grown, InputOK
  <2>2. Len(input') \in Nat
    BY <2>1, StatementsAssumption
  <2> QED
    BY <1>2, <2>1, <2>2 DEF Here
<1>4. CASE g = h + 1
  <2>1. input'[g - 1] = tok
    <3>1. g - 1 = h /\ h \in 1 .. h
      BY <1>4
    <3>2. input'[h] = input[h]
      BY <1>1, <1>2, <3>1 DEF Grown
    <3> QED
      BY <1>2, <3>1, <3>2 DEF tok
  <2>2. tok \notin Glued
    <3> SUFFICES ASSUME tok \in Glued PROVE FALSE
      OBVIOUS
    <3>1. IsName /\ tok # "name"
      BY Words DEF IsName
    <3>2. PICK r \in Rest, t \in NextPiece(Here + 1) : input' = input \o <<r, t>>
      BY <1>1, <3>1 DEF ConsumeName
    <3>3. input \in Seq(Alphabet \cup {"end"})
      BY Numbers
    <3>4. Len(input') = h + 2
      <4>1. r \in Alphabet \cup {"end"} /\ t \in Alphabet \cup {"end"}
        BY DEF Rest, NextPiece
      <4>2. PICK S : S = Alphabet \cup {"end"}
        OBVIOUS
      <4>3. input \in Seq(S) /\ r \in S /\ t \in S
        BY <3>3, <4>1, <4>2
      <4>4. Len(input \o <<r, t>>) = Len(input) + 2
        BY <4>3, PushTwoFacts
      <4>5. input' = input \o <<r, t>>
        BY <3>2
      <4> QED
        BY <1>2, <4>4, <4>5
    <3>5. h + 2 # h + 1
      OBVIOUS
    <3> QED
      BY <1>3, <1>4, <3>4, <3>5
  <2> QED
    BY <1>3, <2>1, <2>2
<1>5. CASE g # h + 1
  <2>1. g - 1 \in h + 1 .. g - 1
    <3>1. \A x, y \in Nat : y > x /\ y # x + 1 => y - 1 \in x + 1 .. y - 1
      OBVIOUS
    <3>2. g > h
      BY <1>3
    <3> QED
      BY <1>5, <3>1, <3>2
  <2>2. input'[g - 1] \in Leads \cup {"name"}
    BY <1>1, <1>2, <1>3, <2>1 DEF Grown
  <2> QED
    BY <1>3, <2>2, Words
<1> QED
  BY <1>4, <1>5

LEMMA OpenAtomEnds ==
    ASSUME Typed,
           \/ BeginFunction \/ BeginGlobalBasic \/ OpenBlock \/ BeginKeyword
           \/ BeginBasic \/ BeginSingle
    PROVE  AtomEnds'
<1>1. PICK kind \in {"Function", "Basic", "Return", "While", "If", "Block", "Single"} :
                /\ frames' = Append(frames, Opened(kind))
                /\ kind = "Function" => at' = "fname"
                /\ kind = "Block" => at' = "part"
                /\ kind = "Single" => at' = "statement"
                /\ kind = "Basic" => input' = input
                /\ kind \in {"Return", "While", "If"} => Consume
  BY Opens
<1>2. Consume => Len(input') = Len(input) + 1
  BY OpenTyped
<1>3. PICK f \in Frame : f = Opened(kind)
  BY <1>1, OpenedTyped
<1>4. f.kind = kind /\ f.start = Here
  BY <1>3 DEF Opened
<1>5. Top' = f
  <2>1. frames \in Seq(Frame) /\ frames' = Append(frames, f)
    BY <1>1, <1>3, FrameFacts
  <2>2. Len(frames') = Len(frames) + 1 /\ frames'[Len(frames) + 1] = f
    BY <2>1, AppendProperties
  <2> QED
    BY <2>2 DEF Top, Last
<1>6. Here \in Nat
  BY Numbers
<1>7. ASSUME InExp' PROVE From(Top)' = Here'
  <2>1. From(Top)' = From(f)
    BY <1>5 DEF From
  <2>2. kind \in {"Basic", "Return", "While", "If"}
    BY <1>1, <1>7, SignatureStates DEF InExp
  <2>3. CASE kind = "Basic"
    <3>1. From(f) = Here
      BY <1>4, <2>3 DEF From
    <3>2. Here' = Here
      BY <1>1, <2>3 DEF Here
    <3> QED
      BY <2>1, <3>1, <3>2
  <2>4. CASE kind # "Basic"
    <3>1. From(f) = Here + 1
      BY <1>4, <2>2, <2>4 DEF From
    <3>2. Here' = Here + 1
      BY <1>1, <1>2, <2>2, <2>4 DEF Here
    <3> QED
      BY <2>1, <3>1, <3>2
  <2> QED
    BY <2>3, <2>4
<1>8. Here' \in Nat
  <2>1. Typed'
    BY OpenTyped
  <2>2. Here' \in 1 .. MaxPieces + 2
    BY <2>1 DEF Typed, InputOK, Here
  <2> QED
    BY <2>2, StatementsAssumption
<1>9. ~(Here' < Here')
  BY <1>8
<1> QED
  BY <1>7, <1>9 DEF AtomEnds

LEMMA OtherAtomEnds ==
    ASSUME Typed,
           \/ EndOfText \/ InFuncDec \/ FinishFuncDec \/ CloseBlock \/ EmptyBlock
           \/ Condition \/ FinishSimple \/ ReturnToCaller \/ NextPart \/ NextGlobal
           \/ FinishSingle \/ FinishWhile \/ FinishFunction \/ IfThen \/ BeginElse
           \/ FinishIf \/ FinishIfElse
    PROVE  ~InExp'
<1>1. CASE InFuncDec
  BY <1>1, InFuncDecGrows, SignatureStates DEF InExp
<1>2. CASE \/ FinishFuncDec \/ CloseBlock \/ FinishSingle \/ FinishWhile \/ FinishFunction
           \/ FinishIf \/ FinishIfElse
  <2>1. at' = "return"
    BY <1>2, Ends
  <2> QED
    BY <2>1 DEF InExp
<1>3. CASE EndOfText \/ ReturnToCaller \/ BeginElse
  BY <1>3 DEF EndOfText, ReturnToCaller, BeginElse, InExp
<1>4. CASE EmptyBlock \/ Condition \/ FinishSimple
  BY <1>4 DEF EmptyBlock, Condition, FinishSimple, InExp
<1>5. CASE NextPart \/ NextGlobal \/ IfThen
  BY <1>5 DEF NextPart, NextGlobal, IfThen, Keep, InExp
<1> QED
  BY <1>1, <1>2, <1>3, <1>4, <1>5

-----------------------------------------------------------------------------
(* An expression that is a statement begins with no keyword of one. *)

LEMMA StillBare == ASSUME Still, NEW p \in 1 .. Here PROVE Bare(p)' <=> Bare(p)
BY StillThere DEF Bare

(* The loop over the globals is the outermost frame from the start. *)
LEMMA FirstFrame ==
    ASSUME Typed, InGlobals, NEW f \in Frame,
           \/ frames' = frames \/ frames' = Append(frames, f)
           \/ Top.kind # "Globals" /\ frames' = Front(frames)
           \/ Top.kind # "Globals" /\ frames' = Append(Front(frames), f)
    PROVE  InGlobals' /\ frames'[1] = frames[1]
<1>1. /\ frames # << >> /\ frames[1].kind = "Globals" /\ frames \in Seq(Frame)
      /\ Len(frames) \in Nat \ {0} /\ Top = frames[Len(frames)]
  BY TopFacts DEF Typed, FramesOK, InGlobals
<1>2. CASE frames' = frames
  BY <1>1, <1>2 DEF InGlobals
<1>3. CASE frames' = Append(frames, f)
  <2>1. Len(frames') = Len(frames) + 1 /\ \A i \in 1 .. Len(frames) : frames'[i] = frames[i]
    BY <1>1, <1>3, AppendProperties
  <2>2. frames'[1] = frames[1] /\ frames' # << >>
    BY <1>1, <1>3, <2>1, AppendProperties
  <2> QED
    BY <1>1, <2>2 DEF InGlobals
<1>4. CASE Top.kind # "Globals"
  <2>1. Len(frames) # 1
    BY <1>1, <1>4
  <2>2. /\ Front(frames) \in Seq(Frame) /\ Len(Front(frames)) = Len(frames) - 1
        /\ \A i \in 1 .. Len(frames) - 1 : Front(frames)[i] = frames[i]
    BY <1>1, TopFacts DEF Typed
  <2>0. \A x \in Nat \ {0} : x # 1 => x - 1 \in Nat /\ x - 1 >= 1
    OBVIOUS
  <2>3. PICK m \in Nat : m = Len(frames) - 1 /\ m >= 1
    BY <1>1, <2>0, <2>1
  <2>4. 1 \in 1 .. m
    BY <2>3
  <2>5. Front(frames)[1] = frames[1]
    BY <2>2, <2>3, <2>4
  <2>6. PICK front \in Seq(Frame) : front = Front(frames) /\ Len(front) = m
    BY <2>2, <2>3
  <2>7. front # << >> /\ front[1] = frames[1]
    BY <2>3, <2>5, <2>6
  <2>8. Append(front, f) # << >> /\ Append(front, f)[1] = front[1]
    BY <2>4, <2>6, AppendProperties
  <2>9. frames' = front \/ frames' = Append(front, f) => InGlobals' /\ frames'[1] = frames[1]
    BY <1>1, <2>7, <2>8 DEF InGlobals
  <2> QED
    BY <1>2, <1>3, <2>6, <2>9
<1> QED
  BY <1>2, <1>3, <1>4

LEMMA BareNodesStay ==
    ASSUME Still, BareNodes, Out' \in Nat, Out <= Out',
           InGlobals => /\ InGlobals' /\ Range(frames[1].kids) \subseteq Range(frames'[1].kids)
                        /\ at = "return" /\ Len(frames) = 1 => Out \in Range(frames'[1].kids),
           \A n \in Out + 1 .. Out' :
                \/ nodes'[n].kind # "Basic" \/ Bare(Lo[n])'
                \/ InGlobals' /\ n = Out' /\ at' = "return" /\ Len(frames') = 1
    PROVE  BareNodes'
<1>1. /\ Out \in Nat /\ Here \in Nat
      /\ \A n \in 1 .. Out : nodes'[n] = nodes[n] /\ Lo'[n] = Lo[n]
  BY StillThere
<1>2. \A n \in 1 .. Out' : n \in 1 .. Out \/ n \in Out + 1 .. Out'
  BY <1>1
<1>3. ASSUME NEW n \in 1 .. Out, nodes[n].kind = "Basic"
      PROVE  Bare(Lo[n])' \/ (InGlobals' /\ n \in Range(frames'[1].kids))
  <2>1. CASE Bare(Lo[n])
    <3>1. Placed(n)
      BY DEF Still, NodesFit, NodeFits
    <3>2. PICK p \in 1 .. Here : p = Lo[n]
      BY <1>1, <3>1 DEF Placed
    <3>3. Bare(p)'
      BY <2>1, <3>2, StillBare
    <3> QED
      BY <1>1, <3>2, <3>3 DEF Bare, LeadAt
  <2>2. CASE ~Bare(Lo[n])
    BY <1>3, <2>2 DEF BareNodes
  <2> QED
    BY <2>1, <2>2
<1>4. ASSUME NEW n \in 1 .. Out', nodes'[n].kind = "Basic"
      PROVE  \/ Bare(Lo[n])'
             \/ InGlobals' /\ n \in Range(frames'[1].kids)
             \/ InGlobals' /\ n = Out' /\ at' = "return" /\ Len(frames') = 1
  <2>1. CASE n \in 1 .. Out
    <3>1. nodes[n].kind = "Basic"
      BY <1>1, <1>4, <2>1
    <3> QED
      BY <1>3, <2>1, <3>1
  <2>2. CASE n \in Out + 1 .. Out'
    BY <1>4, <2>2
  <2> QED
    BY <1>2, <2>1, <2>2
<1> QED
  BY <1>4 DEF BareNodes

LEMMA BareFramesStay ==
    ASSUME Still, Stacked, BareFrames, InGlobals => InGlobals',
           \A i \in 1 .. Len(frames') : frames'[i].kind = "Basic" =>
                \/ i \in 1 .. Len(frames) /\ frames'[i] = frames[i]
                \/ Bare(frames[i].start)'
                \/ InGlobals' /\ i = 2
    PROVE  BareFrames'
<1>1. ASSUME NEW i \in 1 .. Len(frames'), frames'[i].kind = "Basic"
      PROVE  Bare(frames[i].start)' \/ (InGlobals' /\ i = 2)
  <2>1. CASE i \in 1 .. Len(frames) /\ frames'[i] = frames[i]
    <3>1. PICK p \in 1 .. Here : p = frames[i].start
      BY <2>1 DEF Stacked, Laid
    <3>2. Bare(p) => Bare(frames[i].start)'
      BY <2>1, <3>1, StillBare DEF Bare, LeadAt
    <3>3. Bare(p) \/ (InGlobals /\ i = 2)
      BY <1>1, <2>1, <3>1 DEF BareFrames
    <3> QED
      BY <3>2, <3>3
  <2> QED
    BY <1>1, <2>1
<1> QED
  BY <1>1 DEF BareFrames

(* A step that makes no node leaves those that are there. *)
LEMMA NoMore ==
    ASSUME Typed, nodes' = nodes
    PROVE  Out' \in Nat /\ Out <= Out' /\ \A n \in Out + 1 .. Out' : FALSE
<1>1. Out' = Out /\ Out \in Nat
  BY Numbers DEF Out
<1>2. \A x \in Nat : x <= x /\ \A n \in x + 1 .. x : FALSE
  OBVIOUS
<1> QED
  BY <1>1, <1>2

LEMMA OneMade ==
    ASSUME Typed, NEW m \in Node, nodes' = Append(nodes, m)
    PROVE  /\ Out' \in Nat /\ Out <= Out' /\ nodes'[Out'] = m
           /\ \A n \in Out + 1 .. Out' : n = Out'
<1>1. nodes \in Seq(Node) /\ Out \in Nat /\ Out = Len(nodes)
  BY Numbers DEF Typed, Out
<1>2. Len(nodes') = Out + 1 /\ nodes'[Out + 1] = m
  BY <1>1, AppendProperties
<1>3. Out' = Out + 1
  BY <1>2 DEF Out
<1>4. \A x \in Nat : x + 1 \in Nat /\ x <= x + 1 /\ \A n \in x + 1 .. x + 1 : n = x + 1
  OBVIOUS
<1> QED
  BY <1>1, <1>2, <1>3, <1>4

(* A statement of its own is not the loop over the globals. *)
LEMMA NotAlone ==
    ASSUME Typed, frames # << >>, Top.kind # "Globals"
    PROVE  InGlobals => Len(frames) # 1
BY FrameFacts DEF InGlobals

LEMMA Stays ==
    ASSUME Typed, Inductive,
           EndOfText \/ InFuncDec \/ InExpression \/ ReturnToCaller \/ BeginElse
    PROVE  /\ nodes' = nodes /\ frames' = frames /\ at # "error"
           /\ (at # "return" /\ at' # "return") \/ frames = << >>
           /\ Still /\ Stacked
<1>1. /\ nodes' = nodes /\ frames' = frames /\ at # "error"
      /\ (at # "return" /\ at' # "return") \/ frames = << >>
  <2>1. CASE InFuncDec
    BY <2>1, InFuncDecGrows, SignatureStates
  <2>2. CASE InExpression
    BY <2>2, InExpressionGrows
  <2>3. CASE EndOfText \/ ReturnToCaller \/ BeginElse
    BY <2>3 DEF EndOfText, ReturnToCaller, BeginElse
  <2> QED
    BY <2>1, <2>2, <2>3
<1>2. Kept
  <2>1. Alphabet' = Alphabet
    BY <1>1 DEF Alphabet, InGlobals
  <2>2. CASE InFuncDec \/ InExpression
    BY <2>2, InFuncDecGrows, InExpressionGrows, GrownIsKept DEF Typed
  <2>3. CASE EndOfText \/ ReturnToCaller
    BY <2>1, <2>3, InputSame DEF Typed, EndOfText, ReturnToCaller
  <2>4. CASE BeginElse
    <3>1. tok # "end" /\ Consume
      BY <2>4, LeadEnd DEF BeginElse, TakesElse
    <3> QED
      BY <2>1, <3>1, ConsumeGrows, GrownIsKept DEF Typed
  <2> QED
    BY <2>2, <2>3, <2>4
<1>3. KidsOlder /\ NodesFit /\ Stacked
  BY <1>1, AtWork
<1>4. Typed'
  BY StayTyped
<1>5. Still
  BY <1>1, <1>2, <1>3, <1>4, NoNode
<1> QED
  BY <1>1, <1>3, <1>5

LEMMA StayBare ==
    ASSUME Typed, Inductive, BareNodes, BareFrames,
           EndOfText \/ InFuncDec \/ InExpression \/ ReturnToCaller \/ BeginElse
    PROVE  BareNodes' /\ BareFrames'
<1>1. /\ nodes' = nodes /\ frames' = frames /\ (at = "return" => frames = << >>)
      /\ Still /\ Stacked
  BY Stays
<1>2. InGlobals => InGlobals'
  BY <1>1 DEF InGlobals
<1>3. BareNodes'
  <2>1. at = "return" /\ InGlobals => FALSE
    BY <1>1 DEF InGlobals
  <2> QED
    BY <1>1, <1>2, <2>1, NoMore, BareNodesStay
<1>4. BareFrames'
  BY <1>1, <1>2, BareFramesStay
<1> QED
  BY <1>3, <1>4

LEMMA OpenBare ==
    ASSUME Typed, Inductive, BareNodes, BareFrames,
           \/ BeginFunction \/ BeginGlobalBasic \/ OpenBlock \/ BeginKeyword
           \/ BeginBasic \/ BeginSingle
    PROVE  BareNodes' /\ BareFrames'
<1>1. PICK kind \in {"Function", "Basic", "Return", "While", "If", "Block", "Single"} :
                frames' = Append(frames, Opened(kind))
  BY Opens
<1>2. at \in {"globals", "part", "statement", "block", "body"} /\ nodes' = nodes
  BY Opens
<1>3. Typed' /\ Kept
  BY OpenTyped
<1>4. KidsOlder /\ NodesFit /\ Stacked
  BY <1>2, AtWork
<1>5. Still
  BY <1>2, <1>3, <1>4, NoNode
<1>6. PICK f \in Frame : f = Opened(kind)
  BY <1>1, OpenedTyped
<1>7. f.kind = kind /\ f.start = Here
  BY <1>6 DEF Opened
<1>8. frames' = Append(frames, f)
  BY <1>1, <1>6
<1>9. InGlobals => InGlobals' /\ frames'[1] = frames[1]
  BY <1>8, FirstFrame
<1>10. BareNodes'
  BY <1>2, <1>5, <1>9, NoMore, BareNodesStay
<1>11. PICK m \in Nat :
          /\ m = Len(frames) /\ Len(frames') = m + 1
          /\ \A i \in 1 .. m : frames'[i] = frames[i]
          /\ frames'[m + 1] = f
  <2>1. frames \in Seq(Frame)
    BY FrameFacts
  <2> QED
    BY <1>8, <2>1, AppendProperties
<1>12. kind = "Basic" => Bare(Here) \/ (InGlobals /\ m + 1 = 2)
  <2> SUFFICES ASSUME kind = "Basic" PROVE Bare(Here) \/ (InGlobals /\ m + 1 = 2)
    OBVIOUS
  <2>1. BeginBasic \/ BeginGlobalBasic
    <3>1. frames' = Append(frames, Opened("Basic"))
      BY <1>1
    <3>2. ASSUME NEW other \in Frame, frames' = Append(frames, other) PROVE other = f
      <4>1. frames \in Seq(Frame)
        BY FrameFacts
      <4>2. frames'[Len(frames) + 1] = other
        BY <3>2, <4>1, AppendProperties
      <4> QED
        BY <1>11, <4>2
    <3>3. ASSUME NEW other \in {"Function", "Return", "While", "If", "Block", "Single"},
                 frames' = Append(frames, Opened(other))
          PROVE  FALSE
      <4>1. Opened(other) \in Frame
        BY OpenedTyped
      <4>2. Opened(other) = f
        BY <3>2, <3>3, <4>1
      <4> QED
        BY <1>7, <4>2 DEF Opened
    <3>4. ~BeginFunction /\ ~OpenBlock /\ ~BeginSingle
      BY <3>3 DEF BeginFunction, OpenBlock, BeginSingle
    <3>5. ~BeginKeyword
      BY <3>3 DEF BeginKeyword
    <3> QED
      BY <3>4, <3>5
  <2>2. CASE BeginBasic
    BY <2>2, LeadHere DEF BeginBasic, Bare
  <2>3. CASE BeginGlobalBasic
    <3>1. at = "globals"
      BY <2>3 DEF BeginGlobalBasic
    <3>2. Len(frames) = 1 /\ frames # << >> /\ Top.kind = "Globals"
      BY <3>1 DEF Typed, AtOK, Owned
    <3>3. frames[1].kind = "Globals"
      BY <3>2, FrameFacts
    <3>4. m + 1 = 2
      BY <1>11, <3>2
    <3> QED
      BY <3>2, <3>3, <3>4 DEF InGlobals
  <2> QED
    BY <2>1, <2>2, <2>3
<1>13. Bare(frames[m + 1].start)' <=> Bare(Here)
  <2>1. PICK p : p = Here
    OBVIOUS
  <2>2. p \in 1 .. Here
    BY <2>1, Numbers
  <2>3. Bare(p)' <=> Bare(p)
    BY <1>5, <2>2, StillBare
  <2> QED
    BY <1>7, <1>11, <2>1, <2>3 DEF Bare, LeadAt
<1>14. ASSUME NEW i \in 1 .. Len(frames'), frames'[i].kind = "Basic"
       PROVE  \/ i \in 1 .. Len(frames) /\ frames'[i] = frames[i]
              \/ Bare(frames[i].start)'
              \/ InGlobals' /\ i = 2
  <2>1. i \in 1 .. m \/ i = m + 1
    BY <1>11
  <2>2. CASE i = m + 1
    <3>1. PICK j : j = i
      OBVIOUS
    <3>2. kind = "Basic"
      BY <1>7, <1>11, <1>14, <2>2
    <3>3. Bare(frames[j].start)' \/ (InGlobals' /\ i = 2)
      BY <1>9, <1>12, <1>13, <2>2, <3>1, <3>2
    <3> QED
      BY <3>1, <3>3
  <2> QED
    BY <1>11, <2>1, <2>2
<1>15. BareFrames'
  BY <1>4, <1>5, <1>9, <1>14, BareFramesStay
<1> QED
  BY <1>10, <1>15

LEMMA EndBare ==
    ASSUME Typed, Typed', Inductive, Inductive', BareNodes, BareFrames,
           \/ FinishFuncDec \/ CloseBlock \/ FinishSingle \/ FinishWhile \/ FinishFunction
           \/ FinishIf \/ FinishIfElse
    PROVE  BareNodes' /\ BareFrames'
<1>1. /\ at \in {"body", "part", "return", "else"} /\ frames # << >> /\ Top.kind # "Globals"
      /\ frames' = Front(frames) /\ Kept
  BY Ends, EndTyped
<1>2. PICK m \in Node : nodes' = Append(nodes, m)
  BY Ends
<1>3. PICK kind \in {"FuncDec", "Block", "While", "Function", "If"},
           first \in Nat, last \in Nat, kids \in Seq(Nat) :
                nodes' = Append(nodes, Made(kind, first, last, kids))
  <2>1. /\ Top.start \in Nat /\ Top.kids \in Seq(Nat) /\ Append(Top.kids, Len(nodes)) \in Seq(Nat)
        /\ 0 \in Nat /\ Here \in Nat /\ Here - 1 \in Nat /\ << >> \in Seq(Nat)
    <3>1. Top.start \in Nat /\ Top.kids \in Seq(Nat)
      BY <1>1, FrameFacts DEF Frame
    <3>2. Len(nodes) \in Nat /\ Here \in Nat /\ Here - 1 \in Nat
      BY Numbers DEF Out
    <3> QED
      BY <3>1, <3>2
  <2>2. CASE FinishFuncDec
    BY <2>1, <2>2 DEF FinishFuncDec
  <2>3. CASE CloseBlock
    BY <2>1, <2>3 DEF CloseBlock
  <2>4. CASE FinishSingle
    BY <2>1, <2>4 DEF FinishSingle, Finish
  <2>5. CASE FinishWhile
    BY <2>1, <2>5 DEF FinishWhile, Finish
  <2>6. CASE FinishFunction
    BY <2>1, <2>6 DEF FinishFunction, Finish
  <2>7. CASE FinishIf
    BY <2>1, <2>7 DEF FinishIf
  <2>8. CASE FinishIfElse
    BY <2>1, <2>8 DEF FinishIfElse, Finish
  <2> QED
    BY <2>2, <2>3, <2>4, <2>5, <2>6, <2>7, <2>8
<1>4. PICK x \in Node : x = Made(kind, first, last, kids)
  <2>1. kind \in Kinds
    BY DEF Kinds
  <2> QED
    BY <1>3, <2>1, MadeTyped
<1>5. /\ Out' \in Nat /\ Out <= Out' /\ nodes'[Out'] = x
      /\ \A n \in Out + 1 .. Out' : n = Out'
  BY <1>3, <1>4, OneMade
<1>6. x.kind # "Basic"
  BY <1>4 DEF Made
<1>7. Still /\ Stacked
  BY <1>1, <1>2, AtWork, MadeNode
<1>8. InGlobals => InGlobals' /\ frames'[1] = frames[1] /\ Len(frames) # 1
  <2>1. PICK f \in Frame : f = Top
    BY <1>1, FrameFacts
  <2> QED
    BY <1>1, FirstFrame, NotAlone
<1>9. BareNodes'
  <2>1. \A n \in Out + 1 .. Out' : nodes'[n].kind # "Basic"
    BY <1>5, <1>6
  <2>2. InGlobals => /\ InGlobals' /\ Range(frames[1].kids) \subseteq Range(frames'[1].kids)
                     /\ at = "return" /\ Len(frames) = 1 => Out \in Range(frames'[1].kids)
    BY <1>8
  <2> QED
    BY <1>5, <1>7, <2>1, <2>2, BareNodesStay
<1>10. BareFrames'
  <2>1. \A i \in 1 .. Len(frames') : i \in 1 .. Len(frames) /\ frames'[i] = frames[i]
    BY <1>1, TopFacts DEF Typed
  <2> QED
    BY <1>7, <1>8, <2>1, BareFramesStay
<1> QED
  BY <1>9, <1>10

LEMMA EmptyBlockBare ==
    ASSUME Typed, Typed', Inductive, Inductive', BareNodes, BareFrames, EmptyBlock
    PROVE  BareNodes' /\ BareFrames'
<1>1. /\ at = "block" /\ frames' = frames
      /\ nodes' = Append(nodes, Made("Block", Here, Here, << >>))
  BY DEF EmptyBlock
<1>2. PICK x \in Node : x = Made("Block", Here, Here, << >>)
  <2>1. "Block" \in Kinds /\ << >> \in Seq(Nat) /\ Here \in Nat
    BY Numbers DEF Kinds
  <2> QED
    BY <2>1, MadeTyped
<1>3. /\ Out' \in Nat /\ Out <= Out' /\ nodes'[Out'] = x
      /\ \A n \in Out + 1 .. Out' : n = Out'
  BY <1>1, <1>2, OneMade
<1>4. x.kind # "Basic"
  BY <1>2 DEF Made
<1>5. Still /\ Stacked
  BY <1>1, <1>2, EmptyBlockTyped, AtWork, MadeNode
<1>6. InGlobals => InGlobals'
  BY <1>1 DEF InGlobals
<1>7. BareNodes'
  <2>1. \A n \in Out + 1 .. Out' : nodes'[n].kind # "Basic"
    BY <1>3, <1>4
  <2> QED
    BY <1>1, <1>3, <1>5, <1>6, <2>1, BareNodesStay
<1>8. BareFrames'
  BY <1>1, <1>5, <1>6, BareFramesStay
<1> QED
  BY <1>7, <1>8

(* The frame that goes on with a part more. *)
LEMMA SwapBare ==
    ASSUME Still, Stacked, BareNodes, BareFrames, frames # << >>, NEW f \in Frame,
           f.kind = Top.kind, Top.kind # "Basic", frames' = Append(Front(frames), f),
           Out' \in Nat, Out <= Out', \A n \in Out + 1 .. Out' : nodes'[n].kind # "Basic",
           InGlobals => /\ InGlobals' /\ Range(frames[1].kids) \subseteq Range(frames'[1].kids)
                        /\ at = "return" /\ Len(frames) = 1 => Out \in Range(frames'[1].kids)
    PROVE  BareNodes' /\ BareFrames'
<1>1. BareNodes'
  BY BareNodesStay
<1>2. Typed
  BY DEF Still
<1>3. /\ Len(frames) \in Nat \ {0} /\ Front(frames) \in Seq(Frame)
      /\ Len(Front(frames)) = Len(frames) - 1
      /\ \A i \in 1 .. Len(frames) - 1 : Front(frames)[i] = frames[i]
  BY <1>2, TopFacts DEF Typed
<1>4. /\ Len(frames') = Len(Front(frames)) + 1 /\ frames'[Len(Front(frames)) + 1] = f
      /\ \A i \in 1 .. Len(Front(frames)) : frames'[i] = Front(frames)[i]
  BY <1>3, AppendProperties
<1>5. ASSUME NEW i \in 1 .. Len(frames'), frames'[i].kind = "Basic"
      PROVE  i \in 1 .. Len(frames) /\ frames'[i] = frames[i]
  <2>1. i \in 1 .. Len(frames) - 1 \/ i = Len(Front(frames)) + 1
    BY <1>3, <1>4
  <2>2. i # Len(Front(frames)) + 1
    BY <1>4, <1>5
  <2>3. i \in 1 .. Len(frames) - 1 /\ i \in 1 .. Len(frames)
    BY <1>3, <2>1, <2>2
  <2> QED
    BY <1>3, <1>4, <2>3
<1>6. BareFrames'
  BY <1>5, BareFramesStay
<1> QED
  BY <1>1, <1>6

LEMMA KeepBare ==
    ASSUME Typed, Typed', Inductive, BareNodes, BareFrames, NextPart \/ NextGlobal \/ IfThen
    PROVE  BareNodes' /\ BareFrames'
<1>1. /\ at = "return" /\ frames # << >> /\ Top.kind \in {"Block", "Globals", "If"}
      /\ frames' = Append(Front(frames), [Top EXCEPT !.kids = Append(@, Out)])
      /\ UNCHANGED <<input, nodes, open>>
  BY DEF NextPart, NextGlobal, IfThen, ReturnTo, Keep, Out
<1>2. Kept
  BY KeepTyped
<1>3. KidsOlder /\ NodesFit /\ Stacked /\ Now
  BY <1>1, AtWork
<1>4. Still
  BY <1>1, <1>2, <1>3, NoNode
<1>5. Top \in Frame /\ Top.kids \in Seq(Nat) /\ Out \in Nat
  BY <1>1, <1>3, TopLaid, Returned
<1>6. PICK f \in Frame : f = [Top EXCEPT !.kids = Append(@, Out)]
  <2>1. Append(Top.kids, Out) \in Seq(Nat)
    BY <1>5
  <2> QED
    BY <1>5, <2>1, KidsTyped
<1>7. f.kids = Append(Top.kids, Out) /\ f.kind = Top.kind /\ frames' = Append(Front(frames), f)
  BY <1>1, <1>5, <1>6 DEF Frame
<1>8. InGlobals => /\ InGlobals' /\ Range(frames[1].kids) \subseteq Range(frames'[1].kids)
                   /\ at = "return" /\ Len(frames) = 1 => Out \in Range(frames'[1].kids)
  <2>1. CASE Top.kind # "Globals"
    <3>1. InGlobals => InGlobals' /\ frames'[1] = frames[1] /\ Len(frames) # 1
      BY <1>1, <1>7, <2>1, FirstFrame, NotAlone
    <3> QED
      BY <3>1
  <2>2. CASE Top.kind = "Globals"
    <3>1. Len(frames) = 1 /\ Top = frames[1]
      <4>1. Len(frames) \in Nat \ {0} /\ Top = frames[Len(frames)] /\ frames \in Seq(Frame)
        BY <1>1, TopFacts, FrameFacts DEF Typed
      <4>2. Len(frames) \in DOMAIN frames
        BY <4>1
      <4> QED
        BY <2>2, <4>1, <4>2 DEF Typed, FramesOK
    <3>2. frames'[1] = f /\ frames' # << >>
      <4>1. Front(frames) \in Seq(Frame) /\ Len(Front(frames)) = Len(frames) - 1
        BY <1>1, TopFacts DEF Typed
      <4>2. Len(Front(frames)) = 0
        BY <3>1, <4>1
      <4>3. frames'[Len(Front(frames)) + 1] = f /\ frames' # << >>
        BY <1>7, <4>1, AppendProperties
      <4> QED
        BY <4>2, <4>3
    <3>3. PICK k \in Seq(Nat) : k = Top.kids
      BY <1>5
    <3>4. /\ DOMAIN Append(k, Out) = 1 .. Len(k) + 1 /\ Append(k, Out)[Len(k) + 1] = Out
          /\ \A i \in 1 .. Len(k) : Append(k, Out)[i] = k[i]
      BY <1>5, AppendProperties
    <3>5. DOMAIN k = 1 .. Len(k) /\ Len(k) \in Nat
      OBVIOUS
    <3>6. Range(k) \subseteq Range(Append(k, Out)) /\ Out \in Range(Append(k, Out))
      BY <3>4, <3>5 DEF Range
    <3> QED
      BY <1>7, <2>2, <3>1, <3>2, <3>3, <3>6 DEF InGlobals
  <2> QED
    BY <2>1, <2>2
<1>9. Top.kind # "Basic"
  BY <1>1
<1>10. Out' \in Nat /\ Out <= Out' /\ \A n \in Out + 1 .. Out' : FALSE
  BY <1>1, NoMore
<1> QED
  BY <1>1, <1>3, <1>4, <1>7, <1>8, <1>9, <1>10, SwapBare

LEMMA ConditionBare ==
    ASSUME Typed, Typed', Inductive, Inductive', BareNodes, BareFrames, Condition
    PROVE  BareNodes' /\ BareFrames'
<1>1. /\ E!Ends(Class) /\ Top.kind \in {"While", "If"}
      /\ nodes' = Append(nodes, Expression)
      /\ frames' = Append(Front(frames), [Top EXCEPT !.kids = <<Out + 1>>])
  BY DEF Condition, Out
<1>2. at = "loop" /\ frames # << >> /\ Top \in Frame /\ Expression \in Node
  BY <1>1, ExpressionFacts
<1>3. PICK e \in Node : e = Expression
  BY <1>2
<1>4. e.kind = "Exp" /\ nodes' = Append(nodes, e)
  BY <1>1, <1>3 DEF Expression, Made
<1>5. /\ Out' \in Nat /\ Out <= Out' /\ nodes'[Out'] = e
      /\ \A n \in Out + 1 .. Out' : n = Out'
  BY <1>4, OneMade
<1>6. Still /\ Stacked /\ Out \in Nat
  BY <1>2, <1>4, ConditionTyped, AtWork, MadeNode
<1>7. PICK f \in Frame : f = [Top EXCEPT !.kids = <<Out + 1>>]
  <2>1. <<Out + 1>> \in Seq(Nat)
    BY <1>6
  <2> QED
    BY <1>2, <2>1, KidsTyped
<1>8. f.kind = Top.kind /\ Top.kind # "Globals" /\ Top.kind # "Basic"
      /\ frames' = Append(Front(frames), f)
  BY <1>1, <1>2, <1>7 DEF Frame
<1>9. InGlobals => InGlobals' /\ frames'[1] = frames[1] /\ Len(frames) # 1
  BY <1>2, <1>8, FirstFrame, NotAlone
<1>10. \A n \in Out + 1 .. Out' : nodes'[n].kind # "Basic"
  BY <1>4, <1>5
<1>11. InGlobals => /\ InGlobals' /\ Range(frames[1].kids) \subseteq Range(frames'[1].kids)
                    /\ at = "return" /\ Len(frames) = 1 => Out \in Range(frames'[1].kids)
  BY <1>9
<1> QED
  BY <1>2, <1>5, <1>6, <1>8, <1>10, <1>11, SwapBare

LEMMA FinishSimpleBare ==
    ASSUME Typed, Typed', Inductive, BareNodes, BareFrames, FinishSimple
    PROVE  BareNodes' /\ BareFrames'
<1>1. /\ E!Ends(Class) /\ Top.kind \in {"Basic", "Return"} /\ at' = "return"
      /\ frames' = Front(frames)
      /\ nodes' = nodes \o <<Expression,
            Made(Top.kind, Top.start, IF tok = ";" THEN Here ELSE Here - 1, <<Out + 1>>)>>
  BY DEF FinishSimple, Out
<1>2. Kept
  BY FinishSimpleTyped
<1>3. at = "loop" /\ frames # << >> /\ Top \in Frame
  BY <1>1, ExpressionFacts
<1>4. KidsOlder /\ NodesFit /\ Stacked /\ Now
  BY <1>3, AtWork
<1>5. Top.start \in Nat \ {0} /\ Top.start \in 1 .. Here
  BY <1>3, <1>4, TopLaid
<1>6. PICK e \in Node : e = Expression
  BY <1>1, ExpressionFacts
<1>7. e.kind = "Exp" /\ e.first # 0 /\ \A i : NodeShape(e, i)
  BY <1>1, <1>4, <1>6, ExpressionText
<1>8. Here \in Nat \ {0} /\ Here - 1 \in Nat /\ Out \in Nat
  BY Numbers
<1>9. PICK last \in Nat : last = IF tok = ";" THEN Here ELSE Here - 1
  BY <1>8
<1>10. PICK x \in Node : x = Made(Top.kind, Top.start, last, <<Out + 1>>)
  <2>1. <<Out + 1>> \in Seq(Nat)
    BY <1>8
  <2>2. Top.kind \in Kinds
    BY <1>1 DEF Kinds
  <2>3. Made(Top.kind, Top.start, last, <<Out + 1>>) \in Node
    BY <1>5, <2>1, <2>2, MadeTyped
  <2> QED
    BY <2>3
<1>11. x.kind = Top.kind /\ x.first = Top.start /\ x.kids = <<Out + 1>> /\ x.first # 0
  BY <1>5, <1>10 DEF Made
<1>12. NodeShape(x, Out + 2)
  <2>1. Out + 1 \in 1 .. (Out + 2) - 1
    BY <1>8
  <2>2. Len(x.kids) = 1 /\ x.kids[1] = Out + 1 /\ DOMAIN x.kids = {1}
    BY <1>8, <1>11
  <2>3. \A i \in DOMAIN x.kids : x.kids[i] \in 1 .. (Out + 2) - 1
    BY <2>1, <2>2
  <2> QED
    BY <1>1, <1>11, <2>2, <2>3 DEF NodeShape
<1>13. /\ Still /\ Out' = Out + 2
       /\ nodes'[Out + 1] = e /\ nodes'[Out'] = x /\ Lo'[Out'] = Top.start
  <2>1. nodes' = nodes \o <<e, x>>
    BY <1>1, <1>6, <1>9, <1>10
  <2>2. NodeShape(e, Out + 1)
    BY <1>7
  <2> QED
    BY <1>2, <1>4, <1>7, <1>11, <1>12, <2>1, <2>2, NewPair
<1>14. PICK n : n = Out'
  OBVIOUS
<1>15. PICK o : o = Out + 1
  OBVIOUS
<1>16. Out' \in Nat /\ Out <= Out' /\ \A i : i \in Out + 1 .. Out' <=> i = o \/ i = n
  BY <1>8, <1>13, <1>14, <1>15
<1>17. InGlobals => InGlobals' /\ frames'[1] = frames[1] /\ Len(frames) # 1
  <2>1. Top.kind # "Globals"
    BY <1>1
  <2> QED
    BY <1>1, <1>3, <2>1, FirstFrame, NotAlone
<1>18. PICK p \in 1 .. Here : p = Top.start
  BY <1>5
<1>19. PICK m \in Nat : Len(frames) = m + 1 /\ Len(frames') = m /\ frames[m + 1] = Top
  <2>1. /\ Len(frames) \in Nat \ {0} /\ Top = frames[Len(frames)]
        /\ Len(Front(frames)) = Len(frames) - 1
    BY <1>3, TopFacts DEF Typed
  <2>2. PICK m \in Nat : m = Len(frames) - 1
    BY <2>1
  <2>3. m + 1 = Len(frames)
    BY <2>1, <2>2
  <2> QED
    BY <1>1, <2>1, <2>2, <2>3
<1>20. nodes'[n].kind = "Basic" => Bare(p) \/ (InGlobals /\ Len(frames') = 1)
  <2> SUFFICES ASSUME nodes'[n].kind = "Basic" PROVE Bare(p) \/ (InGlobals /\ Len(frames') = 1)
    OBVIOUS
  <2>1. Top.kind = "Basic"
    BY <1>11, <1>13, <1>14
  <2>2. m + 1 \in 1 .. Len(frames) /\ (m + 1 = 2 => m = 1)
    BY <1>19
  <2>3. Bare(p) \/ (InGlobals /\ m + 1 = 2)
    BY <1>18, <1>19, <2>1, <2>2 DEF BareFrames
  <2> QED
    BY <1>19, <2>2, <2>3
<1>21. Bare(Lo[n])' <=> Bare(p)
  <2>1. Bare(p)' <=> Bare(p)
    BY <1>13, StillBare
  <2> QED
    BY <1>13, <1>14, <1>18, <2>1 DEF Bare, LeadAt
<1>22. ASSUME NEW i \in Out + 1 .. Out'
       PROVE  \/ nodes'[i].kind # "Basic" \/ Bare(Lo[i])'
              \/ InGlobals' /\ i = Out' /\ at' = "return" /\ Len(frames') = 1
  <2>1. CASE i = o
    BY <1>7, <1>13, <1>15, <2>1
  <2>2. CASE i = n
    BY <1>1, <1>14, <1>17, <1>20, <1>21, <2>2
  <2> QED
    BY <1>16, <2>1, <2>2
<1>23. BareNodes'
  BY <1>13, <1>16, <1>17, <1>22, BareNodesStay
<1>24. BareFrames'
  <2>1. \A i \in 1 .. Len(frames') : i \in 1 .. Len(frames) /\ frames'[i] = frames[i]
    <3>1. frames' = Front(frames) /\ frames # << >>
      BY <1>1, <1>3
    <3> QED
      BY <3>1, TopFacts DEF Typed
  <2> QED
    BY <1>4, <1>13, <1>17, <2>1, BareFramesStay
<1> QED
  BY <1>23, <1>24

LEMMA InitSpelled == Init => Spelled
<1> SUFFICES ASSUME Init PROVE Spelled
  OBVIOUS
<1>1. /\ at \in {"globals", "statement"} /\ nodes = << >>
      /\ at = "globals" => frames = <<[kind |-> "Globals", start |-> 1, kids |-> << >>]>>
      /\ at = "statement" => frames = << >>
      /\ \E t : input = <<t>>
  BY DEF Init, Entries
<1>2. Here = 1 /\ Out = 0
  BY <1>1 DEF Here, Out
<1>3. WordsTaken
  <2>1. \A p \in 1 .. Here - 1 : FALSE
    BY <1>2
  <2> QED
    BY <2>1 DEF WordsTaken
<1>4. AtomEnds
  BY <1>1 DEF AtomEnds, InExp
<1>5. BareNodes
  <2>1. \A n \in 1 .. Out : FALSE
    BY <1>2
  <2> QED
    BY <2>1 DEF BareNodes
<1>6. BareFrames
  <2>1. CASE at = "statement"
    <3>1. \A i \in 1 .. Len(frames) : FALSE
      BY <1>1, <2>1
    <3> QED
      BY <3>1 DEF BareFrames
  <2>2. CASE at = "globals"
    <3>1. \A i \in 1 .. Len(frames) : frames[i].kind = "Globals"
      BY <1>1, <2>2
    <3> QED
      BY <3>1 DEF BareFrames
  <2> QED
    BY <1>1, <2>1, <2>2
<1> QED
  BY <1>3, <1>4, <1>5, <1>6 DEF Spelled

(* A parse that was refused stays so. *)
LEMMA ErrorStays ==
    ASSUME Typed, [Next]_vars, at = "error"
    PROVE  at' = "error"
<1>1. ~(/\ EndOfText \/ InFuncDec \/ InExpression \/ ReturnToCaller \/ BeginElse)
  <2>1. at \notin InSignature
    BY SignatureStates
  <2>2. ~InFuncDec
    BY <2>1 DEF InFuncDec, InSignature
  <2>3. ~InExpression
    BY DEF InExpression, E!Read, E!Takes, E!InExpression
  <2> QED
    BY <2>2, <2>3 DEF EndOfText, ReturnToCaller, BeginElse
<1>2. ~(\/ BeginFunction \/ BeginGlobalBasic \/ OpenBlock \/ BeginKeyword
        \/ BeginBasic \/ BeginSingle \/ EmptyBlock)
  BY DEF BeginFunction, BeginGlobalBasic, OpenBlock, BeginKeyword, BeginBasic, BeginSingle,
         EmptyBlock, StartsStatement
<1>3. ~(\/ FinishFuncDec \/ CloseBlock \/ FinishSingle \/ FinishWhile \/ FinishFunction
        \/ FinishIf \/ FinishIfElse)
  BY DEF FinishFuncDec, CloseBlock, FinishSingle, FinishWhile, FinishFunction, FinishIf,
         FinishIfElse, ReturnTo
<1>4. ~(NextPart \/ NextGlobal \/ IfThen)
  BY DEF NextPart, NextGlobal, IfThen, ReturnTo
<1>5. ~(Condition \/ FinishSimple)
  BY ExpressionFacts DEF Condition, FinishSimple
<1>6. FuncDecError \/ NoCloseBlock \/ ExpressionError \/ NoSemicolon => at' = "error"
  BY DEF FuncDecError, NoCloseBlock, ExpressionError, NoSemicolon, Fail
<1>7. Done \/ UNCHANGED vars => at' = "error"
  BY DEF Done, vars
<1> QED
  BY <1>1, <1>2, <1>3, <1>4, <1>5, <1>6, <1>7 DEF Next

LEMMA StutterSpelled ==
    ASSUME Spelled, UNCHANGED vars
    PROVE  Spelled'
<1>1. UNCHANGED <<input, nodes, frames, open, at>>
  BY DEF vars
<1>2. Lo' = Lo /\ Hi' = Hi
  BY <1>1 DEF Lo, Hi
<1>3. Here' = Here /\ Top' = Top /\ Out' = Out /\ InGlobals' = InGlobals /\ InExp' = InExp
  BY <1>1 DEF Here, Top, Out, InGlobals, InExp
<1>4. WordsTaken' = WordsTaken
  BY <1>1, <1>2, <1>3
  DEF WordsTaken, TakenApart, TakenWhole, Said, Splits, Names, InHead, Body, From
<1>5. AtomEnds' = AtomEnds
  BY <1>1, <1>3 DEF AtomEnds, From
<1>6. BareNodes' = BareNodes /\ BareFrames' = BareFrames
  BY <1>1, <1>2, <1>3 DEF BareNodes, BareFrames, Bare, LeadAt
<1> QED
  BY <1>1, <1>4, <1>5, <1>6 DEF Spelled

(* Every step of a parse keeps every word read taken whole or taken apart. *)
LEMMA StepSpelled == Typed /\ Inductive /\ Spelled /\ [Next]_vars => Spelled'
<1> SUFFICES ASSUME Typed, Inductive, Spelled, [Next]_vars PROVE Spelled'
  OBVIOUS
<1>1. Typed' /\ Inductive'
  BY StepTyped, StepKeeps
<1>2. CASE at' = "error"
  BY <1>2 DEF Spelled
<1>3. CASE at' # "error"
  <2>1. at # "error"
    BY <1>3, ErrorStays
  <2>2. WordsTaken /\ AtomEnds /\ BareNodes /\ BareFrames
    BY <2>1 DEF Spelled
  <2>3. WordsTaken' /\ AtomEnds' /\ BareNodes' /\ BareFrames' => Spelled'
    BY DEF Spelled
  <2>4. ~InExp' => AtomEnds'
    BY DEF AtomEnds
  <2>5. CASE \/ BeginFunction \/ BeginGlobalBasic \/ OpenBlock \/ BeginKeyword
             \/ BeginBasic \/ BeginSingle
    BY <2>2, <2>3, <2>5, OpenWords, OpenAtomEnds, OpenBare
  <2>6. CASE InExpression
    <3>1. AtomEnds'
      BY <2>6, InExpressionAtomEnds DEF AtomEnds
    <3>2. WordsTaken'
      BY <1>1, <2>2, <2>6, InExpressionWords
    <3>3. BareNodes' /\ BareFrames'
      BY <2>2, <2>6, StayBare
    <3> QED
      BY <2>3, <3>1, <3>2, <3>3
  <2>7. CASE EndOfText \/ ReturnToCaller \/ InFuncDec \/ BeginElse
    <3>1. WordsTaken'
      BY <1>1, <2>2, <2>7, EndWords, InFuncDecWords, BeginElseWords
    <3>2. BareNodes' /\ BareFrames'
      BY <2>2, <2>7, StayBare
    <3> QED
      BY <2>3, <2>4, <2>7, <3>1, <3>2, OtherAtomEnds
  <2>8. CASE \/ FinishFuncDec \/ CloseBlock \/ FinishSingle \/ FinishWhile \/ FinishFunction
             \/ FinishIf \/ FinishIfElse
    <3>1. WordsTaken'
      BY <1>1, <2>2, <2>8, FinishFuncDecWords, CloseBlockWords, FinishSingleWords,
         FinishWhileWords, FinishFunctionWords, FinishIfWords, FinishIfElseWords
    <3>2. BareNodes' /\ BareFrames'
      BY <1>1, <2>2, <2>8, EndBare
    <3> QED
      BY <2>3, <2>4, <2>8, <3>1, <3>2, OtherAtomEnds
  <2>9. CASE EmptyBlock
    BY <1>1, <2>2, <2>3, <2>4, <2>9, EmptyBlockWords, EmptyBlockBare, OtherAtomEnds
  <2>10. CASE Condition
    BY <1>1, <2>2, <2>3, <2>4, <2>10, ConditionWords, ConditionBare, OtherAtomEnds
  <2>11. CASE FinishSimple
    BY <1>1, <2>2, <2>3, <2>4, <2>11, FinishSimpleWords, FinishSimpleBare, OtherAtomEnds
  <2>12. CASE NextPart \/ NextGlobal \/ IfThen
    BY <1>1, <2>2, <2>3, <2>4, <2>12, KeepWords, KeepBare, OtherAtomEnds
  <2>13. CASE Done \/ UNCHANGED vars
    BY <2>13, StutterSpelled DEF Done
  <2>14. ~(FuncDecError \/ NoCloseBlock \/ ExpressionError \/ NoSemicolon)
    BY <1>3 DEF FuncDecError, NoCloseBlock, ExpressionError, NoSemicolon, Fail
  <2> QED
    BY <2>5, <2>6, <2>7, <2>8, <2>9, <2>10, <2>11, <2>12, <2>13, <2>14 DEF Next
<1> QED
  BY <1>2, <1>3

(* When everything is read no statement is open any more. *)
LEMMA DoneSays ==
    ASSUME Typed, Inductive, at = "done", NEW p
    PROVE  /\ TakenApart(p) <=> \E n \in 1 .. Out : Splits(n, p)
           /\ TakenWhole(p) <=> \E n \in 1 .. Out : Names(n, p)
<1>1. Len(frames) \in Nat /\ Len(frames) <= 1 /\ ~InExp /\ Now
  BY Numbers, AtWork DEF Typed, AtOK, InExp
<1>2. frames = << >> \/ frames[1].kind = "Globals"
  BY <1>1 DEF Now, InGlobals
<1>3. frames = << >> => Len(frames) = 0
  OBVIOUS
<1>4. \A i \in 1 .. Len(frames) : frames[i].kind = "Globals"
  <2>1. \A i \in 1 .. Len(frames) : i = 1 /\ frames # << >>
    BY <1>1, <1>3
  <2> QED
    BY <1>2, <2>1
<1>5. \A i \in 1 .. Len(frames) : ~Said(frames[i], p) /\ ~InHead(i, p)
  BY <1>4 DEF Said, InHead, SaysWord
<1> QED
  BY <1>1, <1>5 DEF TakenApart, TakenWhole

LEMMA NamesAndSplits ==
    ASSUME Typed, NEW p
    PROVE  /\ InName(p) <=> \E n \in 1 .. Out : Names(n, p)
           /\ Apart(p) <=> \E n \in 1 .. Out : Splits(n, p)
<1>1. DOMAIN nodes = 1 .. Out
  BY DEF Typed, Out
<1>2. ASSUME NEW n
      PROVE  Names(n, p) <=> CASE nodes[n].kind = "Exp" -> Lo[n] <= p /\ p < Hi[n]
                               [] nodes[n].kind = "FuncDec" -> Lo[n] < p /\ p < Hi[n]
                               [] nodes[n].kind = "Function" ->
                                     Lo[n] < p /\ p < Lo[nodes[n].kids[1]]
                               [] OTHER -> FALSE
  BY DEF Names
<1>3. InName(p) <=> \E n \in 1 .. Out : Names(n, p)
  BY <1>1, <1>2 DEF InName
<1>4. Apart(p) <=> \E n \in 1 .. Out : Splits(n, p)
  BY <1>1 DEF Apart, Splits, SaysWord
<1> QED
  BY <1>3, <1>4

(***************************************************************************)
(* WordsSplitAtStarts: try_consume cuts a keyword off the word it begins,  *)
(* and try_name takes the whole word; no word is read both ways, and none  *)
(* is left over.  A statement that is an expression begins with none of    *)
(* the keywords parse_statement looks for, unless it is a global.          *)
(***************************************************************************)
THEOREM WordsTakenOnce == Spec => []WordsSplitAtStarts
<1>1. Typed /\ Inductive /\ Spelled => WordsSplitAtStarts
  <2> SUFFICES ASSUME Typed, Inductive, Spelled, at = "done" PROVE WordsSplitAtStarts
    BY DEF WordsSplitAtStarts
  <2>1. WordsTaken /\ BareNodes
    BY DEF Spelled
  <2>2. ASSUME NEW p \in 1 .. Here - 1, input[p] \in Glued
        PROVE  InName(p) = ~Apart(p)
    <3>1. (InName(p) <=> TakenWhole(p)) /\ (Apart(p) <=> TakenApart(p))
      BY DoneSays, NamesAndSplits
    <3>2. ~(TakenApart(p) /\ TakenWhole(p)) /\ (TakenApart(p) \/ TakenWhole(p))
      BY <2>1, <2>2 DEF WordsTaken
    <3>3. InName(p) \in BOOLEAN /\ Apart(p) \in BOOLEAN
      BY DEF InName, Apart
    <3> QED
      BY <3>1, <3>2, <3>3
  <2>3. ASSUME NEW n \in DOMAIN nodes, nodes[n].kind = "Basic",
               InGlobals => n \notin Range(Roots)
        PROVE  LeadAt(Lo[n]) \notin {"if", "while", "return"}
    <3>1. n \in 1 .. Out
      BY DEF Typed, Out
    <3>2. InGlobals => Roots = frames[1].kids
      BY DEF Roots
    <3>3. at # "return"
      OBVIOUS
    <3> QED
      BY <2>1, <2>3, <3>1, <3>2, <3>3 DEF BareNodes, Bare
  <2> QED
    BY <2>2, <2>3 DEF WordsSplitAtStarts
<1>2. Init => Typed /\ Inductive /\ Spelled
  BY InitTyped, InitInductive, InitSpelled
<1>3. Typed /\ Inductive /\ Spelled /\ [Next]_vars => (Typed /\ Inductive /\ Spelled)'
  BY StepTyped, StepKeeps, StepSpelled
<1> QED
  BY <1>1, <1>2, <1>3, PTL DEF Spec

-----------------------------------------------------------------------------
(* Which nodes lie within which. *)

(* What was made for k, k the last of it. *)
Inside(j, k) == j <= k /\ Lo[k] <= Lo[j] /\ Hi[j] <= Hi[k]

Spaced(kids) == \A x, y \in DOMAIN kids : x < y => Hi[kids[x]] < Lo[kids[y]]

(* Every older node ends before this one begins, or lies within a part. *)
Nested(n) ==
    /\ Spaced(nodes[n].kids)
    /\ \A x \in DOMAIN nodes[n].kids :
            Lo[n] <= Lo[nodes[n].kids[x]] /\ Hi[nodes[n].kids[x]] <= Hi[n]
    /\ \A j \in 1 .. n - 1 :
            Hi[j] < Lo[n] \/ \E x \in DOMAIN nodes[n].kids : Inside(j, nodes[n].kids[x])

(* The same of a statement that is open: up to edge its parts are in it. *)
Gathers(f, edge) ==
    /\ Spaced(f.kids)
    /\ \A x \in DOMAIN f.kids : f.start <= Lo[f.kids[x]] /\ Hi[f.kids[x]] < edge
    /\ \A j \in 1 .. Out :
            \/ Hi[j] < f.start \/ edge <= Lo[j]
            \/ \E x \in DOMAIN f.kids : Inside(j, f.kids[x])

Gathered == \A i \in 1 .. Len(frames) : Gathers(frames[i], Body(i))

Ascending ==
    \A i, k \in 1 .. Len(frames) : i <= k => frames[i].start <= frames[k].start

Grouped == at # "error" => Gathered /\ Ascending /\ \A n \in 1 .. Out : Nested(n)

LEMMA StillNested ==
    ASSUME Still, NEW n \in 1 .. Out, Nested(n)
    PROVE  Nested(n)'
<1> DEFINE k == nodes[n].kids
<1>1. nodes'[n] = nodes[n] /\ Lo'[n] = Lo[n] /\ Hi'[n] = Hi[n] /\ Out \in Nat
  BY StillThere
<1>2. \A x \in DOMAIN k : k[x] \in 1 .. Out
  BY KidFacts DEF Still
<1>3. \A x \in DOMAIN k : Lo'[k[x]] = Lo[k[x]] /\ Hi'[k[x]] = Hi[k[x]]
  BY <1>2, StillThere
<1>4. \A j \in 1 .. n - 1 : j \in 1 .. Out
  BY <1>1
<1>5. \A j \in 1 .. n - 1 : Lo'[j] = Lo[j] /\ Hi'[j] = Hi[j]
  BY <1>4, StillThere
<1>6. nodes'[n].kids = k
  BY <1>1
<1> HIDE DEF k
<1>7. /\ Spaced(k)
      /\ \A x \in DOMAIN k : Lo[n] <= Lo[k[x]] /\ Hi[k[x]] <= Hi[n]
      /\ \A j \in 1 .. n - 1 : Hi[j] < Lo[n] \/ \E x \in DOMAIN k : Inside(j, k[x])
  BY DEF Nested, k
<1>8. Spaced(nodes[n].kids)'
  BY <1>3, <1>6, <1>7 DEF Spaced
<1>9. \A x \in DOMAIN nodes'[n].kids :
            Lo'[n] <= Lo'[nodes'[n].kids[x]] /\ Hi'[nodes'[n].kids[x]] <= Hi'[n]
  BY <1>1, <1>3, <1>6, <1>7
<1>10. \A j \in 1 .. n - 1 :
            Hi'[j] < Lo'[n] \/ \E x \in DOMAIN nodes'[n].kids : Inside(j, nodes[n].kids[x])'
  BY <1>1, <1>3, <1>5, <1>6, <1>7 DEF Inside
<1> QED
  BY <1>8, <1>9, <1>10 DEF Nested

(* What a statement that is open has stays its own: what is made now is    *)
(* behind edge.                                                            *)
LEMMA StillGathers ==
    ASSUME Still, NEW f \in Frame, InRow(f), NEW e \in Nat, NEW later \in Nat, e <= later,
           Gathers(f, e), \A j \in 1 .. Out : e <= Lo[j] => later <= Lo[j],
           Out' \in Nat, Out <= Out', \A n \in Out + 1 .. Out' : later <= Lo'[n]
    PROVE  Gathers(f, later)'
<1>1. PICK k \in Seq(Nat) : k = f.kids
  BY RowFacts DEF Still
<1>2. /\ Out \in Nat /\ \A j \in 1 .. Out : Lo'[j] = Lo[j] /\ Hi'[j] = Hi[j]
  BY StillThere
<1>3. \A x \in DOMAIN k : Lo'[k[x]] = Lo[k[x]] /\ Hi'[k[x]] = Hi[k[x]] /\ Hi[k[x]] \in Nat
  BY <1>1, StillRow, RowFacts DEF Still
<1>4. /\ Spaced(k)
      /\ \A x \in DOMAIN k : f.start <= Lo[k[x]] /\ Hi[k[x]] < e
      /\ \A j \in 1 .. Out :
            \/ Hi[j] < f.start \/ e <= Lo[j]
            \/ \E x \in DOMAIN k : Inside(j, k[x])
  BY <1>1 DEF Gathers
<1>5. Spaced(k)'
  BY <1>3, <1>4 DEF Spaced
<1>6. \A x \in DOMAIN k : f.start <= Lo'[k[x]] /\ Hi'[k[x]] < later
  BY <1>3, <1>4
<1>7. ASSUME NEW j \in 1 .. Out'
      PROVE  \/ Hi'[j] < f.start \/ later <= Lo'[j]
             \/ \E x \in DOMAIN k : Inside(j, k[x])'
  <2>1. CASE j \in 1 .. Out
    BY <1>2, <1>3, <1>4, <2>1 DEF Inside
  <2>2. CASE j \in Out + 1 .. Out'
    BY <2>2
  <2> QED
    BY <1>2, <2>1, <2>2
<1> QED
  BY <1>1, <1>5, <1>6, <1>7 DEF Gathers

(* The statements around the innermost one. *)
LEMMA OuterGathers ==
    ASSUME Still, Stacked, Gathered, NEW i \in 1 .. Len(frames) - 1,
           NEW f \in Frame, f = frames[i], NEW e \in Nat, e = frames[i + 1].start,
           Out' \in Nat, Out <= Out', \A n \in Out + 1 .. Out' : e <= Lo'[n]
    PROVE  Gathers(f, e)'
<1>1. i \in 1 .. Len(frames) /\ i < Len(frames) /\ Len(frames) \in Nat
  BY FrameFacts DEF Still
<1>2. Gathers(f, e)
  BY <1>1 DEF Gathered, Body
<1>3. InRow(f)
  BY <1>1 DEF Stacked, Laid
<1> QED
  BY <1>2, <1>3, StillGathers

LEMMA TopGathers ==
    ASSUME Typed, Gathered, frames # << >>
    PROVE  Gathers(Top, IF at = "return" THEN Lo[Out] ELSE Here)
<1>1. Len(frames) \in Nat \ {0} /\ Top = frames[Len(frames)]
  BY TopFacts DEF Typed
<1>2. Len(frames) \in 1 .. Len(frames)
  BY <1>1
<1> QED
  BY <1>1, <1>2 DEF Gathered, Body

LEMMA GatheredNext ==
    ASSUME \A i \in 1 .. Len(frames') :
                \E f \in Frame, b \in Nat : f = frames'[i] /\ b = Body(i)' /\ Gathers(f, b)'
    PROVE  Gathered'
<1>1. ASSUME NEW i \in 1 .. Len(frames') PROVE Gathers(frames[i], Body(i))'
  <2>1. PICK f \in Frame, b \in Nat : f = frames'[i] /\ b = Body(i)' /\ Gathers(f, b)'
    OBVIOUS
  <2> HIDE DEF Body
  <2> QED
    BY <2>1 DEF Gathers
<1> QED
  BY <1>1 DEF Gathered

(* All but the innermost statement, when that is kept, changed or left. *)
LEMMA OuterNext ==
    ASSUME Still, Stacked, Gathered, Ascending, NEW m \in Nat, Len(frames) = m + 1,
           \A i \in 1 .. m : frames'[i] = frames[i],
           Out' \in Nat, Out <= Out',
           \A n \in Out + 1 .. Out' : Lo'[n] \in Nat /\ Top.start <= Lo'[n],
           m < Len(frames') => frames'[m + 1].start = Top.start,
           m = Len(frames') => at' = "return" /\ Lo'[Out'] = Top.start,
           Len(frames') \in Nat, m <= Len(frames')
    PROVE  \A i \in 1 .. m :
                \E f \in Frame, b \in Nat : f = frames'[i] /\ b = Body(i)' /\ Gathers(f, b)'
<1> SUFFICES ASSUME NEW i \in 1 .. m
             PROVE  \E f \in Frame, b \in Nat : f = frames'[i] /\ b = Body(i)' /\ Gathers(f, b)'
  OBVIOUS
<1>1. /\ i \in 1 .. Len(frames) - 1 /\ i \in 1 .. Len(frames) /\ i + 1 \in 1 .. Len(frames)
      /\ m + 1 \in 1 .. Len(frames) /\ i + 1 <= m + 1 /\ (i + 1 \in 1 .. m \/ i = m)
  OBVIOUS
<1>2. PICK f \in Frame : f = frames[i]
  BY <1>1, FrameFacts DEF Still
<1>3. PICK e \in Nat : e = frames[i + 1].start
  BY <1>1, FrameFacts DEF Still, Frame
<1>4. Top = frames[m + 1]
  <2>1. frames # << >>
    OBVIOUS
  <2> QED
    BY <2>1, FrameFacts DEF Still
<1>5. e <= Top.start
  BY <1>1, <1>3, <1>4 DEF Ascending
<1>6. \A n \in Out + 1 .. Out' : e <= Lo'[n]
  <2>1. Top.start \in Nat
    BY <1>1, <1>4, FrameFacts DEF Still, Frame
  <2> QED
    BY <1>3, <1>5, <2>1
<1>7. Gathers(f, e)'
  BY <1>1, <1>2, <1>3, <1>6, OuterGathers
<1>8. e = Body(i)'
  <2>1. CASE i + 1 \in 1 .. m
    <3>1. frames'[i + 1] = frames[i + 1] /\ i < Len(frames')
      BY <2>1
    <3> QED
      BY <1>3, <3>1 DEF Body
  <2>2. CASE i = m
    <3>1. e = Top.start
      BY <1>3, <1>4, <2>2
    <3> QED
      BY <2>2, <3>1 DEF Body
  <2> QED
    BY <1>1, <2>1, <2>2
<1> QED
  BY <1>2, <1>7, <1>8

LEMMA NextGathers ==
    ASSUME Still, Stacked, Gathered, Ascending, NEW m \in Nat, Len(frames) = m + 1,
           \A i \in 1 .. m : frames'[i] = frames[i],
           Out' \in Nat, Out <= Out',
           \A n \in Out + 1 .. Out' : Lo'[n] \in Nat /\ Top.start <= Lo'[n],
           m < Len(frames') =>
                /\ frames'[m + 1].start = Top.start
                /\ \E f \in Frame, b \in Nat :
                        f = frames'[m + 1] /\ b = Body(m + 1)' /\ Gathers(f, b)',
           m = Len(frames') => at' = "return" /\ Lo'[Out'] = Top.start,
           Len(frames') \in {m, m + 1}
    PROVE  Gathered' /\ Ascending'
<1>1. Len(frames') \in Nat /\ m <= Len(frames')
  OBVIOUS
<1>2. \A i \in 1 .. m : \E f \in Frame, b \in Nat : f = frames'[i] /\ b = Body(i)' /\ Gathers(f, b)'
  BY <1>1, OuterNext
<1>3. ASSUME NEW i \in 1 .. Len(frames')
      PROVE  \E f \in Frame, b \in Nat : f = frames'[i] /\ b = Body(i)' /\ Gathers(f, b)'
  <2>1. i \in 1 .. m \/ (i = m + 1 /\ m < Len(frames'))
    BY <1>1
  <2> QED
    BY <1>2, <2>1
<1>4. Gathered'
  BY <1>3, GatheredNext
<1>5. \A i \in 1 .. Len(frames') : i \in 1 .. Len(frames) /\ frames'[i].start = frames[i].start
  <2>1. Top = frames[m + 1]
    <3>1. frames # << >>
      OBVIOUS
    <3> QED
      BY <3>1, FrameFacts DEF Still
  <2>2. ASSUME NEW i \in 1 .. Len(frames')
        PROVE  i \in 1 .. Len(frames) /\ (i \in 1 .. m \/ (i = m + 1 /\ m < Len(frames')))
    BY <1>1
  <2> QED
    BY <2>1, <2>2
<1>6. Ascending'
  BY <1>5 DEF Ascending
<1> QED
  BY <1>4, <1>6

LEMMA PopGathers ==
    ASSUME Still, Stacked, Gathered, Ascending, frames # << >>, frames' = Front(frames),
           at' = "return", Lo'[Out'] = Top.start, Out' \in Nat, Out <= Out',
           \A n \in Out + 1 .. Out' : Lo'[n] \in Nat /\ Top.start <= Lo'[n]
    PROVE  Gathered' /\ Ascending'
<1>1. /\ Len(frames) \in Nat \ {0} /\ Len(Front(frames)) = Len(frames) - 1
      /\ \A i \in 1 .. Len(frames) - 1 : Front(frames)[i] = frames[i]
  BY TopFacts DEF Still, Typed
<1>2. PICK m \in Nat : m = Len(frames) - 1
  BY <1>1
<1>3. Len(frames) = m + 1 /\ Len(frames') = m
  BY <1>1, <1>2
<1>4. \A i \in 1 .. m : frames'[i] = frames[i]
  BY <1>1, <1>2
<1>5. ~(m < Len(frames')) /\ Len(frames') \in {m, m + 1}
  BY <1>3
<1> QED
  BY <1>3, <1>4, <1>5, NextGathers

LEMMA SwapGathers ==
    ASSUME Still, Stacked, Gathered, Ascending, frames # << >>, NEW f \in Frame,
           f.start = Top.start, frames' = Append(Front(frames), f), at' # "return",
           Out' \in Nat, Out <= Out',
           \A n \in Out + 1 .. Out' : Lo'[n] \in Nat /\ Top.start <= Lo'[n],
           NEW h \in Nat, h = Here', Gathers(f, h)'
    PROVE  Gathered' /\ Ascending'
<1>1. /\ Len(frames) \in Nat \ {0} /\ Len(Front(frames)) = Len(frames) - 1
      /\ Front(frames) \in Seq(Frame)
      /\ \A i \in 1 .. Len(frames) - 1 : Front(frames)[i] = frames[i]
  BY TopFacts DEF Still, Typed
<1>2. PICK m \in Nat : m = Len(frames) - 1
  BY <1>1
<1>3. Len(frames) = m + 1 /\ Len(Front(frames)) = m
  BY <1>1, <1>2
<1>4. /\ Len(frames') = m + 1 /\ frames'[m + 1] = f
      /\ \A i \in 1 .. m : frames'[i] = Front(frames)[i]
  BY <1>1, <1>3, AppendProperties
<1>5. \A i \in 1 .. m : frames'[i] = frames[i]
  BY <1>1, <1>2, <1>4
<1>6. h = Body(m + 1)'
  BY <1>4 DEF Body
<1>7. m # Len(frames') /\ Len(frames') \in {m, m + 1}
  BY <1>4
<1>8. /\ frames'[m + 1].start = Top.start
      /\ \E g \in Frame, b \in Nat : g = frames'[m + 1] /\ b = Body(m + 1)' /\ Gathers(g, b)'
  BY <1>4, <1>6
<1> QED
  BY <1>3, <1>5, <1>7, <1>8, NextGathers

(* The statements stay open; new is what was made, if anything was.        *)
LEMMA SameGathers ==
    ASSUME Still, Stacked, Gathered, Ascending, frames # << >>, frames' = frames,
           Out' \in Nat, Out <= Out',
           \A n \in Out + 1 .. Out' : Lo'[n] \in Nat /\ Top.start <= Lo'[n],
           NEW f \in Frame, f = Top,
           NEW b \in Nat, b = IF at' = "return" THEN Lo'[Out'] ELSE Here', Gathers(f, b)'
    PROVE  Gathered' /\ Ascending'
<1>1. Len(frames) \in Nat \ {0} /\ Top = frames[Len(frames)]
  BY TopFacts DEF Still, Typed
<1>2. PICK m \in Nat : m = Len(frames) - 1
  BY <1>1
<1>3. Len(frames) = m + 1 /\ Len(frames') = m + 1
  BY <1>1, <1>2
<1>4. b = Body(m + 1)'
  BY <1>3 DEF Body
<1>5. f = frames'[m + 1] /\ frames'[m + 1].start = Top.start
  BY <1>1, <1>3
<1>6. m # Len(frames') /\ Len(frames') \in {m, m + 1}
  BY <1>3
<1>7. \E g \in Frame, c \in Nat : g = frames'[m + 1] /\ c = Body(m + 1)' /\ Gathers(g, c)'
  BY <1>4, <1>5
<1> QED
  BY <1>3, <1>5, <1>6, <1>7, NextGathers

LEMMA PushGathers ==
    ASSUME Still, Stacked, Gathered, Ascending, NEW f \in Frame, f.start = Here, f.kids = << >>,
           frames' = Append(frames, f), nodes' = nodes, at # "return", at' # "return"
    PROVE  Gathered' /\ Ascending'
<1>1. /\ frames \in Seq(Frame) /\ Len(frames) \in Nat /\ \A i \in 1 .. Len(frames) : frames[i] \in Frame
  BY FrameFacts DEF Still
<1>2. PICK m \in Nat : m = Len(frames)
  BY <1>1
<1>3. /\ Len(frames') = m + 1 /\ frames'[m + 1] = f
      /\ \A i \in 1 .. m : frames'[i] = frames[i]
  BY <1>1, <1>2, AppendProperties
<1>4. PICK h \in Nat : h = Here
  BY StillThere
<1>5. Here' \in Nat /\ Out \in Nat /\ Out' = Out /\ h <= Here'
  BY <1>4, StillThere DEF Out
<1>6. /\ \A n \in Out + 1 .. Out' : FALSE
      /\ \A j \in 1 .. Out : Lo[j] \in Nat /\ Hi[j] \in Nat /\ Lo[j] <= Hi[j] /\ Hi[j] < h
  <2>1. ASSUME NEW j \in 1 .. Out
        PROVE  Lo[j] \in Nat /\ Hi[j] \in Nat /\ Lo[j] <= Hi[j] /\ Hi[j] < h
    <3>1. Lo[j] \in 1 .. Hi[j] /\ Hi[j] \in 1 .. h - 1
      BY <1>4 DEF Still, NodesFit, NodeFits, Placed
    <3> QED
      BY <3>1
  <2> QED
    BY <1>5, <2>1
<1>7. \A j \in 1 .. Out' : Hi'[j] < h
  BY <1>5, <1>6, StillThere
<1>8. ASSUME NEW i \in 1 .. m
      PROVE  \E g \in Frame, b \in Nat : g = frames'[i] /\ b = Body(i)' /\ Gathers(g, b)'
  <2>1. i \in 1 .. Len(frames) /\ i \in 1 .. Len(frames') /\ i < Len(frames')
    BY <1>2, <1>3
  <2>2. PICK g \in Frame : g = frames[i]
    BY <1>1, <2>1
  <2>3. InRow(g)
    BY <2>1, <2>2 DEF Stacked, Laid
  <2>4. PICK b \in Nat : b = Body(i)
    <3>1. CASE i = m
      BY <1>2, <1>4, <3>1 DEF Body
    <3>2. CASE i # m
      <4>1. i + 1 \in 1 .. Len(frames) /\ i < Len(frames)
        BY <1>2, <3>2
      <4>2. frames[i + 1].start \in Nat
        BY <1>1, <4>1 DEF Frame
      <4> QED
        BY <4>1, <4>2 DEF Body
    <3> QED
      BY <3>1, <3>2
  <2>5. Gathers(g, b)
    BY <2>1, <2>2, <2>4 DEF Gathered
  <2>6. Gathers(g, b)'
    BY <1>5, <1>6, <2>3, <2>5, StillGathers
  <2>7. b = Body(i)'
    <3>1. CASE i = m
      <4>1. b = h /\ frames'[i + 1] = f
        BY <1>2, <1>3, <1>4, <2>4, <3>1 DEF Body
      <4> QED
        BY <1>4, <2>1, <4>1 DEF Body
    <3>2. CASE i # m
      <4>1. i + 1 \in 1 .. m /\ i < Len(frames)
        BY <1>2, <3>2
      <4> QED
        BY <1>3, <2>1, <2>4, <4>1 DEF Body
    <3> QED
      BY <3>1, <3>2
  <2> QED
    BY <1>3, <2>2, <2>6, <2>7
<1>9. \E g \in Frame, b \in Nat : g = frames'[m + 1] /\ b = Body(m + 1)' /\ Gathers(g, b)'
  <2>1. PICK b \in Nat : b = Here'
    BY <1>5
  <2>2. b = Body(m + 1)'
    BY <1>3, <2>1 DEF Body
  <2>3. DOMAIN f.kids = {}
    OBVIOUS
  <2>4. Gathers(f, b)'
    <3>1. Spaced(f.kids)'
      BY <2>3 DEF Spaced
    <3>2. \A j \in 1 .. Out' : Hi'[j] < f.start
      BY <1>4, <1>7
    <3> QED
      BY <2>3, <3>1, <3>2 DEF Gathers
  <2> QED
    BY <1>3, <2>2, <2>4
<1>10. Gathered'
  <2>1. \A i \in 1 .. Len(frames') : i \in 1 .. m \/ i = m + 1
    BY <1>3
  <2> QED
    BY <1>8, <1>9, <2>1, GatheredNext
<1>11. Ascending'
  <2>1. \A i \in 1 .. m : frames[i].start \in Nat /\ frames[i].start <= h
    <3>1. ASSUME NEW i \in 1 .. m PROVE frames[i].start \in Nat /\ frames[i].start <= h
      <4>1. frames[i].start \in 1 .. h
        BY <1>2, <1>4 DEF Stacked, Laid
      <4> QED
        BY <4>1
    <3> QED
      BY <3>1
  <2>2. ASSUME NEW i \in 1 .. Len(frames'), NEW k \in 1 .. Len(frames'), i <= k
        PROVE  frames'[i].start <= frames'[k].start
    <3>1. CASE k \in 1 .. m
      <4>1. i \in 1 .. m
        BY <1>3, <2>2, <3>1
      <4> QED
        BY <1>2, <1>3, <2>2, <3>1, <4>1 DEF Ascending
    <3>2. CASE k = m + 1
      <4>1. frames'[k].start = h
        BY <1>3, <1>4, <3>2
      <4>2. CASE i \in 1 .. m
        BY <1>3, <2>1, <4>1, <4>2
      <4>3. CASE i = m + 1
        BY <1>4, <1>3, <4>1, <4>3
      <4> QED
        BY <1>3, <4>2, <4>3
    <3> QED
      BY <1>3, <3>1, <3>2
  <2> QED
    BY <2>2 DEF Ascending
<1> QED
  BY <1>10, <1>11

LEMMA NodesBehind ==
    ASSUME Typed, NodesFit, NEW h \in Nat, h = Here
    PROVE  \A j \in 1 .. Out : Lo[j] \in Nat /\ Hi[j] \in Nat /\ Lo[j] <= Hi[j] /\ Hi[j] < h
<1>1. ASSUME NEW j \in 1 .. Out
      PROVE  Lo[j] \in Nat /\ Hi[j] \in Nat /\ Lo[j] <= Hi[j] /\ Hi[j] < h
  <2>1. Lo[j] \in 1 .. Hi[j] /\ Hi[j] \in 1 .. h - 1
    BY DEF NodesFit, NodeFits, Placed
  <2> QED
    BY <2>1
<1> QED
  BY <1>1

LEMMA NestedNext ==
    ASSUME Still, \A n \in 1 .. Out : Nested(n), Out' \in Nat, Out <= Out',
           \A n \in Out + 1 .. Out' : Nested(n)'
    PROVE  \A n \in 1 .. Out' : Nested(n)'
<1>1. Out \in Nat
  BY StillThere
<1>2. \A n \in 1 .. Out' : n \in 1 .. Out \/ n \in Out + 1 .. Out'
  BY <1>1
<1> QED
  BY <1>2, StillNested

(* Pieces are read, and nothing is made of them yet. *)
LEMMA ReadGathers ==
    ASSUME Still, Stacked, Gathered, Ascending, frames' = frames, nodes' = nodes,
           (at # "return" /\ at' # "return") \/ frames = << >>
    PROVE  Gathered' /\ Ascending'
<1>1. CASE frames = << >>
  <2>1. \A i \in 1 .. Len(frames') : FALSE
    BY <1>1
  <2> QED
    BY <2>1 DEF Gathered, Ascending
<1>2. CASE frames # << >>
  <2>1. at # "return" /\ at' # "return"
    BY <1>2
  <2>2. PICK f \in Frame : f = Top
    BY <1>2, FrameFacts DEF Still
  <2>3. PICK h \in Nat, b \in Nat : h = Here /\ b = Here' /\ h <= b
    BY StillThere
  <2>4. Gathers(f, h)
    BY <1>2, <2>1, <2>2, <2>3, TopGathers DEF Still
  <2>5. Out' \in Nat /\ Out <= Out' /\ \A n \in Out + 1 .. Out' : FALSE
    BY NoMore DEF Still
  <2>6. \A j \in 1 .. Out : ~(h <= Lo[j])
    <3>1. \A j \in 1 .. Out : Lo[j] \in Nat /\ Hi[j] \in Nat /\ Lo[j] <= Hi[j] /\ Hi[j] < h
      BY <2>3, NodesBehind DEF Still
    <3> QED
      BY <3>1
  <2>7. InRow(f)
    BY <1>2, <2>2, TopLaid DEF Still
  <2>8. Gathers(f, b)'
    BY <2>3, <2>4, <2>5, <2>6, <2>7, StillGathers
  <2>9. b = IF at' = "return" THEN Lo'[Out'] ELSE Here'
    BY <2>1, <2>3
  <2> QED
    BY <1>2, <2>2, <2>5, <2>8, <2>9, SameGathers
<1> QED
  BY <1>1, <1>2

LEMMA StayGrouped ==
    ASSUME Typed, Inductive, Grouped,
           EndOfText \/ InFuncDec \/ InExpression \/ ReturnToCaller \/ BeginElse
    PROVE  Grouped'
<1>1. /\ nodes' = nodes /\ frames' = frames /\ at # "error"
      /\ (at # "return" /\ at' # "return") \/ frames = << >>
      /\ Still /\ Stacked
  BY Stays
<1>2. Gathered /\ Ascending /\ \A n \in 1 .. Out : Nested(n)
  BY <1>1 DEF Grouped
<1>3. Gathered' /\ Ascending'
  BY <1>1, <1>2, ReadGathers
<1>4. \A n \in 1 .. Out' : Nested(n)'
  BY <1>1, <1>2, NestedNext, NoMore
<1> QED
  BY <1>3, <1>4 DEF Grouped

LEMMA OpenGrouped ==
    ASSUME Typed, Inductive, Grouped,
           \/ BeginFunction \/ BeginGlobalBasic \/ OpenBlock \/ BeginKeyword
           \/ BeginBasic \/ BeginSingle
    PROVE  Grouped'
<1>1. PICK kind \in {"Function", "Basic", "Return", "While", "If", "Block", "Single"} :
                /\ frames' = Append(frames, Opened(kind))
                /\ kind = "Function" => at' = "fname"
                /\ kind = "Block" => at' = "part"
                /\ kind = "Single" => at' = "statement"
                /\ kind \in {"Basic", "Return", "While", "If"} => at' = "operand"
  BY Opens
<1>2. at \in {"globals", "part", "statement", "block", "body"} /\ nodes' = nodes
  BY Opens
<1>3. Typed' /\ Kept
  BY OpenTyped
<1>4. KidsOlder /\ NodesFit /\ Stacked /\ at # "return" /\ at' # "return" /\ at # "error"
  BY <1>1, <1>2, AtWork
<1>5. Still
  BY <1>2, <1>3, <1>4, NoNode
<1>6. PICK f \in Frame : f = Opened(kind)
  BY <1>1, OpenedTyped
<1>7. f.start = Here /\ f.kids = << >> /\ frames' = Append(frames, f)
  BY <1>1, <1>6 DEF Opened
<1>8. Gathered /\ Ascending /\ \A n \in 1 .. Out : Nested(n)
  BY <1>4 DEF Grouped
<1>9. Gathered' /\ Ascending'
  BY <1>2, <1>4, <1>5, <1>7, <1>8, PushGathers
<1>10. \A n \in 1 .. Out' : Nested(n)'
  BY <1>2, <1>5, <1>8, NestedNext, NoMore
<1> QED
  BY <1>9, <1>10 DEF Grouped

(* A statement that ends is the node of all its parts. *)
LEMMA EndMakes ==
    ASSUME Typed, Typed', Inductive, Inductive',
           \/ FinishFuncDec \/ CloseBlock \/ FinishSingle \/ FinishWhile \/ FinishFunction
           \/ FinishIf \/ FinishIfElse
    PROVE  /\ Still /\ Stacked /\ Now /\ at # "error" /\ frames # << >>
           /\ frames' = Front(frames) /\ at' = "return"
           /\ Out \in Nat /\ Out' = Out + 1
           /\ Lo'[Out'] = Top.start /\ Hi'[Out'] = Here' - 1
           /\ nodes'[Out'].kids = IF at = "return" THEN Append(Top.kids, Out) ELSE Top.kids
<1>1. /\ at \in {"body", "part", "return", "else"} /\ frames # << >> /\ at' = "return"
      /\ frames' = Front(frames) /\ Kept
  BY Ends, EndTyped
<1>2. KidsOlder /\ NodesFit /\ Stacked /\ Now /\ at # "error"
  BY <1>1, AtWork
<1>3. PICK f \in Frame : f = Top
  BY <1>1, <1>2, TopLaid
<1>4. /\ InRow(f) /\ Worded(f) /\ f.start \in 1 .. Here /\ f.start \in Nat /\ f.start # 0
      /\ f.kids \in Seq(Nat)
  BY <1>1, <1>2, <1>3, TopLaid
<1>5. Out \in Nat /\ Here \in Nat /\ Here - 1 \in Nat
  BY Numbers
<1>6. PICK kids \in Seq(Nat) : kids = IF at = "return" THEN Append(f.kids, Out) ELSE f.kids
  <2>1. f.kids \in Seq(Nat) /\ Append(f.kids, Out) \in Seq(Nat)
    <3>1. f.kids \in Seq(Nat)
      BY <1>4
    <3> QED
      BY <1>5, <3>1, AppendProperties
  <2>2. CASE at = "return"
    BY <2>1, <2>2
  <2>3. CASE at # "return"
    BY <2>1, <2>3
  <2> QED
    BY <2>2, <2>3
<1>7. Hi'[Out'] = Here' - 1
  BY <1>1 DEF Inductive, Now, InHand
<1>8. CASE \/ FinishFuncDec \/ CloseBlock \/ FinishWhile \/ FinishFunction \/ FinishIfElse
  <2>1. \E kind \in {"FuncDec", "Block", "While", "Function", "If"}, last \in Nat :
            nodes' = Append(nodes, Made(kind, f.start, last, kids))
    <3>1. CASE FinishFuncDec
      <4>1. at = "body" /\ nodes' = Append(nodes, Made("FuncDec", f.start, Here, << >>))
        BY <1>3, <3>1 DEF FinishFuncDec
      <4>2. Top.kind = "Function"
        BY <4>1 DEF Typed, Owned
      <4>3. f.kids = << >>
        BY <1>3, <1>4, <4>2 DEF Worded
      <4>4. kids = << >>
        BY <1>6, <4>1, <4>3
      <4> QED
        BY <1>5, <4>1, <4>4
    <3>2. CASE CloseBlock
      BY <1>3, <1>5, <1>6, <3>2 DEF CloseBlock
    <3>3. CASE FinishWhile
      <4>1. at = "return" /\ nodes' = Append(nodes, Made("While", f.start, Here - 1, Append(f.kids, Out)))
        BY <1>3, <1>4, <3>3 DEF FinishWhile, ReturnTo, Finish, Out
      <4> QED
        BY <1>5, <1>6, <4>1
    <3>4. CASE FinishFunction
      <4>1. at = "return" /\ nodes' = Append(nodes, Made("Function", f.start, Here - 1, Append(f.kids, Out)))
        BY <1>3, <1>4, <3>4 DEF FinishFunction, ReturnTo, Finish, Out
      <4> QED
        BY <1>5, <1>6, <4>1
    <3>5. CASE FinishIfElse
      <4>1. at = "return" /\ nodes' = Append(nodes, Made("If", f.start, Here - 1, Append(f.kids, Out)))
        BY <1>3, <1>4, <3>5 DEF FinishIfElse, ReturnTo, Finish, Out
      <4> QED
        BY <1>5, <1>6, <4>1
    <3> QED
      BY <1>8, <3>1, <3>2, <3>3, <3>4, <3>5
  <2>2. PICK kind \in {"FuncDec", "Block", "While", "Function", "If"}, last \in Nat :
            nodes' = Append(nodes, Made(kind, f.start, last, kids))
    BY <2>1
  <2>3. PICK m \in Node : m = Made(kind, f.start, last, kids)
    <3>1. kind \in Kinds
      BY DEF Kinds
    <3> QED
      BY <1>4, <3>1, MadeTyped
  <2>4. m.first = f.start /\ m.kids = kids /\ nodes' = Append(nodes, m)
    BY <2>2, <2>3 DEF Made
  <2>5. Still /\ Out' = Out + 1 /\ nodes'[Out'] = m /\ Lo'[Out'] = f.start
    BY <1>1, <1>4, <2>4, MadeNode
  <2> QED
    BY <1>1, <1>2, <1>3, <1>5, <1>6, <1>7, <2>4, <2>5
<1>9. CASE FinishSingle
  <2>1. at = "return" /\ f.kind = "Single" /\ nodes' = Append(nodes, Made("Block", 0, 0, kids))
    BY <1>3, <1>6, <1>9 DEF FinishSingle, ReturnTo, Finish, Out
  <2>2. f.kids = << >> /\ kids = <<Out>>
    <3>1. f.kids = << >>
      BY <1>4, <2>1 DEF Worded
    <3> QED
      BY <1>5, <1>6, <2>1, <3>1
  <2>3. Begins(f, Lo[Out])
    BY <1>1, <1>2, <1>3, <2>1, Returned
  <2>4. Lo[Out] = f.start
    BY <2>1, <2>2, <2>3 DEF Begins, From
  <2>5. PICK m \in Node : m = Made("Block", 0, 0, kids)
    <3>1. "Block" \in Kinds /\ 0 \in Nat
      BY DEF Kinds
    <3> QED
      BY <3>1, MadeTyped
  <2>6. m.kind = "Block" /\ m.first = 0 /\ m.kids = kids /\ nodes' = Append(nodes, m)
    BY <2>1, <2>5 DEF Made
  <2>7. Still /\ Out' = Out + 1 /\ nodes'[Out'] = m /\ Lo'[Out'] = Lo[m.kids[1]]
    <3>1. m.kind # "If"
      BY <2>6
    <3> QED
      BY <1>1, <2>6, <3>1, MadeNode
  <2>8. Lo'[Out'] = f.start
    BY <2>2, <2>4, <2>6, <2>7
  <2> QED
    BY <1>1, <1>2, <1>3, <1>5, <1>6, <1>7, <2>6, <2>7, <2>8
<1>10. CASE FinishIf
  <2>1. at = "else" /\ nodes' = Append(nodes, Made("If", 0, 0, kids)) /\ kids = f.kids
    BY <1>3, <1>6, <1>10 DEF FinishIf
  <2>2. f.kind = "If" /\ f.kids # << >>
    BY <1>2, <1>3, <2>1 DEF Typed, Owned, Now
  <2>3. Lo[f.kids[1]] = f.start + 1
    BY <1>4, <2>2 DEF InRow, From
  <2>4. PICK m \in Node : m = Made("If", 0, 0, kids)
    <3>1. "If" \in Kinds /\ 0 \in Nat
      BY DEF Kinds
    <3> QED
      BY <3>1, MadeTyped
  <2>5. m.kind = "If" /\ m.first = 0 /\ m.kids = kids /\ nodes' = Append(nodes, m)
    BY <2>1, <2>4 DEF Made
  <2>6. Still /\ Out' = Out + 1 /\ nodes'[Out'] = m /\ Lo'[Out'] = Lo[m.kids[1]] - 1
    BY <1>1, <2>5, MadeNode
  <2>7. Lo'[Out'] = f.start
    <3>1. (f.start + 1) - 1 = f.start
      BY <1>4
    <3> QED
      BY <2>1, <2>3, <2>5, <2>6, <3>1
  <2> QED
    BY <1>1, <1>2, <1>3, <1>5, <1>6, <1>7, <2>5, <2>6, <2>7
<1> QED
  BY <1>8, <1>9, <1>10

LEMMA BeginsLater ==
    ASSUME Typed, NodesFit, NEW f \in Frame, InRow(f), NEW e, Gathers(f, e),
           NEW b \in Nat, Begins(f, b)
    PROVE  f.start <= b
<1>1. /\ f.start \in Nat
      /\ f.kids # << >> => Len(f.kids) \in DOMAIN f.kids
      /\ Len(f.kids) = 2 => 2 \in DOMAIN f.kids
      /\ \A x \in DOMAIN f.kids : f.kids[x] \in 1 .. Out
  BY RowFacts
<1>2. PICK h \in Nat : h = Here
  BY Numbers
<1>3. \A x \in DOMAIN f.kids : Hi[f.kids[x]] \in Nat /\ f.start <= Hi[f.kids[x]]
  <2>1. \A x \in DOMAIN f.kids : f.start <= Lo[f.kids[x]]
    BY DEF Gathers
  <2>2. \A j \in 1 .. Out : Lo[j] \in Nat /\ Hi[j] \in Nat /\ Lo[j] <= Hi[j]
    BY <1>2, NodesBehind
  <2> QED
    BY <1>1, <2>1, <2>2
<1>4. CASE f.kind = "Function"
  <2>1. f.start < b - 1
    BY <1>4 DEF Begins
  <2> QED
    BY <1>1, <2>1
<1>5. CASE f.kind = "If" /\ Len(f.kids) = 2
  <2>1. b = Hi[f.kids[2]] + 2 /\ 2 \in DOMAIN f.kids
    BY <1>1, <1>5 DEF Begins
  <2> QED
    BY <1>1, <1>3, <2>1
<1>6. CASE f.kind # "Function" /\ ~(f.kind = "If" /\ Len(f.kids) = 2)
  <2>1. b = IF f.kids = << >> THEN From(f) ELSE Hi[Last(f.kids)] + 1
    BY <1>6 DEF Begins
  <2>2. CASE f.kids = << >>
    <3>1. b \in {f.start, f.start + 1}
      BY <2>1, <2>2 DEF From
    <3> QED
      BY <1>1, <3>1
  <2>3. CASE f.kids # << >>
    <3>1. b = Hi[f.kids[Len(f.kids)]] + 1 /\ Len(f.kids) \in DOMAIN f.kids
      BY <1>1, <2>1, <2>3 DEF Last
    <3> QED
      BY <1>1, <1>3, <3>1
  <2> QED
    BY <2>2, <2>3
<1> QED
  BY <1>4, <1>5, <1>6

(* The node that is returned is the last part of what it is returned to. *)
LEMMA PartAdded ==
    ASSUME Still, Stacked, Now, Gathered, frames # << >>, at = "return",
           NEW f \in Frame, f = Top, NEW k \in Seq(Nat), k = Append(f.kids, Out)
    PROVE  /\ Spaced(k)'
           /\ \A x \in DOMAIN k : k[x] \in 1 .. Out /\ f.start <= Lo[k[x]]
           /\ \A j \in 1 .. Out : Hi'[j] < f.start \/ \E x \in DOMAIN k : Inside(j, k[x])'
<1>1. PICK h \in Nat \ {0} : h = Here
  BY StillThere
<1>2. \A j \in 1 .. Out : /\ Lo'[j] = Lo[j] /\ Hi'[j] = Hi[j] /\ Lo[j] \in Nat /\ Hi[j] \in Nat
                          /\ Lo[j] <= Hi[j] /\ Hi[j] < h
  BY <1>1, StillThere, NodesBehind DEF Still
<1>3. PICK old \in Seq(Nat) : old = f.kids
  BY RowFacts, TopLaid DEF Still
<1>4. \A x \in DOMAIN old : old[x] \in 1 .. Out
  BY <1>3, TopLaid DEF Still, InRow
<1>5. f.start \in Nat /\ Out \in Nat
  BY TopLaid, StillThere DEF Still
<1>6. /\ Out \in 1 .. Out /\ Lo[Out] \in Nat /\ Hi[Out] = h - 1 /\ Lo[Out] <= Hi[Out]
  BY <1>1, <1>2, Returned DEF Still
<1>7. PICK b \in Nat : b = Lo[Out]
  BY <1>6
<1>8. Gathers(f, b)
  BY <1>7, TopGathers DEF Still
<1>9. f.start <= b
  <2>1. Begins(f, b)
    BY <1>7, Returned DEF Still
  <2>2. InRow(f)
    BY TopLaid DEF Still
  <2> QED
    BY <1>7, <1>8, <2>1, <2>2, BeginsLater DEF Still
<1>10. /\ DOMAIN k = 1 .. Len(old) + 1 /\ k[Len(old) + 1] = Out
       /\ \A x \in 1 .. Len(old) : k[x] = old[x]
       /\ DOMAIN old = 1 .. Len(old) /\ Len(old) \in Nat
  BY <1>3, <1>5, AppendProperties
<1>11. PICK l \in Nat : l = Len(old)
  BY <1>10
<1>12. /\ Spaced(old) /\ \A x \in DOMAIN old : f.start <= Lo[old[x]] /\ Hi[old[x]] < b
       /\ \A j \in 1 .. Out :
            Hi[j] < f.start \/ b <= Lo[j] \/ \E x \in DOMAIN old : Inside(j, old[x])
  BY <1>3, <1>8 DEF Gathers
<1>13. /\ DOMAIN k = 1 .. l + 1 /\ DOMAIN old = 1 .. l /\ k[l + 1] = Out
       /\ \A x \in 1 .. l : k[x] = old[x]
  BY <1>10, <1>11
<1>14. \A x \in 1 .. l + 1 : x \in 1 .. l \/ x = l + 1
  OBVIOUS
<1>15. \A x \in 1 .. l : old[x] \in 1 .. Out
  BY <1>4, <1>13
<1>16. Spaced(k)'
  <2>1. ASSUME NEW x \in 1 .. l + 1, NEW y \in 1 .. l + 1, x < y
        PROVE  Hi'[k[x]] < Lo'[k[y]]
    <3>1. x \in 1 .. l
      BY <2>1
    <3>2. CASE y \in 1 .. l
      BY <1>2, <1>12, <1>13, <1>15, <2>1, <3>1, <3>2 DEF Spaced
    <3>3. CASE y = l + 1
      BY <1>2, <1>6, <1>7, <1>12, <1>13, <1>15, <3>1, <3>3
    <3> QED
      BY <1>14, <3>2, <3>3
  <2> QED
    BY <1>13, <2>1 DEF Spaced
<1>17. ASSUME NEW x \in 1 .. l + 1
       PROVE  k[x] \in 1 .. Out /\ f.start <= Lo[k[x]]
  <2>1. CASE x \in 1 .. l
    BY <1>12, <1>13, <1>15, <2>1
  <2>2. CASE x = l + 1
    BY <1>6, <1>7, <1>9, <1>13, <2>2
  <2> QED
    BY <1>14, <2>1, <2>2
<1>18. ASSUME NEW j \in 1 .. Out
       PROVE  Hi'[j] < f.start \/ \E x \in DOMAIN k : Inside(j, k[x])'
  <2>1. CASE b <= Lo[j]
    <3>1. j <= Out /\ Hi[j] <= Hi[Out]
      BY <1>2, <1>6
    <3>2. l + 1 \in DOMAIN k /\ k[l + 1] = Out
      BY <1>13
    <3>3. j <= Out /\ Lo'[Out] <= Lo'[j] /\ Hi'[j] <= Hi'[Out]
      BY <1>2, <1>6, <1>7, <2>1, <3>1
    <3> QED
      BY <3>2, <3>3 DEF Inside
  <2>2. CASE \E x \in DOMAIN old : Inside(j, old[x])
    <3>1. PICK x \in 1 .. l : Inside(j, old[x])
      BY <1>13, <2>2
    <3>2. x \in DOMAIN k /\ k[x] = old[x] /\ old[x] \in 1 .. Out
      BY <1>13, <1>15
    <3>3. PICK y \in 1 .. Out : y = k[x] /\ y = old[x]
      BY <3>2
    <3>4. j <= y /\ Lo[y] <= Lo[j] /\ Hi[j] <= Hi[y]
      BY <3>1, <3>3 DEF Inside
    <3>5. j <= y /\ Lo'[y] <= Lo'[j] /\ Hi'[j] <= Hi'[y]
      BY <1>2, <3>4
    <3> QED
      BY <3>2, <3>3, <3>5 DEF Inside
  <2>3. CASE Hi[j] < f.start
    BY <1>2, <2>3
  <2> QED
    BY <1>12, <2>1, <2>2, <2>3
<1> QED
  BY <1>13, <1>16, <1>17, <1>18

(* The node of a statement that ends holds all that was made for it.       *)
LEMMA ClosedNested ==
    ASSUME Still, Stacked, Now, Gathered, frames # << >>, Out \in Nat, Out' = Out + 1,
           NEW f \in Frame, f = Top, NEW g \in Nat, g = Here', NEW k \in Seq(Nat),
           k = IF at = "return" THEN Append(f.kids, Out) ELSE f.kids,
           nodes'[Out'].kids = k, Lo'[Out'] = f.start, Hi'[Out'] = g - 1
    PROVE  Nested(Out)'
<1>1. PICK h \in Nat \ {0} : h = Here /\ h <= g
  BY StillThere
<1>2. \A j \in 1 .. Out : /\ Lo'[j] = Lo[j] /\ Hi'[j] = Hi[j] /\ Lo[j] \in Nat /\ Hi[j] \in Nat
                          /\ Lo[j] <= Hi[j] /\ Hi[j] < h
  BY <1>1, StillThere, NodesBehind DEF Still
<1>3. PICK old \in Seq(Nat) : old = f.kids
  BY RowFacts, TopLaid DEF Still
<1>4. \A x \in DOMAIN old : old[x] \in 1 .. Out
  BY <1>3, TopLaid DEF Still, InRow
<1>5. f.start \in Nat
  BY TopLaid DEF Still
<1>8. \A y \in 1 .. Out : Lo'[y] = Lo[y] /\ Hi'[y] <= g - 1
  <2>1. ASSUME NEW y \in 1 .. Out PROVE Lo'[y] = Lo[y] /\ Hi'[y] <= g - 1
    <3>1. Lo'[y] = Lo[y] /\ Hi'[y] = Hi[y] /\ Hi[y] \in Nat /\ Hi[y] < h
      BY <1>2
    <3>2. h \in Nat /\ g \in Nat /\ h <= g
      BY <1>1
    <3>3. \A a, b, c \in Nat : a < b /\ b <= c => a <= c - 1
      OBVIOUS
    <3> QED
      BY <3>1, <3>2, <3>3
  <2> QED
    BY <2>1
<1>6. CASE at # "return"
  <2>1. Gathers(f, h)
    BY <1>1, <1>6, TopGathers DEF Still
  <2>2. k = old
    BY <1>3, <1>6
  <2>3. /\ Spaced(old) /\ \A x \in DOMAIN old : f.start <= Lo[old[x]]
        /\ \A j \in 1 .. Out : Hi[j] < f.start \/ h <= Lo[j] \/ \E x \in DOMAIN old : Inside(j, old[x])
    BY <1>3, <2>1 DEF Gathers
  <2>4. Spaced(k)'
    BY <1>2, <1>4, <2>2, <2>3 DEF Spaced
  <2>5. \A x \in DOMAIN k : f.start <= Lo'[k[x]] /\ Hi'[k[x]] <= g - 1
    <3>1. ASSUME NEW x \in DOMAIN k PROVE f.start <= Lo'[k[x]] /\ Hi'[k[x]] <= g - 1
      <4>1. k[x] \in 1 .. Out /\ f.start <= Lo[k[x]]
        BY <1>4, <2>2, <2>3
      <4> QED
        BY <1>8, <4>1
    <3> QED
      BY <3>1
  <2>6. ASSUME NEW j \in 1 .. Out
        PROVE  Hi'[j] < f.start \/ \E x \in DOMAIN k : Inside(j, k[x])'
    <3>1. CASE Hi[j] < f.start
      BY <1>2, <3>1
    <3>2. CASE h <= Lo[j]
      <4>1. h \in Nat /\ Lo[j] \in Nat /\ Hi[j] \in Nat /\ Lo[j] <= Hi[j] /\ Hi[j] < h
        BY <1>1, <1>2
      <4> QED
        BY <3>2, <4>1
    <3>3. CASE \E x \in DOMAIN old : Inside(j, old[x])
      <4>1. PICK x \in DOMAIN k : Inside(j, k[x])
        BY <2>2, <3>3
      <4>2. PICK y \in 1 .. Out : y = k[x]
        BY <1>4, <2>2
      <4>3. j <= y /\ Lo[y] <= Lo[j] /\ Hi[j] <= Hi[y]
        BY <4>1, <4>2 DEF Inside
      <4>4. j <= y /\ Lo'[y] <= Lo'[j] /\ Hi'[j] <= Hi'[y]
        BY <1>2, <4>3
      <4> QED
        BY <4>2, <4>4 DEF Inside
    <3> QED
      BY <2>3, <3>1, <3>2, <3>3
  <2>7. \A j \in 1 .. Out' - 1 : j \in 1 .. Out
    OBVIOUS
  <2> QED
    BY <2>4, <2>5, <2>6, <2>7 DEF Nested
<1>7. CASE at = "return"
  <2>1. k = Append(f.kids, Out)
    BY <1>7
  <2>2. /\ Spaced(k)'
        /\ \A x \in DOMAIN k : k[x] \in 1 .. Out /\ f.start <= Lo[k[x]]
        /\ \A j \in 1 .. Out : Hi'[j] < f.start \/ \E x \in DOMAIN k : Inside(j, k[x])'
    BY <1>7, <2>1, PartAdded
  <2>3. \A x \in DOMAIN k : f.start <= Lo'[k[x]] /\ Hi'[k[x]] <= g - 1
    <3>1. ASSUME NEW x \in DOMAIN k PROVE f.start <= Lo'[k[x]] /\ Hi'[k[x]] <= g - 1
      <4>1. k[x] \in 1 .. Out /\ f.start <= Lo[k[x]]
        BY <2>2
      <4> QED
        BY <1>8, <4>1
    <3> QED
      BY <3>1
  <2>4. \A j \in 1 .. Out' - 1 : j \in 1 .. Out
    OBVIOUS
  <2>5. \A j \in 1 .. Out' - 1 : Hi'[j] < f.start \/ \E x \in DOMAIN k : Inside(j, k[x])'
    BY <2>2, <2>4
  <2> QED
    BY <2>2, <2>3, <2>5 DEF Nested
<1> QED
  BY <1>6, <1>7

LEMMA EndGrouped ==
    ASSUME Typed, Typed', Inductive, Inductive', Grouped,
           \/ FinishFuncDec \/ CloseBlock \/ FinishSingle \/ FinishWhile \/ FinishFunction
           \/ FinishIf \/ FinishIfElse
    PROVE  Grouped'
<1>1. /\ Still /\ Stacked /\ Now /\ at # "error" /\ frames # << >>
      /\ frames' = Front(frames) /\ at' = "return"
      /\ Out \in Nat /\ Out' = Out + 1
      /\ Lo'[Out'] = Top.start /\ Hi'[Out'] = Here' - 1
      /\ nodes'[Out'].kids = IF at = "return" THEN Append(Top.kids, Out) ELSE Top.kids
  BY EndMakes
<1>2. Gathered /\ Ascending /\ \A n \in 1 .. Out : Nested(n)
  BY <1>1 DEF Grouped
<1>3. PICK f \in Frame : f = Top
  BY <1>1, TopLaid DEF Still
<1>4. f.start \in Nat /\ f.kids \in Seq(Nat)
  BY <1>1, <1>3, TopLaid DEF Still
<1>5. PICK g \in Nat : g = Here'
  BY <1>1, StillThere
<1>6. PICK k \in Seq(Nat) : k = IF at = "return" THEN Append(f.kids, Out) ELSE f.kids
  <2>1. Append(f.kids, Out) \in Seq(Nat)
    BY <1>1, <1>4, AppendProperties
  <2>2. CASE at = "return"
    BY <2>1, <2>2
  <2>3. CASE at # "return"
    BY <1>4, <2>3
  <2> QED
    BY <2>2, <2>3
<1>7. nodes'[Out'].kids = k /\ Lo'[Out'] = f.start /\ Hi'[Out'] = g - 1
  BY <1>1, <1>3, <1>5, <1>6
<1>8. Nested(Out)'
  BY <1>1, <1>2, <1>3, <1>5, <1>6, <1>7, ClosedNested
<1>9. Out' \in Nat /\ Out <= Out' /\ \A n \in Out + 1 .. Out' : n = Out'
  <2>1. \A x \in Nat : x + 1 \in Nat /\ x <= x + 1 /\ \A n \in x + 1 .. x + 1 : n = x + 1
    OBVIOUS
  <2> QED
    BY <1>1, <2>1
<1>10. \A n \in Out + 1 .. Out' : Lo'[n] \in Nat /\ Top.start <= Lo'[n]
  <2>1. Lo'[Out'] \in Nat /\ Top.start <= Lo'[Out']
    BY <1>3, <1>4, <1>7
  <2> QED
    BY <1>9, <2>1
<1>11. \A n \in Out + 1 .. Out' : Nested(n)'
  <2>1. ASSUME NEW n \in Out + 1 .. Out' PROVE Nested(n)'
    <3>1. n = Out'
      BY <1>9
    <3> QED
      BY <1>8, <3>1 DEF Nested, Inside
  <2> QED
    BY <2>1
<1>12. Gathered' /\ Ascending'
  BY <1>1, <1>2, <1>9, <1>10, PopGathers
<1>13. \A n \in 1 .. Out' : Nested(n)'
  BY <1>1, <1>2, <1>9, <1>11, NestedNext
<1> QED
  BY <1>12, <1>13 DEF Grouped

(* A node that has no parts, behind all there was. *)
LEMMA LeafNested ==
    ASSUME NEW o, nodes'[o].kids = << >>, \A j \in 1 .. o - 1 : Hi'[j] < Lo'[o]
    PROVE  Nested(o)'
<1>1. DOMAIN << >> = {}
  OBVIOUS
<1>2. Spaced(nodes[o].kids)'
  BY <1>1 DEF Spaced
<1> QED
  BY <1>1, <1>2 DEF Nested

LEMMA BehindTop ==
    ASSUME Still, Stacked, Gathered, frames # << >>, at # "return", Top.kids = << >>
    PROVE  \A j \in 1 .. Out : Hi'[j] = Hi[j] /\ Hi[j] \in Nat /\ Hi[j] < Top.start
<1>1. PICK h \in Nat : h = Here
  BY StillThere
<1>2. Gathers(Top, h)
  BY <1>1, TopGathers DEF Still
<1>3. \A j \in 1 .. Out : Hi[j] < Top.start \/ h <= Lo[j]
  <2>1. DOMAIN Top.kids = {}
    OBVIOUS
  <2> QED
    BY <1>2, <2>1 DEF Gathers
<1>4. \A j \in 1 .. Out : Lo[j] \in Nat /\ Hi[j] \in Nat /\ Lo[j] <= Hi[j] /\ Hi[j] < h
  BY <1>1, NodesBehind DEF Still
<1>5. \A j \in 1 .. Out : Hi[j] \in Nat /\ Hi[j] < Top.start
  BY <1>3, <1>4
<1> QED
  BY <1>5, StillThere

LEMMA EmptyBlockGrouped ==
    ASSUME Typed, Typed', Inductive, Inductive', Grouped, EmptyBlock
    PROVE  Grouped'
<1>1. /\ at = "block" /\ at' = "return" /\ frames' = frames
      /\ nodes' = Append(nodes, Made("Block", Here, Here, << >>))
  BY DEF EmptyBlock
<1>2. Kept /\ at # "error" /\ at # "return" /\ frames # << >>
  BY <1>1, EmptyBlockTyped DEF Typed, Owned
<1>3. Stacked /\ Gathered /\ Ascending /\ \A n \in 1 .. Out : Nested(n)
  BY <1>2, AtWork DEF Grouped
<1>4. PICK h \in Nat \ {0} : h = Here
  BY Numbers
<1>5. PICK e \in Node : e = Made("Block", h, h, << >>)
  <2>1. "Block" \in Kinds /\ << >> \in Seq(Nat)
    BY DEF Kinds
  <2>2. Made("Block", h, h, << >>) \in Node
    BY <1>4, <2>1, MadeTyped
  <2> QED
    BY <2>2
<1>6. e.first = h /\ e.first # 0 /\ e.kids = << >> /\ nodes' = Append(nodes, e)
  BY <1>1, <1>4, <1>5 DEF Made
<1>7. Still /\ Out \in Nat /\ Out' = Out + 1 /\ nodes'[Out'] = e /\ Lo'[Out'] = h
  BY <1>2, <1>6, MadeNode
<1>8. PICK f \in Frame : f = Top
  BY <1>2, <1>3, <1>7, TopLaid DEF Still
<1>9. f.start \in Nat /\ f.start <= h /\ InRow(f)
  <2>1. f.start \in 1 .. h /\ InRow(f)
    BY <1>2, <1>3, <1>4, <1>7, <1>8, TopLaid DEF Still
  <2> QED
    BY <1>4, <2>1
<1>10. Out' \in Nat /\ Out <= Out' /\ \A n \in Out + 1 .. Out' : n = Out'
  <2>1. \A x \in Nat : x + 1 \in Nat /\ x <= x + 1 /\ \A n \in x + 1 .. x + 1 : n = x + 1
    OBVIOUS
  <2> QED
    BY <1>7, <2>1
<1>11. \A n \in Out + 1 .. Out' : Lo'[n] \in Nat /\ Top.start <= Lo'[n] /\ h <= Lo'[n]
  <2>1. Lo'[Out'] \in Nat /\ Top.start <= Lo'[Out'] /\ h <= Lo'[Out']
    BY <1>4, <1>7, <1>8, <1>9
  <2> QED
    BY <1>10, <2>1
<1>12. Gathers(f, h)'
  <2>1. Gathers(f, h)
    BY <1>2, <1>3, <1>4, <1>8, TopGathers
  <2>2. h \in Nat /\ h <= h
    BY <1>4
  <2> QED
    BY <1>7, <1>9, <1>10, <1>11, <2>1, <2>2, StillGathers
<1>13. Gathered' /\ Ascending'
  <2>1. h \in Nat /\ h = IF at' = "return" THEN Lo'[Out'] ELSE Here'
    BY <1>1, <1>4, <1>7
  <2> QED
    BY <1>1, <1>2, <1>3, <1>7, <1>8, <1>10, <1>11, <1>12, <2>1, SameGathers
<1>14. \A n \in Out + 1 .. Out' : Nested(n)'
  <2>0. PICK o \in Nat : o = Out' /\ o - 1 = Out
    <3>1. \A x \in Nat : x + 1 \in Nat /\ (x + 1) - 1 = x
      OBVIOUS
    <3> QED
      BY <1>7, <3>1
  <2>1. o = Out' /\ nodes'[o].kids = << >> /\ Lo'[o] = h /\ o - 1 = Out
    BY <1>6, <1>7, <2>0
  <2>2. \A j \in 1 .. o - 1 : Hi'[j] < Lo'[o]
    <3>1. \A j \in 1 .. Out : Hi[j] < h
      BY <1>4, <1>7, NodesBehind DEF Still
    <3>2. \A j \in 1 .. Out : Hi'[j] < h
      BY <1>7, <3>1, StillThere
    <3> QED
      BY <2>1, <3>2
  <2>3. Nested(o)'
    BY <2>1, <2>2, LeafNested
  <2> QED
    BY <1>10, <2>1, <2>3
<1>15. \A n \in 1 .. Out' : Nested(n)'
  BY <1>3, <1>7, <1>10, <1>14, NestedNext
<1> QED
  BY <1>13, <1>15 DEF Grouped

(* One part, behind all there was. *)
LEMMA OneSpaced ==
    ASSUME NEW o
    PROVE  DOMAIN <<o>> = {1} /\ <<o>>[1] = o /\ Spaced(<<o>>)
<1>1. DOMAIN <<o>> = {1} /\ <<o>>[1] = o
  OBVIOUS
<1>2. \A x, y \in {1} : ~(x < y)
  OBVIOUS
<1> QED
  BY <1>1, <1>2 DEF Spaced

LEMMA ConditionGrouped ==
    ASSUME Typed, Typed', Inductive, Inductive', Grouped, Condition
    PROVE  Grouped'
<1>1. /\ E!Ends(Class) /\ Top.kind \in {"While", "If"} /\ at' = "block" /\ input' = input
      /\ nodes' = Append(nodes, Expression)
      /\ frames' = Append(Front(frames), [Top EXCEPT !.kids = <<Out + 1>>])
  BY DEF Condition, Out
<1>2. at = "loop" /\ frames # << >> /\ Top \in Frame /\ Expression \in Node
  BY <1>1, ExpressionFacts
<1>3. /\ Stacked /\ Now /\ NodesFit /\ Gathered /\ Ascending /\ \A n \in 1 .. Out : Nested(n)
      /\ at # "return"
  BY <1>2, AtWork DEF Grouped
<1>4. PICK e \in Node : e = Expression
  BY <1>2
<1>5. PICK h \in Nat \ {0} : h = Here /\ h = Here'
  BY <1>1, Numbers DEF Here
<1>6. /\ e.first = From(Top) /\ e.last = h - 1 /\ e.kids = << >> /\ e.first # 0
      /\ From(Top) \in 1 .. h - 1 /\ Top.kids = << >> /\ nodes' = Append(nodes, e)
  BY <1>1, <1>3, <1>4, <1>5, ExpressionText
<1>7. /\ Still /\ Out \in Nat /\ Out' = Out + 1 /\ nodes'[Out'] = e
      /\ Lo'[Out'] = e.first /\ Hi'[Out'] = e.last
  BY <1>2, <1>6, ConditionTyped, MadeNode
<1>8. PICK s \in Nat, b \in Nat : s = Top.start /\ b = From(Top) /\ s <= b /\ b <= h - 1
  <2>1. Top.start \in Nat /\ From(Top) \in Nat /\ Top.start <= From(Top)
    BY <1>2, <1>3, <1>7, TopLaid DEF Still
  <2> QED
    BY <1>6, <2>1
<1>9. \A j \in 1 .. Out : Hi'[j] = Hi[j] /\ Hi[j] \in Nat /\ Hi[j] < s
  BY <1>2, <1>3, <1>6, <1>7, <1>8, BehindTop
<1>n. PICK o \in Nat : o = Out' /\ o = Out + 1 /\ o - 1 = Out
  <2>1. \A x \in Nat : x + 1 \in Nat /\ (x + 1) - 1 = x
    OBVIOUS
  <2> QED
    BY <1>7, <2>1
<1>10. /\ o = Out' /\ o = Out + 1 /\ o - 1 = Out /\ nodes'[o].kids = << >>
       /\ Lo'[o] = b /\ Hi'[o] = h - 1
  BY <1>6, <1>7, <1>8, <1>n
<1>11. Out' \in Nat /\ Out <= Out' /\ \A n \in Out + 1 .. Out' : n = o
  <2>1. \A x \in Nat : x + 1 \in Nat /\ x <= x + 1 /\ \A n \in x + 1 .. x + 1 : n = x + 1
    OBVIOUS
  <2> QED
    BY <1>7, <1>10, <2>1
<1>12. \A n \in Out + 1 .. Out' : Lo'[n] \in Nat /\ Top.start <= Lo'[n]
  BY <1>8, <1>10, <1>11
<1>13. PICK f \in Frame : f = [Top EXCEPT !.kids = <<o>>]
  <2>1. <<o>> \in Seq(Nat)
    OBVIOUS
  <2> QED
    BY <1>2, <2>1, KidsTyped
<1>14. f.start = s /\ f.kids = <<o>> /\ frames' = Append(Front(frames), f)
  BY <1>1, <1>2, <1>8, <1>10, <1>13 DEF Frame
<1>15. Gathers(f, h)'
  <2>1. DOMAIN f.kids = {1} /\ f.kids[1] = o
    BY <1>14, OneSpaced
  <2>2. Spaced(f.kids)'
    <3>1. \A x, y \in {1} : ~(x < y)
      OBVIOUS
    <3> QED
      BY <2>1, <3>1 DEF Spaced
  <2>3. \A x \in DOMAIN f.kids : f.start <= Lo'[f.kids[x]] /\ Hi'[f.kids[x]] < h
    <3>1. s <= Lo'[o] /\ Hi'[o] < h
      <4>1. h - 1 < h
        OBVIOUS
      <4>2. s <= b /\ Lo'[o] = b /\ Hi'[o] = h - 1
        BY <1>8, <1>10
      <4> QED
        BY <4>1, <4>2
    <3> QED
      BY <1>14, <2>1, <3>1
  <2>4. ASSUME NEW j \in 1 .. Out'
        PROVE  \/ Hi'[j] < f.start \/ h <= Lo'[j]
               \/ \E x \in DOMAIN f.kids : Inside(j, f.kids[x])'
    <3>1. j \in 1 .. Out \/ j = o
      BY <1>7, <1>10
    <3>2. CASE j \in 1 .. Out
      BY <1>9, <1>14, <3>2
    <3>3. CASE j = o
      <4>1. j <= o /\ Lo'[o] <= Lo'[j] /\ Hi'[j] <= Hi'[o]
        BY <1>5, <1>8, <1>10, <3>3
      <4> QED
        BY <2>1, <4>1 DEF Inside
    <3> QED
      BY <3>1, <3>2, <3>3
  <2> QED
    BY <2>2, <2>3, <2>4 DEF Gathers
<1>16. Gathered' /\ Ascending'
  <2>1. h \in Nat /\ at' # "return" /\ f.start = Top.start
    BY <1>1, <1>5, <1>8, <1>14
  <2> QED
    BY <1>2, <1>3, <1>5, <1>7, <1>11, <1>12, <1>14, <1>15, <2>1, SwapGathers
<1>17. \A n \in Out + 1 .. Out' : Nested(n)'
  <2>1. \A j \in 1 .. o - 1 : Hi'[j] < Lo'[o]
    <3>1. \A j \in 1 .. Out : Hi'[j] < b
      BY <1>8, <1>9
    <3> QED
      BY <1>10, <3>1
  <2>2. Nested(o)'
    BY <1>10, <2>1, LeafNested
  <2> QED
    BY <1>11, <2>2
<1>18. \A n \in 1 .. Out' : Nested(n)'
  BY <1>3, <1>7, <1>11, <1>17, NestedNext
<1> QED
  BY <1>16, <1>18 DEF Grouped

LEMMA KeepGrouped ==
    ASSUME Typed, Typed', Inductive, Grouped, NextPart \/ NextGlobal \/ IfThen
    PROVE  Grouped'
<1>1. /\ at = "return" /\ frames # << >> /\ at' # "return"
      /\ frames' = Append(Front(frames), [Top EXCEPT !.kids = Append(@, Out)])
      /\ UNCHANGED <<input, nodes, open>>
  BY DEF NextPart, NextGlobal, IfThen, ReturnTo, Keep, Out
<1>2. Kept
  BY KeepTyped
<1>3. /\ KidsOlder /\ NodesFit /\ Stacked /\ Now
      /\ Gathered /\ Ascending /\ \A n \in 1 .. Out : Nested(n)
  BY <1>1, AtWork DEF Grouped
<1>4. Still
  BY <1>1, <1>2, <1>3, NoNode
<1>5. Out \in Nat /\ Top \in Frame /\ Top.kids \in Seq(Nat) /\ Top.start \in Nat
  BY <1>1, <1>3, TopLaid, Returned
<1>6. PICK f \in Frame : f = Top
  BY <1>5
<1>7. PICK k \in Seq(Nat) : k = Append(f.kids, Out)
  BY <1>5, <1>6, AppendProperties
<1>8. PICK g \in Frame : g = [f EXCEPT !.kids = k]
  BY <1>6, <1>7, KidsTyped
<1>9. g.start = f.start /\ g.kids = k /\ frames' = Append(Front(frames), g)
  BY <1>1, <1>6, <1>7, <1>8 DEF Frame
<1>10. PICK h \in Nat : h = Here /\ h = Here'
  BY <1>1, Numbers DEF Here
<1>11. Out' = Out /\ Out' \in Nat /\ Out <= Out' /\ \A n \in Out + 1 .. Out' : FALSE
  BY <1>1, NoMore DEF Out
<1>12. Gathers(g, h)'
  <2>1. /\ Spaced(k)'
        /\ \A x \in DOMAIN k : k[x] \in 1 .. Out /\ f.start <= Lo[k[x]]
        /\ \A j \in 1 .. Out : Hi'[j] < f.start \/ \E x \in DOMAIN k : Inside(j, k[x])'
    BY <1>1, <1>3, <1>4, <1>6, <1>7, PartAdded
  <2>2. \A j \in 1 .. Out : Lo'[j] = Lo[j] /\ Hi'[j] < h
    <3>1. \A j \in 1 .. Out : Hi[j] < h
      BY <1>4, <1>10, NodesBehind DEF Still
    <3> QED
      BY <1>4, <3>1, StillThere
  <2>3. \A x \in DOMAIN k : f.start <= Lo'[k[x]] /\ Hi'[k[x]] < h
    BY <2>1, <2>2
  <2> QED
    BY <1>9, <1>11, <2>1, <2>3 DEF Gathers
<1>13. Gathered' /\ Ascending'
  <2>1. g.start = Top.start /\ \A n \in Out + 1 .. Out' : Lo'[n] \in Nat /\ Top.start <= Lo'[n]
    BY <1>6, <1>9, <1>11
  <2> QED
    BY <1>1, <1>3, <1>4, <1>9, <1>10, <1>11, <1>12, <2>1, SwapGathers
<1>14. \A n \in 1 .. Out' : Nested(n)'
  BY <1>3, <1>4, <1>11, NestedNext
<1> QED
  BY <1>13, <1>14 DEF Grouped

(* An expression, and the statement that is made of it. *)
LEMMA PairNested ==
    ASSUME Typed, NEW o \in Nat, NEW n \in Nat, n = o + 1,
           nodes'[o].kids = << >>, nodes'[n].kids = <<o>>,
           NEW s \in Nat, NEW b \in Nat, NEW m \in Nat, NEW l \in Nat, s <= b, b <= m, m <= l,
           Lo'[o] = b, Hi'[o] = m, Lo'[n] = s, Hi'[n] = l,
           \A j \in 1 .. o - 1 : Hi'[j] \in Nat /\ Hi'[j] < s
    PROVE  Nested(o)' /\ Nested(n)'
<1>1. Nested(o)'
  <2>1. \A j \in 1 .. o - 1 : Hi'[j] < Lo'[o]
    OBVIOUS
  <2> QED
    BY <2>1, LeafNested
<1>2. DOMAIN <<o>> = {1} /\ <<o>>[1] = o
  BY OneSpaced
<1>3. Spaced(nodes[n].kids)'
  <2>1. \A x, y \in {1} : ~(x < y)
    OBVIOUS
  <2> QED
    BY <1>2, <2>1 DEF Spaced
<1>4. \A x \in DOMAIN nodes'[n].kids :
            Lo'[n] <= Lo'[nodes'[n].kids[x]] /\ Hi'[nodes'[n].kids[x]] <= Hi'[n]
  BY <1>2
<1>5. ASSUME NEW j \in 1 .. n - 1
      PROVE  Hi'[j] < Lo'[n] \/ \E x \in DOMAIN nodes'[n].kids : Inside(j, nodes[n].kids[x])'
  <2>1. j \in 1 .. o - 1 \/ j = o
    OBVIOUS
  <2>2. CASE j \in 1 .. o - 1
    BY <2>2
  <2>3. CASE j = o
    <3>1. j <= o /\ Lo'[o] <= Lo'[j] /\ Hi'[j] <= Hi'[o]
      BY <2>3
    <3> QED
      BY <1>2, <3>1 DEF Inside
  <2> QED
    BY <2>1, <2>2, <2>3
<1>6. Nested(n)'
  BY <1>3, <1>4, <1>5 DEF Nested
<1> QED
  BY <1>1, <1>6

LEMMA FinishSimpleGrouped ==
    ASSUME Typed, Typed', Inductive, Grouped, FinishSimple
    PROVE  Grouped'
<1>1. /\ E!Ends(Class) /\ Top.kind \in {"Basic", "Return"} /\ at' = "return"
      /\ frames' = Front(frames)
      /\ nodes' = nodes \o <<Expression,
            Made(Top.kind, Top.start, IF tok = ";" THEN Here ELSE Here - 1, <<Out + 1>>)>>
  BY DEF FinishSimple, Out
<1>2. Kept
  BY FinishSimpleTyped
<1>3. at = "loop" /\ frames # << >> /\ Top \in Frame
  BY <1>1, ExpressionFacts
<1>4. /\ KidsOlder /\ NodesFit /\ Stacked /\ Now
      /\ Gathered /\ Ascending /\ (\A n \in 1 .. Out : Nested(n)) /\ at # "return"
  BY <1>3, AtWork DEF Grouped
<1>5. Top.start \in Nat \ {0} /\ Top.start \in 1 .. Here
  BY <1>3, <1>4, TopLaid
<1>6. PICK e \in Node : e = Expression
  BY <1>1, ExpressionFacts
<1>7. PICK h \in Nat \ {0} : h = Here
  BY Numbers
<1>8. /\ e.first = From(Top) /\ e.last = h - 1 /\ e.kids = << >> /\ e.first # 0
      /\ From(Top) \in 1 .. h - 1 /\ Top.kids = << >> /\ \A i : NodeShape(e, i)
  BY <1>1, <1>4, <1>6, <1>7, ExpressionText
<1>9. h - 1 \in Nat /\ Out \in Nat
  BY <1>7, Numbers
<1>10. PICK last \in Nat : last = (IF tok = ";" THEN Here ELSE Here - 1) /\ h - 1 <= last
  <2>0. \A y \in Nat : y - 1 <= y /\ y - 1 <= y - 1
    OBVIOUS
  <2>1. CASE tok = ";"
    <3>1. h \in Nat /\ h - 1 <= h
      BY <2>0
    <3> QED
      BY <1>7, <2>1, <3>1
  <2>2. CASE tok # ";"
    <3>1. h - 1 <= h - 1
      BY <2>0
    <3> QED
      BY <1>7, <1>9, <2>2, <3>1
  <2> QED
    BY <2>1, <2>2
<1>11. PICK x \in Node : x = Made(Top.kind, Top.start, last, <<Out + 1>>)
  <2>1. <<Out + 1>> \in Seq(Nat)
    BY <1>9
  <2>2. Top.kind \in Kinds
    BY <1>1 DEF Kinds
  <2>3. Made(Top.kind, Top.start, last, <<Out + 1>>) \in Node
    BY <1>5, <2>1, <2>2, MadeTyped
  <2> QED
    BY <2>3
<1>12. /\ x.kind = Top.kind /\ x.first = Top.start /\ x.last = last /\ x.kids = <<Out + 1>>
       /\ x.first # 0
  BY <1>5, <1>11 DEF Made
<1>13. NodeShape(x, Out + 2)
  <2>1. Out + 1 \in 1 .. (Out + 2) - 1
    BY <1>9
  <2>2. Len(x.kids) = 1 /\ x.kids[1] = Out + 1 /\ DOMAIN x.kids = {1}
    BY <1>9, <1>12
  <2>3. \A i \in DOMAIN x.kids : x.kids[i] \in 1 .. (Out + 2) - 1
    BY <2>1, <2>2
  <2> QED
    BY <1>1, <1>12, <2>2, <2>3 DEF NodeShape
<1>14. /\ Still /\ Out' = Out + 2
       /\ nodes'[Out + 1] = e /\ nodes'[Out'] = x
       /\ Lo'[Out + 1] = From(Top) /\ Hi'[Out + 1] = h - 1
       /\ Lo'[Out'] = Top.start /\ Hi'[Out'] = last
  <2>1. nodes' = nodes \o <<e, x>>
    BY <1>1, <1>6, <1>10, <1>11
  <2>2. NodeShape(e, Out + 1)
    BY <1>8
  <2> QED
    BY <1>2, <1>4, <1>8, <1>12, <1>13, <2>1, <2>2, NewPair
<1>15. PICK o \in Nat, n \in Nat : o = Out + 1 /\ n = Out' /\ n = o + 1 /\ o - 1 = Out
  <2>1. \A y \in Nat : y + 1 \in Nat /\ y + 2 \in Nat /\ y + 2 = (y + 1) + 1 /\ (y + 1) - 1 = y
    OBVIOUS
  <2> QED
    BY <1>9, <1>14, <2>1
<1>16. Out' \in Nat /\ Out <= Out' /\ \A i : i \in Out + 1 .. Out' <=> i = o \/ i = n
  BY <1>9, <1>14, <1>15
<1>17. PICK s \in Nat, b \in Nat : s = Top.start /\ b = From(Top) /\ s <= b /\ b <= h - 1
  <2>1. Top.start \in Nat /\ From(Top) \in Nat /\ Top.start <= From(Top)
    BY <1>3, <1>4, TopLaid
  <2> QED
    BY <1>8, <2>1
<1>18. \A j \in 1 .. Out : Hi'[j] \in Nat /\ Hi'[j] < s
  <2>1. \A j \in 1 .. Out : Hi'[j] = Hi[j] /\ Hi[j] \in Nat /\ Hi[j] < Top.start
    BY <1>3, <1>4, <1>8, <1>14, BehindTop
  <2> QED
    BY <1>17, <2>1
<1>19. /\ nodes'[o].kids = << >> /\ nodes'[n].kids = <<o>>
       /\ Lo'[o] = b /\ Hi'[o] = h - 1 /\ Lo'[n] = s /\ Hi'[n] = last
  BY <1>8, <1>12, <1>14, <1>15, <1>17
<1>20. Nested(o)' /\ Nested(n)'
  <2>1. \A j \in 1 .. o - 1 : Hi'[j] \in Nat /\ Hi'[j] < s
    BY <1>15, <1>18
  <2> QED
    BY <1>9, <1>10, <1>15, <1>17, <1>19, <2>1, PairNested
<1>21. \A i \in Out + 1 .. Out' : Nested(i)'
  BY <1>16, <1>20
<1>22. \A i \in 1 .. Out' : Nested(i)'
  BY <1>4, <1>14, <1>16, <1>21, NestedNext
<1>23. \A i \in Out + 1 .. Out' : Lo'[i] \in Nat /\ Top.start <= Lo'[i]
  <2>1. s <= s
    OBVIOUS
  <2> QED
    BY <1>16, <1>17, <1>19, <2>1
<1>24. Gathered' /\ Ascending'
  BY <1>1, <1>3, <1>4, <1>14, <1>16, <1>23, PopGathers
<1> QED
  BY <1>22, <1>24 DEF Grouped

LEMMA InitGrouped == Init => Grouped
<1> SUFFICES ASSUME Init PROVE Grouped
  OBVIOUS
<1>1. /\ nodes = << >> /\ Out = 0
      /\ \/ frames = << >>
         \/ frames = <<[kind |-> "Globals", start |-> 1, kids |-> << >>]>>
  BY DEF Init, Out
<1>2. \A n \in 1 .. Out : FALSE
  BY <1>1
<1>3. CASE frames = << >>
  <2>1. \A i \in 1 .. Len(frames) : FALSE
    BY <1>3
  <2> QED
    BY <1>2, <2>1 DEF Grouped, Gathered, Ascending
<1>4. CASE frames = <<[kind |-> "Globals", start |-> 1, kids |-> << >>]>>
  <2>1. \A i \in 1 .. Len(frames) : i = 1 /\ frames[i].start = 1 /\ frames[i].kids = << >>
    BY <1>4
  <2>2. Ascending
    <3>1. 1 <= 1
      OBVIOUS
    <3> QED
      BY <2>1, <3>1 DEF Ascending
  <2>3. DOMAIN << >> = {}
    OBVIOUS
  <2>4. Gathered
    BY <1>2, <2>1, <2>3 DEF Gathered, Gathers, Spaced
  <2> QED
    BY <1>2, <2>2, <2>4 DEF Grouped
<1> QED
  BY <1>1, <1>3, <1>4

LEMMA StutterGrouped ==
    ASSUME Grouped, UNCHANGED vars
    PROVE  Grouped'
<1>1. UNCHANGED <<input, nodes, frames, open, at>>
  BY DEF vars
<1>2. Lo' = Lo /\ Hi' = Hi
  BY <1>1 DEF Lo, Hi
<1>3. Here' = Here /\ Out' = Out
  BY <1>1 DEF Here, Out
<1>4. Gathered' = Gathered /\ Ascending' = Ascending
  BY <1>1, <1>2, <1>3 DEF Gathered, Gathers, Spaced, Inside, Body, Ascending
<1>5. (\A n \in 1 .. Out : Nested(n))' = (\A n \in 1 .. Out : Nested(n))
  BY <1>1, <1>2, <1>3 DEF Nested, Spaced, Inside
<1> QED
  BY <1>1, <1>4, <1>5 DEF Grouped

LEMMA StepGrouped == Typed /\ Inductive /\ Grouped /\ [Next]_vars => Grouped'
<1> SUFFICES ASSUME Typed, Inductive, Grouped, [Next]_vars PROVE Grouped'
  OBVIOUS
<1>1. Typed' /\ Inductive'
  BY StepTyped, StepKeeps
<1>2. CASE at' = "error"
  BY <1>2 DEF Grouped
<1>3. CASE at' # "error"
  <2>1. CASE \/ BeginFunction \/ BeginGlobalBasic \/ OpenBlock \/ BeginKeyword
             \/ BeginBasic \/ BeginSingle
    BY <2>1, OpenGrouped
  <2>2. CASE EndOfText \/ InFuncDec \/ InExpression \/ ReturnToCaller \/ BeginElse
    BY <2>2, StayGrouped
  <2>3. CASE \/ FinishFuncDec \/ CloseBlock \/ FinishSingle \/ FinishWhile \/ FinishFunction
             \/ FinishIf \/ FinishIfElse
    BY <1>1, <2>3, EndGrouped
  <2>4. CASE EmptyBlock
    BY <1>1, <2>4, EmptyBlockGrouped
  <2>5. CASE Condition
    BY <1>1, <2>5, ConditionGrouped
  <2>6. CASE FinishSimple
    BY <1>1, <2>6, FinishSimpleGrouped
  <2>7. CASE NextPart \/ NextGlobal \/ IfThen
    BY <1>1, <2>7, KeepGrouped
  <2>8. CASE Done \/ UNCHANGED vars
    BY <2>8, StutterGrouped DEF Done
  <2>9. ~(FuncDecError \/ NoCloseBlock \/ ExpressionError \/ NoSemicolon)
    BY <1>3 DEF FuncDecError, NoCloseBlock, ExpressionError, NoSemicolon, Fail
  <2> QED
    BY <2>1, <2>2, <2>3, <2>4, <2>5, <2>6, <2>7, <2>8, <2>9 DEF Next
<1> QED
  BY <1>2, <1>3

-----------------------------------------------------------------------------
(* Sequences that are joined: FlattenSeq. *)

(* f[i] is the first i of the sequences. *)
Joins(f, ss, i) == f[i] = IF i = 1 THEN ss[i] ELSE f[i - 1] \o ss[i]

AllJoin(m, f, ss) == \A i \in 1 .. m : Joins(f, ss, i)

LEMMA JoinsExist ==
    ASSUME NEW T, NEW m \in Nat, NEW ss \in [1 .. m -> Seq(T)]
    PROVE  \E f \in [1 .. m -> Seq(T)] : \A i \in 1 .. m : Joins(f, ss, i)
<1> DEFINE Good(k) == {f \in [1 .. m -> Seq(T)] : \A i \in 1 .. m : i <= k => Joins(f, ss, i)}
           S == {k \in Nat : Good(k) # {}}
<1>1. 0 \in S
  <2>1. ss \in Good(0)
    OBVIOUS
  <2> HIDE DEF Good
  <2> QED
    BY <2>1
<1>2. ASSUME NEW k \in Nat, k \in S PROVE k + 1 \in S
  <2>1. PICK f \in [1 .. m -> Seq(T)] : \A i \in 1 .. m : i <= k => Joins(f, ss, i)
    BY <1>2
  <2> DEFINE g == [i \in 1 .. m |-> IF i <= k THEN f[i] ELSE IF i = 1 THEN ss[i] ELSE f[i - 1] \o ss[i]]
  <2>2. ASSUME NEW i \in 1 .. m
        PROVE  (IF i <= k THEN f[i] ELSE IF i = 1 THEN ss[i] ELSE f[i - 1] \o ss[i]) \in Seq(T)
    <3> HIDE DEF g, Good, S
    <3>1. f[i] \in Seq(T) /\ ss[i] \in Seq(T)
      OBVIOUS
    <3>2. ASSUME i # 1 PROVE f[i - 1] \o ss[i] \in Seq(T)
      <4>1. f[i - 1] \in Seq(T)
        <5>1. i - 1 \in 1 .. m
          BY <3>2
        <5> QED
          BY <5>1
      <4> QED
        BY <3>1, <4>1, ConcatProperties
    <3>3. CASE i <= k
      BY <3>1, <3>3
    <3>4. CASE ~(i <= k) /\ i = 1
      BY <3>1, <3>4
    <3>5. CASE ~(i <= k) /\ i # 1
      BY <3>2, <3>5
    <3> QED
      BY <3>3, <3>4, <3>5
  <2>3. g \in [1 .. m -> Seq(T)]
    <3> HIDE DEF Good, S
    <3> QED
      BY <2>2
  <2>4. ASSUME NEW i \in 1 .. m, i <= k + 1 PROVE Joins(g, ss, i)
    <3>1. \A j \in 1 .. m : j <= k => g[j] = f[j]
      OBVIOUS
    <3>2. i # 1 => i - 1 \in 1 .. m /\ i - 1 <= k
      BY <2>4
    <3>3. g[i] = IF i <= k THEN f[i] ELSE IF i = 1 THEN ss[i] ELSE f[i - 1] \o ss[i]
      OBVIOUS
    <3> HIDE DEF g, Good, S
    <3>4. CASE i <= k
      <4>1. Joins(f, ss, i) /\ g[i] = f[i]
        BY <2>1, <3>1, <3>4
      <4> QED
        BY <3>1, <3>2, <4>1 DEF Joins
    <3>5. CASE ~(i <= k)
      BY <3>1, <3>2, <3>3, <3>5 DEF Joins
    <3> QED
      BY <3>4, <3>5
  <2>5. g \in Good(k + 1)
    <3> HIDE DEF g
    <3> QED
      BY <2>3, <2>4
  <2> HIDE DEF Good, g
  <2> QED
    BY <2>5
<1>3. m \in S
  <2> HIDE DEF S
  <2> QED
    BY <1>1, <1>2, SetInduction
<1> QED
  BY <1>3

LEMMA JoinsAlone ==
    ASSUME NEW m \in Nat, NEW ss, NEW f, NEW g,
           AllJoin(m, f, ss), AllJoin(m, g, ss)
    PROVE  \A i \in 1 .. m : f[i] = g[i]
<1> DEFINE S == {k \in Nat : \A i \in 1 .. m : i <= k => f[i] = g[i]}
<1>1. 0 \in S
  OBVIOUS
<1>2. ASSUME NEW k \in Nat, k \in S PROVE k + 1 \in S
  <2>1. ASSUME NEW i \in 1 .. m, i <= k + 1 PROVE f[i] = g[i]
    <3>1. i # 1 => f[i - 1] = g[i - 1]
      <4>1. i # 1 => i - 1 \in 1 .. m /\ i - 1 <= k
        BY <2>1
      <4> QED
        BY <1>2, <4>1
    <3> QED
      BY <3>1 DEF AllJoin, Joins
  <2> QED
    BY <2>1
<1>3. Nat \subseteq S
  <2> HIDE DEF S
  <2> QED
    BY <1>1, <1>2, SetInduction
<1> QED
  BY <1>3

LEMMA Flattened ==
    ASSUME NEW T, NEW m \in Nat \ {0}, NEW ss \in [1 .. m -> Seq(T)]
    PROVE  \E f \in [1 .. m -> Seq(T)] :
                f[m] = FlattenSeq(ss) /\ \A i \in 1 .. m : Joins(f, ss, i)
<1> DEFINE Step(g) == [i \in 1 .. m |-> IF i = 1 THEN ss[i] ELSE g[i - 1] \o ss[i]]
           flatten == CHOOSE g : g = Step(g)
<1>1. PICK f \in [1 .. m -> Seq(T)] : \A i \in 1 .. m : Joins(f, ss, i)
  BY JoinsExist
<1>2. f = Step(f)
  <2>1. \A i \in 1 .. m : f[i] = Step(f)[i]
    BY <1>1 DEF Joins
  <2> QED
    BY <2>1
<1>3. flatten = Step(flatten)
  <2> HIDE DEF Step
  <2> QED
    BY <1>2
<1>4. Len(ss) = m /\ m # 0
  OBVIOUS
<1>5. FlattenSeq(ss) = flatten[m]
  BY <1>4 DEF FlattenSeq
<1>6. PICK h : h = flatten
  OBVIOUS
<1>7. h = Step(h) /\ FlattenSeq(ss) = h[m]
  BY <1>3, <1>5, <1>6
<1> HIDE DEF flatten
<1>8. \A i \in 1 .. m : h[i] = Step(h)[i]
  <2> HIDE DEF Step
  <2> QED
    BY <1>7
<1>9. \A i \in 1 .. m : Joins(h, ss, i)
  <2>1. \A i \in 1 .. m : Step(h)[i] = IF i = 1 THEN ss[i] ELSE h[i - 1] \o ss[i]
    OBVIOUS
  <2> HIDE DEF Step
  <2> QED
    BY <1>8, <2>1 DEF Joins
<1>10. m \in 1 .. m /\ \A i \in 1 .. m : f[i] = h[i]
  <2>1. m \in 1 .. m /\ m \in Nat
    OBVIOUS
  <2>2. AllJoin(m, f, ss) /\ AllJoin(m, h, ss)
    BY <1>1, <1>9 DEF AllJoin
  <2>3. \A i \in 1 .. m : f[i] = h[i]
    BY <2>1, <2>2, JoinsAlone
  <2> QED
    BY <2>1, <2>3
<1>11. f[m] = FlattenSeq(ss)
  BY <1>7, <1>10
<1> QED
  BY <1>1, <1>11

Sorted(s, R) == \A i, j \in DOMAIN s : i < j => <<s[i], s[j]>> \in R

LEMMA JoinedSorted ==
    ASSUME NEW T, NEW R, NEW s \in Seq(T), NEW t \in Seq(T), Sorted(s, R), Sorted(t, R),
           \A x \in Range(s), y \in Range(t) : <<x, y>> \in R
    PROVE  /\ s \o t \in Seq(T) /\ Sorted(s \o t, R)
           /\ \A x : x \in Range(s \o t) <=> x \in Range(s) \/ x \in Range(t)
<1>1. /\ Len(s) \in Nat /\ Len(t) \in Nat /\ DOMAIN s = 1 .. Len(s) /\ DOMAIN t = 1 .. Len(t)
      /\ s \o t \in Seq(T) /\ DOMAIN (s \o t) = 1 .. Len(s) + Len(t)
      /\ \A i \in 1 .. Len(s) : (s \o t)[i] = s[i]
      /\ \A i \in 1 .. Len(t) : (s \o t)[Len(s) + i] = t[i]
  OBVIOUS
<1>2. PICK a \in Nat, b \in Nat : a = Len(s) /\ b = Len(t)
  BY <1>1
<1>3. PICK u \in Seq(T) : u = s \o t
  BY <1>1
<1>4. /\ DOMAIN s = 1 .. a /\ DOMAIN t = 1 .. b /\ DOMAIN u = 1 .. a + b
      /\ \A i \in 1 .. a : u[i] = s[i]
      /\ \A i \in 1 .. b : u[a + i] = t[i]
  BY <1>1, <1>2, <1>3
<1>5. ASSUME NEW i \in 1 .. a + b
      PROVE  i \in 1 .. a \/ (i > a /\ i - a \in 1 .. b /\ u[i] = t[i - a])
  <2>1. i > a => i - a \in 1 .. b /\ a + (i - a) = i
    OBVIOUS
  <2> QED
    BY <1>4, <2>1
<1>6. ASSUME NEW i \in 1 .. a + b, NEW j \in 1 .. a + b, i < j
      PROVE  <<u[i], u[j]>> \in R
  <2>1. CASE j \in 1 .. a
    <3>1. i \in 1 .. a
      BY <1>6, <2>1
    <3> QED
      BY <1>4, <1>6, <2>1, <3>1 DEF Sorted
  <2>2. CASE i \in 1 .. a /\ j \notin 1 .. a
    <3>1. j - a \in 1 .. b /\ u[j] = t[j - a]
      BY <1>5, <2>2
    <3>2. u[i] \in Range(s) /\ u[j] \in Range(t)
      BY <1>4, <2>2, <3>1 DEF Range
    <3> QED
      BY <3>2
  <2>3. CASE i \notin 1 .. a
    <3>1. i - a \in 1 .. b /\ u[i] = t[i - a]
      BY <1>5, <2>3
    <3>2. j \notin 1 .. a
      BY <1>6, <2>3
    <3>3. j - a \in 1 .. b /\ u[j] = t[j - a]
      BY <1>5, <3>2
    <3>4. i - a < j - a
      BY <1>6
    <3> QED
      BY <1>4, <3>1, <3>3, <3>4 DEF Sorted
  <2> QED
    BY <2>1, <2>2, <2>3
<1>7. Sorted(u, R)
  BY <1>4, <1>6 DEF Sorted
<1>8. ASSUME NEW x, x \in Range(u) PROVE x \in Range(s) \/ x \in Range(t)
  <2>1. PICK i \in 1 .. a + b : x = u[i]
    BY <1>4, <1>8 DEF Range
  <2> QED
    BY <1>4, <1>5, <2>1 DEF Range
<1>9. ASSUME NEW x, x \in Range(s) PROVE x \in Range(u)
  <2>1. PICK i \in 1 .. a : x = s[i]
    BY <1>4, <1>9 DEF Range
  <2>2. i \in DOMAIN u /\ u[i] = x
    BY <1>4, <2>1
  <2> QED
    BY <2>2 DEF Range
<1>10. ASSUME NEW x, x \in Range(t) PROVE x \in Range(u)
  <2>1. PICK i \in 1 .. b : x = t[i]
    BY <1>4, <1>10 DEF Range
  <2>2. a + i \in DOMAIN u /\ u[a + i] = x
    BY <1>4, <2>1
  <2> QED
    BY <2>2 DEF Range
<1> QED
  BY <1>3, <1>7, <1>8, <1>9, <1>10

InOrder(m, ss, R) ==
    /\ \A k \in 1 .. m : Sorted(ss[k], R)
    /\ \A k, l \in 1 .. m : k < l => \A x \in Range(ss[k]), y \in Range(ss[l]) : <<x, y>> \in R

(* What is joined of sorted sequences, each of them behind the one before. *)
LEMMA FlatSorted ==
    ASSUME NEW T, NEW R, NEW m \in Nat, NEW ss \in [1 .. m -> Seq(T)],
           InOrder(m, ss, R)
    PROVE  /\ FlattenSeq(ss) \in Seq(T) /\ Sorted(FlattenSeq(ss), R)
           /\ \A x : x \in Range(FlattenSeq(ss)) <=> \E k \in 1 .. m : x \in Range(ss[k])
<1>1. /\ \A k \in 1 .. m : Sorted(ss[k], R)
      /\ \A k, l \in 1 .. m :
            k < l => \A x \in Range(ss[k]), y \in Range(ss[l]) : <<x, y>> \in R
  BY DEF InOrder
<1>2. CASE m = 0
  <2>1. Len(ss) = 0 /\ ss = << >>
    BY <1>2
  <2>2. FlattenSeq(ss) = << >>
    BY <2>1 DEF FlattenSeq
  <2>3. \A k \in 1 .. m : FALSE
    BY <1>2
  <2>4. DOMAIN << >> = {} /\ << >> \in Seq(T)
    OBVIOUS
  <2> QED
    BY <2>2, <2>3, <2>4 DEF Sorted, Range
<1>3. CASE m # 0
  <2>1. m \in Nat \ {0}
    BY <1>3
  <2>2. PICK f \in [1 .. m -> Seq(T)] : f[m] = FlattenSeq(ss) /\ \A i \in 1 .. m : Joins(f, ss, i)
    BY <2>1, Flattened
  <2> DEFINE Good(i) == /\ Sorted(f[i], R)
                        /\ \A x : x \in Range(f[i]) <=> \E k \in 1 .. i : x \in Range(ss[k])
             S == {i \in Nat : i \in 1 .. m => Good(i)}
  <2>3. 0 \in S
    OBVIOUS
  <2>4. ASSUME NEW i \in Nat, i \in S PROVE i + 1 \in S
    <3> SUFFICES ASSUME i + 1 \in 1 .. m PROVE Good(i + 1)
      OBVIOUS
    <3>1. CASE i = 0
      <4>1. i + 1 = 1 /\ 1 \in 1 .. m
        BY <3>1
      <4>2. f[1] = ss[1]
        BY <2>2, <4>1 DEF Joins
      <4>3. \A k \in 1 .. 1 : k = 1
        OBVIOUS
      <4>4. 1 \in 1 .. 1
        OBVIOUS
      <4>5. Good(1)
        BY <1>1, <4>1, <4>2, <4>3, <4>4
      <4> QED
        BY <4>1, <4>5
    <3>2. CASE i # 0
      <4>1. i \in 1 .. m /\ (i + 1) - 1 = i /\ i + 1 # 1
        BY <3>2
      <4>2. Good(i)
        BY <2>4, <4>1
      <4>3. PICK n \in 1 .. m : n = i + 1
        OBVIOUS
      <4>4. f[n] = f[i] \o ss[n]
        <5>1. n - 1 = i /\ n # 1
          BY <4>1, <4>3
        <5> QED
          BY <2>2, <5>1 DEF Joins
      <4>5. \A k \in 1 .. n : k \in 1 .. i \/ k = n
        BY <4>3
      <4>6. \A k \in 1 .. i : k \in 1 .. m /\ k < n /\ k \in 1 .. n
        BY <4>1, <4>3
      <4>7. n \in 1 .. n
        BY <4>3
      <4>8. \A x \in Range(f[i]), y \in Range(ss[n]) : <<x, y>> \in R
        BY <1>1, <4>2, <4>6
      <4>9. f[i] \in Seq(T) /\ ss[n] \in Seq(T) /\ Sorted(ss[n], R)
        BY <1>1, <4>1
      <4>10. /\ Sorted(f[n], R)
             /\ \A x : x \in Range(f[n]) <=> x \in Range(f[i]) \/ x \in Range(ss[n])
        BY <4>2, <4>4, <4>8, <4>9, JoinedSorted
      <4>11. \A x : x \in Range(f[n]) <=> \E k \in 1 .. n : x \in Range(ss[k])
        BY <4>2, <4>5, <4>6, <4>7, <4>10
      <4>12. Good(n)
        BY <4>10, <4>11
      <4> QED
        BY <4>3, <4>12
    <3> QED
      BY <3>1, <3>2
  <2>5. m \in S
    <3> HIDE DEF S
    <3> QED
      BY <2>3, <2>4, SetInduction
  <2>6. m \in 1 .. m
    BY <2>1
  <2>7. Good(m)
    BY <2>5, <2>6
  <2> QED
    BY <2>2, <2>6, <2>7
<1> QED
  BY <1>2, <1>3

-----------------------------------------------------------------------------
(* What is printed. *)

Parts(g, n) == [k \in DOMAIN Shown(nodes[n]) |-> g[Shown(nodes[n])[k]]]

(* Of an if the part behind the else is not shown. *)
LEMMA ShownFacts ==
    ASSUME Typed, KidsOlder, NEW n \in 1 .. Out
    PROVE  /\ Shown(nodes[n]) \in Seq(Nat)
           /\ DOMAIN Shown(nodes[n]) = 1 .. Len(Shown(nodes[n])) /\ Len(Shown(nodes[n])) \in Nat
           /\ \A x \in DOMAIN Shown(nodes[n]) :
                /\ x \in DOMAIN nodes[n].kids /\ Shown(nodes[n])[x] = nodes[n].kids[x]
                /\ ~(nodes[n].kind = "If" /\ x = 3)
                /\ Shown(nodes[n])[x] \in 1 .. n - 1
           /\ \A x \in DOMAIN nodes[n].kids :
                \/ x \in DOMAIN Shown(nodes[n])
                \/ nodes[n].kind = "If" /\ Len(nodes[n].kids) = 3 /\ x = 3
<1>1. nodes[n] \in Node /\ NodeShape(nodes[n], n)
  BY Numbers DEF Typed, KidsOlder, Out
<1>2. PICK k \in Seq(Nat) : k = nodes[n].kids
  BY <1>1 DEF Node
<1>3. \A x \in DOMAIN k : k[x] \in 1 .. n - 1
  BY <1>1, <1>2 DEF NodeShape
<1>4. DOMAIN k = 1 .. Len(k) /\ Len(k) \in Nat
  OBVIOUS
<1>5. CASE nodes[n].kind # "If"
  <2>1. Shown(nodes[n]) = k
    BY <1>2, <1>5 DEF Shown
  <2> QED
    BY <1>2, <1>3, <1>4, <1>5, <2>1
<1>6. CASE nodes[n].kind = "If"
  <2>1. Len(k) = 2 \/ Len(k) = 3
    BY <1>1, <1>2, <1>6 DEF NodeShape
  <2>2. 2 \in Nat /\ 1 \in Int /\ \A x \in 1 .. 2 : k[x] \in Nat
    BY <1>4, <2>1
  <2>3. /\ SubSeq(k, 1, 2) \in Seq(Nat) /\ Len(SubSeq(k, 1, 2)) = 2
        /\ \A x \in 1 .. 2 : SubSeq(k, 1, 2)[x] = k[x]
    <3>1. /\ SubSeq(k, 1, 2) \in Seq(Nat)
          /\ Len(SubSeq(k, 1, 2)) = IF 1 <= 2 THEN 2 - 1 + 1 ELSE 0
          /\ \A x \in 1 .. 2 - 1 + 1 : SubSeq(k, 1, 2)[x] = k[1 + x - 1]
      BY <2>2, SubSeqProperties
    <3> QED
      BY <3>1
  <2>4. PICK s \in Seq(Nat) : s = SubSeq(k, 1, 2)
    BY <2>3, Zenon
  <2>5. s \in Seq(Nat) /\ Len(s) = 2 /\ s[1] = k[1] /\ s[2] = k[2]
    <3>1. s \in Seq(Nat) /\ Len(s) = 2 /\ \A x \in 1 .. 2 : s[x] = k[x]
      BY <2>4, <2>3, Zenon
    <3>2. 1 \in 1 .. 2 /\ 2 \in 1 .. 2
      OBVIOUS
    <3> QED
      BY <3>1, <3>2
  <2>6. Shown(nodes[n]) = s
    BY <1>2, <1>6, <2>4 DEF Shown
  <2>7. DOMAIN s = 1 .. 2 /\ Len(s) = 2
    BY <2>5
  <2>8. \A x \in 1 .. 2 : x \in DOMAIN k /\ s[x] = k[x] /\ x # 3
    <3>1. 1 \in DOMAIN k /\ 2 \in DOMAIN k
      BY <1>4, <2>1
    <3>2. \A x \in 1 .. 2 : x = 1 \/ x = 2
      OBVIOUS
    <3> QED
      BY <2>5, <3>1, <3>2
  <2>9. \A x \in DOMAIN k : x \in 1 .. 2 \/ (Len(k) = 3 /\ x = 3)
    BY <1>4, <2>1
  <2>10. \A x \in DOMAIN s : s[x] \in 1 .. n - 1
    BY <1>3, <2>7, <2>8
  <2> QED
    <3>1. Len(s) \in Nat /\ DOMAIN s = 1 .. Len(s)
      BY <2>7
    <3>2. \A x \in DOMAIN s : x \in DOMAIN k /\ s[x] = k[x] /\ x # 3 /\ s[x] \in 1 .. n - 1
      BY <2>7, <2>8, <2>10
    <3>3. \A x \in DOMAIN k : x \in DOMAIN s \/ (Len(k) = 3 /\ x = 3)
      BY <2>7, <2>9
    <3> QED
      BY <1>2, <1>6, <2>5, <2>6, <3>1, <3>2, <3>3, Zenon
<1> QED
  BY <1>5, <1>6

LEMMA PartsJoined ==
    ASSUME Typed, KidsOlder, NEW n \in 1 .. Out, NEW g \in [1 .. Out -> Seq(Nat)]
    PROVE  <<n>> \o FlattenSeq(Parts(g, n)) \in Seq(Nat)
<1>1. Out \in Nat /\ n \in Nat
  BY Numbers
<1>2. PICK s \in Seq(Nat), m \in Nat : s = Shown(nodes[n]) /\ m = Len(s) /\ DOMAIN s = 1 .. m
  BY ShownFacts
<1>3. \A x \in 1 .. m : s[x] \in 1 .. Out
  <2>1. \A x \in 1 .. m : s[x] \in 1 .. n - 1
    BY <1>2, ShownFacts
  <2>2. \A y \in 1 .. n - 1 : y \in 1 .. Out
    BY <1>1
  <2> QED
    BY <2>1, <2>2
<1>4. PICK ss \in [1 .. m -> Seq(Nat)] : ss = Parts(g, n)
  <2>1. Parts(g, n) = [x \in 1 .. m |-> g[s[x]]]
    BY <1>2 DEF Parts
  <2> QED
    BY <1>3, <2>1
<1> DEFINE R == Nat \X Nat
<1>5. InOrder(m, ss, R)
  <2>1. \A k \in 1 .. m : \A i \in DOMAIN ss[k] : ss[k][i] \in Nat
    OBVIOUS
  <2>2. \A k \in 1 .. m : \A x \in Range(ss[k]) : x \in Nat
    BY <2>1 DEF Range
  <2>3. \A x, y \in Nat : <<x, y>> \in R
    OBVIOUS
  <2> HIDE DEF R
  <2> QED
    BY <2>1, <2>2, <2>3 DEF InOrder, Sorted
<1>6. FlattenSeq(ss) \in Seq(Nat)
  <2> HIDE DEF R
  <2> QED
    BY <1>5, FlatSorted
<1> QED
  BY <1>1, <1>4, <1>6, ConcatProperties

Prints(g, n) == g[n] = <<n>> \o FlattenSeq(Parts(g, n))

LEMMA PrintsExist ==
    ASSUME Typed, KidsOlder
    PROVE  \E f \in [1 .. Out -> Seq(Nat)] : \A n \in 1 .. Out : Prints(f, n)
<1>1. PICK m \in Nat : m = Out
  BY Numbers
<1> DEFINE Good(k) == {f \in [1 .. m -> Seq(Nat)] : \A n \in 1 .. m : n <= k => Prints(f, n)}
           S == {k \in Nat : Good(k) # {}}
<1>2. 0 \in S
  <2>1. [n \in 1 .. m |-> << >>] \in Good(0)
    OBVIOUS
  <2> HIDE DEF Good
  <2> QED
    BY <2>1
<1>3. ASSUME NEW k \in Nat, k \in S PROVE k + 1 \in S
  <2>1. PICK f \in [1 .. m -> Seq(Nat)] : \A n \in 1 .. m : n <= k => Prints(f, n)
    BY <1>3
  <2> DEFINE new(n) == <<n>> \o FlattenSeq(Parts(f, n))
             g == [n \in 1 .. m |-> IF n <= k THEN f[n] ELSE new(n)]
  <2>2. \A n \in 1 .. m : new(n) \in Seq(Nat)
    BY <1>1, PartsJoined
  <2>3. g \in [1 .. m -> Seq(Nat)]
    <3> HIDE DEF new, Good, S
    <3> QED
      BY <2>2
  <2>4. \A n \in 1 .. m : g[n] = IF n <= k THEN f[n] ELSE new(n)
    OBVIOUS
  <2>5. ASSUME NEW n \in 1 .. m, n <= k + 1 PROVE Prints(g, n)
    <3> HIDE DEF g, Good, S
    <3>1. \A x \in DOMAIN Shown(nodes[n]) : g[Shown(nodes[n])[x]] = f[Shown(nodes[n])[x]]
      <4>1. \A x \in DOMAIN Shown(nodes[n]) : Shown(nodes[n])[x] \in 1 .. n - 1
        BY <1>1, ShownFacts
      <4>2. \A y \in 1 .. n - 1 : y \in 1 .. m /\ y <= k
        BY <2>5
      <4> QED
        BY <2>4, <4>1, <4>2
    <3>2. Parts(g, n) = Parts(f, n)
      BY <3>1 DEF Parts
    <3>3. g[n] = new(n)
      BY <2>1, <2>4 DEF Prints
    <3> QED
      BY <3>2, <3>3 DEF Prints
  <2>6. g \in Good(k + 1)
    <3> HIDE DEF g
    <3> QED
      BY <2>3, <2>5
  <2> HIDE DEF Good, g
  <2> QED
    BY <2>6
<1>4. m \in S
  <2> HIDE DEF S
  <2> QED
    BY <1>2, <1>3, SetInduction
<1> QED
  BY <1>1, <1>4

LEMMA PrintsAlone ==
    ASSUME Typed, KidsOlder, NEW f, NEW g,
           \A n \in 1 .. Out : Prints(f, n), \A n \in 1 .. Out : Prints(g, n)
    PROVE  \A n \in 1 .. Out : f[n] = g[n]
<1>1. PICK m \in Nat : m = Out
  BY Numbers
<1> DEFINE S == {k \in Nat : \A n \in 1 .. m : n <= k => f[n] = g[n]}
<1>2. 0 \in S
  OBVIOUS
<1>3. ASSUME NEW k \in Nat, k \in S PROVE k + 1 \in S
  <2>1. ASSUME NEW n \in 1 .. m, n <= k + 1 PROVE f[n] = g[n]
    <3>1. \A x \in DOMAIN Shown(nodes[n]) : Shown(nodes[n])[x] \in 1 .. n - 1
      BY <1>1, ShownFacts
    <3>2. \A y \in 1 .. n - 1 : y \in 1 .. m /\ y <= k
      BY <2>1
    <3>3. \A y \in 1 .. n - 1 : f[y] = g[y]
      BY <1>3, <3>2
    <3> HIDE DEF S
    <3>4. Parts(f, n) = Parts(g, n)
      BY <3>1, <3>3 DEF Parts
    <3> QED
      BY <1>1, <3>4 DEF Prints
  <2> QED
    BY <2>1
<1>4. Nat \subseteq S
  <2> HIDE DEF S
  <2> QED
    BY <1>2, <1>3, SetInduction
<1> QED
  BY <1>1, <1>4

LEMMA PrintedFollows ==
    ASSUME Typed, KidsOlder
    PROVE  \A n \in 1 .. Out : Printed[n] \in Seq(Nat) /\ Prints(Printed, n)
<1> DEFINE Step(g) == [n \in DOMAIN nodes |->
                <<n>> \o FlattenSeq([k \in DOMAIN Shown(nodes[n]) |-> g[Shown(nodes[n])[k]]])]
           printed == CHOOSE g : g = Step(g)
<1>1. DOMAIN nodes = 1 .. Out
  BY DEF Typed, Out
<1>2. PICK f \in [1 .. Out -> Seq(Nat)] : \A n \in 1 .. Out : Prints(f, n)
  BY PrintsExist
<1>3. \A g : \A n \in 1 .. Out : Step(g)[n] = <<n>> \o FlattenSeq(Parts(g, n))
  BY <1>1 DEF Parts
<1>4. f = Step(f)
  <2>1. \A n \in 1 .. Out : f[n] = Step(f)[n]
    <3> HIDE DEF Step
    <3> QED
      BY <1>2, <1>3 DEF Prints
  <2> QED
    BY <1>1, <2>1
<1>5. printed = Step(printed)
  <2> HIDE DEF Step
  <2> QED
    BY <1>4
<1>6. Printed = printed
  BY DEF Printed
<1>7. PICK h : h = Printed /\ h = Step(h)
  BY <1>5, <1>6
<1> HIDE DEF printed, Step
<1>8. \A n \in 1 .. Out : Prints(h, n)
  BY <1>3, <1>7 DEF Prints
<1>9. \A n \in 1 .. Out : f[n] = h[n]
  BY <1>2, <1>8, PrintsAlone
<1> QED
  BY <1>2, <1>7, <1>8, <1>9

-----------------------------------------------------------------------------
(* Every node once, and in the order of the text. *)

Drawn ==
    /\ Typed /\ KidsOlder
    /\ \A n \in 1 .. Out :
            Lo[n] \in Nat /\ Hi[n] \in Nat /\ Lo[n] <= Hi[n] /\ Nested(n)

Before == {p \in Nat \X Nat : p[1] # p[2] /\ Lo[p[1]] <= Lo[p[2]]}

(* j is in what the else of i governs. *)
Cut(i, j) ==
    /\ nodes[i].kind = "If" /\ Len(nodes[i].kids) = 3
    /\ Lo[nodes[i].kids[3]] <= Lo[j] /\ Hi[j] <= Hi[i]

Lost(n, j) == \E i \in 1 .. n : Lo[n] <= Lo[i] /\ Cut(i, j)

Shows(n) ==
    /\ Sorted(Printed[n], Before)
    /\ \A j \in Range(Printed[n]) : j \in 1 .. n /\ Lo[n] <= Lo[j] /\ Hi[j] <= Hi[n]
    /\ \A j \in 1 .. n : Lo[n] <= Lo[j] => (j \in Range(Printed[n]) <=> ~Lost(n, j))

LEMMA DrawnKids ==
    ASSUME Drawn, NEW n \in 1 .. Out
    PROVE  /\ nodes[n].kids \in Seq(Nat) /\ Spaced(nodes[n].kids)
           /\ \A x \in DOMAIN nodes[n].kids :
                /\ nodes[n].kids[x] \in 1 .. n - 1 /\ nodes[n].kids[x] \in 1 .. Out
                /\ Lo[n] <= Lo[nodes[n].kids[x]] /\ Hi[nodes[n].kids[x]] <= Hi[n]
           /\ \A j \in 1 .. n - 1 : Lo[n] <= Lo[j] =>
                \E x \in DOMAIN nodes[n].kids : Inside(j, nodes[n].kids[x])
<1>1. Out \in Nat /\ nodes[n] \in Node /\ NodeShape(nodes[n], n)
  BY Numbers DEF Drawn, Typed, KidsOlder, Out
<1>2. nodes[n].kids \in Seq(Nat)
  BY <1>1 DEF Node
<1>3. Nested(n) /\ Lo[n] \in Nat
  BY DEF Drawn
<1>4. \A y \in 1 .. n - 1 : y \in 1 .. Out
  BY <1>1
<1>5. \A x \in DOMAIN nodes[n].kids : nodes[n].kids[x] \in 1 .. n - 1
  BY <1>1 DEF NodeShape
<1>6. ASSUME NEW j \in 1 .. n - 1, Lo[n] <= Lo[j] PROVE ~(Hi[j] < Lo[n])
  <2>1. Lo[j] \in Nat /\ Hi[j] \in Nat /\ Lo[j] <= Hi[j]
    BY <1>4 DEF Drawn
  <2> QED
    BY <1>3, <1>6, <2>1
<1> QED
  BY <1>2, <1>3, <1>4, <1>5, <1>6 DEF Nested

LEMMA CutBehind ==
    ASSUME Drawn, NEW i \in 1 .. Out, NEW j \in 1 .. Out, Cut(i, j)
    PROVE  Lo[i] < Lo[j]
<1>1. PICK k \in Seq(Nat) : k = nodes[i].kids
  BY DrawnKids
<1>2. Len(k) = 3 /\ Lo[k[3]] <= Lo[j]
  BY <1>1 DEF Cut
<1>3. 1 \in DOMAIN k /\ 3 \in DOMAIN k /\ 1 < 3
  BY <1>2
<1>4. Spaced(k) /\ k[1] \in 1 .. Out /\ k[3] \in 1 .. Out /\ Lo[i] <= Lo[k[1]]
  BY <1>1, <1>3, DrawnKids
<1>5. Hi[k[1]] < Lo[k[3]]
  BY <1>3, <1>4 DEF Spaced
<1>6. /\ Lo[i] \in Nat /\ Lo[j] \in Nat /\ Lo[k[1]] \in Nat /\ Hi[k[1]] \in Nat
      /\ Lo[k[1]] <= Hi[k[1]] /\ Lo[k[3]] \in Nat
  BY <1>4 DEF Drawn
<1> QED
  BY <1>2, <1>4, <1>5, <1>6

(* What is within one of the parts is not within another. *)
LEMMA Apartness ==
    ASSUME Drawn, NEW k, Spaced(k), NEW x \in DOMAIN k, NEW y \in DOMAIN k, x \in Nat, y \in Nat,
           k[x] \in 1 .. Out, k[y] \in 1 .. Out, NEW j \in 1 .. Out,
           Lo[k[x]] <= Lo[j], Hi[j] <= Hi[k[x]], Lo[k[y]] <= Lo[j], Hi[j] <= Hi[k[y]]
    PROVE  x = y
<1>1. /\ Lo[j] \in Nat /\ Hi[j] \in Nat /\ Lo[j] <= Hi[j]
      /\ Lo[k[x]] \in Nat /\ Hi[k[x]] \in Nat /\ Lo[k[y]] \in Nat /\ Hi[k[y]] \in Nat
  BY DEF Drawn
<1>2. CASE x < y
  <2>1. Hi[k[x]] < Lo[k[y]]
    BY <1>2 DEF Spaced
  <2> QED
    BY <1>1, <2>1
<1>3. CASE y < x
  <2>1. Hi[k[y]] < Lo[k[x]]
    BY <1>3 DEF Spaced
  <2> QED
    BY <1>1, <2>1
<1> QED
  BY <1>2, <1>3

(* The nodes that parts in a row show, joined. *)
LEMMA PartsShow ==
    ASSUME Drawn, NEW m \in Nat, NEW k \in [1 .. m -> 1 .. Out], Spaced(k),
           \A x \in 1 .. m : Shows(k[x])
    PROVE  LET all == FlattenSeq([x \in 1 .. m |-> Printed[k[x]]]) IN
           /\ all \in Seq(Nat) /\ Sorted(all, Before)
           /\ \A j : j \in Range(all) <=> \E x \in 1 .. m : j \in Range(Printed[k[x]])
<1>1. \A x \in 1 .. m : k[x] \in 1 .. Out /\ Printed[k[x]] \in Seq(Nat)
  BY PrintedFollows DEF Drawn
<1>2. PICK ss \in [1 .. m -> Seq(Nat)] : ss = [x \in 1 .. m |-> Printed[k[x]]]
  BY <1>1
<1>3. \A x \in 1 .. m : ss[x] = Printed[k[x]]
  BY <1>2
<1>4. \A x \in 1 .. m : Sorted(ss[x], Before)
  BY <1>3 DEF Shows
<1>5. ASSUME NEW x \in 1 .. m, NEW y \in 1 .. m, x < y,
             NEW a \in Range(ss[x]), NEW b \in Range(ss[y])
      PROVE  <<a, b>> \in Before
  <2>1. PICK c \in 1 .. Out, d \in 1 .. Out : c = k[x] /\ d = k[y]
    OBVIOUS
  <2>2. /\ a \in 1 .. c /\ Hi[a] <= Hi[c] /\ b \in 1 .. d /\ Lo[d] <= Lo[b]
    BY <1>3, <2>1 DEF Shows
  <2>3. a \in 1 .. Out /\ b \in 1 .. Out
    <3>1. Out \in Nat
      BY Numbers DEF Drawn
    <3> QED
      BY <2>2, <3>1
  <2>4. Hi[c] < Lo[d]
    BY <2>1, <1>5 DEF Spaced
  <2>5. /\ Lo[a] \in Nat /\ Hi[a] \in Nat /\ Lo[a] <= Hi[a] /\ Hi[c] \in Nat /\ Lo[d] \in Nat
        /\ Lo[b] \in Nat
    BY <2>3 DEF Drawn
  <2>6. Lo[a] < Lo[b]
    BY <2>2, <2>4, <2>5
  <2>7. a \in Nat /\ b \in Nat /\ a # b /\ Lo[a] <= Lo[b]
    BY <2>3, <2>5, <2>6
  <2> QED
    BY <2>7 DEF Before
<1>6. /\ FlattenSeq(ss) \in Seq(Nat) /\ Sorted(FlattenSeq(ss), Before)
      /\ \A j : j \in Range(FlattenSeq(ss)) <=> \E x \in 1 .. m : j \in Range(ss[x])
  <2>1. \A x, y \in 1 .. m :
            x < y => \A a \in Range(ss[x]), b \in Range(ss[y]) : <<a, b>> \in Before
    BY <1>5
  <2>2. InOrder(m, ss, Before)
    BY <1>4, <2>1 DEF InOrder
  <2> QED
    BY <2>2, FlatSorted
<1> QED
  BY <1>2, <1>6, <1>3

(* Of the nodes within a part its own text shows those no else of it cuts. *)
LEMMA PartShows ==
    ASSUME Drawn, NEW m \in Nat, NEW k \in [1 .. m -> 1 .. Out], Spaced(k),
           \A x \in 1 .. m : Shows(k[x]),
           NEW x \in 1 .. m, NEW j \in 1 .. Out, Inside(j, k[x])
    PROVE  (\E y \in 1 .. m : j \in Range(Printed[k[y]])) <=> ~Lost(k[x], j)
<1>1. PICK c \in 1 .. Out : c = k[x]
  OBVIOUS
<1>2. j <= c /\ Lo[c] <= Lo[j] /\ Hi[j] <= Hi[c]
  BY <1>1 DEF Inside
<1>3. Shows(c)
  BY <1>1
<1>4. j \in 1 .. c
  BY <1>2
<1>5. j \in Range(Printed[c]) <=> ~Lost(c, j)
  BY <1>2, <1>3, <1>4 DEF Shows
<1>6. ASSUME NEW y \in 1 .. m, j \in Range(Printed[k[y]]) PROVE y = x
  <2>1. PICK d \in 1 .. Out : d = k[y]
    OBVIOUS
  <2>2. Shows(d) /\ j \in Range(Printed[d])
    BY <1>6, <2>1
  <2>3. Lo[d] <= Lo[j] /\ Hi[j] <= Hi[d]
    BY <2>2 DEF Shows
  <2>4. x \in DOMAIN k /\ y \in DOMAIN k /\ x \in Nat /\ y \in Nat
    OBVIOUS
  <2> QED
    BY <1>1, <1>2, <2>1, <2>3, <2>4, Apartness
<1> QED
  BY <1>1, <1>5, <1>6

(* What the else of an if cuts lies in the part the if lies in. *)
LEMMA LostInPart ==
    ASSUME Drawn, NEW m \in Nat, NEW k \in [1 .. m -> 1 .. Out], Spaced(k),
           NEW x \in 1 .. m, NEW y \in 1 .. m, NEW j \in 1 .. Out, NEW i \in 1 .. Out,
           Inside(j, k[x]), Inside(i, k[y]), Cut(i, j)
    PROVE  y = x
<1>1. PICK c \in 1 .. Out, d \in 1 .. Out : c = k[x] /\ d = k[y]
  OBVIOUS
<1>2. Lo[c] <= Lo[j] /\ Hi[j] <= Hi[c] /\ Lo[d] <= Lo[i] /\ Hi[i] <= Hi[d]
  BY <1>1 DEF Inside
<1>3. Lo[i] < Lo[j] /\ Hi[j] <= Hi[i]
  BY CutBehind DEF Cut
<1>4. /\ Lo[j] \in Nat /\ Hi[j] \in Nat /\ Lo[j] <= Hi[j]
      /\ Lo[i] \in Nat /\ Hi[i] \in Nat /\ Lo[c] \in Nat /\ Hi[c] \in Nat
      /\ Lo[d] \in Nat /\ Hi[d] \in Nat
  BY DEF Drawn
<1>5. Lo[d] <= Lo[j] /\ Hi[j] <= Hi[d]
  <2>1. \A a, b, e \in Nat : (a <= b /\ b < e => a <= e) /\ (a <= b /\ b <= e => a <= e)
    OBVIOUS
  <2>2. Lo[d] <= Lo[j]
    BY <1>2, <1>3, <1>4, <2>1
  <2>3. Hi[j] <= Hi[d]
    BY <1>2, <1>3, <1>4, <2>1
  <2> QED
    BY <2>2, <2>3
<1>6. x \in DOMAIN k /\ y \in DOMAIN k /\ x \in Nat /\ y \in Nat
  OBVIOUS
<1> QED
  BY <1>1, <1>2, <1>5, <1>6, Apartness

(* A row of parts shows a node within it unless an else within it cuts it. *)
LEMMA RowShows ==
    ASSUME Drawn, NEW m \in Nat, NEW k \in [1 .. m -> 1 .. Out], Spaced(k),
           NEW x \in 1 .. m, NEW j \in 1 .. Out, Inside(j, k[x])
    PROVE  Lost(k[x], j) <=> \E y \in 1 .. m : \E i \in 1 .. Out : Inside(i, k[y]) /\ Cut(i, j)
<1>1. PICK c \in 1 .. Out : c = k[x]
  OBVIOUS
<1>2. c \in Nat /\ Out \in Nat
  BY Numbers DEF Drawn
<1>3. ASSUME Lost(c, j)
      PROVE  \E i \in 1 .. Out : Inside(i, c) /\ Cut(i, j)
  <2>1. PICK i \in 1 .. c : Lo[c] <= Lo[i] /\ Cut(i, j)
    BY <1>3 DEF Lost
  <2>2. i \in 1 .. Out /\ i <= c /\ i \in Nat
    BY <1>2
  <2>3. Hi[i] <= Hi[c]
    <3>1. CASE i = c
      <4>1. Hi[c] \in Nat
        BY DEF Drawn
      <4>2. \A a \in Nat : a <= a
        OBVIOUS
      <4> QED
        BY <3>1, <4>1, <4>2
    <3>2. CASE i # c
      <4>1. i \in 1 .. c - 1
        BY <1>2, <2>2, <3>2
      <4>2. PICK y \in DOMAIN nodes[c].kids : Inside(i, nodes[c].kids[y])
        BY <2>1, <4>1, DrawnKids
      <4>3. PICK d \in 1 .. Out : d = nodes[c].kids[y] /\ Hi[d] <= Hi[c]
        BY DrawnKids
      <4>4. Hi[i] <= Hi[d]
        BY <4>2, <4>3 DEF Inside
      <4>5. Hi[i] \in Nat /\ Hi[d] \in Nat /\ Hi[c] \in Nat
        BY <2>2 DEF Drawn
      <4> QED
        BY <4>3, <4>4, <4>5
    <3> QED
      BY <3>1, <3>2
  <2> QED
    BY <2>1, <2>2, <2>3 DEF Inside
<1>4. ASSUME NEW y \in 1 .. m, NEW i \in 1 .. Out, Inside(i, k[y]), Cut(i, j)
      PROVE  Lost(c, j)
  <2>1. y = x
    BY <1>4, LostInPart
  <2>2. Inside(i, c)
    BY <1>1, <1>4, <2>1
  <2>3. i <= c /\ Lo[c] <= Lo[i]
    BY <2>2 DEF Inside
  <2>4. i \in 1 .. c
    BY <1>2, <2>3
  <2> QED
    BY <1>4, <2>3, <2>4 DEF Lost
<1> QED
  BY <1>1, <1>3, <1>4

(* The kids of an if that are shown are its first two. *)
LEMMA ElseCut ==
    ASSUME Drawn, NEW n \in 1 .. Out, NEW j \in 1 .. Out,
           NEW x \in DOMAIN nodes[n].kids, Inside(j, nodes[n].kids[x]), Hi[j] <= Hi[n]
    PROVE  Cut(n, j) <=> nodes[n].kind = "If" /\ Len(nodes[n].kids) = 3 /\ x = 3
<1>1. PICK k \in Seq(Nat) : k = nodes[n].kids
  BY DrawnKids
<1>2. PICK c \in 1 .. Out : c = k[x]
  BY <1>1, DrawnKids
<1>3. Lo[c] <= Lo[j] /\ Hi[j] <= Hi[c]
  BY <1>1, <1>2 DEF Inside
<1>4. ASSUME nodes[n].kind = "If", Len(k) = 3, x = 3 PROVE Cut(n, j)
  BY <1>1, <1>2, <1>3, <1>4 DEF Cut
<1>5. ASSUME Cut(n, j) PROVE nodes[n].kind = "If" /\ Len(k) = 3 /\ x = 3
  <2>1. nodes[n].kind = "If" /\ Len(k) = 3 /\ Lo[k[3]] <= Lo[j]
    BY <1>1, <1>5 DEF Cut
  <2>2. DOMAIN k = 1 .. 3
    BY <2>1
  <2>3. ASSUME x # 3 PROVE FALSE
    <3>1. x \in DOMAIN k /\ 3 \in DOMAIN k /\ x < 3
      BY <1>1, <2>2, <2>3
    <3>2. Spaced(k) /\ k[3] \in 1 .. Out
      BY <1>1, <3>1, DrawnKids
    <3>3. Hi[c] < Lo[k[3]]
      BY <1>2, <3>1, <3>2 DEF Spaced
    <3>4. /\ Hi[c] \in Nat /\ Lo[k[3]] \in Nat /\ Lo[j] \in Nat /\ Hi[j] \in Nat
          /\ Lo[j] <= Hi[j]
      BY <3>2 DEF Drawn
    <3> QED
      BY <1>3, <2>1, <3>3, <3>4
  <2> QED
    BY <2>1, <2>3
<1> QED
  BY <1>1, <1>4, <1>5

(* Of what is older and not before n: what n loses. *)
LEMMA LostOlder ==
    ASSUME Drawn, NEW n \in 1 .. Out, NEW x \in DOMAIN nodes[n].kids,
           NEW j \in 1 .. Out, Inside(j, nodes[n].kids[x])
    PROVE  Lost(n, j) <=> Cut(n, j) \/ Lost(nodes[n].kids[x], j)
<1>1. PICK k \in Seq(Nat), m \in Nat : k = nodes[n].kids /\ m = Len(k) /\ DOMAIN k = 1 .. m
  BY DrawnKids
<1>2. Out \in Nat /\ n \in Nat
  BY Numbers DEF Drawn
<1>3. /\ Spaced(k) /\ x \in 1 .. m /\ Inside(j, k[x])
      /\ \A y \in 1 .. m : /\ k[y] \in 1 .. n - 1 /\ k[y] \in 1 .. Out
                          /\ Lo[n] <= Lo[k[y]]
      /\ \A i \in 1 .. n - 1 : Lo[n] <= Lo[i] => \E y \in 1 .. m : Inside(i, k[y])
  BY <1>1, DrawnKids
<1>4. k \in [1 .. m -> 1 .. Out]
  BY <1>1, <1>3
<1>5. Lost(k[x], j) <=> \E y \in 1 .. m : \E i \in 1 .. Out : Inside(i, k[y]) /\ Cut(i, j)
  BY <1>3, <1>4, RowShows
<1>6. ASSUME Lost(n, j) PROVE Cut(n, j) \/ Lost(k[x], j)
  <2>1. PICK i \in 1 .. n : Lo[n] <= Lo[i] /\ Cut(i, j)
    BY <1>6 DEF Lost
  <2>2. i = n \/ i \in 1 .. n - 1
    BY <1>2
  <2>3. i \in 1 .. Out
    BY <1>2
  <2> QED
    BY <1>3, <1>5, <2>1, <2>2, <2>3
<1>7. ASSUME Cut(n, j) PROVE Lost(n, j)
  <2>1. n \in 1 .. n
    BY <1>2
  <2>2. Lo[n] <= Lo[n]
    <3>1. Lo[n] \in Nat
      BY DEF Drawn
    <3> QED
      BY <3>1
  <2> QED
    BY <1>7, <2>1, <2>2 DEF Lost
<1>8. ASSUME Lost(k[x], j) PROVE Lost(n, j)
  <2>1. PICK c \in 1 .. Out : c = k[x]
    BY <1>3
  <2>2. c \in 1 .. n - 1 /\ Lo[n] <= Lo[c]
    BY <1>3, <2>1
  <2>3. PICK i \in 1 .. c : Lo[c] <= Lo[i] /\ Cut(i, j)
    BY <1>8, <2>1 DEF Lost
  <2>4. i \in 1 .. n /\ i \in 1 .. Out
    BY <1>2, <2>2
  <2>5. Lo[n] \in Nat /\ Lo[c] \in Nat /\ Lo[i] \in Nat
    BY <2>4 DEF Drawn
  <2>6. Lo[n] <= Lo[i]
    BY <2>2, <2>3, <2>5
  <2> QED
    BY <2>3, <2>4, <2>6 DEF Lost
<1> QED
  BY <1>1, <1>6, <1>7, <1>8

LEMMA NodeShows ==
    ASSUME Drawn, NEW n \in 1 .. Out, \A y \in 1 .. n - 1 : Shows(y)
    PROVE  Shows(n)
<1>1. Typed /\ KidsOlder /\ Out \in Nat /\ n \in Nat
  BY Numbers DEF Drawn
<1>2. PICK k \in Seq(Nat) : k = nodes[n].kids
  BY DrawnKids
<1>3. PICK s \in Seq(Nat), m \in Nat : s = Shown(nodes[n]) /\ m = Len(s) /\ DOMAIN s = 1 .. m
  BY <1>1, ShownFacts
<1>4. /\ \A x \in 1 .. m : /\ x \in DOMAIN k /\ s[x] = k[x] /\ s[x] \in 1 .. n - 1
                           /\ ~(nodes[n].kind = "If" /\ x = 3)
      /\ \A x \in DOMAIN k :
            x \in 1 .. m \/ (nodes[n].kind = "If" /\ Len(nodes[n].kids) = 3 /\ x = 3)
  BY <1>1, <1>2, <1>3, ShownFacts
<1>5. /\ Spaced(k)
      /\ \A x \in DOMAIN k : /\ k[x] \in 1 .. n - 1 /\ k[x] \in 1 .. Out
                             /\ Lo[n] <= Lo[k[x]] /\ Hi[k[x]] <= Hi[n]
      /\ \A j \in 1 .. n - 1 : Lo[n] <= Lo[j] => \E x \in DOMAIN k : Inside(j, k[x])
  BY <1>2, DrawnKids
<1>6. s \in [1 .. m -> 1 .. Out]
  BY <1>3, <1>4, <1>5
<1>7. Spaced(s)
  BY <1>3, <1>4, <1>5 DEF Spaced
<1>8. \A x \in 1 .. m : Shows(s[x])
  BY <1>4
<1>9. PICK all \in Seq(Nat) :
            /\ all = FlattenSeq([x \in 1 .. m |-> Printed[s[x]]]) /\ Sorted(all, Before)
            /\ \A j : j \in Range(all) <=> \E x \in 1 .. m : j \in Range(Printed[s[x]])
  BY <1>6, <1>7, <1>8, PartsShow
<1>10. Printed[n] = <<n>> \o all
  <2>1. Parts(Printed, n) = [x \in 1 .. m |-> Printed[s[x]]]
    BY <1>3 DEF Parts
  <2> QED
    BY <1>1, <1>9, <2>1, PrintedFollows DEF Prints
<1>11. Lo[n] \in Nat /\ Hi[n] \in Nat
  BY DEF Drawn
<1>12. ASSUME NEW j, j \in Range(all)
       PROVE  j \in 1 .. n - 1 /\ Lo[n] <= Lo[j] /\ Hi[j] <= Hi[n]
  <2>1. PICK x \in 1 .. m : j \in Range(Printed[s[x]])
    BY <1>9, <1>12
  <2>2. PICK c \in 1 .. Out : c = s[x] /\ c \in 1 .. n - 1 /\ Lo[n] <= Lo[c] /\ Hi[c] <= Hi[n]
    BY <1>4, <1>5
  <2>3. j \in 1 .. c /\ Lo[c] <= Lo[j] /\ Hi[j] <= Hi[c]
    BY <1>8, <2>1, <2>2 DEF Shows
  <2>4. j \in 1 .. n - 1 /\ j \in 1 .. Out
    BY <1>1, <2>2, <2>3
  <2>5. /\ Lo[j] \in Nat /\ Hi[j] \in Nat /\ Lo[c] \in Nat /\ Hi[c] \in Nat
    BY <2>4 DEF Drawn
  <2> QED
    BY <1>11, <2>2, <2>3, <2>4, <2>5
<1>13. /\ <<n>> \in Seq(Nat) /\ Sorted(<<n>>, Before)
       /\ \A j : j \in Range(<<n>>) <=> j = n
  <2>1. <<n>> \in Seq(Nat) /\ DOMAIN <<n>> = {1} /\ <<n>>[1] = n
    BY <1>1
  <2>2. \A x, y \in {1} : ~(x < y)
    OBVIOUS
  <2> QED
    BY <2>1, <2>2 DEF Sorted, Range
<1>14. \A x \in Range(<<n>>), j \in Range(all) : <<x, j>> \in Before
  <2>1. ASSUME NEW j, j \in Range(all) PROVE <<n, j>> \in Before
    <3>1. j \in 1 .. n - 1 /\ Lo[n] <= Lo[j]
      BY <1>12, <2>1
    <3>2. j \in Nat /\ n \in Nat /\ n # j
      BY <1>1, <3>1
    <3> QED
      BY <3>1, <3>2 DEF Before
  <2> QED
    BY <1>13, <2>1
<1>15. PICK t : t = Printed[n]
  OBVIOUS
<1>16. /\ Sorted(t, Before)
       /\ \A j : j \in Range(t) <=> j = n \/ j \in Range(all)
  <2>1. /\ Sorted(<<n>> \o all, Before)
        /\ \A x : x \in Range(<<n>> \o all) <=> x \in Range(<<n>>) \/ x \in Range(all)
    BY <1>9, <1>13, <1>14, JoinedSorted
  <2> QED
    BY <1>10, <1>13, <1>15, <2>1
<1>17. ASSUME NEW j \in Range(t) PROVE j \in 1 .. n /\ Lo[n] <= Lo[j] /\ Hi[j] <= Hi[n]
  <2>1. CASE j = n
    BY <1>1, <1>11, <2>1
  <2>2. CASE j # n
    <3>1. j \in 1 .. n - 1 /\ Lo[n] <= Lo[j] /\ Hi[j] <= Hi[n]
      BY <1>12, <1>16, <2>2
    <3> QED
      BY <1>1, <3>1
  <2> QED
    BY <2>1, <2>2
<1>18. ~Lost(n, n)
  <2> SUFFICES ASSUME NEW i \in 1 .. n, Lo[n] <= Lo[i], Cut(i, n) PROVE FALSE
    BY DEF Lost
  <2>1. i \in 1 .. Out
    BY <1>1
  <2>2. Lo[i] < Lo[n] /\ Lo[i] \in Nat
    BY <2>1, CutBehind DEF Drawn
  <2> QED
    BY <1>11, <2>2
<1>19. ASSUME NEW j \in 1 .. n, Lo[n] <= Lo[j]
       PROVE  j \in Range(t) <=> ~Lost(n, j)
  <2>1. CASE j = n
    BY <1>16, <1>18, <2>1
  <2>2. CASE j # n
    <3>1. j \in 1 .. n - 1 /\ j \in 1 .. Out
      BY <1>1, <2>2
    <3>2. PICK x \in DOMAIN k : Inside(j, k[x])
      BY <1>5, <1>19, <3>1
    <3>3. PICK c \in 1 .. Out : c = k[x] /\ Hi[c] <= Hi[n] /\ Inside(j, c)
      BY <1>5, <3>2
    <3>4. Hi[j] <= Hi[n]
      <4>1. Hi[j] <= Hi[c]
        BY <3>3 DEF Inside
      <4>2. Hi[j] \in Nat /\ Hi[c] \in Nat
        BY <3>1 DEF Drawn
      <4> QED
        BY <1>11, <3>3, <4>1, <4>2
    <3>5. Cut(n, j) <=> nodes[n].kind = "If" /\ Len(nodes[n].kids) = 3 /\ x = 3
      BY <1>2, <3>1, <3>2, <3>4, ElseCut
    <3>6. Lost(n, j) <=> Cut(n, j) \/ Lost(c, j)
      BY <1>2, <3>1, <3>2, <3>3, LostOlder
    <3>7. j \in Range(t) <=> \E y \in 1 .. m : j \in Range(Printed[s[y]])
      BY <1>9, <1>16, <2>2
    <3>8. CASE x \in 1 .. m
      <4>1. s[x] = c /\ ~Cut(n, j)
        BY <1>4, <3>3, <3>5, <3>8
      <4>2. (\E y \in 1 .. m : j \in Range(Printed[s[y]])) <=> ~Lost(s[x], j)
        BY <1>6, <1>7, <1>8, <3>1, <3>3, <3>8, <4>1, PartShows
      <4> QED
        BY <3>6, <3>7, <4>1, <4>2
    <3>9. CASE x \notin 1 .. m
      <4>1. Cut(n, j)
        BY <1>4, <3>5, <3>9
      <4>2. ASSUME NEW y \in 1 .. m, j \in Range(Printed[s[y]]) PROVE FALSE
        <5>1. y \in DOMAIN k /\ s[y] = k[y]
          BY <1>4
        <5>2. PICK d \in 1 .. Out : d = k[y] /\ Shows(d) /\ j \in Range(Printed[d])
          BY <1>6, <1>8, <4>2, <5>1
        <5>3. Lo[d] <= Lo[j] /\ Hi[j] <= Hi[d]
          BY <5>2 DEF Shows
        <5>4. Lo[c] <= Lo[j] /\ Hi[j] <= Hi[c]
          BY <3>3 DEF Inside
        <5>5. x \in Nat /\ y \in Nat
          OBVIOUS
        <5>6. x = y
          BY <1>5, <3>1, <3>3, <5>1, <5>2, <5>3, <5>4, <5>5, Apartness
        <5> QED
          BY <3>9, <5>6
      <4> QED
        BY <3>6, <3>7, <4>1, <4>2
    <3> QED
      BY <3>8, <3>9
  <2> QED
    BY <2>1, <2>2
<1> QED
  BY <1>15, <1>16, <1>17, <1>19 DEF Shows

LEMMA AllShow ==
    ASSUME Drawn
    PROVE  \A n \in 1 .. Out : Shows(n)
<1> DEFINE S == {k \in Nat : \A n \in 1 .. Out : n <= k => Shows(n)}
<1>1. Out \in Nat
  BY Numbers DEF Drawn
<1>2. 0 \in S
  OBVIOUS
<1>3. ASSUME NEW k \in Nat, k \in S PROVE k + 1 \in S
  <2>1. ASSUME NEW n \in 1 .. Out, n <= k + 1 PROVE Shows(n)
    <3>1. \A y \in 1 .. n - 1 : y \in 1 .. Out /\ y <= k
      BY <1>1, <2>1
    <3>2. \A y \in 1 .. n - 1 : Shows(y)
      BY <1>3, <3>1
    <3> QED
      BY <3>2, NodeShows
  <2> QED
    BY <2>1
<1>4. Out \in S
  <2> HIDE DEF S
  <2> QED
    BY <1>1, <1>2, <1>3, SetInduction
<1> QED
  BY <1>1, <1>4

-----------------------------------------------------------------------------
(* What is printed of a text that is read to its end. *)

LEMMA DoneDrawn ==
    ASSUME Typed, Inductive, Grouped, at = "done"
    PROVE  /\ Drawn /\ NodesFit /\ Stacked /\ Now /\ Gathered
           /\ Out \in Nat /\ Here \in Nat \ {0}
           /\ \A j \in 1 .. Out : 1 <= Lo[j] /\ Hi[j] < Here
<1>1. /\ KidsOlder /\ NodesFit /\ Stacked /\ Now
      /\ Gathered /\ \A n \in 1 .. Out : Nested(n)
  BY AtWork DEF Grouped
<1>2. PICK h \in Nat \ {0} : h = Here
  BY Numbers
<1>3. \A j \in 1 .. Out : Lo[j] \in Nat /\ Hi[j] \in Nat /\ Lo[j] <= Hi[j] /\ Hi[j] < h
  BY <1>1, <1>2, NodesBehind
<1>4. \A j \in 1 .. Out : 1 <= Lo[j]
  <2>1. \A j \in 1 .. Out : \E y \in Nat : Lo[j] \in 1 .. y
    BY <1>1, <1>3 DEF NodesFit, NodeFits, Placed
  <2> QED
    BY <2>1
<1>5. Drawn
  BY <1>1, <1>3 DEF Drawn
<1> QED
  BY <1>1, <1>2, <1>3, <1>4, <1>5, Numbers

(* Every node lies within one of the roots. *)
LEMMA RootsHold ==
    ASSUME Typed, Inductive, Grouped, at = "done"
    PROVE  \E m \in Nat :
            /\ Roots \in [1 .. m -> 1 .. Out] /\ Spaced(Roots)
            /\ \A j \in 1 .. Out : \E x \in 1 .. m : Inside(j, Roots[x])
<1>1. /\ Drawn /\ NodesFit /\ Stacked /\ Now /\ Gathered
      /\ Out \in Nat /\ \A j \in 1 .. Out : 1 <= Lo[j] /\ Hi[j] < Here
  BY DoneDrawn
<1>2. PICK h \in Nat \ {0} : h = Here
  BY DoneDrawn
<1>3. \A j \in 1 .. Out : /\ Lo[j] \in Nat /\ Hi[j] \in Nat /\ Lo[j] <= Hi[j]
                          /\ 1 <= Lo[j] /\ Hi[j] < h
  BY <1>1, <1>2 DEF Drawn
<1>4. CASE InGlobals
  <2>1. frames # << >> /\ frames[1].kind = "Globals"
    BY <1>4 DEF InGlobals
  <2>2. Len(frames) = 1 /\ Top = frames[1]
    <3>1. Len(frames) >= 1 /\ Len(frames) \in Nat /\ Top = frames[Len(frames)]
      BY <2>1, FrameFacts
    <3>2. Len(frames) <= 1
      BY DEF Typed, AtOK
    <3>3. \A x \in Nat : x >= 1 /\ x <= 1 => x = 1
      OBVIOUS
    <3>4. Len(frames) = 1
      BY <3>1, <3>2, <3>3
    <3> QED
      BY <3>1, <3>4
  <2>3. PICK f \in Frame : f = Top
    BY <1>1, <2>1, TopLaid
  <2>4. InRow(f) /\ Worded(f) /\ f.kind = "Globals" /\ Roots = f.kids
    BY <1>1, <1>4, <2>1, <2>2, <2>3, TopLaid DEF Roots
  <2>5. f.start = 1
    BY <2>4 DEF Worded
  <2>6. Gathers(f, h)
    BY <1>1, <1>2, <2>1, <2>3, TopGathers
  <2>7. PICK k \in Seq(Nat), m \in Nat : k = f.kids /\ DOMAIN k = 1 .. m
    BY <1>1, <2>4, RowFacts
  <2>8. \A x \in 1 .. m : k[x] \in 1 .. Out
    BY <1>1, <2>4, <2>7, RowFacts
  <2>9. k \in [1 .. m -> 1 .. Out]
    BY <2>7, <2>8
  <2>10. /\ Spaced(k)
         /\ \A j \in 1 .. Out :
                Hi[j] < 1 \/ h <= Lo[j] \/ \E x \in 1 .. m : Inside(j, k[x])
    BY <2>5, <2>6, <2>7 DEF Gathers
  <2>11. \A j \in 1 .. Out : \E x \in 1 .. m : Inside(j, k[x])
    <3>1. \A j \in 1 .. Out : ~(Hi[j] < 1) /\ ~(h <= Lo[j])
      BY <1>3
    <3> QED
      BY <2>10, <3>1
  <2> QED
    BY <2>4, <2>7, <2>9, <2>10, <2>11
<1>5. CASE ~InGlobals
  <2>1. frames = << >> /\ InHand
    BY <1>1, <1>5 DEF Now
  <2>2. Out > 0 /\ Lo[Out] = 1 /\ Hi[Out] = h - 1 /\ Roots = <<Out>>
    BY <1>2, <1>5, <2>1 DEF InHand, Roots, Out
  <2>3. PICK o \in 1 .. Out : o = Out
    BY <1>1, <2>2
  <2>4. DOMAIN <<o>> = {1} /\ <<o>>[1] = o /\ Spaced(<<o>>)
    BY OneSpaced
  <2>5. <<o>> \in [1 .. 1 -> 1 .. Out] /\ 1 \in 1 .. 1 /\ 1 \in Nat
    OBVIOUS
  <2>6. Roots = <<o>> /\ Lo[o] = 1 /\ Hi[o] = h - 1
    BY <2>2, <2>3
  <2>7. ASSUME NEW j \in 1 .. Out PROVE Inside(j, o)
    <3>1. Lo[o] <= Lo[j] /\ Hi[j] <= Hi[o]
      BY <1>3, <2>6
    <3>2. j <= o
      BY <2>3
    <3> QED
      BY <3>1, <3>2 DEF Inside
  <2>8. \A j \in 1 .. Out : \E x \in 1 .. 1 : Inside(j, <<o>>[x])
    BY <2>4, <2>5, <2>7
  <2> QED
    BY <2>4, <2>5, <2>6, <2>8
<1> QED
  BY <1>4, <1>5

(***************************************************************************)
(* PrintedOnce: the printer goes down from each global, or from the one    *)
(* statement, and prints a node before its parts; in the end every node    *)
(* made is printed once, in the order of the text, except those behind an  *)
(* else, which the printer of an if leaves out.                            *)
(***************************************************************************)
THEOREM PrintedInOrder == Spec => []PrintedOnce
<1>1. Typed /\ Inductive /\ Grouped => PrintedOnce
  <2> SUFFICES ASSUME Typed, Inductive, Grouped, at = "done" PROVE PrintedOnce
    BY DEF PrintedOnce
  <2>1. Drawn /\ Out \in Nat
    BY DoneDrawn
  <2>2. PICK m \in Nat :
            /\ Roots \in [1 .. m -> 1 .. Out] /\ Spaced(Roots)
            /\ \A j \in 1 .. Out : \E x \in 1 .. m : Inside(j, Roots[x])
    BY RootsHold
  <2>3. PICK r \in [1 .. m -> 1 .. Out] : r = Roots
    BY <2>2
  <2>4. Spaced(r) /\ \A j \in 1 .. Out : \E x \in 1 .. m : Inside(j, r[x])
    BY <2>2, <2>3
  <2>5. \A x \in 1 .. m : Shows(r[x])
    BY <2>1, AllShow
  <2>6. PICK all \in Seq(Nat) :
            /\ all = FlattenSeq([x \in 1 .. m |-> Printed[r[x]]]) /\ Sorted(all, Before)
            /\ \A j : j \in Range(all) <=> \E x \in 1 .. m : j \in Range(Printed[r[x]])
    BY <2>1, <2>4, <2>5, PartsShow
  <2>7. all = FlattenSeq([i \in DOMAIN Roots |-> Printed[Roots[i]]])
    <3>1. DOMAIN r = 1 .. m
      OBVIOUS
    <3> QED
      BY <2>3, <2>6, <3>1
  <2>8. \A i, j \in DOMAIN all : i < j => all[i] # all[j] /\ Lo[all[i]] <= Lo[all[j]]
    BY <2>6 DEF Sorted, Before
  <2>9. ASSUME NEW n \in 1 .. Out
        PROVE  n \in Range(all) <=> ~\E i \in 1 .. Out : Cut(i, n)
    <3>1. PICK x \in 1 .. m : Inside(n, r[x])
      BY <2>4
    <3>2. (\E y \in 1 .. m : n \in Range(Printed[r[y]])) <=> ~Lost(r[x], n)
      BY <2>1, <2>4, <2>5, <3>1, PartShows
    <3>3. Lost(r[x], n) <=> \E y \in 1 .. m : \E i \in 1 .. Out : Inside(i, r[y]) /\ Cut(i, n)
      BY <2>1, <2>4, <3>1, RowShows
    <3> QED
      BY <2>4, <2>6, <3>2, <3>3
  <2>10. DOMAIN nodes = 1 .. Out /\ \A i : i \in Ifs <=> i \in 1 .. Out /\ nodes[i].kind = "If"
    BY DEF Typed, Out, Ifs
  <2>11. \A n \in DOMAIN nodes :
            n \in Range(all) <=> ~\E i \in Ifs :
                Len(nodes[i].kids) = 3 /\ Lo[nodes[i].kids[3]] <= Lo[n] /\ Hi[n] <= Hi[i]
    BY <2>9, <2>10 DEF Cut
  <2> QED
    BY <2>7, <2>8, <2>11 DEF PrintedOnce
<1>2. Init => Typed /\ Inductive /\ Grouped
  BY InitTyped, InitInductive, InitGrouped
<1>3. Typed /\ Inductive /\ Grouped /\ [Next]_vars => (Typed /\ Inductive /\ Grouped)'
  BY StepTyped, StepKeeps, StepGrouped
<1> QED
  BY <1>1, <1>2, <1>3, PTL DEF Spec

=============================================================================
