---------------------------- MODULE LoweringProof ----------------------------
(***************************************************************************)
(* Proofs about Lowering.tla, for every set of names and every bound: the  *)
(* invariant Inductive, what follows from it, and that the emitted blocks  *)
(* implement Structured.tla.                                               *)
(***************************************************************************)
EXTENDS Integers, Lowering, SequenceTheorems, TLAPS

-----------------------------------------------------------------------------
(* Facts about sequences. *)

(* Without its last element: pop_back. *)
LEMMA PopFacts ==
    ASSUME NEW S, NEW s \in Seq(S), s # << >>
    PROVE  /\ Len(s) \in Nat \ {0}
           /\ SubSeq(s, 1, Len(s) - 1) \in Seq(S)
           /\ Len(SubSeq(s, 1, Len(s) - 1)) = Len(s) - 1
           /\ \A i \in 1 .. Len(s) - 1 : SubSeq(s, 1, Len(s) - 1)[i] = s[i]
<1>1. Len(s) \in Nat \ {0}
  BY EmptySeq
<1> DEFINE n == Len(s) - 1
<1>2. n \in Nat /\ 1 \in Int
  BY <1>1
<1>3. \A i \in 1 .. n : s[i] \in S
  BY <1>1, ElementOfSeq
<1> HIDE DEF n
<1>4. /\ SubSeq(s, 1, n) \in Seq(S)
      /\ Len(SubSeq(s, 1, n)) = IF 1 <= n THEN n - 1 + 1 ELSE 0
      /\ \A i \in 1 .. n - 1 + 1 : SubSeq(s, 1, n)[i] = s[1 + i - 1]
  BY <1>2, <1>3, SubSeqProperties
<1>5. /\ Len(SubSeq(s, 1, n)) = n
      /\ \A i \in 1 .. n : SubSeq(s, 1, n)[i] = s[i]
  BY <1>2, <1>4
<1> QED
  BY <1>1, <1>4, <1>5 DEF n

(* With two more: push_back twice. *)
LEMMA PushTwoFacts ==
    ASSUME NEW S, NEW s \in Seq(S), NEW x \in S, NEW y \in S
    PROVE  /\ s \o <<x, y>> \in Seq(S)
           /\ Len(s \o <<x, y>>) = Len(s) + 2
           /\ \A i \in 1 .. Len(s) : (s \o <<x, y>>)[i] = s[i]
           /\ (s \o <<x, y>>)[Len(s) + 1] = x
           /\ (s \o <<x, y>>)[Len(s) + 2] = y
OBVIOUS

(* What compiling an expression does to the scopes and to its block. *)

LEMMA ScopeFacts ==
    ASSUME TypeOK, cur # 0, NEW e \in Expr
    PROVE  /\ ScopesAfter(e) \in Seq(Bindings)
           /\ Len(ScopesAfter(e)) = Len(scopes)
           /\ \A i \in DOMAIN scopes, n \in Names :
                 \/ ScopesAfter(e)[i][n] = scopes[i][n]
                 \/ i = Len(scopes) /\ ScopesAfter(e)[i][n] = cur
<1>1. /\ scopes \in Seq(Bindings) /\ Len(scopes) \in 1 .. Len(scopes)
      /\ cur \in Nat
  BY DEF TypeOK
<1>2. CASE ~Mints(e)
  BY <1>1, <1>2, LenProperties DEF ScopesAfter
<1>3. CASE Mints(e)
  <2> DEFINE inner == [scopes[Len(scopes)] EXCEPT ![e.to] = cur]
  <2>1. scopes[Len(scopes)] \in Bindings
    BY <1>1, ElementOfSeq
  <2>2. inner \in Bindings
    BY <1>1, <2>1 DEF Bindings
  <2>3. ScopesAfter(e) = [scopes EXCEPT ![Len(scopes)] = inner]
    BY <1>3 DEF ScopesAfter
  <2>4. \A n \in Names : inner[n] = scopes[Len(scopes)][n] \/ inner[n] = cur
    BY <2>1 DEF Bindings
  <2> HIDE DEF inner
  <2> QED
    BY <1>1, <2>2, <2>3, <2>4, ExceptSeq, LenProperties
<1> QED
  BY <1>2, <1>3

LEMMA ShapeFacts ==
    ASSUME TypeOK, cur # 0, NEW e \in Expr
    PROVE  /\ ShapeAfter(e) \in BlockShape
           /\ Ended(ShapeAfter(e)) <=> Ended(blocks[cur])
<1>1. cur \in 1 .. Len(blocks) /\ blocks[cur] \in BlockShape
  BY ElementOfSeq DEF TypeOK
<1> QED
  BY <1>1 DEF ShapeAfter, Emit, Ended, BlockShape

-----------------------------------------------------------------------------
(***************************************************************************)
(* The invariant is kept by each action.  First the expression compiled in *)
(* place, at the insertion point cur, which no scope but the innermost and *)
(* no block but cur can feel.                                              *)
(***************************************************************************)
LEMMA ExpressionBindings ==
    ASSUME Inductive, Compiling, cur # 0, NEW e \in Expr
    PROVE  /\ \A i \in DOMAIN ScopesAfter(e), n \in Names :
                 ScopesAfter(e)[i][n] \in 0 .. Len(blocks)
           /\ cur \in live =>
                 \A i \in DOMAIN ScopesAfter(e), n \in Names :
                    ScopesAfter(e)[i][n] \in live \cup {0}
           /\ \A i \in DOMAIN stack : stack[i].other \in live =>
                 \A j \in 1 .. i, n \in Names :
                    ScopesAfter(e)[j][n] \in live \cup {0}
<1> USE DEF Inductive
<1>1. /\ DOMAIN ScopesAfter(e) = DOMAIN scopes
      /\ DOMAIN scopes = 1 .. Len(scopes) /\ Len(scopes) = Len(stack) + 1
      /\ DOMAIN stack = 1 .. Len(stack) /\ Len(stack) \in Nat
      /\ cur \in 1 .. Len(blocks)
  BY ScopeFacts, LenProperties DEF TypeOK
<1>2. \A i \in DOMAIN scopes, n \in Names :
         \/ ScopesAfter(e)[i][n] = scopes[i][n]
         \/ i = Len(scopes) /\ ScopesAfter(e)[i][n] = cur
  BY ScopeFacts
<1>3. \A i \in DOMAIN ScopesAfter(e), n \in Names :
         ScopesAfter(e)[i][n] \in 0 .. Len(blocks)
  BY <1>1, <1>2 DEF SlotsExist
<1>4. ASSUME cur \in live, NEW i \in DOMAIN ScopesAfter(e), NEW n \in Names
      PROVE  ScopesAfter(e)[i][n] \in live \cup {0}
  BY <1>1, <1>2, <1>4 DEF BindingsDominate
<1>5. ASSUME NEW i \in DOMAIN stack, stack[i].other \in live,
             NEW j \in 1 .. i, NEW n \in Names
      PROVE  ScopesAfter(e)[j][n] \in live \cup {0}
  <2>1. j \in DOMAIN scopes /\ j # Len(scopes)
    BY <1>1
  <2> QED
    BY <1>2, <1>5, <2>1 DEF BranchBindings
<1> QED
  BY <1>3, <1>4, <1>5

(* What the three statements that stay in their block have in common. *)
LEMMA InPlace ==
    ASSUME Inductive, Compiling, cur # 0, NEW e \in Expr, NEW shape \in BlockShape,
           scopes' = ScopesAfter(e), blocks' = [blocks EXCEPT ![cur] = shape],
           UNCHANGED <<cur, stack, live>>
    PROVE  /\ scopes' \in Seq(Bindings) /\ Len(scopes') = Len(scopes)
           /\ blocks' \in Seq(BlockShape) /\ Len(blocks') = Len(blocks)
           /\ DOMAIN blocks = 1 .. Len(blocks) /\ DOMAIN blocks' = 1 .. Len(blocks)
           /\ cur \in 1 .. Len(blocks)
           /\ \A b \in 1 .. Len(blocks) :
                 blocks'[b] = IF b = cur THEN shape ELSE blocks[b]
           /\ PointsApart' /\ SlotsExist' /\ BindingsDominate' /\ BranchBindings'
<1> USE DEF Inductive
<1>1. /\ blocks' \in Seq(BlockShape) /\ Len(blocks') = Len(blocks)
      /\ cur \in 1 .. Len(blocks)
      /\ \A b \in 1 .. Len(blocks) :
            blocks'[b] = IF b = cur THEN shape ELSE blocks[b]
  BY ExceptSeq DEF TypeOK
<1>2. DOMAIN blocks = 1 .. Len(blocks) /\ DOMAIN blocks' = 1 .. Len(blocks)
  BY <1>1, LenProperties DEF TypeOK
<1>3. scopes' \in Seq(Bindings) /\ Len(scopes') = Len(scopes)
  BY ScopeFacts
<1>4. PointsApart'
  BY <1>1 DEF PointsApart
<1>5. SlotsExist' /\ BindingsDominate' /\ BranchBindings'
  BY <1>1, ExpressionBindings DEF SlotsExist, BindingsDominate, BranchBindings
<1> QED
  BY <1>1, <1>2, <1>3, <1>4, <1>5

LEMMA BasicStep ==
    ASSUME Inductive, NEW e \in Expr, Basic(e)
    PROVE  Inductive'
<1> USE DEF Inductive
<1>1. /\ Compiling /\ Compiling' /\ InBody /\ InBody' /\ ~Idle'
      /\ cur # 0 /\ lastPart' = "other" /\ steps' = steps + 1
      /\ UNCHANGED <<globals, cur, stack, func, result, loose, live, ret>>
  BY DEF Basic, InBody, Idle, Compiling, TypeOK
<1>2. ShapeAfter(e) \in BlockShape /\ (Ended(ShapeAfter(e)) <=> Ended(blocks[cur]))
  BY <1>1, ShapeFacts
<1>3. /\ scopes' \in Seq(Bindings) /\ Len(scopes') = Len(scopes)
      /\ blocks' \in Seq(BlockShape) /\ Len(blocks') = Len(blocks)
      /\ DOMAIN blocks = 1 .. Len(blocks) /\ DOMAIN blocks' = 1 .. Len(blocks)
      /\ \A b \in 1 .. Len(blocks) :
            blocks'[b] = IF b = cur THEN ShapeAfter(e) ELSE blocks[b]
      /\ PointsApart' /\ SlotsExist' /\ BindingsDominate' /\ BranchBindings'
  BY <1>1, <1>2, InPlace DEF Basic
<1>4. \A b \in 1 .. Len(blocks) : Ended(blocks'[b]) <=> Ended(blocks[b])
  BY <1>2, <1>3
<1>5. TypeOK'
  BY <1>1, <1>3 DEF TypeOK
<1>6. OnlyPointsOpen'
  BY <1>1, <1>3, <1>4 DEF OnlyPointsOpen, Points
<1>7. LastIsReturn' /\ FunctionsReturn'
  BY <1>1 DEF LastIsReturn, FunctionsReturn
<1>8. OneExecution'
  <2>1. Frontier' = Frontier /\ Points' = Points
    BY <1>1, <1>4 DEF Frontier, Points, TypeOK
  <2> QED
    BY <1>1, <2>1 DEF OneExecution
<1> QED
  BY <1>3, <1>5, <1>6, <1>7, <1>8

LEMMA ReturnStep ==
    ASSUME Inductive, NEW e \in Expr, Return(e)
    PROVE  Inductive'
<1> USE DEF Inductive
<1> DEFINE shape == Terminate(ShapeAfter(e))
<1>1. /\ Compiling /\ Compiling' /\ InBody /\ InBody' /\ ~Idle'
      /\ cur # 0 /\ lastPart' = "Return" /\ steps' = steps + 1 /\ steps \in Nat
      /\ ret' = IF Active(cur) THEN steps + 1 ELSE ret
      /\ UNCHANGED <<globals, cur, stack, func, result, loose, live>>
  BY DEF Return, InBody, Idle, Compiling, TypeOK
<1>2. shape \in BlockShape /\ shape.last /\ Ended(shape)
  BY <1>1, ShapeFacts DEF Terminate, Ended, BlockShape
<1> HIDE DEF shape
<1>3. /\ scopes' \in Seq(Bindings) /\ Len(scopes') = Len(scopes)
      /\ blocks' \in Seq(BlockShape) /\ Len(blocks') = Len(blocks)
      /\ DOMAIN blocks = 1 .. Len(blocks) /\ DOMAIN blocks' = 1 .. Len(blocks)
      /\ cur \in 1 .. Len(blocks)
      /\ \A b \in 1 .. Len(blocks) :
            blocks'[b] = IF b = cur THEN shape ELSE blocks[b]
      /\ PointsApart' /\ SlotsExist' /\ BindingsDominate' /\ BranchBindings'
  BY <1>1, <1>2, InPlace DEF Return, shape
<1>4. TypeOK'
  BY <1>1, <1>3 DEF TypeOK
<1>5. OnlyPointsOpen'
  BY <1>1, <1>2, <1>3 DEF OnlyPointsOpen, Points
<1>6. LastIsReturn' /\ FunctionsReturn'
  BY <1>1, <1>2, <1>3 DEF LastIsReturn, FunctionsReturn
<1>7. OneExecution'
  <2>1. Frontier' = Frontier \ {cur} /\ Points' = Points
    BY <1>1, <1>2, <1>3 DEF Frontier, Points, TypeOK
  <2>2. Active(cur) <=> cur \in Frontier
    BY DEF Active, Frontier
  <2>3. ret' = 0 <=> ret = 0 /\ cur \notin Frontier
    BY <1>1, <2>2
  <2> QED
    BY <1>1, <2>1, <2>2, <2>3 DEF OneExecution
<1> QED
  BY <1>3, <1>4, <1>5, <1>6, <1>7

LEMMA GlobalBasicStep ==
    ASSUME Inductive, NEW e \in Expr, GlobalBasic(e)
    PROVE  Inductive'
<1> USE DEF Inductive
<1>1. /\ Compiling /\ Idle /\ ~InBody /\ ~InBody' /\ stack = << >>
      /\ (Idle' <=> Compiling') /\ steps' = steps + 1
      /\ UNCHANGED <<globals, cur, stack, func, lastPart, live, ret>>
  BY DEF GlobalBasic, InBody, Idle, Compiling, TypeOK
<1>2. CASE cur = 0
  <2>1. /\ UNCHANGED <<scopes, blocks>> /\ result' \in {"abort", result}
        /\ loose' \in BOOLEAN
    BY <1>2 DEF GlobalBasic
  <2>2. TypeOK' /\ PointsApart' /\ SlotsExist'
    BY <1>1, <2>1 DEF TypeOK, Results, PointsApart, SlotsExist
  <2>3. OnlyPointsOpen' /\ BindingsDominate' /\ BranchBindings' /\ FunctionsReturn'
    BY <1>1, <2>1 DEF OnlyPointsOpen, BindingsDominate, BranchBindings, FunctionsReturn
  <2> QED
    BY <1>1, <2>2, <2>3 DEF LastIsReturn, OneExecution
<1>3. CASE cur # 0
  <2>1. /\ scopes' = ScopesAfter(e) /\ result' = result /\ loose' = loose
        /\ blocks' = [blocks EXCEPT ![cur] = ShapeAfter(e)]
    BY <1>3 DEF GlobalBasic
  <2>2. ShapeAfter(e) \in BlockShape /\ (Ended(ShapeAfter(e)) <=> Ended(blocks[cur]))
    BY <1>3, ShapeFacts
  <2>3. /\ scopes' \in Seq(Bindings) /\ Len(scopes') = Len(scopes)
        /\ blocks' \in Seq(BlockShape) /\ Len(blocks') = Len(blocks)
        /\ DOMAIN blocks = 1 .. Len(blocks) /\ DOMAIN blocks' = 1 .. Len(blocks)
        /\ cur \in 1 .. Len(blocks)
        /\ \A b \in 1 .. Len(blocks) :
              blocks'[b] = IF b = cur THEN ShapeAfter(e) ELSE blocks[b]
        /\ PointsApart' /\ SlotsExist' /\ BindingsDominate' /\ BranchBindings'
    BY <1>1, <1>3, <2>1, <2>2, InPlace
  <2>4. TypeOK'
    BY <1>1, <2>1, <2>3 DEF TypeOK
  <2>5. OnlyPointsOpen'
    BY <1>1, <2>2, <2>3 DEF OnlyPointsOpen
  <2>6. FunctionsReturn'
    <3>1. blocks # << >>
      BY <2>3, EmptySeq
    <3> QED
      BY <1>1, <3>1 DEF FunctionsReturn
  <2> QED
    BY <1>1, <2>3, <2>4, <2>5, <2>6 DEF LastIsReturn, OneExecution
<1> QED
  BY <1>2, <1>3

LEMMA DeclareFunctionStep ==
    ASSUME Inductive, NEW f \in Names, DeclareFunction(f)
    PROVE  Inductive'
<1> USE DEF Inductive
<1>1. /\ ~InBody' /\ ~InBody /\ (Compiling' <=> Compiling) /\ (Idle' <=> Idle)
      /\ globals' = globals \cup {f} /\ steps' = steps + 1
      /\ UNCHANGED <<scopes, blocks, cur, stack, func, lastPart, result, loose, live,
                     ret>>
  BY DEF DeclareFunction, InBody, Idle, Compiling
<1>2. TypeOK'
  BY <1>1 DEF TypeOK
<1>3. PointsApart' /\ SlotsExist' /\ BranchBindings' /\ BindingsDominate'
  BY <1>1 DEF PointsApart, SlotsExist, BranchBindings, BindingsDominate
<1>4. OnlyPointsOpen' /\ FunctionsReturn'
  BY <1>1 DEF OnlyPointsOpen, FunctionsReturn
<1> QED
  BY <1>1, <1>2, <1>3, <1>4 DEF LastIsReturn, OneExecution

LEMMA BeginFunctionStep ==
    ASSUME Inductive, NEW f \in Names, NEW args \in SUBSET Names, BeginFunction(f, args)
    PROVE  Inductive'
<1> USE DEF Inductive
<1> DEFINE entry == Len(blocks) + 1
           slots == [n \in Names |-> IF n \in args THEN entry ELSE 0]
<1>1. /\ Compiling /\ Idle /\ InBody' /\ Compiling' /\ ~Idle'
      /\ stack = << >> /\ stack' = << >>
      /\ Len(blocks) \in Nat /\ DOMAIN blocks = 1 .. Len(blocks)
      /\ cur' = entry /\ live' = {entry} /\ ret' = 0 /\ scopes' = <<slots>>
      /\ lastPart' = "none" /\ func' = f /\ steps' = steps + 1 /\ result' = result
      /\ loose' = loose
      /\ globals' = globals \cup {f}
  BY LoweringAssumption, LenProperties
     DEF BeginFunction, InBody, Idle, Compiling, TypeOK, LoweringAssumption
<1>2. /\ blocks' \in Seq(BlockShape) /\ Len(blocks') = entry
      /\ DOMAIN blocks' = 1 .. entry
      /\ \A b \in 1 .. Len(blocks) : blocks'[b] = blocks[b]
      /\ blocks'[entry] = NewBlock
  BY AppendProperties, LenProperties DEF BeginFunction, TypeOK, BlockShape, NewBlock
<1>3. /\ slots \in Bindings /\ <<slots>> \in Seq(Bindings) /\ Len(<<slots>>) = 1
      /\ DOMAIN <<slots>> = {1} /\ <<slots>>[1] = slots
      /\ \A n \in Names : slots[n] \in {0, entry}
  BY <1>1 DEF Bindings
<1> HIDE DEF slots
<1>4. TypeOK'
  BY <1>1, <1>2, <1>3 DEF TypeOK
<1>5. PointsApart' /\ BranchBindings'
  BY <1>1 DEF PointsApart, BranchBindings
<1>6. SlotsExist' /\ BindingsDominate'
  BY <1>1, <1>2, <1>3 DEF SlotsExist, BindingsDominate
<1>7. OnlyPointsOpen'
  <2>1. \A b \in 1 .. Len(blocks) : Ended(blocks[b])
    BY <1>1 DEF OnlyPointsOpen, Idle, InBody
  <2> QED
    BY <1>1, <1>2, <2>1 DEF OnlyPointsOpen, Points
<1>8. LastIsReturn' /\ FunctionsReturn'
  BY <1>1 DEF LastIsReturn, FunctionsReturn
<1>9. OneExecution'
  <2>1. Frontier' = {entry} /\ entry \in Points'
    BY <1>1, <1>2 DEF Frontier, Points, Ended, NewBlock
  <2> QED
    BY <1>1, <2>1 DEF OneExecution
<1> QED
  BY <1>4, <1>5, <1>6, <1>7, <1>8, <1>9

LEMMA EndFunctionStep ==
    ASSUME Inductive, EndFunction
    PROVE  Inductive'
<1> USE DEF Inductive
<1>1. /\ Compiling /\ InBody /\ Compiling' /\ Idle' /\ ~InBody'
      /\ stack = << >> /\ lastPart = "Return" /\ func' = NoName
      /\ func # NoName
      /\ UNCHANGED <<globals, scopes, blocks, cur, stack, lastPart, steps, result,
                     loose, live, ret>>
  BY DEF EndFunction, InBody, Idle, Compiling
<1>a. /\ cur \in 1 .. Len(blocks) /\ DOMAIN blocks = 1 .. Len(blocks)
  BY <1>1, LenProperties DEF TypeOK
<1>2. Ended(blocks[cur]) /\ Points = {cur}
  BY <1>1, <1>a DEF LastIsReturn, Ended, Points
<1>3. TypeOK'
  BY <1>1 DEF TypeOK
<1>4. PointsApart' /\ SlotsExist' /\ BranchBindings' /\ BindingsDominate'
  BY <1>1 DEF PointsApart, SlotsExist, BranchBindings, BindingsDominate
<1>5. OnlyPointsOpen'
  BY <1>1, <1>2 DEF OnlyPointsOpen
<1>6. FunctionsReturn'
  <2>1. cur \notin Frontier
    BY <1>2 DEF Frontier
  <2>2. ret # 0
    BY <1>1, <1>2, <2>1 DEF OneExecution
  <2> QED
    BY <1>1, <2>2 DEF FunctionsReturn
<1> QED
  BY <1>1, <1>3, <1>4, <1>5, <1>6 DEF LastIsReturn, OneExecution

(* Nested statements push and pop a scope and a frame together. *)

LEMMA StackFacts ==
    ASSUME TypeOK
    PROVE  /\ DOMAIN stack = 1 .. Len(stack) /\ Len(stack) \in Nat
           /\ DOMAIN scopes = 1 .. Len(scopes) /\ Len(scopes) = Len(stack) + 1
           /\ DOMAIN blocks = 1 .. Len(blocks) /\ Len(blocks) \in Nat
           /\ Popped \in Seq(Bindings) /\ Len(Popped) = Len(stack)
           /\ DOMAIN Popped = 1 .. Len(stack)
           /\ \A i \in 1 .. Len(stack) : Popped[i] = scopes[i]
           /\ NoBindings \in Bindings /\ \A n \in Names : NoBindings[n] = 0
<1>1. scopes \in Seq(Bindings) /\ Len(scopes) = Len(stack) + 1 /\ scopes # << >>
      /\ stack \in Seq(Frame)
  BY EmptySeq DEF TypeOK
<1>2. /\ Popped \in Seq(Bindings) /\ Len(Popped) = Len(scopes) - 1
      /\ \A i \in 1 .. Len(scopes) - 1 : Popped[i] = scopes[i]
  BY <1>1, PopFacts DEF Popped
<1>3. Len(stack) \in Nat /\ DOMAIN Popped = 1 .. Len(Popped)
  BY <1>1, <1>2, LenProperties
<1>4. NoBindings \in Bindings /\ \A n \in Names : NoBindings[n] = 0
  BY DEF NoBindings, Bindings
<1>5. Len(Popped) = Len(stack)
  BY <1>1, <1>2, <1>3
<1> QED
  BY <1>1, <1>2, <1>3, <1>4, <1>5, LenProperties DEF TypeOK

LEMMA TopFacts ==
    ASSUME TypeOK, stack # << >>
    PROVE  /\ Len(stack) \in 1 .. Len(stack) /\ Top = stack[Len(stack)]
           /\ Top \in Frame
           /\ Outer \in Seq(Frame) /\ Len(Outer) = Len(stack) - 1
           /\ DOMAIN Outer = 1 .. Len(stack) - 1
           /\ \A i \in 1 .. Len(stack) - 1 : Outer[i] = stack[i]
<1>1. stack \in Seq(Frame)
  BY DEF TypeOK
<1>2. /\ Len(stack) \in Nat \ {0} /\ Outer \in Seq(Frame) /\ Len(Outer) = Len(stack) - 1
      /\ \A i \in 1 .. Len(stack) - 1 : Outer[i] = stack[i]
  BY <1>1, PopFacts DEF Outer
<1>3. Len(stack) \in 1 .. Len(stack)
  BY <1>2
<1>4. stack[Len(stack)] \in Frame
  BY <1>1, <1>3, ElementOfSeq
<1> QED
  BY <1>2, <1>3, <1>4, LenProperties DEF Top

LEMMA EnterBlockStep ==
    ASSUME Inductive, EnterBlock
    PROVE  Inductive'
<1> USE DEF Inductive
<1> DEFINE frame == [kind |-> "block", other |-> 0]
<1>1. /\ Compiling /\ InBody /\ Compiling' /\ InBody' /\ ~Idle'
      /\ lastPart' = "other" /\ steps' = steps + 1
      /\ scopes' = Append(scopes, NoBindings) /\ stack' = Append(stack, frame)
      /\ UNCHANGED <<globals, blocks, cur, func, result, loose, live, ret>>
  BY DEF EnterBlock, InBody, Idle, Compiling, Pushed
<1>2. frame \in Frame /\ frame.kind = "block" /\ frame.other = 0
  BY DEF Frame
<1> HIDE DEF frame
<1>3. /\ stack' \in Seq(Frame) /\ Len(stack') = Len(stack) + 1
      /\ DOMAIN stack' = 1 .. Len(stack) + 1
      /\ \A i \in 1 .. Len(stack) : stack'[i] = stack[i]
      /\ stack'[Len(stack) + 1] = frame
  BY <1>1, <1>2, AppendProperties, LenProperties DEF TypeOK
<1>4. /\ scopes' \in Seq(Bindings) /\ Len(scopes') = Len(stack) + 2
      /\ DOMAIN scopes' = 1 .. Len(stack) + 2
      /\ \A i \in 1 .. Len(stack) + 1 : scopes'[i] = scopes[i]
      /\ scopes'[Len(stack) + 2] = NoBindings
  BY <1>1, StackFacts, AppendProperties, LenProperties DEF TypeOK
<1>5. TypeOK'
  <2>1. Len(stack) \in Nat /\ func # NoName
    BY <1>1, StackFacts DEF InBody
  <2> QED
    BY <1>1, <1>3, <1>4, <2>1 DEF TypeOK
<1>6. PointsApart'
  BY <1>1, <1>2, <1>3, StackFacts DEF PointsApart
<1>7. SlotsExist' /\ BindingsDominate'
  BY <1>1, <1>4, StackFacts DEF SlotsExist, BindingsDominate
<1>8. BranchBindings'
  <2>1. 0 \notin live
    BY DEF TypeOK
  <2> QED
    BY <1>1, <1>2, <1>3, <1>4, <2>1, StackFacts DEF BranchBindings
<1>9. Points' = Points \cup {0}
  <2>1. DOMAIN stack' = DOMAIN stack \cup {Len(stack) + 1}
    BY <1>3, StackFacts
  <2> QED
    BY <1>1, <1>2, <1>3, <2>1, StackFacts DEF Points
<1>10. OnlyPointsOpen' /\ OneExecution'
  BY <1>1, <1>9 DEF OnlyPointsOpen, OneExecution, Frontier
<1> QED
  BY <1>1, <1>5, <1>6, <1>7, <1>8, <1>10 DEF LastIsReturn, FunctionsReturn

LEMMA ExitBlockStep ==
    ASSUME Inductive, ExitBlock
    PROVE  Inductive'
<1> USE DEF Inductive
<1>1. /\ Compiling /\ InBody /\ Compiling' /\ InBody' /\ ~Idle' /\ func # NoName
      /\ lastPart' = "other"
      /\ UNCHANGED <<globals, blocks, cur, func, steps, result, loose, live, ret>>
  BY DEF ExitBlock, InBody, Idle, Compiling
<1>2. /\ stack' \in Seq(Frame) /\ Len(stack') = Len(stack) - 1
      /\ DOMAIN stack' = 1 .. Len(stack) - 1
      /\ \A i \in 1 .. Len(stack) - 1 : stack'[i] = stack[i]
      /\ Len(stack) \in 1 .. Len(stack) /\ stack[Len(stack)].kind = "block"
  BY TopFacts DEF ExitBlock
<1>3. /\ scopes' \in Seq(Bindings) /\ Len(scopes') = Len(stack)
      /\ DOMAIN scopes' = 1 .. Len(stack)
      /\ \A i \in 1 .. Len(stack) : scopes'[i] = scopes[i]
      /\ DOMAIN stack = 1 .. Len(stack) /\ Len(stack) \in Nat
      /\ DOMAIN scopes = 1 .. Len(stack) + 1
      /\ DOMAIN blocks = 1 .. Len(blocks)
  BY StackFacts DEF ExitBlock
<1>4. TypeOK'
  <2>1. Len(scopes') = Len(stack') + 1
    BY <1>2, <1>3
  <2> QED
    BY <1>1, <1>2, <1>3, <2>1 DEF TypeOK
<1>5. PointsApart'
  <2>1. \A i \in DOMAIN stack' : i \in DOMAIN stack /\ stack'[i] = stack[i]
    BY <1>2, <1>3
  <2>2. UNCHANGED <<blocks, cur>>
    BY <1>1
  <2> QED
    BY <2>1, <2>2 DEF PointsApart
<1>6. SlotsExist' /\ BindingsDominate' /\ BranchBindings'
  <2>1. \A i \in DOMAIN scopes' : i \in DOMAIN scopes /\ scopes'[i] = scopes[i]
    BY <1>3
  <2>2. SlotsExist' /\ BindingsDominate'
    BY <1>1, <2>1 DEF SlotsExist, BindingsDominate
  <2>3. ASSUME NEW i \in DOMAIN stack', stack'[i].other \in live',
               NEW j \in 1 .. i, NEW n \in Names
        PROVE  scopes'[j][n] \in live' \cup {0}
    <3>1. i \in DOMAIN stack /\ stack[i].other \in live /\ scopes'[j] = scopes[j]
      BY <1>1, <1>2, <1>3, <2>3
    <3> QED
      BY <1>1, <3>1 DEF BranchBindings
  <2> QED
    BY <2>2, <2>3 DEF BranchBindings
<1>7. Points = Points' \cup {0}
  <2>1. DOMAIN stack = DOMAIN stack' \cup {Len(stack)}
    BY <1>2, <1>3
  <2>2. stack[Len(stack)].other = 0
    BY <1>2, <1>3 DEF PointsApart
  <2>3. \A i \in DOMAIN stack' : stack'[i] = stack[i]
    BY <1>2
  <2>4. {stack[i].other : i \in DOMAIN stack}
           = {stack'[i].other : i \in DOMAIN stack'} \cup {0}
    BY <2>1, <2>2, <2>3
  <2> QED
    BY <1>1, <2>4 DEF Points
<1>8. OnlyPointsOpen'
  BY <1>1, <1>3, <1>7 DEF OnlyPointsOpen
<1>9. OneExecution'
  BY <1>1, <1>7 DEF OneExecution, Frontier, TypeOK
<1> QED
  BY <1>1, <1>4, <1>5, <1>6, <1>8, <1>9 DEF LastIsReturn, FunctionsReturn

LEMMA EnterElseStep ==
    ASSUME Inductive, EnterElse
    PROVE  Inductive'
<1> USE DEF Inductive
<1> DEFINE d == Len(stack)
           frame == [kind |-> "else", other |-> cur]
<1>1. /\ Compiling /\ InBody /\ Compiling' /\ InBody' /\ ~Idle' /\ func # NoName
      /\ lastPart' = "other"
      /\ UNCHANGED <<globals, blocks, func, steps, result, loose, live, ret>>
  BY DEF EnterElse, InBody, Idle, Compiling
<1>2. /\ DOMAIN stack = 1 .. d /\ d \in Nat /\ d \in 1 .. d
      /\ DOMAIN scopes = 1 .. d + 1 /\ DOMAIN blocks = 1 .. Len(blocks)
      /\ cur' = stack[d].other /\ stack[d].kind = "then"
      /\ cur \in 1 .. Len(blocks)
  BY <1>1, StackFacts, TopFacts DEF EnterElse, TypeOK
<1>3. /\ frame \in Frame /\ frame.kind = "else" /\ frame.other = cur
  BY <1>2 DEF Frame
<1> HIDE DEF frame
<1>4. /\ stack' \in Seq(Frame) /\ Len(stack') = d /\ DOMAIN stack' = 1 .. d
      /\ \A i \in 1 .. d - 1 : stack'[i] = stack[i]
      /\ stack'[d] = frame
  <2>1. stack' = Append(Outer, frame) /\ Outer \in Seq(Frame) /\ Len(Outer) = d - 1
        /\ \A i \in 1 .. d - 1 : Outer[i] = stack[i]
    BY TopFacts DEF EnterElse, frame
  <2> HIDE DEF d
  <2>2. Len(stack') = d /\ stack' \in Seq(Frame) /\ stack'[d] = frame
        /\ \A i \in 1 .. d - 1 : stack'[i] = Outer[i]
    BY <1>2, <1>3, <2>1, AppendProperties
  <2> QED
    BY <2>1, <2>2, LenProperties
<1>5. /\ scopes' \in Seq(Bindings) /\ Len(scopes') = d + 1 /\ DOMAIN scopes' = 1 .. d + 1
      /\ \A i \in 1 .. d : scopes'[i] = scopes[i]
      /\ \A n \in Names : scopes'[d + 1][n] = 0
  <2>1. scopes' = Append(Popped, NoBindings)
    BY DEF EnterElse
  <2>2. /\ Popped \in Seq(Bindings) /\ Len(Popped) = d /\ NoBindings \in Bindings
        /\ \A i \in 1 .. d : Popped[i] = scopes[i]
        /\ \A n \in Names : NoBindings[n] = 0
    BY StackFacts
  <2> HIDE DEF d
  <2>3. /\ scopes' \in Seq(Bindings) /\ Len(scopes') = d + 1
        /\ scopes'[d + 1] = NoBindings
        /\ \A i \in 1 .. d : scopes'[i] = Popped[i]
    BY <2>1, <2>2, AppendProperties
  <2> QED
    BY <2>2, <2>3, LenProperties
<1> HIDE DEF d
<1>6. stack[d].other \in 1 .. Len(blocks) /\ stack[d].other # cur
  BY <1>2 DEF PointsApart
<1>7. TypeOK'
  BY <1>1, <1>2, <1>4, <1>5, <1>6 DEF TypeOK
<1>8. PointsApart'
  <2>1. ASSUME NEW i \in 1 .. d - 1
        PROVE  /\ i \in DOMAIN stack /\ i # d /\ stack'[i] = stack[i]
               /\ stack[i].other # cur /\ (stack[i].other # 0 => stack[i].other # cur')
               /\ cur' # stack[i].other
    BY <1>2, <1>4, <1>6, <2>1 DEF PointsApart
  <2>2. DOMAIN stack' = (1 .. d - 1) \cup {d}
    BY <1>2, <1>4
  <2>3. \A i \in DOMAIN stack' :
           IF stack'[i].kind = "block" THEN stack'[i].other = 0
           ELSE stack'[i].other \in 1 .. Len(blocks') /\ stack'[i].other # cur'
    BY <1>1, <1>2, <1>3, <1>4, <1>6, <2>1, <2>2 DEF PointsApart
  <2>4. \A i, j \in DOMAIN stack' :
           i # j /\ stack'[i].other # 0 => stack'[i].other # stack'[j].other
    BY <1>3, <1>4, <2>1, <2>2 DEF PointsApart
  <2> QED
    BY <2>3, <2>4 DEF PointsApart
<1>9. SlotsExist' /\ BindingsDominate' /\ BranchBindings'
  <2>1. \A i \in DOMAIN scopes', n \in Names :
           \/ i \in 1 .. d /\ scopes'[i][n] = scopes[i][n] /\ i \in DOMAIN scopes
           \/ scopes'[i][n] = 0
    BY <1>2, <1>5
  <2>2. SlotsExist'
    BY <1>1, <1>2, <2>1 DEF SlotsExist, TypeOK
  <2>3. BindingsDominate'
    BY <1>1, <1>2, <2>1 DEF BindingsDominate, BranchBindings
  <2>4. ASSUME NEW i \in DOMAIN stack', stack'[i].other \in live',
               NEW j \in 1 .. i, NEW n \in Names
        PROVE  scopes'[j][n] \in live' \cup {0}
    <3>1. j \in 1 .. d /\ scopes'[j] = scopes[j] /\ j \in DOMAIN scopes
      BY <1>2, <1>4, <1>5
    <3>2. CASE i = d
      BY <1>1, <1>3, <1>4, <2>4, <3>1, <3>2 DEF BindingsDominate
    <3>3. CASE i # d
      <4>1. i \in DOMAIN stack /\ stack'[i] = stack[i]
        BY <1>2, <1>4, <3>3
      <4> QED
        BY <1>1, <2>4, <3>1, <4>1 DEF BranchBindings
    <3> QED
      BY <3>2, <3>3
  <2> QED
    BY <2>2, <2>3, <2>4 DEF BranchBindings
<1>10. Points' = Points
  <2> DEFINE others == {stack[i].other : i \in 1 .. d - 1}
  <2>1. {stack[i].other : i \in DOMAIN stack} = others \cup {cur'}
    BY <1>2
  <2>2. {stack'[i].other : i \in DOMAIN stack'} = others \cup {cur}
    BY <1>2, <1>3, <1>4
  <2> QED
    BY <2>1, <2>2 DEF Points
<1>11. OnlyPointsOpen' /\ OneExecution'
  BY <1>1, <1>10 DEF OnlyPointsOpen, OneExecution, Frontier
<1> QED
  BY <1>1, <1>7, <1>8, <1>9, <1>11 DEF LastIsReturn, FunctionsReturn

LEMMA ExitIfStep ==
    ASSUME Inductive, ExitIf
    PROVE  Inductive'
<1> USE DEF Inductive
<1> DEFINE d == Len(stack)
           then_end == stack[d].other
           new == Len(blocks) + 1
<1>1. /\ Compiling /\ InBody /\ Compiling' /\ InBody' /\ ~Idle' /\ func # NoName
      /\ lastPart' = "other"
      /\ UNCHANGED <<globals, func, steps, result, loose, ret>>
  BY DEF ExitIf, InBody, Idle, Compiling
<1>2. /\ DOMAIN stack = 1 .. d /\ d \in Nat /\ d \in 1 .. d
      /\ DOMAIN scopes = 1 .. d + 1 /\ DOMAIN blocks = 1 .. Len(blocks)
      /\ Len(blocks) \in Nat /\ live \subseteq 1 .. Len(blocks)
      /\ stack[d].kind = "else" /\ cur \in 1 .. Len(blocks)
  BY <1>1, StackFacts, TopFacts DEF ExitIf, TypeOK
<1>3. /\ stack' \in Seq(Frame) /\ Len(stack') = d - 1 /\ DOMAIN stack' = 1 .. d - 1
      /\ \A i \in 1 .. d - 1 : stack'[i] = stack[i]
  BY TopFacts DEF ExitIf
<1>4. /\ scopes' \in Seq(Bindings) /\ Len(scopes') = d /\ DOMAIN scopes' = 1 .. d
      /\ \A i \in 1 .. d : scopes'[i] = scopes[i]
  BY StackFacts DEF ExitIf
<1>5. then_end \in 1 .. Len(blocks) /\ then_end # cur
  BY <1>2 DEF PointsApart
<1>6. ASSUME NEW i \in 1 .. d - 1
      PROVE  /\ i \in DOMAIN stack /\ stack'[i] = stack[i]
             /\ stack[i].other # cur /\ stack[i].other # then_end
             /\ stack[i].other \in 0 .. Len(blocks)
             /\ stack[i].kind = "block" => stack[i].other = 0
             /\ stack[i].kind # "block" => stack[i].other \in 1 .. Len(blocks)
  BY <1>2, <1>3, <1>5, <1>6 DEF PointsApart
<1> DEFINE closed == blocks[then_end].last /\ blocks[cur].last
<1>7. /\ closed => UNCHANGED <<blocks, cur, live>>
      /\ ~closed =>
            /\ blocks' = Append([b \in DOMAIN blocks |->
                                    IF b \in {then_end, cur}
                                    THEN Branched(blocks[b]) ELSE blocks[b]], NewBlock)
            /\ cur' = new
            /\ live' = live \cup IF Active(then_end) \/ Active(cur) THEN {new} ELSE {}
  BY DEF ExitIf, Top
<1> HIDE DEF closed
<1>8. ASSUME ~closed
      PROVE  /\ blocks' \in Seq(BlockShape) /\ Len(blocks') = new
             /\ DOMAIN blocks' = 1 .. new
             /\ \A b \in 1 .. Len(blocks) :
                   IF b \in {then_end, cur} THEN Ended(blocks'[b])
                                            ELSE blocks'[b] = blocks[b]
             /\ blocks'[new] = NewBlock
  <2> DEFINE both == [b \in DOMAIN blocks |->
                        IF b \in {then_end, cur} THEN Branched(blocks[b]) ELSE blocks[b]]
  <2>1. \A b \in 1 .. Len(blocks) :
           /\ blocks[b] \in BlockShape /\ Branched(blocks[b]) \in BlockShape
           /\ Ended(Branched(blocks[b]))
    BY ElementOfSeq DEF TypeOK, Branched, Terminate, Ended, BlockShape
  <2>2. both \in [1 .. Len(blocks) -> BlockShape]
    BY <1>2, <2>1
  <2>3. both \in Seq(BlockShape) /\ Len(both) = Len(blocks)
    BY <1>2, <2>2
  <2>4. \A b \in 1 .. Len(blocks) :
           both[b] = IF b \in {then_end, cur} THEN Branched(blocks[b]) ELSE blocks[b]
    BY <1>2
  <2>5. blocks' = Append(both, NewBlock)
    BY <1>7, <1>8
  <2> HIDE DEF both
  <2>6. NewBlock \in BlockShape
    BY DEF NewBlock, BlockShape
  <2>7. /\ blocks' \in Seq(BlockShape) /\ Len(blocks') = new
        /\ \A b \in 1 .. Len(blocks) : blocks'[b] = both[b]
        /\ blocks'[new] = NewBlock
    BY <2>3, <2>5, <2>6, AppendProperties
  <2>8. DOMAIN blocks' = 1 .. new
    BY <2>7, LenProperties
  <2> QED
    BY <2>1, <2>4, <2>7, <2>8
<1>9. ASSUME closed PROVE Ended(blocks[then_end]) /\ Ended(blocks[cur])
  BY <1>9 DEF closed, Ended
<1> HIDE DEF d, then_end, new
<1>10. Len(blocks) <= Len(blocks') /\ Len(blocks') \in Nat
       /\ cur' \in 1 .. Len(blocks') /\ live' \subseteq 1 .. Len(blocks')
  <2>1. CASE closed
    <3>1. blocks' = blocks /\ cur' = cur /\ live' = live
      BY <1>7, <2>1
    <3>2. Len(blocks) <= Len(blocks)
      BY <1>2
    <3> QED
      BY <1>2, <3>1, <3>2
  <2>2. CASE ~closed
    <3>1. /\ Len(blocks') = Len(blocks) + 1 /\ cur' = Len(blocks) + 1
          /\ live' \subseteq live \cup {Len(blocks) + 1}
      BY <1>7, <1>8, <2>2 DEF new
    <3> QED
      BY <1>2, <3>1
  <2> QED
    BY <2>1, <2>2
<1>11. TypeOK'
  <2>1. Len(scopes') = Len(stack') + 1
    BY <1>2, <1>3, <1>4
  <2>2. blocks' \in Seq(BlockShape) /\ cur' \in 0 .. Len(blocks') /\ cur' # 0
    BY <1>7, <1>8, <1>10 DEF TypeOK
  <2> QED
    BY <1>1, <1>3, <1>4, <1>10, <2>1, <2>2 DEF TypeOK
<1>12. PointsApart'
  <2>1. \A i \in 1 .. d - 1 : stack[i].other # cur'
    BY <1>2, <1>6, <1>7 DEF new
  <2>2. \A i \in DOMAIN stack' :
           IF stack'[i].kind = "block" THEN stack'[i].other = 0
           ELSE stack'[i].other \in 1 .. Len(blocks') /\ stack'[i].other # cur'
    BY <1>2, <1>3, <1>6, <1>10, <2>1
  <2>3. \A i, j \in DOMAIN stack' :
           i # j /\ stack'[i].other # 0 => stack'[i].other # stack'[j].other
    BY <1>3, <1>6 DEF PointsApart
  <2> QED
    BY <2>2, <2>3 DEF PointsApart
<1>13. ASSUME NEW b \in live', b # new PROVE b \in live
  BY <1>7, <1>13
<1>14. SlotsExist'
  BY <1>2, <1>4, <1>10 DEF SlotsExist
<1>15. BindingsDominate'
  <2> SUFFICES ASSUME cur' \in live', NEW i \in DOMAIN scopes', NEW n \in Names
               PROVE  scopes'[i][n] \in live' \cup {0}
    BY DEF BindingsDominate
  <2>1. i \in 1 .. d /\ i \in DOMAIN scopes /\ scopes'[i] = scopes[i]
        /\ live \subseteq live'
    BY <1>2, <1>4, <1>7
  <2>2. cur \in live \/ then_end \in live
    BY <1>2, <1>7 DEF Active, new
  <2>3. CASE cur \in live
    BY <1>1, <2>1, <2>3 DEF BindingsDominate
  <2>4. CASE then_end \in live
    BY <1>1, <1>2, <2>1, <2>4 DEF BranchBindings, then_end
  <2> QED
    BY <2>2, <2>3, <2>4
<1>16. BranchBindings'
  <2> SUFFICES ASSUME NEW i \in DOMAIN stack', stack'[i].other \in live',
                      NEW j \in 1 .. i, NEW n \in Names
               PROVE  scopes'[j][n] \in live' \cup {0}
    BY DEF BranchBindings
  <2>1. /\ i \in 1 .. d - 1 /\ j \in 1 .. d /\ i \in DOMAIN stack
        /\ stack'[i] = stack[i] /\ scopes'[j] = scopes[j]
        /\ stack[i].other \in 0 .. Len(blocks)
    BY <1>2, <1>3, <1>4, <1>6
  <2>2. stack[i].other \in live /\ live \subseteq live'
    BY <1>2, <1>7, <1>13, <2>1 DEF new
  <2> QED
    BY <1>1, <2>1, <2>2 DEF BranchBindings
<1> DEFINE others == {stack[i].other : i \in 1 .. d - 1}
<1>17. Points = others \cup {cur, then_end} /\ Points' = others \cup {cur'}
  <2>1. {stack[i].other : i \in DOMAIN stack} = others \cup {then_end}
    BY <1>2 DEF then_end
  <2>2. {stack'[i].other : i \in DOMAIN stack'} = others
    BY <1>3
  <2> QED
    BY <2>1, <2>2 DEF Points
<1> HIDE DEF others
<1>18. OnlyPointsOpen'
  <2> SUFFICES ASSUME NEW b \in DOMAIN blocks', ~Ended(blocks'[b])
               PROVE  b \in Points'
    BY <1>1 DEF OnlyPointsOpen
  <2>1. CASE closed
    BY <1>1, <1>7, <1>9, <1>17, <2>1 DEF OnlyPointsOpen
  <2>2. CASE ~closed
    <3>1. CASE b = new
      BY <1>7, <1>17, <2>2, <3>1
    <3>2. CASE b # new
      <4>1. b \in 1 .. Len(blocks)
        BY <1>2, <1>8, <2>2, <3>2 DEF new
      <4>2. b \notin {then_end, cur} /\ blocks'[b] = blocks[b]
        BY <1>8, <2>2, <4>1
      <4> QED
        BY <1>1, <1>2, <1>17, <4>1, <4>2 DEF OnlyPointsOpen
    <3> QED
      BY <3>1, <3>2
  <2> QED
    BY <2>1, <2>2
<1>19. OneExecution'
  <2>1. CASE closed
    <3>1. Frontier' = Frontier /\ cur \notin Frontier /\ then_end \notin Frontier
      BY <1>7, <1>9, <2>1 DEF Frontier
    <3> QED
      BY <1>1, <1>7, <1>17, <2>1, <3>1 DEF OneExecution
  <2>2. CASE ~closed
    <3>1. Frontier' = (Frontier \ {then_end, cur})
                        \cup IF then_end \in Frontier \/ cur \in Frontier
                             THEN {new} ELSE {}
      <4>1. \A b \in 1 .. Len(blocks) : Ended(blocks'[b]) <=>
                Ended(blocks[b]) \/ b \in {then_end, cur}
        BY <1>8, <2>2
      <4>2. ~Ended(blocks'[new])
        BY <1>8, <2>2 DEF NewBlock, Ended
      <4>3. Active(then_end) \/ Active(cur) <=> then_end \in Frontier \/ cur \in Frontier
        BY DEF Active, Frontier
      <4>4. new \notin 1 .. Len(blocks)
        BY <1>2 DEF new
      <4> QED
        BY <1>2, <1>7, <2>2, <4>1, <4>2, <4>3, <4>4 DEF Frontier
    <3> QED
      BY <1>1, <1>7, <1>17, <2>2, <3>1 DEF OneExecution
  <2> QED
    BY <2>1, <2>2
<1> QED
  BY <1>1, <1>11, <1>12, <1>14, <1>15, <1>16, <1>18, <1>19 DEF LastIsReturn, FunctionsReturn

LEMMA EnterIfStep ==
    ASSUME Inductive, NEW e \in Expr, NEW taken \in BOOLEAN, EnterIf(e, taken)
    PROVE  Inductive'
<1> USE DEF Inductive
<1> DEFINE d == Len(stack)
           bthen == Len(blocks) + 1
           belse == Len(blocks) + 2
           frame == [kind |-> "then", other |-> belse]
           shape == Terminate(ShapeAfter(e))
           entered == IF taken THEN bthen ELSE belse
<1>1. /\ Compiling /\ InBody /\ Compiling' /\ InBody' /\ ~Idle' /\ func # NoName
      /\ lastPart' = "other" /\ steps' = steps + 1
      /\ UNCHANGED <<globals, func, result, loose, ret>>
  BY DEF EnterIf, InBody, Idle, Compiling
<1>2. /\ DOMAIN stack = 1 .. d /\ d \in Nat
      /\ DOMAIN scopes = 1 .. d + 1 /\ DOMAIN blocks = 1 .. Len(blocks)
      /\ Len(blocks) \in Nat /\ live \subseteq 1 .. Len(blocks)
      /\ cur \in 1 .. Len(blocks)
  BY <1>1, StackFacts DEF TypeOK
<1>3. cur' = bthen /\ live' = live \cup IF Active(cur) THEN {entered} ELSE {}
  BY DEF EnterIf
<1>4. entered \in {bthen, belse}
  OBVIOUS
<1> HIDE DEF entered
<1>5. /\ stack' \in Seq(Frame) /\ Len(stack') = d + 1 /\ DOMAIN stack' = 1 .. d + 1
      /\ \A i \in 1 .. d : stack'[i] = stack[i]
      /\ stack'[d + 1].kind = "then" /\ stack'[d + 1].other = belse
  <2>1. stack' = Append(stack, frame) /\ stack \in Seq(Frame)
    BY DEF EnterIf, TypeOK
  <2>2. frame \in Frame /\ frame.kind = "then" /\ frame.other = belse
    BY <1>2 DEF Frame
  <2> HIDE DEF frame
  <2>3. /\ stack' \in Seq(Frame) /\ Len(stack') = d + 1 /\ stack'[d + 1] = frame
        /\ \A i \in 1 .. d : stack'[i] = stack[i]
    BY <2>1, <2>2, AppendProperties
  <2> QED
    BY <2>2, <2>3, LenProperties
<1>6. /\ scopes' \in Seq(Bindings) /\ Len(scopes') = d + 2 /\ DOMAIN scopes' = 1 .. d + 2
      /\ \A i \in 1 .. d + 1 : scopes'[i] = ScopesAfter(e)[i]
      /\ \A n \in Names : scopes'[d + 2][n] = 0
      /\ DOMAIN ScopesAfter(e) = 1 .. d + 1
  <2>1. scopes' = Append(ScopesAfter(e), NoBindings)
    BY DEF EnterIf
  <2>2. /\ ScopesAfter(e) \in Seq(Bindings) /\ Len(ScopesAfter(e)) = d + 1
        /\ NoBindings \in Bindings /\ \A n \in Names : NoBindings[n] = 0
    BY <1>2, ScopeFacts, StackFacts
  <2>3. /\ scopes' \in Seq(Bindings) /\ Len(scopes') = Len(ScopesAfter(e)) + 1
        /\ scopes'[Len(ScopesAfter(e)) + 1] = NoBindings
        /\ \A i \in 1 .. d + 1 : scopes'[i] = ScopesAfter(e)[i]
    BY <2>1, <2>2, AppendProperties
  <2>4. Len(scopes') = d + 2 /\ scopes'[d + 2] = NoBindings
    BY <1>2, <2>2, <2>3
  <2> QED
    BY <2>2, <2>3, <2>4, LenProperties
<1>7. /\ blocks' \in Seq(BlockShape) /\ Len(blocks') = belse /\ DOMAIN blocks' = 1 .. belse
      /\ \A b \in 1 .. Len(blocks) :
            IF b = cur THEN Ended(blocks'[b]) ELSE blocks'[b] = blocks[b]
      /\ blocks'[bthen] = NewBlock /\ blocks'[belse] = NewBlock
  <2> DEFINE one == [blocks EXCEPT ![cur] = shape]
  <2>1. blocks' = one \o <<NewBlock, NewBlock>> /\ blocks \in Seq(BlockShape)
    BY DEF EnterIf, TypeOK
  <2>2. shape \in BlockShape /\ Ended(shape) /\ NewBlock \in BlockShape
    BY <1>2, ShapeFacts DEF Terminate, Ended, BlockShape, NewBlock
  <2> HIDE DEF shape
  <2>3. /\ one \in Seq(BlockShape) /\ Len(one) = Len(blocks)
        /\ \A b \in 1 .. Len(blocks) : one[b] = IF b = cur THEN shape ELSE blocks[b]
    BY <1>2, <2>1, <2>2, ExceptSeq
  <2> HIDE DEF one
  <2>4. /\ blocks' \in Seq(BlockShape) /\ Len(blocks') = belse
        /\ \A b \in 1 .. Len(blocks) : blocks'[b] = one[b]
        /\ blocks'[bthen] = NewBlock /\ blocks'[belse] = NewBlock
    <3>1. /\ blocks' \in Seq(BlockShape) /\ Len(blocks') = Len(one) + 2
          /\ \A b \in 1 .. Len(one) : blocks'[b] = one[b]
          /\ blocks'[Len(one) + 1] = NewBlock /\ blocks'[Len(one) + 2] = NewBlock
      <4> DEFINE two == one \o <<NewBlock, NewBlock>>
      <4>1. one \in Seq(BlockShape) /\ NewBlock \in BlockShape
        BY <2>2, <2>3
      <4>2. /\ two \in Seq(BlockShape) /\ Len(two) = Len(one) + 2
            /\ \A b \in 1 .. Len(one) : two[b] = one[b]
            /\ two[Len(one) + 1] = NewBlock /\ two[Len(one) + 2] = NewBlock
        BY <4>1, PushTwoFacts
      <4> QED
        BY <2>1, <4>2
    <3> QED
      BY <2>3, <3>1
  <2>5. DOMAIN blocks' = 1 .. belse
    <3>1. DOMAIN blocks' = 1 .. Len(blocks')
      BY <2>4, LenProperties
    <3> QED
      BY <2>4, <3>1
  <2>6. \A b \in 1 .. Len(blocks) :
           IF b = cur THEN Ended(blocks'[b]) ELSE blocks'[b] = blocks[b]
    BY <2>2, <2>3, <2>4
  <2> QED
    BY <2>4, <2>5, <2>6
<1> HIDE DEF d, shape, frame
<1>8. TypeOK'
  <2>1. Len(scopes') = Len(stack') + 1
    BY <1>2, <1>5, <1>6
  <2>2. live' \subseteq 1 .. Len(blocks')
    BY <1>2, <1>3, <1>4, <1>7
  <2>3. cur' \in 0 .. Len(blocks') /\ cur' # 0
    BY <1>2, <1>3, <1>7
  <2>4. steps' \in Nat
    BY <1>1 DEF TypeOK
  <2> QED
    BY <1>1, <1>5, <1>6, <1>7, <2>1, <2>2, <2>3, <2>4 DEF TypeOK
<1>9. ASSUME NEW i \in 1 .. d
      PROVE  /\ i \in DOMAIN stack /\ stack'[i] = stack[i]
             /\ stack[i].other \in 0 .. Len(blocks)
             /\ stack[i].kind = "block" => stack[i].other = 0
             /\ stack[i].kind # "block" => stack[i].other \in 1 .. Len(blocks)
             /\ stack[i].other # cur
  BY <1>2, <1>5, <1>9 DEF PointsApart
<1>10. PointsApart'
  <2>1. DOMAIN stack' = (1 .. d) \cup {d + 1}
    BY <1>2, <1>5
  <2>2. \A i \in 1 .. d : stack[i].other # bthen /\ stack[i].other # belse
    BY <1>2, <1>9
  <2>3. \A i \in DOMAIN stack' :
           IF stack'[i].kind = "block" THEN stack'[i].other = 0
           ELSE stack'[i].other \in 1 .. Len(blocks') /\ stack'[i].other # cur'
    BY <1>2, <1>3, <1>5, <1>7, <1>9, <2>1, <2>2
  <2>4. \A i, j \in DOMAIN stack' :
           i # j /\ stack'[i].other # 0 => stack'[i].other # stack'[j].other
    BY <1>5, <1>9, <2>1, <2>2 DEF PointsApart
  <2> QED
    BY <2>3, <2>4 DEF PointsApart
<1>11. /\ \A i \in 1 .. d + 1, n \in Names : ScopesAfter(e)[i][n] \in 0 .. Len(blocks)
       /\ cur \in live =>
             \A i \in 1 .. d + 1, n \in Names : ScopesAfter(e)[i][n] \in live \cup {0}
       /\ \A i \in 1 .. d : stack[i].other \in live =>
             \A j \in 1 .. i, n \in Names : ScopesAfter(e)[j][n] \in live \cup {0}
  <2>1. cur # 0
    BY <1>2
  <2> QED
    BY <1>1, <1>2, <1>6, <2>1, ExpressionBindings
<1>12. \A i \in DOMAIN scopes', n \in Names :
          \/ i \in 1 .. d + 1 /\ scopes'[i][n] = ScopesAfter(e)[i][n]
          \/ scopes'[i][n] = 0
  BY <1>2, <1>6
<1>13. live \subseteq live' /\ (\A b \in live' : b \in live \/ b > Len(blocks))
       /\ (bthen \in live' \/ belse \in live' => cur \in live)
  BY <1>2, <1>3, <1>4 DEF Active
<1>14. SlotsExist'
  BY <1>2, <1>7, <1>11, <1>12 DEF SlotsExist
<1>15. BindingsDominate'
  <2> SUFFICES ASSUME cur' \in live', NEW i \in DOMAIN scopes', NEW n \in Names
               PROVE  scopes'[i][n] \in live' \cup {0}
    BY DEF BindingsDominate
  <2>1. cur \in live
    BY <1>3, <1>13
  <2>2. CASE i \in 1 .. d + 1 /\ scopes'[i][n] = ScopesAfter(e)[i][n]
    BY <1>11, <1>13, <2>1, <2>2
  <2>3. CASE scopes'[i][n] = 0
    BY <2>3
  <2> QED
    BY <1>12, <2>2, <2>3
<1>16. BranchBindings'
  <2> SUFFICES ASSUME NEW i \in DOMAIN stack', stack'[i].other \in live',
                      NEW j \in 1 .. i, NEW n \in Names
               PROVE  scopes'[j][n] \in live' \cup {0}
    BY DEF BranchBindings
  <2>1. j \in 1 .. d + 1 /\ scopes'[j] = ScopesAfter(e)[j]
    BY <1>2, <1>5, <1>6
  <2>2. CASE i = d + 1
    BY <1>5, <1>11, <1>13, <2>1, <2>2
  <2>3. CASE i # d + 1
    <3>1. i \in 1 .. d /\ stack'[i] = stack[i] /\ ~(stack[i].other > Len(blocks))
      BY <1>2, <1>5, <1>9, <2>3
    <3> QED
      BY <1>11, <1>13, <2>1, <3>1
  <2> QED
    BY <2>2, <2>3
<1> DEFINE others == {stack[i].other : i \in 1 .. d}
<1>17. Points = others \cup {cur} /\ Points' = others \cup {bthen, belse}
  <2>1. {stack[i].other : i \in DOMAIN stack} = others
    BY <1>2
  <2>2. DOMAIN stack' = (1 .. d) \cup {d + 1}
    BY <1>2, <1>5
  <2>3. {stack'[i].other : i \in DOMAIN stack'} = others \cup {belse}
    BY <1>5, <2>2
  <2> QED
    BY <1>3, <2>1, <2>3 DEF Points
<1>18. OnlyPointsOpen'
  <2> SUFFICES ASSUME NEW b \in DOMAIN blocks', ~Ended(blocks'[b])
               PROVE  b \in Points'
    BY <1>1 DEF OnlyPointsOpen
  <2>1. CASE b \in {bthen, belse}
    BY <1>17, <2>1
  <2>2. CASE b \notin {bthen, belse}
    <3>1. b \in 1 .. Len(blocks)
      BY <1>2, <1>7, <2>2
    <3>2. b # cur /\ ~Ended(blocks[b])
      BY <1>7, <3>1
    <3> QED
      BY <1>1, <1>2, <1>17, <3>1, <3>2 DEF OnlyPointsOpen
  <2> QED
    BY <2>1, <2>2
<1>19. OneExecution'
  <2>1. Frontier' = (Frontier \ {cur}) \cup IF cur \in Frontier THEN {entered} ELSE {}
    <3>1. \A b \in 1 .. Len(blocks) : Ended(blocks'[b]) <=> Ended(blocks[b]) \/ b = cur
      BY <1>7
    <3>2. ~Ended(blocks'[entered])
      BY <1>4, <1>7 DEF NewBlock, Ended
    <3>3. Active(cur) <=> cur \in Frontier
      BY DEF Active, Frontier
    <3>4. entered \notin 1 .. Len(blocks)
      BY <1>2, <1>4
    <3> QED
      BY <1>2, <1>3, <3>1, <3>2, <3>3, <3>4 DEF Frontier
  <2> QED
    BY <1>1, <1>4, <1>17, <2>1 DEF OneExecution
<1> QED
  BY <1>1, <1>8, <1>10, <1>14, <1>15, <1>16, <1>18, <1>19 DEF LastIsReturn, FunctionsReturn

(* Once the compilation has ended only the shape of the state matters. *)
LEMMA EndStep ==
    ASSUME Inductive, Reject \/ ReportError \/ Unimplemented \/ MissingReturn \/ Verify
    PROVE  Inductive'
<1> USE DEF Inductive
<1>1. /\ ~Compiling' /\ ~InBody' /\ ~Idle' /\ result' \in Results /\ steps' \in Nat
      /\ UNCHANGED <<globals, scopes, blocks, cur, stack, func, lastPart, loose, live,
                     ret>>
  BY DEF Reject, ReportError, Unimplemented, MissingReturn, Verify, InBody, Idle,
         Compiling, Results, TypeOK
<1>2. TypeOK' /\ PointsApart' /\ SlotsExist'
  BY <1>1 DEF TypeOK, PointsApart, SlotsExist
<1> QED
  BY <1>1, <1>2 DEF OnlyPointsOpen, LastIsReturn, BindingsDominate, BranchBindings,
                    OneExecution, FunctionsReturn

LEMMA UnwindStep ==
    ASSUME Inductive, Unwind
    PROVE  Inductive'
<1> USE DEF Inductive
<1>1. /\ ~Compiling' /\ ~InBody' /\ ~Idle' /\ stack # << >>
      /\ UNCHANGED <<globals, blocks, cur, func, lastPart, steps, result, loose, live,
                     ret>>
  BY DEF Unwind, Failing, InBody, Idle, Compiling
<1>2. /\ stack' \in Seq(Frame) /\ Len(stack') = Len(stack) - 1
      /\ DOMAIN stack' = 1 .. Len(stack) - 1
      /\ \A i \in 1 .. Len(stack) - 1 : stack'[i] = stack[i]
      /\ Len(stack) \in 1 .. Len(stack)
  BY TopFacts DEF Unwind
<1>3. /\ scopes' \in Seq(Bindings) /\ Len(scopes') = Len(stack)
      /\ DOMAIN scopes' = 1 .. Len(stack)
      /\ \A i \in 1 .. Len(stack) : scopes'[i] = scopes[i]
      /\ DOMAIN stack = 1 .. Len(stack) /\ Len(stack) \in Nat
      /\ DOMAIN scopes = 1 .. Len(stack) + 1
  BY StackFacts DEF Unwind
<1>4. TypeOK'
  <2>1. Len(scopes') = Len(stack') + 1
    BY <1>2, <1>3
  <2>2. func # NoName
    BY <1>1 DEF TypeOK
  <2> QED
    BY <1>1, <1>2, <1>3, <2>1, <2>2 DEF TypeOK
<1>5. PointsApart'
  <2>1. \A i \in DOMAIN stack' : i \in DOMAIN stack /\ stack'[i] = stack[i]
    BY <1>2, <1>3
  <2>2. UNCHANGED <<blocks, cur>>
    BY <1>1
  <2> QED
    BY <2>1, <2>2 DEF PointsApart
<1>6. SlotsExist'
  <2>1. \A i \in DOMAIN scopes' : i \in DOMAIN scopes /\ scopes'[i] = scopes[i]
    BY <1>3
  <2> QED
    BY <1>1, <2>1 DEF SlotsExist
<1> QED
  BY <1>1, <1>4, <1>5, <1>6
     DEF OnlyPointsOpen, LastIsReturn, BindingsDominate, BranchBindings,
         OneExecution, FunctionsReturn

LEMMA StutterStep ==
    ASSUME Inductive, UNCHANGED vars
    PROVE  Inductive'
<1> USE DEF Inductive
<1>1. UNCHANGED <<globals, scopes, blocks, cur, stack, func, lastPart, steps, result,
                  loose, live, ret>>
  BY DEF vars
<1>2. TypeOK' /\ PointsApart' /\ SlotsExist' /\ (InBody' <=> InBody) /\ (Idle' <=> Idle)
      /\ (Compiling' <=> Compiling) /\ Points' = Points /\ Frontier' = Frontier
  BY <1>1 DEF TypeOK, PointsApart, SlotsExist, InBody, Idle, Compiling, Points, Frontier
<1>3. OnlyPointsOpen' /\ LastIsReturn' /\ BindingsDominate' /\ BranchBindings'
  BY <1>1, <1>2 DEF OnlyPointsOpen, LastIsReturn, BindingsDominate, BranchBindings
<1>4. OneExecution' /\ FunctionsReturn'
  BY <1>1, <1>2 DEF OneExecution, FunctionsReturn
<1> QED
  BY <1>2, <1>3, <1>4

LEMMA InitInductive == Init => Inductive
<1> SUFFICES ASSUME Init PROVE Inductive
  OBVIOUS
<1>1. NoBindings \in Bindings /\ \A n \in Names : NoBindings[n] = 0
  BY DEF NoBindings, Bindings
<1>2. /\ scopes \in Seq(Bindings) /\ Len(scopes) = 1 /\ DOMAIN scopes = {1}
      /\ scopes[1] = NoBindings
      /\ stack \in Seq(Frame) /\ Len(stack) = 0 /\ DOMAIN stack = {}
      /\ blocks \in Seq(BlockShape) /\ Len(blocks) = 0 /\ DOMAIN blocks = {}
  BY <1>1 DEF Init
<1>3. TypeOK
  <2>1. result \in Results /\ lastPart \in {"none", "Return", "other"}
    BY DEF Init, Results
  <2>2. loose \in BOOLEAN /\ func = NoName /\ stack = << >>
    BY DEF Init
  <2>3. /\ globals \subseteq Names /\ live \subseteq 1 .. Len(blocks)
        /\ cur \in 0 .. Len(blocks) /\ steps \in Nat /\ ret \in Nat
    BY <1>2 DEF Init
  <2> QED
    BY <1>2, <2>1, <2>2, <2>3 DEF TypeOK
<1>4. ~InBody
  BY DEF Init, InBody
<1> QED
  BY <1>1, <1>2, <1>3, <1>4
     DEF Init, Inductive, PointsApart, SlotsExist, OnlyPointsOpen, LastIsReturn,
         BindingsDominate, BranchBindings, OneExecution, FunctionsReturn

LEMMA StepInductive == Inductive /\ [Next]_vars => Inductive'
<1> SUFFICES ASSUME Inductive, [Next]_vars PROVE Inductive'
  OBVIOUS
<1>1. CASE \E f \in Names : DeclareFunction(f)
  BY <1>1, DeclareFunctionStep
<1>2. CASE \E f \in Names, args \in SUBSET Names : BeginFunction(f, args)
  BY <1>2, BeginFunctionStep
<1>3. CASE EndFunction
  BY <1>3, EndFunctionStep
<1>4. CASE \E e \in Expr : GlobalBasic(e)
  BY <1>4, GlobalBasicStep
<1>5. CASE \E e \in Expr : Basic(e)
  BY <1>5, BasicStep
<1>6. CASE \E e \in Expr : Return(e)
  BY <1>6, ReturnStep
<1>7. CASE EnterBlock
  BY <1>7, EnterBlockStep
<1>8. CASE ExitBlock
  BY <1>8, ExitBlockStep
<1>9. CASE \E e \in Expr, taken \in BOOLEAN : EnterIf(e, taken)
  BY <1>9, EnterIfStep
<1>10. CASE EnterElse
  BY <1>10, EnterElseStep
<1>11. CASE ExitIf
  BY <1>11, ExitIfStep
<1>12. CASE Reject \/ ReportError \/ Unimplemented \/ MissingReturn \/ Verify
  BY <1>12, EndStep
<1>13. CASE Unwind
  BY <1>13, UnwindStep
<1>14. CASE Done \/ UNCHANGED vars
  BY <1>14, StutterStep DEF Done
<1> QED
  BY <1>1, <1>2, <1>3, <1>4, <1>5, <1>6, <1>7, <1>8, <1>9, <1>10, <1>11, <1>12, <1>13,
     <1>14 DEF Next

(* The inductive invariant holds of every reachable state. *)
THEOREM InductiveInvariant == Spec => []Inductive
  BY InitInductive, StepInductive, PTL DEF Spec

(* Every variable stays within its type, the scopes balanced with the nesting. *)
THEOREM TypeCorrect == Spec => []TypeOK
<1>1. Inductive => TypeOK
  BY DEF Inductive
<1> QED
  BY <1>1, InductiveInvariant, PTL

(* Whenever a function is complete, each block so far has a terminator. *)
THEOREM BlocksAreClosed == Spec => []ClosedBlocks
<1>1. Inductive => ClosedBlocks
  BY DEF Inductive, OnlyPointsOpen, ClosedBlocks, Idle, InBody
<1> QED
  BY <1>1, InductiveInvariant, PTL

(* Every slot a name resolves to was allocated on all paths that lead here. *)
THEOREM BindingsAreDominated == Spec => []BindingsDominate
<1>1. Inductive => BindingsDominate
  BY DEF Inductive
<1> QED
  BY <1>1, InductiveInvariant, PTL

(* Every execution of a function that was compiled ends in a return. *)
THEOREM CompleteFunctionsReturn == Spec => []FunctionsReturn
<1>1. Inductive => FunctionsReturn
  BY DEF Inductive
<1> QED
  BY <1>1, InductiveInvariant, PTL

(* The branches of the emitted code keep exactly one execution going. *)
THEOREM ExecutionIsKept == Spec => []OneExecution
<1>1. Inductive => OneExecution
  BY DEF Inductive
<1> QED
  BY <1>1, InductiveInvariant, PTL

-----------------------------------------------------------------------------
(***************************************************************************)
(* Lowering.tla implements Structured.tla: the blocks StatmentVisitor      *)
(* emits mean what the nested statements mean.  Each action of the one is  *)
(* an action of the other, or a stutter.                                   *)
(***************************************************************************)

LEMMA WhereType ==
    ASSUME TypeOK, NEW b \in 0 .. Len(blocks)
    PROVE  Where(b) \in Source!Status
<1>1. CASE b = 0
  BY <1>1 DEF Where, Source!Status
<1>2. CASE b # 0
  <2>1. blocks[b] \in BlockShape
    BY <1>2, ElementOfSeq DEF TypeOK
  <2> QED
    BY <1>2, <2>1 DEF Where, Active, BlockShape, Source!Status
<1> QED
  BY <1>1, <1>2

LEMMA NestFacts ==
    ASSUME Inductive
    PROVE  /\ Nest \in Seq(Source!Frame) /\ Len(Nest) = Len(stack)
           /\ DOMAIN Nest = 1 .. Len(stack) /\ Len(stack) \in Nat
           /\ DOMAIN stack = 1 .. Len(stack)
           /\ \A i \in 1 .. Len(stack) :
                 /\ Nest[i] = [kind |-> stack[i].kind, other |-> Where(stack[i].other)]
                 /\ stack[i].kind \in {"block", "then", "else"}
                 /\ stack[i].other \in 0 .. Len(blocks)
                 /\ cur # 0 => stack[i].other # cur
<1> USE DEF Inductive
<1>1. DOMAIN stack = 1 .. Len(stack) /\ Len(stack) \in Nat
  BY StackFacts
<1>2. \A i \in 1 .. Len(stack) :
         /\ stack[i].kind \in {"block", "then", "else"}
         /\ stack[i].other \in 0 .. Len(blocks)
         /\ cur # 0 => stack[i].other # cur
  <2>1. \A i \in 1 .. Len(stack) : stack[i] \in Frame
    BY ElementOfSeq DEF TypeOK
  <2> QED
    BY <1>1, <2>1 DEF PointsApart, Frame, TypeOK
<1>3. \A i \in 1 .. Len(stack) :
         /\ Nest[i] = [kind |-> stack[i].kind, other |-> Where(stack[i].other)]
         /\ Nest[i] \in Source!Frame
  <2>1. \A i \in 1 .. Len(stack) :
           Nest[i] = [kind |-> stack[i].kind, other |-> Where(stack[i].other)]
    BY <1>1 DEF Nest
  <2>2. \A i \in 1 .. Len(stack) : Where(stack[i].other) \in Source!Status
    BY <1>2, WhereType
  <2> QED
    BY <1>2, <2>1, <2>2 DEF Source!Frame
<1>4. Nest \in [1 .. Len(stack) -> Source!Frame]
  BY <1>1, <1>3 DEF Nest
<1> QED
  BY <1>1, <1>2, <1>3, <1>4

(* A step that stays in its block shows nothing but that block. *)
LEMMA NestKept ==
    ASSUME Inductive, Inductive', UNCHANGED <<stack, live>>,
           \A b \in 1 .. Len(blocks) : b # cur => blocks'[b] = blocks[b],
           cur = 0 => blocks' = blocks
    PROVE  Nest' = Nest
<1>1. ASSUME NEW i \in DOMAIN stack
      PROVE  Where(stack[i].other)' = Where(stack[i].other)
  <2>1. /\ stack'[i].other = stack[i].other
        /\ stack[i].other = 0 \/ blocks'[stack[i].other] = blocks[stack[i].other]
        /\ live' = live
    BY <1>1, NestFacts
  <2> QED
    BY <2>1 DEF Where, Active
<1> QED
  BY <1>1 DEF Nest

LEMMA ExpressionRefines ==
    ASSUME Inductive, Inductive', NEW e \in Expr, cur # 0,
           blocks' = [blocks EXCEPT ![cur] = ShapeAfter(e)],
           UNCHANGED <<stack, live, cur, loose>>
    PROVE  /\ Nest' = Nest
           /\ Dead' <=> Dead \/ (Emits(e) /\ Here.closed)
           /\ Here' = [Here EXCEPT !.closed = @ /\ ~Emits(e)]
<1>1. /\ cur \in 1 .. Len(blocks) /\ DOMAIN blocks = 1 .. Len(blocks)
      /\ blocks[cur] \in BlockShape
      /\ DOMAIN blocks' = 1 .. Len(blocks)
      /\ \A b \in 1 .. Len(blocks) :
            blocks'[b] = IF b = cur THEN ShapeAfter(e) ELSE blocks[b]
  BY ElementOfSeq, StackFacts DEF Inductive, TypeOK
<1>2. Nest' = Nest
  BY <1>1, NestKept
<1>3. Here = [closed |-> blocks[cur].last, active |-> cur \in live /\ ~Ended(blocks[cur])]
      /\ Here' = [closed |-> ShapeAfter(e).last,
                  active |-> cur \in live /\ ~Ended(ShapeAfter(e))]
  BY <1>1 DEF Here, Where, Active
<1>4. /\ ShapeAfter(e).last <=> blocks[cur].last /\ ~Emits(e)
      /\ ShapeAfter(e).mid <=> blocks[cur].mid \/ (Emits(e) /\ blocks[cur].last)
      /\ Ended(ShapeAfter(e)) <=> Ended(blocks[cur])
      /\ ShapeAfter(e).last \in BOOLEAN /\ blocks[cur].last \in BOOLEAN
  BY <1>1 DEF ShapeAfter, Emit, Ended, BlockShape
<1>5. Dead' <=> Dead \/ (Emits(e) /\ Here.closed)
  BY <1>1, <1>3, <1>4 DEF Dead
<1>6. Here' = [Here EXCEPT !.closed = @ /\ ~Emits(e)]
  BY <1>3, <1>4
<1> QED
  BY <1>2, <1>5, <1>6

LEMMA BasicRefines ==
    ASSUME Inductive, Inductive', NEW e \in Expr, Basic(e)
    PROVE  Source!Work(Emits(e))
<1>1. /\ cur # 0 /\ Phase = "body" /\ Phase' = "body" /\ steps' = steps + 1
      /\ blocks' = [blocks EXCEPT ![cur] = ShapeAfter(e)]
      /\ UNCHANGED <<stack, live, cur, loose, ret>>
  BY DEF Inductive, TypeOK, Basic, InBody, Compiling, Phase
<1>2. /\ Nest' = Nest
      /\ Dead' <=> Dead \/ (Emits(e) /\ Here.closed)
      /\ Here' = [Here EXCEPT !.closed = @ /\ ~Emits(e)]
  BY <1>1, ExpressionRefines
<1>3. Dead' = (Dead \/ (Emits(e) /\ Here.closed))
  BY <1>2 DEF Dead
<1> QED
  BY <1>1, <1>2, <1>3 DEF Source!Work, Source!Write

LEMMA StatusFacts ==
    ASSUME NEW here, NEW closed, NEW active, NEW now,
           here = [closed |-> closed, active |-> active]
    PROVE  [here EXCEPT !.closed = now] = [closed |-> now, active |-> active]
OBVIOUS

LEMMA GlobalBasicRefines ==
    ASSUME Inductive, Inductive', NEW e \in Expr, GlobalBasic(e)
    PROVE  (\E writes \in BOOLEAN : Source!Work(writes)) \/ Source!Abandon
<1>1. /\ Phase = "idle" /\ steps' = steps + 1
      /\ UNCHANGED <<stack, live, cur, ret, func>>
  BY DEF GlobalBasic, Idle, Compiling, Phase
<1>2. CASE cur = 0
  <2> DEFINE writes == Emits(e) /\ ~Mints(e)
  <2>1. /\ UNCHANGED blocks /\ loose' = (loose \/ writes)
        /\ result' = IF Mints(e) THEN "abort" ELSE result
    BY <1>2 DEF GlobalBasic
  <2>2. Nest' = Nest
    BY <1>1, <2>1 DEF Nest, Where, Active
  <2>3. Here = [closed |-> ~loose, active |-> FALSE]
        /\ Here' = [closed |-> ~loose', active |-> FALSE]
    BY <1>1, <1>2 DEF Here
  <2>4. Dead' = (loose' \/ \E b \in DOMAIN blocks : blocks[b].mid)
    BY <2>1 DEF Dead
  <2>5. CASE Mints(e)
    <3>1. Phase' = "failed"
      BY <2>1, <2>5 DEF Phase, Compiling
    <3>2. loose' = loose
      BY <2>1, <2>5 DEF Inductive, TypeOK
    <3>3. Here' = Here /\ Dead' = Dead
      BY <2>3, <2>4, <3>2 DEF Dead
    <3> QED
      BY <1>1, <2>2, <3>1, <3>3 DEF Source!Abandon
  <2>6. CASE ~Mints(e)
    <3>1. Phase' = "idle"
      BY <1>1, <2>1, <2>6 DEF GlobalBasic, Idle, Compiling, Phase
    <3>2. writes \in BOOLEAN
      BY DEF Emits
    <3> HIDE DEF writes
    <3>3. Dead' = (Dead \/ (writes /\ Here.closed))
      BY <2>1, <2>3, <2>4 DEF Dead
    <3>4. Here' = [Here EXCEPT !.closed = @ /\ ~writes]
      <4> DEFINE next == Here.closed /\ ~writes
                 before == ~loose
                 active == FALSE
      <4>1. Here' = [closed |-> next, active |-> active]
        <5>1. (~loose') = next
          BY <2>1, <2>3
        <5> HIDE DEF next
        <5> QED
          BY <2>3, <5>1, Zenon
      <4>2. Here = [closed |-> before, active |-> active]
        BY <2>3
      <4> HIDE DEF next, before, active
      <4>3. [Here EXCEPT !.closed = next] = [closed |-> next, active |-> active]
        BY <4>2, StatusFacts
      <4>4. Here' = [Here EXCEPT !.closed = next]
        BY <4>1, <4>3, Zenon
      <4> QED
        BY <4>4 DEF next
    <3> QED
      BY <1>1, <2>2, <3>1, <3>2, <3>3, <3>4 DEF Source!Work, Source!Write
  <2> QED
    BY <2>5, <2>6
<1>3. CASE cur # 0
  <2>1. /\ blocks' = [blocks EXCEPT ![cur] = ShapeAfter(e)] /\ result' = result
        /\ loose' = loose
    BY <1>3 DEF GlobalBasic
  <2>2. Phase' = "idle"
    BY <1>1, <2>1 DEF GlobalBasic, Idle, Compiling, Phase
  <2>3. /\ Nest' = Nest
        /\ Dead' <=> Dead \/ (Emits(e) /\ Here.closed)
        /\ Here' = [Here EXCEPT !.closed = @ /\ ~Emits(e)]
    BY <1>1, <1>3, <2>1, ExpressionRefines
  <2>4. Dead' = (Dead \/ (Emits(e) /\ Here.closed)) /\ Emits(e) \in BOOLEAN
    BY <2>3 DEF Dead, Emits
  <2> QED
    BY <1>1, <2>2, <2>3, <2>4 DEF Source!Work, Source!Write
<1> QED
  BY <1>2, <1>3

LEMMA ReturnRefines ==
    ASSUME Inductive, Inductive', NEW e \in Expr, Return(e)
    PROVE  Source!Return
<1> DEFINE shape == Terminate(ShapeAfter(e))
<1>1. /\ cur # 0 /\ Phase = "body" /\ Phase' = "body" /\ steps' = steps + 1
      /\ blocks' = [blocks EXCEPT ![cur] = shape]
      /\ UNCHANGED <<stack, live, cur, loose>>
      /\ ret' = IF Active(cur) THEN steps + 1 ELSE ret
  BY DEF Inductive, TypeOK, Return, InBody, Compiling, Phase
<1>2. /\ shape.last /\ Ended(shape) /\ shape \in BlockShape
      /\ shape.mid <=> blocks[cur].mid \/ blocks[cur].last
  BY <1>1, ShapeFacts DEF Inductive, Terminate, Ended, BlockShape
<1> HIDE DEF shape
<1>3. /\ cur \in 1 .. Len(blocks) /\ DOMAIN blocks = 1 .. Len(blocks)
      /\ DOMAIN blocks' = 1 .. Len(blocks)
      /\ \A b \in 1 .. Len(blocks) : blocks'[b] = IF b = cur THEN shape ELSE blocks[b]
  BY <1>1, StackFacts DEF Inductive, TypeOK
<1>4. Nest' = Nest
  BY <1>1, <1>3, NestKept
<1>5. Here' = [closed |-> TRUE, active |-> FALSE]
  <2>1. shape.last = TRUE
    BY <1>2 DEF BlockShape
  <2> QED
    BY <1>1, <1>2, <1>3, <2>1 DEF Here, Where, Active
<1>6. Here.closed = blocks[cur].last /\ Here.active = Active(cur)
  BY <1>1 DEF Here, Where
<1>7. Dead' = (Dead \/ Here.closed)
  BY <1>1, <1>2, <1>3, <1>6 DEF Dead
<1> QED
  BY <1>1, <1>4, <1>5, <1>6, <1>7 DEF Source!Return, Source!Nowhere

LEMMA BeginFunctionRefines ==
    ASSUME Inductive, Inductive', NEW f \in Names, NEW args \in SUBSET Names,
           BeginFunction(f, args)
    PROVE  Source!StartBody
<1> DEFINE entry == Len(blocks) + 1
<1>1. /\ Phase = "idle" /\ Phase' = "body" /\ steps' = steps + 1 /\ ret' = 0
      /\ loose' = loose /\ cur' = entry /\ live' = {entry}
      /\ stack' = << >> /\ stack = << >>
      /\ blocks' = Append(blocks, NewBlock)
  BY LoweringAssumption
     DEF Inductive, TypeOK, BeginFunction, Idle, Compiling, Phase, LoweringAssumption
<1>2. /\ DOMAIN blocks = 1 .. Len(blocks) /\ Len(blocks) \in Nat
      /\ DOMAIN blocks' = (1 .. Len(blocks)) \cup {entry}
      /\ \A b \in 1 .. Len(blocks) : blocks'[b] = blocks[b]
      /\ blocks'[entry] = NewBlock
  <2>1. blocks \in Seq(BlockShape) /\ NewBlock \in BlockShape
    BY DEF Inductive, TypeOK, BlockShape, NewBlock
  <2>2. /\ blocks' \in Seq(BlockShape) /\ Len(blocks') = entry
        /\ \A b \in 1 .. Len(blocks) : blocks'[b] = blocks[b]
        /\ blocks'[entry] = NewBlock
    BY <1>1, <2>1, AppendProperties
  <2>3. /\ DOMAIN blocks = 1 .. Len(blocks) /\ Len(blocks) \in Nat
        /\ DOMAIN blocks' = 1 .. Len(blocks')
    BY <2>1, <2>2, LenProperties
  <2> QED
    BY <2>2, <2>3
<1>3. Nest = << >> /\ Nest' = << >>
  BY <1>1 DEF Nest
<1>4. Here' = [closed |-> FALSE, active |-> TRUE]
  <2>1. cur' # 0 /\ blocks'[cur'] = NewBlock /\ cur' \in live'
    BY <1>1, <1>2
  <2>2. Here' = [closed |-> NewBlock.last,
                 active |-> cur' \in live' /\ ~Ended(NewBlock)]
    BY <2>1 DEF Here, Where, Active
  <2>3. NewBlock.last = FALSE /\ ~Ended(NewBlock)
    BY DEF NewBlock, Ended
  <2>4. (cur' \in live' /\ ~Ended(NewBlock)) = TRUE
    BY <2>1, <2>3
  <2> QED
    BY <2>2, <2>3, <2>4
<1>5. Dead' = Dead
  BY <1>1, <1>2 DEF Dead, NewBlock
<1> QED
  BY <1>1, <1>3, <1>4, <1>5 DEF Source!StartBody

LEMMA EndFunctionRefines ==
    ASSUME Inductive, EndFunction
    PROVE  Source!EndBody
<1>1. /\ Phase = "body" /\ Phase' = "idle" /\ stack = << >> /\ cur # 0
      /\ UNCHANGED <<blocks, stack, live, cur, ret, steps, loose>>
  BY DEF Inductive, TypeOK, EndFunction, InBody, Compiling, Phase
<1>2. Nest = << >> /\ Nest' = Nest /\ Here' = Here /\ Dead' = Dead
  BY <1>1 DEF Nest, Here, Where, Active, Dead
<1>3. Here.closed
  BY <1>1 DEF Inductive, LastIsReturn, EndFunction, Here, Where
<1> QED
  BY <1>1, <1>2, <1>3 DEF Source!EndBody

LEMMA DeclareFunctionRefines ==
    ASSUME Inductive, NEW f \in Names, DeclareFunction(f)
    PROVE  Source!Declare
<1>1. /\ Phase = "idle" /\ Phase' = "idle" /\ steps' = steps + 1
      /\ UNCHANGED <<blocks, stack, live, cur, loose, ret>>
  BY DEF DeclareFunction, Idle, Compiling, Phase
<1>2. Nest' = Nest /\ Here' = Here /\ Dead' = Dead
  BY <1>1 DEF Nest, Here, Where, Active, Dead
<1> QED
  BY <1>1, <1>2 DEF Source!Declare

LEMMA EndRefines ==
    ASSUME Inductive, Reject \/ Unimplemented \/ MissingReturn
    PROVE  Source!Abandon
<1>1. /\ Phase \in {"idle", "body"} /\ Phase' = "failed" /\ steps' \in {steps, steps + 1}
      /\ UNCHANGED <<blocks, stack, live, cur, loose, ret>>
  BY DEF Reject, Unimplemented, MissingReturn, InBody, Reading, Compiling, Phase
<1>2. Nest' = Nest /\ Here' = Here /\ Dead' = Dead
  BY <1>1 DEF Nest, Here, Where, Active, Dead
<1> QED
  BY <1>1, <1>2 DEF Source!Abandon

LEMMA ReportErrorRefines ==
    ASSUME ReportError
    PROVE  UNCHANGED Source!vars
<1>1. /\ Phase = "failed" /\ Phase' = "failed"
      /\ UNCHANGED <<blocks, stack, live, cur, loose, ret, steps>>
  BY DEF ReportError, Failing, Compiling, Phase
<1>2. Nest' = Nest /\ Here' = Here /\ Dead' = Dead
  BY <1>1 DEF Nest, Here, Where, Active, Dead
<1> QED
  BY <1>1, <1>2 DEF Source!vars

LEMMA VerifyRefines ==
    ASSUME Inductive, Verify
    PROVE  Source!Judge
<1>1. /\ Phase = "idle" /\ ~InBody /\ Compiling
      /\ UNCHANGED <<blocks, stack, live, cur, ret, steps, loose>>
  BY DEF Verify, Idle, InBody, Compiling, Phase
<1>2. Nest' = Nest /\ Here' = Here /\ Dead' = Dead
  BY <1>1 DEF Nest, Here, Where, Active, Dead
<1>3. Dead <=> loose \/ ~\A b \in DOMAIN blocks : WellFormed(blocks[b])
  BY <1>1 DEF Inductive, OnlyPointsOpen, Ended, WellFormed, Dead
<1>4. Phase' = IF Dead THEN "rejected" ELSE "accepted"
  <2>1. result' = IF Dead THEN "rejected" ELSE "verified"
    BY <1>3 DEF Verify
  <2> QED
    BY <2>1 DEF Phase, Compiling
<1> QED
  BY <1>1, <1>2, <1>4 DEF Source!Judge

-----------------------------------------------------------------------------
(* The steps that push and pop a nested statement. *)

LEMMA SameSequence ==
    ASSUME NEW S, NEW s \in Seq(S), NEW n, Len(s) = n, NEW f,
           f = [i \in 1 .. n |-> f[i]], \A i \in 1 .. n : f[i] = s[i]
    PROVE  f = s
<1>1. s \in [1 .. n -> S]
  BY LenProperties
<1>2. s = [i \in 1 .. n |-> s[i]]
  BY <1>1
<1> QED
  BY <1>2

LEMMA PushRefines ==
    ASSUME Inductive, NEW kind \in {"block", "then", "else"}, NEW other \in Source!Status,
           Len(stack') = Len(stack) + 1, DOMAIN stack' = 1 .. Len(stack) + 1,
           \A i \in 1 .. Len(stack) : stack'[i] = stack[i],
           \A i \in 1 .. Len(stack) : Where(stack[i].other)' = Where(stack[i].other),
           Nest'[Len(stack) + 1] = [kind |-> kind, other |-> other]
    PROVE  Nest' = Append(Nest, [kind |-> kind, other |-> other])
<1> DEFINE d == Len(stack)
           frame == [kind |-> kind, other |-> other]
<1>1. /\ Nest \in Seq(Source!Frame) /\ Len(Nest) = d /\ d \in Nat
      /\ \A i \in 1 .. d :
            Nest[i] = [kind |-> stack[i].kind, other |-> Where(stack[i].other)]
  BY NestFacts
<1>2. frame \in Source!Frame
  BY DEF Source!Frame
<1>3. Nest' = [i \in 1 .. d + 1 |-> [kind |-> stack'[i].kind,
                                     other |-> Where(stack[i].other)']]
  BY DEF Nest
<1>4. \A i \in 1 .. d : Nest'[i] = Nest[i]
  BY <1>1, <1>3
<1>5. Nest' = [i \in 1 .. d + 1 |-> Nest'[i]]
  BY <1>3
<1> HIDE DEF frame, d
<1>6. /\ Append(Nest, frame) \in Seq(Source!Frame) /\ Len(Append(Nest, frame)) = d + 1
      /\ \A i \in 1 .. d : Append(Nest, frame)[i] = Nest[i]
      /\ Append(Nest, frame)[d + 1] = frame
  BY <1>1, <1>2, AppendProperties
<1>7. \A i \in 1 .. d + 1 : Nest'[i] = Append(Nest, frame)[i]
  BY <1>1, <1>4, <1>6 DEF frame, d
<1> QED
  BY <1>5, <1>6, <1>7, SameSequence DEF frame

LEMMA EnterBlockRefines ==
    ASSUME Inductive, EnterBlock
    PROVE  Source!OpenBlock
<1> DEFINE frame == [kind |-> "block", other |-> 0]
<1>1. /\ Phase = "body" /\ Phase' = "body" /\ steps' = steps + 1
      /\ stack' = Append(stack, frame)
      /\ UNCHANGED <<blocks, live, cur, loose, ret>>
  BY DEF EnterBlock, InBody, Compiling, Phase
<1>2. Here' = Here /\ Dead' = Dead
  BY <1>1 DEF Here, Where, Active, Dead
<1>3. /\ Len(stack') = Len(stack) + 1 /\ DOMAIN stack' = 1 .. Len(stack) + 1
      /\ \A i \in 1 .. Len(stack) : stack'[i] = stack[i]
      /\ stack'[Len(stack) + 1] = frame /\ Len(stack) \in Nat
  <2>1. stack \in Seq(Frame) /\ frame \in Frame
    BY DEF Inductive, TypeOK, Frame
  <2> HIDE DEF frame
  <2> QED
    BY <1>1, <2>1, AppendProperties, LenProperties
<1>4. \A i \in 1 .. Len(stack) : Where(stack[i].other)' = Where(stack[i].other)
  BY <1>1, <1>3 DEF Where, Active
<1>5. Nest'[Len(stack) + 1] = [kind |-> "block", other |-> Source!Nowhere]
  <2> DEFINE d == Len(stack) + 1
  <2>1. d \in DOMAIN stack' /\ stack'[d].kind = "block" /\ stack'[d].other = 0
    BY <1>3
  <2> HIDE DEF d
  <2>2. Nest'[d] = [kind |-> "block", other |-> [closed |-> TRUE, active |-> FALSE]]
    BY <2>1 DEF Nest, Where
  <2> QED
    BY <2>2 DEF Source!Nowhere, d
<1>6. Source!Nowhere \in Source!Status
  BY DEF Source!Nowhere, Source!Status
<1>7. Nest' = Append(Nest, [kind |-> "block", other |-> Source!Nowhere])
  BY <1>3, <1>4, <1>5, <1>6, PushRefines
<1> QED
  BY <1>1, <1>2, <1>7 DEF Source!OpenBlock

LEMMA OuterFacts ==
    ASSUME Inductive, stack # << >>
    PROVE  /\ Nest # << >>
           /\ Len(stack) \in Nat \ {0} /\ Len(stack) \in 1 .. Len(stack)
           /\ Source!Top = [kind |-> stack[Len(stack)].kind,
                            other |-> Where(stack[Len(stack)].other)]
           /\ Source!Outer \in Seq(Source!Frame) /\ Len(Source!Outer) = Len(stack) - 1
           /\ \A i \in 1 .. Len(stack) - 1 :
                 Source!Outer[i] = [kind |-> stack[i].kind, other |-> Where(stack[i].other)]
<1> DEFINE d == Len(stack)
<1>1. d \in Nat \ {0} /\ d \in 1 .. d
  BY TopFacts DEF Inductive
<1>2. /\ Nest \in Seq(Source!Frame) /\ Len(Nest) = d
      /\ \A i \in 1 .. d :
            Nest[i] = [kind |-> stack[i].kind, other |-> Where(stack[i].other)]
  BY NestFacts
<1> HIDE DEF d
<1>3. Nest # << >>
  BY <1>1, <1>2
<1>4. /\ Source!Outer \in Seq(Source!Frame) /\ Len(Source!Outer) = d - 1
      /\ \A i \in 1 .. d - 1 : Source!Outer[i] = Nest[i]
  BY <1>2, <1>3, PopFacts DEF Source!Outer
<1>5. Source!Top = Nest[d]
  BY <1>2 DEF Source!Top
<1> QED
  BY <1>1, <1>2, <1>3, <1>4, <1>5 DEF d

LEMMA PopRefines ==
    ASSUME Inductive, stack # << >>, DOMAIN stack' = 1 .. Len(stack) - 1,
           \A i \in 1 .. Len(stack) - 1 : stack'[i] = stack[i],
           \A i \in 1 .. Len(stack) - 1 : Where(stack[i].other)' = Where(stack[i].other)
    PROVE  Nest' = Source!Outer
<1> DEFINE d == Len(stack)
<1>1. /\ Source!Outer \in Seq(Source!Frame) /\ Len(Source!Outer) = d - 1
      /\ \A i \in 1 .. d - 1 :
            Source!Outer[i] = [kind |-> stack[i].kind, other |-> Where(stack[i].other)]
  BY OuterFacts
<1>2. Nest' = [i \in 1 .. d - 1 |-> [kind |-> stack'[i].kind,
                                     other |-> Where(stack[i].other)']]
  BY DEF Nest
<1>3. \A i \in 1 .. d - 1 : Nest'[i] = Source!Outer[i]
  BY <1>1, <1>2
<1>4. Nest' = [i \in 1 .. d - 1 |-> Nest'[i]]
  BY <1>2
<1> HIDE DEF d
<1> QED
  BY <1>1, <1>3, <1>4, SameSequence

LEMMA ExitBlockRefines ==
    ASSUME Inductive, ExitBlock
    PROVE  Source!CloseBlock
<1>1. /\ Phase = "body" /\ Phase' = "body" /\ stack # << >> /\ Top.kind = "block"
      /\ UNCHANGED <<blocks, live, cur, ret, steps, loose>>
  BY DEF ExitBlock, InBody, Compiling, Phase
<1>2. Here' = Here /\ Dead' = Dead
  BY <1>1 DEF Here, Where, Active, Dead
<1>3. /\ DOMAIN stack' = 1 .. Len(stack) - 1
      /\ \A i \in 1 .. Len(stack) - 1 : stack'[i] = stack[i]
  BY <1>1, TopFacts DEF ExitBlock, Inductive
<1>4. \A i \in 1 .. Len(stack) - 1 : Where(stack[i].other)' = Where(stack[i].other)
  BY <1>1, <1>3 DEF Where, Active
<1>5. Nest' = Source!Outer
  BY <1>1, <1>3, <1>4, PopRefines
<1>6. Nest # << >> /\ Source!Top.kind = "block"
  BY <1>1, OuterFacts DEF Top
<1> QED
  BY <1>1, <1>2, <1>5, <1>6 DEF Source!CloseBlock

LEMMA UnwindRefines ==
    ASSUME Inductive, Unwind
    PROVE  Source!Leave
<1>1. /\ Phase = "failed" /\ Phase' = "failed" /\ stack # << >>
      /\ UNCHANGED <<blocks, live, cur, loose, ret, steps>>
  BY DEF Unwind, Failing, Compiling, Phase
<1>2. Here' = Here /\ Dead' = Dead
  BY <1>1 DEF Here, Where, Active, Dead
<1>3. /\ DOMAIN stack' = 1 .. Len(stack) - 1
      /\ \A i \in 1 .. Len(stack) - 1 : stack'[i] = stack[i]
  BY <1>1, TopFacts DEF Unwind, Inductive
<1>4. \A i \in 1 .. Len(stack) - 1 : Where(stack[i].other)' = Where(stack[i].other)
  BY <1>1, <1>3 DEF Where, Active
<1>5. Nest' = Source!Outer
  BY <1>1, <1>3, <1>4, PopRefines
<1>6. Nest # << >>
  BY <1>1, OuterFacts
<1> QED
  BY <1>1, <1>2, <1>5, <1>6 DEF Source!Leave

LEMMA EnterElseRefines ==
    ASSUME Inductive, EnterElse
    PROVE  Source!OpenElse
<1> DEFINE d == Len(stack)
           frame == [kind |-> "else", other |-> cur]
<1>1. /\ Phase = "body" /\ Phase' = "body" /\ stack # << >> /\ Top.kind = "then"
      /\ UNCHANGED <<blocks, live, ret, steps, loose>>
      /\ cur' = Top.other /\ stack' = Append(Outer, frame)
      /\ cur # 0
  BY DEF EnterElse, InBody, Compiling, Phase, Inductive, TypeOK
<1>2. Dead' = Dead
  BY <1>1 DEF Dead
<1>3. /\ d \in Nat \ {0} /\ Top = stack[d]
      /\ DOMAIN stack' = 1 .. d
      /\ \A i \in 1 .. d - 1 : stack'[i] = stack[i]
      /\ stack'[d] = frame
  <2>1. /\ Outer \in Seq(Frame) /\ Len(Outer) = d - 1 /\ d \in Nat \ {0}
        /\ \A i \in 1 .. d - 1 : Outer[i] = stack[i]
        /\ Top = stack[d] /\ cur \in Nat
    BY <1>1, TopFacts DEF Inductive, TypeOK
  <2>2. frame \in Frame
    BY <2>1 DEF Frame
  <2> HIDE DEF frame, d
  <2>3. /\ stack' \in Seq(Frame) /\ Len(stack') = d /\ stack'[d] = frame
        /\ \A i \in 1 .. d - 1 : stack'[i] = Outer[i]
    BY <1>1, <2>1, <2>2, AppendProperties
  <2>4. DOMAIN stack' = 1 .. d
    BY <2>3, LenProperties
  <2> QED
    BY <2>1, <2>3, <2>4
<1>4. /\ Nest # << >>
      /\ Source!Top = [kind |-> "then", other |-> Where(Top.other)]
      /\ Source!Outer \in Seq(Source!Frame) /\ Len(Source!Outer) = d - 1
      /\ \A i \in 1 .. d - 1 :
            Source!Outer[i] = [kind |-> stack[i].kind, other |-> Where(stack[i].other)]
  BY <1>1, <1>3, OuterFacts
<1>5. Here' = Source!Top.other
  <2>1. cur' # 0
    <3>1. d \in DOMAIN stack /\ Top = stack[d] /\ stack[d].kind = "then"
      <4>1. d \in 1 .. d /\ Top = stack[d] /\ DOMAIN stack = 1 .. d
        BY <1>1, TopFacts, StackFacts DEF Inductive
      <4> QED
        BY <1>1, <4>1
    <3>2. stack[d].other \in 1 .. Len(blocks)
      BY <3>1 DEF Inductive, PointsApart
    <3> QED
      BY <1>1, <3>1, <3>2
  <2> QED
    BY <1>1, <1>4, <2>1 DEF Here, Where, Active
<1>6. ASSUME NEW i \in 1 .. d - 1 PROVE Nest'[i] = Source!Outer[i]
  <2>1. i \in DOMAIN stack' /\ stack'[i] = stack[i]
    BY <1>3
  <2>2. Where(stack[i].other)' = Where(stack[i].other)
    BY <1>1, <2>1 DEF Where, Active
  <2> QED
    BY <1>4, <2>1, <2>2 DEF Nest
<1>7. Nest'[d] = [kind |-> "else", other |-> Here]
  <2>1. d \in DOMAIN stack' /\ stack'[d].kind = "else" /\ stack'[d].other = cur
    BY <1>3
  <2> QED
    BY <1>1, <2>1 DEF Nest, Here, Where, Active
<1>8. Nest' = Append(Source!Outer, [kind |-> "else", other |-> Here])
  <2> DEFINE new == [kind |-> "else", other |-> Here]
             all == Append(Source!Outer, new)
  <2>1. new \in Source!Frame
    BY <1>1, WhereType DEF Source!Frame, Here, Inductive, TypeOK
  <2>2. Nest' = [i \in 1 .. d |-> Nest'[i]]
    BY <1>3 DEF Nest
  <2> HIDE DEF new, d
  <2>3. /\ all \in Seq(Source!Frame) /\ Len(all) = d /\ all[d] = new
        /\ \A i \in 1 .. d - 1 : all[i] = Source!Outer[i]
    BY <1>3, <1>4, <2>1, AppendProperties
  <2>4. \A i \in 1 .. d : Nest'[i] = all[i]
    BY <1>3, <1>6, <1>7, <2>3 DEF new
  <2> HIDE DEF all
  <2>5. Nest' = all
    BY <2>2, <2>3, <2>4, SameSequence
  <2> QED
    BY <2>5 DEF all, new
<1> QED
  BY <1>1, <1>2, <1>4, <1>5, <1>8 DEF Source!OpenElse

LEMMA EnterIfRefines ==
    ASSUME Inductive, NEW e \in Expr, NEW taken \in BOOLEAN, EnterIf(e, taken)
    PROVE  Source!OpenThen(taken)
<1> USE DEF Inductive
<1> DEFINE d == Len(stack)
           bthen == Len(blocks) + 1
           belse == Len(blocks) + 2
           frame == [kind |-> "then", other |-> belse]
           shape == Terminate(ShapeAfter(e))
           elseway == [closed |-> FALSE, active |-> Here.active /\ ~taken]
<1>1. /\ Phase = "body" /\ Phase' = "body" /\ steps' = steps + 1 /\ ret' = ret
      /\ loose' = loose /\ cur # 0 /\ cur' = bthen /\ stack' = Append(stack, frame)
      /\ blocks' = [blocks EXCEPT ![cur] = shape] \o <<NewBlock, NewBlock>>
      /\ live' = live \cup IF Active(cur) THEN {IF taken THEN bthen ELSE belse} ELSE {}
  BY DEF EnterIf, InBody, Compiling, Phase, TypeOK
<1>2. /\ DOMAIN blocks = 1 .. Len(blocks) /\ Len(blocks) \in Nat /\ blocks \in Seq(BlockShape)
      /\ live \subseteq 1 .. Len(blocks) /\ cur \in 1 .. Len(blocks)
      /\ DOMAIN stack = 1 .. d /\ d \in Nat /\ stack \in Seq(Frame)
  BY <1>1, StackFacts DEF TypeOK
<1>3. /\ DOMAIN blocks' = (1 .. Len(blocks)) \cup {bthen, belse}
      /\ \A b \in 1 .. Len(blocks) : blocks'[b] = IF b = cur THEN shape ELSE blocks[b]
      /\ blocks'[bthen] = NewBlock /\ blocks'[belse] = NewBlock
  <2> DEFINE one == [blocks EXCEPT ![cur] = shape]
             two == one \o <<NewBlock, NewBlock>>
  <2>1. shape \in BlockShape /\ NewBlock \in BlockShape
    BY <1>1, ShapeFacts DEF Terminate, Ended, BlockShape, NewBlock
  <2> HIDE DEF shape
  <2>2. /\ one \in Seq(BlockShape) /\ Len(one) = Len(blocks)
        /\ \A b \in 1 .. Len(blocks) : one[b] = IF b = cur THEN shape ELSE blocks[b]
    BY <1>2, <2>1, ExceptSeq
  <2> HIDE DEF one
  <2>3. /\ two \in Seq(BlockShape) /\ Len(two) = Len(one) + 2
        /\ \A b \in 1 .. Len(one) : two[b] = one[b]
        /\ two[Len(one) + 1] = NewBlock /\ two[Len(one) + 2] = NewBlock
    BY <2>1, <2>2, PushTwoFacts
  <2>4. DOMAIN two = 1 .. Len(two)
    BY <2>3, LenProperties
  <2>5. blocks' = two
    BY <1>1 DEF one
  <2> HIDE DEF two
  <2>6. DOMAIN blocks' = (1 .. Len(blocks)) \cup {bthen, belse}
    <3>1. DOMAIN blocks' = 1 .. Len(blocks) + 2
      BY <2>2, <2>3, <2>4, <2>5
    <3> QED
      BY <1>2, <3>1
  <2> QED
    BY <2>2, <2>3, <2>5, <2>6
<1>4. /\ shape.mid <=> blocks[cur].mid \/ blocks[cur].last
      /\ NewBlock.mid = FALSE /\ NewBlock.last = FALSE /\ ~Ended(NewBlock)
  BY <1>1, ShapeFacts DEF Terminate, Ended, NewBlock
<1>5. Here.closed = blocks[cur].last /\ Here.active = Active(cur)
  BY <1>1 DEF Here, Where
<1> HIDE DEF shape
<1>6. Dead' = (Dead \/ Here.closed)
  BY <1>1, <1>2, <1>3, <1>4, <1>5 DEF Dead
<1>7. /\ bthen \in live' <=> Active(cur) /\ taken
      /\ belse \in live' <=> Active(cur) /\ ~taken
      /\ \A b \in 1 .. Len(blocks) : b \in live' <=> b \in live
      /\ bthen # 0 /\ belse # 0
  BY <1>1, <1>2
<1>8. Here' = Source!Branch(Here.active /\ taken)
  <2>1. Here' = [closed |-> blocks'[bthen].last,
                 active |-> bthen \in live' /\ ~Ended(blocks'[bthen])]
    BY <1>1, <1>7 DEF Here, Where, Active
  <2>2. (bthen \in live' /\ ~Ended(blocks'[bthen])) = (Here.active /\ taken)
    BY <1>3, <1>4, <1>5, <1>7
  <2> QED
    BY <1>3, <1>4, <2>1, <2>2 DEF Source!Branch
<1> HIDE DEF belse, bthen
<1>9. /\ Len(stack') = d + 1 /\ DOMAIN stack' = 1 .. d + 1
      /\ \A i \in 1 .. d : stack'[i] = stack[i]
      /\ stack'[d + 1] = frame
  <2>1. frame \in Frame
    BY <1>2 DEF Frame, belse
  <2> HIDE DEF frame, d
  <2>2. /\ stack' \in Seq(Frame) /\ Len(stack') = Len(stack) + 1
        /\ \A i \in 1 .. Len(stack) : stack'[i] = stack[i]
        /\ stack'[Len(stack) + 1] = frame
    BY <1>1, <1>2, <2>1, AppendProperties
  <2> QED
    BY <2>2, LenProperties DEF d
<1>10. ASSUME NEW i \in 1 .. d PROVE Where(stack[i].other)' = Where(stack[i].other)
  <2>1. /\ stack'[i].other = stack[i].other
        /\ stack[i].other \in 0 .. Len(blocks) /\ stack[i].other # cur
    BY <1>1, <1>9, NestFacts
  <2>2. CASE stack[i].other = 0
    BY <2>1, <2>2 DEF Where
  <2>3. CASE stack[i].other # 0
    <3> DEFINE b == stack[i].other
    <3>1. b \in 1 .. Len(blocks) /\ b # cur /\ stack'[i].other = b
      BY <1>2, <2>1, <2>3
    <3> HIDE DEF b
    <3>2. blocks'[b] = blocks[b] /\ (b \in live' <=> b \in live)
      BY <1>3, <1>7, <3>1
    <3>3. Where(stack[i].other)' = [closed |-> blocks'[b].last,
                                    active |-> b \in live' /\ ~Ended(blocks'[b])]
      BY <2>1, <2>3, <3>1 DEF Where, Active
    <3>4. Where(stack[i].other) = [closed |-> blocks[b].last,
                                   active |-> b \in live /\ ~Ended(blocks[b])]
      BY <2>3 DEF Where, Active, b
    <3> QED
      BY <3>2, <3>3, <3>4
  <2> QED
    BY <2>2, <2>3
<1>11. Nest'[d + 1] = [kind |-> "then", other |-> elseway]
  <2>1. d + 1 \in DOMAIN stack' /\ stack'[d + 1].kind = "then"
        /\ stack'[d + 1].other = belse
    BY <1>2, <1>9
  <2>2. Nest'[d + 1] = [kind |-> "then",
                        other |-> [closed |-> blocks'[belse].last,
                                   active |-> belse \in live' /\ ~Ended(blocks'[belse])]]
    BY <1>7, <2>1 DEF Nest, Where, Active
  <2>3. (belse \in live' /\ ~Ended(blocks'[belse])) = (Here.active /\ ~taken)
    BY <1>3, <1>4, <1>5, <1>7
  <2> QED
    BY <1>3, <1>4, <2>2, <2>3
<1>12. elseway \in Source!Status
  BY <1>5 DEF Source!Status
<1> HIDE DEF elseway
<1>13. Nest' = Append(Nest, [kind |-> "then", other |-> elseway])
  BY <1>9, <1>10, <1>11, <1>12, PushRefines
<1> QED
  BY <1>1, <1>6, <1>8, <1>13 DEF Source!OpenThen, Source!Branch, elseway

LEMMA ExitIfRefines ==
    ASSUME Inductive, Inductive', ExitIf
    PROVE  Source!CloseIf
<1> USE DEF Inductive
<1> DEFINE d == Len(stack)
           then_end == Top.other
           new == Len(blocks) + 1
           closed == blocks[then_end].last /\ blocks[cur].last
<1>1. /\ Phase = "body" /\ Phase' = "body" /\ steps' = steps /\ ret' = ret
      /\ loose' = loose /\ stack # << >> /\ Top.kind = "else" /\ cur # 0
  BY DEF ExitIf, InBody, Compiling, Phase, TypeOK
<1>2. /\ d \in Nat \ {0} /\ d \in 1 .. d /\ Top = stack[d]
      /\ DOMAIN stack' = 1 .. d - 1 /\ DOMAIN stack = 1 .. d
      /\ \A i \in 1 .. d - 1 : stack'[i] = stack[i]
      /\ Len(blocks) \in Nat /\ cur \in 1 .. Len(blocks) /\ live \subseteq 1 .. Len(blocks)
      /\ DOMAIN blocks = 1 .. Len(blocks) /\ blocks \in Seq(BlockShape)
  BY <1>1, TopFacts, StackFacts DEF ExitIf, TypeOK
<1>3. then_end \in 1 .. Len(blocks) /\ then_end # cur
  BY <1>1, <1>2 DEF PointsApart
<1>4. /\ closed => blocks' = blocks /\ cur' = cur /\ live' = live
      /\ ~closed =>
            /\ blocks' = Append([b \in DOMAIN blocks |->
                                    IF b \in {then_end, cur}
                                    THEN Branched(blocks[b]) ELSE blocks[b]], NewBlock)
            /\ cur' = new
            /\ live' = live \cup IF Active(then_end) \/ Active(cur) THEN {new} ELSE {}
  BY DEF ExitIf
<1> HIDE DEF then_end, d
<1>5. /\ Here = [closed |-> blocks[cur].last, active |-> Active(cur)]
      /\ Where(then_end) = [closed |-> blocks[then_end].last, active |-> Active(then_end)]
  BY <1>1, <1>2, <1>3 DEF Here, Where
<1>6. /\ Nest # << >> /\ Source!Top = [kind |-> "else", other |-> Where(then_end)]
  BY <1>1, <1>2, OuterFacts DEF then_end, d
<1>7. \A b \in 1 .. Len(blocks) :
         /\ blocks[b] \in BlockShape /\ Branched(blocks[b]) \in BlockShape
         /\ Branched(blocks[b]).mid <=> blocks[b].mid
  BY <1>2, ElementOfSeq DEF Branched, Terminate, Ended, BlockShape
<1>8. CASE closed
  <2>1. blocks' = blocks /\ cur' = cur /\ live' = live
    BY <1>4, <1>8
  <2>2. Dead' = Dead
    BY <1>1, <2>1 DEF Dead
  <2>3. Nest' = Source!Outer
    <3>1. \A i \in 1 .. d - 1 : Where(stack[i].other)' = Where(stack[i].other)
      BY <1>2, <2>1 DEF Where, Active
    <3> QED
      BY <1>1, <1>2, <3>1, PopRefines DEF d
  <2>4. Here' = Here
    BY <1>1, <2>1 DEF Here, Where, Active
  <2>5. ~Active(cur) /\ ~Active(then_end) /\ Active(cur) \in BOOLEAN
    BY <1>8 DEF Active, Ended
  <2>6. /\ blocks[cur].last \in BOOLEAN /\ blocks[then_end].last \in BOOLEAN
    BY <1>2, <1>3, <1>7 DEF BlockShape
  <2>7. Here' = [closed |-> Here.closed /\ Source!Top.other.closed,
                 active |-> Here.active \/ Source!Top.other.active]
    <3>1. blocks[cur].last = TRUE /\ blocks[then_end].last = TRUE
      BY <1>8, <2>6
    <3>2. Active(cur) = FALSE /\ Active(then_end) = FALSE
      BY <2>5 DEF Active
    <3>3. /\ Here = [closed |-> TRUE, active |-> FALSE]
          /\ Source!Top.other = [closed |-> TRUE, active |-> FALSE]
      BY <1>5, <1>6, <3>1, <3>2
    <3>4. /\ (Here.closed /\ Source!Top.other.closed) = TRUE
          /\ (Here.active \/ Source!Top.other.active) = FALSE
      BY <3>3
    <3> QED
      BY <2>4, <3>3, <3>4
  <2> QED
    BY <1>1, <1>6, <2>2, <2>3, <2>7 DEF Source!CloseIf
<1>9. CASE ~closed
  <2> DEFINE both == [b \in DOMAIN blocks |->
                        IF b \in {then_end, cur} THEN Branched(blocks[b]) ELSE blocks[b]]
  <2>1. blocks' = Append(both, NewBlock) /\ cur' = new
        /\ live' = live \cup IF Active(then_end) \/ Active(cur) THEN {new} ELSE {}
    BY <1>4, <1>9
  <2>2. both \in Seq(BlockShape) /\ Len(both) = Len(blocks) /\ NewBlock \in BlockShape
    <3>1. both \in [1 .. Len(blocks) -> BlockShape]
      BY <1>2, <1>7
    <3> QED
      BY <1>2, <3>1 DEF NewBlock, BlockShape
  <2>3. \A b \in 1 .. Len(blocks) :
           both[b] = IF b \in {then_end, cur} THEN Branched(blocks[b]) ELSE blocks[b]
    BY <1>2
  <2> HIDE DEF both, closed
  <2>4. /\ DOMAIN blocks' = (1 .. Len(blocks)) \cup {new}
        /\ \A b \in 1 .. Len(blocks) :
              blocks'[b] = IF b \in {then_end, cur} THEN Branched(blocks[b]) ELSE blocks[b]
        /\ blocks'[new] = NewBlock
    <3>1. /\ blocks' \in Seq(BlockShape) /\ Len(blocks') = Len(both) + 1
          /\ \A b \in 1 .. Len(both) : blocks'[b] = both[b]
          /\ blocks'[Len(both) + 1] = NewBlock
      BY <2>1, <2>2, AppendProperties
    <3>2. DOMAIN blocks' = 1 .. Len(blocks) + 1
      BY <2>2, <3>1, LenProperties
    <3> QED
      BY <1>2, <2>2, <2>3, <3>1, <3>2
  <2>5. NewBlock.mid = FALSE /\ NewBlock.last = FALSE /\ ~Ended(NewBlock)
    BY DEF NewBlock, Ended
  <2>6. Dead' = Dead
    BY <1>1, <1>2, <1>7, <2>4, <2>5 DEF Dead
  <2>7. new \notin live /\ new # 0 /\ new \notin 1 .. Len(blocks)
    BY <1>2
  <2> HIDE DEF new
  <2>8. Here' = [closed |-> FALSE, active |-> Active(cur) \/ Active(then_end)]
    <3>1. Here' = [closed |-> blocks'[new].last,
                   active |-> new \in live' /\ ~Ended(blocks'[new])]
      BY <2>1, <2>7 DEF Here, Where, Active
    <3>2. (new \in live' /\ ~Ended(blocks'[new])) = (Active(cur) \/ Active(then_end))
      BY <2>1, <2>4, <2>5, <2>7
    <3> QED
      BY <2>4, <2>5, <3>1, <3>2
  <2>9. (Here.closed /\ Source!Top.other.closed) = FALSE
    BY <1>5, <1>6, <1>9 DEF closed
  <2>10. Here' = [closed |-> Here.closed /\ Source!Top.other.closed,
                  active |-> Here.active \/ Source!Top.other.active]
    <3>1. Here.active = Active(cur) /\ Source!Top.other.active = Active(then_end)
      BY <1>5, <1>6
    <3> QED
      BY <2>8, <2>9, <3>1
  <2>11. ASSUME NEW i \in 1 .. d - 1
         PROVE  Where(stack[i].other)' = Where(stack[i].other)
    <3>1. /\ stack'[i].other = stack[i].other /\ i \in DOMAIN stack /\ i # d
          /\ stack[i].other \in 0 .. Len(blocks) /\ stack[i].other # cur
      <4>1. i \in 1 .. Len(stack) /\ i # d /\ stack'[i] = stack[i]
        <5>1. d \in Nat \ {0} /\ \A k \in 1 .. d - 1 : stack'[k] = stack[k]
          BY <1>2
        <5>2. i \in 1 .. d /\ i # d /\ stack'[i] = stack[i]
          BY <5>1
        <5> QED
          BY <5>2 DEF d
      <4>2. i \in DOMAIN stack
        BY <4>1, NestFacts
      <4>3. stack[i].other \in 0 .. Len(blocks) /\ stack[i].other # cur
        BY <1>1, <4>1, NestFacts
      <4> QED
        BY <4>1, <4>2, <4>3
    <3>2. stack[i].other # 0 => stack[i].other # then_end
      BY <1>2, <3>1 DEF PointsApart, then_end
    <3>3. CASE stack[i].other = 0
      BY <3>1, <3>3 DEF Where
    <3>4. CASE stack[i].other # 0
      <4> DEFINE b == stack[i].other
      <4>1. b \in 1 .. Len(blocks) /\ b \notin {cur, then_end} /\ stack'[i].other = b
            /\ b # 0
        BY <1>2, <3>1, <3>2, <3>4
      <4> HIDE DEF b
      <4>2. blocks'[b] = blocks[b] /\ (b \in live' <=> b \in live)
        BY <2>1, <2>4, <2>7, <4>1
      <4>3. Where(stack[i].other)' = [closed |-> blocks'[b].last,
                                      active |-> b \in live' /\ ~Ended(blocks'[b])]
        BY <4>1 DEF Where, Active
      <4>4. Where(stack[i].other) = [closed |-> blocks[b].last,
                                     active |-> b \in live /\ ~Ended(blocks[b])]
        BY <3>4 DEF Where, Active, b
      <4> QED
        BY <4>2, <4>3, <4>4
    <3> QED
      BY <3>3, <3>4
  <2>12. Nest' = Source!Outer
    BY <1>1, <1>2, <2>11, PopRefines DEF d
  <2> QED
    BY <1>1, <1>6, <2>6, <2>10, <2>12 DEF Source!CloseIf
<1> QED
  BY <1>8, <1>9

-----------------------------------------------------------------------------
LEMMA InitRefines == Init => Source!Init
<1> SUFFICES ASSUME Init PROVE Source!Init
  OBVIOUS
<1>1. Nest = << >> /\ Here = [closed |-> TRUE, active |-> FALSE]
  <2>1. Nest = << >>
    BY DEF Init, Nest
  <2>2. Here = [closed |-> ~FALSE, active |-> FALSE]
    BY DEF Init, Here
  <2> QED
    BY <2>1, <2>2
<1>2. Dead = FALSE /\ Phase = "idle"
  BY DEF Init, Dead, Phase, Compiling
<1> QED
  BY <1>1, <1>2 DEF Init, Source!Init, Source!Nowhere

LEMMA StutterRefines ==
    ASSUME UNCHANGED vars
    PROVE  UNCHANGED Source!vars
<1>1. UNCHANGED <<blocks, stack, live, cur, ret, steps, result, func, loose>>
  BY DEF vars
<1>2. Nest' = Nest /\ Here' = Here /\ Dead' = Dead /\ Phase' = Phase
  BY <1>1 DEF Nest, Here, Where, Active, Dead, Phase, Compiling
<1> QED
  BY <1>1, <1>2 DEF Source!vars

LEMMA StepRefines == Inductive /\ Inductive' /\ [Next]_vars => [Source!Next]_(Source!vars)
<1> SUFFICES ASSUME Inductive, Inductive', [Next]_vars
             PROVE  [Source!Next]_(Source!vars)
  OBVIOUS
<1>1. CASE \E f \in Names : DeclareFunction(f)
  BY <1>1, DeclareFunctionRefines DEF Source!Next
<1>2. CASE \E f \in Names, args \in SUBSET Names : BeginFunction(f, args)
  BY <1>2, BeginFunctionRefines DEF Source!Next
<1>3. CASE EndFunction
  BY <1>3, EndFunctionRefines DEF Source!Next
<1>4. CASE \E e \in Expr : GlobalBasic(e)
  BY <1>4, GlobalBasicRefines DEF Source!Next
<1>5. CASE \E e \in Expr : Basic(e)
  <2>1. PICK e \in Expr : Basic(e)
    BY <1>5
  <2>2. Source!Work(Emits(e)) /\ Emits(e) \in BOOLEAN
    BY <2>1, BasicRefines DEF Emits
  <2> QED
    BY <2>2 DEF Source!Next
<1>6. CASE \E e \in Expr : Return(e)
  BY <1>6, ReturnRefines DEF Source!Next
<1>7. CASE EnterBlock
  BY <1>7, EnterBlockRefines DEF Source!Next
<1>8. CASE ExitBlock
  BY <1>8, ExitBlockRefines DEF Source!Next
<1>9. CASE \E e \in Expr, taken \in BOOLEAN : EnterIf(e, taken)
  BY <1>9, EnterIfRefines DEF Source!Next
<1>10. CASE EnterElse
  BY <1>10, EnterElseRefines DEF Source!Next
<1>11. CASE ExitIf
  BY <1>11, ExitIfRefines DEF Source!Next
<1>12. CASE Reject \/ Unimplemented \/ MissingReturn
  BY <1>12, EndRefines DEF Source!Next
<1>13. CASE Unwind
  BY <1>13, UnwindRefines DEF Source!Next
<1>14. CASE ReportError
  BY <1>14, ReportErrorRefines
<1>15. CASE Verify
  BY <1>15, VerifyRefines DEF Source!Next
<1>16. CASE Done \/ UNCHANGED vars
  BY <1>16, StutterRefines DEF Done
<1> QED
  BY <1>1, <1>2, <1>3, <1>4, <1>5, <1>6, <1>7, <1>8, <1>9, <1>10, <1>11, <1>12, <1>13,
     <1>14, <1>15, <1>16 DEF Next

(***************************************************************************)
(* The emitted blocks implement the nested statements: the execution that  *)
(* is followed through the blocks is where the source says it is, it ends  *)
(* in the same return statement, and the verifier accepts exactly the      *)
(* programs that have no code after a return and no call before the first  *)
(* body.                                                                   *)
(***************************************************************************)
THEOREM LoweringImplementsSource == Spec => SourceRefinement
  BY InitRefines, StepRefines, InductiveInvariant, PTL DEF Spec, SourceRefinement, Source!Spec

=============================================================================
