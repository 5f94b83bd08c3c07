------------------------------ MODULE Lowering ------------------------------
(***************************************************************************)
(* StatmentVisitor, GlobalVisitor and Scope (compiler.cpp, scope.hpp):     *)
(* how statements become LLVM basic blocks.  One action per visitor entry, *)
(* and one per point where a visitor resumes after compiling a nested      *)
(* block.  The AST is chosen while it is read, so every program within the *)
(* bounds is covered.                                                      *)
(*                                                                         *)
(* An instruction is kept only as its effect on the shape of its block;    *)
(* types belong to a module of their own, here a type error is a choice.   *)
(* live and ret are history: the blocks one execution of the emitted code  *)
(* enters, and the return it ends with.                                    *)
(***************************************************************************)
EXTENDS Naturals, Sequences, FiniteSets

CONSTANTS
    Names,          \* identifiers of the program
    NoName,         \* the absence of one
    MaxSteps,       \* bound: statements and globals of a program
    MaxDepth        \* bound: nesting of statements

ASSUME LoweringAssumption ==
    /\ NoName \notin Names
    /\ MaxSteps \in Nat
    /\ MaxDepth \in Nat

VARIABLES
    globals,        \* keys of ctx.global_consts
    scopes,         \* ctx.local_var_addrs: name -> block of its alloca, or 0
    blocks,         \* the basic blocks of the module, in order of creation
    cur,            \* builder.GetInsertBlock(), 0 before the first function
    stack,          \* statements whose nested block is being compiled
    func,           \* the function being compiled (current_func)
    lastPart,       \* f.body.parts.back() so far: "none", a "Return" or "other"
    steps,          \* statements and globals read so far
    result,         \* what compile_source has come to
    loose,          \* an instruction with no block uses a function
    live,           \* history: blocks the execution enters
    ret             \* history: the return statement it executes, or 0

vars == <<globals, scopes, blocks, cur, stack, func, lastPart, steps, result,
          loose, live, ret>>

(***************************************************************************)
(* last: the last instruction is a terminator, what getTerminator() looks  *)
(* at.  mid: some other instruction is one, which the verifier rejects.    *)
(***************************************************************************)
BlockShape == [last : BOOLEAN, mid : BOOLEAN]
NewBlock == [last |-> FALSE, mid |-> FALSE]
Ended(b) == b.last \/ b.mid
Emit(b) == [last |-> FALSE, mid |-> Ended(b)]
Terminate(b) == [last |-> TRUE, mid |-> Ended(b)]

(* other: the else block while in "then", then_end while in "else". *)
Frame == [kind : {"block", "then", "else"}, other : Nat]
Results == {"compiling", "failing", "error", "abort", "verified", "rejected"}

(***************************************************************************)
(* An expression reads at most one name, may use it (a call, an operator)  *)
(* and may assign what it computes.                                        *)
(***************************************************************************)
Expr == {e \in [to : Names \cup {NoName}, from : Names \cup {NoName}, use : BOOLEAN] :
            e.use => e.from # NoName}

Bindings == [Names -> Nat]
NoBindings == [n \in Names |-> 0]

TypeOK ==
    /\ globals \subseteq Names
    /\ scopes \in Seq(Bindings)
    /\ Len(scopes) = Len(stack) + 1
    /\ blocks \in Seq(BlockShape)
    /\ cur \in 0 .. Len(blocks)
    /\ stack \in Seq(Frame)
    /\ func \in Names \cup {NoName}
    /\ lastPart \in {"none", "Return", "other"}
    /\ steps \in Nat
    /\ result \in Results
    /\ loose \in BOOLEAN
    /\ live \subseteq 1 .. Len(blocks)
    /\ ret \in Nat
    /\ func = NoName => stack = << >>
    /\ func # NoName => cur # 0

Init ==
    /\ globals = {}
    /\ scopes = <<NoBindings>>
    /\ blocks = << >>
    /\ cur = 0
    /\ stack = << >>
    /\ func = NoName
    /\ lastPart = "none"
    /\ steps = 0
    /\ result = "compiling"
    /\ loose = FALSE
    /\ live = {}
    /\ ret = 0

-----------------------------------------------------------------------------
(* Scope: find goes from the innermost map outwards. *)
Locals == {n \in Names : \E i \in DOMAIN scopes : scopes[i][n] # 0}

Pushed == Append(scopes, NoBindings)
PoppedNothing == scopes                     \* mutant of Popped
Popped == SubSeq(scopes, 1, Len(scopes) - 1)

(* A local wins over a global; neither is MissingVar. *)
Resolves(e) == e.from \in {NoName} \cup globals \cup Locals

(* Assigning to a name that is no local mints one: an alloca right here. *)
Mints(e) == e.to \in Names \ Locals

(* Constants fold and a function name is no instruction; a load is one. *)
Emits(e) ==
    \/ e.to # NoName
    \/ e.use
    \/ e.from \in Locals

ScopesAfter(e) ==
    IF Mints(e) THEN [scopes EXCEPT ![Len(scopes)][e.to] = cur] ELSE scopes

ShapeAfter(e) == IF Emits(e) THEN Emit(blocks[cur]) ELSE blocks[cur]

Compiling == result = "compiling"
InBody == Compiling /\ func # NoName
Idle == Compiling /\ func = NoName
Reading == Compiling /\ steps < MaxSteps

(* The followed execution reaches the end of block b. *)
Active(b) == b \in live /\ ~Ended(blocks[b])

Top == stack[Len(stack)]
Outer == SubSeq(stack, 1, Len(stack) - 1)

-----------------------------------------------------------------------------
(* GlobalVisitor *)

(* fn name(args); only makes the name known. *)
DeclareFunction(f) ==
    /\ Idle /\ Reading
    /\ globals' = globals \cup {f}
    /\ steps' = steps + 1
    /\ UNCHANGED <<scopes, blocks, cur, stack, func, lastPart, result, loose, live, ret>>

(* fn name(args) {: every argument is stored in a slot of the entry block. *)
BeginFunction(f, args) ==
    /\ Idle /\ Reading
    /\ globals' = globals \cup {f}
    /\ blocks' = Append(blocks, NewBlock)
    /\ cur' = Len(blocks) + 1
    /\ scopes' = <<[n \in Names |-> IF n \in args THEN Len(blocks) + 1 ELSE 0]>>
    /\ func' = f
    /\ lastPart' = "none"
    /\ live' = {Len(blocks) + 1}
    /\ ret' = 0
    /\ steps' = steps + 1
    /\ UNCHANGED <<stack, result, loose>>

EndAnyFunction ==                           \* mutant of EndFunction
    /\ InBody /\ stack = << >>
    /\ func' = NoName
    /\ UNCHANGED <<globals, scopes, blocks, cur, stack, lastPart, steps, result,
                   loose, live, ret>>

(* }: a body that does not end in a return statement is a TODO. *)
EndFunction ==
    /\ InBody /\ stack = << >>
    /\ lastPart = "Return"
    /\ func' = NoName
    /\ UNCHANGED <<globals, scopes, blocks, cur, stack, lastPart, steps, result,
                   loose, live, ret>>

(***************************************************************************)
(* An expression between functions is compiled wherever the builder was    *)
(* left, in the scope that was left: at the end of the function before.    *)
(* Before the first body there is no block.  An alloca crashes; a call is  *)
(* created all the same and stays a user of the function it calls.         *)
(***************************************************************************)
GlobalBasic(e) ==
    /\ Idle /\ Reading
    /\ Resolves(e)
    /\ steps' = steps + 1
    /\ IF cur = 0
       THEN /\ result' = IF Mints(e) THEN "abort" ELSE result
            /\ loose' = (loose \/ (Emits(e) /\ ~Mints(e)))
            /\ UNCHANGED <<scopes, blocks>>
       ELSE /\ scopes' = ScopesAfter(e)
            /\ blocks' = [blocks EXCEPT ![cur] = ShapeAfter(e)]
            /\ UNCHANGED <<result, loose>>
    /\ UNCHANGED <<globals, cur, stack, func, lastPart, live, ret>>

-----------------------------------------------------------------------------
(* StatmentVisitor *)

Basic(e) ==
    /\ InBody /\ Reading
    /\ Resolves(e)
    /\ scopes' = ScopesAfter(e)
    /\ blocks' = [blocks EXCEPT ![cur] = ShapeAfter(e)]
    /\ lastPart' = "other"
    /\ steps' = steps + 1
    /\ UNCHANGED <<globals, cur, stack, func, result, loose, live, ret>>

Return(e) ==
    /\ InBody /\ Reading
    /\ Resolves(e)
    /\ scopes' = ScopesAfter(e)
    /\ blocks' = [blocks EXCEPT ![cur] = Terminate(ShapeAfter(e))]
    /\ lastPart' = "Return"
    /\ ret' = IF Active(cur) THEN steps + 1 ELSE ret
    /\ steps' = steps + 1
    /\ UNCHANGED <<globals, cur, stack, func, result, loose, live>>

(* compile_block of a Block statement. *)
EnterBlock ==
    /\ InBody /\ Reading
    /\ Len(stack) < MaxDepth
    /\ scopes' = Pushed
    /\ stack' = Append(stack, [kind |-> "block", other |-> 0])
    /\ lastPart' = "other"
    /\ steps' = steps + 1
    /\ UNCHANGED <<globals, blocks, cur, func, result, loose, live, ret>>

ExitBlock ==
    /\ InBody
    /\ stack # << >> /\ Top.kind = "block"
    /\ scopes' = Popped
    /\ stack' = Outer
    /\ lastPart' = "other"
    /\ UNCHANGED <<globals, blocks, cur, func, steps, result, loose, live, ret>>

(***************************************************************************)
(* The condition, the conditional branch, and into the then block.  taken  *)
(* is what the condition evaluates to in the followed execution.           *)
(***************************************************************************)
EnterIf(e, taken) ==
    LET bthen == Len(blocks) + 1
        belse == Len(blocks) + 2
    IN
    /\ InBody /\ Reading
    /\ Len(stack) < MaxDepth
    /\ Resolves(e)
    /\ blocks' = [blocks EXCEPT ![cur] = Terminate(ShapeAfter(e))]
                    \o <<NewBlock, NewBlock>>
    /\ cur' = bthen
    /\ scopes' = Append(ScopesAfter(e), NoBindings)
    /\ stack' = Append(stack, [kind |-> "then", other |-> belse])
    /\ live' = live \cup IF Active(cur) THEN {IF taken THEN bthen ELSE belse} ELSE {}
    /\ lastPart' = "other"
    /\ steps' = steps + 1
    /\ UNCHANGED <<globals, func, result, loose, ret>>

EnterElseForgetful ==                       \* mutant of EnterElse: then_end is bthen
    /\ InBody
    /\ stack # << >> /\ Top.kind = "then"
    /\ scopes' = Append(Popped, NoBindings)
    /\ cur' = Top.other
    /\ stack' = Append(Outer, [kind |-> "else", other |-> Top.other - 1])
    /\ lastPart' = "other"
    /\ UNCHANGED <<globals, blocks, func, steps, result, loose, live, ret>>

(* then_end is where the then block left the builder, not where it began. *)
EnterElse ==
    /\ InBody
    /\ stack # << >> /\ Top.kind = "then"
    /\ scopes' = Append(Popped, NoBindings)
    /\ cur' = Top.other
    /\ stack' = Append(Outer, [kind |-> "else", other |-> cur])
    /\ lastPart' = "other"
    /\ UNCHANGED <<globals, blocks, func, steps, result, loose, live, ret>>

NeverBranched(b) == b                       \* mutant of Branched
AlwaysBranched(b) == Terminate(b)           \* mutant of Branched
Branched(b) == IF b.last THEN b ELSE Terminate(b)

(* No merge block when neither branch is open: the builder stays behind. *)
ExitIf ==
    LET then_end == Top.other
        else_end == cur
    IN
    /\ InBody
    /\ stack # << >> /\ Top.kind = "else"
    /\ IF blocks[then_end].last /\ blocks[else_end].last
       THEN UNCHANGED <<blocks, cur, loose, live>>
       ELSE /\ blocks' = Append([b \in DOMAIN blocks |->
                                    IF b \in {then_end, else_end}
                                    THEN Branched(blocks[b]) ELSE blocks[b]], NewBlock)
            /\ cur' = Len(blocks) + 1
            /\ live' = live \cup IF Active(then_end) \/ Active(else_end)
                                 THEN {Len(blocks) + 1} ELSE {}
    /\ scopes' = Popped
    /\ stack' = Outer
    /\ lastPart' = "other"
    /\ UNCHANGED <<globals, func, steps, result, loose, ret>>

-----------------------------------------------------------------------------
(* The ends of a compilation. *)

(* MissingVar or a type error, on its way out of the nested visitors. *)
Reject ==
    /\ Reading
    /\ steps' = steps + 1
    /\ result' = "failing"
    /\ UNCHANGED <<globals, scopes, blocks, cur, stack, func, lastPart, loose,
                   live, ret>>

Failing == result = "failing"

UnwindOnly ==                               \* mutant of Unwind
    /\ Failing
    /\ stack # << >>
    /\ stack' = Outer
    /\ UNCHANGED <<globals, scopes, blocks, cur, func, lastPart, steps, result,
                   loose, live, ret>>

(* Each compile_block the error passes pops the scope it pushed. *)
Unwind ==
    /\ Failing
    /\ stack # << >>
    /\ scopes' = Popped
    /\ stack' = Outer
    /\ UNCHANGED <<globals, blocks, cur, func, lastPart, steps, result, loose,
                   live, ret>>

(* The body of the function is no compile_block: its scope stays. *)
ReportError ==
    /\ Failing
    /\ stack = << >>
    /\ result' = "error"
    /\ UNCHANGED <<globals, scopes, blocks, cur, stack, func, lastPart, steps,
                   loose, live, ret>>

(* while, x[i], a non-integer operand, assignment to no address. *)
Unimplemented ==
    /\ Reading
    /\ steps' = steps + 1
    /\ result' = "abort"
    /\ UNCHANGED <<globals, scopes, blocks, cur, stack, func, lastPart, loose,
                   live, ret>>

MissingReturn ==
    /\ InBody /\ stack = << >>
    /\ lastPart # "Return"
    /\ result' = "abort"
    /\ UNCHANGED <<globals, scopes, blocks, cur, stack, func, lastPart, steps,
                   loose, live, ret>>

(***************************************************************************)
(* verifyModule: a terminator ends every block and stands nowhere else,    *)
(* and every instruction that uses a function stands in a block.           *)
(***************************************************************************)
WellFormed(b) == b.last /\ ~b.mid
Verify ==
    /\ Idle
    /\ result' = IF ~loose /\ \A b \in DOMAIN blocks : WellFormed(blocks[b])
                 THEN "verified" ELSE "rejected"
    /\ UNCHANGED <<globals, scopes, blocks, cur, stack, func, lastPart, steps,
                   loose, live, ret>>

Done == ~Compiling /\ ~Failing /\ UNCHANGED vars

Next ==
    \/ \E f \in Names : DeclareFunction(f)
    \/ \E f \in Names, args \in SUBSET Names : BeginFunction(f, args)
    \/ EndFunction
    \/ \E e \in Expr : GlobalBasic(e)
    \/ \E e \in Expr : Basic(e)
    \/ \E e \in Expr : Return(e)
    \/ EnterBlock
    \/ ExitBlock
    \/ \E e \in Expr, taken \in BOOLEAN : EnterIf(e, taken)
    \/ EnterElse
    \/ ExitIf
    \/ Reject
    \/ Unwind
    \/ ReportError
    \/ Unimplemented
    \/ MissingReturn
    \/ Verify
    \/ Done

Spec == Init /\ [][Next]_vars

-----------------------------------------------------------------------------
(* Properties. *)

(***************************************************************************)
(* "cant have empty block" (compiler.cpp:591): whenever a function is      *)
(* complete, each of its blocks has a terminator, however the ifs nest and *)
(* wherever the returns stand.                                             *)
(***************************************************************************)
ClosedBlocks == Idle => \A b \in DOMAIN blocks : Ended(blocks[b])

(***************************************************************************)
(* A slot the scopes make visible was allocated on every path that reaches *)
(* the insertion point: no load or store can be ahead of its alloca, which *)
(* is what the scope pushed per branch is for.                             *)
(***************************************************************************)
BindingsDominate ==
    Compiling /\ cur \in live =>
        \A i \in DOMAIN scopes, n \in Names : scopes[i][n] \in live \cup {0}

(***************************************************************************)
(* Every execution of a complete function ends in a return statement: the  *)
(* check that the last statement is a Return is enough.                    *)
(***************************************************************************)
FunctionsReturn == Idle /\ blocks # << >> => ret # 0

(***************************************************************************)
(* The branches emitted for an if neither lose nor fork the execution: it  *)
(* waits at exactly one block that is still open, the insertion point or a *)
(* block some if will come back to, until it has returned.                 *)
(***************************************************************************)
Points == {cur} \cup {stack[i].other : i \in DOMAIN stack}
Frontier == {b \in live : ~Ended(blocks[b])}
OneExecution ==
    InBody => IF ret = 0 THEN \E b \in Points : Frontier = {b} ELSE Frontier = {}

(***************************************************************************)
(* The emitted blocks mean what the nested statements mean: the execution  *)
(* goes where the source says it goes, it returns from the same return     *)
(* statement, and the verifier turns down exactly the programs that        *)
(* contain code after a return or a call before the first body.            *)
(***************************************************************************)
Where(b) ==
    IF b = 0 THEN [closed |-> TRUE, active |-> FALSE]
             ELSE [closed |-> blocks[b].last, active |-> Active(b)]

(* With no block yet, the point is closed until something is left loose. *)
Here == IF cur = 0 THEN [closed |-> ~loose, active |-> FALSE] ELSE Where(cur)
Dead == loose \/ \E b \in DOMAIN blocks : blocks[b].mid

Nest == [i \in DOMAIN stack |->
            [kind |-> stack[i].kind, other |-> Where(stack[i].other)]]

Phase ==
    CASE Compiling /\ func = NoName -> "idle"
      [] Compiling /\ func # NoName -> "body"
      [] result \in {"failing", "error", "abort"} -> "failed"
      [] result = "verified" -> "accepted"
      [] result = "rejected" -> "rejected"

Source == INSTANCE Structured WITH
    nest <- Nest, here <- Here, count <- steps, returned <- ret, dead <- Dead,
    phase <- Phase

SourceRefinement == Source!Spec

-----------------------------------------------------------------------------
(***************************************************************************)
(* The inductive invariant behind the properties.  The insertion point and *)
(* the blocks the open ifs will come back to are different blocks, no      *)
(* other block is open, and what BindingsDominate says of the insertion    *)
(* point holds of each of them for the scopes around its if.               *)
(***************************************************************************)
PointsApart ==
    /\ \A i \in DOMAIN stack :
          IF stack[i].kind = "block"
          THEN stack[i].other = 0
          ELSE stack[i].other \in 1 .. Len(blocks) /\ stack[i].other # cur
    /\ \A i, j \in DOMAIN stack :
          i # j /\ stack[i].other # 0 => stack[i].other # stack[j].other

SlotsExist ==
    \A i \in DOMAIN scopes, n \in Names : scopes[i][n] \in 0 .. Len(blocks)

OnlyPointsOpen ==
    Compiling => \A b \in DOMAIN blocks : Ended(blocks[b]) \/ (InBody /\ b \in Points)

LastIsReturn == InBody /\ lastPart = "Return" => blocks[cur].last

BranchBindings ==
    Compiling =>
        \A i \in DOMAIN stack : stack[i].other \in live =>
            \A j \in 1 .. i, n \in Names : scopes[j][n] \in live \cup {0}

Inductive ==
    /\ TypeOK /\ PointsApart /\ SlotsExist
    /\ OnlyPointsOpen /\ LastIsReturn
    /\ BindingsDominate /\ BranchBindings
    /\ OneExecution /\ FunctionsReturn

=============================================================================
