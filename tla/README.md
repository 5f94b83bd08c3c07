# small-lang in TLA+

small-lang is a small compiled language: one C++ program parses a source text,
lowers every global as soon as it is parsed to LLVM IR, verifies and optimises
the module and runs `main` in a JIT. Nothing in it runs concurrently; what is
hard is sequential: a lexer that is asked for tokens in whatever order the parsers
ask, a recursive descent whose results depend on binding powers and on who asks
first for an `else`, visitors that share one IR builder and leave it in a state the
next visitor depends on, values whose fields are set by some visitors and read by
others, and results that pass through an exit status before anybody sees them.
Line numbers are those of the repository (`src/src/` is the repository's `src/`).

## Inventory

| Part | State | Operations | What makes it correct | Status |
|---|---|---|---|---|
| Lexer, `ParseStream` (parser.hpp 27-398) | `full`, `current` | `try_consume`, `consume`, `try_name`, `try_number`, `peek_operator`, `try_operator`, `found_token`, `parse_type`, `ParseError::what` | tokens are whole, a failed attempt leaves no trace, an error points at what was found | `Lexer` |
| Expression parser (parser.hpp 405-611) | the activations of `parse_expression`, the expression in hand | atoms, prefix, cast, parentheses, call, subscript, postfix, infix | the tree is the one the binding powers describe, every node has its own text, parsing ends | `Pratt` |
| Statement and global parser (parser.hpp 615-792) | the blocks being read | `parse_statement`, `parse_block`, `parse_proper_block`, `parse_func_args`, `parse_global` | it reads the grammar, every node has its text, parsing ends | `Statements` |
| Scopes (scope.hpp) | a stack of maps from names to slots | `push`, `pop`, `find`, `[]`, `clear` | what is visible was allocated on every path here | `Lowering` |
| Statement lowering (compiler.cpp 531-644) | the builder's insertion point, the blocks | one visitor per statement | blocks end in one terminator, the IR means what the statements mean | `Lowering` |
| Expression lowering (compiler.cpp 40-529) | `Value` (register, type, address), the slots | one visitor per expression, casts and promotion | the types of values are true of registers and of memory | `Values` |
| Function lowering (compiler.cpp 646-746) | `global_consts`, `current_func`, the module | declarations, functions, global expressions | every function returns, a name means the function it should | `Lowering`, `Driver` |
| Driver (jit.cpp) | the module, the result | `compile_source`, `run_jit` | only an accepted and verified module runs, and what it returned comes back | `Driver` |
| Command line, example runner, test battery | exit status, counts | `main`, `run_case`, the loop of the script | a failure is seen as one | `Harness` |
| REPL (ast_repl.cpp) | line buffer, two modes | commands and lines | a line is parsed once, or it is known why not | `Repl` |
| AST printing (ast_print.hpp, ast_printer.cpp) | none | one printer per node | every node is printed | the order of nodes, in `Statements` |

They interact by calls in one thread: `compile_source` alternates between the
parser (one global) and `CompileContext::compile`, whose visitors call each other
through `compile(Expression)` and `compile(Statement)` and share the builder, the
scopes and the arenas of the context. State survives from one global to the next
(the builder, the last function's scopes, `global_consts`). Errors travel up as
`std::expected`; a construct that is not implemented is a `TODO`, an assertion
that ends the program in the build the repository configures (no `NDEBUG`).

Hazards, each at its line and with the properties that watch it, are in
PROJECT.json.

## Modules

| Module | Models |
|---|---|
| `Lexer` | `ParseStream`, `parse_type`, `ParseError::what` |
| `Expressions` | abstract specification: which tokens an expression takes |
| `Pratt` | `parse_expression` and what it calls; implements `Expressions` |
| `Grammar` | reference definition: the texts of the language, as a grammar |
| `Statements` | the parsers of statements and globals, built on `Expressions`; which nodes are printed |
| `Structured` | abstract specification: a program of nested statements, one execution of which is followed |
| `Lowering` | `StatmentVisitor`, `GlobalVisitor`, `Scope`, the builder, the verifier; implements `Structured` |
| `Values` | `ExpressionVisitor`, `VisitorBase`, slots and what they hold |
| `Outcome` | abstract specification: what `compile_source` promises |
| `Driver` | `compile_source`, `run_jit`, symbols and the table of names; implements `Outcome` |
| `Harness` | `small`, the example runner and the battery, built on `Outcome` |
| `Repl` | the parser's read-eval loop |
| `MC...` | instances for TLC |
| `LoweringProof`, `LexerProof`, `PrattProof`, `StatementsProof`, `DriverProof`, `ValuesProof`, `HarnessProof`, `ReplProof` | theorems and proofs |

The seams are the abstract specifications. `Statements` reads expressions with the
actions of `Expressions`, which `Pratt` is shown to implement; `Harness` calls
`compile_source` with the actions of `Outcome`, which `Driver` is shown to
implement; whether a body compiles and is well formed, which `Lowering` decides, is
a choice in `Driver`.

**Lexer.** The state is `current` and the tokens taken so far. `Attempts(p)` is every
way to ask for a token at `p` with what it takes and where it leaves the stream, a
failed attempt included; an action takes one that succeeds, tries one that fails, or
expects one that is not there and gets an error. `found_token` moves `current`, and
C++ leaves open whether the second argument of `ParseError` is read before or after:
the error has both.

**Pratt.** A frame is an activation of `parse_expression` with its `min_bp`, its
start and what its caller does with the result. The lookahead is chosen when the
token before it is consumed. `PreOp` made by `a++` carries the history field
`post`, which the code does not have: it makes the same node of `++a`.

**Statements.** A frame is a statement or block that is open, with the start of its
text and its children. Keywords are asked for with `try_consume`, which compares a
prefix, so a word that begins with one comes as two pieces (`"if~"` and the rest).
`at` is what is read next; `Signature` lists the states of `parse_func_args`.
`Printed` is the order in which ast_print.hpp visits a tree.

**Lowering.** The AST is chosen while it is compiled, so every program within the
bounds is covered. `stack` holds the statements whose nested block is being
compiled (the activations of `compile_block` and of the `If` visitor), `cur` is
`builder.GetInsertBlock()`, `scopes` is `local_var_addrs` with, for each name, the
block of its alloca. An instruction is kept as what it does to the shape of its
block: whether the last instruction is a terminator and whether another one is.
`EnterIf`, `EnterElse` and `ExitIf` are the `If` visitor between its two calls of
`compile_block`; the last merges or not as lines 593-611 do. An error unwinds: each
open `compile_block` is a step of its own that pops the scope it pushed (`Unwind`),
and the one of the function's body, which is none, leaves its scope (`ReportError`).
A call between globals before any body has no block to be in: it is created without
one, still uses the function it calls (`loose`), and the verifier refuses the module
for it as it does for code behind a terminator. An expression is a
name it may read, a name it may assign and whether it computes: enough for
`MissingVar`, minting and constant folding. Type errors and `TODO`s are a choice
(`Reject`, `Unimplemented`). `live` and `ret` are history: the blocks one
execution of the emitted code enters and the return statement it ends with.

**Structured** knows statements and no blocks. `Lowering` maps to it by reading,
for the insertion point and for each block an open `if` will come back to, whether
it is closed and whether the execution is there (`Here`, `Nest`).

**Values.** A `Type` is a chain of stored pointers and a `Value` a chain of
addresses, as in compiler.hpp; a field that no visitor sets is `junk`, and a test of
it may go either way. The emitted code is straight here (control flow is
Lowering's), and is executed as it is emitted, so that a slot has a content: the
LLVM type of what was stored, the slot a pointer points to, the function a pointer
is. Numbers are left out; `Arith`, `Compare` and `Logic` stand for the operators of
one kind. `hole` is history: a cast or an assignment changed what a pointer points
to; `clash`: an access or a call did not fit its target. Both are set by the
actions that model the LLVM instructions, never read by them.

**Driver.** A module is its functions in order of declaration, each with the symbol
LLVM gives it (the name, and a suffix if the name is taken) and the functions its
code mentions. `Optimize` may drop mentions, of any of the functions at once, for code
that is never reached is gone before it is linked. Linking happens when `main` is looked up: a symbol is defined in
the module or, if it has no suffix, found in the process.

**Harness.** What each text comes to (returns a value, is refused, crashes, hangs) is
chosen once, so that running it again comes to the same. `Status` is what a shell
sees: eight bits, or a signal.

**Repl.** Lines are positions in the transcript; a line of a program opens a phrase,
closes one or is one, and a commit records which lines were handed over and how many
the first phrase took, for nobody looks at the rest. `took` 0 is an error, which is
shown for the commit as a whole.

## Runs

| Run | Bounds | Shows |
|---|---|---|
| `lexer` | 10 characters, texts of 5, numbers below 16 | `TokensTile`, `FailureKeepsPlace`, `ReadsTheLongest`, `ErrorsPoint`, `NumbersAreExact` |
| `pratt` | 12 kinds of token, 7 tokens | `TextsTile`, `Precedence`, `SplitsAtWeakest`, `Progress`, and that Pratt implements Expressions |
| `statements` | 13 kinds of piece for globals, 12 for a statement, 8 pieces | `StatementsTile`, `ElseNearest`, `BodyStartsFresh`, `WordsSplitAtStarts`, `PrintedOnce`, `ReadsGrammar`, `Stops` |
| `lowering` | 2 names, 6 statements, nesting 3 | `TypeOK`, `ClosedBlocks`, `FunctionsReturn`, `OneExecution`, `BindingsDominate`, and that Lowering implements Structured |
| `values` | 2 variables, 2 functions, everything, 6 nodes; and 3 variables, `&`, `*`, `=` and a cast, 13 nodes | `TagsTrue`, `PointersAreSet`, `TypesHold` |
| `driver` | 3 globals over 3 names, one of them in the process | `AcceptedRuns`, `FirstMainRuns`, `NamesMeanTheLatest`, `DefinedBeforeUse`, and that Driver implements Outcome |
| `harness` | 3 texts, 3 values, 3 arguments | `ZeroIsSuccess`, `RunnerCounts`, `BatteryCounts`, `Reports` |
| `repl` | 6 lines | `LinesAccounted`, `ParsedOnce`, `ParsedTogether` |

The type invariant of a module is a conjunct of its first property where it is not
one of its own, and proved in every module with theorems.

Bounds. *Lexer:* five characters hold a keyword with a letter on either side, a
comment with a token before and after it, the longest operator between two names,
and a number that does not fit below 16 (`Limit`, 2^64 in the code); the
limit decides nothing else. Keywords
other than one, and operators other than those of `& *`, are read by the same code.
*Pratt:* seven tokens are four operands and three operators, one more than it takes
for an operator to be between two others; the powers 20 (`.`), 16 (prefix), 15
(cast, postfix), 14, 13 and 3/4 are each represented, and the ones between 5 and 11
are like 13. *Statements:* eight pieces hold an `if` with both branches in the first
branch of another, a function with a body of two statements, and a block in a block;
the statements of a body are explored as `parse_statement` is called from outside,
so that the eight pieces are all theirs. *Lowering:* six statements hold an `if`
within a branch of an `if` with returns in some branches and code behind them, a
nesting of three an `if` that is neither the outermost nor the innermost, and two
names are what shadowing needs; every property of this run is a theorem without
bounds. *Values:* thirteen nodes (a statement counts as one) hold
`p = &x; q = &p; *q = p`, the store of a pointer through a pointer to a pointer. Which of
the two fragments a behaviour explores, MCPrograms decides at the beginning; in the second
the variables are alike, so that only the next unused one is minted. Functions have the arities 0 and
2 and one of each calling convention. `Casts`, `PreOps`, `BinOps` and `ArgCounts` say
which constructs the programs of a run are made of. *Driver:* three globals are a
declaration, its definition and a main between or behind them. *Harness:* the values
0, 1 and 256 are those an exit status gets wrong or right; three texts are a failure
between two successes. *Repl:* six lines are two that are pending, two switches of
mode and two more.

Fairness. The program is one thread and nothing waits for anything, so that a step
that can be taken is taken: weak fairness of the parser's steps (`Statements`), of
the compiler's (`Driver`, `Compile`) and of the tools' (`Harness`, `Work`). What is
not fair is the compiled program: nothing makes `main` return, in `Driver` and
`Outcome` `running` may last for ever, and `Reports` is about texts that do not hang.
`Stops` is the liveness of the statement parser; that of the expression parser is the
action property `Progress`, every step makes a measure smaller, which needs no
fairness and is proved.

Every property of these runs, which pass, fails when a definition of the model is changed the
way a slip in the code would change it; PROJECT.json lists the changes, and the
changed forms stand before the definitions they replace, marked as mutants.

Four runs show where a comment, a printed message, an example or a declaration of the
repository and the code disagree. The battery runs with 2 cases, the REPL with 4 lines:

| Run | Disagreement |
|---|---|
| `pratt_associativity` | "left-associative ops use same as left" (parser.hpp:128) and "right-assoc" of `=` (parser.hpp:148): equal powers with `lbp<min_bp` associate to the right, and `=`, whose right power is the larger, to the left; the run finds one expression with both |
| `values_not_a_function` | "'x' is a variable, not a function" (not_a_function.small:7): a number leaves `func` unset, and the call tests it |
| `battery_expected` | a case has an `expected` value (test_compile.cpp:11) and its failure reads "Expected ... but got ..." (test_compile.cpp:37), but with `ok \|= (ret == t.expected)` (line 29) an accepted text passes whatever it returned |
| `repl_tip` | "a blank line commits and parses it" (ast_repl.cpp:19): a blank line in instant mode replaces what is pending (line 73), and one that commits has only the first phrase parsed, after which `buffer.clear()` (line 131) drops the others |

One more has no run: the constructor of `Var` takes its text for the name (ast.hpp:23),
and parentheses replace the text (parser.hpp:439), so that `(a)` is looked up with its
parentheses. `TextsTile` has the text as the parser leaves it.

The other properties say what the code does where it may surprise, and hold: a word
such as `iffy` is taken apart where a statement begins (`WordsSplitAtStarts`), a
number that does not fit is 0 (`NumbersAreExact`), the printed tree lacks what an
`else` governs (`PrintedOnce`), a declaration does not announce a later definition
(`DefinedBeforeUse`) and a multiple of 256 is a success (`ZeroIsSuccess`).
`LinesAccounted` says that the two losses of `repl_tip` and a `:c` are all there are: any
other line of a program is pending or has been answered, with the phrase it is part of or
with an error. `BatteryCounts` says what can be said of the verdicts as they are: refused
texts fail, those that return what is expected do not, and no case disturbs another.

## Proofs

Assumptions: those on the constants (`LoweringAssumption`, `LexerAssumption`,
`PrattAssumption`, `StatementsAssumption`, `DriverAssumption`, `ValuesAssumption`,
`HarnessAssumption`, `ReplAssumption`), which TLC evaluates in the runs. No bound is needed: the theorems
hold for every set of names, every number of statements, every nesting, every
alphabet, every length of a text, every set and number of tokens, every number of
globals, functions, texts, arguments and lines typed. Three of the assumptions are
more than a range: keywords and punctuation are not empty, and punctuation holds
no blank and no `#`, so that a comment is never the beginning of one; no name is `"none"`, `"null"` or `"junk"`, which
`Values` uses for unset fields, and no case of the battery expects -9999, which
`run_case` puts in `ret` before the call (test_compile.cpp:24; none does): a refused
text that was expected to return just that would count as passed.

*LoweringProof.* `ClosedBlocks`, `BindingsDominate`, `FunctionsReturn` and
`OneExecution` are conjuncts or consequences of `Inductive`. Alone none is
inductive: a merge closes two blocks and needs to know that they are different,
open or closed as their terminators say, and that no other block is open
(`PointsApart`, `OnlyPointsOpen`); a pop needs the bindings of the outer scopes to
dominate the block that is returned to and not only the present one
(`BranchBindings`); `FunctionsReturn` needs that the last statement being a return
leaves the insertion point closed (`LastIsReturn`), after which `OneExecution`
says the execution has returned. `InductiveInvariant` has one step per action.

The same module proves `LoweringImplementsSource`: `Spec => SourceRefinement`. Each
action maps to the action of Structured of its name or to `Work`, `Declare`,
`Abandon`, `Leave` (a step of `Unwind`) or `Judge`; the mapping of an `if` uses
`PointsApart` so that closing one block leaves the status of the others alone. In
particular the verifier turns down exactly the programs that have code after a return or
a call before the first body.

*LexerProof.* All five invariants of the run and the types. `Inductive` says that
only blanks and comments lie between tokens (`Tiled`), that no comment is open at
`current` (`Clean`), that each token is what an attempt at its place takes
(`TokenFits`), and what an error has (`ErrorFits`). `skip_comments`, the value of
digits and the powers of ten are recursive functions. That such a function exists and
has the value its equation gives is an induction; the library's theorems for that
take an operator as a parameter, which the provers cannot instantiate, so induction
is proved as a fact about sets of numbers (`SetInduction`, from a finite set
having no injection into a smaller one; `PrattProof` and `StatementsProof` prove it
too, for there is no module without variables to share it) and each function is built
from its initial parts (`LaterFunctions`). A text never changes, and an operator means the same after
a step as before (`Same`).

*PrattProof.* `TypeCorrect`; `PowersShapeTheTree`, from `Inductive`: a node is made
of the node in hand and of nodes that frames keep, so the invariant says of those
what `Precedence` says of finished ones (`FramesFit`, `LoopFits`), and that
children are older than their parents (`KidsOlder`), so that the node in hand,
which parentheses may still change, is nobody's child. `ParsingEnds` follows from
`TypeOK` and the measure. `TextsTileTheSource` is `TextsTile`, from `Textual`: a node is
made when its last token is consumed, so the invariant says of every frame which text
the parts it keeps have and that they lie one behind the other up to the position
(`Laid`, `Behind`, `InPlace`), and of the node in hand where it begins; with that, what a
production adds is what lies between, and nodes that were made before keep their texts
(`AllTiled`). `ExtentIsPromised` is `ImplementsExtent`: every step of the parser maps to
a step of `Expressions` or to none. The brackets it keeps open are computed from the
activations by recursion (`BracketsOf`), the equation again by set induction; of the
frames it needs `LooseFrames`, that nothing but an operator or a cast asks for a binding
power, so that what a root or a bracket stops at continues no expression.
`WeakestSplits` is `SplitsAtWeakest`, from `Split`: it relates operators that lie far
apart, with activations open between them. Of every infix expression made so far the
invariant says what ended its right operand (`Stopped`: the lookahead, an operator of a
node or of an open activation, or what closes a bracket); of every activation that the
operators read in it at its own depth are tight enough for it (`Tight`), and that an
operator tight enough for an inner activation is tight enough for those around it
(`Within`, `Narrower`), which holds since nothing but `.` and `->` binds as tightly as a
prefix operator; of every bracket that is open where it stands. Depth is a difference of
two cardinalities, and that a node's text and the arguments of an open call are
balanced (`Level`) is what puts the operators before and behind them at one depth.
The arms of the CASE expressions in `Pratt` and `Statements` exclude each
other, so that none of this depends on which arm is looked at first.

*StatementsProof.* `TypeCorrect`, `TextsAreWhole` (`StatementsTile`), `ElseTaken`
(`ElseNearest`) and `BodiesStartFresh` (`BodyStartsFresh`), from one invariant.
`StatementsTile` speaks of nodes only, and nodes are made when a statement ends; so
the invariant says of every open statement that its parts lie in a row behind its
keyword (`Laid`), that the next one was begun where a part of this one is due
(`Begins`, `Stacked`), and of the node in hand that it begins there and ends at the
position (`InHand`): when it is kept, the row goes on, and when the statement ends, the
row is its text (`Closed`). `BodyStartsFresh` needs that the piece at which a condition
ended is remembered until the branch is there (`Worded`), and `ElseNearest` that an `if`
that ended without an else has none behind it in any later state (`NoElse`). An `if`
without an else and a block without braces have no text, and where they begin and end
(`Lo`, `Hi`) is a recursive function over the nodes: that it exists is shown by set
induction (`FollowsExist`), and that a new node leaves the values of the older ones alone
(`LoHiKept`) is what lets everything said of older nodes stay true (`StillFits`).
`WordsTakenOnce` is `WordsSplitAtStarts`, from `Spelled`, which is about unfinished
texts: every word read so far is cut apart by exactly one keyword, of a node or of a
statement that is open (`TakenApart`), or lies within a name, of an expression or a
signature that is read or was (`TakenWhole`). When a statement ends, what its frame said
of its words its node says (`CloseWords`), and nothing between them is a word; that an
expression cannot end within a word is `AtomEnds`. That an expression statement
begins with no keyword (`BareNodes`) is asked of open statements too (`BareFrames`).
`PrintedInOrder` is `PrintedOnce`, in two halves. One is an invariant about where
nodes lie (`Grouped`): the parts of a node are apart, and every older node ends before
the node begins or lies within one of its parts (`Nested`); it needs the same of every
open statement, up to where its body is being read (`Gathers`), and that inner
statements begin later (`Ascending`). The other is about one finished tree
(`Drawn`). What the printer writes is a recursive function of concatenations: it
exists (`PrintsExist`) and is what its equation says (`PrintedFollows`), and texts in
order, joined in order, are in order (`FlatSorted`). Then every node's text has, in
order, exactly what lies within it and is not behind an else (`Shows`): an
induction over the nodes (`NodeShows`, `AllShow`), in which it counts that the else
that cuts a node lies in the same part as the node (`LostInPart`).

*DriverProof.* The four invariants of `driver`, and `PromiseIsKept`: every step of
`Driver` is a step of `Outcome` or none. `DefinedBeforeUse` is a matter of symbols
when the module is linked and of names when it is stated; the invariant says what
suffix each symbol has (`SymbolsTold`), from which no two functions share one
(`SymbolsApart`) and only the first of a name goes by the name alone
(`SymbolOfFirst`), which is also why the main that is found is the first
(`MainChosen`). `NamesMeanTheLatest` needs that the table of names is never behind
(`ConstsAreLatest`), and `PhasesPassed` what each phase may take for granted.

*ValuesProof.* `TagsTrue`, `PointersAreSet` (`UnsetStaysWithNumbers`: it says where unset
fields are, not that none is read) and `TypesHold`, from one `Inductive` over
everything that holds a value: the slots, the value in hand and the operands that
frames hold. `TypesHold` asks of a type only that it fits what a register holds now;
that is lost at the first load through it. The invariant says what a type can be
at all (`Chain`: plain pointers, and at the end a number or a function, and only an
end that is a number may be unset) and what of a value is true although something was
cast (`Sound`); `Fits`, the rest, is asked for while `hole` is `"none"`. A store keeps
it because no type of a slot changes and the value stored has the type of the slot;
frames have to promise what the visitor that continues takes for granted (`SoundFrame`:
the first operand of a call is a function).

*HarnessProof.* `ZeroIsSuccess`, `RunnerCounts` and `BatteryCounts`. The counts are
cardinalities of the texts before `case`; they stay right because the call of
`compile_source` tells the truth about its text (`CallFacts`), and because a refused
case, and no other, is run again: `run_case` recognises one by its `ret`, which is
still what it was (`BatteryFacts`). `BatteryVerdictsStand` says nothing of a text that is
accepted and returns something else; that it passes is `battery_expected`.

*ReplProof.* `LinesAccounted`, `ParsedOnce` and `ParsedTogether`. What is pending are
all lines of a program since the first that is, each typed while lines were gathered,
with no blank line and no `:c` since (`PendingFacts`): that is why a commit has no gap
and why what is pending can be lost in two ways only. A line that was committed and not
answered lies behind the first phrase, which closes all it opens (`TakenFacts`, from
`PhraseFacts`, by the depth of the lines); `BehindThePhrase` finds both in the
transcript, where the lines between the first and the last of a phrase that open or
close are as many as the commit has there (`LinesBetween`, a bijection).
`GatheringFacts` relates `instant_mode` to the number of `:i` so far.

Only model-checked: of `Statements`, `ReadsGrammar` (it compares with a `RECURSIVE`
grammar, which no theorem may mention); and all liveness (`Stops` and its like), with
its fairness.

## Not modelled

Formatting and wording (the layout of ast_print.hpp, ir_print.hpp), LLVM's
optimiser, code generator and linker but for what they may do to the functions of a
module, visual.py, and old_compile, which the build does not use. Expressions are
not followed into the printer. Numbers beyond those of the lexer: overflow, signed
comparison of bools, division; `&&` and `||` that compute both sides are therefore no
property. The depth of the machine stack. Lifetimes of the `Value` objects behind
addresses: `a = (a = 5)` mints twice in `Values`, which copies values, and what the
first one's address then points to is not seen. What a call of `main` with arguments
or another calling convention does.
