------------------------------- MODULE Driver -------------------------------
(***************************************************************************)
(* compile_source and run_jit (jit.cpp) with generate_func (compiler.cpp): *)
(* globals are parsed and compiled one by one into one module, which is    *)
(* verified, optimised, linked and searched for main.                      *)
(*                                                                         *)
(* A module is its functions, with the symbol LLVM gives each one and the  *)
(* functions its code mentions.  Whether a global parses is Statements' and *)
(* whether its body compiles and is well formed Lowering's; here that is a *)
(* choice, but for the names a body mentions.                              *)
(***************************************************************************)
EXTENDS Naturals, Sequences, FiniteSets

CONSTANTS
    Names,          \* names of functions; "main" is one
    Host,           \* the functions the process itself has (libc)
    Values,         \* what a main may return
    MaxGlobals      \* bound: globals of a text

ASSUME DriverAssumption ==
    /\ "main" \in Names
    /\ Host \subseteq Names \ {"main"}
    /\ MaxGlobals \in Nat

VARIABLES
    verify_ir, run_main,    \* the RunOptions that decide anything
    functions,      \* the functions of the module, in order of declaration
    consts,         \* ctx.global_consts: a name to its function, 0 if none
    sound,          \* the IR so far is well formed
    read,           \* globals read so far
    refused,        \* history: a global that was turned down, or the module
    phase,          \* where compile_source is
    main,           \* history: the function run_jit called, or 0
    code, ret       \* what compile_source returns, and the caller's ret

vars == <<verify_ir, run_main, functions, consts, sound, read, refused, phase, main, code, ret>>

(* symbol: the name and what LLVM puts behind it to tell it from an earlier *)
(* one; 0 is nothing.                                                       *)
Function == [name : Names, symbol : Names \X Nat, body : BOOLEAN, mentions : SUBSET Nat]

Phases == {"globals", "verify", "optimize", "jit", "lookup", "running", "done", "crashed"}

TypeOK ==
    /\ verify_ir \in BOOLEAN /\ run_main \in BOOLEAN
    /\ functions \in Seq(Function) /\ Len(functions) <= MaxGlobals
    /\ \A f \in DOMAIN functions : functions[f].mentions \subseteq DOMAIN functions
    /\ consts \in [Names -> 0 .. Len(functions)]
    /\ \A n \in Names : consts[n] # 0 => functions[consts[n]].name = n
    /\ sound \in BOOLEAN /\ refused \in BOOLEAN
    /\ read \in 0 .. MaxGlobals
    /\ phase \in Phases
    /\ main \in 0 .. Len(functions) /\ (phase = "running" => main # 0)
    /\ code \in {0, 1} /\ ret \in Values \cup {0}

Init ==
    /\ verify_ir \in BOOLEAN /\ run_main \in BOOLEAN
    /\ functions = << >> /\ consts = [n \in Names |-> 0]
    /\ sound = TRUE /\ read = 0 /\ refused = FALSE
    /\ phase = "globals" /\ main = 0
    /\ code = 0 /\ ret = 0

-----------------------------------------------------------------------------
(* The loop over the globals. *)

Reading == phase = "globals" /\ read < MaxGlobals /\ read' = read + 1

(* llvm::Function::Create: a name that is taken gets a suffix. *)
SharedSymbol(name) == <<name, 0>>           \* mutant of NewSymbol: getOrInsert
NewSymbol(name) ==
    IF \E f \in DOMAIN functions : functions[f].name = name
    THEN <<name, Len(functions)>> ELSE <<name, 0>>

FirstConst(name) ==                         \* mutant of Known: emplace, not []
    [consts EXCEPT ![name] = IF @ = 0 THEN Len(functions) + 1 ELSE @]

(* generate_func: the newest function of a name is the one it stands for. *)
Known(name) == [consts EXCEPT ![name] = Len(functions) + 1]

Declare(name) ==
    /\ Reading
    /\ functions' = Append(functions,
            [name |-> name, symbol |-> NewSymbol(name), body |-> FALSE, mentions |-> {}])
    /\ consts' = Known(name)
    /\ UNCHANGED <<verify_ir, run_main, sound, refused, phase, main, code, ret>>

(* The names of a body are looked up once its own function is known. *)
Define(name, mentioned) ==
    /\ Reading
    /\ \A n \in mentioned : Known(name)[n] # 0
    /\ functions' = Append(functions,
            [name |-> name, symbol |-> NewSymbol(name), body |-> TRUE,
             mentions |-> {Known(name)[n] : n \in mentioned}])
    /\ consts' = Known(name)
    /\ sound' \in {sound, FALSE}
    /\ UNCHANGED <<verify_ir, run_main, refused, phase, main, code, ret>>

(* An expression between functions: what it emits goes behind the return   *)
(* of the function before it, and before any body a call is in no block.   *)
(* Neither is well formed.  One that is constant emits nothing.            *)
GlobalExpression ==
    /\ Reading
    /\ sound' \in IF functions # << >> THEN {sound, FALSE} ELSE {sound}
    /\ UNCHANGED <<verify_ir, run_main, functions, consts, refused, phase, main, code, ret>>

Refused == code' = 1 /\ refused' = TRUE /\ phase' = "done"

ReportAndGoOn ==                            \* mutant of GlobalError: no return
    /\ Reading
    /\ refused' = TRUE
    /\ UNCHANGED <<verify_ir, run_main, functions, consts, sound, phase, main, code, ret>>

(* A parse error, or a body that does not compile. *)
GlobalError ==
    /\ Reading
    /\ Refused
    /\ UNCHANGED <<verify_ir, run_main, functions, consts, sound, main, ret>>

(* A TODO, or a variable minted where there is no body yet. *)
GlobalAborts ==
    /\ Reading
    /\ phase' = "crashed"
    /\ UNCHANGED <<verify_ir, run_main, functions, consts, sound, refused, main, code, ret>>

EndOfText ==
    /\ phase = "globals"
    /\ phase' = "verify"
    /\ UNCHANGED <<verify_ir, run_main, functions, consts, sound, read, refused, main, code, ret>>

-----------------------------------------------------------------------------
(* The module. *)

VerifyAll == TRUE                           \* mutant of Verified: result unused
Verified == sound \/ ~verify_ir

VerifyError ==
    /\ phase = "verify" /\ ~Verified
    /\ Refused
    /\ UNCHANGED <<verify_ir, run_main, functions, consts, sound, read, main, ret>>

Verify ==
    /\ phase = "verify" /\ Verified
    /\ phase' = "optimize"
    /\ UNCHANGED <<verify_ir, run_main, functions, consts, sound, read, refused, main, code, ret>>

(* optimize_module, if asked for, and later the code generator may find    *)
(* that code is never reached and drop what it mentions.  A function cannot *)
(* go: every one is external.                                               *)
Optimize ==
    /\ phase = "optimize"
    /\ phase' = "jit"
    /\ \E dropped \in [DOMAIN functions -> SUBSET DOMAIN functions] :
            functions' = [f \in DOMAIN functions |->
                            [functions[f] EXCEPT !.mentions = @ \ dropped[f]]]
    /\ UNCHANGED <<verify_ir, run_main, consts, sound, read, refused, main, code, ret>>

(* No code generator is asked to make sense of an ill-formed module. *)
Undefined ==
    /\ phase \in {"optimize", "jit", "lookup", "running"} /\ ~sound
    /\ phase' = "crashed"
    /\ UNCHANGED <<verify_ir, run_main, functions, consts, sound, read, refused, main, code, ret>>

-----------------------------------------------------------------------------
(* run_jit *)

JitError ==
    /\ phase = "jit"
    /\ Refused
    /\ UNCHANGED <<verify_ir, run_main, functions, consts, sound, read, main, ret>>

AddModule ==
    /\ phase = "jit"
    /\ phase' = IF run_main THEN "lookup" ELSE "done"
    /\ UNCHANGED <<verify_ir, run_main, functions, consts, sound, read, refused, main, code, ret>>

Defines(symbol) == {f \in DOMAIN functions : functions[f].body /\ functions[f].symbol = symbol}

(* A function without a body is searched for in the process, by its symbol. *)
Linked(f) ==
    \/ Defines(functions[f].symbol) # {}
    \/ functions[f].symbol \in Host \X {0}

(* The module is linked as a whole when its first symbol is looked up. *)
Links == \A f \in DOMAIN functions :
            functions[f].body => \A m \in functions[f].mentions : Linked(m)

AnyMain == {f \in DOMAIN functions : functions[f].name = "main"}      \* mutant of Mains
Mains == Defines(<<"main", 0>>)

LookupIgnored ==                            \* mutant of LookupError: returns 0
    /\ phase = "lookup" /\ (Mains = {} \/ ~Links)
    /\ phase' = "done"
    /\ UNCHANGED <<verify_ir, run_main, functions, consts, sound, read, refused, main, code, ret>>

LookupError ==
    /\ phase = "lookup" /\ (Mains = {} \/ ~Links)
    /\ Refused
    /\ UNCHANGED <<verify_ir, run_main, functions, consts, sound, read, main, ret>>

EnterMain ==
    /\ phase = "lookup" /\ Links
    /\ main' \in Mains
    /\ phase' = "running"
    /\ UNCHANGED <<verify_ir, run_main, functions, consts, sound, read, refused, code, ret>>

MainReturns ==
    /\ phase = "running"
    /\ ret' \in Values /\ code' = 0
    /\ phase' = "done"
    /\ UNCHANGED <<verify_ir, run_main, functions, consts, sound, read, refused, main>>

(* The program divides by zero, or recurses too deeply. *)
MainCrashes ==
    /\ phase = "running"
    /\ phase' = "crashed"
    /\ UNCHANGED <<verify_ir, run_main, functions, consts, sound, read, refused, main, code, ret>>

Done == phase \in {"done", "crashed"} /\ UNCHANGED vars

Compile ==
    \/ \E n \in Names : Declare(n) \/ \E m \in SUBSET Names : Define(n, m)
    \/ GlobalExpression \/ GlobalError \/ GlobalAborts \/ EndOfText
    \/ VerifyError \/ Verify \/ Optimize
    \/ JitError \/ AddModule \/ LookupError \/ EnterMain

Next == Compile \/ Undefined \/ MainReturns \/ MainCrashes \/ Done

(* compile_source goes on by itself.  Nothing makes main return. *)
Spec == Init /\ [][Next]_vars /\ WF_vars(Compile)

-----------------------------------------------------------------------------
(* Properties. *)

(***************************************************************************)
(* main runs only when every global before the end of the text has been    *)
(* accepted and, unless that was turned off, the module is well formed.    *)
(***************************************************************************)
AcceptedRuns == main # 0 => ~refused /\ (verify_ir => sound)

(***************************************************************************)
(* The main that runs is the first one the text has: a second one is given *)
(* another symbol.  If the first is only a declaration, none runs.         *)
(***************************************************************************)
FirstMainRuns ==
    main # 0 =>
        /\ functions[main].body
        /\ \A f \in 1 .. main : functions[f].name = "main" <=> f = main

(***************************************************************************)
(* In a body a name means the last function of that name before the body,  *)
(* or the body's own; never an earlier and never a later one.              *)
(***************************************************************************)
NamesMeanTheLatest ==
    \A f \in DOMAIN functions : \A m \in functions[f].mentions :
        m <= f /\ \A k \in m + 1 .. f : functions[k].name # functions[m].name

(***************************************************************************)
(* A declaration does not announce a later definition: when main runs,     *)
(* every function the module still mentions was defined before the         *)
(* mention, or is the first of its name and the process has it.            *)
(***************************************************************************)
DefinedBeforeUse ==
    phase = "running" =>
        \A f \in DOMAIN functions : \A m \in functions[f].mentions :
            \/ functions[m].body
            \/ functions[m].name \in Host /\ \A k \in 1 .. m - 1 : functions[k].name # functions[m].name

(* compile_source keeps the promise of jit.hpp. *)
Promise == INSTANCE Outcome WITH
    phase <- IF phase \in {"running", "done", "crashed"} THEN phase ELSE "compiling"

ImplementsOutcome == Promise!Spec

-----------------------------------------------------------------------------
(***************************************************************************)
(* The inductive invariant behind these: what the symbols and the table of *)
(* names say of the order of declarations, and what must have been passed  *)
(* to get to a phase.                                                      *)
(***************************************************************************)
Earlier(f, name) == \E k \in 1 .. f - 1 : functions[k].name = name

SymbolsTold ==
    \A f \in DOMAIN functions :
        functions[f].symbol =
            <<functions[f].name, IF Earlier(f, functions[f].name) THEN f - 1 ELSE 0>>

DeclarationsAreBare == \A f \in DOMAIN functions : functions[f].mentions # {} => functions[f].body

ConstsAreLatest ==
    \A n \in Names : \A k \in consts[n] + 1 .. Len(functions) : functions[k].name # n

PhasesPassed ==
    /\ phase # "done" => ~refused /\ code = 0
    /\ phase \in {"optimize", "jit", "lookup", "running"} => Verified
    /\ phase \in {"lookup", "running"} => run_main
    /\ main # 0 => phase \in {"running", "done", "crashed"}

MainChosen == main # 0 => main \in Mains /\ ~refused /\ Verified

Inductive ==
    /\ TypeOK /\ Len(functions) <= read
    /\ SymbolsTold /\ DeclarationsAreBare /\ ConstsAreLatest /\ NamesMeanTheLatest
    /\ PhasesPassed /\ MainChosen /\ DefinedBeforeUse

=============================================================================
