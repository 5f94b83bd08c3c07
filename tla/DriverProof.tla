----------------------------- MODULE DriverProof -----------------------------
(***************************************************************************)
(* Proofs about Driver.tla, for every set of names, every process that     *)
(* loads the module and every number of globals: the invariant Inductive,  *)
(* what follows from it, and that the steps of compile_source are those of *)
(* Outcome.tla.                                                            *)
(***************************************************************************)
EXTENDS Integers, Driver, SequenceTheorems, TLAPS

USE DriverAssumption

-----------------------------------------------------------------------------
(* The function a global adds. *)

NewFunction(name, hasBody, mentioned) ==
    [name |-> name, symbol |-> NewSymbol(name), body |-> hasBody,
     mentions |-> {Known(name)[n] : n \in mentioned}]

LEMMA KnownFacts ==
    ASSUME Inductive, NEW name \in Names
    PROVE  /\ Len(functions) \in Nat
           /\ DOMAIN functions = 1 .. Len(functions)
           /\ Known(name) \in [Names -> 0 .. Len(functions) + 1]
           /\ Known(name)[name] = Len(functions) + 1
           /\ \A n \in Names \ {name} : Known(name)[n] = consts[n] /\ consts[n] \in 0 .. Len(functions)
<1>1. Len(functions) \in Nat /\ DOMAIN functions = 1 .. Len(functions)
  BY LenProperties DEF Inductive, TypeOK
<1>2. consts \in [Names -> 0 .. Len(functions)]
  BY DEF Inductive, TypeOK
<1> QED
  BY <1>1, <1>2 DEF Known

LEMMA NewFunctionTyped ==
    ASSUME Inductive, NEW name \in Names, NEW hasBody \in BOOLEAN,
           NEW mentioned \in SUBSET Names, \A n \in mentioned : Known(name)[n] # 0
    PROVE  /\ NewFunction(name, hasBody, mentioned) \in Function
           /\ NewFunction(name, hasBody, mentioned).mentions \subseteq 1 .. Len(functions) + 1
<1>1. NewSymbol(name) \in Names \X Nat
  BY KnownFacts DEF NewSymbol
<1>2. {Known(name)[n] : n \in mentioned} \subseteq 1 .. Len(functions) + 1
  BY KnownFacts
<1>3. {Known(name)[n] : n \in mentioned} \in SUBSET Nat
  BY <1>2, KnownFacts
<1> QED
  BY <1>1, <1>2, <1>3 DEF NewFunction, Function

(* What Declare and Define have in common. *)
LEMMA AddStep ==
    ASSUME Inductive, Reading, NEW name \in Names, NEW hasBody \in BOOLEAN,
           NEW mentioned \in SUBSET Names, \A n \in mentioned : Known(name)[n] # 0,
           mentioned # {} => hasBody,
           functions' = Append(functions, NewFunction(name, hasBody, mentioned)),
           consts' = Known(name), sound' \in BOOLEAN,
           UNCHANGED <<verify_ir, run_main, refused, phase, main, code, ret>>
    PROVE  Inductive'
<1> DEFINE last == Len(functions) + 1
           new == NewFunction(name, hasBody, mentioned)
<1>1. /\ functions \in Seq(Function) /\ Len(functions) \in Nat
      /\ DOMAIN functions = 1 .. Len(functions)
      /\ new \in Function /\ new.mentions \subseteq 1 .. last
      /\ new.name = name /\ new.symbol = NewSymbol(name) /\ new.body = hasBody
      /\ phase = "globals" /\ main = 0
  BY KnownFacts, NewFunctionTyped DEF Inductive, TypeOK, Reading, NewFunction, PhasesPassed
<1>2. /\ functions' \in Seq(Function) /\ Len(functions') = last
      /\ DOMAIN functions' = 1 .. last
      /\ \A f \in 1 .. Len(functions) : functions'[f] = functions[f]
      /\ functions'[last] = new
  <2>1. functions' = Append(functions, new)
    OBVIOUS
  <2> HIDE DEF new
  <2> QED
    BY <1>1, <2>1, AppendProperties
<1>3. /\ consts' \in [Names -> 0 .. last] /\ consts'[name] = last
      /\ \A n \in Names \ {name} : consts'[n] = consts[n] /\ consts[n] \in 0 .. Len(functions)
  BY KnownFacts
<1> HIDE DEF new
<1>4. TypeOK'
  <2>1. \A f \in DOMAIN functions' : functions'[f].mentions \subseteq DOMAIN functions'
    <3> SUFFICES ASSUME NEW f \in 1 .. last
                 PROVE  functions'[f].mentions \subseteq 1 .. last
      BY <1>2
    <3>1. CASE f = last
      BY <1>1, <1>2, <3>1
    <3>2. CASE f # last
      <4>1. f \in DOMAIN functions
        BY <1>1, <3>2
      <4>2. functions[f].mentions \subseteq 1 .. Len(functions)
        BY <1>1, <4>1 DEF Inductive, TypeOK
      <4> QED
        BY <1>1, <1>2, <4>1, <4>2
    <3> QED
      BY <3>1, <3>2
  <2>2. \A n \in Names : consts'[n] # 0 => functions'[consts'[n]].name = n
    <3> SUFFICES ASSUME NEW n \in Names, consts'[n] # 0
                 PROVE  functions'[consts'[n]].name = n
      OBVIOUS
    <3>1. CASE n = name
      BY <1>1, <1>2, <1>3, <3>1
    <3>2. CASE n # name
      BY <1>1, <1>2, <1>3, <3>2 DEF Inductive, TypeOK
    <3> QED
      BY <3>1, <3>2
  <2>3. last <= MaxGlobals /\ read' \in 0 .. MaxGlobals
    BY <1>1 DEF Inductive, TypeOK, Reading
  <2>4. main' \in 0 .. last /\ phase' # "running"
    BY <1>1
  <2> QED
    BY <1>1, <1>2, <1>3, <2>1, <2>2, <2>3, <2>4 DEF Inductive, TypeOK
<1>5. Len(functions') <= read'
  BY <1>1, <1>2 DEF Inductive, TypeOK, Reading
<1>6. SymbolsTold'
  <2> SUFFICES ASSUME NEW f \in 1 .. last
               PROVE  functions'[f].symbol =
                        <<functions'[f].name,
                          IF \E k \in 1 .. f - 1 : functions'[k].name = functions'[f].name
                          THEN f - 1 ELSE 0>>
    BY <1>2 DEF SymbolsTold, Earlier
  <2>1. \A k \in 1 .. f - 1 : functions'[k] = functions[k]
    BY <1>1, <1>2
  <2>2. CASE f = last
    <3>1. functions'[f].symbol = NewSymbol(name) /\ functions'[f].name = name
      BY <1>1, <1>2, <2>2
    <3>2. (\E k \in 1 .. f - 1 : functions'[k].name = name)
            <=> \E k \in DOMAIN functions : functions[k].name = name
      BY <1>1, <2>1, <2>2
    <3>3. f - 1 = Len(functions)
      BY <1>1, <2>2
    <3> QED
      BY <3>1, <3>2, <3>3 DEF NewSymbol
  <2>3. CASE f # last
    <3>1. f \in DOMAIN functions /\ functions'[f] = functions[f]
      BY <1>1, <1>2, <2>3
    <3> QED
      BY <2>1, <3>1 DEF Inductive, SymbolsTold, Earlier
  <2> QED
    BY <2>2, <2>3
<1>7. ConstsAreLatest'
  <2> SUFFICES ASSUME NEW n \in Names, NEW k \in consts'[n] + 1 .. last
               PROVE  functions'[k].name # n
    BY <1>2 DEF ConstsAreLatest
  <2>1. n # name
    BY <1>1, <1>3
  <2>2. k \in consts[n] + 1 .. last /\ consts[n] \in Nat
    BY <1>3, <2>1
  <2>3. CASE k = last
    BY <1>1, <1>2, <2>1, <2>3
  <2>4. CASE k # last
    <3>1. k \in consts[n] + 1 .. Len(functions) /\ k \in 1 .. Len(functions)
      BY <1>1, <2>2, <2>4
    <3> QED
      BY <1>2, <3>1 DEF Inductive, ConstsAreLatest
  <2> QED
    BY <2>3, <2>4
<1>8. NamesMeanTheLatest'
  <2> SUFFICES ASSUME NEW f \in 1 .. last, NEW m \in functions'[f].mentions
               PROVE  m <= f /\ \A k \in m + 1 .. f : functions'[k].name # functions'[m].name
    BY <1>2 DEF NamesMeanTheLatest
  <2>1. CASE f # last
    <3>1. f \in DOMAIN functions /\ m \in functions[f].mentions
      BY <1>1, <1>2, <2>1
    <3>2. m \in 1 .. Len(functions) /\ m <= f
          /\ \A k \in m + 1 .. f : functions[k].name # functions[m].name
      BY <1>1, <3>1 DEF Inductive, TypeOK, NamesMeanTheLatest
    <3>3. \A k \in m + 1 .. f : functions'[k] = functions[k]
      BY <1>1, <1>2, <3>1, <3>2
    <3> QED
      BY <1>2, <3>2, <3>3
  <2>2. CASE f = last
    <3>1. PICK n \in mentioned : m = Known(name)[n] /\ m # 0
      BY <1>2, <2>2 DEF new, NewFunction
    <3>2. m = consts'[n] /\ n \in Names /\ m \in 1 .. last
      BY <1>1, <1>3, <3>1
    <3>3. functions'[m].name = n
      BY <1>4, <3>1, <3>2 DEF TypeOK
    <3>4. \A k \in m + 1 .. last : functions'[k].name # n
      BY <1>2, <1>7, <3>2 DEF ConstsAreLatest
    <3> QED
      BY <2>2, <3>2, <3>3, <3>4
  <2> QED
    BY <2>1, <2>2
<1>9. PhasesPassed' /\ MainChosen' /\ DefinedBeforeUse'
  BY <1>1 DEF Inductive, PhasesPassed, MainChosen, DefinedBeforeUse, Verified
<1>10. DeclarationsAreBare'
  <2> SUFFICES ASSUME NEW f \in 1 .. last, functions'[f].mentions # {}
               PROVE  functions'[f].body
    BY <1>2 DEF DeclarationsAreBare
  <2>1. CASE f = last
    BY <1>2, <2>1 DEF new, NewFunction
  <2>2. CASE f # last
    <3>1. f \in DOMAIN functions /\ functions'[f] = functions[f]
      BY <1>1, <1>2, <2>2
    <3> QED
      BY <3>1 DEF Inductive, DeclarationsAreBare
  <2> QED
    BY <2>1, <2>2
<1> QED
  BY <1>4, <1>5, <1>6, <1>7, <1>8, <1>9, <1>10 DEF Inductive

LEMMA GlobalStep ==
    ASSUME Inductive,
           \/ \E n \in Names : Declare(n) \/ \E m \in SUBSET Names : Define(n, m)
    PROVE  Inductive'
<1>1. ASSUME NEW n \in Names, Declare(n)
      PROVE  Inductive'
  <2>1. NewFunction(n, FALSE, {}) =
          [name |-> n, symbol |-> NewSymbol(n), body |-> FALSE, mentions |-> {}]
    BY DEF NewFunction
  <2>2. sound' \in BOOLEAN /\ Reading
    BY <1>1 DEF Declare, Inductive, TypeOK
  <2>3. /\ functions' = Append(functions, NewFunction(n, FALSE, {}))
        /\ consts' = Known(n)
        /\ UNCHANGED <<verify_ir, run_main, refused, phase, main, code, ret>>
    BY <1>1, <2>1 DEF Declare
  <2>4. /\ FALSE \in BOOLEAN /\ {} \in SUBSET Names /\ ({} # {} => FALSE)
        /\ \A x \in {} : Known(n)[x] # 0
    OBVIOUS
  <2> QED
    BY <2>2, <2>3, <2>4, AddStep, Zenon
<1>2. ASSUME NEW n \in Names, NEW m \in SUBSET Names, Define(n, m)
      PROVE  Inductive'
  <2>1. sound' \in BOOLEAN
    BY <1>2 DEF Define, Inductive, TypeOK
  <2> QED
    BY <1>2, <2>1, AddStep DEF Define, NewFunction
<1> QED
  BY <1>1, <1>2

-----------------------------------------------------------------------------
(* The other actions leave the functions alone, or what they are. *)

Module == <<functions, consts>>

LEMMA SameModule ==
    ASSUME Inductive, UNCHANGED Module, Len(functions) <= read'
    PROVE  /\ SymbolsTold' /\ DeclarationsAreBare' /\ ConstsAreLatest' /\ NamesMeanTheLatest'
           /\ Len(functions') <= read'
           /\ Mains' = Mains
BY DEF Inductive, Module, SymbolsTold, Earlier, DeclarationsAreBare, ConstsAreLatest,
       NamesMeanTheLatest, Mains, Defines

LEMMA PairFacts ==
    ASSUME NEW p, NEW a, NEW b, p = <<a, b>>
    PROVE  p[1] = a /\ p[2] = b
OBVIOUS

LEMMA SymbolParts ==
    ASSUME Inductive, NEW f \in DOMAIN functions
    PROVE  /\ functions[f].symbol[1] = functions[f].name
           /\ functions[f].symbol[2] = IF Earlier(f, functions[f].name) THEN f - 1 ELSE 0
<1> DEFINE suffix == IF Earlier(f, functions[f].name) THEN f - 1 ELSE 0
<1>1. functions[f].symbol = <<functions[f].name, suffix>>
  BY DEF Inductive, SymbolsTold
<1> HIDE DEF suffix
<1>2. functions[f].symbol[1] = functions[f].name /\ functions[f].symbol[2] = suffix
  BY <1>1
<1> QED
  BY <1>2 DEF suffix

(* Only the first function of a name goes by the name alone, and no two    *)
(* functions go by one symbol.                                             *)
LEMMA SymbolOfFirst ==
    ASSUME Inductive, NEW f \in DOMAIN functions, NEW name, functions[f].symbol = <<name, 0>>
    PROVE  functions[f].name = name /\ ~Earlier(f, name)
<1>1. f \in Nat \ {0}
  BY LenProperties DEF Inductive, TypeOK
<1>2. functions[f].symbol[1] = name /\ functions[f].symbol[2] = 0
  BY PairFacts, Zenon
<1>3. functions[f].name = name /\ (IF Earlier(f, name) THEN f - 1 ELSE 0) = 0
  BY <1>2, SymbolParts
<1> QED
  BY <1>1, <1>3 DEF Earlier

LEMMA SymbolsApart ==
    ASSUME Inductive, NEW f \in DOMAIN functions, NEW g \in DOMAIN functions,
           functions[f].symbol = functions[g].symbol
    PROVE  f = g
<1> DEFINE name == functions[f].name
<1>1. f \in Nat \ {0} /\ g \in Nat \ {0}
  BY LenProperties DEF Inductive, TypeOK
<1>2. /\ functions[g].name = name
      /\ (IF Earlier(f, name) THEN f - 1 ELSE 0) = IF Earlier(g, name) THEN g - 1 ELSE 0
  BY SymbolParts
<1>3. CASE Earlier(f, name) /\ Earlier(g, name)
  BY <1>1, <1>2, <1>3
<1>4. CASE ~Earlier(f, name) /\ ~Earlier(g, name)
  <2>1. ~(f < g) /\ ~(g < f)
    BY <1>1, <1>2, <1>4 DEF Earlier
  <2> QED
    BY <1>1, <2>1
<1>5. CASE Earlier(f, name) /\ ~Earlier(g, name)
  BY <1>1, <1>2, <1>5 DEF Earlier
<1>6. CASE ~Earlier(f, name) /\ Earlier(g, name)
  BY <1>1, <1>2, <1>6 DEF Earlier
<1> QED
  BY <1>3, <1>4, <1>5, <1>6

LEMMA ReadStep ==
    ASSUME Inductive, GlobalExpression \/ GlobalError \/ GlobalAborts \/ EndOfText
    PROVE  Inductive'
<1>1. /\ phase = "globals" /\ main = 0 /\ ~refused /\ code = 0
      /\ Len(functions) \in Nat /\ Len(functions) <= read /\ read \in 0 .. MaxGlobals
  BY LenProperties DEF GlobalExpression, GlobalError, GlobalAborts, EndOfText, Reading,
     Inductive, TypeOK, PhasesPassed
<1>2. /\ UNCHANGED <<verify_ir, run_main, functions, consts, main, ret>>
      /\ read' \in 0 .. MaxGlobals /\ Len(functions) <= read'
      /\ sound' \in BOOLEAN
  <2>1. CASE GlobalExpression
    <3>1. sound' \in {sound, FALSE} /\ sound \in BOOLEAN
      BY <2>1, Zenon DEF GlobalExpression, Inductive, TypeOK
    <3>2. sound' \in BOOLEAN
      BY <3>1, Zenon
    <3> QED
      BY <1>1, <2>1, <3>2 DEF GlobalExpression, Reading
  <2>2. CASE GlobalError \/ GlobalAborts \/ EndOfText
    BY <1>1, <2>2 DEF GlobalError, GlobalAborts, EndOfText, Reading, Inductive, TypeOK
  <2> QED
    BY <2>1, <2>2
<1>3. \/ phase' \in {"globals", "verify", "crashed"} /\ UNCHANGED <<refused, code>>
      \/ phase' = "done" /\ refused' = TRUE /\ code' = 1
  BY <1>1 DEF GlobalExpression, GlobalError, GlobalAborts, EndOfText, Refused
<1>4. TypeOK'
  BY <1>1, <1>2, <1>3 DEF Inductive, TypeOK, Phases
<1>5. PhasesPassed' /\ MainChosen' /\ DefinedBeforeUse'
  BY <1>1, <1>2, <1>3 DEF PhasesPassed, MainChosen, DefinedBeforeUse
<1> QED
  BY <1>2, <1>4, <1>5, SameModule DEF Inductive, Module

LEMMA ModuleStep ==
    ASSUME Inductive,
           VerifyError \/ Verify \/ JitError \/ AddModule \/ LookupError \/ EnterMain
    PROVE  Inductive'
<1> USE DEF Inductive, TypeOK, PhasesPassed
<1>1. UNCHANGED Module /\ Len(functions) <= read' /\ read' = read
  BY DEF VerifyError, Verify, JitError, AddModule, LookupError, EnterMain, Refused, Module
<1>2. UNCHANGED <<verify_ir, run_main, sound>> /\ main = 0
  BY DEF VerifyError, Verify, JitError, AddModule, LookupError, EnterMain, Refused
<1>3. CASE VerifyError \/ Verify \/ JitError \/ AddModule \/ LookupError
  <2>1. TypeOK'
    BY <1>1, <1>2, <1>3
       DEF VerifyError, Verify, JitError, AddModule, LookupError, Refused, Module, Phases
  <2>2. PhasesPassed' /\ MainChosen' /\ DefinedBeforeUse'
    BY <1>1, <1>2, <1>3
       DEF VerifyError, Verify, JitError, AddModule, LookupError, Refused, Verified,
           MainChosen, DefinedBeforeUse
  <2> QED
    BY <1>1, <2>1, <2>2, SameModule
<1>4. CASE EnterMain
  <2>1. main' \in Mains /\ main' \in DOMAIN functions /\ main' \in 1 .. Len(functions)
    BY <1>4, LenProperties DEF EnterMain, Mains, Defines
  <2>2. TypeOK'
    BY <1>1, <1>2, <1>4, <2>1 DEF EnterMain, Module, Phases
  <2>3. PhasesPassed' /\ MainChosen'
    BY <1>1, <1>2, <1>4, <2>1, SameModule DEF EnterMain, MainChosen, Verified
  <2>4. DefinedBeforeUse'
    <3> SUFFICES ASSUME NEW f \in DOMAIN functions, NEW m \in functions[f].mentions,
                        ~functions[m].body
                 PROVE  /\ functions[m].name \in Host
                        /\ \A k \in 1 .. m - 1 : functions[k].name # functions[m].name
      BY <1>1 DEF DefinedBeforeUse, Module
    <3>1. /\ m \in DOMAIN functions /\ DOMAIN functions = 1 .. Len(functions)
          /\ Linked(m)
      BY <1>4, LenProperties DEF EnterMain, Links, DeclarationsAreBare
    <3>2. Defines(functions[m].symbol) = {}
      BY <3>1, SymbolsApart DEF Defines
    <3>3. functions[m].name \in Host /\ ~Earlier(m, functions[m].name)
      BY <3>1, <3>2, SymbolOfFirst DEF Linked
    <3> QED
      BY <3>3 DEF Earlier
  <2> QED
    BY <1>1, <2>2, <2>3, <2>4, SameModule
<1> QED
  BY <1>3, <1>4

(* Code may be dropped, and with it what it mentions. *)
Shrunk ==
    /\ functions' \in Seq(Function) /\ Len(functions') = Len(functions)
    /\ DOMAIN functions' = DOMAIN functions
    /\ \A f \in DOMAIN functions :
          /\ functions'[f].name = functions[f].name
          /\ functions'[f].symbol = functions[f].symbol
          /\ functions'[f].body = functions[f].body
          /\ functions'[f].mentions \subseteq functions[f].mentions

LEMMA OptimizeShrinks ==
    ASSUME Inductive, Optimize
    PROVE  Shrunk
<1>1. functions \in Seq(Function)
  BY DEF Inductive, TypeOK
<1> DEFINE less(f, dropped) == [functions[f] EXCEPT !.mentions = @ \ dropped[f]]
<1>2. PICK dropped \in [DOMAIN functions -> SUBSET DOMAIN functions] :
         functions' = [f \in DOMAIN functions |-> less(f, dropped)]
  BY DEF Optimize
<1>3. DOMAIN functions = 1 .. Len(functions) /\ Len(functions) \in Nat
  BY <1>1, LenProperties
<1>4. ASSUME NEW f \in DOMAIN functions
      PROVE  /\ less(f, dropped) \in Function
             /\ less(f, dropped).name = functions[f].name
             /\ less(f, dropped).symbol = functions[f].symbol
             /\ less(f, dropped).body = functions[f].body
             /\ less(f, dropped).mentions \subseteq functions[f].mentions
  <2>1. functions[f] \in Function
    BY <1>1, ElementOfSeq, <1>3
  <2> QED
    BY <2>1 DEF Function
<1> HIDE DEF less
<1>5. functions' \in [1 .. Len(functions) -> Function]
  BY <1>2, <1>3, <1>4
<1>6. /\ functions' \in Seq(Function) /\ Len(functions') = Len(functions)
      /\ DOMAIN functions' = DOMAIN functions
  BY <1>3, <1>5
<1> QED
  BY <1>2, <1>4, <1>6 DEF Shrunk

LEMMA OptimizeStep ==
    ASSUME Inductive, Optimize
    PROVE  Inductive'
<1> USE OptimizeShrinks DEF Shrunk
<1>1. /\ phase = "optimize" /\ phase' = "jit" /\ main = 0 /\ ~refused /\ code = 0 /\ Verified
      /\ UNCHANGED <<verify_ir, run_main, consts, sound, read, refused, main, code, ret>>
      /\ DOMAIN functions = 1 .. Len(functions)
  BY LenProperties DEF Optimize, Inductive, TypeOK, PhasesPassed
<1>2. TypeOK'
  <2>1. \A f \in DOMAIN functions' : functions'[f].mentions \subseteq DOMAIN functions'
    BY DEF Inductive, TypeOK
  <2>2. \A n \in Names : consts'[n] # 0 => functions'[consts'[n]].name = n
    BY <1>1 DEF Inductive, TypeOK
  <2> QED
    BY <1>1, <2>1, <2>2 DEF Inductive, TypeOK, Phases
<1>3. SymbolsTold'
  <2> SUFFICES ASSUME NEW f \in DOMAIN functions
               PROVE  functions'[f].symbol =
                        <<functions'[f].name,
                          IF Earlier(f, functions[f].name)' THEN f - 1 ELSE 0>>
    BY DEF SymbolsTold, Earlier
  <2>1. \A k \in 1 .. f - 1 : functions'[k].name = functions[k].name
    BY <1>1
  <2>2. (\E k \in 1 .. f - 1 : functions'[k].name = functions'[f].name)
          <=> \E k \in 1 .. f - 1 : functions[k].name = functions[f].name
    BY <2>1
  <2> QED
    BY <2>2 DEF Inductive, SymbolsTold, Earlier
<1>4. DeclarationsAreBare'
  BY DEF Inductive, DeclarationsAreBare
<1>5. ConstsAreLatest'
  <2> SUFFICES ASSUME NEW n \in Names, NEW k \in consts[n] + 1 .. Len(functions)
               PROVE  functions'[k].name # n
    BY <1>1 DEF ConstsAreLatest
  <2>1. k \in DOMAIN functions
    BY <1>1 DEF Inductive, TypeOK
  <2> QED
    BY <2>1 DEF Inductive, ConstsAreLatest
<1>6. NamesMeanTheLatest'
  <2> SUFFICES ASSUME NEW f \in DOMAIN functions, NEW m \in functions'[f].mentions
               PROVE  m <= f /\ \A k \in m + 1 .. f : functions'[k].name # functions'[m].name
    BY DEF NamesMeanTheLatest
  <2>1. m \in functions[f].mentions /\ m \in DOMAIN functions
    BY DEF Inductive, TypeOK
  <2>2. m <= f /\ \A k \in m + 1 .. f : functions[k].name # functions[m].name
    BY <2>1 DEF Inductive, NamesMeanTheLatest
  <2>3. \A k \in m + 1 .. f : k \in DOMAIN functions
    BY <1>1, <2>1
  <2> QED
    BY <2>1, <2>2, <2>3
<1>7. PhasesPassed' /\ MainChosen' /\ DefinedBeforeUse' /\ Len(functions') <= read'
  BY <1>1 DEF Inductive, PhasesPassed, MainChosen, DefinedBeforeUse, Verified
<1> QED
  BY <1>2, <1>3, <1>4, <1>5, <1>6, <1>7 DEF Inductive

LEMMA EndStep ==
    ASSUME Inductive, Undefined \/ MainReturns \/ MainCrashes \/ Done \/ UNCHANGED vars
    PROVE  Inductive'
<1>1. /\ UNCHANGED Module /\ Len(functions) <= read'
      /\ UNCHANGED <<verify_ir, run_main, sound, read, refused, main>>
      /\ phase' \in {phase, "done", "crashed"} /\ (phase' = "running" => phase = "running")
  BY DEF Inductive, Undefined, MainReturns, MainCrashes, Done, vars, Module
<1>2. TypeOK'
  BY <1>1 DEF Inductive, TypeOK, Module, Phases, Undefined, MainReturns, MainCrashes, Done, vars
<1>3. PhasesPassed'
  BY <1>1 DEF Inductive, PhasesPassed, Undefined, MainReturns, MainCrashes, Done, vars, Verified
<1>4. MainChosen'
  BY <1>1, SameModule DEF Inductive, MainChosen, Verified
<1>5. DefinedBeforeUse'
  BY <1>1 DEF Inductive, DefinedBeforeUse, Module
<1> QED
  BY <1>1, <1>2, <1>3, <1>4, <1>5, SameModule DEF Inductive

-----------------------------------------------------------------------------
(* All steps together, and what is invariant. *)

LEMMA InitInductive ==
    ASSUME Init
    PROVE  Inductive
<1>1. /\ functions = << >> /\ << >> \in Seq(Function)
      /\ Len(functions) = 0 /\ DOMAIN functions = {}
  BY DEF Init
<1>2. consts \in [Names -> 0 .. 0] /\ \A n \in Names : consts[n] = 0
  BY DEF Init
<1>3. TypeOK
  <2>1. /\ verify_ir \in BOOLEAN /\ run_main \in BOOLEAN /\ sound \in BOOLEAN /\ refused \in BOOLEAN
    BY DEF Init
  <2>2. functions \in Seq(Function) /\ consts \in [Names -> 0 .. Len(functions)]
    BY <1>1, <1>2
  <2>3. read \in 0 .. MaxGlobals /\ Len(functions) <= MaxGlobals /\ main \in 0 .. Len(functions)
    BY <1>1 DEF Init
  <2>4. phase \in Phases /\ phase # "running" /\ code \in {0, 1} /\ ret \in Values \cup {0}
    BY DEF Init, Phases
  <2> QED
    BY <1>1, <1>2, <2>1, <2>2, <2>3, <2>4 DEF TypeOK
<1> QED
  BY <1>1, <1>2, <1>3 DEF Init, Inductive, SymbolsTold, DeclarationsAreBare, ConstsAreLatest,
        NamesMeanTheLatest, PhasesPassed, MainChosen, DefinedBeforeUse

LEMMA StepInductive ==
    ASSUME Inductive, [Next]_vars
    PROVE  Inductive'
BY GlobalStep, ReadStep, ModuleStep, OptimizeStep, EndStep DEF Next, Compile

(* The inductive invariant holds of every reachable state. *)
THEOREM InductiveInvariant == Spec => []Inductive
  BY InitInductive, StepInductive, PTL DEF Spec

(* compile_source is type correct: the table of names holds functions of   *)
(* the module that have these names.                                       *)
THEOREM TypeCorrect == Spec => []TypeOK
<1>1. Inductive => TypeOK
  BY DEF Inductive
<1> QED
  BY <1>1, InductiveInvariant, PTL

(* main runs only when every global was accepted and the module verified.  *)
THEOREM OnlyAcceptedTextsRun == Spec => []AcceptedRuns
<1>1. Inductive => AcceptedRuns
  BY DEF Inductive, MainChosen, AcceptedRuns, Verified
<1> QED
  BY <1>1, InductiveInvariant, PTL

(* The main that runs is the first one of the text, and has a body.        *)
THEOREM TheFirstMainRuns == Spec => []FirstMainRuns
<1>1. ASSUME Inductive, main # 0
      PROVE  /\ functions[main].body
             /\ \A f \in 1 .. main : functions[f].name = "main" <=> f = main
  <2>1. main \in DOMAIN functions /\ functions[main].body /\ functions[main].symbol = <<"main", 0>>
    BY <1>1 DEF Inductive, MainChosen, Mains, Defines
  <2>2. functions[main].name = "main" /\ ~Earlier(main, "main")
    BY <1>1, <2>1, SymbolOfFirst
  <2>3. main \in Nat
    BY <1>1, <2>1, LenProperties DEF Inductive, TypeOK
  <2> QED
    BY <2>1, <2>2, <2>3 DEF Earlier
<1>2. Inductive => FirstMainRuns
  BY <1>1 DEF FirstMainRuns
<1> QED
  BY <1>2, InductiveInvariant, PTL

(* A name in a body means the last function of that name before or the     *)
(* body's own.                                                             *)
THEOREM NamesAreTheLatest == Spec => []NamesMeanTheLatest
<1>1. Inductive => NamesMeanTheLatest
  BY DEF Inductive
<1> QED
  BY <1>1, InductiveInvariant, PTL

(* When main runs, what the module mentions was defined before, or is the  *)
(* first of its name and the process has it.                               *)
THEOREM MentionsAreDefined == Spec => []DefinedBeforeUse
<1>1. Inductive => DefinedBeforeUse
  BY DEF Inductive
<1> QED
  BY <1>1, InductiveInvariant, PTL

-----------------------------------------------------------------------------
(* compile_source takes the steps Outcome allows and no others. *)

LEMMA InitKeepsPromise ==
    ASSUME Init
    PROVE  Promise!Init
BY DEF Init, Promise!Init

LEMMA StepKeepsPromise ==
    ASSUME Inductive, [Next]_vars
    PROVE  [Promise!Next]_(Promise!vars)
<1> USE DEF Promise!vars
<1>1. CASE (\E n \in Names : Declare(n) \/ \E m \in SUBSET Names : Define(n, m))
             \/ GlobalExpression \/ EndOfText \/ Verify \/ Optimize
  BY <1>1 DEF Declare, Define, GlobalExpression, EndOfText, Verify, Optimize, Reading
<1>2. CASE GlobalError \/ VerifyError \/ JitError \/ LookupError
  <2>1. Promise!Refuse
    BY <1>2 DEF GlobalError, VerifyError, JitError, LookupError, Reading, Refused, Promise!Refuse
  <2> QED
    BY <2>1 DEF Promise!Next
<1>3. CASE AddModule
  <2>1. CASE run_main
    BY <1>3, <2>1 DEF AddModule
  <2>2. CASE ~run_main
    <3>1. Promise!Skip
      BY <1>3, <2>2 DEF AddModule, Promise!Skip, Inductive, PhasesPassed
    <3> QED
      BY <3>1 DEF Promise!Next
  <2> QED
    BY <2>1, <2>2
<1>4. CASE EnterMain
  <2>1. Promise!EnterMain
    BY <1>4 DEF EnterMain, Promise!EnterMain, Inductive, PhasesPassed
  <2> QED
    BY <2>1 DEF Promise!Next
<1>5. CASE MainReturns
  <2>1. PICK v \in Values : ret' = v
    BY <1>5 DEF MainReturns
  <2>2. Promise!MainReturns(v)
    BY <1>5, <2>1 DEF MainReturns, Promise!MainReturns
  <2> QED
    BY <2>2 DEF Promise!Next
<1>6. CASE GlobalAborts \/ Undefined \/ MainCrashes
  <2>1. Promise!Crash
    BY <1>6 DEF GlobalAborts, Undefined, MainCrashes, Reading, Promise!Crash
  <2> QED
    BY <2>1 DEF Promise!Next
<1>7. CASE Done \/ UNCHANGED vars
  BY <1>7 DEF Done, vars
<1> QED
  BY <1>1, <1>2, <1>3, <1>4, <1>5, <1>6, <1>7 DEF Next, Compile

(* compile_source refuses and has run nothing, or returns 0 and has run    *)
(* main exactly when it was asked to; that it ends is left to the runs.    *)
THEOREM PromiseIsKept == Spec => Promise!Init /\ [][Promise!Next]_(Promise!vars)
  BY InitKeepsPromise, StepKeepsPromise, InductiveInvariant, PTL DEF Spec

=============================================================================
