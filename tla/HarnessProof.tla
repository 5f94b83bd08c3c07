---------------------------- MODULE HarnessProof ----------------------------
(***************************************************************************)
(* Proofs about Harness.tla, for every number of texts and whatever they   *)
(* come to: what the exit status of the command line tool stands for, and  *)
(* what the script and the battery count.                                  *)
(***************************************************************************)
EXTENDS Integers, Harness, SequenceTheorems, FiniteSetTheorems, TLAPS

USE HarnessAssumption

-----------------------------------------------------------------------------
(* The invariant, part by part. *)

(* What compile_source has made of the text it was called with. *)
CallFacts ==
    LET text == texts[case] IN
    /\ phase = "args" => tool = "small"
    /\ phase \notin {"args", "idle"} => case \in 1 .. N
    /\ phase = "compiling" => code = 0
    /\ phase = "running" => code = 0 /\ run_main /\ text.end # "refused"
    /\ phase = "done" =>
          /\ code = 1 <=> text.end = "refused"
          /\ code = 0 /\ run_main => text.end = "returns" /\ ret = text.value
    /\ phase = "crashed" => text.end = "crashes"
    /\ tool # "small" => run_main

(* How often the texts before, at and after case have been compiled. *)
CallsMade ==
    \A i \in 1 .. N : calls[i] =
        IF i < case THEN IF tool = "battery" /\ texts[i].end = "refused" THEN 2 ELSE 1
        ELSE IF i = case
        THEN (IF rerun THEN 1 ELSE 0) + (IF phase \in {"args", "idle"} THEN 0 ELSE 1)
        ELSE 0

SmallFacts ==
    tool = "small" =>
        /\ case = 1 /\ failures = 0 /\ ~rerun /\ phase # "idle"
        /\ run_main <=> ~\E i \in DOMAIN args : args[i] = "--no-run"
        /\ phase # "args" => path = "text"

(* failures of the first n texts of the script, and of the battery. *)
RunnerFailures(n) == {i \in 1 .. n : ~Returned(texts[i])}
BatteryFailures(n) == {i \in 1 .. n : texts[i].end = "refused"}

RunnerFacts ==
    tool = "runner" =>
        /\ ~rerun /\ failures = Cardinality(RunnerFailures(case - 1))
        /\ exit # -1 => case = N + 1

(* run_case looks at the ret of a refused text, which is what it was. *)
BatteryFacts ==
    tool = "battery" =>
        /\ failures = Cardinality(BatteryFailures(case - 1))
        /\ rerun => case \in 1 .. N /\ texts[case].end = "refused"
        /\ ~rerun /\ (phase = "compiling" \/ (phase = "done" /\ code = 1)) => ret = -9999
        /\ exit = 0 => case = N + 1 /\ failures = 0

Inductive ==
    /\ TypeOK
    /\ args \in Seq(Flags \cup {"missing", "text"})
    /\ CallFacts /\ CallsMade
    /\ SmallFacts /\ RunnerFacts /\ BatteryFacts
    /\ ZeroIsSuccess

-----------------------------------------------------------------------------
(* Counts of the texts up to n. *)

LEMMA CountFacts ==
    ASSUME NEW n \in Nat, NEW S \in SUBSET (1 .. n)
    PROVE  /\ IsFiniteSet(S) /\ Cardinality(S) \in 0 .. n
           /\ Cardinality(S \cup {n + 1}) = Cardinality(S) + 1
<1>1. IsFiniteSet(1 .. n) /\ Cardinality(1 .. n) = n
  BY FS_Interval
<1>2. IsFiniteSet(S) /\ Cardinality(S) <= n /\ Cardinality(S) \in Nat
  <2> DEFINE I == 1 .. n
  <2>1. IsFiniteSet(I) /\ Cardinality(I) = n /\ S \in SUBSET I
    BY <1>1
  <2> HIDE DEF I
  <2>2. IsFiniteSet(S) /\ Cardinality(S) <= Cardinality(I)
    BY ONLY <2>1, FS_Subset
  <2> QED
    BY <2>1, <2>2, FS_CardinalityType
<1>3. n + 1 \notin S
  OBVIOUS
<1> QED
  BY <1>2, <1>3, FS_AddElement

-----------------------------------------------------------------------------
LEMMA TextFacts ==
    ASSUME Inductive
    PROVE  /\ case \in Nat \ {0} /\ case <= N + 1 /\ (case > N \/ case \in 1 .. N)
           /\ texts \in [1 .. N -> Texts]
           /\ \A i \in 1 .. N :
                /\ texts[i].end \in {"returns", "refused", "crashes", "hangs"}
                /\ texts[i].end = "returns" => texts[i].value \in Values
                /\ texts[i].value \in Int
           /\ ret \in Int
<1>1. case \in 1 .. N + 1 /\ texts \in [1 .. N -> Texts] /\ ret \in Int
  BY DEF Inductive, TypeOK
<1>2. ASSUME NEW t \in Texts
      PROVE  /\ t.end \in {"returns", "refused", "crashes", "hangs"}
             /\ t.end = "returns" => t.value \in Values
             /\ t.value \in Int
  <2>1. CASE t \in [end : {"returns"}, value : Values]
    <3>1. t.end = "returns" /\ t.value \in Values
      BY <2>1
    <3>2. t.value \in Int
      <4>1. \A v \in Values : v \in Int
        BY HarnessAssumption
      <4> QED
        BY ONLY <3>1, <4>1, Zenon
    <3> QED
      BY ONLY <3>1, <3>2
  <2>2. CASE t \in [end : {"refused", "crashes", "hangs"}, value : {0}]
    <3>1. t.end \in {"refused", "crashes", "hangs"} /\ t.value = 0
      BY <2>2
    <3> QED
      BY <3>1
  <2> QED
    BY <2>1, <2>2 DEF Texts
<1> QED
  BY <1>1, <1>2

(* What the shell sees is 0 after one kind of text only. *)
LEMMA StatusFacts ==
    ASSUME Inductive, phase \in {"done", "crashed"}
    PROVE  /\ Status \in 0 .. 255
           /\ Status = 0 => /\ texts[case].end # "refused" /\ phase = "done"
                            /\ run_main => Returned(texts[case])
           /\ Returned(texts[case]) /\ run_main => Status = 0
<1>1. /\ phase = "done" =>
            /\ code = 1 <=> texts[case].end = "refused"
            /\ code = 0 /\ run_main => texts[case].end = "returns" /\ ret = texts[case].value
      /\ phase = "crashed" => texts[case].end = "crashes"
      /\ code \in {0, 1} /\ ret \in Int
  BY TextFacts DEF Inductive, CallFacts, TypeOK
<1>2. ret % 256 \in 0 .. 255
  BY <1>1
<1>3. CASE phase = "crashed"
  BY <1>1, <1>3 DEF Status, Returned
<1>4. CASE phase = "done" /\ code = 1
  BY <1>1, <1>4 DEF Status, Returned
<1>5. CASE phase = "done" /\ code = 0
  BY <1>1, <1>2, <1>5 DEF Status, Returned
<1> QED
  BY <1>1, <1>3, <1>4, <1>5

LEMMA InitInductive ==
    ASSUME Init
    PROVE  Inductive
<1>1. args = << >> /\ args \in Seq(Flags \cup {"missing", "text"}) /\ Len(args) = 0 /\ DOMAIN args = {}
  BY EmptySeq, LenProperties DEF Init
<1>2. TypeOK
  <2>1. /\ calls \in [1 .. N -> 0 .. 2] /\ case \in 1 .. N + 1 /\ failures \in 0 .. N
        /\ Len(args) <= MaxArgs /\ exit \in -1 .. 255
    BY <1>1 DEF Init
  <2>2. /\ path \in {"none", "missing", "text"}
        /\ phase \in {"args", "idle", "compiling", "running", "done", "crashed"}
    BY DEF Init
  <2>3. run_main \in BOOLEAN /\ rerun \in BOOLEAN
    <3>1. run_main = TRUE /\ rerun = FALSE
      BY DEF Init
    <3> QED
      BY ONLY <3>1
  <2>4. code \in {0, 1} /\ ret \in Values \cup {0, -9999}
    BY DEF Init
  <2>5. tool \in {"small", "runner", "battery"} /\ texts \in [1 .. N -> Texts]
    BY DEF Init
  <2> QED
    BY <2>1, <2>2, <2>3, <2>4, <2>5 DEF TypeOK
<1>3. RunnerFailures(case - 1) = {} /\ BatteryFailures(case - 1) = {}
  BY DEF Init, RunnerFailures, BatteryFailures
<1>4. RunnerFacts /\ BatteryFacts
  <2>1. Cardinality(RunnerFailures(case - 1)) = 0 /\ Cardinality(BatteryFailures(case - 1)) = 0
    BY <1>3, FS_EmptySet
  <2>2. ~rerun /\ failures = 0 /\ exit = -1 /\ phase \in {"args", "idle"}
    BY DEF Init
  <2> QED
    BY <2>1, <2>2 DEF RunnerFacts, BatteryFacts
<1>5. CallFacts /\ CallsMade
  BY DEF Init, CallFacts, CallsMade
<1>6. SmallFacts /\ ZeroIsSuccess
  BY <1>1, <1>2 DEF Init, SmallFacts, ZeroIsSuccess
<1> QED
  BY <1>1, <1>2, <1>4, <1>5, <1>6 DEF Inductive

-----------------------------------------------------------------------------
(* The call of compile_source. *)

LEMMA CompileSourceStep ==
    ASSUME Inductive, CompileSource
    PROVE  Inductive'
<1>1. /\ UNCHANGED <<tool, texts, case, path, args, rerun, failures, calls, exit>>
      /\ exit = -1 /\ phase \in {"compiling", "running"} /\ case \in 1 .. N
  BY DEF CompileSource, Live, Inductive, CallFacts
<1>2. /\ run_main' = run_main /\ run_main \in BOOLEAN
      /\ phase' \in {"running", "done", "crashed"}
      /\ code' \in {0, 1}
      /\ ret' = ret \/ (texts[case].end = "returns" /\ ret' = texts[case].value)
  BY DEF CompileSource, Refuse, Accept, MainReturns, Crash, O!Refuse, O!Skip, O!EnterMain,
         O!MainReturns, O!Crash, Inductive, TypeOK, CallFacts
<1>3. TypeOK'
  <2>1. ret' \in Values \cup {0, -9999}
    BY <1>1, <1>2, TextFacts DEF Inductive, TypeOK
  <2> QED
    BY <1>1, <1>2, <2>1 DEF Inductive, TypeOK
<1>4. CallFacts'
  <2>1. CASE Refuse
    BY <1>1, <2>1 DEF Refuse, O!Refuse, Inductive, CallFacts
  <2>2. CASE Accept
    BY <1>1, <2>2 DEF Accept, O!Skip, O!EnterMain, Inductive, CallFacts
  <2>3. CASE MainReturns
    BY <1>1, <2>3 DEF MainReturns, O!MainReturns, Inductive, CallFacts
  <2>4. CASE Crash
    BY <1>1, <2>4 DEF Crash, O!Crash, Inductive, CallFacts
  <2> QED
    BY <2>1, <2>2, <2>3, <2>4 DEF CompileSource
<1>5. CallsMade'
  BY <1>1, <1>2 DEF Inductive, CallsMade
<1>6. SmallFacts' /\ RunnerFacts' /\ ZeroIsSuccess'
  BY <1>1, <1>2, <1>3 DEF Inductive, SmallFacts, RunnerFacts, RunnerFailures, ZeroIsSuccess
<1>7. BatteryFacts'
  <2>1. ASSUME tool = "battery", ~rerun, phase' = "done", code' = 1
        PROVE  ret' = -9999
    BY <1>1, <2>1 DEF CompileSource, Refuse, Accept, MainReturns, Crash, O!Refuse, O!Skip,
         O!EnterMain, O!MainReturns, O!Crash, Inductive, CallFacts, BatteryFacts
  <2> QED
    BY <1>1, <1>2, <2>1 DEF Inductive, BatteryFacts, BatteryFailures
<1> QED
  BY <1>1, <1>3, <1>4, <1>5, <1>6, <1>7 DEF Inductive

(* A call begins: calls counts it. *)
LEMMA StartFacts ==
    ASSUME Inductive, phase \in {"args", "idle"}, case \in 1 .. N,
           phase' = "compiling", run_main' \in BOOLEAN, code' = 0, ret' \in Values \cup {0, -9999},
           calls' = [calls EXCEPT ![case] = IF @ < 3 THEN @ + 1 ELSE @],
           tool # "small" => run_main',
           UNCHANGED <<tool, texts, case, path, args, rerun, failures, exit>>
    PROVE  /\ TypeOK' /\ CallFacts' /\ CallsMade'
           /\ args' \in Seq(Flags \cup {"missing", "text"})
<1>1. calls[case] = (IF rerun THEN 1 ELSE 0) /\ calls \in [1 .. N -> 0 .. 2]
  BY DEF Inductive, CallsMade, TypeOK
<1>2. calls' = [calls EXCEPT ![case] = (IF rerun THEN 1 ELSE 0) + 1]
  BY <1>1
<1>3. TypeOK'
  BY <1>1, <1>2 DEF Inductive, TypeOK
<1>4. CallFacts'
  BY DEF CallFacts
<1>5. CallsMade'
  BY <1>1, <1>2 DEF Inductive, CallsMade
<1> QED
  BY <1>3, <1>4, <1>5 DEF Inductive

-----------------------------------------------------------------------------
(* The command line tool. *)

LEMMA ArgumentStep ==
    ASSUME Inductive, NEW a \in Flags \cup {"missing", "text"}, Argument(a)
    PROVE  Inductive'
<1>1. /\ UNCHANGED <<tool, texts, case, phase, code, ret, rerun, failures, calls>>
      /\ exit = -1 /\ phase = "args" /\ tool = "small" /\ case = 1 /\ Len(args) < MaxArgs
      /\ args' = Append(args, a)
      /\ run_main' = (run_main /\ a # "--no-run")
      /\ path' = IF a \in Flags THEN path ELSE a
      /\ exit' = CASE a = "--help" -> 0 [] a = "--unknown" -> 1 [] OTHER -> -1
  BY DEF Argument, Live, Inductive, CallFacts, SmallFacts
<1> DEFINE n == Len(args)
<1>2. /\ args \in Seq(Flags \cup {"missing", "text"}) /\ n \in Nat /\ DOMAIN args = 1 .. n
      /\ args' \in Seq(Flags \cup {"missing", "text"}) /\ Len(args') = n + 1 /\ DOMAIN args' = 1 .. n + 1
      /\ \A i \in 1 .. n : args'[i] = args[i]
      /\ args'[n + 1] = a
  BY <1>1, AppendProperties, LenProperties DEF Inductive
<1> HIDE DEF n
<1>3. exit' \in {-1, 0, 1} /\ (exit' = 0 => a = "--help") /\ path' \in {"none", "missing", "text"}
  BY <1>1 DEF Inductive, TypeOK
<1>4. TypeOK'
  BY <1>1, <1>2, <1>3 DEF Inductive, TypeOK, n
<1>5. CallFacts' /\ CallsMade' /\ RunnerFacts' /\ BatteryFacts'
  BY <1>1 DEF Inductive, CallFacts, CallsMade, RunnerFacts, BatteryFacts
<1>6. SmallFacts'
  <2>1. (\E i \in 1 .. n + 1 : args'[i] = "--no-run") <=>
           (\E i \in 1 .. n : args[i] = "--no-run") \/ a = "--no-run"
    BY <1>2
  <2>2. run_main <=> ~\E i \in 1 .. n : args[i] = "--no-run"
    BY <1>1, <1>2 DEF Inductive, SmallFacts
  <2>3. run_main' <=> ~\E i \in 1 .. n + 1 : args'[i] = "--no-run"
    <3> DEFINE P == \E i \in 1 .. n : args[i] = "--no-run"
    <3> DEFINE Q == \E i \in 1 .. n + 1 : args'[i] = "--no-run"
    <3>1. (Q <=> P \/ a = "--no-run") /\ (run_main <=> ~P)
      BY <2>1, <2>2
    <3> HIDE DEF P, Q
    <3>2. run_main' = (run_main /\ a # "--no-run")
      BY <1>1
    <3>3. run_main' <=> ~Q
      BY ONLY <3>1, <3>2
    <3> QED
      BY <3>3 DEF Q
  <2>4. run_main' <=> ~\E i \in DOMAIN args' : args'[i] = "--no-run"
    BY <1>2, <2>3
  <2>5. case = 1 /\ failures = 0 /\ ~rerun
    BY <1>1 DEF Inductive, SmallFacts
  <2> QED
    BY <1>1, <2>4, <2>5 DEF SmallFacts
<1>7. ZeroIsSuccess'
  BY <1>2, <1>3, <1>4 DEF ZeroIsSuccess
<1> QED
  BY <1>2, <1>4, <1>5, <1>6, <1>7 DEF Inductive

LEMMA NoInputStep ==
    ASSUME Inductive, NoInput
    PROVE  Inductive'
<1>1. /\ UNCHANGED <<tool, texts, case, path, args, phase, run_main, code, ret, rerun, failures, calls>>
      /\ exit' = 1 /\ tool = "small"
  BY DEF NoInput, call, Inductive, CallFacts
<1>2. TypeOK' /\ CallFacts' /\ CallsMade'
  BY <1>1 DEF Inductive, TypeOK, CallFacts, CallsMade
<1> QED
  BY <1>1, <1>2 DEF Inductive, SmallFacts, RunnerFacts, BatteryFacts, ZeroIsSuccess

LEMMA RunFileStep ==
    ASSUME Inductive, RunFile
    PROVE  Inductive'
<1>1. /\ UNCHANGED <<tool, texts, case, path, args, rerun, failures, exit>>
      /\ exit = -1 /\ phase = "args" /\ path = "text"
      /\ phase' = "compiling" /\ run_main' = run_main /\ code' = 0 /\ ret' = 0
      /\ calls' = [calls EXCEPT ![case] = IF @ < 3 THEN @ + 1 ELSE @]
      /\ tool = "small" /\ case = 1 /\ case \in 1 .. N /\ run_main \in BOOLEAN
  BY DEF RunFile, Live, Start, O!Call, Inductive, CallFacts, SmallFacts, TypeOK
<1>2. /\ TypeOK' /\ CallFacts' /\ CallsMade' /\ args' \in Seq(Flags \cup {"missing", "text"})
  BY <1>1, StartFacts
<1>3. SmallFacts' /\ RunnerFacts' /\ BatteryFacts' /\ ZeroIsSuccess'
  BY <1>1, <1>2 DEF Inductive, SmallFacts, RunnerFacts, BatteryFacts, ZeroIsSuccess
<1> QED
  BY <1>2, <1>3 DEF Inductive

LEMMA SmallExitsStep ==
    ASSUME Inductive, SmallExits
    PROVE  Inductive'
<1>1. /\ UNCHANGED <<tool, texts, case, path, args, phase, run_main, code, ret, rerun, failures, calls>>
      /\ exit' = Status /\ tool = "small" /\ phase \in {"done", "crashed"} /\ case = 1
  BY DEF SmallExits, Ended, call, Inductive, SmallFacts
<1>2. /\ Status \in 0 .. 255
      /\ Status = 0 => /\ texts[1].end # "refused" /\ phase = "done"
                       /\ run_main => Returned(texts[1])
  BY <1>1, StatusFacts
<1>3. TypeOK' /\ CallFacts' /\ CallsMade'
  BY <1>1, <1>2 DEF Inductive, TypeOK, CallFacts, CallsMade
<1>4. SmallFacts' /\ RunnerFacts' /\ BatteryFacts'
  BY <1>1 DEF Inductive, SmallFacts, RunnerFacts, BatteryFacts
<1>5. exit' = 0 => path = "text" /\ (run_main \/ \E i \in DOMAIN args : args[i] = "--no-run")
  BY <1>1 DEF Inductive, SmallFacts
<1>6. ZeroIsSuccess'
  BY <1>1, <1>2, <1>3, <1>5 DEF ZeroIsSuccess, Returned
<1> QED
  BY <1>1, <1>3, <1>4, <1>6 DEF Inductive


-----------------------------------------------------------------------------
(* The script. *)

LEMMA RunExampleStep ==
    ASSUME Inductive, RunExample
    PROVE  Inductive'
<1>1. /\ UNCHANGED <<tool, texts, case, path, args, rerun, failures, exit>>
      /\ phase = "idle" /\ tool = "runner" /\ case <= N
      /\ phase' = "compiling" /\ run_main' = TRUE /\ code' = 0 /\ ret' = 0
      /\ calls' = [calls EXCEPT ![case] = IF @ < 3 THEN @ + 1 ELSE @]
  BY DEF RunExample, Start, O!Call
<1>2. case \in 1 .. N /\ run_main' \in BOOLEAN /\ run_main'
  BY <1>1, TextFacts
<1>3. /\ TypeOK' /\ CallFacts' /\ CallsMade' /\ args' \in Seq(Flags \cup {"missing", "text"})
  BY <1>1, <1>2, StartFacts
<1>4. SmallFacts' /\ RunnerFacts' /\ BatteryFacts' /\ ZeroIsSuccess'
  BY <1>1, <1>3 DEF Inductive, SmallFacts, RunnerFacts, RunnerFailures, BatteryFacts, ZeroIsSuccess
<1> QED
  BY <1>3, <1>4 DEF Inductive

(* The next text begins: the one before it has been counted. *)
LEMMA AdvanceFacts ==
    ASSUME Inductive, tool # "small", phase = "done" \/ phase = "crashed", exit = -1,
           case' = case + 1, phase' = "idle", rerun' \in BOOLEAN, ~rerun',
           rerun => texts[case].end = "refused",
           tool = "battery" /\ texts[case].end = "refused" => rerun,
           failures' \in 0 .. case,
           UNCHANGED <<tool, texts, path, args, run_main, code, ret, calls, exit>>
    PROVE  /\ TypeOK' /\ CallFacts' /\ CallsMade' /\ SmallFacts' /\ ZeroIsSuccess'
           /\ args' \in Seq(Flags \cup {"missing", "text"})
<1>1. case \in 1 .. N /\ case' \in 1 .. N + 1 /\ failures' \in 0 .. N
  BY DEF Inductive, CallFacts
<1>2. TypeOK'
  BY <1>1 DEF Inductive, TypeOK
<1>3. CallFacts'
  BY DEF Inductive, CallFacts
<1>4. rerun => tool = "battery"
  BY DEF Inductive, RunnerFacts, TypeOK
<1>5. CallsMade'
  <2>1. calls[case] = (IF rerun THEN 1 ELSE 0) + 1
    BY <1>1 DEF Inductive, CallsMade
  <2>2. calls[case] = IF tool = "battery" /\ texts[case].end = "refused" THEN 2 ELSE 1
    BY <1>4, <2>1
  <2> QED
    BY <1>1, <2>2 DEF Inductive, CallsMade
<1>6. SmallFacts' /\ ZeroIsSuccess'
  BY <1>2 DEF SmallFacts, ZeroIsSuccess
<1> QED
  BY <1>2, <1>3, <1>5, <1>6 DEF Inductive

LEMMA NextExampleStep ==
    ASSUME Inductive, NextExample
    PROVE  Inductive'
<1>1. /\ UNCHANGED <<tool, texts, path, args, run_main, code, ret, rerun, calls, exit>>
      /\ exit = -1 /\ (phase = "done" \/ phase = "crashed") /\ tool = "runner"
      /\ case' = case + 1 /\ phase' = "idle"
      /\ failures' = failures + (IF Status = 0 THEN 0 ELSE 1)
  BY DEF NextExample, Ended, Live
<1>2. case \in 1 .. N /\ run_main /\ ~rerun /\ failures = Cardinality(RunnerFailures(case - 1))
  BY <1>1 DEF Inductive, CallFacts, RunnerFacts
<1> DEFINE n == case - 1
<1>3. n \in Nat /\ n + 1 = case /\ case' - 1 = case /\ RunnerFailures(n) \in SUBSET (1 .. n)
  BY <1>1, <1>2 DEF RunnerFailures
<1> HIDE DEF n
<1>4. /\ Cardinality(RunnerFailures(n)) \in 0 .. n
      /\ Cardinality(RunnerFailures(n) \cup {n + 1}) = Cardinality(RunnerFailures(n)) + 1
  BY <1>3, CountFacts
<1>5. Status = 0 <=> Returned(texts[case])
  BY <1>1, <1>2, StatusFacts
<1>6. RunnerFailures(case) =
        IF Returned(texts[case]) THEN RunnerFailures(n) ELSE RunnerFailures(n) \cup {n + 1}
  BY <1>2, <1>3 DEF RunnerFailures
<1>7. failures = Cardinality(RunnerFailures(n))
  BY <1>2 DEF n
<1>8. failures' = Cardinality(RunnerFailures(case)) /\ failures' \in 0 .. case
  BY <1>1, <1>2, <1>3, <1>4, <1>5, <1>6, <1>7
<1>9. /\ TypeOK' /\ CallFacts' /\ CallsMade' /\ SmallFacts' /\ ZeroIsSuccess'
      /\ args' \in Seq(Flags \cup {"missing", "text"})
  <2>1. rerun' \in BOOLEAN /\ ~rerun'
    BY <1>1, <1>2 DEF Inductive, TypeOK
  <2>2. UNCHANGED <<tool, texts, path, args, run_main, code, ret, calls, exit>>
    BY <1>1
  <2> QED
    BY <1>1, <1>2, <1>8, <2>1, <2>2, AdvanceFacts
<1>10. RunnerFacts' /\ BatteryFacts'
  <2>1. RunnerFailures(case - 1)' = RunnerFailures(case)
    BY <1>1, <1>3 DEF RunnerFailures
  <2>2. failures' = Cardinality(RunnerFailures(case - 1))'
    BY <1>8, <2>1
  <2>3. tool' = "runner" /\ ~rerun' /\ exit' = -1
    BY <1>1, <1>2
  <2> QED
    BY <2>2, <2>3 DEF RunnerFacts, BatteryFacts
<1> QED
  BY <1>9, <1>10 DEF Inductive

-----------------------------------------------------------------------------
(* The battery. *)

LEMMA RunCaseStep ==
    ASSUME Inductive, RunCase
    PROVE  Inductive'
<1> DEFINE value == IF rerun THEN ret ELSE -9999
<1>1. /\ UNCHANGED <<tool, texts, case, path, args, rerun, failures, exit>>
      /\ phase = "idle" /\ tool = "battery" /\ case <= N
      /\ phase' = "compiling" /\ run_main' = TRUE /\ code' = 0 /\ ret' = value
      /\ calls' = [calls EXCEPT ![case] = IF @ < 3 THEN @ + 1 ELSE @]
  BY DEF RunCase, Start, O!Call
<1>2. /\ value \in Values \cup {0, -9999} /\ (~rerun => value = -9999)
      /\ case \in 1 .. N /\ run_main' \in BOOLEAN /\ run_main'
  BY <1>1, TextFacts DEF Inductive, TypeOK
<1> HIDE DEF value
<1>3. /\ TypeOK' /\ CallFacts' /\ CallsMade' /\ args' \in Seq(Flags \cup {"missing", "text"})
  BY <1>1, <1>2, StartFacts
<1>4. BatteryFacts'
  BY <1>1, <1>2, <1>3 DEF Inductive, BatteryFacts, BatteryFailures
<1>5. SmallFacts' /\ RunnerFacts' /\ ZeroIsSuccess'
  BY <1>1, <1>3 DEF SmallFacts, RunnerFacts, ZeroIsSuccess
<1> QED
  BY <1>3, <1>4, <1>5 DEF Inductive

(* run_case asks for a rerun after exactly the texts that were refused. *)
LEMMA OkFacts ==
    ASSUME Inductive, tool = "battery", phase = "done"
    PROVE  rerun \/ Ok <=> (texts[case].end = "refused" => rerun)
<1>1. code = 1 <=> texts[case].end = "refused"
  BY DEF Inductive, CallFacts
<1>2. code = 1 /\ ~rerun => ret = -9999
  BY DEF Inductive, BatteryFacts
<1>3. code \in {0, 1} /\ Expected # -9999
  BY DEF Inductive, TypeOK
<1> QED
  BY <1>1, <1>2, <1>3 DEF Ok

LEMMA FailedCaseStep ==
    ASSUME Inductive, FailedCase
    PROVE  Inductive'
<1>1. /\ UNCHANGED <<tool, texts, case, path, args, run_main, code, ret, failures, calls, exit>>
      /\ exit = -1 /\ phase = "done" /\ tool = "battery" /\ ~rerun /\ ~Ok
      /\ rerun' = TRUE /\ phase' = "idle"
  BY DEF FailedCase, Ended, Live
<1>2. case \in 1 .. N /\ texts[case].end = "refused"
  BY <1>1, OkFacts DEF Inductive, CallFacts
<1>3. TypeOK' /\ CallFacts'
  BY <1>1 DEF Inductive, TypeOK, CallFacts
<1>4. CallsMade'
  BY <1>1 DEF Inductive, CallsMade
<1>5. BatteryFacts'
  BY <1>1, <1>2 DEF Inductive, BatteryFacts, BatteryFailures
<1>6. SmallFacts' /\ RunnerFacts' /\ ZeroIsSuccess'
  BY <1>1, <1>3 DEF SmallFacts, RunnerFacts, ZeroIsSuccess
<1> QED
  BY <1>1, <1>3, <1>4, <1>5, <1>6 DEF Inductive

LEMMA NextCaseStep ==
    ASSUME Inductive, NextCase
    PROVE  Inductive'
<1>1. /\ UNCHANGED <<tool, texts, path, args, run_main, code, ret, calls, exit>>
      /\ exit = -1 /\ phase = "done" /\ tool = "battery" /\ (rerun \/ Ok)
      /\ case' = case + 1 /\ phase' = "idle" /\ rerun' = FALSE
      /\ failures' = failures + (IF rerun THEN 1 ELSE 0)
  BY DEF NextCase, Ended, Live
<1>2. case \in 1 .. N /\ failures = Cardinality(BatteryFailures(case - 1))
  BY <1>1 DEF Inductive, CallFacts, BatteryFacts
<1> DEFINE n == case - 1
<1>3. n \in Nat /\ n + 1 = case /\ case' - 1 = case /\ BatteryFailures(n) \in SUBSET (1 .. n)
  BY <1>1, <1>2 DEF BatteryFailures
<1> HIDE DEF n
<1>4. /\ Cardinality(BatteryFailures(n)) \in 0 .. n
      /\ Cardinality(BatteryFailures(n) \cup {n + 1}) = Cardinality(BatteryFailures(n)) + 1
  BY <1>3, CountFacts
<1>5. /\ rerun => texts[case].end = "refused"
      /\ texts[case].end = "refused" => rerun
  BY <1>1, OkFacts DEF Inductive, BatteryFacts
<1>6. BatteryFailures(case) =
        IF texts[case].end = "refused" THEN BatteryFailures(n) \cup {n + 1} ELSE BatteryFailures(n)
  BY <1>2, <1>3 DEF BatteryFailures
<1>7. failures = Cardinality(BatteryFailures(n))
  BY <1>2 DEF n
<1>8. failures' = Cardinality(BatteryFailures(case)) /\ failures' \in 0 .. case
  BY <1>1, <1>2, <1>3, <1>4, <1>5, <1>6, <1>7
<1>9. /\ TypeOK' /\ CallFacts' /\ CallsMade' /\ SmallFacts' /\ ZeroIsSuccess'
      /\ args' \in Seq(Flags \cup {"missing", "text"})
  <2>1. rerun' \in BOOLEAN /\ ~rerun'
    BY ONLY <1>1
  <2> QED
    BY <1>1, <1>5, <1>8, <2>1, AdvanceFacts
<1>10. RunnerFacts' /\ BatteryFacts'
  <2>1. BatteryFailures(case - 1)' = BatteryFailures(case)
    BY <1>1, <1>3 DEF BatteryFailures
  <2>2. failures' = Cardinality(BatteryFailures(case - 1))'
    BY <1>8, <2>1
  <2>3. tool' = "battery" /\ ~rerun' /\ phase' = "idle" /\ exit' = -1
    BY <1>1
  <2> QED
    BY <2>2, <2>3 DEF RunnerFacts, BatteryFacts
<1> QED
  BY <1>9, <1>10 DEF Inductive

LEMMA BatteryCrashesStep ==
    ASSUME Inductive, BatteryCrashes
    PROVE  Inductive'
<1>1. /\ UNCHANGED <<tool, texts, case, path, args, phase, run_main, code, ret, rerun, failures, calls>>
      /\ exit' = 134 /\ tool = "battery"
  BY DEF BatteryCrashes, call
<1>2. TypeOK' /\ CallFacts' /\ CallsMade'
  BY <1>1 DEF Inductive, TypeOK, CallFacts, CallsMade
<1>3. BatteryFacts'
  BY <1>1 DEF Inductive, BatteryFacts, BatteryFailures
<1> QED
  BY <1>1, <1>2, <1>3 DEF Inductive, SmallFacts, RunnerFacts, ZeroIsSuccess

(* Nothing is left to be looked at. *)
LEMMA ReportStep ==
    ASSUME Inductive, Report
    PROVE  Inductive'
<1>1. /\ UNCHANGED <<tool, texts, case, path, args, phase, run_main, code, ret, rerun, failures, calls>>
      /\ exit' \in {0, 1} /\ case > N
  BY DEF Report, call
<1>2. tool # "small" /\ case = N + 1
  BY <1>1, TextFacts DEF Inductive, SmallFacts
<1>3. TypeOK' /\ CallFacts' /\ CallsMade'
  BY <1>1 DEF Inductive, TypeOK, CallFacts, CallsMade
<1>4. exit' = 0 => failures' = 0
  BY <1>1 DEF Report
<1>5. BatteryFacts' /\ RunnerFacts'
  BY <1>1, <1>2, <1>4
     DEF Inductive, BatteryFacts, BatteryFailures, RunnerFacts, RunnerFailures
<1> QED
  BY <1>1, <1>2, <1>3, <1>5 DEF Inductive, SmallFacts, ZeroIsSuccess

-----------------------------------------------------------------------------
LEMMA StutterStep ==
    ASSUME Inductive, UNCHANGED vars
    PROVE  Inductive'
BY DEF Inductive, vars, TypeOK, CallFacts, CallsMade, SmallFacts, RunnerFacts, RunnerFailures,
       BatteryFacts, BatteryFailures, ZeroIsSuccess

LEMMA StepInductive ==
    ASSUME Inductive, [Next]_vars
    PROVE  Inductive'
<1>1. CASE CompileSource
  BY <1>1, CompileSourceStep
<1>2. CASE \E a \in Flags \cup {"missing", "text"} : Argument(a)
  BY <1>2, ArgumentStep
<1>3. CASE NoInput \/ RunFile \/ SmallExits
  BY <1>3, NoInputStep, RunFileStep, SmallExitsStep
<1>4. CASE RunExample \/ NextExample
  BY <1>4, RunExampleStep, NextExampleStep
<1>5. CASE RunCase \/ FailedCase \/ NextCase \/ BatteryCrashes
  BY <1>5, RunCaseStep, FailedCaseStep, NextCaseStep, BatteryCrashesStep
<1>6. CASE Report
  BY <1>6, ReportStep
<1>7. CASE Done \/ MainHangs \/ UNCHANGED vars
  BY <1>7, StutterStep DEF Done, MainHangs
<1> QED
  BY <1>1, <1>2, <1>3, <1>4, <1>5, <1>6, <1>7 DEF Next, Work

(***************************************************************************)
(* Types are kept, a text that has been run is one of its outcomes, and    *)
(* every text is compiled as often as the caller promises.                 *)
(***************************************************************************)
THEOREM InductiveInvariant == Spec => []Inductive
<1>1. Init => Inductive
  BY InitInductive
<1>2. Inductive /\ [Next]_vars => Inductive'
  BY StepInductive
<1> QED
  BY <1>1, <1>2, PTL DEF Spec

(***************************************************************************)
(* The exit status 0 of small stands for help, or for an accepted text     *)
(* whose main, unless --no-run was given, returned a multiple of 256, for  *)
(* command lines of every length.                                          *)
(***************************************************************************)
THEOREM ZeroMeansSuccess == Spec => []ZeroIsSuccess
<1>1. Inductive => ZeroIsSuccess
  BY DEF Inductive
<1> QED
  BY <1>1, InductiveInvariant, PTL

(***************************************************************************)
(* run_examples.sh looks at every file once and counts exactly those that  *)
(* were not accepted, crashed or did not return a multiple of 256, however *)
(* many there are.                                                         *)
(***************************************************************************)
THEOREM RunnerCountsFailures == Spec => []RunnerCounts
<1>1. ASSUME Inductive
      PROVE  RunnerCounts
  <2>1. SUFFICES ASSUME tool = "runner"
                 PROVE  /\ failures = Cardinality({i \in 1 .. case - 1 : ~Returned(texts[i])})
                        /\ exit # -1 => case = N + 1 /\ \A i \in 1 .. N : calls[i] = 1
    BY DEF RunnerCounts
  <2>2. failures = Cardinality({i \in 1 .. case - 1 : ~Returned(texts[i])})
    BY <1>1, <2>1 DEF Inductive, RunnerFacts, RunnerFailures
  <2>3. ASSUME exit # -1
        PROVE  case = N + 1 /\ \A i \in 1 .. N : calls[i] = 1
    BY <1>1, <2>1, <2>3 DEF Inductive, RunnerFacts, CallsMade
  <2> QED
    BY <2>2, <2>3
<1> QED
  BY <1>1, InductiveInvariant, PTL

RunAgain == {i \in 1 .. case - 1 : calls[i] = 2}

(***************************************************************************)
(* However many cases there are, the battery fails every refused text and  *)
(* none that returns what was expected, counts the cases it ran again, and *)
(* exits with 0 only if it has looked at all and none was refused.         *)
(***************************************************************************)
THEOREM BatteryVerdictsStand == Spec => []BatteryCounts
<1>1. ASSUME Inductive, tool = "battery"
      PROVE  BatteryCounts
  <2>1. \A i \in 1 .. case - 1 :
           calls[i] = IF texts[i].end = "refused" THEN 2 ELSE 1
    BY <1>1, TextFacts DEF Inductive, CallsMade
  <2>2. RunAgain = BatteryFailures(case - 1)
    BY <2>1 DEF RunAgain, BatteryFailures
  <2>3. failures = Cardinality(RunAgain) /\ (exit = 0 => case = N + 1 /\ failures = 0)
    BY <1>1, <2>2 DEF Inductive, BatteryFacts
  <2>4. \A i \in 1 .. case - 1 :
           /\ calls[i] \in {1, 2}
           /\ texts[i].end = "refused" => calls[i] = 2
           /\ AsExpected(texts[i]) => calls[i] = 1
    BY <2>1 DEF AsExpected
  <2>5. ASSUME exit = 0
        PROVE  case = N + 1 /\ \A i \in 1 .. N : texts[i].end # "refused"
    <3>1. case = N + 1 /\ Cardinality(RunAgain) = 0
      BY <2>3, <2>5
    <3>2. RunAgain \in SUBSET (1 .. N)
      <4>1. N \in Nat
        BY HarnessAssumption
      <4> QED
        BY <3>1, <4>1 DEF RunAgain
    <3>3. IsFiniteSet(RunAgain)
      <4> DEFINE all == 1 .. N
      <4>1. IsFiniteSet(all) /\ RunAgain \in SUBSET all
        BY <3>2, FS_Interval, HarnessAssumption
      <4> HIDE DEF all
      <4> QED
        BY ONLY <4>1, FS_Subset
    <3>4. RunAgain = {}
      BY <3>1, <3>3, FS_EmptySet
    <3>5. \A i \in 1 .. N : i \in 1 .. case - 1
      BY <3>1, HarnessAssumption
    <3> QED
      BY <2>4, <3>1, <3>4, <3>5 DEF RunAgain
  <2> QED
    BY <2>3, <2>4, <2>5 DEF BatteryCounts, RunAgain
<1>2. Inductive => BatteryCounts
  BY <1>1 DEF BatteryCounts
<1> QED
  BY <1>2, InductiveInvariant, PTL

=============================================================================
