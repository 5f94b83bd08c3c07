------------------------------- MODULE Harness -------------------------------
(***************************************************************************)
(* Who calls compile_source and what they make of it: the command line     *)
(* tool (small.cpp), the script that runs it on every example              *)
(* (run_examples.sh) and the test battery (test_compile.cpp).  A call of   *)
(* compile_source is what Outcome says it is; what a given text comes to   *)
(* is chosen once, so that running it again comes to the same.             *)
(***************************************************************************)
EXTENDS Integers, Sequences, FiniteSets

CONSTANTS
    N,              \* the examples, or the cases of the battery
    Values,         \* what their mains may return
    Expected,       \* what a case of the battery expects
    MaxArgs         \* bound: arguments of a command line

(* No case of the battery expects what run_case has in ret before the call. *)
ASSUME HarnessAssumption ==
    /\ N \in Nat \ {0} /\ MaxArgs \in Nat
    /\ Values \subseteq Int
    /\ Expected \in Int \ {-9999}

Texts == [end : {"returns"}, value : Values] \cup
         [end : {"refused", "crashes", "hangs"}, value : {0}]

VARIABLES
    tool,           \* "small" by hand, the "runner" script or the "battery"
    texts,          \* the source texts, one of which is being run
    case,           \* which
    path,           \* small: input_path: "none", "missing" or "text"
    args,           \* small: the arguments looked at
    phase, run_main, code, ret,         \* the call of compile_source
    rerun,          \* battery: the second call of a case, for its output
    failures,       \* runner: as the script; battery: cases not in passed
    calls,          \* history: calls of compile_source for each text
    exit            \* the exit status of the tool, -1 while it runs

vars == <<tool, texts, case, path, args, phase, run_main, code, ret, rerun, failures, calls, exit>>
call == <<phase, run_main, code, ret>>

O == INSTANCE Outcome

TypeOK ==
    /\ tool \in {"small", "runner", "battery"}
    /\ texts \in [1 .. N -> Texts]
    /\ case \in 1 .. N + 1
    /\ path \in {"none", "missing", "text"}
    /\ Len(args) <= MaxArgs
    /\ phase \in {"args", "idle", "compiling", "running", "done", "crashed"}
    /\ run_main \in BOOLEAN /\ rerun \in BOOLEAN
    /\ code \in {0, 1} /\ ret \in Values \cup {0, -9999}
    /\ failures \in 0 .. N
    /\ calls \in [1 .. N -> 0 .. 2]
    /\ exit \in -1 .. 255

Init ==
    /\ tool \in {"small", "runner", "battery"}
    /\ texts \in [1 .. N -> Texts]
    /\ case = 1 /\ path = IF tool = "runner" THEN "text" ELSE "none"
    /\ args = << >>
    /\ phase = IF tool = "small" THEN "args" ELSE "idle"
    /\ run_main = TRUE /\ code = 0 /\ ret = 0
    /\ rerun = FALSE /\ failures = 0
    /\ calls = [i \in 1 .. N |-> 0]
    /\ exit = -1

Live == exit = -1

-----------------------------------------------------------------------------
(* One call of compile_source.  calls counts no further than 3. *)

Start(run, value) ==
    /\ O!Call(run) /\ ret' = value
    /\ calls' = [calls EXCEPT ![case] = IF @ < 3 THEN @ + 1 ELSE @]

Refuse == texts[case].end = "refused" /\ O!Refuse

(* What else a text comes to it comes to in main, or not at all. *)
Accept == texts[case].end # "refused" /\ (O!Skip \/ O!EnterMain)

MainReturns == texts[case].end = "returns" /\ O!MainReturns(texts[case].value)

Crash == texts[case].end = "crashes" /\ O!Crash

CompileSource ==
    /\ Live /\ phase \in {"compiling", "running"}
    /\ Refuse \/ Accept \/ MainReturns \/ Crash
    /\ UNCHANGED <<tool, texts, case, path, args, rerun, failures, calls, exit>>

-----------------------------------------------------------------------------
(* small: the arguments in order; help and an unknown flag end it there. *)

Flags == {"--no-run", "--no-verify", "--help", "--unknown"}

Argument(a) ==
    /\ Live /\ phase = "args" /\ Len(args) < MaxArgs
    /\ args' = Append(args, a)
    /\ run_main' = (run_main /\ a # "--no-run")
    /\ path' = IF a \in Flags THEN path ELSE a
    /\ exit' = CASE a = "--help" -> 0 [] a = "--unknown" -> 1 [] OTHER -> -1
    /\ UNCHANGED <<tool, texts, case, phase, code, ret, rerun, failures, calls>>

NoInput ==
    /\ Live /\ phase = "args" /\ path # "text"
    /\ exit' = 1
    /\ UNCHANGED <<tool, texts, case, path, args, call, rerun, failures, calls>>

RunFile ==
    /\ Live /\ phase = "args" /\ path = "text"
    /\ Start(run_main, 0)
    /\ UNCHANGED <<tool, texts, case, path, args, rerun, failures, exit>>

(* What the shell sees: the low byte, and 128 + 6 or 11 after a signal. *)
CodeOnly == IF phase = "crashed" THEN 134 ELSE code     \* mutant of Status
Status ==
    CASE phase = "crashed" -> 134
      [] code = 1 -> 1
      [] OTHER -> ret % 256

Ended == Live /\ phase \in {"done", "crashed"}

SmallExits ==
    /\ tool = "small" /\ Ended
    /\ exit' = Status
    /\ UNCHANGED <<tool, texts, case, path, args, call, rerun, failures, calls>>

-----------------------------------------------------------------------------
(* run_examples.sh: every file by itself, a crash is a failure like others. *)

RunExample ==
    /\ tool = "runner" /\ Live /\ phase = "idle" /\ case <= N
    /\ Start(TRUE, 0)
    /\ UNCHANGED <<tool, texts, case, path, args, rerun, failures, exit>>

NextExample ==
    /\ tool = "runner" /\ Ended
    /\ failures' = failures + (IF Status = 0 THEN 0 ELSE 1)
    /\ case' = case + 1
    /\ phase' = "idle"
    /\ UNCHANGED <<tool, texts, path, args, run_main, code, ret, rerun, calls, exit>>

-----------------------------------------------------------------------------
(* The battery: all cases in one process. *)

RunCase ==
    /\ tool = "battery" /\ Live /\ phase = "idle" /\ case <= N
    /\ Start(TRUE, IF rerun THEN ret ELSE -9999)
    /\ UNCHANGED <<tool, texts, case, path, args, rerun, failures, exit>>

Inverted == code = 1 \/ ret = Expected      \* mutant of Ok
(* ok = !compile_source(...); ok |= (ret == t.expected); *)
Ok == code = 0 \/ ret = Expected

ForgottenRerun ==                           \* mutant of FailedCase: rerun stays
    /\ tool = "battery" /\ Ended /\ phase = "done" /\ ~rerun /\ ~Ok
    /\ rerun' = FALSE
    /\ phase' = "idle"
    /\ UNCHANGED <<tool, texts, case, path, args, run_main, code, ret, failures, calls, exit>>

(* A case that fails is run once more with everything printed. *)
FailedCase ==
    /\ tool = "battery" /\ Ended /\ phase = "done" /\ ~rerun /\ ~Ok
    /\ rerun' = TRUE
    /\ phase' = "idle"
    /\ UNCHANGED <<tool, texts, case, path, args, run_main, code, ret, failures, calls, exit>>

NextCase ==
    /\ tool = "battery" /\ Ended /\ phase = "done" /\ (rerun \/ Ok)
    /\ failures' = failures + (IF rerun THEN 1 ELSE 0)
    /\ rerun' = FALSE
    /\ case' = case + 1
    /\ phase' = "idle"
    /\ UNCHANGED <<tool, texts, path, args, run_main, code, ret, calls, exit>>

(* Nothing but exceptions is caught: a crash ends the battery. *)
BatteryCrashes ==
    /\ tool = "battery" /\ Live /\ phase = "crashed"
    /\ exit' = 134
    /\ UNCHANGED <<tool, texts, case, path, args, call, rerun, failures, calls>>

Report ==
    /\ Live /\ case > N
    /\ exit' = IF failures = 0 THEN 0 ELSE 1
    /\ UNCHANGED <<tool, texts, case, path, args, call, rerun, failures, calls>>

Done == ~Live /\ UNCHANGED vars

(* A main that hangs: no step of anybody's changes anything any more. *)
MainHangs == Live /\ phase = "running" /\ texts[case].end = "hangs" /\ UNCHANGED vars

Work ==
    \/ CompileSource
    \/ \E a \in Flags \cup {"missing", "text"} : Argument(a)
    \/ NoInput \/ RunFile \/ SmallExits
    \/ RunExample \/ NextExample
    \/ RunCase \/ FailedCase \/ NextCase \/ BatteryCrashes
    \/ Report

Next == Work \/ MainHangs \/ Done

(* Nothing waits for anything but main: whatever has a step takes it. *)
Spec == Init /\ [][Next]_vars /\ WF_vars(Work)

-----------------------------------------------------------------------------
(* Properties. *)

Returned(t) == t.end = "returns" /\ t.value % 256 = 0
AsExpected(t) == t.end = "returns" /\ t.value = Expected

(***************************************************************************)
(* The tool exits with 0 only if help was asked for, or the last file      *)
(* named was accepted and its main, unless --no-run came somewhere, has    *)
(* returned a multiple of 256.  Types are kept, whatever the tool.         *)
(***************************************************************************)
ZeroIsSuccess ==
    /\ TypeOK
    /\ tool = "small" /\ exit = 0 =>
          \/ args[Len(args)] = "--help"
          \/ /\ path = "text" /\ texts[1].end # "refused"
             /\ Returned(texts[1]) \/ \E i \in DOMAIN args : args[i] = "--no-run"

(***************************************************************************)
(* The script looks at every file whatever becomes of the others, and its  *)
(* count is the number of files that were not accepted, crashed or did not *)
(* return a multiple of 256.                                               *)
(***************************************************************************)
RunnerCounts ==
    tool = "runner" =>
        /\ failures = Cardinality({i \in 1 .. case - 1 : ~Returned(texts[i])})
        /\ exit # -1 => case = N + 1 /\ \A i \in 1 .. N : calls[i] = 1

(***************************************************************************)
(* The verdicts of the battery do not run into each other through the one  *)
(* process and the ret a rerun shares: whatever came before, a refused     *)
(* text fails, one that returns what was expected does not, the cases      *)
(* counted are those that were run again, and the exit status 0 means that *)
(* all have been looked at and none was refused.                           *)
(***************************************************************************)
BatteryCounts ==
    tool = "battery" =>
        /\ failures = Cardinality({i \in 1 .. case - 1 : calls[i] = 2})
        /\ \A i \in 1 .. case - 1 :
              /\ calls[i] \in {1, 2}
              /\ texts[i].end = "refused" => calls[i] = 2
              /\ AsExpected(texts[i]) => calls[i] = 1
        /\ exit = 0 => case = N + 1 /\ \A i \in 1 .. N : texts[i].end # "refused"

(***************************************************************************)
(* "Expected ... but got ..." (test_compile.cpp:37): the cases that do not *)
(* return what they are to return are those that fail.  They are not: a    *)
(* text that is accepted passes, and what it returned changes nothing.     *)
(***************************************************************************)
PassedAsExpected ==
    tool = "battery" =>
        failures = Cardinality({i \in 1 .. case - 1 : ~AsExpected(texts[i])})

(***************************************************************************)
(* Whoever calls it, compile_source ends unless a main hangs, and so does  *)
(* the tool: with a count, or with the crash of a battery's case.          *)
(***************************************************************************)
Reports == (\A i \in 1 .. N : texts[i].end # "hangs") ~> ~Live

=============================================================================
