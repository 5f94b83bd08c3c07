------------------------------- MODULE Outcome -------------------------------
(***************************************************************************)
(* What compile_source promises whoever calls it (jit.hpp): it returns 1   *)
(* and has run nothing, or it returns 0 and has run main exactly when it   *)
(* was asked to, with what main returned in ret.  It may also end the      *)
(* process, and a main that never returns never lets it return.            *)
(***************************************************************************)
CONSTANT Values     \* what a main may return

VARIABLES
    phase,          \* "idle", "compiling", "running" main, "done" or "crashed"
    run_main,       \* the option of the call
    code,           \* what compile_source returns
    ret             \* the int64_t& ret of its caller

vars == <<phase, run_main, code, ret>>

Init == phase = "compiling" /\ run_main \in BOOLEAN /\ code = 0 /\ ret = 0

(* Called again by a caller that makes several calls. *)
Call(run) == phase' = "compiling" /\ run_main' = run /\ code' = 0

Refuse == phase = "compiling" /\ phase' = "done" /\ code' = 1 /\ UNCHANGED <<run_main, ret>>

Skip ==
    /\ phase = "compiling" /\ ~run_main
    /\ phase' = "done" /\ code' = 0
    /\ UNCHANGED <<run_main, ret>>

EnterMain ==
    /\ phase = "compiling" /\ run_main
    /\ phase' = "running"
    /\ UNCHANGED <<run_main, code, ret>>

MainReturns(v) ==
    /\ phase = "running"
    /\ phase' = "done" /\ code' = 0 /\ ret' = v
    /\ UNCHANGED run_main

Crash == phase \in {"compiling", "running"} /\ phase' = "crashed" /\ UNCHANGED <<run_main, code, ret>>

Next == Refuse \/ Skip \/ EnterMain \/ (\E v \in Values : MainReturns(v)) \/ Crash

(* The compiler comes to an end; the program it runs need not. *)
Spec == Init /\ [][Next]_vars /\ WF_vars(Next /\ phase = "compiling")

=============================================================================
