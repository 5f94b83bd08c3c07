------------------------------ MODULE MCValues ------------------------------
(* Values with two functions, of either calling convention, or with none. *)
EXTENDS Values

MCSig == [f \in Functions |->
            IF f = "f" THEN [cc |-> "C", arity |-> 0] ELSE [cc |-> "Fast", arity |-> 2]]

=============================================================================
