-------------------------------- MODULE MCRepl --------------------------------
(* Repl with sessions of a few lines. *)
EXTENDS Repl

=============================================================================
