------------------------------ MODULE MCHarness ------------------------------
(* Harness on the small instances of its configurations. *)
EXTENDS Harness

=============================================================================
