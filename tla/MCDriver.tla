------------------------------ MODULE MCDriver ------------------------------
(* Driver on the small instance of its configuration. *)
EXTENDS Driver

=============================================================================
