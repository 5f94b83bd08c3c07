----------------------------- MODULE MCLowering -----------------------------
(* Lowering on the small instance of its configuration. *)
EXTENDS Lowering

=============================================================================
