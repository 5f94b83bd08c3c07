------------------------------- MODULE MCPratt -------------------------------
(* Pratt on the token sets of its configurations. *)
EXTENDS Pratt

=============================================================================
