-------------------------- MODULE MCContextHistory --------------------------
(* Instances of ContextHistory. *)
EXTENDS ContextHistory

CONSTANTS draft, iterate
=============================================================================
