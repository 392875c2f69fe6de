------------------------------ MODULE MCNaming ------------------------------
(* An instance of Naming for TLC. *)
EXTENDS Naming
=============================================================================
