---------------------------- MODULE MCNetServer ----------------------------
(* An instance of NetServer for TLC: the two listeners of the gateway. *)
EXTENDS NetServer
MCHandlers == <<"replies", "pushes">>
=============================================================================
