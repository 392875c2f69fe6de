------------------------------ MODULE MCPusher ------------------------------
(* An instance of Pusher for TLC. *)
EXTENDS Pusher
=============================================================================
