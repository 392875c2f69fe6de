--------------------------- MODULE MCOnlineHandle ---------------------------
(* An instance of OnlineHandle for TLC. *)
EXTENDS OnlineHandle
=============================================================================
