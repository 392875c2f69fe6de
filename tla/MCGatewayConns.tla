--------------------------- MODULE MCGatewayConns ---------------------------
(* Instances of GatewayConns for TLC. *)
EXTENDS GatewayConns, TLC

\* Connections are interchangeable.
ChanSymmetry == Permutations(Chans)

=============================================================================
