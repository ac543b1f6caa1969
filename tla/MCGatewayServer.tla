-------------------------- MODULE MCGatewayServer --------------------------
(* GatewayServer for TLC: two requests over REST or over the gRPC stream, one of
   which, b, has no type and is refused; a is read. *)
EXTENDS GatewayServer

CONSTANTS a, b, email, p1

MCTypeOf == [t \in Tasks |-> IF t = b THEN NoType ELSE email]
MCPartitionOf == [t \in Tasks |-> p1]
MCTarget == [c \in Clients |-> a]

=============================================================================
