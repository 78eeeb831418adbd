------------------------- MODULE MCReliableChannel -------------------------
(* ReliableChannel with a client that writes three packets and a server that *)
(* mostly acknowledges, one datagram in flight in each direction.            *)
EXTENDS ReliableChannel, TLC

CONSTANTS Client, Server

MCPeer == {Client, Server}
MCPackets == (Client :> 3) @@ (Server :> 1)
OneEach == (Client :> 1) @@ (Server :> 1)
=============================================================================
