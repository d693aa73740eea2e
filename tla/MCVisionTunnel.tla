--------------------------- MODULE MCVisionTunnel ---------------------------
(* VisionTunnel with bytes of 16 values, an identity of 2 bytes and frame  *)
(* bodies of 12, so that headers need several frames, a flow's length a    *)
(* second varint byte and a domain the largest length byte.                *)
EXTENDS VisionTunnel

Uuid == <<7, 9>>
Request(f, c, a, p) == [uuid |-> Uuid, flow |-> f, command |-> c, address |-> a, port |-> p]
Bytes(n) == [i \in 1..n |-> (i + 4) % ByteMod]

MCRequests ==
    {Request(Bytes(9), 1, [atyp |-> ATYP_DOMAIN, bytes |-> Bytes(15)], 44),
     Request(<<>>, 2, [atyp |-> ATYP_IPV4, bytes |-> Bytes(4)], 255),
     Request(Bytes(3), 1, [atyp |-> ATYP_IPV6, bytes |-> Bytes(16)], 1),
     Request(Bytes(6), CMD_MUX, [atyp |-> ATYP_IPV4, bytes |-> Bytes(4)], 5)}
MCTestSeed == <<6, 5, 6, 4>>
MCPackets == {<<4>>, <<0, 10, 1>>, <<7, 9, 1, 0, 1, 0, 0, 6>>}
=============================================================================
