--------------------------- MODULE MCPacketStream ---------------------------
(* Two packets with bodies of one and two units and IDs of their own.        *)
EXTENDS PacketStream
CONSTANTS p1, p2, A, B

Lengths == [p \in Packets |-> IF p = p2 THEN 2 ELSE 1]
PacketIds == [p \in Packets |-> IF p = p2 THEN B ELSE A]
=============================================================================
