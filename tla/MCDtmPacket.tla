----------------------------- MODULE MCDtmPacket -----------------------------
(***************************************************************************)
(* Instances of DtmPacket for TLC.                                         *)
(***************************************************************************)
EXTENDS DtmPacket

\* Every packet, at lengths below, at and above the octets kept, at the last
\* length of the first 1 Mbit interval and at the longest.
McPackets == PacketNames
McLengths == {0, 1, 3, 4, 47, 255}
\* Refused, the shortest, the longest, refused.
McTimes == {1, 2, 20, 21}
=============================================================================
