-------------------------- MODULE MCPacketReading --------------------------
(***************************************************************************)
(* A client that sends packets of several lengths: the shortest a header    *)
(* and one byte, an even and an odd one (a half-way split exists only for   *)
(* an even length).  BufSize exceeds twice the longest packet, so a receive *)
(* can hold the rest of one packet and more than the whole length of it.    *)
(***************************************************************************)
EXTENDS PacketReading

MCSize == <<4, 6, 3, 5, 4>>
=============================================================================
