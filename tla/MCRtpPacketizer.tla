--------------------------- MODULE MCRtpPacketizer ---------------------------
(* RtpPacketizer with short packets and few numbers, so that units of every  *)
(* number of fragments and the wrap of the numbers are met.                  *)
EXTENDS RtpPacketizer

Units == 1 .. 20
UnitsOfOnePacket == 1 .. Space
=============================================================================
