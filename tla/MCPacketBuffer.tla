--------------------------- MODULE MCPacketBuffer ---------------------------
(* Packet buffers with a few bytes. *)
EXTENDS PacketBuffer, TLC
=============================================================================
