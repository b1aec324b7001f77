--------------------------- MODULE MCPacketReader ---------------------------
(* The instance of PacketReader for TLC. *)
EXTENDS PacketReader
=============================================================================
