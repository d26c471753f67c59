--------------------------- MODULE MCPacketCodec ---------------------------
EXTENDS PacketCodec
===========================================================================
