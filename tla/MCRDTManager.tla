---------------------------- MODULE MCRDTManager ----------------------------
EXTENDS RDTManager

CONSTANTS FirstPacket, LastPacket   \* the packets of the stream

MCStream == FirstPacket .. LastPacket

=============================================================================
