----------------------------- MODULE MCUdpReply -----------------------------
EXTENDS UdpReply
=============================================================================
