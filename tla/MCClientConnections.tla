------------------------ MODULE MCClientConnections ------------------------
EXTENDS ClientConnections
===========================================================================
