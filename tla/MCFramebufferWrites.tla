------------------------ MODULE MCFramebufferWrites ------------------------
EXTENDS FramebufferWrites
===========================================================================
