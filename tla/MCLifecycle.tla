---------------------------- MODULE MCLifecycle ----------------------------
EXTENDS Lifecycle
===========================================================================
