---------------------------- MODULE MCDatastore ----------------------------
EXTENDS Datastore
===========================================================================
