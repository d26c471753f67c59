-------------------------- MODULE MCOutputMapper --------------------------
EXTENDS OutputMapper
===========================================================================
