-------------------------- MODULE MCMapperThreads --------------------------
EXTENDS MapperThreads
===========================================================================
