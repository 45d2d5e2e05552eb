---------------------------- MODULE MCWriteback ----------------------------
EXTENDS WritebackReads
=============================================================================
