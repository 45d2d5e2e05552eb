----------------------------- MODULE MCReclaim -----------------------------
EXTENDS Reclaim
=============================================================================
