----------------------------- MODULE MCSegments -----------------------------
EXTENDS Segments

Symmetry == Permutations(Slot) \cup Permutations(Writer)
=============================================================================
