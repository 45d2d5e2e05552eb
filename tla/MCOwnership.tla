---------------------------- MODULE MCOwnership ----------------------------
(* Bounded instance of Ownership: two nodes, symmetric. *)
EXTENDS Ownership, TLC

NodeSymmetry == Permutations(Node)
=============================================================================
