---------------------------- MODULE MCAuthority ----------------------------
(* Bounded instance of Authority: a symmetric pair and small timeouts. *)
EXTENDS Authority, TLC

NodeSymmetry == Permutations(Node)
=============================================================================
