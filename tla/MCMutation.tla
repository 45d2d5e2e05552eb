---------------------------- MODULE MCMutation ----------------------------
EXTENDS Mutation, TLC

InodeSymmetry == Permutations(Inode)
=============================================================================
