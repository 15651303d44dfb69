------------------------------ MODULE MCBTree -------------------------------
(* Model values for the btree.                                              *)
EXTENDS BTree, TLC

Symmetry == Permutations(Callers)

\* Nothing is promised once a write was lost or a change was torn, and such
\* trees are not followed.
Intact == ~lossy
=============================================================================
