------------------------------ MODULE MCBalloc ------------------------------
(* Model values for the block allocator.  Five blocks over two bitmap      *)
(* clusters of two longs of two bits leave one free block, in the second   *)
(* cluster: a search crosses longs and a cluster and ends inside the last  *)
(* one, and the threads compete for the block.                             *)
EXTENDS Balloc, TLC

Symmetry == Permutations(Threads)
=============================================================================
