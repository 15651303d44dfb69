------------------------------ MODULE MCBlocks ------------------------------
(* Two puts to two blocks of one object, with room for both and a spare. *)
EXTENDS Blocks, TLC

CONSTANTS t1, t2, v1, v2, b1, b2, b3, b4

MCThreads == {t1, t2}
MCVBlocks == {v1, v2}
MCBlockSet == {b1, b2, b3, b4}

Symmetry == Permutations(MCThreads) \cup Permutations(MCVBlocks) \cup Permutations(MCBlockSet)
=============================================================================
