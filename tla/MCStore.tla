------------------------------ MODULE MCStore -------------------------------
(* Model values for the object store: threads, ids and places for inodes   *)
(* are interchangeable.                                                    *)
EXTENDS Store, TLC

Symmetry == Permutations(Threads) \cup Permutations(Ids) \cup Permutations(Slots)
=============================================================================
