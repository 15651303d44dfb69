------------------------------- MODULE MCDio --------------------------------
(* Model values for the cluster cache: threads and places for clusters are *)
(* interchangeable, indexes are not (the shrinker scans them in order).    *)
EXTENDS Dio, TLC

Symmetry == Permutations(Threads) \cup Permutations(Clusters)

\* No guard looks at the bytes, so that runs whose properties do not either
\* can identify states that differ only in them.
Control == << [c \in Clusters |-> [clu[c] EXCEPT !.data = {}]], tree, nrClus, pc,
              cl, idx, err, nodes, todo, scan, drops, mode >>
=============================================================================
