------------------------------ MODULE DioProofs -----------------------------
(***************************************************************************)
(* The invariant of module DioInv holds in every state of module Dio: the  *)
(* reference counts of the clusters are exact and no BUG_ON is hit.        *)
(***************************************************************************)
EXTENDS DioSteps, FiniteSetTheorems, WellFoundedInduction

(* Counting.                                                               *)
\* A set that changes in one element at most changes its size by that one.
LEMMA CardStep ==
  ASSUME NEW T, IsFiniteSet(T), NEW S \in SUBSET T, NEW R \in SUBSET T, NEW t \in T,
         \A u \in T \ {t} : u \in S <=> u \in R
  PROVE  /\ Cardinality(S) \in Nat /\ Cardinality(R) \in Nat
         /\ Cardinality(R) = Cardinality(S) - B2N(t \in S) + B2N(t \in R)
PROOF
  <1>1. IsFiniteSet(S) /\ IsFiniteSet(R)
    BY Zenon, FS_Subset
  <1>2. Cardinality(S) \in Nat /\ Cardinality(R) \in Nat
    BY Zenon, <1>1, FS_CardinalityType
  <1>3. S \ {t} = R \ {t}
    BY Zenon
  <1>4. Cardinality(S \ {t}) = IF t \in S THEN Cardinality(S) - 1 ELSE Cardinality(S)
    BY Zenon, <1>1, FS_RemoveElement
  <1>5. Cardinality(R \ {t}) = IF t \in R THEN Cardinality(R) - 1 ELSE Cardinality(R)
    BY Zenon, <1>1, FS_RemoveElement
  <1> QED
    BY <1>2, <1>3, <1>4, <1>5 DEF B2N

\* A set has as many elements as any one or two it is known to have.
LEMMA CardBound ==
  ASSUME NEW T, IsFiniteSet(T), NEW S \in SUBSET T
  PROVE  /\ Cardinality(S) \in Nat
         /\ \A t \in T : B2N(t \in S) <= Cardinality(S)
         /\ \A t, u \in T : t # u => B2N(t \in S) + B2N(u \in S) <= Cardinality(S)
PROOF
  <1>1. IsFiniteSet(S) /\ Cardinality(S) \in Nat
    BY Zenon, FS_Subset, FS_CardinalityType
  <1>2. ASSUME NEW t \in T
        PROVE  /\ IsFiniteSet(S \ {t}) /\ Cardinality(S \ {t}) \in Nat
               /\ Cardinality(S \ {t}) = IF t \in S THEN Cardinality(S) - 1 ELSE Cardinality(S)
    BY Zenon, <1>1, FS_RemoveElement, FS_CardinalityType
  <1>3. ASSUME NEW t \in T, NEW u \in T, t # u
        PROVE  B2N(t \in S) + B2N(u \in S) <= Cardinality(S)
    <2>1. /\ Cardinality((S \ {t}) \ {u}) \in Nat
          /\ Cardinality((S \ {t}) \ {u})
               = IF u \in S \ {t} THEN Cardinality(S \ {t}) - 1 ELSE Cardinality(S \ {t})
      <3>1. IsFiniteSet(S \ {t})
        BY Zenon, <1>2
      <3> QED
        BY Zenon, <3>1, FS_RemoveElement, FS_CardinalityType
    <2>2. u \in S \ {t} <=> u \in S
      BY Zenon, <1>3
    <2>3. /\ Cardinality(S \ {t}) \in Nat
          /\ Cardinality(S \ {t}) = IF t \in S THEN Cardinality(S) - 1 ELSE Cardinality(S)
      BY Zenon, <1>2
    <2> QED
      BY <1>1, <2>1, <2>2, <2>3 DEF B2N
  <1>4. ASSUME NEW t \in T PROVE B2N(t \in S) <= Cardinality(S)
    <2>1. /\ Cardinality(S \ {t}) \in Nat
          /\ Cardinality(S \ {t}) = IF t \in S THEN Cardinality(S) - 1 ELSE Cardinality(S)
      BY Zenon, <1>2
    <2> QED
      BY <1>1, <2>1 DEF B2N
  <1> QED
    BY Zenon, <1>1, <1>3, <1>4

\* What one thread does changes the count of a cluster by its own part.
LEMMA CountStep ==
  ASSUME NEW t \in Threads, NEW c \in Clusters,
         \A u \in Threads \ {t} : pc'[u] = pc[u] /\ cl'[u] = cl[u]
  PROVE  /\ Cardinality(Holders(c)) \in Nat /\ Cardinality(Inserters(c)) \in Nat
         /\ Cardinality(Holders(c)') \in Nat /\ Cardinality(Inserters(c)') \in Nat
         /\ Cardinality(Holders(c)') + Cardinality(Inserters(c)') - ByThread(t, c)'
            = Cardinality(Holders(c)) + Cardinality(Inserters(c)) - ByThread(t, c)
PROOF
  <1>1. IsFiniteSet(Threads)
    BY Zenon, WorkerAssumption
  <1>2. /\ Holders(c) \in SUBSET Threads /\ Holders(c)' \in SUBSET Threads
        /\ Inserters(c) \in SUBSET Threads /\ Inserters(c)' \in SUBSET Threads
        /\ \A u \in Threads \ {t} : u \in Holders(c) <=> u \in Holders(c)'
        /\ \A u \in Threads \ {t} : u \in Inserters(c) <=> u \in Inserters(c)'
    BY Zenon DEF Holders, Inserters
  <1>3. /\ Cardinality(Holders(c)) \in Nat /\ Cardinality(Holders(c)') \in Nat
        /\ Cardinality(Holders(c)') = Cardinality(Holders(c)) - B2N(t \in Holders(c)) + B2N(t \in Holders(c)')
    BY <1>1, <1>2, CardStep
  <1>4. /\ Cardinality(Inserters(c)) \in Nat /\ Cardinality(Inserters(c)') \in Nat
        /\ Cardinality(Inserters(c)')
             = Cardinality(Inserters(c)) - B2N(t \in Inserters(c)) + B2N(t \in Inserters(c)')
    BY <1>1, <1>2, CardStep
  <1>5. /\ ByThread(t, c) = B2N(t \in Holders(c)) + B2N(t \in Inserters(c))
        /\ ByThread(t, c)' = B2N(t \in Holders(c)') + B2N(t \in Inserters(c)')
    BY DEF ByThread, Holders, Inserters
  <1>6. /\ B2N(t \in Holders(c)) \in Nat /\ B2N(t \in Inserters(c)) \in Nat
        /\ B2N(t \in Holders(c)') \in Nat /\ B2N(t \in Inserters(c)') \in Nat
    BY Zenon DEF B2N
  <1> QED
    BY <1>3, <1>4, <1>5, <1>6

\* Each holder accounts for its part of the count.
LEMMA CountBound ==
  ASSUME CInv, NEW c \in Clusters
  PROVE  /\ clu[c].ref >= ByTree(c) + ByWorker(c)
         /\ \A t \in Threads : clu[c].ref >= ByTree(c) + ByWorker(c) + ByThread(t, c)
         /\ \A t, u \in Threads : t # u =>
              clu[c].ref >= ByTree(c) + ByWorker(c) + ByThread(t, c) + ByThread(u, c)
         /\ ByTree(c) \in Nat /\ ByWorker(c) \in Nat
         /\ \A t \in Threads : ByThread(t, c) \in Nat
PROOF
  <1>1. IsFiniteSet(Threads) /\ drops \in Nat
    BY Zenon, WorkerAssumption DEF CInv, Types
  <1>2. Holders(c) \in SUBSET Threads /\ Inserters(c) \in SUBSET Threads
    BY Zenon DEF Holders, Inserters
  <1>3. /\ Cardinality(Holders(c)) \in Nat
        /\ \A t \in Threads : B2N(t \in Holders(c)) <= Cardinality(Holders(c))
        /\ \A t, u \in Threads : t # u =>
             B2N(t \in Holders(c)) + B2N(u \in Holders(c)) <= Cardinality(Holders(c))
    BY Zenon, <1>1, <1>2, CardBound
  <1>4. /\ Cardinality(Inserters(c)) \in Nat
        /\ \A t \in Threads : B2N(t \in Inserters(c)) <= Cardinality(Inserters(c))
        /\ \A t, u \in Threads : t # u =>
             B2N(t \in Inserters(c)) + B2N(u \in Inserters(c)) <= Cardinality(Inserters(c))
    BY Zenon, <1>1, <1>2, CardBound
  <1>5. \A t \in Threads : /\ ByThread(t, c) = B2N(t \in Holders(c)) + B2N(t \in Inserters(c))
                           /\ B2N(t \in Holders(c)) \in Nat /\ B2N(t \in Inserters(c)) \in Nat
    BY Zenon DEF ByThread, Holders, Inserters, B2N
  <1>6. ByTree(c) \in Nat /\ ByWorker(c) \in Nat
    BY <1>1 DEF ByTree, ByWorker, B2N
  <1>7. clu[c].ref = ByTree(c) + Cardinality(Holders(c)) + Cardinality(Inserters(c)) + ByWorker(c)
    BY Zenon DEF CInv, CountOK
  <1>8. \A t \in Threads : ByThread(t, c) \in Nat
    BY <1>5
  <1>9. clu[c].ref >= ByTree(c) + ByWorker(c)
    BY <1>3, <1>4, <1>6, <1>7
  <1>10. ASSUME NEW t \in Threads PROVE clu[c].ref >= ByTree(c) + ByWorker(c) + ByThread(t, c)
    BY <1>3, <1>4, <1>5, <1>6, <1>7
  <1>11. ASSUME NEW t \in Threads, NEW u \in Threads, t # u
         PROVE  clu[c].ref >= ByTree(c) + ByWorker(c) + ByThread(t, c) + ByThread(u, c)
    BY <1>3, <1>4, <1>5, <1>6, <1>7, <1>11
  <1> QED
    BY Zenon, <1>6, <1>8, <1>9, <1>10, <1>11

\* Such a step keeps the invariant of the counts.
LEMMA CalmStep ==
  ASSUME CInv, Types', NEW p \in Proc, Calm(p)
  PROVE  CInv'
PROOF
  <1>0. /\ Types /\ WorkerOK /\ TreeOK /\ PrivateOK /\ CollectedOK /\ CountOK
        /\ \A t \in Threads : ThreadOK(t)
    BY Zenon DEF CInv
  <1>1. Threads \subseteq Proc /\ Worker \in Proc /\ Worker \notin Threads
    BY Zenon, WorkerAssumption DEF Proc
  <1>2. \A t \in Threads : ThreadOK(t)'
    BY Zenon, <1>0, <1>1 DEF ThreadOK, Calm
  <1>3. WorkerOK'
    BY <1>0, <1>1 DEF WorkerOK, Calm, DropPCs, WorkerPCs
  <1>4. TreeOK'
    BY <1>0 DEF TreeOK, Types, Calm, CountKept
  <1>5. PrivateOK'
    <2>1. ASSUME NEW t \in Threads, pc'[t] = "insert"
          PROVE  /\ t # p /\ pc[t] = "insert" /\ cl'[t] = cl[t] /\ cl[t] \in Clusters /\ idx'[t] = idx[t]
                 /\ CountKept(cl[t])
      BY Zenon, <1>0, <1>1, <2>1 DEF Calm, ThreadOK
    <2> QED
      BY <1>0, <2>1 DEF PrivateOK, Calm, CountKept
  <1>6. CollectedOK'
    BY Zenon, <1>0, <1>1 DEF CollectedOK, Types, WorkerOK, Calm, CountKept, DropPCs
  <1>7. CountOK'
    <2>1. ASSUME NEW c \in Clusters
          PROVE  Holders(c)' = Holders(c) /\ Inserters(c)' = Inserters(c)
      BY Zenon, <1>1 DEF Holders, Inserters, Calm
    <2>2. \A c \in Clusters : ByTree(c)' = ByTree(c)
      BY Zenon DEF ByTree, Calm
    <2>3. \A c \in Clusters : ByWorker(c)' = ByWorker(c)
      BY Zenon, <1>1 DEF ByWorker, Calm, DropPCs
    <2> QED
      BY <1>0, <2>1, <2>2, <2>3 DEF CountOK, Calm, CountKept
  <1> QED
    BY Zenon, <1>2, <1>3, <1>4, <1>5, <1>6, <1>7 DEF CInv

\* Such a step keeps the invariant of the counts.
LEMMA MoveStep ==
  ASSUME CInv, Types', NEW t \in Threads, Move(t)
  PROVE  CInv'
PROOF
  <1>0. /\ Types /\ WorkerOK /\ TreeOK /\ PrivateOK /\ CollectedOK /\ CountOK
        /\ \A u \in Threads : ThreadOK(u)
    BY Zenon DEF CInv
  <1>1. /\ Threads \subseteq Proc /\ Worker \in Proc /\ Worker \notin Threads /\ t # Worker
        /\ None \notin Clusters
    BY Zenon, WorkerAssumption, ClusterAssumption DEF Proc
  <1>2. \A u \in Threads : ThreadOK(u)'
    BY <1>0, <1>1 DEF ThreadOK, Move
  <1>3. pc'[Worker] = pc[Worker] /\ cl'[Worker] = cl[Worker]
    BY Zenon, <1>1 DEF Move
  <1>4. WorkerOK'
    BY Zenon, <1>0, <1>3 DEF WorkerOK, Move
  <1>5. \A c \in Clusters : ByTree(c) \in Nat /\ ByWorker(c) \in Nat
    BY Zenon, CountBound
  <1>6. \A i \in Index : tree[i] # None => tree[i] \in Clusters /\ clu'[tree[i]].index = i
    <2>1. ASSUME NEW i \in Index, tree[i] # None
          PROVE  tree[i] \in Clusters /\ ByTree(tree[i]) = 2
      BY <1>0, <2>1 DEF Types, ByTree, B2N
    <2> QED
      BY <1>0, <1>5, <2>1 DEF Move, TreeOK
  <1>7. TreeOK'
    BY <1>6 DEF TreeOK, Move
  <1>8. PrivateOK'
    <2>1. ASSUME NEW u \in Threads, pc'[u] = "insert", u # t
          PROVE  /\ pc[u] = "insert" /\ cl'[u] = cl[u] /\ cl[u] \in Clusters /\ idx'[u] = idx[u]
                 /\ CountKept(cl[u]) /\ cl'[t] # cl[u]
      BY Zenon, <1>0, <1>1, <2>1 DEF Move, ThreadOK
    <2>2. ASSUME NEW u \in Threads, pc'[u] = "insert", u # t
          PROVE  \A p \in Proc \ {u} : cl'[p] # cl[u]
      BY <1>0, <1>1, <2>1, <2>2 DEF Move, PrivateOK
    <2>3. ASSUME NEW u \in Threads, pc'[u] = "insert", u # t
          PROVE  \A i \in Index : tree'[i] # cl[u]
      BY <1>0, <1>1, <2>1, <2>3 DEF Move, PrivateOK
    <2>4. ASSUME NEW u \in Threads, pc'[u] = "insert", u # t
          PROVE  /\ clu'[cl'[u]].alive /\ clu'[cl'[u]].ref = 1 /\ clu'[cl'[u]].index = idx'[u]
                 /\ cl'[u] \notin nodes'
      BY <1>0, <2>1, <2>4 DEF Move, PrivateOK, CountKept
    <2>5. ASSUME pc'[t] = "insert"
          PROVE  /\ clu'[cl'[t]].alive /\ clu'[cl'[t]].ref = 1 /\ clu'[cl'[t]].index = idx'[t]
                 /\ cl'[t] \notin nodes' /\ (\A i \in Index : tree'[i] # cl'[t])
                 /\ \A p \in Proc \ {t} : cl'[p] # cl'[t]
      BY <2>5 DEF Move
    <2> QED
      BY <2>1, <2>2, <2>3, <2>4, <2>5 DEF PrivateOK
  <1>9. CollectedOK'
    <2>1. ASSUME NEW c \in Clusters, clu[c].index \in Index, tree[clu[c].index] = c
          PROVE  clu'[c].index = clu[c].index /\ tree'[clu[c].index] = c
      BY <1>1, <1>6, <2>1 DEF Move
    <2>2. ASSUME pc[Worker] = "scan", NEW c \in nodes
          PROVE  c \in Clusters /\ clu[c].index \in Index \ scan /\ tree[clu[c].index] = c
      BY <1>0, <2>2 DEF CollectedOK, Types
    <2>3. ASSUME NEW c \in todo
          PROVE  c \in Clusters /\ clu[c].index \in Index /\ tree[clu[c].index] = c
      BY <1>0 DEF CollectedOK, Types
    <2>4. ASSUME pc[Worker] = "delete"
          PROVE  /\ cl[Worker] \in Clusters /\ clu[cl[Worker]].index \in Index
                 /\ tree[clu[cl[Worker]].index] = cl[Worker] /\ cl[Worker] \notin todo
      BY <1>0, <2>4 DEF CollectedOK, WorkerOK
    <2>5. nodes' = nodes /\ todo' = todo /\ scan' = scan
      BY Zenon DEF Move
    <2> QED
      BY Zenon, <1>3, <2>1, <2>2, <2>3, <2>4, <2>5 DEF CollectedOK
  <1>10. CountOK'
    <2>1. nrClus' = Cardinality({ i \in Index : tree'[i] # None })
      BY Zenon DEF Move
    <2>2. ASSUME NEW c \in Clusters
          PROVE  clu'[c].ref = ByTree(c)' + Cardinality(Holders(c)') + Cardinality(Inserters(c)')
                               + ByWorker(c)'
      <3>1. /\ Cardinality(Holders(c)) \in Nat /\ Cardinality(Inserters(c)) \in Nat
            /\ Cardinality(Holders(c)') \in Nat /\ Cardinality(Inserters(c)') \in Nat
            /\ Cardinality(Holders(c)') + Cardinality(Inserters(c)') - ByThread(t, c)'
               = Cardinality(Holders(c)) + Cardinality(Inserters(c)) - ByThread(t, c)
        BY <1>1, CountStep DEF Move
      <3>2. ByWorker(c)' = ByWorker(c)
        BY <1>3 DEF ByWorker, Move
      <3>3. clu[c].ref = ByTree(c) + Cardinality(Holders(c)) + Cardinality(Inserters(c)) + ByWorker(c)
        BY Zenon, <1>0 DEF CountOK
      <3>4. clu'[c].ref - ByThread(t, c)' - ByTree(c)' = clu[c].ref - ByThread(t, c) - ByTree(c)
        BY Zenon DEF Move
      <3>5. /\ ByThread(t, c) \in Nat /\ ByTree(c) \in Nat /\ ByWorker(c) \in Nat
            /\ ByThread(t, c)' \in Nat /\ ByTree(c)' \in Nat
        BY <1>5 DEF ByThread, ByTree, B2N
      <3>6. clu'[c].ref \in Int
        BY Zenon DEF Types, Cluster
      <3>7. clu[c].ref \in Int
        BY Zenon, <1>0 DEF Types, Cluster
      <3> QED
        BY <3>1, <3>2, <3>3, <3>4, <3>5, <3>6, <3>7
    <2> QED
      BY Zenon, <2>1, <2>2 DEF CountOK, Move
  <1> QED
    BY Zenon, <1>2, <1>4, <1>7, <1>8, <1>9, <1>10 DEF CInv

\* Such a step keeps the invariant of the counts.
LEMMA WorkStep ==
  ASSUME CInv, Types', Work
  PROVE  CInv'
PROOF
  <1>0. /\ Types /\ PrivateOK /\ CountOK /\ \A u \in Threads : ThreadOK(u)
    BY Zenon DEF CInv
  <1>1. Proc = Threads \cup {Worker} /\ Worker \notin Threads
    BY Zenon, WorkerAssumption DEF Proc
  <1>2. \A u \in Threads : ThreadOK(u)'
    BY Zenon, <1>0 DEF ThreadOK, Work
  <1>3. PrivateOK'
    <2>1. ASSUME NEW u \in Threads, pc'[u] = "insert"
          PROVE  /\ pc[u] = "insert" /\ cl'[u] = cl[u] /\ idx'[u] = idx[u] /\ CountKept(cl[u])
                 /\ cl'[Worker] # cl[u] /\ cl[u] \notin nodes' /\ \A i \in Index : tree'[i] # cl[u]
      BY Zenon, <2>1 DEF Work
    <2>2. ASSUME NEW u \in Threads, pc'[u] = "insert"
          PROVE  \A p \in Proc \ {u} : cl'[p] # cl[u]
      BY <1>0, <1>1, <2>1, <2>2 DEF Work, PrivateOK
    <2> QED
      BY <1>0, <2>1, <2>2 DEF PrivateOK, CountKept
  <1>4. CountOK'
    <2>1. ASSUME NEW c \in Clusters
          PROVE  clu'[c].ref = ByTree(c)' + Cardinality(Holders(c)') + Cardinality(Inserters(c)')
                               + ByWorker(c)'
      <3>1. Holders(c)' = Holders(c) /\ Inserters(c)' = Inserters(c)
        BY DEF Work, Holders, Inserters
      <3>2. Cardinality(Holders(c)) \in Nat /\ Cardinality(Inserters(c)) \in Nat
        <4>1. Holders(c) \in SUBSET Threads /\ Inserters(c) \in SUBSET Threads
          BY Zenon DEF Holders, Inserters
        <4> QED
          BY Zenon, <4>1, WorkerAssumption, CardBound
      <3>3. clu[c].ref = ByTree(c) + Cardinality(Holders(c)) + Cardinality(Inserters(c)) + ByWorker(c)
        BY Zenon, <1>0 DEF CountOK
      <3>4. clu'[c].ref - ByTree(c)' - ByWorker(c)' = clu[c].ref - ByTree(c) - ByWorker(c)
        BY Zenon DEF Work
      <3>5. ByTree(c) \in Nat /\ ByWorker(c) \in Nat
        BY Zenon, CountBound
      <3>0. drops' \in Nat
        BY Zenon DEF Types
      <3>6. ByTree(c)' \in Nat /\ ByWorker(c)' \in Nat
        <4>1. /\ B2N(\E i \in Index : tree'[i] = c) \in {0, 1}
              /\ B2N(c \in nodes') \in {0, 1}
          BY Zenon DEF B2N
        <4>2. 0 \in Nat
          OBVIOUS
        <4>3. (IF cl'[Worker] = c /\ pc'[Worker] # "delete" THEN drops' ELSE 0) \in Nat
          BY Zenon, <3>0, <4>2
        <4>4. PICK x \in {0, 1}, y \in {0, 1}, z \in Nat :
                ByTree(c)' = 2 * x /\ ByWorker(c)' = y + z
          BY Zenon, <4>1, <4>3 DEF ByTree, ByWorker
        <4> QED
          BY <4>4
      <3>7. clu'[c].ref \in Int
        BY Zenon DEF Types, Cluster
      <3> QED
        BY <3>1, <3>2, <3>3, <3>4, <3>5, <3>6, <3>7
    <2> QED
      BY Zenon, <2>1 DEF CountOK, Work
  <1> QED
    BY <1>2, <1>3, <1>4 DEF CInv, Work

\* dio_clu_alloc gives memory nobody has; its one reference is the thread's.
LEMMA AllocMove ==
  ASSUME CInv, NEW t \in Threads, Alloc(t)
  PROVE  Types' /\ Move(t)
PROOF
  <1>0. /\ Types /\ t \in Proc /\ Threads \subseteq Proc /\ Worker \in Proc /\ Worker \notin Threads
        /\ ThreadOK(t) /\ idx[t] \in Index /\ idx[t] \in Nat /\ PrivateOK /\ CountOK
        /\ pc[t] = "alloc" /\ cl[t] = None /\ None \notin Clusters
        /\ \A u \in Threads : pc[u] = "insert" => cl[u] \in Clusters
    BY Zenon, AtHand DEF CInv, Proc, Alloc, ThreadOK
  <1>1. UNCHANGED << tree, nrClus, disk, idx, err, work, hist >>
    BY Zenon DEF Alloc
  <1>2. nrClus' = Cardinality({ i \in Index : tree'[i] # None })
    BY Zenon, <1>0, <1>1 DEF CountOK
  <1>3. CASE GoTo(t, "idle") /\ UNCHANGED << clu, cl >>
    <2>1. Types'
      BY Zenon, <1>0, <1>1, <1>3 DEF Types, ThreadPCs, GoTo, work, hist
    <2>2. pc'[t] = "idle" /\ \A q \in Proc \ {t} : pc'[q] = pc[q]
      BY Zenon, <1>0, <1>3 DEF Types, GoTo
    <2>3. ThreadOK(t)'
      BY Zenon, <1>0, <1>1, <1>3, <2>2 DEF ThreadOK, HoldPCs, ThreadPCs
    <2>4. \A c \in Clusters : ByThread(t, c) = 0 /\ ByThread(t, c)' = 0 /\ ByTree(c)' = ByTree(c)
      BY <1>0, <1>1, <2>2 DEF ByThread, ByTree, B2N, HoldPCs
    <2>5. \A u \in Threads \ {t} : pc[u] = "insert" => CountKept(cl[u]) /\ cl'[t] # cl[u]
      BY Zenon, <1>0, <1>3 DEF PrivateOK, CountKept
    <2> QED
      BY Zenon, <1>0, <1>1, <1>2, <1>3, <2>1, <2>2, <2>3, <2>4, <2>5 DEF Move, CountOK, work
  <1>4. ASSUME NEW c \in Clusters, ~clu[c].alive, \A p \in Proc : cl[p] # c,
               clu' = [clu EXCEPT ![c] = New(idx[t])], cl' = [cl EXCEPT ![t] = c], GoTo(t, "insert")
        PROVE  Types' /\ Move(t)
    <2>1. /\ New(idx[t]) \in Cluster /\ New(idx[t]).alive /\ New(idx[t]).index = idx[t]
          /\ New(idx[t]).ref = 1
      BY Zenon, <1>0, FreedType
    <2>2. /\ clu'[c] = New(idx[t]) /\ \A d \in Clusters \ {c} : clu'[d] = clu[d]
          /\ Typed
      BY Zenon, <1>0, <1>4, <2>1 DEF Types, Typed
    <2>3. /\ pc'[t] = "insert" /\ cl'[t] = c
          /\ \A q \in Proc \ {t} : pc'[q] = pc[q] /\ cl'[q] = cl[q]
      BY Zenon, <1>0, <1>4 DEF Types, GoTo
    <2>4. Types'
      BY Zenon, <1>0, <1>1, <1>4, <2>2 DEF Types, Typed, ThreadPCs, GoTo, work, hist
    <2>5. ThreadOK(t)'
      BY Zenon, <1>0, <1>1, <2>3 DEF ThreadOK, HoldPCs, ThreadPCs
    <2>6. clu[c].ref = 0 /\ ByTree(c) = 0 /\ ByWorker(c) = 0
      <3>1. clu[c].ref = 0
        BY Zenon, <1>0, <1>4 DEF CountOK
      <3> QED
        BY <3>1, CountBound
    <2>7. c \notin nodes /\ \A i \in Index : tree[i] # c
      <3>1. drops \in Nat
        BY Zenon, <1>0 DEF Types
      <3> QED
        BY <2>6, <3>1 DEF ByTree, ByWorker, B2N
    <2>8. \A d \in Clusters : /\ ByThread(t, d) = 0 /\ ByThread(t, d)' = B2N(d = c)
                              /\ ByTree(d)' = ByTree(d) /\ ByTree(d) \in Nat /\ clu[d].ref \in Int
      <3>1. \A d \in Clusters : clu[d].ref \in Int
        BY Zenon, AtHand
      <3> QED
        BY <1>0, <1>1, <2>3, <3>1 DEF ByThread, ByTree, B2N, HoldPCs
    <2>9. ASSUME NEW d \in Clusters
          PROVE  /\ clu'[d].ref - ByThread(t, d)' - ByTree(d)' = clu[d].ref - ByThread(t, d) - ByTree(d)
                 /\ clu'[d].index = clu[d].index \/ ByTree(d) + ByWorker(d) = 0
                 /\ ~clu'[d].alive => clu'[d].ref = 0
      <3>1. CASE d = c
        BY <2>1, <2>2, <2>6, <2>8, <3>1 DEF B2N
      <3>2. CASE d # c
        BY Zenon, <1>0, <2>2, <2>8, <3>2 DEF B2N, CountOK
      <3> QED
        BY Zenon, <3>1, <3>2
    <2>10. \A u \in Threads \ {t} : pc[u] = "insert" => CountKept(cl[u]) /\ cl'[t] # cl[u]
      BY Zenon, <1>0, <1>4, <2>2, <2>3 DEF CountKept
    <2>11. /\ clu'[cl'[t]].alive /\ clu'[cl'[t]].ref = 1 /\ clu'[cl'[t]].index = idx'[t]
           /\ cl'[t] \notin nodes /\ (\A i \in Index : tree'[i] # cl'[t])
           /\ \A p \in Proc \ {t} : cl[p] # cl'[t]
      BY Zenon, <1>1, <1>4, <2>1, <2>2, <2>3, <2>7
    <2>12. Move(t)
      BY Zenon, <1>0, <1>1, <1>2, <2>3, <2>5, <2>9, <2>10, <2>11 DEF Move, work
    <2> QED
      BY Zenon, <2>4, <2>12
  <1> QED
    BY Zenon, <1>3, <1>4 DEF Alloc

\* A new cluster gets a reference by the tree and one by the thread.
LEMMA InsertNewMove ==
  ASSUME CInv, NEW t \in Threads, Insert(t), InsertNew(t)
  PROVE  Types' /\ Move(t)
PROOF
  <1>0. /\ Types /\ t \in Proc /\ Threads \subseteq Proc /\ Worker \in Proc /\ Worker \notin Threads
        /\ ThreadOK(t) /\ idx[t] \in Index /\ PrivateOK /\ CountOK /\ cl[t] \in Clusters
        /\ pc[t] = "insert" /\ None \notin Clusters /\ IsFiniteSet(Index)
        /\ \A u \in Threads : pc[u] = "insert" => cl[u] \in Clusters
    BY Zenon, AtHand, IndexAssumption DEF CInv, Proc, Insert
  <1>1. /\ Typed
        /\ \A d \in Clusters : /\ clu'[d].alive = clu[d].alive /\ clu'[d].index = clu[d].index
                               /\ clu'[d].ref = IF d = cl[t] THEN clu[d].ref + 2 ELSE clu[d].ref
    BY Zenon, <1>0, InsertNewFields
  <1>2. /\ tree[idx[t]] = None /\ tree' = [tree EXCEPT ![idx[t]] = cl[t]] /\ nrClus' = nrClus + 1
        /\ UNCHANGED << cl, idx, nodes, todo, scan, drops, mode, disk, err, hist >>
        /\ pc' = [pc EXCEPT ![t] = "age"]
    BY Zenon DEF InsertNew, Insert, GoTo, work
  <1>3. Types'
    BY <1>0, <1>1, <1>2 DEF Types, Typed, ThreadPCs, hist
  <1>4. /\ pc'[t] = "age" /\ \A q \in Proc \ {t} : pc'[q] = pc[q]
        /\ tree'[idx[t]] = cl[t] /\ \A i \in Index \ {idx[t]} : tree'[i] = tree[i]
    BY Zenon, <1>0, <1>2 DEF Types
  <1>5. ThreadOK(t)'
    BY Zenon, <1>0, <1>2, <1>4 DEF ThreadOK, HoldPCs, ThreadPCs
  <1>6. /\ \A i \in Index : tree[i] # cl[t]
        /\ clu[cl[t]].alive /\ clu[cl[t]].ref = 1 /\ clu[cl[t]].index = idx[t]
        /\ \A p \in Proc \ {t} : cl[p] # cl[t]
    BY Zenon, <1>0 DEF PrivateOK
  <1>7. nrClus' = Cardinality({ i \in Index : tree'[i] # None })
    <2> DEFINE S == { i \in Index : tree[i] # None }
               R == { i \in Index : tree'[i] # None }
    <2>1. S \in SUBSET Index /\ R \in SUBSET Index /\ idx[t] \notin S /\ idx[t] \in R
      BY Zenon, <1>0, <1>2, <1>4
    <2>2. \A i \in Index \ {idx[t]} : i \in S <=> i \in R
      BY Zenon, <1>4
    <2>3. nrClus = Cardinality(S)
      BY Zenon, <1>0 DEF CountOK
    <2> HIDE DEF S, R
    <2>4. /\ Cardinality(S) \in Nat /\ Cardinality(R) \in Nat
          /\ Cardinality(R) = Cardinality(S) - B2N(idx[t] \in S) + B2N(idx[t] \in R)
      BY <1>0, <2>1, <2>2, CardStep
    <2>5. Cardinality(R) = nrClus + 1
      BY <2>1, <2>3, <2>4 DEF B2N
    <2> QED
      BY Zenon, <1>2, <2>5 DEF R
  <1>8. ASSUME NEW c \in Clusters
        PROVE  /\ ByThread(t, c) = B2N(c = cl[t]) /\ ByThread(t, c)' = B2N(c = cl[t])
               /\ clu[c].ref \in Int
               /\ c = cl[t] => ByTree(c) = 0 /\ ByTree(c)' = 2
               /\ c # cl[t] => ByTree(c)' = ByTree(c) /\ ByTree(c) \in Nat
    <2>1. clu[c].ref \in Int
      BY Zenon, AtHand
    <2>2. ByThread(t, c) = B2N(c = cl[t]) /\ ByThread(t, c)' = B2N(c = cl[t])
      BY <1>0, <1>2, <1>4 DEF ByThread, B2N, HoldPCs
    <2>3. c = cl[t] => ByTree(c) = 0 /\ ByTree(c)' = 2
      BY <1>0, <1>4, <1>6 DEF ByTree, B2N
    <2>4. c # cl[t] => ((\E i \in Index : tree'[i] = c) <=> (\E i \in Index : tree[i] = c))
      BY <1>0, <1>2, <1>4
    <2>5. c # cl[t] => ByTree(c)' = ByTree(c) /\ ByTree(c) \in Nat
      BY <2>4 DEF ByTree, B2N
    <2> QED
      BY Zenon, <2>1, <2>2, <2>3, <2>5
  <1>9. ASSUME NEW c \in Clusters
        PROVE  /\ clu'[c].ref - ByThread(t, c)' - ByTree(c)' = clu[c].ref - ByThread(t, c) - ByTree(c)
               /\ clu'[c].index = clu[c].index
               /\ ~clu'[c].alive => clu'[c].ref = 0
    <2>1. CASE c = cl[t]
      BY <1>1, <1>6, <1>8, <2>1 DEF B2N
    <2>2. CASE c # cl[t]
      BY Zenon, <1>0, <1>1, <1>8, <2>2 DEF B2N, CountOK
    <2> QED
      BY <2>1, <2>2
  <1>10. \A u \in Threads \ {t} : pc[u] = "insert" => CountKept(cl[u]) /\ cl'[t] # cl[u]
    BY Zenon, <1>0, <1>1, <1>2, <1>6 DEF CountKept
  <1>11. Move(t)
    BY Zenon, <1>0, <1>1, <1>2, <1>4, <1>5, <1>6, <1>7, <1>9, <1>10 DEF Move
  <1> QED
    BY Zenon, <1>3, <1>11

\* A thread that comes second takes the cluster it finds and frees its own.
LEMMA InsertFoundMove ==
  ASSUME CInv, NEW t \in Threads, Insert(t), InsertFound(t)
  PROVE  Types' /\ Move(t)
PROOF
  <1>0. /\ Types /\ t \in Proc /\ Threads \subseteq Proc /\ Worker \in Proc /\ Worker \notin Threads
        /\ ThreadOK(t) /\ idx[t] \in Index /\ PrivateOK /\ CountOK /\ cl[t] \in Clusters
        /\ pc[t] = "insert" /\ None \notin Clusters
        /\ \A u \in Threads : pc[u] = "insert" => cl[u] \in Clusters
    BY Zenon, AtHand DEF CInv, Proc, Insert
  <1>1. /\ Typed /\ tree[idx[t]] \in Clusters /\ tree[idx[t]] # cl[t]
        /\ clu'[cl[t]] = Freed
        /\ \A d \in Clusters \ {cl[t]} :
             /\ clu'[d].alive = clu[d].alive /\ clu'[d].index = clu[d].index
             /\ clu'[d].ref = IF d = tree[idx[t]] THEN clu[d].ref + 1 ELSE clu[d].ref
    BY <1>0, InsertFoundFields
  <1>2. /\ cl' = [cl EXCEPT ![t] = tree[idx[t]]]
        /\ UNCHANGED << tree, nrClus, idx, nodes, todo, scan, drops, mode, disk, err, hist >>
        /\ pc' = [pc EXCEPT ![t] = "age"]
    BY Zenon DEF InsertFound, Insert, GoTo, work
  <1>3. Types'
    BY <1>0, <1>1, <1>2 DEF Types, Typed, ThreadPCs, hist
  <1>4. /\ pc'[t] = "age" /\ cl'[t] = tree[idx[t]]
        /\ \A q \in Proc \ {t} : pc'[q] = pc[q] /\ cl'[q] = cl[q]
    BY Zenon, <1>0, <1>2 DEF Types
  <1>5. ThreadOK(t)'
    BY Zenon, <1>0, <1>1, <1>2, <1>4 DEF ThreadOK, HoldPCs, ThreadPCs
  <1>6. /\ \A i \in Index : tree[i] # cl[t]
        /\ clu[cl[t]].alive /\ clu[cl[t]].ref = 1 /\ cl[t] \notin nodes
        /\ \A p \in Proc \ {t} : cl[p] # cl[t]
    BY Zenon, <1>0 DEF PrivateOK
  <1>7. Freed.ref = 0 /\ ~Freed.alive
    BY Zenon, FreedType
  <1>8. ASSUME NEW c \in Clusters
        PROVE  /\ ByThread(t, c) = B2N(c = cl[t]) /\ ByThread(t, c)' = B2N(c = tree[idx[t]])
               /\ clu[c].ref \in Int /\ ByTree(c)' = ByTree(c) /\ ByTree(c) \in Nat
               /\ c = cl[t] => ByTree(c) = 0 /\ ByWorker(c) = 0
    <2>1. clu[c].ref \in Int
      BY Zenon, AtHand
    <2>2. ByThread(t, c) = B2N(c = cl[t]) /\ ByThread(t, c)' = B2N(c = tree[idx[t]])
      BY <1>0, <1>2, <1>4 DEF ByThread, B2N, HoldPCs
    <2>3. c = cl[t] => ByTree(c) = 0 /\ ByWorker(c) = 0
      BY <1>0, <1>6 DEF ByTree, ByWorker, B2N
    <2>4. ByTree(c)' = ByTree(c) /\ ByTree(c) \in Nat
      BY <1>2 DEF ByTree, B2N
    <2> QED
      BY Zenon, <2>1, <2>2, <2>3, <2>4
  <1>9. ASSUME NEW c \in Clusters
        PROVE  /\ clu'[c].ref - ByThread(t, c)' - ByTree(c)' = clu[c].ref - ByThread(t, c) - ByTree(c)
               /\ clu'[c].index = clu[c].index \/ ByTree(c) + ByWorker(c) = 0
               /\ ~clu'[c].alive => clu'[c].ref = 0
    <2>1. CASE c = cl[t]
      BY <1>1, <1>6, <1>7, <1>8, <2>1 DEF B2N
    <2>2. CASE c = tree[idx[t]]
      <3>1. clu[c].alive
        <4>1. ByTree(c) = 2
          BY <1>0, <2>2 DEF ByTree, B2N
        <4>2. clu[c].ref >= ByTree(c) + ByWorker(c) /\ ByWorker(c) \in Nat
          BY CountBound
        <4> QED
          BY <1>0, <1>8, <4>1, <4>2 DEF CountOK
      <3>2. c # cl[t]
        BY Zenon, <1>1, <2>2
      <3> QED
        BY <1>1, <1>8, <2>2, <3>1, <3>2 DEF B2N
    <2>3. CASE c # cl[t] /\ c # tree[idx[t]]
      BY <1>0, <1>1, <1>8, <2>3 DEF B2N, CountOK
    <2> QED
      BY Zenon, <2>1, <2>2, <2>3
  <1>10. \A u \in Threads \ {t} : pc[u] = "insert" => CountKept(cl[u]) /\ cl'[t] # cl[u]
    <2> SUFFICES ASSUME NEW u \in Threads \ {t}, pc[u] = "insert"
                 PROVE  CountKept(cl[u]) /\ cl'[t] # cl[u]
      BY Zenon
    <2>1. cl[u] \in Clusters /\ idx[t] \in Index /\ u \in Proc \ {t}
      BY Zenon, <1>0 DEF Types
    <2>2. cl[u] # cl[t] /\ tree[idx[t]] # cl[u]
      BY Zenon, <1>0, <1>6, <2>1 DEF PrivateOK
    <2> QED
      BY Zenon, <1>1, <1>4, <2>1, <2>2 DEF CountKept
  <1>11. nrClus' = Cardinality({ i \in Index : tree'[i] # None })
    BY ZenonT(60), <1>0, <1>2 DEF CountOK
  <1>12. Move(t)
    BY Zenon, <1>0, <1>2, <1>4, <1>5, <1>9, <1>10, <1>11 DEF Move
  <1> QED
    BY Zenon, <1>3, <1>12

\* dio_clu_deref drops the thread's reference.
LEMMA DerefMove ==
  ASSUME CInv, NEW t \in Threads, Deref(t)
  PROVE  /\ Types' /\ Move(t)
         /\ clu[cl[t]].ref >= 1
         /\ clu[cl[t]].ref = 1 => /\ \A u \in Threads \ {t} : pc[u] \in HoldPCs => cl[u] # cl[t]
                                  /\ \A i \in Index : tree[i] # cl[t]
PROOF
  <1>0. /\ Types /\ t \in Proc /\ Threads \subseteq Proc /\ Worker \in Proc /\ Worker \notin Threads
        /\ ThreadOK(t) /\ idx[t] \in Index /\ PrivateOK /\ CountOK /\ cl[t] \in Clusters
        /\ pc[t] = "deref" /\ None \notin Clusters /\ clu[cl[t]].ref \in Int
        /\ \A u \in Threads : pc[u] = "insert" => cl[u] \in Clusters
    BY Zenon, AtHand DEF CInv, Proc, Deref, HoldPCs
  <1>1. ByThread(t, cl[t]) = 1 /\ \A c \in Clusters \ {cl[t]} : ByThread(t, c) = 0
    BY <1>0 DEF ByThread, B2N, HoldPCs
  <1>2. /\ clu[cl[t]].ref >= ByTree(cl[t]) + ByWorker(cl[t]) + 1
        /\ ByTree(cl[t]) \in Nat /\ ByWorker(cl[t]) \in Nat
        /\ \A u \in Threads \ {t} : clu[cl[t]].ref >= ByTree(cl[t]) + ByWorker(cl[t]) + 1 + ByThread(u, cl[t])
        /\ \A u \in Threads \ {t} : ByThread(u, cl[t]) \in Nat
    BY Zenon, <1>0, <1>1, CountBound
  <1>3. clu[cl[t]].ref >= 1
    BY <1>0, <1>2
  <1>4. clu[cl[t]].ref = 1 => /\ \A u \in Threads \ {t} : pc[u] \in HoldPCs => cl[u] # cl[t]
                              /\ \A i \in Index : tree[i] # cl[t]
                              /\ ByTree(cl[t]) + ByWorker(cl[t]) = 0
    <2>1. ASSUME clu[cl[t]].ref = 1
          PROVE  ByTree(cl[t]) = 0 /\ ByWorker(cl[t]) = 0 /\ \A u \in Threads \ {t} : ByThread(u, cl[t]) = 0
      BY <1>2, <2>1
    <2> QED
      BY <2>1 DEF ByTree, ByThread, B2N
  <1>5. /\ Typed
        /\ \A d \in Clusters \ {cl[t]} : Kept(d)
        /\ clu'[cl[t]].ref = clu[cl[t]].ref - 1
        /\ ~clu'[cl[t]].alive => clu'[cl[t]].ref = 0 \/ ~clu[cl[t]].alive
        /\ clu[cl[t]].ref = 1 \/ clu'[cl[t]].index = clu[cl[t]].index
        /\ pc' = [pc EXCEPT ![t] = "idle"] \/ pc' = [pc EXCEPT ![t] = "refbug"]
    <2>1. Drop(t, cl[t], "idle")
      BY Zenon DEF Deref
    <2> QED
      BY <1>0, <1>3, <2>1, DropFields
  <1>6. /\ cl' = [cl EXCEPT ![t] = None] /\ err' = [err EXCEPT ![t] = FALSE]
        /\ idx' = [idx EXCEPT ![t] = 0]
        /\ UNCHANGED << tree, nrClus, disk, nodes, todo, scan, drops, mode, hist >>
    BY Zenon DEF Deref, work
  <1>7. Types'
    BY Zenon, <1>0, <1>5, <1>6 DEF Types, Typed, ThreadPCs, hist
  <1>8. /\ pc'[t] \in {"idle", "refbug"} /\ cl'[t] = None
        /\ \A q \in Proc \ {t} : pc'[q] = pc[q] /\ cl'[q] = cl[q]
        /\ \A u \in Threads \ {t} : idx'[u] = idx[u]
    BY <1>0, <1>5, <1>6 DEF Types
  <1>9. ThreadOK(t)'
    BY Zenon, <1>0, <1>8 DEF ThreadOK, HoldPCs, ThreadPCs
  <1>10. \A c \in Clusters : /\ ByThread(t, c)' = 0 /\ ByTree(c)' = ByTree(c) /\ ByTree(c) \in Nat
                             /\ clu[c].ref \in Int
    <2>1. \A c \in Clusters : clu[c].ref \in Int
      BY Zenon, AtHand
    <2> QED
      BY <1>0, <1>6, <1>8, <2>1 DEF ByThread, ByTree, B2N
  <1>11. ASSUME NEW c \in Clusters
         PROVE  /\ clu'[c].ref - ByThread(t, c)' - ByTree(c)' = clu[c].ref - ByThread(t, c) - ByTree(c)
                /\ clu'[c].index = clu[c].index \/ ByTree(c) + ByWorker(c) = 0
                /\ ~clu'[c].alive => clu'[c].ref = 0
    <2>1. CASE c = cl[t]
      <3>1. clu[c].alive
        BY <1>0, <1>3, <2>1 DEF CountOK
      <3> QED
        BY <1>1, <1>4, <1>5, <1>10, <2>1, <3>1
    <2>2. CASE c # cl[t]
      BY ZenonT(60), <1>0, <1>1, <1>5, <1>10, <2>2 DEF CountOK, Kept, CountKept
    <2> QED
      BY Zenon, <2>1, <2>2
  <1>12. \A u \in Threads \ {t} : pc[u] = "insert" => CountKept(cl[u]) /\ cl'[t] # cl[u]
    BY <1>0, <1>5, <1>8 DEF Kept, PrivateOK
  <1>13. nrClus' = Cardinality({ i \in Index : tree'[i] # None })
    BY ZenonT(60), <1>0, <1>6 DEF CountOK
  <1>14. Move(t)
    BY Zenon, <1>6, <1>8, <1>9, <1>11, <1>12, <1>13 DEF Move
  <1> QED
    BY <1>3, <1>4, <1>7, <1>14

\* A nonempty set of indexes has a least one.
LEMMA LeastIndex ==
  ASSUME NEW S \in SUBSET Index, S # {}
  PROVE  \E j \in S : \A k \in S : j <= k
PROOF
  <1>1. S \subseteq Nat
    BY Zenon, IndexAssumption
  <1>2. PICK j \in S : \A k \in S : ~(<<k, j>> \in OpToRel(<, Nat))
    BY <1>1, NatLessThanWellFounded, WFMin, Zenon
  <1>3. \A k \in S : ~(k < j)
    BY Zenon, <1>1, <1>2 DEF OpToRel
  <1> QED
    BY <1>1, <1>3

\* What a step of the worker leaves alone.
LEMMA WorkerAlone ==
  ASSUME CInv
  PROVE  /\ Types /\ Worker \in Proc /\ Threads \subseteq Proc /\ Worker \notin Threads /\ WorkerOK
         /\ TreeOK /\ PrivateOK /\ CollectedOK /\ CountOK /\ None \notin Clusters
         /\ \A u \in Threads : pc[u] = "insert" => cl[u] \in Clusters
         /\ \A l : GoTo(Worker, l) => pc'[Worker] = l /\ \A t \in Threads : pc'[t] = pc[t]
         /\ \A c \in Clusters : clu[c].ref \in Int /\ ByTree(c) \in Nat /\ ByWorker(c) \in Nat
         /\ \A i \in Index : tree[i] # None => tree[i] \in Clusters
PROOF
  <1>1. /\ Types /\ Worker \in Proc /\ Threads \subseteq Proc /\ Worker \notin Threads
        /\ WorkerOK /\ TreeOK /\ PrivateOK /\ CollectedOK /\ CountOK /\ None \notin Clusters
        /\ \A u \in Threads : pc[u] = "insert" => cl[u] \in Clusters
    BY Zenon, AtHand DEF CInv
  <1>2. \A l : GoTo(Worker, l) => pc'[Worker] = l /\ \A t \in Threads : pc'[t] = pc[t]
    BY Zenon, <1>1 DEF Types, GoTo
  <1>3. \A c \in Clusters : clu[c].ref \in Int
    BY Zenon, AtHand
  <1>4. \A c \in Clusters : ByTree(c) \in Nat /\ ByWorker(c) \in Nat
    BY Zenon, CountBound
  <1>5. \A i \in Index : tree[i] # None => tree[i] \in Clusters
    BY Zenon, <1>1 DEF Types
  <1> QED
    BY Zenon, <1>1, <1>2, <1>3, <1>4, <1>5

\* The shrinker starts; it has collected nothing.
LEMMA ShrinkStartWork ==
  ASSUME CInv, ShrinkStart
  PROVE  Types' /\ Work
PROOF
  <1>0. /\ Types /\ Worker \in Proc /\ WorkerOK /\ TreeOK /\ PrivateOK /\ CollectedOK /\ CountOK
        /\ \A u \in Threads : pc[u] = "insert" => cl[u] \in Clusters
    BY Zenon, WorkerAlone
  <1>1. /\ pc[Worker] = "idle" /\ mode = "up" /\ pc'[Worker] = "scan" /\ scan' = Index
        /\ \A t \in Threads : pc'[t] = pc[t]
        /\ UNCHANGED << clu, tree, nrClus, cl, idx, nodes, todo, drops, mode >>
    BY Zenon, WorkerAlone DEF ShrinkStart
  <1>2. Types'
    BY Zenon, <1>0, <1>1 DEF Types, WorkerPCs, ShrinkStart, GoTo, hist
  <1>3. WorkerOK' /\ TreeOK' /\ CollectedOK'
    BY Zenon, <1>0, <1>1 DEF WorkerOK, TreeOK, CollectedOK, WorkerPCs, DropPCs
  <1>4. \A c \in Clusters : ByTree(c)' = ByTree(c) /\ ByWorker(c)' = ByWorker(c)
    BY Zenon, <1>1 DEF ByTree, ByWorker
  <1>5. nrClus' = Cardinality({ i \in Index : tree'[i] # None })
    BY Zenon, <1>0, <1>1 DEF CountOK
  <1>6. \A u \in Threads : pc[u] = "insert" =>
          /\ CountKept(cl[u]) /\ cl'[Worker] # cl[u] /\ cl[u] \notin nodes'
          /\ \A i \in Index : tree'[i] # cl[u]
    BY ZenonT(60), <1>0, <1>1, AtHand DEF PrivateOK, CountKept
  <1>7. Work
    BY Zenon, <1>0, <1>1, <1>3, <1>4, <1>5, <1>6 DEF Work, CountOK
  <1> QED
    BY Zenon, <1>2, <1>7

\* The shrinker takes one reference on what it collects, and what it collects at
\* an index it has not collected before.
LEMMA ShrinkScanWork ==
  ASSUME CInv, ShrinkScan
  PROVE  /\ Types' /\ Work
         /\ \A d \in Clusters : /\ clu'[d].alive = clu[d].alive /\ clu'[d].index = clu[d].index
                                /\ ReadKept(d) /\ BytesKept(d)
PROOF
  <1>0. /\ Types /\ Worker \in Proc /\ Threads \subseteq Proc /\ Worker \notin Threads /\ WorkerOK
        /\ TreeOK /\ PrivateOK /\ CollectedOK /\ CountOK /\ None \notin Clusters
        /\ \A u \in Threads : pc[u] = "insert" => cl[u] \in Clusters
        /\ \A c \in Clusters : clu[c].ref \in Int /\ ByTree(c) \in Nat /\ ByWorker(c) \in Nat
        /\ \A i \in Index : tree[i] # None => tree[i] \in Clusters
    BY Zenon, WorkerAlone
  <1>1. /\ pc[Worker] = "scan" /\ cl[Worker] = None /\ todo = {} /\ mode = "up"
        /\ UNCHANGED << tree, nrClus, disk, cl, idx, err, drops, mode, hist >>
    BY Zenon, <1>0 DEF ShrinkScan, WorkerOK
  <1>2. nrClus' = Cardinality({ i \in Index : tree'[i] # None })
    BY Zenon, <1>0, <1>1 DEF CountOK
  <1>3. CASE UNCHANGED << clu, nodes >> /\ UNCHANGED << pc, todo >> /\ scan' \subseteq scan
    <2>1. Types'
      BY Zenon, <1>0, <1>1, <1>3 DEF Types, hist
    <2>2. WorkerOK' /\ TreeOK' /\ CollectedOK'
      BY Zenon, <1>0, <1>1, <1>3 DEF WorkerOK, TreeOK, CollectedOK
    <2>3. \A c \in Clusters : ByTree(c)' = ByTree(c) /\ ByWorker(c)' = ByWorker(c)
      BY Zenon, <1>1, <1>3 DEF ByTree, ByWorker
    <2>4. \A u \in Threads : pc[u] = "insert" =>
            /\ CountKept(cl[u]) /\ cl'[Worker] # cl[u] /\ cl[u] \notin nodes'
            /\ \A i \in Index : tree'[i] # cl[u]
      BY Zenon, <1>0, <1>1, <1>3 DEF PrivateOK, CountKept
    <2>5. Work
      BY Zenon, <1>0, <1>1, <1>2, <1>3, <2>2, <2>3, <2>4 DEF Work, CountOK
    <2> QED
      BY Zenon, <1>3, <2>1, <2>5 DEF ReadKept, BytesKept
  <1>4. ASSUME NEW i \in scan, tree[i] # None, scan' = scan \ {i}, nodes' = nodes \cup {tree[i]},
               clu' = [clu EXCEPT ![tree[i]].ref = @ + 1], UNCHANGED << pc, todo >>
        PROVE  /\ Types' /\ Work
               /\ \A d \in Clusters : /\ clu'[d].alive = clu[d].alive /\ clu'[d].index = clu[d].index
                                      /\ ReadKept(d) /\ BytesKept(d)
    <2> DEFINE f == tree[i]
    <2>1. i \in Index /\ f \in Clusters /\ clu[f].index = i /\ clu[f] \in Cluster
      BY Zenon, <1>0, <1>4 DEF Types, TreeOK
    <2>2. f \notin nodes
      BY Zenon, <1>0, <1>1, <2>1 DEF CollectedOK
    <2>3. /\ Typed
          /\ \A d \in Clusters : /\ clu'[d].alive = clu[d].alive /\ clu'[d].index = clu[d].index
                                 /\ clu'[d].ref = IF d = f THEN clu[d].ref + 1 ELSE clu[d].ref
                                 /\ ReadKept(d) /\ BytesKept(d)
      <3>1. clu[f].pin \in Int
        BY Zenon, <2>1 DEF Cluster
      <3>2. [clu[f] EXCEPT !.ref = clu[f].ref + 1]
            = [clu[f] EXCEPT !.ref = clu[f].ref + 1, !.pin = clu[f].pin]
        BY Zenon, <2>1 DEF Cluster
      <3>3. clu' = [clu EXCEPT ![f] = [clu[f] EXCEPT !.ref = clu[f].ref + 1, !.pin = clu[f].pin]]
        BY Zenon, <1>4, <3>2
      <3> HIDE DEF f
      <3> QED
        BY Zenon, <2>1, <3>1, <3>3, IncFields
    <2>4. Types'
      BY Zenon, <1>0, <1>1, <1>4, <2>1, <2>3 DEF Types, Typed, hist
    <2>5. WorkerOK' /\ TreeOK'
      BY Zenon, <1>0, <1>1, <1>4, <2>3 DEF WorkerOK, TreeOK, DropPCs
    <2>6. CollectedOK'
      BY <1>0, <1>1, <1>4, <2>1, <2>3 DEF CollectedOK, Types
    <2>7. ASSUME NEW c \in Clusters
          PROVE  ByTree(c)' = ByTree(c) /\ ByWorker(c)' = ByWorker(c) + B2N(c = f)
      BY <1>0, <1>1, <1>4, <2>2 DEF ByTree, ByWorker, B2N
    <2>8. ASSUME NEW c \in Clusters
          PROVE  clu'[c].ref - ByTree(c)' - ByWorker(c)' = clu[c].ref - ByTree(c) - ByWorker(c)
      BY <1>0, <2>3, <2>7 DEF B2N
    <2>9. clu[f].alive
      <3>1. ByTree(f) = 2
        BY <2>1 DEF ByTree, B2N
      <3>2. clu[f].ref >= ByTree(f) + ByWorker(f)
        BY Zenon, <2>1, CountBound
      <3> QED
        BY <1>0, <2>1, <3>1, <3>2 DEF CountOK
    <2>10. \A c \in Clusters : ~clu'[c].alive => clu'[c].ref = 0
      BY Zenon, <1>0, <2>3, <2>9 DEF CountOK
    <2>11. \A u \in Threads : pc[u] = "insert" =>
             /\ CountKept(cl[u]) /\ cl'[Worker] # cl[u] /\ cl[u] \notin nodes'
             /\ \A j \in Index : tree'[j] # cl[u]
      BY <1>0, <1>1, <1>4, <2>1, <2>3 DEF PrivateOK, CountKept
    <2>12. Work
      BY Zenon, <1>0, <1>1, <1>2, <1>4, <2>5, <2>6, <2>8, <2>10, <2>11 DEF Work
    <2> QED
      BY Zenon, <2>3, <2>4, <2>12
  <1>5. CASE todo' = nodes /\ GoTo(Worker, "evict") /\ UNCHANGED << clu, scan, nodes >>
    <2>1. pc'[Worker] = "evict" /\ \A t \in Threads : pc'[t] = pc[t]
      BY Zenon, <1>5, WorkerAlone
    <2>2. Types'
      BY Zenon, <1>0, <1>1, <1>5 DEF Types, WorkerPCs, GoTo, hist
    <2>3. WorkerOK' /\ TreeOK' /\ CollectedOK'
      BY Zenon, <1>0, <1>1, <1>5, <2>1 DEF WorkerOK, TreeOK, CollectedOK, WorkerPCs, DropPCs
    <2>4. \A c \in Clusters : ByTree(c)' = ByTree(c) /\ ByWorker(c)' = ByWorker(c)
      BY Zenon, <1>1, <1>5, <2>1 DEF ByTree, ByWorker
    <2>5. \A u \in Threads : pc[u] = "insert" =>
            /\ CountKept(cl[u]) /\ cl'[Worker] # cl[u] /\ cl[u] \notin nodes'
            /\ \A i \in Index : tree'[i] # cl[u]
      BY Zenon, <1>0, <1>1, <1>5 DEF PrivateOK, CountKept
    <2>6. Work
      BY Zenon, <1>0, <1>1, <1>2, <1>5, <2>1, <2>3, <2>4, <2>5 DEF Work, CountOK
    <2> QED
      BY Zenon, <1>5, <2>2, <2>6 DEF ReadKept, BytesKept
  <1>6. CASE scan # {} /\ UNCHANGED << pc, todo >>
             /\ LET i == CHOOSE j \in scan : \A k \in scan : j <= k
                    take == tree[i] # None /\ clu[tree[i]].pin = 0
                IN  /\ scan' = scan \ {i}
                    /\ nodes' = IF take THEN nodes \cup {tree[i]} ELSE nodes
                    /\ clu' = IF take THEN [clu EXCEPT ![tree[i]].ref = @ + 1] ELSE clu
    <2> DEFINE i == CHOOSE j \in scan : \A k \in scan : j <= k
    <2>1. \E j \in scan : \A k \in scan : j <= k
      BY Zenon, <1>0, <1>6, LeastIndex DEF Types
    <2>2. i \in scan
      BY Zenon, <2>1
    <2>3. scan' = scan \ {i} /\ scan' \subseteq scan
      BY Zenon, <1>6
    <2>4. CASE tree[i] # None /\ clu[tree[i]].pin = 0
      <3>1. nodes' = nodes \cup {tree[i]} /\ clu' = [clu EXCEPT ![tree[i]].ref = @ + 1]
        BY Zenon, <1>6, <2>4
      <3> HIDE DEF i
      <3> QED
        BY Zenon, <1>4, <1>6, <2>2, <2>3, <2>4, <3>1
    <2>5. CASE ~(tree[i] # None /\ clu[tree[i]].pin = 0)
      <3>1. nodes' = nodes /\ clu' = clu
        BY <1>6, <2>5
      <3> HIDE DEF i
      <3> QED
        BY <1>3, <1>6, <2>3, <3>1
    <2> QED
      BY Zenon, <2>4, <2>5
  <1> QED
    BY Zenon, <1>5, <1>6 DEF ShrinkScan

\* The next cluster to try is one of the tree.
LEMMA EvictNextWork ==
  ASSUME CInv, EvictNext
  PROVE  Types' /\ Work
PROOF
  <1>0. /\ Types /\ Worker \in Proc /\ Threads \subseteq Proc /\ Worker \notin Threads /\ WorkerOK
        /\ TreeOK /\ PrivateOK /\ CollectedOK /\ CountOK /\ None \notin Clusters
        /\ \A u \in Threads : pc[u] = "insert" => cl[u] \in Clusters
    BY Zenon, WorkerAlone
  <1>1. /\ pc[Worker] = "evict" /\ cl[Worker] = None /\ mode = "up"
        /\ UNCHANGED << clu, tree, nrClus, disk, idx, err, nodes, scan, drops, mode, hist >>
        /\ todo' \subseteq todo
    BY Zenon, <1>0 DEF EvictNext, WorkerOK
  <1>2. \/ cl' = cl /\ pc' = pc
        \/ cl' = cl /\ GoTo(Worker, "free") /\ todo' = {}
        \/ \E c \in todo : /\ cl' = [cl EXCEPT ![Worker] = c] /\ GoTo(Worker, "delete")
                           /\ todo' = todo \ {c}
    BY Zenon DEF EvictNext
  <1>3. /\ \A t \in Threads : pc'[t] = pc[t] /\ cl'[t] = cl[t]
        /\ \/ cl'[Worker] = None /\ pc'[Worker] = "evict"
           \/ cl'[Worker] = None /\ pc'[Worker] = "free" /\ todo' = {}
           \/ cl'[Worker] \in todo /\ pc'[Worker] = "delete" /\ todo' = todo \ {cl'[Worker]}
    BY Zenon, <1>0, <1>1, <1>2 DEF Types, GoTo
  <1>4. Types'
    <2>1. cl' \in [Proc -> Clusters \cup {None}] /\ pc' \in [Proc -> ThreadPCs \cup WorkerPCs]
      BY Zenon, <1>0, <1>2 DEF Types, WorkerPCs, GoTo
    <2> QED
      BY Zenon, <1>0, <1>1, <2>1 DEF Types, hist
  <1>5. \A c \in todo : c \in Clusters /\ tree[clu[c].index] = c /\ clu[c].index \in Index
    BY Zenon, <1>0 DEF CollectedOK, Types
  <1>6. WorkerOK'
    BY Zenon, <1>0, <1>1, <1>3, <1>5 DEF WorkerOK, WorkerPCs, DropPCs
  <1>7. TreeOK'
    BY Zenon, <1>0, <1>1 DEF TreeOK
  <1>8. CollectedOK'
    BY Zenon, <1>0, <1>1, <1>3, <1>5 DEF CollectedOK
  <1>9. \A c \in Clusters : ByTree(c)' = ByTree(c) /\ ByWorker(c)' = ByWorker(c)
    BY Zenon, <1>0, <1>1, <1>3 DEF ByTree, ByWorker
  <1>10. nrClus' = Cardinality({ i \in Index : tree'[i] # None })
    BY Zenon, <1>0, <1>1 DEF CountOK
  <1>11. \A u \in Threads : pc[u] = "insert" =>
           /\ CountKept(cl[u]) /\ cl'[Worker] # cl[u] /\ cl[u] \notin nodes'
           /\ \A i \in Index : tree'[i] # cl[u]
    BY <1>0, <1>1, <1>3, <1>5 DEF PrivateOK, CountKept
  <1>12. Work
    BY Zenon, <1>0, <1>1, <1>3, <1>6, <1>7, <1>8, <1>9, <1>10, <1>11 DEF Work, CountOK
  <1> QED
    BY Zenon, <1>4, <1>12

\* The tree at one index less.
LEMMA TreeLess ==
  ASSUME CInv, NEW i \in Index, tree[i] # None, tree' = [tree EXCEPT ![i] = None]
  PROVE  /\ nrClus - 1 = Cardinality({ j \in Index : tree'[j] # None })
         /\ \A c \in Clusters : IF c = tree[i] THEN ByTree(c) = 2 /\ ByTree(c)' = 0
                                               ELSE ByTree(c)' = ByTree(c)
         /\ tree'[i] = None /\ \A j \in Index \ {i} : tree'[j] = tree[j] /\ tree[j] # tree[i]
PROOF
  <1>0. /\ Types /\ TreeOK /\ CountOK /\ None \notin Clusters /\ IsFiniteSet(Index)
        /\ tree[i] \in Clusters
    BY AtHand, IndexAssumption DEF CInv, Types
  <1>1. tree'[i] = None /\ \A j \in Index \ {i} : tree'[j] = tree[j]
    BY Zenon, <1>0 DEF Types
  <1>2. \A j \in Index \ {i} : tree[j] # tree[i]
    BY Zenon, <1>0 DEF TreeOK
  <1>3. nrClus - 1 = Cardinality({ j \in Index : tree'[j] # None })
    <2> DEFINE S == { j \in Index : tree[j] # None }
               R == { j \in Index : tree'[j] # None }
    <2>1. S \in SUBSET Index /\ R \in SUBSET Index /\ i \in S /\ i \notin R
      BY Zenon, <1>1
    <2>2. \A j \in Index \ {i} : j \in S <=> j \in R
      BY Zenon, <1>1
    <2>3. nrClus = Cardinality(S)
      BY Zenon, <1>0 DEF CountOK
    <2> HIDE DEF S, R
    <2>4. /\ Cardinality(S) \in Nat /\ Cardinality(R) \in Nat
          /\ Cardinality(R) = Cardinality(S) - B2N(i \in S) + B2N(i \in R)
      BY <1>0, <2>1, <2>2, CardStep
    <2>5. Cardinality(R) = nrClus - 1
      BY <2>1, <2>3, <2>4 DEF B2N
    <2> QED
      BY Zenon, <2>5 DEF R
  <1>4. ASSUME NEW c \in Clusters, c = tree[i] PROVE ByTree(c) = 2 /\ ByTree(c)' = 0
    <2>1. ~(\E j \in Index : tree'[j] = c) /\ \E j \in Index : tree[j] = c
      BY Zenon, <1>0, <1>1, <1>2, <1>4
    <2> QED
      BY <2>1 DEF ByTree, B2N
  <1>5. ASSUME NEW c \in Clusters, c # tree[i] PROVE ByTree(c)' = ByTree(c)
    <2>1. (\E j \in Index : tree'[j] = c) <=> (\E j \in Index : tree[j] = c)
      BY Zenon, <1>0, <1>1, <1>5
    <2> QED
      BY Zenon, <2>1 DEF ByTree, B2N
  <1> QED
    BY Zenon, <1>1, <1>2, <1>3, <1>4, <1>5

\* Eviction takes the collected cluster out of the tree; the worker has the two
\* references of the tree to drop.
LEMMA EvictDeleteWork ==
  ASSUME CInv, EvictDelete
  PROVE  Types' /\ Work /\ pc'[Worker] = "sync"
PROOF
  <1>0. /\ Types /\ Worker \in Proc /\ Threads \subseteq Proc /\ Worker \notin Threads /\ WorkerOK
        /\ TreeOK /\ PrivateOK /\ CollectedOK /\ CountOK /\ None \notin Clusters
        /\ \A u \in Threads : pc[u] = "insert" => cl[u] \in Clusters
        /\ \A c \in Clusters : clu[c].ref \in Int /\ ByTree(c) \in Nat /\ ByWorker(c) \in Nat
    BY Zenon, WorkerAlone
  <1> DEFINE w == cl[Worker]
             i == clu[w].index
  <1>1. pc[Worker] = "delete" /\ w \in Clusters /\ i \in Index /\ tree[i] = w /\ w \notin todo /\ mode = "up"
    BY Zenon, <1>0 DEF EvictDelete, CollectedOK, WorkerOK
  <1>2. /\ tree' = [tree EXCEPT ![i] = None] /\ GoTo(Worker, "sync") /\ nrClus' = nrClus - 1 /\ drops' = 2
        /\ UNCHANGED << clu, disk, cl, idx, err, nodes, todo, scan, mode, hist >>
    BY Zenon, <1>1 DEF EvictDelete
  <1>3. pc'[Worker] = "sync" /\ \A t \in Threads : pc'[t] = pc[t]
    BY Zenon, <1>2, WorkerAlone
  <1>4. Types'
    <2>1. tree' \in [Index -> Clusters \cup {None}]
      BY Zenon, <1>0, <1>2 DEF Types
    <2>2. pc' \in [Proc -> ThreadPCs \cup WorkerPCs]
      BY Zenon, <1>0, <1>2 DEF Types, WorkerPCs, GoTo
    <2> QED
      BY <1>0, <1>2, <2>1, <2>2 DEF Types, hist
  <1>5. /\ nrClus - 1 = Cardinality({ j \in Index : tree'[j] # None })
        /\ \A c \in Clusters : IF c = w THEN ByTree(c) = 2 /\ ByTree(c)' = 0
                                        ELSE ByTree(c)' = ByTree(c)
        /\ tree'[i] = None /\ \A j \in Index \ {i} : tree'[j] = tree[j] /\ tree[j] # w
    <2>1. tree[i] # None
      BY ZenonT(60), <1>0, <1>1
    <2> HIDE DEF i, w
    <2> QED
      BY Zenon, <1>1, <1>2, <2>1, TreeLess
  <1>6. WorkerOK'
    BY <1>0, <1>1, <1>2, <1>3 DEF WorkerOK, WorkerPCs, DropPCs
  <1>7. TreeOK'
    BY ZenonT(60), <1>0, <1>2, <1>5 DEF TreeOK
  <1>8. CollectedOK'
    BY <1>0, <1>1, <1>2, <1>3, <1>5 DEF CollectedOK
  <1>9. \A c \in Clusters : ByWorker(c)' = ByWorker(c) + IF c = w THEN 2 ELSE 0
    <2> SUFFICES ASSUME NEW c \in Clusters
                 PROVE  ByWorker(c)' = ByWorker(c) + IF c = w THEN 2 ELSE 0
      BY Zenon
    <2>1. "sync" # "delete"
      OBVIOUS
    <2>2. ByWorker(c) = B2N(c \in nodes) + 0
      BY Zenon, <1>1 DEF ByWorker
    <2>3. ByWorker(c)' = B2N(c \in nodes) + IF c = w THEN 2 ELSE 0
      BY Zenon, <1>2, <1>3, <2>1 DEF ByWorker
    <2>4. B2N(c \in nodes) \in {0, 1}
      BY Zenon DEF B2N
    <2> QED
      BY <2>2, <2>3, <2>4
  <1>10. \A c \in Clusters : clu'[c].ref - ByTree(c)' - ByWorker(c)' = clu[c].ref - ByTree(c) - ByWorker(c)
    BY <1>0, <1>2, <1>5, <1>9
  <1>11. \A u \in Threads : pc[u] = "insert" =>
           /\ CountKept(cl[u]) /\ cl'[Worker] # cl[u] /\ cl[u] \notin nodes'
           /\ \A j \in Index : tree'[j] # cl[u]
    <2>1. \A u \in Threads : pc[u] = "insert" =>
            /\ cl[u] \notin nodes /\ (\A j \in Index : tree[j] # cl[u])
            /\ \A p \in Proc \ {u} : cl[p] # cl[u]
      BY Zenon, <1>0 DEF PrivateOK
    <2>2. \A u \in Threads : pc[u] = "insert" => u # Worker /\ Worker \in Proc /\ cl[u] # None
      BY Zenon, <1>0
    <2>3. \A u \in Threads : pc[u] = "insert" => \A j \in Index : tree'[j] # cl[u]
      BY ZenonT(60), <1>5, <2>1, <2>2
    <2> QED
      BY Zenon, <1>2, <2>1, <2>2, <2>3 DEF CountKept
  <1>12. Work
    BY Zenon, <1>0, <1>2, <1>3, <1>5, <1>6, <1>7, <1>8, <1>10, <1>11 DEF Work, CountOK
  <1> QED
    BY Zenon, <1>3, <1>4, <1>12

\* The removal of the device takes a cluster out of the tree and takes a
\* reference of its own.
LEMMA ReleaseNextWork ==
  ASSUME CInv, ReleaseNext
  PROVE  /\ Types' /\ Work /\ pc'[Worker] \in {"sync", "idle"}
         /\ \A d \in Clusters : /\ clu'[d].alive = clu[d].alive /\ clu'[d].index = clu[d].index
                                /\ ReadKept(d) /\ BytesKept(d)
PROOF
  <1>0. /\ Types /\ Worker \in Proc /\ Threads \subseteq Proc /\ Worker \notin Threads /\ WorkerOK
        /\ TreeOK /\ PrivateOK /\ CollectedOK /\ CountOK /\ None \notin Clusters
        /\ \A u \in Threads : pc[u] = "insert" => cl[u] \in Clusters
        /\ \A c \in Clusters : clu[c].ref \in Int /\ ByTree(c) \in Nat /\ ByWorker(c) \in Nat
        /\ \A i \in Index : tree[i] # None => tree[i] \in Clusters
    BY Zenon, WorkerAlone
  <1>1. /\ pc[Worker] = "rel" /\ cl[Worker] = None /\ mode # "up" /\ nodes = {} /\ todo = {}
        /\ UNCHANGED << disk, idx, err, nodes, todo, scan, hist >>
    BY Zenon, <1>0 DEF ReleaseNext, WorkerOK
  <1>2. ASSUME NEW i \in Index, tree[i] # None,
               clu' = [clu EXCEPT ![tree[i]].ref = @ + 1, ![tree[i]].pin = 0],
               cl' = [cl EXCEPT ![Worker] = tree[i]], tree' = [tree EXCEPT ![i] = None],
               nrClus' = nrClus - 1, drops' = 3, GoTo(Worker, "sync"), UNCHANGED mode
        PROVE  /\ Types' /\ Work /\ pc'[Worker] \in {"sync", "idle"}
               /\ \A d \in Clusters : /\ clu'[d].alive = clu[d].alive /\ clu'[d].index = clu[d].index
                                      /\ ReadKept(d) /\ BytesKept(d)
    <2> DEFINE f == tree[i]
    <2>1. f \in Clusters /\ clu[f] \in Cluster /\ clu[f].index = i /\ clu \in [Clusters -> Cluster]
      BY Zenon, <1>0, <1>2 DEF Types, TreeOK
    <2>2. /\ Typed
          /\ \A d \in Clusters : /\ clu'[d].alive = clu[d].alive /\ clu'[d].index = clu[d].index
                                 /\ clu'[d].ref = IF d = f THEN clu[d].ref + 1 ELSE clu[d].ref
                                 /\ ReadKept(d) /\ BytesKept(d)
      <3> DEFINE zero == 0
      <3>1. clu' = [clu EXCEPT ![f] = [clu[f] EXCEPT !.ref = clu[f].ref + 1, !.pin = zero]]
        BY Zenon, <1>2, <2>1 DEF Cluster
      <3>2. zero \in Int
        OBVIOUS
      <3> HIDE DEF f, zero
      <3> QED
        BY Zenon, <2>1, <3>1, <3>2, IncFields
    <2>3. pc'[Worker] = "sync" /\ \A t \in Threads : pc'[t] = pc[t]
      BY Zenon, <1>2, WorkerAlone
    <2>4. cl'[Worker] = f /\ \A t \in Threads : cl'[t] = cl[t]
      BY Zenon, <1>0, <1>2 DEF Types
    <2>5. Types'
      <3>1. tree' \in [Index -> Clusters \cup {None}] /\ cl' \in [Proc -> Clusters \cup {None}]
        BY Zenon, <1>0, <1>2, <2>1 DEF Types
      <3>2. pc' \in [Proc -> ThreadPCs \cup WorkerPCs]
        BY Zenon, <1>0, <1>2 DEF Types, WorkerPCs, GoTo
      <3> QED
        BY <1>0, <1>1, <1>2, <2>2, <3>1, <3>2 DEF Types, Typed, hist
    <2>6. /\ nrClus - 1 = Cardinality({ j \in Index : tree'[j] # None })
          /\ \A c \in Clusters : IF c = f THEN ByTree(c) = 2 /\ ByTree(c)' = 0
                                          ELSE ByTree(c)' = ByTree(c)
          /\ tree'[i] = None /\ \A j \in Index \ {i} : tree'[j] = tree[j] /\ tree[j] # f
      BY Zenon, <1>2, TreeLess
    <2>7. WorkerOK'
      BY <1>0, <1>1, <1>2, <2>1, <2>3, <2>4 DEF WorkerOK, WorkerPCs, DropPCs
    <2>8. TreeOK' /\ CollectedOK'
      BY <1>0, <1>1, <2>2, <2>3, <2>6 DEF TreeOK, CollectedOK
    <2>9. \A c \in Clusters : ByWorker(c)' = ByWorker(c) + IF c = f THEN 3 ELSE 0
      BY <1>0, <1>1, <1>2, <2>3, <2>4 DEF ByWorker, B2N
    <2>10. ASSUME NEW c \in Clusters
           PROVE  clu'[c].ref - ByTree(c)' - ByWorker(c)' = clu[c].ref - ByTree(c) - ByWorker(c)
      BY <1>0, <2>2, <2>6, <2>9
    <2>11. clu[f].alive
      <3>1. clu[f].ref >= ByTree(f) + ByWorker(f)
        BY Zenon, <2>1, CountBound
      <3> QED
        BY <1>0, <2>1, <2>6, <3>1 DEF CountOK
    <2>12. \A c \in Clusters : ~clu'[c].alive => clu'[c].ref = 0
      BY Zenon, <1>0, <2>2, <2>11 DEF CountOK
    <2>13. \A u \in Threads : pc[u] = "insert" =>
             /\ CountKept(cl[u]) /\ cl'[Worker] # cl[u] /\ cl[u] \notin nodes'
             /\ \A j \in Index : tree'[j] # cl[u]
      BY <1>0, <1>1, <1>2, <2>1, <2>2, <2>4, <2>6 DEF PrivateOK, CountKept
    <2>14. Work
      BY ZenonT(60), <1>1, <1>2, <2>3, <2>4, <2>6, <2>7, <2>8, <2>10, <2>12, <2>13 DEF Work
    <2> QED
      BY Zenon, <2>2, <2>3, <2>5, <2>14
  <1>3. ASSUME \A i \in Index : tree[i] = None, GoTo(Worker, IF nrClus = 0 THEN "idle" ELSE "bug"),
               mode' = "gone", UNCHANGED << clu, cl, tree, nrClus, drops >>
        PROVE  /\ Types' /\ Work /\ pc'[Worker] \in {"sync", "idle"}
               /\ \A d \in Clusters : /\ clu'[d].alive = clu[d].alive /\ clu'[d].index = clu[d].index
                                      /\ ReadKept(d) /\ BytesKept(d)
    <2>1. nrClus = 0
      <3>1. { i \in Index : tree[i] # None } = {}
        BY Zenon, <1>3
      <3> QED
        BY Zenon, <1>0, <3>1, FS_EmptySet DEF CountOK
    <2>2. GoTo(Worker, "idle")
      BY Zenon, <1>3, <2>1
    <2>3. pc'[Worker] = "idle" /\ \A t \in Threads : pc'[t] = pc[t]
      BY Zenon, <2>2, WorkerAlone
    <2>4. Types'
      BY Zenon, <1>0, <1>1, <1>3, <2>2 DEF Types, WorkerPCs, GoTo, hist
    <2>5. WorkerOK' /\ TreeOK' /\ CollectedOK'
      BY Zenon, <1>0, <1>1, <1>3, <2>3 DEF WorkerOK, TreeOK, CollectedOK, WorkerPCs, DropPCs
    <2>6. \A c \in Clusters : ByTree(c)' = ByTree(c) /\ ByWorker(c)' = ByWorker(c)
      BY Zenon, <1>1, <1>3, <2>3 DEF ByTree, ByWorker
    <2>7. nrClus' = Cardinality({ i \in Index : tree'[i] # None })
      BY Zenon, <1>0, <1>3 DEF CountOK
    <2>8. \A u \in Threads : pc[u] = "insert" =>
            /\ CountKept(cl[u]) /\ cl'[Worker] # cl[u] /\ cl[u] \notin nodes'
            /\ \A i \in Index : tree'[i] # cl[u]
      BY Zenon, <1>0, <1>1, <1>3 DEF PrivateOK, CountKept
    <2>9. Work
      BY Zenon, <1>0, <1>1, <1>3, <2>3, <2>5, <2>6, <2>7, <2>8 DEF Work, CountOK
    <2> QED
      BY <1>3, <2>3, <2>4, <2>9 DEF ReadKept, BytesKept
  <1> QED
    BY Zenon, <1>2, <1>3 DEF ReleaseNext

\* The worker drops one of the references it has; the last one of all frees the
\* cluster, which nobody else has then.
LEMMA WorkerDropWork ==
  ASSUME CInv, WorkerDrop
  PROVE  /\ Types' /\ Work
         /\ cl[Worker] \in Clusters /\ clu[cl[Worker]].ref >= 1 /\ pc'[Worker] # "bug"
         /\ clu[cl[Worker]].ref = 1 => /\ \A u \in Threads : pc[u] \in HoldPCs => cl[u] # cl[Worker]
                                       /\ \A i \in Index : tree[i] # cl[Worker]
PROOF
  <1>0. /\ Types /\ Worker \in Proc /\ Threads \subseteq Proc /\ Worker \notin Threads /\ WorkerOK
        /\ TreeOK /\ PrivateOK /\ CollectedOK /\ CountOK /\ None \notin Clusters
        /\ \A u \in Threads : pc[u] = "insert" => cl[u] \in Clusters
        /\ \A c \in Clusters : clu[c].ref \in Int /\ ByTree(c) \in Nat /\ ByWorker(c) \in Nat
        /\ \A i \in Index : tree[i] # None => tree[i] \in Clusters
    BY Zenon, WorkerAlone
  <1>1. /\ pc[Worker] = "drop" /\ cl[Worker] \in Clusters /\ drops > 0 /\ drops \in Nat
        /\ mode # "up" => nodes = {} /\ todo = {}
    BY Zenon, <1>0 DEF WorkerDrop, WorkerOK, DropPCs, Types
  <1>2. PICK w \in Clusters : w = cl[Worker]
    BY Zenon, <1>1
  <1>3. /\ ByWorker(w) = B2N(w \in nodes) + drops /\ clu[w].ref >= ByTree(w) + ByWorker(w)
        /\ \A u \in Threads : clu[w].ref >= ByTree(w) + ByWorker(w) + ByThread(u, w)
        /\ \A u \in Threads : ByThread(u, w) \in Nat
    BY Zenon, <1>1, <1>2, CountBound DEF ByWorker
  <1>4. clu[w].ref >= 1 /\ clu[w].alive
    <2>1. clu[w].ref >= 1
      BY <1>0, <1>1, <1>3 DEF B2N
    <2> QED
      BY <1>0, <2>1 DEF CountOK
  <1>5. clu[w].ref = 1 => /\ \A u \in Threads : pc[u] \in HoldPCs => cl[u] # w
                          /\ \A i \in Index : tree[i] # w
    <2>1. ASSUME clu[w].ref = 1
          PROVE  ByTree(w) = 0 /\ \A u \in Threads : ByThread(u, w) = 0
      BY <1>0, <1>1, <1>3, <2>1 DEF B2N
    <2> QED
      BY <2>1 DEF ByTree, ByThread, B2N
  <1> DEFINE next == IF drops > 1 THEN "drop" ELSE IF mode = "up" THEN "evict" ELSE "rel"
  <1>6. /\ Typed
        /\ \A d \in Clusters \ {w} : Kept(d)
        /\ clu'[w].ref = clu[w].ref - 1
        /\ ~clu'[w].alive => clu'[w].ref = 0 \/ ~clu[w].alive
        /\ clu[w].ref = 1 \/ clu'[w].index = clu[w].index
        /\ pc' = [pc EXCEPT ![Worker] = next] \/ pc' = [pc EXCEPT ![Worker] = "refbug"]
    <2>1. Drop(Worker, w, next)
      BY Zenon, <1>2 DEF WorkerDrop
    <2> HIDE DEF next
    <2> QED
      BY Zenon, <1>0, <1>4, <2>1, DropFields
  <1>7. /\ drops' = drops - 1 /\ cl' = (IF drops > 1 THEN cl ELSE [cl EXCEPT ![Worker] = None])
        /\ err' = [err EXCEPT ![Worker] = FALSE]
        /\ UNCHANGED << tree, nrClus, disk, idx, nodes, todo, scan, mode, hist >>
    BY Zenon DEF WorkerDrop
  <1>8. /\ pc'[Worker] = next \/ pc'[Worker] = "refbug"
        /\ cl'[Worker] = IF drops > 1 THEN w ELSE None
        /\ \A t \in Threads : pc'[t] = pc[t] /\ cl'[t] = cl[t]
    BY Zenon, <1>0, <1>2, <1>6, <1>7 DEF Types
  <1>9. Types'
    <2>1. cl' \in [Proc -> Clusters \cup {None}] /\ drops' \in Nat /\ err' \in [Proc -> BOOLEAN]
      BY <1>0, <1>1, <1>7 DEF Types
    <2>2. pc' \in [Proc -> ThreadPCs \cup WorkerPCs]
      BY ZenonT(60), <1>0, <1>6 DEF Types, WorkerPCs
    <2> QED
      BY Zenon, <1>0, <1>6, <1>7, <2>1, <2>2 DEF Types, Typed, hist
  <1>10. WorkerOK'
    BY <1>0, <1>1, <1>2, <1>7, <1>8 DEF WorkerOK, WorkerPCs, DropPCs
  <1>11. \A c \in Clusters : (\E i \in Index : tree[i] = c) => clu'[c].index = clu[c].index
    BY Zenon, <1>5, <1>6 DEF Kept, CountKept
  <1>12. TreeOK'
    BY ZenonT(60), <1>0, <1>7, <1>11 DEF TreeOK
  <1>13. CollectedOK'
    <2>1. \A c \in todo : /\ c \in Clusters /\ tree[clu[c].index] = c /\ clu[c].index \in Index
                          /\ clu'[c].index = clu[c].index
      BY Zenon, <1>0, <1>11 DEF CollectedOK, Types
    <2>2. pc'[Worker] \notin {"scan", "delete"}
      BY Zenon, <1>8
    <2> QED
      BY <1>7, <2>1, <2>2 DEF CollectedOK
  <1>14. \A c \in Clusters : /\ ByTree(c)' = ByTree(c)
                             /\ ByWorker(c)' = ByWorker(c) - B2N(c = w)
    <2>1. \A c \in Clusters : ByTree(c)' = ByTree(c)
      BY Zenon, <1>7 DEF ByTree
    <2>2. ASSUME NEW c \in Clusters PROVE ByWorker(c)' = ByWorker(c) - B2N(c = w)
      <3>1. pc'[Worker] # "delete" /\ pc[Worker] # "delete"
        BY Zenon, <1>1, <1>8
      <3>2. B2N(c \in nodes) \in Nat
        BY Zenon DEF B2N
      <3>3. /\ ByWorker(c) = B2N(c \in nodes) + IF c = w THEN drops ELSE 0
            /\ ByWorker(c)' = B2N(c \in nodes) + IF c = w THEN drops - 1 ELSE 0
        BY <1>0, <1>1, <1>2, <1>7, <1>8, <3>1 DEF ByWorker
      <3> QED
        BY <1>1, <3>2, <3>3 DEF B2N
    <2> QED
      BY Zenon, <2>1, <2>2
  <1>15. ASSUME NEW c \in Clusters
         PROVE  /\ clu'[c].ref - ByTree(c)' - ByWorker(c)' = clu[c].ref - ByTree(c) - ByWorker(c)
                /\ ~clu'[c].alive => clu'[c].ref = 0
    <2>1. CASE c = w
      BY <1>0, <1>4, <1>6, <1>14, <2>1 DEF B2N
    <2>2. CASE c # w
      BY <1>0, <1>6, <1>14, <2>2 DEF B2N, Kept, CountKept, CountOK
    <2> QED
      BY Zenon, <2>1, <2>2
  <1>16. \A u \in Threads : pc[u] = "insert" =>
           /\ CountKept(cl[u]) /\ cl'[Worker] # cl[u] /\ cl[u] \notin nodes'
           /\ \A i \in Index : tree'[i] # cl[u]
    BY <1>0, <1>2, <1>6, <1>7, <1>8 DEF PrivateOK, Kept
  <1>17. nrClus' = Cardinality({ i \in Index : tree'[i] # None })
    BY Zenon, <1>0, <1>7 DEF CountOK
  <1>18. Work
    BY Zenon, <1>7, <1>8, <1>10, <1>12, <1>13, <1>15, <1>16, <1>17 DEF Work
  <1> QED
    BY Zenon, <1>1, <1>2, <1>4, <1>5, <1>8, <1>9, <1>18

\* The references of the collection, one by one.
LEMMA FreeNodesWork ==
  ASSUME CInv, FreeNodes
  PROVE  /\ Types' /\ Work /\ pc'[Worker] # "bug"
         /\ \/ clu' = clu
            \/ \E c \in Clusters :
                 /\ \A d \in Clusters \ {c} : Kept(d)
                 /\ (ReadKept(c) /\ BytesKept(c)) \/ clu'[c] = Freed
                 /\ clu'[c] = Freed => /\ \A u \in Threads : pc[u] \in HoldPCs => cl[u] # c
                                       /\ \A i \in Index : tree[i] # c
PROOF
  <1>0. /\ Types /\ Worker \in Proc /\ Threads \subseteq Proc /\ Worker \notin Threads /\ WorkerOK
        /\ TreeOK /\ PrivateOK /\ CollectedOK /\ CountOK /\ None \notin Clusters
        /\ \A u \in Threads : pc[u] = "insert" => cl[u] \in Clusters
        /\ \A c \in Clusters : clu[c].ref \in Int /\ ByTree(c) \in Nat /\ ByWorker(c) \in Nat
        /\ \A i \in Index : tree[i] # None => tree[i] \in Clusters
    BY Zenon, WorkerAlone
  <1>1. /\ pc[Worker] = "free" /\ cl[Worker] = None /\ mode = "up" /\ todo = {}
        /\ UNCHANGED << tree, nrClus, disk, cl, idx, err, todo, scan, drops, mode, hist >>
    BY Zenon, <1>0 DEF FreeNodes, WorkerOK
  <1>2. nrClus' = Cardinality({ i \in Index : tree'[i] # None })
    BY Zenon, <1>0, <1>1 DEF CountOK
  <1>3. CASE nodes = {} /\ GoTo(Worker, "idle") /\ UNCHANGED << clu, nodes >>
    <2>1. pc'[Worker] = "idle" /\ \A t \in Threads : pc'[t] = pc[t]
      BY <1>3, WorkerAlone
    <2>2. Types'
      <3>1. pc' \in [Proc -> ThreadPCs \cup WorkerPCs]
        BY ZenonT(60), <1>0, <1>3 DEF Types, WorkerPCs, GoTo
      <3> QED
        BY Zenon, <1>0, <1>1, <1>3, <3>1 DEF Types, hist
    <2>3. WorkerOK' /\ TreeOK' /\ CollectedOK'
      BY <1>0, <1>1, <1>3, <2>1 DEF WorkerOK, TreeOK, CollectedOK, WorkerPCs, DropPCs
    <2>4. \A c \in Clusters : ByTree(c)' = ByTree(c) /\ ByWorker(c)' = ByWorker(c)
      BY Zenon, <1>1, <1>3, <2>1 DEF ByTree, ByWorker
    <2>5. \A u \in Threads : pc[u] = "insert" =>
            /\ CountKept(cl[u]) /\ cl'[Worker] # cl[u] /\ cl[u] \notin nodes'
            /\ \A i \in Index : tree'[i] # cl[u]
      BY Zenon, <1>0, <1>1, <1>3 DEF PrivateOK, CountKept
    <2>6. Work
      BY Zenon, <1>0, <1>1, <1>2, <1>3, <2>1, <2>3, <2>4, <2>5 DEF Work, CountOK
    <2> QED
      BY Zenon, <1>3, <2>1, <2>2, <2>6
  <1>4. ASSUME NEW c \in nodes, nodes' = nodes \ {c}, Drop(Worker, c, "free")
        PROVE  /\ Types' /\ Work /\ pc'[Worker] # "bug"
               /\ \A d \in Clusters \ {c} : Kept(d)
               /\ (ReadKept(c) /\ BytesKept(c)) \/ clu'[c] = Freed
               /\ clu'[c] = Freed => /\ \A u \in Threads : pc[u] \in HoldPCs => cl[u] # c
                                     /\ \A i \in Index : tree[i] # c
    <2>1. c \in Clusters
      BY Zenon, <1>0 DEF Types
    <2>2. /\ ByWorker(c) = 1 /\ clu[c].ref >= ByTree(c) + ByWorker(c)
          /\ \A u \in Threads : clu[c].ref >= ByTree(c) + ByWorker(c) + ByThread(u, c)
          /\ \A u \in Threads : ByThread(u, c) \in Nat
      <3>1. ByWorker(c) = 1
        BY <1>0, <1>1, <2>1 DEF ByWorker, B2N
      <3> QED
        BY ZenonT(60), <2>1, <3>1, CountBound
    <2>3. clu[c].ref >= 1 /\ clu[c].alive
      BY <1>0, <2>1, <2>2 DEF CountOK
    <2>4. clu[c].ref = 1 => /\ \A u \in Threads : pc[u] \in HoldPCs => cl[u] # c
                            /\ \A i \in Index : tree[i] # c
      <3>1. ASSUME clu[c].ref = 1
            PROVE  ByTree(c) = 0 /\ \A u \in Threads : ByThread(u, c) = 0
        BY <1>0, <2>1, <2>2, <3>1
      <3> QED
        BY <3>1 DEF ByTree, ByThread, B2N
    <2>5. /\ Typed
          /\ \A d \in Clusters \ {c} : Kept(d)
          /\ clu'[c].ref = clu[c].ref - 1
          /\ ~clu'[c].alive => clu'[c].ref = 0 \/ ~clu[c].alive
          /\ \/ clu[c].ref = 1 /\ clu'[c] = Freed
             \/ ReadKept(c) /\ BytesKept(c) /\ clu'[c].index = clu[c].index /\ clu'[c].alive = clu[c].alive
          /\ pc' = [pc EXCEPT ![Worker] = "free"] \/ pc' = [pc EXCEPT ![Worker] = "refbug"]
      BY Zenon, <1>0, <1>4, <2>1, <2>3, DropFields
    <2>6. clu'[c] = Freed => clu[c].ref = 1
      <3>1. Freed.ref = 0
        BY Zenon, FreedType
      <3> QED
        BY <1>0, <2>1, <2>5, <3>1
    <2>7. pc'[Worker] \in {"free", "refbug"} /\ \A t \in Threads : pc'[t] = pc[t]
      BY Zenon, <1>0, <2>5 DEF Types
    <2>8. Types'
      <3>1. pc' \in [Proc -> ThreadPCs \cup WorkerPCs]
        BY Zenon, <1>0, <2>5 DEF Types, WorkerPCs
      <3> QED
        BY Zenon, <1>0, <1>1, <1>4, <2>5, <3>1 DEF Types, Typed, hist
    <2>9. WorkerOK'
      BY Zenon, <1>0, <1>1, <2>7 DEF WorkerOK, WorkerPCs, DropPCs
    <2>10. \A d \in Clusters : (\E i \in Index : tree[i] = d) => clu'[d].index = clu[d].index
      BY Zenon, <2>4, <2>5 DEF Kept, CountKept
    <2>11. TreeOK' /\ CollectedOK'
      BY Zenon, <1>0, <1>1, <2>7, <2>10 DEF TreeOK, CollectedOK
    <2>12. \A d \in Clusters : ByTree(d)' = ByTree(d) /\ ByWorker(d)' = ByWorker(d) - B2N(d = c)
      <3> SUFFICES ASSUME NEW d \in Clusters
                   PROVE  ByTree(d)' = ByTree(d) /\ ByWorker(d)' = ByWorker(d) - B2N(d = c)
        BY Zenon
      <3>1. ByTree(d)' = ByTree(d)
        BY Zenon, <1>1 DEF ByTree
      <3>2. cl[Worker] # d /\ cl'[Worker] # d
        BY Zenon, <1>0, <1>1
      <3>3. ByWorker(d) = B2N(d \in nodes) + 0 /\ ByWorker(d)' = B2N(d \in nodes') + 0
        BY Zenon, <3>2 DEF ByWorker
      <3>4. d \in nodes' <=> d \in nodes /\ d # c
        BY Zenon, <1>4
      <3>5. d = c => d \in nodes
        BY Zenon, <1>4
      <3> QED
        BY <3>1, <3>3, <3>4, <3>5 DEF B2N
    <2>13. ASSUME NEW d \in Clusters
           PROVE  /\ clu'[d].ref - ByTree(d)' - ByWorker(d)' = clu[d].ref - ByTree(d) - ByWorker(d)
                  /\ ~clu'[d].alive => clu'[d].ref = 0
      <3>1. CASE d = c
        <4>1. clu[c].ref \in Int /\ ByTree(c) \in Nat /\ ByWorker(c) \in Nat
          BY Zenon, <1>0, <2>1
        <4>2. /\ clu'[c].ref = clu[c].ref - 1 /\ clu[c].alive
              /\ ~clu'[c].alive => clu'[c].ref = 0 \/ ~clu[c].alive
          BY Zenon, <2>3, <2>5
        <4>3. ByTree(c)' = ByTree(c) /\ ByWorker(c)' = ByWorker(c) - 1
          BY ZenonT(60), <2>1, <2>12 DEF B2N
        <4>4. /\ clu'[c].ref - ByTree(c)' - ByWorker(c)' = clu[c].ref - ByTree(c) - ByWorker(c)
              /\ ~clu'[c].alive => clu'[c].ref = 0
          BY <4>1, <4>2, <4>3
        <4> QED
          BY Zenon, <3>1, <4>4
      <3>2. CASE d # c
        <4>1. /\ clu'[d].ref = clu[d].ref /\ clu'[d].alive = clu[d].alive
              /\ ~clu[d].alive => clu[d].ref = 0
          BY Zenon, <1>0, <2>5, <3>2 DEF Kept, CountKept, CountOK
        <4>2. ByTree(d)' = ByTree(d) /\ ByWorker(d)' = ByWorker(d) - 0
          BY Zenon, <2>12, <3>2 DEF B2N
        <4>3. ByWorker(d) \in Nat
          BY Zenon, <1>0
        <4>4. ByWorker(d)' = ByWorker(d)
          BY <4>2, <4>3
        <4> QED
          BY Zenon, <4>1, <4>2, <4>4
      <3> QED
        BY Zenon, <3>1, <3>2
    <2>14. \A u \in Threads : pc[u] = "insert" =>
             /\ CountKept(cl[u]) /\ cl'[Worker] # cl[u] /\ cl[u] \notin nodes'
             /\ \A i \in Index : tree'[i] # cl[u]
      BY Zenon, <1>0, <1>1, <1>4, <2>5 DEF PrivateOK, Kept
    <2>15. Work
      BY Zenon, <1>1, <1>2, <2>7, <2>9, <2>11, <2>13, <2>14 DEF Work
    <2> QED
      BY Zenon, <2>4, <2>5, <2>6, <2>7, <2>8, <2>15
  <1> QED
    <2>1. nodes \subseteq Clusters
      BY <1>0 DEF Types
    <2> QED
      BY Zenon, <1>3, <1>4, <2>1 DEF FreeNodes

\* The removal starts when nothing is under way, and ends before the device is
\* added again.
LEMMA ModeWork ==
  ASSUME CInv, ReleaseStart \/ Create
  PROVE  Types' /\ Work /\ pc'[Worker] # "bug"
PROOF
  <1>0. /\ Types /\ Worker \in Proc /\ Threads \subseteq Proc /\ Worker \notin Threads /\ WorkerOK
        /\ TreeOK /\ PrivateOK /\ CollectedOK /\ CountOK /\ None \notin Clusters
        /\ \A u \in Threads : pc[u] = "insert" => cl[u] \in Clusters
    BY Zenon, WorkerAlone
  <1>1. /\ pc[Worker] = "idle" /\ cl[Worker] = None /\ nodes = {} /\ todo = {}
        /\ UNCHANGED << clu, tree, nrClus, disk, cl, idx, err, nodes, todo, scan, drops, failed >>
    BY Zenon, <1>0 DEF ReleaseStart, Create, WorkerOK, hist
  <1>2. /\ \A t \in Threads : pc'[t] = pc[t]
        /\ \/ pc'[Worker] = "rel" /\ mode' = "down"
           \/ pc'[Worker] = "idle" /\ mode' = "up"
    BY Zenon, <1>0, <1>1, WorkerAlone DEF ReleaseStart, Create
  <1>3. Types'
    <2>1. pc' \in [Proc -> ThreadPCs \cup WorkerPCs]
      BY Zenon, <1>0 DEF Types, WorkerPCs, ReleaseStart, Create, GoTo
    <2>2. last' \in [Index -> SUBSET Threads] /\ unsure' \in [Index -> SUBSET Threads]
      BY <1>0 DEF Types, ReleaseStart, Create, hist
    <2> QED
      BY Zenon, <1>0, <1>1, <1>2, <2>1, <2>2 DEF Types
  <1>4. WorkerOK' /\ TreeOK' /\ CollectedOK'
    BY ZenonT(60), <1>0, <1>1, <1>2 DEF WorkerOK, TreeOK, CollectedOK, WorkerPCs, DropPCs
  <1>5. \A c \in Clusters : ByTree(c)' = ByTree(c) /\ ByWorker(c)' = ByWorker(c)
    BY <1>0, <1>1, <1>2 DEF ByTree, ByWorker
  <1>6. nrClus' = Cardinality({ i \in Index : tree'[i] # None })
    BY Zenon, <1>0, <1>1 DEF CountOK
  <1>7. \A u \in Threads : pc[u] = "insert" =>
          /\ CountKept(cl[u]) /\ cl'[Worker] # cl[u] /\ cl[u] \notin nodes'
          /\ \A i \in Index : tree'[i] # cl[u]
    <2> SUFFICES ASSUME NEW u \in Threads, pc[u] = "insert"
                 PROVE  /\ CountKept(cl[u]) /\ cl'[Worker] # cl[u] /\ cl[u] \notin nodes'
                        /\ \A i \in Index : tree'[i] # cl[u]
      BY Zenon
    <2>1. cl[u] \notin nodes /\ (\A i \in Index : tree[i] # cl[u]) /\ cl[Worker] # cl[u]
      BY Zenon, <1>0, <1>1 DEF PrivateOK
    <2> QED
      BY Zenon, <1>1, <2>1 DEF CountKept
  <1>8. Work
    <2>1. \A c \in Clusters :
            /\ clu'[c].ref - ByTree(c)' - ByWorker(c)' = clu[c].ref - ByTree(c) - ByWorker(c)
            /\ ~clu'[c].alive => clu'[c].ref = 0
      BY Zenon, <1>0, <1>1, <1>5 DEF CountOK
    <2> QED
      BY Zenon, <1>1, <1>2, <1>4, <1>6, <1>7, <2>1 DEF Work
  <1> QED
    BY Zenon, <1>2, <1>3, <1>8

(* The counts are exact, and the assertions of the cache hold.             *)
\* Every step keeps the invariant of the counts.
LEMMA CountsStep ==
  ASSUME CInv, ReadOnce, [Next]_vars
  PROVE  CInv'
PROOF
  <1>0. Threads \subseteq Proc
    BY Zenon DEF Proc
  <1>1. ASSUME NEW t \in Threads, NEW i \in Index, Get(t, i) PROVE CInv'
    <2>1. Types' /\ Calm(t)
      BY Zenon, <1>1, GetCalm
    <2> QED
      BY Zenon, <1>0, <1>1, <2>1, CalmStep
  <1>2. ASSUME NEW t \in Threads, Lookup(t) PROVE CInv'
    <2>1. Types' /\ Move(t)
      BY Zenon, <1>2, LookupMove
    <2> QED
      BY Zenon, <1>2, <2>1, MoveStep
  <1>3. ASSUME NEW t \in Threads, RefTest(t) PROVE CInv'
    <2>1. Types' /\ Calm(t)
      BY Zenon, <1>3, RefTestCalm
    <2> QED
      BY Zenon, <1>0, <1>3, <2>1, CalmStep
  <1>4. ASSUME NEW t \in Threads, RefInc(t) PROVE CInv'
    <2>1. Types' /\ Move(t)
      BY Zenon, <1>4, RefIncMove
    <2> QED
      BY Zenon, <1>4, <2>1, MoveStep
  <1>5. ASSUME NEW t \in Threads, Pin(t) PROVE CInv'
    <2>1. Types' /\ Calm(t)
      BY Zenon, <1>5, PinCalm
    <2> QED
      BY Zenon, <1>0, <1>5, <2>1, CalmStep
  <1>6. ASSUME NEW t \in Threads, Alloc(t) PROVE CInv'
    <2>1. Types' /\ Move(t)
      BY Zenon, <1>6, AllocMove
    <2> QED
      BY Zenon, <1>6, <2>1, MoveStep
  <1>7. ASSUME NEW t \in Threads, Insert(t) PROVE CInv'
    <2>1. Types' /\ Move(t)
      BY Zenon, <1>7, InsertNewMove, InsertFoundMove DEF Insert
    <2> QED
      BY Zenon, <1>7, <2>1, MoveStep
  <1>8. ASSUME NEW t \in Threads, Age(t) PROVE CInv'
    <2>1. Types' /\ Calm(t)
      BY Zenon, <1>8, AgeCalm
    <2> QED
      BY Zenon, <1>0, <1>8, <2>1, CalmStep
  <1>9. ASSUME NEW t \in Threads, GetTest(t) PROVE CInv'
    <2>1. Types' /\ Calm(t)
      BY Zenon, <1>9, GetTestCalm
    <2> QED
      BY Zenon, <1>0, <1>9, <2>1, CalmStep
  <1>10. ASSUME NEW t \in Threads, ReadStart(t) PROVE CInv'
    <2>1. Types' /\ Calm(t)
      BY Zenon, <1>10, ReadStartCalm
    <2> QED
      BY Zenon, <1>0, <1>10, <2>1, CalmStep
  <1>11. ASSUME NEW t \in Threads, ReadIo(t) PROVE CInv'
    <2>1. Types' /\ Calm(t)
      BY Zenon, <1>11, ReadIoCalm
    <2> QED
      BY Zenon, <1>0, <1>11, <2>1, CalmStep
  <1>12. ASSUME NEW t \in Threads, ReadDone(t) PROVE CInv'
    <2>1. Types' /\ Calm(t)
      BY Zenon, <1>12, ReadDoneCalm
    <2> QED
      BY Zenon, <1>0, <1>12, <2>1, CalmStep
  <1>13. ASSUME NEW t \in Threads, Wait(t) PROVE CInv'
    <2>1. Types' /\ Calm(t)
      BY Zenon, <1>13, WaitCalm
    <2> QED
      BY Zenon, <1>0, <1>13, <2>1, CalmStep
  <1>14. ASSUME NEW t \in Threads, Modify(t) PROVE CInv'
    <2>1. Types' /\ Calm(t)
      BY Zenon, <1>14, ModifyCalm
    <2> QED
      BY Zenon, <1>0, <1>14, <2>1, CalmStep
  <1>15. ASSUME NEW t \in Threads, Write(t) PROVE CInv'
    <2>1. Types' /\ Calm(t)
      BY Zenon, <1>15, WriteCalm
    <2> QED
      BY Zenon, <1>0, <1>15, <2>1, CalmStep
  <1>16. ASSUME NEW t \in Threads, Look(t) PROVE CInv'
    <2>1. Types' /\ Calm(t)
      BY Zenon, <1>16, LookCalm
    <2> QED
      BY Zenon, <1>0, <1>16, <2>1, CalmStep
  <1>17. ASSUME NEW t \in Threads, SetDirty(t) PROVE CInv'
    <2>1. Types' /\ Calm(t)
      BY Zenon, <1>17, SetDirtyCalm
    <2> QED
      BY Zenon, <1>0, <1>17, <2>1, CalmStep
  <1>18. ASSUME NEW t \in Threads, Unpin(t) PROVE CInv'
    <2>1. Types' /\ Calm(t)
      BY Zenon, <1>18, UnpinCalm
    <2> QED
      BY Zenon, <1>0, <1>18, <2>1, CalmStep
  <1>19. ASSUME NEW t \in Threads, Deref(t) PROVE CInv'
    <2>1. Types' /\ Move(t)
      BY Zenon, <1>19, DerefMove
    <2> QED
      BY Zenon, <1>19, <2>1, MoveStep
  <1>20. ASSUME NEW p \in Proc, SyncTest(p) PROVE CInv'
    <2>1. Types' /\ Calm(p)
      BY Zenon, <1>20, SyncTestCalm
    <2> QED
      BY Zenon, <1>0, <1>20, <2>1, CalmStep
  <1>21. ASSUME NEW p \in Proc, SyncLock(p) PROVE CInv'
    <2>1. Types' /\ Calm(p)
      BY Zenon, <1>21, SyncLockCalm
    <2> QED
      BY Zenon, <1>0, <1>21, <2>1, CalmStep
  <1>22. ASSUME NEW p \in Proc, SyncIo(p) PROVE CInv'
    <2>1. Types' /\ Calm(p)
      BY Zenon, <1>22, SyncIoCalm
    <2> QED
      BY Zenon, <1>0, <1>22, <2>1, CalmStep
  <1>23. ASSUME NEW p \in Proc, SyncEnd(p) PROVE CInv'
    <2>1. Types' /\ Calm(p)
      BY Zenon, <1>23, SyncEndCalm
    <2> QED
      BY Zenon, <1>0, <1>23, <2>1, CalmStep
  <1>24. ASSUME NEW p \in Proc, SyncReturn(p) PROVE CInv'
    <2>1. Types' /\ Calm(p)
      BY Zenon, <1>24, SyncReturnCalm
    <2> QED
      BY Zenon, <1>0, <1>24, <2>1, CalmStep
  <1>25. ASSUME ShrinkStart PROVE CInv'
    BY Zenon, <1>25, ShrinkStartWork, WorkStep
  <1>26. ASSUME ShrinkScan PROVE CInv'
    BY Zenon, <1>26, ShrinkScanWork, WorkStep
  <1>27. ASSUME EvictNext PROVE CInv'
    BY Zenon, <1>27, EvictNextWork, WorkStep
  <1>28. ASSUME EvictDelete PROVE CInv'
    BY Zenon, <1>28, EvictDeleteWork, WorkStep
  <1>29. ASSUME WorkerDrop PROVE CInv'
    BY Zenon, <1>29, WorkerDropWork, WorkStep
  <1>30. ASSUME FreeNodes PROVE CInv'
    BY Zenon, <1>30, FreeNodesWork, WorkStep
  <1>31. ASSUME ReleaseStart PROVE CInv'
    BY Zenon, <1>31, ModeWork, WorkStep
  <1>32. ASSUME ReleaseNext PROVE CInv'
    BY Zenon, <1>32, ReleaseNextWork, WorkStep
  <1>33. ASSUME Create PROVE CInv'
    BY Zenon, <1>33, ModeWork, WorkStep
  <1>34. CASE UNCHANGED vars
    <2>1. /\ Types' /\ TreeOK' /\ PrivateOK' /\ CollectedOK' /\ WorkerOK' /\ \A t \in Threads : ThreadOK(t)'
      BY <1>34 DEF vars, CInv, Types, TreeOK, PrivateOK, CollectedOK, WorkerOK, ThreadOK
    <2>2. \A c \in Clusters : /\ Holders(c)' = Holders(c) /\ Inserters(c)' = Inserters(c)
                              /\ ByTree(c)' = ByTree(c) /\ ByWorker(c)' = ByWorker(c)
      BY Zenon, <1>34 DEF vars, Holders, Inserters, ByTree, ByWorker
    <2> QED
      BY ZenonT(60), <1>34, <2>1, <2>2 DEF vars, CInv, CountOK
  <1> QED
    BY Zenon, <1>1, <1>2, <1>3, <1>4, <1>5, <1>6, <1>7, <1>8, <1>9, <1>10, <1>11, <1>12, <1>13,
        <1>14, <1>15, <1>16, <1>17, <1>18, <1>19, <1>20, <1>21, <1>22, <1>23, <1>24,
        <1>25, <1>26, <1>27, <1>28, <1>29, <1>30, <1>31, <1>32, <1>33, <1>34 DEF Next,
        LookupCreate, WaitRead, Use, Sync, Put, Shrink, vars

\* Every step keeps ReadOnce.
LEMMA ReadOnceStep ==
  ASSUME CInv, ReadOnce, [Next]_vars
  PROVE  ReadOnce'
PROOF
  <1>0. /\ Types /\ PrivateOK /\ Threads \subseteq Proc /\ Worker \in Proc /\ Worker \notin Threads
        /\ Proc = Threads \cup {Worker}
    BY Zenon, AtHand DEF CInv, Proc
  <1>1. ASSUME NEW t \in Threads, NEW i \in Index, Get(t, i) PROVE ReadOnce'
    <2>1. \A c \in Clusters : clu'[c].start = clu[c].start /\ clu'[c].read = clu[c].read
      BY Zenon, <1>1 DEF Get
    <2>2. \A u \in Threads : pc'[u] = "rio" => pc[u] = "rio" /\ cl'[u] = cl[u]
      BY Zenon, <1>0, <1>1 DEF Types, Get, GoTo
    <2> QED
      BY Zenon, <2>1, <2>2, ReadOnceKept
  <1>2. ASSUME NEW t \in Threads, Lookup(t) PROVE ReadOnce'
    <2>1. \A c \in Clusters : clu'[c].start = clu[c].start /\ clu'[c].read = clu[c].read
      BY Zenon, <1>2 DEF Lookup
    <2>2. \A u \in Threads : pc'[u] = "rio" => pc[u] = "rio" /\ cl'[u] = cl[u]
      BY Zenon, <1>0, <1>2 DEF Types, Lookup, GoTo
    <2> QED
      BY Zenon, <2>1, <2>2, ReadOnceKept
  <1>3. ASSUME NEW t \in Threads, RefTest(t) PROVE ReadOnce'
    <2>1. \A c \in Clusters : clu'[c].start = clu[c].start /\ clu'[c].read = clu[c].read
      BY Zenon, <1>3 DEF RefTest
    <2>2. \A u \in Threads : pc'[u] = "rio" => pc[u] = "rio" /\ cl'[u] = cl[u]
      BY Zenon, <1>0, <1>3 DEF Types, RefTest, GoTo
    <2> QED
      BY Zenon, <2>1, <2>2, ReadOnceKept
  <1>4. ASSUME NEW t \in Threads, RefInc(t) PROVE ReadOnce'
    <2>1. \A c \in Clusters : clu'[c].start = clu[c].start /\ clu'[c].read = clu[c].read
      BY Zenon, <1>4, RefIncFields DEF Kept, ReadKept
    <2>2. \A u \in Threads : pc'[u] = "rio" => pc[u] = "rio" /\ cl'[u] = cl[u]
      BY Zenon, <1>0, <1>4 DEF Types, RefInc, GoTo
    <2> QED
      BY Zenon, <2>1, <2>2, ReadOnceKept
  <1>5. ASSUME NEW t \in Threads, Pin(t) PROVE ReadOnce'
    <2>1. \A c \in Clusters : clu'[c].start = clu[c].start /\ clu'[c].read = clu[c].read
      BY Zenon, <1>5, PinFields DEF Kept, ReadKept
    <2>2. \A u \in Threads : pc'[u] = "rio" => pc[u] = "rio" /\ cl'[u] = cl[u]
      BY Zenon, <1>0, <1>5 DEF Types, Pin, GoTo
    <2> QED
      BY Zenon, <2>1, <2>2, ReadOnceKept
  <1>6. ASSUME NEW t \in Threads, Alloc(t) PROVE ReadOnce'
    <2>1. \A c \in Clusters : \/ clu'[c].start = clu[c].start /\ clu'[c].read = clu[c].read
                              \/ ~clu'[c].read /\ \A u \in Threads : pc[u] = "rio" => cl[u] # c
      <3>1. \A i \in Nat : ~New(i).read
        BY Zenon, FreedType
      <3>2. Threads \subseteq Proc /\ clu \in [Clusters -> Cluster] /\ idx[t] \in Nat
        BY Zenon, <1>0, <1>6 DEF Types
      <3> QED
        BY Zenon, <1>6, <3>1, <3>2 DEF Alloc
    <2>2. \A u \in Threads : pc'[u] = "rio" => pc[u] = "rio" /\ cl'[u] = cl[u]
      BY Zenon, <1>0, <1>6 DEF Types, Alloc, GoTo
    <2> QED
      BY Zenon, <2>1, <2>2, ReadOnceKept
  <1>7. ASSUME NEW t \in Threads, Insert(t) PROVE ReadOnce'
    <2>1. \A c \in Clusters : \/ clu'[c].start = clu[c].start /\ clu'[c].read = clu[c].read
                              \/ ~clu'[c].read /\ \A u \in Threads : pc[u] = "rio" => cl[u] # c
      <3>0. pc[t] = "insert" /\ cl[t] \in Clusters /\ \A u \in Threads \ {t} : cl[u] # cl[t]
        BY Zenon, <1>7, <1>0, AtHand DEF Insert, PrivateOK
      <3>1. CASE InsertNew(t)
        BY Zenon, <1>7, <3>0, <3>1, InsertNewFields DEF ReadKept
      <3>2. CASE InsertFound(t)
        <4>1. ~Freed.read
          BY Zenon, FreedType
        <4>2. /\ clu'[cl[t]] = Freed
              /\ \A d \in Clusters \ {cl[t]} : clu'[d].start = clu[d].start /\ clu'[d].read = clu[d].read
          <5>1. clu'[cl[t]] = Freed /\ \A d \in Clusters \ {cl[t]} : ReadKept(d)
            BY Zenon, <1>7, <3>0, <3>2, InsertFoundFields
          <5> QED
            BY Zenon, <5>1 DEF ReadKept
        <4> QED
          BY Zenon, <3>0, <4>1, <4>2
      <3> QED
        BY Zenon, <1>7, <3>1, <3>2 DEF Insert
    <2>2. \A u \in Threads : pc'[u] = "rio" => pc[u] = "rio" /\ cl'[u] = cl[u]
      BY Zenon, <1>0, <1>7 DEF Types, Insert, InsertNew, InsertFound, GoTo
    <2> QED
      BY Zenon, <2>1, <2>2, ReadOnceKept
  <1>8. ASSUME NEW t \in Threads, Age(t) PROVE ReadOnce'
    <2>1. \A c \in Clusters : clu'[c].start = clu[c].start /\ clu'[c].read = clu[c].read
      BY Zenon, <1>8 DEF Age
    <2>2. \A u \in Threads : pc'[u] = "rio" => pc[u] = "rio" /\ cl'[u] = cl[u]
      BY Zenon, <1>0, <1>8 DEF Types, Age, GoTo
    <2> QED
      BY Zenon, <2>1, <2>2, ReadOnceKept
  <1>9. ASSUME NEW t \in Threads, GetTest(t) PROVE ReadOnce'
    <2>1. \A c \in Clusters : clu'[c].start = clu[c].start /\ clu'[c].read = clu[c].read
      BY Zenon, <1>9 DEF GetTest
    <2>2. \A u \in Threads : pc'[u] = "rio" => pc[u] = "rio" /\ cl'[u] = cl[u]
      BY Zenon, <1>0, <1>9 DEF Types, GetTest, GoTo
    <2> QED
      BY Zenon, <2>1, <2>2, ReadOnceKept
  <1>10. ASSUME NEW t \in Threads, ReadStart(t) PROVE ReadOnce'
    <2>1. /\ cl[t] \in Clusters /\ pc[t] = "start" /\ cl' = cl /\ \A u \in Threads \ {t} : pc'[u] = pc[u]
          /\ \A u \in Threads : pc[u] = "rio" => cl[u] \in Clusters
      BY Zenon, <1>0, <1>10, AtHand DEF Types, ReadStart, GoTo, HoldPCs
    <2>2. \A c \in Clusters : /\ clu'[c].read = clu[c].read
                              /\ IF c = cl[t] THEN clu'[c].start ELSE clu'[c].start = clu[c].start
      BY Zenon, <1>10, ReadStartFields DEF Kept, ReadKept
    <2>3. pc'[t] = "rio" => ~clu[cl[t]].start
      BY Zenon, <1>0, <1>10 DEF Types, ReadStart, GoTo
    <2>4. \A c \in Clusters : clu'[c].read => clu'[c].start
      BY ZenonT(60), <2>2 DEF ReadOnce
    <2>5. ASSUME NEW u \in Threads, pc'[u] = "rio"
          PROVE  /\ clu'[cl'[u]].start /\ ~clu'[cl'[u]].read
                 /\ \A v \in Threads \ {u} : pc'[v] = "rio" => cl'[v] # cl'[u]
      <3>0. /\ \A c \in Clusters : clu[c].read => clu[c].start
            /\ \A v \in Threads : pc[v] = "rio" => clu[cl[v]].start /\ ~clu[cl[v]].read
            /\ \A v, w \in Threads : v # w /\ pc[v] = "rio" /\ pc[w] = "rio" => cl[v] # cl[w]
        BY Zenon DEF ReadOnce
      <3>1. CASE u = t
        <4>1. ~clu[cl[t]].start /\ clu'[cl[t]].start /\ ~clu'[cl[t]].read
          BY Zenon, <2>1, <2>2, <2>3, <2>5, <3>0, <3>1
        <4>2. \A v \in Threads \ {t} : pc'[v] = "rio" => cl[v] # cl[t]
          BY Zenon, <2>1, <3>0, <4>1
        <4> QED
          BY Zenon, <2>1, <3>1, <4>1, <4>2
      <3>2. CASE u # t
        <4>1. pc[u] = "rio" /\ cl[u] \in Clusters /\ clu[cl[u]].start /\ ~clu[cl[u]].read
          BY Zenon, <2>1, <2>5, <3>0, <3>2
        <4>2. clu'[cl[u]].start /\ ~clu'[cl[u]].read
          BY Zenon, <2>2, <4>1
        <4>3. ASSUME NEW v \in Threads \ {u}, pc'[v] = "rio" PROVE cl[v] # cl[u]
          <5>1. CASE v = t
            BY Zenon, <2>3, <4>1, <4>3, <5>1
          <5>2. CASE v # t
            BY Zenon, <2>1, <3>0, <4>1, <4>3, <5>2
          <5> QED
            BY Zenon, <5>1, <5>2
        <4> QED
          BY Zenon, <2>1, <4>2, <4>3
      <3> QED
        BY Zenon, <3>1, <3>2
    <2> QED
      BY Zenon, <2>4, <2>5 DEF ReadOnce
  <1>11. ASSUME NEW t \in Threads, ReadIo(t) PROVE ReadOnce'
    <2>1. /\ cl[t] \in Clusters /\ pc[t] = "rio" /\ cl' = cl /\ pc'[t] # "rio"
          /\ \A u \in Threads \ {t} : pc'[u] = pc[u]
          /\ \A u \in Threads : pc[u] = "rio" => cl[u] \in Clusters
      BY Zenon, <1>0, <1>11, AtHand DEF Types, ReadIo, GoTo, HoldPCs
    <2>2. \A c \in Clusters : /\ clu'[c].start = clu[c].start
                              /\ c # cl[t] => clu'[c].read = clu[c].read
      BY Zenon, <1>11, ReadIoFields DEF Kept, ReadKept
    <2>3. \A c \in Clusters : clu'[c].read => clu'[c].start
      BY Zenon, <2>1, <2>2 DEF ReadOnce
    <2>4. ASSUME NEW u \in Threads, pc'[u] = "rio"
          PROVE  /\ clu'[cl'[u]].start /\ ~clu'[cl'[u]].read
                 /\ \A v \in Threads \ {u} : pc'[v] = "rio" => cl'[v] # cl'[u]
      <3>1. u # t /\ pc[u] = "rio" /\ cl'[u] = cl[u] /\ cl[u] \in Clusters
        BY Zenon, <2>1, <2>4
      <3>2. /\ clu[cl[u]].start /\ ~clu[cl[u]].read
            /\ \A v \in Threads \ {u} : pc[v] = "rio" => cl[v] # cl[u]
        BY Zenon, <3>1 DEF ReadOnce
      <3>3. cl[u] # cl[t]
        BY Zenon, <2>1, <3>1, <3>2
      <3>4. \A v \in Threads \ {u} : pc'[v] = "rio" => cl'[v] # cl[u]
        BY Zenon, <2>1, <3>2
      <3> QED
        BY Zenon, <2>2, <3>1, <3>2, <3>3, <3>4
    <2> QED
      BY Zenon, <2>3, <2>4 DEF ReadOnce
  <1>12. ASSUME NEW t \in Threads, ReadDone(t) PROVE ReadOnce'
    <2>1. \A c \in Clusters : clu'[c].start = clu[c].start /\ clu'[c].read = clu[c].read
      BY Zenon, <1>12, ReadDoneFields DEF Kept, ReadKept
    <2>2. \A u \in Threads : pc'[u] = "rio" => pc[u] = "rio" /\ cl'[u] = cl[u]
      BY Zenon, <1>0, <1>12 DEF Types, ReadDone, Outcome, GoTo
    <2> QED
      BY Zenon, <2>1, <2>2, ReadOnceKept
  <1>13. ASSUME NEW t \in Threads, Wait(t) PROVE ReadOnce'
    <2>1. \A c \in Clusters : clu'[c].start = clu[c].start /\ clu'[c].read = clu[c].read
      BY Zenon, <1>13, WaitFields DEF Kept, ReadKept
    <2>2. \A u \in Threads : pc'[u] = "rio" => pc[u] = "rio" /\ cl'[u] = cl[u]
      BY Zenon, <1>0, <1>13 DEF Types, Wait, Outcome, GoTo
    <2> QED
      BY Zenon, <2>1, <2>2, ReadOnceKept
  <1>14. ASSUME NEW t \in Threads, Modify(t) PROVE ReadOnce'
    <2>1. \A c \in Clusters : clu'[c].start = clu[c].start /\ clu'[c].read = clu[c].read
      BY Zenon, <1>14, ModifyFields DEF Kept, ReadKept
    <2>2. \A u \in Threads : pc'[u] = "rio" => pc[u] = "rio" /\ cl'[u] = cl[u]
      BY Zenon, <1>0, <1>14 DEF Types, Modify, GoTo
    <2> QED
      BY Zenon, <2>1, <2>2, ReadOnceKept
  <1>15. ASSUME NEW t \in Threads, Write(t) PROVE ReadOnce'
    <2>1. \A c \in Clusters : clu'[c].start = clu[c].start /\ clu'[c].read = clu[c].read
      BY Zenon, <1>15, WriteFields DEF Kept, ReadKept
    <2>2. \A u \in Threads : pc'[u] = "rio" => pc[u] = "rio" /\ cl'[u] = cl[u]
      BY Zenon, <1>0, <1>15 DEF Types, Write, GoTo
    <2> QED
      BY Zenon, <2>1, <2>2, ReadOnceKept
  <1>16. ASSUME NEW t \in Threads, Look(t) PROVE ReadOnce'
    <2>1. \A c \in Clusters : clu'[c].start = clu[c].start /\ clu'[c].read = clu[c].read
      BY Zenon, <1>16 DEF Look
    <2>2. \A u \in Threads : pc'[u] = "rio" => pc[u] = "rio" /\ cl'[u] = cl[u]
      BY Zenon, <1>0, <1>16 DEF Types, Look, GoTo
    <2> QED
      BY Zenon, <2>1, <2>2, ReadOnceKept
  <1>17. ASSUME NEW t \in Threads, SetDirty(t) PROVE ReadOnce'
    <2>1. \A c \in Clusters : clu'[c].start = clu[c].start /\ clu'[c].read = clu[c].read
      BY Zenon, <1>17, SetDirtyFields DEF Kept, ReadKept
    <2>2. \A u \in Threads : pc'[u] = "rio" => pc[u] = "rio" /\ cl'[u] = cl[u]
      BY Zenon, <1>0, <1>17 DEF Types, SetDirty, GoTo
    <2> QED
      BY Zenon, <2>1, <2>2, ReadOnceKept
  <1>18. ASSUME NEW t \in Threads, Unpin(t) PROVE ReadOnce'
    <2>1. \A c \in Clusters : clu'[c].start = clu[c].start /\ clu'[c].read = clu[c].read
      BY Zenon, <1>18, UnpinFields DEF Kept, ReadKept
    <2>2. \A u \in Threads : pc'[u] = "rio" => pc[u] = "rio" /\ cl'[u] = cl[u]
      BY Zenon, <1>0, <1>18 DEF Types, Unpin, GoTo
    <2> QED
      BY Zenon, <2>1, <2>2, ReadOnceKept
  <1>19. ASSUME NEW t \in Threads, Deref(t) PROVE ReadOnce'
    <2>1. \A c \in Clusters : \/ clu'[c].start = clu[c].start /\ clu'[c].read = clu[c].read
                              \/ ~clu'[c].read /\ \A u \in Threads : pc[u] = "rio" => cl[u] # c
      <3>1. /\ cl[t] \in Clusters /\ pc[t] = "deref" /\ clu[cl[t]].ref >= 1
            /\ clu[cl[t]].ref = 1 => \A u \in Threads \ {t} : pc[u] \in HoldPCs => cl[u] # cl[t]
        BY Zenon, <1>19, AtHand, DerefMove DEF Deref, HoldPCs
      <3>2. Drop(t, cl[t], "idle") /\ t \in Proc
        BY Zenon, <1>19, <1>0 DEF Deref
      <3>3. /\ \A d \in Clusters \ {cl[t]} : Kept(d)
            /\ (clu[cl[t]].ref = 1 /\ clu'[cl[t]] = Freed) \/ ReadKept(cl[t])
        BY Zenon, <3>1, <3>2, DropFields
      <3>4. ~Freed.read
        BY Zenon, FreedType
      <3> QED
        BY Zenon, <3>1, <3>3, <3>4 DEF Kept, ReadKept, HoldPCs
    <2>2. \A u \in Threads : pc'[u] = "rio" => pc[u] = "rio" /\ cl'[u] = cl[u]
      BY <1>0, <1>19 DEF Types, Deref, Drop, GoTo
    <2> QED
      BY Zenon, <2>1, <2>2, ReadOnceKept
  <1>20. ASSUME NEW p \in Proc, SyncTest(p) PROVE ReadOnce'
    <2>1. \A c \in Clusters : clu'[c].start = clu[c].start /\ clu'[c].read = clu[c].read
      BY Zenon, <1>20 DEF SyncTest
    <2>2. \A u \in Threads : pc'[u] = "rio" => pc[u] = "rio" /\ cl'[u] = cl[u]
      BY Zenon, <1>0, <1>20 DEF Types, SyncTest, GoTo
    <2> QED
      BY Zenon, <2>1, <2>2, ReadOnceKept
  <1>21. ASSUME NEW p \in Proc, SyncLock(p) PROVE ReadOnce'
    <2>1. \A c \in Clusters : clu'[c].start = clu[c].start /\ clu'[c].read = clu[c].read
      BY Zenon, <1>21, SyncLockFields DEF Kept, ReadKept
    <2>2. \A u \in Threads : pc'[u] = "rio" => pc[u] = "rio" /\ cl'[u] = cl[u]
      BY Zenon, <1>0, <1>21 DEF Types, SyncLock, GoTo
    <2> QED
      BY Zenon, <2>1, <2>2, ReadOnceKept
  <1>22. ASSUME NEW p \in Proc, SyncIo(p) PROVE ReadOnce'
    <2>1. \A c \in Clusters : clu'[c].start = clu[c].start /\ clu'[c].read = clu[c].read
      BY Zenon, <1>22 DEF SyncIo
    <2>2. \A u \in Threads : pc'[u] = "rio" => pc[u] = "rio" /\ cl'[u] = cl[u]
      BY Zenon, <1>0, <1>22 DEF Types, SyncIo, GoTo
    <2> QED
      BY Zenon, <2>1, <2>2, ReadOnceKept
  <1>23. ASSUME NEW p \in Proc, SyncEnd(p) PROVE ReadOnce'
    <2>1. \A c \in Clusters : clu'[c].start = clu[c].start /\ clu'[c].read = clu[c].read
      BY Zenon, <1>23, SyncEndFields DEF Kept, ReadKept
    <2>2. \A u \in Threads : pc'[u] = "rio" => pc[u] = "rio" /\ cl'[u] = cl[u]
      BY Zenon, <1>0, <1>23 DEF Types, SyncEnd, GoTo
    <2> QED
      BY Zenon, <2>1, <2>2, ReadOnceKept
  <1>24. ASSUME NEW p \in Proc, SyncReturn(p) PROVE ReadOnce'
    <2>1. \A c \in Clusters : clu'[c].start = clu[c].start /\ clu'[c].read = clu[c].read
      BY Zenon, <1>24 DEF SyncReturn
    <2>2. \A u \in Threads : pc'[u] = "rio" => pc[u] = "rio" /\ cl'[u] = cl[u]
      BY Zenon, <1>0, <1>24 DEF Types, SyncReturn, GoTo
    <2> QED
      BY Zenon, <2>1, <2>2, ReadOnceKept
  <1>25. ASSUME ShrinkStart PROVE ReadOnce'
    <2>1. \A c \in Clusters : clu'[c].start = clu[c].start /\ clu'[c].read = clu[c].read
      BY Zenon, <1>25 DEF ShrinkStart
    <2>2. \A u \in Threads : pc'[u] = "rio" => pc[u] = "rio" /\ cl'[u] = cl[u]
      BY Zenon, <1>25, ShrinkStartWork DEF Work
    <2> QED
      BY Zenon, <2>1, <2>2, ReadOnceKept
  <1>26. ASSUME ShrinkScan PROVE ReadOnce'
    <2>1. \A c \in Clusters : clu'[c].start = clu[c].start /\ clu'[c].read = clu[c].read
      BY Zenon, <1>26, ShrinkScanWork DEF ReadKept
    <2>2. \A u \in Threads : pc'[u] = "rio" => pc[u] = "rio" /\ cl'[u] = cl[u]
      BY Zenon, <1>26, ShrinkScanWork DEF Work
    <2> QED
      BY Zenon, <2>1, <2>2, ReadOnceKept
  <1>27. ASSUME EvictNext PROVE ReadOnce'
    <2>1. \A c \in Clusters : clu'[c].start = clu[c].start /\ clu'[c].read = clu[c].read
      BY Zenon, <1>27 DEF EvictNext
    <2>2. \A u \in Threads : pc'[u] = "rio" => pc[u] = "rio" /\ cl'[u] = cl[u]
      BY Zenon, <1>27, EvictNextWork DEF Work
    <2> QED
      BY Zenon, <2>1, <2>2, ReadOnceKept
  <1>28. ASSUME EvictDelete PROVE ReadOnce'
    <2>1. \A c \in Clusters : clu'[c].start = clu[c].start /\ clu'[c].read = clu[c].read
      BY Zenon, <1>28 DEF EvictDelete
    <2>2. \A u \in Threads : pc'[u] = "rio" => pc[u] = "rio" /\ cl'[u] = cl[u]
      BY Zenon, <1>28, EvictDeleteWork DEF Work
    <2> QED
      BY Zenon, <2>1, <2>2, ReadOnceKept
  <1>29. ASSUME WorkerDrop PROVE ReadOnce'
    <2>1. \A c \in Clusters : \/ clu'[c].start = clu[c].start /\ clu'[c].read = clu[c].read
                              \/ ~clu'[c].read /\ \A u \in Threads : pc[u] = "rio" => cl[u] # c
      <3>1. /\ cl[Worker] \in Clusters /\ clu[cl[Worker]].ref >= 1
            /\ clu[cl[Worker]].ref = 1 => \A u \in Threads : pc[u] \in HoldPCs => cl[u] # cl[Worker]
        BY Zenon, <1>29, WorkerDropWork
      <3>2. PICK next : Drop(Worker, cl[Worker], next)
        BY Zenon, <1>29 DEF WorkerDrop
      <3>3. /\ \A d \in Clusters \ {cl[Worker]} : Kept(d)
            /\ (clu[cl[Worker]].ref = 1 /\ clu'[cl[Worker]] = Freed) \/ ReadKept(cl[Worker])
        BY Zenon, <1>0, <3>1, <3>2, DropFields
      <3>4. ~Freed.read
        BY Zenon, FreedType
      <3> QED
        BY Zenon, <3>1, <3>3, <3>4 DEF Kept, ReadKept, HoldPCs
    <2>2. \A u \in Threads : pc'[u] = "rio" => pc[u] = "rio" /\ cl'[u] = cl[u]
      BY Zenon, <1>29, WorkerDropWork DEF Work
    <2> QED
      BY Zenon, <2>1, <2>2, ReadOnceKept
  <1>30. ASSUME FreeNodes PROVE ReadOnce'
    <2>1. \A c \in Clusters : \/ clu'[c].start = clu[c].start /\ clu'[c].read = clu[c].read
                              \/ ~clu'[c].read /\ \A u \in Threads : pc[u] = "rio" => cl[u] # c
      <3>1. ~Freed.read
        BY Zenon, FreedType
      <3>2. CASE clu' = clu
        BY Zenon, <3>2
      <3>3. ASSUME NEW c \in Clusters, \A d \in Clusters \ {c} : Kept(d),
                   (ReadKept(c) /\ BytesKept(c)) \/ clu'[c] = Freed,
                   clu'[c] = Freed => \A u \in Threads : pc[u] \in HoldPCs => cl[u] # c
            PROVE  \A d \in Clusters : \/ clu'[d].start = clu[d].start /\ clu'[d].read = clu[d].read
                                       \/ ~clu'[d].read /\ \A u \in Threads : pc[u] = "rio" => cl[u] # d
        BY Zenon, <3>1, <3>3 DEF Kept, ReadKept, HoldPCs
      <3> QED
        BY Zenon, <1>30, <3>2, <3>3, FreeNodesWork
    <2>2. \A u \in Threads : pc'[u] = "rio" => pc[u] = "rio" /\ cl'[u] = cl[u]
      BY Zenon, <1>30, FreeNodesWork DEF Work
    <2> QED
      BY Zenon, <2>1, <2>2, ReadOnceKept
  <1>31. ASSUME ReleaseStart PROVE ReadOnce'
    <2>1. \A c \in Clusters : clu'[c].start = clu[c].start /\ clu'[c].read = clu[c].read
      BY Zenon, <1>31 DEF ReleaseStart
    <2>2. \A u \in Threads : pc'[u] = "rio" => pc[u] = "rio" /\ cl'[u] = cl[u]
      BY Zenon, <1>31, ModeWork DEF Work
    <2> QED
      BY Zenon, <2>1, <2>2, ReadOnceKept
  <1>32. ASSUME ReleaseNext PROVE ReadOnce'
    <2>1. \A c \in Clusters : clu'[c].start = clu[c].start /\ clu'[c].read = clu[c].read
      BY Zenon, <1>32, ReleaseNextWork DEF ReadKept
    <2>2. \A u \in Threads : pc'[u] = "rio" => pc[u] = "rio" /\ cl'[u] = cl[u]
      BY Zenon, <1>32, ReleaseNextWork DEF Work
    <2> QED
      BY Zenon, <2>1, <2>2, ReadOnceKept
  <1>33. ASSUME Create PROVE ReadOnce'
    <2>1. \A c \in Clusters : clu'[c].start = clu[c].start /\ clu'[c].read = clu[c].read
      BY Zenon, <1>33 DEF Create
    <2>2. \A u \in Threads : pc'[u] = "rio" => pc[u] = "rio" /\ cl'[u] = cl[u]
      BY Zenon, <1>33, ModeWork DEF Work
    <2> QED
      BY Zenon, <2>1, <2>2, ReadOnceKept
  <1>34. CASE UNCHANGED vars
    BY ZenonT(60), <1>34 DEF vars, ReadOnce
  <1> QED
    BY Zenon, <1>1, <1>2, <1>3, <1>4, <1>5, <1>6, <1>7, <1>8, <1>9, <1>10, <1>11, <1>12, <1>13,
        <1>14, <1>15, <1>16, <1>17, <1>18, <1>19, <1>20, <1>21, <1>22, <1>23, <1>24,
        <1>25, <1>26, <1>27, <1>28, <1>29, <1>30, <1>31, <1>32, <1>33, <1>34 DEF Next,
        LookupCreate, WaitRead, Use, Sync, Put, Shrink, vars

\* No step stops at an assertion other than those of the reference counts.
LEMMA AssertionStep ==
  ASSUME CInv, ReadOnce, AssertionsHold, [Next]_vars
  PROVE  AssertionsHold'
PROOF
  <1>0. /\ Types /\ Threads \subseteq Proc /\ Worker \in Proc /\ Worker \notin Threads
        /\ Proc = Threads \cup {Worker}
    BY Zenon, AtHand DEF CInv, Proc
  <1>1. ASSUME NEW t \in Threads, NEW i \in Index, Get(t, i) PROVE AssertionsHold'
    BY Zenon, <1>0, <1>1 DEF AssertionsHold, Types, Get, GoTo
  <1>2. ASSUME NEW t \in Threads, Lookup(t) PROVE AssertionsHold'
    BY Zenon, <1>0, <1>2 DEF AssertionsHold, Types, Lookup, GoTo
  <1>3. ASSUME NEW t \in Threads, RefTest(t) PROVE AssertionsHold'
    BY Zenon, <1>0, <1>3 DEF AssertionsHold, Types, RefTest, GoTo
  <1>4. ASSUME NEW t \in Threads, RefInc(t) PROVE AssertionsHold'
    BY Zenon, <1>0, <1>4 DEF AssertionsHold, Types, RefInc, GoTo
  <1>5. ASSUME NEW t \in Threads, Pin(t) PROVE AssertionsHold'
    BY Zenon, <1>0, <1>5 DEF AssertionsHold, Types, Pin, GoTo
  <1>6. ASSUME NEW t \in Threads, Alloc(t) PROVE AssertionsHold'
    BY Zenon, <1>0, <1>6 DEF AssertionsHold, Types, Alloc, GoTo
  <1>7. ASSUME NEW t \in Threads, Insert(t) PROVE AssertionsHold'
    BY Zenon, <1>0, <1>7 DEF AssertionsHold, Types, Insert, InsertNew, InsertFound, GoTo
  <1>8. ASSUME NEW t \in Threads, Age(t) PROVE AssertionsHold'
    BY Zenon, <1>0, <1>8 DEF AssertionsHold, Types, Age, GoTo
  <1>9. ASSUME NEW t \in Threads, GetTest(t) PROVE AssertionsHold'
    BY Zenon, <1>0, <1>9 DEF AssertionsHold, Types, GetTest, GoTo
  <1>10. ASSUME NEW t \in Threads, ReadStart(t) PROVE AssertionsHold'
    BY <1>0, <1>10 DEF AssertionsHold, Types, ReadStart, GoTo
  <1>11. ASSUME NEW t \in Threads, ReadIo(t) PROVE AssertionsHold'
    BY Zenon, <1>0, <1>11 DEF AssertionsHold, ReadIo, ReadOnce, GoTo, Types
  <1>12. ASSUME NEW t \in Threads, ReadDone(t) PROVE AssertionsHold'
    BY Zenon, <1>0, <1>12 DEF AssertionsHold, Types, ReadDone, Outcome, GoTo
  <1>13. ASSUME NEW t \in Threads, Wait(t) PROVE AssertionsHold'
    BY Zenon, <1>0, <1>13 DEF AssertionsHold, Types, Wait, Outcome, GoTo
  <1>14. ASSUME NEW t \in Threads, Modify(t) PROVE AssertionsHold'
    BY Zenon, <1>0, <1>14 DEF AssertionsHold, Types, Modify, GoTo
  <1>15. ASSUME NEW t \in Threads, Write(t) PROVE AssertionsHold'
    BY Zenon, <1>0, <1>15 DEF AssertionsHold, Types, Write, GoTo
  <1>16. ASSUME NEW t \in Threads, Look(t) PROVE AssertionsHold'
    BY Zenon, <1>0, <1>16 DEF AssertionsHold, Types, Look, GoTo
  <1>17. ASSUME NEW t \in Threads, SetDirty(t) PROVE AssertionsHold'
    BY Zenon, <1>0, <1>17 DEF AssertionsHold, Types, SetDirty, GoTo
  <1>18. ASSUME NEW t \in Threads, Unpin(t) PROVE AssertionsHold'
    BY Zenon, <1>0, <1>18 DEF AssertionsHold, Types, Unpin, GoTo
  <1>19. ASSUME NEW t \in Threads, Deref(t) PROVE AssertionsHold'
    BY Zenon, <1>0, <1>19 DEF AssertionsHold, Types, Deref, Drop, GoTo
  <1>20. ASSUME NEW p \in Proc, SyncTest(p) PROVE AssertionsHold'
    BY Zenon, <1>0, <1>20 DEF AssertionsHold, Types, SyncTest, GoTo
  <1>21. ASSUME NEW p \in Proc, SyncLock(p) PROVE AssertionsHold'
    BY Zenon, <1>0, <1>21 DEF AssertionsHold, Types, SyncLock, GoTo
  <1>22. ASSUME NEW p \in Proc, SyncIo(p) PROVE AssertionsHold'
    BY Zenon, <1>0, <1>22 DEF AssertionsHold, Types, SyncIo, GoTo
  <1>23. ASSUME NEW p \in Proc, SyncEnd(p) PROVE AssertionsHold'
    BY Zenon, <1>0, <1>23 DEF AssertionsHold, Types, SyncEnd, GoTo
  <1>24. ASSUME NEW p \in Proc, SyncReturn(p) PROVE AssertionsHold'
    BY Zenon, <1>0, <1>24 DEF AssertionsHold, Types, SyncReturn, GoTo
  <1>25. ASSUME ShrinkStart PROVE AssertionsHold'
    BY Zenon, <1>0, <1>25, ShrinkStartWork DEF AssertionsHold, Work, ShrinkStart, GoTo, Types
  <1>26. ASSUME ShrinkScan PROVE AssertionsHold'
    BY ZenonT(60), <1>0, <1>26, ShrinkScanWork DEF AssertionsHold, Work, ShrinkScan, GoTo, Types
  <1>27. ASSUME EvictNext PROVE AssertionsHold'
    BY Zenon, <1>0, <1>27, EvictNextWork DEF AssertionsHold, Work, EvictNext, GoTo, Types
  <1>28. ASSUME EvictDelete PROVE AssertionsHold'
    BY Zenon, <1>0, <1>28, EvictDeleteWork DEF AssertionsHold, Work
  <1>29. ASSUME WorkerDrop PROVE AssertionsHold'
    BY Zenon, <1>0, <1>29, WorkerDropWork DEF AssertionsHold, Work
  <1>30. ASSUME FreeNodes PROVE AssertionsHold'
    BY Zenon, <1>0, <1>30, FreeNodesWork DEF AssertionsHold, Work
  <1>31. ASSUME ReleaseStart PROVE AssertionsHold'
    BY Zenon, <1>0, <1>31, ModeWork DEF AssertionsHold, Work
  <1>32. ASSUME ReleaseNext PROVE AssertionsHold'
    BY Zenon, <1>0, <1>32, ReleaseNextWork DEF AssertionsHold, Work
  <1>33. ASSUME Create PROVE AssertionsHold'
    BY Zenon, <1>0, <1>33, ModeWork DEF AssertionsHold, Work
  <1>34. CASE UNCHANGED vars
    BY Zenon, <1>34 DEF vars, AssertionsHold
  <1> QED
    BY Zenon, <1>1, <1>2, <1>3, <1>4, <1>5, <1>6, <1>7, <1>8, <1>9, <1>10, <1>11, <1>12, <1>13,
        <1>14, <1>15, <1>16, <1>17, <1>18, <1>19, <1>20, <1>21, <1>22, <1>23, <1>24,
        <1>25, <1>26, <1>27, <1>28, <1>29, <1>30, <1>31, <1>32, <1>33, <1>34 DEF Next,
        LookupCreate, WaitRead, Use, Sync, Put, Shrink, vars

\* The cache starts empty.
LEMMA RInit == Init => RInv
PROOF
  <1> SUFFICES ASSUME Init PROVE RInv
    BY Zenon
  <1>0. /\ Threads \subseteq Proc /\ Worker \in Proc /\ None \notin Clusters
        /\ IsFiniteSet(Threads) /\ Proc = Threads \cup {Worker}
    BY Zenon, WorkerAssumption, ClusterAssumption DEF Proc
  <1>1. Freed \in Cluster /\ ~Freed.alive /\ Freed.ref = 0 /\ ~Freed.read
    BY Zenon, FreedType
  <1>2. Types
    <2> HIDE DEF Freed
    <2> QED BY <1>0, <1>1 DEF Init, Types, ThreadPCs
  <1>3. \A t \in Threads : ThreadOK(t)
    BY Zenon, <1>0 DEF Init, ThreadOK, ThreadPCs, HoldPCs
  <1>4. WorkerOK /\ TreeOK /\ PrivateOK /\ CollectedOK
    BY ZenonT(60), <1>0 DEF Init, WorkerOK, WorkerPCs, DropPCs, TreeOK, PrivateOK, CollectedOK
  <1>5. CountOK
    <2>1. { i \in Index : tree[i] # None } = {}
      BY Zenon DEF Init
    <2>2. \A c \in Clusters : Holders(c) = {} /\ Inserters(c) = {}
      BY Zenon, <1>0 DEF Init, Holders, Inserters, HoldPCs
    <2>3. \A c \in Clusters : ByTree(c) = 0 /\ ByWorker(c) = 0
      BY <1>0 DEF Init, ByTree, ByWorker, B2N
    <2>4. \A c \in Clusters : clu[c] = Freed
      BY Zenon DEF Init
    <2>5. Cardinality({}) = 0
      BY Zenon, FS_EmptySet
    <2>6. nrClus = 0
      BY Zenon DEF Init
    <2> HIDE DEF Freed
    <2> QED
      BY <1>1, <2>1, <2>2, <2>3, <2>4, <2>5, <2>6 DEF CountOK
  <1>6. ReadOnce /\ AssertionsHold
    <2> HIDE DEF Freed
    <2> QED BY Zenon, <1>0, <1>1 DEF Init, ReadOnce, AssertionsHold
  <1> QED
    BY Zenon, <1>2, <1>3, <1>4, <1>5, <1>6 DEF RInv, CInv

\* The counts, what a thread and the worker have at hand, and who reads: for any
\* number of threads, indexes and clusters, with or without eviction and
\* failures.
THEOREM CacheInvariance == Spec => []RInv
PROOF
  <1>1. RInv /\ [Next]_vars => RInv'
    BY Zenon, CountsStep, ReadOnceStep, AssertionStep DEF RInv
  <1> QED
    BY <1>1, RInit, PTL DEF Spec

\* A reference count is the number of references that exist, and nr_clus the
\* number of clusters in the tree (dio.c:199-313, 379-451, 811-822).
THEOREM RefExactness == Spec => []RefExact
PROOF
  <1>1. RInv => RefExact
    <2> SUFFICES ASSUME RInv PROVE RefExact
      BY Zenon
    <2>1. CountOK
      BY Zenon DEF RInv, CInv
    <2>2. ASSUME NEW c \in Clusters
          PROVE  /\ { t \in Threads : Refs(t, c) } = Holders(c)
                 /\ { t \in Threads : pc[t] = "insert" /\ cl[t] = c } = Inserters(c)
                 /\ ByTree(c) = 2 * B2N(InTree(c))
                 /\ ByWorker(c) = B2N(c \in nodes)
                                  + (IF cl[Worker] = c /\ pc[Worker] # "delete" THEN drops ELSE 0)
      <3>1. { t \in Threads : Refs(t, c) } = Holders(c)
        BY Zenon DEF Refs, Holders, HoldPCs
      <3>2. { t \in Threads : pc[t] = "insert" /\ cl[t] = c } = Inserters(c)
        BY Zenon DEF Inserters
      <3> QED
        BY Zenon, <3>1, <3>2 DEF ByTree, ByWorker, InTree
    <2>3. ASSUME NEW c \in Clusters
          PROVE  /\ Cardinality(Holders(c)) \in Nat /\ Cardinality(Inserters(c)) \in Nat
                 /\ B2N(c \in nodes) \in Nat /\ B2N(InTree(c)) \in Nat /\ drops \in Nat
      <3>1. Holders(c) \in SUBSET Threads /\ Inserters(c) \in SUBSET Threads
        BY Zenon DEF Holders, Inserters
      <3>2. Cardinality(Holders(c)) \in Nat /\ Cardinality(Inserters(c)) \in Nat
        BY Zenon, <3>1, WorkerAssumption, CardBound
      <3> QED
        BY Zenon, <3>2 DEF B2N, RInv, CInv, Types
    <2>4. ASSUME NEW c \in Clusters
          PROVE  clu[c].ref =
                     2 * B2N(InTree(c))
                   + Cardinality({ t \in Threads : Refs(t, c) })
                   + Cardinality({ t \in Threads : pc[t] = "insert" /\ cl[t] = c })
                   + B2N(c \in nodes)
                   + (IF cl[Worker] = c /\ pc[Worker] # "delete" THEN drops ELSE 0)
      <3>1. clu[c].ref = ByTree(c) + Cardinality(Holders(c)) + Cardinality(Inserters(c)) + ByWorker(c)
        BY Zenon, <2>1 DEF CountOK
      <3> DEFINE d == IF cl[Worker] = c /\ pc[Worker] # "delete" THEN drops ELSE 0
                 r == { t \in Threads : Refs(t, c) }
                 n == { t \in Threads : pc[t] = "insert" /\ cl[t] = c }
      <3>2. d \in Nat
        BY Zenon, <2>3
      <3>3. r = Holders(c) /\ n = Inserters(c) /\ ByTree(c) = 2 * B2N(InTree(c))
            /\ ByWorker(c) = B2N(c \in nodes) + d
        BY Zenon, <2>2
      <3> HIDE DEF d, r, n
      <3>4. clu[c].ref = 2 * B2N(InTree(c)) + Cardinality(r) + Cardinality(n) + B2N(c \in nodes) + d
        BY <2>3, <3>1, <3>2, <3>3
      <3> QED
        BY Zenon, <3>4 DEF d, r, n
    <2> QED
      BY Zenon, <2>1, <2>4 DEF RefExact, CountOK
  <1> QED
    BY <1>1, CacheInvariance, PTL

\* Eviction removes the cluster it collected, a cluster is read once, and none is
\* left when the device goes (dio.c:436, 505, 312).
THEOREM CacheAssertions == Spec => []AssertionsHold
PROOF
  <1>1. RInv => AssertionsHold
    BY Zenon DEF RInv
  <1> QED
    BY <1>1, CacheInvariance, PTL

=============================================================================
