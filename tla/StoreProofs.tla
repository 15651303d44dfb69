----------------------------- MODULE StoreProofs ----------------------------
(***************************************************************************)
(* The counts of references and the cache of inodes: every step keeps the  *)
(* first part of the invariant of module Store (CInv).  With the lemmas of *)
(* module StoreSteps the theorems about the store follow.                  *)
(***************************************************************************)
EXTENDS StoreSteps, FiniteSetTheorems

\* A request goes on with the inode it holds.
LEMMA Stays ==
  ASSUME CInv, NEW t \in Threads, NEW s \in Slots, Only(t), At(t, s), At(t, s)',
         Holds(t, s), Holds(t, s)', ino'[s].alive, ino'[s].ref = ino[s].ref,
         pc'[t] \in OwnPCs => pc[t] \in OwnPCs,
         s \in cached' => ino'[s].block # 0,
         ino'[s].block # 0 /\ s \notin cached' =>
           \/ pc'[t] \in OwnPCs \cup {"free", "bug"}
           \/ /\ ino[s].block # 0 /\ s \notin cached
              /\ pc[t] \notin OwnPCs \cup {"free", "bug"},
         HandOK(t, s)',
         \A u \in Threads \ {t} : At(u, s) => HandOK(u, s)'
  PROVE  SlotOK(s)'
<1>0. SlotOK(s)
  BY Zenon DEF CInv
<1>1. \A u \in Threads \ {t} : pc'[u] = pc[u] /\ (At(u, s)' <=> At(u, s))
  BY Zenon DEF Only, At
<1>2. \A u \in Threads : Holds(u, s)' <=> Holds(u, s)
  BY <1>1, Zenon DEF Holds, At
<1>3. CountOK(s)'
  <2>1. { u \in Threads : Holds(u, s)' } = { u \in Threads : Holds(u, s) }
    BY <1>2, Zenon
  <2>2. ino[s].alive
    <3>1. pc[t] # "refbug" /\ HandOK(t, s)
      BY <1>0, Zenon DEF Holds, SlotOK
    <3> QED
      BY <3>1, Zenon DEF HandOK
  <2> QED
    BY <1>0, <2>1, <2>2, Zenon DEF SlotOK, CountOK
<1>4. KeptOK(s)'
  <2>1. (\E u \in Threads : Holds(u, s) \/ Leaves(u, s))'
    BY Zenon
  <2>2. ASSUME ino'[s].block # 0, s \notin cached'
        PROVE  (\E u \in Threads : At(u, s) /\ pc[u] \in OwnPCs \cup {"free", "bug"})'
    <3>1. CASE pc'[t] \in OwnPCs \cup {"free", "bug"}
      BY <3>1, Zenon
    <3>2. CASE /\ ino[s].block # 0 /\ s \notin cached
               /\ pc[t] \notin OwnPCs \cup {"free", "bug"}
      <4>1. ino[s].alive
        <5>1. pc[t] # "refbug" /\ HandOK(t, s)
          BY <1>0, Zenon DEF Holds, SlotOK
        <5> QED
          BY <5>1, Zenon DEF HandOK
      <4>2. PICK u \in Threads : At(u, s) /\ pc[u] \in OwnPCs \cup {"free", "bug"}
        BY <1>0, <3>2, <4>1, Zenon DEF SlotOK, KeptOK
      <4>3. u # t
        BY <3>2, <4>2, Zenon
      <4> QED
        BY <1>1, <4>2, <4>3, Zenon
    <3> QED
      BY <2>2, <3>1, <3>2, Zenon
  <2> QED
    BY <2>1, <2>2, Zenon DEF KeptOK
<1>5. ASSUME NEW u \in Threads, At(u, s)'
      PROVE  HandOK(u, s)'
  BY <1>1, <1>5, Zenon
<1>6. ASSUME NEW u \in Threads, NEW v \in Threads, u # v, At(u, s)', At(v, s)'
      PROVE  PairOK(u, v)'
  <2>1. At(u, s) /\ At(v, s)
    BY <1>1, <1>6, Zenon
  <2>2. PairOK(u, v)
    BY <1>0, <1>6, <2>1, Zenon DEF SlotOK
  <2>3. pc'[t] # "release" /\ pc[t] # "release"
    BY Zenon DEF Holds
  <2> QED
    BY <1>1, <1>6, <2>2, <2>3, Zenon DEF PairOK
<1> QED
  BY <1>3, <1>4, <1>5, <1>6, Zenon DEF SlotOK

\* The other requests with the inode notice nothing.
LEMMA Unnoticed ==
  ASSUME CInv, NEW t \in Threads, NEW s \in Slots, Only(t), NEW u \in Threads \ {t}, At(u, s),
         ino'[s].alive, ino'[s].ref = ino[s].ref, ino'[s].block = ino[s].block,
         pc[u] \in WritePCs => ino'[s].writer = ino[s].writer,
         pc[u] = "inc" => (s \in cached => s \in cached'),
         s \in cached' => s \in cached
  PROVE  HandOK(u, s)'
<1>1. pc'[u] = pc[u] /\ req'[u] = req[u]
  BY Zenon DEF Only
<1>2. HandOK(u, s)
  BY Zenon DEF CInv, SlotOK
<1> QED
  BY <1>1, <1>2, Zenon DEF HandOK

\* A request takes an inode from the cache, or is lost with it.
LEMMA Takes ==
  ASSUME CInv, NEW t \in Threads, NEW s \in Slots, Only(t), ~At(t, s), At(t, s)',
         pc'[t] \in {"inc", "refbug"}, s \in cached, ino'[s] = ino[s], s \in cached'
  PROVE  SlotOK(s)'
<1>0. SlotOK(s)
  BY Zenon DEF CInv
<1>1. \A u \in Threads \ {t} : pc'[u] = pc[u] /\ req'[u] = req[u] /\ (At(u, s)' <=> At(u, s))
  BY Zenon DEF Only, At
<1>2. \A u \in Threads : (Holds(u, s)' <=> Holds(u, s)) /\ (Leaves(u, s)' <=> Leaves(u, s))
  BY <1>1, Zenon DEF Holds, Leaves, At
<1>3. CountOK(s)'
  <2>1. { u \in Threads : Holds(u, s)' } = { u \in Threads : Holds(u, s) }
    BY <1>2, Zenon
  <2> QED
    BY <1>0, <2>1, Zenon DEF SlotOK, CountOK
<1>4. KeptOK(s)'
  BY <1>0, <1>2, Zenon DEF SlotOK, KeptOK
<1>5. ASSUME NEW u \in Threads, At(u, s)'
      PROVE  HandOK(u, s)'
  <2>1. CASE u = t
    <3>1. ino'[s].alive
      BY <1>0, Zenon DEF SlotOK, KeptOK
    <3> QED
      BY <2>1, <3>1 DEF HandOK, OwnPCs, WritePCs
  <2>2. CASE u # t
    <3>1. At(u, s) /\ HandOK(u, s) /\ pc'[u] = pc[u] /\ req'[u] = req[u]
      BY <1>0, <1>1, <1>5, <2>2, Zenon DEF SlotOK
    <3> QED
      BY <3>1, Zenon DEF HandOK
  <2> QED
    BY <2>1, <2>2, Zenon
<1>6. ASSUME NEW u \in Threads, NEW v \in Threads, u # v, At(u, s)', At(v, s)'
      PROVE  PairOK(u, v)'
  <2>1. pc'[t] \notin OwnPCs /\ pc'[t] # "release"
    BY DEF OwnPCs
  <2>2. ASSUME u # t PROVE pc'[u] = pc[u] /\ pc[u] \notin OwnPCs
    BY <1>0, <1>1, <1>6, <2>2, Zenon DEF SlotOK, HandOK
  <2>3. CASE u = t \/ v = t
    BY <2>1, <2>2, <2>3, Zenon DEF PairOK
  <2>4. CASE u # t /\ v # t
    <3>1. PairOK(u, v) /\ pc'[u] = pc[u] /\ pc'[v] = pc[v]
      BY <1>0, <1>1, <1>6, <2>4, Zenon DEF SlotOK
    <3> QED
      BY <3>1, Zenon DEF PairOK
  <2> QED
    BY <2>3, <2>4, Zenon
<1> QED
  BY <1>3, <1>4, <1>5, <1>6, Zenon DEF SlotOK

\* The last one frees an inode; those that came too late are lost.
LEMMA Frees ==
  ASSUME CInv, NEW t \in Threads, NEW s \in Slots, Only(t), ~At(t, s)', ~ino'[s].alive,
         s \notin cached', \A u \in Threads \ {t} : At(u, s) => pc[u] = "refbug"
  PROVE  SlotOK(s)'
<1>1. \A u \in Threads : At(u, s)' => pc'[u] = "refbug"
  BY Zenon DEF Only, At
<1>2. CountOK(s)' /\ KeptOK(s)'
  BY Zenon DEF CountOK, KeptOK
<1>3. \A u \in Threads : At(u, s)' => HandOK(u, s)'
  BY <1>1 DEF HandOK, OwnPCs, WritePCs
<1>4. \A u, v \in Threads : At(u, s)' => PairOK(u, v)'
  BY <1>1 DEF PairOK, OwnPCs
<1> QED
  BY <1>2, <1>3, <1>4, Zenon DEF SlotOK

\* A request has a new inode.
LEMMA Allocs ==
  ASSUME CInv, NEW t \in Threads, NEW s \in FreeSlots, Only(t), At(t, s)',
         pc'[t] \in OwnPCs \cup {"bug"}, ino'[s].alive, ino'[s].ref = 1, cached' = cached,
         HandOK(t, s)'
  PROVE  SlotOK(s)'
<1>0. s \in Slots /\ ~ino[s].alive /\ \A u \in Threads : ~At(u, s)
  BY Zenon DEF FreeSlots, At
<1>1. \A u \in Threads \ {t} : ~At(u, s)'
  BY <1>0, Zenon DEF Only, At
<1>2. pc'[t] \notin {"inc", "release", "refbug"}
  BY DEF OwnPCs
<1>3. CountOK(s)'
  <2>1. { u \in Threads : Holds(u, s)' } = {t}
    BY <1>1, <1>2, Zenon DEF Holds, At
  <2>2. Cardinality({t}) = 1
    BY FS_Singleton, Zenon
  <2> QED
    BY <2>1, <2>2, Zenon DEF CountOK
<1>4. s \notin cached'
  BY <1>0, Zenon DEF CInv, SlotOK, KeptOK
<1>5. KeptOK(s)'
  <2>1. Holds(t, s)'
    BY <1>2, Zenon DEF Holds, At
  <2> QED
    BY <1>4, <2>1, Zenon DEF KeptOK
<1> QED
  BY <1>1, <1>3, <1>5, Zenon DEF SlotOK

\* The threads with a reference are finitely many.
LEMMA FewHold ==
  ASSUME NEW s
  PROVE  IsFiniteSet({ u \in Threads : Holds(u, s) })
<1>1. IsFiniteSet(Threads)
  BY SetAssumption
<1>2. { u \in Threads : Holds(u, s) } \subseteq Threads
  BY Zenon
<1> QED
  BY <1>1, <1>2, FS_Subset, Zenon

\* A request counts itself in.
LEMMA Joins ==
  ASSUME CInv, NEW t \in Threads, NEW s \in Slots, Only(t), At(t, s), At(t, s)',
         pc[t] = "inc", pc'[t] = "have", ino[s].ref > 0, ino'[s].ref = ino[s].ref + 1,
         ino'[s].alive, ino'[s].block = ino[s].block, ino'[s].writer = ino[s].writer,
         cached' = cached
  PROVE  SlotOK(s)'
<1>0. SlotOK(s) /\ s \in cached /\ ino[s].alive
  <2>1. SlotOK(s)
    BY Zenon DEF CInv
  <2>2. HandOK(t, s)
    BY <2>1, Zenon DEF SlotOK
  <2> QED
    BY <2>1, <2>2 DEF HandOK
<1>1. \A u \in Threads \ {t} : pc'[u] = pc[u] /\ req'[u] = req[u] /\ (At(u, s)' <=> At(u, s))
  BY Zenon DEF Only, At
<1>2. \A u \in Threads \ {t} : (Holds(u, s)' <=> Holds(u, s)) /\ (Leaves(u, s)' <=> Leaves(u, s))
  BY <1>1, Zenon DEF Holds, Leaves, At
<1>3. ~Holds(t, s) /\ Holds(t, s)'
  BY DEF Holds, At
<1>4. CountOK(s)'
  <2>1. { u \in Threads : Holds(u, s)' } = { u \in Threads : Holds(u, s) } \cup {t}
    BY <1>2, <1>3, Zenon
  <2>2. PICK H : H = { u \in Threads : Holds(u, s) }
    BY Zenon
  <2>3. IsFiniteSet(H) /\ t \notin H
    BY <1>3, <2>2, FewHold, Zenon
  <2>4. Cardinality(H \cup {t}) = Cardinality(H) + 1
    BY <2>3, FS_AddElement, Zenon
  <2>5. ino[s].ref = Cardinality(H)
    BY <1>0, <2>2, Zenon DEF SlotOK, CountOK
  <2> QED
    BY <2>1, <2>2, <2>4, <2>5, Zenon DEF CountOK
<1>5. KeptOK(s)'
  BY <1>0, <1>3, Zenon DEF SlotOK, KeptOK
<1>6. ASSUME NEW u \in Threads, At(u, s)'
      PROVE  HandOK(u, s)'
  <2>1. CASE u = t
    BY <1>0, <2>1 DEF HandOK, OwnPCs, WritePCs
  <2>2. CASE u # t
    <3>1. At(u, s) /\ HandOK(u, s) /\ pc'[u] = pc[u] /\ req'[u] = req[u]
      BY <1>0, <1>1, <1>6, <2>2, Zenon DEF SlotOK
    <3>2. pc[u] # "release"
      BY <3>1 DEF HandOK
    <3> QED
      BY <3>1, <3>2, Zenon DEF HandOK
  <2> QED
    BY <2>1, <2>2, Zenon
<1>7. ASSUME NEW u \in Threads, NEW v \in Threads, u # v, At(u, s)', At(v, s)'
      PROVE  PairOK(u, v)'
  <2>1. pc'[t] \notin OwnPCs /\ pc'[t] # "release"
    BY DEF OwnPCs
  <2>2. PairOK(u, v)
    BY <1>0, <1>1, <1>7, Zenon DEF SlotOK
  <2> QED
    BY <1>1, <1>7, <2>1, <2>2, Zenon DEF PairOK
<1> QED
  BY <1>4, <1>5, <1>6, <1>7, Zenon DEF SlotOK

\* A request drops its reference.
LEMMA Drops ==
  ASSUME CInv, NEW t \in Threads, NEW s \in Slots, Only(t), At(t, s), pc[t] = "deref",
         ino[s].ref > 0, ino'[s].ref = ino[s].ref - 1,
         ino'[s].alive, ino'[s].block = ino[s].block, ino'[s].writer = ino[s].writer,
         cached' = cached,
         IF ino[s].ref = 1 THEN At(t, s)' /\ pc'[t] = "release" ELSE ~At(t, s)'
  PROVE  SlotOK(s)'
<1>0. SlotOK(s) /\ ino[s].alive
  <2>1. SlotOK(s)
    BY Zenon DEF CInv
  <2>2. HandOK(t, s)
    BY <2>1, Zenon DEF SlotOK
  <2> QED
    BY <2>1, <2>2 DEF HandOK
<1>1. \A u \in Threads \ {t} : pc'[u] = pc[u] /\ req'[u] = req[u] /\ (At(u, s)' <=> At(u, s))
  BY Zenon DEF Only, At
<1>2. \A u \in Threads \ {t} : (Holds(u, s)' <=> Holds(u, s)) /\ (Leaves(u, s)' <=> Leaves(u, s))
  BY <1>1, Zenon DEF Holds, Leaves, At
<1>3. Holds(t, s) /\ ~Holds(t, s)'
  <2>1. Holds(t, s)
    BY DEF Holds, At
  <2>2. ~Holds(t, s)'
    BY Zenon DEF Holds, At
  <2> QED
    BY <2>1, <2>2
<1>4. \A u \in Threads \ {t} : At(u, s) => pc[u] # "release"
  BY <1>0 DEF SlotOK, HandOK
<1>5. PICK H : H = { u \in Threads : Holds(u, s) }
  BY Zenon
<1>6. IsFiniteSet(H) /\ t \in H /\ ino[s].ref = Cardinality(H)
  BY <1>0, <1>3, <1>5, FewHold, Zenon DEF SlotOK, CountOK
<1>7. { u \in Threads : Holds(u, s)' } = H \ {t}
  BY <1>2, <1>3, <1>5, Zenon
<1>8. IsFiniteSet(H \ {t}) /\ Cardinality(H \ {t}) = Cardinality(H) - 1
  BY <1>6, FS_RemoveElement, Zenon
<1>9. CountOK(s)'
  BY <1>6, <1>7, <1>8, Zenon DEF CountOK
<1>10. KeptOK(s)'
  <2>1. (\E u \in Threads : Holds(u, s) \/ Leaves(u, s))'
    <3>1. CASE ino[s].ref = 1
      BY <3>1, Zenon DEF Leaves, At
    <3>2. CASE ino[s].ref # 1
      <4>1. Cardinality(H \ {t}) # 0
        <5>1. Cardinality(H) \in Nat
          BY <1>6, FS_CardinalityType, Zenon
        <5> QED
          BY <1>6, <1>8, <3>2, <5>1
      <4>2. H \ {t} # {}
        BY <4>1, FS_EmptySet, Zenon
      <4>3. PICK u : u \in H \ {t}
        BY <4>2, Zenon
      <4> QED
        BY <1>7, <4>3, Zenon
    <3> QED
      BY <3>1, <3>2, Zenon
  <2>2. ASSUME ino'[s].block # 0, s \notin cached'
        PROVE  (\E u \in Threads : At(u, s) /\ pc[u] \in OwnPCs \cup {"free", "bug"})'
    <3>1. PICK u \in Threads : At(u, s) /\ pc[u] \in OwnPCs \cup {"free", "bug"}
      BY <1>0, <2>2, Zenon DEF SlotOK, KeptOK
    <3>2. u # t
      BY <3>1 DEF OwnPCs
    <3> QED
      BY <1>1, <3>1, <3>2, Zenon
  <2> QED
    BY <1>0, <2>1, <2>2, Zenon DEF SlotOK, KeptOK
<1>11. ASSUME NEW u \in Threads, At(u, s)'
       PROVE  HandOK(u, s)'
  <2>1. CASE u = t
    <3>1. ino[s].ref = 1 /\ pc'[t] = "release" /\ ino'[s].ref = 0
      BY <1>11, <2>1
    <3> QED
      BY <2>1, <3>1 DEF HandOK, OwnPCs, WritePCs
  <2>2. CASE u # t
    <3>1. At(u, s) /\ HandOK(u, s) /\ pc'[u] = pc[u] /\ req'[u] = req[u] /\ pc[u] # "release"
      BY <1>0, <1>1, <1>4, <1>11, <2>2, Zenon DEF SlotOK
    <3> QED
      BY <3>1, Zenon DEF HandOK
  <2> QED
    BY <2>1, <2>2, Zenon
<1>12. ASSUME NEW u \in Threads, NEW v \in Threads, u # v, At(u, s)', At(v, s)'
       PROVE  PairOK(u, v)'
  <2>1. ASSUME NEW w \in Threads, At(w, s)'
        PROVE  /\ At(w, s) /\ (pc'[w] \in OwnPCs => pc[w] \in OwnPCs)
               /\ (pc'[w] = "release" => w = t)
    <3>1. CASE w = t
      <4>1. pc'[t] = "release"
        BY <2>1, <3>1, Zenon
      <4> QED
        BY <3>1, <4>1 DEF OwnPCs
    <3>2. CASE w # t
      BY <1>1, <1>4, <2>1, <3>2, Zenon
    <3> QED
      BY <3>1, <3>2, Zenon
  <2>2. PairOK(u, v)
    BY <1>0, <1>12, <2>1, Zenon DEF SlotOK
  <2> QED
    BY <1>12, <2>1, <2>2, Zenon DEF PairOK
<1> QED
  BY <1>9, <1>10, <1>11, <1>12, Zenon DEF SlotOK

(* Every step keeps the counts and the cache.                              *)
\* The parts of CInv after a step of t.
LEMMA Combine ==
  ASSUME CInv, Types', NEW t \in Threads, Only(t), ReqOK(t)',
         \A r \in Slots : r # req[t].slot /\ r # req'[t].slot =>
           ino'[r] = ino[r] /\ (r \in cached' <=> r \in cached),
         \A s \in Slots : s = req[t].slot \/ s = req'[t].slot => SlotOK(s)',
         Distinct', disk'[0] = NoInode
  PROVE  CInv'
<1>1. \A u \in Threads : ReqOK(u)'
  BY Zenon DEF CInv, ReqOK, Only
<1>2. ASSUME NEW s \in Slots
      PROVE  SlotOK(s)'
  <2>1. CASE s = req[t].slot \/ s = req'[t].slot
    BY <2>1, Zenon
  <2>2. CASE s # req[t].slot /\ s # req'[t].slot
    BY <2>2, OtherSlots, Zenon
  <2> QED
    BY <2>1, <2>2, Zenon
<1> QED
  BY <1>1, <1>2, Zenon DEF CInv

\* A cache from which inodes only leave still has one inode for each block.
LEMMA StillDistinct ==
  ASSUME CInv, cached' \subseteq cached, \A s \in cached' : ino'[s].block = ino[s].block
  PROVE  Distinct'
<1>1. Distinct
  BY Zenon DEF CInv
<1> QED
  BY <1>1, Zenon DEF Distinct

\* A step of a request without an inode.
LEMMA NoSlotStep ==
  ASSUME CInv, Types', NEW t \in Threads, Only(t), ReqOK(t)', req[t].slot = None,
         req'[t].slot = None, ino' = ino, cached' = cached, disk' = disk
  PROVE  CInv'
<1>1. Distinct'
  BY StillDistinct, Zenon
<1>2. None \notin Slots /\ disk[0] = NoInode
  BY SetAssumption DEF CInv
<1> QED
  BY <1>1, <1>2, Combine, Zenon

\* Those who have the rw_sem for writing are alone.
LEMMA OneWriter ==
  ASSUME CInv, NEW t \in Threads, NEW s \in Slots, At(t, s), NEW u \in Threads \ {t}, At(u, s),
         pc[u] \in WritePCs
  PROVE  ino[s].writer = u /\ ino[s].writer # None /\ ino[s].writer # t
<1>1. ino[s].writer = u
  BY Zenon DEF CInv, SlotOK, HandOK
<1> QED
  BY <1>1, SetAssumption

\* A step of a request that shares its inode.
LEMMA CalmStep ==
  ASSUME CInv, Types', NEW t \in Threads, Only(t), NEW s \in Slots, At(t, s),
         req'[t].slot = s, req'[t].id = req[t].id, OtherInos(s),
         ino'[s].alive = ino[s].alive, ino'[s].ref = ino[s].ref, ino'[s].block = ino[s].block,
         cached' = cached,
         pc[t] \notin OwnPCs \cup NoSlotPCs \cup {"inc", "release", "refbug", "free", "bug"},
         pc'[t] \notin OwnPCs \cup NoSlotPCs \cup {"inc", "release", "refbug", "free"},
         ino'[s].writer = ino[s].writer \/ ino[s].writer \in {None, t},
         pc'[t] \in WritePCs => ino'[s].writer = t,
         pc'[t] = "pwrite" => ino[s].block # 0,
         disk'[0] = disk[0]
  PROVE  CInv'
<1>1. HandOK(t, s) /\ ReqOK(t) /\ SlotOK(s) /\ disk[0] = NoInode
  BY Zenon DEF CInv, SlotOK
<1>2. ino[s].alive /\ pc[t] # "idle"
  <2>1. pc[t] # "refbug" /\ pc[t] # "idle"
    BY DEF NoSlotPCs
  <2> QED
    BY <1>1, <2>1, Zenon DEF HandOK
<1>3. Holds(t, s) /\ Holds(t, s)' /\ At(t, s)'
  <2>1. pc[t] \notin {"inc", "release", "refbug"} /\ pc'[t] \notin {"inc", "release", "refbug"}
    BY Zenon
  <2> QED
    BY <2>1, Zenon DEF Holds, At
<1>4. ReqOK(t)'
  <2>1. s # None
    BY SetAssumption, Zenon
  <2>2. pc'[t] \notin NoSlotPCs
    BY Zenon
  <2> QED
    BY <1>1, <1>2, <2>1, <2>2, Zenon DEF ReqOK
<1>5. HandOK(t, s)'
  <2>1. pc'[t] \notin OwnPCs /\ pc'[t] # "inc" /\ pc'[t] # "free" /\ pc'[t] # "release"
    BY Zenon
  <2>2. pc'[t] # "insert"
    BY <2>1 DEF OwnPCs
  <2> QED
    BY <1>2, <2>1, <2>2, Zenon DEF HandOK
<1>6. ASSUME NEW u \in Threads \ {t}, At(u, s)
      PROVE  HandOK(u, s)'
  <2>1. pc[u] \in WritePCs => ino'[s].writer = ino[s].writer
    BY <1>6, OneWriter, Zenon
  <2> QED
    BY <1>2, <1>6, <2>1, Unnoticed, Zenon
<1>7. s \in cached' => ino'[s].block # 0
  BY <1>1, Zenon DEF SlotOK, KeptOK
<1>8. SlotOK(s)'
  <2>1. ino'[s].alive
    BY <1>2, Zenon
  <2>2. /\ pc'[t] \in OwnPCs => pc[t] \in OwnPCs
        /\ ino'[s].block # 0 /\ s \notin cached' =>
             \/ pc'[t] \in OwnPCs \cup {"free", "bug"}
             \/ /\ ino[s].block # 0 /\ s \notin cached
                /\ pc[t] \notin OwnPCs \cup {"free", "bug"}
    BY Zenon
  <2> QED
    BY <1>3, <1>5, <1>6, <1>7, <2>1, <2>2, Stays, Zenon
<1>9. Distinct'
  <2>1. \A r \in Slots : ino'[r].block = ino[r].block
    BY Zenon DEF OtherInos
  <2>2. cached \subseteq Slots
    BY Zenon DEF CInv, Types
  <2> QED
    BY <2>1, <2>2, StillDistinct, Zenon
<1> QED
  BY <1>1, <1>4, <1>8, <1>9, Combine, Zenon DEF OtherInos, At

\* A step of a request that has its inode for itself.
LEMMA OwnStep ==
  ASSUME CInv, Types', NEW t \in Threads, Only(t), NEW s \in Slots, At(t, s),
         req'[t].slot = s, req'[t].id = req[t].id, req'[t].block = req[t].block, OtherInos(s),
         ino'[s].alive = ino[s].alive, ino'[s].ref = ino[s].ref, ino'[s].block = ino[s].block,
         pc[t] \in OwnPCs,
         pc'[t] \notin NoSlotPCs \cup {"inc", "release", "refbug", "free", "pwrite", "remove", "insert"},
         pc'[t] \in WritePCs => ino'[s].writer = t,
         \/ cached' = cached /\ pc'[t] \in OwnPCs \cup {"bug"}
         \/ /\ cached' = cached \cup {s} /\ Found(ino[s].block) = {}
            /\ pc'[t] \notin OwnPCs,
         disk'[0] = disk[0]
  PROVE  CInv'
<1>1. HandOK(t, s) /\ ReqOK(t) /\ SlotOK(s) /\ disk[0] = NoInode
  BY Zenon DEF CInv, SlotOK
<1>2. /\ ino[s].alive /\ pc[t] # "idle" /\ ino[s].block # 0 /\ s \notin cached
      /\ pc[t] \notin {"inc", "release", "refbug"}
  <2>1. pc[t] # "refbug" /\ pc[t] # "idle" /\ pc[t] \notin {"inc", "release", "refbug"}
    BY DEF OwnPCs
  <2> QED
    BY <1>1, <2>1, Zenon DEF HandOK
<1>3. Holds(t, s) /\ Holds(t, s)' /\ At(t, s)'
  <2>1. pc'[t] \notin {"inc", "release", "refbug"}
    BY Zenon
  <2> QED
    BY <1>2, <2>1, Zenon DEF Holds, At
<1>4. ReqOK(t)'
  <2>1. s # None
    BY SetAssumption, Zenon
  <2>2. pc'[t] \notin NoSlotPCs
    BY Zenon
  <2> QED
    BY <1>1, <1>2, <2>1, <2>2, Zenon DEF ReqOK
<1>5. HandOK(t, s)'
  <2>1. pc'[t] # "inc" /\ pc'[t] # "free" /\ pc'[t] # "release" /\ pc'[t] # "insert"
    BY Zenon
  <2>2. pc'[t] \in OwnPCs => s \notin cached'
    BY <1>2, Zenon
  <2> QED
    BY <1>2, <2>1, <2>2, Zenon DEF HandOK
<1>6. \A u \in Threads \ {t} : ~At(u, s)
  BY <1>1, Zenon DEF SlotOK, PairOK
<1>7. s \in cached' => ino'[s].block # 0
  BY <1>2, Zenon
<1>8. SlotOK(s)'
  <2>1. ino'[s].alive
    BY <1>2, Zenon
  <2>2. /\ pc'[t] \in OwnPCs => pc[t] \in OwnPCs
        /\ ino'[s].block # 0 /\ s \notin cached' => pc'[t] \in OwnPCs \cup {"free", "bug"}
    BY Zenon
  <2> QED
    BY <1>3, <1>5, <1>6, <1>7, <2>1, <2>2, Stays, Zenon
<1>9. Distinct'
  <2>1. \A r \in Slots : ino'[r].block = ino[r].block
    BY Zenon DEF OtherInos
  <2>2. cached \subseteq Slots /\ Distinct
    BY Zenon DEF CInv, Types
  <2>3. CASE cached' = cached
    BY <2>1, <2>2, <2>3, StillDistinct, Zenon
  <2>4. CASE cached' = cached \cup {s} /\ Found(ino[s].block) = {}
    <3>1. \A r \in cached : ino[r].block # ino[s].block
      BY <2>4, Zenon DEF Found
    <3>2. \A r, q \in cached' : ino'[r].block = ino'[q].block => r = q
      BY <2>1, <2>2, <2>4, <3>1 DEF Distinct
    <3> QED
      BY <3>2, Zenon DEF Distinct
  <2> QED
    BY <2>3, <2>4, Zenon
<1>10. \A r \in Slots : r # s => ino'[r] = ino[r] /\ (r \in cached' <=> r \in cached)
  BY Zenon DEF OtherInos
<1> QED
  BY <1>1, <1>4, <1>8, <1>9, <1>10, Combine, Zenon DEF At

\* Requests that begin, look up or end without an inode.
LEMMA BeginSteps ==
  ASSUME CInv, NEW t \in Threads,
         \/ CreateStart(t) \/ Find(t)
         \/ \E i \in Ids : \/ \E op \in {"get", "query", "delete"} : Start(t, op, i, 0)
                           \/ \E end \in 1 .. MaxSize : Start(t, "put", i, end)
  PROVE  CInv'
<1>0. Types /\ None \notin Slots
  BY SetAssumption DEF CInv
<1>1. ASSUME pc[t] \in NoSlotPCs PROVE req[t].slot = None
  BY <1>1, Zenon DEF CInv, ReqOK
<1>2. CASE CreateStart(t)
  <2>1. /\ Types' /\ Goes(t, "idle", "calloc")
        /\ \E i \in fresh : req'[t].id = i
        /\ req'[t].slot = None /\ UNCHANGED << store, ino, cached >>
    BY <1>0, <1>2, StepsDo, Zenon DEF CreateStartDid
  <2>2. req'[t].id \in Ids
    BY <1>0, <2>1, Zenon DEF Types
  <2>3. pc[t] \in NoSlotPCs /\ pc'[t] \in NoSlotPCs
    BY <2>1 DEF Goes, NoSlotPCs
  <2>4. ReqOK(t)'
    BY <2>1, <2>2, <2>3, Zenon DEF ReqOK
  <2> QED
    BY <1>1, <2>1, <2>3, <2>4, NoSlotStep, Zenon DEF Goes, store
<1>3. CASE \E i \in Ids : \/ \E op \in {"get", "query", "delete"} : Start(t, op, i, 0)
                          \/ \E end \in 1 .. MaxSize : Start(t, "put", i, end)
  <2>1. PICK i \in Ids, op \in Ops, end \in Nat : Start(t, op, i, end)
    <3>1. {"get", "query", "delete", "put"} \subseteq Ops /\ 0 \in Nat /\ 1 .. MaxSize \subseteq Nat
      BY DEF Ops
    <3> QED
      BY <1>3, <3>1, Zenon
  <2>2. /\ Types' /\ Goes(t, "idle", "find") /\ req'[t].id = i
        /\ req'[t].slot = None /\ UNCHANGED << store, ino, cached >>
    BY <1>0, <2>1, StepsDo, Zenon DEF StartDid
  <2>3. pc[t] \in NoSlotPCs /\ pc'[t] \in NoSlotPCs
    BY <2>2 DEF Goes, NoSlotPCs
  <2>4. ReqOK(t)'
    BY <2>2, <2>3, Zenon DEF ReqOK
  <2> QED
    BY <1>1, <2>2, <2>3, <2>4, NoSlotStep, Zenon DEF Goes, store
<1>4. CASE Find(t)
  <2>1. CASE /\ Types' /\ Goes(t, "find", "lookup") /\ SameReq(t)
             /\ req'[t].slot = req[t].slot
             /\ UNCHANGED << store, ino, cached >>
    <3>1. pc[t] \in NoSlotPCs /\ pc'[t] \in NoSlotPCs /\ pc[t] # "idle"
      BY <2>1 DEF Goes, NoSlotPCs
    <3>2. ReqOK(t)'
      BY <1>1, <2>1, <3>1, Zenon DEF ReqOK, SameReq, CInv
    <3> QED
      BY <1>1, <2>1, <3>1, <3>2, NoSlotStep, Zenon DEF Goes, store
  <2>2. CASE /\ pc[t] = "find" /\ Return(t, FALSE)
             /\ UNCHANGED << store, ino, cached, mode, fresh, restarts, failed, stale >>
    <3>1. /\ Types' /\ pc'[t] = "idle" /\ Only(t) /\ req'[t].slot = None
      BY <1>0, <2>2, StepsDo, Zenon DEF ReturnDid
    <3>2. pc[t] \in NoSlotPCs /\ pc'[t] \in NoSlotPCs
      BY <2>2, <3>1 DEF NoSlotPCs
    <3>3. ReqOK(t)'
      BY <3>1, <3>2, Zenon DEF ReqOK
    <3> QED
      BY <1>1, <2>2, <3>1, <3>2, <3>3, NoSlotStep, Zenon DEF store
  <2> QED
    BY <1>4, <2>1, <2>2, StepsDo, Zenon DEF FindDid
<1> QED
  BY <1>2, <1>3, <1>4, Zenon

\* nkfs_inodes_lookup.
LEMMA LookupStep ==
  ASSUME CInv, NEW t \in Threads, Lookup(t)
  PROVE  CInv'
<1>0. Types /\ None \notin Slots
  BY SetAssumption DEF CInv
<1>1. /\ Types' /\ Only(t) /\ SameReq(t) /\ pc[t] = "lookup"
      /\ UNCHANGED << store, ino, cached, world, hist >>
      /\ \/ Found(req[t].block) = {} /\ pc'[t] = "load" /\ req'[t].slot = req[t].slot
         \/ /\ req'[t].slot \in Found(req[t].block)
            /\ pc'[t] = IF ino[req'[t].slot].ref <= 0 THEN "refbug" ELSE "inc"
  BY StepsDo, Zenon DEF LookupDid
<1>2. req[t].slot = None /\ req[t].id \in Ids
  <2>1. pc[t] \in NoSlotPCs /\ pc[t] # "idle"
    BY <1>1 DEF NoSlotPCs
  <2> QED
    BY <2>1, Zenon DEF CInv, ReqOK
<1>3. CASE pc'[t] = "load" /\ req'[t].slot = req[t].slot
  <2>1. pc'[t] \in NoSlotPCs
    BY <1>3 DEF NoSlotPCs
  <2>2. ReqOK(t)'
    BY <1>1, <1>2, <1>3, <2>1, Zenon DEF ReqOK, SameReq
  <2> QED
    BY <1>1, <1>2, <1>3, <2>2, NoSlotStep, Zenon DEF store
<1>4. CASE /\ req'[t].slot \in Found(req[t].block)
           /\ pc'[t] = IF ino[req'[t].slot].ref <= 0 THEN "refbug" ELSE "inc"
  <2>1. PICK s \in Slots : s = req'[t].slot /\ s \in cached
    BY <1>0, <1>4, Zenon DEF Found, Types
  <2>2. pc'[t] \in {"inc", "refbug"}
    BY <1>4, Zenon
  <2>3. pc'[t] \notin NoSlotPCs
    BY <2>2 DEF NoSlotPCs
  <2>4. ReqOK(t)'
    BY <1>0, <1>1, <1>2, <2>1, <2>3, Zenon DEF ReqOK, SameReq
  <2>5. SlotOK(s)'
    <3>1. ~At(t, s) /\ At(t, s)'
      BY <1>0, <1>2, <2>1, Zenon DEF At
    <3> QED
      BY <1>1, <2>1, <2>2, <3>1, Takes, Zenon
  <2>6. Distinct'
    BY <1>1, StillDistinct, Zenon
  <2>7. disk'[0] = NoInode
    BY <1>1, Zenon DEF CInv, store
  <2> QED
    BY <1>0, <1>1, <1>2, <2>1, <2>4, <2>5, <2>6, <2>7, Combine, Zenon
<1> QED
  BY <1>1, <1>3, <1>4, Zenon

\* The atomic_inc of nkfs_inode_ref.
LEMMA RefIncStep ==
  ASSUME CInv, NEW t \in Threads, RefInc(t)
  PROVE  CInv'
<1>0. None \notin Slots
  BY SetAssumption
<1>1. /\ Types' /\ Only(t) /\ req' = req /\ pc[t] = "inc"
      /\ req[t].slot \in Slots
      /\ UNCHANGED << store, cached, world, hist >>
      /\ \/ /\ My(t).ref > 0 /\ pc'[t] = "have" /\ OtherInos(req[t].slot)
            /\ ino'[req[t].slot].ref = My(t).ref + 1
            /\ ino'[req[t].slot].alive = My(t).alive
            /\ ino'[req[t].slot].block = My(t).block
            /\ ino'[req[t].slot].writer = My(t).writer
         \/ pc'[t] = "refbug" /\ ino' = ino
  BY StepsDo, Zenon DEF RefIncDid
<1>2. PICK s \in Slots : s = req[t].slot /\ My(t) = ino[s]
  BY <1>1, Zenon DEF My
<1>3. ReqOK(t) /\ SlotOK(s) /\ disk[0] = NoInode /\ HandOK(t, s) /\ At(t, s)
  BY <1>2, Zenon DEF CInv, SlotOK, At
<1>4. ReqOK(t)' /\ At(t, s)'
  <2>1. pc'[t] \notin NoSlotPCs /\ pc[t] # "idle"
    BY <1>1 DEF NoSlotPCs
  <2> QED
    BY <1>0, <1>1, <1>2, <1>3, <2>1, ZenonT(60) DEF ReqOK, At
<1>5. CASE /\ My(t).ref > 0 /\ pc'[t] = "have" /\ OtherInos(s)
           /\ ino'[s].ref = My(t).ref + 1
           /\ ino'[s].alive = My(t).alive
           /\ ino'[s].block = My(t).block
           /\ ino'[s].writer = My(t).writer
  <2>1. ino'[s].alive
    BY <1>1, <1>2, <1>3, <1>5 DEF HandOK
  <2>2. SlotOK(s)'
    BY <1>1, <1>2, <1>3, <1>4, <1>5, <2>1, Joins, ZenonT(60)
  <2>3. \A r \in Slots : ino'[r].block = ino[r].block
    BY <1>2, <1>5, Zenon DEF OtherInos
  <2>4. Distinct'
    <3>1. cached \subseteq Slots
      BY Zenon DEF CInv, Types
    <3> QED
      BY <1>1, <2>3, <3>1, StillDistinct, Zenon
  <2>5. \A r \in Slots : r # s => ino'[r] = ino[r] /\ (r \in cached' <=> r \in cached)
    BY <1>1, <1>5, Zenon DEF OtherInos
  <2>6. disk'[0] = NoInode
    BY <1>1, <1>3, Zenon DEF store
  <2> QED
    BY <1>1, <1>2, <1>4, <2>2, <2>4, <2>5, <2>6, Combine, Zenon
<1>6. CASE pc'[t] = "refbug" /\ ino' = ino
  <2>1. SlotOK(s)'
    <3>1. \A u \in Threads \ {t} : pc'[u] = pc[u] /\ req'[u] = req[u] /\ (At(u, s)' <=> At(u, s))
      BY <1>1, Zenon DEF Only, At
    <3>2. \A u \in Threads : (Holds(u, s)' <=> Holds(u, s)) /\ (Leaves(u, s)' <=> Leaves(u, s))
      <4>1. ~Holds(t, s) /\ ~Holds(t, s)' /\ ~Leaves(t, s) /\ ~Leaves(t, s)'
        BY <1>1, <1>6 DEF Holds, Leaves
      <4> QED
        BY <3>1, <4>1, Zenon DEF Holds, Leaves, At
    <3>3. CountOK(s)'
      <4>1. { u \in Threads : Holds(u, s)' } = { u \in Threads : Holds(u, s) }
        BY <3>2, Zenon
      <4> QED
        BY <1>3, <1>6, <4>1, Zenon DEF SlotOK, CountOK
    <3>4. pc'[t] \notin OwnPCs \cup {"free", "bug", "release"} /\ pc[t] \notin OwnPCs \cup {"free", "bug", "release"}
      BY <1>1, <1>6 DEF OwnPCs
    <3>5. KeptOK(s)'
      <4>1. KeptOK(s)
        BY <1>3, Zenon DEF SlotOK
      <4>2. s \in cached
        BY <1>1, <1>3, Zenon DEF HandOK
      <4> QED
        BY <1>1, <1>6, <3>2, <4>1, <4>2, Zenon DEF KeptOK
    <3>6. ASSUME NEW u \in Threads, At(u, s)' PROVE HandOK(u, s)'
      <4>1. CASE u = t
        BY <1>6, <4>1 DEF HandOK, OwnPCs, WritePCs
      <4>2. CASE u # t
        <5>1. At(u, s) /\ HandOK(u, s) /\ pc'[u] = pc[u] /\ req'[u] = req[u]
          BY <1>3, <3>1, <3>6, <4>2, Zenon DEF SlotOK
        <5> QED
          BY <1>1, <1>6, <5>1, Zenon DEF HandOK
      <4> QED
        BY <4>1, <4>2, Zenon
    <3>7. ASSUME NEW u \in Threads, NEW v \in Threads, u # v, At(u, s)', At(v, s)'
          PROVE  PairOK(u, v)'
      <4>1. PairOK(u, v)
        BY <1>3, <3>1, <3>7, Zenon DEF SlotOK
      <4> QED
        BY <3>1, <3>4, <4>1, Zenon DEF PairOK
    <3> QED
      BY <3>3, <3>5, <3>6, <3>7, Zenon DEF SlotOK
  <2>2. Distinct'
    BY <1>1, <1>6, StillDistinct, Zenon
  <2>3. disk'[0] = NoInode
    BY <1>1, <1>3, Zenon DEF store
  <2> QED
    BY <1>1, <1>2, <1>4, <1>6, <2>1, <2>2, <2>3, Combine, ZenonT(60)
<1> QED
  BY <1>1, <1>2, <1>5, <1>6, Zenon

\* A new inode, and a request that ends without one.
LEMMA NewStep ==
  ASSUME CInv, Types', NEW t \in Threads, Only(t), NEW s \in FreeSlots,
         req[t].slot = None, req[t].id \in Ids, req'[t].slot = s, req'[t].id = req[t].id, OtherInos(s),
         pc'[t] \in OwnPCs \cup {"bug"}, ino'[s].alive, ino'[s].ref = 1, cached' = cached,
         HandOK(t, s)', disk'[0] = disk[0]
  PROVE  CInv'
<1>1. s \in Slots /\ None \notin Slots /\ cached \subseteq Slots /\ disk[0] = NoInode
  BY SetAssumption, Zenon DEF FreeSlots, CInv, Types
<1>2. s \notin cached /\ At(t, s)'
  <2>1. ~ino[s].alive
    BY Zenon DEF FreeSlots
  <2> QED
    BY <1>1, <2>1, Zenon DEF CInv, SlotOK, KeptOK, At
<1>3. ReqOK(t)'
  <2>1. pc'[t] \notin NoSlotPCs
    BY DEF NoSlotPCs, OwnPCs
  <2> QED
    BY <1>1, <2>1, Zenon DEF ReqOK
<1>4. SlotOK(s)'
  BY <1>2, Allocs, Zenon
<1>5. Distinct'
  <2>1. \A r \in cached' : ino'[r].block = ino[r].block
    BY <1>1, <1>2, Zenon DEF OtherInos
  <2> QED
    BY <2>1, StillDistinct, Zenon
<1>6. \A r \in Slots : r # s => ino'[r] = ino[r] /\ (r \in cached' <=> r \in cached)
  BY Zenon DEF OtherInos
<1> QED
  BY <1>1, <1>3, <1>4, <1>5, <1>6, Combine, Zenon

\* A request without an inode ends.
LEMMA EndStep ==
  ASSUME CInv, NEW t \in Threads, pc[t] \in NoSlotPCs, Return(t, FALSE),
         UNCHANGED << store, ino, cached, mode, fresh, restarts, failed, stale >>
  PROVE  CInv'
<1>0. Types
  BY Zenon DEF CInv
<1>1. /\ Types' /\ pc'[t] = "idle" /\ Only(t) /\ req'[t].slot = None
  BY <1>0, StepsDo, Zenon DEF ReturnDid
<1>2. pc'[t] \in NoSlotPCs
  BY <1>1 DEF NoSlotPCs
<1>3. ReqOK(t)' /\ req[t].slot = None
  BY <1>1, <1>2, Zenon DEF ReqOK, CInv
<1> QED
  BY <1>1, <1>3, NoSlotStep, Zenon DEF store

\* nkfs_inode_read reads the inode from the device.
LEMMA LoadStep ==
  ASSUME CInv, NEW t \in Threads, Load(t)
  PROVE  CInv'
<1>0. Types
  BY Zenon DEF CInv
<1>1. CASE pc[t] = "load" /\ Return(t, FALSE)
           /\ UNCHANGED << store, ino, cached, mode, fresh, restarts, failed, stale >>
  <2>1. pc[t] \in NoSlotPCs
    BY <1>1 DEF NoSlotPCs
  <2> QED
    BY <1>1, <2>1, EndStep, Zenon
<1>2. CASE /\ Types' /\ Goes(t, "load", "insert") /\ SameReq(t)
           /\ req'[t].block = req[t].block
           /\ disk[req[t].block] # NoInode
           /\ req'[t].slot \in FreeSlots /\ OtherInos(req'[t].slot)
           /\ LET n == ino'[req'[t].slot]
              IN  /\ n.alive /\ n.ref = 1
                  /\ n.block = req[t].block
                  /\ n.writer = None
           /\ UNCHANGED << store, cached, mode, fresh, restarts, known, hist >>
  <2>1. PICK s \in FreeSlots : s = req'[t].slot
    BY <1>2, Zenon
  <2>2. pc[t] \in NoSlotPCs /\ pc[t] # "idle" /\ pc'[t] \in OwnPCs \cup {"bug"}
    BY <1>2 DEF NoSlotPCs, OwnPCs, Goes
  <2>3. req[t].slot = None /\ req[t].id \in Ids
    BY <2>2, Zenon DEF CInv, ReqOK
  <2>4. req[t].block # 0 /\ s \notin cached
    <3>1. disk[0] = NoInode /\ ~ino[s].alive /\ s \in Slots
      BY Zenon DEF CInv, FreeSlots
    <3> QED
      BY <1>2, <3>1, Zenon DEF CInv, SlotOK, KeptOK
  <2>5. HandOK(t, s)'
    <3>1. pc'[t] # "inc" /\ pc'[t] # "free" /\ pc'[t] # "release" /\ pc'[t] \notin WritePCs
      BY <1>2 DEF Goes, WritePCs
    <3> QED
      BY <1>2, <2>1, <2>4, <3>1, ZenonT(60) DEF HandOK
  <2> QED
    BY <1>2, <2>1, <2>2, <2>3, <2>5, NewStep, Zenon DEF Goes, SameReq, store
<1> QED
  BY <1>1, <1>2, StepsDo, Zenon DEF LoadDid

\* nkfs_inode_create's inode and block.
LEMMA CreateAllocStep ==
  ASSUME CInv, NEW t \in Threads, CreateAlloc(t)
  PROVE  CInv'
<1>1. CASE pc[t] = "calloc" /\ Return(t, FALSE)
           /\ UNCHANGED << store, ino, cached, mode, fresh, restarts, failed, stale >>
  <2>1. pc[t] \in NoSlotPCs
    BY <1>1 DEF NoSlotPCs
  <2> QED
    BY <1>1, <2>1, EndStep, Zenon
<1>2. CASE /\ Types' /\ Only(t) /\ SameReq(t) /\ pc[t] = "calloc"
           /\ req'[t].slot \in FreeSlots /\ OtherInos(req'[t].slot)
           /\ LET n == ino'[req'[t].slot]
              IN  /\ n.alive /\ n.ref = 1 /\ n.id = req[t].id
                  /\ n.size = 0 /\ n.writer = None
                  /\ n.block \in Block \ marked /\ marked' = marked \cup {n.block}
                  /\ pc'[t] = IF n.block = 0 THEN "bug" ELSE "cwrite"
           /\ UNCHANGED << index, disk, cached, mode, fresh, restarts, known, hist >>
  <2>1. PICK s \in FreeSlots : s = req'[t].slot
    BY <1>2, Zenon
  <2>2. pc[t] \in NoSlotPCs /\ pc[t] # "idle" /\ pc'[t] \in {"bug", "cwrite"}
    BY <1>2 DEF NoSlotPCs
  <2>3. req[t].slot = None /\ req[t].id \in Ids
    BY <2>2, Zenon DEF CInv, ReqOK
  <2>4. s \notin cached
    <3>1. ~ino[s].alive /\ s \in Slots
      BY Zenon DEF FreeSlots
    <3> QED
      BY <3>1, Zenon DEF CInv, SlotOK, KeptOK
  <2>5. HandOK(t, s)'
    <3>1. /\ pc'[t] # "inc" /\ pc'[t] # "free" /\ pc'[t] # "release" /\ pc'[t] \notin WritePCs
          /\ pc'[t] # "insert" /\ pc'[t] # "pwrite" /\ (pc'[t] \in OwnPCs => pc'[t] # "bug")
      BY <2>2 DEF OwnPCs, WritePCs
    <3>2. pc'[t] # "bug" => ino'[s].block # 0
      BY <1>2, <2>1, Zenon
    <3> QED
      BY <1>2, <2>1, <2>4, <3>1, <3>2, ZenonT(60) DEF HandOK
  <2>6. pc'[t] \in OwnPCs \cup {"bug"}
    BY <2>2 DEF OwnPCs
  <2> QED
    BY <1>2, <2>1, <2>3, <2>5, <2>6, NewStep, Zenon DEF SameReq
<1> QED
  BY <1>1, <1>2, StepsDo, Zenon DEF CreateAllocDid

\* nkfs_inodes_insert of an inode that was read.
LEMMA InsertStep ==
  ASSUME CInv, NEW t \in Threads, Insert(t)
  PROVE  CInv'
<1>0. Types /\ None \notin Slots /\ disk[0] = NoInode /\ Distinct /\ cached \subseteq Slots
  BY SetAssumption, Zenon DEF CInv, Types
<1>1. /\ Types' /\ Only(t) /\ SameReq(t) /\ pc[t] = "insert"
      /\ req[t].slot \in Slots
      /\ req'[t].block = req[t].block
      /\ UNCHANGED << store, world, acked, failed >>
      /\ \/ /\ req'[t].slot \in Found(req[t].block)
            /\ pc'[t] = IF ino[req'[t].slot].ref <= 0 THEN "refbug" ELSE "inc"
            /\ OtherInos(req[t].slot) /\ ino'[req[t].slot] = Freed
            /\ UNCHANGED << cached, stale >>
         \/ /\ Found(req[t].block) = {} /\ cached' = cached \cup {req[t].slot}
            /\ pc'[t] = "have" /\ UNCHANGED << ino, req >>
  BY StepsDo, Zenon DEF InsertDid
<1>2. PICK s \in Slots : s = req[t].slot /\ At(t, s)
  BY <1>1, Zenon DEF At
<1>3. pc[t] \in OwnPCs
  BY <1>1 DEF OwnPCs
<1>4. HandOK(t, s) /\ SlotOK(s) /\ req[t].id \in Ids
  <2>1. pc[t] # "idle"
    BY <1>1
  <2> QED
    BY <1>2, <2>1, Zenon DEF CInv, SlotOK, ReqOK
<1>5. s \notin cached /\ ino[s].block = req[t].block /\ \A u \in Threads \ {t} : ~At(u, s)
  BY <1>1, <1>2, <1>3, <1>4, Zenon DEF HandOK, SlotOK, PairOK
<1>6. CASE /\ req'[t].slot \in Found(req[t].block)
           /\ pc'[t] = IF ino[req'[t].slot].ref <= 0 THEN "refbug" ELSE "inc"
           /\ OtherInos(s) /\ ino'[s] = Freed
           /\ UNCHANGED << cached, stale >>
  <2>1. PICK r \in Slots : r = req'[t].slot /\ r \in cached
    BY <1>0, <1>6, Zenon DEF Found
  <2>2. pc'[t] \in {"inc", "refbug"} /\ r # s /\ ino'[r] = ino[r]
    BY <1>5, <1>6, <2>1, Zenon DEF OtherInos
  <2>3. ReqOK(t)'
    <3>1. pc'[t] \notin NoSlotPCs
      BY <2>2 DEF NoSlotPCs
    <3> QED
      BY <1>0, <1>1, <1>4, <2>1, <3>1, Zenon DEF ReqOK, SameReq
  <2>4. SlotOK(r)'
    BY <1>1, <1>2, <1>6, <2>1, <2>2, Takes, Zenon DEF At
  <2>5. SlotOK(s)'
    BY <1>1, <1>5, <1>6, <2>1, <2>2, Frees, Records, Zenon DEF At
  <2>6. Distinct'
    <3>1. \A q \in cached' : ino'[q].block = ino[q].block
      BY <1>0, <1>5, <1>6, Zenon DEF OtherInos
    <3> QED
      BY <1>6, <3>1, StillDistinct, Zenon
  <2>7. \A q \in Slots : q # s => ino'[q] = ino[q] /\ (q \in cached' <=> q \in cached)
    BY <1>6, Zenon DEF OtherInos
  <2>8. disk'[0] = NoInode
    BY <1>0, <1>1, Zenon DEF store
  <2> QED
    BY <1>1, <1>2, <2>1, <2>3, <2>4, <2>5, <2>6, <2>7, <2>8, Combine, ZenonT(60)
<1>7. CASE /\ Found(req[t].block) = {} /\ cached' = cached \cup {s}
           /\ pc'[t] = "have" /\ UNCHANGED << ino, req >>
  <2>1. /\ pc'[t] \notin NoSlotPCs \cup {"inc", "release", "refbug", "free", "pwrite", "remove", "insert"}
        /\ pc'[t] \notin WritePCs /\ pc'[t] \notin OwnPCs
    BY <1>7 DEF NoSlotPCs, WritePCs, OwnPCs
  <2>2. OtherInos(s)
    BY <1>0, <1>7, Zenon DEF OtherInos, Types
  <2> QED
    BY <1>1, <1>2, <1>3, <1>5, <1>7, <2>1, <2>2, OwnStep, Zenon DEF store
<1> QED
  BY <1>1, <1>2, <1>6, <1>7, Zenon

\* The steps of requests that share their inodes.
LEMMA CalmSteps ==
  ASSUME CInv, NEW t \in Threads,
         Have(t) \/ Read(t) \/ PutData(t) \/ PutSize(t) \/ PutWrite(t) \/ DeleteKey(t) \/ CreateKey(t)
  PROVE  CInv'
<1>0. Types /\ None \notin Threads
  BY SetAssumption, Zenon DEF CInv
<1>1. PICK A : A = {"have", "read", "data", "plock", "pwrite", "dkey", "ckey"}
  BY Zenon
<1>2. PICK B : B = {"bug", "deref", "read", "data", "dkey", "plock", "del"}
  BY Zenon
<1>3. A \cap (OwnPCs \cup NoSlotPCs \cup {"inc", "release", "refbug", "free", "bug"}) = {}
  BY <1>1 DEF OwnPCs, NoSlotPCs
<1>4. B \cap (OwnPCs \cup NoSlotPCs \cup WritePCs \cup {"inc", "release", "refbug", "free", "pwrite"}) = {}
  BY <1>2 DEF OwnPCs, NoSlotPCs, WritePCs
<1>5. "pwrite" \notin OwnPCs \cup NoSlotPCs \cup {"inc", "release", "refbug", "free"}
  BY DEF OwnPCs, NoSlotPCs
<1>6. SUFFICES ASSUME NEW s \in Slots, s = req[t].slot, My(t) = ino[s], pc[t] \in A, KeepReq(t),
                      \/ pc'[t] \in B
                      \/ pc'[t] = "pwrite" /\ ino'[s].writer = t /\ ino[s].block # 0,
                      Types', Only(t), OtherInos(s), cached' = cached, disk'[0] = disk[0],
                      ino'[s].alive = ino[s].alive, ino'[s].ref = ino[s].ref,
                      ino'[s].block = ino[s].block,
                      ino'[s].writer = ino[s].writer \/ ino[s].writer \in {None, t}
               PROVE  CInv'
  <2>0. \A s \in Slots : ino' = ino => OtherInos(s)
    BY <1>0, Zenon DEF OtherInos, Types
  <2>1. CASE Have(t)
    <3>1. /\ Types' /\ Only(t) /\ pc[t] = "have" /\ req[t].slot \in Slots
          /\ pc'[t] \in {"bug", "read", "deref", "data", "dkey"}
          /\ UNCHANGED << store, ino, cached, req, world, hist >>
      BY <2>1, StepsDo, Zenon DEF HaveDid
    <3> QED
      BY <1>1, <1>2, <1>6, <2>0, <3>1, Zenon DEF KeepReq, SameReq, store, My
  <2>2. CASE Read(t)
    <3>1. /\ Types' /\ Goes(t, "read", "deref") /\ req[t].slot \in Slots
          /\ OtherInos(req[t].slot) /\ SameIno(req[t].slot)
          /\ ino'[req[t].slot].block = My(t).block
          /\ ino'[req[t].slot].writer = My(t).writer
          /\ UNCHANGED << store, cached, req, world, hist >>
      BY <2>2, StepsDo, Zenon DEF ReadDid
    <3> QED
      BY <1>1, <1>2, <1>6, <3>1, Zenon DEF KeepReq, SameReq, SameIno, store, My, Goes
  <2>3. CASE PutData(t)
    <3>1. /\ Types' /\ Only(t) /\ pc[t] = "data" /\ req[t].slot \in Slots
          /\ pc'[t] \in {"plock", "deref"}
          /\ UNCHANGED << store, ino, cached, req, world, hist >>
      BY <2>3, StepsDo, Zenon DEF PutDataDid
    <3> QED
      BY <1>1, <1>2, <1>6, <2>0, <3>1, ZenonT(60) DEF KeepReq, SameReq, store, My
  <2>4. CASE PutSize(t)
    <3>1. /\ Types' /\ Only(t) /\ pc[t] = "plock" /\ req[t].slot \in Slots /\ KeepReq(t)
          /\ My(t).writer = None
          /\ \/ /\ OtherInos(req[t].slot) /\ SameIno(req[t].slot)
                /\ ino'[req[t].slot].block = My(t).block
                /\ ino'[req[t].slot].writer = t
                /\ pc'[t] = IF My(t).block = 0 THEN "bug" ELSE "pwrite"
             \/ pc'[t] = "deref" /\ UNCHANGED ino
          /\ UNCHANGED << store, cached, world, hist >>
      BY <2>4, StepsDo, Zenon DEF PutSizeDid
    <3> QED
      BY <1>1, <1>2, <1>6, <2>0, <3>1, Zenon DEF SameIno, store, My
  <2>5. CASE PutWrite(t)
    <3>1. /\ Types' /\ Goes(t, "pwrite", "deref") /\ req[t].slot \in Slots /\ KeepReq(t)
          /\ OtherInos(req[t].slot) /\ SameIno(req[t].slot)
          /\ ino'[req[t].slot].block = My(t).block
          /\ \A b \in Block : b # My(t).block => disk'[b] = disk[b]
          /\ cached' = cached
      BY <2>5, StepsDo, Zenon DEF PutWriteDid
    <3>2. HandOK(t, req[t].slot)
      BY <3>1, Zenon DEF CInv, SlotOK, At
    <3>3. My(t).block # 0 /\ My(t).writer = t
      <4>1. pc[t] = "pwrite" /\ pc[t] \in WritePCs
        BY Zenon, <3>1 DEF Goes, WritePCs
      <4> QED
        BY <3>2, <4>1, Zenon DEF HandOK, My
    <3>4. 0 \in Block
      BY BoundAssumption DEF Block
    <3> QED
      BY <1>1, <1>2, <1>6, <3>1, <3>3, <3>4, Zenon DEF SameIno, My, Goes
  <2>6. CASE DeleteKey(t)
    <3>1. /\ Types' /\ Goes(t, "dkey", "del") /\ req[t].slot \in Slots /\ KeepReq(t)
          /\ UNCHANGED << disk, ino, cached >>
      BY <2>6, StepsDo, Zenon DEF DeleteKeyDid
    <3> QED
      BY <1>1, <1>2, <1>6, <2>0, <3>1, Zenon DEF My, Goes
  <2>7. CASE CreateKey(t)
    <3>1. /\ Types' /\ Only(t) /\ pc[t] = "ckey" /\ req[t].slot \in Slots
          /\ KeepReq(t)
          /\ pc'[t] \in {"deref", "del"}
          /\ UNCHANGED << disk, ino, cached >>
      BY <2>7, StepsDo, Zenon DEF CreateKeyDid
    <3> QED
      BY <1>1, <1>2, <1>6, <2>0, <3>1, Zenon DEF My
  <2> QED
    BY <2>1, <2>2, <2>3, <2>4, <2>5, <2>6, <2>7, Zenon
<1>7. pc[t] \notin OwnPCs \cup NoSlotPCs \cup {"inc", "release", "refbug", "free", "bug"}
  BY <1>3, <1>6, Zenon
<1>8. pc'[t] \in B \/ pc'[t] = "pwrite"
  BY <1>6, Zenon
<1>9. pc'[t] \notin OwnPCs \cup NoSlotPCs \cup {"inc", "release", "refbug", "free"}
  BY <1>4, <1>5, <1>8, Zenon
<1>10. (pc'[t] \in WritePCs => ino'[s].writer = t) /\ (pc'[t] = "pwrite" => ino[s].block # 0)
  BY <1>4, <1>6, Zenon
<1> QED
  BY <1>6, <1>7, <1>9, <1>10, CalmStep, Zenon DEF At, KeepReq, SameReq

\* The steps of requests that have their inodes for themselves.
LEMMA OwnSteps ==
  ASSUME CInv, NEW t \in Threads,
         CreateWrite(t) \/ CreateInsert(t) \/ (DeleteLock(t) /\ pc[t] = "cdel")
           \/ (DeleteRemove(t) /\ pc[t] = "cremove")
  PROVE  CInv'
<1>0. Types
  BY Zenon DEF CInv
<1>1. pc[t] \in {"cwrite", "cinsert", "cdel", "cremove"}
  BY Zenon DEF CreateWrite, CreateInsert
<1>2. pc[t] \in OwnPCs /\ pc[t] \notin NoSlotPCs
  BY <1>1 DEF OwnPCs, NoSlotPCs
<1>3. PICK s \in Slots : s = req[t].slot /\ At(t, s) /\ My(t) = ino[s]
  BY <1>2, HasSlot, Zenon DEF At, My
<1>4. HandOK(t, s)
  BY <1>3, Zenon DEF CInv, SlotOK
<1>5. ino[s].block # 0 /\ s \notin cached
  BY <1>2, <1>4, Zenon DEF HandOK
<1>6. PICK B : B = {"cinsert", "cdel", "bug", "ckey", "cremove", "cfree"}
  BY Zenon
<1>7. B \cap (NoSlotPCs \cup {"inc", "release", "refbug", "free", "pwrite", "remove", "insert"}) = {}
  BY <1>6 DEF NoSlotPCs
<1>8. SUFFICES ASSUME pc'[t] \in B, pc'[t] \in WritePCs => ino'[s].writer = t,
                      Types', Only(t), OtherInos(s), req' = req, disk'[0] = disk[0],
                      ino'[s].alive = ino[s].alive, ino'[s].ref = ino[s].ref,
                      ino'[s].block = ino[s].block,
                      \/ cached' = cached /\ pc'[t] \in OwnPCs \cup {"bug"}
                      \/ /\ cached' = cached \cup {s} /\ Found(ino[s].block) = {}
                         /\ pc'[t] \notin OwnPCs
               PROVE  CInv'
  <2>0. ino' = ino => OtherInos(s)
    BY <1>0, Zenon DEF OtherInos, Types
  <2>1. CASE CreateWrite(t)
    <3>1. /\ Types' /\ Only(t)
          /\ \A b \in Block : b # My(t).block => disk'[b] = disk[b]
          /\ pc'[t] \in {"cinsert", "cdel"}
          /\ UNCHANGED << ino, cached, req >>
      BY <2>1, StepsDo, Zenon DEF CreateWriteDid
    <3>2. 0 \in Block
      BY BoundAssumption DEF Block
    <3>3. pc'[t] \in OwnPCs /\ pc'[t] \notin WritePCs
      BY <3>1 DEF OwnPCs, WritePCs
    <3> QED
      BY <1>3, <1>5, <1>6, <1>8, <2>0, <3>1, <3>2, <3>3, Zenon
  <2>2. CASE CreateInsert(t)
    <3>1. /\ Types' /\ Only(t)
          /\ \/ Found(My(t).block) = {} /\ cached' = cached \cup {req[t].slot} /\ pc'[t] = "ckey"
             \/ pc'[t] = "bug" /\ UNCHANGED cached
          /\ UNCHANGED << store, ino, req, world, hist >>
      BY <2>2, StepsDo, Zenon DEF CreateInsertDid
    <3>2. pc'[t] \notin OwnPCs /\ pc'[t] \notin WritePCs
      BY <3>1 DEF OwnPCs, WritePCs
    <3> QED
      BY <1>3, <1>6, <1>8, <2>0, <3>1, <3>2, Zenon DEF store
  <2>3. CASE DeleteLock(t) /\ pc[t] = "cdel"
    <3>1. /\ Types' /\ Only(t)
          /\ pc'[t] = IF pc[t] = "del" THEN "remove" ELSE "cremove"
          /\ OtherInos(req[t].slot) /\ SameIno(req[t].slot)
          /\ ino'[req[t].slot].block = My(t).block
          /\ ino'[req[t].slot].writer = t
          /\ UNCHANGED << store, cached, req, world, hist >>
      BY <2>3, StepsDo, Zenon DEF DeleteLockDid
    <3>2. pc'[t] = "cremove"
      BY <2>3, <3>1
    <3>3. pc'[t] \in OwnPCs
      BY <3>2 DEF OwnPCs
    <3> QED
      BY <1>3, <1>6, <1>8, <3>1, <3>2, <3>3, Zenon DEF store, SameIno
  <2>4. CASE DeleteRemove(t) /\ pc[t] = "cremove"
    <3>1. /\ Types' /\ Only(t)
          /\ \/ InodesRemove(t) /\ pc'[t] = IF pc[t] = "remove" THEN "free" ELSE "cfree"
             \/ pc'[t] = "bug" /\ UNCHANGED cached
          /\ UNCHANGED << store, ino, req, world, hist >>
      BY <2>4, StepsDo, Zenon DEF DeleteRemoveDid
    <3>2. pc'[t] \in {"cfree", "bug"}
      BY Zenon, <2>4, <3>1
    <3>3. pc'[t] \in OwnPCs \cup {"bug"} /\ pc[t] \in WritePCs
      BY <2>4, <3>2 DEF OwnPCs, WritePCs
    <3>4. cached' = cached
      <4>1. CASE InodesRemove(t)
        <5>1. Found(My(t).block) \subseteq {s} /\ cached' = cached \ Found(My(t).block)
          BY <1>3, <4>1, Zenon DEF InodesRemove
        <5>2. Found(My(t).block) = {}
          BY <1>5, <5>1, Zenon DEF Found
        <5> QED
          BY <5>1, <5>2, Zenon
      <4> QED
        BY <3>1, <4>1, Zenon
    <3>5. ino'[s].writer = t
      BY <1>4, <3>1, <3>3, Zenon DEF HandOK
    <3> QED
      BY <1>3, <1>6, <1>8, <2>0, <3>1, <3>2, <3>3, <3>4, <3>5, Zenon DEF store
  <2> QED
    BY <2>1, <2>2, <2>3, <2>4, Zenon
<1>9. pc'[t] \notin NoSlotPCs \cup {"inc", "release", "refbug", "free", "pwrite", "remove", "insert"}
  BY <1>7, <1>8, Zenon
<1> QED
  BY <1>2, <1>3, <1>8, <1>9, OwnStep, Zenon

\* An inode that a request holds has a positive count.
LEMMA HeldCounts ==
  ASSUME CInv, NEW t \in Threads, NEW s \in Slots, Holds(t, s)
  PROVE  ino[s].alive /\ ino[s].ref > 0
<1>1. At(t, s) /\ pc[t] # "refbug"
  BY DEF Holds, At
<1>2. SlotOK(s) /\ HandOK(t, s)
  BY <1>1, Zenon DEF CInv, SlotOK
<1>3. ino[s].alive
  BY <1>1, <1>2, Zenon DEF HandOK
<1>4. PICK H : H = { u \in Threads : Holds(u, s) }
  BY Zenon
<1>5. IsFiniteSet(H) /\ H # {}
  BY <1>4, FewHold, Zenon
<1>6. Cardinality(H) \in Nat /\ Cardinality(H) # 0
  BY <1>5, FS_CardinalityType, FS_EmptySet
<1>7. ino[s].ref = Cardinality(H)
  BY <1>2, <1>3, <1>4, Zenon DEF SlotOK, CountOK
<1> QED
  BY <1>3, <1>6, <1>7

\* nkfs_inode_deref.
LEMMA DerefStep ==
  ASSUME CInv, NEW t \in Threads, Deref(t)
  PROVE  CInv'
<1>0. None \notin Slots /\ disk[0] = NoInode /\ cached \subseteq Slots
  BY SetAssumption, Zenon DEF CInv, Types
<1>1. /\ Types' /\ Only(t) /\ pc[t] = "deref" /\ req[t].slot \in Slots
      /\ UNCHANGED << store, cached, mode, fresh, restarts, failed, stale >>
      /\ \/ My(t).ref <= 0
         \/ /\ My(t).ref > 0
            /\ OtherInos(req[t].slot)
            /\ ino'[req[t].slot].ref = My(t).ref - 1
            /\ ino'[req[t].slot].alive = My(t).alive
            /\ ino'[req[t].slot].block = My(t).block
            /\ ino'[req[t].slot].writer = My(t).writer
            /\ IF My(t).ref = 1
               THEN pc'[t] = "release" /\ UNCHANGED req
               ELSE pc'[t] = "idle" /\ req'[t] = NoReq
  BY StepsDo, Zenon DEF DerefDid
<1>2. PICK s \in Slots : s = req[t].slot /\ At(t, s) /\ My(t) = ino[s]
  BY <1>1, Zenon DEF At, My
<1>3. ino[s].alive /\ ino[s].ref > 0
  <2>1. Holds(t, s)
    BY <1>1, <1>2 DEF Holds, At
  <2> QED
    BY <2>1, HeldCounts, Zenon
<1>4. ino[s].ref \in Nat /\ ~(ino[s].ref <= 0)
  <2>1. ino[s].ref \in Nat
    BY InoFields, Zenon DEF CInv
  <2> QED
    BY <1>3, <2>1
<1>5. /\ OtherInos(s)
      /\ ino'[s].ref = ino[s].ref - 1
      /\ ino'[s].alive = ino[s].alive
      /\ ino'[s].block = ino[s].block
      /\ ino'[s].writer = ino[s].writer
      /\ IF ino[s].ref = 1
         THEN pc'[t] = "release" /\ UNCHANGED req
         ELSE pc'[t] = "idle" /\ req'[t] = NoReq
  BY <1>1, <1>2, <1>4, Zenon
<1>6. IF ino[s].ref = 1 THEN At(t, s)' /\ pc'[t] = "release" ELSE ~At(t, s)' /\ req'[t].slot = None
  BY <1>0, <1>2, <1>5, Records, Zenon DEF At
<1>7. SlotOK(s)'
  BY <1>1, <1>2, <1>3, <1>5, <1>6, Drops, ZenonT(60)
<1>8. ReqOK(t)'
  <2>1. /\ "idle" \in NoSlotPCs /\ "release" \notin NoSlotPCs
        /\ "deref" \notin NoSlotPCs /\ "deref" # "idle"
    BY DEF NoSlotPCs
  <2>2. ReqOK(t)
    BY Zenon DEF CInv
  <2>3. CASE ino[s].ref = 1
    BY <1>1, <1>2, <1>5, <2>1, <2>2, <2>3, Zenon DEF ReqOK
  <2>4. CASE ino[s].ref # 1
    BY <1>5, <2>1, <2>4, Records, Zenon DEF ReqOK
  <2> QED
    BY <2>3, <2>4, Zenon
<1>9. \A r \in Slots : r # s => ino'[r] = ino[r] /\ (r \in cached' <=> r \in cached)
  BY <1>1, <1>5, Zenon DEF OtherInos
<1>10. Distinct'
  <2>1. \A r \in cached' : ino'[r].block = ino[r].block
    BY <1>0, <1>1, <1>5, <1>9, Zenon
  <2> QED
    BY <1>1, <2>1, StillDistinct, Zenon
<1>11. \A r \in Slots : r = req[t].slot \/ r = req'[t].slot => r = s
  BY <1>0, <1>2, <1>6, Zenon DEF At
<1>12. disk'[0] = NoInode
  BY <1>0, <1>1, Zenon DEF store
<1> QED
  BY <1>1, <1>2, <1>7, <1>8, <1>9, <1>10, <1>11, <1>12, Combine, ZenonT(60)

\* A request frees its inode and ends.
LEMMA FreedStep ==
  ASSUME CInv, Types', NEW t \in Threads, Only(t), NEW s \in Slots, At(t, s), pc'[t] = "idle",
         req'[t] = NoReq, OtherInos(s), ino'[s] = Freed, cached' \subseteq cached,
         \A r \in Slots \ {s} : r \in cached' <=> r \in cached, s \notin cached',
         \A u \in Threads \ {t} : At(u, s) => pc[u] = "refbug",
         disk'[0] = disk[0]
  PROVE  CInv'
<1>0. None \notin Slots /\ disk[0] = NoInode /\ cached \subseteq Slots
  BY SetAssumption, Zenon DEF CInv, Types
<1>1. req'[t].slot = None /\ ~ino'[s].alive
  BY Records, Zenon
<1>2. SlotOK(s)'
  BY <1>0, <1>1, Frees, Zenon DEF At
<1>3. ReqOK(t)'
  <2>1. "idle" \in NoSlotPCs
    BY DEF NoSlotPCs
  <2> QED
    BY <1>1, <2>1, Zenon DEF ReqOK
<1>4. \A r \in Slots : r # s => ino'[r] = ino[r] /\ (r \in cached' <=> r \in cached)
  BY Zenon DEF OtherInos
<1>5. Distinct'
  <2>1. \A r \in cached' : ino'[r].block = ino[r].block
    BY <1>0, <1>4, Zenon
  <2> QED
    BY <2>1, StillDistinct, Zenon
<1> QED
  BY <1>0, <1>1, <1>2, <1>3, <1>4, <1>5, Combine, Zenon DEF At

\* Who can have the inode that t is about to release.
LEMMA Alone ==
  ASSUME CInv, NEW t \in Threads, NEW s \in Slots, At(t, s), pc[t] = "release", InodesUnlocked
  PROVE  /\ \A u \in Threads \ {t} : At(u, s) => pc[u] = "refbug"
         /\ Found(ino[s].block) \subseteq {s}
<1>1. SlotOK(s) /\ HandOK(t, s) /\ Distinct /\ cached \subseteq Slots
  BY Zenon DEF CInv, SlotOK, Types
<1>2. ino[s].alive /\ ino[s].ref = 0
  BY <1>1, Zenon DEF HandOK
<1>3. \A u \in Threads : ~Holds(u, s)
  <2>1. ~(0 > 0)
    OBVIOUS
  <2> QED
    BY <1>2, <2>1, HeldCounts, Zenon
<1>4. ASSUME NEW u \in Threads \ {t}, At(u, s)
      PROVE  pc[u] = "refbug"
  <2>1. pc[u] # "inc"
    BY Zenon DEF InodesUnlocked
  <2>2. pc[u] # "release"
    BY <1>1, <1>4, Zenon DEF SlotOK, PairOK
  <2> QED
    BY <1>3, <1>4, <2>1, <2>2, Zenon DEF Holds, At
<1>5. ASSUME NEW r \in Found(ino[s].block)
      PROVE  r = s
  <2>1. r \in cached /\ ino[r].block = ino[s].block /\ r \in Slots
    BY <1>1, Zenon DEF Found
  <2>2. CASE s \in cached
    BY <1>1, <2>1, <2>2, Zenon DEF Distinct
  <2>3. CASE s \notin cached
    <3>1. ino[s].block # 0
      <4>1. SlotOK(r)
        BY <2>1, Zenon DEF CInv
      <4> QED
        BY <2>1, <4>1, Zenon DEF SlotOK, KeptOK
    <3>2. PICK u \in Threads : At(u, s) /\ pc[u] \in OwnPCs \cup {"free", "bug"}
      BY <1>1, <1>2, <2>3, <3>1, Zenon DEF SlotOK, KeptOK
    <3>3. u # t /\ pc[u] # "refbug"
      BY <3>2 DEF OwnPCs
    <3> QED
      BY <1>4, <3>2, <3>3, Zenon
  <2> QED
    BY <2>2, <2>3, Zenon
<1> QED
  BY <1>4, <1>5, Zenon

\* nkfs_inode_release.
LEMMA ReleaseStep ==
  ASSUME CInv, NEW t \in Threads, Release(t)
  PROVE  CInv'
<1>1. /\ Types' /\ Only(t) /\ pc[t] = "release" /\ req[t].slot \in Slots
      /\ InodesUnlocked
      /\ UNCHANGED << store, mode, fresh, restarts, failed, stale >>
      /\ \/ /\ InodesRemove(t)
            /\ OtherInos(req[t].slot) /\ ino'[req[t].slot] = Freed
            /\ pc'[t] = "idle" /\ req'[t] = NoReq
         \/ ~(Found(My(t).block) \subseteq {req[t].slot})
  BY StepsDo, Zenon DEF ReleaseDid
<1>2. PICK s \in Slots : s = req[t].slot /\ At(t, s) /\ My(t) = ino[s]
  BY <1>1, Zenon DEF At, My
<1>3. /\ \A u \in Threads \ {t} : At(u, s) => pc[u] = "refbug"
      /\ Found(ino[s].block) \subseteq {s}
  BY <1>1, <1>2, Alone, Zenon
<1>4. /\ cached' = cached \ Found(ino[s].block) /\ OtherInos(s) /\ ino'[s] = Freed
      /\ pc'[t] = "idle" /\ req'[t] = NoReq
  BY <1>1, <1>2, <1>3, Zenon DEF InodesRemove
<1>5. /\ cached' \subseteq cached /\ s \notin cached'
      /\ \A r \in Slots \ {s} : r \in cached' <=> r \in cached
  BY <1>3, <1>4, Zenon DEF Found
<1> QED
  BY <1>1, <1>2, <1>3, <1>4, <1>5, FreedStep, Zenon DEF store

\* nkfs_inode_delete of an inode that others may have.
LEMMA DeleteSteps ==
  ASSUME CInv, NEW t \in Threads,
         (DeleteLock(t) /\ pc[t] = "del") \/ (DeleteRemove(t) /\ pc[t] = "remove")
           \/ (DeleteFree(t) /\ pc[t] = "free")
  PROVE  CInv'
<1>0. /\ Types /\ disk[0] = NoInode /\ cached \subseteq Slots /\ ReqOK(t) /\ None \notin Threads
      /\ None \notin Slots
  BY SetAssumption, Zenon DEF CInv, Types
<1>1. /\ pc[t] \in {"del", "remove", "free"} /\ pc[t] \notin NoSlotPCs /\ pc[t] # "idle"
      /\ pc[t] \notin {"inc", "release", "refbug"} /\ pc[t] \notin OwnPCs
  BY DEF NoSlotPCs, OwnPCs
<1>2. PICK s \in Slots : s = req[t].slot /\ At(t, s) /\ My(t) = ino[s]
  BY <1>1, HasSlot, Zenon DEF At, My
<1>3. SlotOK(s) /\ HandOK(t, s) /\ Holds(t, s)
  BY <1>1, <1>2, Zenon DEF CInv, SlotOK, Holds, At
<1>4. ino[s].alive
  BY <1>1, <1>3, Zenon DEF HandOK
<1>5. ASSUME NEW l, l \in {"bug", "free", "deref"}, pc'[t] = l, req' = req
      PROVE  /\ ReqOK(t)' /\ At(t, s)' /\ Holds(t, s)' /\ l \notin OwnPCs
             /\ l # "inc" /\ l # "release" /\ l # "insert" /\ l # "pwrite"
             /\ (l \in WritePCs => l = "free")
  <2>1. /\ l \notin NoSlotPCs /\ l \notin {"inc", "release", "refbug"} /\ l \notin OwnPCs
        /\ l # "insert" /\ l # "pwrite" /\ (l \in WritePCs => l = "free")
    BY <1>5 DEF NoSlotPCs, OwnPCs, WritePCs
  <2> QED
    BY <1>0, <1>1, <1>2, <1>5, <2>1, ZenonT(60) DEF ReqOK, At, Holds
<1>6. CASE DeleteLock(t) /\ pc[t] = "del"
  <2>1. /\ Types' /\ Only(t)
        /\ pc'[t] = IF pc[t] = "del" THEN "remove" ELSE "cremove"
        /\ OtherInos(req[t].slot) /\ SameIno(req[t].slot)
        /\ ino'[req[t].slot].block = My(t).block
        /\ My(t).writer = None /\ ino'[req[t].slot].writer = t
        /\ UNCHANGED << store, cached, req, world, hist >>
    BY <1>6, StepsDo, Zenon DEF DeleteLockDid
  <2>2. pc'[t] = "remove"
    BY <1>6, <2>1, Zenon
  <2>3. /\ pc[t] \notin OwnPCs \cup NoSlotPCs \cup {"inc", "release", "refbug", "free", "bug"}
        /\ pc'[t] \notin OwnPCs \cup NoSlotPCs \cup {"inc", "release", "refbug", "free"}
        /\ pc'[t] # "pwrite"
    BY <1>6, <2>2 DEF OwnPCs, NoSlotPCs
  <2> QED
    BY <1>2, <2>1, <2>3, CalmStep, Zenon DEF SameIno, store
<1>7. CASE DeleteRemove(t) /\ pc[t] = "remove"
  <2>1. /\ Types' /\ Only(t) /\ InodesUnlocked
        /\ \/ InodesRemove(t) /\ pc'[t] = IF pc[t] = "remove" THEN "free" ELSE "cfree"
           \/ pc'[t] = "bug" /\ UNCHANGED cached
        /\ UNCHANGED << store, ino, req, world, hist >>
    BY <1>7, StepsDo, Zenon DEF DeleteRemoveDid
  <2>2. /\ pc'[t] = "bug" \/ (pc'[t] = "free" /\ s \notin cached')
        /\ cached' \subseteq cached
        /\ \A r \in Slots \ {s} : r \in cached' <=> r \in cached
    <3>1. CASE pc'[t] = "bug" /\ UNCHANGED cached
      BY <3>1, Zenon
    <3>2. CASE InodesRemove(t) /\ pc'[t] = IF pc[t] = "remove" THEN "free" ELSE "cfree"
      <4>1. Found(ino[s].block) \subseteq {s} /\ cached' = cached \ Found(ino[s].block)
        BY <1>2, <3>2, Zenon DEF InodesRemove
      <4>2. pc'[t] = "free"
        BY <1>7, <3>2, Zenon
      <4> QED
        BY <4>1, <4>2, Zenon DEF Found
    <3> QED
      BY <2>1, <3>1, <3>2, Zenon
  <2>3. /\ ReqOK(t)' /\ At(t, s)' /\ Holds(t, s)' /\ pc'[t] \notin OwnPCs
        /\ pc'[t] # "inc" /\ pc'[t] # "release" /\ pc'[t] # "insert" /\ pc'[t] # "pwrite"
        /\ (pc'[t] \in WritePCs => pc'[t] = "free")
    BY <1>5, <2>1, <2>2, Zenon
  <2>4. HandOK(t, s)'
    <3>1. ino[s].writer = t
      <4>1. pc[t] \in WritePCs
        BY <1>7 DEF WritePCs
      <4> QED
        BY <1>3, <4>1, Zenon DEF HandOK
    <3>2. "bug" # "free"
      OBVIOUS
    <3> QED
      BY <1>4, <2>1, <2>2, <2>3, <3>1, <3>2, ZenonT(60) DEF HandOK
  <2>5. SlotOK(s)'
    <3>1. \A u \in Threads \ {t} : At(u, s) => HandOK(u, s)'
      BY <1>2, <1>4, <2>1, <2>2, Unnoticed, ZenonT(60) DEF InodesUnlocked
    <3>2. s \in cached' => ino'[s].block # 0
      BY <1>3, <2>1, <2>2, Zenon DEF SlotOK, KeptOK
    <3> QED
      BY <1>2, <1>3, <1>4, <2>1, <2>2, <2>3, <2>4, <3>1, <3>2, Stays, ZenonT(60)
  <2>6. Distinct'
    BY <2>1, <2>2, StillDistinct, Zenon
  <2>7. disk'[0] = NoInode
    BY <1>0, <2>1, Zenon DEF store
  <2> QED
    BY <1>2, <2>1, <2>2, <2>3, <2>5, <2>6, <2>7, Combine, Zenon
<1>8. CASE DeleteFree(t) /\ pc[t] = "free"
  <2>0. s \notin cached /\ ino[s].writer = t
    <3>1. pc[t] \in WritePCs
      BY <1>8 DEF WritePCs
    <3> QED
      BY <1>3, <1>8, <3>1, Zenon DEF HandOK
  <2>1. /\ Types' /\ Only(t)
        /\ UNCHANGED << index, disk, cached, mode, fresh, restarts, stale >>
        /\ \/ pc'[t] = "bug" /\ UNCHANGED << ino, req >>
           \/ /\ OtherInos(s)
              /\ \/ /\ pc'[t] = "deref" /\ SameIno(s)
                    /\ ino'[s].block = 0
                    /\ UNCHANGED req
                 \/ pc[t] = "cfree"
    BY <1>2, <1>8, StepsDo, Zenon DEF DeleteFreeDid
  <2>2. /\ pc'[t] \in {"bug", "deref"} /\ req' = req
        /\ OtherInos(s) /\ SameIno(s) /\ (pc'[t] = "deref" => ino'[s].block = 0)
    <3>1. "free" # "cfree" /\ "bug" # "deref"
      OBVIOUS
    <3>2. ino' = ino => OtherInos(s) /\ SameIno(s)
      BY <1>0, Zenon DEF OtherInos, SameIno, Types
    <3> QED
      BY <1>8, <2>1, <3>1, <3>2, Zenon
  <2>3. /\ ReqOK(t)' /\ At(t, s)' /\ Holds(t, s)' /\ pc'[t] \notin OwnPCs
        /\ pc'[t] # "inc" /\ pc'[t] # "release" /\ pc'[t] # "insert" /\ pc'[t] # "pwrite"
        /\ (pc'[t] \in WritePCs => pc'[t] = "free")
    BY <1>5, <2>2, Zenon
  <2>4. HandOK(t, s)'
    <3>1. pc'[t] # "free"
      BY <2>2
    <3> QED
      BY <1>4, <2>2, <2>3, <3>1, Zenon DEF HandOK, SameIno
  <2>5. ASSUME NEW u \in Threads \ {t}, At(u, s)
        PROVE  HandOK(u, s)'
    <3>1. HandOK(u, s) /\ pc[u] \notin OwnPCs /\ u # t
      BY <1>2, <1>3, <2>5, Zenon DEF SlotOK, PairOK
    <3>2. pc[u] # "inc" /\ pc[u] \notin WritePCs
      BY <2>0, <3>1, Zenon DEF HandOK
    <3>3. pc[u] # "pwrite" /\ pc[u] # "insert"
      BY <3>1, <3>2 DEF WritePCs, OwnPCs
    <3>4. pc'[u] = pc[u] /\ req'[u] = req[u]
      BY <2>1, Zenon DEF Only
    <3> QED
      BY <2>0, <2>1, <2>2, <3>1, <3>2, <3>3, <3>4, Zenon DEF HandOK, SameIno
  <2>6. SlotOK(s)'
    <3>1. ino'[s].alive /\ ino'[s].ref = ino[s].ref
      BY <1>4, <2>2, Zenon DEF SameIno
    <3>2. ino'[s].block # 0 => pc'[t] = "bug"
      BY <2>2, Zenon
    <3> QED
      BY <1>2, <1>3, <2>0, <2>1, <2>3, <2>4, <2>5, <3>1, <3>2, Stays, ZenonT(60)
  <2>7. Distinct'
    <3>1. \A r \in cached' : ino'[r].block = ino[r].block
      BY <1>0, <2>0, <2>1, <2>2, Zenon DEF OtherInos
    <3> QED
      BY <2>1, <3>1, StillDistinct, Zenon
  <2>8. \A r \in Slots : r # s => ino'[r] = ino[r] /\ (r \in cached' <=> r \in cached)
    BY <2>1, <2>2, Zenon DEF OtherInos
  <2> QED
    BY <1>0, <1>2, <2>1, <2>2, <2>3, <2>6, <2>7, <2>8, Combine, Zenon
<1> QED
  BY <1>6, <1>7, <1>8, Zenon

\* A create that failed frees its inode.
LEMMA CreateFreeStep ==
  ASSUME CInv, NEW t \in Threads, DeleteFree(t), pc[t] = "cfree"
  PROVE  CInv'
<1>0. Types
  BY Zenon DEF CInv
<1>1. pc[t] \in OwnPCs /\ pc[t] \notin NoSlotPCs
  BY DEF OwnPCs, NoSlotPCs
<1>2. PICK s \in Slots : s = req[t].slot /\ At(t, s) /\ My(t) = ino[s]
  BY <1>1, HasSlot, Zenon DEF At, My
<1>3. s \notin cached /\ \A u \in Threads \ {t} : ~At(u, s)
  BY <1>1, <1>2, ZenonT(60) DEF CInv, SlotOK, HandOK, PairOK
<1>4. /\ Types' /\ Only(t) /\ disk' = disk /\ cached' = cached
      /\ \/ pc'[t] = "bug" /\ UNCHANGED << ino, req >>
         \/ /\ OtherInos(s)
            /\ \/ pc[t] = "free"
               \/ ino'[s] = Freed /\ pc'[t] = "idle" /\ req'[t] = NoReq
  BY <1>2, StepsDo, Zenon DEF DeleteFreeDid
<1>5. CASE pc'[t] = "bug" /\ UNCHANGED << ino, req >>
  <2>1. /\ pc'[t] \notin NoSlotPCs \cup {"inc", "release", "refbug", "free", "pwrite", "remove", "insert"}
        /\ pc'[t] \notin WritePCs
    BY <1>5 DEF NoSlotPCs, WritePCs
  <2>2. OtherInos(s)
    BY <1>0, <1>5, Zenon DEF OtherInos, Types
  <2> QED
    BY <1>1, <1>2, <1>4, <1>5, <2>1, <2>2, OwnStep, Zenon
<1>6. CASE OtherInos(s) /\ ino'[s] = Freed /\ pc'[t] = "idle" /\ req'[t] = NoReq
  BY <1>2, <1>3, <1>4, <1>6, FreedStep, Zenon
<1>7. "cfree" # "free"
  OBVIOUS
<1> QED
  BY <1>4, <1>5, <1>6, <1>7, Zenon

\* nkfs_sb_stop, nkfs_dev_add and a step that changes nothing.
LEMMA QuietSteps ==
  ASSUME CInv, Stop \/ Mount \/ UNCHANGED vars
  PROVE  CInv'
<1>1. UNCHANGED << store, ino, cached, pc, req, fresh, known, hist >>
  BY Zenon DEF Stop, Mount, vars, store, hist
<1>2. Types'
  BY <1>1, Zenon DEF CInv, Types, store, hist
<1>3. \A t \in Threads : ReqOK(t)'
  BY <1>1, Zenon DEF CInv, ReqOK
<1>4. ASSUME NEW s \in Slots
      PROVE  SlotOK(s)'
  <2>1. SameAt(s) /\ SlotOK(s)
    BY <1>1, Zenon DEF SameAt, At, CInv
  <2> QED
    BY <2>1, SameSlot, Zenon
<1>5. Distinct'
  BY <1>1, StillDistinct, Zenon
<1> QED
  BY <1>1, <1>2, <1>3, <1>4, <1>5, Zenon DEF CInv, store

\* Without requests and inodes.
LEMMA Empty ==
  ASSUME Types', ino' = [s \in Slots |-> Freed], cached' = {}, disk'[0] = NoInode,
         pc' = [t \in Threads |-> "idle"], req' = [t \in Threads |-> NoReq]
  PROVE  CInv'
<1>1. \A t \in Threads : pc'[t] = "idle" /\ req'[t].slot = None
  BY Records
<1>2. \A s \in Slots : ~ino'[s].alive
  BY Records
<1>3. \A t \in Threads : ReqOK(t)'
  <2>1. "idle" \in NoSlotPCs
    BY DEF NoSlotPCs
  <2> QED
    BY <1>1, <2>1, Zenon DEF ReqOK
<1>4. ASSUME NEW s \in Slots
      PROVE  SlotOK(s)'
  <2>1. None \notin Slots
    BY SetAssumption
  <2> QED
    BY <1>1, <1>2, <2>1, Zenon DEF SlotOK, CountOK, KeptOK, At
<1>5. Distinct'
  BY Zenon DEF Distinct
<1> QED
  BY <1>3, <1>4, <1>5, Zenon DEF CInv

\* Power loss.
LEMMA CrashStep ==
  ASSUME CInv, Crash
  PROVE  CInv'
<1>1. Types'
  <2>1. /\ ino' \in [Slots -> Inode] /\ req' \in [Threads -> Request] /\ cached' \subseteq Slots
    BY Records, Zenon DEF Crash
  <2>2. pc' \in [Threads -> PCs]
    BY DEF Crash, PCs
  <2> QED
    BY <2>1, <2>2, Zenon DEF CInv, Types, Crash, store, hist
<1>2. disk'[0] = NoInode
  BY Zenon DEF CInv, Crash, store
<1> QED
  BY <1>1, <1>2, Empty, ZenonT(60) DEF Crash

\* A formatted device that has just been added.
LEMMA InitCInv == Init => CInv
<1> SUFFICES ASSUME Init PROVE CInv
  OBVIOUS
<1>1. 0 \in Block
  BY BoundAssumption DEF Block
<1>2. Types
  <2>1. /\ ino \in [Slots -> Inode] /\ req \in [Threads -> Request] /\ cached \subseteq Slots
    BY Records, Zenon DEF Init
  <2>2. pc \in [Threads -> PCs] /\ acked \in [Ids -> Nat]
    BY DEF Init, PCs
  <2>3. NoInode \in [ id : Ids \cup {None}, size : Nat ]
    BY DEF NoInode
  <2>4. disk \in [Block -> [ id : Ids \cup {None}, size : Nat ]]
    BY <2>3, Zenon DEF Init
  <2> QED
    BY <1>1, <2>1, <2>2, <2>4, ZenonT(60) DEF Types, Init
<1>3. \A t \in Threads : pc[t] = "idle" /\ req[t].slot = None
  BY Records DEF Init
<1>4. \A s \in Slots : ~ino[s].alive
  BY Records DEF Init
<1>5. \A t \in Threads : ReqOK(t)
  <2>1. "idle" \in NoSlotPCs
    BY DEF NoSlotPCs
  <2> QED
    BY <1>3, <2>1, Zenon DEF ReqOK
<1>6. ASSUME NEW s \in Slots
      PROVE  SlotOK(s)
  <2>1. None \notin Slots
    BY SetAssumption
  <2> QED
    BY <1>3, <1>4, <2>1, Zenon DEF SlotOK, CountOK, KeptOK, At, Init
<1>7. Distinct /\ disk[0] = NoInode
  BY <1>1, Zenon DEF Distinct, Init
<1> QED
  BY <1>2, <1>5, <1>6, <1>7, ZenonT(60) DEF CInv

\* Every step keeps the counts and the cache.
LEMMA CountsStep == CInv /\ [Next]_vars => CInv'
<1> SUFFICES ASSUME CInv, [Next]_vars PROVE CInv'
  OBVIOUS
<1>1. ASSUME NEW t \in Threads,
             \/ CreateStart(t)
             \/ \E i \in Ids : \/ \E op \in {"get", "query", "delete"} : Start(t, op, i, 0)
                               \/ \E end \in 1 .. MaxSize : Start(t, "put", i, end)
             \/ InodeRead(t) \/ InodeDelete(t) \/ InodeDeref(t) \/ InodeCreate(t) \/ Serve(t)
      PROVE  CInv'
  <2>1. CASE InodeDelete(t)
    <3>1. DeleteLock(t) => pc[t] \in {"del", "cdel"}
      BY Zenon DEF DeleteLock
    <3>2. DeleteRemove(t) => pc[t] \in {"remove", "cremove"}
      BY Zenon DEF DeleteRemove
    <3>3. DeleteFree(t) => pc[t] \in {"free", "cfree"}
      BY Zenon DEF DeleteFree
    <3> QED
      BY <2>1, <3>1, <3>2, <3>3, DeleteSteps, OwnSteps, CreateFreeStep, Zenon DEF InodeDelete
  <2>2. CASE InodeRead(t)
    BY <2>2, LookupStep, RefIncStep, LoadStep, InsertStep, ZenonT(60) DEF InodeRead
  <2>3. CASE InodeDeref(t)
    BY <2>3, DerefStep, ReleaseStep, Zenon DEF InodeDeref
  <2>4. CASE InodeCreate(t)
    BY <2>4, CreateAllocStep, OwnSteps, CalmSteps, Zenon DEF InodeCreate
  <2>5. CASE Serve(t)
    BY <2>5, BeginSteps, CalmSteps, Zenon DEF Serve
  <2> QED
    BY <1>1, <2>1, <2>2, <2>3, <2>4, <2>5, BeginSteps, ZenonT(60)
<1> QED
  BY <1>1, QuietSteps, CrashStep, Zenon DEF Next

\* The counts and the cache, in every state.
THEOREM CountsInvariance == Spec => []CInv
BY InitCInv, CountsStep, PTL DEF Spec

\* Reference counts are exact (RefExact), however requests overlap and fail.
THEOREM CountsExact == Spec => []RefExact
<1>1. CInv => RefExact
  BY ZenonT(60) DEF CInv, SlotOK, CountOK, RefExact
<1> QED
  BY <1>1, CountsInvariance, PTL

\* The cache has no freed inode, and none that no request is responsible for
\* (CachedAreHeld).
THEOREM CacheHeld == Spec => []CachedAreHeld
<1>1. CInv => CachedAreHeld
  BY Zenon DEF CInv, Types, SlotOK, KeptOK, CachedAreHeld
<1> QED
  BY <1>1, CountsInvariance, PTL

\* Every step keeps the objects.
LEMMA Sound == Careful /\ CInv /\ OInv /\ [Next]_vars => OInv'
<1>1. CInv => HeldCounted
  BY HeldCounts, Alone, Zenon DEF HeldCounted
<1> QED
  BY <1>1, ObjectsKept, Zenon

\* When clients do not use an object while they delete it, and the tree of
\* inodes does not fail, OInv is an invariant: whatever requests overlap,
\* whichever reads and writes of the device fail and wherever power is lost.
THEOREM ObjectsInvariance ==
  ASSUME Careful
  PROVE  Spec => []OInv
<1>1. Init => OInv
  BY InitSound, Zenon
<1>2. CInv /\ OInv /\ [Next]_vars => OInv'
  BY Sound, Zenon
<1> QED
  BY <1>1, <1>2, CountsInvariance, PTL DEF Spec

\* Requests for one object share its inode, and rw_sem is only held for writing
\* by a request inside the section it guards (inode.c:114-145, 257-263,
\* 288-303, 734-743).
THEOREM InodesShared ==
  ASSUME Careful
  PROVE  Spec => []SharedInode
<1>1. CInv /\ OInv => SharedInode
  <2> SUFFICES ASSUME CInv, OInv PROVE SharedInode
    OBVIOUS
  <2>1. ASSUME NEW t \in Threads, Uses(t) PROVE req[t].slot \in cached
    BY <2>1, Zenon DEF Uses, OInv, ObjectOK
  <2>2. \A t, u \in Threads :
          Uses(t) /\ Uses(u) /\ My(t).block = My(u).block => req[t].slot = req[u].slot
    BY <2>1, Zenon DEF CInv, Distinct, My
  <2> QED
    BY <2>2, Zenon DEF SharedInode, OInv, LockOK, At, WritePCs
<1> QED
  BY <1>1, ObjectsInvariance, CountsInvariance, PTL

\* Every object of the tree has its own block, with its inode on the device, at
\* every point of a create and a delete (super.c:584-594, 658-660).
THEOREM TreeAlwaysSound ==
  ASSUME Careful
  PROVE  Spec => []IndexSound
<1>1. OInv => IndexSound
  BY Zenon DEF OInv
<1> QED
  BY <1>1, ObjectsInvariance, PTL

\* Error paths of create and delete give back what they took (super.c:584-603,
\* inode.c:288-351).
THEOREM BlocksReturned ==
  ASSUME Careful
  PROVE  Spec => []NoBlockLeaks
<1>1. OInv => NoBlockLeaks
  BY Zenon DEF OInv
<1> QED
  BY <1>1, ObjectsInvariance, PTL

\* The size an acknowledged put reached is on the device (inode.c:720-743).
THEOREM SizesDurable ==
  ASSUME Careful
  PROVE  Spec => []SizeDurable
<1>1. OInv => SizeDurable
  BY Zenon DEF OInv, SizesOK, Current, SizeDurable
<1> QED
  BY <1>1, ObjectsInvariance, PTL

\* No request runs into an assertion other than those of reference counts
\* (inode.c:107, 311, 370, 394, super.c:555, 626, balloc.c:89).
THEOREM NoAssertionFails ==
  ASSUME Careful
  PROVE  Spec => []AssertionsHold
<1>1. OInv => AssertionsHold
  BY Zenon DEF OInv, OpOK, AssertionsHold
<1> QED
  BY <1>1, ObjectsInvariance, PTL

=============================================================================
