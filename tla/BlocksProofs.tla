--------------------------- MODULE BlocksProofs -----------------------------
(*************************************************************************)
(* What module Blocks promises, for any number of puts, of blocks of the *)
(* object and of the device: every step keeps the types and the locals,  *)
(* who owns and who uses a block after each step, and the theorems.      *)
(*************************************************************************)
EXTENDS BlocksInv, TLAPS

-----------------------------------------------------------------------------
(* The steps of the specification do what is said above.                   *)

\* A put that only moves on.
LEMMA Moves ==
  ASSUME Types, NEW t \in Threads, NEW l \in PCs, GoTo(t, l), UNCHANGED ib
  PROVE  Goes(t, l)
  BY Zenon DEF Types, GoTo, Goes

\* A put that returns.
LEMMA Returns ==
  ASSUME Types, NEW t \in Threads, Return(t)
  PROVE  Ends(t)
PROOF
  <1>1. NoIb \in Ib
    BY Zenon DEF NoIb, Ib
  <1>2. "idle" \in PCs
    BY Zenon DEF PCs
  <1>3. pc' = [pc EXCEPT ![t] = "idle"] /\ ib' = [ib EXCEPT ![t] = NoIb]
    BY Zenon DEF Return, GoTo
  <1>4. /\ ib' \in [Threads -> Ib] /\ ib'[t] = NoIb
        /\ \A u \in Threads \ {t} : ib'[u] = ib[u]
    BY Zenon, <1>1, <1>3 DEF Types
  <1>5. /\ pc' \in [Threads -> PCs] /\ pc'[t] = "idle"
        /\ \A u \in Threads \ {t} : pc'[u] = pc[u]
    BY Zenon, <1>2, <1>3 DEF Types
  <1> QED
    BY <1>4, <1>5 DEF Ends, Locs, NoIb

\* A put that moves on with other locals.
LEMMA Changes ==
  ASSUME Types, NEW t \in Threads, NEW l \in PCs, NEW r \in Ib,
         GoTo(t, l), ib' = [ib EXCEPT ![t] = r]
  PROVE  Locs(t, l, r.v, r.block, r.sum, r.sumNew, r.sumIn, r.val, r.new)
  BY Zenon DEF Types, GoTo, Locs

\* An allocation.
LEMMA Allocates ==
  ASSUME Types, NEW b \in Blocks, Alloc(b)
  PROVE  Clears(b)
PROOF
  <1>1. [v \in VBlocks |-> Junk] \in [VBlocks -> Sum]
    BY Zenon DEF Junk, Sum
  <1>2. {} \in SUBSET Threads
    BY Zenon
  <1>3. /\ data' \in [Blocks -> SUBSET Threads] /\ dataDisk' \in [Blocks -> SUBSET Threads]
        /\ \A a \in Blocks \ {b} : data'[a] = data[a] /\ dataDisk'[a] = dataDisk[a]
    BY Zenon, <1>2 DEF Types, Alloc
  <1>4. /\ sum' \in [Blocks -> [VBlocks -> Sum]] /\ sumDisk' \in [Blocks -> [VBlocks -> Sum]]
        /\ \A a \in Blocks \ {b} : sum'[a] = sum[a] /\ sumDisk'[a] = sumDisk[a]
    BY Zenon, <1>1 DEF Types, Alloc
  <1> QED
    BY Zenon, <1>3, <1>4 DEF Alloc, Clears

\* A free.
LEMMA Gives ==
  ASSUME Types, NEW t \in Threads, NEW freed \in SUBSET (Blocks \cup {None}), Free(t, freed)
  PROVE  Frees(t, freed)
  BY Zenon DEF Types, Free, Holds, Frees, Tears

\* Every step does one of these.
LEMMA StepDoes == Types /\ Locals /\ [Next]_vars => Does
PROOF
  <1> SUFFICES ASSUME Types, Locals, [Next]_vars PROVE Does
    BY Zenon
  <1>0. /\ \A t \in Threads : ib[t] \in Ib
        /\ sums \in Blocks \cup {None}
    BY Zenon DEF Types
  <1>1. CASE UNCHANGED vars
    BY Zenon, <1>1 DEF Does
  <1>2. ASSUME NEW t \in Threads, Start(t) PROVE StartDoes(t)
    <2>1. PICK v \in VBlocks : /\ ib' = [ib EXCEPT ![t].v = v]
                               /\ torn' = IF Writers(v) # {} THEN torn \cup {v} ELSE torn
      BY Zenon, <1>2 DEF Start
    <2>2. ib[t] = NoIb
      BY Zenon, <1>2 DEF Start, At, Locals, LocalsAt
    <2> DEFINE r == [NoIb EXCEPT !.v = v]
    <2>3. r \in Ib
      BY Zenon DEF Ib, NoIb
    <2>4. ib' = [ib EXCEPT ![t] = r]
      BY Zenon, <2>1, <2>2
    <2>5. GoTo(t, "find") /\ "find" \in PCs
      BY Zenon, <1>2 DEF Start, PCs
    <2>6. Locs(t, "find", r.v, r.block, r.sum, r.sumNew, r.sumIn, r.val, r.new)
      BY Zenon, <2>3, <2>4, <2>5, Changes
    <2>7. Locs(t, "find", v, None, None, FALSE, FALSE, {}, FALSE)
      BY Zenon, <2>6 DEF NoIb
    <2>8. \A u \in Threads : ib[u].v = v => v \in torn'
      BY Zenon, <2>1 DEF Writers
    <2> QED
      BY Zenon, <1>2, <2>1, <2>7, <2>8 DEF Start, StartDoes, At, trees, clus, rest
  <1>3. ASSUME NEW t \in Threads, FindBlock(t) PROVE FindBlockDoes(t)
    <2> DEFINE b == blocks[ib[t].v]
               r == [ib[t] EXCEPT !.block = b]
               l == IF b = None THEN "alloc" ELSE "findsum"
    <2>1. b \in Blocks \cup {None}
      BY Zenon, <1>3 DEF FindBlock, At, Types, Locals, LocalsAt
    <2>2. r \in Ib
      BY Zenon, <1>0, <2>1 DEF Ib
    <2>3. ib' = [ib EXCEPT ![t] = r] /\ GoTo(t, l) /\ l \in PCs
      BY Zenon, <1>3 DEF FindBlock, PCs, Types
    <2>4. Locs(t, l, r.v, r.block, r.sum, r.sumNew, r.sumIn, r.val, r.new)
      BY Zenon, <2>2, <2>3, Changes
    <2>5. Locs(t, l, ib[t].v, b, ib[t].sum, ib[t].sumNew, ib[t].sumIn, ib[t].val, ib[t].new)
      BY <1>0, <2>4 DEF Ib
    <2> QED
      BY Zenon, <1>3, <2>5 DEF FindBlock, FindBlockDoes, At, trees, clus, hist, rest
  <1>4. ASSUME NEW t \in Threads, FindSum(t) \/ SumFind(t) PROVE FindSumDoes(t)
    <2> DEFINE r == [ib[t] EXCEPT !.sum = sums]
               l == IF sums = None THEN IF pc[t] = "findsum" THEN "alloc" ELSE "sumalloc"
                    ELSE IF pc[t] = "findsum" THEN "open" ELSE "aopen"
    <2>2. r \in Ib
      BY Zenon, <1>0 DEF Ib
    <2>3. ib' = [ib EXCEPT ![t] = r] /\ GoTo(t, l) /\ l \in PCs
      BY Zenon, <1>4 DEF FindSum, SumFind, At, PCs, Types
    <2>4. Locs(t, l, r.v, r.block, r.sum, r.sumNew, r.sumIn, r.val, r.new)
      BY Zenon, <2>2, <2>3, Changes
    <2>5. Locs(t, l, ib[t].v, ib[t].block, sums, ib[t].sumNew, ib[t].sumIn, ib[t].val, ib[t].new)
      BY <1>0, <2>4 DEF Ib
    <2> QED
      BY Zenon, <1>4, <2>5 DEF FindSum, SumFind, FindSumDoes, At, trees, clus, hist, rest
  <1>5. ASSUME NEW t \in Threads, Open(t) \/ CheckSum(t) \/ AllocOpen(t) PROVE OpenDoes(t)
    <2>1. UNCHANGED << trees, clus, rest, torn >>
      BY Zenon, <1>5 DEF Open, CheckSum, AllocOpen, hist, rest
    <2>2. CASE Open(t)
      BY Zenon, <2>1, <2>2, Moves DEF Open, OpenDoes, At, PCs
    <2>3. CASE CheckSum(t)
      BY Zenon, <2>1, <2>3, Moves, Returns DEF CheckSum, OpenDoes, At, PCs
    <2>4. CASE AllocOpen(t)
      BY Zenon, <2>1, <2>4, Moves DEF AllocOpen, OpenDoes, At, PCs
    <2> QED
      BY Zenon, <1>5, <2>2, <2>3, <2>4
  <1>6. ASSUME NEW t \in Threads, AllocBlock(t) PROVE AllocBlockDoes(t)
    <2>1. pc[t] = "alloc" /\ UNCHANGED << blocks, sums, rest, torn >>
      BY Zenon, <1>6 DEF AllocBlock, At, hist, rest
    <2>2. CASE \E b \in Blocks :
                 /\ Alloc(b)
                 /\ ib' = [ib EXCEPT ![t] = [NoIb EXCEPT !.v = ib[t].v, !.block = b, !.new = TRUE]]
                 /\ GoTo(t, "sumfind")
      <3>1. PICK b \in Blocks :
                 /\ Alloc(b)
                 /\ ib' = [ib EXCEPT ![t] = [NoIb EXCEPT !.v = ib[t].v, !.block = b, !.new = TRUE]]
                 /\ GoTo(t, "sumfind")
        BY Zenon, <2>2
      <3> DEFINE r == [NoIb EXCEPT !.v = ib[t].v, !.block = b, !.new = TRUE]
      <3>2. r \in Ib
        BY Zenon, <1>0 DEF Ib, NoIb
      <3>3. ib' = [ib EXCEPT ![t] = r] /\ GoTo(t, "sumfind") /\ "sumfind" \in PCs
        BY Zenon, <3>1 DEF PCs
      <3>4. Locs(t, "sumfind", r.v, r.block, r.sum, r.sumNew, r.sumIn, r.val, r.new)
        BY Zenon, <3>2, <3>3, Changes
      <3>5. Locs(t, "sumfind", ib[t].v, b, None, FALSE, FALSE, {}, TRUE)
        BY Zenon, <3>4 DEF NoIb
      <3>6. Clears(b)
        BY Zenon, <3>1, Allocates
      <3> QED
        BY Zenon, <2>1, <3>5, <3>6 DEF AllocBlockDoes
    <2>3. CASE Return(t) /\ UNCHANGED << marked, clus >>
      BY Zenon, <2>1, <2>3, Returns DEF AllocBlockDoes
    <2> QED
      BY Zenon, <1>6, <2>2, <2>3 DEF AllocBlock
  <1>7. ASSUME NEW t \in Threads, SumAlloc(t) PROVE SumAllocDoes(t)
    <2>1. pc[t] = "sumalloc" /\ UNCHANGED << blocks, sums, rest, torn >>
      BY Zenon, <1>7 DEF SumAlloc, At, hist, rest
    <2>2. CASE \E b \in Blocks : /\ Alloc(b)
                                 /\ ib' = [ib EXCEPT ![t].sum = b, ![t].sumNew = TRUE]
                                 /\ GoTo(t, "suminsert")
      <3>1. PICK b \in Blocks : /\ Alloc(b)
                                /\ ib' = [ib EXCEPT ![t].sum = b, ![t].sumNew = TRUE]
                                /\ GoTo(t, "suminsert")
        BY Zenon, <2>2
      <3> DEFINE q == [ib[t] EXCEPT !.sum = b]
                 r == [q EXCEPT !.sumNew = TRUE]
      <3>a. q \in Ib
        BY Zenon, <1>0 DEF Ib
      <3>2. r \in Ib
        <4> HIDE DEF q
        <4> QED
          BY Zenon, <3>a DEF Ib
      <3>3. ib' = [ib EXCEPT ![t] = r] /\ GoTo(t, "suminsert") /\ "suminsert" \in PCs
        BY Zenon, <3>1 DEF PCs, Types
      <3>4. Locs(t, "suminsert", r.v, r.block, r.sum, r.sumNew, r.sumIn, r.val, r.new)
        BY Zenon, <3>2, <3>3, Changes
      <3>5. Locs(t, "suminsert", ib[t].v, ib[t].block, b, TRUE, ib[t].sumIn, ib[t].val, ib[t].new)
        <4>1. /\ r.v = ib[t].v /\ r.block = ib[t].block /\ r.sum = b /\ r.sumNew = TRUE
              /\ r.sumIn = ib[t].sumIn /\ r.val = ib[t].val /\ r.new = ib[t].new
          BY <1>0 DEF Ib
        <4> HIDE DEF r
        <4> QED
          BY Zenon, <3>4, <4>1
      <3>6. Clears(b)
        BY Zenon, <3>1, Allocates
      <3> QED
        BY Zenon, <2>1, <3>5, <3>6 DEF SumAllocDoes
    <2>3. CASE GoTo(t, "undo") /\ UNCHANGED << marked, clus, ib >>
      BY Zenon, <2>1, <2>3, Moves DEF SumAllocDoes, PCs
    <2> QED
      BY Zenon, <1>7, <2>2, <2>3 DEF SumAlloc
  <1>8. ASSUME NEW t \in Threads, SumInsert(t) PROVE SumInsertDoes(t)
    <2>1. pc[t] = "suminsert" /\ UNCHANGED << blocks, marked, clus, rest, torn >>
      BY Zenon, <1>8 DEF SumInsert, At, hist, rest
    <2>2. CASE sums = None
      <3> DEFINE r == [ib[t] EXCEPT !.sumIn = TRUE]
      <3>2. r \in Ib
        BY Zenon, <1>0 DEF Ib
      <3>3. ib' = [ib EXCEPT ![t] = r] /\ GoTo(t, "aopen") /\ "aopen" \in PCs
        BY Zenon, <1>8, <2>2 DEF SumInsert, PCs, Types
      <3>4. Locs(t, "aopen", r.v, r.block, r.sum, r.sumNew, r.sumIn, r.val, r.new)
        BY Zenon, <3>2, <3>3, Changes
      <3>5. Locs(t, "aopen", ib[t].v, ib[t].block, ib[t].sum, ib[t].sumNew, TRUE, ib[t].val, ib[t].new)
        <4>1. /\ r.v = ib[t].v /\ r.block = ib[t].block /\ r.sum = ib[t].sum /\ r.sumNew = ib[t].sumNew
              /\ r.sumIn = TRUE /\ r.val = ib[t].val /\ r.new = ib[t].new
          BY <1>0 DEF Ib
        <4> HIDE DEF r
        <4> QED
          BY Zenon, <3>4, <4>1
      <3> QED
        BY Zenon, <1>8, <2>1, <2>2, <3>5 DEF SumInsert, SumInsertDoes
    <2>3. CASE sums # None
      BY Zenon, <1>8, <2>1, <2>3, Moves DEF SumInsert, SumInsertDoes, PCs
    <2> QED
      BY Zenon, <2>2, <2>3
  <1>9. ASSUME NEW t \in Threads, Insert(t) PROVE InsertDoes(t)
    BY Zenon, <1>9, Moves DEF Insert, InsertDoes, At, PCs, hist, rest
  <1>10. ASSUME NEW t \in Threads, UndoSum(t) PROVE UndoSumDoes(t)
    <2>1. /\ pc[t] = "undo" /\ UNCHANGED << blocks, marked, clus, rest >>
          /\ Goes(t, "undofree")
      BY Zenon, <1>10, Moves DEF UndoSum, At, PCs, rest
    <2>2. CASE ib[t].sumIn
      <3>1. sums' = None /\ Tears
        BY Zenon, <1>10, <2>2 DEF UndoSum, Tears, Types
      <3>2. ib[t].sumIn = TRUE /\ ib[t].sum \in Blocks /\ ib[t].sum # None
        BY <2>2, SetAssumption DEF Types, Ib, Locals, LocalsAt
      <3>3. torn' # VBlocks =>
              /\ torn' = torn
              /\ \A v \in VBlocks : blocks[v] = None
              /\ \A u \in Threads \ {t} : ib[u].block # ib[t].sum /\ ib[u].sum # ib[t].sum
        BY Zenon, <1>10, <2>2, <3>2 DEF UndoSum, Holds
      <3> QED
        BY Zenon, <2>1, <3>1, <3>2, <3>3 DEF UndoSumDoes
    <2>3. CASE ~ib[t].sumIn
      <3>1. ib[t].sumIn = FALSE
        BY Zenon, <1>0, <2>3 DEF Ib
      <3> QED
        BY Zenon, <1>10, <2>1, <2>3, <3>1 DEF UndoSum, UndoSumDoes
    <2> QED
      BY Zenon, <2>2, <2>3
  <1>11. ASSUME NEW t \in Threads, UndoFree(t) PROVE UndoFreeDoes(t)
    <2>1. pc[t] = "undofree" /\ UNCHANGED << blocks, sums, clus, rest >>
      BY Zenon, <1>11 DEF UndoFree, At, rest
    <2>2. Ends(t)
      BY Zenon, <1>11, Returns DEF UndoFree
    <2>3. ib[t].block \in Blocks \cup {None} /\ ib[t].sum \in Blocks \cup {None}
      BY Zenon DEF Types, Ib
    <2>4. CASE ib[t].sumNew
      <3>1. {ib[t].block} \cup (IF ib[t].sumNew THEN {ib[t].sum} ELSE {}) = {ib[t].block, ib[t].sum}
        BY Zenon, <2>4
      <3>2. Free(t, {ib[t].block, ib[t].sum})
        BY Zenon, <1>11, <3>1 DEF UndoFree
      <3>3. Frees(t, {ib[t].block, ib[t].sum})
        BY Zenon, <2>3, <3>2, Gives
      <3> QED
        BY Zenon, <2>1, <2>2, <2>4, <3>3 DEF UndoFreeDoes, Types, Ib
    <2>5. CASE ~ib[t].sumNew
      <3>1. {ib[t].block} \cup (IF ib[t].sumNew THEN {ib[t].sum} ELSE {}) = {ib[t].block}
        BY Zenon, <2>5
      <3>2. Free(t, {ib[t].block})
        BY Zenon, <1>11, <3>1 DEF UndoFree
      <3>3. Frees(t, {ib[t].block})
        BY Zenon, <2>3, <3>2, Gives
      <3> QED
        BY Zenon, <2>1, <2>2, <2>5, <3>3 DEF UndoFreeDoes, Types, Ib
    <2> QED
      BY Zenon, <2>4, <2>5
  <1>12. ASSUME NEW t \in Threads, Write(t) PROVE WriteDoes(t)
    <2> DEFINE r == [ib[t] EXCEPT !.new = FALSE]
    <2>1. r \in Ib
      BY Zenon, <1>0 DEF Ib
    <2>2. ib' = [ib EXCEPT ![t] = r] /\ GoTo(t, "sum") /\ "sum" \in PCs
      BY Zenon, <1>12 DEF Write, PCs, Types
    <2>3. Locs(t, "sum", r.v, r.block, r.sum, r.sumNew, r.sumIn, r.val, r.new)
      BY Zenon, <2>1, <2>2, Changes
    <2>4. Locs(t, "sum", ib[t].v, ib[t].block, ib[t].sum, ib[t].sumNew, ib[t].sumIn, ib[t].val, FALSE)
      <3>1. /\ r.v = ib[t].v /\ r.block = ib[t].block /\ r.sum = ib[t].sum /\ r.sumNew = ib[t].sumNew
            /\ r.sumIn = ib[t].sumIn /\ r.val = ib[t].val /\ r.new = FALSE
        BY <1>0 DEF Ib
      <3> HIDE DEF r
      <3> QED
        BY Zenon, <2>3, <3>1
    <2> QED
      BY Zenon, <1>12, <2>4 DEF Write, WriteDoes, At, hist, rest
  <1>13. ASSUME NEW t \in Threads, SumUp(t) PROVE SumUpDoes(t)
    <2> DEFINE x == data[ib[t].block]
               r == [ib[t] EXCEPT !.val = x]
    <2>1. x \in SUBSET Threads
      BY Zenon, <1>13 DEF SumUp, At, Types, Locals, LocalsAt, UsesBlock
    <2>2. r \in Ib
      BY Zenon, <1>0, <2>1 DEF Ib
    <2>3. ib' = [ib EXCEPT ![t] = r] /\ GoTo(t, "store") /\ "store" \in PCs
      BY Zenon, <1>13 DEF SumUp, PCs, Types
    <2>4. Locs(t, "store", r.v, r.block, r.sum, r.sumNew, r.sumIn, r.val, r.new)
      BY Zenon, <2>2, <2>3, Changes
    <2>5. Locs(t, "store", ib[t].v, ib[t].block, ib[t].sum, ib[t].sumNew, ib[t].sumIn, x, ib[t].new)
      BY <1>0, <2>4 DEF Ib
    <2> QED
      BY Zenon, <1>13, <2>5 DEF SumUp, SumUpDoes, At, hist, rest
  <1>14. ASSUME NEW t \in Threads, StoreSum(t) PROVE StoreSumDoes(t)
    <2>1. /\ pc[t] = "store" /\ UNCHANGED << trees, data, dataDisk, sumDisk, rest, torn >>
          /\ Goes(t, "sync")
      BY Zenon, <1>14, Moves DEF StoreSum, At, PCs, hist, rest
    <2>2. /\ ib[t].sum \in Blocks /\ ib[t].v \in VBlocks /\ ib[t].val \in Sum
          /\ sum \in [Blocks -> [VBlocks -> Sum]]
      BY Zenon, <2>1 DEF Types, Ib, Locals, LocalsAt, UsesSum, Sum
    <2>3. sum' = [sum EXCEPT ![ib[t].sum] = [sum[ib[t].sum] EXCEPT ![ib[t].v] = ib[t].val]]
      BY Zenon, <1>14, <2>2 DEF StoreSum
    <2>4. [sum[ib[t].sum] EXCEPT ![ib[t].v] = ib[t].val] \in [VBlocks -> Sum]
      BY Zenon, <2>2
    <2>5. sum' \in [Blocks -> [VBlocks -> Sum]]
      BY Zenon, <2>2, <2>3, <2>4
    <2>6. \A b \in Blocks, v \in VBlocks :
            sum'[b][v] = IF b = ib[t].sum /\ v = ib[t].v THEN ib[t].val ELSE sum[b][v]
      BY Zenon, <2>2, <2>3
    <2> QED
      BY Zenon, <2>1, <2>5, <2>6 DEF StoreSumDoes
  <1>15. ASSUME NEW t \in Threads, SyncFails(t), pc[t] \in {"sync", "syncsum"}
         PROVE SyncFailsDoes(t)
    <2>1. torn' = torn \cup {ib[t].v} /\ UNCHANGED << trees, clus, rest >>
      BY Zenon, <1>15 DEF SyncFails, rest
    <2>2. CASE ib[t].new
      <3>1. ib[t].new = TRUE
        BY Zenon, <1>0, <2>2 DEF Ib
      <3> QED
        BY Zenon, <1>15, <2>1, <2>2, <3>1, Moves DEF SyncFails, SyncFailsDoes, PCs
    <2>3. CASE ~ib[t].new
      BY Zenon, <1>15, <2>1, <2>3, Returns DEF SyncFails, SyncFailsDoes
    <2> QED
      BY Zenon, <2>2, <2>3
  <1>16. ASSUME NEW t \in Threads, SyncData(t) PROVE SyncDataDoes(t) \/ SyncFailsDoes(t)
    BY Zenon, <1>15, <1>16, Moves DEF SyncData, SyncDataDoes, At, PCs, hist, rest
  <1>17. ASSUME NEW t \in Threads, SyncSum(t) PROVE SyncSumDoes(t) \/ SyncFailsDoes(t)
    <2>1. pc[t] = "syncsum"
      BY Zenon, <1>17 DEF SyncSum, At
    <2>2. CASE SyncFails(t)
      BY Zenon, <1>15, <2>1, <2>2
    <2>3. CASE ~SyncFails(t)
      <3>1. /\ sumDisk' = [sumDisk EXCEPT ![ib[t].sum] = sum[ib[t].sum]]
            /\ UNCHANGED << trees, data, dataDisk, sum, lost, torn >>
        BY Zenon, <1>17, <2>3 DEF SyncSum, SumToDisk
      <3>2. CASE ib[t].new
        <4>1. ib[t].new = TRUE
          BY Zenon, <1>0, <3>2 DEF Ib
        <4>2. GoTo(t, "write") /\ UNCHANGED << ib, acked >>
          BY Zenon, <1>17, <2>3, <3>2 DEF SyncSum
        <4> QED
          BY Zenon, <2>1, <3>1, <4>1, <4>2, Moves DEF SyncSumDoes, PCs
      <3>3. CASE ~ib[t].new
        <4>1. ib[t].new = FALSE
          BY Zenon, <1>0, <3>3 DEF Ib
        <4>2. Return(t) /\ acked' = [acked EXCEPT ![ib[t].v] = @ \cup {t}]
          BY Zenon, <1>17, <2>3, <3>3 DEF SyncSum
        <4> QED
          BY Zenon, <2>1, <3>1, <4>1, <4>2, Returns DEF SyncSumDoes
      <3> QED
        BY Zenon, <3>2, <3>3
    <2> QED
      BY Zenon, <2>2, <2>3
  <1>18. ASSUME NEW t \in Threads, Erase(t) PROVE EraseDoes(t)
    BY Zenon, <1>18, Moves DEF Erase, EraseDoes, At, PCs, hist, rest
  <1>19. ASSUME NEW t \in Threads, EraseFree(t) PROVE EraseFreeDoes(t)
    <2>1. ib[t].block \in Blocks \cup {None}
      BY Zenon DEF Types, Ib
    <2> QED
      BY Zenon, <1>19, <2>1, Gives, Returns DEF EraseFree, EraseFreeDoes, At, rest
  <1>20. CASE Crash
    <2>1. NoIb \in Ib /\ "idle" \in PCs
      BY Zenon DEF NoIb, Ib, PCs
    <2>2. /\ pc' \in [Threads -> PCs] /\ ib' \in [Threads -> Ib]
          /\ \A t \in Threads : pc'[t] = "idle" /\ ib'[t] = NoIb
      BY Zenon, <1>20, <2>1 DEF Crash
    <2>3. Tears /\ \A t \in Threads : ib[t].v \in VBlocks => ib[t].v \in torn'
      BY Zenon, <1>20 DEF Crash, Tears, Writers, Types
    <2>4. CrashDoes
      BY Zenon, <1>20, <2>2, <2>3 DEF Crash, CrashDoes
    <2> QED
      BY Zenon, <2>4 DEF Does
  <1>21. ASSUME NEW t \in Threads,
                Start(t) \/ BlockRead(t) \/ BlockAlloc(t) \/ Write(t) \/ BlockWrite(t)
                  \/ Erase(t) \/ EraseFree(t)
         PROVE  Does
    BY <1>2, <1>3, <1>4, <1>5, <1>6, <1>7, <1>8, <1>9, <1>10, <1>11, <1>12, <1>13, <1>14,
       <1>16, <1>17, <1>18, <1>19, <1>21 DEF Does, BlockRead, BlockAlloc, BlockWrite
  <1> QED
    BY Zenon, <1>1, <1>20, <1>21 DEF Next

-----------------------------------------------------------------------------
(* Steps keep the types and the locals, and leave each block one owner.    *)

\* Every step keeps the types.
LEMMA TypesStep == OInv /\ Does => Types'
PROOF
  <1> SUFFICES ASSUME OInv, Does PROVE Types'
    BY Zenon
  <1>0. Types /\ Locals
    BY Zenon DEF OInv
  <1>1. ASSUME NEW t \in Threads, StartDoes(t) PROVE Types'
    BY Zenon, <1>0, <1>1, SetAssumption
    DEF Types, Locals, LocalsAt, UsesBlock, UsesSum, Allocating, StartDoes, Locs, trees,
        clus, rest
  <1>2. ASSUME NEW t \in Threads, FindBlockDoes(t) PROVE Types'
    BY Zenon, <1>0, <1>2, SetAssumption
    DEF Types, Locals, LocalsAt, UsesBlock, UsesSum, Allocating, FindBlockDoes, Locs,
        trees, clus, rest
  <1>3. ASSUME NEW t \in Threads, FindSumDoes(t) PROVE Types'
    BY Zenon, <1>0, <1>3, SetAssumption
    DEF Types, Locals, LocalsAt, UsesBlock, UsesSum, Allocating, FindSumDoes, Locs, trees,
        clus, rest
  <1>4. ASSUME NEW t \in Threads, OpenDoes(t) PROVE Types'
    BY Zenon, <1>0, <1>4, SetAssumption
    DEF Types, Locals, LocalsAt, UsesBlock, UsesSum, Allocating, OpenDoes, Goes, Ends,
        Locs, trees, clus, rest
  <1>5. ASSUME NEW t \in Threads, AllocBlockDoes(t) PROVE Types'
    BY <1>0, <1>5, SetAssumption
    DEF Types, Locals, LocalsAt, UsesBlock, UsesSum, Allocating, AllocBlockDoes, Clears,
        Ends, Locs, clus, rest
  <1>6. ASSUME NEW t \in Threads, SumAllocDoes(t) PROVE Types'
    BY <1>0, <1>6, SetAssumption
    DEF Types, Locals, LocalsAt, UsesBlock, UsesSum, Allocating, SumAllocDoes, Clears,
        Goes, Locs, clus, rest
  <1>7. ASSUME NEW t \in Threads, SumInsertDoes(t) PROVE Types'
    BY <1>0, <1>7, SetAssumption
    DEF Types, Locals, LocalsAt, UsesBlock, UsesSum, Allocating, SumInsertDoes, Goes, Locs,
        clus, rest
  <1>8. ASSUME NEW t \in Threads, InsertDoes(t) PROVE Types'
    BY <1>0, <1>8, SetAssumption
    DEF Types, Locals, LocalsAt, UsesBlock, UsesSum, Allocating, InsertDoes, Goes, clus,
        rest
  <1>9. ASSUME NEW t \in Threads, UndoSumDoes(t) PROVE Types'
    BY Zenon, <1>0, <1>9, SetAssumption
    DEF Types, Locals, LocalsAt, UsesBlock, UsesSum, Allocating, UndoSumDoes, Goes, Tears,
        clus, rest
  <1>10. ASSUME NEW t \in Threads, UndoFreeDoes(t) PROVE Types'
    BY Zenon, <1>0, <1>10, SetAssumption
    DEF Types, Locals, LocalsAt, UsesBlock, UsesSum, Allocating, UndoFreeDoes, Frees,
        Tears, Ends, Locs, clus, rest
  <1>11. ASSUME NEW t \in Threads, WriteDoes(t) PROVE Types'
    BY <1>0, <1>11, SetAssumption
    DEF Types, Locals, LocalsAt, UsesBlock, UsesSum, Allocating, WriteDoes, Locs, trees,
        rest
  <1>12. ASSUME NEW t \in Threads, SumUpDoes(t) PROVE Types'
    BY Zenon, <1>0, <1>12, SetAssumption
    DEF Types, Locals, LocalsAt, UsesBlock, UsesSum, Allocating, SumUpDoes, Locs, trees,
        clus, rest
  <1>13. ASSUME NEW t \in Threads, StoreSumDoes(t) PROVE Types'
    BY Zenon, <1>0, <1>13, SetAssumption
    DEF Types, Locals, LocalsAt, UsesBlock, UsesSum, Allocating, StoreSumDoes, Goes, trees,
        rest
  <1>14. ASSUME NEW t \in Threads, SyncDataDoes(t) PROVE Types'
    BY Zenon, <1>0, <1>14, SetAssumption
    DEF Types, Locals, LocalsAt, UsesBlock, UsesSum, Allocating, SyncDataDoes, Goes, trees,
        rest
  <1>15. ASSUME NEW t \in Threads, SyncSumDoes(t) PROVE Types'
    BY <1>0, <1>15, SetAssumption
    DEF Types, Locals, LocalsAt, UsesBlock, UsesSum, Allocating, SyncSumDoes, Goes, Ends, Locs,
        trees
  <1>16. ASSUME NEW t \in Threads, SyncFailsDoes(t) PROVE Types'
    BY <1>0, <1>16, SetAssumption
    DEF Types, Locals, LocalsAt, UsesBlock, UsesSum, Allocating, SyncFailsDoes, Goes, Ends,
        Locs, trees, clus, rest
  <1>17. ASSUME NEW t \in Threads, EraseDoes(t) PROVE Types'
    BY Zenon, <1>0, <1>17, SetAssumption
    DEF Types, Locals, LocalsAt, UsesBlock, UsesSum, Allocating, EraseDoes, Goes, clus, rest
  <1>18. ASSUME NEW t \in Threads, EraseFreeDoes(t) PROVE Types'
    BY Zenon, <1>0, <1>18, SetAssumption
    DEF Types, Locals, LocalsAt, UsesBlock, UsesSum, Allocating, EraseFreeDoes, Frees,
        Tears, Ends, Locs, clus, rest
  <1>19. ASSUME CrashDoes PROVE Types'
    BY Zenon, <1>0, <1>19, SetAssumption
    DEF Types, Locals, LocalsAt, UsesBlock, UsesSum, Allocating, CrashDoes, Tears, trees
  <1>20. CASE UNCHANGED vars
    BY <1>0, <1>20 DEF Types, Locals, LocalsAt, UsesBlock, UsesSum, Allocating, vars
  <1> QED
    BY Zenon, <1>1, <1>2, <1>3, <1>4, <1>5, <1>6, <1>7, <1>8, <1>9, <1>10, <1>11,
       <1>12, <1>13, <1>14, <1>15, <1>16, <1>17, <1>18, <1>19, <1>20 DEF Does

\* Every step keeps the locals.
LEMMA LocalsStep == OInv /\ Does => Locals'
PROOF
  <1> SUFFICES ASSUME OInv, Does PROVE Locals'
    BY Zenon
  <1>0. /\ blocks \in [VBlocks -> Blocks \cup {None}] /\ sums \in Blocks \cup {None}
        /\ \A u \in Threads : LocalsAt(pc[u], ib[u]) /\ ib[u] \in Ib
    BY Zenon DEF OInv, Locals, Types
  <1>1. ASSUME NEW t \in Threads, StartDoes(t) PROVE Locals'
    <2>1. LocalsAt(pc'[t], ib'[t])
      BY Zenon, <1>0, <1>1, SetAssumption
      DEF LocalsAt, NoIb, UsesBlock, UsesSum, Allocating, StartDoes, Locs, trees, clus, rest
    <2> QED
      BY Zenon, <1>0, <2>1, <1>1 DEF Locals, StartDoes, Locs, trees, clus, rest
  <1>2. ASSUME NEW t \in Threads, FindBlockDoes(t) PROVE Locals'
    <2>1. LocalsAt(pc'[t], ib'[t])
      BY <1>0, <1>2, SetAssumption
      DEF LocalsAt, NoIb, UsesBlock, UsesSum, Allocating, FindBlockDoes, Locs, trees, clus,
          rest
    <2> QED
      BY Zenon, <1>0, <2>1, <1>2 DEF Locals, FindBlockDoes, Locs, trees, clus, rest
  <1>3. ASSUME NEW t \in Threads, FindSumDoes(t) PROVE Locals'
    <2>1. LocalsAt(pc'[t], ib'[t])
      BY Zenon, <1>0, <1>3, SetAssumption
      DEF LocalsAt, NoIb, UsesBlock, UsesSum, Allocating, FindSumDoes, Locs, trees, clus,
          rest
    <2> QED
      BY Zenon, <1>0, <2>1, <1>3 DEF Locals, FindSumDoes, Locs, trees, clus, rest
  <1>4. ASSUME NEW t \in Threads, OpenDoes(t) PROVE Locals'
    <2>1. LocalsAt(pc'[t], ib'[t])
      BY <1>0, <1>4, SetAssumption
      DEF LocalsAt, NoIb, UsesBlock, UsesSum, Allocating, OpenDoes, Goes, Ends, Locs,
          trees, clus, rest
    <2> QED
      BY Zenon, <1>0, <2>1, <1>4 DEF Locals, OpenDoes, Goes, Ends, Locs, trees, clus, rest
  <1>5. ASSUME NEW t \in Threads, AllocBlockDoes(t) PROVE Locals'
    <2>1. LocalsAt(pc'[t], ib'[t])
      BY <1>0, <1>5, SetAssumption
      DEF LocalsAt, NoIb, UsesBlock, UsesSum, Allocating, AllocBlockDoes, Clears, Ends,
          Locs, clus, rest
    <2> QED
      BY Zenon, <1>0, <2>1, <1>5 DEF Locals, AllocBlockDoes, Clears, Ends, Locs, clus, rest
  <1>6. ASSUME NEW t \in Threads, SumAllocDoes(t) PROVE Locals'
    <2>1. LocalsAt(pc'[t], ib'[t])
      BY <1>0, <1>6, SetAssumption
      DEF LocalsAt, NoIb, UsesBlock, UsesSum, Allocating, SumAllocDoes, Clears, Goes, Locs,
          clus, rest
    <2> QED
      BY Zenon, <1>0, <2>1, <1>6 DEF Locals, SumAllocDoes, Clears, Goes, Locs, clus, rest
  <1>7. ASSUME NEW t \in Threads, SumInsertDoes(t) PROVE Locals'
    <2>1. LocalsAt(pc'[t], ib'[t])
      BY Zenon, <1>0, <1>7, SetAssumption
      DEF LocalsAt, NoIb, UsesBlock, UsesSum, Allocating, SumInsertDoes, Goes, Locs, clus,
          rest
    <2> QED
      BY Zenon, <1>0, <2>1, <1>7 DEF Locals, SumInsertDoes, Goes, Locs, clus, rest
  <1>8. ASSUME NEW t \in Threads, InsertDoes(t) PROVE Locals'
    <2>1. LocalsAt(pc'[t], ib'[t])
      BY Zenon, <1>0, <1>8, SetAssumption
      DEF LocalsAt, NoIb, UsesBlock, UsesSum, Allocating, InsertDoes, Goes, clus, rest
    <2> QED
      BY Zenon, <1>0, <2>1, <1>8 DEF Locals, InsertDoes, Goes, clus, rest
  <1>9. ASSUME NEW t \in Threads, UndoSumDoes(t) PROVE Locals'
    <2>1. LocalsAt(pc'[t], ib'[t])
      BY Zenon, <1>0, <1>9, SetAssumption
      DEF LocalsAt, NoIb, UsesBlock, UsesSum, Allocating, UndoSumDoes, Goes, Tears, clus,
          rest
    <2> QED
      BY Zenon, <1>0, <2>1, <1>9 DEF Locals, UndoSumDoes, Goes, Tears, clus, rest
  <1>10. ASSUME NEW t \in Threads, UndoFreeDoes(t) PROVE Locals'
    <2>1. LocalsAt(pc'[t], ib'[t])
      BY Zenon, <1>0, <1>10, SetAssumption
      DEF LocalsAt, NoIb, UsesBlock, UsesSum, Allocating, UndoFreeDoes, Frees, Tears, Ends,
          Locs, clus, rest
    <2> QED
      BY Zenon, <1>0, <2>1, <1>10 DEF Locals, UndoFreeDoes, Frees, Tears, Ends, Locs, clus, rest
  <1>11. ASSUME NEW t \in Threads, WriteDoes(t) PROVE Locals'
    <2>1. LocalsAt(pc'[t], ib'[t])
      BY Zenon, <1>0, <1>11, SetAssumption
      DEF LocalsAt, NoIb, UsesBlock, UsesSum, Allocating, WriteDoes, Locs, trees, rest
    <2> QED
      BY Zenon, <1>0, <2>1, <1>11 DEF Locals, WriteDoes, Locs, trees, rest
  <1>12. ASSUME NEW t \in Threads, SumUpDoes(t) PROVE Locals'
    <2>1. LocalsAt(pc'[t], ib'[t])
      BY Zenon, <1>0, <1>12, SetAssumption
      DEF LocalsAt, NoIb, UsesBlock, UsesSum, Allocating, SumUpDoes, Locs, trees, clus, rest
    <2> QED
      BY Zenon, <1>0, <2>1, <1>12 DEF Locals, SumUpDoes, Locs, trees, clus, rest
  <1>13. ASSUME NEW t \in Threads, StoreSumDoes(t) PROVE Locals'
    <2>1. LocalsAt(pc'[t], ib'[t])
      BY Zenon, <1>0, <1>13, SetAssumption
      DEF LocalsAt, NoIb, UsesBlock, UsesSum, Allocating, StoreSumDoes, Goes, trees, rest
    <2> QED
      BY Zenon, <1>0, <2>1, <1>13 DEF Locals, StoreSumDoes, Goes, trees, rest
  <1>14. ASSUME NEW t \in Threads, SyncDataDoes(t) PROVE Locals'
    <2>1. LocalsAt(pc'[t], ib'[t])
      BY Zenon, <1>0, <1>14, SetAssumption
      DEF LocalsAt, NoIb, UsesBlock, UsesSum, Allocating, SyncDataDoes, Goes, trees, rest
    <2> QED
      BY Zenon, <1>0, <2>1, <1>14 DEF Locals, SyncDataDoes, Goes, trees, rest
  <1>15. ASSUME NEW t \in Threads, SyncSumDoes(t) PROVE Locals'
    <2>1. LocalsAt(pc'[t], ib'[t])
      BY Zenon, <1>0, <1>15, SetAssumption
      DEF LocalsAt, NoIb, UsesBlock, UsesSum, Allocating, SyncSumDoes, Goes, Ends, Locs,
          trees
    <2> QED
      BY Zenon, <1>0, <2>1, <1>15 DEF Locals, SyncSumDoes, Goes, Ends, Locs, trees
  <1>16. ASSUME NEW t \in Threads, SyncFailsDoes(t) PROVE Locals'
    <2>1. LocalsAt(pc'[t], ib'[t])
      BY Zenon, <1>0, <1>16, SetAssumption
      DEF LocalsAt, NoIb, UsesBlock, UsesSum, Allocating, SyncFailsDoes, Goes, Ends, Locs,
          trees, clus, rest
    <2> QED
      BY Zenon, <1>0, <2>1, <1>16 DEF Locals, SyncFailsDoes, Goes, Ends, Locs, trees, clus, rest
  <1>17. ASSUME NEW t \in Threads, EraseDoes(t) PROVE Locals'
    <2>1. LocalsAt(pc'[t], ib'[t])
      BY Zenon, <1>0, <1>17, SetAssumption
      DEF LocalsAt, NoIb, UsesBlock, UsesSum, Allocating, EraseDoes, Goes, clus, rest
    <2> QED
      BY Zenon, <1>0, <2>1, <1>17 DEF Locals, EraseDoes, Goes, clus, rest
  <1>18. ASSUME NEW t \in Threads, EraseFreeDoes(t) PROVE Locals'
    <2>1. LocalsAt(pc'[t], ib'[t])
      BY Zenon, <1>0, <1>18, SetAssumption
      DEF LocalsAt, NoIb, UsesBlock, UsesSum, Allocating, EraseFreeDoes, Frees, Tears,
          Ends, Locs, clus, rest
    <2> QED
      BY Zenon, <1>0, <2>1, <1>18 DEF Locals, EraseFreeDoes, Frees, Tears, Ends, Locs, clus, rest
  <1>19. ASSUME CrashDoes PROVE Locals'
    BY <1>0, <1>19 DEF Locals, LocalsAt, CrashDoes, NoIb, UsesBlock, UsesSum, Allocating
  <1>20. CASE UNCHANGED vars
    BY Zenon, <1>0, <1>20 DEF Locals, vars
  <1> QED
    BY Zenon, <1>1, <1>2, <1>3, <1>4, <1>5, <1>6, <1>7, <1>8, <1>9, <1>10, <1>11,
       <1>12, <1>13, <1>14, <1>15, <1>16, <1>17, <1>18, <1>19, <1>20 DEF Does

\* Whoever hands blocks over in one of these ways leaves one owner for each.
LEMMA HandsOwners ==
  ASSUME Types, Named, Private, NoneLost, Hands,
         \A t, u \in Threads : t # u => Owned(t) \cap Owned(u) = {}
  PROVE  /\ Named' /\ Private' /\ NoneLost'
         /\ \A t, u \in Threads : t # u => Owned(t)' \cap Owned(u)' = {}
PROOF
  <1>0. /\ blocks \in [VBlocks -> Blocks \cup {None}] /\ sums \in Blocks \cup {None}
        /\ marked \subseteq Blocks /\ None \notin Blocks /\ lost \in BOOLEAN
    BY Zenon, SetAssumption DEF Types
  <1>1. CASE UNCHANGED trees /\ lost' = TRUE /\ \A t \in Threads : Owned(t)' = {}
    BY Zenon, <1>1 DEF Named, Private, NoneLost, Unnamed, trees
  <1>2. ASSUME NEW t \in Threads,
               Keeps(t) \/ Takes(t) \/ Puts(t) \/ Gets(t) \/ Drops(t),
               \A u \in Threads \ {t} : Owned(u)' = Owned(u),
               lost' = lost
        PROVE  /\ Named' /\ Private' /\ NoneLost'
               /\ \A u, w \in Threads : u # w => Owned(u)' \cap Owned(w)' = {}
    <2>1. CASE Keeps(t)
      BY <1>2, <2>1 DEF Keeps, Named, Private, NoneLost, Unnamed, trees
    <2>2. CASE Takes(t)
      <3>1. PICK b \in Blocks \ marked : /\ Owned(t)' = Owned(t) \cup {b}
                                         /\ marked' = marked \cup {b}
                                         /\ UNCHANGED << blocks, sums >>
        BY Zenon, <2>2 DEF Takes
      <3>2. Unnamed(b) /\ \A u \in Threads : b \notin Owned(u)
        BY <1>0, <3>1 DEF Unnamed, Named, Private
      <3>3. Named'
        BY Zenon, <3>1 DEF Named
      <3>4. Private'
        BY <1>2, <3>1, <3>2 DEF Private, Unnamed
      <3>5. NoneLost'
        BY <1>2, <3>1, <3>2 DEF NoneLost, Unnamed
      <3>6. \A u, w \in Threads : u # w => Owned(u)' \cap Owned(w)' = {}
        BY <1>2, <3>1, <3>2
      <3> QED
        BY Zenon, <3>3, <3>4, <3>5, <3>6
    <2>3. CASE Puts(t)
      <3>1. PICK b \in Owned(t) :
              /\ Owned(t)' = Owned(t) \ {b}
              /\ \/ sums = None /\ sums' = b /\ UNCHANGED << blocks, marked >>
                 \/ \E v \in VBlocks : /\ blocks[v] = None
                                       /\ blocks' = [blocks EXCEPT ![v] = b]
                                       /\ UNCHANGED << sums, marked >>
        BY Zenon, <2>3 DEF Puts
      <3>2. b \in marked /\ b # None /\ Unnamed(b) /\ \A u \in Threads \ {t} : b \notin Owned(u)
        BY Zenon, <1>0, <3>1 DEF Private
      <3>3. ~Unnamed(b)' /\ \A a \in Blocks \ {b} : Unnamed(a)' <=> Unnamed(a)
        BY Zenon, <1>0, <3>1 DEF Unnamed
      <3>4. Named'
        BY <1>0, <3>1, <3>2 DEF Named, Unnamed
      <3>5. Private'
        BY <1>0, <1>2, <3>1, <3>2, <3>3 DEF Private
      <3>6. NoneLost'
        BY <1>0, <1>2, <3>1, <3>2, <3>3 DEF NoneLost
      <3>7. \A u, w \in Threads : u # w => Owned(u)' \cap Owned(w)' = {}
        BY <1>2, <3>1
      <3> QED
        BY Zenon, <3>4, <3>5, <3>6, <3>7
    <2>4. CASE Gets(t)
      <3>1. PICK b \in Blocks :
              /\ Owned(t)' = Owned(t) \cup {b}
              /\ \/ sums = b /\ sums' = None /\ UNCHANGED << blocks, marked >>
                 \/ \E v \in VBlocks : /\ blocks[v] = b
                                       /\ blocks' = [blocks EXCEPT ![v] = None]
                                       /\ UNCHANGED << sums, marked >>
        BY Zenon, <1>0, <2>4 DEF Gets
      <3>2. b \in marked /\ \A u \in Threads : b \notin Owned(u)
        BY <1>0, <3>1 DEF Named, Private, Unnamed
      <3>3. Unnamed(b)' /\ \A a \in Blocks \ {b} : Unnamed(a)' <=> Unnamed(a)
        BY <1>0, <3>1 DEF Unnamed, Named
      <3>4. Named'
        BY <1>0, <3>1 DEF Named
      <3>5. Private'
        BY <1>0, <1>2, <3>1, <3>2, <3>3 DEF Private
      <3>6. NoneLost'
        BY <1>0, <1>2, <3>1, <3>2, <3>3 DEF NoneLost
      <3>7. \A u, w \in Threads : u # w => Owned(u)' \cap Owned(w)' = {}
        BY <1>2, <3>1, <3>2
      <3> QED
        BY Zenon, <3>4, <3>5, <3>6, <3>7
    <2>5. CASE Drops(t)
      <3>1. /\ Owned(t)' = {} /\ marked' = marked \ Owned(t)
            /\ UNCHANGED << blocks, sums >>
        BY Zenon, <2>5 DEF Drops
      <3>2. Named'
        BY <1>0, <3>1 DEF Named, Private, Unnamed
      <3>3. Private'
        BY <1>2, <3>1 DEF Private, Unnamed
      <3>4. NoneLost'
        BY <1>2, <3>1 DEF NoneLost, Unnamed
      <3>5. \A u, w \in Threads : u # w => Owned(u)' \cap Owned(w)' = {}
        BY Zenon, <1>2, <3>1
      <3> QED
        BY Zenon, <3>2, <3>3, <3>4, <3>5
    <2> QED
      BY Zenon, <1>2, <2>1, <2>2, <2>3, <2>4, <2>5
  <1> QED
    BY Zenon, <1>1, <1>2 DEF Hands

\* A put that owns two blocks owns two different ones.
LEMMA SplitStep == OInv /\ Does => (\A u \in Threads : Split(u))'
PROOF
  <1> SUFFICES ASSUME OInv, Does PROVE (\A u \in Threads : Split(u))'
    BY Zenon
  <1>0. /\ \A u \in Threads : LocalsAt(pc[u], ib[u]) /\ ib[u] \in Ib /\ Split(u)
        /\ Private /\ Undoable
    BY Zenon DEF OInv, Locals, Types, Apart
  <1>1. ASSUME NEW t \in Threads, StartDoes(t) PROVE (\A u \in Threads : Split(u))'
    <2>1. Split(t)'
      BY Zenon, <1>0, <1>1, SetAssumption
      DEF Split, LocalsAt, NoIb, OwnsBlock, OwnsSum, Allocating, StartDoes, Locs, trees,
          clus, rest
    <2> QED
      BY Zenon, <1>0, <2>1, <1>1
      DEF Split, OwnsBlock, OwnsSum, Allocating, StartDoes, Locs, trees, clus, rest
  <1>2. ASSUME NEW t \in Threads, FindBlockDoes(t) PROVE (\A u \in Threads : Split(u))'
    <2>1. Split(t)'
      BY Zenon, <1>0, <1>2, SetAssumption
      DEF Split, LocalsAt, NoIb, OwnsBlock, OwnsSum, Allocating, FindBlockDoes, Locs,
          trees, clus, rest
    <2> QED
      BY <1>0, <2>1, <1>2
      DEF Split, OwnsBlock, OwnsSum, Allocating, FindBlockDoes, Locs, trees, clus, rest
  <1>3. ASSUME NEW t \in Threads, FindSumDoes(t) PROVE (\A u \in Threads : Split(u))'
    <2>1. Split(t)'
      BY Zenon, <1>0, <1>3, SetAssumption
      DEF Split, LocalsAt, NoIb, OwnsBlock, OwnsSum, Allocating, FindSumDoes, Locs, trees,
          clus, rest
    <2> QED
      BY <1>0, <2>1, <1>3
      DEF Split, OwnsBlock, OwnsSum, Allocating, FindSumDoes, Locs, trees, clus, rest
  <1>4. ASSUME NEW t \in Threads, OpenDoes(t) PROVE (\A u \in Threads : Split(u))'
    <2>1. Split(t)'
      BY Zenon, <1>0, <1>4, SetAssumption
      DEF Split, LocalsAt, NoIb, OwnsBlock, OwnsSum, Allocating, OpenDoes, Goes, Ends,
          Locs, trees, clus, rest
    <2> QED
      BY <1>0, <2>1, <1>4
      DEF Split, OwnsBlock, OwnsSum, Allocating, OpenDoes, Goes, Ends, Locs, trees, clus,
          rest
  <1>5. ASSUME NEW t \in Threads, AllocBlockDoes(t) PROVE (\A u \in Threads : Split(u))'
    <2>1. Split(t)'
      BY Zenon, <1>0, <1>5, SetAssumption
      DEF Split, LocalsAt, NoIb, OwnsBlock, OwnsSum, Allocating, AllocBlockDoes, Clears,
          Ends, Locs, clus, rest
    <2> QED
      BY <1>0, <2>1, <1>5
      DEF Split, OwnsBlock, OwnsSum, Allocating, AllocBlockDoes, Clears, Ends, Locs, clus,
          rest
  <1>6. ASSUME NEW t \in Threads, SumAllocDoes(t) PROVE (\A u \in Threads : Split(u))'
    <2>1. Split(t)'
      <3>1. OwnsBlock(t) /\ ib[t].block \in Owned(t)
        BY Zenon, <1>6 DEF OwnsBlock, Owned, Allocating, SumAllocDoes
      <3>2. ib[t].block \in marked
        BY Zenon, <1>0, <3>1 DEF Private
      <3> QED
        BY <1>0, <3>2, <1>6, SetAssumption
          DEF Split, LocalsAt, NoIb, OwnsBlock, OwnsSum, Allocating, SumAllocDoes, Clears,
              Goes, Locs, clus, rest
    <2> QED
      BY <1>0, <2>1, <1>6
      DEF Split, OwnsBlock, OwnsSum, Allocating, SumAllocDoes, Clears, Goes, Locs, clus,
          rest
  <1>7. ASSUME NEW t \in Threads, SumInsertDoes(t) PROVE (\A u \in Threads : Split(u))'
    <2>1. Split(t)'
      BY <1>0, <1>7, SetAssumption
      DEF Split, LocalsAt, NoIb, OwnsBlock, OwnsSum, Allocating, SumInsertDoes, Goes, Locs,
          clus, rest
    <2> QED
      BY <1>0, <2>1, <1>7
      DEF Split, OwnsBlock, OwnsSum, Allocating, SumInsertDoes, Goes, Locs, clus, rest
  <1>8. ASSUME NEW t \in Threads, InsertDoes(t) PROVE (\A u \in Threads : Split(u))'
    <2>1. Split(t)'
      BY <1>0, <1>8, SetAssumption
      DEF Split, LocalsAt, NoIb, OwnsBlock, OwnsSum, Allocating, InsertDoes, Goes, clus,
          rest
    <2> QED
      BY <1>0, <2>1, <1>8
      DEF Split, OwnsBlock, OwnsSum, Allocating, InsertDoes, Goes, clus, rest
  <1>9. ASSUME NEW t \in Threads, UndoSumDoes(t) PROVE (\A u \in Threads : Split(u))'
    <2>1. Split(t)'
      <3>1. OwnsBlock(t) /\ ib[t].block \in Owned(t)
        BY Zenon, <1>9 DEF OwnsBlock, Owned, Allocating, UndoSumDoes
      <3>2. ib[t].block # sums
        BY Zenon, <1>0, <3>1 DEF Private, Unnamed
      <3>3. ib[t].sumIn = TRUE => sums = ib[t].sum
        BY Zenon, <1>0, <1>9 DEF Undoable, MayUndoSum, UndoSumDoes
      <3> QED
        BY Zenon, <1>0, <3>2, <3>3, <1>9, SetAssumption
          DEF Split, LocalsAt, NoIb, OwnsBlock, OwnsSum, Allocating, UndoSumDoes, Goes,
              Tears, clus, rest
    <2> QED
      BY <1>0, <2>1, <1>9
      DEF Split, OwnsBlock, OwnsSum, Allocating, UndoSumDoes, Goes, Tears, clus, rest
  <1>10. ASSUME NEW t \in Threads, UndoFreeDoes(t) PROVE (\A u \in Threads : Split(u))'
    <2>1. Split(t)'
      BY Zenon, <1>0, <1>10, SetAssumption
      DEF Split, LocalsAt, NoIb, OwnsBlock, OwnsSum, Allocating, UndoFreeDoes, Frees,
          Tears, Ends, Locs, clus, rest
    <2> QED
      BY <1>0, <2>1, <1>10
      DEF Split, OwnsBlock, OwnsSum, Allocating, UndoFreeDoes, Frees, Tears, Ends, Locs,
          clus, rest
  <1>11. ASSUME NEW t \in Threads, WriteDoes(t) PROVE (\A u \in Threads : Split(u))'
    <2>1. Split(t)'
      BY Zenon, <1>0, <1>11, SetAssumption
      DEF Split, LocalsAt, NoIb, OwnsBlock, OwnsSum, Allocating, WriteDoes, Locs, trees,
          rest
    <2> QED
      BY <1>0, <2>1, <1>11
      DEF Split, OwnsBlock, OwnsSum, Allocating, WriteDoes, Locs, trees, rest
  <1>12. ASSUME NEW t \in Threads, SumUpDoes(t) PROVE (\A u \in Threads : Split(u))'
    <2>1. Split(t)'
      BY Zenon, <1>0, <1>12, SetAssumption
      DEF Split, LocalsAt, NoIb, OwnsBlock, OwnsSum, Allocating, SumUpDoes, Locs, trees,
          clus, rest
    <2> QED
      BY <1>0, <2>1, <1>12
      DEF Split, OwnsBlock, OwnsSum, Allocating, SumUpDoes, Locs, trees, clus, rest
  <1>13. ASSUME NEW t \in Threads, StoreSumDoes(t) PROVE (\A u \in Threads : Split(u))'
    <2>1. Split(t)'
      BY Zenon, <1>0, <1>13, SetAssumption
      DEF Split, LocalsAt, NoIb, OwnsBlock, OwnsSum, Allocating, StoreSumDoes, Goes, trees,
          rest
    <2> QED
      BY <1>0, <2>1, <1>13
      DEF Split, OwnsBlock, OwnsSum, Allocating, StoreSumDoes, Goes, trees, rest
  <1>14. ASSUME NEW t \in Threads, SyncDataDoes(t) PROVE (\A u \in Threads : Split(u))'
    <2>1. Split(t)'
      BY Zenon, <1>0, <1>14, SetAssumption
      DEF Split, LocalsAt, NoIb, OwnsBlock, OwnsSum, Allocating, SyncDataDoes, Goes, trees,
          rest
    <2> QED
      BY Zenon, <1>0, <2>1, <1>14
      DEF Split, OwnsBlock, OwnsSum, Allocating, SyncDataDoes, Goes, trees, rest
  <1>15. ASSUME NEW t \in Threads, SyncSumDoes(t) PROVE (\A u \in Threads : Split(u))'
    <2>1. Split(t)'
      BY Zenon, <1>0, <1>15, SetAssumption
      DEF Split, LocalsAt, NoIb, OwnsBlock, OwnsSum, Allocating, SyncSumDoes, Goes, Ends,
          Locs, trees
    <2> QED
      BY <1>0, <2>1, <1>15
      DEF Split, OwnsBlock, OwnsSum, Allocating, SyncSumDoes, Goes, Ends, Locs, trees
  <1>16. ASSUME NEW t \in Threads, SyncFailsDoes(t) PROVE (\A u \in Threads : Split(u))'
    <2>1. Split(t)'
      BY Zenon, <1>0, <1>16, SetAssumption
      DEF Split, LocalsAt, NoIb, OwnsBlock, OwnsSum, Allocating, SyncFailsDoes, Goes, Ends,
          Locs, trees, clus, rest
    <2> QED
      BY <1>0, <2>1, <1>16
      DEF Split, OwnsBlock, OwnsSum, Allocating, SyncFailsDoes, Goes, Ends, Locs, trees,
          clus, rest
  <1>17. ASSUME NEW t \in Threads, EraseDoes(t) PROVE (\A u \in Threads : Split(u))'
    <2>1. Split(t)'
      BY Zenon, <1>0, <1>17, SetAssumption
      DEF Split, LocalsAt, NoIb, OwnsBlock, OwnsSum, Allocating, EraseDoes, Goes, clus, rest
    <2> QED
      BY <1>0, <2>1, <1>17
      DEF Split, OwnsBlock, OwnsSum, Allocating, EraseDoes, Goes, clus, rest
  <1>18. ASSUME NEW t \in Threads, EraseFreeDoes(t) PROVE (\A u \in Threads : Split(u))'
    <2>1. Split(t)'
      BY Zenon, <1>0, <1>18, SetAssumption
      DEF Split, LocalsAt, NoIb, OwnsBlock, OwnsSum, Allocating, EraseFreeDoes, Frees,
          Tears, Ends, Locs, clus, rest
    <2> QED
      BY <1>0, <2>1, <1>18
      DEF Split, OwnsBlock, OwnsSum, Allocating, EraseFreeDoes, Frees, Tears, Ends, Locs,
          clus, rest
  <1>19. ASSUME CrashDoes PROVE (\A u \in Threads : Split(u))'
    BY Zenon, <1>0, <1>19 DEF Split, CrashDoes, NoIb, OwnsBlock, OwnsSum, Allocating
  <1>20. CASE UNCHANGED vars
    BY Zenon, <1>0, <1>20 DEF Split, OwnsBlock, OwnsSum, Allocating, vars
  <1> QED
    BY <1>1, <1>2, <1>3, <1>4, <1>5, <1>6, <1>7, <1>8, <1>9, <1>10, <1>11,
       <1>12, <1>13, <1>14, <1>15, <1>16, <1>17, <1>18, <1>19, <1>20 DEF Does

-----------------------------------------------------------------------------
(* Owners: every step hands blocks over.                                   *)

\* Every step hands over blocks in one of these ways.
LEMMA StepHands == OInv /\ Does => Hands \/ UNCHANGED vars
PROOF
  <1> SUFFICES ASSUME OInv, Does PROVE Hands \/ UNCHANGED vars
    BY Zenon
  <1>0. /\ \A u \in Threads : LocalsAt(pc[u], ib[u]) /\ ib[u] \in Ib
        /\ Apart /\ Undoable /\ Erasable
    BY Zenon DEF OInv, Locals, Types
  <1>1. ASSUME NEW t \in Threads, StartDoes(t) PROVE Hands \/ UNCHANGED vars
    <2>1. Keeps(t)
      BY Zenon, <1>0, <1>1, SetAssumption
      DEF Keeps, LocalsAt, NoIb, OwnsBlock, OwnsSum, Owned, Allocating, StartDoes, Locs,
          trees, clus, rest
    <2>2. lost' = lost /\ \A u \in Threads \ {t} : Owned(u)' = Owned(u)
      BY Zenon, <1>1 DEF StartDoes, Locs, trees, clus, rest, OwnsBlock, OwnsSum, Owned
    <2> QED
      BY Zenon, <2>1, <2>2 DEF Hands
  <1>2. ASSUME NEW t \in Threads, FindBlockDoes(t) PROVE Hands \/ UNCHANGED vars
    <2>1. Keeps(t)
      BY Zenon, <1>0, <1>2, SetAssumption
      DEF Keeps, LocalsAt, NoIb, OwnsBlock, OwnsSum, Owned, Allocating, FindBlockDoes,
          Locs, trees, clus, rest
    <2>2. lost' = lost /\ \A u \in Threads \ {t} : Owned(u)' = Owned(u)
      BY Zenon, <1>2 DEF FindBlockDoes, Locs, trees, clus, rest, OwnsBlock, OwnsSum, Owned
    <2> QED
      BY Zenon, <2>1, <2>2 DEF Hands
  <1>3. ASSUME NEW t \in Threads, FindSumDoes(t) PROVE Hands \/ UNCHANGED vars
    <2>1. Keeps(t)
      BY Zenon, <1>0, <1>3, SetAssumption
      DEF Keeps, LocalsAt, NoIb, OwnsBlock, OwnsSum, Owned, Allocating, FindSumDoes, Locs,
          trees, clus, rest
    <2>2. lost' = lost /\ \A u \in Threads \ {t} : Owned(u)' = Owned(u)
      BY Zenon, <1>3 DEF FindSumDoes, Locs, trees, clus, rest, OwnsBlock, OwnsSum, Owned
    <2> QED
      BY Zenon, <2>1, <2>2 DEF Hands
  <1>4. ASSUME NEW t \in Threads, OpenDoes(t) PROVE Hands \/ UNCHANGED vars
    <2>1. Keeps(t)
      BY Zenon, <1>0, <1>4, SetAssumption
      DEF Keeps, LocalsAt, NoIb, OwnsBlock, OwnsSum, Owned, Allocating, OpenDoes, Goes,
          Ends, Locs, trees, clus, rest
    <2>2. lost' = lost /\ \A u \in Threads \ {t} : Owned(u)' = Owned(u)
      BY Zenon, <1>4 DEF OpenDoes, Goes, Ends, Locs, trees, clus, rest, OwnsBlock, OwnsSum, Owned
    <2> QED
      BY Zenon, <2>1, <2>2 DEF Hands
  <1>5. ASSUME NEW t \in Threads, AllocBlockDoes(t) PROVE Hands \/ UNCHANGED vars
    <2>1. Takes(t) \/ Keeps(t)
      <3>1. Owned(t) = {} /\ UNCHANGED << blocks, sums >>
        BY Zenon, <1>5 DEF AllocBlockDoes, Owned, OwnsBlock, OwnsSum, Allocating
      <3>2. CASE \E b \in Blocks :
                   Clears(b) /\ Locs(t, "sumfind", ib[t].v, b, None, FALSE, FALSE, {}, TRUE)
        <4>1. PICK b \in Blocks :
                     Clears(b) /\ Locs(t, "sumfind", ib[t].v, b, None, FALSE, FALSE, {}, TRUE)
          BY Zenon, <3>2
        <4>2. Owned(t)' = {b}
          BY Zenon, <4>1 DEF Locs, Owned, OwnsBlock, OwnsSum, Allocating
        <4> QED
          BY Zenon, <3>1, <4>1, <4>2 DEF Takes, Clears
      <3>3. CASE Ends(t) /\ UNCHANGED << marked, clus >>
        <4>1. Owned(t)' = {}
          BY Zenon, <3>3 DEF Ends, Locs, Owned, OwnsBlock, OwnsSum, Allocating
        <4> QED
          BY Zenon, <3>1, <3>3, <4>1 DEF Keeps, trees
      <3> QED
        BY Zenon, <1>5, <3>2, <3>3 DEF AllocBlockDoes
    <2>2. lost' = lost /\ \A u \in Threads \ {t} : Owned(u)' = Owned(u)
      BY Zenon, <1>5 DEF AllocBlockDoes, Clears, Ends, Locs, clus, rest, OwnsBlock, OwnsSum, Owned
    <2> QED
      BY Zenon, <2>1, <2>2 DEF Hands
  <1>6. ASSUME NEW t \in Threads, SumAllocDoes(t) PROVE Hands \/ UNCHANGED vars
    <2>1. Takes(t) \/ Keeps(t)
      <3>1. Owned(t) = {ib[t].block} /\ UNCHANGED << blocks, sums >>
        BY Zenon, <1>6 DEF SumAllocDoes, Owned, OwnsBlock, OwnsSum, Allocating
      <3>2. ASSUME NEW b \in Blocks, Clears(b),
                   Locs(t, "suminsert", ib[t].v, ib[t].block, b, TRUE, ib[t].sumIn, ib[t].val, ib[t].new)
            PROVE  Takes(t)
        <4>1. Owned(t)' = {ib[t].block} \cup {b}
          BY Zenon, <3>2 DEF Locs, Owned, OwnsBlock, OwnsSum, Allocating
        <4> QED
          BY Zenon, <3>1, <3>2, <4>1 DEF Takes, Clears
      <3>3. ASSUME Goes(t, "undo"), UNCHANGED << marked, clus >>
            PROVE  Keeps(t)
        <4>1. ib[t].sumNew = FALSE
          BY Zenon, <1>0, <1>6 DEF LocalsAt, SumAllocDoes
        <4>2. Owned(t)' = {ib[t].block}
          BY Zenon, <3>3, <4>1 DEF Goes, Owned, OwnsBlock, OwnsSum, Allocating
        <4> QED
          BY Zenon, <3>1, <3>3, <4>2 DEF Keeps, trees
      <3> QED
        BY Zenon, <1>6, <3>2, <3>3 DEF SumAllocDoes
    <2>2. lost' = lost /\ \A u \in Threads \ {t} : Owned(u)' = Owned(u)
      BY <1>6 DEF SumAllocDoes, Clears, Goes, Locs, clus, rest, OwnsBlock, OwnsSum, Owned
    <2> QED
      BY Zenon, <2>1, <2>2 DEF Hands
  <1>7. ASSUME NEW t \in Threads, SumInsertDoes(t) PROVE Hands \/ UNCHANGED vars
    <2>1. Puts(t) \/ Keeps(t)
      <3>1. ib[t].sumNew = TRUE /\ ib[t].sumIn = FALSE /\ UNCHANGED << blocks, marked >>
        BY Zenon, <1>0, <1>7 DEF LocalsAt, SumInsertDoes
      <3>2. Owned(t) = {ib[t].block} \cup {ib[t].sum}
        BY Zenon, <3>1, <1>7 DEF SumInsertDoes, Owned, OwnsBlock, OwnsSum, Allocating
      <3>3. ib[t].block # ib[t].sum
        <4>1. OwnsBlock(t) /\ OwnsSum(t)
          BY Zenon, <3>1, <1>7 DEF SumInsertDoes, OwnsBlock, OwnsSum, Allocating
        <4> QED
          BY Zenon, <1>0, <4>1 DEF Apart, Split
      <3>4. ASSUME sums = None, sums' = ib[t].sum,
                   Locs(t, "aopen", ib[t].v, ib[t].block, ib[t].sum, ib[t].sumNew, TRUE, ib[t].val, ib[t].new)
            PROVE  Puts(t)
        <4>1. Owned(t)' = {ib[t].block}
          BY Zenon, <3>4 DEF Locs, Owned, OwnsBlock, OwnsSum, Allocating
        <4>2. Owned(t)' = Owned(t) \ {ib[t].sum} /\ ib[t].sum \in Owned(t)
          BY <3>2, <3>3, <4>1
        <4> QED
          BY Zenon, <3>1, <3>4, <4>2 DEF Puts
      <3>5. ASSUME Goes(t, "undo"), UNCHANGED sums
            PROVE  Keeps(t)
        <4>1. Owned(t)' = {ib[t].block} \cup {ib[t].sum}
          BY Zenon, <3>1, <3>5 DEF Goes, Owned, OwnsBlock, OwnsSum, Allocating
        <4> QED
          BY Zenon, <3>1, <3>2, <3>5, <4>1 DEF Keeps, trees
      <3> QED
        BY Zenon, <1>7, <3>4, <3>5 DEF SumInsertDoes
    <2>2. lost' = lost /\ \A u \in Threads \ {t} : Owned(u)' = Owned(u)
      BY ZenonT(30), <1>7 DEF SumInsertDoes, Goes, Locs, clus, rest, OwnsBlock, OwnsSum, Owned
    <2> QED
      BY Zenon, <2>1, <2>2 DEF Hands
  <1>8. ASSUME NEW t \in Threads, InsertDoes(t) PROVE Hands \/ UNCHANGED vars
    <2>1. Puts(t) \/ Keeps(t)
      <3>1. Owned(t) = {ib[t].block} /\ UNCHANGED << sums, marked >>
        BY Zenon, <1>8 DEF InsertDoes, Owned, OwnsBlock, OwnsSum, Allocating
      <3>2. /\ ib[t].sumNew = ib[t].sumIn /\ ib[t].v \in VBlocks
            /\ ib[t].sumNew \in BOOLEAN /\ ib[t].sumIn \in BOOLEAN
        BY Zenon, <1>0, <1>8 DEF LocalsAt, InsertDoes, Ib
      <3>3. ASSUME blocks[ib[t].v] = None, blocks' = [blocks EXCEPT ![ib[t].v] = ib[t].block],
                   Goes(t, "sum")
            PROVE  Puts(t)
        <4>1. Owned(t)' = {}
          BY Zenon, <3>3 DEF Goes, Owned, OwnsBlock, OwnsSum, Allocating
        <4>2. Owned(t)' = Owned(t) \ {ib[t].block} /\ ib[t].block \in Owned(t)
          BY Zenon, <3>1, <4>1
        <4> QED
          BY Zenon, <3>1, <3>2, <3>3, <4>2 DEF Puts
      <3>4. ASSUME Goes(t, "undo"), UNCHANGED blocks
            PROVE  Keeps(t)
        <4>1. Owned(t)' = {ib[t].block}
          BY Zenon, <3>2, <3>4 DEF Goes, Owned, OwnsBlock, OwnsSum, Allocating
        <4> QED
          BY Zenon, <3>1, <3>4, <4>1 DEF Keeps, trees
      <3> QED
        BY Zenon, <1>8, <3>3, <3>4 DEF InsertDoes
    <2>2. lost' = lost /\ \A u \in Threads \ {t} : Owned(u)' = Owned(u)
      BY Zenon, <1>8 DEF InsertDoes, Goes, clus, rest, OwnsBlock, OwnsSum, Owned
    <2> QED
      BY Zenon, <2>1, <2>2 DEF Hands
  <1>9. ASSUME NEW t \in Threads, UndoSumDoes(t) PROVE Hands \/ UNCHANGED vars
    <2>1. Gets(t) \/ Keeps(t)
      <3>1. Goes(t, "undofree") /\ pc[t] = "undo" /\ UNCHANGED << blocks, marked >>
        BY Zenon, <1>9 DEF UndoSumDoes
      <3>2. ASSUME ib[t].sumIn = TRUE, sums' = None
            PROVE  Gets(t)
        <4>1. sums = ib[t].sum /\ ib[t].sumNew = TRUE /\ sums # None
          BY <1>0, <3>1, <3>2, SetAssumption DEF Undoable, MayUndoSum, LocalsAt
        <4>2. Owned(t) = {ib[t].block}
          BY Zenon, <3>1, <3>2 DEF Owned, OwnsBlock, OwnsSum, Allocating
        <4>3. Owned(t)' = {ib[t].block} \cup {ib[t].sum}
          BY Zenon, <3>1, <4>1 DEF Goes, Owned, OwnsBlock, OwnsSum, Allocating
        <4> QED
          BY Zenon, <3>1, <3>2, <4>1, <4>2, <4>3 DEF Gets
      <3>3. ASSUME ib[t].sumIn = FALSE, UNCHANGED sums
            PROVE  Keeps(t)
        <4>1. Owned(t)' = Owned(t)
          BY Zenon, <3>1, <3>3 DEF Goes, Owned, OwnsBlock, OwnsSum, Allocating
        <4> QED
          BY Zenon, <3>1, <3>3, <4>1 DEF Keeps, trees
      <3> QED
        BY Zenon, <1>9, <3>2, <3>3 DEF UndoSumDoes
    <2>2. lost' = lost /\ \A u \in Threads \ {t} : Owned(u)' = Owned(u)
      BY Zenon, <1>9 DEF UndoSumDoes, Goes, Tears, clus, rest, OwnsBlock, OwnsSum, Owned
    <2> QED
      BY Zenon, <2>1, <2>2 DEF Hands
  <1>10. ASSUME NEW t \in Threads, UndoFreeDoes(t) PROVE Hands \/ UNCHANGED vars
    <2>1. Drops(t)
      BY Zenon, <1>0, <1>10, SetAssumption
      DEF Drops, LocalsAt, NoIb, OwnsBlock, OwnsSum, Owned, Allocating, UndoFreeDoes,
          Frees, Tears, Ends, Locs, clus, rest
    <2>2. lost' = lost /\ \A u \in Threads \ {t} : Owned(u)' = Owned(u)
      BY ZenonT(30), <1>10
      DEF UndoFreeDoes, Frees, Tears, Ends, Locs, clus, rest, OwnsBlock, OwnsSum, Owned
    <2> QED
      BY Zenon, <2>1, <2>2 DEF Hands
  <1>11. ASSUME NEW t \in Threads, WriteDoes(t) PROVE Hands \/ UNCHANGED vars
    <2>1. Keeps(t)
      BY Zenon, <1>0, <1>11, SetAssumption
      DEF Keeps, LocalsAt, NoIb, OwnsBlock, OwnsSum, Owned, Allocating, WriteDoes, Locs,
          trees, rest
    <2>2. lost' = lost /\ \A u \in Threads \ {t} : Owned(u)' = Owned(u)
      BY ZenonT(30), <1>11 DEF WriteDoes, Locs, trees, rest, OwnsBlock, OwnsSum, Owned
    <2> QED
      BY Zenon, <2>1, <2>2 DEF Hands
  <1>12. ASSUME NEW t \in Threads, SumUpDoes(t) PROVE Hands \/ UNCHANGED vars
    <2>1. Keeps(t)
      BY Zenon, <1>0, <1>12, SetAssumption
      DEF Keeps, LocalsAt, NoIb, OwnsBlock, OwnsSum, Owned, Allocating, SumUpDoes, Locs,
          trees, clus, rest
    <2>2. lost' = lost /\ \A u \in Threads \ {t} : Owned(u)' = Owned(u)
      BY ZenonT(30), <1>12 DEF SumUpDoes, Locs, trees, clus, rest, OwnsBlock, OwnsSum, Owned
    <2> QED
      BY Zenon, <2>1, <2>2 DEF Hands
  <1>13. ASSUME NEW t \in Threads, StoreSumDoes(t) PROVE Hands \/ UNCHANGED vars
    <2>1. Keeps(t)
      BY Zenon, <1>0, <1>13, SetAssumption
      DEF Keeps, LocalsAt, NoIb, OwnsBlock, OwnsSum, Owned, Allocating, StoreSumDoes, Goes,
          trees, rest
    <2>2. lost' = lost /\ \A u \in Threads \ {t} : Owned(u)' = Owned(u)
      BY Zenon, <1>13 DEF StoreSumDoes, Goes, trees, rest, OwnsBlock, OwnsSum, Owned
    <2> QED
      BY Zenon, <2>1, <2>2 DEF Hands
  <1>14. ASSUME NEW t \in Threads, SyncDataDoes(t) PROVE Hands \/ UNCHANGED vars
    <2>1. Keeps(t)
      BY Zenon, <1>0, <1>14, SetAssumption
      DEF Keeps, LocalsAt, NoIb, OwnsBlock, OwnsSum, Owned, Allocating, SyncDataDoes, Goes,
          trees, rest
    <2>2. lost' = lost /\ \A u \in Threads \ {t} : Owned(u)' = Owned(u)
      BY Zenon, <1>14 DEF SyncDataDoes, Goes, trees, rest, OwnsBlock, OwnsSum, Owned
    <2> QED
      BY Zenon, <2>1, <2>2 DEF Hands
  <1>15. ASSUME NEW t \in Threads, SyncSumDoes(t) PROVE Hands \/ UNCHANGED vars
    <2>1. Keeps(t)
      BY Zenon, <1>0, <1>15, SetAssumption
      DEF Keeps, LocalsAt, NoIb, OwnsBlock, OwnsSum, Owned, Allocating, SyncSumDoes, Goes,
          Ends, Locs, trees
    <2>2. lost' = lost /\ \A u \in Threads \ {t} : Owned(u)' = Owned(u)
      BY ZenonT(30), <1>15 DEF SyncSumDoes, Goes, Ends, Locs, trees, OwnsBlock, OwnsSum, Owned
    <2> QED
      BY Zenon, <2>1, <2>2 DEF Hands
  <1>16. ASSUME NEW t \in Threads, SyncFailsDoes(t) PROVE Hands \/ UNCHANGED vars
    <2>1. Keeps(t)
      BY Zenon, <1>0, <1>16, SetAssumption
      DEF Keeps, LocalsAt, NoIb, OwnsBlock, OwnsSum, Owned, Allocating, SyncFailsDoes,
          Goes, Ends, Locs, trees, clus, rest
    <2>2. lost' = lost /\ \A u \in Threads \ {t} : Owned(u)' = Owned(u)
      BY ZenonT(30), <1>16
      DEF SyncFailsDoes, Goes, Ends, Locs, trees, clus, rest, OwnsBlock, OwnsSum, Owned
    <2> QED
      BY Zenon, <2>1, <2>2 DEF Hands
  <1>17. ASSUME NEW t \in Threads, EraseDoes(t) PROVE Hands \/ UNCHANGED vars
    <2>1. Gets(t)
      <3>1. /\ Goes(t, "efree") /\ pc[t] = "erase" /\ UNCHANGED << sums, marked >>
            /\ blocks' = [blocks EXCEPT ![ib[t].v] = None]
        BY Zenon, <1>17 DEF EraseDoes
      <3>2. /\ blocks[ib[t].v] = ib[t].block /\ ib[t].v \in VBlocks
            /\ ib[t].block # None
        BY <1>0, <3>1, SetAssumption DEF Erasable, MayErase, Fresh, LocalsAt
      <3>3. Owned(t) = {}
        BY Zenon, <3>1 DEF Owned, OwnsBlock, OwnsSum, Allocating
      <3>4. Owned(t)' = {ib[t].block}
        BY Zenon, <3>1 DEF Goes, Owned, OwnsBlock, OwnsSum, Allocating
      <3> QED
        BY Zenon, <3>1, <3>2, <3>3, <3>4 DEF Gets
    <2>2. lost' = lost /\ \A u \in Threads \ {t} : Owned(u)' = Owned(u)
      BY Zenon, <1>17 DEF EraseDoes, Goes, clus, rest, OwnsBlock, OwnsSum, Owned
    <2> QED
      BY Zenon, <2>1, <2>2 DEF Hands
  <1>18. ASSUME NEW t \in Threads, EraseFreeDoes(t) PROVE Hands \/ UNCHANGED vars
    <2>1. Drops(t)
      BY Zenon, <1>0, <1>18, SetAssumption
      DEF Drops, LocalsAt, NoIb, OwnsBlock, OwnsSum, Owned, Allocating, EraseFreeDoes,
          Frees, Tears, Ends, Locs, clus, rest
    <2>2. lost' = lost /\ \A u \in Threads \ {t} : Owned(u)' = Owned(u)
      BY Zenon, <1>18
      DEF EraseFreeDoes, Frees, Tears, Ends, Locs, clus, rest, OwnsBlock, OwnsSum, Owned
    <2> QED
      BY Zenon, <2>1, <2>2 DEF Hands
  <1>19. ASSUME CrashDoes PROVE Hands \/ UNCHANGED vars
    BY Zenon, <1>0, <1>19 DEF CrashDoes, Hands, OwnsBlock, OwnsSum, Owned, Allocating, NoIb
  <1>20. CASE UNCHANGED vars
    BY Zenon, <1>20
  <1> QED
    BY Zenon, <1>1, <1>2, <1>3, <1>4, <1>5, <1>6, <1>7, <1>8, <1>9, <1>10, <1>11,
       <1>12, <1>13, <1>14, <1>15, <1>16, <1>17, <1>18, <1>19, <1>20 DEF Does

\* What a put may still take out of a tree changes in four places only.
LEMMA StepStays == OInv /\ Does =>
  Stays \/ \E t \in Threads :
    SumInsertDoes(t) \/ InsertDoes(t) \/ UndoSumDoes(t) \/ EraseDoes(t)
PROOF
  <1> SUFFICES ASSUME OInv, Does
           PROVE  Stays \/ \E t \in Threads :
                    SumInsertDoes(t) \/ InsertDoes(t) \/ UndoSumDoes(t) \/ EraseDoes(t)
    BY Zenon
  <1>0. \A u \in Threads : LocalsAt(pc[u], ib[u]) /\ ib[u] \in Ib
    BY Zenon DEF OInv, Locals, Types
  <1>1. ASSUME NEW t \in Threads, StartDoes(t) PROVE Stays
    <2>1. \A u \in Threads \ {t} : /\ MayUndoSum(u)' => MayUndoSum(u)
                                   /\ MayErase(u)' => MayErase(u)
                                   /\ ib'[u] = ib[u]
      BY Zenon, <1>1 DEF MayUndoSum, MayErase, StartDoes, Locs, trees, clus, rest
    <2>2. /\ MayUndoSum(t)' => MayUndoSum(t) /\ ib'[t].sum = ib[t].sum
          /\ MayErase(t)' => MayErase(t) /\ ib'[t].v = ib[t].v /\ ib'[t].block = ib[t].block
          /\ UNCHANGED << blocks, sums >>
      BY Zenon, <1>0, <1>1
      DEF MayUndoSum, MayErase, Fresh, LocalsAt, NoIb, StartDoes, Locs, trees, clus, rest
    <2> QED
      BY Zenon, <2>1, <2>2 DEF Stays
  <1>2. ASSUME NEW t \in Threads, FindBlockDoes(t) PROVE Stays
    <2>1. \A u \in Threads \ {t} : /\ MayUndoSum(u)' => MayUndoSum(u)
                                   /\ MayErase(u)' => MayErase(u)
                                   /\ ib'[u] = ib[u]
      BY Zenon, <1>2 DEF MayUndoSum, MayErase, FindBlockDoes, Locs, trees, clus, rest
    <2>2. /\ MayUndoSum(t)' => MayUndoSum(t) /\ ib'[t].sum = ib[t].sum
          /\ MayErase(t)' => MayErase(t) /\ ib'[t].v = ib[t].v /\ ib'[t].block = ib[t].block
          /\ UNCHANGED << blocks, sums >>
      BY Zenon, <1>0, <1>2
      DEF MayUndoSum, MayErase, Fresh, LocalsAt, NoIb, FindBlockDoes, Locs, trees, clus,
          rest
    <2> QED
      BY Zenon, <2>1, <2>2 DEF Stays
  <1>3. ASSUME NEW t \in Threads, FindSumDoes(t) PROVE Stays
    <2>1. \A u \in Threads \ {t} : /\ MayUndoSum(u)' => MayUndoSum(u)
                                   /\ MayErase(u)' => MayErase(u)
                                   /\ ib'[u] = ib[u]
      BY Zenon, <1>3 DEF MayUndoSum, MayErase, FindSumDoes, Locs, trees, clus, rest
    <2>2. /\ MayUndoSum(t)' => MayUndoSum(t) /\ ib'[t].sum = ib[t].sum
          /\ MayErase(t)' => MayErase(t) /\ ib'[t].v = ib[t].v /\ ib'[t].block = ib[t].block
          /\ UNCHANGED << blocks, sums >>
      BY Zenon, <1>0, <1>3
      DEF MayUndoSum, MayErase, Fresh, LocalsAt, NoIb, FindSumDoes, Locs, trees, clus, rest
    <2> QED
      BY Zenon, <2>1, <2>2 DEF Stays
  <1>4. ASSUME NEW t \in Threads, OpenDoes(t) PROVE Stays
    <2>1. \A u \in Threads \ {t} : /\ MayUndoSum(u)' => MayUndoSum(u)
                                   /\ MayErase(u)' => MayErase(u)
                                   /\ ib'[u] = ib[u]
      BY Zenon, <1>4 DEF MayUndoSum, MayErase, OpenDoes, Goes, Ends, Locs, trees, clus, rest
    <2>2. /\ MayUndoSum(t)' => MayUndoSum(t) /\ ib'[t].sum = ib[t].sum
          /\ MayErase(t)' => MayErase(t) /\ ib'[t].v = ib[t].v /\ ib'[t].block = ib[t].block
          /\ UNCHANGED << blocks, sums >>
      BY Zenon, <1>0, <1>4
      DEF MayUndoSum, MayErase, Fresh, LocalsAt, NoIb, OpenDoes, Goes, Ends, Locs, trees,
          clus, rest
    <2> QED
      BY Zenon, <2>1, <2>2 DEF Stays
  <1>5. ASSUME NEW t \in Threads, AllocBlockDoes(t) PROVE Stays
    <2>1. \A u \in Threads \ {t} : /\ MayUndoSum(u)' => MayUndoSum(u)
                                   /\ MayErase(u)' => MayErase(u)
                                   /\ ib'[u] = ib[u]
      BY Zenon, <1>5 DEF MayUndoSum, MayErase, AllocBlockDoes, Clears, Ends, Locs, clus, rest
    <2>2. /\ MayUndoSum(t)' => MayUndoSum(t) /\ ib'[t].sum = ib[t].sum
          /\ MayErase(t)' => MayErase(t) /\ ib'[t].v = ib[t].v /\ ib'[t].block = ib[t].block
          /\ UNCHANGED << blocks, sums >>
      BY Zenon, <1>0, <1>5
      DEF MayUndoSum, MayErase, Fresh, LocalsAt, NoIb, AllocBlockDoes, Clears, Ends, Locs,
          clus, rest
    <2> QED
      BY Zenon, <2>1, <2>2 DEF Stays
  <1>6. ASSUME NEW t \in Threads, SumAllocDoes(t) PROVE Stays
    <2>1. \A u \in Threads \ {t} : /\ MayUndoSum(u)' => MayUndoSum(u)
                                   /\ MayErase(u)' => MayErase(u)
                                   /\ ib'[u] = ib[u]
      BY Zenon, <1>6 DEF MayUndoSum, MayErase, SumAllocDoes, Clears, Goes, Locs, clus, rest
    <2>2. /\ MayUndoSum(t)' => MayUndoSum(t) /\ ib'[t].sum = ib[t].sum
          /\ MayErase(t)' => MayErase(t) /\ ib'[t].v = ib[t].v /\ ib'[t].block = ib[t].block
          /\ UNCHANGED << blocks, sums >>
      BY Zenon, <1>0, <1>6
      DEF MayUndoSum, MayErase, Fresh, LocalsAt, NoIb, SumAllocDoes, Clears, Goes, Locs,
          clus, rest
    <2> QED
      BY Zenon, <2>1, <2>2 DEF Stays
  <1>10. ASSUME NEW t \in Threads, UndoFreeDoes(t) PROVE Stays
    <2>1. \A u \in Threads \ {t} : /\ MayUndoSum(u)' => MayUndoSum(u)
                                   /\ MayErase(u)' => MayErase(u)
                                   /\ ib'[u] = ib[u]
      BY Zenon, <1>10 DEF MayUndoSum, MayErase, UndoFreeDoes, Frees, Tears, Ends, Locs, clus, rest
    <2>2. /\ MayUndoSum(t)' => MayUndoSum(t) /\ ib'[t].sum = ib[t].sum
          /\ MayErase(t)' => MayErase(t) /\ ib'[t].v = ib[t].v /\ ib'[t].block = ib[t].block
          /\ UNCHANGED << blocks, sums >>
      BY Zenon, <1>0, <1>10
      DEF MayUndoSum, MayErase, Fresh, LocalsAt, NoIb, UndoFreeDoes, Frees, Tears, Ends,
          Locs, clus, rest
    <2> QED
      BY Zenon, <2>1, <2>2 DEF Stays
  <1>11. ASSUME NEW t \in Threads, WriteDoes(t) PROVE Stays
    <2>1. \A u \in Threads \ {t} : /\ MayUndoSum(u)' => MayUndoSum(u)
                                   /\ MayErase(u)' => MayErase(u)
                                   /\ ib'[u] = ib[u]
      BY Zenon, <1>11 DEF MayUndoSum, MayErase, WriteDoes, Locs, trees, rest
    <2>2. /\ MayUndoSum(t)' => MayUndoSum(t) /\ ib'[t].sum = ib[t].sum
          /\ MayErase(t)' => MayErase(t) /\ ib'[t].v = ib[t].v /\ ib'[t].block = ib[t].block
          /\ UNCHANGED << blocks, sums >>
      BY Zenon, <1>0, <1>11
      DEF MayUndoSum, MayErase, Fresh, LocalsAt, NoIb, WriteDoes, Locs, trees, rest
    <2> QED
      BY Zenon, <2>1, <2>2 DEF Stays
  <1>12. ASSUME NEW t \in Threads, SumUpDoes(t) PROVE Stays
    <2>1. \A u \in Threads \ {t} : /\ MayUndoSum(u)' => MayUndoSum(u)
                                   /\ MayErase(u)' => MayErase(u)
                                   /\ ib'[u] = ib[u]
      BY Zenon, <1>12 DEF MayUndoSum, MayErase, SumUpDoes, Locs, trees, clus, rest
    <2>2. /\ MayUndoSum(t)' => MayUndoSum(t) /\ ib'[t].sum = ib[t].sum
          /\ MayErase(t)' => MayErase(t) /\ ib'[t].v = ib[t].v /\ ib'[t].block = ib[t].block
          /\ UNCHANGED << blocks, sums >>
      BY Zenon, <1>0, <1>12
      DEF MayUndoSum, MayErase, Fresh, LocalsAt, NoIb, SumUpDoes, Locs, trees, clus, rest
    <2> QED
      BY Zenon, <2>1, <2>2 DEF Stays
  <1>13. ASSUME NEW t \in Threads, StoreSumDoes(t) PROVE Stays
    <2>1. \A u \in Threads \ {t} : /\ MayUndoSum(u)' => MayUndoSum(u)
                                   /\ MayErase(u)' => MayErase(u)
                                   /\ ib'[u] = ib[u]
      BY Zenon, <1>13 DEF MayUndoSum, MayErase, StoreSumDoes, Goes, trees, rest
    <2>2. /\ MayUndoSum(t)' => MayUndoSum(t) /\ ib'[t].sum = ib[t].sum
          /\ MayErase(t)' => MayErase(t) /\ ib'[t].v = ib[t].v /\ ib'[t].block = ib[t].block
          /\ UNCHANGED << blocks, sums >>
      BY Zenon, <1>0, <1>13
      DEF MayUndoSum, MayErase, Fresh, LocalsAt, NoIb, StoreSumDoes, Goes, trees, rest
    <2> QED
      BY Zenon, <2>1, <2>2 DEF Stays
  <1>14. ASSUME NEW t \in Threads, SyncDataDoes(t) PROVE Stays
    <2>1. \A u \in Threads \ {t} : /\ MayUndoSum(u)' => MayUndoSum(u)
                                   /\ MayErase(u)' => MayErase(u)
                                   /\ ib'[u] = ib[u]
      BY Zenon, <1>14 DEF MayUndoSum, MayErase, SyncDataDoes, Goes, trees, rest
    <2>2. /\ MayUndoSum(t)' => MayUndoSum(t) /\ ib'[t].sum = ib[t].sum
          /\ MayErase(t)' => MayErase(t) /\ ib'[t].v = ib[t].v /\ ib'[t].block = ib[t].block
          /\ UNCHANGED << blocks, sums >>
      BY Zenon, <1>0, <1>14
      DEF MayUndoSum, MayErase, Fresh, LocalsAt, NoIb, SyncDataDoes, Goes, trees, rest
    <2> QED
      BY Zenon, <2>1, <2>2 DEF Stays
  <1>15. ASSUME NEW t \in Threads, SyncSumDoes(t) PROVE Stays
    <2>1. \A u \in Threads \ {t} : /\ MayUndoSum(u)' => MayUndoSum(u)
                                   /\ MayErase(u)' => MayErase(u)
                                   /\ ib'[u] = ib[u]
      BY Zenon, <1>15 DEF MayUndoSum, MayErase, SyncSumDoes, Goes, Ends, Locs, trees
    <2>2. /\ MayUndoSum(t)' => MayUndoSum(t) /\ ib'[t].sum = ib[t].sum
          /\ MayErase(t)' => MayErase(t) /\ ib'[t].v = ib[t].v /\ ib'[t].block = ib[t].block
          /\ UNCHANGED << blocks, sums >>
      BY Zenon, <1>0, <1>15
      DEF MayUndoSum, MayErase, Fresh, LocalsAt, NoIb, SyncSumDoes, Goes, Ends, Locs, trees
    <2> QED
      BY Zenon, <2>1, <2>2 DEF Stays
  <1>16. ASSUME NEW t \in Threads, SyncFailsDoes(t) PROVE Stays
    <2>1. \A u \in Threads \ {t} : /\ MayUndoSum(u)' => MayUndoSum(u)
                                   /\ MayErase(u)' => MayErase(u)
                                   /\ ib'[u] = ib[u]
      BY Zenon, <1>16 DEF MayUndoSum, MayErase, SyncFailsDoes, Goes, Ends, Locs, trees, clus, rest
    <2>2. /\ MayUndoSum(t)' => MayUndoSum(t) /\ ib'[t].sum = ib[t].sum
          /\ MayErase(t)' => MayErase(t) /\ ib'[t].v = ib[t].v /\ ib'[t].block = ib[t].block
          /\ UNCHANGED << blocks, sums >>
      BY Zenon, <1>0, <1>16
      DEF MayUndoSum, MayErase, Fresh, LocalsAt, NoIb, SyncFailsDoes, Goes, Ends, Locs,
          trees, clus, rest
    <2> QED
      BY Zenon, <2>1, <2>2 DEF Stays
  <1>18. ASSUME NEW t \in Threads, EraseFreeDoes(t) PROVE Stays
    <2>1. \A u \in Threads \ {t} : /\ MayUndoSum(u)' => MayUndoSum(u)
                                   /\ MayErase(u)' => MayErase(u)
                                   /\ ib'[u] = ib[u]
      BY Zenon, <1>18 DEF MayUndoSum, MayErase, EraseFreeDoes, Frees, Tears, Ends, Locs, clus, rest
    <2>2. /\ MayUndoSum(t)' => MayUndoSum(t) /\ ib'[t].sum = ib[t].sum
          /\ MayErase(t)' => MayErase(t) /\ ib'[t].v = ib[t].v /\ ib'[t].block = ib[t].block
          /\ UNCHANGED << blocks, sums >>
      BY Zenon, <1>0, <1>18
      DEF MayUndoSum, MayErase, Fresh, LocalsAt, NoIb, EraseFreeDoes, Frees, Tears, Ends,
          Locs, clus, rest
    <2> QED
      BY Zenon, <2>1, <2>2 DEF Stays
  <1>19. ASSUME CrashDoes PROVE Stays
    BY Zenon, <1>19 DEF Stays, MayUndoSum, MayErase, Fresh, CrashDoes, trees
  <1>20. CASE UNCHANGED vars
    BY Zenon, <1>20 DEF Stays, MayUndoSum, MayErase, vars
  <1> QED
    BY ZenonT(30), <1>1, <1>2, <1>3, <1>4, <1>5, <1>6, <1>10, <1>11, <1>12, <1>13, <1>14, <1>15, <1>16,
        <1>18, <1>19, <1>20
    DEF Does

\* The key of the checksums that a put may still delete is the one it inserted.
LEMMA UndoableStep == OInv /\ Does => Undoable'
PROOF
  <1> SUFFICES ASSUME OInv, Does PROVE Undoable'
    BY Zenon
  <1>0. /\ \A u \in Threads : LocalsAt(pc[u], ib[u]) /\ ib[u] \in Ib
        /\ blocks \in [VBlocks -> Blocks \cup {None}] /\ Undoable
    BY Zenon DEF OInv, Locals, Types
  <1>1. ASSUME NEW t \in Threads, SumInsertDoes(t) PROVE Undoable'
    <2>1. \A u \in Threads \ {t} : (MayUndoSum(u)' <=> MayUndoSum(u)) /\ ib'[u] = ib[u]
      BY Zenon, <1>1 DEF MayUndoSum, SumInsertDoes, Goes, Locs
    <2>2. CASE sums = None /\ sums' = ib[t].sum /\ ib'[t].sum = ib[t].sum
      <3>1. \A u \in Threads : ~MayUndoSum(u)
        BY Zenon, <1>0, <2>2, SetAssumption DEF Undoable, MayUndoSum, LocalsAt
      <3> QED
        BY Zenon, <2>1, <2>2, <3>1 DEF Undoable
    <2>3. CASE Goes(t, "undo") /\ UNCHANGED sums
      <3>1. ~MayUndoSum(t)'
        BY Zenon, <1>0, <2>3, <1>1 DEF MayUndoSum, LocalsAt, SumInsertDoes, Goes
      <3> QED
        BY Zenon, <1>0, <2>1, <2>3, <3>1 DEF Undoable
    <2> QED
      BY Zenon, <2>2, <2>3, <1>1 DEF SumInsertDoes, Locs
  <1>2. ASSUME NEW t \in Threads, InsertDoes(t) PROVE Undoable'
    <2>1. \A u \in Threads : (MayUndoSum(u)' => MayUndoSum(u)) /\ ib'[u] = ib[u]
      BY Zenon, <1>2 DEF MayUndoSum, InsertDoes, Goes
    <2>2. sums' = sums
      BY Zenon, <1>2 DEF InsertDoes
    <2> QED
      BY Zenon, <1>0, <2>1, <2>2 DEF Undoable
  <1>3. ASSUME NEW t \in Threads, UndoSumDoes(t) PROVE Undoable'
    <2>1. \A u \in Threads \ {t} : (MayUndoSum(u)' <=> MayUndoSum(u)) /\ ib'[u] = ib[u]
      BY Zenon, <1>3 DEF MayUndoSum, UndoSumDoes, Goes
    <2>2. ~MayUndoSum(t)'
      BY Zenon, <1>3 DEF MayUndoSum, UndoSumDoes, Goes
    <2>3. CASE ib[t].sumIn = TRUE
      <3>1. \A u \in Threads \ {t} : ~MayUndoSum(u)
        BY Zenon, <1>0, <2>3, <1>3 DEF Undoable, MayUndoSum, UndoSumDoes
      <3> QED
        BY Zenon, <2>1, <2>2, <3>1 DEF Undoable
    <2>4. CASE UNCHANGED sums
      BY Zenon, <1>0, <2>1, <2>2, <2>4 DEF Undoable
    <2> QED
      BY Zenon, <2>3, <2>4, <1>3 DEF UndoSumDoes
  <1>4. ASSUME NEW t \in Threads, EraseDoes(t) PROVE Undoable'
    <2>1. \A u \in Threads : (MayUndoSum(u)' => MayUndoSum(u)) /\ ib'[u] = ib[u]
      BY Zenon, <1>4 DEF MayUndoSum, EraseDoes, Goes
    <2>2. sums' = sums
      BY Zenon, <1>4 DEF EraseDoes
    <2> QED
      BY Zenon, <1>0, <2>1, <2>2 DEF Undoable
  <1>5. CASE Stays
    BY Zenon, <1>0, <1>5 DEF Stays, Undoable
  <1> QED
    BY Zenon, <1>1, <1>2, <1>3, <1>4, <1>5, StepStays

\* The key of a block that a put may still erase is the one it inserted.
LEMMA ErasableStep == OInv /\ Does => Erasable'
PROOF
  <1> SUFFICES ASSUME OInv, Does PROVE Erasable'
    BY Zenon
  <1>0. /\ \A u \in Threads : LocalsAt(pc[u], ib[u]) /\ ib[u] \in Ib
        /\ blocks \in [VBlocks -> Blocks \cup {None}] /\ Erasable
    BY Zenon DEF OInv, Locals, Types
  <1>1. ASSUME NEW t \in Threads, SumInsertDoes(t) PROVE Erasable'
    <2>1. \A u \in Threads : /\ MayErase(u)' => MayErase(u)
                             /\ MayErase(u) => ib'[u].v = ib[u].v /\ ib'[u].block = ib[u].block
      BY Zenon, <1>1 DEF MayErase, Fresh, SumInsertDoes, Goes, Locs
    <2>2. blocks' = blocks
      BY Zenon, <1>1 DEF SumInsertDoes
    <2> QED
      BY Zenon, <1>0, <2>1, <2>2 DEF Erasable
  <1>2. ASSUME NEW t \in Threads, InsertDoes(t) PROVE Erasable'
    <2>1. \A u \in Threads \ {t} : (MayErase(u)' <=> MayErase(u)) /\ ib'[u] = ib[u]
      BY Zenon, <1>2 DEF MayErase, InsertDoes, Goes
    <2>2. CASE /\ blocks[ib[t].v] = None /\ Goes(t, "sum")
               /\ blocks' = [blocks EXCEPT ![ib[t].v] = ib[t].block]
      <3>0. \A u \in Threads : MayErase(u) => ib[u].block \in Blocks /\ ib[u].v \in VBlocks
        BY Zenon, <1>0 DEF MayErase, Fresh, LocalsAt, UsesBlock
      <3>1. \A u \in Threads : MayErase(u) => ib[u].v # ib[t].v /\ ib[u].v \in VBlocks
        BY Zenon, <1>0, <2>2, <3>0, SetAssumption DEF Erasable
      <3>2. ib[t].v \in VBlocks
        BY Zenon, <1>0, <1>2 DEF LocalsAt, InsertDoes
      <3> QED
        BY <1>0, <2>1, <2>2, <3>1, <3>2 DEF Erasable, Goes
    <2>3. CASE Goes(t, "undo") /\ UNCHANGED blocks
      <3>1. ~MayErase(t)'
        BY Zenon, <2>3 DEF MayErase, Fresh, Goes
      <3> QED
        BY <1>0, <2>1, <2>3, <3>1 DEF Erasable
    <2> QED
      BY Zenon, <2>2, <2>3, <1>2 DEF InsertDoes
  <1>3. ASSUME NEW t \in Threads, UndoSumDoes(t) PROVE Erasable'
    <2>1. \A u \in Threads : (MayErase(u)' => MayErase(u)) /\ ib'[u] = ib[u]
      BY Zenon, <1>3 DEF MayErase, Fresh, UndoSumDoes, Goes
    <2>2. blocks' = blocks
      BY Zenon, <1>3 DEF UndoSumDoes
    <2> QED
      BY Zenon, <1>0, <2>1, <2>2 DEF Erasable
  <1>4. ASSUME NEW t \in Threads, EraseDoes(t) PROVE Erasable'
    <2>1. \A u \in Threads \ {t} : (MayErase(u)' <=> MayErase(u)) /\ ib'[u] = ib[u]
      BY Zenon, <1>4 DEF MayErase, EraseDoes, Goes
    <2>2. ~MayErase(t)'
      BY Zenon, <1>4 DEF MayErase, Fresh, EraseDoes, Goes
    <2>3. MayErase(t)
      BY Zenon, <1>0, <1>4 DEF MayErase, Fresh, LocalsAt, EraseDoes
    <2>4. \A u \in Threads \ {t} : MayErase(u) => ib[u].v # ib[t].v /\ ib[u].v \in VBlocks
      BY Zenon, <1>0, <2>3 DEF Erasable, LocalsAt, MayErase, Fresh
    <2> QED
      BY <1>0, <2>1, <2>2, <2>4, <1>4 DEF Erasable, EraseDoes
  <1>5. CASE Stays
    BY <1>0, <1>5 DEF Stays, Erasable
  <1> QED
    BY Zenon, <1>1, <1>2, <1>3, <1>4, <1>5, StepStays

\* Every step keeps the part of the invariant that is about owners.
LEMMA OInvStep == OInv /\ Does => OInv'
PROOF
  <1> SUFFICES ASSUME OInv, Does PROVE OInv'
    BY Zenon
  <1>1. Types' /\ Locals' /\ Undoable' /\ Erasable' /\ \A u \in Threads : Split(u)'
    BY Zenon, TypesStep, LocalsStep, UndoableStep, ErasableStep, SplitStep
  <1>2. CASE Hands
    <2>1. /\ Types /\ Named /\ Private /\ NoneLost
          /\ \A t, u \in Threads : t # u => Owned(t) \cap Owned(u) = {}
      BY Zenon DEF OInv, Apart
    <2>2. /\ Named' /\ Private' /\ NoneLost'
          /\ \A t, u \in Threads : t # u => Owned(t)' \cap Owned(u)' = {}
      BY Zenon, <1>2, <2>1, HandsOwners
    <2>3. Apart'
      BY Zenon, <1>1, <2>2 DEF Apart
    <2> QED
      BY Zenon, <1>1, <2>2, <2>3 DEF OInv
  <1>3. CASE UNCHANGED vars
    <2>1. \A t \in Threads : Owned(t)' = Owned(t)
      BY Zenon, <1>3 DEF Owned, OwnsBlock, OwnsSum, vars
    <2>2. Named' /\ Private' /\ NoneLost'
      BY <1>3, <2>1 DEF OInv, Named, Private, NoneLost, Unnamed, vars
    <2>3. Apart'
      BY Zenon, <1>1, <2>1 DEF OInv, Apart
    <2> QED
      BY Zenon, <1>1, <2>2, <2>3 DEF OInv
  <1> QED
    BY Zenon, <1>2, <1>3, StepHands

-----------------------------------------------------------------------------
(* Users: a block that is not torn is left to the one put that uses it.    *)

\* A step in which no block changes hands leaves every block to its user.
LEMMA QuietUsers ==
  ASSUME Types, Users, Quiet
  PROVE  Users'
PROOF
  <1>0. \A t \in Threads : pc[t] \in PCs /\ ib[t] \in Ib
    BY Zenon DEF Types
  <1>1. Doomed'
    BY Zenon DEF Quiet, Users, Doomed
  <1>2. Alone'
    BY DEF Quiet, Users, Alone
  <1>3. Shared'
    BY Zenon DEF Quiet, Users, Shared
  <1>4. Worked'
    <2> SUFFICES ASSUME torn' # VBlocks, NEW t \in Threads, pc'[t] \in UsesBlock PROVE Works(t)'
      BY Zenon DEF Worked
    <2>1. Works(t)
      BY Zenon DEF Quiet, Users, Worked
    <2> QED
      BY Zenon, <2>1 DEF Quiet, Works
  <1>5. Distinct'
    BY ZenonT(30) DEF Quiet, Users, Distinct
  <1> QED
    BY Zenon, <1>1, <1>2, <1>3, <1>4, <1>5 DEF Users

\* Every step leaves every block to its user.
LEMMA UsersStep == OInv /\ Users /\ Does => Users'
PROOF
  <1> SUFFICES ASSUME OInv, Users, Does PROVE Users'
    BY Zenon
  <1>0. /\ \A u \in Threads : LocalsAt(pc[u], ib[u]) /\ ib[u] \in Ib
        /\ blocks \in [VBlocks -> Blocks \cup {None}] /\ sums \in Blocks \cup {None}
        /\ marked \subseteq Blocks /\ torn \subseteq VBlocks
    BY Zenon DEF OInv, Locals, Types
  <1>1. ASSUME NEW t \in Threads, StartDoes(t) PROVE Users'
    <2>0. /\ torn \subseteq torn' /\ torn' \subseteq VBlocks /\ pc'[t] = "find" /\ UNCHANGED trees
          /\ \A u \in Threads \ {t} : pc'[u] = pc[u] /\ ib'[u] = ib[u]
      BY Zenon, <1>0, <1>1 DEF StartDoes, Locs
    <2>1. Doomed'
      BY ZenonT(30), <1>0, <1>1, SetAssumption
      DEF Users, Doomed, LocalsAt, UsesBlock, UsesSum, Allocating, Tears, StartDoes, Locs,
          trees, clus, rest
    <2>2. Alone'
      BY <1>0, <1>1, SetAssumption
      DEF Users, Alone, LocalsAt, UsesBlock, UsesSum, Allocating, Tears, StartDoes, Locs,
          trees, clus, rest
    <2>3. Shared'
      BY Zenon, <2>0 DEF Users, Shared, UsesSum, trees
    <2>4. Worked'
      <3> SUFFICES ASSUME torn' # VBlocks, NEW u \in Threads, pc'[u] \in UsesBlock PROVE Works(u)'
        BY Zenon DEF Worked
      <3>1. u # t /\ Works(u)
        BY Zenon, <2>0 DEF Users, Worked, UsesBlock
      <3> QED
        BY Zenon, <2>0, <3>1 DEF Works, trees
    <2>5. Distinct'
      <3> SUFFICES ASSUME torn' # VBlocks, NEW u \in Threads, NEW w \in Threads,
                          pc'[u] \in UsesBlock, pc'[w] \in Allocating
                   PROVE  ib'[w].block # ib'[u].block
        BY Zenon DEF Distinct
      <3>1. u # t /\ w # t /\ torn # VBlocks
        BY Zenon, <1>0, <2>0 DEF UsesBlock, Allocating
      <3> QED
        BY Zenon, <2>0, <3>1 DEF Users, Distinct
    <2> QED
      BY Zenon, <2>1, <2>2, <2>3, <2>4, <2>5 DEF Users
  <1>2. ASSUME NEW t \in Threads, FindBlockDoes(t) PROVE Users'
    <2>0. /\ UNCHANGED << trees, torn >> /\ pc'[t] \in {"alloc", "findsum"} /\ ib[t].v \in VBlocks
          /\ ib'[t].v = ib[t].v /\ ib'[t].block = blocks[ib[t].v]
          /\ pc'[t] = "findsum" => blocks[ib[t].v] # None
          /\ \A u \in Threads \ {t} : pc'[u] = pc[u] /\ ib'[u] = ib[u]
      BY Zenon, <1>0, <1>2 DEF FindBlockDoes, Locs, LocalsAt
    <2>1. Doomed'
      BY ZenonT(30), <1>0, <1>2, SetAssumption
      DEF Users, Doomed, LocalsAt, UsesBlock, UsesSum, Allocating, Tears, FindBlockDoes,
          Locs, trees, clus, rest
    <2>2. Alone'
      <3>1. /\ ib'[t].v \in {ib[t].v, None} /\ torn \subseteq torn'
            /\ \A u \in Threads \ {t} : ib'[u] = ib[u]
        BY Zenon, <1>2 DEF FindBlockDoes, Locs
      <3> QED
        BY Zenon, <3>1, SetAssumption DEF Users, Alone
    <2>3. Shared'
      BY <1>0, <1>2, SetAssumption
      DEF Users, Shared, LocalsAt, UsesBlock, UsesSum, Allocating, Tears, FindBlockDoes,
          Locs, trees, clus, rest
    <2>4. Worked'
      <3> SUFFICES ASSUME torn' # VBlocks, NEW u \in Threads, pc'[u] \in UsesBlock PROVE Works(u)'
        BY Zenon DEF Worked
      <3>1. CASE u = t
        BY <1>0, <2>0, <3>1 DEF OInv, Named, Works, UsesBlock, trees
      <3>2. CASE u # t
        BY <2>0, <3>2 DEF Users, Worked, Works, trees
      <3> QED
        BY Zenon, <3>1, <3>2
    <2>5. Distinct'
      <3>1. \A u \in Threads : pc[u] \in Allocating => Unnamed(ib[u].block)
        BY ZenonT(30) DEF OInv, Private, Owned, OwnsBlock
      <3> QED
        BY <2>0, <3>1 DEF Users, Distinct, Unnamed, UsesBlock, Allocating, trees
    <2> QED
      BY Zenon, <2>1, <2>2, <2>3, <2>4, <2>5 DEF Users
  <1>3. ASSUME NEW t \in Threads, FindSumDoes(t) PROVE Users'
    <2>1. Doomed'
      BY Zenon, <1>0, <1>3, SetAssumption
      DEF Users, Doomed, LocalsAt, UsesBlock, UsesSum, Allocating, Tears, FindSumDoes,
          Locs, trees, clus, rest
    <2>2. Alone'
      BY <1>0, <1>3, SetAssumption DEF Users, Alone, FindSumDoes, Locs
    <2>3. Shared'
      BY Zenon, <1>0, <1>3, SetAssumption
      DEF Users, Shared, LocalsAt, UsesBlock, UsesSum, Allocating, Tears, FindSumDoes,
          Locs, trees, clus, rest
    <2>4. Worked'
      <3>1. /\ pc'[t] \in UsesBlock => pc[t] \in UsesBlock
            /\ ib'[t].v = ib[t].v /\ ib'[t].block = ib[t].block /\ UNCHANGED << trees, torn >>
            /\ \A u \in Threads \ {t} : pc'[u] = pc[u] /\ ib'[u] = ib[u]
        BY Zenon, <1>3 DEF FindSumDoes, Locs, UsesBlock
      <3>2. ASSUME torn # VBlocks, NEW u \in Threads, pc'[u] \in UsesBlock PROVE Works(u)'
        <4>1. Works(u)
          BY Zenon, <3>1, <3>2 DEF Users, Worked
        <4>2. ib'[u].v = ib[u].v /\ ib'[u].block = ib[u].block
          BY Zenon, <3>1
        <4> QED
          BY Zenon, <3>1, <4>1, <4>2 DEF Works, trees
      <3> QED
        BY Zenon, <3>1, <3>2 DEF Worked
    <2>5. Distinct'
      BY <1>0, <1>3, SetAssumption
      DEF Users, Distinct, LocalsAt, UsesBlock, UsesSum, Allocating, Tears, FindSumDoes,
          Locs, trees, clus, rest
    <2> QED
      BY Zenon, <2>1, <2>2, <2>3, <2>4, <2>5 DEF Users
  <1>4. ASSUME NEW t \in Threads, OpenDoes(t) PROVE Users'
    <2>1. Quiet
      BY Zenon, <1>0, <1>4, SetAssumption
      DEF Quiet, Users, Doomed, UsesBlock, UsesSum, Allocating, OpenDoes, Goes, Ends, Locs,
          trees
    <2> QED
      BY Zenon, <2>1, QuietUsers DEF OInv
  <1>5. ASSUME NEW t \in Threads, AllocBlockDoes(t) PROVE Users'
    <2>1. Doomed'
      BY Zenon, <1>0, <1>5, SetAssumption
      DEF Users, Doomed, LocalsAt, UsesBlock, UsesSum, Allocating, Tears, AllocBlockDoes,
          Clears, Ends, Locs, clus, rest
    <2>2. Alone'
      <3>1. /\ ib'[t].v \in {ib[t].v, None} /\ torn \subseteq torn'
            /\ \A u \in Threads \ {t} : ib'[u] = ib[u]
        BY Zenon, <1>5 DEF AllocBlockDoes, Ends, Locs
      <3> QED
        BY Zenon, <3>1, SetAssumption DEF Users, Alone
    <2>3. Shared'
      BY Zenon, <1>0, <1>5, SetAssumption
      DEF Users, Shared, UsesSum, Tears, AllocBlockDoes, Clears, Ends, Locs
    <2>4. Worked'
      <3>1. /\ pc'[t] \notin UsesBlock /\ UNCHANGED << blocks, torn >> /\ marked \subseteq marked'
            /\ \A u \in Threads \ {t} : pc'[u] = pc[u] /\ ib'[u] = ib[u]
        BY Zenon, <1>5 DEF AllocBlockDoes, Clears, Ends, Locs, UsesBlock
      <3> QED
        BY Zenon, <3>1 DEF Users, Worked, Works
    <2>5. Distinct'
      <3>1. torn # VBlocks => \A u \in Threads : pc[u] \in UsesBlock => ib[u].block \in marked
        BY Zenon DEF Users, Worked, Works
      <3> QED
        BY <3>1, <1>5
        DEF Users, Distinct, UsesBlock, Allocating, AllocBlockDoes, Clears, Ends, Locs
    <2> QED
      BY Zenon, <2>1, <2>2, <2>3, <2>4, <2>5 DEF Users
  <1>6. ASSUME NEW t \in Threads, SumAllocDoes(t) PROVE Users'
    <2>1. Quiet
      BY Zenon, <1>0, <1>6, SetAssumption
      DEF Quiet, Users, Doomed, LocalsAt, UsesBlock, UsesSum, Allocating, SumAllocDoes,
          Clears, Goes, Locs, clus, rest
    <2> QED
      BY Zenon, <2>1, QuietUsers DEF OInv
  <1>7. ASSUME NEW t \in Threads, SumInsertDoes(t) PROVE Users'
    <2>1. Doomed'
      BY Zenon, <1>0, <1>7, SetAssumption
      DEF Users, Doomed, LocalsAt, UsesBlock, UsesSum, Allocating, Tears, SumInsertDoes,
          Goes, Locs, clus, rest
    <2>2. Alone'
      BY <1>0, <1>7, SetAssumption DEF Users, Alone, SumInsertDoes, Goes, Locs
    <2>3. Shared'
      BY <1>0, <1>7, SetAssumption
      DEF Users, Shared, LocalsAt, UsesBlock, UsesSum, Allocating, Tears, SumInsertDoes, Goes,
          Locs
    <2>4. Worked'
      BY <1>0, <1>7, SetAssumption
      DEF Users, Worked, Works, UsesBlock, Tears, SumInsertDoes, Goes, Locs
    <2>5. Distinct'
      BY <1>0, <1>7, SetAssumption
      DEF Users, Distinct, LocalsAt, UsesBlock, UsesSum, Allocating, Tears, SumInsertDoes,
          Goes, Locs, clus, rest
    <2> QED
      BY Zenon, <2>1, <2>2, <2>3, <2>4, <2>5 DEF Users
  <1>8. ASSUME NEW t \in Threads, InsertDoes(t) PROVE Users'
    <2>0. /\ UNCHANGED << sums, marked, torn, ib >> /\ pc[t] = "insert" /\ ib[t].v \in VBlocks
          /\ \A u \in Threads \ {t} : pc'[u] = pc[u]
          /\ \/ /\ blocks[ib[t].v] = None /\ pc'[t] = "sum"
                /\ blocks' = [blocks EXCEPT ![ib[t].v] = ib[t].block]
             \/ pc'[t] = "undo" /\ UNCHANGED blocks
      BY Zenon, <1>0, <1>8 DEF InsertDoes, Goes, LocalsAt
    <2>a. ib[t].block \in marked /\ Unnamed(ib[t].block)
      BY Zenon, <2>0 DEF OInv, Private, Owned, OwnsBlock, Allocating
    <2>1. Doomed'
      BY Zenon, <1>0, <1>8, SetAssumption
      DEF Users, Doomed, LocalsAt, UsesBlock, UsesSum, Allocating, Tears, InsertDoes, Goes,
          clus, rest
    <2>2. Alone'
      BY Zenon, <1>0, <1>8, SetAssumption DEF Users, Alone, InsertDoes, Goes
    <2>3. Shared'
      BY Zenon, <1>0, <1>8, SetAssumption
      DEF Users, Shared, LocalsAt, UsesBlock, UsesSum, Allocating, Tears, InsertDoes, Goes,
          clus, rest
    <2>4. Worked'
      <3> SUFFICES ASSUME torn' # VBlocks, NEW u \in Threads, pc'[u] \in UsesBlock PROVE Works(u)'
        BY Zenon DEF Worked
      <3>1. CASE u = t
        BY Zenon, <1>0, <2>0, <2>a, <3>1 DEF Works, Unnamed, UsesBlock
      <3>2. CASE u # t
        <4>1. Works(u) /\ ib[u].block # ib[t].block
          BY Zenon, <2>0, <3>2 DEF Users, Worked, Distinct, Allocating
        <4>2. ib[u].v \notin torn => ib[u].v # ib[t].v
          BY Zenon, <2>0, <3>2 DEF Users, Alone
        <4>3. ib[u].v \in VBlocks
          BY Zenon, <1>0, <2>0, <3>2 DEF LocalsAt, UsesBlock
        <4> QED
          BY <1>0, <2>0, <3>2, <4>1, <4>2, <4>3 DEF Works
      <3> QED
        BY Zenon, <3>1, <3>2
    <2>5. Distinct'
      <3>1. \A u \in Threads \ {t} : pc[u] \in Allocating => ib[u].block # ib[t].block
        BY <2>0 DEF OInv, Apart, Owned, OwnsBlock, Allocating
      <3> QED
        BY <2>0, <3>1 DEF Users, Distinct, UsesBlock, Allocating
    <2> QED
      BY Zenon, <2>1, <2>2, <2>3, <2>4, <2>5 DEF Users
  <1>9. ASSUME NEW t \in Threads, UndoSumDoes(t) PROVE Users'
    <2>1. Doomed'
      BY Zenon, <1>0, <1>9, SetAssumption
      DEF Users, Doomed, LocalsAt, UsesBlock, UsesSum, Allocating, Tears, UndoSumDoes,
          Goes, clus, rest
    <2>2. Alone'
      BY Zenon, <1>0, <1>9, SetAssumption
      DEF Users, Alone, LocalsAt, UsesBlock, UsesSum, Allocating, Tears, UndoSumDoes, Goes,
          clus, rest
    <2>3. Shared'
      <3>1. ib[t].sumIn = TRUE => sums = ib[t].sum
        BY Zenon, <1>9 DEF OInv, Undoable, MayUndoSum, UndoSumDoes
      <3> QED
        BY <1>0, <3>1, <1>9 DEF Users, Shared, UsesSum, UndoSumDoes, Goes, Tears
    <2>4. Worked'
      BY Zenon, <1>0, <1>9, SetAssumption
      DEF Users, Worked, Works, LocalsAt, UsesBlock, UsesSum, Allocating, Tears,
          UndoSumDoes, Goes, clus, rest
    <2>5. Distinct'
      BY <1>0, <1>9, SetAssumption
      DEF Users, Distinct, LocalsAt, UsesBlock, UsesSum, Allocating, Tears, UndoSumDoes,
          Goes, clus, rest
    <2> QED
      BY Zenon, <2>1, <2>2, <2>3, <2>4, <2>5 DEF Users
  <1>10. ASSUME NEW t \in Threads, UndoFreeDoes(t) PROVE Users'
    <2>1. Doomed'
      BY ZenonT(30), <1>0, <1>10, SetAssumption
      DEF Users, Doomed, LocalsAt, UsesBlock, UsesSum, Allocating, Tears, UndoFreeDoes,
          Frees, Ends, Locs, clus, rest
    <2>2. Alone'
      <3>1. /\ ib'[t].v \in {ib[t].v, None} /\ torn \subseteq torn'
            /\ \A u \in Threads \ {t} : ib'[u] = ib[u]
        BY Zenon, <1>10 DEF UndoFreeDoes, Frees, Tears, Ends, Locs
      <3> QED
        BY Zenon, <3>1, SetAssumption DEF Users, Alone
    <2>3. Shared'
      BY <1>0, <1>10, SetAssumption
      DEF Users, Shared, LocalsAt, UsesBlock, UsesSum, Allocating, Tears, UndoFreeDoes,
          Frees, Ends, Locs, clus, rest
    <2>4. Worked'
      <3> SUFFICES ASSUME torn' # VBlocks, NEW u \in Threads, pc'[u] \in UsesBlock PROVE Works(u)'
        BY Zenon DEF Worked
      <3>1. u # t /\ torn' = torn /\ UNCHANGED << blocks, sums >> /\ ib'[u] = ib[u] /\ pc'[u] = pc[u]
        BY Zenon, <1>10 DEF UndoFreeDoes, Frees, Ends, Locs, UsesBlock
      <3>2. Works(u) /\ ib[u].block \in Blocks
        BY Zenon, <1>0, <3>1 DEF Users, Worked, LocalsAt
      <3>3. ib[u].block \in marked'
        BY ZenonT(30), <3>1, <3>2, <1>10, SetAssumption DEF Works, UndoFreeDoes, Frees
      <3> QED
        BY Zenon, <3>1, <3>2, <3>3 DEF Works
    <2>5. Distinct'
      BY <1>0, <1>10, SetAssumption
      DEF Users, Distinct, UsesBlock, UsesSum, Allocating, Tears, UndoFreeDoes, Frees, Ends,
          Locs
    <2> QED
      BY Zenon, <2>1, <2>2, <2>3, <2>4, <2>5 DEF Users
  <1>11. ASSUME NEW t \in Threads, WriteDoes(t) PROVE Users'
    <2>1. Quiet
      BY Zenon, <1>0, <1>11, SetAssumption
      DEF Quiet, Users, Doomed, LocalsAt, UsesBlock, UsesSum, Allocating, WriteDoes, Locs,
          trees, rest
    <2> QED
      BY Zenon, <2>1, QuietUsers DEF OInv
  <1>12. ASSUME NEW t \in Threads, SumUpDoes(t) PROVE Users'
    <2>1. Quiet
      BY Zenon, <1>0, <1>12, SetAssumption
      DEF Quiet, Users, Doomed, LocalsAt, UsesBlock, UsesSum, Allocating, SumUpDoes, Locs,
          trees, clus, rest
    <2> QED
      BY Zenon, <2>1, QuietUsers DEF OInv
  <1>13. ASSUME NEW t \in Threads, StoreSumDoes(t) PROVE Users'
    <2>1. Quiet
      BY Zenon, <1>0, <1>13, SetAssumption
      DEF Quiet, Users, Doomed, LocalsAt, UsesBlock, UsesSum, Allocating, StoreSumDoes,
          Goes, trees, rest
    <2> QED
      BY Zenon, <2>1, QuietUsers DEF OInv
  <1>14. ASSUME NEW t \in Threads, SyncDataDoes(t) PROVE Users'
    <2>1. Quiet
      BY Zenon, <1>0, <1>14, SetAssumption
      DEF Quiet, Users, Doomed, LocalsAt, UsesBlock, UsesSum, Allocating, SyncDataDoes,
          Goes, trees, rest
    <2> QED
      BY Zenon, <2>1, QuietUsers DEF OInv
  <1>15. ASSUME NEW t \in Threads, SyncSumDoes(t) PROVE Users'
    <2>1. Quiet
      BY <1>0, <1>15, SetAssumption
      DEF Quiet, Users, Doomed, UsesBlock, UsesSum, Allocating, SyncSumDoes, Goes, Ends, Locs,
          trees
    <2> QED
      BY Zenon, <2>1, QuietUsers DEF OInv
  <1>16. ASSUME NEW t \in Threads, SyncFailsDoes(t) PROVE Users'
    <2>1. Quiet
      BY <1>0, <1>16, SetAssumption
      DEF Quiet, Users, Doomed, LocalsAt, UsesBlock, UsesSum, Allocating, SyncFailsDoes,
          Goes, Ends, Locs, trees, clus, rest
    <2> QED
      BY Zenon, <2>1, QuietUsers DEF OInv
  <1>17. ASSUME NEW t \in Threads, EraseDoes(t) PROVE Users'
    <2>1. Doomed'
      BY Zenon, <1>0, <1>17, SetAssumption
      DEF Users, Doomed, LocalsAt, UsesBlock, UsesSum, Allocating, Tears, EraseDoes, Goes,
          clus, rest
    <2>2. Alone'
      BY Zenon, <1>0, <1>17, SetAssumption
      DEF Users, Alone, LocalsAt, UsesBlock, UsesSum, Allocating, Tears, EraseDoes, Goes,
          clus, rest
    <2>3. Shared'
      BY Zenon, <1>0, <1>17, SetAssumption
      DEF Users, Shared, LocalsAt, UsesBlock, UsesSum, Allocating, Tears, EraseDoes, Goes,
          clus, rest
    <2>4. Worked'
      <3> SUFFICES ASSUME torn' # VBlocks, NEW u \in Threads, pc'[u] \in UsesBlock PROVE Works(u)'
        BY Zenon DEF Worked
      <3>1. u # t /\ torn' = torn /\ UNCHANGED marked /\ ib'[u] = ib[u] /\ pc'[u] = pc[u]
        BY Zenon, <1>17 DEF EraseDoes, Goes, UsesBlock
      <3>2. Works(u) /\ ib[t].v \in torn
        BY Zenon, <3>1, <1>17 DEF Users, Worked, Doomed, EraseDoes
      <3> QED
        BY <1>0, <3>1, <3>2, <1>17 DEF Works, EraseDoes, LocalsAt, UsesBlock
    <2>5. Distinct'
      BY <1>0, <1>17, SetAssumption
      DEF Users, Distinct, LocalsAt, UsesBlock, UsesSum, Allocating, Tears, EraseDoes,
          Goes, clus, rest
    <2> QED
      BY Zenon, <2>1, <2>2, <2>3, <2>4, <2>5 DEF Users
  <1>18. ASSUME NEW t \in Threads, EraseFreeDoes(t) PROVE Users'
    <2>1. Doomed'
      BY Zenon, <1>0, <1>18, SetAssumption
      DEF Users, Doomed, LocalsAt, UsesBlock, UsesSum, Allocating, Tears, EraseFreeDoes,
          Frees, Ends, Locs, clus, rest
    <2>2. Alone'
      <3>1. /\ ib'[t].v \in {ib[t].v, None} /\ torn \subseteq torn'
            /\ \A u \in Threads \ {t} : ib'[u] = ib[u]
        BY Zenon, <1>18 DEF EraseFreeDoes, Frees, Tears, Ends, Locs
      <3> QED
        BY Zenon, <3>1, SetAssumption DEF Users, Alone
    <2>3. Shared'
      BY <1>0, <1>18, SetAssumption
      DEF Users, Shared, UsesSum, Tears, EraseFreeDoes, Frees, Ends, Locs
    <2>4. Worked'
      BY <1>0, <1>18, SetAssumption
      DEF Users, Worked, Works, UsesBlock, Tears, EraseFreeDoes, Frees, Ends, Locs
    <2>5. Distinct'
      BY <1>0, <1>18, SetAssumption
      DEF Users, Distinct, LocalsAt, UsesBlock, UsesSum, Allocating, Tears, EraseFreeDoes,
          Frees, Ends, Locs, clus, rest
    <2> QED
      BY Zenon, <2>1, <2>2, <2>3, <2>4, <2>5 DEF Users
  <1>19. ASSUME CrashDoes PROVE Users'
    <2>1. Quiet
      BY <1>0, <1>19, SetAssumption
      DEF Quiet, UsesBlock, UsesSum, Allocating, NoIb, CrashDoes, Tears, trees
    <2> QED
      BY Zenon, <2>1, QuietUsers DEF OInv
  <1>20. CASE UNCHANGED vars
    BY <1>0, <1>20 DEF Users, Doomed, Alone, Shared, Worked, Works, Distinct, vars
  <1> QED
    BY Zenon, <1>1, <1>2, <1>3, <1>4, <1>5, <1>6, <1>7, <1>8, <1>9, <1>10, <1>11,
       <1>12, <1>13, <1>14, <1>15, <1>16, <1>17, <1>18, <1>19, <1>20 DEF Does

-----------------------------------------------------------------------------
(* The contents of blocks, and the theorems.                               *)

\* A step that changes nothing of a block leaves it whole.
LEMMA StillWhole ==
  ASSUME NEW v \in VBlocks, Whole(v), Still(v)
  PROVE  Whole(v)'
PROOF
  <1>1. CASE blocks[v] = None
    BY Zenon, <1>1 DEF Still, Whole
  <1>2. CASE blocks[v] # None
    <2>1. (\A t \in Threads : ~Writes(t, v)') => Settled(v)'
      BY Zenon, <1>2 DEF Still, Whole, Settled
    <2>2. \A t \in Threads : Writes(t, v)' => Stage(t, v)'
      BY <1>2 DEF Still, Whole, Stage
    <2> QED
      BY Zenon, <1>2, <2>1, <2>2 DEF Still, Whole
  <1> QED
    BY Zenon, <1>1, <1>2

\* Every step leaves whole every block that is not torn.
LEMMA ConsistentStep == OInv /\ Users /\ Consistent /\ Does => Consistent'
PROOF
  <1> SUFFICES ASSUME OInv, Users, Consistent, Does, NEW v \in VBlocks \ torn' PROVE Whole(v)'
    BY ZenonT(30) DEF Consistent
  <1>a. torn \subseteq torn'
    BY ZenonT(30)
    DEF Does, StartDoes, FindBlockDoes, FindSumDoes, OpenDoes, AllocBlockDoes, SumAllocDoes,
           SumInsertDoes, InsertDoes, UndoSumDoes, UndoFreeDoes, WriteDoes, SumUpDoes,
           StoreSumDoes, SyncDataDoes, SyncSumDoes, SyncFailsDoes, EraseDoes, EraseFreeDoes,
           CrashDoes, Frees, Tears, vars
  <1>0. /\ \A u \in Threads : LocalsAt(pc[u], ib[u]) /\ ib[u] \in Ib
        /\ blocks \in [VBlocks -> Blocks \cup {None}] /\ sums \in Blocks \cup {None}
        /\ marked \subseteq Blocks /\ torn \subseteq VBlocks /\ data \in [Blocks -> SUBSET Threads]
        /\ dataDisk \in [Blocks -> SUBSET Threads] /\ acked \in [VBlocks -> SUBSET Threads]
        /\ sum \in [Blocks -> [VBlocks -> Sum]] /\ sumDisk \in [Blocks -> [VBlocks -> Sum]]
        /\ torn # VBlocks /\ v \notin torn /\ Whole(v)
    BY Zenon, <1>a DEF OInv, Locals, Types, Consistent
  <1>b. ASSUME NEW t \in Threads, pc[t] \in Writing \cup {"write"}, ib[t].v = v
        PROVE  /\ blocks[v] = ib[t].block /\ ib[t].block \in Blocks /\ blocks[v] # None
               /\ sums = ib[t].sum /\ sums \in Blocks
    <2>1. pc[t] \in UsesBlock /\ pc[t] \in UsesSum
      BY Zenon, <1>b DEF Writing, UsesBlock, UsesSum
    <2>2. ib[t].block \in Blocks /\ ib[t].sum \in Blocks
      BY Zenon, <1>0, <2>1 DEF LocalsAt
    <2>3. sums = ib[t].sum
      BY Zenon, <1>0, <2>1 DEF Users, Shared
    <2>4. blocks[v] = ib[t].block
      BY Zenon, <1>0, <1>b, <2>1 DEF Users, Worked, Works
    <2> QED
      BY Zenon, <2>2, <2>3, <2>4, SetAssumption
  <1>c. ASSUME NEW t \in Threads, ib[t].v = v PROVE \A u \in Threads \ {t} : ib[u].v # v
    BY Zenon, <1>0, <1>c DEF Users, Alone
  <1>1. ASSUME NEW t \in Threads, StartDoes(t) PROVE Whole(v)'
    <2>1. Still(v)
      <3>1. /\ pc[t] \notin Writing /\ pc'[t] \notin Writing /\ UNCHANGED << trees, clus, rest >>
            /\ \A u \in Threads \ {t} : pc'[u] = pc[u] /\ ib'[u] = ib[u]
        BY Zenon, <1>1 DEF StartDoes, Locs, Writing
      <3> QED
        BY Zenon, <3>1 DEF Still, Writes, trees, clus, rest
    <2> QED
      BY Zenon, <1>0, <2>1, StillWhole
  <1>2. ASSUME NEW t \in Threads, FindBlockDoes(t) PROVE Whole(v)'
    <2>1. Still(v)
      <3>1. /\ pc[t] \notin Writing /\ pc'[t] \notin Writing /\ UNCHANGED << trees, clus, rest >>
            /\ \A u \in Threads \ {t} : pc'[u] = pc[u] /\ ib'[u] = ib[u]
        BY Zenon, <1>2 DEF FindBlockDoes, Locs, Writing
      <3> QED
        BY Zenon, <3>1 DEF Still, Writes, trees, clus, rest
    <2> QED
      BY Zenon, <1>0, <2>1, StillWhole
  <1>3. ASSUME NEW t \in Threads, FindSumDoes(t) PROVE Whole(v)'
    <2>1. Still(v)
      <3>1. /\ pc[t] \notin Writing /\ pc'[t] \notin Writing /\ UNCHANGED << trees, clus, rest >>
            /\ \A u \in Threads \ {t} : pc'[u] = pc[u] /\ ib'[u] = ib[u]
        BY Zenon, <1>3 DEF FindSumDoes, Locs, Writing
      <3> QED
        BY Zenon, <3>1 DEF Still, Writes, trees, clus, rest
    <2> QED
      BY Zenon, <1>0, <2>1, StillWhole
  <1>4. ASSUME NEW t \in Threads, OpenDoes(t) PROVE Whole(v)'
    <2>1. Still(v)
      BY <1>0, <1>4, SetAssumption
      DEF Still, Writes, Writing, LocalsAt, UsesBlock, UsesSum, Allocating, Tears,
          OpenDoes, Goes, Ends, Locs, trees, clus, rest
    <2> QED
      BY Zenon, <1>0, <2>1, StillWhole
  <1>5. ASSUME NEW t \in Threads, AllocBlockDoes(t) PROVE Whole(v)'
    <2>1. blocks[v] # None => blocks[v] \in marked /\ sums \in marked
      BY Zenon, <1>0 DEF OInv, Named, Whole
    <2>2. blocks[v] # None => /\ data'[blocks[v]] = data[blocks[v]]
                              /\ dataDisk'[blocks[v]] = dataDisk[blocks[v]]
                              /\ sum'[sums][v] = sum[sums][v]
                              /\ sumDisk'[sums][v] = sumDisk[sums][v]
      BY Zenon, <1>0, <2>1, <1>5 DEF AllocBlockDoes, Clears, clus
    <2>3. \A u \in Threads : /\ Writes(u, v)' <=> Writes(u, v)
                             /\ Writes(u, v) => pc'[u] = pc[u] /\ ib'[u] = ib[u]
      BY Zenon, <1>5 DEF Writes, Writing, AllocBlockDoes, Ends, Locs
    <2>4. Still(v)
      BY Zenon, <2>2, <2>3, <1>5 DEF Still, AllocBlockDoes, rest
    <2> QED
      BY Zenon, <1>0, <2>4, StillWhole
  <1>6. ASSUME NEW t \in Threads, SumAllocDoes(t) PROVE Whole(v)'
    <2>1. blocks[v] # None => blocks[v] \in marked /\ sums \in marked
      BY Zenon, <1>0 DEF OInv, Named, Whole
    <2>2. blocks[v] # None => /\ data'[blocks[v]] = data[blocks[v]]
                              /\ dataDisk'[blocks[v]] = dataDisk[blocks[v]]
                              /\ sum'[sums][v] = sum[sums][v]
                              /\ sumDisk'[sums][v] = sumDisk[sums][v]
      BY Zenon, <1>0, <2>1, <1>6 DEF SumAllocDoes, Clears, clus
    <2>3. \A u \in Threads : /\ Writes(u, v)' <=> Writes(u, v)
                             /\ Writes(u, v) => pc'[u] = pc[u] /\ ib'[u] = ib[u]
      BY Zenon, <1>6 DEF Writes, Writing, SumAllocDoes, Goes, Locs
    <2>4. Still(v)
      BY Zenon, <2>2, <2>3, <1>6 DEF Still, SumAllocDoes, rest
    <2> QED
      BY Zenon, <1>0, <2>4, StillWhole
  <1>7. ASSUME NEW t \in Threads, SumInsertDoes(t) PROVE Whole(v)'
    <2>1. blocks[v] # None => sums # None
      BY Zenon, <1>0 DEF Whole
    <2>2. Still(v)
      BY Zenon, <1>0, <2>1, <1>7 DEF Still, Writes, Writing, SumInsertDoes, Goes, Locs, clus, rest
    <2> QED
      BY Zenon, <1>0, <2>2, StillWhole
  <1>8. ASSUME NEW t \in Threads, InsertDoes(t) PROVE Whole(v)'
    <2>1. CASE ib[t].v # v
      <3>1. Still(v)
        BY <1>0, <2>1, <1>8
        DEF Still, Writes, Writing, InsertDoes, Goes, LocalsAt, clus, rest
      <3> QED
        BY Zenon, <1>0, <3>1, StillWhole
    <2>2. CASE ib[t].v = v
      <3>1. CASE Goes(t, "undo") /\ UNCHANGED blocks
        <4>1. Still(v)
          BY Zenon, <1>0, <3>1, <1>8 DEF Still, Writes, Writing, InsertDoes, Goes, clus, rest
        <4> QED
          BY Zenon, <1>0, <4>1, StillWhole
      <3>2. CASE /\ blocks[v] = None /\ Goes(t, "sum")
                 /\ blocks' = [blocks EXCEPT ![v] = ib[t].block]
        <4>1. /\ sums # None /\ sums' = sums /\ acked'[v] = {} /\ blocks'[v] # None
              /\ ib[t].new = TRUE
          BY <1>0, <3>2, <1>8, SetAssumption
          DEF Users, Shared, Whole, LocalsAt, UsesSum, Allocating, InsertDoes, rest
        <4>2. \A u \in Threads \ {t} : ~Writes(u, v)'
          BY Zenon, <1>0, <2>2, <3>2 DEF Users, Alone, Writes, Goes
        <4>3. Writes(t, v)' /\ Stage(t, v)'
          BY Zenon, <2>2, <3>2, <4>1 DEF Writes, Writing, Stage, Goes
        <4> QED
          BY ZenonT(30), <4>1, <4>2, <4>3 DEF Whole
      <3> QED
        BY Zenon, <2>2, <3>1, <3>2, <1>8 DEF InsertDoes
    <2> QED
      BY ZenonT(30), <2>1, <2>2
  <1>9. ASSUME NEW t \in Threads, UndoSumDoes(t) PROVE Whole(v)'
    <2>1. Still(v)
      BY Zenon, <1>0, <1>9, SetAssumption
      DEF Still, Writes, Writing, LocalsAt, UsesBlock, UsesSum, Allocating, Tears,
          UndoSumDoes, Goes, clus, rest
    <2> QED
      BY Zenon, <1>0, <2>1, StillWhole
  <1>10. ASSUME NEW t \in Threads, UndoFreeDoes(t) PROVE Whole(v)'
    <2>1. Still(v)
      BY ZenonT(30), <1>0, <1>10, SetAssumption
      DEF Still, Writes, Writing, LocalsAt, UsesBlock, UsesSum, Allocating, Tears,
          UndoFreeDoes, Frees, Ends, Locs, clus, rest
    <2> QED
      BY Zenon, <1>0, <2>1, StillWhole
  <1>11. ASSUME NEW t \in Threads, WriteDoes(t) PROVE Whole(v)'
    <2>1. CASE ib[t].v # v
      <3>1. Still(v)
        <4>1. blocks[v] # ib[t].block
          BY ZenonT(30), <1>0, <2>1, <1>11 DEF Users, Worked, Works, UsesBlock, WriteDoes
        <4> QED
          BY <1>0, <2>1, <4>1, <1>11, SetAssumption
          DEF Still, Writes, Writing, LocalsAt, UsesBlock, UsesSum, Allocating, WriteDoes,
              Locs, trees, rest
      <3> QED
        BY Zenon, <1>0, <3>1, StillWhole
    <2>2. CASE ib[t].v = v
      <3>1. /\ blocks[v] = ib[t].block /\ ib[t].block \in Blocks /\ blocks[v] # None
            /\ sums = ib[t].sum /\ sums \in Blocks
        BY Zenon, <1>b, <1>11, <2>2 DEF WriteDoes, Writing
      <3>2. \A u \in Threads \ {t} : ~Writes(u, v)'
        BY Zenon, <1>c, <1>11, <2>2 DEF Writes, WriteDoes, Locs
      <3>3. Writes(t, v)' /\ Stage(t, v)'
        <4>1. pc'[t] = "sum" /\ ib'[t].v = v /\ t \in data'[blocks'[v]]
          BY Zenon, <1>0, <1>11, <2>2, <3>1 DEF WriteDoes, Locs, trees
        <4> QED
          BY Zenon, <4>1 DEF Writes, Writing, Stage
      <3>4. acked'[v] \subseteq data'[blocks'[v]] /\ acked'[v] \subseteq dataDisk'[blocks'[v]]
        BY <1>0, <2>2, <3>1, <1>11
        DEF Whole, Writes, Writing, Stage, WriteDoes, Locs, trees, rest
      <3>5. blocks'[v] = blocks[v] /\ sums' = sums
        BY SMTT(30), <1>11 DEF WriteDoes, Locs, trees, rest
      <3> QED
        BY ZenonT(30), <1>0, <3>1, <3>2, <3>3, <3>4, <3>5, SetAssumption DEF Whole
    <2> QED
      BY Zenon, <2>1, <2>2
  <1>12. ASSUME NEW t \in Threads, SumUpDoes(t) PROVE Whole(v)'
    <2>1. CASE ib[t].v # v
      <3>1. Still(v)
        BY <2>1, <1>12 DEF Still, Writes, Writing, SumUpDoes, Locs, trees, clus, rest
      <3> QED
        BY Zenon, <1>0, <3>1, StillWhole
    <2>2. CASE ib[t].v = v
      <3>1. /\ blocks[v] = ib[t].block /\ ib[t].block \in Blocks /\ blocks[v] # None
            /\ sums = ib[t].sum /\ sums \in Blocks
        BY Zenon, <1>b, <1>12, <2>2 DEF SumUpDoes, Writing
      <3>2. \A u \in Threads \ {t} : ~Writes(u, v)'
        BY Zenon, <1>c, <1>12, <2>2 DEF Writes, SumUpDoes, Locs
      <3>3. Writes(t, v)' /\ Stage(t, v)'
        <4>1. Stage(t, v)
          BY Zenon, <1>0, <1>12, <2>2, <3>1 DEF Whole, Writes, Writing, SumUpDoes
        <4>2. /\ pc'[t] = "store" /\ ib'[t].v = v /\ ib'[t].val = data[blocks[v]]
              /\ ib'[t].new = ib[t].new /\ data'[blocks'[v]] = data[blocks[v]]
          BY Zenon, <1>12, <2>2, <3>1 DEF SumUpDoes, Locs, trees, clus
        <4> QED
          BY Zenon, <4>1, <4>2 DEF Writes, Writing, Stage
      <3>4. acked'[v] \subseteq data'[blocks'[v]] /\ acked'[v] \subseteq dataDisk'[blocks'[v]]
        BY <1>0, <2>2, <3>1, <1>12
        DEF Whole, Writes, Writing, Stage, SumUpDoes, Locs, trees, clus, rest
      <3>5. blocks'[v] = blocks[v] /\ sums' = sums
        BY Zenon, <1>12 DEF SumUpDoes, Locs, trees, clus, rest
      <3> QED
        BY Zenon, <1>0, <3>1, <3>2, <3>3, <3>4, <3>5, SetAssumption DEF Whole
    <2> QED
      BY Zenon, <2>1, <2>2
  <1>13. ASSUME NEW t \in Threads, StoreSumDoes(t) PROVE Whole(v)'
    <2>1. CASE ib[t].v # v
      <3>1. Still(v)
        <4>1. blocks[v] # None => sum'[sums][v] = sum[sums][v]
          BY ZenonT(30), <1>0, <2>1, <1>13 DEF Whole, StoreSumDoes
        <4> QED
          BY Zenon, <1>0, <2>1, <4>1, <1>13
          DEF Still, Writes, Writing, StoreSumDoes, Goes, trees, rest
      <3> QED
        BY Zenon, <1>0, <3>1, StillWhole
    <2>2. CASE ib[t].v = v
      <3>1. /\ blocks[v] = ib[t].block /\ ib[t].block \in Blocks /\ blocks[v] # None
            /\ sums = ib[t].sum /\ sums \in Blocks
        BY Zenon, <1>b, <1>13, <2>2 DEF StoreSumDoes, Writing
      <3>2. \A u \in Threads \ {t} : ~Writes(u, v)'
        BY Zenon, <1>c, <1>13, <2>2 DEF Writes, StoreSumDoes, Goes
      <3>3. Writes(t, v)' /\ Stage(t, v)'
        <4>1. Stage(t, v)
          BY Zenon, <1>0, <1>13, <2>2, <3>1 DEF Whole, Writes, Writing, StoreSumDoes
        <4>2. /\ pc'[t] = "sync" /\ ib'[t] = ib[t] /\ pc[t] = "store"
              /\ data'[blocks'[v]] = data[blocks[v]] /\ sum'[sums'][v] = ib[t].val
          BY Zenon, <1>13, <2>2, <3>1 DEF StoreSumDoes, Goes, trees
        <4> QED
          BY Zenon, <2>2, <4>1, <4>2 DEF Writes, Writing, Stage
      <3>4. acked'[v] \subseteq data'[blocks'[v]] /\ acked'[v] \subseteq dataDisk'[blocks'[v]]
        BY Zenon, <1>0, <2>2, <3>1, <1>13
        DEF Whole, Writes, Writing, Stage, StoreSumDoes, Goes, trees, rest
      <3>5. blocks'[v] = blocks[v] /\ sums' = sums
        BY ZenonT(30), <1>13 DEF StoreSumDoes, Goes, trees, rest
      <3> QED
        BY Zenon, <1>0, <3>1, <3>2, <3>3, <3>4, <3>5, SetAssumption DEF Whole
    <2> QED
      BY Zenon, <2>1, <2>2
  <1>14. ASSUME NEW t \in Threads, SyncDataDoes(t) PROVE Whole(v)'
    <2>1. CASE ib[t].v # v
      <3>1. Still(v)
        <4>1. blocks[v] # ib[t].block
          BY ZenonT(30), <1>0, <2>1, <1>14 DEF Users, Worked, Works, UsesBlock, SyncDataDoes
        <4> QED
          BY <1>0, <2>1, <4>1, <1>14, SetAssumption
          DEF Still, Writes, Writing, LocalsAt, UsesBlock, UsesSum, Allocating,
              SyncDataDoes, Goes, trees, rest
      <3> QED
        BY Zenon, <1>0, <3>1, StillWhole
    <2>2. CASE ib[t].v = v
      <3>1. /\ blocks[v] = ib[t].block /\ ib[t].block \in Blocks /\ blocks[v] # None
            /\ sums = ib[t].sum /\ sums \in Blocks
        BY Zenon, <1>b, <1>14, <2>2 DEF SyncDataDoes, Writing
      <3>2. \A u \in Threads \ {t} : ~Writes(u, v)'
        BY Zenon, <1>c, <1>14, <2>2 DEF Writes, SyncDataDoes, Goes
      <3>3. Writes(t, v)' /\ Stage(t, v)'
        <4>1. Stage(t, v)
          BY Zenon, <1>0, <1>14, <2>2, <3>1 DEF Whole, Writes, Writing, SyncDataDoes
        <4>2. /\ pc'[t] = "syncsum" /\ ib'[t] = ib[t] /\ pc[t] = "sync"
              /\ data'[blocks'[v]] = data[blocks[v]] /\ sum'[sums'] = sum[sums]
              /\ dataDisk'[blocks'[v]] = data[blocks[v]]
          BY Zenon, <1>0, <1>14, <2>2, <3>1 DEF SyncDataDoes, Goes, trees
        <4> QED
          BY Zenon, <2>2, <4>1, <4>2 DEF Writes, Writing, Stage
      <3>4. acked'[v] \subseteq data'[blocks'[v]] /\ acked'[v] \subseteq dataDisk'[blocks'[v]]
        BY Zenon, <1>0, <2>2, <3>1, <1>14
        DEF Whole, Writes, Writing, Stage, SyncDataDoes, Goes, trees, rest
      <3>5. blocks'[v] = blocks[v] /\ sums' = sums
        BY Zenon, <1>14 DEF SyncDataDoes, Goes, trees, rest
      <3> QED
        BY Zenon, <1>0, <3>1, <3>2, <3>3, <3>4, <3>5, SetAssumption DEF Whole
    <2> QED
      BY Zenon, <2>1, <2>2
  <1>15. ASSUME NEW t \in Threads, SyncSumDoes(t) PROVE Whole(v)'
    <2>1. CASE ib[t].v # v
      <3>1. Still(v)
        <4>1. blocks[v] # None => sumDisk'[sums][v] \in {sumDisk[sums][v], sum[sums][v]}
          BY ZenonT(60), <1>0, <1>15, SetAssumption DEF Users, Shared, LocalsAt, UsesSum, SyncSumDoes
        <4> QED
          BY ZenonT(30), <1>0, <2>1, <4>1, <1>15
          DEF Still, Writes, Writing, SyncSumDoes, Goes, Ends, Locs, trees
      <3> QED
        BY Zenon, <1>0, <3>1, StillWhole
    <2>2. CASE ib[t].v = v
      <3>1. /\ blocks[v] = ib[t].block /\ ib[t].block \in Blocks /\ blocks[v] # None
            /\ sums = ib[t].sum /\ sums \in Blocks
        BY Zenon, <1>b, <1>15, <2>2 DEF SyncSumDoes, Writing
      <3>2. \A u \in Threads \ {t} : ~Writes(u, v)'
        BY Zenon, <1>c, <1>15, <2>2 DEF Writes, SyncSumDoes, Goes, Ends, Locs
      <3>3. /\ sum[sums][v] = data[blocks[v]] /\ dataDisk[blocks[v]] = data[blocks[v]]
            /\ ib[t].new = FALSE => t \in data[blocks[v]]
        BY Zenon, <1>0, <2>2, <3>1, <1>15 DEF Whole, Writes, Writing, Stage, SyncSumDoes
      <3>4. Settled(v)'
        BY ZenonT(30), <1>0, <2>2, <3>1, <3>3, <1>15 DEF Settled, SyncSumDoes, trees
      <3>5. acked'[v] \subseteq data'[blocks'[v]] /\ acked'[v] \subseteq dataDisk'[blocks'[v]]
        BY <1>0, <2>2, <3>1, <3>3, <1>15 DEF Whole, SyncSumDoes, trees
      <3>6. ~Writes(t, v)' /\ blocks'[v] = blocks[v] /\ sums' = sums
        BY Zenon, <1>15 DEF Writes, Writing, Goes, Ends, Locs, trees, SyncSumDoes
      <3> QED
        BY ZenonT(30), <1>0, <3>1, <3>2, <3>4, <3>5, <3>6, SetAssumption DEF Whole
    <2> QED
      BY Zenon, <2>1, <2>2
  <1>16. ASSUME NEW t \in Threads, SyncFailsDoes(t) PROVE Whole(v)'
    <2>1. ib[t].v # v
      BY ZenonT(30), <1>16 DEF SyncFailsDoes
    <2>2. Still(v)
      BY <1>0, <2>1, <1>16, SetAssumption
      DEF Still, Writes, Writing, SyncFailsDoes, Goes, Ends, Locs, trees, clus, rest
    <2> QED
      BY Zenon, <1>0, <2>2, StillWhole
  <1>17. ASSUME NEW t \in Threads, EraseDoes(t) PROVE Whole(v)'
    <2>1. ib[t].v # v
      BY Zenon, <1>0, <1>17 DEF Users, Doomed, EraseDoes
    <2>2. Still(v)
      BY Zenon, <1>0, <2>1, <1>17 DEF Still, Writes, Writing, EraseDoes, Goes, LocalsAt, clus, rest
    <2> QED
      BY Zenon, <1>0, <2>2, StillWhole
  <1>18. ASSUME NEW t \in Threads, EraseFreeDoes(t) PROVE Whole(v)'
    <2>1. Still(v)
      BY Zenon, <1>0, <1>18, SetAssumption
      DEF Still, Writes, Writing, LocalsAt, UsesBlock, UsesSum, Allocating, Tears,
          EraseFreeDoes, Frees, Ends, Locs, clus, rest
    <2> QED
      BY Zenon, <1>0, <2>1, StillWhole
  <1>19. ASSUME CrashDoes PROVE Whole(v)'
    <2>1. \A u \in Threads : ~Writes(u, v) /\ ~Writes(u, v)'
      BY ZenonT(30), <1>0, <1>19 DEF Writes, Writing, CrashDoes
    <2>2. Settled(v)' \/ blocks[v] = None
      BY Zenon, <1>0, <2>1, <1>19 DEF Whole, Settled, CrashDoes, trees
    <2> QED
      BY ZenonT(30), <1>0, <2>1, <2>2, <1>19 DEF Whole, CrashDoes, trees
  <1>20. CASE UNCHANGED vars
    BY Zenon, <1>0, <1>20 DEF Whole, Settled, Stage, Writes, vars
  <1> QED
    BY Zenon, <1>1, <1>2, <1>3, <1>4, <1>5, <1>6, <1>7, <1>8, <1>9, <1>10, <1>11,
       <1>12, <1>13, <1>14, <1>15, <1>16, <1>17, <1>18, <1>19, <1>20 DEF Does

-----------------------------------------------------------------------------
\* The object is empty at first: no key, no block in use and no put.
LEMMA InitIInv == Init => IInv
PROOF
  <1> SUFFICES ASSUME Init PROVE IInv
    BY Zenon
  <1>1. NoIb \in Ib /\ "idle" \in PCs /\ Junk \in Sum
    BY Zenon DEF NoIb, Ib, PCs, Junk, Sum
  <1>2. \A t \in Threads : pc[t] = "idle" /\ ib[t] = NoIb
    BY Zenon DEF Init
  <1>3. Types
    BY Zenon, <1>1 DEF Init, Types
  <1>4. Locals
    <2>1. NoIb.sumNew = FALSE /\ NoIb.sumIn = FALSE
      BY Zenon DEF NoIb
    <2>2. LocalsAt("idle", NoIb)
      BY Zenon, <2>1 DEF LocalsAt, UsesBlock, UsesSum, Allocating
    <2> QED
      BY Zenon, <1>2, <2>2 DEF Locals
  <1>5. \A t \in Threads : Owned(t) = {}
    BY Zenon, <1>2 DEF Owned, OwnsBlock, OwnsSum, Allocating
  <1>6. Named /\ Private /\ NoneLost
    BY Zenon, <1>5 DEF Init, Named, Private, NoneLost
  <1>7. Apart
    BY Zenon, <1>2, <1>5 DEF Apart, Split, OwnsBlock, Allocating
  <1>8. Undoable /\ Erasable
    BY ZenonT(30), <1>2 DEF Undoable, MayUndoSum, Erasable, MayErase, Fresh
  <1>9. Users
    <2>1. \A t \in Threads : ib[t].v \notin VBlocks
      <3>1. NoIb.v = None
        BY Zenon DEF NoIb
      <3> QED
        BY Zenon, <1>2, <3>1, SetAssumption
    <2>2. Alone
      BY Zenon, <2>1 DEF Alone
    <2>3. Doomed /\ Shared /\ Worked /\ Distinct
      BY Zenon, <1>2 DEF Doomed, Shared, Worked, Distinct, UsesSum, UsesBlock
    <2> QED
      BY Zenon, <2>2, <2>3 DEF Users
  <1>10. Consistent
    BY Zenon DEF Init, Consistent, Whole
  <1> QED
    BY Zenon, <1>3, <1>4, <1>6, <1>7, <1>8, <1>9, <1>10 DEF IInv, OInv

\* The inductive invariant holds in every reachable state: whatever puts run at
\* the same time and whichever step fails or is cut off by a loss of power, each
\* block of the device has one owner, and a block of the object that is not torn
\* has its data, its checksum and their copies in step.
THEOREM Invariance == Spec => []IInv
PROOF
  <1>1. IInv /\ [Next]_vars => IInv'
    <2> SUFFICES ASSUME IInv, [Next]_vars PROVE IInv'
      BY Zenon
    <2>1. OInv /\ Users /\ Consistent /\ Does
      BY Zenon, StepDoes DEF IInv, OInv
    <2> QED
      BY Zenon, <2>1, OInvStep, UsersStep, ConsistentStep DEF IInv
  <1> QED
    BY <1>1, InitIInv, PTL DEF Spec

\* No block of the device serves two keys of the trees, none that is named is
\* free, and without a loss of power none is left behind
\* (nkfs_inode_block_alloc, nkfs_inode_block_erase).
THEOREM OwnersSound == Spec => []BlocksSound
PROOF
  <1>1. IInv => BlocksSound
    <2> SUFFICES ASSUME IInv PROVE BlocksSound
      BY Zenon
    <2>0. Types /\ Named /\ NoneLost
      BY Zenon DEF IInv, OInv
    <2> DEFINE named == { blocks[v] : v \in VBlocks } \cup {sums}
               held == UNION { {ib[t].block, ib[t].sum} : t \in Threads }
    <2>1. named \ {None} \subseteq marked
      BY <2>0 DEF Named
    <2>2. \A t \in Threads : Owned(t) \subseteq held
      BY DEF Owned
    <2>3. ASSUME ~lost PROVE marked \subseteq named \cup held
      <3>1. lost = FALSE
        BY Zenon, <2>0, <2>3 DEF Types
      <3> SUFFICES ASSUME NEW b \in marked PROVE b \in named \cup held
        BY Zenon
      <3>2. CASE ~Unnamed(b)
        BY Zenon, <3>2 DEF Unnamed
      <3>3. CASE Unnamed(b)
        BY Zenon, <2>0, <2>2, <3>1, <3>3 DEF NoneLost
      <3> QED
        BY Zenon, <3>2, <3>3
    <2> QED
      BY Zenon, <2>0, <2>1, <2>3 DEF BlocksSound, Named
  <1> QED
    BY <1>1, Invariance, PTL

\* A block that no put is at work on is settled, if nothing has torn it.
LEMMA CalmSettled ==
  ASSUME IInv, NEW v \in VBlocks, Calm(v)
  PROVE  /\ sums # None /\ Settled(v)
         /\ acked[v] \subseteq data[blocks[v]] /\ acked[v] \subseteq dataDisk[blocks[v]]
PROOF
  <1>1. Whole(v) /\ blocks[v] # None
    BY Zenon DEF IInv, Consistent, Calm
  <1>2. \A t \in Threads : ~Writes(t, v)
    BY Zenon DEF Calm, Writers, Writes
  <1> QED
    BY Zenon, <1>1, <1>2 DEF Whole

\* A block at rest passes the check of its sum and holds all that was
\* acknowledged, whatever other puts do to the cluster of checksums
\* (nkfs_inode_block_check_sum, nkfs_inode_block_write).
THEOREM AlwaysReadable == Spec => []Readable
PROOF
  <1>1. IInv => Readable
    BY Zenon, CalmSettled DEF Readable, Settled
  <1> QED
    BY <1>1, Invariance, PTL

\* The same is true of what is on the device, so that a loss of power takes only
\* the blocks that are being written (nkfs_inode_block_write).
THEOREM AlwaysDurable == Spec => []Durable
PROOF
  <1>1. IInv => Durable
    BY Zenon, CalmSettled DEF Durable, Settled
  <1> QED
    BY <1>1, Invariance, PTL

=============================================================================
