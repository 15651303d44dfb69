----------------------------- MODULE BlocksInv ------------------------------
(*************************************************************************)
(* The inductive invariant of the blocks of an object: types, what the   *)
(* locals of a put hold at each point, who owns and who uses each block; *)
(* and what a step of module Blocks does to them.                        *)
(*************************************************************************)
EXTENDS Blocks

PCs == { "idle", "find", "findsum", "open", "check", "alloc", "sumfind",
         "sumalloc", "suminsert", "aopen", "insert", "undo", "undofree",
         "write", "sum", "store", "sync", "syncsum", "erase", "efree" }

Sum == SUBSET (Threads \cup {None})

Ib == [ v : VBlocks \cup {None}, block : Blocks \cup {None},
        sum : Blocks \cup {None}, sumNew : BOOLEAN, sumIn : BOOLEAN,
        val : SUBSET Threads, new : BOOLEAN ]

Types ==
  /\ blocks \in [VBlocks -> Blocks \cup {None}]
  /\ sums \in Blocks \cup {None}
  /\ marked \subseteq Blocks
  /\ data \in [Blocks -> SUBSET Threads]
  /\ dataDisk \in [Blocks -> SUBSET Threads]
  /\ sum \in [Blocks -> [VBlocks -> Sum]]
  /\ sumDisk \in [Blocks -> [VBlocks -> Sum]]
  /\ pc \in [Threads -> PCs]
  /\ ib \in [Threads -> Ib]
  /\ acked \in [VBlocks -> SUBSET Threads]
  /\ torn \subseteq VBlocks
  /\ lost \in BOOLEAN

\* Where a put works on a block that it has found or made.
UsesBlock == { "findsum", "open", "check", "write", "sum", "store", "sync", "syncsum" }

\* Where it works on the block of checksums.
UsesSum == { "open", "check", "aopen", "insert", "write", "sum", "store", "sync", "syncsum" }

\* Where it has a block that is not in the tree yet.
Allocating == { "sumfind", "sumalloc", "suminsert", "aopen", "insert", "undo", "undofree" }

\* Where a block that it has put in the tree may still be erased.
Fresh == { "write", "sum", "store", "sync", "syncsum", "erase" }

\* The locals r of a put at l that its next steps rely on.
LocalsAt(l, r) ==
  /\ l = "idle" => r = NoIb
  /\ l # "idle" => r.v \in VBlocks
  /\ l \in UsesBlock \cup Allocating \cup {"erase", "efree"} => r.block \in Blocks
  /\ l \in UsesSum => r.sum \in Blocks
  /\ l \in {"sumfind", "sumalloc"} => r.sumNew = FALSE /\ r.sumIn = FALSE
  /\ l = "suminsert" => r.sumNew = TRUE /\ r.sumIn = FALSE
  /\ l \in {"aopen", "insert"} => r.sumNew = r.sumIn
  /\ r.sumIn = TRUE => r.sumNew = TRUE
  /\ r.sumNew = TRUE => r.sum \in Blocks
  /\ l \in Allocating \cup {"erase"} => r.new = TRUE
  /\ l \in {"find", "findsum", "open", "check"} => r.new = FALSE /\ r.sumNew = FALSE

Locals == \A t \in Threads : LocalsAt(pc[t], ib[t])

\* The blocks that only this put knows of: the one it has allocated and not yet
\* put in the tree or has taken out of it, and the one for checksums likewise.
OwnsBlock(t) == pc[t] \in Allocating \cup {"efree"}

OwnsSum(t) ==
  /\ ib[t].sumNew = TRUE
  /\ \/ pc[t] \in {"suminsert", "undofree"}
     \/ pc[t] = "undo" /\ ib[t].sumIn = FALSE

Owned(t) ==
  (IF OwnsBlock(t) THEN {ib[t].block} ELSE {}) \cup (IF OwnsSum(t) THEN {ib[t].sum} ELSE {})

\* No tree names block b.
Unnamed(b) == sums # b /\ \A v \in VBlocks : blocks[v] # b

\* Every block has one owner: the tree of blocks, for one of its keys, the tree
\* of checksums,
Named ==
  /\ \A v \in VBlocks : blocks[v] # None => blocks[v] \in marked /\ blocks[v] # sums
  /\ \A v, w \in VBlocks : blocks[v] = blocks[w] /\ blocks[v] # None => v = w
  /\ sums # None => sums \in marked

\* or one put,
Private == \A t \in Threads : \A b \in Owned(t) : b \in marked /\ Unnamed(b)

Split(t) == OwnsBlock(t) /\ OwnsSum(t) => ib[t].block # ib[t].sum

Apart ==
  /\ \A t, u \in Threads : t # u => Owned(t) \cap Owned(u) = {}
  /\ \A t \in Threads : Split(t)

\* and without a loss of power every block in use has one.
NoneLost ==
  lost = FALSE => \A b \in marked : ~Unnamed(b) \/ \E t \in Threads : b \in Owned(t)

\* A put that may still take a key out of a tree finds there what it put in.
MayUndoSum(t) == pc[t] \in {"aopen", "insert", "undo"} /\ ib[t].sumIn = TRUE

MayErase(t) == pc[t] \in Fresh /\ ib[t].new = TRUE

Undoable ==
  /\ \A t \in Threads : MayUndoSum(t) => sums = ib[t].sum
  /\ \A t, u \in Threads : MayUndoSum(t) /\ MayUndoSum(u) => t = u

Erasable ==
  /\ \A t \in Threads : MayErase(t) => blocks[ib[t].v] = ib[t].block
  /\ \A t, u \in Threads : MayErase(t) /\ MayErase(u) /\ ib[t].v = ib[u].v => t = u

OInv == Types /\ Locals /\ Named /\ Private /\ Apart /\ NoneLost /\ Undoable /\ Erasable

\* A block that a put is about to erase is torn already, and a block that is not
\* has one put at most.
Doomed == \A t \in Threads : pc[t] \in {"erase", "efree"} => ib[t].v \in torn

Alone == \A t, u \in Threads : ib[t].v = ib[u].v /\ ib[t].v \in VBlocks \ torn => t = u

\* As long as some block is not torn, all puts use the checksums that the tree
\* names,
Shared == torn # VBlocks => \A t \in Threads : pc[t] \in UsesSum => ib[t].sum = sums

\* each works on the block of the tree and on that of no other put,
Works(t) ==
  /\ ib[t].block \in marked
  /\ ib[t].v \notin torn => blocks[ib[t].v] = ib[t].block
  /\ \A w \in VBlocks \ torn : blocks[w] = ib[t].block => ib[t].v = w

Worked == torn # VBlocks => \A t \in Threads : pc[t] \in UsesBlock => Works(t)

\* and none has as its new block one that another works on.
Distinct ==
  torn # VBlocks =>
    \A t, u \in Threads : pc[t] \in UsesBlock /\ pc[u] \in Allocating => ib[u].block # ib[t].block

Users == Doomed /\ Alone /\ Shared /\ Worked /\ Distinct

\* Put t has changed block v or its checksum and not yet written both.
Writing == { "sum", "store", "sync", "syncsum" }

Writes(t, v) == ib[t].v = v /\ pc[t] \in Writing

\* How far it is.
Stage(t, v) ==
  /\ ib[t].new = FALSE => t \in data[blocks[v]]
  /\ pc[t] = "store" => ib[t].val = data[blocks[v]]
  /\ pc[t] \in {"sync", "syncsum"} => sum[sums][v] = data[blocks[v]]
  /\ pc[t] = "syncsum" => dataDisk[blocks[v]] = data[blocks[v]]

\* Block v, its checksum and their copies on the device are the same.
Settled(v) ==
  /\ sum[sums][v] = data[blocks[v]]
  /\ dataDisk[blocks[v]] = data[blocks[v]]
  /\ sumDisk[sums][v] = data[blocks[v]]

\* What is known of a block that is not torn.
Whole(v) ==
  /\ blocks[v] = None => acked[v] = {}
  /\ blocks[v] # None =>
       /\ sums # None
       /\ acked[v] \subseteq data[blocks[v]] /\ acked[v] \subseteq dataDisk[blocks[v]]
       /\ (\A t \in Threads : ~Writes(t, v)) => Settled(v)
       /\ \A t \in Threads : Writes(t, v) => Stage(t, v)

Consistent == \A v \in VBlocks \ torn : Whole(v)

IInv == OInv /\ Users /\ Consistent

-----------------------------------------------------------------------------
(* What each step does, as far as the invariant can tell, with the locals  *)
(* of the put field by field.                                              *)

\* Only put t goes on: it is at l now and has these locals.
Locs(t, l, v, b, s, sn, si, x, n) ==
  /\ pc' \in [Threads -> PCs] /\ ib' \in [Threads -> Ib]
  /\ pc'[t] = l
  /\ ib'[t].v = v /\ ib'[t].block = b /\ ib'[t].sum = s /\ ib'[t].sumNew = sn
  /\ ib'[t].sumIn = si /\ ib'[t].val = x /\ ib'[t].new = n
  /\ \A u \in Threads \ {t} : pc'[u] = pc[u] /\ ib'[u] = ib[u]

\* It keeps its locals.
Goes(t, l) ==
  /\ pc' \in [Threads -> PCs] /\ pc'[t] = l
  /\ \A u \in Threads \ {t} : pc'[u] = pc[u]
  /\ ib' = ib

Ends(t) == ib'[t] = NoIb /\ Locs(t, "idle", None, None, None, FALSE, FALSE, {}, FALSE)

\* What an allocation of b does to the clusters.
Clears(b) ==
  /\ b \in Blocks \ marked
  /\ marked' = marked \cup {b}
  /\ data' \in [Blocks -> SUBSET Threads] /\ dataDisk' \in [Blocks -> SUBSET Threads]
  /\ sum' \in [Blocks -> [VBlocks -> Sum]] /\ sumDisk' \in [Blocks -> [VBlocks -> Sum]]
  /\ \A a \in Blocks \ {b} : /\ data'[a] = data[a] /\ dataDisk'[a] = dataDisk[a]
                             /\ sum'[a] = sum[a] /\ sumDisk'[a] = sumDisk[a]

\* Nothing is promised any more of the blocks that have become torn.
Tears == torn \subseteq torn' /\ torn' \subseteq VBlocks

\* The blocks freed were marked; whoever else holds one tears everything.
Frees(t, freed) ==
  /\ marked' = marked \ freed
  /\ Tears
  /\ torn' # VBlocks =>
       /\ torn' = torn
       /\ \A u \in Threads \ {t} : \A b \in freed \ {None} : ib[u].block # b /\ ib[u].sum # b

\* How a step hands blocks over: put t keeps what it owns, takes a free block,
\* puts one in a tree or gets it back from there, or frees all it has.
Keeps(t) == Owned(t)' = Owned(t) /\ UNCHANGED trees

Takes(t) ==
  \E b \in Blocks \ marked : /\ Owned(t)' = Owned(t) \cup {b}
                             /\ marked' = marked \cup {b}
                             /\ UNCHANGED << blocks, sums >>

Puts(t) ==
  \E b \in Owned(t) :
    /\ Owned(t)' = Owned(t) \ {b}
    /\ \/ sums = None /\ sums' = b /\ UNCHANGED << blocks, marked >>
       \/ \E v \in VBlocks : /\ blocks[v] = None
                             /\ blocks' = [blocks EXCEPT ![v] = b]
                             /\ UNCHANGED << sums, marked >>

Gets(t) ==
  \/ /\ sums # None /\ Owned(t)' = Owned(t) \cup {sums}
     /\ sums' = None /\ UNCHANGED << blocks, marked >>
  \/ \E v \in VBlocks : /\ blocks[v] # None
                        /\ Owned(t)' = Owned(t) \cup {blocks[v]}
                        /\ blocks' = [blocks EXCEPT ![v] = None]
                        /\ UNCHANGED << sums, marked >>

Drops(t) ==
  /\ Owned(t)' = {}
  /\ marked' = marked \ Owned(t)
  /\ UNCHANGED << blocks, sums >>

Hands ==
  \/ \E t \in Threads :
       /\ Keeps(t) \/ Takes(t) \/ Puts(t) \/ Gets(t) \/ Drops(t)
       /\ \A u \in Threads \ {t} : Owned(u)' = Owned(u)
       /\ lost' = lost
  \/ UNCHANGED trees /\ lost' = TRUE /\ \A t \in Threads : Owned(t)' = {}

\* A step that leaves alone what a put may still take out of a tree.
Stays ==
  /\ UNCHANGED << blocks, sums >>
  /\ \A t \in Threads :
       /\ MayUndoSum(t)' => MayUndoSum(t) /\ ib'[t].sum = ib[t].sum
       /\ MayErase(t)' => MayErase(t) /\ ib'[t].v = ib[t].v /\ ib'[t].block = ib[t].block

\* A step that no block changes hands in, as far as the users can tell.
Quiet ==
  /\ UNCHANGED << blocks, sums >>
  /\ marked \subseteq marked'
  /\ torn \subseteq torn' /\ torn' \subseteq VBlocks
  /\ \A t \in Threads :
       /\ pc'[t] \in UsesBlock =>
            pc[t] \in UsesBlock /\ ib'[t].v = ib[t].v /\ ib'[t].block = ib[t].block
       /\ pc'[t] \in UsesSum => pc[t] \in UsesSum /\ ib'[t].sum = ib[t].sum
       /\ pc'[t] \in Allocating => pc[t] \in Allocating /\ ib'[t].block = ib[t].block
       /\ pc'[t] \in {"erase", "efree"} => ib'[t].v \in torn'
       /\ ib'[t].v \in VBlocks => ib'[t].v = ib[t].v

\* A step that changes nothing of block v, except that its checksum may be
\* written.
Still(v) ==
  /\ acked'[v] = acked[v] /\ blocks'[v] = blocks[v]
  /\ blocks[v] # None =>
       /\ sums' = sums
       /\ data'[blocks[v]] = data[blocks[v]] /\ dataDisk'[blocks[v]] = dataDisk[blocks[v]]
       /\ sum'[sums][v] = sum[sums][v]
       /\ sumDisk'[sums][v] \in {sumDisk[sums][v], sum[sums][v]}
       /\ \A t \in Threads : /\ Writes(t, v)' <=> Writes(t, v)
                             /\ Writes(t, v) => pc'[t] = pc[t] /\ ib'[t] = ib[t]

rest == << acked, lost >>

StartDoes(t) ==
  /\ pc[t] = "idle"
  /\ \E v \in VBlocks : /\ Locs(t, "find", v, None, None, FALSE, FALSE, {}, FALSE)
                        /\ torn' = torn \/ torn' = torn \cup {v}
                        /\ \A u \in Threads : ib[u].v = v => v \in torn'
  /\ UNCHANGED << trees, clus, rest >>

FindBlockDoes(t) ==
  LET i == ib[t]
      locs(l) == Locs(t, l, i.v, blocks[i.v], i.sum, i.sumNew, i.sumIn, i.val, i.new)
  IN  /\ pc[t] = "find"
      /\ \/ blocks[i.v] = None /\ locs("alloc")
         \/ blocks[i.v] # None /\ locs("findsum")
      /\ UNCHANGED << trees, clus, rest, torn >>

FindSumDoes(t) ==
  LET i == ib[t]
      locs(l) == Locs(t, l, i.v, i.block, sums, i.sumNew, i.sumIn, i.val, i.new)
  IN  /\ \/ pc[t] = "findsum" /\ sums = None /\ locs("alloc")
         \/ pc[t] = "findsum" /\ sums # None /\ locs("open")
         \/ pc[t] = "sumfind" /\ sums = None /\ locs("sumalloc")
         \/ pc[t] = "sumfind" /\ sums # None /\ locs("aopen")
      /\ UNCHANGED << trees, clus, rest, torn >>

OpenDoes(t) ==
  /\ \/ pc[t] = "open" /\ (Goes(t, "check") \/ Goes(t, "alloc"))
     \/ pc[t] = "check" /\ (Goes(t, "write") \/ Ends(t))
     \/ pc[t] = "aopen" /\ (Goes(t, "insert") \/ Goes(t, "undo"))
  /\ UNCHANGED << trees, clus, rest, torn >>

AllocBlockDoes(t) ==
  /\ pc[t] = "alloc"
  /\ \/ \E b \in Blocks :
          /\ Clears(b)
          /\ Locs(t, "sumfind", ib[t].v, b, None, FALSE, FALSE, {}, TRUE)
     \/ Ends(t) /\ UNCHANGED << marked, clus >>
  /\ UNCHANGED << blocks, sums, rest, torn >>

SumAllocDoes(t) ==
  LET i == ib[t]
  IN  /\ pc[t] = "sumalloc"
      /\ \/ \E b \in Blocks :
              /\ Clears(b)
              /\ Locs(t, "suminsert", i.v, i.block, b, TRUE, i.sumIn, i.val, i.new)
         \/ Goes(t, "undo") /\ UNCHANGED << marked, clus >>
      /\ UNCHANGED << blocks, sums, rest, torn >>

SumInsertDoes(t) ==
  LET i == ib[t]
  IN  /\ pc[t] = "suminsert"
      /\ \/ /\ sums = None
            /\ sums' = i.sum
            /\ Locs(t, "aopen", i.v, i.block, i.sum, i.sumNew, TRUE, i.val, i.new)
         \/ Goes(t, "undo") /\ UNCHANGED sums
      /\ UNCHANGED << blocks, marked, clus, rest, torn >>

InsertDoes(t) ==
  /\ pc[t] = "insert"
  /\ \/ /\ blocks[ib[t].v] = None
        /\ blocks' = [blocks EXCEPT ![ib[t].v] = ib[t].block]
        /\ Goes(t, "sum")
     \/ Goes(t, "undo") /\ UNCHANGED blocks
  /\ UNCHANGED << sums, marked, clus, rest, torn >>

UndoSumDoes(t) ==
  /\ pc[t] = "undo"
  /\ Goes(t, "undofree")
  /\ \/ /\ ib[t].sumIn = TRUE
        /\ sums' = None
        /\ Tears
        /\ torn' # VBlocks =>
             /\ torn' = torn
             /\ \A v \in VBlocks : blocks[v] = None
             /\ \A u \in Threads \ {t} : ib[u].block # ib[t].sum /\ ib[u].sum # ib[t].sum
     \/ ib[t].sumIn = FALSE /\ UNCHANGED << sums, torn >>
  /\ UNCHANGED << blocks, marked, clus, rest >>

UndoFreeDoes(t) ==
  /\ pc[t] = "undofree"
  /\ \/ ib[t].sumNew = TRUE /\ Frees(t, {ib[t].block, ib[t].sum})
     \/ ib[t].sumNew = FALSE /\ Frees(t, {ib[t].block})
  /\ Ends(t)
  /\ UNCHANGED << blocks, sums, clus, rest >>

WriteDoes(t) ==
  LET i == ib[t]
  IN  /\ pc[t] = "write"
      /\ data' = [data EXCEPT ![i.block] = @ \cup {t}]
      /\ Locs(t, "sum", i.v, i.block, i.sum, i.sumNew, i.sumIn, i.val, FALSE)
      /\ UNCHANGED << trees, dataDisk, sum, sumDisk, rest, torn >>

SumUpDoes(t) ==
  LET i == ib[t]
  IN  /\ pc[t] = "sum"
      /\ Locs(t, "store", i.v, i.block, i.sum, i.sumNew, i.sumIn, data[i.block], i.new)
      /\ UNCHANGED << trees, clus, rest, torn >>

StoreSumDoes(t) ==
  /\ pc[t] = "store"
  /\ Goes(t, "sync")
  /\ sum' \in [Blocks -> [VBlocks -> Sum]]
  /\ \A b \in Blocks, v \in VBlocks :
       sum'[b][v] = IF b = ib[t].sum /\ v = ib[t].v THEN ib[t].val ELSE sum[b][v]
  /\ UNCHANGED << trees, data, dataDisk, sumDisk, rest, torn >>

\* A write of the data or of the checksums fails.
SyncFailsDoes(t) ==
  /\ pc[t] \in {"sync", "syncsum"}
  /\ torn' = torn \cup {ib[t].v}
  /\ \/ ib[t].new = TRUE /\ Goes(t, "erase")
     \/ Ends(t)
  /\ UNCHANGED << trees, clus, rest >>

SyncDataDoes(t) ==
  /\ pc[t] = "sync"
  /\ Goes(t, "syncsum")
  /\ dataDisk' = [dataDisk EXCEPT ![ib[t].block] = data[ib[t].block]]
  /\ UNCHANGED << trees, data, sum, sumDisk, rest, torn >>

SyncSumDoes(t) ==
  /\ pc[t] = "syncsum"
  /\ sumDisk' = [sumDisk EXCEPT ![ib[t].sum] = sum[ib[t].sum]]
  /\ \/ ib[t].new = TRUE /\ Goes(t, "write") /\ UNCHANGED acked
     \/ /\ ib[t].new = FALSE /\ Ends(t)
        /\ acked' = [acked EXCEPT ![ib[t].v] = @ \cup {t}]
  /\ UNCHANGED << trees, data, dataDisk, sum, lost, torn >>

EraseDoes(t) ==
  /\ pc[t] = "erase"
  /\ Goes(t, "efree")
  /\ blocks' = [blocks EXCEPT ![ib[t].v] = None]
  /\ UNCHANGED << sums, marked, clus, rest, torn >>

EraseFreeDoes(t) ==
  /\ pc[t] = "efree"
  /\ Frees(t, {ib[t].block})
  /\ Ends(t)
  /\ UNCHANGED << blocks, sums, clus, rest >>

CrashDoes ==
  /\ data' = dataDisk /\ sum' = sumDisk
  /\ pc' \in [Threads -> PCs] /\ ib' \in [Threads -> Ib]
  /\ \A t \in Threads : pc'[t] = "idle" /\ ib'[t] = NoIb
  /\ Tears
  /\ \A t \in Threads : ib[t].v \in VBlocks => ib[t].v \in torn'
  /\ lost' = TRUE
  /\ UNCHANGED << trees, dataDisk, sumDisk, acked >>

\* A step, or none, as the lemmas on the invariant see it.
Does ==
  \/ \E t \in Threads :
       \/ StartDoes(t) \/ FindBlockDoes(t) \/ FindSumDoes(t) \/ OpenDoes(t)
       \/ AllocBlockDoes(t) \/ SumAllocDoes(t) \/ SumInsertDoes(t) \/ InsertDoes(t)
       \/ UndoSumDoes(t) \/ UndoFreeDoes(t)
       \/ WriteDoes(t) \/ SumUpDoes(t) \/ StoreSumDoes(t) \/ SyncDataDoes(t)
       \/ SyncSumDoes(t) \/ SyncFailsDoes(t) \/ EraseDoes(t) \/ EraseFreeDoes(t)
  \/ CrashDoes
  \/ UNCHANGED vars

=============================================================================
