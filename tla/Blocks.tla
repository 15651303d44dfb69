------------------------------- MODULE Blocks -------------------------------
(***************************************************************************)
(* The data of one object (core/inode.c, from nkfs_inode_block_alloc to    *)
(* nkfs_inode_write_block_buf): the tree that maps the blocks of the       *)
(* object to blocks of the device, the tree of blocks that hold their      *)
(* checksums, and the writes of puts to blocks of the same object at the   *)
(* same time.  No lock of the inode is held here: rw_sem guards the size   *)
(* alone.                                                                  *)
(*                                                                         *)
(* The blocks of the object are few enough for their checksums to share    *)
(* one block, the case in which puts to different blocks meet.  A block    *)
(* holds the set of threads whose bytes are in it, and its checksum is     *)
(* that set.  An operation of a tree is one step and durable when it       *)
(* returns (module BTree), so are an allocation and a free (Balloc); a     *)
(* cluster is shared by all who get it, and a sync writes what it holds    *)
(* (Dio).  An error of a tree other than "not there" and "there already"   *)
(* is not modelled.  What becomes of the size is in module Store.          *)
(***************************************************************************)
EXTENDS Integers, FiniteSets

CONSTANTS
  Threads,     \* threads that serve puts
  VBlocks,     \* the blocks of the object, whose checksums share a block
  Blocks,      \* blocks of the device
  MaxPuts,     \* bound on the puts
  MaxFaults,   \* bound on failures of the device and losses of power
  None

ASSUME SetAssumption ==
  /\ IsFiniteSet(Threads) /\ IsFiniteSet(VBlocks) /\ IsFiniteSet(Blocks)
  /\ None \notin Threads \cup VBlocks \cup Blocks
  /\ MaxPuts \in Nat /\ MaxFaults \in Nat

VARIABLES
  blocks,   \* [VBlocks -> Blocks or None], inode->blocks_tree
  sums,     \* Blocks or None, the one key of inode->blocks_sum_tree
  marked,   \* blocks in use
  data,     \* [Blocks -> SUBSET Threads], clusters that hold data
  dataDisk, \* their copies on the device
  sum,      \* [Blocks -> [VBlocks -> checksums]], clusters that hold checksums
  sumDisk,  \* their copies on the device
  pc,       \* where each thread is
  ib,       \* [Threads -> struct inode_block and the locals of its functions]
  puts,     \* number of puts so far
  faults,   \* number of failures and losses of power so far
  acked,    \* history: [VBlocks -> threads whose put returned 0]
  torn,     \* history: blocks for which nothing is promised any more
  lost      \* history: a power loss has left allocated blocks behind

vars == << blocks, sums, marked, data, dataDisk, sum, sumDisk, pc, ib, puts, faults, acked, torn, lost >>
trees == << blocks, sums, marked >>
clus == << data, dataDisk, sum, sumDisk >>
hist == << puts, faults, acked, torn, lost >>

\* What a block held before it was allocated is no checksum of anything.
Junk == {None}

NoIb == [ v |-> None, block |-> None, sum |-> None, sumNew |-> FALSE, sumIn |-> FALSE,
          val |-> {}, new |-> FALSE ]

Init ==
  /\ blocks = [v \in VBlocks |-> None] /\ sums = None /\ marked = {}
  /\ data = [b \in Blocks |-> {}] /\ dataDisk = data
  /\ sum = [b \in Blocks |-> [v \in VBlocks |-> Junk]] /\ sumDisk = sum
  /\ pc = [t \in Threads |-> "idle"] /\ ib = [t \in Threads |-> NoIb]
  /\ puts = 0 /\ faults = 0 /\ acked = [v \in VBlocks |-> {}] /\ torn = {} /\ lost = FALSE

At(t, l) == pc[t] = l
GoTo(t, l) == pc' = [pc EXCEPT ![t] = l]
Fault == faults < MaxFaults /\ faults' = faults + 1

\* The put returns.
Return(t) ==
  /\ GoTo(t, "idle")
  /\ ib' = [ib EXCEPT ![t] = NoIb]

Writers(v) == { t \in Threads : ib[t].v = v }
Holds(t, b) == b \in {ib[t].block, ib[t].sum} \ {None}

\* Blocks are freed; a put that still holds one of them may then write into
\* whatever it is next given to.
Free(t, freed) ==
  /\ marked' = marked \ freed
  /\ torn' = IF \E u \in Threads \ {t}, b \in freed : Holds(u, b) THEN VBlocks ELSE torn

\* __nkfs_inode_block_alloc; the caller cannot know what the block holds.
Alloc(b) ==
  /\ b \in Blocks \ marked
  /\ marked' = marked \cup {b}
  /\ data' = [data EXCEPT ![b] = {}] /\ dataDisk' = [dataDisk EXCEPT ![b] = {}]
  /\ sum' = [sum EXCEPT ![b] = [v \in VBlocks |-> Junk]]
  /\ sumDisk' = [sumDisk EXCEPT ![b] = [v \in VBlocks |-> Junk]]

-----------------------------------------------------------------------------
(* nkfs_inode_block_read, the first half of nkfs_inode_block_read_create.  *)

\* A put to block v.  Two puts to one block at the same time tear it.
Start(t) ==
  /\ At(t, "idle")
  /\ puts < MaxPuts /\ puts' = puts + 1
  /\ \E v \in VBlocks :
       /\ ib' = [ib EXCEPT ![t].v = v]
       /\ torn' = IF Writers(v) # {} THEN torn \cup {v} ELSE torn
  /\ GoTo(t, "find")
  /\ UNCHANGED << trees, clus, faults, acked, lost >>

\* The two keys are looked up and the clusters got; any error means allocate.
FindBlock(t) ==
  LET b == blocks[ib[t].v]
  IN /\ At(t, "find")
     /\ ib' = [ib EXCEPT ![t].block = b]
     /\ GoTo(t, IF b = None THEN "alloc" ELSE "findsum")
     /\ UNCHANGED << trees, clus, hist >>

FindSum(t) ==
  /\ At(t, "findsum")
  /\ ib' = [ib EXCEPT ![t].sum = sums]
  /\ GoTo(t, IF sums = None THEN "alloc" ELSE "open")
  /\ UNCHANGED << trees, clus, hist >>

Open(t) ==
  /\ At(t, "open")
  /\ \/ GoTo(t, "check") /\ UNCHANGED faults
     \/ GoTo(t, "alloc") /\ Fault
  /\ UNCHANGED << trees, clus, ib, puts, acked, torn, lost >>

\* nkfs_inode_block_check_sum
CheckSum(t) ==
  /\ At(t, "check")
  /\ IF sum[ib[t].sum][ib[t].v] = data[ib[t].block]
     THEN GoTo(t, "write") /\ UNCHANGED ib ELSE Return(t)
  /\ UNCHANGED << trees, clus, hist >>

-----------------------------------------------------------------------------
(* nkfs_inode_block_alloc.                                                 *)

AllocBlock(t) ==
  /\ At(t, "alloc")
  /\ \/ \E b \in Blocks :
          /\ Alloc(b)
          /\ ib' = [ib EXCEPT ![t] = [NoIb EXCEPT !.v = ib[t].v, !.block = b, !.new = TRUE]]
          /\ GoTo(t, "sumfind")
     \/ marked = Blocks /\ Return(t) /\ UNCHANGED << marked, clus >>
  /\ UNCHANGED << blocks, sums, hist >>

SumFind(t) ==
  /\ At(t, "sumfind")
  /\ ib' = [ib EXCEPT ![t].sum = sums]
  /\ GoTo(t, IF sums = None THEN "sumalloc" ELSE "aopen")
  /\ UNCHANGED << trees, clus, hist >>

SumAlloc(t) ==
  /\ At(t, "sumalloc")
  /\ \/ \E b \in Blocks :
          /\ Alloc(b)
          /\ ib' = [ib EXCEPT ![t].sum = b, ![t].sumNew = TRUE]
          /\ GoTo(t, "suminsert")
     \/ marked = Blocks /\ GoTo(t, "undo") /\ UNCHANGED << marked, clus, ib >>
  /\ UNCHANGED << blocks, sums, hist >>

\* nkfs_btree_insert_key does not replace: another thread may have been first.
SumInsert(t) ==
  /\ At(t, "suminsert")
  /\ IF sums = None
     THEN /\ sums' = ib[t].sum
          /\ ib' = [ib EXCEPT ![t].sumIn = TRUE]
          /\ GoTo(t, "aopen")
     ELSE GoTo(t, "undo") /\ UNCHANGED << sums, ib >>
  /\ UNCHANGED << blocks, marked, clus, hist >>

AllocOpen(t) ==
  /\ At(t, "aopen")
  /\ \/ GoTo(t, "insert") /\ UNCHANGED faults
     \/ GoTo(t, "undo") /\ Fault
  /\ UNCHANGED << trees, clus, ib, puts, acked, torn, lost >>

\* Mutant: the key of the data block replaces what is there.
InsertReplaces(t) ==
  /\ At(t, "insert")
  /\ blocks' = [blocks EXCEPT ![ib[t].v] = ib[t].block] /\ GoTo(t, "sum")
  /\ UNCHANGED << sums, marked, clus, ib, hist >>

Insert(t) ==
  /\ At(t, "insert")
  /\ IF blocks[ib[t].v] = None
     THEN blocks' = [blocks EXCEPT ![ib[t].v] = ib[t].block] /\ GoTo(t, "sum")
     ELSE GoTo(t, "undo") /\ UNCHANGED blocks
  /\ UNCHANGED << sums, marked, clus, ib, hist >>

\* The failure path: the key of the checksums is deleted, whoever uses it,
UndoSum(t) ==
  /\ At(t, "undo")
  /\ IF ib[t].sumIn
     THEN /\ sums' = None
          /\ torn' = IF \/ \E v \in VBlocks : blocks[v] # None
                        \/ \E u \in Threads \ {t} : Holds(u, ib[t].sum)
                     THEN VBlocks ELSE torn
     ELSE UNCHANGED << sums, torn >>
  /\ GoTo(t, "undofree")
  /\ UNCHANGED << blocks, marked, clus, ib, puts, faults, acked, lost >>

\* and what was allocated is freed, the checksums first.
UndoFree(t) ==
  /\ At(t, "undofree")
  /\ Free(t, {ib[t].block} \cup IF ib[t].sumNew THEN {ib[t].sum} ELSE {})
  /\ Return(t)
  /\ UNCHANGED << blocks, sums, clus, puts, faults, acked, lost >>

-----------------------------------------------------------------------------
(* nkfs_inode_block_write and the rest of nkfs_inode_write_block_buf.      *)

\* Mutant: the block is written back without a new checksum.
WriteOnly(t) ==
  /\ At(t, "write")
  /\ data' = [data EXCEPT ![ib[t].block] = @ \cup {t}]
  /\ GoTo(t, "sync")
  /\ ib' = [ib EXCEPT ![t].new = FALSE]
  /\ UNCHANGED << trees, dataDisk, sum, sumDisk, hist >>

\* dio_clu_write
Write(t) ==
  /\ At(t, "write")
  /\ data' = [data EXCEPT ![ib[t].block] = @ \cup {t}]
  /\ GoTo(t, "sum")
  /\ ib' = [ib EXCEPT ![t].new = FALSE]
  /\ UNCHANGED << trees, dataDisk, sum, sumDisk, hist >>

\* dio_clu_sum goes over the pages
SumUp(t) ==
  /\ At(t, "sum")
  /\ ib' = [ib EXCEPT ![t].val = data[ib[t].block]]
  /\ GoTo(t, "store")
  /\ UNCHANGED << trees, clus, hist >>

\* and leaves the result in the cluster of checksums.
StoreSum(t) ==
  /\ At(t, "store")
  /\ sum' = [sum EXCEPT ![ib[t].sum][ib[t].v] = ib[t].val]
  /\ GoTo(t, "sync")
  /\ UNCHANGED << trees, data, dataDisk, sumDisk, ib, hist >>

\* A write that fails ends the put; a block just allocated is erased.  The
\* block in memory and the one on the device may differ from here on.
SyncFails(t) ==
  /\ Fault
  /\ torn' = torn \cup {ib[t].v}
  /\ IF ib[t].new THEN GoTo(t, "erase") /\ UNCHANGED ib ELSE Return(t)
  /\ UNCHANGED << trees, clus, puts, acked, lost >>

\* dio_clu_sync of the data and then of the checksums.
SyncData(t) ==
  /\ At(t, "sync")
  /\ \/ /\ dataDisk' = [dataDisk EXCEPT ![ib[t].block] = data[ib[t].block]]
        /\ GoTo(t, "syncsum")
        /\ UNCHANGED << trees, data, sum, sumDisk, ib, hist >>
     \/ SyncFails(t)

\* Mutant: the checksums are left to be written some time later.
SumToDiskLater(b) == UNCHANGED sumDisk

SumToDisk(b) == sumDisk' = [sumDisk EXCEPT ![b] = sum[b]]

SyncSum(t) ==
  /\ At(t, "syncsum")
  /\ \/ /\ SumToDisk(ib[t].sum)
        /\ IF ib[t].new THEN GoTo(t, "write") /\ UNCHANGED << ib, acked >>
           ELSE Return(t) /\ acked' = [acked EXCEPT ![ib[t].v] = @ \cup {t}]
        /\ UNCHANGED << trees, data, dataDisk, sum, puts, faults, torn, lost >>
     \/ SyncFails(t)

\* nkfs_inode_block_erase
Erase(t) ==
  /\ At(t, "erase")
  /\ blocks' = [blocks EXCEPT ![ib[t].v] = None]
  /\ GoTo(t, "efree")
  /\ UNCHANGED << sums, marked, clus, ib, hist >>

EraseFree(t) ==
  /\ At(t, "efree")
  /\ Free(t, {ib[t].block})
  /\ Return(t)
  /\ UNCHANGED << blocks, sums, clus, puts, faults, acked, lost >>

\* Power is lost: a block in the middle of a put is torn.
Crash ==
  /\ Fault
  /\ data' = dataDisk /\ sum' = sumDisk
  /\ pc' = [t \in Threads |-> "idle"] /\ ib' = [t \in Threads |-> NoIb]
  /\ torn' = torn \cup { v \in VBlocks : Writers(v) # {} }
  /\ lost' = TRUE
  /\ UNCHANGED << trees, dataDisk, sumDisk, puts, acked >>

-----------------------------------------------------------------------------

BlockRead(t) == FindBlock(t) \/ FindSum(t) \/ Open(t) \/ CheckSum(t)

BlockAlloc(t) ==
  AllocBlock(t) \/ SumFind(t) \/ SumAlloc(t) \/ SumInsert(t) \/ AllocOpen(t) \/ Insert(t)
    \/ UndoSum(t) \/ UndoFree(t)

BlockWrite(t) == SumUp(t) \/ StoreSum(t) \/ SyncData(t) \/ SyncSum(t)

Next ==
  \/ \E t \in Threads :
       Start(t) \/ BlockRead(t) \/ BlockAlloc(t) \/ Write(t) \/ BlockWrite(t) \/ Erase(t) \/ EraseFree(t)
  \/ Crash

Spec == Init /\ [][Next]_vars

-----------------------------------------------------------------------------

\* Every block of the object has a block of the device to itself, in use, as
\* have the checksums; and a block in use belongs to the object or to a put
\* that will give it back, unless power was lost: also when two puts allocate
\* for the same block, or one of several steps fails (nkfs_inode_block_alloc).
BlocksSound ==
  LET named == { blocks[v] : v \in VBlocks } \cup {sums}
      held == UNION { {ib[t].block, ib[t].sum} : t \in Threads }
  IN /\ named \ {None} \subseteq marked
     /\ \A v, w \in VBlocks : blocks[v] = blocks[w] /\ blocks[v] # None => v = w
     /\ \A v \in VBlocks : blocks[v] # None => blocks[v] # sums
     /\ ~lost => marked \subseteq named \cup held

\* No put is at work on block v and nothing has torn it.
Calm(v) == v \notin torn /\ Writers(v) = {} /\ blocks[v] # None

\* A block can be read whenever no put is at work on it: its checksum is there
\* and is that of its data, and nothing that was acknowledged is missing, while
\* puts to other blocks use and write the same cluster of checksums.  Two puts
\* to one block, and a failed allocation that takes the checksums with it, can
\* break this (nkfs_inode_block_check_sum, inode.c:462, 537).
Readable ==
  \A v \in VBlocks : Calm(v) =>
    /\ sums # None /\ sum[sums][v] = data[blocks[v]]
    /\ acked[v] \subseteq data[blocks[v]]

\* The same holds of the device, so that power loss takes only blocks that are
\* being written: data first, then checksums (nkfs_inode_block_write).
Durable ==
  \A v \in VBlocks : Calm(v) =>
    /\ sums # None /\ sumDisk[sums][v] = dataDisk[blocks[v]]
    /\ acked[v] \subseteq dataDisk[blocks[v]]
=============================================================================
