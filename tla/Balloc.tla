------------------------------- MODULE Balloc -------------------------------
(***************************************************************************)
(* The block allocator of one mounted superblock (core/balloc.c): a bitmap *)
(* with one bit per block of the device, kept in BmBlocks clusters of the  *)
(* cluster cache, and the counter sb->used_blocks.  Any number of kernel   *)
(* threads allocate and free blocks at the same time; nothing but atomic   *)
(* bit operations and the per-cluster sync_rw_lock orders them.            *)
(*                                                                         *)
(* The threads' steps are the points where another thread can be seen:     *)
(* every look at a long or at a bit, the counter update, taking the sync   *)
(* lock, the write to the device, and releasing the lock.  The cluster     *)
(* cache shows here only through what the allocator sees of a cluster: its *)
(* bits, its DIRTY flag, its sync lock and its copy on the device.         *)
(*                                                                         *)
(* Two lock defects of the code have no effect on this state and are left  *)
(* out: find_set_free_bit returns without dropping rw_lock (no writer of a *)
(* bitmap cluster exists once the device is formatted, so the leaked read  *)
(* hold never blocks anyone), and block_mark drops sb->rw_lock, which      *)
(* nobody takes.                                                           *)
(***************************************************************************)
EXTENDS Integers, FiniteSets

CONSTANTS
  Threads,      \* kernel threads that run requests
  NrBlocks,     \* sb->nr_blocks
  BitsPerLong,  \* 8*sizeof(unsigned long)
  LongsPerBm,   \* sb->bsize/sizeof(unsigned long)
  MaxLost,      \* bound on loads that find an old header, for model checking
  U64,          \* 2^64 in the code, smaller for model checking
  NoThread

\* nkfs_sb_gen_header: bm_blocks is nr_blocks bits, rounded up to blocks.
BmBlocks == (NrBlocks + BitsPerLong * LongsPerBm - 1)
              \div (BitsPerLong * LongsPerBm)

\* nkfs_sb_format marks the header and the bitmap (bm_block = 1) and then
\* allocates the root of the tree of inodes.
Reserved == BmBlocks + 2

ASSUME GeometryAssumption ==
  /\ NrBlocks \in Nat
  /\ BitsPerLong \in Nat \ {0}
  /\ LongsPerBm \in Nat \ {0}
  /\ Reserved <= NrBlocks

ASSUME ThreadAssumption == NoThread \notin Threads /\ IsFiniteSet(Threads)
ASSUME BoundAssumption == MaxLost \in Nat /\ U64 \in Nat /\ 2 * NrBlocks < U64

Block == 0 .. NrBlocks - 1

Bm == 0 .. BmBlocks - 1

\* A bit's place: bitmap cluster (relative to sb->bm_block), long, bit.
Addr == Bm \X (0 .. LongsPerBm - 1) \X (0 .. BitsPerLong - 1)

\* Mutant: the long is not taken modulo the longs of a cluster.
BmBitWrongLong(block) ==
  LET long_num == block \div BitsPerLong
  IN  << long_num \div LongsPerBm, long_num, block % BitsPerLong >>

\* nkfs_balloc_block_bm_bit, with the byte offset of the long divided by its
\* size.
BmBit(block) ==
  LET long_num == block \div BitsPerLong
  IN  << long_num \div LongsPerBm, long_num % LongsPerBm, block % BitsPerLong >>

\* The same conversion backwards, as the search writes it.
BlockOf(a) == (a[1] * LongsPerBm + a[2]) * BitsPerLong + a[3]

VARIABLES
  bitmap,   \* the set of addresses whose bit is set in memory
  disk,     \* the set of addresses whose bit is set on the device
  dirty,    \* [Bm -> BOOLEAN], DIO_CLU_DIRTY
  syncer,   \* [Bm -> Threads or NoThread], the writer of sync_rw_lock
  used,     \* sb->used_blocks, an atomic64_t
  hdrUsed,  \* used_blocks in the header on the device
  pc,       \* where each thread is
  op,       \* "alloc" or "free"
  at,       \* the address a thread's search or mark has reached
  err,      \* did the thread's last dio_clu_sync fail
  owned,    \* blocks callers have been given and have not freed
  lost,     \* number of loads so far that found an old header
  drift,    \* history: used_blocks minus bits, as of the last load
  avail     \* history: blocks free ever since the thread's search began, but
            \* for those of clusters the search left because a sync failed

core == << bitmap, disk, dirty, syncer, used, hdrUsed >>
hist == << owned, lost, drift, avail >>
vars == << bitmap, disk, dirty, syncer, used, hdrUsed, pc, op, at, err,
           owned, lost, drift, avail >>

FreeBlocks == { b \in Block : BmBit(b) \notin bitmap }

OfBm(i) == { a \in Addr : a[1] = i }

GoTo(t, l) == pc' = [pc EXCEPT ![t] = l]

\* The call is over and its locals are gone.
Return(t) ==
  /\ GoTo(t, "idle")
  /\ op' = [op EXCEPT ![t] = "alloc"]
  /\ at' = [at EXCEPT ![t] = << 0, 0, 0 >>]
  /\ err' = [err EXCEPT ![t] = FALSE]
  /\ avail' = [avail EXCEPT ![t] = {}]

Init ==
  /\ bitmap  = { BmBit(b) : b \in 0 .. Reserved - 1 }
  /\ disk    = bitmap
  /\ dirty   = [i \in Bm |-> FALSE]
  /\ syncer  = [i \in Bm |-> NoThread]
  /\ used    = Reserved
  /\ hdrUsed = Reserved
  /\ pc      = [t \in Threads |-> "idle"]
  /\ op      = [t \in Threads |-> "alloc"]
  /\ at      = [t \in Threads |-> << 0, 0, 0 >>]
  /\ err     = [t \in Threads |-> FALSE]
  /\ owned   = {}
  /\ lost    = 0
  /\ drift   = 0
  /\ avail   = [t \in Threads |-> {}]

-----------------------------------------------------------------------------
(* nkfs_balloc_block_alloc: try the bitmap clusters in order.              *)

AllocStart(t) ==
  /\ pc[t] = "idle"
  /\ GoTo(t, "get")
  /\ avail' = [avail EXCEPT ![t] = FreeBlocks]
  /\ UNCHANGED << core, op, at, err, owned, lost, drift >>

\* The loop head: past the last cluster the answer is -ENOSPC; a cluster
\* that cannot be read ends the call with -EIO.
AllocGet(t) ==
  /\ pc[t] = "get"
  /\ \/ at[t][1] >= BmBlocks /\ GoTo(t, "nospc") /\ UNCHANGED << op, at, err, avail >>
     \/ at[t][1] < BmBlocks /\ GoTo(t, "long") /\ UNCHANGED << op, at, err, avail >>
     \/ at[t][1] < BmBlocks /\ Return(t)
  /\ UNCHANGED << core, owned, lost, drift >>

AllocNoSpace(t) ==
  /\ pc[t] = "nospc"
  /\ Return(t)
  /\ UNCHANGED << core, owned, lost, drift >>

\* find_set_free_bit found nothing in this cluster, or its sync failed.
NextBm(t) ==
  /\ GoTo(t, "get")
  /\ at' = [at EXCEPT ![t] = << at[t][1] + 1, 0, 0 >>]

NextLong(t) ==
  /\ GoTo(t, "long")
  /\ at' = [at EXCEPT ![t] = << at[t][1], at[t][2] + 1, 0 >>]

\* *plong == ~0UL
LongFull(t) == \A b \in 0 .. BitsPerLong - 1 : << at[t][1], at[t][2], b >> \in bitmap

\* Mutant: the loop runs past the cluster.
PastDevice(t) == BlockOf(at[t]) >= NrBlocks

\* Mutant: the loop ends one block before the device does.
PastLongsEarly(t) == at[t][2] >= LongsPerBm \/ BlockOf(at[t]) >= NrBlocks - 1

\* The loop over the longs ends with the cluster or with the device.
PastLongs(t) == at[t][2] >= LongsPerBm \/ BlockOf(at[t]) >= NrBlocks

\* The loop over the longs of the cluster.
FindLong(t) ==
  /\ pc[t] = "long"
  /\ \/ PastLongs(t) /\ NextBm(t)
     \/ ~PastLongs(t) /\ LongFull(t) /\ NextLong(t)
     \/ ~PastLongs(t) /\ ~LongFull(t) /\ GoTo(t, "bit") /\ UNCHANGED at
  /\ UNCHANGED << core, op, err, hist >>

\* Mutant: another thread has set the bit since test_bit_le, and the answer of
\* test_and_set_bit_le is not looked at.
BitClaimedTwice(t) ==
  \/ at[t] \notin bitmap
  \/ \E u \in Threads \ {t} : pc[u] = "inc" /\ at[u] = at[t]

\* test_and_set_bit_le finds the bit clear.
BitFree(t) == at[t] \notin bitmap

\* The loop over the bits of a long: a set bit is passed over, a free one set.
FindBit(t) ==
  /\ pc[t] = "bit"
  /\ \/ /\ at[t][3] >= BitsPerLong
        /\ NextLong(t)
        /\ UNCHANGED << bitmap, avail >>
     \/ /\ at[t][3] < BitsPerLong
        /\ BlockOf(at[t]) >= NrBlocks
        /\ NextBm(t)
        /\ UNCHANGED << bitmap, avail >>
     \/ /\ at[t][3] < BitsPerLong
        /\ BlockOf(at[t]) < NrBlocks
        /\ at[t] \in bitmap
        /\ at' = [at EXCEPT ![t] = << at[t][1], at[t][2], at[t][3] + 1 >>]
        /\ UNCHANGED << bitmap, pc, avail >>
     \/ /\ at[t][3] < BitsPerLong
        /\ BlockOf(at[t]) < NrBlocks
        /\ BitFree(t)
        /\ bitmap' = bitmap \cup {at[t]}
        /\ avail' = [u \in Threads |-> avail[u] \ {BlockOf(at[t])}]
        /\ GoTo(t, "inc")
        /\ UNCHANGED at
  /\ UNCHANGED << disk, dirty, syncer, used, hdrUsed, op, err,
                  owned, lost, drift >>

AllocInc(t) ==
  /\ pc[t] = "inc"
  /\ used' = used + 1
  /\ GoTo(t, "dirty")
  /\ UNCHANGED << bitmap, disk, dirty, syncer, hdrUsed, op, at, err, hist >>

\* After a failed sync the search goes on in the next cluster and the bit it
\* claimed stays set; otherwise the caller gets the block.
AllocReturn(t) ==
  /\ pc[t] = "ret" /\ op[t] = "alloc"
  /\ \/ /\ err[t]
        /\ NextBm(t)
        /\ avail' = [avail EXCEPT ![t] = { b \in @ : BmBit(b)[1] # at[t][1] }]
        /\ err' = [err EXCEPT ![t] = FALSE]
        /\ UNCHANGED << op, owned >>
     \/ /\ ~err[t]
        /\ owned' = owned \cup {BlockOf(at[t])}
        /\ Return(t)
  /\ UNCHANGED << core, lost, drift >>

-----------------------------------------------------------------------------
(* nkfs_balloc_block_free = nkfs_balloc_block_mark(sb, block, 0).          *)

FreeStart(t, block) ==
  /\ pc[t] = "idle"
  /\ block \in owned
  /\ owned' = owned \ {block}
  /\ op' = [op EXCEPT ![t] = "free"]
  /\ at' = [at EXCEPT ![t] = BmBit(block)]
  /\ GoTo(t, "mget")
  /\ UNCHANGED << core, err, lost, drift, avail >>

\* dio_clu_get fails with -EIO and the block stays marked.
MarkGet(t) ==
  /\ pc[t] = "mget"
  /\ \/ GoTo(t, "mbit") /\ UNCHANGED << op, at, err, avail >>
     \/ Return(t)
  /\ UNCHANGED << core, owned, lost, drift >>

\* NKFS_BUG_ON(!test_bit_le()), then clear_bit_le.
MarkBit(t) ==
  /\ pc[t] = "mbit"
  /\ \/ at[t] \in bitmap /\ bitmap' = bitmap \ {at[t]} /\ GoTo(t, "mdec")
     \/ at[t] \notin bitmap /\ GoTo(t, "bug") /\ UNCHANGED bitmap
  /\ UNCHANGED << disk, dirty, syncer, used, hdrUsed, op, at, err, hist >>

\* Mutant: the counter is not taken back.
MarkDecMissing(t) ==
  /\ pc[t] = "mdec"
  /\ GoTo(t, "dirty")
  /\ UNCHANGED << core, op, at, err, hist >>

MarkDec(t) ==
  /\ pc[t] = "mdec"
  /\ used' = used - 1
  /\ GoTo(t, "dirty")
  /\ UNCHANGED << bitmap, disk, dirty, syncer, hdrUsed, op, at, err, hist >>

MarkReturn(t) ==
  /\ pc[t] = "ret" /\ op[t] = "free"
  /\ Return(t)
  /\ UNCHANGED << core, owned, lost, drift >>

-----------------------------------------------------------------------------
(* dio_clu_set_dirty and dio_clu_sync on the cluster of at[t].             *)

\* Mutant: the flag is set without the lock.
SetDirtyUnlocked(t) ==
  /\ pc[t] = "dirty"
  /\ dirty' = [dirty EXCEPT ![at[t][1]] = TRUE]
  /\ GoTo(t, "sync")
  /\ UNCHANGED << bitmap, disk, syncer, used, hdrUsed, op, at, err, hist >>

\* The flag is set under sync_rw_lock held for reading, so never while a
\* sync of the cluster is between taking the lock and dropping it.
SetDirty(t) ==
  /\ pc[t] = "dirty"
  /\ syncer[at[t][1]] = NoThread
  /\ dirty' = [dirty EXCEPT ![at[t][1]] = TRUE]
  /\ GoTo(t, "sync")
  /\ UNCHANGED << bitmap, disk, syncer, used, hdrUsed, op, at, err, hist >>

\* The test without the lock: a clean cluster needs no write.
SyncTest(t) ==
  /\ pc[t] = "sync"
  /\ \/ dirty[at[t][1]] /\ GoTo(t, "lock") /\ UNCHANGED err
     \/ ~dirty[at[t][1]] /\ GoTo(t, "ret") /\ err' = [err EXCEPT ![t] = FALSE]
  /\ UNCHANGED << core, op, at, hist >>

\* down_write(&sync_rw_lock), and the test again.
SyncLock(t) ==
  /\ pc[t] = "lock"
  /\ syncer[at[t][1]] = NoThread
  /\ \/ /\ dirty[at[t][1]]
        /\ syncer' = [syncer EXCEPT ![at[t][1]] = t]
        /\ GoTo(t, "io")
        /\ UNCHANGED err
     \/ /\ ~dirty[at[t][1]]
        /\ err' = [err EXCEPT ![t] = FALSE]
        /\ GoTo(t, "ret")
        /\ UNCHANGED syncer
  /\ UNCHANGED << bitmap, disk, dirty, used, hdrUsed, op, at, hist >>

\* The bits of cluster i that differ in memory and on the device.
Unwritten(i) == { a \in OfBm(i) : (a \in bitmap) # (a \in disk) }

\* What the device holds once the bits in part have been written.
Written(part) == (disk \ part) \cup (bitmap \cap part)

\* The device takes the pages at some moment of the transfer.  Of a write
\* that fails, or that a crash cuts short, any part has reached the device;
\* none when dio_io_alloc fails.
SyncIo(t) ==
  /\ pc[t] = "io"
  /\ \/ /\ disk' = Written(Unwritten(at[t][1]))
        /\ err' = [err EXCEPT ![t] = FALSE]
     \/ /\ \E part \in SUBSET Unwritten(at[t][1]) : disk' = Written(part)
        /\ err' = [err EXCEPT ![t] = TRUE]
  /\ GoTo(t, "end")
  /\ UNCHANGED << bitmap, dirty, syncer, used, hdrUsed, op, at, hist >>

\* Mutant: the lock is kept when the write fails.
SyncEndKeepsLock(t) ==
  /\ pc[t] = "end"
  /\ dirty' = [dirty EXCEPT ![at[t][1]] = @ /\ err[t]]
  /\ syncer' = [syncer EXCEPT ![at[t][1]] = IF err[t] THEN @ ELSE NoThread]
  /\ GoTo(t, "ret")
  /\ UNCHANGED << bitmap, disk, used, hdrUsed, op, at, err, hist >>

\* The flag is cleared only after a good write; the lock is dropped always.
SyncEnd(t) ==
  /\ pc[t] = "end"
  /\ dirty' = [dirty EXCEPT ![at[t][1]] = @ /\ err[t]]
  /\ syncer' = [syncer EXCEPT ![at[t][1]] = NoThread]
  /\ GoTo(t, "ret")
  /\ UNCHANGED << bitmap, disk, used, hdrUsed, op, at, err, hist >>

-----------------------------------------------------------------------------
(* The superblock's life around the allocator.                             *)

\* nkfs_sb_load: the counter comes from the header, the bitmap from the
\* device.  Callers find again, through the trees on the device, some of the
\* blocks they had.
Load(image, header, kept) ==
  /\ bitmap'  = image
  /\ disk'    = image
  /\ used'    = header
  /\ hdrUsed' = header
  /\ drift'   = header - Cardinality(image)
  /\ owned'   = kept
  /\ dirty'   = [i \in Bm |-> FALSE]
  /\ syncer'  = [i \in Bm |-> NoThread]
  /\ pc'      = [t \in Threads |-> "idle"]
  /\ op'      = [t \in Threads |-> "alloc"]
  /\ at'      = [t \in Threads |-> << 0, 0, 0 >>]
  /\ err'     = [t \in Threads |-> FALSE]
  /\ avail'   = [t \in Threads |-> {}]

\* Power loss, then nkfs_dev_add without format.
Crash ==
  /\ lost < MaxLost
  /\ lost' = lost + 1
  /\ \E kept \in SUBSET owned : Load(disk, hdrUsed, kept)

\* nkfs_dev_remove with nothing in flight, and nkfs_dev_add.  nkfs_sb_stop
\* writes the header, unless dio_clu_get fails, an error it drops.
\* dio_dev_release writes every dirty cluster.
Remount ==
  LET image == { a \in Addr : IF dirty[a[1]] THEN a \in bitmap ELSE a \in disk }
  IN  /\ \A t \in Threads : pc[t] = "idle"
      /\ \/ Load(image, used, owned) /\ UNCHANGED lost
         \/ lost < MaxLost /\ Load(image, hdrUsed, owned) /\ lost' = lost + 1

-----------------------------------------------------------------------------

Sync(t) == SetDirty(t) \/ SyncTest(t) \/ SyncLock(t) \/ SyncIo(t) \/ SyncEnd(t)

Alloc(t) ==
  \/ AllocGet(t) \/ AllocNoSpace(t) \/ FindLong(t) \/ FindBit(t)
  \/ AllocInc(t) \/ AllocReturn(t)

Mark(t) == MarkGet(t) \/ MarkBit(t) \/ MarkDec(t) \/ MarkReturn(t)

Start(t) == AllocStart(t) \/ \E block \in Block : FreeStart(t, block)

Next ==
  \/ \E t \in Threads : Start(t) \/ Alloc(t) \/ Mark(t) \/ Sync(t)
  \/ Crash
  \/ Remount

Spec == Init /\ [][Next]_vars

\* Kernel threads run, the device answers, and an rwsem is handed over in
\* order of arrival.
Fairness ==
  \A t \in Threads :
    /\ WF_vars(Alloc(t))
    /\ WF_vars(Mark(t))
    /\ SF_vars(Sync(t))

FairSpec == Spec /\ Fairness

-----------------------------------------------------------------------------
(* What the allocator promises.                                            *)

PCs == { "idle", "get", "nospc", "long", "bit", "inc", "dirty", "sync",
         "lock", "io", "end", "ret", "mget", "mbit", "mdec", "bug" }

\* The types of the allocator's state; a search may stand one past the end
\* of a long, of a cluster and of the bitmap.
TypeOK ==
  /\ bitmap \subseteq Addr
  /\ disk \subseteq Addr
  /\ dirty \in [Bm -> BOOLEAN]
  /\ syncer \in [Bm -> Threads \cup {NoThread}]
  /\ used \in Int
  /\ hdrUsed \in Int
  /\ pc \in [Threads -> PCs]
  /\ op \in [Threads -> {"alloc", "free"}]
  /\ at \in [Threads -> (0 .. BmBlocks) \X (0 .. LongsPerBm) \X (0 .. BitsPerLong)]
  /\ err \in [Threads -> BOOLEAN]
  /\ owned \subseteq Block
  /\ lost \in Nat
  /\ drift \in Int
  /\ avail \in [Threads -> SUBSET Block]

\* The thread has set the bit of a block that nobody owns yet.
Claims(t) ==
  /\ op[t] = "alloc"
  /\ pc[t] \in {"inc", "dirty", "sync", "lock", "io", "end", "ret"}

\* The thread is about to clear the bit of a block that nobody owns any more.
Frees(t) == pc[t] \in {"mget", "mbit"}

\* No block has two owners: what an allocation has claimed is not owned, not
\* claimed by another allocation and not about to be cleared by a free, even
\* when several threads scan the same long (balloc.c:147).
NoDoubleAlloc ==
  \A t \in Threads : Claims(t) =>
    /\ BlockOf(at[t]) \notin owned
    /\ \A u \in Threads \ {t} : Claims(u) \/ Frees(u) => at[u] # at[t]

\* A caller only gets a block once the device holds its bit, and the bit stays
\* there until the caller frees the block, whatever other threads write, and
\* over crashes.  This is what the order set bit, set DIRTY under the sync
\* lock, write, clear DIRTY is for (balloc.c:148-152, dio.c:750-795).
OwnedIsOnDisk == \A b \in owned : BmBit(b) \in disk

\* NKFS_BUG_ON(!test_bit_le()) of balloc.c:89 is not reached by callers that
\* free each block they own once.
FreeFindsBitSet == \A t \in Threads : pc[t] # "bug"

InInc == { t \in Threads : pc[t] = "inc" }
InDec == { t \in Threads : pc[t] = "mdec" }

\* used_blocks counts the set bits, up to the threads that stand between the
\* bit and the counter and up to what the last load got wrong, which is
\* nothing as long as no load found an old header.
UsedCountsBits ==
  /\ used = Cardinality(bitmap) + drift - Cardinality(InInc) + Cardinality(InDec)
  /\ lost = 0 => drift = 0

\* -ENOSPC is only returned when every block was in use at some moment of the
\* search, or lies in a cluster that could not be written: the scan leaves out
\* no bit (balloc.c:131-162, 179-196).
NoSpaceIsReal == \A t \in Threads : pc[t] = "nospc" => avail[t] = {}

\* Every allocation and every free returns.
CallsReturn == \A t \in Threads : pc[t] # "idle" ~> pc[t] = "idle"

\* nkfs_sb_free_blocks asserts nr_blocks >= used_blocks, comparing as u64
\* (super.c:74).
FreeBlocksAssertion == ~(NrBlocks < used % U64)
=============================================================================
