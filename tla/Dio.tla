-------------------------------- MODULE Dio ---------------------------------
(***************************************************************************)
(* The cluster cache of one block device (core/dio.c).  Threads get a      *)
(* cluster by its index, change its bytes, sync it and put it.  The radix  *)
(* tree dev->clus_root holds one cluster per index; a reference count      *)
(* keeps a cluster's memory, a pin count keeps it in the tree.  One work   *)
(* of dio_wq shrinks the cache to nr_max_clus clusters, and the removal of *)
(* the device writes back and frees what is left.                          *)
(*                                                                         *)
(* A cluster's contents are modelled as one byte per thread: the set of    *)
(* the threads whose byte is set.  Each thread changes only its own byte,  *)
(* as two requests change different parts of a bitmap, of a node or of a   *)
(* block.  The age of a cluster decides only the order in which the        *)
(* shrinker tries clusters, so it tries them in any order; the work that   *)
(* halves the ages does nothing else.  The reference a dio_io holds on its *)
(* cluster is dropped before the call that took it returns, so that only   *)
(* the assertion in taking it is modelled.                                 *)
(***************************************************************************)
EXTENDS Integers, FiniteSets

CONSTANTS
  Threads,     \* threads that use the cache
  Worker,      \* the work of dio_wq, and the thread that removes the device
  Index,       \* cluster indexes in use
  Clusters,    \* places for struct dio_cluster
  None,        \* NULL
  MaxClus,     \* dev->nr_max_clus
  Failures     \* what may fail: "alloc", "read" and "write"

ASSUME WorkerAssumption == Worker \notin Threads /\ IsFiniteSet(Threads)
ASSUME IndexAssumption == Index \subseteq Nat /\ IsFiniteSet(Index)
ASSUME ClusterAssumption == None \notin Clusters \cup Threads \cup {Worker}
                            /\ IsFiniteSet(Clusters)
ASSUME FailureAssumption == Failures \subseteq {"alloc", "read", "write"}
                            /\ MaxClus \in Nat

Proc == Threads \cup {Worker}

VARIABLES
  clu,      \* [Clusters -> cluster records]
  tree,     \* [Index -> Clusters or None], dev->clus_root
  nrClus,   \* dev->nr_clus
  disk,     \* [Index -> SUBSET Threads], the device
  pc,       \* where each process is
  cl,       \* the cluster a process works on
  idx,      \* the index a thread asks for
  err,      \* the error a process's last read or sync gave
  nodes,    \* clusters the shrinker has collected (nodes[])
  todo,     \* those of them it has not tried to remove yet
  scan,     \* indexes the shrinker has not looked up yet
  drops,    \* references the worker has yet to drop
  mode,     \* "up", "down" while the device is removed, "gone"
  last,     \* history: [Index -> SUBSET Threads], the bytes as last written
  unsure,   \* history: [Index -> SUBSET Threads], threads whose last write has
            \* not been followed by a sync that returned 0
  failed    \* history: the indexes a read of which has failed

vars == << clu, tree, nrClus, disk, pc, cl, idx, err, nodes, todo, scan,
           drops, mode, last, unsure, failed >>
work == << nodes, todo, scan, drops, mode >>
hist == << last, unsure, failed >>

\* Memory that holds no cluster.
Freed == [ alive |-> FALSE, index |-> 0, ref |-> 0, pin |-> 0, start |-> FALSE,
           read |-> FALSE, dirty |-> FALSE, err |-> FALSE, comp |-> 0,
           syncer |-> None, data |-> {} ]

\* dio_clu_alloc; the pages are not cleared, their contents are of no use.
New(index) == [ Freed EXCEPT !.alive = TRUE, !.index = index, !.ref = 1 ]

GoTo(p, l) == pc' = [pc EXCEPT ![p] = l]

Init ==
  /\ clu    = [c \in Clusters |-> Freed]
  /\ tree   = [i \in Index |-> None]
  /\ nrClus = 0
  /\ disk   = [i \in Index |-> {}]
  /\ pc     = [p \in Proc |-> "idle"]
  /\ cl     = [p \in Proc |-> None]
  /\ idx    = [t \in Threads |-> 0]
  /\ err    = [p \in Proc |-> FALSE]
  /\ nodes  = {}
  /\ todo   = {}
  /\ scan   = {}
  /\ drops  = 0
  /\ mode   = "up"
  /\ last   = [i \in Index |-> {}]
  /\ unsure = [i \in Index |-> {}]
  /\ failed = {}

-----------------------------------------------------------------------------
(* dio_clu_lookup_create.                                                  *)

\* Some caller in super.c, inode.c, btree.c or balloc.c; none starts once the
\* device is being removed.
Get(t, i) ==
  /\ pc[t] = "idle"
  /\ mode = "up"
  /\ idx' = [idx EXCEPT ![t] = i]
  /\ GoTo(t, "look")
  /\ UNCHANGED << clu, tree, nrClus, disk, cl, err, work, hist >>

\* radix_tree_lookup under RCU, which keeps nothing from leaving the tree.
Lookup(t) ==
  /\ pc[t] = "look"
  /\ cl' = [cl EXCEPT ![t] = tree[idx[t]]]
  /\ GoTo(t, IF tree[idx[t]] = None THEN "alloc" ELSE "ref")
  /\ UNCHANGED << clu, tree, nrClus, disk, idx, err, work, hist >>

\* The assertion of dio_clu_ref.
RefTest(t) ==
  /\ pc[t] = "ref"
  /\ GoTo(t, IF clu[cl[t]].ref <= 0 THEN "refbug" ELSE "inc")
  /\ UNCHANGED << clu, tree, nrClus, disk, cl, idx, err, work, hist >>

\* Its atomic_inc; a thread that writes to memory that has been freed is lost.
RefInc(t) ==
  /\ pc[t] = "inc"
  /\ \/ /\ clu[cl[t]].alive
        /\ clu' = [clu EXCEPT ![cl[t]].ref = @ + 1]
        /\ GoTo(t, "pin")
     \/ /\ ~clu[cl[t]].alive
        /\ GoTo(t, "refbug")
        /\ UNCHANGED clu
  /\ UNCHANGED << tree, nrClus, disk, cl, idx, err, work, hist >>

Pin(t) ==
  /\ pc[t] = "pin"
  /\ clu' = [clu EXCEPT ![cl[t]].pin = @ + 1]
  /\ GoTo(t, "age")
  /\ UNCHANGED << tree, nrClus, disk, cl, idx, err, work, hist >>

\* dio_clu_alloc, or no memory for the cluster or for the tree.
Alloc(t) ==
  /\ pc[t] = "alloc"
  /\ \/ \E c \in Clusters :
          /\ ~clu[c].alive /\ \A p \in Proc : cl[p] # c
          /\ clu' = [clu EXCEPT ![c] = New(idx[t])]
          /\ cl' = [cl EXCEPT ![t] = c]
          /\ GoTo(t, "insert")
     \/ /\ "alloc" \in Failures
        /\ GoTo(t, "idle")
        /\ UNCHANGED << clu, cl >>
  /\ UNCHANGED << tree, nrClus, disk, idx, err, work, hist >>

\* The tree has no cluster of this index.  The new one ends with three
\* references: by dio_clu_alloc, by the tree and by the thread.
InsertNew(t) ==
  /\ tree[idx[t]] = None
  /\ tree' = [tree EXCEPT ![idx[t]] = cl[t]]
  /\ nrClus' = nrClus + 1
  /\ clu' = [clu EXCEPT ![cl[t]].ref = @ + 2, ![cl[t]].pin = @ + 1]
  /\ UNCHANGED cl

\* Mutant: the thread goes on with its own cluster.
InsertFoundKeepsNew(t) ==
  /\ tree[idx[t]] # None
  /\ clu' = [clu EXCEPT ![cl[t]].ref = @ + 2, ![cl[t]].pin = @ + 1]
  /\ UNCHANGED << tree, nrClus, cl >>

\* Mutant: the cluster that was not needed is not freed.
InsertFoundLeaksNew(t) ==
  /\ tree[idx[t]] # None
  /\ clu' = [clu EXCEPT ![tree[idx[t]]].ref = @ + 1, ![tree[idx[t]]].pin = @ + 1]
  /\ cl' = [cl EXCEPT ![t] = tree[idx[t]]]
  /\ UNCHANGED << tree, nrClus >>

\* Another thread was faster: take its cluster and drop the new one.
InsertFound(t) ==
  /\ tree[idx[t]] # None
  /\ clu' = [clu EXCEPT ![tree[idx[t]]].ref = @ + 1,
                        ![tree[idx[t]]].pin = @ + 1, ![cl[t]] = Freed]
  /\ cl' = [cl EXCEPT ![t] = tree[idx[t]]]
  /\ UNCHANGED << tree, nrClus >>

\* radix_tree_insert under clus_lock.
Insert(t) ==
  /\ pc[t] = "insert"
  /\ pc[Worker] # "delete"
  /\ InsertNew(t) \/ InsertFound(t)
  /\ GoTo(t, "age")
  /\ UNCHANGED << disk, idx, err, work, hist >>

\* The shrinker holds age_rw_lock for writing.
AgeLocked ==
  /\ mode = "up"
  /\ pc[Worker] \in {"evict", "delete", "sync", "lock", "io", "end", "ret", "drop"}

\* down_read(&dev->age_rw_lock) around the new age.
Age(t) ==
  /\ pc[t] = "age"
  /\ ~AgeLocked
  /\ GoTo(t, "test")
  /\ UNCHANGED << clu, tree, nrClus, disk, cl, idx, err, work, hist >>

-----------------------------------------------------------------------------
(* dio_clu_get: the first thread to come reads the cluster in.             *)

GetTest(t) ==
  /\ pc[t] = "test"
  /\ GoTo(t, IF clu[cl[t]].read THEN "got" ELSE "start")
  /\ UNCHANGED << clu, tree, nrClus, disk, cl, idx, err, work, hist >>

\* Mutant: the test and the setting of DIO_CLU_READ_START come apart, and two
\* threads read.
ReadStartTwice(t) ==
  /\ pc[t] = "start"
  /\ GoTo(t, "rio")
  /\ err' = [err EXCEPT ![t] = FALSE]
  /\ clu' = [clu EXCEPT ![cl[t]].start = TRUE]
  /\ UNCHANGED << tree, nrClus, disk, cl, idx, work, hist >>

\* test_and_set_bit(DIO_CLU_READ_START).  The bit is never cleared.  One that
\* finds it set takes the error first and waits second.
ReadStart(t) ==
  /\ pc[t] = "start"
  /\ \/ /\ ~clu[cl[t]].start
        /\ clu' = [clu EXCEPT ![cl[t]].start = TRUE]
        /\ \/ GoTo(t, "rio") /\ err' = [err EXCEPT ![t] = FALSE]
           \/ /\ "alloc" \in Failures
              /\ GoTo(t, "rdone") /\ err' = [err EXCEPT ![t] = TRUE]
     \/ /\ clu[cl[t]].start
        /\ err' = [err EXCEPT ![t] = clu[cl[t]].err]
        /\ GoTo(t, "wait")
        /\ UNCHANGED clu
  /\ UNCHANGED << tree, nrClus, disk, cl, idx, work, hist >>

\* The device answers; __dio_io_end_bio asserts that DIO_CLU_READ is clear and
\* sets it.
ReadIo(t) ==
  /\ pc[t] = "rio"
  /\ \/ /\ clu' = [clu EXCEPT ![cl[t]].data = disk[idx[t]], ![cl[t]].read = TRUE]
        /\ GoTo(t, IF clu[cl[t]].read THEN "bug" ELSE "rdone")
        /\ UNCHANGED err
     \/ /\ "read" \in Failures
        /\ err' = [err EXCEPT ![t] = TRUE]
        /\ GoTo(t, "rdone")
        /\ UNCHANGED clu
  /\ UNCHANGED << tree, nrClus, disk, cl, idx, work, hist >>

\* A failed read ends dio_clu_get with NULL after dio_clu_put.
Outcome(t) == IF err[t] THEN "put" ELSE "got"

\* Mutant: nobody is woken.
ReadDoneSilent(t) ==
  /\ pc[t] = "rdone"
  /\ clu' = [clu EXCEPT ![cl[t]].err = err[t]]
  /\ failed' = IF err[t] THEN failed \cup {idx[t]} ELSE failed
  /\ GoTo(t, Outcome(t))
  /\ UNCHANGED << tree, nrClus, disk, cl, idx, err, work, last, unsure >>

\* complete() lets one waiter go.
ReadDone(t) ==
  /\ pc[t] = "rdone"
  /\ clu' = [clu EXCEPT ![cl[t]].err = err[t], ![cl[t]].comp = @ + 1]
  /\ failed' = IF err[t] THEN failed \cup {idx[t]} ELSE failed
  /\ GoTo(t, Outcome(t))
  /\ UNCHANGED << tree, nrClus, disk, cl, idx, err, work, last, unsure >>

\* wait_for_completion(&cluster->read_comp)
Wait(t) ==
  /\ pc[t] = "wait"
  /\ clu[cl[t]].comp > 0
  /\ clu' = [clu EXCEPT ![cl[t]].comp = @ - 1]
  /\ GoTo(t, Outcome(t))
  /\ UNCHANGED << tree, nrClus, disk, cl, idx, err, work, hist >>

-----------------------------------------------------------------------------
(* What callers do with a cluster they got.                                *)

Toggle(set, t) == IF t \in set THEN set \ {t} ELSE set \cup {t}

\* The thread writes its byte; what the device holds of it is not known until
\* a sync succeeds.
Touch(t) ==
  /\ last' = [last EXCEPT ![idx[t]] = Toggle(@, t)]
  /\ unsure' = [unsure EXCEPT ![idx[t]] = @ \cup {t}]
  /\ UNCHANGED failed

\* In place, through dio_clu_map; dio_clu_set_dirty follows.
Modify(t) ==
  /\ pc[t] = "got"
  /\ clu' = [clu EXCEPT ![cl[t]].data = Toggle(@, t)]
  /\ Touch(t)
  /\ GoTo(t, "dirty")
  /\ UNCHANGED << tree, nrClus, disk, cl, idx, err, work >>

\* Threads stuck in dio_clu_write with sync_rw_lock held for reading.
StuckIn(c) == { t \in Threads : pc[t] = "stuck" /\ cl[t] = c }

\* dio_clu_write: DIRTY and the bytes, under sync_rw_lock held for reading.
\* In a cluster that was never read it waits for a second completion of the
\* read, which does not come.
Write(t) ==
  /\ pc[t] = "got"
  /\ clu[cl[t]].syncer = None
  /\ \/ /\ clu[cl[t]].read
        /\ clu' = [clu EXCEPT ![cl[t]].data = Toggle(@, t), ![cl[t]].dirty = TRUE]
        /\ Touch(t)
        /\ GoTo(t, "sync")
     \/ /\ ~clu[cl[t]].read
        /\ GoTo(t, "stuck")
        /\ UNCHANGED << clu, hist >>
  /\ UNCHANGED << tree, nrClus, disk, cl, idx, err, work >>

\* A caller that only reads.
Look(t) ==
  /\ pc[t] = "got"
  /\ GoTo(t, "put")
  /\ UNCHANGED << clu, tree, nrClus, disk, cl, idx, err, work, hist >>

\* Mutant: the flag is set without sync_rw_lock.
SetDirtyUnlocked(t) ==
  /\ pc[t] = "dirty"
  /\ clu' = [clu EXCEPT ![cl[t]].dirty = TRUE]
  /\ GoTo(t, "sync")
  /\ UNCHANGED << tree, nrClus, disk, cl, idx, err, work, hist >>

SetDirty(t) ==
  /\ pc[t] = "dirty"
  /\ clu[cl[t]].syncer = None
  /\ clu' = [clu EXCEPT ![cl[t]].dirty = TRUE]
  /\ GoTo(t, "sync")
  /\ UNCHANGED << tree, nrClus, disk, cl, idx, err, work, hist >>

-----------------------------------------------------------------------------
(* dio_clu_sync, called by threads and by the worker.                      *)

SyncTest(p) ==
  /\ pc[p] = "sync"
  /\ \/ clu[cl[p]].dirty /\ GoTo(p, "lock") /\ UNCHANGED err
     \/ ~clu[cl[p]].dirty /\ GoTo(p, "ret") /\ err' = [err EXCEPT ![p] = FALSE]
  /\ UNCHANGED << clu, tree, nrClus, disk, cl, idx, work, hist >>

\* down_write(&sync_rw_lock), and the test again.
SyncLock(p) ==
  /\ pc[p] = "lock"
  /\ clu[cl[p]].syncer = None
  /\ StuckIn(cl[p]) = {}
  /\ \/ /\ clu[cl[p]].dirty
        /\ clu' = [clu EXCEPT ![cl[p]].syncer = p]
        /\ GoTo(p, "io")
        /\ UNCHANGED err
     \/ /\ ~clu[cl[p]].dirty
        /\ GoTo(p, "ret")
        /\ err' = [err EXCEPT ![p] = FALSE]
        /\ UNCHANGED clu
  /\ UNCHANGED << tree, nrClus, disk, cl, idx, work, hist >>

\* The device takes the pages at some moment of the transfer.  Of a write that
\* fails any part has reached the device, none when dio_io_alloc fails.
SyncIo(p) ==
  /\ pc[p] = "io"
  /\ LET c == cl[p]
         i == clu[c].index
         differ == (clu[c].data \ disk[i]) \cup (disk[i] \ clu[c].data)
     IN  \/ /\ disk' = [disk EXCEPT ![i] = clu[c].data]
            /\ err' = [err EXCEPT ![p] = FALSE]
         \/ /\ Failures \cap {"alloc", "write"} # {}
            /\ \E part \in SUBSET differ :
                 disk' = [disk EXCEPT ![i] = (@ \ part) \cup (clu[c].data \cap part)]
            /\ err' = [err EXCEPT ![p] = TRUE]
  /\ GoTo(p, "end")
  /\ UNCHANGED << clu, tree, nrClus, cl, idx, work, hist >>

SyncEnd(p) ==
  /\ pc[p] = "end"
  /\ clu' = [clu EXCEPT ![cl[p]].dirty = @ /\ err[p], ![cl[p]].syncer = None]
  /\ GoTo(p, "ret")
  /\ UNCHANGED << tree, nrClus, disk, cl, idx, err, work, hist >>

\* The caller learns whether its write is on the device; the worker ignores it.
SyncReturn(p) ==
  /\ pc[p] = "ret"
  /\ GoTo(p, IF p = Worker THEN "drop" ELSE "put")
  /\ unsure' = IF p = Worker \/ err[p] THEN unsure
               ELSE [unsure EXCEPT ![idx[p]] = @ \ {p}]
  /\ UNCHANGED << clu, tree, nrClus, disk, cl, idx, err, work, last, failed >>

-----------------------------------------------------------------------------
(* dio_clu_put and dio_clu_deref.                                          *)

Unpin(t) ==
  /\ pc[t] = "put"
  /\ clu' = [clu EXCEPT ![cl[t]].pin = @ - 1]
  /\ GoTo(t, "deref")
  /\ UNCHANGED << tree, nrClus, disk, cl, idx, err, work, hist >>

\* The last reference frees the cluster.  If it is DIRTY, dio_clu_release
\* syncs it first, and dio_io_alloc, when there is memory, takes a reference
\* on a cluster that has none: the assertion of dio_clu_ref.
Drop(p, c, next) ==
  \/ /\ clu[c].ref <= 0
     /\ GoTo(p, "refbug")
     /\ UNCHANGED clu
  \/ /\ clu[c].ref > 1
     /\ clu' = [clu EXCEPT ![c].ref = @ - 1]
     /\ GoTo(p, next)
  \/ /\ clu[c].ref = 1
     /\ ~clu[c].dirty \/ "alloc" \in Failures
     /\ clu' = [clu EXCEPT ![c] = Freed]
     /\ GoTo(p, next)
  \/ /\ clu[c].ref = 1
     /\ clu[c].dirty
     /\ clu' = [clu EXCEPT ![c].ref = 0]
     /\ GoTo(p, "refbug")

Deref(t) ==
  /\ pc[t] = "deref"
  /\ Drop(t, cl[t], "idle")
  /\ cl' = [cl EXCEPT ![t] = None]
  /\ err' = [err EXCEPT ![t] = FALSE]
  /\ idx' = [idx EXCEPT ![t] = 0]
  /\ UNCHANGED << tree, nrClus, disk, work, hist >>

-----------------------------------------------------------------------------
(* dio_clus_shrink and dio_clus_lru_frees.                                 *)

ShrinkStart ==
  /\ pc[Worker] = "idle"
  /\ mode = "up"
  /\ nrClus > MaxClus
  /\ scan' = Index
  /\ GoTo(Worker, "scan")
  /\ UNCHANGED << clu, tree, nrClus, disk, cl, idx, err, nodes, todo, drops, mode, hist >>

\* Collect, in the order of the indexes, the clusters that are not pinned; a
\* reference is kept on each.
ShrinkScan ==
  /\ pc[Worker] = "scan"
  /\ \/ /\ scan # {}
        /\ LET i == CHOOSE j \in scan : \A k \in scan : j <= k
               take == tree[i] # None /\ clu[tree[i]].pin = 0
           IN  /\ scan' = scan \ {i}
               /\ nodes' = IF take THEN nodes \cup {tree[i]} ELSE nodes
               /\ clu' = IF take THEN [clu EXCEPT ![tree[i]].ref = @ + 1] ELSE clu
        /\ UNCHANGED << pc, todo >>
     \/ /\ scan = {}
        /\ todo' = nodes
        /\ GoTo(Worker, "evict")
        /\ UNCHANGED << clu, scan, nodes >>
  /\ UNCHANGED << tree, nrClus, disk, cl, idx, err, drops, mode, hist >>

\* The next cluster to try, while there are too many; dio_clu_remove finds it
\* pinned, or not.
EvictNext ==
  /\ pc[Worker] = "evict"
  /\ \/ /\ nrClus <= MaxClus \/ todo = {}
        /\ todo' = {}
        /\ GoTo(Worker, "free")
        /\ UNCHANGED cl
     \/ /\ nrClus > MaxClus
        /\ \E c \in todo :
             /\ todo' = todo \ {c}
             /\ IF tree[clu[c].index] # None /\ clu[tree[clu[c].index]].pin = 0
                  THEN cl' = [cl EXCEPT ![Worker] = c] /\ GoTo(Worker, "delete")
                  ELSE UNCHANGED << cl, pc >>
  /\ UNCHANGED << clu, tree, nrClus, disk, idx, err, nodes, scan, drops, mode, hist >>

\* Mutant: the counter is left alone.
EvictDeleteUncounted ==
  /\ pc[Worker] = "delete"
  /\ tree' = [tree EXCEPT ![clu[cl[Worker]].index] = None]
  /\ drops' = 2
  /\ GoTo(Worker, "sync")
  /\ UNCHANGED << clu, nrClus, disk, cl, idx, err, nodes, todo, scan, mode, hist >>

\* radix_tree_delete: clus_lock is held since the test, but a thread that
\* finds the cluster under RCU pins it without that lock.  The removed cluster
\* must be the collected one.
EvictDelete ==
  /\ pc[Worker] = "delete"
  /\ LET i == clu[cl[Worker]].index
     IN  /\ tree' = [tree EXCEPT ![i] = None]
         /\ GoTo(Worker, IF tree[i] = cl[Worker] THEN "sync" ELSE "bug")
  /\ nrClus' = nrClus - 1
  /\ drops' = 2
  /\ UNCHANGED << clu, disk, cl, idx, err, nodes, todo, scan, mode, hist >>

\* dio_clu_deref twice after eviction, three times when the device goes.
WorkerDrop ==
  /\ pc[Worker] = "drop"
  /\ Drop(Worker, cl[Worker],
          IF drops > 1 THEN "drop" ELSE IF mode = "up" THEN "evict" ELSE "rel")
  /\ drops' = drops - 1
  /\ cl' = IF drops > 1 THEN cl ELSE [cl EXCEPT ![Worker] = None]
  /\ err' = [err EXCEPT ![Worker] = FALSE]
  /\ UNCHANGED << tree, nrClus, disk, idx, nodes, todo, scan, mode, hist >>

\* The references of the collection are dropped.
FreeNodes ==
  /\ pc[Worker] = "free"
  /\ \/ \E c \in nodes : nodes' = nodes \ {c} /\ Drop(Worker, c, "free")
     \/ nodes = {} /\ GoTo(Worker, "idle") /\ UNCHANGED << clu, nodes >>
  /\ UNCHANGED << tree, nrClus, disk, cl, idx, err, todo, scan, drops, mode, hist >>

-----------------------------------------------------------------------------
(* dio_dev_release and dio_dev_create.                                     *)

\* The last dio_dev_deref, with no request in flight; dio_dev_list_lock keeps
\* the works away.
ReleaseStart ==
  /\ mode = "up"
  /\ \A p \in Proc : pc[p] = "idle"
  /\ mode' = "down"
  /\ GoTo(Worker, "rel")
  /\ UNCHANGED << clu, tree, nrClus, disk, cl, idx, err, nodes, todo, scan, drops, hist >>

\* dio_clus_release takes the clusters out one by one, whatever their pins.
\* At the end it asserts that nr_clus is 0.
ReleaseNext ==
  /\ pc[Worker] = "rel"
  /\ \/ \E i \in Index :
          /\ tree[i] # None /\ \A j \in Index : tree[j] # None => i <= j
          /\ clu' = [clu EXCEPT ![tree[i]].ref = @ + 1, ![tree[i]].pin = 0]
          /\ cl' = [cl EXCEPT ![Worker] = tree[i]]
          /\ tree' = [tree EXCEPT ![i] = None]
          /\ nrClus' = nrClus - 1
          /\ drops' = 3
          /\ GoTo(Worker, "sync")
          /\ UNCHANGED mode
     \/ /\ \A i \in Index : tree[i] = None
        /\ GoTo(Worker, IF nrClus = 0 THEN "idle" ELSE "bug")
        /\ mode' = "gone"
        /\ UNCHANGED << clu, cl, tree, nrClus, drops >>
  /\ UNCHANGED << disk, idx, err, nodes, todo, scan, hist >>

\* The device is added again; bytes whose write was never acknowledged are
\* what the device has of them.
Create ==
  /\ mode = "gone"
  /\ pc[Worker] = "idle"
  /\ mode' = "up"
  /\ last' = [i \in Index |-> (last[i] \ unsure[i]) \cup (disk[i] \cap unsure[i])]
  /\ unsure' = [i \in Index |-> {}]
  /\ UNCHANGED << clu, tree, nrClus, disk, pc, cl, idx, err, nodes, todo, scan, drops,
                  failed >>

-----------------------------------------------------------------------------

LookupCreate(t) ==
  \/ Lookup(t) \/ RefTest(t) \/ RefInc(t) \/ Pin(t)
  \/ Alloc(t) \/ Insert(t) \/ Age(t)

WaitRead(t) == GetTest(t) \/ ReadStart(t) \/ ReadIo(t) \/ ReadDone(t) \/ Wait(t)

Use(t) == Modify(t) \/ Write(t) \/ Look(t)

Sync(p) == SyncTest(p) \/ SyncLock(p) \/ SyncIo(p) \/ SyncEnd(p) \/ SyncReturn(p)

Put(t) == Unpin(t) \/ Deref(t)

Shrink == ShrinkScan \/ EvictNext \/ EvictDelete \/ WorkerDrop \/ FreeNodes

Next ==
  \/ \E t \in Threads :
       \/ \E i \in Index : Get(t, i)
       \/ LookupCreate(t) \/ WaitRead(t) \/ Use(t) \/ SetDirty(t) \/ Put(t)
  \/ \E p \in Proc : Sync(p)
  \/ ShrinkStart \/ Shrink
  \/ ReleaseStart \/ ReleaseNext \/ Create

Spec == Init /\ [][Next]_vars

\* Threads and works run, the device answers, callers put what they got, and
\* the rwsems are handed over in order of arrival.
Fairness ==
  /\ \A t \in Threads :
       /\ WF_vars(LookupCreate(t)) /\ WF_vars(WaitRead(t)) /\ WF_vars(Use(t))
       /\ SF_vars(SetDirty(t) \/ Sync(t)) /\ WF_vars(Put(t))
  /\ WF_vars(Shrink) /\ WF_vars(Sync(Worker)) /\ WF_vars(ReleaseNext)

FairSpec == Spec /\ Fairness

-----------------------------------------------------------------------------
(* What the cache promises.                                                *)

\* Thread t has a reference on cluster c.
Refs(t, c) ==
  cl[t] = c /\ pc[t] \in { "pin", "age", "test", "start", "rio", "rdone", "wait", "got",
                           "stuck", "dirty", "sync", "lock", "io", "end", "ret", "put",
                           "deref" }

Pins(t, c) == Refs(t, c) /\ pc[t] \notin {"pin", "deref"}

InTree(c) == \E i \in Index : tree[i] = c

B2N(b) == IF b THEN 1 ELSE 0

\* Every reference count is the number of references that exist: the two of a
\* cluster in the tree, those of the threads, those of the collection, and
\* what the worker has yet to drop.  So no cluster leaks and none is freed
\* early, however get, put, eviction and removal interleave (dio.c:199-313,
\* 379-451, 811-822).  And nr_clus counts the clusters of the tree, which is
\* what the limit and the assertion of dio.c:312 rely on.
RefExact ==
  /\ nrClus = Cardinality({ i \in Index : tree[i] # None })
  /\ \A c \in Clusters : clu[c].alive =>
    clu[c].ref =
        2 * B2N(InTree(c))
      + Cardinality({ t \in Threads : Refs(t, c) })
      + Cardinality({ t \in Threads : pc[t] = "insert" /\ cl[t] = c })
      + B2N(c \in nodes)
      + (IF cl[Worker] = c /\ pc[Worker] # "delete" THEN drops ELSE 0)

\* Threads that hold a cluster of the same index share one cluster, the one in
\* the tree, also when they created it at the same time (dio.c:224-242).
\* Nothing is promised once the cache has begun to evict.
OneClusterPerIndex ==
  \A t \in Threads : \A c \in Clusters :
    Pins(t, c) => tree[idx[t]] = c /\ clu[c].index = idx[t]

\* The assertions other than those of dio_clu_ref and dio_clu_deref hold:
\* eviction removes the cluster it collected (dio.c:436), a cluster is read
\* once (505), and none is left when the device goes (312).
AssertionsHold == \A p \in Proc : pc[p] # "bug"

\* A cluster that has been read holds what was last written to its index: no
\* write is lost to a late read from the device.  Nothing is said of an index
\* a read of which has failed: its cluster may be given out unread (dio.c:612).
\* dio_clu_get gives out a cluster that has been read in, unless the read of
\* this cluster failed.
Coherent ==
  /\ \A i \in Index \ failed :
       tree[i] # None /\ clu[tree[i]].read => clu[tree[i]].data = last[i]
  /\ \A t \in Threads : pc[t] = "got" => clu[cl[t]].read \/ clu[cl[t]].err

\* What dio_clu_sync reported as written is on the device and stays there,
\* whatever other threads write, sync or fail to sync (dio.c:750-795).
Durable ==
  \A i \in Index \ failed : \A t \in Threads :
    t \notin unsure[i] => (t \in disk[i] <=> t \in last[i])

\* Every use of the cache ends, but for indexes a read of which has failed:
\* a write to an unread cluster waits for ever (dio.c:699-706).
CallsReturn ==
  \A t \in Threads : pc[t] # "idle" ~> pc[t] = "idle" \/ idx[t] \in failed

\* A cluster that is looked up, released or dropped has a reference: the
\* assertions of dio_clu_ref and dio_clu_deref (dio.c:813, 819).
RefAssertion == \A p \in Proc : pc[p] # "refbug"
=============================================================================
