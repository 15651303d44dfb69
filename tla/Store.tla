-------------------------------- MODULE Store -------------------------------
(***************************************************************************)
(* The objects of one mounted superblock: create, get, put, query and      *)
(* delete (core/super.c) over the cache of inodes (core/inode.c).  The     *)
(* tree of inodes maps an object's id to the block of its inode; an inode  *)
(* in memory is found by its block in sb->inodes as long as somebody holds *)
(* it, for the cache itself has no reference.                              *)
(*                                                                         *)
(* A block stands here for the block of an inode and for the blocks of its *)
(* two trees and of its data, which come and go with it.  An operation of  *)
(* a tree is one step, since it runs under the tree's rw_lock; so are an   *)
(* allocation and a free, of which module Balloc has the detail.  What an  *)
(* object holds is its size: a put writes blocks that are its own and then *)
(* raises the size.  Sizes are in units of one put.                        *)
(***************************************************************************)
EXTENDS Integers, FiniteSets

CONSTANTS
  Threads,     \* threads that serve requests
  Ids,         \* ids that nkfs_obj_id_gen can give, each once
  LastBlock,   \* the device's last block; block 0 is the header
  Slots,       \* places for struct nkfs_inode
  MaxSize,     \* bound on an object's size
  MaxRestarts, \* bound on power losses and orderly stops
  Failures,    \* what may fail: "read" (or memory), "write" and "tree"
  Overlap,     \* may a delete overlap other requests for the same object
  None

ASSUME SetAssumption ==
  /\ IsFiniteSet(Threads) /\ IsFiniteSet(Ids) /\ IsFiniteSet(Slots)
  /\ None \notin Threads \cup Ids \cup Slots \cup (0 .. LastBlock)
ASSUME BoundAssumption ==
  /\ LastBlock \in Nat /\ MaxSize \in Nat \ {0} /\ MaxRestarts \in Nat
  /\ Failures \subseteq {"read", "write", "tree"} /\ Overlap \in BOOLEAN

Block == 0 .. LastBlock

VARIABLES
  index,    \* [Ids -> Block or None], sb->inodes_tree
  marked,   \* the blocks in use
  disk,     \* [Block -> [id, size]], the inodes on the device
  ino,      \* [Slots -> inode records]
  cached,   \* the inodes in sb->inodes
  pc,       \* where each thread is
  req,      \* [Threads -> the request with its locals]
  mode,     \* "up", "down" after nkfs_sb_stop, "bug" when it asserts
  fresh,    \* ids not given to an object yet
  known,    \* ids a create has returned to its client
  restarts, \* number of power losses and stops so far
  acked,    \* history: [Ids -> size], the largest end of a put that returned 0
  failed,   \* history: objects for which a write, a free or the tree failed
  stale     \* history: objects whose inode was cached with an old size

vars == << index, marked, disk, ino, cached, pc, req, mode, fresh, known,
           restarts, acked, failed, stale >>
store == << index, marked, disk >>
world == << mode, fresh, known, restarts >>
hist == << acked, failed, stale >>

NoInode == [ id |-> None, size |-> 0 ]

Freed == [ alive |-> FALSE, id |-> None, block |-> 0, size |-> 0, dirty |-> FALSE,
           ref |-> 0, writer |-> None, held |-> 0 ]

\* nkfs_inode_alloc
New(id, block, size) ==
  [ Freed EXCEPT !.alive = TRUE, !.id = id, !.block = block, !.size = size, !.ref = 1 ]

NoReq == [ op |-> "none", id |-> None, block |-> 0, slot |-> None, end |-> 0, ok |-> FALSE ]

\* nkfs_sb_format: the header's block is in use and there are no objects.
Init ==
  /\ index   = [i \in Ids |-> None]
  /\ marked  = {0}
  /\ disk    = [b \in Block |-> NoInode]
  /\ ino     = [s \in Slots |-> Freed]
  /\ cached  = {}
  /\ pc      = [t \in Threads |-> "idle"]
  /\ req     = [t \in Threads |-> NoReq]
  /\ mode    = "up"
  /\ fresh   = Ids
  /\ known   = {}
  /\ restarts = 0
  /\ acked   = [i \in Ids |-> 0]
  /\ failed  = {}
  /\ stale   = {}

GoTo(t, l) == pc' = [pc EXCEPT ![t] = l]

My(t) == ino[req[t].slot]

FreeSlots == { s \in Slots : ~ino[s].alive /\ \A t \in Threads : req[t].slot # s }

\* The inode that __nkfs_inodes_lookup finds.
Found(block) == { s \in cached : ino[s].block = block }

\* The request is over; the client learns how it went.
Return(t, ok) ==
  /\ GoTo(t, "idle")
  /\ req' = [req EXCEPT ![t] = NoReq]
  /\ known' = IF ok /\ req[t].op = "create" THEN known \cup {req[t].id} ELSE known
  /\ acked' = IF ok /\ req[t].op = "put" /\ req[t].end > acked[req[t].id]
              THEN [acked EXCEPT ![req[t].id] = req[t].end] ELSE acked

Stay == UNCHANGED << known, acked >>

-----------------------------------------------------------------------------
(* nkfs_inodes_lookup and INODE_REF, under inodes_lock.                    *)

\* No thread stands between the test and the increment of a reference, which
\* both happen with inodes_lock held.
InodesUnlocked == \A t \in Threads : pc[t] # "inc"

\* Take inode s: the assertion of nkfs_inode_ref.
RefTest(t, s, r) ==
  /\ req' = [req EXCEPT ![t] = [r EXCEPT !.slot = s]]
  /\ GoTo(t, IF ino[s].ref <= 0 THEN "refbug" ELSE "inc")

\* Mutant: nkfs_inodes_lookup and its caller both take the reference.
RefIncTwice(t) ==
  /\ pc[t] = "inc"
  /\ ino' = [ino EXCEPT ![req[t].slot].ref = @ + 2]
  /\ GoTo(t, "have")
  /\ UNCHANGED << store, cached, req, world, hist >>

\* Its atomic_inc.  A last nkfs_inode_deref takes no lock: a thread that comes
\* second holds an inode that is being freed, and is lost.
RefInc(t) ==
  /\ pc[t] = "inc"
  /\ \/ /\ My(t).ref > 0
        /\ ino' = [ino EXCEPT ![req[t].slot].ref = @ + 1]
        /\ GoTo(t, "have")
     \/ /\ My(t).ref <= 0
        /\ GoTo(t, "refbug")
        /\ UNCHANGED ino
  /\ UNCHANGED << store, cached, req, world, hist >>

-----------------------------------------------------------------------------
(* nkfs_inode_read.                                                        *)

Lookup(t) ==
  /\ pc[t] = "lookup"
  /\ \/ /\ Found(req[t].block) = {}
        /\ GoTo(t, "load")
        /\ UNCHANGED req
     \/ \E s \in Found(req[t].block) : RefTest(t, s, req[t])
  /\ UNCHANGED << store, ino, cached, world, hist >>

\* The inode is read from the device, unless that fails or its signature or
\* checksum is wrong.
Load(t) ==
  /\ pc[t] = "load"
  /\ \/ /\ disk[req[t].block] # NoInode
        /\ \E s \in FreeSlots :
             /\ LET d == disk[req[t].block]
                IN  ino' = [ino EXCEPT ![s] = New(d.id, req[t].block, d.size)]
             /\ req' = [req EXCEPT ![t].slot = s]
        /\ GoTo(t, "insert")
        /\ Stay
     \/ /\ "read" \in Failures \/ disk[req[t].block] = NoInode
        /\ Return(t, FALSE)
        /\ UNCHANGED ino
  /\ UNCHANGED << store, cached, mode, fresh, restarts, failed, stale >>

\* Mutant: the inode that was not needed goes on being used.
InsertKeepsOwn(t) ==
  /\ pc[t] = "insert"
  /\ InodesUnlocked
  /\ cached' = cached \cup {req[t].slot}
  /\ stale' = IF My(t).size # disk[req[t].block].size THEN stale \cup {My(t).id} ELSE stale
  /\ GoTo(t, "have")
  /\ UNCHANGED << store, ino, req, world, acked, failed >>

\* nkfs_inodes_insert: an inode cached meanwhile wins over the one just read;
\* otherwise what was read is cached, although the object may have been
\* written and released since.
Insert(t) ==
  /\ pc[t] = "insert"
  /\ InodesUnlocked
  /\ \/ \E s \in Found(req[t].block) :
          /\ ino' = [ino EXCEPT ![req[t].slot] = Freed]
          /\ RefTest(t, s, req[t])
          /\ UNCHANGED << cached, stale >>
     \/ /\ Found(req[t].block) = {}
        /\ cached' = cached \cup {req[t].slot}
        /\ stale' = IF My(t).size # disk[req[t].block].size
                    THEN stale \cup {My(t).id} ELSE stale
        /\ GoTo(t, "have")
        /\ UNCHANGED << ino, req >>
  /\ UNCHANGED << store, world, acked, failed >>

-----------------------------------------------------------------------------
(* nkfs_inode_deref and nkfs_inode_release.                                *)

Deref(t) ==
  /\ pc[t] = "deref"
  /\ \/ /\ My(t).ref <= 0
        /\ GoTo(t, "refbug")
        /\ UNCHANGED << ino, req >> /\ Stay
     \/ /\ My(t).ref = 1
        /\ ino' = [ino EXCEPT ![req[t].slot].ref = 0]
        /\ GoTo(t, "release")
        /\ UNCHANGED req /\ Stay
     \/ /\ My(t).ref > 1
        /\ ino' = [ino EXCEPT ![req[t].slot].ref = @ - 1]
        /\ Return(t, req[t].ok)
  /\ UNCHANGED << store, cached, mode, fresh, restarts, failed, stale >>

\* Mutant: the inode is freed and stays in the cache.
InodesRemoveNot(t) == UNCHANGED cached

\* nkfs_inodes_remove asserts that what it finds under the inode's block, if
\* anything, is this inode.
InodesRemove(t) ==
  /\ InodesUnlocked
  /\ Found(My(t).block) \subseteq {req[t].slot}
  /\ cached' = cached \ Found(My(t).block)

InodesRemoveAsserts(t) == InodesUnlocked /\ ~(Found(My(t).block) \subseteq {req[t].slot})

Release(t) ==
  /\ pc[t] = "release"
  /\ \/ /\ InodesRemove(t)
        /\ ino' = [ino EXCEPT ![req[t].slot] = Freed]
        /\ Return(t, req[t].ok)
     \/ /\ InodesRemoveAsserts(t)
        /\ GoTo(t, "bug")
        /\ UNCHANGED << ino, cached, req >> /\ Stay
  /\ UNCHANGED << store, mode, fresh, restarts, failed, stale >>

-----------------------------------------------------------------------------
(* nkfs_inode_delete.                                                      *)

\* down_write(&inode->rw_sem); gets may have left it held for reading.
DeleteLock(t) ==
  /\ pc[t] \in {"del", "cdel"}
  /\ My(t).writer = None /\ My(t).held = 0
  /\ ino' = [ino EXCEPT ![req[t].slot].writer = t]
  /\ GoTo(t, IF pc[t] = "del" THEN "remove" ELSE "cremove")
  /\ UNCHANGED << store, cached, req, world, hist >>

\* Mutant: the inode stays in the cache until it is released, when its block
\* has been forgotten.
DeleteRemoveNot(t) ==
  /\ pc[t] \in {"remove", "cremove"}
  /\ GoTo(t, IF pc[t] = "remove" THEN "free" ELSE "cfree")
  /\ UNCHANGED << store, ino, cached, req, world, hist >>

DeleteRemove(t) ==
  /\ pc[t] \in {"remove", "cremove"}
  /\ \/ /\ InodesRemove(t)
        /\ GoTo(t, IF pc[t] = "remove" THEN "free" ELSE "cfree")
     \/ /\ InodesRemoveAsserts(t)
        /\ GoTo(t, "bug")
        /\ UNCHANGED cached
  /\ UNCHANGED << store, ino, req, world, hist >>

\* nkfs_balloc_block_free, which asserts that the block is in use and whose
\* error nobody looks at.  A create that failed frees its inode at once.
DeleteFree(t) ==
  /\ pc[t] \in {"free", "cfree"}
  /\ \/ /\ My(t).block \notin marked
        /\ GoTo(t, "bug")
        /\ UNCHANGED << marked, ino, req, failed >> /\ Stay
     \/ /\ My(t).block \in marked
        /\ \/ marked' = marked \ {My(t).block} /\ UNCHANGED failed
           \/ /\ "write" \in Failures
              /\ failed' = failed \cup {My(t).id}
              /\ UNCHANGED marked
        /\ \/ /\ pc[t] = "free"
              /\ ino' = [ino EXCEPT ![req[t].slot].block = 0, ![req[t].slot].size = 0,
                                    ![req[t].slot].writer = None]
              /\ GoTo(t, "deref")
              /\ UNCHANGED req /\ Stay
           \/ /\ pc[t] = "cfree"
              /\ ino' = [ino EXCEPT ![req[t].slot] = Freed]
              /\ Return(t, FALSE)
  /\ UNCHANGED << index, disk, cached, mode, fresh, restarts, stale >>

-----------------------------------------------------------------------------
(* nkfs_sb_create_obj and nkfs_inode_create.                               *)

\* nkfs_inode_write: the inode's size goes to its block.  Of a write that fails
\* the device may have the inode or not.
WriteInode(t, fail) ==
  \/ disk' = [disk EXCEPT ![My(t).block] = [id |-> My(t).id, size |-> My(t).size]]
  \/ fail /\ UNCHANGED disk

\* Does the write fail?
WriteFails == {FALSE, "write" \in Failures}

CreateStart(t) ==
  /\ pc[t] = "idle"
  /\ mode = "up"
  /\ \E i \in fresh :
       /\ req' = [req EXCEPT ![t] = [NoReq EXCEPT !.op = "create", !.id = i]]
       /\ fresh' = fresh \ {i}
  /\ GoTo(t, "calloc")
  /\ UNCHANGED << store, ino, cached, mode, known, restarts, hist >>

\* A new inode with a block, its trees included; block 0 is an assertion.
CreateAlloc(t) ==
  /\ pc[t] = "calloc"
  /\ \/ \E s \in FreeSlots, b \in Block \ marked :
          /\ ino' = [ino EXCEPT ![s] = New(req[t].id, b, 0)]
          /\ req' = [req EXCEPT ![t].slot = s]
          /\ marked' = marked \cup {b}
          /\ GoTo(t, IF b = 0 THEN "bug" ELSE "cwrite")
          /\ Stay
     \/ /\ "write" \in Failures \/ marked = Block
        /\ Return(t, FALSE)
        /\ UNCHANGED << marked, ino >>
  /\ UNCHANGED << index, disk, cached, mode, fresh, restarts, failed, stale >>

\* Mutant: the inode is left to be written by the first put.
CreateWriteNot(t) ==
  /\ pc[t] = "cwrite"
  /\ GoTo(t, "cinsert")
  /\ UNCHANGED << store, ino, cached, req, world, hist >>

CreateWrite(t) ==
  /\ pc[t] = "cwrite"
  /\ \E fail \in WriteFails :
       WriteInode(t, fail) /\ GoTo(t, IF fail THEN "cdel" ELSE "cinsert")
  /\ UNCHANGED << index, marked, ino, cached, req, world, hist >>

\* nkfs_inodes_insert, asserting that nobody else has an inode of this block.
CreateInsert(t) ==
  /\ pc[t] = "cinsert"
  /\ InodesUnlocked
  /\ \/ Found(My(t).block) = {} /\ cached' = cached \cup {req[t].slot} /\ GoTo(t, "ckey")
     \/ Found(My(t).block) # {} /\ GoTo(t, "bug") /\ UNCHANGED cached
  /\ UNCHANGED << store, ino, req, world, hist >>

\* Mutant: an object that does not get into the tree keeps its blocks.
CreateKeyLeaks(t) ==
  /\ pc[t] = "ckey"
  /\ \/ /\ index' = [index EXCEPT ![req[t].id] = My(t).block]
        /\ req' = [req EXCEPT ![t].ok = TRUE]
     \/ "write" \in Failures /\ UNCHANGED << index, req >>
  /\ GoTo(t, "deref")
  /\ UNCHANGED << marked, disk, ino, cached, world, hist >>

\* The object appears in the tree, or its inode is deleted again.
CreateKey(t) ==
  /\ pc[t] = "ckey"
  /\ \/ /\ index' = [index EXCEPT ![req[t].id] = My(t).block]
        /\ req' = [req EXCEPT ![t].ok = TRUE]
        /\ GoTo(t, "deref")
     \/ "write" \in Failures /\ GoTo(t, "del") /\ UNCHANGED << index, req >>
  /\ UNCHANGED << marked, disk, ino, cached, world, hist >>

-----------------------------------------------------------------------------
(* nkfs_sb_get_obj, nkfs_sb_put_obj, nkfs_sb_query_obj, nkfs_sb_delete_obj. *)

\* The other requests under way for object i.
Busy(i) == { t \in Threads : req[t].id = i }
Deleting(i) == { t \in Busy(i) : req[t].op = "delete" }

Start(t, op, i, end) ==
  /\ pc[t] = "idle"
  /\ mode = "up"
  /\ i \in known
  /\ Overlap \/ (IF op = "delete" THEN Busy(i) ELSE Deleting(i)) = {}
  /\ req' = [req EXCEPT ![t] = [NoReq EXCEPT !.op = op, !.id = i, !.end = end]]
  /\ GoTo(t, "find")
  /\ UNCHANGED << store, ino, cached, world, hist >>

\* nkfs_sb_list_by_obj, sb->stopping and nkfs_btree_find_key.
Find(t) ==
  /\ pc[t] = "find"
  /\ \/ /\ mode = "up" /\ index[req[t].id] # None
        /\ req' = [req EXCEPT ![t].block = index[req[t].id]]
        /\ GoTo(t, "lookup")
        /\ Stay
     \/ /\ mode # "up" \/ index[req[t].id] = None \/ "read" \in Failures
        /\ Return(t, FALSE)
  /\ UNCHANGED << store, ino, cached, mode, fresh, restarts, failed, stale >>

\* Get and put assert that the inode still has the block it was found by.
Have(t) ==
  /\ pc[t] = "have"
  /\ \/ /\ req[t].op \in {"get", "put"} /\ My(t).block # req[t].block
        /\ GoTo(t, "bug")
     \/ /\ req[t].op = "get" /\ My(t).block = req[t].block
        /\ GoTo(t, IF My(t).id = req[t].id THEN "read" ELSE "deref")
     \/ /\ req[t].op = "put" /\ My(t).block = req[t].block
        /\ GoTo(t, "data")
     \/ req[t].op = "query" /\ GoTo(t, "deref")
     \/ req[t].op = "delete" /\ GoTo(t, "dkey")
  /\ UNCHANGED << store, ino, cached, req, world, hist >>

\* nkfs_inode_read_block_buf takes rw_sem for reading, and once more if there
\* is something to read, but drops it once.
Read(t) ==
  /\ pc[t] = "read"
  /\ My(t).writer = None
  /\ ino' = [ino EXCEPT ![req[t].slot].held = IF My(t).size > 0 THEN 1 ELSE @]
  /\ GoTo(t, "deref")
  /\ UNCHANGED << store, cached, req, world, hist >>

\* The blocks of a put are written, without rw_sem.
PutData(t) ==
  /\ pc[t] = "data"
  /\ \/ GoTo(t, "plock")
     \/ "write" \in Failures /\ GoTo(t, "deref")
  /\ UNCHANGED << store, ino, cached, req, world, hist >>

\* down_write(&inode->rw_sem) and nkfs_inode_set_size.
PutSize(t) ==
  /\ pc[t] = "plock"
  /\ My(t).writer = None /\ My(t).held = 0
  /\ \/ /\ req[t].end > My(t).size
        /\ ino' = [ino EXCEPT ![req[t].slot].size = req[t].end,
                              ![req[t].slot].dirty = TRUE, ![req[t].slot].writer = t]
        /\ GoTo(t, IF My(t).block = 0 THEN "bug" ELSE "pwrite")
        /\ UNCHANGED req
     \/ /\ req[t].end <= My(t).size
        /\ req' = [req EXCEPT ![t].ok = TRUE]
        /\ GoTo(t, "deref")
        /\ UNCHANGED ino
  /\ UNCHANGED << store, cached, world, hist >>

\* Mutant: the size stays in memory.
PutWriteSkips(t) ==
  /\ pc[t] = "pwrite"
  /\ ino' = [ino EXCEPT ![req[t].slot].writer = None]
  /\ req' = [req EXCEPT ![t].ok = TRUE]
  /\ GoTo(t, "deref")
  /\ UNCHANGED << store, cached, world, hist >>

\* nkfs_inode_write_dirty; the new size stays in memory even if this fails.
PutWrite(t) ==
  /\ pc[t] = "pwrite"
  /\ \E fail \in WriteFails :
       /\ WriteInode(t, fail)
       /\ ino' = [ino EXCEPT ![req[t].slot].dirty = fail, ![req[t].slot].writer = None]
       /\ req' = [req EXCEPT ![t].ok = ~fail]
       /\ failed' = IF fail THEN failed \cup {My(t).id} ELSE failed
  /\ GoTo(t, "deref")
  /\ UNCHANGED << index, marked, cached, world, acked, stale >>

\* nkfs_btree_delete_key, whose error nobody looks at; nkfs_inode_delete follows.
DeleteKey(t) ==
  /\ pc[t] = "dkey"
  /\ \/ index' = [index EXCEPT ![My(t).id] = None] /\ UNCHANGED failed
     \/ "tree" \in Failures /\ failed' = failed \cup {My(t).id} /\ UNCHANGED index
  /\ req' = [req EXCEPT ![t].ok = TRUE]
  /\ GoTo(t, "del")
  /\ UNCHANGED << marked, disk, ino, cached, world, acked, stale >>

-----------------------------------------------------------------------------
(* The superblock's life.                                                  *)

\* nkfs_sb_stop asserts that no inode is in use.
Stop ==
  /\ mode = "up"
  /\ restarts < MaxRestarts
  /\ restarts' = restarts + 1
  /\ mode' = IF cached = {} THEN "down" ELSE "bug"
  /\ UNCHANGED << store, ino, cached, pc, req, fresh, known, hist >>

\* nkfs_dev_add without format, once every request has gone.
Mount ==
  /\ mode = "down"
  /\ \A t \in Threads : pc[t] = "idle"
  /\ mode' = "up"
  /\ UNCHANGED << store, ino, cached, pc, req, fresh, known, restarts, hist >>

\* Power loss and nkfs_dev_add: blocks, inodes and the tree are on the device.
Crash ==
  /\ restarts < MaxRestarts
  /\ restarts' = restarts + 1
  /\ ino' = [s \in Slots |-> Freed]
  /\ cached' = {}
  /\ pc' = [t \in Threads |-> "idle"]
  /\ req' = [t \in Threads |-> NoReq]
  /\ mode' = "up"
  /\ UNCHANGED << store, fresh, known, hist >>

-----------------------------------------------------------------------------

InodeRead(t) == Lookup(t) \/ RefInc(t) \/ Load(t) \/ Insert(t)

InodeDelete(t) == DeleteLock(t) \/ DeleteRemove(t) \/ DeleteFree(t)

InodeDeref(t) == Deref(t) \/ Release(t)

InodeCreate(t) == CreateAlloc(t) \/ CreateWrite(t) \/ CreateInsert(t) \/ CreateKey(t)

Serve(t) ==
  \/ Find(t) \/ Have(t) \/ Read(t) \/ PutData(t) \/ PutSize(t) \/ PutWrite(t)
  \/ DeleteKey(t)

Next ==
  \/ \E t \in Threads :
       \/ CreateStart(t)
       \/ \E i \in Ids : \/ \E op \in {"get", "query", "delete"} : Start(t, op, i, 0)
                         \/ \E end \in 1 .. MaxSize : Start(t, "put", i, end)
       \/ InodeRead(t) \/ InodeDelete(t) \/ InodeDeref(t) \/ InodeCreate(t) \/ Serve(t)
  \/ Stop \/ Mount \/ Crash

Spec == Init /\ [][Next]_vars

-----------------------------------------------------------------------------
(* What the object store promises.                                         *)

\* Thread t has a reference on inode s.
Holds(t, s) == req[t].slot = s /\ pc[t] \notin {"inc", "release", "refbug"}

\* Thread t has dropped the last one and has yet to remove and free it.
Leaves(t, s) == req[t].slot = s /\ pc[t] = "release"

\* A reference count is the number of requests that hold the inode, however
\* they end: no inode leaks and none is freed under a request that took its
\* reference in time (inode.c:54-65, 205-277, 353-412).
RefExact ==
  \A s \in Slots : ino[s].alive => ino[s].ref = Cardinality({ t \in Threads : Holds(t, s) })

\* The request works with an inode that others can find.
Uses(t) == pc[t] \in {"have", "read", "data", "plock", "pwrite", "dkey", "ckey"}

\* Requests for the same object at the same time share one inode, so that its
\* rw_sem orders them (inode.c:114-145, 257-263).  A rw_sem held for writing is
\* held by a request inside the section it guards: no path out of a put, of a
\* delete or of a failed create leaves it locked (inode.c:288-303, 734-743).
SharedInode ==
  /\ \A t, u \in Threads :
       Uses(t) /\ Uses(u) /\ My(t).block = My(u).block => req[t].slot = req[u].slot
  /\ \A s \in Slots : \A t \in Threads : ino[s].writer = t =>
       req[t].slot = s /\ pc[t] \in {"pwrite", "remove", "free", "cremove", "cfree"}

\* A cached inode is in memory and some request is responsible for it: the
\* cache, which has no reference of its own, never keeps a freed inode, and
\* nkfs_sb_stop finds inodes only while requests run (super.c:39).
CachedAreHeld ==
  \A s \in cached : ino[s].alive /\ \E t \in Threads : Holds(t, s) \/ Leaves(t, s)

\* Every object of the tree has its own block, in use and with the object's
\* inode on the device, also when power fails inside a create or a delete:
\* create writes the inode first and the tree last, delete the other way round
\* (super.c:584-594, 658-660).
IndexSound ==
  \A i \in Ids : index[i] # None =>
    /\ index[i] \in marked \ {0}
    /\ disk[index[i]].id = i
    /\ \A j \in Ids \ {i} : index[j] # index[i]

\* A block in use belongs to an object or to a request, before the first restart
\* and unless a free failed: error paths give back what they took.
NoBlockLeaks ==
  restarts = 0 /\ failed = {} =>
    \A b \in marked \ {0} :
      \/ \E i \in Ids : index[i] = b
      \/ \E s \in Slots : ino[s].alive /\ ino[s].block = b

\* The size that an acknowledged put reached is on the device, and the cached
\* inode agrees with the device, over restarts and whatever else is put at the
\* same time.  Two things can lose it: a failed write of the inode, whose size
\* stays in memory for the next put to see (inode.c:735-738), and an inode
\* cached from an old read (inode.c:212-257).
SizeDurable ==
  \A i \in Ids \ (failed \cup stale) : index[i] # None =>
    /\ disk[index[i]].size >= acked[i]
    /\ \A s \in Found(index[i]) :
         ino[s].writer = None => ino[s].size = disk[index[i]].size

\* The assertions other than those of reference counts hold as long as clients
\* do not use an object while they delete it (inode.c:107, 311, 370, 394,
\* super.c:555, 626, balloc.c:89).
AssertionsHold == \A t \in Threads : pc[t] # "bug"

\* An inode that is looked up or released has a reference: the assertions of
\* nkfs_inode_ref and nkfs_inode_deref (inode.c:56, 62).
RefAssertion == \A t \in Threads : pc[t] # "refbug"
=============================================================================
