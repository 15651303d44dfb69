------------------------------ MODULE StoreInv ------------------------------
(***************************************************************************)
(* The inductive invariant of module Store, in two parts, and what its     *)
(* steps do in the words of that invariant.                                *)
(***************************************************************************)
EXTENDS Store

(* The inductive invariant of the reference counts and of the cache.       *)
PCs == { "idle", "find", "lookup", "load", "insert", "inc", "have", "read", "data",
         "plock", "pwrite", "dkey", "del", "remove", "free", "calloc", "cwrite",
         "cinsert", "ckey", "cdel", "cremove", "cfree", "deref", "release", "bug",
         "refbug" }

Ops == { "none", "create", "get", "put", "query", "delete" }

Inode == [ alive : BOOLEAN, id : Ids \cup {None}, block : Block, size : Nat,
           dirty : BOOLEAN, ref : Nat, writer : Threads \cup {None}, held : Nat ]

Request == [ op : Ops, id : Ids \cup {None}, block : Block, slot : Slots \cup {None},
             end : Nat, ok : BOOLEAN ]

Types ==
  /\ index \in [Ids -> Block \cup {None}]
  /\ marked \subseteq Block
  /\ disk \in [Block -> [ id : Ids \cup {None}, size : Nat ]]
  /\ ino \in [Slots -> Inode]
  /\ cached \subseteq Slots
  /\ pc \in [Threads -> PCs]
  /\ req \in [Threads -> Request]
  /\ fresh \subseteq Ids /\ known \subseteq Ids \cup {None}
  /\ acked \in [Ids -> Nat]
  /\ failed \subseteq Ids \cup {None} /\ stale \subseteq Ids \cup {None}

\* Where a request has no inode yet, and where it has one that others cannot find.
NoSlotPCs == { "idle", "find", "lookup", "load", "calloc" }

OwnPCs == { "insert", "cwrite", "cinsert", "cdel", "cremove", "cfree" }

\* Where a request has the rw_sem of its inode for writing.
WritePCs == { "pwrite", "remove", "free", "cremove", "cfree" }

At(t, s) == req[t].slot = s

\* The references of inode s.
CountOK(s) ==
  ino[s].alive => ino[s].ref = Cardinality({ t \in Threads : Holds(t, s) })

\* An inode in memory has a request that holds it or one that frees it; a cached
\* one is in memory and has a block.
KeptOK(s) ==
  /\ ino[s].alive => \E t \in Threads : Holds(t, s) \/ Leaves(t, s)
  /\ s \in cached => ino[s].alive /\ ino[s].block # 0
  /\ ino[s].alive /\ ino[s].block # 0 /\ s \notin cached =>
       \E t \in Threads : At(t, s) /\ pc[t] \in OwnPCs \cup {"free", "bug"}

\* What request t can rely on of its inode s.
HandOK(t, s) ==
  /\ pc[t] # "refbug" => ino[s].alive
  /\ pc[t] = "inc" => s \in cached
  /\ pc[t] = "free" => s \notin cached
  /\ pc[t] = "release" => ino[s].ref = 0
  /\ pc[t] \in OwnPCs => s \notin cached
  /\ pc[t] \in OwnPCs \cup {"pwrite"} => ino[s].block # 0
  /\ pc[t] \in WritePCs => ino[s].writer = t
  /\ pc[t] = "insert" => ino[s].block = req[t].block

\* Two requests with the same inode: it is not new to one, and one frees it.
PairOK(t, u) == pc[t] \notin OwnPCs /\ (pc[t] = "release" => pc[u] # "release")

SlotOK(s) ==
  /\ CountOK(s)
  /\ KeptOK(s)
  /\ \A t \in Threads : At(t, s) => HandOK(t, s)
  /\ \A t, u \in Threads : t # u /\ At(t, s) /\ At(u, s) => PairOK(t, u)

\* No two cached inodes have the same block.
Distinct == \A s, r \in cached : ino[s].block = ino[r].block => s = r

\* What a request has at each point.
ReqOK(t) ==
  /\ req[t].slot = None <=> pc[t] \in NoSlotPCs
  /\ pc[t] # "idle" => req[t].id \in Ids

CInv ==
  /\ Types
  /\ \A t \in Threads : ReqOK(t)
  /\ \A s \in Slots : SlotOK(s)
  /\ Distinct
  /\ disk[0] = NoInode

(* How threads, inodes and the cache can change.                           *)
\* Only thread t moves; only inode s changes.
Only(t) == \A u \in Threads \ {t} : pc'[u] = pc[u] /\ req'[u] = req[u]

OnlyAt(s) ==
  \A r \in Slots \ {s} : ino'[r] = ino[r] /\ (r \in cached' <=> r \in cached)

\* The requests with inode s, and inode s, stay as they are.
SameAt(s) ==
  /\ ino'[s] = ino[s] /\ (s \in cached' <=> s \in cached)
  /\ \A u \in Threads : (At(u, s)' <=> At(u, s)) /\
                        (At(u, s) => pc'[u] = pc[u] /\ req'[u].block = req[u].block)

(* Requests and inodes, field by field.                                    *)
\* The request of t keeps what it is about.
SameReq(t) ==
  /\ req'[t].op = req[t].op /\ req'[t].id = req[t].id /\ req'[t].end = req[t].end

\* Inode s keeps what it is.
SameIno(s) ==
  /\ ino'[s].alive = ino[s].alive /\ ino'[s].id = ino[s].id /\ ino'[s].ref = ino[s].ref

OtherReqs(t) == req' \in [Threads -> Request] /\ \A u \in Threads \ {t} : req'[u] = req[u]

OtherInos(s) == ino' \in [Slots -> Inode] /\ \A r \in Slots \ {s} : ino'[r] = ino[r]

(* What each step does, for the proofs that follow.                        *)
Goes(t, l, m) == pc[t] = l /\ pc'[t] = m /\ Only(t)

KeepReq(t) == SameReq(t) /\ req'[t].slot = req[t].slot /\ req'[t].block = req[t].block

(* The inductive invariant of the objects, when clients do not use an      *)
(* object while they delete it and the tree of inodes does not fail.       *)
Careful == ~Overlap /\ "tree" \notin Failures

Uncreated == { "calloc", "cwrite", "cinsert", "ckey", "cdel", "cremove", "cfree" }

Clients == { "get", "put", "query" }

\* Which requests can be where.
OpOK(t) ==
  /\ pc[t] # "bug"
  /\ pc[t] = "idle" <=> req[t].op = "none"
  /\ pc[t] = "idle" <=> req[t].id = None
  /\ pc[t] \in Uncreated => req[t].op = "create"
  /\ pc[t] = "dkey" => req[t].op = "delete"
  /\ pc[t] = "read" => req[t].op = "get"
  /\ pc[t] \in {"data", "plock", "pwrite"} => req[t].op = "put"
  /\ pc[t] \in {"del", "remove", "free"} => req[t].op \in {"create", "delete"}
  /\ pc[t] \in {"find", "lookup", "load", "insert", "inc", "have", "refbug"}
       => req[t].op \in Clients \cup {"delete"}
  /\ req[t].op = "put" /\ req[t].ok => pc[t] \in {"deref", "release"}

\* An object is created once, and known to clients afterwards.
BornOK ==
  /\ fresh \cap known = {}
  /\ \A i \in Ids : (index[i] # None => i \notin fresh) /\ (acked[i] > 0 => i \in known)
  /\ \A t \in Threads : req[t].op = "create" => req[t].id \notin fresh \cup known
  /\ \A t \in Threads : req[t].op \in Clients \cup {"delete"} => req[t].id \in known
  /\ \A t, u \in Threads : t # u /\ req[t].op \in {"create", "delete"} => req[u].id # req[t].id

\* The request works on an object of the tree, through the block it was found by.
InTree(t) ==
  \/ req[t].op \in Clients /\ pc[t] # "find"
  \/ pc[t] \in {"lookup", "load", "insert", "inc", "have", "dkey"}

\* The request has a block that no object of the tree has: one that is being
\* created or deleted.
Outside(t) == pc[t] \in (Uncreated \ {"calloc"}) \cup {"del", "remove", "free"}

\* The request ends, and its object is in the tree, or it is not and has no block.
Ending(t) == pc[t] \in {"deref", "release"} /\ req[t].op \in {"create", "delete"}

\* What request t can rely on of its object.
ObjectOK(t) ==
  /\ InTree(t) =>
       /\ index[req[t].id] = req[t].block
       /\ pc[t] \notin NoSlotPCs \cup {"refbug"} =>
            My(t).block = req[t].block /\ My(t).id = req[t].id
  /\ pc[t] = "calloc" => index[req[t].id] = None
  /\ Outside(t) =>
       /\ My(t).id = req[t].id /\ My(t).block \in marked \ {0}
       /\ \A i \in Ids : index[i] # My(t).block
       /\ index[req[t].id] = None
  /\ Ending(t) =>
       /\ My(t).id = req[t].id
       /\ My(t).block = 0 \/ index[req[t].id] = My(t).block
  /\ pc[t] \in {"have", "read", "data", "plock", "pwrite", "dkey", "ckey", "del", "remove"}
       => req[t].slot \in cached
  /\ pc[t] \in {"deref", "release"} /\ My(t).block # 0 => req[t].slot \in cached
  /\ pc[t] \in {"cwrite", "cinsert", "ckey"} => My(t).size = 0
  /\ pc[t] = "pwrite" => My(t).size = req[t].end
  /\ pc[t] \in {"cinsert", "ckey"} => disk[My(t).block] = [ id |-> req[t].id, size |-> 0 ]

OwnersOK ==
  \A t, u \in Threads : t # u /\ Outside(t) /\ Outside(u) => My(t).block # My(u).block

\* Of a cached inode and its copy on the device.
Current(i) ==
  /\ disk[index[i]].size >= acked[i]
  /\ \A s \in Found(index[i]) :
       /\ ino[s].size >= disk[index[i]].size
       /\ ino[s].writer = None => ino[s].size = disk[index[i]].size
  /\ \A t \in Threads : req[t].id = i /\ req[t].op = "put" /\ req[t].ok =>
       disk[index[i]].size >= req[t].end

SizesOK == \A i \in Ids \ (failed \cup stale) : index[i] # None => Current(i)

LockOK ==
  \A s \in Slots : \A t \in Threads : ino[s].writer = t => At(t, s) /\ pc[t] \in WritePCs

OInv ==
  /\ \A t \in Threads : OpOK(t) /\ ObjectOK(t)
  /\ BornOK
  /\ 0 \in marked
  /\ OwnersOK
  /\ IndexSound
  /\ NoBlockLeaks
  /\ LockOK
  /\ SizesOK
  /\ restarts \in Nat

(* What a step of one request leaves to the others.                        *)
\* Of its object, its inode and its block.
Left(u) ==
  /\ pc[u] # "idle" => index'[req[u].id] = index[req[u].id]
  /\ pc[u] \notin NoSlotPCs \cup {"refbug"} =>
       /\ ino'[req[u].slot].id = My(u).id /\ ino'[req[u].slot].block = My(u).block
       /\ req[u].slot \in cached => req[u].slot \in cached'
       /\ pc[u] = "pwrite" \/ Outside(u) => ino'[req[u].slot].size = My(u).size
  /\ Outside(u) =>
       /\ \A i \in Ids : index'[i] # My(u).block
       /\ My(u).block \in marked' /\ disk'[My(u).block] = disk[My(u).block]

\* Inode s keeps its object.
KeepsObject(s) ==
  ino'[s].id = ino[s].id /\ ino'[s].block = ino[s].block /\ (s \in cached => s \in cached')

OtherSlotsKept(s) == \A r \in Slots \ {s} : ino'[r] = ino[r] /\ (r \in cached <=> r \in cached')

\* What a step of t may do to inode s.
Gentle(t, s) ==
  \/ \A u \in Threads \ {t} : At(u, s) => pc[u] = "refbug"
  \/ /\ KeepsObject(s)
     /\ \/ ino'[s].size = ino[s].size
        \/ At(t, s) /\ pc[t] # "refbug" /\ ino[s].writer = None

\* The sizes of objects, on the device and in memory.
SizeKept(i, s) ==
  \/ /\ s \in cached /\ ino[s].block = index[i] /\ ino'[s].size = ino[s].size
     /\ ino'[s].writer = None => ino[s].writer = None
  \/ /\ ino'[s].size >= disk[index[i]].size
     /\ ino'[s].writer = None => ino'[s].size = disk[index[i]].size

(* What the steps do to the state, as far as the proofs need it.           *)
CreateStartDid(t) ==
  /\ Types' /\ Goes(t, "idle", "calloc")
  /\ \E i \in fresh : req'[t].op = "create" /\ req'[t].id = i /\ fresh' = fresh \ {i}
  /\ req'[t].slot = None /\ ~req'[t].ok
  /\ UNCHANGED << store, ino, cached, known, restarts, hist >>

StartDid(t, op, i, end) ==
  /\ Types' /\ Goes(t, "idle", "find")
  /\ req'[t].op = op /\ req'[t].id = i /\ req'[t].end = end
  /\ req'[t].slot = None /\ ~req'[t].ok
  /\ i \in known
  /\ UNCHANGED << store, ino, cached, world, hist >>

ReturnDid(t, ok) ==
  /\ Types' /\ pc'[t] = "idle" /\ Only(t)
  /\ req'[t] = NoReq /\ req'[t].slot = None

FindDid(t) ==
  \/ /\ Types' /\ Goes(t, "find", "lookup") /\ SameReq(t)
     /\ req'[t].slot = req[t].slot /\ req'[t].block = index[req[t].id]
     /\ index[req[t].id] # None /\ req'[t].ok = req[t].ok
     /\ UNCHANGED << store, ino, cached, mode, fresh, restarts, known, hist >>
  \/ /\ pc[t] = "find" /\ Return(t, FALSE)
     /\ UNCHANGED << store, ino, cached, mode, fresh, restarts, failed, stale >>

LookupDid(t) ==
  /\ Types' /\ Only(t) /\ SameReq(t) /\ pc[t] = "lookup"
  /\ req'[t].block = req[t].block /\ req'[t].ok = req[t].ok
  /\ UNCHANGED << store, ino, cached, world, hist >>
  /\ \/ Found(req[t].block) = {} /\ pc'[t] = "load" /\ req'[t].slot = req[t].slot
     \/ /\ req'[t].slot \in Found(req[t].block)
        /\ pc'[t] = IF ino[req'[t].slot].ref <= 0 THEN "refbug" ELSE "inc"

RefIncDid(t) ==
  /\ Types' /\ Only(t) /\ req' = req /\ pc[t] = "inc"
  /\ req[t].slot \in Slots
  /\ UNCHANGED << store, cached, world, hist >>
  /\ \/ /\ My(t).ref > 0 /\ pc'[t] = "have" /\ OtherInos(req[t].slot)
        /\ ino'[req[t].slot].ref = My(t).ref + 1
        /\ ino'[req[t].slot].alive = My(t).alive /\ ino'[req[t].slot].id = My(t).id
        /\ ino'[req[t].slot].block = My(t).block /\ ino'[req[t].slot].size = My(t).size
        /\ ino'[req[t].slot].writer = My(t).writer
     \/ pc'[t] = "refbug" /\ ino' = ino

LoadDid(t) ==
  \/ /\ Types' /\ Goes(t, "load", "insert") /\ SameReq(t)
     /\ req'[t].block = req[t].block /\ req'[t].ok = req[t].ok
     /\ disk[req[t].block] # NoInode
     /\ req'[t].slot \in FreeSlots /\ OtherInos(req'[t].slot)
     /\ LET n == ino'[req'[t].slot]
        IN  /\ n.alive /\ n.ref = 1 /\ n.id = disk[req[t].block].id
            /\ n.block = req[t].block /\ n.size = disk[req[t].block].size
            /\ n.writer = None
     /\ UNCHANGED << store, cached, mode, fresh, restarts, known, hist >>
  \/ /\ pc[t] = "load" /\ Return(t, FALSE)
     /\ UNCHANGED << store, ino, cached, mode, fresh, restarts, failed, stale >>

InsertDid(t) ==
  /\ Types' /\ Only(t) /\ SameReq(t) /\ pc[t] = "insert"
  /\ req[t].slot \in Slots /\ InodesUnlocked
  /\ req'[t].block = req[t].block /\ req'[t].ok = req[t].ok
  /\ UNCHANGED << store, world, acked, failed >>
  /\ \/ /\ req'[t].slot \in Found(req[t].block)
        /\ pc'[t] = IF ino[req'[t].slot].ref <= 0 THEN "refbug" ELSE "inc"
        /\ OtherInos(req[t].slot) /\ ino'[req[t].slot] = Freed
        /\ UNCHANGED << cached, stale >>
     \/ /\ Found(req[t].block) = {} /\ cached' = cached \cup {req[t].slot}
        /\ pc'[t] = "have" /\ UNCHANGED << ino, req >>
        /\ stale' = IF My(t).size # disk[req[t].block].size
                    THEN stale \cup {My(t).id} ELSE stale

DerefDid(t) ==
  /\ Types' /\ Only(t) /\ pc[t] = "deref" /\ req[t].slot \in Slots
  /\ UNCHANGED << store, cached, mode, fresh, restarts, failed, stale >>
  /\ \/ /\ My(t).ref <= 0 /\ pc'[t] = "refbug" /\ UNCHANGED << ino, req, known, acked >>
     \/ /\ My(t).ref > 0
        /\ OtherInos(req[t].slot)
        /\ ino'[req[t].slot].ref = My(t).ref - 1
        /\ ino'[req[t].slot].alive = My(t).alive /\ ino'[req[t].slot].id = My(t).id
        /\ ino'[req[t].slot].block = My(t).block /\ ino'[req[t].slot].size = My(t).size
        /\ ino'[req[t].slot].writer = My(t).writer
        /\ IF My(t).ref = 1
           THEN pc'[t] = "release" /\ UNCHANGED << req, known, acked >>
           ELSE Return(t, req[t].ok) /\ pc'[t] = "idle" /\ req'[t] = NoReq

ReleaseDid(t) ==
  /\ Types' /\ Only(t) /\ pc[t] = "release" /\ req[t].slot \in Slots
  /\ InodesUnlocked
  /\ UNCHANGED << store, mode, fresh, restarts, failed, stale >>
  /\ \/ /\ InodesRemove(t) /\ Return(t, req[t].ok)
        /\ OtherInos(req[t].slot) /\ ino'[req[t].slot] = Freed
        /\ pc'[t] = "idle" /\ req'[t] = NoReq
     \/ /\ ~(Found(My(t).block) \subseteq {req[t].slot})
        /\ pc'[t] = "bug" /\ UNCHANGED << ino, cached, req, known, acked >>

DeleteLockDid(t) ==
  /\ Types' /\ Only(t) /\ pc[t] \in {"del", "cdel"} /\ req[t].slot \in Slots
  /\ pc'[t] = IF pc[t] = "del" THEN "remove" ELSE "cremove"
  /\ OtherInos(req[t].slot) /\ SameIno(req[t].slot)
  /\ ino'[req[t].slot].block = My(t).block /\ ino'[req[t].slot].size = My(t).size
  /\ My(t).writer = None /\ ino'[req[t].slot].writer = t
  /\ UNCHANGED << store, cached, req, world, hist >>

DeleteRemoveDid(t) ==
  /\ Types' /\ Only(t) /\ pc[t] \in {"remove", "cremove"} /\ req[t].slot \in Slots
  /\ InodesUnlocked
  /\ \/ InodesRemove(t) /\ pc'[t] = IF pc[t] = "remove" THEN "free" ELSE "cfree"
     \/ /\ ~(Found(My(t).block) \subseteq {req[t].slot})
        /\ pc'[t] = "bug" /\ UNCHANGED cached
  /\ UNCHANGED << store, ino, req, world, hist >>

DeleteFreeDid(t) ==
  /\ Types' /\ Only(t) /\ pc[t] \in {"free", "cfree"} /\ req[t].slot \in Slots
  /\ UNCHANGED << index, disk, cached, mode, fresh, restarts, stale >>
  /\ \/ /\ My(t).block \notin marked /\ pc'[t] = "bug"
        /\ UNCHANGED << marked, ino, req, failed, known, acked >>
     \/ /\ My(t).block \in marked
        /\ \/ marked' = marked \ {My(t).block} /\ UNCHANGED failed
           \/ failed' = failed \cup {My(t).id} /\ UNCHANGED marked
        /\ OtherInos(req[t].slot)
        /\ \/ /\ pc[t] = "free" /\ pc'[t] = "deref" /\ SameIno(req[t].slot)
              /\ ino'[req[t].slot].block = 0 /\ ino'[req[t].slot].size = 0
              /\ ino'[req[t].slot].writer = None
              /\ UNCHANGED << req, known, acked >>
           \/ /\ pc[t] = "cfree" /\ Return(t, FALSE) /\ ino'[req[t].slot] = Freed
              /\ pc'[t] = "idle" /\ req'[t] = NoReq

CreateAllocDid(t) ==
  \/ /\ Types' /\ Only(t) /\ SameReq(t) /\ pc[t] = "calloc" /\ req'[t].ok = req[t].ok
     /\ req'[t].slot \in FreeSlots /\ OtherInos(req'[t].slot)
     /\ LET n == ino'[req'[t].slot]
        IN  /\ n.alive /\ n.ref = 1 /\ n.id = req[t].id
            /\ n.size = 0 /\ n.writer = None
            /\ n.block \in Block \ marked /\ marked' = marked \cup {n.block}
            /\ pc'[t] = IF n.block = 0 THEN "bug" ELSE "cwrite"
     /\ UNCHANGED << index, disk, cached, mode, fresh, restarts, known, hist >>
  \/ /\ pc[t] = "calloc" /\ Return(t, FALSE)
     /\ UNCHANGED << store, ino, cached, mode, fresh, restarts, failed, stale >>

WriteDid(t, fail) ==
  /\ disk' \in [Block -> [ id : Ids \cup {None}, size : Nat ]]
  /\ \A b \in Block : b # My(t).block => disk'[b] = disk[b]
  /\ \/ disk'[My(t).block] = [ id |-> My(t).id, size |-> My(t).size ]
     \/ fail /\ disk' = disk

CreateWriteDid(t) ==
  /\ Types' /\ Only(t) /\ pc[t] = "cwrite" /\ req[t].slot \in Slots
  /\ \A b \in Block : b # My(t).block => disk'[b] = disk[b]
  /\ \/ /\ pc'[t] = "cinsert"
        /\ disk'[My(t).block] = [ id |-> My(t).id, size |-> My(t).size ]
     \/ pc'[t] = "cdel"
  /\ UNCHANGED << index, marked, ino, cached, req, world, hist >>

CreateInsertDid(t) ==
  /\ Types' /\ Only(t) /\ pc[t] = "cinsert" /\ req[t].slot \in Slots
  /\ InodesUnlocked
  /\ \/ Found(My(t).block) = {} /\ cached' = cached \cup {req[t].slot} /\ pc'[t] = "ckey"
     \/ Found(My(t).block) # {} /\ pc'[t] = "bug" /\ UNCHANGED cached
  /\ UNCHANGED << store, ino, req, world, hist >>

CreateKeyDid(t) ==
  /\ Types' /\ Only(t) /\ pc[t] = "ckey" /\ req[t].slot \in Slots
  /\ KeepReq(t)
  /\ \/ /\ index' = [index EXCEPT ![req[t].id] = My(t).block]
        /\ req'[t].ok /\ pc'[t] = "deref"
     \/ pc'[t] = "del" /\ UNCHANGED << index, req >>
  /\ UNCHANGED << marked, disk, ino, cached, world, hist >>

HaveDid(t) ==
  /\ Types' /\ Only(t) /\ pc[t] = "have" /\ req[t].slot \in Slots
  /\ \/ /\ req[t].op \in {"get", "put"} /\ My(t).block # req[t].block /\ pc'[t] = "bug"
     \/ req[t].op = "get" /\ pc'[t] \in {"read", "deref"}
     \/ req[t].op = "put" /\ pc'[t] = "data"
     \/ req[t].op = "query" /\ pc'[t] = "deref"
     \/ req[t].op = "delete" /\ pc'[t] = "dkey"
  /\ UNCHANGED << store, ino, cached, req, world, hist >>

ReadDid(t) ==
  /\ Types' /\ Goes(t, "read", "deref") /\ req[t].slot \in Slots
  /\ OtherInos(req[t].slot) /\ SameIno(req[t].slot)
  /\ ino'[req[t].slot].block = My(t).block /\ ino'[req[t].slot].size = My(t).size
  /\ ino'[req[t].slot].writer = My(t).writer
  /\ UNCHANGED << store, cached, req, world, hist >>

PutDataDid(t) ==
  /\ Types' /\ Only(t) /\ pc[t] = "data" /\ req[t].slot \in Slots
  /\ pc'[t] \in {"plock", "deref"}
  /\ UNCHANGED << store, ino, cached, req, world, hist >>

PutSizeDid(t) ==
  /\ Types' /\ Only(t) /\ pc[t] = "plock" /\ req[t].slot \in Slots /\ KeepReq(t)
  /\ My(t).writer = None
  /\ \/ /\ req[t].end > My(t).size
        /\ OtherInos(req[t].slot) /\ SameIno(req[t].slot)
        /\ ino'[req[t].slot].block = My(t).block
        /\ ino'[req[t].slot].size = req[t].end /\ ino'[req[t].slot].writer = t
        /\ pc'[t] = IF My(t).block = 0 THEN "bug" ELSE "pwrite"
        /\ UNCHANGED req
     \/ req[t].end <= My(t).size /\ req'[t].ok /\ pc'[t] = "deref" /\ UNCHANGED ino
  /\ UNCHANGED << store, cached, world, hist >>

PutWriteDid(t) ==
  /\ Types' /\ Goes(t, "pwrite", "deref") /\ req[t].slot \in Slots /\ KeepReq(t)
  /\ OtherInos(req[t].slot) /\ SameIno(req[t].slot)
  /\ ino'[req[t].slot].block = My(t).block /\ ino'[req[t].slot].size = My(t).size
  /\ ino'[req[t].slot].writer = None
  /\ \A b \in Block : b # My(t).block => disk'[b] = disk[b]
  /\ \/ disk'[My(t).block] = [ id |-> My(t).id, size |-> My(t).size ]
     \/ disk' = disk /\ failed' = failed \cup {My(t).id}
  /\ failed' = failed \/ (failed' = failed \cup {My(t).id} /\ ~req'[t].ok)
  /\ UNCHANGED << index, marked, cached, world, acked, stale >>

DeleteKeyDid(t) ==
  /\ Types' /\ Goes(t, "dkey", "del") /\ req[t].slot \in Slots /\ KeepReq(t)
  /\ \/ index' = [index EXCEPT ![My(t).id] = None] /\ UNCHANGED failed
     \/ "tree" \in Failures /\ failed' = failed \cup {My(t).id} /\ UNCHANGED index
  /\ UNCHANGED << marked, disk, ino, cached, world, acked, stale >>

\* What the counts say of an inode that a request holds, and of one that a
\* request is about to free.
HeldCounted == \A t \in Threads : \A s \in Slots :
  /\ Holds(t, s) => ino[s].alive /\ ino[s].ref > 0
  /\ At(t, s) /\ pc[t] = "release" /\ InodesUnlocked =>
       /\ \A u \in Threads \ {t} : At(u, s) => pc[u] = "refbug"
       /\ Found(ino[s].block) \subseteq {s}

=============================================================================
