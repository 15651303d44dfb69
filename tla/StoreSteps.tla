----------------------------- MODULE StoreSteps -----------------------------
(***************************************************************************)
(* What the steps of module Store do (StepsDo), and why each of them keeps *)
(* the objects of the tree, their blocks and their sizes sound             *)
(* (ObjectsKept).  Module StoreProofs has the counts of references.        *)
(***************************************************************************)
EXTENDS StoreInv, TLAPS

\* GoTo and the places of pc.
LEMMA GoesTo ==
  ASSUME Types, NEW t \in Threads, NEW l \in PCs, GoTo(t, l)
  PROVE  /\ pc' \in [Threads -> PCs] /\ pc'[t] = l
         /\ \A u \in Threads \ {t} : pc'[u] = pc[u]
BY DEF Types, GoTo

\* The request of t becomes r.
LEMMA ReqTo ==
  ASSUME Types, NEW t \in Threads, NEW r \in Request, req' = [req EXCEPT ![t] = r]
  PROVE  /\ req' \in [Threads -> Request] /\ req'[t] = r
         /\ \A u \in Threads \ {t} : req'[u] = req[u]
BY Zenon DEF Types

\* The records the actions begin with.
LEMMA Records == NoReq \in Request /\ Freed \in Inode /\ NoReq.slot = None /\ ~Freed.alive
                 /\ Freed.block = 0 /\ Freed.writer = None
<1>1. 0 \in Block
  BY BoundAssumption DEF Block
<1> QED
  BY <1>1 DEF NoReq, Request, Ops, Freed, Inode

\* What Return leaves.
LEMMA Returned ==
  ASSUME Types, NEW t \in Threads, NEW ok \in BOOLEAN, Return(t, ok)
  PROVE  /\ pc' \in [Threads -> PCs] /\ pc'[t] = "idle"
         /\ req' \in [Threads -> Request] /\ req'[t] = NoReq /\ req'[t].slot = None
         /\ Only(t)
         /\ known' \subseteq Ids \cup {None} /\ acked' \in [Ids -> Nat]
<1>1. /\ pc' \in [Threads -> PCs] /\ pc'[t] = "idle"
      /\ \A u \in Threads \ {t} : pc'[u] = pc[u]
  <2>1. "idle" \in PCs /\ GoTo(t, "idle")
    BY DEF PCs, Return
  <2> QED
    BY <2>1, GoesTo, Zenon
<1>2. /\ req' \in [Threads -> Request] /\ req'[t] = NoReq
      /\ \A u \in Threads \ {t} : req'[u] = req[u]
  <2>1. req' = [req EXCEPT ![t] = NoReq]
    BY DEF Return
  <2> QED
    BY <2>1, ReqTo, Records, Zenon
<1>3. req[t] \in Request
  BY DEF Types
<1>4. known' \subseteq Ids \cup {None}
  <2>1. req[t].id \in Ids \cup {None}
    BY <1>3 DEF Request
  <2>2. known' = known \/ known' = known \cup {req[t].id}
    BY Zenon DEF Return
  <2> QED
    BY <2>1, <2>2 DEF Types
<1>5. acked' \in [Ids -> Nat]
  <2>1. req[t].end \in Nat
    BY <1>3 DEF Request
  <2>2. acked' = acked \/ acked' = [acked EXCEPT ![req[t].id] = req[t].end]
    BY Zenon DEF Return
  <2>3. acked \in [Ids -> Nat]
    BY DEF Types
  <2> QED
    BY <2>1, <2>2, <2>3, Zenon
<1> QED
  BY <1>1, <1>2, <1>4, <1>5, Records, Zenon DEF Only

\* A slot whose view does not change stays as it is.
LEMMA SameSlot ==
  ASSUME NEW s \in Slots, SlotOK(s), SameAt(s)
  PROVE  SlotOK(s)'
<1>1. \A u \in Threads : (Holds(u, s)' <=> Holds(u, s)) /\ (Leaves(u, s)' <=> Leaves(u, s))
  BY Zenon DEF SameAt, At, Holds, Leaves
<1>2. CountOK(s)'
  <2>1. { t \in Threads : Holds(t, s)' } = { t \in Threads : Holds(t, s) }
    BY <1>1, Zenon
  <2> QED
    BY <2>1, Zenon DEF SlotOK, CountOK, SameAt
<1>3. KeptOK(s)'
  BY <1>1, Zenon DEF SlotOK, KeptOK, SameAt
<1>4. ASSUME NEW t \in Threads, At(t, s)'
      PROVE  HandOK(t, s)'
  <2>1. At(t, s) /\ pc'[t] = pc[t] /\ req'[t].block = req[t].block
    BY <1>4, Zenon DEF SameAt
  <2>2. HandOK(t, s)
    BY <2>1, Zenon DEF SlotOK
  <2> QED
    BY <2>1, <2>2, Zenon DEF HandOK, SameAt
<1>5. ASSUME NEW t \in Threads, NEW u \in Threads, t # u, At(t, s)', At(u, s)'
      PROVE  PairOK(t, u)'
  <2>1. At(t, s) /\ pc'[t] = pc[t] /\ At(u, s) /\ pc'[u] = pc[u]
    BY <1>5, Zenon DEF SameAt
  <2>2. PairOK(t, u)
    BY <1>5, <2>1, Zenon DEF SlotOK
  <2> QED
    BY <2>1, <2>2, Zenon DEF PairOK
<1> QED
  BY <1>2, <1>3, <1>4, <1>5, Zenon DEF SlotOK

\* A thread that moves leaves all other inodes than its own as they are.
LEMMA OtherSlots ==
  ASSUME CInv, NEW t \in Threads, Only(t), NEW r \in Slots, r # req[t].slot, r # req'[t].slot,
         ino'[r] = ino[r], r \in cached' <=> r \in cached
  PROVE  SlotOK(r)'
<1>1. SameAt(r)
  BY Zenon DEF SameAt, At, Only
<1> QED
  BY <1>1, SameSlot, Zenon DEF CInv

\* The fields of a request and of its inode.
LEMMA Fields ==
  ASSUME Types, NEW t \in Threads
  PROVE  /\ req[t].op \in Ops /\ req[t].id \in Ids \cup {None} /\ req[t].block \in Block
         /\ req[t].slot \in Slots \cup {None} /\ req[t].end \in Nat /\ req[t].ok \in BOOLEAN
BY DEF Types, Request

\* The fields of an inode have their types.
LEMMA InoFields ==
  ASSUME Types, NEW s \in Slots
  PROVE  /\ ino[s].alive \in BOOLEAN /\ ino[s].id \in Ids \cup {None} /\ ino[s].block \in Block
         /\ ino[s].size \in Nat /\ ino[s].ref \in Nat /\ ino[s].writer \in Threads \cup {None}
BY DEF Types, Inode

\* A request that has got beyond the lookup has an inode.
LEMMA HasSlot ==
  ASSUME CInv, NEW t \in Threads, pc[t] \notin NoSlotPCs
  PROVE  req[t].slot \in Slots /\ At(t, req[t].slot) /\ Types
<1>1. Types /\ req[t].slot # None
  BY Zenon DEF CInv, ReqOK
<1> QED
  BY <1>1, Fields, Zenon DEF At

\* What each step does to the state while the counts and the cache are in order:
\* action X does what XDid of module StoreInv says.
LEMMA StepsDo ==
  \A t \in Threads :
    /\ Types =>
       /\ CreateStart(t) => CreateStartDid(t)
       /\ \A op \in Ops : \A i \in Ids : \A end \in Nat : Start(t, op, i, end) => StartDid(t, op, i, end)
       /\ \A ok \in BOOLEAN : Return(t, ok) /\ UNCHANGED << store, ino, cached, fresh, failed, stale >>
                                => ReturnDid(t, ok)
    /\ CInv =>
       /\ Find(t) => FindDid(t)
       /\ Lookup(t) => LookupDid(t)
       /\ RefInc(t) => RefIncDid(t)
       /\ Load(t) => LoadDid(t)
       /\ Insert(t) => InsertDid(t)
       /\ Deref(t) => DerefDid(t)
       /\ Release(t) => ReleaseDid(t)
       /\ DeleteLock(t) => DeleteLockDid(t)
       /\ DeleteRemove(t) => DeleteRemoveDid(t)
       /\ DeleteFree(t) => DeleteFreeDid(t)
       /\ CreateAlloc(t) => CreateAllocDid(t)
       /\ CreateWrite(t) => CreateWriteDid(t)
       /\ CreateInsert(t) => CreateInsertDid(t)
       /\ CreateKey(t) => CreateKeyDid(t)
       /\ Have(t) => HaveDid(t)
       /\ Read(t) => ReadDid(t)
       /\ PutData(t) => PutDataDid(t)
       /\ PutSize(t) => PutSizeDid(t)
       /\ PutWrite(t) => PutWriteDid(t)
       /\ DeleteKey(t) => DeleteKeyDid(t)

  \* Inode s becomes n.
<1>InoTo.
    ASSUME Types, NEW s \in Slots, NEW n \in Inode, ino' = [ino EXCEPT ![s] = n]
    PROVE  /\ ino' \in [Slots -> Inode] /\ ino'[s] = n
           /\ \A r \in Slots \ {s} : ino'[r] = ino[r]
  BY <1>InoTo, Zenon DEF Types

  \* A request gets an inode, a block, or succeeds.
<1>ReqSlot.
    ASSUME Types, NEW t \in Threads, NEW s \in Slots, req' = [req EXCEPT ![t].slot = s]
    PROVE  /\ OtherReqs(t) /\ SameReq(t)
           /\ req'[t].slot = s /\ req'[t].block = req[t].block /\ req'[t].ok = req[t].ok
  BY <1>ReqSlot, Zenon DEF Types, Request, OtherReqs, SameReq

<1>ReqOk.
    ASSUME Types, NEW t \in Threads, NEW b \in BOOLEAN, req' = [req EXCEPT ![t].ok = b]
    PROVE  /\ OtherReqs(t) /\ SameReq(t)
           /\ req'[t].slot = req[t].slot /\ req'[t].block = req[t].block /\ req'[t].ok = b
  BY <1>ReqOk, Zenon DEF Types, Request, OtherReqs, SameReq

<1>ReqBlock.
    ASSUME Types, NEW t \in Threads, NEW b \in Block, req' = [req EXCEPT ![t].block = b]
    PROVE  /\ OtherReqs(t) /\ SameReq(t)
           /\ req'[t].slot = req[t].slot /\ req'[t].block = b /\ req'[t].ok = req[t].ok
  BY <1>ReqBlock, Zenon DEF Types, Request, OtherReqs, SameReq

  \* A new request.
<1>ReqNew.
    ASSUME Types, NEW t \in Threads, NEW op \in Ops, NEW i \in Ids, NEW end \in Nat,
           req' = [req EXCEPT ![t] = [NoReq EXCEPT !.op = op, !.id = i, !.end = end]]
    PROVE  /\ OtherReqs(t)
           /\ req'[t].op = op /\ req'[t].id = i /\ req'[t].end = end
           /\ req'[t].slot = None /\ ~req'[t].ok
  <2> USE <1>ReqNew
  <2>1. PICK r : r = [NoReq EXCEPT !.op = op, !.id = i, !.end = end]
    BY Zenon
  <2>2. r = [op |-> op, id |-> i, block |-> 0, slot |-> None, end |-> end, ok |-> FALSE]
    BY Zenon, <2>1 DEF NoReq
  <2>3. r \in Request
    BY <2>2, BoundAssumption DEF Request, Block
  <2>4. req' \in [Threads -> Request] /\ req'[t] = r /\ \A u \in Threads \ {t} : req'[u] = req[u]
    BY <2>1, <2>3, ReqTo, Zenon
  <2>5. r.op = op /\ r.id = i /\ r.end = end /\ r.slot = None /\ ~r.ok
    BY <2>2
  <2> QED
    BY <2>4, <2>5, Zenon DEF OtherReqs

  \* Reference counts, rw_sem and sizes.
<1>InoRef.
    ASSUME Types, NEW s \in Slots, NEW n \in Nat, ino' = [ino EXCEPT ![s].ref = n]
    PROVE  /\ OtherInos(s)
           /\ ino'[s].alive = ino[s].alive /\ ino'[s].id = ino[s].id /\ ino'[s].ref = n
           /\ ino'[s].block = ino[s].block /\ ino'[s].size = ino[s].size
           /\ ino'[s].writer = ino[s].writer
  BY <1>InoRef, ZenonT(60) DEF Types, Inode, OtherInos

<1>InoWriter.
    ASSUME Types, NEW s \in Slots, NEW w \in Threads, ino' = [ino EXCEPT ![s].writer = w]
    PROVE  /\ OtherInos(s) /\ SameIno(s)
           /\ ino'[s].block = ino[s].block /\ ino'[s].size = ino[s].size
           /\ ino'[s].writer = w
  BY Zenon, <1>InoWriter DEF Types, Inode, OtherInos, SameIno

<1>InoHeld.
    ASSUME Types, NEW s \in Slots, NEW n \in Nat, ino' = [ino EXCEPT ![s].held = n]
    PROVE  /\ OtherInos(s) /\ SameIno(s)
           /\ ino'[s].block = ino[s].block /\ ino'[s].size = ino[s].size
           /\ ino'[s].writer = ino[s].writer
  BY Zenon, <1>InoHeld DEF Types, Inode, OtherInos, SameIno

  \* A put raises the size; it or a failed write ends; a deleted inode forgets its block.
<1>InoSize.
    ASSUME Types, NEW s \in Slots, NEW n \in Nat, NEW w \in Threads,
           ino' = [ino EXCEPT ![s].size = n, ![s].dirty = TRUE, ![s].writer = w]
    PROVE  /\ OtherInos(s) /\ SameIno(s)
           /\ ino'[s].block = ino[s].block /\ ino'[s].size = n /\ ino'[s].writer = w
  <2> USE <1>InoSize
  <2>1. ino[s] \in Inode /\ 0 \in Block
    BY BoundAssumption DEF Types, Block
  <2>2. PICK m : m = [ino[s] EXCEPT !.size = n, !.dirty = TRUE, !.writer = w]
    BY Zenon
  <2>3. m \in Inode
    BY Zenon, <2>1, <2>2 DEF Inode
  <2>4. /\ m.alive = ino[s].alive /\ m.id = ino[s].id /\ m.ref = ino[s].ref
        /\ m.block = ino[s].block /\ m.size = n /\ m.writer = w
    BY <2>1, <2>2 DEF Inode
  <2>5. ino' = [ino EXCEPT ![s] = m]
    BY Zenon, <2>2
  <2>6. ino' \in [Slots -> Inode] /\ ino'[s] = m /\ \A r \in Slots \ {s} : ino'[r] = ino[r]
    BY <2>3, <2>5, <1>InoTo, Zenon
  <2> QED
    BY <2>4, <2>6, Zenon DEF OtherInos, SameIno

<1>InoClean.
    ASSUME Types, NEW s \in Slots, NEW b \in BOOLEAN,
           ino' = [ino EXCEPT ![s].dirty = b, ![s].writer = None]
    PROVE  /\ OtherInos(s) /\ SameIno(s)
           /\ ino'[s].block = ino[s].block /\ ino'[s].size = ino[s].size /\ ino'[s].writer = None
  <2> USE <1>InoClean
  <2>1. ino[s] \in Inode /\ 0 \in Block
    BY BoundAssumption DEF Types, Block
  <2>2. PICK m : m = [ino[s] EXCEPT !.dirty = b, !.writer = None]
    BY Zenon
  <2>3. m \in Inode
    BY Zenon, <2>1, <2>2 DEF Inode
  <2>4. /\ m.alive = ino[s].alive /\ m.id = ino[s].id /\ m.ref = ino[s].ref
        /\ m.block = ino[s].block /\ m.size = ino[s].size /\ m.writer = None
    BY <2>1, <2>2 DEF Inode
  <2>5. ino' = [ino EXCEPT ![s] = m]
    BY Zenon, <2>2
  <2>6. ino' \in [Slots -> Inode] /\ ino'[s] = m /\ \A r \in Slots \ {s} : ino'[r] = ino[r]
    BY <2>3, <2>5, <1>InoTo, Zenon
  <2> QED
    BY <2>4, <2>6, Zenon DEF OtherInos, SameIno

<1>InoEmpty.
    ASSUME Types, NEW s \in Slots,
           ino' = [ino EXCEPT ![s].block = 0, ![s].size = 0, ![s].writer = None]
    PROVE  /\ OtherInos(s) /\ SameIno(s)
           /\ ino'[s].block = 0 /\ ino'[s].size = 0 /\ ino'[s].writer = None
  <2> USE <1>InoEmpty
  <2>1. ino[s] \in Inode /\ 0 \in Block
    BY BoundAssumption DEF Types, Block
  <2>2. PICK m : m = [ino[s] EXCEPT !.block = 0, !.size = 0, !.writer = None]
    BY Zenon
  <2>3. m \in Inode
    BY Zenon, <2>1, <2>2 DEF Inode
  <2>4. /\ m.alive = ino[s].alive /\ m.id = ino[s].id /\ m.ref = ino[s].ref
        /\ m.block = 0 /\ m.size = 0 /\ m.writer = None
    BY <2>1, <2>2 DEF Inode
  <2>5. ino' = [ino EXCEPT ![s] = m]
    BY Zenon, <2>2
  <2>6. ino' \in [Slots -> Inode] /\ ino'[s] = m /\ \A r \in Slots \ {s} : ino'[r] = ino[r]
    BY <2>3, <2>5, <1>InoTo, Zenon
  <2> QED
    BY <2>4, <2>6, Zenon DEF OtherInos, SameIno

<1>InoNew.
    ASSUME Types, NEW s \in Slots, NEW i \in Ids \cup {None}, NEW b \in Block, NEW n \in Nat,
           ino' = [ino EXCEPT ![s] = New(i, b, n)]
    PROVE  /\ OtherInos(s)
           /\ ino'[s].alive /\ ino'[s].id = i /\ ino'[s].ref = 1 /\ ino'[s].block = b
           /\ ino'[s].size = n /\ ino'[s].writer = None
  <2> USE <1>InoNew
  <2>1. PICK m : m = New(i, b, n)
    BY Zenon
  <2>2. m = [alive |-> TRUE, id |-> i, block |-> b, size |-> n, dirty |-> FALSE,
             ref |-> 1, writer |-> None, held |-> 0]
    BY Zenon, <2>1 DEF New, Freed
  <2>3. m \in Inode
    BY <2>2 DEF Inode
  <2>4. ino' \in [Slots -> Inode] /\ ino'[s] = m /\ \A r \in Slots \ {s} : ino'[r] = ino[r]
    BY <2>1, <2>3, <1>InoTo, Zenon
  <2>5. /\ m.alive /\ m.id = i /\ m.ref = 1 /\ m.block = b /\ m.size = n /\ m.writer = None
    BY <2>2
  <2> QED
    BY <2>4, <2>5, Zenon DEF OtherInos

<1>InoFreed.
    ASSUME Types, NEW s \in Slots, ino' = [ino EXCEPT ![s] = Freed]
    PROVE  OtherInos(s) /\ ino'[s] = Freed /\ ~ino'[s].alive
  BY <1>InoFreed, <1>InoTo, Records, Zenon DEF OtherInos

  \* GoTo with a request that stays as it is.
<1>JustGoes.
    ASSUME Types, NEW t \in Threads, NEW m \in PCs, GoTo(t, m), req' = req
    PROVE  pc' \in [Threads -> PCs] /\ pc'[t] = m /\ Only(t) /\ KeepReq(t)
  BY <1>JustGoes, GoesTo, Zenon DEF Only, KeepReq, SameReq

<1>CreateStartDoes.
    ASSUME Types, NEW t \in Threads, CreateStart(t)
    PROVE  CreateStartDid(t)
  <2> USE <1>CreateStartDoes
  <2> USE DEF CreateStartDid
  <2>1. PICK i \in fresh : /\ req' = [req EXCEPT ![t] = [NoReq EXCEPT !.op = "create", !.id = i]]
                           /\ fresh' = fresh \ {i}
    BY Zenon DEF CreateStart
  <2>2. i \in Ids
    BY <2>1, Zenon DEF Types
  <2>3. PICK r : r = [NoReq EXCEPT !.op = "create", !.id = i]
    BY Zenon
  <2>4. r = [op |-> "create", id |-> i, block |-> 0, slot |-> None, end |-> 0, ok |-> FALSE]
    BY Zenon, <2>3 DEF NoReq
  <2>5. r \in Request
    BY <2>2, <2>4, BoundAssumption DEF Request, Block, Ops
  <2>6. req' \in [Threads -> Request] /\ req'[t] = r /\ \A u \in Threads \ {t} : req'[u] = req[u]
    BY <2>1, <2>3, <2>5, ReqTo, Zenon
  <2>7. r.op = "create" /\ r.id = i /\ r.slot = None /\ ~r.ok
    BY <2>4
  <2>8. "calloc" \in PCs /\ GoTo(t, "calloc") /\ pc[t] = "idle"
    BY DEF PCs, CreateStart
  <2>9. pc' \in [Threads -> PCs] /\ pc'[t] = "calloc" /\ \A u \in Threads \ {t} : pc'[u] = pc[u]
    BY <2>8, GoesTo, Zenon
  <2>10. UNCHANGED << store, ino, cached, known, restarts, hist >>
    BY Zenon DEF CreateStart
  <2>11. Types'
    BY <2>1, <2>6, <2>9, <2>10 DEF Types, store, hist
  <2> QED
    BY <2>1, <2>6, <2>7, <2>8, <2>9, <2>10, <2>11, Zenon DEF Goes, Only

<1>StartDoes.
    ASSUME Types, NEW t \in Threads, NEW op \in Ops, NEW i \in Ids, NEW end \in Nat,
           Start(t, op, i, end)
    PROVE  StartDid(t, op, i, end)
  <2> USE <1>StartDoes
  <2> USE DEF StartDid
  <2>1. /\ OtherReqs(t) /\ req'[t].op = op /\ req'[t].id = i /\ req'[t].end = end
        /\ req'[t].slot = None /\ ~req'[t].ok
    BY <1>ReqNew, Zenon DEF Start
  <2>2. "find" \in PCs /\ GoTo(t, "find") /\ pc[t] = "idle" /\ i \in known
    BY DEF PCs, Start
  <2>3. pc' \in [Threads -> PCs] /\ pc'[t] = "find" /\ \A u \in Threads \ {t} : pc'[u] = pc[u]
    BY <2>2, GoesTo, Zenon
  <2>4. UNCHANGED << store, ino, cached, world, hist >>
    BY Zenon DEF Start
  <2>5. Types'
    BY <2>1, <2>3, <2>4 DEF Types, store, hist, world, OtherReqs
  <2> QED
    BY <2>1, <2>2, <2>3, <2>4, <2>5, Zenon DEF Goes, Only, OtherReqs

  \* A request that ends before it has an inode.
<1>ReturnDoes.
    ASSUME Types, NEW t \in Threads, NEW ok \in BOOLEAN, Return(t, ok),
           UNCHANGED << store, ino, cached, fresh, failed, stale >>
    PROVE  ReturnDid(t, ok)
  <2> USE <1>ReturnDoes
  <2> USE DEF ReturnDid
  <2>1. /\ pc' \in [Threads -> PCs] /\ pc'[t] = "idle"
        /\ req' \in [Threads -> Request] /\ req'[t] = NoReq /\ req'[t].slot = None /\ Only(t)
        /\ known' \subseteq Ids \cup {None} /\ acked' \in [Ids -> Nat]
    BY Returned, Zenon
  <2>2. Types'
    BY <2>1 DEF Types, store
  <2> QED
    BY <2>1, <2>2, Zenon

<1>FindDoes.
    ASSUME CInv, NEW t \in Threads, Find(t)
    PROVE  FindDid(t)
  <2> USE <1>FindDoes
  <2> USE DEF FindDid
  <2>0. Types
    BY Zenon DEF CInv
  <2>1. CASE Return(t, FALSE)
    BY <2>1, Zenon DEF Find
  <2>2. CASE /\ mode = "up" /\ index[req[t].id] # None
             /\ req' = [req EXCEPT ![t].block = index[req[t].id]]
             /\ GoTo(t, "lookup") /\ Stay
    <3>1. pc[t] = "find" /\ "lookup" \in PCs
      BY DEF Find, PCs
    <3>2. UNCHANGED << store, ino, cached, mode, fresh, restarts, known, hist >>
      BY <2>2, Zenon DEF Find, Stay, hist
    <3>3. PICK b : b = index[req[t].id]
      BY Zenon
    <3>4. req[t].id \in Ids /\ b \in Block
      <4>1. req[t].id \in Ids
        BY <3>1 DEF CInv, ReqOK
      <4>2. index[req[t].id] \in Block \cup {None}
        BY <2>0, <4>1, Zenon DEF Types
      <4> QED
        BY <2>2, <3>3, <4>1, <4>2, Zenon
    <3>5. /\ OtherReqs(t) /\ SameReq(t)
          /\ req'[t].slot = req[t].slot /\ req'[t].block = b /\ req'[t].ok = req[t].ok
      BY Zenon, <2>0, <2>2, <3>3, <3>4, <1>ReqBlock
    <3>6. pc' \in [Threads -> PCs] /\ pc'[t] = "lookup" /\ \A u \in Threads \ {t} : pc'[u] = pc[u]
      BY <2>0, <2>2, <3>1, GoesTo, Zenon
    <3>7. Types'
      BY <2>0, <3>2, <3>5, <3>6 DEF Types, store, hist, OtherReqs
    <3> QED
      BY <2>2, <3>1, <3>2, <3>3, <3>5, <3>6, <3>7, Zenon DEF Goes, Only, OtherReqs
  <2> QED
    BY <2>1, <2>2, Zenon DEF Find

<1>LookupDoes.
    ASSUME CInv, NEW t \in Threads, Lookup(t)
    PROVE  LookupDid(t)
  <2> USE <1>LookupDoes
  <2> USE DEF LookupDid
  <2>0. Types /\ pc[t] = "lookup" /\ UNCHANGED << store, ino, cached, world, hist >>
    BY Zenon DEF CInv, Lookup
  <2>1. CASE Found(req[t].block) = {} /\ GoTo(t, "load") /\ UNCHANGED req
    <3>1. "load" \in PCs
      BY DEF PCs
    <3>2. pc' \in [Threads -> PCs] /\ pc'[t] = "load" /\ Only(t) /\ KeepReq(t)
      BY <2>0, <2>1, <3>1, <1>JustGoes, Zenon
    <3>3. Types'
      BY <2>0, <2>1, <3>2 DEF Types, store, hist, world
    <3> QED
      BY <2>0, <2>1, <3>2, <3>3, Zenon DEF KeepReq
  <2>2. CASE \E s \in Found(req[t].block) : RefTest(t, s, req[t])
    <3>1. PICK s \in Found(req[t].block) : RefTest(t, s, req[t])
      BY <2>2, Zenon
    <3>2. s \in Slots
      BY <2>0, <3>1, Zenon DEF Found, Types
    <3>3. req' = [req EXCEPT ![t].slot = s]
      BY <3>1 DEF RefTest
    <3>4. /\ OtherReqs(t) /\ SameReq(t)
          /\ req'[t].slot = s /\ req'[t].block = req[t].block /\ req'[t].ok = req[t].ok
      BY <2>0, <3>2, <3>3, <1>ReqSlot, Zenon
    <3>5. PICK l \in PCs : l = (IF ino[s].ref <= 0 THEN "refbug" ELSE "inc") /\ GoTo(t, l)
      BY <3>1 DEF RefTest, PCs
    <3>6. pc' \in [Threads -> PCs] /\ pc'[t] = l /\ \A u \in Threads \ {t} : pc'[u] = pc[u]
      BY <2>0, <3>5, GoesTo, Zenon
    <3>7. Types'
      BY <2>0, <3>4, <3>6 DEF Types, store, hist, world, OtherReqs
    <3> QED
      BY <2>0, <3>1, <3>4, <3>5, <3>6, <3>7, Zenon DEF Only, OtherReqs
  <2> QED
    BY <2>1, <2>2, Zenon DEF Lookup

<1>RefIncDoes.
    ASSUME CInv, NEW t \in Threads, RefInc(t)
    PROVE  RefIncDid(t)
  <2> USE <1>RefIncDoes
  <2> USE DEF RefIncDid
  <2>0. /\ pc[t] = "inc" /\ UNCHANGED << store, cached, req, world, hist >>
    BY Zenon DEF RefInc
  <2>1. Types /\ req[t].slot \in Slots
    <3>1. pc[t] \notin NoSlotPCs
      BY <2>0 DEF NoSlotPCs
    <3> QED
      BY <3>1, HasSlot, Zenon
  <2>2. CASE My(t).ref > 0 /\ ino' = [ino EXCEPT ![req[t].slot].ref = @ + 1] /\ GoTo(t, "have")
    <3>1. "have" \in PCs
      BY DEF PCs
    <3>2. pc' \in [Threads -> PCs] /\ pc'[t] = "have" /\ Only(t)
      BY <2>0, <2>1, <2>2, <3>1, <1>JustGoes, Zenon
    <3>3. PICK s \in Slots : s = req[t].slot
      BY <2>1, Zenon
    <3>4. PICK n : n = ino[s].ref + 1
      BY Zenon
    <3>5. n \in Nat
      BY <2>1, <3>4, InoFields
    <3>6. ino' = [ino EXCEPT ![s].ref = n]
      BY <2>2, <3>3, <3>4
    <3>7. /\ OtherInos(s)
          /\ ino'[s].alive = ino[s].alive /\ ino'[s].id = ino[s].id /\ ino'[s].ref = n
          /\ ino'[s].block = ino[s].block /\ ino'[s].size = ino[s].size
          /\ ino'[s].writer = ino[s].writer
      BY <2>1, <3>5, <3>6, <1>InoRef, Zenon
    <3>8. Types'
      BY <2>0, <2>1, <3>2, <3>7 DEF Types, store, hist, world, OtherInos
    <3> QED
      BY <2>0, <2>1, <2>2, <3>2, <3>3, <3>4, <3>7, <3>8, Zenon DEF My
  <2>3. CASE My(t).ref <= 0 /\ GoTo(t, "refbug") /\ UNCHANGED ino
    <3>1. "refbug" \in PCs
      BY DEF PCs
    <3>2. pc' \in [Threads -> PCs] /\ pc'[t] = "refbug" /\ Only(t)
      BY <2>0, <2>1, <2>3, <3>1, <1>JustGoes, Zenon
    <3>3. Types'
      BY <2>0, <2>1, <2>3, <3>2 DEF Types, store, hist, world
    <3> QED
      BY <2>0, <2>1, <2>3, <3>2, <3>3, Zenon
  <2> QED
    BY <2>2, <2>3, Zenon DEF RefInc

<1>LoadDoes.
    ASSUME CInv, NEW t \in Threads, Load(t)
    PROVE  LoadDid(t)
  <2> USE <1>LoadDoes
  <2> USE DEF LoadDid
  <2>0. Types /\ pc[t] = "load" /\ UNCHANGED << store, cached, mode, fresh, restarts, failed, stale >>
    BY Zenon DEF CInv, Load
  <2>1. CASE Return(t, FALSE) /\ UNCHANGED ino
    BY <2>0, <2>1, Zenon
  <2>2. CASE /\ disk[req[t].block] # NoInode
             /\ \E s \in FreeSlots :
                  /\ LET d == disk[req[t].block]
                     IN  ino' = [ino EXCEPT ![s] = New(d.id, req[t].block, d.size)]
                  /\ req' = [req EXCEPT ![t].slot = s]
             /\ GoTo(t, "insert") /\ Stay
    <3>1. PICK s \in FreeSlots :
            /\ ino' = [ino EXCEPT ![s] = New(disk[req[t].block].id, req[t].block, disk[req[t].block].size)]
            /\ req' = [req EXCEPT ![t].slot = s]
      BY <2>2, Zenon
    <3>2. s \in Slots
      BY Zenon DEF FreeSlots
    <3>3. /\ OtherReqs(t) /\ SameReq(t)
          /\ req'[t].slot = s /\ req'[t].block = req[t].block /\ req'[t].ok = req[t].ok
      BY Zenon, <2>0, <3>1, <3>2, <1>ReqSlot
    <3>4. /\ disk[req[t].block].id \in Ids \cup {None} /\ disk[req[t].block].size \in Nat
          /\ req[t].block \in Block
      <4>1. req[t].block \in Block
        BY <2>0, Fields, Zenon
      <4> QED
        BY <2>0, <4>1 DEF Types
    <3>5. /\ OtherInos(s)
          /\ ino'[s].alive /\ ino'[s].id = disk[req[t].block].id /\ ino'[s].ref = 1
          /\ ino'[s].block = req[t].block
          /\ ino'[s].size = disk[req[t].block].size /\ ino'[s].writer = None
      <4>1. PICK i \in Ids \cup {None}, b \in Block, n \in Nat :
              i = disk[req[t].block].id /\ b = req[t].block /\ n = disk[req[t].block].size
        BY <3>4, Zenon
      <4>2. ino' = [ino EXCEPT ![s] = New(i, b, n)]
        BY <3>1, <4>1, Zenon
      <4>3. /\ OtherInos(s)
            /\ ino'[s].alive /\ ino'[s].id = i /\ ino'[s].ref = 1 /\ ino'[s].block = b
            /\ ino'[s].size = n /\ ino'[s].writer = None
        BY <2>0, <3>2, <4>2, <1>InoNew, Zenon
      <4> QED
        BY <4>1, <4>3, Zenon
    <3>6. "insert" \in PCs
      BY DEF PCs
    <3>7. pc' \in [Threads -> PCs] /\ pc'[t] = "insert" /\ \A u \in Threads \ {t} : pc'[u] = pc[u]
      BY <2>0, <2>2, <3>6, GoesTo, Zenon
    <3>8. UNCHANGED << store, cached, mode, fresh, restarts, known, hist >>
      BY <2>0, <2>2, Zenon DEF Stay, hist
    <3>9. Types'
      BY <2>0, <3>3, <3>5, <3>7, <3>8 DEF Types, store, hist, OtherInos, OtherReqs
    <3> QED
      BY <2>0, <2>2, <3>3, <3>5, <3>7, <3>8, <3>9, Zenon DEF Goes, Only, OtherReqs
  <2> QED
    BY <2>1, <2>2, Zenon DEF Load

<1>InsertDoes.
    ASSUME CInv, NEW t \in Threads, Insert(t)
    PROVE  InsertDid(t)
  <2> USE <1>InsertDoes
  <2> USE DEF InsertDid
  <2>0. /\ pc[t] = "insert" /\ InodesUnlocked /\ UNCHANGED << store, world, acked, failed >>
    BY Zenon DEF Insert
  <2>1. Types /\ req[t].slot \in Slots
    <3>1. pc[t] \notin NoSlotPCs
      BY <2>0 DEF NoSlotPCs
    <3> QED
      BY <3>1, HasSlot, Zenon
  <2>2. CASE \E s \in Found(req[t].block) :
               /\ ino' = [ino EXCEPT ![req[t].slot] = Freed]
               /\ RefTest(t, s, req[t])
               /\ UNCHANGED << cached, stale >>
    <3>1. PICK s \in Found(req[t].block) :
            /\ ino' = [ino EXCEPT ![req[t].slot] = Freed]
            /\ RefTest(t, s, req[t])
            /\ UNCHANGED << cached, stale >>
      BY <2>2, Zenon
    <3>2. s \in Slots
      BY <2>1, <3>1, Zenon DEF Found, Types
    <3>3. req' = [req EXCEPT ![t].slot = s]
      BY <3>1 DEF RefTest
    <3>4. /\ OtherReqs(t) /\ SameReq(t)
          /\ req'[t].slot = s /\ req'[t].block = req[t].block /\ req'[t].ok = req[t].ok
      BY <2>1, <3>2, <3>3, <1>ReqSlot, Zenon
    <3>5. PICK l \in PCs : l = (IF ino[s].ref <= 0 THEN "refbug" ELSE "inc") /\ GoTo(t, l)
      BY <3>1 DEF RefTest, PCs
    <3>6. pc' \in [Threads -> PCs] /\ pc'[t] = l /\ \A u \in Threads \ {t} : pc'[u] = pc[u]
      BY <2>1, <3>5, GoesTo, Zenon
    <3>7. OtherInos(req[t].slot) /\ ino'[req[t].slot] = Freed
      BY <2>1, <3>1, <1>InoFreed, Zenon
    <3>8. Types'
      BY <2>0, <2>1, <3>1, <3>4, <3>6, <3>7 DEF Types, store, world, OtherReqs, OtherInos
    <3> QED
      BY <2>0, <2>1, <3>1, <3>4, <3>5, <3>6, <3>7, <3>8, Zenon DEF Only, OtherReqs
  <2>3. CASE /\ Found(req[t].block) = {} /\ cached' = cached \cup {req[t].slot}
             /\ stale' = IF My(t).size # disk[req[t].block].size
                         THEN stale \cup {My(t).id} ELSE stale
             /\ GoTo(t, "have") /\ UNCHANGED << ino, req >>
    <3>1. "have" \in PCs
      BY DEF PCs
    <3>2. pc' \in [Threads -> PCs] /\ pc'[t] = "have" /\ Only(t) /\ KeepReq(t)
      BY <2>1, <2>3, <3>1, <1>JustGoes, Zenon
    <3>3. stale' \subseteq Ids \cup {None}
      <4>1. My(t).id \in Ids \cup {None}
        BY <2>1, InoFields, Zenon DEF My
      <4>2. stale' = stale \/ stale' = stale \cup {My(t).id}
        BY <2>3, Zenon
      <4> QED
        BY <2>1, <4>1, <4>2, Zenon DEF Types
    <3>4. Types'
      BY <2>0, <2>1, <2>3, <3>2, <3>3 DEF Types, store, world
    <3> QED
      BY <2>0, <2>1, <2>3, <3>2, <3>4, Zenon DEF KeepReq
  <2> QED
    BY <2>2, <2>3, Zenon DEF Insert

<1>DerefDoes.
    ASSUME CInv, NEW t \in Threads, Deref(t)
    PROVE  DerefDid(t)
  <2> USE <1>DerefDoes
  <2> USE DEF DerefDid
  <2>0. /\ pc[t] = "deref" /\ UNCHANGED << store, cached, mode, fresh, restarts, failed, stale >>
    BY Zenon DEF Deref
  <2>1. Types /\ req[t].slot \in Slots
    <3>1. pc[t] \notin NoSlotPCs
      BY <2>0 DEF NoSlotPCs
    <3> QED
      BY <3>1, HasSlot, Zenon
  <2>2. CASE My(t).ref <= 0 /\ GoTo(t, "refbug") /\ UNCHANGED << ino, req >> /\ Stay
    <3>1. "refbug" \in PCs
      BY DEF PCs
    <3>2. pc' \in [Threads -> PCs] /\ pc'[t] = "refbug" /\ Only(t)
      BY <2>0, <2>1, <2>2, <3>1, <1>JustGoes, Zenon
    <3>3. Types'
      BY <2>0, <2>1, <2>2, <3>2 DEF Types, store, Stay
    <3> QED
      BY <2>0, <2>1, <2>2, <3>2, <3>3, Zenon DEF Stay
  <2>3. PICK s \in Slots : s = req[t].slot
    BY <2>1, Zenon
  <2>4. ino[s].ref \in Nat /\ My(t) = ino[s]
    BY <2>1, <2>3, InoFields, Zenon DEF My
  <2>5. CASE My(t).ref = 1 /\ ino' = [ino EXCEPT ![req[t].slot].ref = 0] /\ GoTo(t, "release")
             /\ UNCHANGED req /\ Stay
    <3>1. "release" \in PCs /\ 0 \in Nat
      BY DEF PCs
    <3>2. pc' \in [Threads -> PCs] /\ pc'[t] = "release" /\ Only(t)
      BY <2>0, <2>1, <2>5, <3>1, <1>JustGoes, Zenon
    <3>3. ino' = [ino EXCEPT ![s].ref = 0]
      BY <2>3, <2>5, Zenon
    <3>4. /\ OtherInos(s)
          /\ ino'[s].alive = ino[s].alive /\ ino'[s].id = ino[s].id /\ ino'[s].ref = 0
          /\ ino'[s].block = ino[s].block /\ ino'[s].size = ino[s].size
          /\ ino'[s].writer = ino[s].writer
      BY <2>1, <3>1, <3>3, <1>InoRef, Zenon
    <3>5. Types'
      BY <2>0, <2>1, <2>5, <3>2, <3>4 DEF Types, store, Stay, OtherInos
    <3>6. 1 > 0 /\ 1 - 1 = 0
      OBVIOUS
    <3>7. My(t).ref > 0 /\ My(t).ref - 1 = 0
      BY <2>5, <3>6, Zenon
    <3> QED
      BY <2>0, <2>1, <2>3, <2>4, <2>5, <3>2, <3>4, <3>5, <3>7, Zenon DEF Stay
  <2>6. CASE My(t).ref > 1 /\ ino' = [ino EXCEPT ![req[t].slot].ref = @ - 1] /\ Return(t, req[t].ok)
    <3>1. PICK n : n = ino[s].ref - 1
      BY Zenon
    <3>2. n \in Nat /\ My(t).ref > 0 /\ My(t).ref # 1
      BY <2>4, <2>6, <3>1
    <3>3. ino' = [ino EXCEPT ![s].ref = n]
      BY <2>3, <2>6, <3>1
    <3>4. /\ OtherInos(s)
          /\ ino'[s].alive = ino[s].alive /\ ino'[s].id = ino[s].id /\ ino'[s].ref = n
          /\ ino'[s].block = ino[s].block /\ ino'[s].size = ino[s].size
          /\ ino'[s].writer = ino[s].writer
      BY <2>1, <3>2, <3>3, <1>InoRef, Zenon
    <3>5. req[t].ok \in BOOLEAN
      BY <2>1, Fields, Zenon
    <3>6. /\ pc' \in [Threads -> PCs] /\ pc'[t] = "idle"
          /\ req' \in [Threads -> Request] /\ req'[t] = NoReq /\ Only(t)
          /\ known' \subseteq Ids \cup {None} /\ acked' \in [Ids -> Nat]
      BY <2>1, <2>6, <3>5, Returned, Zenon
    <3>7. Types'
      BY <2>0, <2>1, <3>4, <3>6 DEF Types, store, OtherInos
    <3> QED
      BY <2>0, <2>1, <2>3, <2>4, <2>6, <3>1, <3>2, <3>4, <3>6, <3>7, Zenon
  <2> QED
    BY <2>2, <2>5, <2>6, Zenon DEF Deref

<1>ReleaseDoes.
    ASSUME CInv, NEW t \in Threads, Release(t)
    PROVE  ReleaseDid(t)
  <2> USE <1>ReleaseDoes
  <2> USE DEF ReleaseDid
  <2>0. /\ pc[t] = "release" /\ UNCHANGED << store, mode, fresh, restarts, failed, stale >>
    BY Zenon DEF Release
  <2>1. Types /\ req[t].slot \in Slots
    <3>1. pc[t] \notin NoSlotPCs
      BY <2>0 DEF NoSlotPCs
    <3> QED
      BY <3>1, HasSlot, Zenon
  <2>2. CASE InodesRemove(t) /\ ino' = [ino EXCEPT ![req[t].slot] = Freed] /\ Return(t, req[t].ok)
    <3>1. OtherInos(req[t].slot) /\ ino'[req[t].slot] = Freed
      BY <2>1, <2>2, <1>InoFreed, Zenon
    <3>2. req[t].ok \in BOOLEAN
      BY <2>1, Fields, Zenon
    <3>3. /\ pc' \in [Threads -> PCs] /\ pc'[t] = "idle"
          /\ req' \in [Threads -> Request] /\ req'[t] = NoReq /\ Only(t)
          /\ known' \subseteq Ids \cup {None} /\ acked' \in [Ids -> Nat]
      BY <2>1, <2>2, <3>2, Returned, Zenon
    <3>4. cached' \subseteq Slots
      BY <2>1, <2>2, Zenon DEF InodesRemove, Types
    <3>5. Types'
      BY <2>0, <2>1, <3>1, <3>3, <3>4 DEF Types, store, OtherInos
    <3> QED
      BY <2>0, <2>1, <2>2, <3>1, <3>3, <3>5, Zenon DEF InodesRemove
  <2>3. CASE InodesRemoveAsserts(t) /\ GoTo(t, "bug") /\ UNCHANGED << ino, cached, req >> /\ Stay
    <3>1. "bug" \in PCs
      BY DEF PCs
    <3>2. pc' \in [Threads -> PCs] /\ pc'[t] = "bug" /\ Only(t)
      BY <2>0, <2>1, <2>3, <3>1, <1>JustGoes, Zenon
    <3>3. Types'
      BY <2>0, <2>1, <2>3, <3>2 DEF Types, store, Stay
    <3> QED
      BY <2>0, <2>1, <2>3, <3>2, <3>3, Zenon DEF Stay, InodesRemoveAsserts
  <2> QED
    BY <2>2, <2>3, Zenon DEF Release

<1>DeleteLockDoes.
    ASSUME CInv, NEW t \in Threads, DeleteLock(t)
    PROVE  DeleteLockDid(t)
  <2> USE <1>DeleteLockDoes
  <2> USE DEF DeleteLockDid
  <2>0. /\ pc[t] \in {"del", "cdel"} /\ My(t).writer = None
        /\ ino' = [ino EXCEPT ![req[t].slot].writer = t]
        /\ UNCHANGED << store, cached, req, world, hist >>
    BY Zenon DEF DeleteLock
  <2>1. Types /\ req[t].slot \in Slots
    <3>1. pc[t] \notin NoSlotPCs
      BY <2>0 DEF NoSlotPCs
    <3> QED
      BY <3>1, HasSlot, Zenon
  <2>2. PICK s \in Slots : s = req[t].slot
    BY <2>1, Zenon
  <2>3. ino' = [ino EXCEPT ![s].writer = t]
    BY <2>0, <2>2, Zenon
  <2>4. /\ OtherInos(s) /\ SameIno(s)
        /\ ino'[s].block = ino[s].block /\ ino'[s].size = ino[s].size
        /\ ino'[s].writer = t
    BY <2>1, <2>3, <1>InoWriter, Zenon
  <2>5. PICK l \in PCs : l = (IF pc[t] = "del" THEN "remove" ELSE "cremove") /\ GoTo(t, l)
    BY DEF DeleteLock, PCs
  <2>6. pc' \in [Threads -> PCs] /\ pc'[t] = l /\ Only(t)
    BY <2>0, <2>1, <2>5, <1>JustGoes, Zenon
  <2>7. Types'
    BY <2>0, <2>1, <2>4, <2>6 DEF Types, store, world, hist, OtherInos
  <2> QED
    BY <2>0, <2>1, <2>2, <2>4, <2>5, <2>6, <2>7, Zenon DEF My

<1>DeleteRemoveDoes.
    ASSUME CInv, NEW t \in Threads, DeleteRemove(t)
    PROVE  DeleteRemoveDid(t)
  <2> USE <1>DeleteRemoveDoes
  <2> USE DEF DeleteRemoveDid
  <2>0. /\ pc[t] \in {"remove", "cremove"} /\ UNCHANGED << store, ino, req, world, hist >>
    BY Zenon DEF DeleteRemove
  <2>1. Types /\ req[t].slot \in Slots
    <3>1. pc[t] \notin NoSlotPCs
      BY <2>0 DEF NoSlotPCs
    <3> QED
      BY <3>1, HasSlot, Zenon
  <2>2. PICK l \in PCs :
          /\ GoTo(t, l)
          /\ \/ InodesRemove(t) /\ l = IF pc[t] = "remove" THEN "free" ELSE "cfree"
             \/ InodesRemoveAsserts(t) /\ l = "bug" /\ UNCHANGED cached
    <3>1. {"free", "cfree", "bug"} \subseteq PCs
      BY DEF PCs
    <3>2. PICK m : m = (IF pc[t] = "remove" THEN "free" ELSE "cfree")
      BY Zenon
    <3>3. m \in PCs /\ "bug" \in PCs
      BY <3>1, <3>2
    <3> QED
      BY <3>2, <3>3, Zenon DEF DeleteRemove
  <2>3. pc' \in [Threads -> PCs] /\ pc'[t] = l /\ Only(t)
    BY <2>0, <2>1, <2>2, <1>JustGoes, Zenon
  <2>4. cached' \subseteq Slots
    BY <2>1, <2>2, Zenon DEF InodesRemove, Types
  <2>5. Types'
    BY <2>0, <2>1, <2>3, <2>4 DEF Types, store, world, hist
  <2> QED
    BY <2>0, <2>1, <2>2, <2>3, <2>5, Zenon DEF InodesRemove, InodesRemoveAsserts

<1>DeleteFreeDoes.
    ASSUME CInv, NEW t \in Threads, DeleteFree(t)
    PROVE  DeleteFreeDid(t)
  <2> USE <1>DeleteFreeDoes
  <2> USE DEF DeleteFreeDid
  <2>0. /\ pc[t] \in {"free", "cfree"}
        /\ UNCHANGED << index, disk, cached, mode, fresh, restarts, stale >>
    BY Zenon DEF DeleteFree
  <2>1. Types /\ req[t].slot \in Slots
    <3>1. pc[t] \notin NoSlotPCs
      BY <2>0 DEF NoSlotPCs
    <3> QED
      BY <3>1, HasSlot, Zenon
  <2>2. CASE My(t).block \notin marked /\ GoTo(t, "bug") /\ UNCHANGED << marked, ino, req, failed >> /\ Stay
    <3>1. "bug" \in PCs
      BY DEF PCs
    <3>2. pc' \in [Threads -> PCs] /\ pc'[t] = "bug" /\ Only(t)
      BY <2>0, <2>1, <2>2, <3>1, <1>JustGoes, Zenon
    <3>3. Types'
      BY <2>0, <2>1, <2>2, <3>2 DEF Types, Stay
    <3> QED
      BY <2>0, <2>1, <2>2, <3>2, <3>3, Zenon DEF Stay
  <2>3. CASE /\ My(t).block \in marked
             /\ \/ marked' = marked \ {My(t).block} /\ UNCHANGED failed
                \/ /\ "write" \in Failures
                   /\ failed' = failed \cup {My(t).id}
                   /\ UNCHANGED marked
             /\ \/ /\ pc[t] = "free"
                   /\ ino' = [ino EXCEPT ![req[t].slot].block = 0, ![req[t].slot].size = 0,
                                         ![req[t].slot].writer = None]
                   /\ GoTo(t, "deref")
                   /\ UNCHANGED req /\ Stay
                \/ /\ pc[t] = "cfree"
                   /\ ino' = [ino EXCEPT ![req[t].slot] = Freed]
                   /\ Return(t, FALSE)
    <3>1. marked' \subseteq Block /\ failed' \subseteq Ids \cup {None}
      <4>1. My(t).id \in Ids \cup {None}
        BY <2>1, InoFields, Zenon DEF My
      <4>2. marked' \subseteq marked /\ (failed' = failed \/ failed' = failed \cup {My(t).id})
        BY <2>3, Zenon
      <4> QED
        BY <2>1, <4>1, <4>2, Zenon DEF Types
    <3>2. CASE /\ pc[t] = "free"
               /\ ino' = [ino EXCEPT ![req[t].slot].block = 0, ![req[t].slot].size = 0,
                                     ![req[t].slot].writer = None]
               /\ GoTo(t, "deref")
               /\ UNCHANGED req /\ Stay
      <4>1. "deref" \in PCs
        BY DEF PCs
      <4>2. pc' \in [Threads -> PCs] /\ pc'[t] = "deref" /\ Only(t)
        BY <2>0, <2>1, <3>2, <4>1, <1>JustGoes, Zenon
      <4>3. PICK s \in Slots : s = req[t].slot
        BY <2>1, Zenon
      <4>4. ino' = [ino EXCEPT ![s].block = 0, ![s].size = 0, ![s].writer = None]
        BY <3>2, <4>3
      <4>5. /\ OtherInos(s) /\ SameIno(s)
            /\ ino'[s].block = 0 /\ ino'[s].size = 0 /\ ino'[s].writer = None
        BY <2>1, <4>4, <1>InoEmpty, Zenon
      <4>6. Types'
        BY <2>0, <2>1, <3>1, <3>2, <4>2, <4>5 DEF Types, Stay, OtherInos
      <4> QED
        BY <2>0, <2>1, <2>3, <3>2, <4>2, <4>3, <4>5, <4>6, Zenon DEF Stay
    <3>3. CASE pc[t] = "cfree" /\ ino' = [ino EXCEPT ![req[t].slot] = Freed] /\ Return(t, FALSE)
      <4>1. OtherInos(req[t].slot) /\ ino'[req[t].slot] = Freed
        BY <2>1, <3>3, <1>InoFreed, Zenon
      <4>2. FALSE \in BOOLEAN
        OBVIOUS
      <4>3. /\ pc' \in [Threads -> PCs] /\ pc'[t] = "idle"
            /\ req' \in [Threads -> Request] /\ req'[t] = NoReq /\ Only(t)
            /\ known' \subseteq Ids \cup {None} /\ acked' \in [Ids -> Nat]
        BY <2>1, <3>3, <4>2, Returned, Zenon
      <4>4. Types'
        BY <2>0, <2>1, <3>1, <4>1, <4>3 DEF Types, OtherInos
      <4> QED
        BY <2>0, <2>1, <2>3, <3>3, <4>1, <4>3, <4>4, Zenon
    <3> QED
      BY <2>3, <3>2, <3>3, Zenon
  <2> QED
    BY <2>2, <2>3, Zenon DEF DeleteFree

<1>CreateAllocDoes.
    ASSUME CInv, NEW t \in Threads, CreateAlloc(t)
    PROVE  CreateAllocDid(t)
  <2> USE <1>CreateAllocDoes
  <2> USE DEF CreateAllocDid
  <2>0. Types /\ pc[t] = "calloc" /\ UNCHANGED << index, disk, cached, mode, fresh, restarts, failed, stale >>
    BY Zenon DEF CInv, CreateAlloc
  <2>1. CASE Return(t, FALSE) /\ UNCHANGED << marked, ino >>
    BY <2>0, <2>1, Zenon DEF store
  <2>2. CASE \E s \in FreeSlots, b \in Block \ marked :
               /\ ino' = [ino EXCEPT ![s] = New(req[t].id, b, 0)]
               /\ req' = [req EXCEPT ![t].slot = s]
               /\ marked' = marked \cup {b}
               /\ GoTo(t, IF b = 0 THEN "bug" ELSE "cwrite")
               /\ Stay
    <3>1. PICK s \in FreeSlots, b \in Block \ marked :
            /\ ino' = [ino EXCEPT ![s] = New(req[t].id, b, 0)]
            /\ req' = [req EXCEPT ![t].slot = s]
            /\ marked' = marked \cup {b}
            /\ GoTo(t, IF b = 0 THEN "bug" ELSE "cwrite")
            /\ Stay
      BY <2>2, Zenon
    <3>2. s \in Slots /\ b \in Block
      BY Zenon DEF FreeSlots
    <3>3. /\ OtherReqs(t) /\ SameReq(t)
          /\ req'[t].slot = s /\ req'[t].block = req[t].block /\ req'[t].ok = req[t].ok
      BY Zenon, <2>0, <3>1, <3>2, <1>ReqSlot
    <3>4. PICK i \in Ids \cup {None}, n \in Nat : i = req[t].id /\ n = 0
      <4>1. req[t].id \in Ids \cup {None}
        BY <2>0, Fields, Zenon
      <4> QED
        BY <4>1
    <3>5. ino' = [ino EXCEPT ![s] = New(i, b, n)]
      BY <3>1, <3>4, Zenon
    <3>6. /\ OtherInos(s)
          /\ ino'[s].alive /\ ino'[s].id = i /\ ino'[s].ref = 1 /\ ino'[s].block = b
          /\ ino'[s].size = n /\ ino'[s].writer = None
      BY <2>0, <3>2, <3>5, <1>InoNew, Zenon
    <3>7. PICK l \in PCs : l = (IF b = 0 THEN "bug" ELSE "cwrite") /\ GoTo(t, l)
      BY <3>1 DEF PCs
    <3>8. pc' \in [Threads -> PCs] /\ pc'[t] = l /\ \A u \in Threads \ {t} : pc'[u] = pc[u]
      BY <2>0, <3>7, GoesTo, Zenon
    <3>9. UNCHANGED << index, disk, cached, mode, fresh, restarts, known, hist >>
      BY <2>0, <3>1, Zenon DEF Stay, hist
    <3>10. marked' \subseteq Block
      BY <2>0, <3>1, <3>2, Zenon DEF Types
    <3>11. Types'
      BY <2>0, <3>3, <3>6, <3>8, <3>9, <3>10 DEF Types, hist, OtherInos, OtherReqs
    <3> QED
      BY <2>0, <3>1, <3>3, <3>4, <3>6, <3>7, <3>8, <3>9, <3>11, ZenonT(60) DEF Only, OtherReqs
  <2> QED
    BY <2>1, <2>2, Zenon DEF CreateAlloc

  \* The device after nkfs_inode_write.
<1>WriteDoes.
    ASSUME Types, NEW t \in Threads, NEW fail, WriteInode(t, fail), req[t].slot \in Slots
    PROVE  WriteDid(t, fail)
  <2> USE <1>WriteDoes
  <2> USE DEF WriteDid
  <2>1. CASE fail /\ UNCHANGED disk
    BY <2>1, Zenon DEF Types
  <2>2. CASE disk' = [disk EXCEPT ![My(t).block] = [id |-> My(t).id, size |-> My(t).size]]
    <3>1. My(t).block \in Block /\ My(t).id \in Ids \cup {None} /\ My(t).size \in Nat
      BY InoFields, Zenon DEF My
    <3>2. PICK d : d = [id |-> My(t).id, size |-> My(t).size]
      BY Zenon
    <3>3. d \in [ id : Ids \cup {None}, size : Nat ]
      BY <3>1, <3>2
    <3>4. disk' = [disk EXCEPT ![My(t).block] = d] /\ disk \in [Block -> [ id : Ids \cup {None}, size : Nat ]]
      BY <2>2, <3>2, Zenon DEF Types
    <3> QED
      BY <3>1, <3>2, <3>3, <3>4, Zenon
  <2> QED
    BY <2>1, <2>2, Zenon DEF WriteInode

  \* A write fails or not.
<1>FailsBool.
    ASSUME NEW fail \in WriteFails
    PROVE  fail \in BOOLEAN
  <2> USE <1>FailsBool
  <2>1. ("write" \in Failures) \in BOOLEAN
    OBVIOUS
  <2> QED
    BY <2>1, Zenon DEF WriteFails

<1>CreateWriteDoes.
    ASSUME CInv, NEW t \in Threads, CreateWrite(t)
    PROVE  CreateWriteDid(t)
  <2> USE <1>CreateWriteDoes
  <2> USE DEF CreateWriteDid
  <2>0. /\ pc[t] = "cwrite" /\ UNCHANGED << index, marked, ino, cached, req, world, hist >>
    BY Zenon DEF CreateWrite
  <2>1. Types /\ req[t].slot \in Slots
    <3>1. pc[t] \notin NoSlotPCs
      BY <2>0 DEF NoSlotPCs
    <3> QED
      BY <3>1, HasSlot, Zenon
  <2>2. PICK fail \in WriteFails : WriteInode(t, fail) /\ GoTo(t, IF fail THEN "cdel" ELSE "cinsert")
    BY Zenon DEF CreateWrite
  <2>3. /\ disk' \in [Block -> [ id : Ids \cup {None}, size : Nat ]]
        /\ \A b \in Block : b # My(t).block => disk'[b] = disk[b]
        /\ \/ disk'[My(t).block] = [ id |-> My(t).id, size |-> My(t).size ]
           \/ fail /\ disk' = disk
    BY <2>1, <2>2, <1>WriteDoes, Zenon DEF WriteDid
  <2>4. PICK l \in PCs : l = (IF fail THEN "cdel" ELSE "cinsert") /\ GoTo(t, l)
    BY <2>2 DEF PCs
  <2>5. pc' \in [Threads -> PCs] /\ pc'[t] = l /\ Only(t)
    BY <2>0, <2>1, <2>4, <1>JustGoes, Zenon
  <2>6. Types'
    BY <2>0, <2>1, <2>3, <2>5 DEF Types, world, hist
  <2>7. fail \in BOOLEAN
    BY <1>FailsBool, Zenon
  <2> QED
    BY <2>0, <2>1, <2>3, <2>4, <2>5, <2>6, <2>7, Zenon

<1>CreateInsertDoes.
    ASSUME CInv, NEW t \in Threads, CreateInsert(t)
    PROVE  CreateInsertDid(t)
  <2> USE <1>CreateInsertDoes
  <2> USE DEF CreateInsertDid
  <2>0. /\ pc[t] = "cinsert" /\ InodesUnlocked /\ UNCHANGED << store, ino, req, world, hist >>
    BY Zenon DEF CreateInsert
  <2>1. Types /\ req[t].slot \in Slots
    <3>1. pc[t] \notin NoSlotPCs
      BY <2>0 DEF NoSlotPCs
    <3> QED
      BY <3>1, HasSlot, Zenon
  <2>2. "ckey" \in PCs /\ "bug" \in PCs
    BY DEF PCs
  <2>3. PICK l \in PCs :
          /\ GoTo(t, l)
          /\ \/ Found(My(t).block) = {} /\ cached' = cached \cup {req[t].slot} /\ l = "ckey"
             \/ Found(My(t).block) # {} /\ l = "bug" /\ UNCHANGED cached
    BY <2>2, Zenon DEF CreateInsert
  <2>4. pc' \in [Threads -> PCs] /\ pc'[t] = l /\ Only(t)
    BY <2>0, <2>1, <2>3, <1>JustGoes, Zenon
  <2>5. cached' \subseteq Slots
    BY <2>1, <2>3, Zenon DEF Types
  <2>6. Types'
    BY <2>0, <2>1, <2>4, <2>5 DEF Types, store, world, hist
  <2> QED
    BY <2>0, <2>1, <2>3, <2>4, <2>6, Zenon

<1>CreateKeyDoes.
    ASSUME CInv, NEW t \in Threads, CreateKey(t)
    PROVE  CreateKeyDid(t)
  <2> USE <1>CreateKeyDoes
  <2> USE DEF CreateKeyDid
  <2>0. /\ pc[t] = "ckey" /\ UNCHANGED << marked, disk, ino, cached, world, hist >>
    BY Zenon DEF CreateKey
  <2>1. Types /\ req[t].slot \in Slots
    <3>1. pc[t] \notin NoSlotPCs
      BY <2>0 DEF NoSlotPCs
    <3> QED
      BY <3>1, HasSlot, Zenon
  <2>2. CASE /\ index' = [index EXCEPT ![req[t].id] = My(t).block]
             /\ req' = [req EXCEPT ![t].ok = TRUE]
             /\ GoTo(t, "deref")
    <3>1. /\ OtherReqs(t) /\ SameReq(t)
          /\ req'[t].slot = req[t].slot /\ req'[t].block = req[t].block /\ req'[t].ok = TRUE
      BY Zenon, <2>1, <2>2, <1>ReqOk
    <3>2. "deref" \in PCs
      BY DEF PCs
    <3>3. pc' \in [Threads -> PCs] /\ pc'[t] = "deref" /\ \A u \in Threads \ {t} : pc'[u] = pc[u]
      BY <2>1, <2>2, <3>2, GoesTo, Zenon
    <3>4. index' \in [Ids -> Block \cup {None}]
      <4>1. My(t).block \in Block /\ index \in [Ids -> Block \cup {None}]
        BY <2>1, InoFields, Zenon DEF My, Types
      <4> QED
        BY <2>2, <4>1, Zenon
    <3>5. Types'
      BY <2>0, <2>1, <3>1, <3>3, <3>4 DEF Types, world, hist, OtherReqs
    <3> QED
      BY <2>0, <2>1, <2>2, <3>1, <3>3, <3>5, Zenon DEF Only, OtherReqs, KeepReq
  <2>3. CASE GoTo(t, "del") /\ UNCHANGED << index, req >>
    <3>1. "del" \in PCs
      BY DEF PCs
    <3>2. pc' \in [Threads -> PCs] /\ pc'[t] = "del" /\ Only(t) /\ KeepReq(t)
      BY <2>0, <2>1, <2>3, <3>1, <1>JustGoes, Zenon
    <3>3. Types'
      BY <2>0, <2>1, <2>3, <3>2 DEF Types, world, hist
    <3> QED
      BY <2>0, <2>1, <2>3, <3>2, <3>3, Zenon
  <2> QED
    BY <2>2, <2>3, Zenon DEF CreateKey

<1>HaveDoes.
    ASSUME CInv, NEW t \in Threads, Have(t)
    PROVE  HaveDid(t)
  <2> USE <1>HaveDoes
  <2> USE DEF HaveDid
  <2>0. /\ pc[t] = "have" /\ UNCHANGED << store, ino, cached, req, world, hist >>
    BY Zenon DEF Have
  <2>1. Types /\ req[t].slot \in Slots
    <3>1. pc[t] \notin NoSlotPCs
      BY <2>0 DEF NoSlotPCs
    <3> QED
      BY <3>1, HasSlot, Zenon
  <2>2. {"bug", "read", "deref", "data", "dkey"} \subseteq PCs
    BY DEF PCs
  <2>3. PICK l \in PCs :
          /\ GoTo(t, l)
          /\ \/ /\ req[t].op \in {"get", "put"} /\ My(t).block # req[t].block /\ l = "bug"
             \/ req[t].op = "get" /\ l \in {"read", "deref"}
             \/ req[t].op = "put" /\ l = "data"
             \/ req[t].op = "query" /\ l = "deref"
             \/ req[t].op = "delete" /\ l = "dkey"
    <3>1. PICK m : m = (IF My(t).id = req[t].id THEN "read" ELSE "deref")
      BY Zenon
    <3>2. m \in {"read", "deref"}
      BY <3>1
    <3> QED
      BY <2>2, <3>1, <3>2, Zenon DEF Have
  <2>4. pc' \in [Threads -> PCs] /\ pc'[t] = l /\ Only(t)
    BY <2>0, <2>1, <2>3, <1>JustGoes, Zenon
  <2>5. Types'
    BY <2>0, <2>1, <2>4 DEF Types, store, world, hist
  <2> QED
    BY <2>0, <2>1, <2>3, <2>4, <2>5, Zenon

<1>ReadDoes.
    ASSUME CInv, NEW t \in Threads, Read(t)
    PROVE  ReadDid(t)
  <2> USE <1>ReadDoes
  <2> USE DEF ReadDid
  <2>0. /\ pc[t] = "read" /\ UNCHANGED << store, cached, req, world, hist >>
    BY Zenon DEF Read
  <2>1. Types /\ req[t].slot \in Slots
    <3>1. pc[t] \notin NoSlotPCs
      BY <2>0 DEF NoSlotPCs
    <3> QED
      BY <3>1, HasSlot, Zenon
  <2>2. PICK s \in Slots : s = req[t].slot
    BY <2>1, Zenon
  <2>3. PICK n \in Nat : ino' = [ino EXCEPT ![s].held = n]
    <3>1. PICK n : n = (IF My(t).size > 0 THEN 1 ELSE ino[s].held)
      BY Zenon
    <3>2. n \in Nat
      BY <2>1, <3>1 DEF Types, Inode
    <3>3. ino' = [ino EXCEPT ![s].held = n]
      BY <2>2, <3>1 DEF Read
    <3> QED
      BY <3>2, <3>3, Zenon
  <2>4. /\ OtherInos(s) /\ SameIno(s)
        /\ ino'[s].block = ino[s].block /\ ino'[s].size = ino[s].size
        /\ ino'[s].writer = ino[s].writer
    BY <2>1, <2>3, <1>InoHeld, Zenon
  <2>5. "deref" \in PCs /\ GoTo(t, "deref")
    BY DEF PCs, Read
  <2>6. pc' \in [Threads -> PCs] /\ pc'[t] = "deref" /\ Only(t)
    BY <2>0, <2>1, <2>5, <1>JustGoes, Zenon
  <2>7. Types'
    BY <2>0, <2>1, <2>4, <2>6 DEF Types, store, world, hist, OtherInos
  <2> QED
    BY <2>0, <2>1, <2>2, <2>4, <2>6, <2>7, Zenon DEF My, Goes

<1>PutDataDoes.
    ASSUME CInv, NEW t \in Threads, PutData(t)
    PROVE  PutDataDid(t)
  <2> USE <1>PutDataDoes
  <2> USE DEF PutDataDid
  <2>0. /\ pc[t] = "data" /\ UNCHANGED << store, ino, cached, req, world, hist >>
    BY Zenon DEF PutData
  <2>1. Types /\ req[t].slot \in Slots
    <3>1. pc[t] \notin NoSlotPCs
      BY <2>0 DEF NoSlotPCs
    <3> QED
      BY <3>1, HasSlot, Zenon
  <2>2. "plock" \in PCs /\ "deref" \in PCs
    BY DEF PCs
  <2>3. PICK l \in PCs : GoTo(t, l) /\ l \in {"plock", "deref"}
    BY <2>2, Zenon DEF PutData
  <2>4. pc' \in [Threads -> PCs] /\ pc'[t] = l /\ Only(t)
    BY <2>0, <2>1, <2>3, <1>JustGoes, Zenon
  <2>5. Types'
    BY <2>0, <2>1, <2>4 DEF Types, store, world, hist
  <2> QED
    BY <2>0, <2>1, <2>3, <2>4, <2>5, Zenon

<1>PutSizeDoes.
    ASSUME CInv, NEW t \in Threads, PutSize(t)
    PROVE  PutSizeDid(t)
  <2> USE <1>PutSizeDoes
  <2> USE DEF PutSizeDid
  <2>0. /\ pc[t] = "plock" /\ My(t).writer = None /\ UNCHANGED << store, cached, world, hist >>
    BY Zenon DEF PutSize
  <2>1. Types /\ req[t].slot \in Slots
    <3>1. pc[t] \notin NoSlotPCs
      BY <2>0 DEF NoSlotPCs
    <3> QED
      BY <3>1, HasSlot, Zenon
  <2>2. CASE req[t].end <= My(t).size /\ req' = [req EXCEPT ![t].ok = TRUE] /\ GoTo(t, "deref")
             /\ UNCHANGED ino
    <3>1. /\ OtherReqs(t) /\ SameReq(t)
          /\ req'[t].slot = req[t].slot /\ req'[t].block = req[t].block /\ req'[t].ok = TRUE
      BY Zenon, <2>1, <2>2, <1>ReqOk
    <3>2. "deref" \in PCs
      BY DEF PCs
    <3>3. pc' \in [Threads -> PCs] /\ pc'[t] = "deref" /\ \A u \in Threads \ {t} : pc'[u] = pc[u]
      BY <2>1, <2>2, <3>2, GoesTo, Zenon
    <3>4. Types'
      BY <2>0, <2>1, <2>2, <3>1, <3>3 DEF Types, store, world, hist, OtherReqs
    <3> QED
      BY <2>0, <2>1, <2>2, <3>1, <3>3, <3>4, Zenon DEF Only, OtherReqs, KeepReq
  <2>3. CASE /\ req[t].end > My(t).size
             /\ ino' = [ino EXCEPT ![req[t].slot].size = req[t].end,
                                   ![req[t].slot].dirty = TRUE, ![req[t].slot].writer = t]
             /\ GoTo(t, IF My(t).block = 0 THEN "bug" ELSE "pwrite")
             /\ UNCHANGED req
    <3>1. PICK s \in Slots : s = req[t].slot
      BY <2>1, Zenon
    <3>2. PICK n \in Nat : n = req[t].end
      BY <2>1, Fields, Zenon
    <3>3. ino' = [ino EXCEPT ![s].size = n, ![s].dirty = TRUE, ![s].writer = t]
      BY <2>3, <3>1, <3>2
    <3>4. /\ OtherInos(s) /\ SameIno(s)
          /\ ino'[s].block = ino[s].block /\ ino'[s].size = n /\ ino'[s].writer = t
      BY <2>1, <3>3, <1>InoSize, ZenonT(60)
    <3>5. PICK l \in PCs : l = (IF My(t).block = 0 THEN "bug" ELSE "pwrite") /\ GoTo(t, l)
      BY <2>3 DEF PCs
    <3>6. pc' \in [Threads -> PCs] /\ pc'[t] = l /\ Only(t) /\ KeepReq(t)
      BY <2>1, <2>3, <3>5, <1>JustGoes, Zenon
    <3>7. Types'
      BY <2>0, <2>1, <2>3, <3>4, <3>6 DEF Types, store, world, hist, OtherInos
    <3> QED
      BY <2>0, <2>1, <2>3, <3>1, <3>2, <3>4, <3>5, <3>6, <3>7, Zenon DEF My
  <2> QED
    BY <2>2, <2>3, Zenon DEF PutSize

<1>PutWriteDoes.
    ASSUME CInv, NEW t \in Threads, PutWrite(t)
    PROVE  PutWriteDid(t)
  <2> USE <1>PutWriteDoes
  <2> USE DEF PutWriteDid
  <2>0. /\ pc[t] = "pwrite" /\ UNCHANGED << index, marked, cached, world, acked, stale >>
    BY Zenon DEF PutWrite
  <2>1. Types /\ req[t].slot \in Slots
    <3>1. pc[t] \notin NoSlotPCs
      BY <2>0 DEF NoSlotPCs
    <3> QED
      BY <3>1, HasSlot, Zenon
  <2>2. PICK fail \in WriteFails :
          /\ WriteInode(t, fail)
          /\ ino' = [ino EXCEPT ![req[t].slot].dirty = fail, ![req[t].slot].writer = None]
          /\ req' = [req EXCEPT ![t].ok = ~fail]
          /\ failed' = IF fail THEN failed \cup {My(t).id} ELSE failed
    BY Zenon DEF PutWrite
  <2>3. fail \in BOOLEAN /\ (~fail) \in BOOLEAN
    BY <1>FailsBool
  <2>4. /\ disk' \in [Block -> [ id : Ids \cup {None}, size : Nat ]]
        /\ \A b \in Block : b # My(t).block => disk'[b] = disk[b]
        /\ \/ disk'[My(t).block] = [ id |-> My(t).id, size |-> My(t).size ]
           \/ fail /\ disk' = disk
    BY <2>1, <2>2, <1>WriteDoes, Zenon DEF WriteDid
  <2>5. /\ OtherReqs(t) /\ SameReq(t) /\ req'[t].slot = req[t].slot
        /\ req'[t].block = req[t].block /\ req'[t].ok = ~fail
    <3>1. PICK b \in BOOLEAN : b = ~fail
      BY <2>3, Zenon
    <3>2. req' = [req EXCEPT ![t].ok = b]
      BY <2>2, <3>1
    <3>3. /\ OtherReqs(t) /\ SameReq(t) /\ req'[t].slot = req[t].slot
          /\ req'[t].block = req[t].block /\ req'[t].ok = b
      BY Zenon, <2>1, <3>2, <1>ReqOk
    <3> QED
      BY <3>1, <3>3, Zenon
  <2>6. PICK s \in Slots : s = req[t].slot
    BY <2>1, Zenon
  <2>7. ino' = [ino EXCEPT ![s].dirty = fail, ![s].writer = None]
    BY <2>2, <2>6
  <2>8. /\ OtherInos(s) /\ SameIno(s)
        /\ ino'[s].block = ino[s].block /\ ino'[s].size = ino[s].size
        /\ ino'[s].writer = None
    BY <2>1, <2>3, <2>7, <1>InoClean, Zenon
  <2>9. "deref" \in PCs /\ GoTo(t, "deref")
    BY DEF PCs, PutWrite
  <2>10. pc' \in [Threads -> PCs] /\ pc'[t] = "deref" /\ \A u \in Threads \ {t} : pc'[u] = pc[u]
    BY <2>1, <2>9, GoesTo, Zenon
  <2>11. failed' \subseteq Ids \cup {None}
    <3>1. My(t).id \in Ids \cup {None}
      BY <2>1, InoFields, Zenon DEF My
    <3>2. failed' = failed \/ failed' = failed \cup {My(t).id}
      BY <2>2, ZenonT(60)
    <3> QED
      BY <2>1, <3>1, <3>2, Zenon DEF Types
  <2>12. Types'
    BY <2>0, <2>1, <2>4, <2>5, <2>8, <2>10, <2>11 DEF Types, world, OtherInos, OtherReqs
  <2>13. \/ failed' = failed /\ ~fail
         \/ failed' = failed \cup {My(t).id} /\ fail
    BY <2>2, <2>3, Zenon
  <2> QED
    BY <2>0, <2>1, <2>4, <2>5, <2>6, <2>8, <2>10, <2>12, <2>13, Zenon
       DEF My, Goes, Only, OtherReqs, KeepReq

<1>DeleteKeyDoes.
    ASSUME CInv, NEW t \in Threads, DeleteKey(t)
    PROVE  DeleteKeyDid(t)
  <2> USE <1>DeleteKeyDoes
  <2> USE DEF DeleteKeyDid
  <2>0. /\ pc[t] = "dkey" /\ UNCHANGED << marked, disk, ino, cached, world, acked, stale >>
        /\ req' = [req EXCEPT ![t].ok = TRUE] /\ GoTo(t, "del")
        /\ \/ index' = [index EXCEPT ![My(t).id] = None] /\ UNCHANGED failed
           \/ "tree" \in Failures /\ failed' = failed \cup {My(t).id} /\ UNCHANGED index
    BY Zenon DEF DeleteKey
  <2>1. Types /\ req[t].slot \in Slots
    <3>1. pc[t] \notin NoSlotPCs
      BY <2>0 DEF NoSlotPCs
    <3> QED
      BY <3>1, HasSlot, Zenon
  <2>2. /\ OtherReqs(t) /\ SameReq(t)
        /\ req'[t].slot = req[t].slot /\ req'[t].block = req[t].block /\ req'[t].ok = TRUE
    BY Zenon, <2>0, <2>1, <1>ReqOk
  <2>3. "del" \in PCs
    BY DEF PCs
  <2>4. pc' \in [Threads -> PCs] /\ pc'[t] = "del" /\ \A u \in Threads \ {t} : pc'[u] = pc[u]
    BY <2>0, <2>1, <2>3, GoesTo, Zenon
  <2>5. index' \in [Ids -> Block \cup {None}] /\ failed' \subseteq Ids \cup {None}
    <3>1. index \in [Ids -> Block \cup {None}] /\ failed \subseteq Ids \cup {None}
          /\ My(t).id \in Ids \cup {None}
      BY <2>1, InoFields, Zenon DEF My, Types
    <3>2. index' \in [Ids -> Block \cup {None}]
      BY <2>0, <3>1, Zenon
    <3> QED
      BY <2>0, <3>1, <3>2, Zenon
  <2>6. Types'
    BY <2>0, <2>1, <2>2, <2>4, <2>5 DEF Types, world, OtherReqs
  <2> QED
    BY <2>0, <2>1, <2>2, <2>4, <2>6, Zenon DEF Goes, Only, OtherReqs, KeepReq

<1>1. ASSUME NEW t \in Threads, CInv
      PROVE  /\ Find(t) => FindDid(t)
             /\ Lookup(t) => LookupDid(t)
             /\ RefInc(t) => RefIncDid(t)
             /\ Load(t) => LoadDid(t)
             /\ Insert(t) => InsertDid(t)
             /\ Deref(t) => DerefDid(t)
             /\ Release(t) => ReleaseDid(t)
             /\ DeleteLock(t) => DeleteLockDid(t)
             /\ DeleteRemove(t) => DeleteRemoveDid(t)
             /\ DeleteFree(t) => DeleteFreeDid(t)
             /\ CreateAlloc(t) => CreateAllocDid(t)
             /\ CreateWrite(t) => CreateWriteDid(t)
             /\ CreateInsert(t) => CreateInsertDid(t)
             /\ CreateKey(t) => CreateKeyDid(t)
             /\ Have(t) => HaveDid(t)
             /\ Read(t) => ReadDid(t)
             /\ PutData(t) => PutDataDid(t)
             /\ PutSize(t) => PutSizeDid(t)
             /\ PutWrite(t) => PutWriteDid(t)
             /\ DeleteKey(t) => DeleteKeyDid(t)
  BY <1>1, <1>FindDoes, <1>LookupDoes, <1>RefIncDoes, <1>LoadDoes, <1>InsertDoes, <1>DerefDoes,
     <1>ReleaseDoes, <1>DeleteLockDoes, <1>DeleteRemoveDoes, <1>DeleteFreeDoes,
     <1>CreateAllocDoes, <1>CreateWriteDoes, <1>CreateInsertDoes, <1>CreateKeyDoes, <1>HaveDoes,
     <1>ReadDoes, <1>PutDataDoes, <1>PutSizeDoes, <1>PutWriteDoes, <1>DeleteKeyDoes, Zenon
<1> QED
  BY <1>1, <1>CreateStartDoes, <1>StartDoes, <1>ReturnDoes, Zenon

(* Who has an inode, and of which object.                                  *)
\* A request with an inode works on an object of the tree, on one outside it, or ends.
LEMMA Roles ==
  ASSUME CInv, OInv, NEW t \in Threads, pc[t] \notin NoSlotPCs, pc[t] # "refbug"
  PROVE  InTree(t) \/ Outside(t) \/ Ending(t)
<1>1. pc[t] \in PCs /\ req[t].op \in Ops /\ OpOK(t)
  BY Fields, Zenon DEF CInv, OInv, Types
<1> QED
  BY <1>1 DEF OpOK, PCs, Ops, NoSlotPCs, InTree, Outside, Ending, Uncreated, Clients

\* What a request that creates or deletes an object is.
LEMMA Makers ==
  ASSUME CInv, OInv, NEW t \in Threads, Outside(t) \/ Ending(t)
  PROVE  /\ req[t].op \in {"create", "delete"} /\ pc[t] \notin NoSlotPCs /\ pc[t] # "refbug"
         /\ req[t].id \in Ids /\ req[t].slot \in Slots /\ At(t, req[t].slot)
<1>1. OpOK(t) /\ ReqOK(t)
  BY Zenon DEF CInv, OInv
<1>2. req[t].op \in {"create", "delete"} /\ pc[t] \notin NoSlotPCs /\ pc[t] # "refbug" /\ pc[t] # "idle"
  BY <1>1 DEF OpOK, NoSlotPCs, Outside, Ending, Uncreated
<1> QED
  BY <1>1, <1>2, HasSlot, Zenon DEF ReqOK

\* The object of a request, and its inode.
LEMMA TreeObject ==
  ASSUME CInv, OInv, NEW t \in Threads, InTree(t)
  PROVE  /\ req[t].id \in Ids /\ pc[t] # "idle" /\ index[req[t].id] = req[t].block
         /\ pc[t] \notin NoSlotPCs \cup {"refbug"} =>
              My(t).block = index[req[t].id] /\ My(t).id = req[t].id
<1>1. OpOK(t) /\ ReqOK(t) /\ ObjectOK(t)
  BY Zenon DEF CInv, OInv
<1>2. pc[t] # "idle"
  BY <1>1 DEF OpOK, InTree, Clients
<1> QED
  BY <1>1, <1>2, Zenon DEF ReqOK, ObjectOK

\* Nobody shares an inode that is being created or deleted.
LEMMA Exclusive ==
  ASSUME CInv, OInv, NEW t \in Threads, NEW u \in Threads \ {t}, Outside(t),
         req[u].slot = req[t].slot
  PROVE  pc[u] = "refbug"
<1> SUFFICES ASSUME pc[u] # "refbug" PROVE FALSE
  OBVIOUS
<1>1. /\ req[t].op \in {"create", "delete"} /\ req[t].id \in Ids /\ req[t].slot \in Slots
      /\ My(t).id = req[t].id /\ \A i \in Ids : index[i] # My(t).block
  BY Makers, Zenon DEF OInv, ObjectOK
<1>2. pc[u] \notin NoSlotPCs /\ My(u) = My(t)
  BY <1>1, SetAssumption, Zenon DEF CInv, ReqOK, My
<1>3. ~InTree(u)
  BY <1>1, <1>2, TreeObject, ZenonT(60)
<1>4. ASSUME Outside(u) \/ Ending(u) PROVE FALSE
  <2>1. My(u).id = req[u].id
    BY <1>4, Zenon DEF OInv, ObjectOK
  <2>2. req[u].id # req[t].id
    BY <1>1, Zenon DEF OInv, BornOK
  <2> QED
    BY <1>1, <1>2, <2>1, <2>2, Zenon
<1> QED
  BY <1>2, <1>3, <1>4, Roles, Zenon

\* An inode in memory has a request that is responsible for it.
LEMMA Responsible ==
  ASSUME CInv, OInv, NEW s \in Slots, ino[s].alive
  PROVE  \E u \in Threads : /\ At(u, s) /\ pc[u] \notin NoSlotPCs \cup {"refbug"}
                            /\ InTree(u) \/ Outside(u) \/ Ending(u)
<1>1. PICK u \in Threads : Holds(u, s) \/ Leaves(u, s)
  BY Zenon DEF CInv, SlotOK, KeptOK
<1>2. At(u, s) /\ pc[u] # "refbug"
  BY <1>1 DEF Holds, Leaves, At
<1>3. pc[u] \notin NoSlotPCs
  BY <1>2, SetAssumption, Zenon DEF CInv, ReqOK, At
<1> QED
  BY <1>2, <1>3, Roles, Zenon

\* Blocks of the tree.
LEMMA TreeBlock ==
  ASSUME CInv, OInv, NEW i \in Ids, NEW b \in Block, index[i] = b
  PROVE  /\ index[i] # None /\ b \in marked \ {0} /\ disk[b].id = i
         /\ \A j \in Ids : index[j] = b => i = j
<1>1. None \notin Block
  BY SetAssumption DEF Block
<1>2. index[i] # None
  BY <1>1, Zenon
<1> QED
  BY <1>2, Zenon DEF OInv, IndexSound

\* The inode of an object's block is the object's.
LEMMA Names ==
  ASSUME CInv, OInv, NEW s \in Slots, ino[s].alive, NEW i \in Ids, ino[s].block = index[i]
  PROVE  ino[s].id = i
<1>1. ino[s].block \in Block
  BY InoFields, Zenon DEF CInv
<1>2. index[i] \in marked \ {0} /\ \A j \in Ids : index[j] = index[i] => i = j
  BY <1>1, TreeBlock, Zenon
<1>3. PICK u \in Threads : /\ At(u, s) /\ pc[u] \notin NoSlotPCs \cup {"refbug"}
                           /\ InTree(u) \/ Outside(u) \/ Ending(u)
  BY Responsible, Zenon
<1>4. My(u) = ino[s]
  BY <1>3, Zenon DEF At, My
<1>5. CASE InTree(u)
  <2>1. req[u].id \in Ids /\ My(u).block = index[req[u].id] /\ My(u).id = req[u].id
    BY <1>3, <1>5, TreeObject, Zenon
  <2>2. index[req[u].id] = index[i]
    BY <1>4, <2>1, Zenon
  <2> QED
    BY <1>2, <1>4, <2>1, <2>2, Zenon
<1>6. CASE Outside(u)
  <2>1. index[i] # My(u).block
    BY <1>6, Zenon DEF OInv, ObjectOK
  <2> QED
    BY <1>4, <2>1, Zenon
<1>7. CASE Ending(u)
  <2>1. req[u].id \in Ids /\ My(u).id = req[u].id /\ (My(u).block = 0 \/ index[req[u].id] = My(u).block)
    BY <1>7, Makers, Zenon DEF OInv, ObjectOK
  <2> QED
    BY <1>2, <1>4, <2>1, Zenon
<1> QED
  BY <1>3, <1>5, <1>6, <1>7, Zenon

\* The cache has no other inode of a block that is being created or deleted.
LEMMA Sole ==
  ASSUME CInv, OInv, NEW t \in Threads, Outside(t), NEW r \in cached, ino[r].block = My(t).block
  PROVE  r = req[t].slot
<1> SUFFICES ASSUME r # req[t].slot PROVE FALSE
  OBVIOUS
<1>1. r \in Slots
  BY Zenon DEF CInv, Types
<1>2. ino[r].alive /\ ino[r].block # 0
  BY <1>1, Zenon DEF CInv, SlotOK, KeptOK
<1>3. PICK u \in Threads : /\ At(u, r) /\ pc[u] \notin NoSlotPCs \cup {"refbug"}
                           /\ InTree(u) \/ Outside(u) \/ Ending(u)
  BY <1>1, <1>2, Responsible, Zenon
<1>4. My(u) = ino[r] /\ u # t
  BY <1>3, Zenon DEF At, My
<1>5. \A i \in Ids : index[i] # My(t).block
  BY Zenon DEF OInv, ObjectOK
<1>6. ~InTree(u)
  <2>1. InTree(u) => req[u].id \in Ids /\ My(u).block = index[req[u].id]
    BY <1>3, TreeObject, Zenon
  <2> QED
    BY <1>4, <1>5, <2>1, Zenon
<1>7. ~Outside(u)
  BY <1>4, Zenon DEF OInv, OwnersOK
<1>8. ~Ending(u)
  <2> SUFFICES ASSUME Ending(u) PROVE FALSE
    OBVIOUS
  <2>1. req[u].id \in Ids /\ (My(u).block = 0 \/ index[req[u].id] = My(u).block)
    BY Makers, Zenon DEF OInv, ObjectOK
  <2> QED
    BY <1>2, <1>4, <1>5, <2>1, Zenon
<1> QED
  BY <1>3, <1>6, <1>7, <1>8, Zenon

\* That is all they rely on.
LEMMA Bystander ==
  ASSUME CInv, OInv, NEW t \in Threads, Only(t), NEW u \in Threads \ {t}, Left(u)
  PROVE  OpOK(u)' /\ ObjectOK(u)'
<1>1. pc'[u] = pc[u] /\ req'[u] = req[u] /\ OpOK(u) /\ ObjectOK(u)
  BY Zenon DEF Only, OInv
<1>2. /\ InTree(u)' <=> InTree(u)
      /\ Outside(u)' <=> Outside(u)
      /\ Ending(u)' <=> Ending(u)
  BY <1>1, Zenon DEF InTree, Outside, Ending
<1>3. PICK m : m = ino'[req[u].slot] /\ My(u)' = m
  BY <1>1, Zenon DEF My
<1>4. OpOK(u)'
  BY <1>1, Zenon DEF OpOK
<1>5. pc[u] \in {"have", "read", "data", "plock", "pwrite", "dkey", "ckey", "del", "remove",
                 "deref", "release", "cwrite", "cinsert"} \/ Outside(u) \/ Ending(u)
        => pc[u] \notin NoSlotPCs \cup {"refbug"} /\ pc[u] # "idle"
  BY DEF Outside, Ending, NoSlotPCs, Uncreated
<1>6. pc[u] \in {"cwrite", "cinsert", "ckey"} => Outside(u)
  BY DEF Outside, Uncreated
<1>7. /\ InTree(u) => /\ index'[req[u].id] = req[u].block
                      /\ pc[u] \notin NoSlotPCs \cup {"refbug"} =>
                           m.block = req[u].block /\ m.id = req[u].id
      /\ pc[u] = "calloc" => index'[req[u].id] = None
  <2>1. "calloc" # "idle"
    OBVIOUS
  <2> QED
    BY <1>1, <1>3, <2>1, TreeObject, Zenon DEF ObjectOK, Left
<1>8. Outside(u) =>
        /\ m.id = req[u].id /\ m.block \in marked' \ {0}
        /\ \A i \in Ids : index'[i] # m.block
        /\ index'[req[u].id] = None
  BY <1>1, <1>3, <1>5, Zenon DEF ObjectOK, Left
<1>9. Ending(u) => m.id = req[u].id /\ (m.block = 0 \/ index'[req[u].id] = m.block)
  BY <1>1, <1>3, <1>5, Zenon DEF ObjectOK, Left
<1>10. /\ pc[u] \in {"have", "read", "data", "plock", "pwrite", "dkey", "ckey", "del", "remove"}
            => req[u].slot \in cached'
       /\ pc[u] \in {"deref", "release"} /\ m.block # 0 => req[u].slot \in cached'
  BY <1>1, <1>3, <1>5, Zenon DEF ObjectOK, Left
<1>11. /\ pc[u] \in {"cwrite", "cinsert", "ckey"} => m.size = 0
       /\ pc[u] = "pwrite" => m.size = req[u].end
       /\ pc[u] \in {"cinsert", "ckey"} => disk'[m.block] = [ id |-> req[u].id, size |-> 0 ]
  BY <1>1, <1>3, <1>5, <1>6, Zenon DEF ObjectOK, Left
<1>12. ObjectOK(u)'
  BY <1>1, <1>2, <1>3, <1>7, <1>8, <1>9, <1>10, <1>11, ZenonT(60) DEF ObjectOK
<1> QED
  BY <1>4, <1>12, Zenon

\* A step that leaves the device alone and is gentle.
LEMMA Undisturbed ==
  ASSUME CInv, OInv, NEW t \in Threads, Only(t), UNCHANGED store, NEW s \in Slots,
         OtherSlotsKept(s), Gentle(t, s), NEW u \in Threads \ {t}
  PROVE  Left(u)
<1>1. index' = index /\ marked' = marked /\ disk' = disk
  BY Zenon DEF store
<1>2. Outside(u) => /\ \A i \in Ids : index'[i] # My(u).block
                    /\ My(u).block \in marked'
  BY <1>1, Zenon DEF OInv, ObjectOK
<1>3. ASSUME pc[u] \notin NoSlotPCs \cup {"refbug"}
      PROVE  /\ ino'[req[u].slot].id = My(u).id /\ ino'[req[u].slot].block = My(u).block
             /\ req[u].slot \in cached => req[u].slot \in cached'
             /\ pc[u] = "pwrite" \/ Outside(u) => ino'[req[u].slot].size = My(u).size
  <2>1. req[u].slot \in Slots /\ pc[u] # "refbug"
    BY <1>3, HasSlot, Zenon
  <2>2. CASE req[u].slot # s
    BY <2>1, <2>2, Zenon DEF OtherSlotsKept, My
  <2>3. CASE req[u].slot = s
    <3>1. KeepsObject(s) /\ (ino'[s].size = ino[s].size
                               \/ (At(t, s) /\ pc[t] # "refbug" /\ ino[s].writer = None))
      BY <2>1, <2>3, Zenon DEF Gentle, At
    <3>2. ASSUME At(t, s), pc[t] # "refbug", ino[s].writer = None
          PROVE  pc[u] # "pwrite" /\ ~Outside(u)
      <4>1. ~Outside(u)
        BY <2>3, <3>2, Exclusive, Zenon DEF At
      <4>2. HandOK(u, s)
        BY <2>3, Zenon DEF CInv, SlotOK, At
      <4>3. "pwrite" \in WritePCs /\ u # None
        BY SetAssumption DEF WritePCs
      <4> QED
        BY <3>2, <4>1, <4>2, <4>3, Zenon DEF HandOK
    <3> QED
      BY <2>3, <3>1, <3>2, Zenon DEF KeepsObject, My
  <2> QED
    BY <2>2, <2>3, Zenon
<1> QED
  BY <1>1, <1>2, <1>3, Zenon DEF Left

\* Blocks outside the tree keep one owner.
LEMMA OwnersKept ==
  ASSUME CInv, OInv, NEW t \in Threads, Only(t), \A u \in Threads \ {t} : Left(u),
         Outside(t)' => \A u \in Threads \ {t} : Outside(u) => ino'[req'[t].slot].block # My(u).block
  PROVE  OwnersOK'
<1>1. ASSUME NEW u \in Threads \ {t}, Outside(u)'
      PROVE  Outside(u) /\ My(u)' = ino'[req[u].slot] /\ ino'[req[u].slot].block = My(u).block
  <2>1. Outside(u) /\ My(u)' = ino'[req[u].slot]
    BY <1>1, Zenon DEF Only, Outside, My
  <2>2. pc[u] \notin NoSlotPCs \cup {"refbug"}
    BY <2>1, Makers, Zenon
  <2> QED
    BY <2>1, <2>2, Zenon DEF Left
<1>2. My(t)' = ino'[req'[t].slot]
  BY Zenon DEF My
<1>3. ASSUME NEW u \in Threads, NEW v \in Threads, u # v, Outside(u)', Outside(v)'
      PROVE  My(u)'.block # My(v)'.block
  <2>1. CASE u # t /\ v # t
    <3>1. /\ Outside(u) /\ My(u)'.block = My(u).block
          /\ Outside(v) /\ My(v)'.block = My(v).block
      BY <1>1, <1>3, <2>1, Zenon
    <3>2. My(u).block # My(v).block
      BY <1>3, <3>1, Zenon DEF OInv, OwnersOK
    <3> QED
      BY <3>1, <3>2, Zenon
  <2>2. CASE u = t
    <3>1. Outside(t)' /\ v \in Threads \ {t} /\ My(u)' = My(t)'
      BY <1>3, <2>2, Zenon DEF Outside, My
    <3>2. Outside(v) /\ My(v)'.block = My(v).block
      BY <1>1, <1>3, <3>1, Zenon
    <3>3. ino'[req'[t].slot].block # My(v).block
      BY <3>1, <3>2, Zenon
    <3> QED
      BY <1>2, <3>1, <3>2, <3>3, Zenon
  <2>3. CASE v = t
    <3>1. Outside(t)' /\ u \in Threads \ {t} /\ My(v)' = My(t)'
      BY <1>3, <2>3, Zenon DEF Outside, My
    <3>2. Outside(u) /\ My(u)'.block = My(u).block
      BY <1>1, <1>3, <3>1, Zenon
    <3>3. ino'[req'[t].slot].block # My(u).block
      BY <3>1, <3>2, Zenon
    <3> QED
      BY <1>2, <3>1, <3>2, <3>3, Zenon
  <2> QED
    BY <2>1, <2>2, <2>3, Zenon
<1> QED
  BY <1>3, Zenon DEF OwnersOK

\* Every block in use stays accounted for.
LEMMA LeaksKept ==
  ASSUME OInv, restarts' = restarts, failed \subseteq failed',
         \A b \in marked' \ {0} :
           b \in marked \/ \E s \in Slots : ino'[s].alive /\ ino'[s].block = b,
         \A i \in Ids : \/ index[i] \notin marked' \/ index'[i] = index[i]
                        \/ \E s \in Slots : ino'[s].alive /\ ino'[s].block = index[i],
         \A s \in Slots : ino[s].alive =>
           \/ ino[s].block \notin marked' \ {0}
           \/ ino'[s].alive /\ ino'[s].block = ino[s].block
           \/ \E i \in Ids : index'[i] = ino[s].block
  PROVE  NoBlockLeaks'
<1> SUFFICES ASSUME restarts = 0, failed' = {}, NEW b \in marked' \ {0}
             PROVE  \/ \E i \in Ids : index'[i] = b
                    \/ \E s \in Slots : ino'[s].alive /\ ino'[s].block = b
  BY Zenon DEF NoBlockLeaks
<1>1. failed = {}
  BY Zenon
<1>2. CASE b \in marked
  <2>1. \/ \E i \in Ids : index[i] = b
        \/ \E s \in Slots : ino[s].alive /\ ino[s].block = b
    BY <1>1, <1>2, Zenon DEF OInv, NoBlockLeaks
  <2>2. ASSUME NEW i \in Ids, index[i] = b
        PROVE  \/ \E j \in Ids : index'[j] = b
               \/ \E s \in Slots : ino'[s].alive /\ ino'[s].block = b
    BY <2>2, Zenon
  <2>3. ASSUME NEW s \in Slots, ino[s].alive, ino[s].block = b
        PROVE  \/ \E j \in Ids : index'[j] = b
               \/ \E r \in Slots : ino'[r].alive /\ ino'[r].block = b
    BY <2>3, Zenon
  <2> QED
    BY <2>1, <2>2, <2>3, Zenon
<1> QED
  BY <1>2, Zenon

\* The objects of the tree stay sound if their blocks do.
LEMMA IndexKept ==
  ASSUME OInv, index' = index,
         \A i \in Ids : index[i] # None =>
           index[i] \in marked' /\ disk'[index[i]].id = disk[index[i]].id
  PROVE  IndexSound'
BY Zenon DEF OInv, IndexSound

\* What becomes of a rw_sem held for writing.
LEMMA LockKept ==
  ASSUME CInv, OInv, NEW t \in Threads, Only(t), NEW s \in Slots, OtherSlotsKept(s),
         ino'[s].writer = t => At(t, s)' /\ pc'[t] \in WritePCs,
         \A r \in Slots \ {s} : ino[r].writer = t => At(t, r)' /\ pc'[t] \in WritePCs,
         ino'[s].writer \in Threads \ {t} => ino'[s].writer = ino[s].writer
  PROVE  LockOK'
<1> SUFFICES ASSUME NEW r \in Slots, NEW u \in Threads, ino'[r].writer = u
             PROVE  At(u, r)' /\ pc'[u] \in WritePCs
  BY Zenon DEF LockOK
<1>1. CASE u = t
  BY <1>1, Zenon DEF OtherSlotsKept
<1>2. CASE u # t
  <2>1. ino[r].writer = u
    BY <1>2, Zenon DEF OtherSlotsKept
  <2>2. At(u, r) /\ pc[u] \in WritePCs
    BY <2>1, Zenon DEF OInv, LockOK
  <2> QED
    BY <1>2, <2>2, Zenon DEF Only, At
<1> QED
  BY <1>1, <1>2, Zenon

\* The sizes on the device still cover what was acknowledged, when what a step
\* has changed is not the block of an object of the tree.
LEMMA SizesKept ==
  ASSUME CInv, OInv, NEW t \in Threads, Only(t), index' = index,
         \A i \in Ids : index[i] # None => disk'[index[i]] = disk[index[i]],
         failed \subseteq failed', stale \subseteq stale',
         \A i \in Ids \ (failed' \cup stale') : index[i] # None =>
           /\ acked'[i] = acked[i] \/ disk[index[i]].size >= acked'[i]
           /\ \A s \in cached' : ino'[s].block = index[i] => SizeKept(i, s)
           /\ req'[t].id = i /\ req'[t].op = "put" /\ req'[t].ok => disk[index[i]].size >= req'[t].end
  PROVE  SizesOK'
<1> SUFFICES ASSUME NEW i \in Ids \ (failed' \cup stale'), index[i] # None
             PROVE  Current(i)'
  BY Zenon DEF SizesOK
<1>1. Current(i) /\ disk'[index'[i]] = disk[index[i]]
  BY Zenon DEF OInv, SizesOK
<1>2. disk'[index'[i]].size >= acked'[i]
  BY <1>1, Zenon DEF Current
<1>3. ASSUME NEW s \in Found(index[i])'
      PROVE  /\ ino'[s].size >= disk[index[i]].size
             /\ ino'[s].writer = None => ino'[s].size = disk[index[i]].size
  <2>1. s \in cached' /\ ino'[s].block = index[i]
    BY <1>3, Zenon DEF Found
  <2>2. SizeKept(i, s)
    BY <2>1, Zenon
  <2>3. s \in cached /\ ino[s].block = index[i] => s \in Found(index[i])
    BY Zenon DEF Found
  <2> QED
    BY <1>1, <2>2, <2>3, Zenon DEF Current, SizeKept
<1>4. ASSUME NEW u \in Threads, req'[u].id = i, req'[u].op = "put", req'[u].ok
      PROVE  disk[index[i]].size >= req'[u].end
  <2>1. CASE u = t
    BY <1>4, <2>1, Zenon
  <2>2. CASE u # t
    BY <1>1, <1>4, <2>2, Zenon DEF Current, Only
  <2> QED
    BY <2>1, <2>2, Zenon
<1> QED
  BY <1>1, <1>2, <1>3, <1>4, Zenon DEF Current

\* Who was born stays so.
LEMMA BornKept ==
  ASSUME OInv, NEW t \in Threads, Only(t), index' = index, fresh' = fresh, known' = known,
         acked' = acked, req'[t].op = req[t].op, req'[t].id = req[t].id
  PROVE  BornOK'
<1>1. \A u \in Threads : req'[u].op = req[u].op /\ req'[u].id = req[u].id
  BY Zenon DEF Only
<1> QED
  BY <1>1, Zenon DEF OInv, BornOK

\* A step that leaves the device, the clients' knowledge and the history alone.
LEMMA StillSound ==
  ASSUME CInv, OInv, NEW t \in Threads, Only(t), NEW s \in Slots,
         UNCHANGED << store, world, acked, failed >>, stale \subseteq stale',
         OtherSlotsKept(s), Gentle(t, s), SameReq(t), OpOK(t)', ObjectOK(t)',
         Outside(t)' => Outside(t) /\ ino'[req'[t].slot].block = My(t).block,
         ino[s].alive => \/ ino'[s].alive /\ ino'[s].block = ino[s].block
                         \/ \E i \in Ids : index[i] = ino[s].block,
         ino'[s].writer = t => At(t, s)' /\ pc'[t] \in WritePCs,
         \A r \in Slots \ {s} : ino[r].writer = t => At(t, r)' /\ pc'[t] \in WritePCs,
         ino'[s].writer \in Threads \ {t} => ino'[s].writer = ino[s].writer,
         \A i \in Ids \ (failed \cup stale') : index[i] # None =>
           /\ s \in cached' /\ ino'[s].block = index[i] => SizeKept(i, s)
           /\ req'[t].id = i /\ req'[t].op = "put" /\ req'[t].ok =>
                req[t].ok \/ disk[index[i]].size >= req'[t].end,
         cached' \subseteq Slots
  PROVE  OInv'
<1>1. /\ index' = index /\ marked' = marked /\ disk' = disk /\ acked' = acked /\ failed' = failed
      /\ fresh' = fresh /\ known' = known /\ restarts' = restarts
  BY Zenon DEF store, world
<1>2. \A u \in Threads \ {t} : Left(u)
  BY Undisturbed, Zenon
<1>3. \A u \in Threads : OpOK(u)' /\ ObjectOK(u)'
  BY <1>2, Bystander, Zenon
<1>4. BornOK'
  BY <1>1, BornKept, Zenon DEF SameReq
<1>5. OwnersOK'
  <2>1. Outside(t)' => \A u \in Threads \ {t} : Outside(u) => ino'[req'[t].slot].block # My(u).block
    BY Zenon DEF OInv, OwnersOK
  <2> QED
    BY <1>2, <2>1, OwnersKept, Zenon
<1>6. IndexSound'
  BY <1>1, IndexKept, Zenon DEF OInv, IndexSound
<1>7. NoBlockLeaks'
  <2>1. \A r \in Slots : ino[r].alive =>
          \/ ino'[r].alive /\ ino'[r].block = ino[r].block
          \/ \E i \in Ids : index'[i] = ino[r].block
    BY <1>1, Zenon DEF OtherSlotsKept
  <2> QED
    BY <1>1, <2>1, LeaksKept, Zenon
<1>8. LockOK'
  BY LockKept, Zenon
<1>9. SizesOK'
  <2>1. ASSUME NEW i \in Ids \ (failed' \cup stale'), index[i] # None
        PROVE  /\ \A r \in cached' : ino'[r].block = index[i] => SizeKept(i, r)
               /\ req'[t].id = i /\ req'[t].op = "put" /\ req'[t].ok =>
                    disk[index[i]].size >= req'[t].end
    <3>1. \A r \in cached' : ino'[r].block = index[i] => SizeKept(i, r)
      <4>1. ASSUME NEW r \in cached', ino'[r].block = index[i], r # s PROVE SizeKept(i, r)
        <5>1. r \in cached /\ ino'[r] = ino[r]
          BY <4>1, Zenon DEF OtherSlotsKept
        <5> QED
          BY <4>1, <5>1, Zenon DEF SizeKept
      <4> QED
        BY <1>1, <2>1, <4>1, Zenon
    <3>2. ASSUME req'[t].id = i, req'[t].op = "put", req'[t].ok, req[t].ok
          PROVE  disk[index[i]].size >= req'[t].end
      <4>1. Current(i)
        BY <1>1, <2>1, Zenon DEF OInv, SizesOK
      <4> QED
        BY <3>2, <4>1, Zenon DEF Current, SameReq
    <3> QED
      BY <1>1, <2>1, <3>1, <3>2, Zenon
  <2> QED
    BY <1>1, <2>1, SizesKept, Zenon
<1> QED
  BY <1>1, <1>3, <1>4, <1>5, <1>6, <1>7, <1>8, <1>9, Zenon DEF OInv

\* A step that leaves the inodes alone too.
LEMMA SameSound ==
  ASSUME CInv, OInv, NEW t \in Threads, Only(t),
         UNCHANGED << store, ino, cached, world, hist >>, SameReq(t), OpOK(t)', ObjectOK(t)',
         Outside(t)' => Outside(t) /\ req'[t].slot = req[t].slot,
         req[t].slot \in Slots => req'[t].slot = req[t].slot /\ (pc[t] \in WritePCs => pc'[t] \in WritePCs),
         req'[t].op = "put" /\ req'[t].ok =>
           \/ req[t].ok
           \/ \A i \in Ids \ (failed \cup stale) :
                req[t].id = i /\ index[i] # None => disk[index[i]].size >= req'[t].end
  PROVE  OInv'
<1>1. /\ index' = index /\ marked' = marked /\ disk' = disk /\ acked' = acked /\ failed' = failed
      /\ fresh' = fresh /\ known' = known /\ restarts' = restarts /\ stale' = stale
      /\ ino' = ino /\ cached' = cached
  BY Zenon DEF store, world, hist
<1>2. ASSUME NEW u \in Threads \ {t} PROVE Left(u)
  <2>1. Outside(u) => /\ \A i \in Ids : index[i] # My(u).block
                      /\ My(u).block \in marked
    BY Zenon DEF OInv, ObjectOK
  <2> QED
    BY <1>1, <2>1, Zenon DEF Left, My
<1>3. \A u \in Threads : OpOK(u)' /\ ObjectOK(u)'
  BY <1>2, Bystander, Zenon
<1>4. BornOK'
  BY <1>1, BornKept, Zenon DEF SameReq
<1>5. OwnersOK'
  <2>1. Outside(t)' => \A u \in Threads \ {t} : Outside(u) => ino'[req'[t].slot].block # My(u).block
    BY <1>1, Zenon DEF OInv, OwnersOK, My
  <2> QED
    BY <1>2, <2>1, OwnersKept, Zenon
<1>6. IndexSound'
  BY <1>1, IndexKept, Zenon DEF OInv, IndexSound
<1>7. NoBlockLeaks'
  BY <1>1, LeaksKept, Zenon
<1>8. LockOK'
  <2> SUFFICES ASSUME NEW r \in Slots, NEW u \in Threads, ino[r].writer = u
               PROVE  At(u, r)' /\ pc'[u] \in WritePCs
    BY <1>1, Zenon DEF LockOK
  <2>1. At(u, r) /\ pc[u] \in WritePCs
    BY Zenon DEF OInv, LockOK
  <2> QED
    BY <2>1, Zenon DEF Only, At
<1>9. SizesOK'
  <2>1. ASSUME NEW i \in Ids \ (failed' \cup stale'), index[i] # None
        PROVE  /\ \A r \in cached' : ino'[r].block = index[i] => SizeKept(i, r)
               /\ req'[t].id = i /\ req'[t].op = "put" /\ req'[t].ok =>
                    disk[index[i]].size >= req'[t].end
    <3>1. \A r \in cached' : ino'[r].block = index[i] => SizeKept(i, r)
      BY <1>1, Zenon DEF SizeKept
    <3>2. ASSUME req'[t].id = i, req'[t].op = "put", req'[t].ok
          PROVE  disk[index[i]].size >= req'[t].end
      <4>1. Current(i)
        BY <1>1, <2>1, Zenon DEF OInv, SizesOK
      <4>2. CASE req[t].ok
        BY <3>2, <4>1, <4>2, Zenon DEF Current, SameReq
      <4>3. CASE ~req[t].ok
        BY <1>1, <2>1, <3>2, <4>3, Zenon DEF SameReq
      <4> QED
        BY <4>2, <4>3, Zenon
    <3> QED
      BY <3>1, <3>2, Zenon
  <2> QED
    BY <1>1, <2>1, SizesKept, Zenon
<1> QED
  BY <1>1, <1>3, <1>4, <1>5, <1>6, <1>7, <1>8, <1>9, Zenon DEF OInv

(* Requests for objects of the tree.                                       *)
\* What such a request needs.
LEMMA TreeOK ==
  ASSUME NEW t \in Threads, Types', OpOK(t)', InTree(t)', index'[req'[t].id] = req'[t].block,
         pc'[t] \notin NoSlotPCs \cup {"refbug"} =>
           ino'[req'[t].slot].block = req'[t].block /\ ino'[req'[t].slot].id = req'[t].id,
         pc'[t] \notin NoSlotPCs \cup {"refbug", "inc", "insert"} => req'[t].slot \in cached',
         pc'[t] = "pwrite" => ino'[req'[t].slot].size = req'[t].end
  PROVE  ObjectOK(t)' /\ ~Outside(t)'
<1>1. pc'[t] \in PCs
  BY Zenon DEF Types
<1>2. /\ ~Outside(t)' /\ ~Ending(t)' /\ pc'[t] \notin {"calloc", "cwrite", "cinsert", "ckey"}
      /\ pc'[t] \in {"have", "read", "data", "plock", "pwrite", "dkey", "ckey", "del", "remove",
                     "deref", "release"} => pc'[t] \notin NoSlotPCs \cup {"refbug", "inc", "insert"}
  BY <1>1 DEF InTree, Outside, Ending, OpOK, Uncreated, Clients, NoSlotPCs
<1>3. My(t)' = ino'[req'[t].slot]
  BY Zenon DEF My
<1>4. pc'[t] # "calloc" /\ pc'[t] \notin {"cwrite", "cinsert", "ckey"} /\ pc'[t] \notin {"cinsert", "ckey"}
  BY <1>2, Zenon
<1> QED
  BY <1>2, <1>3, <1>4, Zenon DEF ObjectOK

\* It has its inode from the cache, where it stays as long as the request has it.
LEMMA TreeCached ==
  ASSUME CInv, OInv, NEW t \in Threads, InTree(t), pc[t] \notin NoSlotPCs \cup {"refbug", "inc", "insert"}
  PROVE  /\ req[t].slot \in Slots /\ req[t].slot \in cached /\ My(t).block # 0
         /\ index[req[t].id] = req[t].block /\ My(t).block = req[t].block /\ My(t).id = req[t].id
<1>1. pc[t] \in PCs /\ ObjectOK(t) /\ OpOK(t) /\ req[t].slot \in Slots
  BY HasSlot, Zenon DEF CInv, Types, OInv
<1>2. /\ index[req[t].id] = req[t].block
      /\ My(t).block = req[t].block /\ My(t).id = req[t].id
  BY TreeObject, Zenon
<1>3. pc[t] \in {"have", "read", "data", "plock", "pwrite", "dkey", "ckey", "del", "remove"}
        \/ pc[t] \in {"deref", "release"}
  BY <1>1 DEF PCs, InTree, NoSlotPCs, OpOK, Uncreated, Clients
<1>4. My(t).block # 0
  <2>1. My(t).block \in Block /\ req[t].id \in Ids
    BY <1>1, InoFields, TreeObject, Zenon DEF CInv, My
  <2>2. PICK i \in Ids, b \in Block : i = req[t].id /\ b = My(t).block /\ index[i] = b
    BY <1>2, <2>1, Zenon
  <2>3. b # 0
    BY <2>2, TreeBlock, Zenon
  <2> QED
    BY <2>2, <2>3, Zenon
<1> QED
  BY <1>1, <1>2, <1>3, <1>4, Zenon DEF ObjectOK

\* A request of the tree goes on.
LEMMA TreeGoesOn ==
  ASSUME CInv, OInv, NEW t \in Threads, Only(t), Types', pc[t] \notin NoSlotPCs \cup {"refbug", "inc", "insert"},
         InTree(t), InTree(t)', OpOK(t)', KeepReq(t), UNCHANGED << store, ino, cached, world, hist >>,
         pc[t] \notin WritePCs, pc'[t] # "pwrite",
         req'[t].op = "put" /\ req'[t].ok =>
           \/ req[t].ok
           \/ \A i \in Ids \ (failed \cup stale) :
                req[t].id = i /\ index[i] # None => disk[index[i]].size >= req'[t].end
  PROVE  OInv'
<1>1. index' = index /\ ino' = ino /\ cached' = cached
  BY Zenon DEF store
<1>2. /\ req'[t].slot = req[t].slot /\ req'[t].id = req[t].id /\ req'[t].block = req[t].block
      /\ SameReq(t)
  BY Zenon DEF KeepReq, SameReq
<1>3. /\ index[req[t].id] = req[t].block /\ req[t].slot \in cached
      /\ My(t).block = req[t].block /\ My(t).id = req[t].id
  BY TreeCached, Zenon
<1>5. ObjectOK(t)' /\ ~Outside(t)'
  BY <1>1, <1>2, <1>3, TreeOK, Zenon DEF My
<1> QED
  BY <1>2, <1>5, SameSound, Zenon

\* nkfs_btree_find_key finds the object; nkfs_inodes_lookup does not find its inode.
LEMMA FindSound ==
  ASSUME CInv, OInv, NEW t \in Threads,
         \/ /\ Types' /\ Goes(t, "find", "lookup") /\ SameReq(t)
            /\ req'[t].slot = req[t].slot /\ req'[t].block = index[req[t].id]
            /\ req'[t].ok = req[t].ok
            /\ UNCHANGED << store, ino, cached, world, hist >>
         \/ /\ Types' /\ Goes(t, "lookup", "load") /\ SameReq(t)
            /\ req'[t].slot = req[t].slot /\ req'[t].block = req[t].block
            /\ req'[t].ok = req[t].ok
            /\ UNCHANGED << store, ino, cached, world, hist >>
  PROVE  OInv'
<1>1. /\ Types' /\ Only(t) /\ SameReq(t) /\ req'[t].slot = req[t].slot /\ req'[t].ok = req[t].ok
      /\ UNCHANGED << store, ino, cached, world, hist >>
      /\ \/ pc[t] = "find" /\ pc'[t] = "lookup" /\ req'[t].block = index[req[t].id]
         \/ pc[t] = "lookup" /\ pc'[t] = "load" /\ req'[t].block = req[t].block
  BY Zenon DEF Goes
<1>2. OpOK(t) /\ ObjectOK(t)
  BY Zenon DEF OInv
<1>3. index'[req'[t].id] = req'[t].block
  <2>1. pc[t] = "lookup" => InTree(t)
    BY Zenon DEF InTree
  <2> QED
    BY <1>1, <1>2, <2>1, Zenon DEF ObjectOK, SameReq, store
<1>4. OpOK(t)' /\ InTree(t)' /\ pc'[t] \in NoSlotPCs /\ pc'[t] # "pwrite" /\ pc[t] \notin WritePCs
  BY <1>1, <1>2 DEF OpOK, InTree, NoSlotPCs, SameReq, Uncreated, Clients, WritePCs
<1>5. ObjectOK(t)' /\ ~Outside(t)'
  BY <1>1, <1>3, <1>4, TreeOK, Zenon
<1> QED
  BY <1>1, <1>4, <1>5, SameSound, Zenon

\* The inode that was found in the cache is the object's.
LEMMA FoundIs ==
  ASSUME CInv, OInv, NEW t \in Threads, InTree(t), NEW s \in Found(req[t].block)
  PROVE  s \in Slots /\ s \in cached /\ ino[s].block = req[t].block /\ ino[s].id = req[t].id
<1>1. s \in Slots /\ s \in cached /\ ino[s].block = req[t].block
  BY Zenon DEF Found, CInv, Types
<1>2. ino[s].alive
  BY <1>1, Zenon DEF CInv, SlotOK, KeptOK
<1>3. PICK i \in Ids : i = req[t].id /\ index[i] = ino[s].block
  BY <1>1, TreeObject, Zenon
<1>4. ino[s].id = i
  BY <1>1, <1>2, <1>3, Names, Zenon
<1> QED
  BY <1>1, <1>3, <1>4, Zenon

(* A request ends.                                                         *)
\* What the clients know afterwards.
LEMMA ReturnBorn ==
  ASSUME CInv, OInv, NEW t \in Threads, NEW ok \in BOOLEAN, Return(t, ok), ok => req[t].ok, pc[t] # "idle",
         index' = index, fresh' = fresh
  PROVE  BornOK' /\ OpOK(t)' /\ ObjectOK(t)' /\ ~Outside(t)'
<1>1. /\ pc'[t] = "idle" /\ req'[t] = NoReq /\ Only(t)
      /\ known' = IF ok /\ req[t].op = "create" THEN known \cup {req[t].id} ELSE known
  BY Returned, Zenon DEF CInv, Return
<1>2. req[t].id \in Ids /\ req[t].op \in Ops /\ BornOK
  BY Fields, Zenon DEF CInv, ReqOK, OInv
<1>3. NoReq.op = "none" /\ NoReq.id = None /\ ~NoReq.ok /\ NoReq.slot = None
  BY Zenon DEF NoReq
<1>4. OpOK(t)' /\ ObjectOK(t)' /\ ~Outside(t)'
  <2>1. OpOK(t)'
    BY <1>1, <1>3 DEF OpOK, Uncreated, Clients
  <2>2. ~InTree(t)' /\ ~Outside(t)' /\ ~Ending(t)'
    BY <1>1, <1>3 DEF InTree, Outside, Ending, Uncreated, Clients
  <2> QED
    BY <1>1, <2>1, <2>2 DEF ObjectOK
<1>5. known \subseteq known' /\ (\A i \in known' : i \in known \/ (i = req[t].id /\ req[t].op = "create"))
  BY <1>1, Zenon
<1>6. fresh' \cap known' = {}
  BY <1>2, <1>5, Zenon DEF BornOK
<1>7. ASSUME NEW i \in Ids
      PROVE  (index'[i] # None => i \notin fresh') /\ (acked'[i] > 0 => i \in known')
  <2>1. acked'[i] = acked[i] \/ (i = req[t].id /\ req[t].op = "put")
    BY <1>2 DEF Return, CInv, Types
  <2>2. "put" \in Clients
    BY DEF Clients
  <2>3. req[t].op = "put" => req[t].id \in known
    BY <1>2, <2>2, Zenon DEF BornOK
  <2> QED
    BY <1>2, <1>5, <2>1, <2>3, Zenon DEF BornOK
<1>8. ASSUME NEW u \in Threads \ {t}
      PROVE  /\ req'[u] = req[u]
             /\ req[u].op = "create" => req[u].id \notin fresh' \cup known'
             /\ req[u].op \in Clients \cup {"delete"} => req[u].id \in known'
             /\ req[u].op \in {"create", "delete"} => req[u].id # None
  <2>1. req'[u] = req[u]
    BY <1>1, Zenon DEF Only
  <2>2. req[t].op = "create" => req[u].id # req[t].id
    <3>1. "create" \in {"create", "delete"}
      OBVIOUS
    <3> QED
      BY <1>2, <3>1, Zenon DEF BornOK
  <2>3. req[u].op \in {"create", "delete"} => req[u].id # None
    <3>1. OpOK(u)
      BY Zenon DEF OInv
    <3> QED
      BY <3>1 DEF OpOK
  <2> QED
    BY <1>2, <1>5, <2>1, <2>2, <2>3, Zenon DEF BornOK
<1>9. req'[t].op \notin {"create", "delete"} \cup Clients /\ req'[t].op # "create" /\ req'[t].id = None
  BY <1>1, <1>3 DEF Clients
<1>10. \A u \in Threads : /\ req'[u].op = "create" => req'[u].id \notin fresh' \cup known'
                          /\ req'[u].op \in Clients \cup {"delete"} => req'[u].id \in known'
  <2>1. req'[t].op \notin Clients \cup {"delete"}
    BY <1>9, Zenon
  <2> QED
    BY <1>8, <1>9, <2>1, Zenon
<1>11. ASSUME NEW u \in Threads, NEW v \in Threads, u # v, req'[u].op \in {"create", "delete"}
       PROVE  req'[v].id # req'[u].id
  <2>1. u # t
    BY <1>9, <1>11, Zenon
  <2>2. req'[u] = req[u] /\ req[u].op \in {"create", "delete"} /\ req[u].id # None
    BY <1>8, <1>11, <2>1, Zenon
  <2>3. CASE v = t
    BY <1>9, <2>2, <2>3, Zenon
  <2>4. CASE v # t
    <3>1. req'[v] = req[v]
      BY <1>8, <2>4, Zenon
    <3> QED
      BY <1>2, <1>11, <2>2, <3>1, Zenon DEF BornOK
  <2> QED
    BY <2>3, <2>4, Zenon
<1> QED
  BY <1>4, <1>6, <1>7, <1>10, <1>11, Zenon DEF BornOK

\* A request that returns keeps the invariant of the objects.
LEMMA ReturnSound ==
  ASSUME CInv, OInv, NEW t \in Threads, NEW ok \in BOOLEAN, Return(t, ok), ok => req[t].ok, pc[t] # "idle",
         UNCHANGED << index, disk, fresh, restarts, stale >>, failed \subseteq failed',
         \A u \in Threads \ {t} : Left(u),
         0 \in marked', marked' \subseteq marked, \A i \in Ids : index[i] # None => index[i] \in marked',
         \A r \in Slots :
           /\ ino'[r].writer # t
           /\ ino'[r].writer \in Threads => ino'[r].writer = ino[r].writer
           /\ ino[r].alive => \/ failed' # {}
                              \/ ino[r].block \notin marked' \ {0}
                              \/ ino'[r].alive /\ ino'[r].block = ino[r].block
                              \/ \E i \in Ids : index[i] = ino[r].block,
         \A i \in Ids \ (failed \cup stale) : index[i] # None =>
           \A r \in cached' : ino'[r].block = index[i] => SizeKept(i, r)
  PROVE  OInv'
<1>1. /\ pc'[t] = "idle" /\ req'[t] = NoReq /\ Only(t)
  BY Returned, Zenon DEF CInv
<1>2. BornOK' /\ OpOK(t)' /\ ObjectOK(t)' /\ ~Outside(t)'
  BY ReturnBorn, Zenon
<1>3. \A u \in Threads : OpOK(u)' /\ ObjectOK(u)'
  BY <1>1, <1>2, Bystander, Zenon
<1>4. OwnersOK'
  BY <1>1, <1>2, OwnersKept, Zenon
<1>5. IndexSound'
  BY IndexKept, Zenon
<1>6. NoBlockLeaks'
  <2>1. index' = index /\ restarts' = restarts
    OBVIOUS
  <2>2. \A b \in marked' \ {0} : b \in marked
    BY Zenon
  <2>3. CASE failed' # {}
    BY <2>3, Zenon DEF NoBlockLeaks
  <2>4. CASE failed' = {}
    BY <2>1, <2>2, <2>4, LeaksKept, Zenon
  <2> QED
    BY <2>3, <2>4, Zenon
<1>7. LockOK'
  <2> SUFFICES ASSUME NEW r \in Slots, NEW u \in Threads, ino'[r].writer = u
               PROVE  At(u, r)' /\ pc'[u] \in WritePCs
    BY Zenon DEF LockOK
  <2>1. u # t /\ ino[r].writer = u
    BY Zenon
  <2>2. At(u, r) /\ pc[u] \in WritePCs
    BY <2>1, Zenon DEF OInv, LockOK
  <2> QED
    BY <1>1, <2>1, <2>2, Zenon DEF Only, At
<1>8. SizesOK'
  <2>1. ~req'[t].ok
    BY <1>1 DEF NoReq
  <2>2. ASSUME NEW i \in Ids \ (failed' \cup stale'), index[i] # None
        PROVE  acked'[i] = acked[i] \/ disk[index[i]].size >= acked'[i]
    <3>1. Current(i)
      BY <2>2, Zenon DEF OInv, SizesOK
    <3>2. acked'[i] = acked[i] \/ (ok /\ i = req[t].id /\ req[t].op = "put" /\ acked'[i] = req[t].end)
      BY DEF Return, CInv, Types
    <3> QED
      BY <3>1, <3>2, Zenon DEF Current
  <2>3. ASSUME NEW i \in Ids \ (failed' \cup stale'), index[i] # None
        PROVE  \A r \in cached' : ino'[r].block = index[i] => SizeKept(i, r)
    BY <2>3, Zenon
  <2>4. index' = index /\ disk' = disk /\ stale \subseteq stale'
    OBVIOUS
  <2> QED
    BY <1>1, <2>1, <2>2, <2>3, <2>4, SizesKept, Zenon
<1>9. restarts' \in Nat
  BY Zenon DEF OInv
<1> QED
  BY <1>2, <1>3, <1>4, <1>5, <1>6, <1>7, <1>8, <1>9, Zenon DEF OInv

\* A request without an inode has no rw_sem.
LEMMA NoLock ==
  ASSUME CInv, OInv, NEW t \in Threads, pc[t] \in NoSlotPCs
  PROVE  req[t].slot \notin Slots /\ \A r \in Slots : ino[r].writer # t
<1>1. req[t].slot \notin Slots
  BY SetAssumption, Zenon DEF CInv, ReqOK
<1> QED
  BY <1>1, Zenon DEF OInv, LockOK, At

\* The requests that stay behind when the device and the inodes do not change.
LEMMA AllLeft ==
  ASSUME CInv, OInv, NEW t \in Threads, Only(t), UNCHANGED << store, ino, cached >>
  PROVE  \A u \in Threads \ {t} : Left(u)
<1>1. index' = index /\ marked' = marked /\ disk' = disk /\ ino' = ino /\ cached' = cached
  BY Zenon DEF store
<1>2. ASSUME NEW u \in Threads \ {t} PROVE Left(u)
  <2>1. Outside(u) => /\ \A i \in Ids : index[i] # My(u).block
                      /\ My(u).block \in marked
    BY Zenon DEF OInv, ObjectOK
  <2> QED
    BY <1>1, <2>1, Zenon DEF Left, My
<1> QED
  BY <1>2, Zenon

\* A request that ends before it has an inode.
LEMMA EndSound ==
  ASSUME CInv, OInv, NEW t \in Threads, pc[t] \in {"find", "load", "calloc"}, Return(t, FALSE),
         UNCHANGED << store, ino, cached, mode, fresh, restarts, failed, stale >>
  PROVE  OInv'
<1>1. pc[t] \in NoSlotPCs /\ pc[t] # "idle"
  BY DEF NoSlotPCs
<1>2. /\ index' = index /\ marked' = marked /\ disk' = disk /\ ino' = ino /\ cached' = cached
      /\ failed' = failed /\ stale' = stale /\ restarts' = restarts /\ fresh' = fresh
  BY Zenon DEF store
<1>3. Only(t)
  BY Returned, Zenon DEF CInv
<1>4. \A u \in Threads \ {t} : Left(u)
  BY <1>3, AllLeft, Zenon
<1>5. 0 \in marked' /\ \A i \in Ids : index[i] # None => index[i] \in marked'
  BY <1>2, Zenon DEF OInv, IndexSound
<1>6. \A r \in Slots : ino'[r].writer # t
  BY <1>1, <1>2, NoLock, Zenon
<1>7. \A i \in Ids : \A r \in cached' : ino'[r].block = index[i] => SizeKept(i, r)
  BY <1>2, Zenon DEF SizeKept
<1>8. UNCHANGED << index, disk, fresh, restarts, stale >>
  BY <1>2
<1> QED
  BY <1>1, <1>2, <1>4, <1>5, <1>6, <1>7, <1>8, ReturnSound, Zenon

\* A request begins.
LEMMA BeginSound ==
  ASSUME CInv, OInv, NEW t \in Threads, pc[t] = "idle", Only(t),
         UNCHANGED << store, ino, cached, restarts, hist >>,
         BornOK', OpOK(t)', ObjectOK(t)', ~Outside(t)', ~req'[t].ok
  PROVE  OInv'
<1>1. /\ index' = index /\ marked' = marked /\ disk' = disk /\ acked' = acked /\ failed' = failed
      /\ restarts' = restarts /\ stale' = stale /\ ino' = ino /\ cached' = cached
  BY Zenon DEF store, hist
<1>2. \A u \in Threads \ {t} : Left(u)
  BY AllLeft, Zenon
<1>3. \A u \in Threads : OpOK(u)' /\ ObjectOK(u)'
  BY <1>2, Bystander, Zenon
<1>4. OwnersOK'
  BY <1>2, OwnersKept, Zenon
<1>5. IndexSound'
  BY <1>1, IndexKept, Zenon DEF OInv, IndexSound
<1>6. NoBlockLeaks'
  BY <1>1, LeaksKept, Zenon
<1>7. LockOK'
  <2>1. pc[t] \in NoSlotPCs
    BY DEF NoSlotPCs
  <2> SUFFICES ASSUME NEW r \in Slots, NEW u \in Threads, ino[r].writer = u
               PROVE  At(u, r)' /\ pc'[u] \in WritePCs
    BY <1>1, Zenon DEF LockOK
  <2>2. At(u, r) /\ pc[u] \in WritePCs
    BY Zenon DEF OInv, LockOK
  <2>3. u # t
    BY <2>1, NoLock, Zenon
  <2> QED
    BY <2>2, <2>3, Zenon DEF Only, At
<1>8. SizesOK'
  <2>1. \A i \in Ids : \A r \in cached' : ino'[r].block = index[i] => SizeKept(i, r)
    BY <1>1, Zenon DEF SizeKept
  <2> QED
    BY <1>1, <2>1, SizesKept, Zenon
<1> QED
  BY <1>1, <1>3, <1>4, <1>5, <1>6, <1>7, <1>8, Zenon DEF OInv

(* nkfs_inode_read.                                                        *)
\* A request that came second is lost.
LEMMA LostOK ==
  ASSUME NEW t \in Threads, Types', OpOK(t)', pc'[t] = "refbug", index'[req'[t].id] = req'[t].block
  PROVE  ObjectOK(t)' /\ ~Outside(t)'
<1>1. pc'[t] \in NoSlotPCs \cup {"refbug", "inc", "insert"} /\ pc'[t] \in NoSlotPCs \cup {"refbug"} /\ pc'[t] # "pwrite"
  OBVIOUS
<1>2. ~Outside(t)' /\ ~Ending(t)'
  BY DEF Outside, Ending, Uncreated
<1>3. CASE InTree(t)'
  BY <1>1, <1>3, TreeOK, Zenon
<1>4. CASE ~InTree(t)'
  BY <1>2, <1>4 DEF ObjectOK
<1> QED
  BY <1>2, <1>3, <1>4, Zenon

\* Outside the sections of rw_sem a request has none.
LEMMA Unlocked ==
  ASSUME OInv, NEW t \in Threads, pc[t] \notin WritePCs
  PROVE  \A r \in Slots : ino[r].writer # t
BY Zenon DEF OInv, LockOK

\* A request does no more to its inode than count.
LEMMA TouchSound ==
  ASSUME CInv, OInv, NEW t \in Threads, Only(t), UNCHANGED << store, cached, world, hist >>,
         NEW s \in Slots, OtherInos(s), SameReq(t), req'[t].ok = req[t].ok,
         ino'[s].alive = ino[s].alive, ino'[s].id = ino[s].id, ino'[s].block = ino[s].block,
         ino'[s].size = ino[s].size, ino'[s].writer = ino[s].writer,
         pc[t] \notin WritePCs, OpOK(t)', ObjectOK(t)', ~Outside(t)'
  PROVE  OInv'
<1>1. OtherSlotsKept(s) /\ cached' = cached
  BY Zenon DEF OtherInos, OtherSlotsKept
<1>2. Gentle(t, s)
  BY <1>1, Zenon DEF Gentle, KeepsObject
<1>3. \A r \in Slots : ino[r].writer # t
  BY Unlocked, Zenon
<1>4. \A i \in Ids : s \in cached' /\ ino'[s].block = index[i] => SizeKept(i, s)
  BY <1>1, Zenon DEF SizeKept
<1>5. UNCHANGED << store, world, acked, failed >> /\ stale \subseteq stale' /\ cached' \subseteq Slots
  <2>1. cached \subseteq Slots
    BY Zenon DEF CInv, Types
  <2>2. acked' = acked /\ failed' = failed /\ stale' = stale
    BY Zenon DEF hist
  <2> QED
    BY <1>1, <2>1, <2>2, Zenon
<1> QED
  BY <1>1, <1>2, <1>3, <1>4, <1>5, StillSound, Zenon

\* An inode just read is nobody else's.
LEMMA OwnAlone ==
  ASSUME CInv, NEW t \in Threads, pc[t] \in OwnPCs, NEW s \in Slots, At(t, s)
  PROVE  /\ ino[s].alive /\ s \notin cached /\ ino[s].block # 0
         /\ \A u \in Threads \ {t} : ~At(u, s)
<1>1. HandOK(t, s) /\ pc[t] # "refbug" /\ pc[t] \in OwnPCs \cup {"pwrite"}
  <2>1. "refbug" \notin OwnPCs
    BY DEF OwnPCs
  <2> QED
    BY <2>1, Zenon DEF CInv, SlotOK
<1>2. \A u \in Threads \ {t} : ~At(u, s)
  BY Zenon DEF CInv, SlotOK, PairOK
<1> QED
  BY <1>1, <1>2, Zenon DEF HandOK

(* nkfs_inode_deref and nkfs_inode_release.                                *)
\* The end of a create or a delete.
LEMMA EndingOK ==
  ASSUME NEW t \in Threads, pc'[t] \in {"deref", "release"}, req'[t].op \in {"create", "delete"},
         ino'[req'[t].slot].id = req'[t].id,
         ino'[req'[t].slot].block = 0 \/ index'[req'[t].id] = ino'[req'[t].slot].block,
         ino'[req'[t].slot].block # 0 => req'[t].slot \in cached'
  PROVE  ObjectOK(t)' /\ ~Outside(t)'
<1>1. /\ ~InTree(t)' /\ ~Outside(t)' /\ pc'[t] # "calloc" /\ pc'[t] \notin {"cwrite", "cinsert", "ckey"}
      /\ pc'[t] \notin {"have", "read", "data", "plock", "pwrite", "dkey", "ckey", "del", "remove"}
      /\ pc'[t] # "pwrite" /\ pc'[t] \notin {"cinsert", "ckey"}
  BY DEF InTree, Outside, Uncreated, Clients
<1>2. My(t)' = ino'[req'[t].slot]
  BY Zenon DEF My
<1> QED
  BY <1>1, <1>2, Zenon DEF ObjectOK

\* Whose inode a request drops.
LEMMA Dropped ==
  ASSUME CInv, OInv, NEW t \in Threads, pc[t] \in {"deref", "release"}
  PROVE  /\ My(t).id = req[t].id /\ req[t].id \in Ids
         /\ My(t).block = 0 \/ index[req[t].id] = My(t).block
         /\ My(t).block # 0 => req[t].slot \in cached
         /\ InTree(t) => index[req[t].id] = req[t].block /\ My(t).block = req[t].block /\ req[t].slot \in cached
         /\ InTree(t) \/ Ending(t)
<1>1. /\ pc[t] \notin NoSlotPCs \cup {"refbug", "inc", "insert"} /\ ~Outside(t)
      /\ pc[t] \notin NoSlotPCs /\ pc[t] # "refbug" /\ pc[t] # "idle"
  BY DEF NoSlotPCs, Outside, Uncreated
<1>2. InTree(t) \/ Ending(t)
  BY <1>1, Roles, Zenon
<1>3. req[t].id \in Ids
  BY <1>1, Zenon DEF CInv, ReqOK
<1>4. CASE InTree(t)
  BY <1>1, <1>3, <1>4, TreeCached, Zenon
<1>5. CASE Ending(t) /\ ~InTree(t)
  BY <1>3, <1>5, Zenon DEF OInv, ObjectOK
<1> QED
  BY <1>2, <1>4, <1>5, Zenon

\* A request whose block no object of the tree has.
LEMMA OutsideOK ==
  ASSUME NEW t \in Threads, Outside(t)', req'[t].op \in {"create", "delete"},
         index'[req'[t].id] = None, ino'[req'[t].slot].id = req'[t].id,
         ino'[req'[t].slot].block \in marked' \ {0},
         \A i \in Ids : index'[i] # ino'[req'[t].slot].block,
         pc'[t] \in {"ckey", "del", "remove"} => req'[t].slot \in cached',
         pc'[t] \in {"cwrite", "cinsert", "ckey"} => ino'[req'[t].slot].size = 0,
         pc'[t] \in {"cinsert", "ckey"} =>
           disk'[ino'[req'[t].slot].block] = [ id |-> req'[t].id, size |-> 0 ]
  PROVE  ObjectOK(t)'
<1>1. /\ ~InTree(t)' /\ ~Ending(t)' /\ pc'[t] # "calloc" /\ pc'[t] # "pwrite"
      /\ pc'[t] \notin {"deref", "release"}
      /\ pc'[t] \in {"have", "read", "data", "plock", "pwrite", "dkey", "ckey", "del", "remove"}
           => pc'[t] \in {"ckey", "del", "remove"}
  BY DEF InTree, Outside, Ending, Uncreated, Clients
<1>2. My(t)' = ino'[req'[t].slot]
  BY Zenon DEF My
<1> QED
  BY <1>1, <1>2, Zenon DEF ObjectOK

\* What it knows.
LEMMA OutsideHas ==
  ASSUME CInv, OInv, NEW t \in Threads, Outside(t), NEW s \in Slots, At(t, s)
  PROVE  /\ req[t].op \in {"create", "delete"} /\ req[t].op # "put" /\ pc[t] # "idle"
         /\ req[t].id \in Ids /\ index[req[t].id] = None
         /\ ino[s].id = req[t].id /\ ino[s].block \in marked /\ ino[s].block # 0 /\ ino[s].alive
         /\ \A i \in Ids : index[i] # ino[s].block
         /\ \A u \in Threads \ {t} : At(u, s) => pc[u] = "refbug"
         /\ \A u \in Threads \ {t} : Outside(u) => My(u).block # ino[s].block
<1>1. /\ req[t].op \in {"create", "delete"} /\ pc[t] \notin NoSlotPCs /\ pc[t] # "refbug"
      /\ req[t].id \in Ids
  BY Makers, Zenon
<1>2. req[t].op # "put" /\ pc[t] # "idle"
  BY <1>1 DEF NoSlotPCs
<1>3. My(t) = ino[s]
  BY Zenon DEF My, At
<1>4. /\ ino[s].id = req[t].id /\ ino[s].block \in marked /\ ino[s].block # 0
      /\ \A i \in Ids : index[i] # ino[s].block
      /\ index[req[t].id] = None
  BY <1>3, Zenon DEF OInv, ObjectOK
<1>5. \A u \in Threads \ {t} : At(u, s) => pc[u] = "refbug"
  BY Exclusive, Zenon DEF At
<1>6. \A u \in Threads \ {t} : Outside(u) => My(u).block # ino[s].block
  BY <1>3, Zenon DEF OInv, OwnersOK
<1>7. ino[s].alive
  BY <1>1, Zenon DEF CInv, SlotOK, HandOK
<1> QED
  BY <1>1, <1>2, <1>4, <1>5, <1>6, <1>7, Zenon

\* rw_sem is held by who is at a point where it is.
LEMMA LockedBy ==
  ASSUME OInv, NEW t \in Threads, NEW r \in Slots, ino[r].writer = t
  PROVE  r = req[t].slot /\ pc[t] \in WritePCs
BY Zenon DEF OInv, LockOK, At

(* nkfs_balloc_block_free and nkfs_inode_create.                           *)
\* A step that leaves the clients' knowledge and the tree alone.
LEMMA Assemble ==
  ASSUME CInv, OInv, NEW t \in Threads, Only(t), \A u \in Threads \ {t} : Left(u),
         SameReq(t), UNCHANGED << index, world, acked >>, OpOK(t)', ObjectOK(t)',
         Outside(t)' => \A u \in Threads \ {t} : Outside(u) => ino'[req'[t].slot].block # My(u).block,
         0 \in marked', IndexSound', NoBlockLeaks', LockOK', SizesOK'
  PROVE  OInv'
<1>1. \A u \in Threads : OpOK(u)' /\ ObjectOK(u)'
  BY Bystander, Zenon
<1>2. BornOK'
  BY BornKept, Zenon DEF SameReq, world
<1>3. OwnersOK'
  BY OwnersKept, Zenon
<1>4. restarts' \in Nat
  BY Zenon DEF OInv, world
<1> QED
  BY <1>1, <1>2, <1>3, <1>4, Zenon DEF OInv

\* A request that has its inode for itself and leaves the tree, the cache and
\* the blocks of others alone.
LEMMA AloneLeft ==
  ASSUME CInv, OInv, NEW t \in Threads, Only(t), UNCHANGED << index, cached >>, NEW s \in Slots,
         \A u \in Threads \ {t} : At(u, s) => pc[u] = "refbug", OtherInos(s),
         \A u \in Threads \ {t} : Outside(u) =>
           My(u).block \in marked' /\ disk'[My(u).block] = disk[My(u).block]
  PROVE  \A u \in Threads \ {t} : Left(u)
<1> SUFFICES ASSUME NEW u \in Threads \ {t} PROVE Left(u)
  OBVIOUS
<1>1. index' = index /\ cached' = cached
  OBVIOUS
<1>2. Outside(u) => \A i \in Ids : index[i] # My(u).block
  BY Zenon DEF OInv, ObjectOK
<1>3. pc[u] \notin NoSlotPCs \cup {"refbug"} => ino'[req[u].slot] = My(u)
  <2>1. pc[u] \notin NoSlotPCs => req[u].slot \in Slots
    BY HasSlot, Zenon
  <2> QED
    BY <2>1, Zenon DEF OtherInos, My, At
<1> QED
  BY <1>1, <1>2, <1>3, ZenonT(60) DEF Left

(* The superblock's life.                                                  *)
\* No object, no request.
LEMMA InitSound ==
  ASSUME Init
  PROVE  OInv
<1>1. /\ \A i \in Ids : index[i] = None /\ acked[i] = 0
      /\ marked = {0} /\ fresh = Ids /\ known = {} /\ failed = {} /\ stale = {} /\ restarts = 0 /\ cached = {}
      /\ \A s \in Slots : ino[s] = Freed
      /\ \A t \in Threads : pc[t] = "idle" /\ req[t] = NoReq
  BY DEF Init
<1>2. /\ NoReq.op = "none" /\ NoReq.id = None /\ ~NoReq.ok /\ Freed.writer = None
  BY DEF NoReq, Freed
<1>3. None \notin Ids /\ None \notin Threads
  BY SetAssumption
<1>4. ASSUME NEW t \in Threads PROVE OpOK(t) /\ ObjectOK(t) /\ ~Outside(t)
  <2>1. pc[t] = "idle" /\ req[t].op = "none" /\ req[t].id = None /\ ~req[t].ok
    BY <1>1, <1>2, Zenon
  <2>2. OpOK(t)
    BY <2>1 DEF OpOK, Uncreated, Clients
  <2>3. ~InTree(t) /\ ~Outside(t) /\ ~Ending(t)
    BY Zenon, <2>1 DEF InTree, Outside, Ending, Uncreated, Clients
  <2>4. ObjectOK(t)
    BY <2>1, <2>3 DEF ObjectOK
  <2> QED
    BY <2>2, <2>3, <2>4, Zenon
<1>5. BornOK
  <2>1. \A t \in Threads : req[t].op = "none"
    BY <1>1, <1>2, Zenon
  <2>2. \A t \in Threads : req[t].op \notin Clients \cup {"delete"} /\ req[t].op \notin {"create", "delete"}
                           /\ req[t].op # "create"
    BY <2>1 DEF Clients
  <2>3. \A i \in Ids : ~(acked[i] > 0)
    BY <1>1
  <2> QED
    BY <1>1, <2>2, <2>3, Zenon DEF BornOK
<1>6. OwnersOK
  BY <1>4, Zenon DEF OwnersOK
<1>7. IndexSound /\ NoBlockLeaks /\ SizesOK /\ 0 \in marked
  BY <1>1, Zenon DEF IndexSound, NoBlockLeaks, SizesOK
<1>8. LockOK
  BY <1>1, <1>2, <1>3, Zenon DEF LockOK
<1>9. restarts \in Nat
  BY <1>1
<1> QED
  BY <1>4, <1>5, <1>6, <1>7, <1>8, <1>9, ZenonT(60) DEF OInv

\* Every step keeps the objects.
LEMMA ObjectsKept ==
  Careful /\ CInv /\ HeldCounted /\ OInv /\ [Next]_vars => OInv'

  \* nkfs_sb_get_obj and the others have the inode; a put writes its blocks.
<1>HaveSound.
    ASSUME CInv, OInv, NEW t \in Threads, Have(t) \/ PutData(t)
    PROVE  OInv'
  <2> USE <1>HaveSound
  <2>1. OpOK(t) /\ req[t].ok \in BOOLEAN /\ req[t].op \in Ops
    BY Fields, Zenon DEF OInv, CInv
  <2>2. CASE Have(t)
    <3>1. /\ Types' /\ Only(t) /\ pc[t] = "have"
          /\ \/ /\ req[t].op \in {"get", "put"} /\ My(t).block # req[t].block /\ pc'[t] = "bug"
             \/ req[t].op = "get" /\ pc'[t] \in {"read", "deref"}
             \/ req[t].op = "put" /\ pc'[t] = "data"
             \/ req[t].op = "query" /\ pc'[t] = "deref"
             \/ req[t].op = "delete" /\ pc'[t] = "dkey"
          /\ UNCHANGED << store, ino, cached, req, world, hist >>
      BY <2>2, StepsDo, Zenon DEF HaveDid
    <3>2. InTree(t) /\ pc[t] \notin NoSlotPCs \cup {"refbug", "inc", "insert"} /\ pc[t] \notin WritePCs
      BY <3>1 DEF InTree, NoSlotPCs, WritePCs
    <3>3. My(t).block = req[t].block
      BY <3>2, TreeObject, Zenon
    <3>4. OpOK(t)' /\ InTree(t)' /\ pc'[t] # "pwrite"
      BY <2>1, <3>1, <3>3 DEF OpOK, InTree, Uncreated, Clients
    <3> QED
      BY <3>1, <3>2, <3>4, TreeGoesOn, Zenon DEF KeepReq, SameReq
  <2>3. CASE PutData(t)
    <3>1. /\ Types' /\ Only(t) /\ pc[t] = "data" /\ pc'[t] \in {"plock", "deref"}
          /\ UNCHANGED << store, ino, cached, req, world, hist >>
      BY <2>3, StepsDo, Zenon DEF PutDataDid
    <3>2. /\ InTree(t) /\ pc[t] \notin NoSlotPCs \cup {"refbug", "inc", "insert"} /\ pc[t] \notin WritePCs
          /\ OpOK(t)' /\ InTree(t)' /\ pc'[t] # "pwrite"
      BY <2>1, <3>1 DEF InTree, NoSlotPCs, WritePCs, OpOK, Uncreated, Clients
    <3> QED
      BY <3>1, <3>2, TreeGoesOn, Zenon DEF KeepReq, SameReq
  <2> QED
    BY <2>2, <2>3, Zenon

  \* nkfs_inodes_lookup.
<1>LookupSound.
    ASSUME CInv, OInv, NEW t \in Threads, Lookup(t)
    PROVE  OInv'
  <2> USE <1>LookupSound
  <2>1. /\ Types' /\ Only(t) /\ SameReq(t) /\ pc[t] = "lookup"
        /\ req'[t].block = req[t].block /\ req'[t].ok = req[t].ok
        /\ UNCHANGED << store, ino, cached, world, hist >>
        /\ \/ Found(req[t].block) = {} /\ pc'[t] = "load" /\ req'[t].slot = req[t].slot
           \/ /\ req'[t].slot \in Found(req[t].block)
              /\ pc'[t] = IF ino[req'[t].slot].ref <= 0 THEN "refbug" ELSE "inc"
    BY StepsDo, Zenon DEF LookupDid
  <2>2. CASE pc'[t] = "load" /\ req'[t].slot = req[t].slot
    BY <2>1, <2>2, FindSound, Zenon DEF Goes
  <2>3. CASE /\ req'[t].slot \in Found(req[t].block)
             /\ pc'[t] \in {"refbug", "inc"}
    <3>1. OpOK(t) /\ ObjectOK(t) /\ ReqOK(t)
      BY Zenon DEF OInv, CInv
    <3>2. InTree(t) /\ pc[t] \in NoSlotPCs
      BY <2>1 DEF InTree, NoSlotPCs
    <3>3. /\ index'[req'[t].id] = req'[t].block
          /\ ino'[req'[t].slot].block = req'[t].block /\ ino'[req'[t].slot].id = req'[t].id
      <4>1. index[req[t].id] = req[t].block
        BY <3>2, TreeObject, Zenon
      <4>2. ino[req'[t].slot].block = req[t].block /\ ino[req'[t].slot].id = req[t].id
        BY <2>3, <3>2, FoundIs, ZenonT(60)
      <4> QED
        BY <2>1, <4>1, <4>2, Zenon DEF SameReq, store
    <3>4. OpOK(t)' /\ pc'[t] # "pwrite" /\ pc'[t] \in NoSlotPCs \cup {"refbug", "inc", "insert"}
      BY <2>1, <2>3, <3>1 DEF OpOK, SameReq, Uncreated, Clients
    <3>5. ObjectOK(t)' /\ ~Outside(t)'
      <4>1. CASE InTree(t)'
        BY <2>1, <3>3, <3>4, <4>1, TreeOK, ZenonT(60)
      <4>2. CASE ~InTree(t)'
        <5>1. pc'[t] = "refbug"
          BY <2>3, <4>2 DEF InTree
        <5>2. ~Outside(t)' /\ ~Ending(t)'
          BY <5>1 DEF Outside, Ending, Uncreated
        <5> QED
          BY Zenon, <4>2, <5>1, <5>2 DEF ObjectOK
      <4> QED
        BY <4>1, <4>2, Zenon
    <3>6. req[t].slot \notin Slots
      BY <3>1, <3>2, SetAssumption, Zenon DEF ReqOK
    <3> QED
      BY <2>1, <3>4, <3>5, <3>6, SameSound, Zenon
  <2> QED
    BY <2>1, <2>2, <2>3, Zenon

  \* nkfs_sb_create_obj: the id is new.
<1>CreateStartSound.
    ASSUME CInv, OInv, NEW t \in Threads, CreateStart(t)
    PROVE  OInv'
  <2> USE <1>CreateStartSound
  <2>1. /\ Types' /\ Goes(t, "idle", "calloc")
        /\ \E i \in fresh : req'[t].op = "create" /\ req'[t].id = i /\ fresh' = fresh \ {i}
        /\ req'[t].slot = None /\ ~req'[t].ok
        /\ UNCHANGED << store, ino, cached, known, restarts, hist >>
    BY StepsDo, Zenon DEF CreateStartDid, CInv
  <2>2. PICK i \in fresh : req'[t].op = "create" /\ req'[t].id = i /\ fresh' = fresh \ {i}
    BY <2>1, Zenon
  <2>3. /\ index' = index /\ marked' = marked /\ disk' = disk /\ ino' = ino /\ cached' = cached
        /\ known' = known /\ acked' = acked /\ failed' = failed /\ stale' = stale /\ restarts' = restarts
    BY <2>1, Zenon DEF store, hist
  <2>4. i \in Ids /\ i # None /\ BornOK /\ Only(t) /\ pc[t] = "idle" /\ pc'[t] = "calloc"
    BY <2>1, SetAssumption, ZenonT(60) DEF CInv, Types, OInv, Goes
  <2>5. i \notin known /\ index[i] = None
    BY <2>4, Zenon DEF BornOK
  <2>6. OpOK(t)' /\ ~InTree(t)' /\ ~Outside(t)' /\ ~Ending(t)'
    BY Zenon, <2>1, <2>2, <2>4 DEF OpOK, InTree, Outside, Ending, Uncreated, Clients
  <2>7. ObjectOK(t)'
    BY Zenon, <2>2, <2>3, <2>4, <2>5, <2>6 DEF ObjectOK
  <2>8. BornOK'
    <3>1. \A u \in Threads \ {t} : req'[u] = req[u]
      BY <2>4, Zenon DEF Only
    <3>2. \A u \in Threads \ {t} : req[u].op # "none" => req[u].id # i
      <4> SUFFICES ASSUME NEW u \in Threads \ {t}, req[u].op # "none" PROVE req[u].id # i
        OBVIOUS
      <4>1. req[u].op \in Ops
        BY Fields, Zenon DEF CInv
      <4>2. req[u].op = "create" \/ req[u].op \in Clients \cup {"delete"}
        BY <4>1 DEF Ops, Clients
      <4> QED
        BY <2>4, <2>5, <4>2, Zenon DEF BornOK
    <3>3. "create" \notin Clients \cup {"delete"} /\ "create" \in {"create", "delete"} /\ "none" \notin {"create", "delete"}
      BY DEF Clients
    <3>4. fresh' \cap known' = {}
      BY <2>2, <2>3, <2>4, Zenon DEF BornOK
    <3>5. \A j \in Ids : (index'[j] # None => j \notin fresh') /\ (acked'[j] > 0 => j \in known')
      BY <2>2, <2>3, <2>4, Zenon DEF BornOK
    <3>6. \A u \in Threads : req'[u].op = "create" => req'[u].id \notin fresh' \cup known'
      BY <2>2, <2>3, <2>4, <2>5, <3>1, Zenon DEF BornOK
    <3>7. \A u \in Threads : req'[u].op \in Clients \cup {"delete"} => req'[u].id \in known'
      BY <2>2, <2>3, <2>4, <3>1, <3>3, Zenon DEF BornOK
    <3>8. ASSUME NEW u \in Threads, NEW v \in Threads, u # v, req'[u].op \in {"create", "delete"}
          PROVE  req'[v].id # req'[u].id
      <4>1. CASE u = t
        <5>1. req[v].op = "none" => req[v].id = None
          <6>1. OpOK(v)
            BY Zenon DEF OInv
          <6> QED
            BY <6>1, Zenon DEF OpOK
        <5> QED
          BY <2>2, <2>4, <3>1, <3>2, <3>8, <4>1, <5>1, Zenon
      <4>2. CASE u # t /\ v = t
        BY <2>2, <3>1, <3>2, <3>3, <3>8, <4>2, Zenon
      <4>3. CASE u # t /\ v # t
        BY <2>4, <3>1, <3>8, <4>3, Zenon DEF BornOK
      <4> QED
        BY <4>1, <4>2, <4>3, Zenon
    <3> QED
      BY <3>4, <3>5, <3>6, <3>7, <3>8, Zenon DEF BornOK
  <2> QED
    BY <2>1, <2>4, <2>6, <2>7, <2>8, BeginSound, Zenon

  \* A request for an object that a client knows and that nobody deletes meanwhile.
<1>StartSound.
    ASSUME Careful, CInv, OInv, NEW t \in Threads, NEW op \in Clients \cup {"delete"}, NEW i \in Ids,
           NEW end \in Nat, Start(t, op, i, end)
    PROVE  OInv'
  <2> USE <1>StartSound
  <2>1. /\ op \in Ops /\ op \notin {"none", "create"} /\ (op \in {"create", "delete"} => op = "delete")
        /\ i # None
    BY SetAssumption DEF Ops, Clients
  <2>2. /\ Types' /\ Goes(t, "idle", "find")
        /\ req'[t].op = op /\ req'[t].id = i /\ ~req'[t].ok /\ i \in known
        /\ UNCHANGED << store, ino, cached, world, hist >>
    BY <2>1, StepsDo, Zenon DEF StartDid, CInv
  <2>3. /\ op = "delete" => \A u \in Threads : req[u].id # i
        /\ \A u \in Threads : req[u].id = i => req[u].op # "delete"
    BY Zenon DEF Start, Careful, Busy, Deleting
  <2>4. /\ index' = index /\ known' = known /\ acked' = acked /\ fresh' = fresh /\ restarts' = restarts
        /\ Only(t) /\ pc[t] = "idle" /\ pc'[t] = "find" /\ BornOK
    BY <2>2, Zenon DEF store, world, hist, Goes, OInv
  <2>5. OpOK(t)' /\ ~InTree(t)' /\ ~Outside(t)' /\ ~Ending(t)'
    BY ZenonT(60), <2>1, <2>2, <2>4 DEF OpOK, InTree, Outside, Ending, Uncreated, Clients
  <2>6. ObjectOK(t)'
    BY <2>4, <2>5 DEF ObjectOK
  <2>7. BornOK'
    <3>1. \A u \in Threads \ {t} : req'[u] = req[u]
      BY <2>4, Zenon DEF Only
    <3>2. \A u \in Threads : req'[u].op = "create" => req'[u].id \notin fresh' \cup known'
      BY <2>1, <2>2, <2>4, <3>1, Zenon DEF BornOK
    <3>3. \A u \in Threads : req'[u].op \in Clients \cup {"delete"} => req'[u].id \in known'
      BY <2>2, <2>4, <3>1, Zenon DEF BornOK
    <3>4. ASSUME NEW u \in Threads, NEW v \in Threads, u # v, req'[u].op \in {"create", "delete"}
          PROVE  req'[v].id # req'[u].id
      <4>1. CASE u = t
        BY <2>1, <2>2, <2>3, <3>1, <3>4, <4>1, Zenon
      <4>2. CASE u # t /\ v = t
        <5>1. req[u].op = "create" => req[u].id # i
          BY <2>2, <2>4, Zenon DEF BornOK
        <5> QED
          BY <2>2, <2>3, <3>1, <3>4, <4>2, <5>1, Zenon
      <4>3. CASE u # t /\ v # t
        BY <2>4, <3>1, <3>4, <4>3, Zenon DEF BornOK
      <4> QED
        BY <4>1, <4>2, <4>3, Zenon
    <3> QED
      BY <2>4, <3>2, <3>3, <3>4, Zenon DEF BornOK
  <2>8. UNCHANGED << store, ino, cached, restarts, hist >>
    BY <2>2, <2>4, Zenon
  <2> QED
    BY <2>2, <2>4, <2>5, <2>6, <2>7, <2>8, BeginSound, Zenon

  \* nkfs_inode_ref.
<1>RefIncSound.
    ASSUME CInv, OInv, NEW t \in Threads, RefInc(t)
    PROVE  OInv'
  <2> USE <1>RefIncSound
  <2>1. /\ Types' /\ Only(t) /\ req' = req /\ pc[t] = "inc" /\ req[t].slot \in Slots
        /\ UNCHANGED << store, cached, world, hist >>
        /\ \/ /\ pc'[t] = "have" /\ OtherInos(req[t].slot)
              /\ ino'[req[t].slot].alive = My(t).alive /\ ino'[req[t].slot].id = My(t).id
              /\ ino'[req[t].slot].block = My(t).block /\ ino'[req[t].slot].size = My(t).size
              /\ ino'[req[t].slot].writer = My(t).writer
           \/ pc'[t] = "refbug" /\ ino' = ino
    BY StepsDo, Zenon DEF RefIncDid
  <2>2. InTree(t) /\ pc[t] \notin NoSlotPCs \cup {"refbug"} /\ pc[t] \notin WritePCs
    BY <2>1 DEF InTree, NoSlotPCs, WritePCs
  <2>3. index[req[t].id] = req[t].block /\ My(t).block = req[t].block /\ My(t).id = req[t].id
    BY <2>2, TreeObject, Zenon
  <2>4. index' = index /\ cached' = cached /\ SameReq(t)
    BY <2>1, Zenon DEF store, SameReq
  <2>5. OpOK(t)
    BY Zenon DEF OInv
  <2>6. PICK s \in Slots : s = req[t].slot
    BY <2>1, Zenon
  <2>7. CASE pc'[t] = "have"
    <3>1. /\ OtherInos(s) /\ ino'[s].alive = ino[s].alive /\ ino'[s].id = ino[s].id
          /\ ino'[s].block = ino[s].block /\ ino'[s].size = ino[s].size /\ ino'[s].writer = ino[s].writer
      <4>1. pc'[t] # "refbug"
        BY Zenon, <2>7
      <4> QED
        BY <2>1, <2>6, <4>1, Zenon DEF My
    <3>2. OpOK(t)' /\ InTree(t)' /\ pc'[t] # "pwrite"
      BY <2>1, <2>5, <2>7 DEF OpOK, InTree, Uncreated, Clients
    <3>3. s \in cached
      BY <2>1, <2>6, Zenon DEF CInv, SlotOK, At, HandOK
    <3>4. ObjectOK(t)' /\ ~Outside(t)'
      BY <2>1, <2>3, <2>4, <2>6, <3>1, <3>2, <3>3, TreeOK, Zenon DEF My
    <3> QED
      BY <2>1, <2>2, <2>4, <3>1, <3>2, <3>4, TouchSound, Zenon
  <2>8. CASE pc'[t] = "refbug" /\ ino' = ino
    <3>1. OpOK(t)'
      BY <2>1, <2>5, <2>8 DEF OpOK, Uncreated, Clients
    <3>2. ObjectOK(t)' /\ ~Outside(t)'
      BY <2>1, <2>3, <2>4, <2>8, <3>1, LostOK, Zenon
    <3> QED
      BY <2>1, <2>2, <2>4, <2>8, <3>1, <3>2, SameSound, ZenonT(60)
  <2> QED
    BY <2>1, <2>7, <2>8, Zenon

  \* The inode read from an object's block is the object's.
<1>LoadSound.
    ASSUME CInv, OInv, NEW t \in Threads, Load(t)
    PROVE  OInv'
  <2> USE <1>LoadSound
  <2>1. CASE /\ pc[t] = "load" /\ Return(t, FALSE)
             /\ UNCHANGED << store, ino, cached, mode, fresh, restarts, failed, stale >>
    BY <2>1, EndSound, Zenon
  <2>2. CASE /\ Types' /\ Goes(t, "load", "insert") /\ SameReq(t)
             /\ req'[t].block = req[t].block /\ req'[t].ok = req[t].ok
             /\ req'[t].slot \in FreeSlots /\ OtherInos(req'[t].slot)
             /\ ino'[req'[t].slot].id = disk[req[t].block].id
             /\ ino'[req'[t].slot].block = req[t].block /\ ino'[req'[t].slot].writer = None
             /\ UNCHANGED << store, cached, mode, fresh, restarts, known, hist >>
    <3>1. /\ pc[t] = "load" /\ pc'[t] = "insert" /\ Only(t)
          /\ UNCHANGED << store, world, acked, failed >> /\ stale' = stale /\ index' = index /\ cached' = cached
      BY <2>2, Zenon DEF Goes, world, hist, store
    <3>2. PICK s \in FreeSlots : s = req'[t].slot
      BY <2>2, Zenon
    <3>3. s \in Slots /\ ~ino[s].alive /\ \A u \in Threads : ~At(u, s)
      BY Zenon DEF FreeSlots, At
    <3>4. OtherSlotsKept(s) /\ Gentle(t, s)
      BY <2>2, <3>1, <3>2, <3>3, Zenon DEF OtherInos, OtherSlotsKept, Gentle
    <3>5. InTree(t) /\ OpOK(t) /\ pc[t] \in NoSlotPCs
      BY <3>1, Zenon DEF OInv, InTree, NoSlotPCs
    <3>6. PICK i \in Ids, b \in Block : i = req[t].id /\ b = req[t].block /\ index[i] = b
      BY <3>5, TreeObject, Fields, Zenon DEF CInv
    <3>7. disk[b].id = i
      BY <3>6, TreeBlock, Zenon
    <3>8. OpOK(t)' /\ InTree(t)' /\ pc'[t] # "pwrite" /\ pc'[t] \in NoSlotPCs \cup {"refbug", "inc", "insert"}
      BY <2>2, <3>1, <3>5 DEF OpOK, InTree, Uncreated, Clients, SameReq
    <3>9. ObjectOK(t)' /\ ~Outside(t)'
      BY <2>2, <3>1, <3>2, <3>6, <3>7, <3>8, TreeOK, Zenon DEF SameReq
    <3>10. \A r \in Slots : ino[r].writer # t
      BY <3>5, NoLock, Zenon
    <3>11. ino'[s].writer # t /\ ino'[s].writer \notin Threads
      BY <2>2, <3>2, SetAssumption, Zenon
    <3>12. s \notin cached' /\ cached' \subseteq Slots
      BY <3>1, <3>3, Zenon DEF CInv, SlotOK, KeptOK, Types
    <3> QED
      BY <2>2, <3>1, <3>3, <3>4, <3>8, <3>9, <3>10, <3>11, <3>12, StillSound, Zenon
  <2> QED
    BY <2>1, <2>2, StepsDo, Zenon DEF LoadDid

  \* nkfs_inodes_insert of an inode that was read.
<1>InsertSound.
    ASSUME CInv, OInv, NEW t \in Threads, Insert(t)
    PROVE  OInv'
  <2> USE <1>InsertSound
  <2>1. /\ Types' /\ Only(t) /\ SameReq(t) /\ pc[t] = "insert" /\ req[t].slot \in Slots
        /\ req'[t].block = req[t].block /\ req'[t].ok = req[t].ok
        /\ UNCHANGED << store, world, acked, failed >>
        /\ \/ /\ req'[t].slot \in Found(req[t].block)
              /\ pc'[t] = IF ino[req'[t].slot].ref <= 0 THEN "refbug" ELSE "inc"
              /\ OtherInos(req[t].slot) /\ ino'[req[t].slot] = Freed
              /\ UNCHANGED << cached, stale >>
           \/ /\ Found(req[t].block) = {} /\ cached' = cached \cup {req[t].slot}
              /\ pc'[t] = "have" /\ UNCHANGED << ino, req >>
              /\ stale' = IF My(t).size # disk[req[t].block].size
                          THEN stale \cup {My(t).id} ELSE stale
    BY StepsDo, Zenon DEF InsertDid
  <2>2. PICK s \in Slots : s = req[t].slot /\ At(t, s)
    BY <2>1, ZenonT(60) DEF At
  <2>3. pc[t] = "insert" /\ InTree(t) /\ pc[t] \in OwnPCs /\ pc[t] \notin NoSlotPCs \cup {"refbug"} /\ pc[t] \notin WritePCs
    BY <2>1 DEF InTree, OwnPCs, NoSlotPCs, WritePCs
  <2>4. ino[s].alive /\ s \notin cached /\ ino[s].block # 0 /\ \A u \in Threads \ {t} : ~At(u, s)
    BY <2>2, <2>3, OwnAlone, Zenon
  <2>5. PICK i \in Ids : /\ i = req[t].id /\ index[i] = req[t].block
                         /\ ino[s].block = req[t].block /\ ino[s].id = i
    BY <2>2, <2>3, TreeObject, Zenon DEF My
  <2>6. index' = index /\ disk' = disk /\ OpOK(t)
    BY <2>1, Zenon DEF store, OInv
  <2>7. \A r \in Slots : ino[r].writer # t
    BY <2>3, Unlocked, Zenon
  <2>8. Gentle(t, s) /\ cached \subseteq Slots
    BY <2>4, Zenon DEF Gentle, CInv, Types
  <2>9. CASE /\ req'[t].slot \in Found(req[t].block) /\ pc'[t] \in {"refbug", "inc"}
             /\ OtherInos(s) /\ ino'[s] = Freed /\ UNCHANGED << cached, stale >>
    <3>1. PICK r : r = req'[t].slot
      OBVIOUS
    <3>2. r \in Slots /\ r \in cached /\ ino[r].block = req[t].block /\ ino[r].id = req[t].id
      BY <2>3, <2>9, <3>1, FoundIs, Zenon
    <3>3. ino'[r] = ino[r]
      BY <2>4, <2>9, <3>2, ZenonT(60) DEF OtherInos
    <3>4. OpOK(t)' /\ pc'[t] # "pwrite" /\ pc'[t] \in NoSlotPCs \cup {"refbug", "inc", "insert"}
      BY Zenon, <2>1, <2>6, <2>9 DEF OpOK, SameReq, Uncreated, Clients
    <3>5. index'[req'[t].id] = req'[t].block
      BY <2>1, <2>5, <2>6, Zenon DEF SameReq
    <3>6. ObjectOK(t)' /\ ~Outside(t)'
      <4>1. CASE pc'[t] = "refbug"
        BY <2>1, <3>4, <3>5, <4>1, LostOK, Zenon
      <4>2. CASE pc'[t] = "inc"
        <5>1. InTree(t)'
          BY <4>2 DEF InTree
        <5> QED
          BY <2>1, <3>1, <3>2, <3>3, <3>4, <3>5, <5>1, TreeOK, Zenon DEF SameReq
      <4> QED
        BY <2>9, <4>1, <4>2, Zenon
    <3>7. OtherSlotsKept(s)
      BY <2>9, Zenon DEF OtherInos, OtherSlotsKept
    <3>8. ino'[s].writer # t /\ ino'[s].writer \notin Threads
      BY <2>9, Records, SetAssumption, Zenon
    <3>9. cached' = cached /\ stale' = stale
      BY <2>9
    <3> QED
      BY <2>1, <2>4, <2>5, <2>7, <2>8, <3>4, <3>6, <3>7, <3>8, <3>9, StillSound, Zenon
  <2>10. CASE /\ cached' = cached \cup {s} /\ pc'[t] = "have" /\ UNCHANGED << ino, req >>
              /\ stale' = IF ino[s].size # disk[req[t].block].size THEN stale \cup {ino[s].id} ELSE stale
    <3>1. ino' = ino /\ req' = req /\ stale \subseteq stale'
      BY Zenon, <2>10
    <3>2. OpOK(t)' /\ InTree(t)' /\ pc'[t] # "pwrite"
      BY Zenon, <2>3, <2>6, <2>10, <3>1 DEF OpOK, InTree, Uncreated, Clients
    <3>3. ObjectOK(t)' /\ ~Outside(t)'
      BY <2>1, <2>2, <2>5, <2>6, <2>10, <3>1, <3>2, TreeOK, Zenon
    <3>4. OtherSlotsKept(s)
      BY <2>10, <3>1, Zenon DEF OtherSlotsKept
    <3>5. ASSUME NEW j \in Ids \ (failed \cup stale'), ino'[s].block = index[j] PROVE SizeKept(j, s)
      <4>1. ino[s].id = j
        BY <2>4, <3>1, <3>5, Names, Zenon
      <4>2. ino[s].size = disk[req[t].block].size
        BY <2>10, <3>5, <4>1
      <4>3. ino[s].size \in Nat /\ index[j] = req[t].block
        BY <2>5, <3>1, <3>5, InoFields, Zenon DEF CInv
      <4>4. ino'[s].size >= disk[index[j]].size /\ ino'[s].size = disk[index[j]].size
        BY <3>1, <4>2, <4>3
      <4> QED
        BY <4>4, Zenon DEF SizeKept
    <3>6. ino'[s].writer # t /\ cached' \subseteq Slots
      BY <2>7, <2>8, <2>10, <3>1, Zenon
    <3> QED
      BY <2>1, <2>7, <2>8, <3>1, <3>2, <3>3, <3>4, <3>5, <3>6, StillSound, ZenonT(60)
  <2> QED
    BY <2>1, <2>2, <2>9, <2>10, Zenon DEF My

  (* nkfs_btree_find_key, nkfs_inode_read_block_buf and nkfs_inode_delete.   *)

<1>FindStepSound.
    ASSUME CInv, OInv, NEW t \in Threads, Find(t)
    PROVE  OInv'
  <2> USE <1>FindStepSound
  <2>1. \/ /\ Types' /\ Goes(t, "find", "lookup") /\ SameReq(t)
           /\ req'[t].slot = req[t].slot /\ req'[t].block = index[req[t].id]
           /\ req'[t].ok = req[t].ok
           /\ UNCHANGED << store, ino, cached, world, hist >>
        \/ /\ pc[t] = "find" /\ Return(t, FALSE)
           /\ UNCHANGED << store, ino, cached, mode, fresh, restarts, failed, stale >>
    BY StepsDo, Zenon DEF FindDid, world
  <2>2. pc[t] = "find" => pc[t] \in {"find", "load", "calloc"}
    OBVIOUS
  <2> QED
    BY <2>1, <2>2, FindSound, EndSound, Zenon

<1>ReadSound.
    ASSUME CInv, OInv, NEW t \in Threads, Read(t)
    PROVE  OInv'
  <2> USE <1>ReadSound
  <2>1. /\ Types' /\ Goes(t, "read", "deref") /\ req[t].slot \in Slots
        /\ OtherInos(req[t].slot) /\ SameIno(req[t].slot)
        /\ ino'[req[t].slot].block = My(t).block /\ ino'[req[t].slot].size = My(t).size
        /\ ino'[req[t].slot].writer = My(t).writer
        /\ UNCHANGED << store, cached, req, world, hist >>
    BY StepsDo, Zenon DEF ReadDid
  <2>2. PICK s \in Slots : s = req[t].slot /\ At(t, s) /\ My(t) = ino[s]
    BY <2>1, Zenon DEF At, My
  <2>3. /\ req[t].op = "get" /\ InTree(t) /\ pc[t] \notin NoSlotPCs \cup {"refbug", "inc", "insert"}
        /\ pc[t] \notin WritePCs /\ OpOK(t)
    <3>1. OpOK(t) /\ pc[t] = "read"
      BY <2>1, Zenon DEF OInv, Goes
    <3> QED
      BY <3>1 DEF OpOK, InTree, Clients, NoSlotPCs, WritePCs
  <2>4. /\ s \in cached /\ index[req[t].id] = req[t].block
        /\ ino[s].block = req[t].block /\ ino[s].id = req[t].id
    BY <2>2, <2>3, TreeCached, Zenon
  <2>5. pc'[t] = "deref" /\ Only(t) /\ req' = req /\ index' = index /\ cached' = cached
    BY <2>1, Zenon DEF Goes, store
  <2>6. OpOK(t)' /\ InTree(t)' /\ pc'[t] # "pwrite"
    BY <2>1, <2>3, <2>5 DEF OpOK, InTree, Uncreated, Clients
  <2>7. ObjectOK(t)' /\ ~Outside(t)'
    <3>1. ino'[s].block = req[t].block /\ ino'[s].id = req[t].id
      BY <2>1, <2>2, <2>4, Zenon DEF SameIno
    <3> QED
      BY <2>1, <2>2, <2>4, <2>5, <2>6, <3>1, TreeOK, Zenon
  <2>8. /\ ino'[s].alive = ino[s].alive /\ ino'[s].id = ino[s].id /\ ino'[s].block = ino[s].block
        /\ ino'[s].size = ino[s].size /\ ino'[s].writer = ino[s].writer
    BY <2>1, <2>2, Zenon DEF SameIno
  <2>9. OtherInos(s) /\ SameReq(t) /\ req'[t].ok = req[t].ok
    BY <2>1, <2>2, <2>5, Zenon DEF SameReq
  <2> QED
    BY <2>1, <2>3, <2>5, <2>6, <2>7, <2>8, <2>9, TouchSound, Zenon

<1>DeleteLockSound.
    ASSUME CInv, OInv, NEW t \in Threads, DeleteLock(t)
    PROVE  OInv'
  <2> USE <1>DeleteLockSound
  <2>1. /\ Types' /\ Only(t) /\ pc[t] \in {"del", "cdel"} /\ req[t].slot \in Slots
        /\ pc'[t] = IF pc[t] = "del" THEN "remove" ELSE "cremove"
        /\ OtherInos(req[t].slot) /\ SameIno(req[t].slot)
        /\ ino'[req[t].slot].block = My(t).block /\ ino'[req[t].slot].size = My(t).size
        /\ My(t).writer = None /\ ino'[req[t].slot].writer = t
        /\ UNCHANGED << store, cached, req, world, hist >>
    BY StepsDo, Zenon DEF DeleteLockDid
  <2>2. PICK s \in Slots : s = req[t].slot /\ At(t, s) /\ My(t) = ino[s]
    BY <2>1, Zenon DEF At, My
  <2>3. /\ Outside(t) /\ Outside(t)' /\ pc'[t] \in {"remove", "cremove"} /\ pc[t] \notin WritePCs
        /\ pc'[t] \in WritePCs /\ pc'[t] \notin {"cwrite", "cinsert", "ckey"} /\ pc'[t] \notin {"cinsert", "ckey"}
        /\ pc'[t] \in {"ckey", "del", "remove"} => pc[t] = "del"
    BY <2>1 DEF Outside, Uncreated, WritePCs
  <2>4. /\ req[t].op \in {"create", "delete"} /\ req[t].op # "put" /\ pc[t] # "idle"
        /\ ino[s].id = req[t].id /\ ino[s].block \in marked /\ ino[s].block # 0
        /\ \A i \in Ids : index[i] # ino[s].block
        /\ index[req[t].id] = None
    BY <2>2, <2>3, OutsideHas, Zenon
  <2>5. /\ req' = req /\ index' = index /\ marked' = marked /\ disk' = disk /\ cached' = cached
        /\ acked' = acked /\ failed' = failed /\ stale' = stale /\ UNCHANGED << store, world, acked, failed >>
    BY <2>1, ZenonT(60) DEF store, hist
  <2>6. OpOK(t)'
    <3>1. OpOK(t)
      BY Zenon DEF OInv
    <3> QED
      BY Zenon, <2>1, <2>3, <2>4, <2>5, <3>1 DEF OpOK, Uncreated, Clients
  <2>7. /\ ino'[s].alive = ino[s].alive /\ ino'[s].id = ino[s].id /\ ino'[s].block = ino[s].block
        /\ ino'[s].size = ino[s].size /\ ino'[s].writer = t
    BY <2>1, <2>2, Zenon DEF SameIno
  <2>8. ObjectOK(t)'
    <3>1. pc[t] = "del" => s \in cached
      BY <2>2, Zenon DEF OInv, ObjectOK
    <3> QED
      BY <2>2, <2>3, <2>4, <2>5, <2>7, <3>1, OutsideOK, Zenon
  <2>9. OtherSlotsKept(s) /\ Gentle(t, s) /\ SameReq(t)
    BY <2>1, <2>2, <2>5, <2>7, Zenon DEF OtherInos, OtherSlotsKept, Gentle, KeepsObject, SameReq
  <2>10. /\ At(t, s)' /\ ino'[s].writer \notin Threads \ {t}
         /\ \A r \in Slots : ino[r].writer # t
         /\ ino'[req'[t].slot].block = My(t).block
         /\ cached' \subseteq Slots /\ stale \subseteq stale'
    BY <2>2, <2>3, <2>5, <2>7, Unlocked, Zenon DEF At, CInv, Types
  <2>11. \A i \in Ids : ino'[s].block # index[i] /\ req'[t].op # "put"
    BY <2>4, <2>5, <2>7, Zenon
  <2> QED
    BY <2>1, <2>3, <2>5, <2>6, <2>7, <2>8, <2>9, <2>10, <2>11, StillSound, ZenonT(60)

<1>DeleteRemoveSound.
    ASSUME CInv, OInv, NEW t \in Threads, DeleteRemove(t)
    PROVE  OInv'
  <2> USE <1>DeleteRemoveSound
  <2>1. /\ Types' /\ Only(t) /\ pc[t] \in {"remove", "cremove"} /\ req[t].slot \in Slots
        /\ InodesUnlocked
        /\ \/ InodesRemove(t) /\ pc'[t] = IF pc[t] = "remove" THEN "free" ELSE "cfree"
           \/ /\ ~(Found(My(t).block) \subseteq {req[t].slot})
              /\ pc'[t] = "bug" /\ UNCHANGED cached
        /\ UNCHANGED << store, ino, req, world, hist >>
    BY StepsDo, Zenon DEF DeleteRemoveDid
  <2>2. PICK s \in Slots : s = req[t].slot /\ At(t, s) /\ My(t) = ino[s]
    BY <2>1, ZenonT(60) DEF At, My
  <2>3. Outside(t) /\ pc[t] \in WritePCs
    BY Zenon, <2>1 DEF Outside, Uncreated, WritePCs
  <2>4. /\ req[t].op \in {"create", "delete"} /\ req[t].op # "put" /\ pc[t] # "idle"
        /\ ino[s].id = req[t].id /\ ino[s].block \in marked /\ ino[s].block # 0
        /\ \A i \in Ids : index[i] # ino[s].block
        /\ index[req[t].id] = None
        /\ \A u \in Threads \ {t} : At(u, s) => pc[u] = "refbug"
    BY <2>2, <2>3, OutsideHas, ZenonT(60)
  <2>5. Found(ino[s].block) \subseteq {s}
    BY <2>2, <2>3, Sole, Zenon DEF Found
  <2>6. InodesRemove(t) /\ pc'[t] = IF pc[t] = "remove" THEN "free" ELSE "cfree"
    BY <2>1, <2>2, <2>5, Zenon
  <2>7. cached' = cached \ Found(ino[s].block) /\ cached' \subseteq Slots
    BY <2>1, <2>2, <2>6, Zenon DEF InodesRemove, Types
  <2>8. /\ Outside(t)' /\ pc'[t] \in WritePCs /\ pc'[t] \in {"free", "cfree"}
        /\ pc'[t] \notin {"cwrite", "cinsert", "ckey"} /\ pc'[t] \notin {"cinsert", "ckey"}
        /\ pc'[t] \notin {"ckey", "del", "remove"}
    BY <2>1, <2>6 DEF Outside, Uncreated, WritePCs
  <2>9. /\ req' = req /\ index' = index /\ marked' = marked /\ disk' = disk /\ ino' = ino
        /\ stale' = stale /\ UNCHANGED << store, world, acked, failed >>
    BY <2>1, ZenonT(60) DEF store, hist
  <2>10. OpOK(t)'
    <3>1. OpOK(t)
      BY Zenon DEF OInv
    <3> QED
      BY <2>1, <2>4, <2>6, <2>9, <3>1 DEF OpOK, Uncreated, Clients
  <2>11. ObjectOK(t)'
    BY <2>2, <2>4, <2>8, <2>9, OutsideOK, Zenon
  <2>12. OtherSlotsKept(s) /\ Gentle(t, s) /\ SameReq(t)
    BY <2>4, <2>5, <2>7, <2>9, Zenon DEF OtherSlotsKept, Gentle, SameReq
  <2>13. /\ At(t, s)' /\ \A r \in Slots \ {s} : ino[r].writer # t
         /\ ino'[req'[t].slot].block = My(t).block /\ stale \subseteq stale'
    BY <2>2, <2>9, LockedBy, Zenon DEF At
  <2> QED
    BY <2>1, <2>3, <2>4, <2>7, <2>8, <2>9, <2>10, <2>11, <2>12, <2>13, StillSound, Zenon

<1>DeleteFreeSound.
    ASSUME CInv, OInv, NEW t \in Threads, DeleteFree(t)
    PROVE  OInv'
  <2> USE <1>DeleteFreeSound
  <2>1. /\ Types' /\ Only(t) /\ pc[t] \in {"free", "cfree"} /\ req[t].slot \in Slots
        /\ UNCHANGED << index, disk, cached, mode, fresh, restarts, stale >>
        /\ \/ /\ My(t).block \notin marked /\ pc'[t] = "bug"
              /\ UNCHANGED << marked, ino, req, failed, known, acked >>
           \/ /\ My(t).block \in marked
              /\ \/ marked' = marked \ {My(t).block} /\ UNCHANGED failed
                 \/ failed' = failed \cup {My(t).id} /\ UNCHANGED marked
              /\ OtherInos(req[t].slot)
              /\ \/ /\ pc[t] = "free" /\ pc'[t] = "deref" /\ SameIno(req[t].slot)
                    /\ ino'[req[t].slot].block = 0 /\ ino'[req[t].slot].size = 0
                    /\ ino'[req[t].slot].writer = None
                    /\ UNCHANGED << req, known, acked >>
                 \/ /\ pc[t] = "cfree" /\ Return(t, FALSE) /\ ino'[req[t].slot] = Freed
                    /\ pc'[t] = "idle" /\ req'[t] = NoReq
    BY StepsDo, Zenon DEF DeleteFreeDid
  <2>2. PICK s \in Slots : s = req[t].slot /\ At(t, s) /\ My(t) = ino[s]
    BY <2>1, ZenonT(60) DEF At, My
  <2>3. Outside(t) /\ pc[t] # "idle" /\ (pc[t] = "cfree" => pc[t] \in OwnPCs)
    BY <2>1 DEF Outside, Uncreated, OwnPCs
  <2>4. /\ req[t].op \in {"create", "delete"} /\ req[t].op # "put"
        /\ ino[s].id = req[t].id /\ ino[s].block \in marked /\ ino[s].block # 0
        /\ \A i \in Ids : index[i] # ino[s].block
        /\ index[req[t].id] = None
        /\ \A u \in Threads \ {t} : At(u, s) => pc[u] = "refbug"
        /\ \A u \in Threads \ {t} : Outside(u) => My(u).block # ino[s].block
    BY <2>2, <2>3, OutsideHas, ZenonT(60)
  <2>5. /\ \/ marked' = marked \ {ino[s].block} /\ failed' = failed
           \/ failed' = failed \cup {ino[s].id} /\ marked' = marked
        /\ OtherInos(s) /\ ino'[s].writer = None /\ ino'[s].block = 0
        /\ \/ /\ pc[t] = "free" /\ pc'[t] = "deref" /\ SameIno(s)
              /\ ino'[s].size = 0
              /\ UNCHANGED << req, known, acked >>
           \/ pc[t] = "cfree" /\ Return(t, FALSE) /\ ino'[s] = Freed
    <3>1. Freed.writer = None /\ Freed.block = 0
      BY Records, Zenon
    <3> QED
      BY <2>1, <2>2, <2>4, <3>1, Zenon
  <2>6. /\ failed \subseteq failed' /\ marked' \subseteq marked /\ 0 \in marked'
        /\ failed' # {} \/ ino[s].block \notin marked'
        /\ index' = index /\ disk' = disk /\ cached' = cached /\ stale' = stale /\ restarts' = restarts
    BY <2>1, <2>4, <2>5, Zenon DEF OInv
  <2>7. \A i \in Ids : index[i] # None => index[i] \in marked'
    BY <2>4, <2>5, Zenon DEF OInv, IndexSound
  <2>8. \A u \in Threads \ {t} : Left(u)
    <3>1. \A u \in Threads \ {t} : Outside(u) => My(u).block \in marked'
      BY <2>4, <2>5, Zenon DEF OInv, ObjectOK
    <3> QED
      BY <2>1, <2>4, <2>5, <2>6, <3>1, AloneLeft, Zenon
  <2>9. \A r \in Slots \ {s} : ino[r].writer # t /\ ino'[r] = ino[r]
    BY <2>2, <2>5, LockedBy, Zenon DEF OtherInos
  <2>10. s \notin cached /\ cached \subseteq Slots
    <3>1. HandOK(t, s)
      BY <2>2, Zenon DEF CInv, SlotOK, At
    <3> QED
      BY <2>3, <2>5, <3>1, Zenon DEF HandOK, CInv, Types
  <2>11. \A i \in Ids : \A r \in cached' : ino'[r].block = index[i] => SizeKept(i, r)
    BY <2>6, <2>9, <2>10, Zenon DEF SizeKept
  <2>12. CASE pc[t] = "cfree" /\ Return(t, FALSE) /\ ino'[s] = Freed
    <3>1. ASSUME NEW r \in Slots
          PROVE  /\ ino'[r].writer # t
                 /\ ino'[r].writer \in Threads => ino'[r].writer = ino[r].writer
                 /\ ino[r].alive => \/ failed' # {}
                                    \/ ino[r].block \notin marked' \ {0}
                                    \/ ino'[r].alive /\ ino'[r].block = ino[r].block
      BY <2>5, <2>6, <2>9, SetAssumption, Zenon
    <3> QED
      BY <2>1, <2>3, <2>6, <2>7, <2>8, <2>11, <2>12, <3>1, ReturnSound, Zenon
  <2>13. CASE /\ pc[t] = "free" /\ pc'[t] = "deref" /\ SameIno(s)
              /\ UNCHANGED << req, known, acked >>
    <3>1. /\ req' = req /\ known' = known /\ acked' = acked /\ UNCHANGED << index, world, acked >> /\ SameReq(t)
          /\ pc'[t] \in {"deref", "release"}
      BY <2>1, <2>13, ZenonT(60) DEF world, SameReq
    <3>2. OpOK(t)'
      <4>1. OpOK(t)
        BY Zenon DEF OInv
      <4> QED
        BY Zenon, <2>4, <2>13, <3>1, <4>1 DEF OpOK, Uncreated, Clients
    <3>3. ObjectOK(t)' /\ ~Outside(t)'
      BY <2>2, <2>4, <2>5, <2>13, <3>1, EndingOK, ZenonT(60) DEF SameIno
    <3>4. IndexSound'
      BY <2>6, <2>7, IndexKept, Zenon
    <3>5. NoBlockLeaks'
      <4>1. CASE failed' # {}
        BY <4>1, Zenon DEF NoBlockLeaks
      <4>2. CASE failed' = {}
        BY <2>6, <2>9, <4>2, LeaksKept, Zenon
      <4> QED
        BY <4>1, <4>2, Zenon
    <3>6. LockOK'
      <4>1. OtherSlotsKept(s) /\ ino'[s].writer \notin Threads
        BY <2>5, <2>6, SetAssumption, Zenon DEF OtherInos, OtherSlotsKept
      <4> QED
        BY <2>1, <2>9, <4>1, LockKept, Zenon
    <3>7. SizesOK'
      BY <2>1, <2>4, <2>6, <2>11, <3>1, SizesKept, Zenon
    <3> QED
      BY <2>1, <2>6, <2>8, <3>1, <3>2, <3>3, <3>4, <3>5, <3>6, <3>7, Assemble, Zenon
  <2> QED
    BY <2>5, <2>12, <2>13, Zenon

<1>CreateAllocSound.
    ASSUME CInv, OInv, NEW t \in Threads, CreateAlloc(t)
    PROVE  OInv'
  <2> USE <1>CreateAllocSound
  <2>1. CASE pc[t] = "calloc" /\ Return(t, FALSE)
             /\ UNCHANGED << store, ino, cached, mode, fresh, restarts, failed, stale >>
    <3>1. pc[t] \in {"find", "load", "calloc"}
      BY <2>1
    <3> QED
      BY <2>1, <3>1, EndSound, Zenon
  <2>2. ASSUME ~(pc[t] = "calloc" /\ Return(t, FALSE)
                 /\ UNCHANGED << store, ino, cached, mode, fresh, restarts, failed, stale >>)
        PROVE  OInv'
    <3>1. /\ Types' /\ Only(t) /\ SameReq(t) /\ pc[t] = "calloc" /\ req'[t].ok = req[t].ok
          /\ req'[t].slot \in FreeSlots /\ OtherInos(req'[t].slot)
          /\ LET n == ino'[req'[t].slot]
             IN  /\ n.alive /\ n.ref = 1 /\ n.id = req[t].id
                 /\ n.size = 0 /\ n.writer = None
                 /\ n.block \in Block \ marked /\ marked' = marked \cup {n.block}
                 /\ pc'[t] = IF n.block = 0 THEN "bug" ELSE "cwrite"
          /\ UNCHANGED << index, disk, cached, mode, fresh, restarts, known, hist >>
      BY <2>2, StepsDo, Zenon DEF CreateAllocDid
    <3>2. PICK s \in Slots, b \in Block :
            /\ s = req'[t].slot /\ b = ino'[s].block
            /\ ~ino[s].alive /\ (\A u \in Threads : ~At(u, s)) /\ OtherInos(s)
            /\ ino'[s].alive /\ ino'[s].id = req[t].id /\ ino'[s].size = 0 /\ ino'[s].writer = None
            /\ b \notin marked /\ marked' = marked \cup {b}
            /\ pc'[t] = IF b = 0 THEN "bug" ELSE "cwrite"
      BY <3>1, Zenon DEF FreeSlots, At
    <3>3. b # 0 /\ pc'[t] = "cwrite"
      BY <3>2, Zenon DEF OInv
    <3>4. /\ Outside(t)' /\ pc[t] \in NoSlotPCs /\ req[t].op = "create" /\ OpOK(t)' /\ req'[t].op = "create"
          /\ pc'[t] \notin {"cinsert", "ckey"} /\ pc'[t] \notin {"ckey", "del", "remove"}
          /\ req[t].op # "put" /\ req[t].op \in {"create", "delete"}
      <4>1. OpOK(t) /\ req'[t].op = req[t].op /\ req'[t].id = req[t].id
        BY <3>1, Zenon DEF OInv, SameReq
      <4> QED
        BY Zenon, <3>1, <3>3, <4>1 DEF OpOK, Outside, NoSlotPCs, Uncreated, Clients
    <3>5. /\ index' = index /\ disk' = disk /\ cached' = cached /\ acked' = acked /\ failed' = failed
          /\ stale' = stale /\ restarts' = restarts /\ UNCHANGED << index, world, acked >>
      BY <3>1, Zenon DEF hist, world
    <3>6. /\ \A i \in Ids : index[i] # b
          /\ index[req[t].id] = None /\ req'[t].id = req[t].id
          /\ \A u \in Threads \ {t} : Outside(u) => My(u).block \in marked
      <4>1. \A i \in Ids : index[i] # b
        BY <3>2, TreeBlock, Zenon
      <4> QED
        BY <3>1, <4>1, Zenon DEF OInv, ObjectOK, SameReq
    <3>7. ObjectOK(t)'
      BY <3>2, <3>3, <3>4, <3>5, <3>6, OutsideOK, Zenon
    <3>8. \A u \in Threads \ {t} : Left(u)
      BY <3>1, <3>2, <3>5, <3>6, AloneLeft, Zenon
    <3>9. s \notin cached /\ cached \subseteq Slots
      BY <3>2, Zenon DEF CInv, SlotOK, KeptOK, Types
    <3>10. \A r \in Slots \ {s} : ino[r].writer # t /\ ino'[r] = ino[r]
      BY <3>2, <3>4, NoLock, Zenon DEF OtherInos
    <3>11. IndexSound'
      BY <3>2, <3>5, IndexKept, Zenon DEF OInv, IndexSound
    <3>12. NoBlockLeaks'
      BY <3>2, <3>5, <3>10, LeaksKept, Zenon
    <3>13. LockOK'
      <4>1. OtherSlotsKept(s) /\ ino'[s].writer \notin Threads
        BY <3>2, <3>5, <3>10, SetAssumption, Zenon DEF OtherSlotsKept
      <4> QED
        BY <3>1, <3>10, <4>1, LockKept, Zenon
    <3>14. SizesOK'
      <4>1. \A i \in Ids : \A r \in cached' : ino'[r].block = index[i] => SizeKept(i, r)
        BY <3>5, <3>9, <3>10, Zenon DEF SizeKept
      <4> QED
        BY <3>1, <3>4, <3>5, <4>1, SizesKept, Zenon DEF SameReq
    <3>15. /\ 0 \in marked'
           /\ \A u \in Threads \ {t} : Outside(u) => ino'[req'[t].slot].block # My(u).block
      BY <3>2, <3>6, Zenon DEF OInv
    <3> QED
      BY <3>1, <3>4, <3>5, <3>7, <3>8, <3>11, <3>12, <3>13, <3>14, <3>15, Assemble, Zenon
  <2> QED
    BY <2>1, <2>2, Zenon

<1>CreateWriteSound.
    ASSUME CInv, OInv, NEW t \in Threads, CreateWrite(t)
    PROVE  OInv'
  <2> USE <1>CreateWriteSound
  <2>1. /\ Types' /\ Only(t) /\ pc[t] = "cwrite" /\ req[t].slot \in Slots
        /\ \A b \in Block : b # My(t).block => disk'[b] = disk[b]
        /\ \/ /\ pc'[t] = "cinsert"
              /\ disk'[My(t).block] = [ id |-> My(t).id, size |-> My(t).size ]
           \/ pc'[t] = "cdel"
        /\ UNCHANGED << index, marked, ino, cached, req, world, hist >>
    BY StepsDo, Zenon DEF CreateWriteDid
  <2>2. PICK s \in Slots : s = req[t].slot /\ At(t, s) /\ My(t) = ino[s]
    BY <2>1, ZenonT(60) DEF At, My
  <2>3. /\ Outside(t) /\ Outside(t)' /\ pc[t] \in {"cwrite", "cinsert", "ckey"} /\ pc[t] \notin WritePCs
        /\ pc'[t] \notin {"ckey", "del", "remove"} /\ pc'[t] \in {"cinsert", "ckey"} => pc'[t] = "cinsert"
        /\ pc'[t] # "cinsert" => pc'[t] = "cdel"
    BY Zenon, <2>1 DEF Outside, Uncreated, WritePCs
  <2>4. /\ req[t].op \in {"create", "delete"} /\ req[t].op # "put" /\ pc[t] # "idle"
        /\ ino[s].id = req[t].id /\ ino[s].block \in marked /\ ino[s].block # 0
        /\ \A i \in Ids : index[i] # ino[s].block
        /\ index[req[t].id] = None
        /\ \A u \in Threads \ {t} : At(u, s) => pc[u] = "refbug"
        /\ \A u \in Threads \ {t} : Outside(u) => My(u).block # ino[s].block
    BY <2>2, <2>3, OutsideHas, ZenonT(60)
  <2>5. /\ req' = req /\ index' = index /\ marked' = marked /\ ino' = ino /\ cached' = cached
        /\ acked' = acked /\ failed' = failed /\ stale' = stale /\ UNCHANGED << index, world, acked >>
        /\ SameReq(t) /\ restarts' = restarts
    BY <2>1, Zenon DEF hist, SameReq, world
  <2>6. ino[s].size = 0
    BY <2>2, <2>3, Zenon DEF OInv, ObjectOK
  <2>7. OpOK(t)'
    <3>1. OpOK(t)
      BY Zenon DEF OInv
    <3> QED
      BY Zenon, <2>1, <2>4, <2>5, <3>1 DEF OpOK, Uncreated, Clients
  <2>8. ObjectOK(t)'
    <3>1. pc'[t] = "cinsert" => disk'[ino[s].block] = [ id |-> req[t].id, size |-> 0 ]
      <4>1. "cinsert" # "cdel"
        OBVIOUS
      <4> QED
        BY <2>1, <2>2, <2>4, <2>6, <4>1, Zenon
    <3> QED
      BY <2>2, <2>3, <2>4, <2>5, <2>6, <3>1, OutsideOK, Zenon
  <2>16. \A b \in marked : b # ino[s].block => disk'[b] = disk[b]
    BY <2>1, <2>2, Zenon DEF CInv, Types
  <2>9. \A i \in Ids : index[i] # None => disk'[index[i]] = disk[index[i]] /\ index[i] \in marked
    BY <2>4, <2>16, Zenon DEF OInv, IndexSound
  <2>10. \A u \in Threads \ {t} : Left(u)
    <3>1. \A u \in Threads \ {t} : Outside(u) =>
            My(u).block \in marked' /\ disk'[My(u).block] = disk[My(u).block]
      BY <2>4, <2>5, <2>16, ZenonT(60) DEF OInv, ObjectOK
    <3>2. OtherInos(s)
      BY <2>5, Zenon DEF OtherInos, CInv, Types
    <3> QED
      BY <2>1, <2>4, <2>5, <3>1, <3>2, AloneLeft, Zenon
  <2>11. IndexSound' /\ 0 \in marked'
    BY <2>5, <2>9, IndexKept, Zenon DEF OInv
  <2>12. NoBlockLeaks'
    BY <2>5, LeaksKept, Zenon
  <2>13. LockOK'
    <3>1. OtherSlotsKept(s) /\ \A r \in Slots : ino[r].writer # t
      BY <2>3, <2>5, Unlocked, Zenon DEF OtherSlotsKept
    <3> QED
      BY <2>1, <2>5, <3>1, LockKept, Zenon
  <2>14. SizesOK'
    <3>1. \A i \in Ids : \A r \in cached' : ino'[r].block = index[i] => SizeKept(i, r)
      BY <2>5, Zenon DEF SizeKept
    <3> QED
      BY <2>1, <2>4, <2>5, <2>9, <3>1, SizesKept, Zenon
  <2>15. \A u \in Threads \ {t} : Outside(u) => ino'[req'[t].slot].block # My(u).block
    BY <2>2, <2>4, <2>5, Zenon
  <2> QED
    BY <2>1, <2>5, <2>7, <2>8, <2>10, <2>11, <2>12, <2>13, <2>14, <2>15, Assemble, Zenon

<1>CreateInsertSound.
    ASSUME CInv, OInv, NEW t \in Threads, CreateInsert(t)
    PROVE  OInv'
  <2> USE <1>CreateInsertSound
  <2>1. /\ Types' /\ Only(t) /\ pc[t] = "cinsert" /\ req[t].slot \in Slots
        /\ \/ Found(My(t).block) = {} /\ cached' = cached \cup {req[t].slot} /\ pc'[t] = "ckey"
           \/ Found(My(t).block) # {} /\ pc'[t] = "bug" /\ UNCHANGED cached
        /\ UNCHANGED << store, ino, req, world, hist >>
    BY StepsDo, Zenon DEF CreateInsertDid
  <2>2. PICK s \in Slots : s = req[t].slot /\ At(t, s) /\ My(t) = ino[s]
    BY <2>1, ZenonT(60) DEF At, My
  <2>3. Outside(t) /\ pc[t] \in OwnPCs /\ pc[t] \notin WritePCs
        /\ pc[t] \in {"cwrite", "cinsert", "ckey"} /\ pc[t] \in {"cinsert", "ckey"}
    BY <2>1 DEF Outside, Uncreated, OwnPCs, WritePCs
  <2>4. /\ req[t].op \in {"create", "delete"} /\ req[t].op # "put" /\ pc[t] # "idle"
        /\ ino[s].id = req[t].id /\ ino[s].block \in marked /\ ino[s].block # 0
        /\ \A i \in Ids : index[i] # ino[s].block
        /\ index[req[t].id] = None
    BY <2>2, <2>3, OutsideHas, Zenon
  <2>5. Found(ino[s].block) = {}
    <3>1. s \notin cached
      BY <2>2, <2>3, Zenon DEF CInv, SlotOK, HandOK
    <3> QED
      BY <2>2, <2>3, <3>1, Sole, Zenon DEF Found
  <2>6. cached' = cached \cup {s} /\ pc'[t] = "ckey" /\ cached' \subseteq Slots
    BY <2>1, <2>2, <2>5, Zenon DEF Types
  <2>7. Outside(t)'
    BY <2>6 DEF Outside, Uncreated
  <2>8. /\ req' = req /\ index' = index /\ marked' = marked /\ disk' = disk /\ ino' = ino
        /\ stale' = stale /\ UNCHANGED << store, world, acked, failed >>
    BY <2>1, Zenon DEF store, hist
  <2>9. OpOK(t)'
    <3>1. OpOK(t)
      BY Zenon DEF OInv
    <3> QED
      BY Zenon, <2>1, <2>4, <2>6, <2>8, <3>1 DEF OpOK, Uncreated, Clients
  <2>10. ObjectOK(t)'
    <3>1. ino[s].size = 0 /\ disk[ino[s].block] = [ id |-> req[t].id, size |-> 0 ]
      BY <2>2, <2>3, Zenon DEF OInv, ObjectOK
    <3> QED
      BY <2>2, <2>4, <2>6, <2>7, <2>8, <3>1, OutsideOK, Zenon
  <2>11. OtherSlotsKept(s) /\ Gentle(t, s) /\ SameReq(t)
    BY <2>6, <2>8, Zenon DEF OtherSlotsKept, Gentle, KeepsObject, SameReq
  <2>12. /\ \A r \in Slots : ino[r].writer # t
         /\ ino'[req'[t].slot].block = My(t).block /\ stale \subseteq stale'
         /\ \A i \in Ids : ino'[s].block # index[i] /\ req'[t].op # "put"
    BY <2>2, <2>3, <2>4, <2>8, Unlocked, Zenon
  <2> QED
    BY <2>1, <2>3, <2>6, <2>8, <2>9, <2>10, <2>11, <2>12, StillSound, Zenon

<1>CreateKeySound.
    ASSUME CInv, OInv, NEW t \in Threads, CreateKey(t)
    PROVE  OInv'
  <2> USE <1>CreateKeySound
  <2>1. /\ Types' /\ Only(t) /\ pc[t] = "ckey" /\ req[t].slot \in Slots
        /\ KeepReq(t)
        /\ \/ /\ index' = [index EXCEPT ![req[t].id] = My(t).block]
              /\ req'[t].ok /\ pc'[t] = "deref"
           \/ pc'[t] = "del" /\ UNCHANGED << index, req >>
        /\ UNCHANGED << marked, disk, ino, cached, world, hist >>
    BY StepsDo, Zenon DEF CreateKeyDid
  <2>2. PICK s \in Slots, b \in Block, k \in Ids :
          s = req[t].slot /\ At(t, s) /\ My(t) = ino[s] /\ b = ino[s].block /\ k = req[t].id
    <3>1. PICK s \in Slots : s = req[t].slot /\ At(t, s) /\ My(t) = ino[s]
      BY <2>1, Zenon DEF At, My
    <3>2. ino[s].block \in Block
      BY InoFields, Zenon DEF CInv
    <3>3. req[t].id \in Ids
      <4>1. pc[t] # "idle"
        BY Zenon, <2>1
      <4> QED
        BY <4>1, Zenon DEF CInv, ReqOK
    <3> QED
      BY <3>1, <3>2, <3>3, Zenon
  <2>3. /\ Outside(t) /\ pc[t] \notin WritePCs /\ pc[t] \in {"cwrite", "cinsert", "ckey"}
        /\ pc[t] \in {"cinsert", "ckey"}
        /\ pc[t] \in {"have", "read", "data", "plock", "pwrite", "dkey", "ckey", "del", "remove"}
        /\ pc[t] \in Uncreated
    BY <2>1 DEF Outside, Uncreated, WritePCs
  <2>4. /\ req[t].op \in {"create", "delete"} /\ req[t].op # "put" /\ pc[t] # "idle"
        /\ ino[s].id = k /\ b \in marked /\ b # 0 /\ ino[s].alive
        /\ \A i \in Ids : index[i] # b
        /\ index[k] = None
        /\ \A u \in Threads \ {t} : At(u, s) => pc[u] = "refbug"
        /\ \A u \in Threads \ {t} : Outside(u) => My(u).block # b
    BY <2>2, <2>3, OutsideHas, ZenonT(60)
  <2>5. s \in cached /\ ino[s].size = 0 /\ disk[b] = [ id |-> k, size |-> 0 ]
    BY <2>2, <2>3, Zenon DEF OInv, ObjectOK
  <2>6. /\ marked' = marked /\ disk' = disk /\ ino' = ino /\ cached' = cached /\ acked' = acked
        /\ failed' = failed /\ stale' = stale /\ known' = known /\ fresh' = fresh /\ restarts' = restarts
        /\ req'[t].op = req[t].op /\ req'[t].id = k /\ req'[t].slot = s /\ SameReq(t)
    BY <2>1, <2>2, Zenon DEF hist, world, KeepReq, SameReq
  <2>7. OpOK(t) /\ req[t].op = "create"
    BY <2>3, Zenon DEF OInv, OpOK
  <2>8. \A r \in Slots : ino[r].writer # t
    BY <2>3, Unlocked, Zenon
  <2>9. CASE pc'[t] = "del" /\ UNCHANGED << index, req >>
    <3>1. Outside(t)' /\ pc'[t] \notin {"cwrite", "cinsert", "ckey"} /\ pc'[t] \notin {"cinsert", "ckey"}
      BY Zenon, <2>9 DEF Outside, Uncreated
    <3>2. OpOK(t)'
      BY <2>7, <2>9 DEF OpOK, Uncreated, Clients
    <3>3. ObjectOK(t)'
      BY <2>2, <2>4, <2>5, <2>6, <2>9, <3>1, OutsideOK, Zenon
    <3>4. UNCHANGED << store, ino, cached, world, hist >>
      BY <2>1, <2>9, Zenon DEF store
    <3> QED
      BY <2>1, <2>2, <2>3, <2>4, <2>6, <3>2, <3>3, <3>4, SameSound, Zenon
  <2>10. CASE index' = [index EXCEPT ![k] = b] /\ pc'[t] = "deref"
    <3>1. /\ index'[k] = b /\ \A i \in Ids \ {k} : index'[i] = index[i]
      BY <2>10 DEF CInv, Types
    <3>2. \A u \in Threads \ {t} : req[u].id # k
      BY <2>2, <2>4, Zenon DEF OInv, BornOK
    <3>3. ASSUME NEW u \in Threads \ {t} PROVE Left(u)
      <4>1. pc[u] # "idle" => req[u].id \in Ids \ {k}
        BY <3>2, Zenon DEF CInv, ReqOK
      <4>2. Outside(u) => /\ \A i \in Ids : index[i] # My(u).block
                          /\ My(u).block \in marked
        BY Zenon DEF OInv, ObjectOK
      <4>3. Outside(u) => \A i \in Ids : index'[i] # My(u).block
        BY <2>4, <3>1, <4>2, Zenon
      <4> QED
        BY <2>6, <3>1, <4>1, <4>2, <4>3, Zenon DEF Left, My
    <3>4. OpOK(t)' /\ pc'[t] \in {"deref", "release"}
      BY Zenon, <2>1, <2>2, <2>6, <2>7, <2>10 DEF OpOK, Uncreated, Clients
    <3>5. ObjectOK(t)' /\ ~Outside(t)'
      BY <2>2, <2>4, <2>5, <2>6, <3>1, <3>4, EndingOK, ZenonT(60)
    <3>6. \A u \in Threads : OpOK(u)' /\ ObjectOK(u)'
      BY <2>1, <3>3, <3>4, <3>5, Bystander, Zenon
    <3>7. k \notin fresh \cup known /\ acked[k] = 0
      <4>1. k \notin fresh \cup known
        BY <2>2, <2>7, ZenonT(60) DEF OInv, BornOK
      <4>2. ~(acked[k] > 0)
        BY <4>1, Zenon DEF OInv, BornOK
      <4>3. acked[k] \in Nat
        BY Zenon DEF CInv, Types
      <4> QED
        BY <4>1, <4>2, <4>3
    <3>8. BornOK'
      <4>1. \A u \in Threads : req'[u].op = req[u].op /\ req'[u].id = req[u].id
        BY <2>1, <2>2, <2>6, Zenon DEF Only
      <4>2. \A i \in Ids : (index'[i] # None => i \notin fresh)
        BY <3>1, <3>7, Zenon DEF OInv, BornOK
      <4> QED
        BY <2>6, <4>1, <4>2, Zenon DEF OInv, BornOK
    <3>9. OwnersOK'
      BY <2>1, <3>3, <3>5, OwnersKept, Zenon
    <3>10. IndexSound'
      <4>1. disk[b].id = k
        BY <2>5
      <4> SUFFICES ASSUME NEW i \in Ids, index'[i] # None
                   PROVE  /\ index'[i] \in marked \ {0} /\ disk[index'[i]].id = i
                          /\ \A j \in Ids \ {i} : index'[j] # index'[i]
        BY <2>6, Zenon DEF IndexSound
      <4>2. CASE i = k
        BY <2>4, <3>1, <4>1, <4>2, Zenon
      <4>3. CASE i # k
        <5>1. /\ index'[i] = index[i] /\ index[i] \in marked \ {0} /\ disk[index[i]].id = i
              /\ \A j \in Ids \ {i} : index[j] # index[i]
          BY <3>1, <4>3, Zenon DEF OInv, IndexSound
        <5> QED
          BY <2>4, <3>1, <5>1, Zenon
      <4> QED
        BY <4>2, <4>3, ZenonT(60)
    <3>11. NoBlockLeaks'
      <4>1. None \notin marked
        BY SetAssumption, Zenon DEF CInv, Types, Block
      <4>2. \A i \in Ids : index[i] \notin marked' \/ index'[i] = index[i]
        BY <2>4, <2>6, <3>1, <4>1, Zenon
      <4> QED
        BY <2>6, <4>2, LeaksKept, Zenon
    <3>12. LockOK'
      <4>1. OtherSlotsKept(s)
        BY <2>6, Zenon DEF OtherSlotsKept
      <4> QED
        BY <2>1, <2>6, <2>8, <4>1, LockKept, Zenon
    <3>13. SizesOK'
      <4> SUFFICES ASSUME NEW i \in Ids \ (failed \cup stale), index'[i] # None
                   PROVE  Current(i)'
        BY <2>6, Zenon DEF SizesOK
      <4>1. CASE i # k
        <5>1. index'[i] = index[i] /\ Current(i)
          BY <3>1, <4>1, Zenon DEF OInv, SizesOK
        <5>2. Found(index[i])' = Found(index[i])
          BY <2>6, <5>1, Zenon DEF Found
        <5>3. \A u \in Threads : req'[u].id = i => req'[u] = req[u]
          BY <2>1, <2>6, <4>1, Zenon DEF Only
        <5> QED
          BY <2>6, <5>1, <5>2, <5>3, Zenon DEF Current
      <4>2. CASE i = k
        <5>1. index'[i] = b /\ disk'[b].size = 0 /\ acked'[i] = 0 /\ 0 >= 0
          <6>1. index'[i] = b
            BY <3>1, <4>2, Zenon
          <6>2. acked'[i] = 0
            BY <2>6, <3>7, <4>2, Zenon
          <6>3. disk'[b] = [ id |-> k, size |-> 0 ]
            BY <2>5, <2>6, ZenonT(60)
          <6>4. disk'[b].size = 0 /\ 0 >= 0
            BY <6>3
          <6> QED
            BY <6>1, <6>2, <6>4, Zenon
        <5>2. \A r \in Found(b)' : r = s
          BY <2>2, <2>3, <2>6, Sole, Zenon DEF Found
        <5>3. \A u \in Threads : req'[u].id = i => req'[u].op # "put"
          <6>1. \A u \in Threads \ {t} : req'[u].id # k
            BY <2>1, <3>2, Zenon DEF Only
          <6> QED
            BY <2>4, <2>6, <4>2, <6>1, Zenon
        <5> QED
          BY <2>5, <2>6, <5>1, <5>2, <5>3, Zenon DEF Current
      <4> QED
        BY <4>1, <4>2, Zenon
    <3> QED
      BY <2>6, <3>6, <3>8, <3>9, <3>10, <3>11, <3>12, <3>13, Zenon DEF OInv
  <2> QED
    BY <2>1, <2>2, <2>9, <2>10, Zenon

  (* nkfs_inode_set_size, nkfs_inode_write_dirty and nkfs_btree_delete_key.  *)

<1>PutSizeSound.
    ASSUME CInv, OInv, NEW t \in Threads, PutSize(t)
    PROVE  OInv'
  <2> USE <1>PutSizeSound
  <2>1. /\ Types' /\ Only(t) /\ pc[t] = "plock" /\ req[t].slot \in Slots /\ KeepReq(t)
        /\ My(t).writer = None
        /\ \/ /\ req[t].end > My(t).size
              /\ OtherInos(req[t].slot) /\ SameIno(req[t].slot)
              /\ ino'[req[t].slot].block = My(t).block
              /\ ino'[req[t].slot].size = req[t].end /\ ino'[req[t].slot].writer = t
              /\ pc'[t] = IF My(t).block = 0 THEN "bug" ELSE "pwrite"
              /\ UNCHANGED req
           \/ req[t].end <= My(t).size /\ req'[t].ok /\ pc'[t] = "deref" /\ UNCHANGED ino
        /\ UNCHANGED << store, cached, world, hist >>
    BY StepsDo, Zenon DEF PutSizeDid
  <2>2. PICK s \in Slots : s = req[t].slot /\ At(t, s) /\ My(t) = ino[s]
    BY <2>1, ZenonT(60) DEF At, My
  <2>3. /\ OpOK(t) /\ req[t].op = "put" /\ ~req[t].ok /\ InTree(t) /\ pc[t] \notin WritePCs /\ pc[t] # "refbug"
        /\ pc[t] \notin NoSlotPCs \cup {"refbug", "inc", "insert"}
    <3>1. OpOK(t)
      BY Zenon DEF OInv
    <3> QED
      BY <2>1, <3>1 DEF OpOK, InTree, Clients, WritePCs, NoSlotPCs
  <2>4. /\ s \in cached /\ ino[s].block # 0 /\ index[req[t].id] = req[t].block
        /\ ino[s].block = req[t].block /\ ino[s].id = req[t].id
    BY <2>2, <2>3, TreeCached, Zenon
  <2>5. /\ index' = index /\ disk' = disk /\ marked' = marked /\ cached' = cached /\ stale' = stale
        /\ SameReq(t) /\ req'[t].block = req[t].block /\ req'[t].slot = s
        /\ req'[t].id = req[t].id /\ req'[t].op = "put" /\ req'[t].end = req[t].end
        /\ UNCHANGED << store, world, acked, failed >>
    BY <2>1, <2>2, <2>3, Zenon DEF store, hist, KeepReq, SameReq
  <2>6. \A i \in Ids \ (failed \cup stale) : index[i] # None /\ ino[s].block = index[i] =>
          disk[index[i]].size = ino[s].size
    <3>1. ASSUME NEW i \in Ids \ (failed \cup stale), index[i] # None, ino[s].block = index[i]
          PROVE  disk[index[i]].size = ino[s].size
      <4>1. Current(i) /\ s \in Found(index[i])
        BY <2>4, <3>1, Zenon DEF OInv, SizesOK, Found
      <4> QED
        BY <2>1, <2>2, <4>1, Zenon DEF Current
    <3> QED
      BY <3>1, Zenon
  <2>7. CASE /\ req[t].end > ino[s].size /\ ino'[s].size = req[t].end /\ ino'[s].writer = t
             /\ OtherInos(s) /\ SameIno(s) /\ ino'[s].block = ino[s].block
             /\ pc'[t] = IF ino[s].block = 0 THEN "bug" ELSE "pwrite"
             /\ UNCHANGED req
    <3>1. pc'[t] = "pwrite" /\ req' = req
      BY <2>4, <2>7, ZenonT(60)
    <3>2. OpOK(t)' /\ InTree(t)' /\ pc'[t] \in WritePCs
      BY Zenon, <2>1, <2>3, <3>1 DEF OpOK, InTree, Uncreated, Clients, WritePCs
    <3>3. ObjectOK(t)' /\ ~Outside(t)'
      <4>1. ino'[s].block = req[t].block /\ ino'[s].id = req[t].id /\ ino'[s].size = req[t].end
        BY <2>4, <2>7, Zenon DEF SameIno
      <4> QED
        BY <2>1, <2>2, <2>4, <2>5, <3>1, <3>2, <4>1, TreeOK, Zenon
    <3>4. OtherSlotsKept(s) /\ Gentle(t, s)
      BY <2>1, <2>2, <2>3, <2>5, <2>7, Zenon DEF OtherInos, SameIno, OtherSlotsKept, Gentle, KeepsObject
    <3>5. ASSUME NEW i \in Ids \ (failed \cup stale), index[i] # None, ino'[s].block = index[i]
          PROVE  SizeKept(i, s)
      <4>1. disk[index[i]].size = ino[s].size
        BY <2>6, <2>7, <3>5, Zenon
      <4>2. ino[s].size \in Nat /\ req[t].end \in Nat
        BY InoFields, Fields, ZenonT(60) DEF CInv
      <4>3. req[t].end >= ino[s].size
        BY <2>7, <4>2
      <4>4. ino'[s].writer # None
        BY <2>7, SetAssumption, Zenon
      <4> QED
        BY <2>7, <4>1, <4>3, <4>4, Zenon DEF SizeKept
    <3>6. /\ \A r \in Slots : ino[r].writer # t
          /\ At(t, s)' /\ ino'[s].writer \notin Threads \ {t} /\ cached' \subseteq Slots /\ stale \subseteq stale'
          /\ ino[s].alive => ino'[s].alive /\ ino'[s].block = ino[s].block
          /\ ~req'[t].ok
      BY <2>2, <2>3, <2>5, <2>7, <3>1, Unlocked, Zenon DEF At, CInv, Types, SameIno
    <3> QED
      BY <2>1, <2>5, <3>2, <3>3, <3>4, <3>5, <3>6, StillSound, Zenon
  <2>8. CASE req[t].end <= ino[s].size /\ req'[t].ok /\ pc'[t] = "deref" /\ UNCHANGED ino
    <3>1. OpOK(t)' /\ InTree(t)' /\ pc'[t] # "pwrite"
      BY ZenonT(60), <2>1, <2>3, <2>5, <2>8 DEF OpOK, InTree, Uncreated, Clients
    <3>2. ASSUME NEW i \in Ids \ (failed \cup stale), req[t].id = i, index[i] # None
          PROVE  disk[index[i]].size >= req'[t].end
      <4>1. disk[index[i]].size = ino[s].size
        BY <2>4, <2>6, <3>2, Zenon
      <4>2. ino[s].size \in Nat /\ req[t].end \in Nat
        BY InoFields, Fields, Zenon DEF CInv
      <4> QED
        BY Zenon, <2>5, <2>8, <4>1, <4>2
    <3>3. UNCHANGED << store, ino, cached, world, hist >>
      BY <2>1, <2>8, Zenon
    <3> QED
      BY <2>1, <2>3, <3>1, <3>2, <3>3, TreeGoesOn, Zenon
  <2> QED
    BY <2>1, <2>2, <2>7, <2>8, Zenon

<1>PutWriteSound.
    ASSUME CInv, OInv, NEW t \in Threads, PutWrite(t)
    PROVE  OInv'
  <2> USE <1>PutWriteSound
  <2>1. /\ Types' /\ Goes(t, "pwrite", "deref") /\ req[t].slot \in Slots /\ KeepReq(t)
        /\ OtherInos(req[t].slot) /\ SameIno(req[t].slot)
        /\ ino'[req[t].slot].block = My(t).block /\ ino'[req[t].slot].size = My(t).size
        /\ ino'[req[t].slot].writer = None
        /\ \A b \in Block : b # My(t).block => disk'[b] = disk[b]
        /\ \/ disk'[My(t).block] = [ id |-> My(t).id, size |-> My(t).size ]
           \/ disk' = disk /\ failed' = failed \cup {My(t).id}
        /\ failed' = failed \/ (failed' = failed \cup {My(t).id} /\ ~req'[t].ok)
        /\ UNCHANGED << index, marked, cached, world, acked, stale >>
    BY StepsDo, Zenon DEF PutWriteDid
  <2>2. PICK s \in Slots, b \in Block, k \in Ids, n \in Nat :
          /\ s = req[t].slot /\ At(t, s) /\ My(t) = ino[s] /\ b = ino[s].block /\ k = req[t].id
          /\ n = ino[s].size
    <3>1. PICK s \in Slots : s = req[t].slot /\ At(t, s) /\ My(t) = ino[s]
      BY <2>1, Zenon DEF At, My
    <3>2. ino[s].block \in Block /\ ino[s].size \in Nat
      BY InoFields, ZenonT(60) DEF CInv
    <3>3. req[t].id \in Ids
      <4>1. pc[t] # "idle"
        BY ZenonT(60), <2>1 DEF Goes
      <4> QED
        BY <4>1, Zenon DEF CInv, ReqOK
    <3> QED
      BY <3>1, <3>2, <3>3, Zenon
  <2>3. /\ OpOK(t) /\ req[t].op = "put" /\ InTree(t) /\ pc[t] = "pwrite" /\ pc'[t] = "deref" /\ Only(t)
        /\ pc[t] \notin NoSlotPCs \cup {"refbug", "inc", "insert"} /\ ObjectOK(t)
    <3>1. OpOK(t) /\ ObjectOK(t)
      BY Zenon DEF OInv
    <3> QED
      BY Zenon, <2>1, <3>1 DEF OpOK, InTree, Clients, NoSlotPCs, Goes
  <2>4. /\ s \in cached /\ b # 0 /\ index[k] = b /\ req[t].block = b /\ ino[s].id = k /\ n = req[t].end
    <3>1. s \in cached /\ b # 0 /\ index[k] = b /\ req[t].block = b /\ ino[s].id = k
      BY <2>2, <2>3, TreeCached, Zenon
    <3> QED
      BY <2>2, <2>3, <3>1, Zenon DEF ObjectOK
  <2>5. /\ index' = index /\ marked' = marked /\ cached' = cached /\ acked' = acked /\ stale' = stale
        /\ SameReq(t) /\ req'[t].block = b /\ req'[t].slot = s /\ req'[t].end = n
        /\ req'[t].id = k /\ req'[t].op = "put" /\ restarts' = restarts
        /\ UNCHANGED << index, world, acked >> /\ failed \subseteq failed'
    BY <2>1, <2>2, <2>3, <2>4, Zenon DEF world, KeepReq, SameReq
  <2>6. /\ OtherInos(s) /\ ino'[s].alive = ino[s].alive /\ ino'[s].id = k /\ ino'[s].block = b
        /\ ino'[s].size = n /\ ino'[s].writer = None
        /\ \A c \in Block : c # b => disk'[c] = disk[c]
        /\ disk'[b] = [ id |-> k, size |-> n ] \/ (disk' = disk /\ k \in failed')
    BY <2>1, <2>2, <2>4, Zenon DEF SameIno
  <2>7. /\ b \in marked \ {0} /\ disk[b].id = k /\ \A j \in Ids : index[j] = b => j = k
    BY <2>4, TreeBlock, ZenonT(60)
  <2>8. OpOK(t)' /\ InTree(t)' /\ pc'[t] # "pwrite"
    BY Zenon, <2>2, <2>3, <2>5 DEF OpOK, InTree, Uncreated, Clients
  <2>9. ObjectOK(t)' /\ ~Outside(t)'
    BY <2>1, <2>4, <2>5, <2>6, <2>8, TreeOK, Zenon
  <2>10. \A c \in marked : c # b => disk'[c] = disk[c]
    BY <2>6, Zenon DEF CInv, Types
  <2>11. ASSUME NEW u \in Threads \ {t} PROVE Left(u)
    <3>1. Outside(u) => /\ \A i \in Ids : index[i] # My(u).block
                        /\ My(u).block \in marked
      BY Zenon DEF OInv, ObjectOK
    <3>2. Outside(u) => disk'[My(u).block] = disk[My(u).block]
      BY <2>4, <2>10, <3>1, Zenon
    <3>3. ASSUME pc[u] \notin NoSlotPCs \cup {"refbug"}
          PROVE  /\ ino'[req[u].slot].id = My(u).id /\ ino'[req[u].slot].block = My(u).block
                 /\ ino'[req[u].slot].size = My(u).size
      <4>1. req[u].slot \in Slots
        BY <3>3, HasSlot, Zenon
      <4>2. CASE req[u].slot = s
        BY <2>2, <2>4, <2>6, <4>2, Zenon DEF My
      <4>3. CASE req[u].slot # s
        BY <2>6, <4>1, <4>3, Zenon DEF My, OtherInos
      <4> QED
        BY <4>2, <4>3, Zenon
    <3> QED
      BY <2>5, <3>1, <3>2, <3>3, Zenon DEF Left
  <2>12. IndexSound' /\ 0 \in marked'
    <3>1. disk'[b].id = k
      <4>1. CASE disk'[b] = [ id |-> k, size |-> n ]
        BY <4>1
      <4> QED
        BY <2>6, <2>7, <4>1, ZenonT(60)
    <3>2. ASSUME NEW i \in Ids, index[i] # None
          PROVE  index[i] \in marked' /\ disk'[index[i]].id = disk[index[i]].id
      <4>1. index[i] \in marked
        BY <3>2, Zenon DEF OInv, IndexSound
      <4>2. CASE index[i] = b
        BY <2>5, <2>7, <3>1, <4>1, <4>2, Zenon
      <4>3. CASE index[i] # b
        BY <2>5, <2>10, <4>1, <4>3, Zenon
      <4> QED
        BY <4>2, <4>3, Zenon
    <3> QED
      BY <2>5, <3>2, IndexKept, Zenon DEF OInv
  <2>13. NoBlockLeaks'
    <3>1. \A r \in Slots : ino'[r].alive = ino[r].alive /\ ino'[r].block = ino[r].block
      BY <2>2, <2>6, Zenon DEF OtherInos
    <3> QED
      BY <2>5, <3>1, LeaksKept, Zenon
  <2>14. LockOK'
    <3>1. OtherSlotsKept(s) /\ ino'[s].writer \notin Threads /\ \A r \in Slots \ {s} : ino[r].writer # t
      BY <2>2, <2>5, <2>6, LockedBy, SetAssumption, Zenon DEF OtherInos, OtherSlotsKept
    <3> QED
      BY <2>3, <3>1, LockKept, Zenon
  <2>15. SizesOK'
    <3> SUFFICES ASSUME NEW i \in Ids \ (failed' \cup stale), index[i] # None
                 PROVE  Current(i)'
      BY <2>5, Zenon DEF SizesOK
    <3>1. Current(i) /\ index[i] \in marked /\ i \notin failed'
      BY <2>5, Zenon DEF OInv, SizesOK, IndexSound
    <3>2. CASE index[i] # b
      <4>1. disk'[index'[i]] = disk[index[i]]
        BY <2>5, <2>10, <3>1, <3>2, Zenon
      <4>2. \A r \in Found(index[i])' : r \in Found(index[i]) /\ ino'[r] = ino[r]
        BY <2>5, <2>6, <3>2, Zenon DEF Found, OtherInos, CInv, Types
      <4>3. \A u \in Threads : req'[u].id = i => req'[u] = req[u]
        BY <2>3, <2>4, <2>5, <3>2, Zenon DEF Only
      <4> QED
        BY <2>5, <3>1, <4>1, <4>2, <4>3, Zenon DEF Current
    <3>3. CASE index[i] = b
      <4>1. i = k /\ disk'[b] = [ id |-> k, size |-> n ]
        BY <2>6, <2>7, <3>1, <3>3, Zenon
      <4>2. disk'[b].size = n
        BY <4>1
      <4>3. \A r \in Found(b)' : r = s
        <5>1. ASSUME NEW r \in Found(b)' PROVE r = s
          <6>1. r \in cached /\ ino'[r].block = b /\ r \in Slots
            BY <2>5, <5>1, Zenon DEF Found, CInv, Types
          <6>2. ino[r].block = b
            BY <2>2, <2>6, <6>1, Zenon DEF OtherInos
          <6> QED
            BY <2>2, <2>4, <6>1, <6>2, ZenonT(60) DEF CInv, Distinct
        <5> QED
          BY <5>1, Zenon
      <4>4. n >= disk[b].size /\ disk[b].size >= acked[i]
            /\ \A u \in Threads : req[u].id = i /\ req[u].op = "put" /\ req[u].ok => disk[b].size >= req[u].end
        BY <2>2, <2>4, <3>1, <3>3, Zenon DEF Current, Found
      <4>5. disk[b].size \in Nat /\ acked[i] \in Nat /\ n >= n
        <5>1. PICK d \in [ id : Ids \cup {None}, size : Nat ] : d = disk[b]
          BY Zenon DEF CInv, Types
        <5>2. d.size \in Nat /\ n >= n
          OBVIOUS
        <5>3. acked[i] \in Nat
          BY Zenon DEF CInv, Types
        <5> QED
          BY <5>1, <5>2, <5>3, Zenon
      <4>6. n >= acked[i]
        BY <4>4, <4>5
      <4>7. ASSUME NEW u \in Threads, req'[u].id = i, req'[u].op = "put", req'[u].ok
            PROVE  n >= req'[u].end
        <5>1. CASE u = t
          BY <2>5, <4>5, <5>1, Zenon
        <5>2. CASE u # t
          <6>1. req'[u] = req[u] /\ req[u].end \in Nat
            BY <2>3, <5>2, Fields, Zenon DEF Only, CInv
          <6>2. disk[b].size >= req[u].end
            BY <4>4, <4>7, <6>1, Zenon
          <6>3. n >= req[u].end
            BY <4>4, <4>5, <6>1, <6>2
          <6> QED
            BY <6>1, <6>3, Zenon
        <5> QED
          BY <5>1, <5>2, Zenon
      <4> QED
        BY <2>5, <2>6, <3>3, <4>2, <4>3, <4>5, <4>6, <4>7, Zenon DEF Current
    <3> QED
      BY <3>2, <3>3, Zenon
  <2> QED
    BY <2>3, <2>5, <2>8, <2>9, <2>11, <2>12, <2>13, <2>14, <2>15, Assemble, Zenon

<1>DeleteKeySound.
    ASSUME Careful, CInv, OInv, NEW t \in Threads, DeleteKey(t)
    PROVE  OInv'
  <2> USE <1>DeleteKeySound
  <2>1. /\ Types' /\ Goes(t, "dkey", "del") /\ req[t].slot \in Slots /\ KeepReq(t)
        /\ index' = [index EXCEPT ![My(t).id] = None] /\ UNCHANGED failed
        /\ UNCHANGED << marked, disk, ino, cached, world, acked, stale >>
    BY StepsDo, Zenon DEF DeleteKeyDid, Careful
  <2>2. PICK s \in Slots, b \in Block, k \in Ids :
          s = req[t].slot /\ At(t, s) /\ My(t) = ino[s] /\ b = ino[s].block /\ k = req[t].id
    <3>1. PICK s \in Slots : s = req[t].slot /\ At(t, s) /\ My(t) = ino[s]
      BY <2>1, Zenon DEF At, My
    <3>2. ino[s].block \in Block
      BY InoFields, Zenon DEF CInv
    <3>3. req[t].id \in Ids
      <4>1. pc[t] # "idle"
        BY ZenonT(60), <2>1 DEF Goes
      <4> QED
        BY <4>1, Zenon DEF CInv, ReqOK
    <3> QED
      BY <3>1, <3>2, <3>3, Zenon
  <2>3. /\ OpOK(t) /\ req[t].op = "delete" /\ InTree(t) /\ pc[t] = "dkey" /\ pc'[t] = "del" /\ Only(t)
        /\ pc[t] \notin NoSlotPCs \cup {"refbug", "inc", "insert"} /\ pc[t] \notin WritePCs /\ pc[t] # "refbug"
        /\ req[t].op \in {"create", "delete"} /\ req[t].op # "put" /\ Outside(t)'
        /\ pc'[t] \notin {"cwrite", "cinsert", "ckey"} /\ pc'[t] \notin {"cinsert", "ckey"}
    <3>1. OpOK(t)
      BY Zenon DEF OInv
    <3> QED
      BY <2>1, <3>1 DEF OpOK, InTree, Clients, NoSlotPCs, Goes, WritePCs, Outside
  <2>4. s \in cached /\ b # 0 /\ index[k] = b /\ ino[s].id = k
    BY <2>2, <2>3, TreeCached, Zenon
  <2>5. /\ marked' = marked /\ disk' = disk /\ ino' = ino /\ cached' = cached /\ acked' = acked
        /\ failed' = failed /\ stale' = stale /\ known' = known /\ fresh' = fresh /\ restarts' = restarts
        /\ req'[t].op = req[t].op /\ req'[t].id = k /\ req'[t].slot = s
    BY <2>1, <2>2, ZenonT(60) DEF world, KeepReq, SameReq
  <2>6. index'[k] = None /\ \A i \in Ids \ {k} : index'[i] = index[i]
    <3>1. index' = [index EXCEPT ![k] = None]
      BY <2>1, <2>2, <2>4, Zenon
    <3> QED
      BY <3>1 DEF CInv, Types
  <2>7. b \in marked \ {0} /\ \A j \in Ids : index[j] = b => j = k
    BY <2>4, TreeBlock, Zenon
  <2>8. None \notin marked /\ None # b
    BY SetAssumption, Zenon DEF CInv, Types, Block
  <2>9. \A i \in Ids : index'[i] # b
    BY <2>6, <2>7, <2>8, Zenon
  <2>10. OpOK(t)'
    BY Zenon, <2>2, <2>3, <2>5 DEF OpOK, Uncreated, Clients
  <2>11. ObjectOK(t)'
    BY <2>2, <2>3, <2>4, <2>5, <2>6, <2>7, <2>9, OutsideOK, ZenonT(60)
  <2>12. \A u \in Threads \ {t} : req[u].id # k
    BY <2>2, <2>3, Zenon DEF OInv, BornOK
  <2>13. ASSUME NEW u \in Threads \ {t} PROVE Left(u)
    <3>1. pc[u] # "idle" => req[u].id \in Ids \ {k}
      BY <2>12, Zenon DEF CInv, ReqOK
    <3>2. Outside(u) => /\ \A i \in Ids : index[i] # My(u).block
                        /\ My(u).block \in marked
      BY Zenon DEF OInv, ObjectOK
    <3>3. Outside(u) => \A i \in Ids : index'[i] # My(u).block
      BY <2>6, <2>8, <3>2, Zenon
    <3> QED
      BY <2>5, <2>6, <3>1, <3>2, <3>3, Zenon DEF Left, My
  <2>14. \A u \in Threads : OpOK(u)' /\ ObjectOK(u)'
    BY <2>3, <2>10, <2>11, <2>13, Bystander, Zenon
  <2>15. BornOK'
    <3>1. \A u \in Threads : req'[u].op = req[u].op /\ req'[u].id = req[u].id
      BY <2>2, <2>3, <2>5, Zenon DEF Only
    <3>2. \A i \in Ids : (index'[i] # None => i \notin fresh)
      BY <2>6, Zenon DEF OInv, BornOK
    <3> QED
      BY <2>5, <3>1, <3>2, ZenonT(60) DEF OInv, BornOK
  <2>16. OwnersOK'
    <3>1. \A u \in Threads \ {t} : Outside(u) => b # My(u).block
      BY <2>4, Zenon DEF OInv, ObjectOK
    <3> QED
      BY <2>2, <2>3, <2>5, <2>13, <3>1, OwnersKept, Zenon
  <2>17. IndexSound'
    <3> SUFFICES ASSUME NEW i \in Ids, index'[i] # None
                 PROVE  /\ index'[i] \in marked \ {0} /\ disk[index'[i]].id = i
                        /\ \A j \in Ids \ {i} : index'[j] # index'[i]
      BY <2>5, Zenon DEF IndexSound
    <3>1. /\ i # k /\ index'[i] = index[i] /\ index[i] \in marked \ {0} /\ disk[index[i]].id = i
          /\ \A j \in Ids \ {i} : index[j] # index[i]
      BY <2>6, Zenon DEF OInv, IndexSound
    <3> QED
      BY <2>6, <2>8, <3>1, Zenon
  <2>18. NoBlockLeaks'
    <3>1. ino[s].alive
      BY <2>2, <2>3, Zenon DEF CInv, SlotOK, HandOK
    <3>2. \A i \in Ids : \/ index'[i] = index[i]
                         \/ \E r \in Slots : ino'[r].alive /\ ino'[r].block = index[i]
      BY <2>2, <2>4, <2>5, <2>6, <3>1, Zenon
    <3> QED
      BY <2>5, <3>2, LeaksKept, Zenon
  <2>19. LockOK'
    <3>1. OtherSlotsKept(s) /\ \A r \in Slots : ino[r].writer # t
      BY <2>3, <2>5, Unlocked, Zenon DEF OtherSlotsKept
    <3> QED
      BY <2>3, <2>5, <3>1, LockKept, Zenon
  <2>20. SizesOK'
    <3> SUFFICES ASSUME NEW i \in Ids \ (failed \cup stale), index'[i] # None
                 PROVE  Current(i)'
      BY <2>5, Zenon DEF SizesOK
    <3>1. i # k /\ index'[i] = index[i] /\ Current(i)
      BY <2>6, Zenon DEF OInv, SizesOK
    <3>2. Found(index[i])' = Found(index[i])
      BY <2>5, <3>1, Zenon DEF Found
    <3>3. \A u \in Threads : req'[u].id = i => req'[u] = req[u]
      BY <2>3, <2>5, <3>1, Zenon DEF Only
    <3> QED
      BY <2>5, <3>1, <3>2, <3>3, Zenon DEF Current
  <2> QED
    BY <2>5, <2>14, <2>15, <2>16, <2>17, <2>18, <2>19, <2>20, ZenonT(60) DEF OInv

  \* nkfs_sb_stop and nkfs_dev_add leave everything but the mode.
<1>RestSound.
    ASSUME OInv, UNCHANGED << index, marked, disk, ino, cached, pc, req, fresh, known, acked, failed, stale >>,
           restarts' = restarts \/ (restarts' = restarts + 1)
    PROVE  OInv'
  <2> USE <1>RestSound
  <2>1. \A t \in Threads : OpOK(t)' /\ ObjectOK(t)'
    <3>1. ASSUME NEW t \in Threads
          PROVE  /\ OpOK(t)' <=> OpOK(t)
                 /\ ObjectOK(t)' <=> ObjectOK(t)
      BY ZenonT(60) DEF OpOK, ObjectOK, InTree, Outside, Ending, My
    <3> QED
      BY <3>1, Zenon DEF OInv
  <2>2. BornOK'
    BY Zenon DEF OInv, BornOK
  <2>3. OwnersOK'
    BY Zenon DEF OInv, OwnersOK, Outside, My
  <2>4. IndexSound' /\ 0 \in marked'
    BY Zenon DEF OInv, IndexSound
  <2>5. LockOK'
    BY Zenon DEF OInv, LockOK, At
  <2>6. SizesOK'
    <3>1. ASSUME NEW i \in Ids PROVE Current(i)' <=> Current(i)
      BY Zenon DEF Current, Found
    <3> QED
      BY <3>1, Zenon DEF OInv, SizesOK
  <2>7. restarts \in Nat /\ restarts' \in Nat /\ (restarts' = 0 => restarts = 0)
    BY DEF OInv
  <2>8. NoBlockLeaks'
    BY <2>7, Zenon DEF OInv, NoBlockLeaks
  <2> QED
    BY <2>1, <2>2, <2>3, <2>4, <2>5, <2>6, <2>7, <2>8, Zenon DEF OInv

  \* Power loss: inodes and requests are gone.
<1>CrashSound.
    ASSUME CInv, OInv, Crash
    PROVE  OInv'
  <2> USE <1>CrashSound
  <2>1. /\ index' = index /\ marked' = marked /\ disk' = disk /\ acked' = acked /\ failed' = failed
        /\ stale' = stale /\ known' = known /\ fresh' = fresh /\ cached' = {}
    BY Zenon DEF Crash, store, hist
  <2>2. /\ \A s \in Slots : ino'[s] = Freed
        /\ \A t \in Threads : pc'[t] = "idle" /\ req'[t] = NoReq
    BY DEF Crash
  <2>3. /\ NoReq.op = "none" /\ NoReq.id = None /\ ~NoReq.ok /\ Freed.writer = None
    BY DEF NoReq, Freed
  <2>4. None \notin Ids /\ None \notin Threads
    BY SetAssumption
  <2>5. ASSUME NEW t \in Threads PROVE OpOK(t)' /\ ObjectOK(t)' /\ ~Outside(t)'
    <3>1. pc'[t] = "idle" /\ req'[t].op = "none" /\ req'[t].id = None /\ ~req'[t].ok
      BY <2>2, <2>3, Zenon
    <3>2. OpOK(t)'
      BY <3>1 DEF OpOK, Uncreated, Clients
    <3>3. ~InTree(t)' /\ ~Outside(t)' /\ ~Ending(t)'
      BY Zenon, <3>1 DEF InTree, Outside, Ending, Uncreated, Clients
    <3>4. ObjectOK(t)'
      BY Zenon, <3>1, <3>3 DEF ObjectOK
    <3> QED
      BY <3>2, <3>3, <3>4, Zenon
  <2>6. BornOK'
    <3>1. \A t \in Threads : req'[t].op = "none"
      BY <2>2, <2>3, Zenon
    <3>2. \A t \in Threads : req'[t].op \notin Clients \cup {"delete"} /\ req'[t].op \notin {"create", "delete"}
                             /\ req'[t].op # "create"
      BY <3>1 DEF Clients
    <3> QED
      BY <2>1, <3>2, Zenon DEF OInv, BornOK
  <2>7. OwnersOK'
    BY <2>5, Zenon DEF OwnersOK
  <2>8. IndexSound' /\ 0 \in marked'
    BY <2>1, Zenon DEF OInv, IndexSound
  <2>9. restarts' \in Nat /\ restarts' # 0
    BY DEF OInv, Crash
  <2>10. LockOK' /\ NoBlockLeaks'
    BY <2>2, <2>3, <2>4, <2>9, Zenon DEF LockOK, NoBlockLeaks
  <2>11. SizesOK'
    <3> SUFFICES ASSUME NEW i \in Ids \ (failed \cup stale), index[i] # None
                 PROVE  Current(i)'
      BY <2>1, Zenon DEF SizesOK
    <3>1. disk[index[i]].size >= acked[i]
      BY Zenon DEF OInv, SizesOK, Current
    <3>2. \A t \in Threads : ~req'[t].ok
      BY <2>2, <2>3, Zenon
    <3>3. \A s : s \notin Found(index[i])'
      BY <2>1, Zenon DEF Found
    <3> QED
      BY <2>1, <3>1, <3>2, <3>3, Zenon DEF Current
  <2> QED
    BY <2>5, <2>6, <2>7, <2>8, <2>9, <2>10, <2>11, ZenonT(60) DEF OInv

  \* nkfs_inode_deref.
<1>DerefSound.
    ASSUME CInv, HeldCounted, OInv, NEW t \in Threads, Deref(t)
    PROVE  OInv'
  <2> USE <1>DerefSound
  <2>1. /\ Types' /\ Only(t) /\ pc[t] = "deref" /\ req[t].slot \in Slots
        /\ UNCHANGED << store, cached, mode, fresh, restarts, failed, stale >>
        /\ \/ /\ My(t).ref <= 0 /\ pc'[t] = "refbug" /\ UNCHANGED << ino, req, known, acked >>
           \/ /\ My(t).ref > 0
              /\ OtherInos(req[t].slot)
              /\ ino'[req[t].slot].alive = My(t).alive /\ ino'[req[t].slot].id = My(t).id
              /\ ino'[req[t].slot].block = My(t).block /\ ino'[req[t].slot].size = My(t).size
              /\ ino'[req[t].slot].writer = My(t).writer
              /\ IF My(t).ref = 1
                 THEN pc'[t] = "release" /\ UNCHANGED << req, known, acked >>
                 ELSE Return(t, req[t].ok) /\ pc'[t] = "idle" /\ req'[t] = NoReq
    BY StepsDo, Zenon DEF DerefDid
  <2>2. PICK s \in Slots : s = req[t].slot /\ At(t, s) /\ My(t) = ino[s]
    BY <2>1, Zenon DEF At, My
  <2>3. ino[s].ref > 0
    <3>1. Holds(t, s)
      BY <2>1, <2>2 DEF Holds
    <3> QED
      BY <3>1, Zenon DEF HeldCounted
  <2>4. ~(ino[s].ref <= 0) /\ ino[s].ref \in Nat
    <3>1. ino[s].ref \in Nat
      BY InoFields, Zenon DEF CInv
    <3> QED
      BY <2>3, <3>1
  <2>5. /\ OtherInos(s) /\ ino'[s].alive = ino[s].alive /\ ino'[s].id = ino[s].id
        /\ ino'[s].block = ino[s].block /\ ino'[s].size = ino[s].size /\ ino'[s].writer = ino[s].writer
    BY <2>1, <2>2, <2>4, Zenon
  <2>6. /\ index' = index /\ marked' = marked /\ disk' = disk /\ cached' = cached /\ failed' = failed
        /\ stale' = stale /\ restarts' = restarts /\ fresh' = fresh
    BY <2>1, Zenon DEF store
  <2>7. /\ ino[s].id = req[t].id /\ req[t].id \in Ids
        /\ ino[s].block = 0 \/ index[req[t].id] = ino[s].block
        /\ ino[s].block # 0 => s \in cached
        /\ InTree(t) => index[req[t].id] = req[t].block /\ ino[s].block = req[t].block /\ s \in cached
        /\ InTree(t) \/ Ending(t)
    BY <2>1, <2>2, Dropped, Zenon
  <2>8. pc[t] \notin WritePCs /\ pc[t] # "idle" /\ OpOK(t)
    BY <2>1, Zenon DEF WritePCs, OInv
  <2>9. CASE pc'[t] = "release" /\ UNCHANGED << req, known, acked >>
    <3>1. req' = req /\ UNCHANGED << store, cached, world, hist >>
      BY <2>1, <2>9, ZenonT(60) DEF world, hist
    <3>2. OpOK(t)' /\ pc'[t] # "pwrite"
      BY Zenon, <2>1, <2>8, <2>9, <3>1 DEF OpOK, Uncreated, Clients
    <3>3. ObjectOK(t)' /\ ~Outside(t)'
      <4>1. CASE InTree(t)
        <5>1. InTree(t)'
          BY Zenon, <2>1, <2>9, <3>1, <4>1 DEF InTree
        <5> QED
          BY <2>1, <2>2, <2>5, <2>6, <2>7, <3>1, <3>2, <4>1, <5>1, TreeOK, ZenonT(60)
      <4>2. CASE Ending(t)
        BY <2>2, <2>5, <2>6, <2>7, <2>9, <3>1, <4>2, EndingOK, Zenon DEF Ending
      <4> QED
        BY <2>7, <4>1, <4>2, Zenon
    <3> QED
      BY <2>1, <2>5, <2>8, <3>1, <3>2, <3>3, TouchSound, Zenon DEF SameReq
  <2>10. CASE Return(t, req[t].ok)
    <3>1. OtherSlotsKept(s) /\ Gentle(t, s)
      BY <2>5, <2>6, Zenon DEF OtherInos, OtherSlotsKept, Gentle, KeepsObject
    <3>2. \A u \in Threads \ {t} : Left(u)
      BY <2>1, <3>1, Undisturbed, Zenon
    <3>3. ASSUME NEW r \in Slots
          PROVE  /\ ino'[r].writer = ino[r].writer /\ ino'[r].writer # t
                 /\ ino'[r].alive = ino[r].alive /\ ino'[r].block = ino[r].block /\ ino'[r].size = ino[r].size
      <4>1. ino[r].writer # t
        BY <2>8, Unlocked, Zenon
      <4> QED
        BY <2>5, <4>1, Zenon DEF OtherInos
    <3>4. \A i \in Ids : \A r \in cached' : ino'[r].block = index[i] => SizeKept(i, r)
      <4>1. cached \subseteq Slots
        BY Zenon DEF CInv, Types
      <4> QED
        BY <2>6, <3>3, <4>1, Zenon DEF SizeKept
    <3>5. 0 \in marked' /\ \A i \in Ids : index[i] # None => index[i] \in marked'
      BY <2>6, Zenon DEF OInv, IndexSound
    <3>6. req[t].ok \in BOOLEAN /\ UNCHANGED << index, disk, fresh, restarts, stale >>
      BY <2>6, Fields, Zenon DEF CInv
    <3> QED
      BY <2>6, <2>8, <2>10, <3>2, <3>3, <3>4, <3>5, <3>6, ReturnSound, ZenonT(60)
  <2> QED
    BY <2>1, <2>2, <2>4, <2>9, <2>10, Zenon

  \* nkfs_inode_release.
<1>ReleaseSound.
    ASSUME CInv, HeldCounted, OInv, NEW t \in Threads, Release(t)
    PROVE  OInv'
  <2> USE <1>ReleaseSound
  <2>1. /\ Types' /\ Only(t) /\ pc[t] = "release" /\ req[t].slot \in Slots
        /\ InodesUnlocked
        /\ UNCHANGED << store, mode, fresh, restarts, failed, stale >>
        /\ \/ /\ InodesRemove(t) /\ Return(t, req[t].ok)
              /\ OtherInos(req[t].slot) /\ ino'[req[t].slot] = Freed
              /\ pc'[t] = "idle" /\ req'[t] = NoReq
           \/ /\ ~(Found(My(t).block) \subseteq {req[t].slot})
              /\ pc'[t] = "bug" /\ UNCHANGED << ino, cached, req, known, acked >>
    BY StepsDo, Zenon DEF ReleaseDid
  <2>2. PICK s \in Slots : s = req[t].slot /\ At(t, s) /\ My(t) = ino[s]
    BY <2>1, Zenon DEF At, My
  <2>3. /\ \A u \in Threads \ {t} : At(u, s) => pc[u] = "refbug"
        /\ Found(ino[s].block) \subseteq {s}
    BY <2>1, <2>2, Zenon DEF HeldCounted
  <2>4. /\ InodesRemove(t) /\ Return(t, req[t].ok) /\ OtherInos(s) /\ ino'[s] = Freed
    BY <2>1, <2>2, <2>3, Zenon
  <2>5. cached' = cached \ Found(ino[s].block) /\ s \notin cached' /\ cached' \subseteq cached
    BY <2>2, <2>4, Zenon DEF InodesRemove, Found
  <2>6. OtherSlotsKept(s) /\ Gentle(t, s)
    <3>1. \A r \in Slots \ {s} : ino'[r] = ino[r] /\ (r \in cached <=> r \in cached')
      BY <2>3, <2>4, <2>5, Zenon DEF OtherInos
    <3> QED
      BY <2>3, <3>1, Zenon DEF OtherSlotsKept, Gentle
  <2>7. \A u \in Threads \ {t} : Left(u)
    BY <2>1, <2>6, Undisturbed, Zenon
  <2>8. /\ index' = index /\ marked' = marked /\ disk' = disk /\ failed' = failed
        /\ stale' = stale /\ restarts' = restarts /\ fresh' = fresh
    BY <2>1, Zenon DEF store
  <2>9. pc[t] \notin WritePCs /\ pc[t] # "idle" /\ req[t].ok \in BOOLEAN
    BY <2>1, Fields DEF WritePCs, CInv
  <2>10. ASSUME NEW r \in Slots
         PROVE  /\ ino'[r].writer # t
                /\ ino'[r].writer \in Threads => ino'[r].writer = ino[r].writer
                /\ ino[r].alive => \/ ino[r].block \notin marked' \ {0}
                                   \/ ino'[r].alive /\ ino'[r].block = ino[r].block
                                   \/ \E i \in Ids : index[i] = ino[r].block
    <3>1. CASE r = s
      <4>1. ino'[s].writer = None /\ None \notin Threads
        BY <2>4, Records, SetAssumption, Zenon
      <4>2. req[t].id \in Ids /\ (ino[s].block = 0 \/ index[req[t].id] = ino[s].block)
        BY <2>1, <2>2, Dropped, Zenon
      <4> QED
        BY <3>1, <4>1, <4>2, Zenon
    <3>2. CASE r # s
      <4>1. ino[r].writer # t
        BY <2>9, Unlocked, Zenon
      <4> QED
        BY <2>4, <3>2, <4>1, Zenon DEF OtherInos
    <3> QED
      BY <3>1, <3>2, Zenon
  <2>11. \A i \in Ids : \A r \in cached' : ino'[r].block = index[i] => SizeKept(i, r)
    <3>1. ASSUME NEW r \in cached' PROVE r \in cached /\ ino'[r] = ino[r]
      <4>1. r \in Slots /\ r # s /\ r \in cached
        BY <2>5, <3>1, Zenon DEF CInv, Types
      <4> QED
        BY <2>4, <4>1, Zenon DEF OtherInos
    <3> QED
      BY <3>1, Zenon DEF SizeKept
  <2>12. /\ 0 \in marked' /\ \A i \in Ids : index[i] # None => index[i] \in marked'
         /\ UNCHANGED << index, disk, fresh, restarts, stale >>
    BY <2>8, Zenon DEF OInv, IndexSound
  <2> QED
    BY <2>4, <2>7, <2>8, <2>9, <2>10, <2>11, <2>12, ReturnSound, Zenon

<1> SUFFICES ASSUME Careful, CInv, HeldCounted, OInv, [Next]_vars PROVE OInv'
  OBVIOUS
<1>1. ASSUME NEW t \in Threads,
             \/ CreateStart(t)
             \/ \E i \in Ids : \/ \E op \in {"get", "query", "delete"} : Start(t, op, i, 0)
                               \/ \E end \in 1 .. MaxSize : Start(t, "put", i, end)
      PROVE  OInv'
  <2>1. {"get", "query", "delete", "put"} \subseteq Clients \cup {"delete"} /\ 0 \in Nat
        /\ 1 .. MaxSize \subseteq Nat
    BY DEF Clients
  <2>2. CASE \E i \in Ids : \/ \E op \in {"get", "query", "delete"} : Start(t, op, i, 0)
                            \/ \E end \in 1 .. MaxSize : Start(t, "put", i, end)
    <3>1. PICK i \in Ids, op \in Clients \cup {"delete"}, end \in Nat : Start(t, op, i, end)
      BY <2>1, <2>2, Zenon
    <3> QED
      BY <3>1, <1>StartSound, Zenon
  <2> QED
    BY <1>1, <2>2, <1>CreateStartSound, Zenon
<1>2. ASSUME NEW t \in Threads, InodeRead(t) PROVE OInv'
  BY <1>2, <1>LookupSound, <1>RefIncSound, <1>LoadSound, <1>InsertSound, Zenon DEF InodeRead
<1>3. ASSUME NEW t \in Threads, InodeDelete(t) PROVE OInv'
  BY <1>3, <1>DeleteLockSound, <1>DeleteRemoveSound, <1>DeleteFreeSound, Zenon DEF InodeDelete
<1>4. ASSUME NEW t \in Threads, InodeDeref(t) PROVE OInv'
  BY <1>4, <1>DerefSound, <1>ReleaseSound, Zenon DEF InodeDeref
<1>5. ASSUME NEW t \in Threads, InodeCreate(t) PROVE OInv'
  BY <1>5, <1>CreateAllocSound, <1>CreateWriteSound, <1>CreateInsertSound, <1>CreateKeySound, Zenon DEF InodeCreate
<1>6. ASSUME NEW t \in Threads, Serve(t) PROVE OInv'
  BY <1>6, <1>FindStepSound, <1>HaveSound, <1>ReadSound, <1>PutSizeSound, <1>PutWriteSound, <1>DeleteKeySound, Zenon DEF Serve
<1>7. CASE Stop \/ Mount \/ UNCHANGED vars
  <2>1. /\ UNCHANGED << index, marked, disk, ino, cached, pc, req, fresh, known, acked, failed, stale >>
        /\ restarts' = restarts \/ restarts' = restarts + 1
    BY <1>7, Zenon DEF Stop, Mount, vars, store, world, hist
  <2> QED
    BY <2>1, <1>RestSound, Zenon
<1> QED
  BY <1>1, <1>2, <1>3, <1>4, <1>5, <1>6, <1>7, <1>CrashSound, Zenon DEF Next

=============================================================================
