------------------------------- MODULE DioInv -------------------------------
(***************************************************************************)
(* The inductive invariant of the reference counts of module Dio, and what *)
(* its steps do to them.                                                   *)
(***************************************************************************)
EXTENDS Dio

(* The inductive invariant of the reference counts.                        *)
ThreadPCs == { "idle", "look", "ref", "inc", "pin", "alloc", "insert", "age", "test",
               "start", "rio", "rdone", "wait", "got", "stuck", "dirty", "sync", "lock",
               "io", "end", "ret", "put", "deref", "refbug", "bug" }

WorkerPCs == { "idle", "scan", "evict", "delete", "sync", "lock", "io", "end", "ret",
               "drop", "free", "rel", "refbug", "bug" }

\* Where a thread has a reference, and where the worker has some to drop.
HoldPCs == { "pin", "age", "test", "start", "rio", "rdone", "wait", "got", "stuck",
             "dirty", "sync", "lock", "io", "end", "ret", "put", "deref" }

DropPCs == { "sync", "lock", "io", "end", "ret", "drop" }

Cluster == [ alive : BOOLEAN, index : Nat, ref : Int, pin : Int, start : BOOLEAN,
             read : BOOLEAN, dirty : BOOLEAN, err : BOOLEAN, comp : Int,
             syncer : Proc \cup {None}, data : SUBSET Threads ]

Types ==
  /\ clu \in [Clusters -> Cluster]
  /\ tree \in [Index -> Clusters \cup {None}]
  /\ nrClus \in Int
  /\ disk \in [Index -> SUBSET Threads]
  /\ pc \in [Proc -> ThreadPCs \cup WorkerPCs]
  /\ cl \in [Proc -> Clusters \cup {None}]
  /\ idx \in [Threads -> Nat]
  /\ err \in [Proc -> BOOLEAN]
  /\ nodes \subseteq Clusters /\ todo \subseteq Clusters /\ scan \subseteq Index
  /\ drops \in Nat
  /\ mode \in {"up", "down", "gone"}
  /\ last \in [Index -> SUBSET Threads]
  /\ unsure \in [Index -> SUBSET Threads]
  /\ failed \subseteq Index

\* What a thread has at hand at each point of its program.
ThreadOK(t) ==
  /\ pc[t] \in ThreadPCs
  /\ pc[t] \in HoldPCs \cup {"ref", "inc", "insert"} => cl[t] \in Clusters
  /\ pc[t] \in {"idle", "look", "alloc"} => cl[t] = None
  /\ pc[t] \notin {"idle", "refbug"} => idx[t] \in Index

\* What the worker has at hand; the collection is empty between two rounds and
\* while the device is removed.
WorkerOK ==
  /\ pc[Worker] \in WorkerPCs
  /\ pc[Worker] \in DropPCs => cl[Worker] \in Clusters /\ drops > 0
  /\ pc[Worker] = "delete" => cl[Worker] \in Clusters
  /\ pc[Worker] \in {"idle", "scan", "evict", "free", "rel"} => cl[Worker] = None
  /\ pc[Worker] \in {"idle", "rel"} => nodes = {}
  /\ pc[Worker] \in {"idle", "scan", "free", "rel"} => todo = {}
  /\ pc[Worker] \in {"scan", "evict", "delete", "free"} => mode = "up"
  /\ pc[Worker] = "rel" => mode # "up"
  /\ mode # "up" => nodes = {} /\ todo = {}

\* A cluster of the tree is found under its own index.
TreeOK == \A i \in Index : tree[i] # None => clu[tree[i]].index = i

\* Nobody else knows of a cluster that is about to be inserted.
PrivateOK ==
  \A t \in Threads : pc[t] = "insert" =>
    /\ clu[cl[t]].alive /\ clu[cl[t]].ref = 1 /\ clu[cl[t]].index = idx[t]
    /\ cl[t] \notin nodes
    /\ \A i \in Index : tree[i] # cl[t]
    /\ \A p \in Proc \ {t} : cl[p] # cl[t]

\* What the shrinker has collected and still wants to remove is in the tree.
CollectedOK ==
  /\ pc[Worker] = "scan" => \A c \in nodes : /\ tree[clu[c].index] = c
                                             /\ clu[c].index \in Index \ scan
  /\ \A c \in todo : tree[clu[c].index] = c /\ clu[c].index \in Index
  /\ pc[Worker] = "delete" => /\ tree[clu[cl[Worker]].index] = cl[Worker]
                              /\ clu[cl[Worker]].index \in Index
                              /\ cl[Worker] \notin todo

\* The references of one thread, of the tree and of the worker.
ByThread(t, c) ==
  B2N(cl[t] = c /\ pc[t] \in HoldPCs) + B2N(cl[t] = c /\ pc[t] = "insert")

ByTree(c) == 2 * B2N(\E i \in Index : tree[i] = c)

ByWorker(c) ==
  B2N(c \in nodes) + IF cl[Worker] = c /\ pc[Worker] # "delete" THEN drops ELSE 0

Holders(c) == { t \in Threads : cl[t] = c /\ pc[t] \in HoldPCs }

Inserters(c) == { t \in Threads : cl[t] = c /\ pc[t] = "insert" }

\* RefExact, also for memory that holds no cluster.
CountOK ==
  /\ nrClus = Cardinality({ i \in Index : tree[i] # None })
  /\ \A c \in Clusters :
       /\ clu[c].ref = ByTree(c) + Cardinality(Holders(c)) + Cardinality(Inserters(c)) + ByWorker(c)
       /\ ~clu[c].alive => clu[c].ref = 0

\* The inductive invariant of the counts.
CInv ==
  /\ Types
  /\ \A t \in Threads : ThreadOK(t)
  /\ WorkerOK
  /\ TreeOK
  /\ PrivateOK
  /\ CollectedOK
  /\ CountOK

\* A cluster is read by the one thread that has set DIO_CLU_READ_START.
ReadOnce ==
  /\ \A c \in Clusters : clu[c].read => clu[c].start
  /\ \A t \in Threads : pc[t] = "rio" =>
       /\ clu[cl[t]].start /\ ~clu[cl[t]].read
       /\ \A u \in Threads \ {t} : pc[u] = "rio" => cl[u] # cl[t]

(* Types, and what a step does to the fields of clusters.                  *)
\* The fields that count, those of the read, and those of the bytes.
CountKept(c) == /\ clu'[c].alive = clu[c].alive
                /\ clu'[c].index = clu[c].index
                /\ clu'[c].ref = clu[c].ref

ReadKept(c) == /\ clu'[c].start = clu[c].start
               /\ clu'[c].read = clu[c].read
               /\ clu'[c].err = clu[c].err
               /\ clu'[c].comp = clu[c].comp

BytesKept(c) == /\ clu'[c].dirty = clu[c].dirty
                /\ clu'[c].syncer = clu[c].syncer
                /\ clu'[c].data = clu[c].data

Kept(c) == CountKept(c) /\ ReadKept(c) /\ BytesKept(c)

Typed == clu' \in [Clusters -> Cluster]

(* Steps that take and drop no reference.                                  *)
\* Process p moves on; no count, nobody's cluster and nothing of the tree or the
\* collection changes.
Calm(p) ==
  /\ \A c \in Clusters : CountKept(c)
  /\ UNCHANGED << tree, nrClus, cl, nodes, todo, scan, drops, mode >>
  /\ \A q \in Proc \ {p} : pc'[q] = pc[q]
  /\ \A u \in Threads \ {p} : idx'[u] = idx[u]
  /\ p \in Threads => /\ ThreadOK(p)'
                      /\ pc'[p] \in HoldPCs <=> pc[p] \in HoldPCs
                      /\ pc[p] # "insert" /\ pc'[p] # "insert"
  /\ p = Worker => pc[p] \in DropPCs /\ pc'[p] \in DropPCs

(* Steps that take or drop references.                                     *)
\* Thread t takes or drops references; each count changes by what it takes and
\* drops, and the tree at most gets its new cluster.
Move(t) ==
  /\ UNCHANGED << nodes, todo, scan, drops, mode >>
  /\ \A q \in Proc \ {t} : pc'[q] = pc[q] /\ cl'[q] = cl[q]
  /\ \A u \in Threads \ {t} : idx'[u] = idx[u]
  /\ ThreadOK(t)'
  /\ \A i \in Index : tree[i] # None => tree'[i] = tree[i]
  /\ \A i \in Index : tree'[i] # tree[i] =>
       tree'[i] = cl[t] /\ pc[t] = "insert" /\ clu'[cl[t]].index = i
  /\ nrClus' = Cardinality({ i \in Index : tree'[i] # None })
  /\ \A c \in Clusters :
       /\ clu'[c].ref - ByThread(t, c)' - ByTree(c)' = clu[c].ref - ByThread(t, c) - ByTree(c)
       /\ ~clu'[c].alive => clu'[c].ref = 0
       /\ clu'[c].index = clu[c].index \/ ByTree(c) + ByWorker(c) = 0
  /\ pc'[t] = "insert" =>
       /\ clu'[cl'[t]].alive /\ clu'[cl'[t]].ref = 1 /\ clu'[cl'[t]].index = idx'[t]
       /\ cl'[t] \notin nodes /\ (\A i \in Index : tree'[i] # cl'[t])
       /\ \A p \in Proc \ {t} : cl[p] # cl'[t]
  /\ \A u \in Threads \ {t} : pc[u] = "insert" => CountKept(cl[u]) /\ cl'[t] # cl[u]

\* The worker moves on; each count changes by what the tree and the worker have.
Work ==
  /\ \A t \in Threads : pc'[t] = pc[t] /\ cl'[t] = cl[t]
  /\ UNCHANGED idx
  /\ WorkerOK' /\ TreeOK' /\ CollectedOK'
  /\ nrClus' = Cardinality({ i \in Index : tree'[i] # None })
  /\ \A c \in Clusters :
       /\ clu'[c].ref - ByTree(c)' - ByWorker(c)' = clu[c].ref - ByTree(c) - ByWorker(c)
       /\ ~clu'[c].alive => clu'[c].ref = 0
  /\ \A u \in Threads : pc[u] = "insert" =>
       /\ CountKept(cl[u]) /\ cl'[Worker] # cl[u] /\ cl[u] \notin nodes'
       /\ \A i \in Index : tree'[i] # cl[u]

\* What the invariant says of the counts, of reading and of assertions.
RInv == CInv /\ ReadOnce /\ AssertionsHold

=============================================================================
