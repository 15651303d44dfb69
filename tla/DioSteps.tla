------------------------------ MODULE DioSteps ------------------------------
(***************************************************************************)
(* What each step of module Dio does to the fields of the clusters and to  *)
(* the counts, from the definition of its action.                          *)
(***************************************************************************)
EXTENDS DioInv, TLAPS

\* Memory that is given out and memory that is freed.
LEMMA FreedType ==
  /\ Freed \in Cluster /\ ~Freed.alive /\ Freed.ref = 0 /\ ~Freed.read
  /\ \A i \in Nat : LET r == New(i)
                    IN  /\ r \in Cluster /\ r.alive /\ r.index = i /\ r.ref = 1 /\ ~r.start
                        /\ ~r.read /\ ~r.dirty /\ ~r.err /\ r.comp = 0 /\ r.syncer = None
PROOF
  <1>1. Freed \in Cluster /\ ~Freed.alive /\ Freed.ref = 0 /\ ~Freed.read /\ ~Freed.start
        /\ ~Freed.dirty /\ ~Freed.err /\ Freed.comp = 0 /\ Freed.syncer = None
    BY DEF Freed, Cluster
  <1>2. ASSUME NEW i \in Nat
        PROVE  LET r == New(i)
               IN  /\ r \in Cluster /\ r.alive /\ r.index = i /\ r.ref = 1 /\ ~r.start
                   /\ ~r.read /\ ~r.dirty /\ ~r.err /\ r.comp = 0 /\ r.syncer = None
    <2> HIDE DEF Freed
    <2> DEFINE r1 == [Freed EXCEPT !.alive = TRUE, !.index = i]
               r2 == [r1 EXCEPT !.ref = 1]
    <2>a. r1 \in Cluster
      BY Zenon, <1>1 DEF Cluster
    <2>b. New(i) = r2
      BY Zenon DEF New
    <2> HIDE DEF r1
    <2>1. New(i) \in Cluster
      BY <2>a, <2>b DEF Cluster
    <2>2. New(i).alive /\ New(i).index = i /\ New(i).ref = 1
      BY Zenon, <1>1 DEF New, Cluster
    <2>3. ~New(i).start /\ ~New(i).read /\ ~New(i).dirty /\ ~New(i).err
      BY Zenon, <1>1 DEF New, Cluster
    <2>4. New(i).comp = 0 /\ New(i).syncer = None
      BY Zenon, <1>1 DEF New, Cluster
    <2> QED
      BY Zenon, <2>1, <2>2, <2>3, <2>4
  <1> QED
    BY Zenon, <1>1, <1>2

\* Where the facts about an action's cluster come from.
LEMMA AtHand ==
  ASSUME CInv
  PROVE  /\ \A c \in Clusters : /\ clu[c] \in Cluster /\ clu[c].ref \in Int /\ clu[c].comp \in Int
                                 /\ clu[c].data \subseteq Threads /\ clu[c].err \in BOOLEAN
         /\ clu \in [Clusters -> Cluster]
         /\ \A t \in Threads : pc[t] \in HoldPCs \cup {"ref", "inc", "insert"} => cl[t] \in Clusters
         /\ pc[Worker] \in DropPCs \cup {"delete"} => cl[Worker] \in Clusters
         /\ \A p \in Proc : pc[p] \in {"sync", "lock", "io", "end", "ret"} => cl[p] \in Clusters
         /\ disk \in [Index -> SUBSET Threads] /\ err \in [Proc -> BOOLEAN]
         /\ \A t \in Threads : pc[t] \notin {"idle", "refbug"} => idx[t] \in Index
         /\ None \notin Clusters \cup Proc /\ Threads \subseteq Proc /\ Worker \in Proc
         /\ Worker \notin Threads /\ Index \subseteq Nat
PROOF
  <1>1. /\ clu \in [Clusters -> Cluster] /\ disk \in [Index -> SUBSET Threads] /\ err \in [Proc -> BOOLEAN]
        /\ \A t \in Threads : ThreadOK(t)
    BY Zenon DEF CInv, Types
  <1>2. \A c \in Clusters : clu[c] \in Cluster
    BY Zenon, <1>1
  <1>3. \A r \in Cluster : r.ref \in Int /\ r.comp \in Int /\ r.data \subseteq Threads /\ r.err \in BOOLEAN
    BY Zenon DEF Cluster
  <1>4. \A t \in Threads : pc[t] \in HoldPCs \cup {"ref", "inc", "insert"} => cl[t] \in Clusters
    BY Zenon, <1>1 DEF ThreadOK
  <1>5. \A t \in Threads : pc[t] \notin {"idle", "refbug"} => idx[t] \in Index
    BY Zenon, <1>1 DEF ThreadOK
  <1>6. pc[Worker] \in DropPCs \cup {"delete"} => cl[Worker] \in Clusters
    BY Zenon DEF CInv, WorkerOK
  <1>7. \A p \in Proc : pc[p] \in {"sync", "lock", "io", "end", "ret"} => cl[p] \in Clusters
    BY Zenon, <1>4, <1>6 DEF Proc, HoldPCs, DropPCs
  <1> QED
    BY Zenon, <1>1, <1>2, <1>3, <1>4, <1>5, <1>6, <1>7, ClusterAssumption, WorkerAssumption,
       IndexAssumption DEF Proc

\* Pinning and unpinning leave the other fields alone.
LEMMA PinFields ==
  ASSUME CInv, NEW t \in Threads, Pin(t)
  PROVE  Typed /\ \A c \in Clusters : Kept(c)
PROOF
  <1> DEFINE new == [clu[cl[t]] EXCEPT !.pin = clu[cl[t]].pin + 1]
  <1>1. cl[t] \in Clusters /\ clu[cl[t]] \in Cluster
    BY Zenon, AtHand DEF Pin, HoldPCs
  <1>2. new \in Cluster
    BY <1>1 DEF Cluster
  <1>3. clu' = [clu EXCEPT ![cl[t]] = new]
    BY Zenon DEF Pin
  <1>4. Typed
    <2> HIDE DEF new
    <2> QED BY Zenon, <1>1, <1>2, <1>3, AtHand DEF Typed
  <1> QED
    BY Zenon, <1>1, <1>3, <1>4, AtHand DEF Cluster, Kept, CountKept, ReadKept, BytesKept

\* The pin of dio_clu_put changes only the pin count of one cluster.
LEMMA UnpinFields ==
  ASSUME CInv, NEW t \in Threads, Unpin(t)
  PROVE  Typed /\ \A c \in Clusters : Kept(c)
PROOF
  <1> DEFINE new == [clu[cl[t]] EXCEPT !.pin = clu[cl[t]].pin - 1]
  <1>1. cl[t] \in Clusters /\ clu[cl[t]] \in Cluster
    BY Zenon, AtHand DEF Unpin, HoldPCs
  <1>2. new \in Cluster
    BY <1>1 DEF Cluster
  <1>3. clu' = [clu EXCEPT ![cl[t]] = new]
    BY Zenon DEF Unpin
  <1>4. Typed
    <2> HIDE DEF new
    <2> QED BY Zenon, <1>1, <1>2, <1>3, AtHand DEF Typed
  <1> QED
    BY Zenon, <1>1, <1>3, <1>4, AtHand DEF Cluster, Kept, CountKept, ReadKept, BytesKept

\* Only DIO_CLU_READ_START is set.
LEMMA ReadStartFields ==
  ASSUME CInv, NEW t \in Threads, ReadStart(t)
  PROVE  Typed /\ \A c \in Clusters : CountKept(c) /\ BytesKept(c)
                        /\ clu'[c].read = clu[c].read /\ clu'[c].err = clu[c].err /\ clu'[c].comp = clu[c].comp
                        /\ (c # cl[t] => Kept(c)) /\ (c = cl[t] => clu'[c].start)
PROOF
  <1> DEFINE new == [clu[cl[t]] EXCEPT !.start = TRUE]
  <1>1. cl[t] \in Clusters /\ clu[cl[t]] \in Cluster
    BY Zenon, AtHand DEF ReadStart, HoldPCs
  <1>2. new \in Cluster
    BY Zenon, <1>1 DEF Cluster
  <1>3. clu' = [clu EXCEPT ![cl[t]] = new] \/ clu' = clu
    BY Zenon DEF ReadStart
  <1>4. Typed
    <2> HIDE DEF new
    <2> QED BY Zenon, <1>1, <1>2, <1>3, AtHand DEF Typed
  <1> QED
    BY <1>1, <1>3, <1>4, AtHand DEF Cluster, Kept, CountKept, ReadKept, BytesKept, ReadStart

\* A good read sets DIO_CLU_READ and the bytes, a failed one nothing.
LEMMA ReadIoFields ==
  ASSUME CInv, NEW t \in Threads, ReadIo(t)
  PROVE  Typed /\ \A c \in Clusters : CountKept(c) /\ (c # cl[t] => Kept(c))
                        /\ (Kept(c) \/ (clu'[c].read /\ clu'[c].data = disk[idx[t]]))
                         /\ clu'[c].start = clu[c].start /\ clu'[c].err = clu[c].err /\ clu'[c].comp = clu[c].comp
                        /\ clu'[c].dirty = clu[c].dirty /\ clu'[c].syncer = clu[c].syncer
PROOF
  <1> DEFINE new == [clu[cl[t]] EXCEPT !.data = disk[idx[t]], !.read = TRUE]
  <1>1. cl[t] \in Clusters /\ clu[cl[t]] \in Cluster /\ disk[idx[t]] \subseteq Threads
    BY Zenon, AtHand DEF ReadIo, HoldPCs
  <1>2. new \in Cluster
    BY Zenon, <1>1 DEF Cluster
  <1>3. clu' = [clu EXCEPT ![cl[t]] = new] \/ clu' = clu
    BY Zenon DEF ReadIo
  <1>4. Typed
    <2> HIDE DEF new
    <2> QED BY <1>1, <1>2, <1>3, AtHand DEF Typed
  <1> QED
    BY <1>1, <1>3, <1>4, AtHand DEF Cluster, Kept, CountKept, ReadKept, BytesKept, ReadIo

\* The end of a read leaves its error and a completion.
LEMMA ReadDoneFields ==
  ASSUME CInv, NEW t \in Threads, ReadDone(t)
  PROVE  Typed /\ \A c \in Clusters : CountKept(c) /\ BytesKept(c)
                        /\ clu'[c].start = clu[c].start /\ clu'[c].read = clu[c].read
                        /\ (c # cl[t] => Kept(c)) /\ (c = cl[t] => clu'[c].err = err[t])
PROOF
  <1>0. PICK e \in BOOLEAN : e = err[t]
    BY Zenon, AtHand
  <1> DEFINE new == [clu[cl[t]] EXCEPT !.err = e, !.comp = clu[cl[t]].comp + 1]
  <1>1. cl[t] \in Clusters /\ clu[cl[t]] \in Cluster /\ err[t] \in BOOLEAN
    BY Zenon, AtHand DEF ReadDone, HoldPCs
  <1>2. new \in Cluster
    <2> DEFINE r1 == [clu[cl[t]] EXCEPT !.comp = clu[cl[t]].comp + 1]
               r2 == [r1 EXCEPT !.err = e]
    <2>1. r1 \in Cluster
      BY <1>1 DEF Cluster
    <2>2. new = r2
      BY Zenon, <1>1 DEF Cluster
    <2> HIDE DEF r1, new
    <2> QED
      BY Zenon, <2>1, <2>2 DEF Cluster
  <1>3. clu' = [clu EXCEPT ![cl[t]] = new]
    BY Zenon, <1>0 DEF ReadDone
  <1>4. Typed
    <2> HIDE DEF new
    <2> QED BY <1>1, <1>2, <1>3, AtHand DEF Typed
  <1> QED
    BY <1>0, <1>1, <1>3, <1>4, AtHand DEF Cluster, Kept, CountKept, ReadKept, BytesKept

\* A waiter takes one completion.
LEMMA WaitFields ==
  ASSUME CInv, NEW t \in Threads, Wait(t)
  PROVE  Typed /\ \A c \in Clusters : CountKept(c) /\ BytesKept(c)
                        /\ clu'[c].start = clu[c].start /\ clu'[c].read = clu[c].read
                         /\ clu'[c].err = clu[c].err /\ clu'[c].comp <= clu[c].comp
PROOF
  <1> DEFINE new == [clu[cl[t]] EXCEPT !.comp = clu[cl[t]].comp - 1]
  <1>1. cl[t] \in Clusters /\ clu[cl[t]] \in Cluster
    BY Zenon, AtHand DEF Wait, HoldPCs
  <1>2. new \in Cluster
    BY <1>1 DEF Cluster
  <1>3. clu' = [clu EXCEPT ![cl[t]] = new]
    BY Zenon DEF Wait
  <1>4. Typed
    <2> HIDE DEF new
    <2> QED BY Zenon, <1>1, <1>2, <1>3, AtHand DEF Typed
  <1> QED
    BY <1>1, <1>3, <1>4, AtHand DEF Cluster, Kept, CountKept, ReadKept, BytesKept

\* A change in place turns one byte.
LEMMA ModifyFields ==
  ASSUME CInv, NEW t \in Threads, Modify(t)
  PROVE  Typed /\ \A c \in Clusters : CountKept(c) /\ ReadKept(c)
                        /\ clu'[c].dirty = clu[c].dirty /\ clu'[c].syncer = clu[c].syncer
                         /\ clu'[c].data = IF c = cl[t] THEN Toggle(clu[c].data, t) ELSE clu[c].data
PROOF
  <1> DEFINE new == [clu[cl[t]] EXCEPT !.data = Toggle(clu[cl[t]].data, t)]
  <1>1. cl[t] \in Clusters /\ clu[cl[t]] \in Cluster
    BY Zenon, AtHand DEF Modify, HoldPCs
  <1>2. new \in Cluster
    BY Zenon, <1>1 DEF Cluster, Toggle
  <1>3. clu' = [clu EXCEPT ![cl[t]] = new]
    BY DEF Modify, Touch
  <1>4. Typed
    <2> HIDE DEF new
    <2> QED BY Zenon, <1>1, <1>2, <1>3, AtHand DEF Typed
  <1> QED
    BY <1>1, <1>3, <1>4, AtHand DEF Cluster, Kept, CountKept, ReadKept, BytesKept

\* dio_clu_write turns one byte and sets DIRTY, or is stuck.
LEMMA WriteFields ==
  ASSUME CInv, NEW t \in Threads, Write(t)
  PROVE  Typed /\ \A c \in Clusters : CountKept(c) /\ ReadKept(c) /\ (c # cl[t] => Kept(c))
                        /\ clu'[c].syncer = clu[c].syncer
                         /\ (c = cl[t] => Kept(c) \/ (clu'[c].dirty /\ clu'[c].data = Toggle(clu[c].data, t)))
PROOF
  <1> DEFINE new == [clu[cl[t]] EXCEPT !.data = Toggle(clu[cl[t]].data, t), !.dirty = TRUE]
  <1>1. cl[t] \in Clusters /\ clu[cl[t]] \in Cluster
    BY Zenon, AtHand DEF Write, HoldPCs
  <1>2. new \in Cluster
    BY Zenon, <1>1 DEF Cluster, Toggle
  <1>3. clu' = [clu EXCEPT ![cl[t]] = new] \/ clu' = clu
    BY Zenon DEF Write, Touch
  <1>4. Typed
    <2> HIDE DEF new
    <2> QED BY Zenon, <1>1, <1>2, <1>3, AtHand DEF Typed
  <1> QED
    BY <1>1, <1>3, <1>4, AtHand DEF Cluster, Kept, CountKept, ReadKept, BytesKept, Write

\* Only DIRTY is set.
LEMMA SetDirtyFields ==
  ASSUME CInv, NEW t \in Threads, SetDirty(t)
  PROVE  Typed /\ \A c \in Clusters : CountKept(c) /\ ReadKept(c)
                        /\ clu'[c].syncer = clu[c].syncer /\ clu'[c].data = clu[c].data
                        /\ clu'[c].dirty = (clu[c].dirty \/ c = cl[t])
PROOF
  <1> DEFINE new == [clu[cl[t]] EXCEPT !.dirty = TRUE]
  <1>1. cl[t] \in Clusters /\ clu[cl[t]] \in Cluster
    BY Zenon, AtHand DEF SetDirty, HoldPCs
  <1>2. new \in Cluster
    BY Zenon, <1>1 DEF Cluster
  <1>3. clu' = [clu EXCEPT ![cl[t]] = new]
    BY DEF SetDirty
  <1>4. Typed
    <2> HIDE DEF new
    <2> QED BY Zenon, <1>1, <1>2, <1>3, AtHand DEF Typed
  <1> QED
    BY Zenon, <1>1, <1>3, <1>4, AtHand DEF Cluster, Kept, CountKept, ReadKept, BytesKept

\* Only the writer of sync_rw_lock changes.
LEMMA SyncLockFields ==
  ASSUME CInv, NEW p \in Proc, SyncLock(p)
  PROVE  Typed /\ \A c \in Clusters : CountKept(c) /\ ReadKept(c)
                        /\ clu'[c].dirty = clu[c].dirty /\ clu'[c].data = clu[c].data
                        /\ (clu'[c].syncer = clu[c].syncer \/ (c = cl[p] /\ clu'[c].syncer = p))
PROOF
  <1> DEFINE new == [clu[cl[p]] EXCEPT !.syncer = p]
  <1>1. cl[p] \in Clusters /\ clu[cl[p]] \in Cluster
    BY Zenon, AtHand DEF SyncLock, HoldPCs
  <1>2. new \in Cluster
    BY Zenon, <1>1 DEF Cluster
  <1>3. clu' = [clu EXCEPT ![cl[p]] = new] \/ clu' = clu
    BY Zenon DEF SyncLock
  <1>4. Typed
    <2> HIDE DEF new
    <2> QED BY Zenon, <1>1, <1>2, <1>3, AtHand DEF Typed
  <1> QED
    BY <1>1, <1>3, <1>4, AtHand DEF Cluster, Kept, CountKept, ReadKept, BytesKept, SyncLock

\* The end of a sync clears DIRTY after a good write.
LEMMA SyncEndFields ==
  ASSUME CInv, NEW p \in Proc, SyncEnd(p)
  PROVE  Typed /\ \A c \in Clusters : CountKept(c) /\ ReadKept(c) /\ (c # cl[p] => Kept(c))
                        /\ clu'[c].data = clu[c].data
                        /\ (c = cl[p] => clu'[c].dirty = (clu[c].dirty /\ err[p]))
PROOF
  <1> DEFINE new == [clu[cl[p]] EXCEPT !.dirty = clu[cl[p]].dirty /\ err[p], !.syncer = None]
  <1>1. cl[p] \in Clusters /\ clu[cl[p]] \in Cluster /\ err[p] \in BOOLEAN
    BY Zenon, AtHand DEF SyncEnd, HoldPCs
  <1>2. new \in Cluster
    BY Zenon, <1>1 DEF Cluster
  <1>3. clu' = [clu EXCEPT ![cl[p]] = new]
    BY Zenon DEF SyncEnd
  <1>4. Typed
    <2> HIDE DEF new
    <2> QED BY Zenon, <1>1, <1>2, <1>3, AtHand DEF Typed
  <1> QED
    BY <1>1, <1>3, <1>4, AtHand DEF Cluster, Kept, CountKept, ReadKept, BytesKept

\* A caller of dio_clu_get begins: no count changes.
LEMMA GetCalm ==
  ASSUME CInv, NEW t \in Threads, NEW i \in Index, Get(t, i)
  PROVE  Types' /\ Calm(t)
PROOF
  <1>0. /\ Types /\ t \in Proc /\ Threads \subseteq Proc /\ Worker \in Proc /\ Worker \notin Threads
        /\ ThreadOK(t) /\ Index \subseteq Nat
    BY Zenon, AtHand DEF CInv, Proc
  <1>1. Typed /\ \A c \in Clusters : CountKept(c)
    BY Zenon, AtHand DEF Get, Typed, CountKept
  <1>2. Types'
    BY Zenon, <1>0, <1>1 DEF Types, ThreadOK, Typed, ThreadPCs, WorkerPCs, Get, GoTo, work, hist
  <1>3. Calm(t)
    BY Zenon, <1>0, <1>1 DEF Types, ThreadOK, Calm, HoldPCs, DropPCs, ThreadPCs, Get, GoTo, work,
        hist
  <1> QED
    BY Zenon, <1>2, <1>3

\* The assertion of dio_clu_ref only reads the count.
LEMMA RefTestCalm ==
  ASSUME CInv, NEW t \in Threads, RefTest(t)
  PROVE  Types' /\ Calm(t)
PROOF
  <1>0. /\ Types /\ t \in Proc /\ Threads \subseteq Proc /\ Worker \in Proc /\ Worker \notin Threads
        /\ ThreadOK(t) /\ Index \subseteq Nat
    BY Zenon, AtHand DEF CInv, Proc
  <1>1. Typed /\ \A c \in Clusters : CountKept(c)
    BY Zenon, AtHand DEF RefTest, Typed, CountKept
  <1>2. Types'
    BY Zenon, <1>0, <1>1 DEF Types, ThreadOK, Typed, ThreadPCs, WorkerPCs, RefTest, GoTo, work,
        hist
  <1>3. Calm(t)
    BY <1>0, <1>1 DEF Types, ThreadOK, Calm, HoldPCs, DropPCs, ThreadPCs, RefTest, GoTo,
        work, hist
  <1> QED
    BY Zenon, <1>2, <1>3

\* Pinning is not counted among the references.
LEMMA PinCalm ==
  ASSUME CInv, NEW t \in Threads, Pin(t)
  PROVE  Types' /\ Calm(t)
PROOF
  <1>0. /\ Types /\ t \in Proc /\ Threads \subseteq Proc /\ Worker \in Proc /\ Worker \notin Threads
        /\ ThreadOK(t) /\ Index \subseteq Nat
    BY Zenon, AtHand DEF CInv, Proc
  <1>1. Typed /\ \A c \in Clusters : CountKept(c)
    BY Zenon, PinFields DEF Kept
  <1>2. Types'
    BY Zenon, <1>0, <1>1 DEF Types, ThreadOK, Typed, ThreadPCs, WorkerPCs, Pin, GoTo, work, hist
  <1>3. Calm(t)
    BY <1>0, <1>1 DEF Types, ThreadOK, Calm, HoldPCs, DropPCs, ThreadPCs, Pin, GoTo, work,
        hist
  <1> QED
    BY Zenon, <1>2, <1>3

\* The new age of a cluster changes no count.
LEMMA AgeCalm ==
  ASSUME CInv, NEW t \in Threads, Age(t)
  PROVE  Types' /\ Calm(t)
PROOF
  <1>0. /\ Types /\ t \in Proc /\ Threads \subseteq Proc /\ Worker \in Proc /\ Worker \notin Threads
        /\ ThreadOK(t) /\ Index \subseteq Nat
    BY Zenon, AtHand DEF CInv, Proc
  <1>1. Typed /\ \A c \in Clusters : CountKept(c)
    BY Zenon, AtHand DEF Age, Typed, CountKept
  <1>2. Types'
    BY Zenon, <1>0, <1>1 DEF Types, ThreadOK, Typed, ThreadPCs, WorkerPCs, Age, GoTo, work, hist
  <1>3. Calm(t)
    BY <1>0, <1>1 DEF Types, ThreadOK, Calm, HoldPCs, DropPCs, ThreadPCs, Age, GoTo, work,
        hist
  <1> QED
    BY Zenon, <1>2, <1>3

\* The test of DIO_CLU_READ changes nothing.
LEMMA GetTestCalm ==
  ASSUME CInv, NEW t \in Threads, GetTest(t)
  PROVE  Types' /\ Calm(t)
PROOF
  <1>0. /\ Types /\ t \in Proc /\ Threads \subseteq Proc /\ Worker \in Proc /\ Worker \notin Threads
        /\ ThreadOK(t) /\ Index \subseteq Nat
    BY Zenon, AtHand DEF CInv, Proc
  <1>1. Typed /\ \A c \in Clusters : CountKept(c)
    BY Zenon, AtHand DEF GetTest, Typed, CountKept
  <1>2. Types'
    BY Zenon, <1>0, <1>1 DEF Types, ThreadOK, Typed, ThreadPCs, WorkerPCs, GetTest, GoTo, work,
        hist
  <1>3. Calm(t)
    BY Zenon, <1>0, <1>1 DEF Types, ThreadOK, Calm, HoldPCs, DropPCs, ThreadPCs, GetTest, GoTo,
        work, hist
  <1> QED
    BY Zenon, <1>2, <1>3

\* test_and_set_bit(DIO_CLU_READ_START) keeps the counts.
LEMMA ReadStartCalm ==
  ASSUME CInv, NEW t \in Threads, ReadStart(t)
  PROVE  Types' /\ Calm(t)
PROOF
  <1>0. /\ Types /\ t \in Proc /\ Threads \subseteq Proc /\ Worker \in Proc /\ Worker \notin Threads
        /\ ThreadOK(t) /\ Index \subseteq Nat
    BY Zenon, AtHand DEF CInv, Proc
  <1>1. Typed /\ \A c \in Clusters : CountKept(c)
    BY Zenon, ReadStartFields DEF Kept
  <1>a. clu[cl[t]].err \in BOOLEAN
    BY Zenon, AtHand DEF ReadStart, HoldPCs
  <1>2. Types'
    BY Zenon, <1>0, <1>1, <1>a DEF Types, Typed, ThreadPCs, WorkerPCs, ReadStart, GoTo, work, hist
  <1>3. Calm(t)
    BY <1>0, <1>1 DEF Types, ThreadOK, Calm, HoldPCs, DropPCs, ThreadPCs, ReadStart, GoTo,
        work, hist
  <1> QED
    BY Zenon, <1>2, <1>3

\* The end of a read (__dio_io_end_bio) keeps the counts.
LEMMA ReadIoCalm ==
  ASSUME CInv, ReadOnce, NEW t \in Threads, ReadIo(t)
  PROVE  Types' /\ Calm(t)
PROOF
  <1>0. /\ Types /\ t \in Proc /\ Threads \subseteq Proc /\ Worker \in Proc /\ Worker \notin Threads
        /\ ThreadOK(t) /\ Index \subseteq Nat
    BY Zenon, AtHand DEF CInv, Proc
  <1>1. Typed /\ \A c \in Clusters : CountKept(c)
    BY Zenon, ReadIoFields DEF Kept
  <1>2. Types'
    BY Zenon, <1>0, <1>1 DEF Types, ThreadOK, Typed, ThreadPCs, WorkerPCs, ReadIo, GoTo, work,
        hist
  <1>3. Calm(t)
    <2>1. /\ pc[t] = "rio" /\ pc'[t] \in {"rdone", "bug"}
          /\ UNCHANGED << tree, nrClus, cl, idx, nodes, todo, scan, drops, mode >>
          /\ \A q \in Proc \ {t} : pc'[q] = pc[q]
      BY Zenon, <1>0 DEF Types, ReadIo, GoTo, work
    <2>2. pc'[t] = "rdone"
      BY Zenon, <1>0, <2>1 DEF Types, ReadIo, ReadOnce, GoTo
    <2> QED
      BY Zenon, <1>0, <1>1, <2>1, <2>2 DEF ThreadOK, Calm, HoldPCs, ThreadPCs
  <1> QED
    BY Zenon, <1>2, <1>3

\* complete() keeps the counts.
LEMMA ReadDoneCalm ==
  ASSUME CInv, NEW t \in Threads, ReadDone(t)
  PROVE  Types' /\ Calm(t)
PROOF
  <1>0. /\ Types /\ t \in Proc /\ Threads \subseteq Proc /\ Worker \in Proc /\ Worker \notin Threads
        /\ ThreadOK(t) /\ Index \subseteq Nat
    BY Zenon, AtHand DEF CInv, Proc
  <1>1. Typed /\ \A c \in Clusters : CountKept(c)
    BY Zenon, ReadDoneFields DEF Kept
  <1>2. Types'
    BY Zenon, <1>0, <1>1 DEF Types, ThreadOK, Typed, ThreadPCs, WorkerPCs, ReadDone, Outcome,
        GoTo, work, hist
  <1>3. Calm(t)
    BY Zenon, <1>0, <1>1 DEF Types, ThreadOK, Calm, HoldPCs, DropPCs, ThreadPCs, ReadDone,
        Outcome, GoTo, work, hist
  <1> QED
    BY Zenon, <1>2, <1>3

\* wait_for_completion keeps the counts.
LEMMA WaitCalm ==
  ASSUME CInv, NEW t \in Threads, Wait(t)
  PROVE  Types' /\ Calm(t)
PROOF
  <1>0. /\ Types /\ t \in Proc /\ Threads \subseteq Proc /\ Worker \in Proc /\ Worker \notin Threads
        /\ ThreadOK(t) /\ Index \subseteq Nat
    BY Zenon, AtHand DEF CInv, Proc
  <1>1. Typed /\ \A c \in Clusters : CountKept(c)
    BY Zenon, WaitFields DEF Kept
  <1>2. Types'
    BY Zenon, <1>0, <1>1 DEF Types, ThreadOK, Typed, ThreadPCs, WorkerPCs, Wait, Outcome, GoTo,
        work, hist
  <1>3. Calm(t)
    BY <1>0, <1>1 DEF Types, ThreadOK, Calm, HoldPCs, DropPCs, ThreadPCs, Wait, Outcome,
        GoTo, work, hist
  <1> QED
    BY Zenon, <1>2, <1>3

\* A caller that changes the mapped pages takes no reference.
LEMMA ModifyCalm ==
  ASSUME CInv, NEW t \in Threads, Modify(t)
  PROVE  Types' /\ Calm(t)
PROOF
  <1>0. /\ Types /\ t \in Proc /\ Threads \subseteq Proc /\ Worker \in Proc /\ Worker \notin Threads
        /\ ThreadOK(t) /\ Index \subseteq Nat
    BY Zenon, AtHand DEF CInv, Proc
  <1>1. Typed /\ \A c \in Clusters : CountKept(c)
    BY Zenon, ModifyFields DEF Kept
  <1>2. Types'
    BY <1>0, <1>1 DEF Types, ThreadOK, Typed, ThreadPCs, WorkerPCs, Modify, Touch, Toggle,
        GoTo, work, hist
  <1>3. Calm(t)
    BY Zenon, <1>0, <1>1 DEF Types, ThreadOK, Calm, HoldPCs, DropPCs, ThreadPCs, Modify, Touch,
        Toggle, GoTo, work, hist
  <1> QED
    BY Zenon, <1>2, <1>3

\* dio_clu_write takes no reference.
LEMMA WriteCalm ==
  ASSUME CInv, NEW t \in Threads, Write(t)
  PROVE  Types' /\ Calm(t)
PROOF
  <1>0. /\ Types /\ t \in Proc /\ Threads \subseteq Proc /\ Worker \in Proc /\ Worker \notin Threads
        /\ ThreadOK(t) /\ Index \subseteq Nat
    BY Zenon, AtHand DEF CInv, Proc
  <1>1. Typed /\ \A c \in Clusters : CountKept(c)
    BY Zenon, WriteFields DEF Kept
  <1>2. Types'
    BY <1>0, <1>1 DEF Types, ThreadOK, Typed, ThreadPCs, WorkerPCs, Write, Touch, Toggle,
        GoTo, work, hist
  <1>3. Calm(t)
    BY <1>0, <1>1 DEF Types, ThreadOK, Calm, HoldPCs, DropPCs, ThreadPCs, Write, Touch,
        Toggle, GoTo, work, hist
  <1> QED
    BY Zenon, <1>2, <1>3

\* A caller that only reads takes no reference.
LEMMA LookCalm ==
  ASSUME CInv, NEW t \in Threads, Look(t)
  PROVE  Types' /\ Calm(t)
PROOF
  <1>0. /\ Types /\ t \in Proc /\ Threads \subseteq Proc /\ Worker \in Proc /\ Worker \notin Threads
        /\ ThreadOK(t) /\ Index \subseteq Nat
    BY Zenon, AtHand DEF CInv, Proc
  <1>1. Typed /\ \A c \in Clusters : CountKept(c)
    BY Zenon, AtHand DEF Look, Typed, CountKept
  <1>2. Types'
    BY Zenon, <1>0, <1>1 DEF Types, ThreadOK, Typed, ThreadPCs, WorkerPCs, Look, GoTo, work, hist
  <1>3. Calm(t)
    BY <1>0, <1>1 DEF Types, ThreadOK, Calm, HoldPCs, DropPCs, ThreadPCs, Look, GoTo,
        work, hist
  <1> QED
    BY Zenon, <1>2, <1>3

\* dio_clu_set_dirty keeps the counts.
LEMMA SetDirtyCalm ==
  ASSUME CInv, NEW t \in Threads, SetDirty(t)
  PROVE  Types' /\ Calm(t)
PROOF
  <1>0. /\ Types /\ t \in Proc /\ Threads \subseteq Proc /\ Worker \in Proc /\ Worker \notin Threads
        /\ ThreadOK(t) /\ Index \subseteq Nat
    BY Zenon, AtHand DEF CInv, Proc
  <1>1. Typed /\ \A c \in Clusters : CountKept(c)
    BY Zenon, SetDirtyFields DEF Kept
  <1>2. Types'
    BY Zenon, <1>0, <1>1 DEF Types, ThreadOK, Typed, ThreadPCs, WorkerPCs, SetDirty, GoTo, work,
        hist
  <1>3. Calm(t)
    BY <1>0, <1>1 DEF Types, ThreadOK, Calm, HoldPCs, DropPCs, ThreadPCs, SetDirty, GoTo,
        work, hist
  <1> QED
    BY Zenon, <1>2, <1>3

\* The unpinning of dio_clu_put keeps the reference for dio_clu_deref.
LEMMA UnpinCalm ==
  ASSUME CInv, NEW t \in Threads, Unpin(t)
  PROVE  Types' /\ Calm(t)
PROOF
  <1>0. /\ Types /\ t \in Proc /\ Threads \subseteq Proc /\ Worker \in Proc /\ Worker \notin Threads
        /\ ThreadOK(t) /\ Index \subseteq Nat
    BY Zenon, AtHand DEF CInv, Proc
  <1>1. Typed /\ \A c \in Clusters : CountKept(c)
    BY Zenon, UnpinFields DEF Kept
  <1>2. Types'
    BY Zenon, <1>0, <1>1 DEF Types, ThreadOK, Typed, ThreadPCs, WorkerPCs, Unpin, GoTo, work,
        hist
  <1>3. Calm(t)
    BY Zenon, <1>0, <1>1 DEF Types, ThreadOK, Calm, HoldPCs, DropPCs, ThreadPCs, Unpin, GoTo,
        work, hist
  <1> QED
    BY Zenon, <1>2, <1>3

\* The first test of DIO_CLU_DIRTY in dio_clu_sync changes nothing.
LEMMA SyncTestCalm ==
  ASSUME CInv, NEW p \in Proc, SyncTest(p)
  PROVE  Types' /\ Calm(p)
PROOF
  <1>0. /\ Types /\ p \in Proc /\ Threads \subseteq Proc /\ Worker \in Proc /\ Worker \notin Threads
        /\ (p \in Threads => ThreadOK(p)) /\ (p = Worker => WorkerOK) /\ p \in Threads \cup {Worker}
    BY Zenon, AtHand DEF CInv, Proc
  <1>1. Typed /\ \A c \in Clusters : CountKept(c)
    BY Zenon, AtHand DEF SyncTest, Typed, CountKept
  <1>2. Types'
    BY Zenon, <1>0, <1>1 DEF Types, ThreadOK, Typed, ThreadPCs, WorkerPCs, SyncTest, GoTo, work,
        hist
  <1>3. Calm(p)
    BY <1>0, <1>1 DEF Types, ThreadOK, WorkerOK, Calm, HoldPCs, DropPCs, ThreadPCs,
        SyncTest, GoTo, work, hist
  <1> QED
    BY Zenon, <1>2, <1>3

\* sync_rw_lock and the second test keep the counts.
LEMMA SyncLockCalm ==
  ASSUME CInv, NEW p \in Proc, SyncLock(p)
  PROVE  Types' /\ Calm(p)
PROOF
  <1>0. /\ Types /\ p \in Proc /\ Threads \subseteq Proc /\ Worker \in Proc /\ Worker \notin Threads
        /\ (p \in Threads => ThreadOK(p)) /\ (p = Worker => WorkerOK) /\ p \in Threads \cup {Worker}
    BY Zenon, AtHand DEF CInv, Proc
  <1>1. Typed /\ \A c \in Clusters : CountKept(c)
    BY Zenon, SyncLockFields DEF Kept
  <1>2. Types'
    BY Zenon, <1>0, <1>1 DEF Types, ThreadOK, Typed, ThreadPCs, WorkerPCs, SyncLock, StuckIn,
        GoTo, work, hist
  <1>3. Calm(p)
    BY <1>0, <1>1 DEF Types, ThreadOK, WorkerOK, Calm, HoldPCs, DropPCs, ThreadPCs,
        SyncLock, StuckIn, GoTo, work, hist
  <1> QED
    BY Zenon, <1>2, <1>3

\* The transfer of dio_clu_sync changes the device and no count.
LEMMA SyncIoCalm ==
  ASSUME CInv, NEW p \in Proc, SyncIo(p)
  PROVE  Types' /\ Calm(p)
PROOF
  <1>0. /\ Types /\ p \in Proc /\ Threads \subseteq Proc /\ Worker \in Proc /\ Worker \notin Threads
        /\ (p \in Threads => ThreadOK(p)) /\ (p = Worker => WorkerOK) /\ p \in Threads \cup {Worker}
    BY Zenon, AtHand DEF CInv, Proc
  <1>1. Typed /\ \A c \in Clusters : CountKept(c)
    BY Zenon, AtHand DEF SyncIo, Typed, CountKept
  <1>a. cl[p] \in Clusters /\ clu[cl[p]].data \subseteq Threads
    BY Zenon, AtHand DEF SyncIo
  <1>b. disk' \in [Index -> SUBSET Threads] /\ err' \in [Proc -> BOOLEAN]
    <2> DEFINE i == clu[cl[p]].index
               d == clu[cl[p]].data
    <2>1. \/ disk' = [disk EXCEPT ![i] = d]
          \/ \E part : disk' = [disk EXCEPT ![i] = (disk[i] \ part) \cup (d \cap part)]
      BY Zenon DEF SyncIo
    <2>2. err' = [err EXCEPT ![p] = TRUE] \/ err' = [err EXCEPT ![p] = FALSE]
      BY Zenon DEF SyncIo
    <2>3. disk \in [Index -> SUBSET Threads] /\ d \subseteq Threads /\ err \in [Proc -> BOOLEAN]
      BY Zenon, <1>0, <1>a DEF Types
    <2> HIDE DEF i, d
    <2> QED
      BY Zenon, <2>1, <2>2, <2>3
  <1>2. Types'
    BY Zenon, <1>0, <1>1, <1>b DEF Types, Typed, ThreadPCs, SyncIo, GoTo, work, hist
  <1>3. Calm(p)
    BY <1>0, <1>1 DEF Types, ThreadOK, WorkerOK, Calm, HoldPCs, DropPCs, ThreadPCs,
        SyncIo, GoTo, work, hist
  <1> QED
    BY Zenon, <1>2, <1>3

\* The end of dio_clu_sync clears flags and keeps the counts.
LEMMA SyncEndCalm ==
  ASSUME CInv, NEW p \in Proc, SyncEnd(p)
  PROVE  Types' /\ Calm(p)
PROOF
  <1>0. /\ Types /\ p \in Proc /\ Threads \subseteq Proc /\ Worker \in Proc /\ Worker \notin Threads
        /\ (p \in Threads => ThreadOK(p)) /\ (p = Worker => WorkerOK) /\ p \in Threads \cup {Worker}
    BY Zenon, AtHand DEF CInv, Proc
  <1>1. Typed /\ \A c \in Clusters : CountKept(c)
    BY Zenon, SyncEndFields DEF Kept
  <1>2. Types'
    BY Zenon, <1>0, <1>1 DEF Types, ThreadOK, Typed, ThreadPCs, WorkerPCs, SyncEnd, GoTo, work,
        hist
  <1>3. Calm(p)
    BY Zenon, <1>0, <1>1 DEF Types, ThreadOK, WorkerOK, Calm, HoldPCs, DropPCs, ThreadPCs,
        SyncEnd, GoTo, work, hist
  <1> QED
    BY Zenon, <1>2, <1>3

\* The caller of dio_clu_sync goes on with the reference it has.
LEMMA SyncReturnCalm ==
  ASSUME CInv, NEW p \in Proc, SyncReturn(p)
  PROVE  Types' /\ Calm(p)
PROOF
  <1>0. /\ Types /\ p \in Proc /\ Threads \subseteq Proc /\ Worker \in Proc /\ Worker \notin Threads
        /\ (p \in Threads => ThreadOK(p)) /\ (p = Worker => WorkerOK) /\ p \in Threads \cup {Worker}
    BY Zenon, AtHand DEF CInv, Proc
  <1>1. Typed /\ \A c \in Clusters : CountKept(c)
    BY Zenon, AtHand DEF SyncReturn, Typed, CountKept
  <1>2. Types'
    BY Zenon, <1>0, <1>1 DEF Types, ThreadOK, Typed, ThreadPCs, WorkerPCs, SyncReturn, GoTo,
        work, hist
  <1>3. Calm(p)
    BY Zenon, <1>0, <1>1 DEF Types, ThreadOK, WorkerOK, Calm, HoldPCs, DropPCs, ThreadPCs,
        SyncReturn, GoTo, work, hist
  <1> QED
    BY Zenon, <1>2, <1>3

\* One more reference, with or without a pin.
LEMMA IncFields ==
  ASSUME CInv, NEW c \in Clusters, NEW n \in Int, NEW k \in Nat,
         clu' = [clu EXCEPT ![c] = [clu[c] EXCEPT !.ref = clu[c].ref + k, !.pin = n]]
  PROVE  /\ Typed
         /\ \A d \in Clusters : /\ clu'[d].alive = clu[d].alive /\ clu'[d].index = clu[d].index
                                /\ clu'[d].ref = IF d = c THEN clu[d].ref + k ELSE clu[d].ref
                                /\ ReadKept(d) /\ BytesKept(d)
PROOF
  <1> DEFINE r1 == [clu[c] EXCEPT !.ref = clu[c].ref + k]
             new == [clu[c] EXCEPT !.ref = clu[c].ref + k, !.pin = n]
  <1>1. clu[c] \in Cluster /\ clu \in [Clusters -> Cluster] /\ clu[c].ref \in Int
    BY Zenon, AtHand
  <1>2. r1 \in Cluster
    BY <1>1 DEF Cluster
  <1>3. new = [r1 EXCEPT !.pin = n]
    BY Zenon, <1>1 DEF Cluster
  <1>4. new \in Cluster
    <2> HIDE DEF new, r1
    <2> QED BY <1>2, <1>3 DEF Cluster
  <1>5. clu' = [clu EXCEPT ![c] = new]
    BY Zenon
  <1>6. Typed
    <2> HIDE DEF new
    <2> QED BY <1>1, <1>4, <1>5 DEF Typed
  <1> QED
    BY <1>1, <1>6 DEF Cluster, ReadKept, BytesKept

\* dio_clu_ref adds one reference to a cluster that is there.
LEMMA RefIncFields ==
  ASSUME CInv, NEW t \in Threads, RefInc(t)
  PROVE  /\ Typed
         /\ \A d \in Clusters : /\ clu'[d].alive = clu[d].alive /\ clu'[d].index = clu[d].index
                                /\ clu'[d].ref = clu[d].ref + B2N(d = cl[t] /\ pc'[t] = "pin")
                                /\ ReadKept(d) /\ BytesKept(d)
PROOF
  <1>1. /\ cl[t] \in Clusters /\ clu[cl[t]] \in Cluster /\ clu \in [Clusters -> Cluster]
        /\ t \in Proc /\ \A d \in Clusters : clu[d].ref \in Int
    BY Zenon, AtHand DEF RefInc
  <1>2. pc \in [Proc -> ThreadPCs \cup WorkerPCs]
    BY Zenon DEF CInv, Types
  <1>3. CASE clu' = clu /\ pc' = [pc EXCEPT ![t] = "refbug"]
    BY <1>1, <1>2, <1>3 DEF B2N, ReadKept, BytesKept, Typed
  <1>4. CASE clu' = [clu EXCEPT ![cl[t]].ref = @ + 1] /\ pc' = [pc EXCEPT ![t] = "pin"]
    <2>1. clu[cl[t]].pin \in Int
      BY Zenon, <1>1 DEF Cluster
    <2>2. [clu[cl[t]] EXCEPT !.ref = clu[cl[t]].ref + 1]
          = [clu[cl[t]] EXCEPT !.ref = clu[cl[t]].ref + 1, !.pin = clu[cl[t]].pin]
      BY Zenon, <1>1 DEF Cluster
    <2>3. clu' = [clu EXCEPT ![cl[t]] = [clu[cl[t]] EXCEPT !.ref = clu[cl[t]].ref + 1,
                                                           !.pin = clu[cl[t]].pin]]
      BY Zenon, <1>4, <2>2
    <2>4. /\ Typed
          /\ \A d \in Clusters : /\ clu'[d].alive = clu[d].alive /\ clu'[d].index = clu[d].index
                                 /\ clu'[d].ref = IF d = cl[t] THEN clu[d].ref + 1 ELSE clu[d].ref
                                 /\ ReadKept(d) /\ BytesKept(d)
      BY Zenon, <1>1, <2>1, <2>3, IncFields
    <2>5. pc'[t] = "pin"
      BY <1>1, <1>2, <1>4
    <2> QED
      BY <1>1, <2>4, <2>5 DEF B2N
  <1> QED
    BY Zenon, <1>3, <1>4 DEF RefInc, GoTo

\* The process that drops a reference goes on or is stopped by an assertion; the
\* last reference frees the cluster.
LEMMA DropFields ==
  ASSUME CInv, NEW p \in Proc, NEW c \in Clusters, NEW next, Drop(p, c, next), clu[c].ref >= 1
  PROVE  /\ Typed
         /\ \A d \in Clusters \ {c} : Kept(d)
         /\ clu'[c].ref = clu[c].ref - 1
         /\ ~clu'[c].alive => clu'[c].ref = 0 \/ ~clu[c].alive
         /\ \/ clu[c].ref = 1 /\ clu'[c] = Freed
            \/ ReadKept(c) /\ BytesKept(c) /\ clu'[c].index = clu[c].index /\ clu'[c].alive = clu[c].alive
         /\ pc' = [pc EXCEPT ![p] = next] \/ pc' = [pc EXCEPT ![p] = "refbug"]
PROOF
  <1>1. clu[c] \in Cluster /\ clu \in [Clusters -> Cluster] /\ clu[c].ref \in Int
    BY Zenon, AtHand
  <1>2. Freed \in Cluster /\ ~Freed.alive /\ Freed.ref = 0
    BY Zenon, FreedType
  <1>3. CASE clu[c].ref = 1 /\ clu' = [clu EXCEPT ![c] = Freed]
    <2> HIDE DEF Freed
    <2> QED
      BY <1>1, <1>2, <1>3 DEF Typed, Kept, CountKept, ReadKept, BytesKept, Drop, GoTo
  <1>4. CASE clu' = [clu EXCEPT ![c].ref = clu[c].ref - 1]
    <2> DEFINE new == [clu[c] EXCEPT !.ref = clu[c].ref - 1]
    <2>1. new \in Cluster
      BY <1>1 DEF Cluster
    <2>2. clu' = [clu EXCEPT ![c] = new]
      BY Zenon, <1>4
    <2>3. Typed
      <3> HIDE DEF new
      <3> QED BY <1>1, <2>1, <2>2 DEF Typed
    <2>4. \A d \in Clusters \ {c} : Kept(d)
      BY <1>1, <2>2 DEF Kept, CountKept, ReadKept, BytesKept
    <2>5. /\ clu'[c].ref = clu[c].ref - 1 /\ clu'[c].alive = clu[c].alive
          /\ clu'[c].index = clu[c].index /\ ReadKept(c) /\ BytesKept(c)
      BY <1>1, <2>2 DEF Cluster, ReadKept, BytesKept
    <2>6. pc' = [pc EXCEPT ![p] = next] \/ pc' = [pc EXCEPT ![p] = "refbug"]
      BY Zenon DEF Drop, GoTo
    <2> QED
      BY <2>3, <2>4, <2>5, <2>6
  <1>5. \/ clu[c].ref = 1 /\ clu' = [clu EXCEPT ![c] = Freed]
        \/ clu' = [clu EXCEPT ![c].ref = clu[c].ref - 1]
    BY <1>1 DEF Drop
  <1> QED
    BY <1>3, <1>4, <1>5

\* The lookup takes no reference; what it finds is in the tree and private to
\* nobody.
LEMMA LookupMove ==
  ASSUME CInv, NEW t \in Threads, Lookup(t)
  PROVE  Types' /\ Move(t)
PROOF
  <1>0. /\ Types /\ t \in Proc /\ Threads \subseteq Proc /\ Worker \in Proc /\ Worker \notin Threads
        /\ ThreadOK(t) /\ idx[t] \in Index /\ None \notin Clusters /\ PrivateOK /\ CountOK
        /\ \A u \in Threads : pc[u] = "insert" => cl[u] \in Clusters
    BY Zenon, AtHand DEF CInv, Proc, Lookup
  <1>1. /\ pc' = [pc EXCEPT ![t] = IF tree[idx[t]] = None THEN "alloc" ELSE "ref"]
        /\ cl' = [cl EXCEPT ![t] = tree[idx[t]]] /\ tree[idx[t]] \in Clusters \cup {None}
        /\ UNCHANGED << clu, tree, nrClus, idx, nodes, todo, scan, drops, mode >>
        /\ pc[t] = "look"
    BY Zenon, <1>0 DEF Lookup, GoTo, work, Types
  <1>2. Types'
    BY Zenon, <1>0, <1>1 DEF Types, ThreadPCs, Lookup, hist
  <1>3. /\ \A q \in Proc \ {t} : pc'[q] = pc[q] /\ cl'[q] = cl[q]
        /\ cl'[t] = tree[idx[t]] /\ pc'[t] = IF tree[idx[t]] = None THEN "alloc" ELSE "ref"
    BY Zenon, <1>0, <1>1 DEF Types
  <1>4. ThreadOK(t)'
    BY <1>0, <1>1, <1>3 DEF ThreadOK, HoldPCs, ThreadPCs
  <1>5. ASSUME NEW c \in Clusters
        PROVE  ByThread(t, c) = 0 /\ ByThread(t, c)' = 0 /\ ByTree(c)' = ByTree(c)
    BY <1>1, <1>3 DEF ByThread, ByTree, B2N, HoldPCs
  <1>6. \A u \in Threads \ {t} : pc[u] = "insert" => CountKept(cl[u]) /\ cl'[t] # cl[u]
    BY <1>0, <1>1, <1>3 DEF PrivateOK, CountKept
  <1>7. nrClus' = Cardinality({ i \in Index : tree'[i] # None })
    BY Zenon, <1>0, <1>1 DEF CountOK
  <1>8. Move(t)
    BY <1>0, <1>1, <1>3, <1>4, <1>5, <1>6, <1>7 DEF Move, CountOK
  <1> QED
    BY Zenon, <1>2, <1>8

\* dio_clu_ref: one reference more, held by the thread.
LEMMA RefIncMove ==
  ASSUME CInv, NEW t \in Threads, RefInc(t)
  PROVE  Types' /\ Move(t)
PROOF
  <1>0. /\ Types /\ t \in Proc /\ Threads \subseteq Proc /\ Worker \in Proc /\ Worker \notin Threads
        /\ ThreadOK(t) /\ idx[t] \in Index /\ PrivateOK /\ CountOK /\ cl[t] \in Clusters
        /\ \A u \in Threads : pc[u] = "insert" => cl[u] \in Clusters
    BY Zenon, AtHand DEF CInv, Proc, RefInc
  <1>1. /\ Typed
        /\ \A d \in Clusters : /\ clu'[d].alive = clu[d].alive /\ clu'[d].index = clu[d].index
                               /\ clu'[d].ref = clu[d].ref + B2N(d = cl[t] /\ pc'[t] = "pin")
    BY Zenon, RefIncFields
  <1>2. /\ pc[t] = "inc" /\ pc'[t] \in {"pin", "refbug"}
        /\ (pc'[t] = "pin" => clu[cl[t]].alive)
        /\ pc' = [pc EXCEPT ![t] = "pin"] \/ pc' = [pc EXCEPT ![t] = "refbug"]
        /\ UNCHANGED << tree, nrClus, cl, idx, nodes, todo, scan, drops, mode >>
    BY Zenon, <1>0 DEF RefInc, GoTo, work, Types
  <1>3. Types'
    BY <1>0, <1>1, <1>2 DEF Types, Typed, ThreadPCs, RefInc, hist
  <1>4. \A q \in Proc \ {t} : pc'[q] = pc[q]
    BY Zenon, <1>0, <1>2 DEF Types
  <1>5. ThreadOK(t)'
    BY Zenon, <1>0, <1>2 DEF ThreadOK, HoldPCs, ThreadPCs
  <1>6. ASSUME NEW c \in Clusters
        PROVE  /\ ByThread(t, c) = 0 /\ ByThread(t, c)' = B2N(c = cl[t] /\ pc'[t] = "pin")
               /\ ByTree(c)' = ByTree(c) /\ ByTree(c) \in Nat /\ clu[c].ref \in Int
               /\ B2N(c = cl[t] /\ pc'[t] = "pin") \in Nat
    <2>1. clu[c].ref \in Int
      BY Zenon, AtHand
    <2> QED
      BY <1>2, <2>1 DEF ByThread, ByTree, B2N, HoldPCs
  <1>7. ASSUME NEW c \in Clusters
        PROVE  /\ clu'[c].ref - ByThread(t, c)' - ByTree(c)' = clu[c].ref - ByThread(t, c) - ByTree(c)
               /\ clu'[c].index = clu[c].index
    BY <1>1, <1>6
  <1>8. ASSUME NEW c \in Clusters, ~clu'[c].alive
        PROVE  clu'[c].ref = 0
    BY <1>0, <1>1, <1>2, <1>8 DEF CountOK, B2N
  <1>9. \A u \in Threads \ {t} : pc[u] = "insert" => CountKept(cl[u]) /\ cl'[t] # cl[u]
    BY <1>0, <1>1, <1>2, AtHand DEF PrivateOK, CountKept, B2N
  <1>10. nrClus' = Cardinality({ i \in Index : tree'[i] # None })
    BY <1>0, <1>2 DEF CountOK
  <1>11. Move(t)
    BY <1>0, <1>2, <1>4, <1>5, <1>7, <1>8, <1>9, <1>10 DEF Move
  <1> QED
    BY Zenon, <1>3, <1>11

\* The new cluster goes into the tree: two references of the tree, and that of
\* the thread.
LEMMA InsertNewFields ==
  ASSUME CInv, NEW t \in Threads, pc[t] = "insert", InsertNew(t)
  PROVE  /\ Typed
         /\ \A d \in Clusters : /\ clu'[d].alive = clu[d].alive /\ clu'[d].index = clu[d].index
                                /\ clu'[d].ref = IF d = cl[t] THEN clu[d].ref + 2 ELSE clu[d].ref
                                /\ ReadKept(d) /\ BytesKept(d)
PROOF
  <1>1. cl[t] \in Clusters /\ clu[cl[t]] \in Cluster /\ clu \in [Clusters -> Cluster]
    BY Zenon, AtHand
  <1>2. clu[cl[t]].pin + 1 \in Int
    BY <1>1 DEF Cluster
  <1>3. clu' = [clu EXCEPT ![cl[t]] = [clu[cl[t]] EXCEPT !.ref = clu[cl[t]].ref + 2,
                                                         !.pin = clu[cl[t]].pin + 1]]
    BY Zenon, <1>1 DEF InsertNew, Cluster
  <1> QED
    BY Zenon, <1>1, <1>2, <1>3, IncFields

\* The thread takes a reference on the cluster it found and frees its own.
LEMMA InsertFoundFields ==
  ASSUME CInv, NEW t \in Threads, pc[t] = "insert", InsertFound(t)
  PROVE  /\ Typed /\ tree[idx[t]] \in Clusters /\ tree[idx[t]] # cl[t]
         /\ clu'[cl[t]] = Freed
         /\ \A d \in Clusters \ {cl[t]} :
              /\ clu'[d].alive = clu[d].alive /\ clu'[d].index = clu[d].index
              /\ clu'[d].ref = IF d = tree[idx[t]] THEN clu[d].ref + 1 ELSE clu[d].ref
              /\ ReadKept(d) /\ BytesKept(d)
PROOF
  <1> DEFINE f == tree[idx[t]]
             r1 == [clu[f] EXCEPT !.ref = clu[f].ref + 1]
             new == [clu[f] EXCEPT !.ref = clu[f].ref + 1, !.pin = clu[f].pin + 1]
  <1>1. /\ cl[t] \in Clusters /\ clu \in [Clusters -> Cluster] /\ idx[t] \in Index
        /\ tree \in [Index -> Clusters \cup {None}]
    BY Zenon, AtHand DEF CInv, Types
  <1>2. f \in Clusters /\ f # cl[t] /\ clu[f] \in Cluster
    BY <1>1 DEF InsertFound, CInv, PrivateOK
  <1>3. r1 \in Cluster /\ clu[f].pin + 1 \in Int
    BY <1>2 DEF Cluster
  <1>4. new = [r1 EXCEPT !.pin = clu[f].pin + 1]
    BY Zenon, <1>2 DEF Cluster
  <1>5. new \in Cluster
    <2> HIDE DEF new, r1, f
    <2> QED BY Zenon, <1>3, <1>4 DEF Cluster
  <1>6. Freed \in Cluster
    BY Zenon, FreedType
  <1>7. /\ clu'[cl[t]] = Freed /\ clu'[f] = new /\ \A d \in Clusters \ {cl[t], f} : clu'[d] = clu[d]
        /\ clu' = [[clu EXCEPT ![f] = new] EXCEPT ![cl[t]] = Freed]
    <2> HIDE DEF Freed
    <2>1. clu' = [[clu EXCEPT ![f] = new] EXCEPT ![cl[t]] = Freed]
      BY <1>1, <1>2 DEF InsertFound, Cluster
    <2> HIDE DEF new, f
    <2> QED
      BY <1>1, <1>2, <2>1
  <1>8. Typed
    <2> HIDE DEF new, f, Freed
    <2> QED BY <1>1, <1>2, <1>5, <1>6, <1>7 DEF Typed
  <1>9. /\ new.alive = clu[f].alive /\ new.index = clu[f].index /\ new.ref = clu[f].ref + 1
        /\ ReadKept(f) /\ BytesKept(f)
    <2>1. /\ new.alive = clu[f].alive /\ new.index = clu[f].index /\ new.ref = clu[f].ref + 1
      BY Zenon, <1>2 DEF Cluster
    <2>2. ReadKept(f) /\ BytesKept(f)
      BY <1>2, <1>7 DEF Cluster, ReadKept, BytesKept
    <2> QED
      BY <2>1, <2>2
  <1> QED
    <2> HIDE DEF new, Freed
    <2> QED BY Zenon, <1>2, <1>7, <1>8, <1>9 DEF ReadKept, BytesKept

\* A step that starts no read, and takes or gives out no cluster that is being
\* read, keeps ReadOnce.
LEMMA ReadOnceKept ==
  ASSUME CInv, ReadOnce,
         \A c \in Clusters :
            \/ clu'[c].start = clu[c].start /\ clu'[c].read = clu[c].read
            \/ ~clu'[c].read /\ \A t \in Threads : pc[t] = "rio" => cl[t] # c,
         \A t \in Threads : pc'[t] = "rio" => pc[t] = "rio" /\ cl'[t] = cl[t]
  PROVE  ReadOnce'
PROOF
  <1>1. \A t \in Threads : pc[t] = "rio" => cl[t] \in Clusters
    BY Zenon, AtHand DEF HoldPCs
  <1>2. \A c \in Clusters : clu'[c].read => clu'[c].start
    BY Zenon DEF ReadOnce
  <1>3. ASSUME NEW t \in Threads, pc'[t] = "rio"
        PROVE  /\ clu'[cl'[t]].start /\ ~clu'[cl'[t]].read
               /\ \A u \in Threads \ {t} : pc'[u] = "rio" => cl'[u] # cl'[t]
    BY <1>1, <1>3 DEF ReadOnce
  <1> QED
    BY Zenon, <1>2, <1>3 DEF ReadOnce

=============================================================================
