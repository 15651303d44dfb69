----------------------------- MODULE BallocInv ------------------------------
(*************************************************************************)
(* The inductive invariant of the block allocator.                       *)
(*************************************************************************)
EXTENDS Balloc

-----------------------------------------------------------------------------
(* The inductive invariant behind the safety properties.                   *)

\* Where a thread can be looking at each point of its program.
WhereOK ==
  \A t \in Threads :
    /\ pc[t] \in {"idle", "get", "nospc", "long", "bit", "inc"} => op[t] = "alloc"
    /\ pc[t] \in {"mget", "mbit", "mdec"} => op[t] = "free"
    /\ pc[t] \in {"idle", "get"} => at[t][2] = 0 /\ at[t][3] = 0
    /\ pc[t] = "idle" => at[t][1] = 0
    /\ pc[t] = "nospc" => at[t][1] = BmBlocks
    /\ pc[t] = "long" => at[t][1] < BmBlocks /\ at[t][3] = 0
    /\ pc[t] = "bit" => at[t][1] < BmBlocks /\ at[t][2] < LongsPerBm
    /\ pc[t] \notin {"idle", "get", "nospc", "long", "bit"} =>
          at[t] \in Addr /\ BlockOf(at[t]) < NrBlocks

\* A thread between down_write and up_write is the lock's writer.
SyncerOK == \A t \in Threads : pc[t] \in {"io", "end"} => syncer[at[t][1]] = t

Holds(t) == Claims(t) \/ Frees(t)

\* A set bit in use has one holder: a caller, an allocation or a free.
HoldersOK ==
  /\ \A b \in owned : BmBit(b) \in bitmap
  /\ \A t \in Threads : Holds(t) =>
       /\ at[t] \in bitmap
       /\ BlockOf(at[t]) \notin owned
       /\ \A u \in Threads : Holds(u) /\ at[u] = at[t] => u = t

\* What an allocation knows of its bit's copy on the device: after set_dirty
\* the bit is there or the cluster is dirty; once a write has succeeded, the
\* bits set dirty before it are there; after a good sync it is there.
DurableOK ==
  /\ OwnedIsOnDisk
  /\ \A t \in Threads : Claims(t) =>
       /\ pc[t] \in {"sync", "lock"} => at[t] \in disk \/ dirty[at[t][1]]
       /\ pc[t] \in {"sync", "lock"} => \A u \in Threads :
            pc[u] = "end" /\ ~err[u] /\ at[u][1] = at[t][1] => at[t] \in disk
       /\ pc[t] \in {"end", "ret"} /\ ~err[t] => at[t] \in disk

\* Some thread has changed bit a and not yet marked its cluster dirty.
Pending(a) == \E t \in Threads : at[t] = a /\ pc[t] \in {"inc", "mdec", "dirty"}

\* A bit that differs in memory and on the device will be written: its
\* cluster is dirty, or a thread is about to make it so, also while a good
\* write is about to clear the flag.
WillBeWritten ==
  \A a \in Addr : (a \in bitmap) # (a \in disk) =>
    \/ Pending(a)
    \/ /\ dirty[a[1]]
       /\ \A t \in Threads : ~(pc[t] = "end" /\ ~err[t] /\ at[t][1] = a[1])

\* A search has passed no block that was free all along.
AvailAhead ==
  \A t \in Threads : \A b \in avail[t] :
    /\ BmBit(b) \notin bitmap
    /\ op[t] = "alloc"
    /\ pc[t] # "idle"
    /\ BlockOf(at[t]) <= b

\* The inductive invariant.
IInv ==
  /\ TypeOK
  /\ WhereOK
  /\ SyncerOK
  /\ HoldersOK
  /\ DurableOK
  /\ FreeFindsBitSet
  /\ WillBeWritten
  /\ UsedCountsBits
  /\ AvailAhead

\* A thread that takes no part in a step keeps its locals.
SameLocals(u) == pc'[u] = pc[u] /\ op'[u] = op[u] /\ at'[u] = at[u] /\ err'[u] = err[u]

=============================================================================
