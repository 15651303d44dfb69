-------------------------------- MODULE BTree -------------------------------
(***************************************************************************)
(* The btree of core/btree.c: nodes of up to 2T-1 keys, one block each,    *)
(* under one rw_lock.  The root stays in memory as long as the tree does;  *)
(* another node is in memory, and in the tree's cache of nodes, while      *)
(* somebody holds it.  The cache itself has no reference.                  *)
(*                                                                         *)
(* A node has 2T key slots (NKFS_BTREE_KEY_PAGES), of which diskKeys have  *)
(* a place of their own in struct nkfs_btree_node_disk; the others are     *)
(* written where the children are written afterwards.  The checksum is     *)
(* taken over the node in memory, so that a node with anything in such a   *)
(* slot, or with children, cannot be read back.  The struct as it is       *)
(* declared has 1024 of 1792 slots (T = 896); the loops that copy a node   *)
(* assume that it has all of them.                                         *)
(*                                                                         *)
(* A delete that has to rebalance calls __nkfs_btree_node_delete_child_-   *)
(* index, which shifts the array of pages instead of the children in them  *)
(* and so writes past its end, before the next write computes a checksum   *)
(* over those pages: here it ends in "oops", as does a failed NKFS_BUG_ON. *)
(***************************************************************************)
EXTENDS Integers, Sequences, FiniteSets, FiniteSetsExt, SequencesExt

CONSTANTS
  T,           \* NKFS_BTREE_T
  Layouts,     \* the numbers of key slots on disk that are looked at
  Keys,        \* positive integers
  Vals,
  Callers,
  MaxBlock,    \* blocks 1 .. MaxBlock, block 1 is the root
  Failures,    \* what may fail: "alloc" (memory or blocks), "read", "write"
  None

ASSUME GeometryAssumption ==
  /\ T \in Nat \ {0, 1}
  /\ Layouts \subseteq T .. 2 * T
  /\ Keys \subseteq Nat \ {0} /\ IsFiniteSet(Keys)
  /\ MaxBlock \in Nat \ {0}
ASSUME SetAssumption ==
  /\ Failures \subseteq {"alloc", "read", "write"}
  /\ None \notin Keys \cup Vals \cup Callers

Block == 1 .. MaxBlock
Root == 1

VARIABLES
  diskKeys, \* key slots with a place of their own on disk
  mem,      \* [Block -> node or None], the nodes in memory and in the cache
  ref,      \* [Block -> reference count of the node in memory]
  disk,     \* [Block -> node as it was written last]
  used,     \* the blocks in use
  mode,     \* "up", "erased", "lost" when the root is not readable, "oops"
  pc,       \* where each caller is
  req,      \* [Callers -> the call and its locals]
  lossy     \* history: a write was lost, or power in the middle of a change

vars == << diskKeys, mem, ref, disk, used, mode, pc, req, lossy >>

-----------------------------------------------------------------------------
(* Nodes.  A slot holds a key with its value, or nothing.                  *)

Slot == 0 .. 2 * T - 1
NoKv == << 0, None >>

\* What a slot beyond the last key holds is not read; it only matters whether
\* it is zero.
OldKv == << -1, None >>
OldChild == -1
Rest(kv, n) == [j \in Slot |-> IF j < n \/ kv[j] = NoKv THEN kv[j] ELSE OldKv]
RestCh(ch, n) == [j \in Slot |-> IF j <= n \/ ch[j] = 0 THEN ch[j] ELSE OldChild]

\* nkfs_btree_node_alloc with zeroed pages.
Zeroed == [ leaf |-> FALSE, nr |-> 0,
            kv |-> [i \in Slot |-> NoKv], ch |-> [i \in Slot |-> 0] ]

\* Mutant: one key more fits.
FullTooLate(n) == n.nr = 2 * T

Full(n) == n.nr = 2 * T - 1

\* nkfs_btree_node_put_kv and nkfs_btree_node_put_key_value: slot i is freed
\* by a shift to the right.
PutKv(n, i, x) ==
  [n EXCEPT !.kv = [j \in Slot |-> CASE j = i -> x
                                     [] i < j /\ j <= n.nr -> n.kv[j - 1]
                                     [] OTHER -> n.kv[j]]]

\* nkfs_btree_node_put_child_val.
PutChild(n, i, b) ==
  [n EXCEPT !.ch = [j \in Slot |-> CASE j = i -> b
                                     [] i < j /\ j <= n.nr + 1 -> n.ch[j - 1]
                                     [] OTHER -> n.ch[j]]]

\* nkfs_btree_node_copy: what lies beyond the keys of src stays as it was.
Copy(dst, src) ==
  [ leaf |-> src.leaf, nr |-> src.nr,
    kv |-> Rest([j \in Slot |-> IF j < src.nr THEN src.kv[j] ELSE dst.kv[j]], src.nr),
    ch |-> RestCh([j \in Slot |-> IF j <= src.nr THEN src.ch[j] ELSE dst.ch[j]], src.nr) ]

\* nkfs_btree_node_split_child: its three nodes afterwards.
SplitNew(child) ==
  [ leaf |-> child.leaf, nr |-> T - 1,
    kv |-> [j \in Slot |-> IF j < T - 1 THEN child.kv[j + T] ELSE NoKv],
    ch |-> [j \in Slot |-> IF ~child.leaf /\ j < T THEN child.ch[j + T] ELSE 0] ]

\* Mutant: the key that moves to the parent stays in the child.
SplitOldKeeps(child) ==
  [ leaf |-> child.leaf, nr |-> T,
    kv |-> Rest(child.kv, T), ch |-> RestCh(child.ch, T) ]

SplitOld(child) ==
  [ leaf |-> child.leaf, nr |-> T - 1,
    kv |-> Rest(child.kv, T - 1), ch |-> RestCh(child.ch, T - 1) ]

SplitParent(n, i, child, new) ==
  [PutKv(PutChild(n, i + 1, new), i, child.kv[T - 1]) EXCEPT !.nr = @ + 1]

\* __nkfs_btree_node_delete_key_index, with the count.
DeleteAt(n, i) ==
  [n EXCEPT !.kv = [j \in Slot |-> CASE i <= j /\ j < n.nr - 1 -> n.kv[j + 1]
                                     [] j = n.nr - 1 -> NoKv
                                     [] OTHER -> n.kv[j]],
            !.nr = @ - 1]

\* The binary search of nkfs_btree_node_has_key and _find_key_index between
\* start and end: << the slot of k or -1, end >>.
Search(n, k) ==
  LET f[s \in 0 .. 2 * T, e \in 0 .. 2 * T] ==
        LET mid == (s + e) \div 2
        IN  CASE s >= e -> << -1, e >>
              [] s < e /\ k = n.kv[mid][1] -> << mid, mid >>
              [] s < e /\ k < n.kv[mid][1] -> f[s, mid]
              [] OTHER -> f[mid + 1, e]
  IN  f[0, n.nr]

\* nkfs_btree_node_has_key.
HasKey(n, k) ==
  IF n.nr = 0 \/ k > n.kv[n.nr - 1][1] \/ k < n.kv[0][1] THEN -1
  ELSE Search(n, k)[1]

\* nkfs_btree_node_find_key_index.
FindKeyIndex(n, k) ==
  CASE n.nr = 0 -> 0
    [] n.nr > 0 /\ k > n.kv[n.nr - 1][1] -> n.nr
    [] n.nr > 0 /\ k < n.kv[0][1] -> 0
    [] OTHER -> Search(n, k)[2]

\* nkfs_btree_node_read's checksum: what to_ondisk wrote is what calc_sum saw.
Readable(n) ==
  \/ diskKeys = 2 * T
  \/ /\ \A j \in Slot : j >= diskKeys => n.kv[j] = NoKv
     /\ \A j \in Slot : n.ch[j] = 0

-----------------------------------------------------------------------------

Idle == [ op |-> None, key |-> None, val |-> None, cur |-> 0, at |-> Root, to |-> 0,
          wq |-> << >>, frag |-> FALSE, torn |-> FALSE, then |-> None, res |-> None ]

EmptyLeaf == [Zeroed EXCEPT !.leaf = TRUE]

\* nkfs_btree_create of a new tree.
Init ==
  /\ diskKeys \in Layouts
  /\ mem = [b \in Block |-> IF b = Root THEN EmptyLeaf ELSE None]
  /\ ref = [b \in Block |-> IF b = Root THEN 1 ELSE 0]
  /\ disk = [b \in Block |-> IF b = Root THEN EmptyLeaf ELSE Zeroed]
  /\ used = {Root}
  /\ mode = "up"
  /\ pc = [c \in Callers |-> "idle"]
  /\ req = [c \in Callers |-> Idle]
  /\ lossy = FALSE

GoTo(c, l) == pc' = [pc EXCEPT ![c] = l]
AtPc(c, l) == mode = "up" /\ pc[c] = l

\* NKFS_BUG_ON or a fault in kernel mode.
Oops == mode' = "oops" /\ UNCHANGED << mem, ref, disk, used, pc, req, lossy >>

\* The call ends with r and lets go of every node but the root.
Finish(c, r) ==
  /\ req' = [req EXCEPT ![c].res = r]
  /\ GoTo(c, "return")

\* tree->rw_lock.
Readers == { c \in Callers : pc[c] # "idle" /\ req[c].op = "find" }
Writers == { c \in Callers : pc[c] # "idle" /\ req[c].op # "find" }

\* tree->releasing refuses calls on a tree that is being erased.
Start(c, op, k, v, l) ==
  /\ mode \in {"up", "erased"}
  /\ pc[c] = "idle"
  /\ Writers = {}
  /\ op # "find" => Readers = {}
  /\ req' = [req EXCEPT ![c] = [Idle EXCEPT !.op = op, !.key = k, !.val = v, !.cur = k]]
  /\ GoTo(c, IF mode = "up" THEN l ELSE "refuse")
  /\ UNCHANGED << mem, ref, disk, used, mode, lossy >>

Refuse(c) ==
  /\ mode = "erased"
  /\ pc[c] = "refuse"
  /\ Finish(c, "error")
  /\ UNCHANGED << mem, ref, disk, used, mode, lossy >>

Return(c) ==
  /\ mode \in {"up", "erased"}
  /\ pc[c] = "return"
  /\ GoTo(c, "idle")
  /\ req' = [req EXCEPT ![c] = Idle]
  /\ UNCHANGED << mem, ref, disk, used, mode, lossy >>

\* The node that a caller is at.
At(c) == mem[req[c].at]

\* The writer holds the nodes bs, whose contents are m, besides the root: no
\* other node is in memory while somebody writes.
Hold(m, bs) ==
  /\ mem' = [b \in Block |-> IF b \in bs \cup {Root} THEN m[b] ELSE None]
  /\ ref' = [b \in Block |-> IF b \in bs \cup {Root} THEN 1 ELSE 0]

\* nkfs_btree_node_read of block b by a writer returns NULL: the block cannot be
\* read, or its checksum is wrong.
ReadFails(b) == "read" \in Failures \/ ~Readable(disk[b])

\* nkfs_btree_node_read asserts that the block is on the device.
BadBlock(b) == b \notin Block

-----------------------------------------------------------------------------
(* nkfs_btree_node_write, from the queue of a caller's writes.  Nobody     *)
(* looks at its error.                                                     *)

Write(c) ==
  LET q == req[c].wq
      last == Len(q) = 1
  IN  /\ AtPc(c, "write")
      /\ \/ disk' = [disk EXCEPT ![Head(q)] = mem[Head(q)]] /\ UNCHANGED lossy
         \/ "write" \in Failures /\ lossy' = TRUE /\ UNCHANGED disk
      /\ req' = [req EXCEPT ![c].wq = Tail(q),
                            ![c].torn = req[c].frag /\ (~last \/ req[c].then = "delete")]
      /\ \/ /\ last
            /\ Hold(mem, IF req[c].then = "return" THEN {} ELSE {req[c].at})
            /\ GoTo(c, req[c].then)
         \/ ~last /\ UNCHANGED << mem, ref, pc >>
      /\ UNCHANGED << used, mode >>

\* Caller c at node a has bs to write and goes on at l; its result is r, if it
\* has one already.
Queue(c, a, bs, frag, l, r) ==
  /\ req' = [req EXCEPT ![c].wq = bs, ![c].at = a, ![c].frag = frag, ![c].then = l,
                        ![c].res = r]
  /\ GoTo(c, "write")

-----------------------------------------------------------------------------
(* nkfs_btree_insert_key.                                                  *)

InsertStart(c, op, k, v) ==
  Start(c, op, k, v, IF Full(mem[Root]) THEN "rsplit" ELSE "insert")

\* The lowest n free blocks, as nkfs_balloc_block_alloc gives them.
Lowest(n) == { b \in Block \ used : Cardinality({ a \in Block \ used : a <= b }) <= n }

\* The nodes of a root's split as they are written.  Mutant: the root first.
RootFirst(b1, b2) == << Root, b1, b2 >>
RootSplitOrder(b1, b2) == << b1, b2, Root >>

\* The root keeps its block.  Its keys go to a clone, which is split as the
\* only child of a node that is then copied over the root.  Each new node was
\* written once, empty, when it was created.
RootSplit(c) ==
  /\ AtPc(c, "rsplit")
  /\ \/ LET new == Lowest(2)
            b1 == Min(new)
            b2 == Max(new)
            clone == Copy(Zeroed, mem[Root])
            top == SplitParent([Zeroed EXCEPT !.ch[0] = b1], 0, clone, b2)
        IN  /\ Cardinality(new) = 2
            /\ Hold([mem EXCEPT ![b1] = SplitOld(clone), ![b2] = SplitNew(clone),
                                ![Root] = Copy(@, top)], new)
            /\ used' = used \cup new
            /\ disk' = [b \in Block |-> IF b \in new THEN Zeroed ELSE disk[b]]
            /\ Queue(c, Root, RootSplitOrder(b1, b2), FALSE, "insert", None)
     \/ /\ "alloc" \in Failures \/ Cardinality(Lowest(2)) < 2
        /\ \E new \in { Lowest(n) : n \in 0 .. 1 } :
             disk' = [b \in Block |-> IF b \in new THEN Zeroed ELSE disk[b]]
        /\ Finish(c, "error")
        /\ UNCHANGED << mem, ref, used >>
  /\ UNCHANGED << mode, lossy >>

\* nkfs_btree_node_insert_nonfull at one node.
Insert(c) ==
  LET n == At(c)
      a == req[c].at
      k == req[c].key
      i == FindKeyIndex(n, k)
      h == HasKey(n, k)
      b == n.ch[i]
  IN  /\ AtPc(c, "insert")
      /\ \/ \* the key is there
            /\ h >= 0
            /\ \/ /\ req[c].op = "replace"
                  /\ Hold([mem EXCEPT ![a].kv[h] = << k, req[c].val >>], {a})
                  /\ Queue(c, a, << a >>, FALSE, "return", "ok")
               \/ /\ req[c].op = "insert"
                  /\ Hold(mem, {})
                  /\ Finish(c, "exists")
            /\ UNCHANGED << disk, used, mode, lossy >>
         \/ \* put it in the leaf
            /\ h < 0 /\ n.leaf
            /\ Hold([mem EXCEPT ![a] = [PutKv(n, i, << k, req[c].val >>) EXCEPT !.nr = @ + 1]], {a})
            /\ Queue(c, a, << a >>, FALSE, "return", "ok")
            /\ UNCHANGED << disk, used, mode, lossy >>
         \/ \* the child cannot be read
            /\ h < 0 /\ ~n.leaf /\ ~BadBlock(b) /\ ReadFails(b)
            /\ Hold(mem, {})
            /\ Finish(c, "error")
            /\ UNCHANGED << disk, used, mode, lossy >>
         \/ \* go down
            /\ h < 0 /\ ~n.leaf /\ ~BadBlock(b) /\ Readable(disk[b]) /\ ~Full(disk[b])
            /\ Hold([mem EXCEPT ![b] = disk[b]], {b})
            /\ req' = [req EXCEPT ![c].at = b]
            /\ UNCHANGED << pc, disk, used, mode, lossy >>
         \/ \* split the child and look again
            /\ h < 0 /\ ~n.leaf /\ ~BadBlock(b) /\ Readable(disk[b]) /\ Full(disk[b])
            /\ \/ \E new \in Lowest(1) :
                    /\ Hold([mem EXCEPT ![a] = SplitParent(n, i, disk[b], new),
                                        ![b] = SplitOld(disk[b]),
                                        ![new] = SplitNew(disk[b])], {a, b, new})
                    /\ used' = used \cup {new}
                    /\ disk' = [disk EXCEPT ![new] = Zeroed]
                    /\ Queue(c, a, << a, b, new >>, TRUE, "insert", None)
               \/ /\ "alloc" \in Failures \/ Lowest(1) = {}
                  /\ Hold(mem, {})
                  /\ Finish(c, "error")
                  /\ UNCHANGED << disk, used >>
            /\ UNCHANGED << mode, lossy >>
         \/ h < 0 /\ ~n.leaf /\ BadBlock(b) /\ Oops

-----------------------------------------------------------------------------
(* nkfs_btree_find_key.  Several callers may be in it at the same time.    *)

FindStart(c, k) == Start(c, "find", k, None, "find")

\* Mutant: the node passed on the way down is not let go of.
LeaveHeld(c, a, l) == GoTo(c, l) /\ UNCHANGED ref

\* Let go of node a and go on at l.
Leave(c, a, l) ==
  IF a = Root THEN GoTo(c, l) /\ UNCHANGED ref
  ELSE /\ ref' = [ref EXCEPT ![a] = @ - 1]
       /\ GoTo(c, IF ref[a] = 1 THEN "release" ELSE l)

\* nkfs_btree_node_find_key at one node.  The value is copied before the node
\* is let go of.
Find(c) ==
  LET n == At(c)
      a == req[c].at
      k == req[c].key
      i == FindKeyIndex(n, k)
      hit == i < n.nr /\ n.kv[i][1] = k
  IN  /\ AtPc(c, "find")
      /\ \/ /\ n.nr > 0 /\ ~hit /\ ~n.leaf
            /\ req' = [req EXCEPT ![c].to = n.ch[i]]
            /\ GoTo(c, "read")
            /\ UNCHANGED ref
         \/ /\ n.nr = 0 \/ hit \/ n.leaf
            /\ req' = [req EXCEPT ![c].res = IF n.nr > 0 /\ hit THEN n.kv[i][2] ELSE "noent",
                                  ![c].to = a, ![c].then = "return"]
            /\ Leave(c, a, "return")
      /\ UNCHANGED << mem, disk, used, mode, lossy >>

\* nkfs_btree_node_read: lookup and reference under nodes_lock, or reading and
\* insertion.  The reference of a cached node is asserted, and so is that find
\* gets its node.
Read(c) ==
  LET b == req[c].to
  IN  /\ AtPc(c, "read")
      /\ \/ BadBlock(b) /\ Oops
         \/ ~BadBlock(b) /\ mem[b] # None /\ ref[b] = 0 /\ Oops
         \/ ~BadBlock(b) /\ mem[b] = None /\ ReadFails(b) /\ Oops
         \/ /\ ~BadBlock(b)
            /\ \/ mem[b] # None /\ ref[b] > 0 /\ UNCHANGED mem
               \/ mem[b] = None /\ Readable(disk[b]) /\ mem' = [mem EXCEPT ![b] = disk[b]]
            /\ ref' = [ref EXCEPT ![b] = @ + 1]
            /\ GoTo(c, "leave")
            /\ UNCHANGED << disk, used, mode, req, lossy >>

\* The previous node is let go of.
FindLeave(c) ==
  LET a == req[c].at
  IN  /\ AtPc(c, "leave")
      /\ req' = [req EXCEPT ![c].at = req[c].to, ![c].to = a, ![c].then = "find"]
      /\ Leave(c, a, "find")
      /\ UNCHANGED << mem, disk, used, mode, lossy >>

\* __nkfs_btree_node_release, after the count has become 0.
Release(c) ==
  /\ AtPc(c, "release")
  /\ mem' = [mem EXCEPT ![req[c].to] = None]
  /\ GoTo(c, req[c].then)
  /\ UNCHANGED << ref, disk, used, mode, req, lossy >>

-----------------------------------------------------------------------------
(* nkfs_btree_delete_key.                                                  *)

DeleteStart(c, k) == Start(c, "delete", k, None, "delete")

\* nkfs_btree_node_child_balance has nothing to do: the child is readable and
\* has T keys.  Otherwise it ends in a fault.
Balanced(b) == ~BadBlock(b) /\ Readable(disk[b]) /\ disk[b].nr >= T
Unbalanced(b) == BadBlock(b) \/ ReadFails(b) \/ disk[b].nr < T

\* nkfs_btree_node_delete_key at one node.  Both neighbours of a key in an inner
\* node must be readable; one that has T keys gives a key for it, and with
\* neither the two are merged.
Delete(c) ==
  LET n == At(c)
      a == req[c].at
      k == req[c].cur
      h == HasKey(n, k)
      i == FindKeyIndex(n, k)
      pre == n.ch[h]
      suc == n.ch[h + 1]
      bad == BadBlock(pre) \/ BadBlock(suc)
  IN  /\ AtPc(c, "delete")
      /\ \/ /\ h >= 0 /\ n.leaf
            /\ Hold([mem EXCEPT ![a] = DeleteAt(n, h)], {a})
            /\ Queue(c, a, << a >>, req[c].frag, "return", "ok")
            /\ UNCHANGED << disk, used, mode, lossy >>
         \/ /\ h >= 0 /\ ~n.leaf
            /\ ~bad /\ Readable(disk[pre]) /\ Readable(disk[suc])
            /\ disk[pre].nr >= T \/ disk[suc].nr >= T
            /\ req' = [req EXCEPT ![c].to = IF disk[pre].nr >= T THEN pre ELSE suc]
            /\ GoTo(c, IF disk[pre].nr >= T THEN "pre" ELSE "suc")
            /\ UNCHANGED << mem, ref, disk, used, mode, lossy >>
         \/ /\ h >= 0 /\ ~n.leaf
            /\ bad \/ ReadFails(pre) \/ ReadFails(suc)
                \/ (disk[pre].nr < T /\ disk[suc].nr < T)
            /\ Oops
         \/ /\ h < 0 /\ n.leaf
            /\ Hold(mem, {})
            /\ Finish(c, "noent")
            /\ UNCHANGED << disk, used, mode, lossy >>
         \/ /\ h < 0 /\ ~n.leaf /\ Balanced(n.ch[i])
            /\ Hold([mem EXCEPT ![n.ch[i]] = disk[n.ch[i]]], {n.ch[i]})
            /\ req' = [req EXCEPT ![c].at = n.ch[i]]
            /\ UNCHANGED << pc, disk, used, mode, lossy >>
         \/ h < 0 /\ ~n.leaf /\ Unbalanced(n.ch[i]) /\ Oops

\* nkfs_btree_node_find_left_most and _right_most, one level at a time; then
\* the key found replaces the one to delete, and is deleted in its leaf.
Neighbour(c) ==
  LET b == req[c].to
      m == disk[b]
      next == m.ch[IF pc[c] = "pre" THEN m.nr ELSE 0]
      x == m.kv[IF pc[c] = "pre" THEN m.nr - 1 ELSE 0]
      a == req[c].at
  IN  /\ mode = "up"
      /\ pc[c] \in {"pre", "suc"}
      /\ \/ /\ m.leaf
            /\ Hold([mem EXCEPT ![a].kv[HasKey(At(c), req[c].cur)] = x, ![b] = m], {a, b})
            /\ req' = [req EXCEPT ![c].wq = << a >>, ![c].at = b, ![c].cur = x[1],
                                  ![c].frag = TRUE, ![c].then = "delete", ![c].res = "ok"]
            /\ GoTo(c, "write")
            /\ UNCHANGED << disk, used, mode, lossy >>
         \/ /\ ~m.leaf /\ Balanced(next)
            /\ req' = [req EXCEPT ![c].to = next]
            /\ UNCHANGED << mem, ref, pc, disk, used, mode, lossy >>
         \/ ~m.leaf /\ Unbalanced(next) /\ Oops

-----------------------------------------------------------------------------
(* nkfs_btree_erase, and the life of the tree.                             *)

\* Nobody erases a tree twice.
EraseStart(c) == mode = "up" /\ Start(c, "erase", None, None, "erase")

\* Mutant: the last child is left out.
EraseOrderShort ==
  LET f[d \in 0 .. MaxBlock, b \in 0 .. MaxBlock] ==
        IF d = 0 \/ BadBlock(b) \/ (b # Root /\ ~Readable(disk[b])) THEN << 0 >>
        ELSE LET n == IF b = Root THEN mem[Root] ELSE disk[b]
             IN  IF n.nr = 0 \/ n.leaf THEN << b >>
                 ELSE FlattenSeq([i \in 1 .. n.nr |-> f[d - 1, n.ch[i - 1]]]) \o << b >>
  IN  f[MaxBlock, Root]

\* The order in which nkfs_btree_erase_node deletes the nodes, children first.
\* A 0 stands for a child that cannot be read, which is asserted.
EraseOrder ==
  LET f[d \in 0 .. MaxBlock, b \in 0 .. MaxBlock] ==
        IF d = 0 \/ BadBlock(b) \/ (b # Root /\ ~Readable(disk[b])) THEN << 0 >>
        ELSE LET n == IF b = Root THEN mem[Root] ELSE disk[b]
             IN  IF n.nr = 0 \/ n.leaf THEN << b >>
                 ELSE FlattenSeq([i \in 1 .. n.nr + 1 |-> f[d - 1, n.ch[i - 1]]]) \o << b >>
  IN  f[MaxBlock, Root]

\* tree->releasing is set first.
Erase(c) ==
  /\ AtPc(c, "erase")
  /\ req' = [req EXCEPT ![c].wq = EraseOrder, ![c].res = "ok"]
  /\ GoTo(c, "free")
  /\ mode' = "erased"
  /\ UNCHANGED << mem, ref, disk, used, lossy >>

\* nkfs_btree_node_delete; the block must be in use (balloc.c:89).
EraseNode(c) ==
  LET q == req[c].wq
      b == Head(q)
  IN  /\ mode = "erased"
      /\ pc[c] = "free"
      /\ \/ /\ b \in used
            /\ used' = used \ {b}
            /\ mem' = [mem EXCEPT ![b] = None]
            /\ ref' = [ref EXCEPT ![b] = 0]
            /\ req' = [req EXCEPT ![c].wq = Tail(q)]
            /\ GoTo(c, IF Len(q) = 1 THEN "return" ELSE "free")
            /\ UNCHANGED << disk, mode, lossy >>
         \/ (b \notin used \/ (b # Root /\ "read" \in Failures)) /\ Oops

\* nkfs_btree_create of an existing tree.
Load ==
  /\ mem' = [b \in Block |-> IF b = Root THEN disk[Root] ELSE None]
  /\ ref' = [b \in Block |-> IF b = Root THEN 1 ELSE 0]
  /\ mode' = CASE mode = "erased" -> "erased"
               [] mode = "up" /\ Readable(disk[Root]) -> "up"
               [] OTHER -> "lost"

\* The last nkfs_btree_deref, which asserts that only the root was cached, and
\* a later load.
Reopen ==
  /\ mode = "up"
  /\ \A c \in Callers : pc[c] = "idle"
  /\ \/ /\ \A b \in Block \ {Root} : mem[b] = None
        /\ Load
        /\ UNCHANGED << disk, used, pc, req, lossy >>
     \/ (\E b \in Block \ {Root} : mem[b] # None) /\ Oops

\* Power loss.
Crash ==
  /\ mode \in {"up", "erased"}
  /\ Load
  /\ pc' = [c \in Callers |-> "idle"]
  /\ req' = [c \in Callers |-> Idle]
  /\ lossy' = (lossy \/ \E c \in Callers : req[c].torn)
  /\ UNCHANGED << disk, used >>

-----------------------------------------------------------------------------

Call(c) ==
  \/ Write(c) \/ RootSplit(c) \/ Insert(c)
  \/ Find(c) \/ Read(c) \/ FindLeave(c) \/ Release(c)
  \/ Delete(c) \/ Neighbour(c) \/ Erase(c) \/ EraseNode(c)
  \/ Refuse(c) \/ Return(c)

Enter(c) ==
  \/ \E k \in Keys : \/ FindStart(c, k) \/ DeleteStart(c, k)
                     \/ \E v \in Vals, op \in {"insert", "replace"} : InsertStart(c, op, k, v)
  \/ EraseStart(c)

Next ==
  /\ \/ \E c \in Callers : Enter(c) \/ Call(c)
     \/ Reopen
     \/ Crash
  /\ UNCHANGED diskKeys

Spec == Init /\ [][Next]_vars

-----------------------------------------------------------------------------
(* What the tree promises.                                                 *)

\* The node of block b as the next reader will see it.
Node(b) == IF mem[b] # None THEN mem[b] ELSE disk[b]

\* The value that k has in the tree, going down between the keys of each node.
Value(k) ==
  LET f[d \in 0 .. MaxBlock, b \in 0 .. MaxBlock] ==
        LET n == Node(b)
            less == { j \in 0 .. n.nr - 1 : n.kv[j][1] < k }
            i == Cardinality(less)
        IN  CASE d = 0 \/ b = 0 -> None
              [] d > 0 /\ b > 0 /\ i < n.nr /\ n.kv[i][1] = k -> n.kv[i][2]
              [] OTHER -> IF n.leaf THEN None ELSE f[d - 1, n.ch[i]]
  IN  IF mode = "erased" \/ \E c \in Callers : pc[c] = "free" THEN None
      ELSE f[MaxBlock, Root]

Map == INSTANCE KeyMap WITH
         map <- [k \in Keys |-> Value(k)],
         call <- [c \in Callers |-> [ op |-> req[c].op, key |-> req[c].key,
                                      val |-> req[c].val ]],
         res <- [c \in Callers |-> req[c].res]

\* The tree is a map: a call takes effect at one moment, splits and restarts
\* change nothing that a caller can see, and what was acknowledged stays, unless
\* the device lost a write or power went in the middle of a child's split or of
\* a delete in an inner node (btree.c:841-1150, 1433-1571).
IsMap == Map!Spec

\* nkfs_btree_node_check of one node.
NodeCheck(b) ==
  LET n == Node(b)
  IN  /\ n.nr <= 2 * T - 1
      /\ b # Root => n.nr >= T - 1
      /\ \A i \in 1 .. n.nr - 1 : n.kv[i - 1][1] < n.kv[i][1]

\* The blocks of each level, from the root down.
Level ==
  LET f[d \in 0 .. MaxBlock] ==
        IF d = 0 THEN {Root}
        ELSE UNION { { Node(b).ch[i] : i \in 0 .. Node(b).nr } :
                     b \in { a \in f[d - 1] : ~Node(a).leaf } }
  IN  f
Nodes == UNION { Level[d] : d \in 0 .. MaxBlock }

\* nkfs_btree_enum_node and nkfs_btree_node_stats, which go everywhere.
KeysOf(b) == { Node(b).kv[i][1] : i \in 0 .. Node(b).nr - 1 }
Count == MapThenSumSet(LAMBDA b : Node(b).nr, Nodes)

Quiet == mode = "up" /\ Writers = {} /\ ~lossy

\* Between changes the tree is a btree: every node passes nkfs_btree_check, is a
\* block in use that has one parent, all leaves are equally deep, and the walk of
\* nkfs_btree_enum_tree meets exactly the keys that a search finds, once each
\* (btree.c:1593-1627, 1713-1773).
TreeSound ==
  Quiet =>
    /\ Nodes \subseteq used
    /\ \A b \in Nodes : NodeCheck(b)
    /\ \A d \in 0 .. MaxBlock : \A a, b \in Level[d] : Node(a).leaf = Node(b).leaf
    /\ 1 + MapThenSumSet(LAMBDA b : IF Node(b).leaf THEN 0 ELSE Node(b).nr + 1, Nodes)
         = Cardinality(Nodes)
    /\ UNION { KeysOf(b) : b \in Nodes } = { k \in Keys : Value(k) # None }
    /\ Count = Cardinality({ k \in Keys : Value(k) # None })

\* The finds that have a reference to node b.
Holds(b) ==
  { c \in Readers : \/ req[c].at = b /\ pc[c] \in {"find", "read", "leave"}
                    \/ req[c].to = b /\ pc[c] = "leave"
                    \/ req[c].at = b /\ pc[c] = "release" /\ req[c].then = "find" }

\* A node other than the root is in memory, and in the cache of nodes, exactly as
\* long as somebody holds it or is about to free it, with one reference for each,
\* so that nkfs_btree_release finds none (btree.c:156-173, 433-494, 1088-1121).
CacheExact ==
  mode = "up" =>
    \A b \in Block \ {Root} :
      /\ Writers = {} => ref[b] = Cardinality(Holds(b))
      /\ mem[b] # None =>
           ref[b] > 0 \/ \E c \in Readers : pc[c] = "release" /\ req[c].to = b
      /\ ref[b] > 0 => mem[b] # None

\* Blocks in use that no node is kept in.
Leaked ==
  used \ IF mode = "erased" THEN UNION { ToSet(req[c].wq) : c \in Callers } ELSE Nodes

\* Only a power loss leaks blocks: the nodes that a split under way had in memory
\* and those that an erase had not come to, unless the erase is going to stop at a
\* child that it cannot read (btree.c:563-595, 841-872, 1673-1711).
NoLeak ==
  [][ /\ ~lossy'
      /\ mode' # "oops" /\ ~\E c \in Callers : 0 \in ToSet(req'[c].wq)
      =>
        \A b \in Leaked' \ Leaked :
          Crash /\ (mem[b] # None \/ \E c \in Callers : b \in ToSet(req[c].wq)) ]_vars

\* The block that nkfs_btree_node_find_key goes to can be read:
\* NKFS_BUG_ON(!node) (btree.c:1117).
ReadAssertion ==
  \A c \in Callers : AtPc(c, "read") => Readable(disk[req[c].to])

\* The counters and block numbers of the tree stay within their limits: no node
\* in memory has more keys than slots for them (btree.c:737-740, 841-872).
TypeOK ==
  /\ mode \in {"up", "erased", "lost", "oops"}
  /\ used \subseteq Block
  /\ \A b \in Block : mem[b] # None => mem[b].nr \in 0 .. 2 * T - 1
  /\ \A c \in Callers : ToSet(req[c].wq) \subseteq 0 .. MaxBlock
=============================================================================
