--------------------------- MODULE BallocProofs -----------------------------
(*************************************************************************)
(* The safety properties of the block allocator, for any number of threads *)
(* and any geometry of the bitmap: the arithmetic of its addresses, the  *)
(* types, locks, holders and the copy of the bitmap on the device, the   *)
(* counter and the search, and the theorems.                             *)
(*************************************************************************)
EXTENDS BallocInv, TLAPS, FiniteSetTheorems

-----------------------------------------------------------------------------
(* The arithmetic of bitmap addresses.                                     *)

\* Division with remainder, the facts about \div and % the bitmap needs.
LEMMA DivMod ==
  ASSUME NEW k \in Nat, NEW d \in Nat \ {0}
  PROVE  /\ k \div d \in Nat
         /\ k % d \in 0 .. d - 1
         /\ k = (k \div d) * d + (k % d)
  BY Z3

\* A quotient and a remainder can be read back from the number they make.
LEMMA DivModUnique ==
  ASSUME NEW q \in Nat, NEW d \in Nat \ {0}, NEW r \in 0 .. d - 1
  PROVE  /\ (q * d + r) \div d = q
         /\ (q * d + r) % d = r
  BY Z3

\* A quotient is smaller than m when the number is smaller than m times d.
LEMMA DivLess ==
  ASSUME NEW k \in Nat, NEW d \in Nat \ {0}, NEW m \in Nat, k < m * d
  PROVE  k \div d < m
  BY Z3

\* The bitmap has room for every block.
LEMMA BmBlocksBound ==
  /\ BmBlocks \in Nat
  /\ NrBlocks <= (BmBlocks * LongsPerBm) * BitsPerLong
PROOF
  <1> DEFINE c == BitsPerLong * LongsPerBm
             n == NrBlocks + c - 1
  <1>1. c \in Nat \ {0}
    BY GeometryAssumption, Z3
  <1>2. n \in Nat
    BY <1>1, GeometryAssumption, Z3
  <1>3. /\ n \div c \in Nat
        /\ n % c \in 0 .. c - 1
        /\ n = (n \div c) * c + (n % c)
    BY Zenon, <1>1, <1>2, DivMod
  <1>4. BmBlocks = n \div c
    BY Zenon DEF BmBlocks
  <1> HIDE DEF n
  <1>5. NrBlocks <= BmBlocks * c
    <2>1. n = NrBlocks + c - 1
      BY Zenon DEF n
    <2> HIDE DEF c
    <2> QED BY <2>1, <1>1, <1>3, <1>4, GeometryAssumption, Z3
  <1>6. BmBlocks * c = (BmBlocks * LongsPerBm) * BitsPerLong
    BY <1>3, <1>4, GeometryAssumption, Z3
  <1> QED BY Zenon, <1>3, <1>4, <1>5, <1>6

\* nkfs_balloc_block_bm_bit finds a bit inside the bitmap for every number the
\* bitmap has room for, and the search's formula gives the number back.
LEMMA BmBitInBitmap ==
  ASSUME NEW b \in Nat, b < (BmBlocks * LongsPerBm) * BitsPerLong
  PROVE  BmBit(b) \in Addr /\ BlockOf(BmBit(b)) = b
PROOF
  <1> DEFINE ln == b \div BitsPerLong
  <1>2. /\ ln \in Nat
        /\ b % BitsPerLong \in 0 .. BitsPerLong - 1
        /\ b = ln * BitsPerLong + (b % BitsPerLong)
    BY Zenon, GeometryAssumption, DivMod
  <1>3. ln < BmBlocks * LongsPerBm
    <2>1. BmBlocks * LongsPerBm \in Nat
      BY BmBlocksBound, GeometryAssumption, Z3
    <2> QED BY Zenon, <2>1, DivLess, GeometryAssumption
  <1> HIDE DEF ln
  <1>4. /\ ln \div LongsPerBm \in Nat
        /\ ln % LongsPerBm \in 0 .. LongsPerBm - 1
        /\ ln = (ln \div LongsPerBm) * LongsPerBm + (ln % LongsPerBm)
    BY Zenon, <1>2, GeometryAssumption, DivMod
  <1>5. ln \div LongsPerBm < BmBlocks
    BY Zenon, <1>2, <1>3, BmBlocksBound, GeometryAssumption, DivLess
  <1>6. BmBit(b) = << ln \div LongsPerBm, ln % LongsPerBm, b % BitsPerLong >>
    BY Zenon DEF BmBit, ln
  <1>7. BmBit(b) \in Addr
    BY <1>2, <1>4, <1>5, <1>6, BmBlocksBound, GeometryAssumption DEF Addr, Bm
  <1>8. BlockOf(BmBit(b)) = b
    BY <1>2, <1>4, <1>6 DEF BlockOf
  <1> QED BY Zenon, <1>7, <1>8

\* In particular for every block.
LEMMA BmBitIsAddr ==
  ASSUME NEW b \in Block
  PROVE  BmBit(b) \in Addr /\ BlockOf(BmBit(b)) = b
PROOF
  <1>1. b \in Nat /\ b < (BmBlocks * LongsPerBm) * BitsPerLong
    <2>1. b \in Nat /\ b < NrBlocks
      BY GeometryAssumption DEF Block
    <2>2. (BmBlocks * LongsPerBm) * BitsPerLong \in Nat
      BY BmBlocksBound, GeometryAssumption, Z3
    <2> QED BY <2>1, <2>2, BmBlocksBound, GeometryAssumption
  <1> QED BY Zenon, <1>1, BmBitInBitmap

\* Every address is the address of the block the search computes for it.
LEMMA AddrIsBmBit ==
  ASSUME NEW a \in Addr
  PROVE  /\ BlockOf(a) \in Nat
         /\ BmBit(BlockOf(a)) = a
         /\ BlockOf(a) < (BmBlocks * LongsPerBm) * BitsPerLong
PROOF
  <1> DEFINE i == a[1]
             l == a[2]
             b == a[3]
             ln == i * LongsPerBm + l
  <1>1. /\ i \in Nat /\ l \in 0 .. LongsPerBm - 1 /\ b \in 0 .. BitsPerLong - 1
        /\ i < BmBlocks
        /\ a = << i, l, b >>
    BY BmBlocksBound, GeometryAssumption DEF Addr, Bm
  <1> HIDE DEF i, l, b
  <1>2. ln \in Nat
    BY <1>1, GeometryAssumption, Z3
  <1>3. ln \div LongsPerBm = i /\ ln % LongsPerBm = l
    BY Zenon, <1>1, GeometryAssumption, DivModUnique
  <1>4. BlockOf(a) = ln * BitsPerLong + b
    BY Zenon DEF BlockOf, i, l, b
  <1>4a. ln + 1 <= BmBlocks * LongsPerBm
    BY <1>1, BmBlocksBound, GeometryAssumption, Z3
  <1> HIDE DEF ln
  <1>5. BlockOf(a) \in Nat
    BY <1>1, <1>2, <1>4, GeometryAssumption, Z3
  <1>6. BlockOf(a) \div BitsPerLong = ln /\ BlockOf(a) % BitsPerLong = b
    <2>1. /\ (ln * BitsPerLong + b) \div BitsPerLong = ln
          /\ (ln * BitsPerLong + b) % BitsPerLong = b
      BY Zenon, <1>1, <1>2, GeometryAssumption, DivModUnique
    <2> QED BY Zenon, <1>4, <2>1
  <1>7. BmBit(BlockOf(a)) = << i, l, b >>
    BY Zenon, <1>3, <1>6 DEF BmBit
  <1>8. BlockOf(a) < (BmBlocks * LongsPerBm) * BitsPerLong
    <2>1. BmBlocks * LongsPerBm \in Nat
      BY BmBlocksBound, GeometryAssumption, Z3
    <2>2. (ln + 1) * BitsPerLong <= (BmBlocks * LongsPerBm) * BitsPerLong
      BY <1>2, <1>4a, <2>1, GeometryAssumption, Z3
    <2>3. (ln + 1) * BitsPerLong = ln * BitsPerLong + BitsPerLong
      BY <1>2, GeometryAssumption, Z3
    <2>4. ln * BitsPerLong \in Nat /\ (BmBlocks * LongsPerBm) * BitsPerLong \in Nat
      BY <1>2, <2>1, GeometryAssumption, Z3
    <2> QED BY <1>1, <1>4, <2>2, <2>3, <2>4, GeometryAssumption
  <1> QED BY Zenon, <1>1, <1>5, <1>7, <1>8

\* The bitmap is finite.
LEMMA AddrFinite == IsFiniteSet(Addr)
PROOF
  <1> DEFINE m == (BmBlocks * LongsPerBm) * BitsPerLong
             S == 0 .. m - 1
             f == [n \in S |-> BmBit(n)]
  <1>1. m \in Nat
    BY BmBlocksBound, GeometryAssumption, Z3
  <1>2. \A n \in S : n \in Nat /\ n < m
    <2> HIDE DEF m
    <2> QED BY <1>1
  <1>3. f \in [S -> Addr]
    BY Zenon, <1>2, BmBitInBitmap
  <1>4. ASSUME NEW a \in Addr PROVE BlockOf(a) \in S /\ f[BlockOf(a)] = a
    <2>1. BlockOf(a) \in Nat /\ BmBit(BlockOf(a)) = a /\ BlockOf(a) < m
      BY Zenon, AddrIsBmBit
    <2>2. BlockOf(a) \in S
      <3> HIDE DEF m
      <3> QED BY <1>1, <2>1
    <2> QED BY Zenon, <2>1, <2>2
  <1>5. f \in Surjection(S, Addr)
    BY Zenon, <1>3, <1>4 DEF Surjection
  <1>6. IsFiniteSet(S)
    <2> HIDE DEF m
    <2> QED BY <1>1, FS_Interval
  <1> QED BY Zenon, <1>5, <1>6, FS_Surjection

\* How the search's block number moves with its three loops.
LEMMA NextBlocks ==
  ASSUME NEW a, a[1] \in Nat, a[2] \in Nat, a[3] \in Nat
  PROVE  /\ BlockOf(a) \in Nat
         /\ BlockOf(<< a[1], a[2], a[3] + 1 >>) = BlockOf(a) + 1
         /\ a[3] = 0 => \A k \in Nat : BlockOf(<< a[1], a[2], k >>) = BlockOf(a) + k
         /\ a[3] = 0 => BlockOf(<< a[1], a[2] + 1, 0 >>) = BlockOf(a) + BitsPerLong
         /\ a[3] = BitsPerLong => BlockOf(<< a[1], a[2] + 1, 0 >>) = BlockOf(a)
         /\ a[2] = LongsPerBm /\ a[3] = 0 => BlockOf(<< a[1] + 1, 0, 0 >>) = BlockOf(a)
PROOF
  <1> DEFINE i == a[1]
             l == a[2]
             x == (i * LongsPerBm + l) * BitsPerLong
  <1>1. x \in Nat
    BY GeometryAssumption, Z3
  <1>2. (i * LongsPerBm + (l + 1)) * BitsPerLong = x + BitsPerLong
    BY GeometryAssumption, Z3
  <1>3. l = LongsPerBm => ((i + 1) * LongsPerBm + 0) * BitsPerLong = x
    BY GeometryAssumption, Z3
  <1>4. BlockOf(a) = x + a[3]
    BY Zenon DEF BlockOf
  <1>5. \A k \in Nat : BlockOf(<< i, l, k >>) = x + k
    BY Zenon DEF BlockOf
  <1>6. BlockOf(<< i, l + 1, 0 >>) = (i * LongsPerBm + (l + 1)) * BitsPerLong + 0
    BY Zenon DEF BlockOf
  <1>7. BlockOf(<< i + 1, 0, 0 >>) = ((i + 1) * LongsPerBm + 0) * BitsPerLong + 0
    BY Zenon DEF BlockOf
  <1>8. BlockOf(<< i, l + 1, 0 >>) = x + BitsPerLong
    <2> HIDE DEF x
    <2> QED BY <1>1, <1>2, <1>6, GeometryAssumption
  <1>9. l = LongsPerBm => BlockOf(<< i + 1, 0, 0 >>) = x
    <2> HIDE DEF x
    <2> QED BY SMTT(30), <1>1, <1>3, <1>7
  <1> HIDE DEF x
  <1> QED BY <1>1, <1>4, <1>5, <1>8, <1>9, GeometryAssumption

\* A block at or after one of cluster i, and not in cluster i, is in a later
\* cluster.
LEMMA ClusterOrder ==
  ASSUME NEW a \in Addr, NEW c \in Addr, a[1] # c[1], BlockOf(c) <= BlockOf(a)
  PROVE  BlockOf(<< c[1] + 1, 0, 0 >>) <= BlockOf(a)
PROOF
  <1> DEFINE i == c[1]
             j == a[1]
             m == j * LongsPerBm + a[2]
             n == i * LongsPerBm + c[2]
  <1>1. /\ i \in Nat /\ c[2] \in 0 .. LongsPerBm - 1 /\ c[3] \in 0 .. BitsPerLong - 1
        /\ j \in Nat /\ a[2] \in 0 .. LongsPerBm - 1 /\ a[3] \in 0 .. BitsPerLong - 1
    BY BmBlocksBound, GeometryAssumption DEF Addr, Bm
  <1>2. BlockOf(a) = m * BitsPerLong + a[3] /\ BlockOf(c) = n * BitsPerLong + c[3]
    BY Zenon DEF BlockOf
  <1>3. m \in Nat /\ n \in Nat
    BY <1>1, GeometryAssumption, Z3
  <1>4. n <= m
    <2>1. SUFFICES ASSUME m + 1 <= n PROVE FALSE
      BY <1>3
    <2> HIDE DEF m, n
    <2>2. (m + 1) * BitsPerLong <= n * BitsPerLong
      BY <1>3, <2>1, GeometryAssumption, Z3
    <2>3. (m + 1) * BitsPerLong = m * BitsPerLong + BitsPerLong
      BY <1>3, GeometryAssumption, Z3
    <2>4. m * BitsPerLong \in Nat /\ n * BitsPerLong \in Nat
      BY <1>3, GeometryAssumption, Z3
    <2> QED BY <1>1, <1>2, <2>2, <2>3, <2>4, GeometryAssumption
  <1>5. i + 1 <= j
    <2>1. SUFFICES ASSUME j + 1 <= i PROVE FALSE
      BY <1>1
    <2>2. (j + 1) * LongsPerBm <= i * LongsPerBm
      BY <1>1, <2>1, GeometryAssumption, Z3
    <2>3. (j + 1) * LongsPerBm = j * LongsPerBm + LongsPerBm
      BY <1>1, GeometryAssumption, Z3
    <2>4. j * LongsPerBm \in Nat /\ i * LongsPerBm \in Nat
      BY <1>1, GeometryAssumption, Z3
    <2> QED BY <1>1, <1>4, <2>2, <2>3, <2>4, GeometryAssumption
  <1>6. (i + 1) * LongsPerBm <= m
    <2>1. (i + 1) * LongsPerBm <= j * LongsPerBm
      BY <1>1, <1>5, GeometryAssumption, Z3
    <2>2. j * LongsPerBm \in Nat /\ (i + 1) * LongsPerBm \in Nat
      BY <1>1, GeometryAssumption, Z3
    <2> QED BY <1>1, <2>1, <2>2
  <1>7. BlockOf(<< i + 1, 0, 0 >>) = ((i + 1) * LongsPerBm + 0) * BitsPerLong + 0
    BY Zenon DEF BlockOf
  <1> DEFINE k == (i + 1) * LongsPerBm
  <1>8. k \in Nat /\ k <= m /\ BlockOf(<< i + 1, 0, 0 >>) = k * BitsPerLong
    BY <1>1, <1>6, <1>7, GeometryAssumption, Z3
  <1> HIDE DEF k, m
  <1>9. k * BitsPerLong <= m * BitsPerLong /\ k * BitsPerLong \in Nat /\ m * BitsPerLong \in Nat
    BY <1>3, <1>8, GeometryAssumption, Z3
  <1> QED BY <1>1, <1>2, <1>8, <1>9, GeometryAssumption

\* The bitmap nkfs_sb_format leaves has as many bits set as it has reserved
\* blocks.
LEMMA FormattedBits ==
  LET reserved == { BmBit(b) : b \in 0 .. Reserved - 1 }
  IN  reserved \subseteq Addr /\ Cardinality(reserved) = Reserved
PROOF
  <1> DEFINE S == 0 .. Reserved - 1
             T == { BmBit(b) : b \in S }
             f == [b \in S |-> BmBit(b)]
  <1>1. Reserved \in Nat /\ S \subseteq Block
    BY BmBlocksBound, GeometryAssumption DEF Reserved, Block
  <1>2. \A b \in S : BmBit(b) \in Addr /\ BlockOf(BmBit(b)) = b
    BY Zenon, <1>1, BmBitIsAddr
  <1>3. f \in Bijection(S, T)
    BY <1>2 DEF Bijection, Injection, Surjection, IsInjective
  <1>4. IsFiniteSet(S) /\ Cardinality(S) = Reserved
    BY <1>1, FS_Interval
  <1>5. Cardinality(T) = Cardinality(S)
    BY <1>3, <1>4, FS_Bijection DEF ExistsBijection
  <1> QED BY Zenon, <1>2, <1>4, <1>5

-----------------------------------------------------------------------------
(* Preservation of the inductive invariant, one lemma per conjunct.        *)

\* The three coordinates a thread looks at.
LEMMA AtType ==
  ASSUME TypeOK, NEW t \in Threads
  PROVE  /\ at[t][1] \in 0 .. BmBlocks
         /\ at[t][2] \in 0 .. LongsPerBm
         /\ at[t][3] \in 0 .. BitsPerLong
         /\ at[t] = << at[t][1], at[t][2], at[t][3] >>
  BY DEF TypeOK

\* The bit a search looks at is a bit of the bitmap.
LEMMA BitAddr ==
  ASSUME TypeOK, WhereOK, NEW t \in Threads, pc[t] = "bit"
  PROVE  /\ at[t][1] < BmBlocks /\ at[t][2] < LongsPerBm /\ op[t] = "alloc"
         /\ at[t][3] < BitsPerLong => at[t] \in Addr /\ BlockOf(at[t]) \in Nat
PROOF
  <1>1. at[t][1] < BmBlocks /\ at[t][2] < LongsPerBm /\ op[t] = "alloc"
    BY Zenon DEF WhereOK
  <1>2. ASSUME at[t][3] < BitsPerLong PROVE at[t] \in Addr
    <2>1. << at[t][1], at[t][2], at[t][3] >> \in Addr
      BY SMTT(30), <1>1, <1>2, AtType, BmBlocksBound, GeometryAssumption DEF Addr, Bm
    <2> QED BY Zenon, <2>1, AtType
  <1> QED BY Zenon, <1>1, <1>2, AddrIsBmBit

\* A thread past its search looks at the bit of a block.
LEMMA AtBlock ==
  ASSUME TypeOK, WhereOK, NEW t \in Threads,
         pc[t] \notin {"idle", "get", "nospc", "long", "bit"}
  PROVE  /\ at[t] \in Addr
         /\ at[t][1] \in Bm
         /\ BlockOf(at[t]) \in Block
         /\ BmBit(BlockOf(at[t])) = at[t]
PROOF
  <1>1. at[t] \in Addr /\ BlockOf(at[t]) < NrBlocks
    BY Zenon DEF WhereOK
  <1> QED BY <1>1, AddrIsBmBit, GeometryAssumption DEF Block, Addr

\* The locals of a call that is over.
LEMMA ReturnType ==
  ASSUME TypeOK, NEW t \in Threads, Return(t)
  PROVE  /\ pc' \in [Threads -> PCs]
         /\ op' \in [Threads -> {"alloc", "free"}]
         /\ at' \in [Threads -> (0 .. BmBlocks) \X (0 .. LongsPerBm) \X (0 .. BitsPerLong)]
         /\ err' \in [Threads -> BOOLEAN]
         /\ avail' \in [Threads -> SUBSET Block]
  BY BmBlocksBound, GeometryAssumption DEF TypeOK, Return, GoTo, PCs

\* Every action keeps the types: a search never steps more than one past the
\* end of a long, of a cluster or of the bitmap.
LEMMA TypeStep == IInv /\ [Next]_vars => TypeOK'
PROOF
  <1> SUFFICES ASSUME IInv, [Next]_vars PROVE TypeOK'
    BY Zenon
  <1> USE GeometryAssumption, BmBlocksBound
  <1>0. TypeOK /\ WhereOK
    BY Zenon DEF IInv
  <1>1. CASE UNCHANGED vars
    BY Zenon, <1>0, <1>1 DEF TypeOK, vars
  <1>2. ASSUME NEW t \in Threads, AllocStart(t) PROVE TypeOK'
    BY Zenon, <1>0, <1>2 DEF TypeOK, AllocStart, GoTo, core, PCs, FreeBlocks
  <1>3. ASSUME NEW t \in Threads, NEW block \in Block, FreeStart(t, block) PROVE TypeOK'
    <2>1. BmBit(block) \in Addr
      BY Zenon, <1>3, BmBitIsAddr
    <2>2. BmBit(block) \in (0 .. BmBlocks) \X (0 .. LongsPerBm) \X (0 .. BitsPerLong)
      BY <2>1 DEF Addr, Bm
    <2> QED BY Zenon, <1>0, <1>3, <2>2 DEF TypeOK, FreeStart, GoTo, core, PCs
  <1>4. ASSUME NEW t \in Threads, AllocGet(t) PROVE TypeOK'
    <2>1. CASE Return(t)
      BY <1>0, <1>4, <2>1, ReturnType DEF TypeOK, AllocGet, core
    <2>2. CASE ~Return(t)
      BY Zenon, <1>0, <1>4, <2>2 DEF TypeOK, AllocGet, GoTo, core, PCs
    <2> QED BY Zenon, <2>1, <2>2
  <1>5. ASSUME NEW t \in Threads, AllocNoSpace(t) PROVE TypeOK'
    BY SMTT(30), <1>0, <1>5, ReturnType DEF TypeOK, AllocNoSpace, core
  <1>6. ASSUME NEW t \in Threads, FindLong(t) PROVE TypeOK'
    <2>1. at[t][1] < BmBlocks
      BY Zenon, <1>0, <1>6 DEF WhereOK, FindLong, PastLongs, LongFull
    <2>2. << at[t][1] + 1, 0, 0 >> \in (0 .. BmBlocks) \X (0 .. LongsPerBm) \X (0 .. BitsPerLong)
      BY <1>0, <2>1, AtType
    <2>3. ~(at[t][2] >= LongsPerBm) => << at[t][1], at[t][2] + 1, 0 >>
              \in (0 .. BmBlocks) \X (0 .. LongsPerBm) \X (0 .. BitsPerLong)
      BY <1>0, AtType
    <2> QED BY SMTT(30), <1>0, <1>6, <2>2, <2>3 DEF TypeOK, FindLong, PastLongs, LongFull, NextBm, NextLong, GoTo, core, hist, PCs
  <1>7. ASSUME NEW t \in Threads, FindBit(t) PROVE TypeOK'
    <2>1. at[t][1] < BmBlocks /\ at[t][2] < LongsPerBm
      BY Zenon, <1>0, <1>7 DEF WhereOK, FindBit, BitFree
    <2>2. << at[t][1] + 1, 0, 0 >> \in (0 .. BmBlocks) \X (0 .. LongsPerBm) \X (0 .. BitsPerLong)
      BY <1>0, <2>1, AtType
    <2>3. << at[t][1], at[t][2] + 1, 0 >> \in (0 .. BmBlocks) \X (0 .. LongsPerBm) \X (0 .. BitsPerLong)
      BY <1>0, <2>1, AtType
    <2>4. at[t][3] < BitsPerLong =>
            /\ at[t] \in Addr
            /\ << at[t][1], at[t][2], at[t][3] + 1 >>
                  \in (0 .. BmBlocks) \X (0 .. LongsPerBm) \X (0 .. BitsPerLong)
      BY <1>0, <2>1, AtType DEF Addr, Bm
    <2>5. pc' \in [Threads -> PCs]
      BY <1>0, <1>7 DEF TypeOK, FindBit, BitFree, NextBm, NextLong, GoTo, PCs
    <2>6. at' \in [Threads -> (0 .. BmBlocks) \X (0 .. LongsPerBm) \X (0 .. BitsPerLong)]
      BY <1>0, <1>7, <2>2, <2>3, <2>4 DEF TypeOK, FindBit, BitFree, NextBm, NextLong
    <2>7. bitmap' \subseteq Addr /\ avail' \in [Threads -> SUBSET Block]
      BY <1>0, <1>7, <2>4 DEF TypeOK, FindBit, BitFree
    <2> QED BY <1>0, <1>7, <2>5, <2>6, <2>7 DEF TypeOK, FindBit, BitFree
  <1>8. ASSUME NEW t \in Threads, AllocInc(t) PROVE TypeOK'
    BY <1>0, <1>8 DEF TypeOK, AllocInc, GoTo, hist, PCs
  <1>9. ASSUME NEW t \in Threads, AllocReturn(t) PROVE TypeOK'
    <2>1. at[t] \in Addr /\ BlockOf(at[t]) < NrBlocks
      BY Zenon, <1>0, <1>9 DEF WhereOK, AllocReturn
    <2>2. BlockOf(at[t]) \in Block
      BY <2>1, AddrIsBmBit DEF Block
    <2>3. << at[t][1] + 1, 0, 0 >> \in (0 .. BmBlocks) \X (0 .. LongsPerBm) \X (0 .. BitsPerLong)
      BY <2>1 DEF Addr, Bm
    <2>4. CASE ~err[t]
      BY <1>0, <1>9, <2>2, <2>4, ReturnType DEF TypeOK, AllocReturn, core
    <2>5. CASE err[t]
      <3>1. avail' \in [Threads -> SUBSET Block]
        BY <1>0, <1>9, <2>5 DEF TypeOK, AllocReturn
      <3>2. at' \in [Threads -> (0 .. BmBlocks) \X (0 .. LongsPerBm) \X (0 .. BitsPerLong)]
        BY SMTT(30), <1>0, <1>9, <2>3, <2>5 DEF TypeOK, AllocReturn, NextBm
      <3>3. pc' \in [Threads -> PCs] /\ err' \in [Threads -> BOOLEAN]
        BY ZenonT(30), <1>0, <1>9, <2>5 DEF TypeOK, AllocReturn, NextBm, GoTo, PCs
      <3> QED BY <1>0, <1>9, <2>5, <3>1, <3>2, <3>3 DEF TypeOK, AllocReturn, core
    <2> QED BY <2>4, <2>5
  <1>10. ASSUME NEW t \in Threads, MarkGet(t) PROVE TypeOK'
    <2>1. CASE Return(t)
      BY Zenon, <1>0, <1>10, <2>1, ReturnType DEF TypeOK, MarkGet, core
    <2>2. CASE ~Return(t)
      BY Zenon, <1>0, <1>10, <2>2 DEF TypeOK, MarkGet, GoTo, core, PCs
    <2> QED BY Zenon, <2>1, <2>2
  <1>11. ASSUME NEW t \in Threads, MarkBit(t) PROVE TypeOK'
    BY ZenonT(30), <1>0, <1>11 DEF TypeOK, MarkBit, GoTo, hist, PCs
  <1>12. ASSUME NEW t \in Threads, MarkDec(t) PROVE TypeOK'
    BY <1>0, <1>12 DEF TypeOK, MarkDec, GoTo, hist, PCs
  <1>13. ASSUME NEW t \in Threads, MarkReturn(t) PROVE TypeOK'
    BY Zenon, <1>0, <1>13, ReturnType DEF TypeOK, MarkReturn, core
  <1>14. ASSUME NEW t \in Threads, SetDirty(t) PROVE TypeOK'
    BY Zenon, <1>0, <1>14 DEF TypeOK, SetDirty, GoTo, hist, PCs
  <1>15. ASSUME NEW t \in Threads, SyncTest(t) PROVE TypeOK'
    BY Zenon, <1>0, <1>15 DEF TypeOK, SyncTest, GoTo, core, hist, PCs
  <1>16. ASSUME NEW t \in Threads, SyncLock(t) PROVE TypeOK'
    <2>1. pc' \in [Threads -> PCs]
      BY <1>0, <1>16 DEF TypeOK, SyncLock, GoTo, PCs
    <2>2. syncer' \in [Bm -> Threads \cup {NoThread}] /\ err' \in [Threads -> BOOLEAN]
      BY ZenonT(30), <1>0, <1>16 DEF TypeOK, SyncLock
    <2> QED BY <1>0, <1>16, <2>1, <2>2 DEF TypeOK, SyncLock, hist
  <1>17. ASSUME NEW t \in Threads, SyncIo(t) PROVE TypeOK'
    <2>1. disk' \subseteq Addr
      BY SMTT(30), <1>0, <1>17 DEF TypeOK, SyncIo, Written, Unwritten, OfBm
    <2> QED BY ZenonT(30), <1>0, <1>17, <2>1 DEF TypeOK, SyncIo, GoTo, hist, PCs
  <1>18. ASSUME NEW t \in Threads, SyncEnd(t) PROVE TypeOK'
    BY ZenonT(30), <1>0, <1>18 DEF TypeOK, SyncEnd, GoTo, hist, PCs
  <1>19. ASSUME NEW image, NEW header, NEW kept, image \subseteq Addr, header \in Int,
                kept \subseteq Block, Load(image, header, kept), lost' \in Nat
         PROVE  TypeOK'
    <2>1. drift' \in Int
      <3>1. Cardinality(image) \in Nat
        BY SMTT(30), <1>19, AddrFinite, FS_Subset, FS_CardinalityType
      <3> QED BY SMTT(30), <1>19, <3>1 DEF Load
    <2> QED BY SMTT(30), <1>19, <2>1 DEF TypeOK, Load, PCs
  <1>20. CASE Crash
    <2>1. PICK kept \in SUBSET owned : Load(disk, hdrUsed, kept)
      BY SMTT(30), <1>20 DEF Crash
    <2> QED BY SMTT(30), <1>0, <1>19, <1>20, <2>1 DEF Crash, TypeOK
  <1>21. CASE Remount
    BY SMTT(30), <1>0, <1>19, <1>21 DEF Remount, TypeOK
  <1> QED
    BY ZenonT(30), <1>1, <1>2, <1>3, <1>4, <1>5, <1>6, <1>7, <1>8, <1>9, <1>10, <1>11, <1>12, <1>13,
       <1>14, <1>15, <1>16, <1>17, <1>18, <1>20, <1>21
    DEF Next, Start, Alloc, Mark, Sync

\* A thread's place in its program fits the address it looks at.
LEMMA WhereStep == IInv /\ [Next]_vars => WhereOK'
PROOF
  <1> SUFFICES ASSUME IInv, [Next]_vars PROVE WhereOK'
    BY Zenon
  <1> USE GeometryAssumption, BmBlocksBound
  <1>0. TypeOK /\ WhereOK
    BY Zenon DEF IInv
  <1>1. CASE UNCHANGED vars
    BY Zenon, <1>0, <1>1 DEF WhereOK, vars
  <1>2. ASSUME NEW t \in Threads, NEW block \in Block, FreeStart(t, block) PROVE WhereOK'
    <2>1. BmBit(block) \in Addr /\ BlockOf(BmBit(block)) = block
      BY Zenon, <1>2, BmBitIsAddr
    <2> QED BY <1>0, <1>2, <2>1 DEF TypeOK, WhereOK, FreeStart, GoTo, Block
  <1>3. ASSUME NEW t \in Threads, AllocStart(t) PROVE WhereOK'
    BY SMTT(30), <1>0, <1>3, AtType DEF TypeOK, WhereOK, AllocStart, core, GoTo
  <1>4. ASSUME NEW t \in Threads, AllocGet(t) PROVE WhereOK'
    <2>1. CASE Return(t)
      BY <1>0, <1>4, <2>1 DEF TypeOK, WhereOK, AllocGet, Return, GoTo
    <2>2. CASE ~Return(t)
      <3>1. at[t][1] \in 0 .. BmBlocks
        BY Zenon, <1>0, AtType
      <3> QED BY <1>0, <1>4, <2>2, <3>1 DEF TypeOK, WhereOK, AllocGet, GoTo
    <2> QED BY Zenon, <2>1, <2>2
  <1>5. ASSUME NEW t \in Threads, AllocNoSpace(t) PROVE WhereOK'
    BY SMTT(30), <1>0, <1>5, AtType DEF TypeOK, WhereOK, AllocNoSpace, GoTo, Return
  <1>6. ASSUME NEW t \in Threads, FindLong(t) PROVE WhereOK'
    BY <1>0, <1>6, AtType DEF TypeOK, WhereOK, FindLong, PastLongs, LongFull, GoTo, NextBm, NextLong
  <1>7. ASSUME NEW t \in Threads, FindBit(t) PROVE WhereOK'
    <2>1. at[t][1] < BmBlocks /\ at[t][2] < LongsPerBm /\ op[t] = "alloc"
      BY Zenon, <1>0, <1>7 DEF WhereOK, FindBit, BitFree
    <2>2. at[t][3] < BitsPerLong => at[t] \in Addr
      BY Zenon, <1>0, <1>7, BitAddr DEF FindBit, BitFree
    <2>3. CASE at[t][3] >= BitsPerLong
      <3>1. /\ pc' = [pc EXCEPT ![t] = "long"] /\ op' = op
            /\ at' = [at EXCEPT ![t] = << at[t][1], at[t][2] + 1, 0 >>]
        BY SMTT(30), <1>0, <1>7, <2>3, AtType DEF FindBit, BitFree, GoTo, NextLong
      <3> QED BY SMTT(30), <1>0, <2>1, <3>1 DEF TypeOK, WhereOK
    <2>4. CASE at[t][3] < BitsPerLong /\ BlockOf(at[t]) >= NrBlocks
      <3>1. /\ pc' = [pc EXCEPT ![t] = "get"] /\ op' = op
            /\ at' = [at EXCEPT ![t] = << at[t][1] + 1, 0, 0 >>]
        BY <1>0, <1>7, <2>2, <2>4, AtType, AddrIsBmBit DEF FindBit, BitFree, GoTo, NextBm
      <3> QED BY SMTT(30), <1>0, <2>1, <3>1 DEF TypeOK, WhereOK
    <2>5. CASE at[t][3] < BitsPerLong /\ BlockOf(at[t]) < NrBlocks /\ at[t] \in bitmap
      <3>1. pc' = pc /\ op' = op /\ pc[t] = "bit"
            /\ at' = [at EXCEPT ![t] = << at[t][1], at[t][2], at[t][3] + 1 >>]
        BY SMTT(30), <1>0, <1>7, <2>2, <2>5, AtType, AddrIsBmBit DEF FindBit, BitFree
      <3> QED BY Zenon, <1>0, <2>1, <3>1 DEF TypeOK, WhereOK
    <2>6. CASE at[t][3] < BitsPerLong /\ BlockOf(at[t]) < NrBlocks /\ at[t] \notin bitmap
      <3>1. pc' = [pc EXCEPT ![t] = "inc"] /\ op' = op /\ at' = at
        BY <1>0, <1>7, <2>2, <2>6, AtType, AddrIsBmBit DEF FindBit, BitFree, GoTo
      <3> QED BY SMTT(30), <1>0, <2>1, <2>2, <2>6, <3>1 DEF TypeOK, WhereOK
    <2>7. at[t][3] \in Int /\ (at[t][3] < BitsPerLong => BlockOf(at[t]) \in Int)
      BY SMTT(30), <1>0, <2>2, AtType, AddrIsBmBit
    <2> QED BY <2>3, <2>4, <2>5, <2>6, <2>7
  <1>8. ASSUME NEW t \in Threads, AllocInc(t) PROVE WhereOK'
    BY <1>0, <1>8, AtType DEF TypeOK, WhereOK, AllocInc, GoTo
  <1>9. ASSUME NEW t \in Threads, AllocReturn(t) PROVE WhereOK'
    <2>1. CASE err[t]
      BY SMTT(30), <1>0, <1>9, <2>1 DEF TypeOK, WhereOK, AllocReturn, GoTo, NextBm
    <2>2. CASE ~err[t]
      BY SMTT(30), <1>0, <1>9, <2>2 DEF TypeOK, WhereOK, AllocReturn, GoTo, Return
    <2> QED BY Zenon, <2>1, <2>2
  <1>10. ASSUME NEW t \in Threads, MarkGet(t) PROVE WhereOK'
    BY SMTT(30), <1>0, <1>10, AtType DEF TypeOK, WhereOK, MarkGet, GoTo, Return
  <1>11. ASSUME NEW t \in Threads, MarkBit(t) PROVE WhereOK'
    BY SMTT(30), <1>0, <1>11, AtType DEF TypeOK, WhereOK, MarkBit, GoTo
  <1>12. ASSUME NEW t \in Threads, MarkDec(t) PROVE WhereOK'
    BY SMTT(30), <1>0, <1>12, AtType DEF TypeOK, WhereOK, MarkDec, GoTo
  <1>13. ASSUME NEW t \in Threads, MarkReturn(t) PROVE WhereOK'
    BY SMTT(30), <1>0, <1>13, AtType DEF TypeOK, WhereOK, MarkReturn, GoTo, Return
  <1>14. ASSUME NEW t \in Threads, SetDirty(t) PROVE WhereOK'
    BY SMTT(30), <1>0, <1>14, AtType DEF TypeOK, WhereOK, SetDirty, GoTo
  <1>15. ASSUME NEW t \in Threads, SyncTest(t) PROVE WhereOK'
    BY SMTT(30), <1>0, <1>15, AtType DEF TypeOK, WhereOK, SyncTest, GoTo
  <1>16. ASSUME NEW t \in Threads, SyncLock(t) PROVE WhereOK'
    BY SMTT(30), <1>0, <1>16, AtType DEF TypeOK, WhereOK, SyncLock, GoTo
  <1>17. ASSUME NEW t \in Threads, SyncIo(t) PROVE WhereOK'
    BY SMTT(30), <1>0, <1>17, AtType DEF TypeOK, WhereOK, SyncIo, GoTo
  <1>18. ASSUME NEW t \in Threads, SyncEnd(t) PROVE WhereOK'
    BY <1>0, <1>18, AtType DEF TypeOK, WhereOK, SyncEnd, GoTo
  <1>19. ASSUME NEW image, NEW header, NEW kept, Load(image, header, kept) PROVE WhereOK'
    BY Zenon, <1>19 DEF WhereOK, Load
  <1> QED
    BY SMTT(30), <1>1, <1>2, <1>3, <1>4, <1>5, <1>6, <1>7, <1>8, <1>9, <1>10, <1>11, <1>12, <1>13, <1>14, <1>15, <1>16, <1>17, <1>18, <1>19
    DEF Next, Start, Alloc, Mark, Sync, Crash, Remount

-----------------------------------------------------------------------------
(* Locks, holders and the device.                                          *)

\* sync_rw_lock has one writer: nobody takes it or drops it for another.
LEMMA SyncerStep == IInv /\ [Next]_vars => SyncerOK'
PROOF
  <1> SUFFICES ASSUME IInv, [Next]_vars PROVE SyncerOK'
    BY Zenon
  <1>0. TypeOK /\ WhereOK /\ SyncerOK
    BY Zenon DEF IInv
  <1>1. CASE UNCHANGED vars
    BY Zenon, <1>0, <1>1 DEF TypeOK, SyncerOK, vars
  <1>2. ASSUME NEW t \in Threads, NEW block \in Block, FreeStart(t, block) PROVE SyncerOK'
    BY Zenon, <1>0, <1>2 DEF TypeOK, SyncerOK, FreeStart, GoTo, core
  <1>3. ASSUME NEW t \in Threads, AllocStart(t) PROVE SyncerOK'
    BY Zenon, <1>0, <1>3 DEF TypeOK, SyncerOK, AllocStart, core, GoTo
  <1>4. ASSUME NEW t \in Threads, AllocGet(t) PROVE SyncerOK'
    BY <1>0, <1>4 DEF TypeOK, SyncerOK, AllocGet, core, GoTo, Return
  <1>5. ASSUME NEW t \in Threads, AllocNoSpace(t) PROVE SyncerOK'
    BY Zenon, <1>0, <1>5 DEF TypeOK, SyncerOK, AllocNoSpace, core, GoTo, Return
  <1>6. ASSUME NEW t \in Threads, FindLong(t) PROVE SyncerOK'
    BY <1>0, <1>6 DEF TypeOK, SyncerOK, FindLong, PastLongs, LongFull, core, hist, GoTo, NextBm, NextLong
  <1>7. ASSUME NEW t \in Threads, FindBit(t) PROVE SyncerOK'
    BY <1>0, <1>7 DEF TypeOK, SyncerOK, FindBit, BitFree, GoTo, NextBm, NextLong
  <1>8. ASSUME NEW t \in Threads, AllocInc(t) PROVE SyncerOK'
    BY Zenon, <1>0, <1>8 DEF TypeOK, SyncerOK, AllocInc, hist, GoTo
  <1>9. ASSUME NEW t \in Threads, AllocReturn(t) PROVE SyncerOK'
    BY SMTT(30), <1>0, <1>9 DEF TypeOK, SyncerOK, AllocReturn, core, GoTo, Return, NextBm
  <1>10. ASSUME NEW t \in Threads, MarkGet(t) PROVE SyncerOK'
    BY ZenonT(30), <1>0, <1>10 DEF TypeOK, SyncerOK, MarkGet, core, GoTo, Return
  <1>11. ASSUME NEW t \in Threads, MarkBit(t) PROVE SyncerOK'
    BY ZenonT(30), <1>0, <1>11 DEF TypeOK, SyncerOK, MarkBit, hist, GoTo
  <1>12. ASSUME NEW t \in Threads, MarkDec(t) PROVE SyncerOK'
    BY Zenon, <1>0, <1>12 DEF TypeOK, SyncerOK, MarkDec, hist, GoTo
  <1>13. ASSUME NEW t \in Threads, MarkReturn(t) PROVE SyncerOK'
    BY Zenon, <1>0, <1>13 DEF TypeOK, SyncerOK, MarkReturn, core, GoTo, Return
  <1>14. ASSUME NEW t \in Threads, SetDirty(t) PROVE SyncerOK'
    BY Zenon, <1>0, <1>14 DEF TypeOK, SyncerOK, SetDirty, hist, GoTo
  <1>15. ASSUME NEW t \in Threads, SyncTest(t) PROVE SyncerOK'
    BY ZenonT(30), <1>0, <1>15 DEF TypeOK, SyncerOK, SyncTest, core, hist, GoTo
  <1>16. ASSUME NEW t \in Threads, SyncLock(t) PROVE SyncerOK'
    <2>1. at[t][1] \in Bm /\ at' = at
      BY Zenon, <1>0, <1>16, AtBlock DEF SyncLock
    <2>2. \A u \in Threads : pc[u] \in {"io", "end"} => at[u][1] # at[t][1]
      BY Zenon, <1>0, <1>16, ThreadAssumption DEF SyncerOK, SyncLock
    <2>3. CASE dirty[at[t][1]]
      <3>1. syncer' = [syncer EXCEPT ![at[t][1]] = t] /\ pc' = [pc EXCEPT ![t] = "io"]
        BY Zenon, <1>16, <2>3 DEF SyncLock, GoTo
      <3>2. \A u \in Threads : u # t => pc'[u] = pc[u]
        BY Zenon, <1>0, <3>1 DEF TypeOK
      <3>3. syncer'[at[t][1]] = t /\ \A i \in Bm : i # at[t][1] => syncer'[i] = syncer[i]
        BY Zenon, <1>0, <2>1, <3>1 DEF TypeOK
      <3>4. \A u \in Threads : pc[u] \in {"io", "end"} => at[u][1] \in Bm
        BY Zenon, <1>0, AtBlock
      <3> QED BY Zenon, <1>0, <2>1, <2>2, <3>2, <3>3, <3>4 DEF SyncerOK
    <2>4. CASE ~dirty[at[t][1]]
      BY Zenon, <1>0, <1>16, <2>1, <2>4 DEF TypeOK, SyncerOK, SyncLock, GoTo
    <2> QED BY Zenon, <2>3, <2>4
  <1>17. ASSUME NEW t \in Threads, SyncIo(t) PROVE SyncerOK'
    BY Zenon, <1>0, <1>17 DEF TypeOK, SyncerOK, SyncIo, hist, GoTo
  <1>18. ASSUME NEW t \in Threads, SyncEnd(t) PROVE SyncerOK'
    BY <1>0, <1>18 DEF TypeOK, SyncerOK, SyncEnd, hist, GoTo
  <1>19. CASE Crash
    BY Zenon, <1>0, <1>19 DEF TypeOK, SyncerOK, Crash, Load
  <1>20. CASE Remount
    BY SMTT(30), <1>0, <1>20 DEF TypeOK, SyncerOK, Remount, Load
  <1> QED
    BY Zenon, <1>1, <1>2, <1>3, <1>4, <1>5, <1>6, <1>7, <1>8, <1>9, <1>10, <1>11, <1>12, <1>13, <1>14, <1>15, <1>16, <1>17, <1>18, <1>19, <1>20
    DEF Next, Start, Alloc, Mark, Sync

\* A set bit in use has one holder, and every owned block has its bit set.
LEMMA HoldersStep == IInv /\ [Next]_vars => HoldersOK'
PROOF
  <1> SUFFICES ASSUME IInv, [Next]_vars PROVE HoldersOK'
    BY Zenon
  <1>0. TypeOK /\ WhereOK /\ HoldersOK /\ OwnedIsOnDisk
    BY Zenon DEF IInv, DurableOK
  <1>1. CASE UNCHANGED vars
    BY ZenonT(30), <1>0, <1>1 DEF TypeOK, WhereOK, HoldersOK, Holds, Claims, Frees, vars
  <1>2. ASSUME NEW t \in Threads, NEW block \in Block, FreeStart(t, block) PROVE HoldersOK'
    <2>1. BmBit(block) \in bitmap /\ BlockOf(BmBit(block)) = block
      BY Zenon, <1>0, <1>2, BmBitIsAddr DEF FreeStart, HoldersOK
    <2>2. \A u \in Threads : Holds(u) => at[u] # BmBit(block)
      BY Zenon, <1>0, <1>2, <2>1 DEF FreeStart, HoldersOK
    <2>3. \A u \in Threads : u # t => (Holds(u)' <=> Holds(u)) /\ at'[u] = at[u]
      BY Zenon, <1>0, <1>2 DEF TypeOK, Holds, Claims, Frees, FreeStart, GoTo
    <2>4. /\ at'[t] = BmBit(block)
          /\ bitmap' = bitmap
          /\ owned' = owned \ {block}
      BY Zenon, <1>0, <1>2 DEF TypeOK, FreeStart, core
    <2> QED BY Zenon, <1>0, <2>1, <2>2, <2>3, <2>4 DEF HoldersOK
  <1>3. ASSUME NEW t \in Threads, AllocStart(t) PROVE HoldersOK'
    BY <1>0, <1>3 DEF TypeOK, WhereOK, HoldersOK, Holds, Claims, Frees, AllocStart, core, GoTo
  <1>4. ASSUME NEW t \in Threads, AllocGet(t) PROVE HoldersOK'
    BY <1>0, <1>4 DEF TypeOK, WhereOK, HoldersOK, Holds, Claims, Frees, AllocGet, core, GoTo, Return
  <1>5. ASSUME NEW t \in Threads, AllocNoSpace(t) PROVE HoldersOK'
    BY <1>0, <1>5 DEF TypeOK, WhereOK, HoldersOK, Holds, Claims, Frees, AllocNoSpace, core, GoTo, Return
  <1>6. ASSUME NEW t \in Threads, FindLong(t) PROVE HoldersOK'
    BY <1>0, <1>6 DEF TypeOK, WhereOK, HoldersOK, Holds, Claims, Frees, FindLong, PastLongs, LongFull, core, hist, GoTo, NextBm, NextLong
  <1>7. ASSUME NEW t \in Threads, FindBit(t) PROVE HoldersOK'
    <2>1. \A u \in Threads : u # t => (Holds(u)' <=> Holds(u)) /\ at'[u] = at[u]
      BY <1>0, <1>7 DEF TypeOK, Holds, Claims, Frees, FindBit, BitFree, GoTo, NextBm, NextLong
    <2>2. CASE bitmap' = bitmap /\ ~Holds(t)'
      BY Zenon, <1>0, <1>7, <2>1, <2>2 DEF HoldersOK, FindBit, BitFree
    <2>3. CASE /\ at[t][3] < BitsPerLong /\ at[t] \notin bitmap /\ at'[t] = at[t]
               /\ bitmap' = bitmap \cup {at[t]}
      <3>1. BmBit(BlockOf(at[t])) = at[t]
        BY Zenon, <1>0, <1>7, <2>3, BitAddr, AddrIsBmBit DEF FindBit, BitFree
      <3>2. BlockOf(at[t]) \notin owned
        BY Zenon, <1>0, <2>3, <3>1 DEF HoldersOK
      <3>3. owned' = owned
        BY Zenon, <1>7 DEF FindBit, BitFree
      <3> QED BY Zenon, <1>0, <2>1, <2>3, <3>2, <3>3 DEF HoldersOK
    <2>4. \/ bitmap' = bitmap /\ ~Holds(t)'
          \/ /\ at[t][3] < BitsPerLong /\ at[t] \notin bitmap /\ at'[t] = at[t]
             /\ bitmap' = bitmap \cup {at[t]}
      BY Zenon, <1>0, <1>7 DEF TypeOK, Holds, Claims, Frees, FindBit, BitFree, GoTo, NextBm, NextLong
    <2> QED BY Zenon, <2>2, <2>3, <2>4
  <1>8. ASSUME NEW t \in Threads, AllocInc(t) PROVE HoldersOK'
    BY <1>0, <1>8 DEF TypeOK, WhereOK, HoldersOK, Holds, Claims, Frees, AllocInc, hist, GoTo
  <1>9. ASSUME NEW t \in Threads, AllocReturn(t) PROVE HoldersOK'
    <2>1. \A u \in Threads : u # t => (Holds(u)' <=> Holds(u)) /\ at'[u] = at[u]
      BY <1>0, <1>9 DEF TypeOK, Holds, Claims, Frees, AllocReturn, GoTo, Return, NextBm
    <2>2. /\ ~Holds(t)'
          /\ bitmap' = bitmap
          /\ owned' \subseteq owned \cup {BlockOf(at[t])}
      BY <1>0, <1>9 DEF TypeOK, Holds, Claims, Frees, AllocReturn, GoTo, Return, NextBm, core
    <2>3. Holds(t)
      BY Zenon, <1>9 DEF AllocReturn, Holds, Claims
    <2>4. BmBit(BlockOf(at[t])) = at[t]
      BY Zenon, <1>0, <1>9, AtBlock DEF AllocReturn
    <2>5. ASSUME NEW u \in Threads, Holds(u), u # t PROVE BlockOf(at[u]) # BlockOf(at[t])
      <3>1. BmBit(BlockOf(at[u])) = at[u]
        BY Zenon, <1>0, <2>5, AtBlock DEF Holds, Claims, Frees
      <3> QED BY Zenon, <1>0, <2>3, <2>4, <2>5, <3>1 DEF HoldersOK
    <2> QED BY Zenon, <1>0, <2>1, <2>2, <2>3, <2>4, <2>5 DEF HoldersOK
  <1>10. ASSUME NEW t \in Threads, MarkGet(t) PROVE HoldersOK'
    BY <1>0, <1>10 DEF TypeOK, WhereOK, HoldersOK, Holds, Claims, Frees, MarkGet, core, GoTo, Return
  <1>11. ASSUME NEW t \in Threads, MarkBit(t) PROVE HoldersOK'
    <2>1. \A u \in Threads : u # t => (Holds(u)' <=> Holds(u)) /\ at'[u] = at[u]
      BY Zenon, <1>0, <1>11 DEF TypeOK, Holds, Claims, Frees, MarkBit, GoTo
    <2>2. Holds(t) /\ at[t] \in bitmap
      BY Zenon, <1>0, <1>11 DEF MarkBit, Holds, Frees, HoldersOK
    <2>3. /\ ~Holds(t)'
          /\ bitmap' = bitmap \ {at[t]}
          /\ owned' = owned
      BY Zenon, <1>0, <1>11, <2>2 DEF TypeOK, WhereOK, Holds, Claims, Frees, MarkBit, GoTo, hist
    <2>4. \A b \in owned : BmBit(b) # at[t]
      BY <1>0, <2>2, BmBitIsAddr DEF HoldersOK, TypeOK
    <2> QED BY Zenon, <1>0, <2>1, <2>2, <2>3, <2>4 DEF HoldersOK
  <1>12. ASSUME NEW t \in Threads, MarkDec(t) PROVE HoldersOK'
    BY <1>0, <1>12 DEF TypeOK, WhereOK, HoldersOK, Holds, Claims, Frees, MarkDec, hist, GoTo
  <1>13. ASSUME NEW t \in Threads, MarkReturn(t) PROVE HoldersOK'
    BY <1>0, <1>13 DEF TypeOK, WhereOK, HoldersOK, Holds, Claims, Frees, MarkReturn, core, GoTo, Return
  <1>14. ASSUME NEW t \in Threads, SetDirty(t) PROVE HoldersOK'
    BY <1>0, <1>14 DEF TypeOK, WhereOK, HoldersOK, Holds, Claims, Frees, SetDirty, hist, GoTo
  <1>15. ASSUME NEW t \in Threads, SyncTest(t) PROVE HoldersOK'
    BY <1>0, <1>15 DEF TypeOK, WhereOK, HoldersOK, Holds, Claims, Frees, SyncTest, core, hist, GoTo
  <1>16. ASSUME NEW t \in Threads, SyncLock(t) PROVE HoldersOK'
    BY <1>0, <1>16 DEF TypeOK, WhereOK, HoldersOK, Holds, Claims, Frees, SyncLock, hist, GoTo
  <1>17. ASSUME NEW t \in Threads, SyncIo(t) PROVE HoldersOK'
    BY <1>0, <1>17 DEF TypeOK, WhereOK, HoldersOK, Holds, Claims, Frees, SyncIo, hist, GoTo
  <1>18. ASSUME NEW t \in Threads, SyncEnd(t) PROVE HoldersOK'
    BY <1>0, <1>18 DEF TypeOK, WhereOK, HoldersOK, Holds, Claims, Frees, SyncEnd, hist, GoTo
  <1>19. CASE Crash
    <2>1. \A u \in Threads : ~Holds(u)'
      BY Zenon, <1>19 DEF Crash, Load, Holds, Claims, Frees
    <2>2. bitmap' = disk /\ owned' \subseteq owned
      BY Zenon, <1>19 DEF Crash, Load
    <2> QED BY Zenon, <1>0, <2>1, <2>2 DEF HoldersOK, OwnedIsOnDisk
  <1>20. CASE Remount
    <2>1. \A u \in Threads : ~Holds(u)'
      BY Zenon, <1>20 DEF Remount, Load, Holds, Claims, Frees
    <2>2. /\ bitmap' = { a \in Addr : IF dirty[a[1]] THEN a \in bitmap ELSE a \in disk }
          /\ owned' = owned
      BY Zenon, <1>20 DEF Remount, Load
    <2>3. \A b \in owned : BmBit(b) \in Addr /\ BmBit(b) \in bitmap /\ BmBit(b) \in disk
      BY Zenon, <1>0, BmBitIsAddr DEF HoldersOK, OwnedIsOnDisk, TypeOK
    <2> QED BY Zenon, <2>1, <2>2, <2>3 DEF HoldersOK
  <1> QED
    BY Zenon, <1>1, <1>2, <1>3, <1>4, <1>5, <1>6, <1>7, <1>8, <1>9, <1>10, <1>11, <1>12, <1>13, <1>14, <1>15, <1>16, <1>17, <1>18, <1>19, <1>20
    DEF Next, Start, Alloc, Mark, Sync

\* Steps that neither touch the device or the flags nor hand out a block keep
\* DurableOK.
LEMMA DurableFrame ==
  ASSUME DurableOK, NEW t \in Threads,
         \A u \in Threads : u # t => SameLocals(u),
         pc'[t] \notin {"sync", "lock", "end", "ret"},
         disk' = disk, dirty' = dirty, owned' \subseteq owned
  PROVE  DurableOK'
  BY SMTT(30) DEF DurableOK, OwnedIsOnDisk, Claims, SameLocals

\* What has been handed out is on the device, and what is being handed out
\* will be.
LEMMA DurableStep == IInv /\ [Next]_vars => DurableOK'
PROOF
  <1> SUFFICES ASSUME IInv, [Next]_vars PROVE DurableOK'
    BY Zenon
  <1>0. TypeOK /\ WhereOK /\ SyncerOK /\ HoldersOK /\ DurableOK
    BY Zenon DEF IInv
  <1>1. CASE UNCHANGED vars
    BY <1>0, <1>1 DEF TypeOK, WhereOK, DurableOK, OwnedIsOnDisk, Claims, vars
  <1>2. ASSUME NEW t \in Threads, NEW block \in Block, FreeStart(t, block) PROVE DurableOK'
    BY Zenon, <1>0, <1>2, DurableFrame DEF TypeOK, SameLocals, FreeStart, core, GoTo
  <1>3. ASSUME NEW t \in Threads, AllocStart(t) PROVE DurableOK'
    BY Zenon, <1>0, <1>3, DurableFrame DEF TypeOK, SameLocals, AllocStart, core, GoTo
  <1>4. ASSUME NEW t \in Threads, AllocGet(t) PROVE DurableOK'
    BY <1>0, <1>4, DurableFrame DEF TypeOK, SameLocals, AllocGet, core, GoTo, Return
  <1>5. ASSUME NEW t \in Threads, AllocNoSpace(t) PROVE DurableOK'
    BY Zenon, <1>0, <1>5, DurableFrame DEF TypeOK, SameLocals, AllocNoSpace, core, GoTo, Return
  <1>6. ASSUME NEW t \in Threads, FindLong(t) PROVE DurableOK'
    BY <1>0, <1>6, DurableFrame DEF TypeOK, SameLocals, FindLong, PastLongs, LongFull, core, hist, GoTo, NextBm, NextLong
  <1>7. ASSUME NEW t \in Threads, FindBit(t) PROVE DurableOK'
    BY <1>0, <1>7, DurableFrame DEF TypeOK, SameLocals, FindBit, BitFree, GoTo, NextBm, NextLong
  <1>8. ASSUME NEW t \in Threads, AllocInc(t) PROVE DurableOK'
    BY Zenon, <1>0, <1>8, DurableFrame DEF TypeOK, SameLocals, AllocInc, hist, GoTo
  <1>9. ASSUME NEW t \in Threads, AllocReturn(t) PROVE DurableOK'
    <2>1. Claims(t) /\ \A u \in Threads : u # t => SameLocals(u)
      BY <1>0, <1>9 DEF TypeOK, Claims, SameLocals, AllocReturn, GoTo, Return, NextBm
    <2>2. /\ disk' = disk /\ dirty' = dirty
          /\ pc'[t] \in {"idle", "get"}
          /\ owned' = owned \/ (~err[t] /\ owned' = owned \cup {BlockOf(at[t])})
      BY Zenon, <1>0, <1>9 DEF TypeOK, AllocReturn, GoTo, Return, NextBm, core
    <2>3. BmBit(BlockOf(at[t])) = at[t]
      BY Zenon, <1>0, <1>9, AtBlock DEF AllocReturn
    <2>4. OwnedIsOnDisk'
      BY Zenon, <1>0, <1>9, <2>1, <2>2, <2>3 DEF DurableOK, OwnedIsOnDisk, AllocReturn
    <2> QED BY <1>0, <2>1, <2>2, <2>4 DEF DurableOK, Claims, SameLocals
  <1>10. ASSUME NEW t \in Threads, MarkGet(t) PROVE DurableOK'
    BY <1>0, <1>10, DurableFrame DEF TypeOK, SameLocals, MarkGet, core, GoTo, Return
  <1>11. ASSUME NEW t \in Threads, MarkBit(t) PROVE DurableOK'
    BY <1>0, <1>11, DurableFrame DEF TypeOK, SameLocals, MarkBit, hist, GoTo
  <1>12. ASSUME NEW t \in Threads, MarkDec(t) PROVE DurableOK'
    BY Zenon, <1>0, <1>12, DurableFrame DEF TypeOK, SameLocals, MarkDec, hist, GoTo
  <1>13. ASSUME NEW t \in Threads, MarkReturn(t) PROVE DurableOK'
    BY Zenon, <1>0, <1>13, DurableFrame DEF TypeOK, SameLocals, MarkReturn, core, GoTo, Return
  <1>14. ASSUME NEW t \in Threads, SetDirty(t) PROVE DurableOK'
    <2>1. /\ \A u \in Threads : u # t => SameLocals(u)
          /\ op'[t] = op[t] /\ at'[t] = at[t] /\ err'[t] = err[t]
          /\ pc'[t] = "sync" /\ pc[t] = "dirty"
          /\ disk' = disk /\ owned' = owned
      BY <1>0, <1>14 DEF TypeOK, SameLocals, SetDirty, GoTo, hist
    <2>2. dirty'[at[t][1]] /\ \A i \in Bm : dirty[i] => dirty'[i]
      BY <1>0, <1>14, AtBlock DEF TypeOK, SetDirty
    <2>3. \A u \in Threads : pc[u] = "end" => at[u][1] # at[t][1]
      BY <1>0, <1>14, ThreadAssumption DEF SyncerOK, SetDirty
    <2>4. \A u \in Threads : pc[u] \in {"sync", "lock"} => at[u][1] \in Bm
      BY Zenon, <1>0, AtBlock
    <2> QED BY <1>0, <2>1, <2>2, <2>3, <2>4 DEF DurableOK, OwnedIsOnDisk, Claims, SameLocals
  <1>15. ASSUME NEW t \in Threads, SyncTest(t) PROVE DurableOK'
    <2>1. /\ \A u \in Threads : u # t => SameLocals(u)
          /\ op'[t] = op[t] /\ at'[t] = at[t] /\ pc[t] = "sync"
          /\ pc'[t] = "lock" \/ (pc'[t] = "ret" /\ ~dirty[at[t][1]])
          /\ disk' = disk /\ owned' = owned /\ dirty' = dirty
      BY <1>0, <1>15 DEF TypeOK, SameLocals, SyncTest, GoTo, core, hist
    <2> QED BY <1>0, <2>1 DEF DurableOK, OwnedIsOnDisk, Claims, SameLocals
  <1>16. ASSUME NEW t \in Threads, SyncLock(t) PROVE DurableOK'
    <2>1. /\ \A u \in Threads : u # t => SameLocals(u)
          /\ op'[t] = op[t] /\ at'[t] = at[t] /\ pc[t] = "lock"
          /\ pc'[t] = "io" \/ (pc'[t] = "ret" /\ ~dirty[at[t][1]])
          /\ disk' = disk /\ owned' = owned /\ dirty' = dirty
      BY <1>0, <1>16 DEF TypeOK, SameLocals, SyncLock, GoTo, hist
    <2> QED BY <1>0, <2>1 DEF DurableOK, OwnedIsOnDisk, Claims, SameLocals
  <1>17. ASSUME NEW t \in Threads, SyncIo(t) PROVE DurableOK'
    <2>1. /\ \A u \in Threads : u # t => SameLocals(u)
          /\ op'[t] = op[t] /\ at'[t] = at[t] /\ pc[t] = "io" /\ pc'[t] = "end"
          /\ owned' = owned /\ dirty' = dirty
      BY <1>0, <1>17 DEF TypeOK, SameLocals, SyncIo, GoTo, hist
    <2>2. \A a \in bitmap : a \in disk => a \in disk'
      BY Zenon, <1>17 DEF SyncIo, Written
    <2>3. ~err'[t] => \A a \in bitmap : a[1] = at[t][1] => a \in disk'
      BY Zenon, <1>0, <1>17 DEF TypeOK, SyncIo, Written, Unwritten, OfBm
    <2>4. \A u \in Threads : Claims(u) => at[u] \in bitmap
      BY Zenon, <1>0 DEF HoldersOK, Holds
    <2>5. OwnedIsOnDisk'
      BY <1>0, <2>1, <2>2 DEF HoldersOK, DurableOK, OwnedIsOnDisk
    <2> QED BY SMTT(30), <1>0, <2>1, <2>2, <2>3, <2>4, <2>5 DEF DurableOK, Claims, SameLocals
  <1>18. ASSUME NEW t \in Threads, SyncEnd(t) PROVE DurableOK'
    <2>1. /\ \A u \in Threads : u # t => SameLocals(u)
          /\ op'[t] = op[t] /\ at'[t] = at[t] /\ err'[t] = err[t]
          /\ pc[t] = "end" /\ pc'[t] = "ret"
          /\ owned' = owned /\ disk' = disk
      BY <1>0, <1>18 DEF TypeOK, SameLocals, SyncEnd, GoTo, hist
    <2>2. \A i \in Bm : i # at[t][1] \/ err[t] => dirty'[i] = dirty[i]
      BY SMTT(30), <1>0, <1>18 DEF TypeOK, SyncEnd
    <2>3. \A u \in Threads : pc[u] \in {"sync", "lock"} => at[u][1] \in Bm
      BY Zenon, <1>0, AtBlock
    <2> QED BY <1>0, <2>1, <2>2, <2>3 DEF DurableOK, OwnedIsOnDisk, Claims, SameLocals
  <1>19. CASE Crash
    <2>1. \A u \in Threads : ~Claims(u)'
      BY Zenon, <1>19 DEF Crash, Load, Claims
    <2>2. disk' = disk /\ owned' \subseteq owned
      BY <1>19 DEF Crash, Load
    <2> QED BY <1>0, <2>1, <2>2 DEF DurableOK, OwnedIsOnDisk
  <1>20. CASE Remount
    <2>1. \A u \in Threads : ~Claims(u)'
      BY Zenon, <1>20 DEF Remount, Load, Claims
    <2>2. /\ disk' = { a \in Addr : IF dirty[a[1]] THEN a \in bitmap ELSE a \in disk }
          /\ owned' = owned
      BY Zenon, <1>20 DEF Remount, Load
    <2>3. \A b \in owned : BmBit(b) \in Addr /\ BmBit(b) \in bitmap /\ BmBit(b) \in disk
      BY SMTT(30), <1>0, BmBitIsAddr DEF HoldersOK, DurableOK, OwnedIsOnDisk, TypeOK
    <2> QED BY <2>1, <2>2, <2>3 DEF DurableOK, OwnedIsOnDisk
  <1> QED
    BY Zenon, <1>1, <1>2, <1>3, <1>4, <1>5, <1>6, <1>7, <1>8, <1>9, <1>10, <1>11, <1>12, <1>13, <1>14, <1>15, <1>16, <1>17, <1>18, <1>19, <1>20
    DEF Next, Start, Alloc, Mark, Sync

\* A free finds the bit of its block set.
LEMMA FreeFindsStep == IInv /\ [Next]_vars => FreeFindsBitSet'
PROOF
  <1> SUFFICES ASSUME IInv, [Next]_vars PROVE FreeFindsBitSet'
    BY Zenon
  <1>0. TypeOK /\ HoldersOK /\ FreeFindsBitSet
    BY Zenon DEF IInv
  <1>1. CASE UNCHANGED vars
    BY Zenon, <1>0, <1>1 DEF TypeOK, FreeFindsBitSet, HoldersOK, Holds, Frees, vars
  <1>2. ASSUME NEW t \in Threads, NEW block \in Block, FreeStart(t, block) PROVE FreeFindsBitSet'
    BY Zenon, <1>0, <1>2 DEF TypeOK, FreeFindsBitSet, HoldersOK, Holds, Frees, FreeStart, GoTo, core
  <1>3. ASSUME NEW t \in Threads, AllocStart(t) PROVE FreeFindsBitSet'
    BY Zenon, <1>0, <1>3 DEF TypeOK, FreeFindsBitSet, HoldersOK, Holds, Frees, AllocStart, core, GoTo
  <1>4. ASSUME NEW t \in Threads, AllocGet(t) PROVE FreeFindsBitSet'
    BY <1>0, <1>4 DEF TypeOK, FreeFindsBitSet, HoldersOK, Holds, Frees, AllocGet, core, GoTo, Return
  <1>5. ASSUME NEW t \in Threads, AllocNoSpace(t) PROVE FreeFindsBitSet'
    BY Zenon, <1>0, <1>5 DEF TypeOK, FreeFindsBitSet, HoldersOK, Holds, Frees, AllocNoSpace, core, GoTo, Return
  <1>6. ASSUME NEW t \in Threads, FindLong(t) PROVE FreeFindsBitSet'
    BY Zenon, <1>0, <1>6 DEF TypeOK, FreeFindsBitSet, HoldersOK, Holds, Frees, FindLong, PastLongs, LongFull, core, hist, GoTo, NextBm, NextLong
  <1>7. ASSUME NEW t \in Threads, FindBit(t) PROVE FreeFindsBitSet'
    BY Zenon, <1>0, <1>7 DEF TypeOK, FreeFindsBitSet, HoldersOK, Holds, Frees, FindBit, BitFree, GoTo, NextBm, NextLong
  <1>8. ASSUME NEW t \in Threads, AllocInc(t) PROVE FreeFindsBitSet'
    BY Zenon, <1>0, <1>8 DEF TypeOK, FreeFindsBitSet, HoldersOK, Holds, Frees, AllocInc, hist, GoTo
  <1>9. ASSUME NEW t \in Threads, AllocReturn(t) PROVE FreeFindsBitSet'
    BY <1>0, <1>9 DEF TypeOK, FreeFindsBitSet, HoldersOK, Holds, Frees, AllocReturn, core, GoTo, Return, NextBm
  <1>10. ASSUME NEW t \in Threads, MarkGet(t) PROVE FreeFindsBitSet'
    BY <1>0, <1>10 DEF TypeOK, FreeFindsBitSet, HoldersOK, Holds, Frees, MarkGet, core, GoTo, Return
  <1>11. ASSUME NEW t \in Threads, MarkBit(t) PROVE FreeFindsBitSet'
    BY Zenon, <1>0, <1>11 DEF TypeOK, FreeFindsBitSet, HoldersOK, Holds, Frees, MarkBit, hist, GoTo
  <1>12. ASSUME NEW t \in Threads, MarkDec(t) PROVE FreeFindsBitSet'
    BY Zenon, <1>0, <1>12 DEF TypeOK, FreeFindsBitSet, HoldersOK, Holds, Frees, MarkDec, hist, GoTo
  <1>13. ASSUME NEW t \in Threads, MarkReturn(t) PROVE FreeFindsBitSet'
    BY Zenon, <1>0, <1>13 DEF TypeOK, FreeFindsBitSet, HoldersOK, Holds, Frees, MarkReturn, core, GoTo, Return
  <1>14. ASSUME NEW t \in Threads, SetDirty(t) PROVE FreeFindsBitSet'
    BY Zenon, <1>0, <1>14 DEF TypeOK, FreeFindsBitSet, HoldersOK, Holds, Frees, SetDirty, hist, GoTo
  <1>15. ASSUME NEW t \in Threads, SyncTest(t) PROVE FreeFindsBitSet'
    BY <1>0, <1>15 DEF TypeOK, FreeFindsBitSet, HoldersOK, Holds, Frees, SyncTest, core, hist, GoTo
  <1>16. ASSUME NEW t \in Threads, SyncLock(t) PROVE FreeFindsBitSet'
    BY <1>0, <1>16 DEF TypeOK, FreeFindsBitSet, HoldersOK, Holds, Frees, SyncLock, hist, GoTo
  <1>17. ASSUME NEW t \in Threads, SyncIo(t) PROVE FreeFindsBitSet'
    BY Zenon, <1>0, <1>17 DEF TypeOK, FreeFindsBitSet, HoldersOK, Holds, Frees, SyncIo, hist, GoTo
  <1>18. ASSUME NEW t \in Threads, SyncEnd(t) PROVE FreeFindsBitSet'
    BY Zenon, <1>0, <1>18 DEF TypeOK, FreeFindsBitSet, HoldersOK, Holds, Frees, SyncEnd, hist, GoTo
  <1>19. CASE Crash
    BY <1>0, <1>19 DEF TypeOK, FreeFindsBitSet, HoldersOK, Holds, Frees, Crash, Load
  <1>20. CASE Remount
    BY <1>0, <1>20 DEF TypeOK, FreeFindsBitSet, HoldersOK, Holds, Frees, Remount, Load
  <1> QED
    BY Zenon, <1>1, <1>2, <1>3, <1>4, <1>5, <1>6, <1>7, <1>8, <1>9, <1>10, <1>11, <1>12, <1>13, <1>14, <1>15, <1>16, <1>17, <1>18, <1>19, <1>20
    DEF Next, Start, Alloc, Mark, Sync

\* Steps that touch neither the bits nor the flags keep WillBeWritten.
LEMMA WrittenFrame ==
  ASSUME WillBeWritten, NEW t \in Threads,
         \A u \in Threads : u # t => SameLocals(u),
         pc'[t] # "end",
         pc[t] \in {"inc", "mdec", "dirty"} => pc'[t] = "dirty" /\ at'[t] = at[t],
         bitmap' = bitmap, disk' = disk, dirty' = dirty
  PROVE  WillBeWritten'
PROOF
  <1> SUFFICES ASSUME NEW a \in Addr, (a \in bitmap') # (a \in disk')
               PROVE  \/ Pending(a)'
                      \/ /\ dirty'[a[1]]
                         /\ \A u \in Threads : ~(pc'[u] = "end" /\ ~err'[u] /\ at'[u][1] = a[1])
    BY Zenon DEF WillBeWritten
  <1>1. CASE Pending(a)
    <2>1. PICK u \in Threads : at[u] = a /\ pc[u] \in {"inc", "mdec", "dirty"}
      BY Zenon, <1>1 DEF Pending
    <2>2. at'[u] = a /\ pc'[u] \in {"inc", "mdec", "dirty"}
      BY Zenon, <2>1 DEF SameLocals
    <2> QED BY Zenon, <2>2 DEF Pending
  <1>2. CASE ~Pending(a) /\ (a \in bitmap) # (a \in disk)
    <2>1. dirty[a[1]] /\ \A u \in Threads : ~(pc[u] = "end" /\ ~err[u] /\ at[u][1] = a[1])
      BY ZenonT(30), <1>2 DEF WillBeWritten
    <2> QED BY <2>1 DEF SameLocals
  <1> QED BY Zenon, <1>1, <1>2

\* No change of a bit is forgotten.
LEMMA WrittenStep == IInv /\ [Next]_vars => WillBeWritten'
PROOF
  <1> SUFFICES ASSUME IInv, [Next]_vars PROVE WillBeWritten'
    BY Zenon
  <1>0. TypeOK /\ WhereOK /\ SyncerOK /\ WillBeWritten
    BY Zenon DEF IInv
  <1>1. CASE UNCHANGED vars
    BY Zenon, <1>0, <1>1 DEF WillBeWritten, Pending, vars
  <1>2. ASSUME NEW t \in Threads, NEW block \in Block, FreeStart(t, block) PROVE WillBeWritten'
    BY <1>0, <1>2, WrittenFrame DEF TypeOK, SameLocals, FreeStart, core, GoTo
  <1>3. ASSUME NEW t \in Threads, AllocStart(t) PROVE WillBeWritten'
    BY Zenon, <1>0, <1>3, WrittenFrame DEF TypeOK, SameLocals, AllocStart, core, GoTo
  <1>4. ASSUME NEW t \in Threads, AllocGet(t) PROVE WillBeWritten'
    BY Zenon, <1>0, <1>4, WrittenFrame DEF TypeOK, SameLocals, AllocGet, core, GoTo, Return
  <1>5. ASSUME NEW t \in Threads, AllocNoSpace(t) PROVE WillBeWritten'
    BY Zenon, <1>0, <1>5, WrittenFrame DEF TypeOK, SameLocals, AllocNoSpace, core, GoTo, Return
  <1>6. ASSUME NEW t \in Threads, FindLong(t) PROVE WillBeWritten'
    BY <1>0, <1>6, WrittenFrame DEF TypeOK, SameLocals, FindLong, PastLongs, LongFull, core, hist, GoTo, NextBm, NextLong
  <1>7. ASSUME NEW t \in Threads, FindBit(t) PROVE WillBeWritten'
    <2>1. /\ \A u \in Threads : u # t => SameLocals(u)
          /\ disk' = disk /\ dirty' = dirty /\ pc[t] = "bit"
      BY Zenon, <1>0, <1>7 DEF TypeOK, SameLocals, FindBit, BitFree, GoTo, NextBm, NextLong
    <2>2. \/ bitmap' = bitmap /\ pc'[t] \in {"long", "get", "bit"}
          \/ bitmap' = bitmap \cup {at[t]} /\ pc'[t] = "inc" /\ at'[t] = at[t]
      BY Zenon, <1>0, <1>7 DEF TypeOK, FindBit, BitFree, GoTo, NextBm, NextLong
    <2> SUFFICES ASSUME NEW a \in Addr, (a \in bitmap') # (a \in disk')
                 PROVE  \/ Pending(a)'
                        \/ /\ dirty'[a[1]]
                           /\ \A u \in Threads : ~(pc'[u] = "end" /\ ~err'[u] /\ at'[u][1] = a[1])
      BY Zenon DEF WillBeWritten
    <2>5. CASE Pending(a)
      <3>1. PICK u \in Threads : at[u] = a /\ pc[u] \in {"inc", "mdec", "dirty"}
        BY Zenon, <2>5 DEF Pending
      <3>2. at'[u] = a /\ pc'[u] \in {"inc", "mdec", "dirty"}
        BY Zenon, <3>1, <2>1 DEF SameLocals
      <3> QED BY Zenon, <3>2 DEF Pending
    <2>6. CASE ~Pending(a) /\ (a \in bitmap) # (a \in disk)
      <3>1. dirty[a[1]] /\ \A u \in Threads : ~(pc[u] = "end" /\ ~err[u] /\ at[u][1] = a[1])
        BY Zenon, <1>0, <2>6 DEF WillBeWritten
      <3> QED BY <2>1, <2>2, <3>1 DEF SameLocals
    <2>7. CASE ~((a \in bitmap) # (a \in disk))
      <3>1. a = at[t] /\ at'[t] = a /\ pc'[t] \in {"inc", "mdec"}
        BY <2>1, <2>2, <2>7
      <3> QED BY Zenon, <3>1 DEF Pending
    <2> QED BY Zenon, <2>5, <2>6, <2>7
  <1>8. ASSUME NEW t \in Threads, AllocInc(t) PROVE WillBeWritten'
    BY Zenon, <1>0, <1>8, WrittenFrame DEF TypeOK, SameLocals, AllocInc, hist, GoTo
  <1>9. ASSUME NEW t \in Threads, AllocReturn(t) PROVE WillBeWritten'
    BY <1>0, <1>9, WrittenFrame DEF TypeOK, SameLocals, AllocReturn, core, GoTo, Return, NextBm
  <1>10. ASSUME NEW t \in Threads, MarkGet(t) PROVE WillBeWritten'
    BY <1>0, <1>10, WrittenFrame DEF TypeOK, SameLocals, MarkGet, core, GoTo, Return
  <1>11. ASSUME NEW t \in Threads, MarkBit(t) PROVE WillBeWritten'
    <2>1. /\ \A u \in Threads : u # t => SameLocals(u)
          /\ disk' = disk /\ dirty' = dirty /\ pc[t] = "mbit"
      BY Zenon, <1>0, <1>11 DEF TypeOK, SameLocals, MarkBit, GoTo
    <2>2. \/ bitmap' = bitmap /\ pc'[t] = "bug"
          \/ bitmap' = bitmap \ {at[t]} /\ pc'[t] = "mdec" /\ at'[t] = at[t]
      BY <1>0, <1>11 DEF TypeOK, MarkBit, GoTo
    <2> SUFFICES ASSUME NEW a \in Addr, (a \in bitmap') # (a \in disk')
                 PROVE  \/ Pending(a)'
                        \/ /\ dirty'[a[1]]
                           /\ \A u \in Threads : ~(pc'[u] = "end" /\ ~err'[u] /\ at'[u][1] = a[1])
      BY Zenon DEF WillBeWritten
    <2>5. CASE Pending(a)
      <3>1. PICK u \in Threads : at[u] = a /\ pc[u] \in {"inc", "mdec", "dirty"}
        BY Zenon, <2>5 DEF Pending
      <3>2. at'[u] = a /\ pc'[u] \in {"inc", "mdec", "dirty"}
        BY Zenon, <3>1, <2>1 DEF SameLocals
      <3> QED BY Zenon, <3>2 DEF Pending
    <2>6. CASE ~Pending(a) /\ (a \in bitmap) # (a \in disk)
      <3>1. dirty[a[1]] /\ \A u \in Threads : ~(pc[u] = "end" /\ ~err[u] /\ at[u][1] = a[1])
        BY Zenon, <1>0, <2>6 DEF WillBeWritten
      <3> QED BY <2>1, <2>2, <3>1 DEF SameLocals
    <2>7. CASE ~((a \in bitmap) # (a \in disk))
      <3>1. a = at[t] /\ at'[t] = a /\ pc'[t] \in {"inc", "mdec"}
        BY <2>1, <2>2, <2>7
      <3> QED BY Zenon, <3>1 DEF Pending
    <2> QED BY Zenon, <2>5, <2>6, <2>7
  <1>12. ASSUME NEW t \in Threads, MarkDec(t) PROVE WillBeWritten'
    BY Zenon, <1>0, <1>12, WrittenFrame DEF TypeOK, SameLocals, MarkDec, hist, GoTo
  <1>13. ASSUME NEW t \in Threads, MarkReturn(t) PROVE WillBeWritten'
    BY Zenon, <1>0, <1>13, WrittenFrame DEF TypeOK, SameLocals, MarkReturn, core, GoTo, Return
  <1>14. ASSUME NEW t \in Threads, SetDirty(t) PROVE WillBeWritten'
    <2>1. /\ \A u \in Threads : u # t => SameLocals(u)
          /\ at'[t] = at[t] /\ pc'[t] = "sync"
          /\ disk' = disk /\ bitmap' = bitmap
      BY Zenon, <1>0, <1>14 DEF TypeOK, SameLocals, SetDirty, GoTo
    <2>2. dirty'[at[t][1]] /\ \A i \in Bm : dirty[i] => dirty'[i]
      BY Zenon, <1>0, <1>14, AtBlock DEF TypeOK, SetDirty
    <2>3. \A u \in Threads : pc[u] = "end" => at[u][1] # at[t][1]
      BY Zenon, <1>0, <1>14, ThreadAssumption DEF SyncerOK, SetDirty
    <2>4. \A a \in Addr : a[1] \in Bm
      BY Zenon DEF Addr
    <2> SUFFICES ASSUME NEW a \in Addr, (a \in bitmap') # (a \in disk')
                 PROVE  \/ Pending(a)'
                        \/ /\ dirty'[a[1]]
                           /\ \A u \in Threads : ~(pc'[u] = "end" /\ ~err'[u] /\ at'[u][1] = a[1])
      BY Zenon DEF WillBeWritten
    <2>5. CASE Pending(a)
      <3>1. PICK u \in Threads : at[u] = a /\ pc[u] \in {"inc", "mdec", "dirty"}
        BY Zenon, <2>5 DEF Pending
      <3>2. CASE u # t
        <4>1. at'[u] = a /\ pc'[u] \in {"inc", "mdec", "dirty"}
          BY Zenon, <3>1, <3>2, <2>1 DEF SameLocals
        <4> QED BY Zenon, <4>1 DEF Pending
      <3>3. CASE u = t
        <4>1. dirty'[a[1]] /\ at[t][1] = a[1]
          BY Zenon, <3>1, <3>3, <2>2
        <4> QED BY <2>1, <2>3, <4>1 DEF SameLocals
      <3> QED BY Zenon, <3>2, <3>3
    <2>6. CASE ~Pending(a) /\ (a \in bitmap) # (a \in disk)
      <3>1. dirty[a[1]] /\ \A u \in Threads : ~(pc[u] = "end" /\ ~err[u] /\ at[u][1] = a[1])
        BY Zenon, <1>0, <2>6 DEF WillBeWritten
      <3> QED BY Zenon, <2>1, <2>2, <2>4, <3>1 DEF SameLocals
    <2> QED BY Zenon, <2>1, <2>5, <2>6
  <1>15. ASSUME NEW t \in Threads, SyncTest(t) PROVE WillBeWritten'
    BY Zenon, <1>0, <1>15, WrittenFrame DEF TypeOK, SameLocals, SyncTest, core, hist, GoTo
  <1>16. ASSUME NEW t \in Threads, SyncLock(t) PROVE WillBeWritten'
    BY Zenon, <1>0, <1>16, WrittenFrame DEF TypeOK, SameLocals, SyncLock, hist, GoTo
  <1>17. ASSUME NEW t \in Threads, SyncIo(t) PROVE WillBeWritten'
    <2>1. /\ \A u \in Threads : u # t => SameLocals(u)
          /\ at'[t] = at[t] /\ pc[t] = "io" /\ pc'[t] = "end"
          /\ bitmap' = bitmap /\ dirty' = dirty
      BY Zenon, <1>0, <1>17 DEF TypeOK, SameLocals, SyncIo, GoTo
    <2>2. \A a \in Addr : (a \in bitmap') # (a \in disk') => (a \in bitmap) # (a \in disk)
      BY <1>17 DEF SyncIo, Written
    <2>3. ~err'[t] => \A a \in Addr : a[1] = at[t][1] => (a \in bitmap' <=> a \in disk')
      BY Zenon, <1>0, <1>17 DEF TypeOK, SyncIo, Written, Unwritten, OfBm
    <2> SUFFICES ASSUME NEW a \in Addr, (a \in bitmap') # (a \in disk')
                 PROVE  \/ Pending(a)'
                        \/ /\ dirty'[a[1]]
                           /\ \A u \in Threads : ~(pc'[u] = "end" /\ ~err'[u] /\ at'[u][1] = a[1])
      BY Zenon DEF WillBeWritten
    <2>5. CASE Pending(a)
      <3>1. PICK u \in Threads : at[u] = a /\ pc[u] \in {"inc", "mdec", "dirty"}
        BY Zenon, <2>5 DEF Pending
      <3>2. at'[u] = a /\ pc'[u] \in {"inc", "mdec", "dirty"}
        BY Zenon, <3>1, <2>1 DEF SameLocals
      <3> QED BY Zenon, <3>2 DEF Pending
    <2>6. CASE ~Pending(a) /\ (a \in bitmap) # (a \in disk)
      <3>1. dirty[a[1]] /\ \A u \in Threads : ~(pc[u] = "end" /\ ~err[u] /\ at[u][1] = a[1])
        BY Zenon, <1>0, <2>6 DEF WillBeWritten
      <3> QED BY <2>1, <2>2, <2>3, <3>1 DEF SameLocals
    <2> QED BY Zenon, <2>2, <2>5, <2>6
  <1>18. ASSUME NEW t \in Threads, SyncEnd(t) PROVE WillBeWritten'
    <2>1. /\ \A u \in Threads : u # t => SameLocals(u)
          /\ at'[t] = at[t] /\ err'[t] = err[t] /\ pc[t] = "end" /\ pc'[t] = "ret"
          /\ bitmap' = bitmap /\ disk' = disk
      BY Zenon, <1>0, <1>18 DEF TypeOK, SameLocals, SyncEnd, GoTo
    <2>2. \A i \in Bm : i # at[t][1] \/ err[t] => dirty'[i] = dirty[i]
      BY <1>0, <1>18 DEF TypeOK, SyncEnd
    <2>3. \A a \in Addr : a[1] \in Bm
      BY Zenon DEF Addr
    <2> SUFFICES ASSUME NEW a \in Addr, (a \in bitmap') # (a \in disk')
                 PROVE  \/ Pending(a)'
                        \/ /\ dirty'[a[1]]
                           /\ \A u \in Threads : ~(pc'[u] = "end" /\ ~err'[u] /\ at'[u][1] = a[1])
      BY Zenon DEF WillBeWritten
    <2>5. CASE Pending(a)
      <3>1. PICK u \in Threads : at[u] = a /\ pc[u] \in {"inc", "mdec", "dirty"}
        BY Zenon, <2>5 DEF Pending
      <3>2. at'[u] = a /\ pc'[u] \in {"inc", "mdec", "dirty"}
        BY Zenon, <3>1, <2>1 DEF SameLocals
      <3> QED BY Zenon, <3>2 DEF Pending
    <2>6. CASE ~Pending(a) /\ (a \in bitmap) # (a \in disk)
      <3>1. dirty[a[1]] /\ \A u \in Threads : ~(pc[u] = "end" /\ ~err[u] /\ at[u][1] = a[1])
        BY Zenon, <1>0, <2>6 DEF WillBeWritten
      <3> QED BY <2>1, <2>2, <2>3, <3>1 DEF SameLocals
    <2> QED BY Zenon, <2>1, <2>5, <2>6
  <1>19. CASE Crash
    BY Zenon, <1>19 DEF WillBeWritten, Crash, Load
  <1>20. CASE Remount
    BY Zenon, <1>20 DEF WillBeWritten, Remount, Load
  <1> QED
    BY Zenon, <1>1, <1>2, <1>3, <1>4, <1>5, <1>6, <1>7, <1>8, <1>9, <1>10, <1>11, <1>12, <1>13, <1>14, <1>15, <1>16, <1>17, <1>18, <1>19, <1>20
    DEF Next, Start, Alloc, Mark, Sync

-----------------------------------------------------------------------------
(* The counter and the search.                                             *)

\* Steps away from the bits and the counter keep UsedCountsBits.
LEMMA UsedFrame ==
  ASSUME UsedCountsBits, NEW t \in Threads,
         \A u \in Threads : u # t => pc'[u] = pc[u],
         pc[t] \notin {"inc", "mdec"}, pc'[t] \notin {"inc", "mdec"},
         bitmap' = bitmap, used' = used, drift' = drift, lost' = lost
  PROVE  UsedCountsBits'
PROOF
  <1>1. InInc' = InInc /\ InDec' = InDec
    BY SMTT(30) DEF InInc, InDec
  <1> QED BY Zenon, <1>1 DEF UsedCountsBits

\* The counter follows the bits.
LEMMA UsedStep == IInv /\ [Next]_vars => UsedCountsBits'
PROOF
  <1> SUFFICES ASSUME IInv, [Next]_vars PROVE UsedCountsBits'
    BY Zenon
  <1>0. TypeOK /\ WillBeWritten /\ UsedCountsBits
    BY Zenon DEF IInv
  <1>a. /\ IsFiniteSet(bitmap) /\ Cardinality(bitmap) \in Nat
        /\ IsFiniteSet(InInc) /\ Cardinality(InInc) \in Nat
        /\ IsFiniteSet(InDec) /\ Cardinality(InDec) \in Nat
    BY <1>0, ThreadAssumption, AddrFinite, FS_Subset, FS_CardinalityType DEF TypeOK, InInc, InDec
  <1>b. ASSUME NEW image \in SUBSET Addr, NEW header \in Int, NEW kept,
               Load(image, header, kept),
               lost' = 0 => header - Cardinality(image) = 0
        PROVE  UsedCountsBits'
    <2>1. InInc' = {} /\ InDec' = {}
      BY Zenon, <1>b DEF Load, InInc, InDec
    <2>2. Cardinality(InInc') = 0 /\ Cardinality(InDec') = 0
      BY Zenon, <2>1, FS_EmptySet
    <2>3. Cardinality(image) \in Nat
      BY Zenon, AddrFinite, FS_Subset, FS_CardinalityType
    <2>4. used' = header /\ bitmap' = image /\ drift' = header - Cardinality(image)
      BY Zenon, <1>b DEF Load
    <2> QED BY <1>b, <2>2, <2>3, <2>4 DEF UsedCountsBits
  <1>1. CASE UNCHANGED vars
    BY Zenon, <1>0, <1>1 DEF UsedCountsBits, InInc, InDec, vars
  <1>2. ASSUME NEW t \in Threads, NEW block \in Block, FreeStart(t, block) PROVE UsedCountsBits'
    BY Zenon, <1>0, <1>2, UsedFrame DEF TypeOK, FreeStart, core, GoTo
  <1>3. ASSUME NEW t \in Threads, AllocStart(t) PROVE UsedCountsBits'
    BY Zenon, <1>0, <1>3, UsedFrame DEF TypeOK, AllocStart, core, GoTo
  <1>4. ASSUME NEW t \in Threads, AllocGet(t) PROVE UsedCountsBits'
    BY Zenon, <1>0, <1>4, UsedFrame DEF TypeOK, AllocGet, core, GoTo, Return
  <1>5. ASSUME NEW t \in Threads, AllocNoSpace(t) PROVE UsedCountsBits'
    BY Zenon, <1>0, <1>5, UsedFrame DEF TypeOK, AllocNoSpace, core, GoTo, Return
  <1>6. ASSUME NEW t \in Threads, FindLong(t) PROVE UsedCountsBits'
    BY Zenon, <1>0, <1>6, UsedFrame DEF TypeOK, FindLong, PastLongs, LongFull, core, hist, GoTo, NextBm, NextLong
  <1>7. ASSUME NEW t \in Threads, FindBit(t) PROVE UsedCountsBits'
    <2>1. CASE bitmap' = bitmap /\ pc'[t] # "inc"
      BY Zenon, <1>0, <1>7, <2>1, UsedFrame DEF TypeOK, FindBit, BitFree, GoTo, NextBm, NextLong
    <2>2. CASE at[t] \notin bitmap /\ bitmap' = bitmap \cup {at[t]} /\ GoTo(t, "inc")
      <3>1. Cardinality(bitmap') = Cardinality(bitmap) + 1
        BY Zenon, <1>a, <2>2, FS_AddElement
      <3>2. InInc' = InInc \cup {t} /\ t \notin InInc /\ InDec' = InDec
        BY <1>0, <1>7, <2>2 DEF TypeOK, FindBit, BitFree, InInc, InDec, GoTo
      <3>3. Cardinality(InInc') = Cardinality(InInc) + 1
        BY Zenon, <1>a, <3>2, FS_AddElement
      <3>4. used' = used /\ drift' = drift /\ lost' = lost
        BY Zenon, <1>7 DEF FindBit, BitFree
      <3> QED BY <1>0, <1>a, <3>1, <3>2, <3>3, <3>4 DEF UsedCountsBits, TypeOK
    <2>3. \/ bitmap' = bitmap /\ pc'[t] # "inc"
          \/ at[t] \notin bitmap /\ bitmap' = bitmap \cup {at[t]} /\ GoTo(t, "inc")
      BY Zenon, <1>0, <1>7 DEF TypeOK, FindBit, BitFree, GoTo, NextBm, NextLong
    <2> QED BY Zenon, <2>1, <2>2, <2>3
  <1>8. ASSUME NEW t \in Threads, AllocInc(t) PROVE UsedCountsBits'
    <2>1. InInc' = InInc \ {t} /\ t \in InInc /\ InDec' = InDec
      BY Zenon, <1>0, <1>8 DEF TypeOK, AllocInc, InInc, InDec, GoTo
    <2>2. Cardinality(InInc') = Cardinality(InInc) - 1
      BY Zenon, <1>a, <2>1, FS_RemoveElement
    <2>3. used' = used + 1 /\ bitmap' = bitmap /\ drift' = drift /\ lost' = lost
      BY Zenon, <1>8 DEF AllocInc, hist
    <2> QED BY <1>0, <1>a, <2>1, <2>2, <2>3 DEF UsedCountsBits, TypeOK
  <1>9. ASSUME NEW t \in Threads, AllocReturn(t) PROVE UsedCountsBits'
    BY Zenon, <1>0, <1>9, UsedFrame DEF TypeOK, AllocReturn, core, GoTo, Return, NextBm
  <1>10. ASSUME NEW t \in Threads, MarkGet(t) PROVE UsedCountsBits'
    BY Zenon, <1>0, <1>10, UsedFrame DEF TypeOK, MarkGet, core, GoTo, Return
  <1>11. ASSUME NEW t \in Threads, MarkBit(t) PROVE UsedCountsBits'
    <2>1. CASE at[t] \in bitmap
      <3>1. bitmap' = bitmap \ {at[t]} /\ used' = used /\ drift' = drift /\ lost' = lost
        BY Zenon, <1>11, <2>1 DEF MarkBit, hist
      <3>2. Cardinality(bitmap') = Cardinality(bitmap) - 1
        BY Zenon, <1>a, <2>1, <3>1, FS_RemoveElement
      <3>3. InDec' = InDec \cup {t} /\ t \notin InDec /\ InInc' = InInc
        BY <1>0, <1>11, <2>1 DEF TypeOK, MarkBit, InInc, InDec, GoTo
      <3>4. Cardinality(InDec') = Cardinality(InDec) + 1
        BY Zenon, <1>a, <3>3, FS_AddElement
      <3> QED BY <1>0, <1>a, <3>1, <3>2, <3>3, <3>4 DEF UsedCountsBits, TypeOK
    <2>2. CASE at[t] \notin bitmap
      <3>1. bitmap' = bitmap /\ used' = used /\ drift' = drift /\ lost' = lost
        BY Zenon, <1>11, <2>2 DEF MarkBit, hist
      <3>2. InDec' = InDec /\ InInc' = InInc
        BY <1>0, <1>11, <2>2 DEF TypeOK, MarkBit, InInc, InDec, GoTo
      <3> QED BY Zenon, <1>0, <3>1, <3>2 DEF UsedCountsBits
    <2> QED BY Zenon, <2>1, <2>2
  <1>12. ASSUME NEW t \in Threads, MarkDec(t) PROVE UsedCountsBits'
    <2>1. InDec' = InDec \ {t} /\ t \in InDec /\ InInc' = InInc
      BY Zenon, <1>0, <1>12 DEF TypeOK, MarkDec, InInc, InDec, GoTo
    <2>2. Cardinality(InDec') = Cardinality(InDec) - 1
      BY Zenon, <1>a, <2>1, FS_RemoveElement
    <2>3. used' = used - 1 /\ bitmap' = bitmap /\ drift' = drift /\ lost' = lost
      BY Zenon, <1>12 DEF MarkDec, hist
    <2> QED BY <1>0, <1>a, <2>1, <2>2, <2>3 DEF UsedCountsBits, TypeOK
  <1>13. ASSUME NEW t \in Threads, MarkReturn(t) PROVE UsedCountsBits'
    BY Zenon, <1>0, <1>13, UsedFrame DEF TypeOK, MarkReturn, core, GoTo, Return
  <1>14. ASSUME NEW t \in Threads, SetDirty(t) PROVE UsedCountsBits'
    BY Zenon, <1>0, <1>14, UsedFrame DEF TypeOK, SetDirty, hist, GoTo
  <1>15. ASSUME NEW t \in Threads, SyncTest(t) PROVE UsedCountsBits'
    BY Zenon, <1>0, <1>15, UsedFrame DEF TypeOK, SyncTest, core, hist, GoTo
  <1>16. ASSUME NEW t \in Threads, SyncLock(t) PROVE UsedCountsBits'
    BY Zenon, <1>0, <1>16, UsedFrame DEF TypeOK, SyncLock, hist, GoTo
  <1>17. ASSUME NEW t \in Threads, SyncIo(t) PROVE UsedCountsBits'
    BY Zenon, <1>0, <1>17, UsedFrame DEF TypeOK, SyncIo, hist, GoTo
  <1>18. ASSUME NEW t \in Threads, SyncEnd(t) PROVE UsedCountsBits'
    BY Zenon, <1>0, <1>18, UsedFrame DEF TypeOK, SyncEnd, hist, GoTo
  <1>19. CASE Crash
    <2>1. PICK kept \in SUBSET owned : Load(disk, hdrUsed, kept)
      BY Zenon, <1>19 DEF Crash
    <2>2. lost' # 0
      BY <1>0, <1>19 DEF Crash, TypeOK
    <2>3. disk \subseteq Addr /\ hdrUsed \in Int
      BY Zenon, <1>0 DEF TypeOK
    <2> QED BY Zenon, <2>1, <2>2, <2>3, <1>b
  <1>20. CASE Remount
    <2> DEFINE image == { a \in Addr : IF dirty[a[1]] THEN a \in bitmap ELSE a \in disk }
    <2>1. image = bitmap
      BY Zenon, <1>0, <1>20 DEF Remount, WillBeWritten, Pending, TypeOK
    <2>2. CASE Load(image, used, owned) /\ lost' = lost
      <3>1. InInc = {} /\ InDec = {}
        BY Zenon, <1>20 DEF Remount, InInc, InDec
      <3>2. used = Cardinality(bitmap) + drift
        BY <1>0, <1>a, <3>1, FS_EmptySet DEF UsedCountsBits, TypeOK
      <3>3. lost' = 0 => used - Cardinality(image) = 0
        <4>1. lost = 0 => drift = 0
          BY Zenon, <1>0 DEF UsedCountsBits
        <4>2. Cardinality(image) = Cardinality(bitmap)
          BY Zenon, <2>1
        <4> HIDE DEF image
        <4> QED BY <1>a, <2>2, <3>2, <4>1, <4>2
      <3>4. image \subseteq Addr /\ used \in Int
        BY Zenon, <1>0 DEF TypeOK
      <3> QED BY Zenon, <2>2, <3>3, <3>4, <1>b
    <2>3. CASE Load(image, hdrUsed, owned) /\ lost' = lost + 1
      <3>1. lost' # 0 /\ image \subseteq Addr /\ hdrUsed \in Int
        BY <1>0, <2>3 DEF TypeOK
      <3> QED BY Zenon, <2>3, <3>1, <1>b
    <2> QED BY Zenon, <1>20, <2>2, <2>3 DEF Remount
  <1> QED
    BY Zenon, <1>1, <1>2, <1>3, <1>4, <1>5, <1>6, <1>7, <1>8, <1>9, <1>10, <1>11, <1>12, <1>13, <1>14, <1>15, <1>16, <1>17, <1>18, <1>19, <1>20
    DEF Next, Start, Alloc, Mark, Sync

\* A step that sets no bit and moves thread t's search to an address no later
\* than its free blocks keeps AvailAhead.
LEMMA AvailMove ==
  ASSUME AvailAhead, NEW t \in Threads,
         \A u \in Threads : u # t => SameLocals(u) /\ avail'[u] = avail[u],
         pc'[t] # "idle", op'[t] = op[t],
         \A b \in avail'[t] : b \in avail[t] /\ BlockOf(at'[t]) <= b,
         bitmap' \subseteq bitmap
  PROVE  AvailAhead'
  BY Zenon DEF AvailAhead, SameLocals

\* So does one that leaves the search where it is, or ends it.
LEMMA AvailFrame ==
  ASSUME AvailAhead, NEW t \in Threads,
         \A u \in Threads : u # t => SameLocals(u) /\ avail'[u] = avail[u],
         \/ avail'[t] = {}
         \/ avail'[t] = avail[t] /\ at'[t] = at[t] /\ op'[t] = op[t] /\ pc'[t] # "idle",
         bitmap' \subseteq bitmap
  PROVE  AvailAhead'
  BY SMTT(30) DEF AvailAhead, SameLocals

\* A search does not leave behind a block that stays free.
LEMMA AvailStep == IInv /\ [Next]_vars => AvailAhead'
PROOF
  <1> SUFFICES ASSUME IInv, [Next]_vars PROVE AvailAhead'
    BY Zenon
  <1>0. TypeOK /\ WhereOK /\ AvailAhead
    BY Zenon DEF IInv
  <1>c. \A u \in Threads : \A b \in avail[u] : b \in Block /\ b \in Nat /\ b < NrBlocks
    BY <1>0, GeometryAssumption DEF TypeOK, Block
  <1>1. CASE UNCHANGED vars
    BY Zenon, <1>0, <1>1 DEF AvailAhead, vars
  <1>2. ASSUME NEW t \in Threads, NEW block \in Block, FreeStart(t, block) PROVE AvailAhead'
    <2>1. avail[t] = {}
      BY Zenon, <1>0, <1>2 DEF AvailAhead, FreeStart
    <2> QED BY Zenon, <1>0, <1>2, <2>1, AvailFrame DEF TypeOK, SameLocals, FreeStart, core, GoTo
  <1>3. ASSUME NEW t \in Threads, AllocStart(t) PROVE AvailAhead'
    <2>1. at[t] = << 0, 0, 0 >> /\ op[t] = "alloc"
      BY Zenon, <1>0, <1>3, AtType DEF WhereOK, AllocStart
    <2>2. BlockOf(at[t]) = 0
      BY <2>1, GeometryAssumption DEF BlockOf
    <2>3. /\ avail'[t] = FreeBlocks /\ at' = at /\ op' = op /\ pc'[t] = "get"
          /\ bitmap' = bitmap
          /\ \A u \in Threads : u # t => avail'[u] = avail[u] /\ pc'[u] = pc[u]
      BY Zenon, <1>0, <1>3 DEF TypeOK, AllocStart, GoTo, core
    <2>4. \A b \in FreeBlocks : BmBit(b) \notin bitmap /\ 0 <= b
      BY GeometryAssumption DEF FreeBlocks, Block
    <2> QED BY Zenon, <1>0, <2>1, <2>2, <2>3, <2>4 DEF AvailAhead
  <1>4. ASSUME NEW t \in Threads, AllocGet(t) PROVE AvailAhead'
    BY ZenonT(30), <1>0, <1>4, AvailFrame DEF TypeOK, SameLocals, AllocGet, core, GoTo, Return
  <1>5. ASSUME NEW t \in Threads, AllocNoSpace(t) PROVE AvailAhead'
    BY Zenon, <1>0, <1>5, AvailFrame DEF TypeOK, SameLocals, AllocNoSpace, core, GoTo, Return
  <1>6. ASSUME NEW t \in Threads, FindLong(t) PROVE AvailAhead'
    <2>0. /\ pc[t] = "long" /\ at[t][1] \in Nat /\ at[t][2] \in Nat
          /\ at[t][3] \in Nat /\ at[t][3] = 0
          /\ at[t][1] < BmBlocks /\ at[t][2] <= LongsPerBm
          /\ op[t] = "alloc"
      BY <1>0, <1>6, AtType, BmBlocksBound, GeometryAssumption DEF WhereOK, FindLong, PastLongs, LongFull
    <2>a. BlockOf(at[t]) \in Nat
      BY Zenon, <2>0, NextBlocks
    <2>1. CASE GoTo(t, "bit") /\ UNCHANGED at
      BY Zenon, <1>0, <1>6, <2>1, AvailFrame DEF TypeOK, SameLocals, FindLong, PastLongs, LongFull, GoTo, core, hist
    <2>2. CASE NextBm(t) /\ (at[t][2] >= LongsPerBm \/ BlockOf(at[t]) >= NrBlocks)
      <3>1. \A b \in avail[t] : BlockOf(<< at[t][1] + 1, 0, 0 >>) <= b
        <4>1. CASE at[t][2] >= LongsPerBm
          <5>1. at[t][2] = LongsPerBm
            BY <2>0, <4>1, GeometryAssumption
          <5>2. BlockOf(<< at[t][1] + 1, 0, 0 >>) = BlockOf(at[t])
            BY Zenon, <2>0, <5>1, NextBlocks
          <5> QED BY Zenon, <1>0, <5>2 DEF AvailAhead
        <4>2. CASE BlockOf(at[t]) >= NrBlocks
          BY <1>0, <1>c, <2>a, <4>2, GeometryAssumption DEF AvailAhead
        <4> QED BY Zenon, <2>2, <4>1, <4>2
      <3> QED BY Zenon, <1>0, <1>6, <2>0, <2>2, <3>1, AvailMove
              DEF TypeOK, SameLocals, FindLong, PastLongs, LongFull, NextBm, GoTo, core, hist
    <2>3. CASE /\ NextLong(t) /\ at[t][2] < LongsPerBm
               /\ \A b \in 0 .. BitsPerLong - 1 : << at[t][1], at[t][2], b >> \in bitmap
      <3>1. ASSUME NEW b \in avail[t] PROVE BlockOf(<< at[t][1], at[t][2] + 1, 0 >>) <= b
        <4> DEFINE k == b - BlockOf(at[t])
                   a == << at[t][1], at[t][2], k >>
        <4>1. /\ b \in Nat /\ BlockOf(at[t]) <= b /\ BmBit(b) \notin bitmap
              /\ BlockOf(at[t]) \in Nat
          BY Zenon, <1>0, <1>c, <2>a, <3>1 DEF AvailAhead
        <4>2. BlockOf(<< at[t][1], at[t][2] + 1, 0 >>) = BlockOf(at[t]) + BitsPerLong
          BY Zenon, <2>0, NextBlocks
        <4>3. SUFFICES ASSUME k < BitsPerLong PROVE FALSE
          BY <4>1, <4>2, GeometryAssumption
        <4>4. k \in 0 .. BitsPerLong - 1
          BY SMTT(30), <4>1, <4>3, GeometryAssumption
        <4>5. a \in bitmap /\ a \in Addr
          BY <2>0, <2>3, <4>4, BmBlocksBound, GeometryAssumption DEF Addr, Bm
        <4>6. BlockOf(a) = BlockOf(at[t]) + k
          <5>1. k \in Nat
            BY SMTT(30), <4>4, GeometryAssumption
          <5> HIDE DEF k
          <5> QED BY Zenon, <2>0, <5>1, NextBlocks
        <4>7. BmBit(b) = a
          BY <4>1, <4>5, <4>6, AddrIsBmBit
        <4> QED BY Zenon, <4>1, <4>5, <4>7
      <3> QED BY Zenon, <1>0, <1>6, <2>0, <2>3, <3>1, AvailMove
              DEF TypeOK, SameLocals, FindLong, PastLongs, LongFull, NextLong, GoTo, core, hist
    <2> QED BY SMTT(30), <1>6, <2>0, <2>1, <2>2, <2>3, GeometryAssumption DEF FindLong, PastLongs, LongFull
  <1>7. ASSUME NEW t \in Threads, FindBit(t) PROVE AvailAhead'
    <2>0. /\ pc[t] = "bit" /\ at[t][1] \in Nat /\ at[t][2] \in Nat
          /\ at[t][3] \in Nat /\ at[t][3] <= BitsPerLong
          /\ op[t] = "alloc"
      BY <1>0, <1>7, AtType, BmBlocksBound, GeometryAssumption DEF WhereOK, FindBit, BitFree
    <2>1. CASE at[t][3] >= BitsPerLong /\ NextLong(t) /\ UNCHANGED << bitmap, avail >>
      <3>1. at[t][3] = BitsPerLong
        BY <2>0, <2>1, GeometryAssumption
      <3>2. BlockOf(<< at[t][1], at[t][2] + 1, 0 >>) = BlockOf(at[t])
        BY Zenon, <2>0, <3>1, NextBlocks
      <3>3. \A b \in avail[t] : BlockOf(<< at[t][1], at[t][2] + 1, 0 >>) <= b
        BY Zenon, <1>0, <3>2 DEF AvailAhead
      <3> QED BY ZenonT(30), <1>0, <1>7, <2>0, <2>1, <3>3, AvailMove
              DEF TypeOK, SameLocals, FindBit, BitFree, NextLong, GoTo
    <2>2. CASE BlockOf(at[t]) >= NrBlocks /\ NextBm(t) /\ UNCHANGED << bitmap, avail >>
      <3>1. BlockOf(at[t]) \in Nat
        BY Zenon, <2>0, NextBlocks
      <3>2. \A b \in avail[t] : BlockOf(<< at[t][1] + 1, 0, 0 >>) <= b
        BY <1>0, <1>c, <2>2, <3>1, GeometryAssumption DEF AvailAhead
      <3> QED BY Zenon, <1>0, <1>7, <2>0, <2>2, <3>2, AvailMove
              DEF TypeOK, SameLocals, FindBit, BitFree, NextBm, GoTo
    <2>3. CASE /\ at[t][3] < BitsPerLong /\ at[t] \in bitmap
               /\ at' = [at EXCEPT ![t] = << at[t][1], at[t][2], at[t][3] + 1 >>]
               /\ UNCHANGED << bitmap, pc, avail >>
      <3>1. at[t] \in Addr /\ BlockOf(at[t]) \in Nat /\ BmBit(BlockOf(at[t])) = at[t]
        BY Zenon, <1>0, <2>0, <2>3, BitAddr, AddrIsBmBit
      <3>2. BlockOf(<< at[t][1], at[t][2], at[t][3] + 1 >>) = BlockOf(at[t]) + 1
        BY Zenon, <2>0, NextBlocks
      <3>3. \A b \in avail[t] : BlockOf(<< at[t][1], at[t][2], at[t][3] + 1 >>) <= b
        BY <1>0, <1>c, <2>3, <3>1, <3>2 DEF AvailAhead
      <3> QED BY Zenon, <1>0, <1>7, <2>0, <2>3, <3>3, AvailMove DEF TypeOK, SameLocals, FindBit, BitFree
    <2>4. CASE /\ at[t][3] < BitsPerLong
               /\ bitmap' = bitmap \cup {at[t]}
               /\ avail' = [u \in Threads |-> avail[u] \ {BlockOf(at[t])}]
               /\ GoTo(t, "inc") /\ UNCHANGED at
      <3>1. BmBit(BlockOf(at[t])) = at[t]
        BY Zenon, <1>0, <2>0, <2>4, BitAddr, AddrIsBmBit
      <3>2. \A u \in Threads : \A b \in avail'[u] :
              b \in avail[u] /\ b \in Block /\ b # BlockOf(at[t])
        BY Zenon, <1>c, <2>4
      <3>3. \A u \in Threads : \A b \in avail'[u] : BmBit(b) # at[t]
        BY Zenon, <3>1, <3>2, BmBitIsAddr
      <3>4. op' = op /\ \A u \in Threads : pc[u] # "idle" => pc'[u] # "idle"
        BY Zenon, <1>0, <1>7, <2>4 DEF TypeOK, FindBit, BitFree, GoTo
      <3> QED BY Zenon, <1>0, <2>4, <3>2, <3>3, <3>4 DEF AvailAhead
    <2> QED BY ZenonT(30), <1>7, <2>1, <2>2, <2>3, <2>4 DEF FindBit, BitFree
  <1>8. ASSUME NEW t \in Threads, AllocInc(t) PROVE AvailAhead'
    BY Zenon, <1>0, <1>8, AvailFrame DEF TypeOK, SameLocals, AllocInc, hist, GoTo
  <1>9. ASSUME NEW t \in Threads, AllocReturn(t) PROVE AvailAhead'
    <2>1. CASE ~err[t]
      BY Zenon, <1>0, <1>9, <2>1, AvailFrame DEF TypeOK, SameLocals, AllocReturn, core, GoTo, Return
    <2>2. CASE err[t]
      <3>1. /\ at[t] \in Addr /\ at[t][1] \in Nat
        BY <1>0, <1>9, AtBlock, BmBlocksBound DEF AllocReturn, Addr, Bm
      <3>2. /\ avail' = [avail EXCEPT ![t] = { b \in @ : BmBit(b)[1] # at[t][1] }]
            /\ NextBm(t) /\ op' = op /\ bitmap' = bitmap
        BY Zenon, <1>9, <2>2 DEF AllocReturn, core
      <3>3. \A b \in avail'[t] : b \in avail[t] /\ BmBit(b)[1] # at[t][1]
        BY Zenon, <1>0, <3>2 DEF TypeOK
      <3>4. ASSUME NEW b \in avail'[t] PROVE BlockOf(<< at[t][1] + 1, 0, 0 >>) <= b
        <4>1. b \in Block /\ BmBit(b)[1] # at[t][1] /\ BlockOf(at[t]) <= b
          BY Zenon, <1>0, <1>c, <3>3, <3>4 DEF AvailAhead
        <4>2. BmBit(b) \in Addr /\ BlockOf(BmBit(b)) = b
          BY Zenon, <4>1, BmBitIsAddr
        <4>3. BlockOf(at[t]) \in Nat /\ b \in Nat
          BY <3>1, <4>1, AddrIsBmBit, GeometryAssumption DEF Block
        <4> QED BY Zenon, <3>1, <4>1, <4>2, <4>3, ClusterOrder
      <3>5. \A u \in Threads : u # t => SameLocals(u) /\ avail'[u] = avail[u]
        <4>1. err' = [err EXCEPT ![t] = FALSE]
          BY Zenon, <1>9, <2>2 DEF AllocReturn
        <4> QED BY Zenon, <1>0, <3>2, <4>1 DEF TypeOK, SameLocals, NextBm, GoTo
      <3>6. pc'[t] = "get" /\ at'[t] = << at[t][1] + 1, 0, 0 >> /\ op'[t] = op[t]
        BY Zenon, <1>0, <3>2 DEF TypeOK, NextBm, GoTo
      <3> QED BY ZenonT(30), <1>0, <3>2, <3>3, <3>4, <3>5, <3>6, AvailMove
    <2> QED BY Zenon, <2>1, <2>2
  <1>10. ASSUME NEW t \in Threads, MarkGet(t) PROVE AvailAhead'
    BY ZenonT(30), <1>0, <1>10, AvailFrame DEF TypeOK, SameLocals, MarkGet, core, GoTo, Return
  <1>11. ASSUME NEW t \in Threads, MarkBit(t) PROVE AvailAhead'
    BY Zenon, <1>0, <1>11, AvailFrame DEF TypeOK, SameLocals, MarkBit, hist, GoTo
  <1>12. ASSUME NEW t \in Threads, MarkDec(t) PROVE AvailAhead'
    BY Zenon, <1>0, <1>12, AvailFrame DEF TypeOK, SameLocals, MarkDec, hist, GoTo
  <1>13. ASSUME NEW t \in Threads, MarkReturn(t) PROVE AvailAhead'
    BY Zenon, <1>0, <1>13, AvailFrame DEF TypeOK, SameLocals, MarkReturn, core, GoTo, Return
  <1>14. ASSUME NEW t \in Threads, SetDirty(t) PROVE AvailAhead'
    BY Zenon, <1>0, <1>14, AvailFrame DEF TypeOK, SameLocals, SetDirty, hist, GoTo
  <1>15. ASSUME NEW t \in Threads, SyncTest(t) PROVE AvailAhead'
    BY Zenon, <1>0, <1>15, AvailFrame DEF TypeOK, SameLocals, SyncTest, core, hist, GoTo
  <1>16. ASSUME NEW t \in Threads, SyncLock(t) PROVE AvailAhead'
    BY Zenon, <1>0, <1>16, AvailFrame DEF TypeOK, SameLocals, SyncLock, hist, GoTo
  <1>17. ASSUME NEW t \in Threads, SyncIo(t) PROVE AvailAhead'
    BY Zenon, <1>0, <1>17, AvailFrame DEF TypeOK, SameLocals, SyncIo, hist, GoTo
  <1>18. ASSUME NEW t \in Threads, SyncEnd(t) PROVE AvailAhead'
    BY Zenon, <1>0, <1>18, AvailFrame DEF TypeOK, SameLocals, SyncEnd, hist, GoTo
  <1>19. CASE Crash
    BY Zenon, <1>19 DEF AvailAhead, Crash, Load
  <1>20. CASE Remount
    BY Zenon, <1>20 DEF AvailAhead, Remount, Load
  <1> QED
    BY Zenon, <1>1, <1>2, <1>3, <1>4, <1>5, <1>6, <1>7, <1>8, <1>9, <1>10, <1>11, <1>12, <1>13, <1>14, <1>15, <1>16, <1>17, <1>18, <1>19, <1>20
    DEF Next, Start, Alloc, Mark, Sync

-----------------------------------------------------------------------------
(* The theorems.                                                           *)

\* The invariant holds of a freshly formatted device.
LEMMA InitIInv == Init => IInv
PROOF
  <1> SUFFICES ASSUME Init PROVE IInv
    BY Zenon
  <1>1. bitmap \subseteq Addr /\ Cardinality(bitmap) = Reserved /\ Reserved \in Nat
    BY FormattedBits, BmBlocksBound DEF Init, Reserved
  <1>2. TypeOK
    BY <1>1, BmBlocksBound, GeometryAssumption DEF Init, TypeOK, PCs
  <1>3. WhereOK
    BY Zenon DEF Init, WhereOK
  <1>4. SyncerOK /\ FreeFindsBitSet
    BY Zenon DEF Init, SyncerOK, FreeFindsBitSet
  <1>5. HoldersOK /\ DurableOK
    BY Zenon DEF Init, HoldersOK, DurableOK, OwnedIsOnDisk, Holds, Claims, Frees
  <1>6. WillBeWritten /\ AvailAhead
    BY Zenon DEF Init, WillBeWritten, AvailAhead
  <1>7. UsedCountsBits
    <2>1. InInc = {} /\ InDec = {}
      BY Zenon DEF Init, InInc, InDec
    <2> QED BY <1>1, <2>1, FS_EmptySet DEF Init, UsedCountsBits
  <1> QED BY Zenon, <1>2, <1>3, <1>4, <1>5, <1>6, <1>7 DEF IInv

\* Every step of every thread, a crash and a remount keep the invariant.
LEMMA NextIInv == IInv /\ [Next]_vars => IInv'
  BY Zenon, TypeStep, WhereStep, SyncerStep, HoldersStep, DurableStep, FreeFindsStep, WrittenStep,
     UsedStep, AvailStep DEF IInv

\* The invariant holds in every reachable state.
THEOREM Invariance == Spec => []IInv
  BY InitIInv, NextIInv, PTL DEF Spec

\* The state of the allocator stays in its types: the search indexes no bit
\* outside the bitmap, whatever the geometry.
THEOREM TypeCorrect == Spec => []TypeOK
PROOF
  <1>1. IInv => TypeOK
    BY Zenon DEF IInv
  <1> QED BY <1>1, Invariance, PTL

\* find_set_free_bit never gives one block to two callers, for any number of
\* threads allocating and freeing at once.
THEOREM AllocExclusive == Spec => []NoDoubleAlloc
PROOF
  <1>1. IInv => NoDoubleAlloc
    BY Zenon DEF IInv, HoldersOK, Holds, NoDoubleAlloc
  <1> QED BY <1>1, Invariance, PTL

\* A block a caller has been given is marked on the device, so a crash never
\* lets it be given out again.
THEOREM AllocDurable == Spec => []OwnedIsOnDisk
PROOF
  <1>1. IInv => OwnedIsOnDisk
    BY Zenon DEF IInv, DurableOK
  <1> QED BY <1>1, Invariance, PTL

\* NKFS_BUG_ON(!test_bit_le()) in nkfs_balloc_block_mark is unreachable.
THEOREM FreeAssertion == Spec => []FreeFindsBitSet
PROOF
  <1>1. IInv => FreeFindsBitSet
    BY Zenon DEF IInv
  <1> QED BY <1>1, Invariance, PTL

\* sb->used_blocks is exact up to threads between bit and counter and up to
\* the error of the last load.
THEOREM UsedExact == Spec => []UsedCountsBits
PROOF
  <1>1. IInv => UsedCountsBits
    BY Zenon DEF IInv
  <1> QED BY <1>1, Invariance, PTL

\* nkfs_balloc_block_alloc answers -ENOSPC only when no block has been free
\* all along in a cluster that could be written.
THEOREM NoSpaceSound == Spec => []NoSpaceIsReal
PROOF
  <1>1. IInv => NoSpaceIsReal
    <2> SUFFICES ASSUME IInv, NEW t \in Threads, pc[t] = "nospc", NEW b \in avail[t]
                 PROVE  FALSE
      BY Zenon DEF NoSpaceIsReal
    <2> DEFINE m == (BmBlocks * LongsPerBm) * BitsPerLong
    <2>1. /\ at[t][1] = BmBlocks /\ at[t][2] \in Nat /\ at[t][3] \in Nat
          /\ BlockOf(at[t]) <= b
          /\ b \in Nat /\ b < NrBlocks
      BY AtType, GeometryAssumption DEF IInv, WhereOK, AvailAhead, TypeOK, Block
    <2>2. BlockOf(at[t]) = (BmBlocks * LongsPerBm + at[t][2]) * BitsPerLong + at[t][3]
      BY Zenon, <2>1 DEF BlockOf
    <2>3. (BmBlocks * LongsPerBm + at[t][2]) * BitsPerLong = m + at[t][2] * BitsPerLong
      BY <2>1, BmBlocksBound, GeometryAssumption, Z3
    <2>4. m \in Nat /\ at[t][2] * BitsPerLong \in Nat
      BY <2>1, BmBlocksBound, GeometryAssumption, Z3
    <2>5. NrBlocks <= m
      BY Zenon, BmBlocksBound
    <2> HIDE DEF m
    <2> QED BY <2>1, <2>2, <2>3, <2>4, <2>5, GeometryAssumption
  <1> QED BY <1>1, Invariance, PTL

=============================================================================
