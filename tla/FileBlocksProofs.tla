-------------------------- MODULE FileBlocksProofs --------------------------
(***************************************************************************)
(* Theorems about the blocks of the files of testfs, for any block size,   *)
(* any number of direct blocks, any device and any number of inodes.       *)
(*                                                                         *)
(* A block number is stored at a place: in the inode (direct, indirect,    *)
(* double indirect) or in a pointer block.  At(f, p) is the block number   *)
(* that file f has at place p.  The invariant says that no two places hold *)
(* the same block, so that a step that writes a block can change nothing   *)
(* but what is reached through that block.                                 *)
(*                                                                         *)
(* The second part is about FileCrash: its invariant says the same of the  *)
(* files with a name only, of what the process sees and of every device on *)
(* which it can die before its pending block writes are done - until a     *)
(* command takes an inode that a death has left with its blocks (stale).   *)
(***************************************************************************)
EXTENDS FileCrash, QueueLemmas, FiniteSetTheorems

Log == 0 .. MAX_BLOCK_NR - 1

DataPlace(l)   == <<"data", l>>
InnerPlace(i)  == <<"inner", i>>
IndirectPlace  == <<"indirect", 0>>
DindirectPlace == <<"dindirect", 0>>

Place == {DataPlace(l) : l \in Log} \cup {InnerPlace(i) : i \in Unit}
            \cup {IndirectPlace, DindirectPlace}

\* Entry, read_block and the pointers of an inode, with the disk as a parameter.
Ent(dk, b, i) == IF b = 0 THEN 0 ELSE dk[b][i]

DataAt(dk, n, l) ==
    IF IsDirect(l) THEN n.i_block_nr[l]
    ELSE IF IsIndirect(l) THEN Ent(dk, n.i_indirect, InIndirect(l))
    ELSE Ent(dk, Ent(dk, n.i_dindirect, Outer(l)), Inner(l))

Walk(dk, n, p) ==
    IF p[1] = "data" THEN DataAt(dk, n, p[2])
    ELSE IF p[1] = "inner" THEN Ent(dk, n.i_dindirect, p[2])
    ELSE IF p[1] = "indirect" THEN n.i_indirect
    ELSE n.i_dindirect

At(f, p) == Walk(disk, Copy(f), p)

\* The blocks of a file.
Own(f) == {At(f, p) : p \in Place} \ {0}

\* The write in progress: the file exists, and its inode in memory is the one
\* on disk as long as it is not dirty.
Writing ==
    pc = "write" => /\ nr \in inodes /\ start <= pos /\ pos <= end /\ pos <= MAX_FILE_SIZE
                    /\ ~dirty => in = dinode[nr]

\* Every block number in a place is that of a block in use, of a file in use,
Rooted ==
    \A f \in Inode, p \in Place :
        At(f, p) \in Ptr /\ (At(f, p) # 0 => At(f, p) \in freemap /\ f \in inodes)

\* no two places have the same one,
Single ==
    \A f, g \in Inode : \A p, q \in Place :
        At(f, p) # 0 /\ At(f, p) = At(g, q) => f = g /\ p = q

\* and every block in use is in a place.
Covered == \A b \in freemap : \E f \in inodes : \E p \in Place : At(f, p) = b

Counted ==
    /\ used = Cardinality(freemap)
    /\ \A f \in inodes : Copy(f).block_count = Cardinality(Own(f))

\* The blocks of a file hold what was written to it, and zeros elsewhere.
StoredAsWritten ==
    \A f \in inodes, off \in Offset :
        stored_unit(Copy(f), off) = IF off \in written[f] THEN Data(f) ELSE 0

\* What is kept of a file was written and is before the end of the file, and the
\* write in progress has written what is behind it.
Kept(f) == \A u \in kept[f] : u \in written[f] /\ u < Copy(f).i_size

KeptReadable ==
    /\ \A f \in Inode : Kept(f)
    /\ pc = "write" => \A u \in Offset : start <= u /\ u < pos => u \in written[nr]

\* The units of an inode that is not in use.
NotWritten == \A f \in Inode \ inodes : written[f] = {}

\* The length of a file in blocks, counting what the write in progress has added.
Length(f) ==
    DIVROUNDUP(IF pc = "write" /\ f = nr THEN Grown.i_size ELSE dinode[f].i_size, BLOCK_SIZE)

\* The places that testfs_free_blocks visits in a file of e blocks; the assertion
\* about the indirect block is part of it.
Visited(e, p) ==
    IF p[1] = "data" THEN p[2] < e
    ELSE IF p[1] = "inner" THEN NR_DIRECT_BLOCKS + NR_INDIRECT_BLOCKS * (p[2] + 1) < e
    ELSE IF p[1] = "indirect" THEN NR_DIRECT_BLOCKS < e
    ELSE NR_DIRECT_BLOCKS + NR_INDIRECT_BLOCKS < e

\* No block is past the end, and the last block is not a hole.
Within ==
    \A f \in Inode :
        /\ \A p \in Place : At(f, p) # 0 => Visited(Length(f), p)
        /\ Length(f) > 0 => At(f, DataPlace(Length(f) - 1)) # 0
        /\ pc = "write" /\ f = nr /\ ~dirty =>
              Length(f) = DIVROUNDUP(dinode[f].i_size, BLOCK_SIZE)

FInv == /\ TypeOK /\ Writing /\ Rooted /\ Single /\ Covered /\ Counted /\ FreeIsZero
        /\ NotWritten /\ StoredAsWritten /\ Within /\ pc # "abort"

\* What a write needs to know of a set F of files, among them the one it writes:
\* their blocks are marked in use, no two places have the same one, and as many
\* blocks are free as may still be allocated.
RootedIn(F) ==
    \A f \in F, p \in Place : At(f, p) \in Ptr /\ (At(f, p) # 0 => At(f, p) \in freemap)

SingleIn(F) ==
    \A f, g \in F : \A p, q \in Place :
        At(f, p) # 0 /\ At(f, p) = At(g, q) => f = g /\ p = q

Base(F) == /\ TypeOK /\ F \subseteq Inode /\ (pc = "write" => nr \in F)
           /\ RootedIn(F) /\ SingleIn(F)

-----------------------------------------------------------------------------
(* Arithmetic: logical blocks, units and places *)

LEMMA DivMod ==
    ASSUME NEW b \in Nat \ {0}, NEW n \in Nat
    PROVE  n = b * (n \div b) + (n % b) /\ n % b \in 0 .. b - 1 /\ n \div b \in Nat
  OBVIOUS

LEMMA DivBound ==
    ASSUME NEW b \in Nat \ {0}, NEW n \in Nat, NEW m \in Nat
    PROVE  (n < b * m) <=> (n \div b < m)
<1> DEFINE q == n \div b
           r == n % b
<1>1. n = b * q + r /\ r \in 0 .. b - 1 /\ q \in Nat BY DivMod
<1> HIDE DEF q, r
<1>2. q < m => b * q + b <= b * m BY <1>1
<1>3. m <= q => b * m <= b * q BY <1>1
<1>4. b * m \in Nat /\ b * q \in Nat BY <1>1
<1>5. q < m => n < b * m BY <1>1, <1>2, <1>4
<1>6. m <= q => b * m <= n BY <1>1, <1>3, <1>4
<1>7. (n < b * m) <=> (q < m) BY <1>1, <1>4, <1>5, <1>6
<1> QED BY <1>7 DEF q

\* Quotient and rest are determined by the sum.
LEMMA DivUnique ==
    ASSUME NEW b \in Nat \ {0}, NEW q \in Nat, NEW r \in 0 .. b - 1
    PROVE  (b * q + r) \div b = q /\ (b * q + r) % b = r
  OBVIOUS

LEMMA Sizes ==
    /\ BLOCK_SIZE \in Nat \ {0} /\ NR_INDIRECT_BLOCKS = BLOCK_SIZE
    /\ NR_DIRECT_BLOCKS \in Nat \ {0}
    /\ BLOCK_SIZE * BLOCK_SIZE \in Nat
    /\ MAX_BLOCK_NR = NR_DIRECT_BLOCKS + BLOCK_SIZE + BLOCK_SIZE * BLOCK_SIZE
    /\ MAX_BLOCK_NR \in Nat \ {0}
    /\ MAX_FILE_SIZE = BLOCK_SIZE * MAX_BLOCK_NR
    /\ MAX_FILE_SIZE \in Nat \ {0}
    /\ Unit = 0 .. BLOCK_SIZE - 1
<1>1. BLOCK_SIZE \in Nat \ {0} /\ NR_DIRECT_BLOCKS \in Nat \ {0} BY FileBlocksAssumption
<1>2. NR_INDIRECT_BLOCKS = BLOCK_SIZE BY DEF NR_INDIRECT_BLOCKS
<1>3. BLOCK_SIZE * BLOCK_SIZE \in Nat BY <1>1
<1>4. /\ MAX_BLOCK_NR = NR_DIRECT_BLOCKS + BLOCK_SIZE + BLOCK_SIZE * BLOCK_SIZE
      /\ MAX_BLOCK_NR \in Nat \ {0}
  BY <1>1, <1>2, <1>3 DEF MAX_BLOCK_NR
<1>5. /\ MAX_FILE_SIZE = BLOCK_SIZE * MAX_BLOCK_NR /\ MAX_FILE_SIZE \in Nat \ {0}
  BY <1>1, <1>4 DEF MAX_FILE_SIZE
<1> QED BY <1>1, <1>2, <1>3, <1>4, <1>5 DEF Unit

\* Logical blocks under the indirect block,
LEMMA IndirectPlaces ==
    ASSUME NEW l \in Log, ~IsDirect(l), IsIndirect(l)
    PROVE  InIndirect(l) \in Unit /\ l = NR_DIRECT_BLOCKS + InIndirect(l)
  BY Sizes DEF Log, IsDirect, IsIndirect, InIndirect

\* and under the double indirect block.
LEMMA DindirectPlaces ==
    ASSUME NEW l \in Log, ~IsDirect(l), ~IsIndirect(l)
    PROVE  /\ Outer(l) \in Unit /\ Inner(l) \in Unit
           /\ l = NR_DIRECT_BLOCKS + BLOCK_SIZE + BLOCK_SIZE * Outer(l) + Inner(l)
<1> DEFINE d == InDindirect(l)
<1>1. d = l - NR_DIRECT_BLOCKS - BLOCK_SIZE /\ l \in Int BY Sizes DEF InDindirect, Log
<1>2. d \in Nat BY <1>1, Sizes DEF Log, IsDirect, IsIndirect
<1>3. d < BLOCK_SIZE * BLOCK_SIZE BY <1>1, Sizes DEF Log
<1>4. Outer(l) = d \div BLOCK_SIZE /\ Inner(l) = d % BLOCK_SIZE BY Sizes DEF Outer, Inner
<1> HIDE DEF d
<1>5. /\ d = BLOCK_SIZE * Outer(l) + Inner(l) /\ Inner(l) \in 0 .. BLOCK_SIZE - 1 /\ Outer(l) \in Nat
  BY <1>2, <1>4, DivMod, Sizes
<1>6. Outer(l) < BLOCK_SIZE BY <1>2, <1>3, <1>4, DivBound, Sizes
<1>7. Outer(l) \in Unit /\ Inner(l) \in Unit BY <1>5, <1>6, Sizes
<1>8. BLOCK_SIZE * Outer(l) \in Nat BY <1>5, Sizes
<1>9. l = NR_DIRECT_BLOCKS + BLOCK_SIZE + BLOCK_SIZE * Outer(l) + Inner(l)
  BY <1>1, <1>5, <1>8, Sizes DEF Unit
<1> QED BY <1>7, <1>9

\* The block and the unit of an offset.
LEMMA OffsetParts ==
    ASSUME NEW off \in Offset
    PROVE  /\ off \div BLOCK_SIZE \in Log /\ off % BLOCK_SIZE \in Unit
           /\ off = BLOCK_SIZE * (off \div BLOCK_SIZE) + (off % BLOCK_SIZE)
<1>1. off \in Nat /\ off < BLOCK_SIZE * MAX_BLOCK_NR BY Sizes DEF Offset
<1>2. /\ off = BLOCK_SIZE * (off \div BLOCK_SIZE) + (off % BLOCK_SIZE)
      /\ off % BLOCK_SIZE \in 0 .. BLOCK_SIZE - 1 /\ off \div BLOCK_SIZE \in Nat
  BY <1>1, DivMod, Sizes
<1>3. off \div BLOCK_SIZE < MAX_BLOCK_NR BY <1>1, DivBound, Sizes
<1> QED BY <1>2, <1>3, Sizes DEF Log

\* Every unit of every logical block has an offset.
LEMMA UnitOffset ==
    ASSUME NEW l \in Log, NEW u \in Unit
    PROVE  /\ l * BLOCK_SIZE + u \in Offset
           /\ (l * BLOCK_SIZE + u) \div BLOCK_SIZE = l
           /\ (l * BLOCK_SIZE + u) % BLOCK_SIZE = u
<1>1. l \in Nat /\ u \in 0 .. BLOCK_SIZE - 1 /\ l * BLOCK_SIZE = BLOCK_SIZE * l BY Sizes DEF Log
<1>2. BLOCK_SIZE * l + BLOCK_SIZE <= BLOCK_SIZE * MAX_BLOCK_NR BY <1>1, Sizes DEF Log
<1>3. BLOCK_SIZE * l \in Nat BY <1>1, Sizes
<1>4. BLOCK_SIZE * l + u \in Offset BY <1>1, <1>2, <1>3, Sizes DEF Offset
<1>5. (BLOCK_SIZE * l + u) \div BLOCK_SIZE = l /\ (BLOCK_SIZE * l + u) % BLOCK_SIZE = u
  BY <1>1, DivUnique, Sizes
<1> QED BY <1>1, <1>4, <1>5

-----------------------------------------------------------------------------
(* Places *)

LEMMA PlaceKinds ==
    /\ \A p \in Place : \/ \E l \in Log : p = DataPlace(l)
                        \/ \E i \in Unit : p = InnerPlace(i)
                        \/ p = IndirectPlace
                        \/ p = DindirectPlace
    /\ \A l \in Log : DataPlace(l) \in Place
    /\ \A i \in Unit : InnerPlace(i) \in Place
    /\ IndirectPlace \in Place /\ DindirectPlace \in Place
<1> HIDE DEF DataPlace, InnerPlace, IndirectPlace, DindirectPlace
<1> QED BY DEF Place

LEMMA PlacesDiffer ==
    /\ \A l, m : DataPlace(l) = DataPlace(m) => l = m
    /\ \A i, j : InnerPlace(i) = InnerPlace(j) => i = j
    /\ \A l, i : DataPlace(l) # InnerPlace(i)
    /\ \A l : DataPlace(l) # IndirectPlace /\ DataPlace(l) # DindirectPlace
    /\ \A i : InnerPlace(i) # IndirectPlace /\ InnerPlace(i) # DindirectPlace
    /\ IndirectPlace # DindirectPlace
  BY DEF DataPlace, InnerPlace, IndirectPlace, DindirectPlace

LEMMA WalkIs ==
    ASSUME NEW dk, NEW n
    PROVE  /\ \A l : Walk(dk, n, DataPlace(l)) = DataAt(dk, n, l)
           /\ \A i : Walk(dk, n, InnerPlace(i)) = Ent(dk, n.i_dindirect, i)
           /\ Walk(dk, n, IndirectPlace) = n.i_indirect
           /\ Walk(dk, n, DindirectPlace) = n.i_dindirect
  BY DEF Walk, DataPlace, InnerPlace, IndirectPlace, DindirectPlace

LEMMA VisitedIs ==
    ASSUME NEW e
    PROVE  /\ \A l : Visited(e, DataPlace(l)) <=> l < e
           /\ \A i : Visited(e, InnerPlace(i)) <=> NR_DIRECT_BLOCKS + BLOCK_SIZE * (i + 1) < e
           /\ Visited(e, IndirectPlace) <=> NR_DIRECT_BLOCKS < e
           /\ Visited(e, DindirectPlace) <=> NR_DIRECT_BLOCKS + BLOCK_SIZE < e
<1>1. NR_INDIRECT_BLOCKS = BLOCK_SIZE BY Sizes
<1> QED BY <1>1 DEF Visited, DataPlace, InnerPlace, IndirectPlace, DindirectPlace

LEMMA VisitedMore ==
    ASSUME NEW d \in Nat, NEW e \in Nat, d <= e, NEW p \in Place, Visited(d, p)
    PROVE  Visited(e, p)
<1>1. BLOCK_SIZE \in Nat /\ NR_DIRECT_BLOCKS \in Nat BY Sizes
<1>2. ASSUME NEW l \in Log, p = DataPlace(l) PROVE Visited(e, p)
  <2>1. l < d BY <1>2, VisitedIs
  <2>2. l \in Nat BY Sizes DEF Log
  <2>3. l < e BY <2>1, <2>2
  <2> QED BY <1>2, <2>3, VisitedIs
<1>3. ASSUME NEW i \in Unit, p = InnerPlace(i) PROVE Visited(e, p)
  <2>1. NR_DIRECT_BLOCKS + BLOCK_SIZE * (i + 1) < d BY <1>3, VisitedIs
  <2>2. BLOCK_SIZE * (i + 1) \in Nat BY <1>1, Sizes
  <2>3. NR_DIRECT_BLOCKS + BLOCK_SIZE * (i + 1) < e BY <1>1, <2>1, <2>2
  <2> QED BY <1>3, <2>3, VisitedIs
<1>4. CASE p = IndirectPlace
  <2>1. NR_DIRECT_BLOCKS < d BY <1>4, VisitedIs
  <2>2. NR_DIRECT_BLOCKS < e BY <1>1, <2>1
  <2> QED BY <1>4, <2>2, VisitedIs
<1>5. CASE p = DindirectPlace
  <2>1. NR_DIRECT_BLOCKS + BLOCK_SIZE < d BY <1>5, VisitedIs
  <2>2. NR_DIRECT_BLOCKS + BLOCK_SIZE < e BY <1>1, <2>1
  <2> QED BY <1>5, <2>2, VisitedIs
<1> QED BY <1>2, <1>3, <1>4, <1>5, PlaceKinds

\* What is reached from an inode depends on its pointers and on the pointer
\* blocks only.
LEMMA WalkSame ==
    ASSUME NEW dk, NEW dk2, NEW n, NEW n2,
           n2.i_block_nr = n.i_block_nr, n2.i_indirect = n.i_indirect, n2.i_dindirect = n.i_dindirect,
           n.i_indirect # 0 => dk2[n.i_indirect] = dk[n.i_indirect],
           n.i_dindirect # 0 => dk2[n.i_dindirect] = dk[n.i_dindirect],
           \A i \in Unit : LET x == Ent(dk, n.i_dindirect, i) IN x # 0 => dk2[x] = dk[x]
    PROVE  \A p \in Place : Walk(dk2, n2, p) = Walk(dk, n, p)
<1>1. \A i : Ent(dk2, n2.i_indirect, i) = Ent(dk, n.i_indirect, i) BY DEF Ent
<1>2. \A i : Ent(dk2, n2.i_dindirect, i) = Ent(dk, n.i_dindirect, i) BY DEF Ent
<1>3. \A i \in Unit : \A j : Ent(dk2, Ent(dk, n.i_dindirect, i), j) = Ent(dk, Ent(dk, n.i_dindirect, i), j)
  BY DEF Ent
<1>4. ASSUME NEW l \in Log PROVE DataAt(dk2, n2, l) = DataAt(dk, n, l)
  <2>1. CASE IsDirect(l) BY <2>1 DEF DataAt
  <2>2. CASE ~IsDirect(l) /\ IsIndirect(l) BY <1>1, <2>2 DEF DataAt
  <2>3. CASE ~IsDirect(l) /\ ~IsIndirect(l)
    <3>1. Outer(l) \in Unit BY <2>3, DindirectPlaces
    <3> QED BY <1>2, <1>3, <2>3, <3>1 DEF DataAt
  <2> QED BY <2>1, <2>2, <2>3
<1> SUFFICES ASSUME NEW p \in Place PROVE Walk(dk2, n2, p) = Walk(dk, n, p) OBVIOUS
<1>5. ASSUME NEW l \in Log, p = DataPlace(l) PROVE Walk(dk2, n2, p) = Walk(dk, n, p)
  <2>1. Walk(dk2, n2, DataPlace(l)) = DataAt(dk2, n2, l) BY WalkIs
  <2>2. Walk(dk, n, DataPlace(l)) = DataAt(dk, n, l) BY WalkIs
  <2> QED BY <1>4, <1>5, <2>1, <2>2
<1>6. ASSUME NEW i \in Unit, p = InnerPlace(i) PROVE Walk(dk2, n2, p) = Walk(dk, n, p)
  <2>1. Walk(dk2, n2, InnerPlace(i)) = Ent(dk2, n2.i_dindirect, i) BY WalkIs
  <2>2. Walk(dk, n, InnerPlace(i)) = Ent(dk, n.i_dindirect, i) BY WalkIs
  <2> QED BY <1>2, <1>6, <2>1, <2>2
<1>7. CASE p = IndirectPlace BY <1>7, WalkIs
<1>8. CASE p = DindirectPlace BY <1>8, WalkIs
<1> QED BY <1>5, <1>6, <1>7, <1>8, PlaceKinds

-----------------------------------------------------------------------------
(* The free map *)

LEMMA BlockSets ==
    /\ IsFiniteSet(Block) /\ Cardinality(Block) = DeviceBlocks
    /\ \A m : m \subseteq Block => IsFiniteSet(m) /\ Cardinality(m) \in Nat
<1>1. DeviceBlocks \in Nat BY FileBlocksAssumption
<1>2. IsFiniteSet(Block) /\ Cardinality(Block) = DeviceBlocks
  BY <1>1, FS_Interval DEF Block
<1>3. ASSUME NEW m, m \subseteq Block PROVE IsFiniteSet(m) /\ Cardinality(m) \in Nat
  BY <1>2, <1>3, FS_Subset, FS_CardinalityType
<1> QED BY <1>2, <1>3

\* What is available can be counted and marked.
LEMMA Room ==
    ASSUME TypeOK
    PROVE  /\ used \in Nat /\ MaxFsBlocks \in Nat /\ Available \in Nat
           /\ used + Available <= MaxFsBlocks
           /\ Cardinality(freemap) \in Nat /\ DeviceBlocks \in Nat
           /\ Cardinality(freemap) + Available <= DeviceBlocks
<1>1. /\ used \in 0 .. MaxFsBlocks /\ freemap \subseteq Block
      /\ MaxFsBlocks \in Nat /\ DeviceBlocks \in Nat
  BY FileBlocksAssumption DEF TypeOK
<1>2. Cardinality(freemap) \in Nat /\ Cardinality(freemap) <= DeviceBlocks
  BY <1>1, BlockSets, FS_Subset
<1> QED BY <1>1, <1>2 DEF Available

\* bitmap_alloc finds a block if there is one.
LEMMA AllocFinds ==
    ASSUME NEW m, m \subseteq Block, Cardinality(m) < DeviceBlocks
    PROVE  bitmap_alloc(m) \in Block /\ bitmap_alloc(m) \notin m
<1> DEFINE T == Block \ m
<1>1. T # {}
  <2> SUFFICES ASSUME T = {} PROVE FALSE OBVIOUS
  <2>1. m = Block OBVIOUS
  <2> QED BY <2>1, BlockSets, FileBlocksAssumption
<1>2. T \subseteq Nat BY DEF Block
<1>3. bitmap_alloc(m) = CHOOSE x \in T : \A y \in T : x <= y BY DEF bitmap_alloc
<1> HIDE DEF T
<1>4. \E x \in T : \A y \in T : x <= y BY <1>1, <1>2, LeastNumber
<1>5. bitmap_alloc(m) \in T BY <1>3, <1>4
<1> QED BY <1>5 DEF T

LEMMA AddOne ==
    ASSUME NEW m, m \subseteq Block, NEW x
    PROVE  /\ x \in Block => m \cup {x} \subseteq Block
           /\ Cardinality(m \cup {x}) = IF x \in m THEN Cardinality(m) ELSE Cardinality(m) + 1
  BY BlockSets, FS_AddElement

-----------------------------------------------------------------------------
(* The arithmetic of a write *)

\* The units from pos on, up to the end of the block or of the write.
LEMMA ChunkIs ==
    ASSUME TypeOK, InWrite
    PROVE  /\ log_block_nr \in Log
           /\ \E k \in Nat :
                 /\ pos < k /\ k <= end
                 /\ BLOCK_SIZE * log_block_nr < k /\ k <= BLOCK_SIZE * (log_block_nr + 1)
                 /\ pos + Cardinality(Chunk) = k
<1> DEFINE l == log_block_nr
           s == BLOCK_SIZE * l
           a == pos % BLOCK_SIZE
           c == IF end - s < BLOCK_SIZE THEN end - s - 1 ELSE BLOCK_SIZE - 1
<1>1. /\ pos \in Nat /\ end \in Nat /\ pos < end /\ l = pos \div BLOCK_SIZE /\ l < MAX_BLOCK_NR
  BY DEF TypeOK, InWrite, log_block_nr
<1>2. pos = s + a /\ a \in 0 .. BLOCK_SIZE - 1 /\ l \in Nat BY <1>1, DivMod, Sizes
<1>3. s \in Nat /\ l * BLOCK_SIZE = s /\ BLOCK_SIZE * (l + 1) = s + BLOCK_SIZE BY <1>2, Sizes
<1>4. Chunk = {u \in Unit : pos <= s + u /\ s + u < end} BY <1>3 DEF Chunk
<1>5. l \in Log BY <1>1, <1>2, Sizes DEF Log
<1> HIDE DEF l, s, a
<1>6. c \in Nat /\ a <= c BY <1>1, <1>2, <1>3, Sizes
<1>7. ASSUME NEW u \in Unit PROVE (pos <= s + u /\ s + u < end) <=> u \in a .. c
  BY <1>1, <1>2, <1>3, Sizes
<1>8. ASSUME NEW u \in a .. c PROVE u \in Unit
  BY <1>1, <1>2, <1>3, Sizes
<1>9. Chunk = a .. c BY <1>4, <1>7, <1>8
<1>10. Cardinality(Chunk) = c - a + 1
  <2> HIDE DEF c
  <2> QED BY <1>2, <1>6, <1>9, FS_Interval
<1> DEFINE k == s + c + 1
<1>11. pos + Cardinality(Chunk) = k BY <1>1, <1>2, <1>3, <1>6, <1>10
<1>12. k \in Nat /\ pos < k /\ k <= end /\ s < k /\ k <= s + BLOCK_SIZE
  BY <1>1, <1>2, <1>3, <1>6, Sizes
<1> HIDE DEF k
<1>13. k \in Nat /\ pos < k /\ k <= end /\ BLOCK_SIZE * log_block_nr < k
         /\ k <= BLOCK_SIZE * (log_block_nr + 1) /\ pos + Cardinality(Chunk) = k
  BY <1>3, <1>11, <1>12 DEF l, s
<1> QED BY <1>5, <1>13 DEF l

\* The number of blocks of a file of s units.
LEMMA RoundUp ==
    ASSUME NEW s \in Nat
    PROVE  /\ DIVROUNDUP(s, BLOCK_SIZE) \in Nat
           /\ \A e \in Nat : DIVROUNDUP(s, BLOCK_SIZE) <= e <=> s <= BLOCK_SIZE * e
<1> DEFINE n == s + BLOCK_SIZE - 1
           d == n \div BLOCK_SIZE
<1>1. n \in Nat /\ d = DIVROUNDUP(s, BLOCK_SIZE) BY Sizes DEF DIVROUNDUP
<1> HIDE DEF n
<1>2. d \in Nat BY <1>1, DivMod, Sizes
<1>3. ASSUME NEW e \in Nat PROVE d <= e <=> s <= BLOCK_SIZE * e
  <2>1. (n < BLOCK_SIZE * (e + 1)) <=> (d < e + 1) BY <1>1, DivBound, Sizes, SMTT(30)
  <2>2. BLOCK_SIZE * (e + 1) = BLOCK_SIZE * e + BLOCK_SIZE /\ BLOCK_SIZE * e \in Nat BY Sizes
  <2> HIDE DEF d
  <2>3. (n < BLOCK_SIZE * (e + 1)) <=> (s <= BLOCK_SIZE * e) BY <2>2, Sizes DEF n
  <2> QED BY <1>2, <2>1, <2>3
<1> HIDE DEF d
<1> QED BY <1>1, <1>2, <1>3

\* A write into block l makes the file at least l + 1 blocks long.
LEMMA RoundUpMax ==
    ASSUME NEW s \in Nat, NEW k \in Nat, NEW l \in Nat,
           BLOCK_SIZE * l < k, k <= BLOCK_SIZE * (l + 1)
    PROVE  DIVROUNDUP(IF k > s THEN k ELSE s, BLOCK_SIZE)
             = IF l + 1 > DIVROUNDUP(s, BLOCK_SIZE) THEN l + 1 ELSE DIVROUNDUP(s, BLOCK_SIZE)
<1> DEFINE d == DIVROUNDUP(s, BLOCK_SIZE)
           e == DIVROUNDUP(k, BLOCK_SIZE)
<1>1. d \in Nat /\ e \in Nat BY RoundUp
<1>2. e <= l + 1 BY RoundUp
<1>3. ~(e <= l) 
  <2>1. e <= l <=> k <= BLOCK_SIZE * l BY RoundUp
  <2>2. BLOCK_SIZE * l \in Nat BY Sizes
  <2> QED BY <2>1, <2>2
<1>4. e = l + 1 BY <1>1, <1>2, <1>3
<1>5. k > s => d <= e
  <2>1. k <= BLOCK_SIZE * e BY <1>1, RoundUp
  <2>2. BLOCK_SIZE * e \in Nat BY <1>1, Sizes
  <2>3. k > s => s <= BLOCK_SIZE * e BY <2>1, <2>2
  <2> QED BY <1>1, <2>3, RoundUp
<1>6. k <= s => e <= d
  <2>1. s <= BLOCK_SIZE * d BY <1>1, RoundUp
  <2>2. BLOCK_SIZE * d \in Nat BY <1>1, Sizes
  <2>3. k <= s => k <= BLOCK_SIZE * d BY <2>1, <2>2
  <2> QED BY <1>1, <2>3, RoundUp
<1> HIDE DEF d, e
<1>7. CASE k > s BY <1>1, <1>4, <1>5, <1>7 DEF d, e
<1>8. CASE ~(k > s)
  <2>1. k <= s BY <1>8
  <2>2. l + 1 <= d BY <1>4, <1>6, <2>1
  <2> QED BY <1>1, <1>8, <2>2 DEF d
<1> QED BY <1>7, <1>8

-----------------------------------------------------------------------------
(* A step of testfs_write_data, and what it may change *)

\* The places of a logical block and of the pointer blocks above it.
Middle(l) == IF IsIndirect(l) THEN IndirectPlace ELSE InnerPlace(Outer(l))
PathPlaces(l) == {DataPlace(l)} \cup (IF IsDirect(l) THEN {} ELSE {Middle(l)})
                   \cup (IF IsDirect(l) \/ IsIndirect(l) THEN {} ELSE {DindirectPlace})

\* If the pointer block x of the path that is at the place z(p) is written, the one
\* below it is new.
OnPath(x, l, N, z(_)) ==
    \/ x = z(DataPlace(l))
    \/ ~IsDirect(l) /\ DataPlace(l) \in N /\ x = z(Middle(l))
    \/ ~IsDirect(l) /\ ~IsIndirect(l) /\ Middle(l) \in N /\ x = z(DindirectPlace)

\* The write of logical block l of file nr, one of the files F, which adds the
\* blocks B at the places N, on the path to block l.
WriteStep(F, B, N) ==
    LET l == log_block_nr
        Z(p) == Walk(disk', in', p)
    IN
    /\ InWrite /\ Advance
    /\ N \subseteq Place /\ B \subseteq Block /\ B \cap freemap = {}
    /\ \A p \in N : At(nr, p) = 0 /\ Z(p) \in B /\ Visited(l + 1, p)
    /\ \A m \in Log : DataPlace(m) \in N => m = l
    /\ \A b \in B : \E p \in N : Z(p) = b
    /\ \A p, q \in N : Z(p) = Z(q) => p = q
    /\ \A p \in Place : p \notin N => Z(p) = At(nr, p)
    /\ \A f \in F : f # nr => \A p \in Place : Walk(disk', dinode[f], p) = At(f, p)
    /\ Z(DataPlace(l)) # 0
    /\ \A f \in F, m \in Log : ~(f = nr /\ m = l) /\ At(f, DataPlace(m)) # 0 =>
            disk'[At(f, DataPlace(m))] = disk[At(f, DataPlace(m))]
    /\ disk'[Z(DataPlace(l))] = NewData(IF At(nr, DataPlace(l)) = 0 THEN ZeroBlock
                                        ELSE disk[At(nr, DataPlace(l))])
    /\ \A x \in Block : x \notin freemap \cup B => disk'[x] = disk[x]
    /\ disk' \in [Block -> [Unit -> Ptr \cup Inode]] /\ in' \in Dinodes
    /\ in'.i_size = in.i_size /\ in'.block_count = in.block_count + Cardinality(B)
    /\ freemap' = freemap \cup B /\ used' = used + Cardinality(B) /\ used' <= MaxFsBlocks
    /\ dirty' \in BOOLEAN /\ (~dirty' => ~dirty /\ in' = in /\ At(nr, DataPlace(l)) # 0)
    /\ N \subseteq PathPlaces(l)
    /\ \A x \in Block : disk'[x] # disk[x] => OnPath(x, l, N, Z)
    /\ \A x \in freemap : x # Z(DataPlace(l)) => \A u \in Unit : disk[x][u] \in {0, disk'[x][u]}

\* testfs_read_data reads a unit from the block at its place.
LEMMA ReadUnit ==
    ASSUME NEW f, NEW off
    PROVE  stored_unit(Copy(f), off) = Ent(disk, At(f, DataPlace(off \div BLOCK_SIZE)), off % BLOCK_SIZE)
<1>1. At(f, DataPlace(off \div BLOCK_SIZE)) = DataAt(disk, Copy(f), off \div BLOCK_SIZE) BY WalkIs DEF At
<1> QED BY <1>1 DEF stored_unit, read_block, Entry, Ent, DataAt

\* The block at a place after the step.
After(f, p) == Walk(disk', IF f = nr THEN in' ELSE dinode[f], p)

\* After the step the blocks of the files are again marked and each at one place:
\* those at the places N of the file nr are new, the others are where they were.
LEMMA WritePlaces ==
    ASSUME NEW F, Base(F), NEW B, NEW N, WriteStep(F, B, N)
    PROVE  /\ \A f \in F, p \in Place :
                  /\ After(f, p) \in Ptr /\ (After(f, p) # 0 => After(f, p) \in freemap \cup B)
                  /\ At(f, p) \in {0, After(f, p)}
                  /\ After(f, p) = At(f, p) \/ (f = nr /\ p \in N /\ After(f, p) \in B)
           /\ \A f, g \in F : \A p, q \in Place :
                  After(f, p) # 0 /\ After(f, p) = After(g, q) => f = g /\ p = q
<1>1. freemap \subseteq Block /\ RootedIn(F) /\ SingleIn(F) BY DEF Base, TypeOK
<1>2. /\ B \subseteq Block /\ B \cap freemap = {}
      /\ \A p \in N : At(nr, p) = 0 /\ After(nr, p) \in B
      /\ \A p, q \in N : After(nr, p) = After(nr, q) => p = q
      /\ \A p \in Place : p \notin N => After(nr, p) = At(nr, p)
      /\ \A f \in F : f # nr => \A p \in Place : After(f, p) = At(f, p)
  BY DEF WriteStep, After
<1>3. 0 \notin B /\ 0 \notin freemap BY <1>1, <1>2, FileBlocksAssumption DEF Block
<1>4. ASSUME NEW f \in F, NEW p \in Place, ~(f = nr /\ p \in N)
      PROVE  After(f, p) = At(f, p) /\ After(f, p) \notin B
  <2>1. After(f, p) = At(f, p) BY <1>2, <1>4
  <2>2. At(f, p) = 0 \/ At(f, p) \in freemap BY <1>1 DEF RootedIn
  <2> QED BY <1>2, <1>3, <2>1, <2>2
<1>5. ASSUME NEW f \in F, NEW p \in Place
      PROVE  /\ After(f, p) \in Ptr /\ (After(f, p) # 0 => After(f, p) \in freemap \cup B)
             /\ At(f, p) \in {0, After(f, p)}
             /\ After(f, p) = At(f, p) \/ (f = nr /\ p \in N /\ After(f, p) \in B)
  <2>1. CASE f = nr /\ p \in N BY <1>2, <2>1 DEF Ptr
  <2>2. CASE ~(f = nr /\ p \in N)
    <3>1. After(f, p) = At(f, p) BY <1>4, <2>2
    <3> QED BY <1>1, <3>1 DEF RootedIn
  <2> QED BY <2>1, <2>2
<1>6. ASSUME NEW f \in F, NEW g \in F, NEW p \in Place, NEW q \in Place,
             After(f, p) # 0, After(f, p) = After(g, q)
      PROVE  f = g /\ p = q
  <2>1. CASE f = nr /\ p \in N
    <3>1. After(g, q) \in B BY <1>2, <1>6, <2>1
    <3>2. g = nr /\ q \in N BY <1>4, <3>1
    <3> QED BY <1>2, <1>6, <2>1, <3>2
  <2>2. CASE ~(f = nr /\ p \in N)
    <3>1. After(f, p) = At(f, p) /\ After(f, p) \notin B BY <1>4, <2>2
    <3>2. ~(g = nr /\ q \in N) BY <1>2, <1>6, <3>1
    <3>3. After(g, q) = At(g, q) BY <1>4, <3>2
    <3> QED BY <1>1, <1>6, <3>1, <3>3, ZenonT(30) DEF SingleIn
  <2> QED BY <2>1, <2>2
<1> QED BY <1>5, <1>6

\* No file loses a block, and the new ones are counted.
LEMMA WriteTree ==
    ASSUME FInv, Base(Inode), NEW B, NEW N, WriteStep(Inode, B, N)
    PROVE  Rooted' /\ Single' /\ Covered' /\ Counted'
<1> DEFINE Z(f, p) == After(f, p)
<1>1. /\ pc = "write" /\ pc' = pc /\ nr' = nr /\ nr \in Inode /\ nr \in inodes /\ inodes' = inodes
      /\ dinode' = dinode /\ inodes \subseteq Inode /\ freemap \subseteq Block
  BY DEF FInv, TypeOK, Writing, WriteStep, InWrite, Advance
<1>2. Rooted /\ Single /\ Covered /\ Counted BY DEF FInv
<1>3. \A f, p : At(f, p)' = Z(f, p) BY <1>1 DEF At, Copy, After
<1>4. /\ N \subseteq Place /\ B \subseteq Block /\ B \cap freemap = {}
      /\ \A p \in N : At(nr, p) = 0 /\ Z(nr, p) \in B
      /\ \A b \in B : \E p \in N : Z(nr, p) = b
      /\ \A p \in Place : p \notin N => Z(nr, p) = At(nr, p)
      /\ \A f \in Inode : f # nr => \A p \in Place : Z(f, p) = At(f, p)
      /\ freemap' = freemap \cup B /\ used' = used + Cardinality(B)
      /\ in'.block_count = in.block_count + Cardinality(B)
  BY DEF WriteStep, After
<1>5. 0 \notin B /\ 0 \notin freemap BY <1>1, <1>4, FileBlocksAssumption DEF Block
<1> HIDE DEF Z
<1>6. Rooted'
  <2> SUFFICES ASSUME NEW f \in Inode, NEW p \in Place
               PROVE  Z(f, p) \in Ptr /\ (Z(f, p) # 0 => Z(f, p) \in freemap' /\ f \in inodes')
    BY <1>3 DEF Rooted
  <2>1. Z(f, p) \in Ptr /\ (Z(f, p) # 0 => Z(f, p) \in freemap \cup B) BY WritePlaces DEF Z
  <2>2. CASE f = nr BY <1>1, <1>4, <2>1, <2>2
  <2>3. CASE f # nr BY <1>1, <1>2, <1>4, <2>1, <2>3 DEF Rooted
  <2> QED BY <2>2, <2>3
<1>8. Single'
  <2> SUFFICES ASSUME NEW f \in Inode, NEW g \in Inode, NEW p \in Place, NEW q \in Place,
                      Z(f, p) # 0, Z(f, p) = Z(g, q)
               PROVE  f = g /\ p = q
    BY <1>3 DEF Single
  <2> QED BY WritePlaces DEF Z
<1>9. Covered'
  <2> SUFFICES ASSUME NEW b \in freemap \cup B
               PROVE  \E f \in inodes : \E p \in Place : Z(f, p) = b
    BY <1>1, <1>3, <1>4 DEF Covered
  <2>1. CASE b \in B
    <3>1. PICK p \in N : Z(nr, p) = b BY <1>4, <2>1
    <3> QED BY <1>1, <1>4, <3>1
  <2>2. CASE b \in freemap
    <3>1. PICK f \in inodes : \E p \in Place : At(f, p) = b BY <1>2, <2>2 DEF Covered
    <3>2. PICK p \in Place : At(f, p) = b BY <3>1
    <3>3. ~(f = nr /\ p \in N) BY <1>4, <1>5, <2>2, <3>2
    <3>4. f \in Inode /\ Z(f, p) = b BY <1>1, <1>4, <3>2, <3>3
    <3> QED BY <3>4
  <2> QED BY <2>1, <2>2
<1>10. Counted'
  <2>1. used' = Cardinality(freemap')
    <3>1. Cardinality(freemap \cup B) = Cardinality(freemap) + Cardinality(B) - Cardinality(freemap \cap B)
      BY <1>1, <1>4, BlockSets, FS_Union
    <3>2. freemap \cap B = {} BY <1>4
    <3>3. Cardinality(freemap \cap B) = 0 BY <3>2, FS_EmptySet
    <3>4. Cardinality(freemap) \in Nat /\ Cardinality(B) \in Nat BY <1>1, <1>4, BlockSets
    <3> QED BY <1>2, <1>4, <3>1, <3>3, <3>4 DEF Counted
  <2>2. ASSUME NEW f \in inodes
        PROVE  Copy(f)'.block_count = Cardinality(Own(f)')
    <3> DEFINE O == {Z(f, p) : p \in Place} \ {0}
    <3>1. Own(f)' = O BY <1>3 DEF Own
    <3>2. f \in Inode BY <1>1
    <3>3. Own(f) \subseteq freemap BY <1>2, <3>2 DEF Own, Rooted
    <3>4. CASE f # nr
      <4>1. \A p \in Place : Z(f, p) = At(f, p) BY <1>4, <3>2, <3>4
      <4>2. O = Own(f) BY <4>1 DEF Own
      <4>3. Copy(f)' = Copy(f) BY <1>1, <3>4 DEF Copy
      <4> QED BY <1>2, <3>1, <4>2, <4>3 DEF Counted
    <3>5. CASE f = nr
      <4>1. O = Own(f) \cup B
        <5>1. ASSUME NEW x \in O PROVE x \in Own(f) \cup B
          <6>1. PICK p \in Place : x = Z(f, p) /\ x # 0 BY <5>1
          <6>2. CASE p \in N BY <1>4, <3>5, <6>1, <6>2
          <6>3. CASE p \notin N
            <7>1. x = At(f, p) BY <1>4, <3>5, <6>1, <6>3
            <7> QED BY <6>1, <7>1 DEF Own
          <6> QED BY <6>2, <6>3
        <5>2. ASSUME NEW x \in Own(f) PROVE x \in O
          <6>1. PICK p \in Place : x = At(f, p) /\ x # 0 BY <5>2 DEF Own
          <6>2. p \notin N BY <1>4, <3>5, <6>1
          <6>3. Z(f, p) = x BY <1>4, <3>5, <6>1, <6>2
          <6> QED BY <6>1, <6>3
        <5>3. ASSUME NEW x \in B PROVE x \in O
          <6>1. PICK p \in N : Z(f, p) = x BY <1>4, <3>5, <5>3
          <6>2. p \in Place /\ x # 0 BY <1>4, <1>5, <5>3
          <6> QED BY <6>1, <6>2
        <5> HIDE DEF O
        <5> QED BY <5>1, <5>2, <5>3
      <4> HIDE DEF O
      <4>2. Own(f) \subseteq Block BY <1>1, <3>3
      <4>3. Own(f) \cap B = {} BY <1>4, <3>3
      <4>4. Cardinality(Own(f) \cup B) = Cardinality(Own(f)) + Cardinality(B) - Cardinality(Own(f) \cap B)
        BY <1>4, <4>2, BlockSets, FS_Union
      <4>5. Cardinality(Own(f) \cap B) = 0 BY <4>3, FS_EmptySet
      <4>6. Cardinality(Own(f)) \in Nat /\ Cardinality(B) \in Nat BY <1>4, <4>2, BlockSets
      <4>7. Copy(f)' = in' /\ Copy(f) = in BY <1>1, <3>5 DEF Copy
      <4>8. in.block_count = Cardinality(Own(f)) BY <1>2, <4>7 DEF Counted
      <4> QED BY <1>4, <3>1, <4>1, <4>4, <4>5, <4>6, <4>7, <4>8
    <3> QED BY <3>4, <3>5
  <2> QED BY <1>1, <2>1, <2>2 DEF Counted
<1> QED BY <1>6, <1>8, <1>9, <1>10

\* The file holds the new data in the units of the chunk, and every other unit
\* of the files is as it was.
LEMMA WriteUnits ==
    ASSUME NEW F, Base(F), NEW B, NEW N, WriteStep(F, B, N),
           \A f \in F, off \in Offset :
              Ent(disk, At(f, DataPlace(off \div BLOCK_SIZE)), off % BLOCK_SIZE)
                = IF off \in written[f] THEN Data(f) ELSE 0
    PROVE  \A f \in F, off \in Offset :
              Ent(disk', After(f, DataPlace(off \div BLOCK_SIZE)), off % BLOCK_SIZE)
                = IF off \in written'[f] THEN Data(f) ELSE 0
<1> DEFINE Z(f, p) == After(f, p)
           l == log_block_nr
           P(m) == DataPlace(m)
<1>1. /\ nr \in Inode /\ F \subseteq Inode
      /\ written \in [Inode -> SUBSET Offset] /\ disk \in [Block -> [Unit -> Ptr \cup Inode]]
      /\ written' = [written EXCEPT ![nr] = @ \cup {l * BLOCK_SIZE + u : u \in Chunk}]
  BY DEF Base, TypeOK, WriteStep, Advance
<1>2. \A f \in F, off \in Offset :
         Ent(disk, At(f, P(off \div BLOCK_SIZE)), off % BLOCK_SIZE)
            = IF off \in written[f] THEN Data(f) ELSE 0
  OBVIOUS
<1>3. l \in Log
  <2>1. TypeOK /\ InWrite BY DEF Base, WriteStep
  <2> QED BY <2>1, ChunkIs
<1>5. /\ \A p \in Place : p \notin N => Z(nr, p) = At(nr, p)
      /\ \A p \in N : At(nr, p) = 0
      /\ \A f \in F : f # nr => \A p \in Place : Z(f, p) = At(f, p)
      /\ Z(nr, P(l)) # 0
      /\ \A f \in F, m \in Log : ~(f = nr /\ m = l) /\ At(f, P(m)) # 0 =>
            disk'[At(f, P(m))] = disk[At(f, P(m))]
      /\ disk'[Z(nr, P(l))] = NewData(IF At(nr, P(l)) = 0 THEN ZeroBlock ELSE disk[At(nr, P(l))])
      /\ \A m \in Log : P(m) \in N => m = l
  BY DEF WriteStep, After
<1> HIDE DEF Z, l
<1>6. \A m \in Log : P(m) \in Place BY PlaceKinds
<1> HIDE DEF P
<1>7. ASSUME NEW f \in F, NEW off \in Offset
      PROVE  Ent(disk', Z(f, P(off \div BLOCK_SIZE)), off % BLOCK_SIZE)
                = IF off \in written'[f] THEN Data(f) ELSE 0
  <2> DEFINE m == off \div BLOCK_SIZE
             u == off % BLOCK_SIZE
  <2>1. m \in Log /\ u \in Unit /\ off = BLOCK_SIZE * m + u BY OffsetParts
  <2>2. f \in Inode BY <1>1
  <2>3. Ent(disk, At(f, P(m)), u) = IF off \in written[f] THEN Data(f) ELSE 0
    BY <1>2
  <2> HIDE DEF m, u
  <2>4. CASE f = nr /\ m = l
    <3>1. u \in Chunk <=> off \in {l * BLOCK_SIZE + v : v \in Chunk}
      <4>1. l \in Nat /\ Chunk \subseteq Unit /\ Unit \subseteq Nat /\ off = l * BLOCK_SIZE + u
        BY <1>3, <2>1, <2>4, Sizes DEF Log, Chunk
      <4>2. ASSUME NEW v \in Chunk, off = l * BLOCK_SIZE + v PROVE v = u
        <5>1. l * BLOCK_SIZE \in Nat BY <4>1, Sizes
        <5> QED BY <2>1, <4>1, <4>2, <5>1
      <4> QED BY <4>1, <4>2
    <3>2. off \in written'[f] <=> off \in written[f] \/ u \in Chunk
      BY <1>1, <2>4, <3>1
    <3> DEFINE old == IF At(nr, P(l)) = 0 THEN ZeroBlock ELSE disk[At(nr, P(l))]
    <3>3. Ent(disk, At(f, P(m)), u) = old[u] BY <2>1, <2>4 DEF Ent, ZeroBlock
    <3>4. Ent(disk', Z(f, P(m)), u) = NewData(old)[u] BY <1>5, <2>4 DEF Ent
    <3> HIDE DEF old
    <3>5. NewData(old)[u] = IF u \in Chunk THEN Data(nr) ELSE old[u] BY <2>1 DEF NewData
    <3>6. Ent(disk', Z(f, P(m)), u) = IF off \in written'[f] THEN Data(f) ELSE 0
      BY <2>3, <2>4, <3>2, <3>3, <3>4, <3>5
    <3> QED BY <3>6 DEF m, u
  <2>5. CASE ~(f = nr /\ m = l)
    <3>1. off \in written'[f] <=> off \in written[f]
      <4>1. CASE f # nr BY <1>1, <2>2, <4>1
      <4>2. CASE f = nr
        <5>1. m # l BY <2>5, <4>2
        <5>2. off \notin {l * BLOCK_SIZE + v : v \in Chunk}
          <6> SUFFICES ASSUME NEW v \in Chunk, off = l * BLOCK_SIZE + v PROVE FALSE OBVIOUS
          <6>1. v \in Unit BY DEF Chunk
          <6>2. off \div BLOCK_SIZE = l BY <1>3, <6>1, UnitOffset
          <6> QED BY <5>1, <6>2 DEF m
        <5> QED BY <1>1, <4>2, <5>2
      <4> QED BY <4>1, <4>2
    <3>2. CASE f = nr /\ P(m) \in N
      <4>1. m = l BY <1>5, <2>1, <3>2
      <4> QED BY <2>5, <3>2, <4>1
    <3>3. CASE ~(f = nr /\ P(m) \in N)
      <4>1. Z(f, P(m)) = At(f, P(m)) BY <1>5, <1>6, <2>1, <2>2, <3>3
      <4>2. Ent(disk', At(f, P(m)), u) = Ent(disk, At(f, P(m)), u)
        BY <1>5, <2>1, <2>2, <2>5 DEF Ent
      <4>3. Ent(disk', Z(f, P(m)), u) = IF off \in written'[f] THEN Data(f) ELSE 0
        BY <2>3, <3>1, <4>1, <4>2
      <4> QED BY <4>3 DEF m, u
    <3> QED BY <3>2, <3>3
  <2> QED BY <2>4, <2>5
<1> QED BY <1>7 DEF Z, P

LEMMA WriteData ==
    ASSUME FInv, Base(Inode), NEW B, NEW N, WriteStep(Inode, B, N)
    PROVE  StoredAsWritten' /\ FreeIsZero' /\ NotWritten'
<1>1. /\ pc = "write" /\ pc' = pc /\ nr' = nr /\ nr \in Inode /\ nr \in inodes /\ inodes' = inodes
      /\ dinode' = dinode /\ inodes \subseteq Inode /\ freemap \subseteq Block
      /\ written \in [Inode -> SUBSET Offset] /\ disk \in [Block -> [Unit -> Ptr \cup Inode]]
      /\ written' = [written EXCEPT ![nr] = @ \cup {log_block_nr * BLOCK_SIZE + u : u \in Chunk}]
  BY DEF FInv, TypeOK, Writing, WriteStep, InWrite, Advance
<1>2. StoredAsWritten /\ FreeIsZero /\ NotWritten /\ Rooted BY DEF FInv
<1>3. /\ \A x \in Block : x \notin freemap \cup B => disk'[x] = disk[x]
      /\ freemap' = freemap \cup B
  BY DEF WriteStep
<1>4. \A f, off : stored_unit(Copy(f), off)'
                    = Ent(disk', After(f, DataPlace(off \div BLOCK_SIZE)), off % BLOCK_SIZE)
  <2> SUFFICES ASSUME NEW f, NEW off
               PROVE  stored_unit(Copy(f), off)'
                        = Ent(disk', After(f, DataPlace(off \div BLOCK_SIZE)), off % BLOCK_SIZE)
    OBVIOUS
  <2> DEFINE n == IF f = nr THEN in' ELSE dinode[f]
  <2>1. Copy(f)' = n BY <1>1 DEF Copy
  <2> HIDE DEF n
  <2>2. Walk(disk', n, DataPlace(off \div BLOCK_SIZE)) = DataAt(disk', n, off \div BLOCK_SIZE) BY WalkIs
  <2>3. stored_unit(Copy(f), off)' = Ent(disk', DataAt(disk', n, off \div BLOCK_SIZE), off % BLOCK_SIZE)
    BY <2>1 DEF stored_unit, read_block, Entry, Ent, DataAt
  <2> QED BY <2>2, <2>3 DEF n, After
<1>5. ASSUME NEW f \in Inode, NEW off \in Offset
      PROVE  Ent(disk, At(f, DataPlace(off \div BLOCK_SIZE)), off % BLOCK_SIZE)
               = IF off \in written[f] THEN Data(f) ELSE 0
  <2>1. CASE f \in inodes BY <1>2, <2>1, ReadUnit DEF StoredAsWritten
  <2>2. CASE f \notin inodes
    <3>1. DataPlace(off \div BLOCK_SIZE) \in Place BY OffsetParts, PlaceKinds
    <3>2. At(f, DataPlace(off \div BLOCK_SIZE)) = 0 BY <1>2, <2>2, <3>1 DEF Rooted
    <3>3. written[f] = {} BY <1>2, <2>2 DEF NotWritten
    <3> QED BY <3>2, <3>3 DEF Ent
  <2> QED BY <2>1, <2>2
<1>6. \A f \in Inode, off \in Offset :
         Ent(disk', After(f, DataPlace(off \div BLOCK_SIZE)), off % BLOCK_SIZE)
            = IF off \in written'[f] THEN Data(f) ELSE 0
  BY <1>5, WriteUnits
<1>7. StoredAsWritten'
  <2> SUFFICES ASSUME NEW f \in inodes, NEW off \in Offset
               PROVE  stored_unit(Copy(f), off)' = IF off \in written'[f] THEN Data(f) ELSE 0
    BY <1>1 DEF StoredAsWritten, Data
  <2> QED BY <1>1, <1>4, <1>6
<1>8. FreeIsZero'
  <2>1. \A f \in Inode \ inodes : dinode[f] = Zeroed BY <1>2 DEF FreeIsZero
  <2>2. \A b \in Block : b \notin freemap \cup B => disk'[b] = ZeroBlock BY <1>2, <1>3 DEF FreeIsZero
  <2>3. \A b \in Block \ freemap' : disk'[b] = ZeroBlock BY <1>3, <2>2
  <2> QED BY <1>1, <2>1, <2>3 DEF FreeIsZero, Zeroed, ZeroBlock
<1>9. NotWritten'
  <2> SUFFICES ASSUME NEW f \in Inode, f \notin inodes PROVE written'[f] = {}
    BY <1>1 DEF NotWritten
  <2> QED BY <1>1, <1>2 DEF NotWritten
<1> QED BY <1>7, <1>8, <1>9

\* The write goes on behind the units of the chunk.
LEMMA WriteGoesOn ==
    ASSUME TypeOK, NEW F, NEW B, NEW N, WriteStep(F, B, N), start <= pos
    PROVE  TypeOK' /\ start' <= pos' /\ pos' <= end' /\ pos' <= MAX_FILE_SIZE
<1> DEFINE l == log_block_nr
<1>1. /\ pc = "write" /\ pc' = pc /\ nr' = nr /\ nr \in Inode /\ inodes' = inodes
      /\ dinode' = dinode /\ start' = start /\ end' = end /\ TypeOK /\ InWrite
      /\ start \in Offset /\ pos \in Nat /\ end \in Nat /\ start <= pos /\ kept' = kept
      /\ written' = [written EXCEPT ![nr] = @ \cup {l * BLOCK_SIZE + u : u \in Chunk}]
      /\ pos' = pos + Cardinality(Chunk)
  BY DEF TypeOK, WriteStep, InWrite, Advance
<1>2. /\ in' \in Dinodes
      /\ freemap' = freemap \cup B /\ B \subseteq Block
      /\ used' = used + Cardinality(B) /\ used' <= MaxFsBlocks
      /\ disk' \in [Block -> [Unit -> Ptr \cup Inode]]
      /\ dirty' \in BOOLEAN
  BY DEF WriteStep
<1>3. l \in Log BY <1>1, ChunkIs
<1>4. PICK k \in Nat : /\ pos < k /\ k <= end /\ BLOCK_SIZE * l < k /\ k <= BLOCK_SIZE * (l + 1)
                       /\ pos + Cardinality(Chunk) = k
  BY <1>1, ChunkIs
<1> HIDE DEF l
<1>6. pos' = k /\ k > start /\ start \in Nat BY <1>1, <1>4, Sizes DEF Offset
<1>7. l \in Nat /\ l < MAX_BLOCK_NR BY <1>3, Sizes DEF Log
<1>8. TypeOK'
  <2>1. freemap' \in SUBSET Block BY <1>1, <1>2 DEF TypeOK
  <2>2. used' \in 0 .. MaxFsBlocks
    <3>1. Cardinality(B) \in Nat BY <1>2, BlockSets
    <3> QED BY <1>1, <1>2, <3>1, FileBlocksAssumption DEF TypeOK
  <2>3. written' \in [Inode -> SUBSET Offset]
    <3>1. {l * BLOCK_SIZE + u : u \in Chunk} \subseteq Offset
      <4> SUFFICES ASSUME NEW u \in Chunk PROVE l * BLOCK_SIZE + u \in Offset OBVIOUS
      <4>1. u \in Unit BY DEF Chunk
      <4> QED BY <1>3, <4>1, UnitOffset
    <3> DEFINE U == {l * BLOCK_SIZE + u : u \in Chunk}
    <3> HIDE DEF U
    <3>2. U \subseteq Offset /\ written' = [written EXCEPT ![nr] = @ \cup U] BY <1>1, <3>1 DEF U
    <3> QED BY <1>1, <3>2 DEF TypeOK
  <2> QED BY <1>1, <1>2, <1>6, <2>1, <2>2, <2>3 DEF TypeOK
<1>9. k <= MAX_FILE_SIZE
  <2>1. k <= BLOCK_SIZE * (l + 1) /\ BLOCK_SIZE * (l + 1) <= BLOCK_SIZE * MAX_BLOCK_NR
    BY <1>4, <1>7, Sizes
  <2>2. BLOCK_SIZE * (l + 1) \in Nat /\ BLOCK_SIZE * MAX_BLOCK_NR = MAX_FILE_SIZE BY <1>7, Sizes
  <2> QED BY <2>1, <2>2, Sizes
<1> QED BY <1>1, <1>4, <1>6, <1>8, <1>9

\* The chunk has been written, and no size has changed.
LEMMA KeptWrite ==
    ASSUME TypeOK, KeptReadable, NEW F, NEW B, NEW N, WriteStep(F, B, N)
    PROVE  KeptReadable'
<1> DEFINE l == log_block_nr
           C == {l * BLOCK_SIZE + u : u \in Chunk}
<1>1. /\ pc = "write" /\ pc' = pc /\ nr' = nr /\ nr \in Inode /\ dinode' = dinode /\ start' = start
      /\ kept' = kept /\ pos \in Nat /\ end \in Nat /\ InWrite /\ in'.i_size = in.i_size
      /\ written' = [written EXCEPT ![nr] = @ \cup C] /\ pos' = pos + Cardinality(Chunk)
      /\ written \in [Inode -> SUBSET Offset]
  BY DEF TypeOK, WriteStep, InWrite, Advance
<1>2. PICK k \in Nat : /\ pos < k /\ k <= end /\ BLOCK_SIZE * l < k /\ k <= BLOCK_SIZE * (l + 1)
                       /\ pos + Cardinality(Chunk) = k
  BY <1>1, ChunkIs
<1>3. ASSUME NEW u \in Nat, pos <= u, u < k PROVE u \in C
  <2>1. pos = BLOCK_SIZE * l + (pos % BLOCK_SIZE) /\ pos % BLOCK_SIZE \in Nat /\ l \in Nat
    <3>1. BLOCK_SIZE \in Nat \ {0} /\ pos \in Nat /\ l = pos \div BLOCK_SIZE BY <1>1, Sizes DEF log_block_nr
    <3>2. pos = BLOCK_SIZE * (pos \div BLOCK_SIZE) + (pos % BLOCK_SIZE)
          /\ pos % BLOCK_SIZE \in 0 .. BLOCK_SIZE - 1 /\ pos \div BLOCK_SIZE \in Nat
      BY ONLY <3>1, DivMod
    <3>3. pos % BLOCK_SIZE \in Nat BY <3>1, <3>2
    <3> HIDE DEF l
    <3> QED BY <3>1, <3>2, <3>3
  <2> DEFINE s == BLOCK_SIZE * l
  <2>2. s \in Nat /\ BLOCK_SIZE * (l + 1) = s + BLOCK_SIZE /\ l * BLOCK_SIZE = s BY <2>1, Sizes
  <2> HIDE DEF l
  <2>3. s <= pos BY <2>1, <2>2
  <2>4. k <= s + BLOCK_SIZE BY <1>2, <2>2
  <2> HIDE DEF s
  <2>5. u - s \in Unit /\ s + (u - s) = u BY <1>1, <1>2, <1>3, <2>2, <2>3, <2>4, Sizes DEF Unit
  <2>6. u - s \in Chunk BY <1>1, <1>2, <1>3, <2>2, <2>5 DEF Chunk, l
  <2> QED BY <2>2, <2>5, <2>6
<1> HIDE DEF C
<1>4. \A f \in Inode : written[f] \subseteq written'[f] BY <1>1
<1>5. ASSUME NEW f \in Inode PROVE \A u \in kept'[f] : u \in written'[f] /\ u < Copy(f)'.i_size
  <2>1. Copy(f)'.i_size = Copy(f).i_size BY <1>1 DEF Copy
  <2> QED BY <1>1, <1>4, <2>1 DEF KeptReadable, Kept
<1>6. ASSUME NEW u \in Offset, start <= u, u < pos' PROVE u \in written'[nr]
  <2>1. u \in Nat BY Sizes DEF Offset
  <2>2. CASE u < pos BY <1>1, <1>4, <1>6, <2>2 DEF KeptReadable
  <2>3. CASE pos <= u BY <1>1, <1>2, <1>3, <1>6, <2>1, <2>3
  <2> QED BY <1>1, <2>1, <2>2, <2>3
<1> QED BY <1>1, <1>5, <1>6 DEF KeptReadable, Kept, Offset, Inode, MAX_FILE_SIZE, MAX_BLOCK_NR, NR_INDIRECT_BLOCKS

\* Steps that change neither what is written nor a size, unless a write begins.
LEMMA KeptStill ==
    ASSUME KeptReadable, written' = written, kept' = kept,
           \A f \in Inode : Copy(f)'.i_size = Copy(f).i_size,
           pc' = "write" => pos' = start' \/ (pc = "write" /\ nr' = nr /\ start' = start /\ pos' = pos),
           start' \in Nat
    PROVE  KeptReadable'
<1>1. \A f \in Inode : \A u \in kept'[f] : u \in written'[f] /\ u < Copy(f)'.i_size
  BY DEF KeptReadable, Kept
<1>2. ASSUME pc' = "write", NEW u \in Offset, start' <= u, u < pos' PROVE u \in written'[nr']
  <2>1. u \in Nat BY Sizes DEF Offset
  <2> QED BY <1>2, <2>1 DEF KeptReadable
<1> QED BY <1>1, <1>2 DEF KeptReadable, Kept, Offset, Inode, MAX_FILE_SIZE, MAX_BLOCK_NR, NR_INDIRECT_BLOCKS

\* The end of a write: what it keeps is before the new end of the file.
LEMMA KeptSync ==
    ASSUME TypeOK, KeptReadable, pc = "write", NEW d \in BOOLEAN, ~d => in = dinode[nr],
           sync_and_put(Grown, d), Keeps(d), written' = written
    PROVE  KeptReadable'
<1> DEFINE U == {u \in Offset : start <= u /\ u < pos}
           z == IF pos > start /\ pos > in.i_size THEN pos ELSE in.i_size
           G == Grown
<1>1. /\ pc' = "idle" /\ dinode' = IF d THEN [dinode EXCEPT ![nr] = G] ELSE dinode
      /\ kept' = IF d THEN [kept EXCEPT ![nr] = @ \cup U] ELSE kept
  BY DEF sync_and_put, Keeps
<1>2. /\ nr \in Inode /\ in \in Dinodes /\ dinode \in [Inode -> Dinodes] /\ pos \in Nat /\ start \in Nat
      /\ kept \in [Inode -> SUBSET Offset]
  BY Sizes DEF TypeOK, Offset
<1>3. G = [in EXCEPT !.i_size = z] BY DEF Grown
<1>4. in.i_size \in Nat BY <1>2, Sizes DEF Dinodes
<1>5. G.i_size = z BY <1>2, <1>3 DEF Dinodes
<1>6. ASSUME NEW f \in Inode PROVE \A u \in kept'[f] : u \in written[f] /\ u < dinode'[f].i_size
  <2>1. \A u \in kept[f] : u \in written[f] /\ u < Copy(f).i_size /\ u \in Nat
    BY <1>2, Sizes DEF KeptReadable, Kept, Offset
  <2>2. CASE f # nr
    <3>1. kept'[f] = kept[f] /\ dinode'[f] = dinode[f] /\ Copy(f) = dinode[f] BY <1>1, <1>2, <2>2 DEF Copy
    <3> QED BY <2>1, <3>1
  <2>3. CASE f = nr /\ ~d
    <3>1. kept'[f] = kept[f] /\ dinode'[f] = in /\ Copy(f) = in BY <1>1, <2>3 DEF Copy
    <3> QED BY <2>1, <3>1
  <2>4. CASE f = nr /\ d
    <3> HIDE DEF G, U
    <3>1. kept'[f] = kept[f] \cup U /\ dinode'[f] = G /\ Copy(f) = in BY <1>1, <1>2, <2>4 DEF Copy
    <3>2. \A u \in U : u \in written[f] /\ u \in Nat /\ start <= u /\ u < pos
      BY <2>4, Sizes DEF U, KeptReadable, Offset
    <3>3. \A u \in U : u < z BY <1>2, <1>4, <3>2
    <3>4. in.i_size <= z BY <1>2, <1>4
    <3>5. z \in Nat BY <1>2, <1>4
    <3> HIDE DEF z
    <3> QED BY <1>4, <1>5, <2>1, <3>1, <3>2, <3>3, <3>4, <3>5
  <2> QED BY <2>2, <2>3, <2>4
<1>7. \A f : Copy(f)' = dinode'[f] BY <1>1 DEF Copy
<1> QED BY <1>1, <1>6, <1>7 DEF KeptReadable, Kept, Inode

LEMMA KeptBegins ==
    ASSUME KeptReadable, NEW f, NEW off \in Offset, NEW size, write_data(f, off, size)
    PROVE  KeptReadable'
<1>1. /\ pc = "idle" /\ dinode' = dinode /\ written' = written /\ kept' = kept /\ start' = off
      /\ pos' = off /\ in' = dinode[f] /\ nr' = f
  BY DEF write_data
<1>2. \A g \in Inode : Copy(g)'.i_size = Copy(g).i_size BY <1>1 DEF Copy
<1>3. off \in Nat BY Sizes DEF Offset
<1> QED BY <1>1, <1>2, <1>3, KeptStill

LEMMA KeptEnds ==
    ASSUME TypeOK, KeptReadable, ~dirty => in = dinode[nr], write_done \/ write_too_big \/ write_no_space
    PROVE  KeptReadable'
<1>1. CASE write_done BY <1>1, KeptSync DEF write_done
<1>2. CASE write_too_big
  <2>1. dirty \in BOOLEAN BY DEF TypeOK
  <2> QED BY <1>2, <2>1, KeptSync DEF write_too_big
<1>3. CASE write_no_space
  <2> DEFINE d == dirty \/ Available > 0
  <2>1. /\ pc = "write" /\ sync_and_put(Grown, d) /\ Keeps(d) /\ written' = written
    BY <1>3 DEF write_no_space, InWrite
  <2>2. d \in BOOLEAN /\ (~d => in = dinode[nr]) OBVIOUS
  <2> HIDE DEF d
  <2> QED BY <2>1, <2>2, KeptSync
<1> QED BY <1>1, <1>2, <1>3

\* testfs_remove_inode forgets the file.
LEMMA KeptRemove ==
    ASSUME TypeOK, KeptReadable, NEW g \in Inode, remove_inode(g)
    PROVE  KeptReadable'
<1>1. /\ pc = "idle" /\ pc' # "write" /\ start' = start /\ pos' = pos
      /\ \/ /\ written' = [written EXCEPT ![g] = {}] /\ kept' = [kept EXCEPT ![g] = {}]
            /\ dinode' = [dinode EXCEPT ![g] = Zeroed]
         \/ written' = written /\ kept' = kept /\ dinode' = dinode
  BY DEF remove_inode, cmdVars
<1>2. kept \in [Inode -> SUBSET Offset] /\ written \in [Inode -> SUBSET Offset] /\ dinode \in [Inode -> Dinodes]
  BY DEF TypeOK
<1>3. \A f : Copy(f)' = dinode'[f] /\ Copy(f) = dinode[f] BY <1>1 DEF Copy
<1>4. \A f \in Inode : \A u \in kept'[f] : u \in written'[f] /\ u < dinode'[f].i_size
  BY <1>1, <1>2, <1>3 DEF KeptReadable, Kept
<1> QED BY <1>1, <1>3, <1>4 DEF KeptReadable, Kept, Inode

\* The file becomes long enough for the block, which is now its last one or lies
\* before its last one.
LEMMA WriteLength ==
    ASSUME FInv, NEW B, NEW N, WriteStep(Inode, B, N)
    PROVE  TypeOK' /\ Writing' /\ Within' /\ pc' # "abort"
<1> DEFINE l == log_block_nr
           Z(f, p) == Walk(disk', IF f = nr THEN in' ELSE dinode[f], p)
<1>1. /\ pc = "write" /\ pc' = pc /\ nr' = nr /\ nr \in Inode /\ nr \in inodes /\ inodes' = inodes
      /\ dinode' = dinode /\ start' = start /\ end' = end /\ TypeOK /\ InWrite
      /\ start \in Offset /\ pos \in Nat /\ end \in Nat /\ start <= pos
      /\ written' = [written EXCEPT ![nr] = @ \cup {l * BLOCK_SIZE + u : u \in Chunk}]
      /\ pos' = pos + Cardinality(Chunk) /\ (~dirty => in = dinode[nr])
      /\ in \in Dinodes /\ dinode \in [Inode -> Dinodes] /\ Within
  BY DEF FInv, TypeOK, Writing, WriteStep, InWrite, Advance
<1>2. /\ N \subseteq Place
      /\ \A p \in N : At(nr, p) = 0 /\ Visited(l + 1, p)
      /\ \A p \in Place : p \notin N => Z(nr, p) = At(nr, p)
      /\ \A f \in Inode : f # nr => \A p \in Place : Z(f, p) = At(f, p)
      /\ Z(nr, DataPlace(l)) # 0
      /\ in' \in Dinodes /\ in'.i_size = in.i_size
      /\ freemap' = freemap \cup B /\ B \subseteq Block
      /\ used' = used + Cardinality(B) /\ used' <= MaxFsBlocks
      /\ disk' \in [Block -> [Unit -> Ptr \cup Inode]]
      /\ dirty' \in BOOLEAN /\ (~dirty' => ~dirty /\ in' = in /\ At(nr, DataPlace(l)) # 0)
  BY DEF WriteStep
<1>3. l \in Log BY <1>1, ChunkIs
<1>4. PICK k \in Nat : /\ pos < k /\ k <= end /\ BLOCK_SIZE * l < k /\ k <= BLOCK_SIZE * (l + 1)
                       /\ pos + Cardinality(Chunk) = k
  BY <1>1, ChunkIs
<1>5. \A f, p : At(f, p)' = Z(f, p) BY <1>1 DEF At, Copy
<1> HIDE DEF l, Z
<1>6. pos' = k /\ k > start /\ start \in Nat BY <1>1, <1>4, Sizes DEF Offset
<1>7. l \in Nat /\ l < MAX_BLOCK_NR BY <1>3, Sizes DEF Log
<1>8. TypeOK' BY <1>1, WriteGoesOn
<1>9. Writing'
  <2>1. start' <= pos' /\ pos' <= end' /\ pos' <= MAX_FILE_SIZE BY <1>1, WriteGoesOn
  <2>2. pos' <= MAX_FILE_SIZE' BY <2>1 DEF MAX_FILE_SIZE, MAX_BLOCK_NR, NR_INDIRECT_BLOCKS
  <2> QED BY <1>1, <1>2, <2>1, <2>2 DEF Writing
<1> DEFINE G == Grown.i_size
           L == Length(nr)
           M == IF l + 1 > L THEN l + 1 ELSE L
<1>10. G = IF pos > start /\ pos > in.i_size THEN pos ELSE in.i_size BY <1>1 DEF Grown, Dinodes
<1>11. Grown'.i_size = IF k > start /\ k > in.i_size THEN k ELSE in.i_size
  BY <1>1, <1>2, <1>6 DEF Grown, Dinodes
<1>12. in.i_size \in Nat /\ in.i_size <= MAX_FILE_SIZE BY <1>1, Sizes DEF Dinodes
<1>13. G \in Nat /\ Grown'.i_size = IF k > G THEN k ELSE G
  BY <1>1, <1>4, <1>6, <1>10, <1>11, <1>12
<1>14. L = DIVROUNDUP(G, BLOCK_SIZE) BY <1>1 DEF Length
<1> HIDE DEF G
<1>15. L \in Nat BY <1>13, <1>14, RoundUp
<1>16. Length(nr)' = DIVROUNDUP(Grown'.i_size, BLOCK_SIZE) BY <1>1 DEF Length, DIVROUNDUP
<1>17. DIVROUNDUP(IF k > G THEN k ELSE G, BLOCK_SIZE) = M
  BY <1>4, <1>7, <1>13, <1>14, RoundUpMax
<1>18. Length(nr)' = M /\ M \in Nat BY <1>7, <1>13, <1>15, <1>16, <1>17
<1>19. /\ \A p \in Place : At(nr, p) # 0 => Visited(L, p)
       /\ L > 0 => At(nr, DataPlace(L - 1)) # 0
       /\ ~dirty => L = DIVROUNDUP(dinode[nr].i_size, BLOCK_SIZE)
  BY <1>1 DEF Within
<1>20. ASSUME NEW p \in Place, Z(nr, p) # 0 PROVE Visited(M, p)
  <2>1. CASE p \in N
    <3>1. l + 1 <= M /\ l + 1 \in Nat BY <1>7, <1>15
    <3> QED BY <1>2, <1>18, <2>1, <3>1, VisitedMore
  <2>2. CASE p \notin N
    <3>1. Visited(L, p) BY <1>2, <1>19, <1>20, <2>2
    <3>2. L <= M BY <1>7, <1>15
    <3> HIDE DEF L, M
    <3> QED BY <1>15, <1>18, <3>1, <3>2, VisitedMore
  <2> QED BY <2>1, <2>2
<1>21. M > 0 => Z(nr, DataPlace(M - 1)) # 0
  <2>1. CASE l + 1 > L
    <3>1. M - 1 = l BY <1>7, <1>15, <2>1
    <3> QED BY <1>2, <3>1
  <2>2. CASE ~(l + 1 > L)
    <3>1. M = L /\ L > 0 BY <1>7, <1>15, <2>2
    <3>2. At(nr, DataPlace(L - 1)) # 0 BY <1>19, <3>1
    <3>3. L - 1 \in Log
      <4>1. BLOCK_SIZE * MAX_BLOCK_NR = MAX_FILE_SIZE /\ MAX_BLOCK_NR \in Nat BY Sizes
      <4>2. pos <= MAX_FILE_SIZE BY <1>1 DEF FInv, Writing
      <4>3. G <= BLOCK_SIZE * MAX_BLOCK_NR BY <1>10, <1>12, <4>1, <4>2 DEF G
      <4>4. L <= MAX_BLOCK_NR BY <1>13, <1>14, <4>1, <4>3, RoundUp
      <4> QED BY <1>15, <3>1, <4>1, <4>4 DEF Log
    <3>4. DataPlace(L - 1) \in Place BY <3>3, PlaceKinds
    <3> HIDE DEF L, M
    <3> QED BY <1>2, <3>1, <3>2, <3>4
  <2> QED BY <2>1, <2>2
<1>22. ~dirty' => M = DIVROUNDUP(dinode[nr].i_size, BLOCK_SIZE)
  <2> SUFFICES ASSUME ~dirty' PROVE M = DIVROUNDUP(dinode[nr].i_size, BLOCK_SIZE) OBVIOUS
  <2>1. ~dirty /\ At(nr, DataPlace(l)) # 0 BY <1>2
  <2>2. DataPlace(l) \in Place BY <1>3, PlaceKinds
  <2>3. Visited(L, DataPlace(l)) BY <1>19, <2>1, <2>2
  <2>4. l < L BY <2>3, VisitedIs
  <2>5. M = L BY <1>7, <1>15, <2>4
  <2> HIDE DEF L, M
  <2> QED BY <1>19, <2>1, <2>5
<1> HIDE DEF L, M
<1>23. Within'
  <2> SUFFICES ASSUME NEW f \in Inode
               PROVE  /\ \A p \in Place : At(f, p)' # 0 => Visited(Length(f)', p)
                      /\ Length(f)' > 0 => Z(f, DataPlace(Length(f)' - 1)) # 0
                      /\ pc' = "write" /\ f = nr' /\ ~dirty' =>
                            Length(f)' = DIVROUNDUP(dinode'[f].i_size, BLOCK_SIZE)
    BY <1>5 DEF Within, Visited, DIVROUNDUP, NR_INDIRECT_BLOCKS, DataPlace
  <2>1. CASE f = nr
    <3>1. Length(f)' = M BY <1>1, <1>18, <2>1
    <3>2. \A p \in Place : At(f, p)' # 0 => Visited(Length(f)', p)
      BY <1>5, <1>20, <2>1, <3>1
    <3> QED BY <1>1, <1>21, <1>22, <2>1, <3>1, <3>2
  <2>2. CASE f # nr
    <3>1. Length(f)' = Length(f) BY <1>1, <2>2 DEF Length, DIVROUNDUP
    <3>2. /\ \A p \in Place : At(f, p) # 0 => Visited(Length(f), p)
          /\ Length(f) > 0 => At(f, DataPlace(Length(f) - 1)) # 0
      BY <1>1 DEF Within
    <3>3. \A p \in Place : At(f, p)' = At(f, p) BY <1>2, <1>5, <2>2
    <3>4. dinode[f].i_size \in Nat /\ dinode[f].i_size <= MAX_FILE_SIZE
      <4>1. dinode[f] \in Dinodes BY <1>1
      <4>2. dinode[f].i_size \in 0 .. MAX_FILE_SIZE BY <4>1 DEF Dinodes
      <4> QED BY <4>2, Sizes
    <3>5. Length(f) = DIVROUNDUP(dinode[f].i_size, BLOCK_SIZE) BY <2>2 DEF Length
    <3>6. Length(f) \in Nat /\ Length(f) <= MAX_BLOCK_NR
      BY <3>4, <3>5, RoundUp, Sizes
    <3>7. Length(f) > 0 => DataPlace(Length(f) - 1) \in Place
      <4>1. Length(f) > 0 => Length(f) - 1 \in Log BY <3>6, Sizes DEF Log
      <4> QED BY <4>1, PlaceKinds
    <3>8. Length(f) > 0 => Z(f, DataPlace(Length(f) - 1)) # 0 BY <1>2, <2>2, <3>2, <3>7
    <3> QED BY <1>1, <2>2, <3>1, <3>2, <3>3, <3>8
  <2> QED BY <2>1, <2>2
<1> QED BY <1>1, <1>8, <1>9, <1>23

LEMMA WriteKeeps ==
    ASSUME FInv, Base(Inode), NEW B, NEW N, WriteStep(Inode, B, N)
    PROVE  FInv'
<1>1. Rooted' /\ Single' /\ Covered' /\ Counted' BY WriteTree
<1>2. StoredAsWritten' /\ FreeIsZero' /\ NotWritten' BY WriteData
<1>3. TypeOK' /\ Writing' /\ Within' /\ pc' # "abort" BY WriteLength
<1> QED BY <1>1, <1>2, <1>3 DEF FInv

-----------------------------------------------------------------------------
(* The steps of testfs_write_data are such steps *)

\* The pointers of the inode that is written, as places.
LEMMA WritePointers ==
    ASSUME NEW F, Base(F), InWrite
    PROVE  /\ log_block_nr \in Log /\ nr \in F /\ nr \in Inode /\ in \in Dinodes
           /\ disk \in [Block -> [Unit -> Ptr \cup Inode]] /\ freemap \subseteq Block
           /\ \A p : At(nr, p) = Walk(disk, in, p)
           /\ \A m : At(nr, DataPlace(m)) = DataAt(disk, in, m)
           /\ \A i : At(nr, InnerPlace(i)) = Ent(disk, in.i_dindirect, i)
           /\ At(nr, IndirectPlace) = in.i_indirect
           /\ At(nr, DindirectPlace) = in.i_dindirect
           /\ read_block(in, log_block_nr) = At(nr, DataPlace(log_block_nr))
<1>1. TypeOK /\ pc = "write" /\ nr \in F BY DEF Base, InWrite
<1>2. Copy(nr) = in BY <1>1 DEF Copy
<1>3. \A p : At(nr, p) = Walk(disk, in, p) BY <1>2 DEF At
<1>4. /\ \A m : At(nr, DataPlace(m)) = DataAt(disk, in, m)
      /\ \A i : At(nr, InnerPlace(i)) = Ent(disk, in.i_dindirect, i)
      /\ At(nr, IndirectPlace) = in.i_indirect
      /\ At(nr, DindirectPlace) = in.i_dindirect
  BY <1>3, WalkIs
<1>5. read_block(in, log_block_nr) = DataAt(disk, in, log_block_nr)
  BY DEF read_block, Entry, Ent, DataAt
<1>6. log_block_nr \in Log BY <1>1, ChunkIs
<1> QED BY <1>1, <1>3, <1>4, <1>5, <1>6 DEF TypeOK

\* A step that writes only blocks of the file, or blocks that were free, changes
\* nothing of the other files.
LEMMA OthersStay ==
    ASSUME NEW F, Base(F), InWrite, NEW dk, NEW f \in F, f # nr,
           \A x \in freemap : (\A p \in Place : At(nr, p) # x) => dk[x] = disk[x]
    PROVE  /\ \A p \in Place : Walk(dk, dinode[f], p) = At(f, p)
           /\ \A m \in Log : At(f, DataPlace(m)) # 0 =>
                 dk[At(f, DataPlace(m))] = disk[At(f, DataPlace(m))]
<1> DEFINE n == dinode[f]
<1>1. RootedIn(F) /\ SingleIn(F) /\ pc = "write" BY DEF Base, InWrite
<1>2. nr \in F BY <1>1 DEF Base
<1>3. ASSUME NEW p \in Place, At(f, p) # 0 PROVE dk[At(f, p)] = disk[At(f, p)]
  <2>1. At(f, p) \in freemap BY <1>1, <1>3 DEF RootedIn
  <2>2. \A q \in Place : At(nr, q) # At(f, p) BY <1>1, <1>2, <1>3 DEF SingleIn
  <2> QED BY <2>1, <2>2
<1>4. Copy(f) = n BY DEF Copy
<1>5. \A p : At(f, p) = Walk(disk, n, p) BY <1>4 DEF At
<1> HIDE DEF n
<1>6. /\ At(f, IndirectPlace) = n.i_indirect /\ At(f, DindirectPlace) = n.i_dindirect
      /\ \A i : At(f, InnerPlace(i)) = Ent(disk, n.i_dindirect, i)
  BY <1>5, WalkIs
<1>7. /\ n.i_indirect # 0 => dk[n.i_indirect] = disk[n.i_indirect]
      /\ n.i_dindirect # 0 => dk[n.i_dindirect] = disk[n.i_dindirect]
  BY <1>3, <1>6, PlaceKinds
<1>8. \A i \in Unit : LET x == Ent(disk, n.i_dindirect, i) IN x # 0 => dk[x] = disk[x]
  BY <1>3, <1>6, PlaceKinds
<1>9. \A p \in Place : Walk(dk, n, p) = Walk(disk, n, p) BY <1>7, <1>8, WalkSame
<1>10. \A p \in Place : Walk(dk, n, p) = At(f, p) BY <1>5, <1>9
<1>11. \A m \in Log : At(f, DataPlace(m)) # 0 => dk[At(f, DataPlace(m))] = disk[At(f, DataPlace(m))]
  BY <1>3, PlaceKinds
<1> QED BY <1>10, <1>11 DEF n

LEMMA NewDataType ==
    ASSUME NEW F, Base(F), NEW old \in [Unit -> Ptr \cup Inode]
    PROVE  NewData(old) \in [Unit -> Ptr \cup Inode] /\ ZeroBlock \in [Unit -> Ptr \cup Inode]
<1>1. nr \in Inode BY DEF Base, TypeOK
<1>2. NewData(old) \in [Unit -> Ptr \cup Inode] BY <1>1 DEF NewData, Data
<1>3. ZeroBlock \in [Unit -> Ptr \cup Inode] BY DEF ZeroBlock, Ptr
<1> QED BY <1>2, <1>3

LEMMA ExistingStep ==
    ASSUME NEW F, Base(F), write_existing
    PROVE  \E B, N : WriteStep(F, B, N)
<1> DEFINE l == log_block_nr
           b == At(nr, DataPlace(l))
<1>1. /\ InWrite /\ Advance /\ freemap' = freemap /\ used' = used /\ in' = in /\ dirty' = dirty
  BY DEF write_existing
<1>2. /\ l \in Log /\ nr \in F /\ nr \in Inode /\ in \in Dinodes
      /\ disk \in [Block -> [Unit -> Ptr \cup Inode]] /\ freemap \subseteq Block
      /\ \A p : At(nr, p) = Walk(disk, in, p)
      /\ At(nr, IndirectPlace) = in.i_indirect
      /\ At(nr, DindirectPlace) = in.i_dindirect
      /\ \A i : At(nr, InnerPlace(i)) = Ent(disk, in.i_dindirect, i)
      /\ read_block(in, l) = b
  BY <1>1, WritePointers
<1> HIDE DEF l, b
<1>3. b # 0 /\ disk' = [disk EXCEPT ![b] = NewData(disk[b])] BY <1>2 DEF write_existing, l
<1>4. RootedIn(F) /\ SingleIn(F) /\ TypeOK BY DEF Base
<1>5. DataPlace(l) \in Place BY <1>2, PlaceKinds
<1>6. b \in freemap BY <1>2, <1>3, <1>4, <1>5 DEF RootedIn, b
<1>7. b \in Block /\ disk[b] \in [Unit -> Ptr \cup Inode] BY <1>2, <1>6
<1>8. /\ disk' \in [Block -> [Unit -> Ptr \cup Inode]] /\ disk'[b] = NewData(disk[b])
      /\ \A x \in Block : x # b => disk'[x] = disk[x]
  BY <1>2, <1>3, <1>7, NewDataType
<1>9. ASSUME NEW p \in Place, p # DataPlace(l), At(nr, p) # 0 PROVE disk'[At(nr, p)] = disk[At(nr, p)]
  <2>1. At(nr, p) \in freemap BY <1>2, <1>4, <1>9 DEF RootedIn
  <2>2. At(nr, p) # b BY <1>2, <1>4, <1>5, <1>9 DEF SingleIn, b
  <2> QED BY <1>2, <1>8, <2>1, <2>2
<1>10. \A p \in Place : Walk(disk', in, p) = Walk(disk, in, p)
  <2>1. /\ in.i_indirect # 0 => disk'[in.i_indirect] = disk[in.i_indirect]
        /\ in.i_dindirect # 0 => disk'[in.i_dindirect] = disk[in.i_dindirect]
    BY <1>2, <1>9, PlaceKinds, PlacesDiffer
  <2>2. \A i \in Unit : LET x == Ent(disk, in.i_dindirect, i) IN x # 0 => disk'[x] = disk[x]
    BY <1>2, <1>9, PlaceKinds, PlacesDiffer
  <2> QED BY <2>1, <2>2, WalkSame
<1>11. \A x \in freemap : (\A p \in Place : At(nr, p) # x) => disk'[x] = disk[x]
  BY <1>2, <1>5, <1>8 DEF b
<1>12. \A f \in F : f # nr =>
          /\ \A p \in Place : Walk(disk', dinode[f], p) = At(f, p)
          /\ \A m \in Log : At(f, DataPlace(m)) # 0 =>
                disk'[At(f, DataPlace(m))] = disk[At(f, DataPlace(m))]
  BY <1>1, <1>11, OthersStay
<1>13. \A m \in Log : m # l /\ At(nr, DataPlace(m)) # 0 =>
          disk'[At(nr, DataPlace(m))] = disk[At(nr, DataPlace(m))]
  BY <1>9, PlaceKinds, PlacesDiffer
<1>14. Cardinality({}) = 0 BY FS_EmptySet
<1>15. used \in 0 .. MaxFsBlocks /\ dirty \in BOOLEAN /\ MaxFsBlocks \in Nat BY <1>4, FileBlocksAssumption DEF TypeOK
<1>16. Walk(disk', in', DataPlace(l)) = b /\ b # 0 BY <1>1, <1>2, <1>3, <1>5, <1>10 DEF b
<1>17. in.block_count \in Nat BY <1>2 DEF Dinodes
<1>18. disk'[b] = NewData(IF b = 0 THEN ZeroBlock ELSE disk[b]) BY <1>3, <1>8
<1>19. \A f \in F, m \in Log : ~(f = nr /\ m = l) /\ At(f, DataPlace(m)) # 0 =>
            disk'[At(f, DataPlace(m))] = disk[At(f, DataPlace(m))]
  BY <1>12, <1>13
<1>20. \A p \in Place : Walk(disk', in', p) = At(nr, p) BY <1>1, <1>2, <1>10
<1>21. \A x \in Block : x \notin freemap => disk'[x] = disk[x] BY <1>6, <1>8
<1>22. /\ in'.block_count = in.block_count + Cardinality({}) /\ used' = used + Cardinality({})
       /\ used' <= MaxFsBlocks
  BY <1>1, <1>14, <1>15, <1>17
<1>23. /\ \A x \in Block : disk'[x] # disk[x] => x = b
       /\ \A x \in freemap : x # b => disk'[x] = disk[x]
  BY <1>2, <1>8
<1>24. WriteStep(F, {}, {})
  BY <1>1, <1>2, <1>3, <1>8, <1>12, <1>15, <1>16, <1>18, <1>19, <1>20, <1>21, <1>22, <1>23
     DEF WriteStep, OnPath, l, b
<1> QED BY <1>24

\* What is common to the steps that allocate blocks: they write the new blocks
\* and pointer blocks of the file.
Allocates(b, B, N, n) ==
    /\ InWrite /\ Advance /\ n \in Dinodes
    /\ B \subseteq Block /\ B \cap freemap = {} /\ b \in B /\ Cardinality(B) <= Available
    /\ alloc_for_inode(B, n) /\ n.i_size = in.i_size /\ n.block_count = in.block_count
    /\ N \subseteq Place /\ DataPlace(log_block_nr) \in N
    /\ \A m \in Log : DataPlace(m) \in N => m = log_block_nr
    /\ \A p \in N : At(nr, p) = 0 /\ Walk(disk', n, p) \in B /\ Visited(log_block_nr + 1, p)
    /\ \A x \in B : \E p \in N : Walk(disk', n, p) = x
    /\ \A p, q \in N : Walk(disk', n, p) = Walk(disk', n, q) => p = q
    /\ Walk(disk', n, DataPlace(log_block_nr)) = b
    /\ \A p \in Place : p \notin N => Walk(disk', n, p) = At(nr, p)
    /\ disk' \in [Block -> [Unit -> Ptr \cup Inode]] /\ disk'[b] = NewData(ZeroBlock)
    /\ \A x \in Block :
          x \notin B /\ (\A p \in Place : At(nr, p) = x => \E m \in Log : p = DataPlace(m))
            => disk'[x] = disk[x]
    /\ N \subseteq PathPlaces(log_block_nr)
    /\ LET z(p) == Walk(disk', n, p) IN
       \A x \in Block : disk'[x] # disk[x] => OnPath(x, log_block_nr, N, z)
    /\ \A x \in freemap : \A u \in Unit : disk[x][u] \in {0, disk'[x][u]}

LEMMA AllocStep ==
    ASSUME NEW F, Base(F), NEW b, NEW B, NEW N, NEW n, Allocates(b, B, N, n)
    PROVE  WriteStep(F, B, N)
<1> DEFINE l == log_block_nr
<1> USE DEF Allocates
<1>1. /\ l \in Log /\ nr \in F /\ freemap \subseteq Block BY WritePointers
<1>2. RootedIn(F) /\ SingleIn(F) /\ TypeOK BY DEF Base
<1>3. /\ freemap' = freemap \cup B /\ used' = used + Cardinality(B) /\ dirty' = TRUE
      /\ in' = [n EXCEPT !.block_count = @ + Cardinality(B)]
  BY DEF alloc_for_inode
<1>4. Cardinality(B) \in Nat BY BlockSets
<1>5. used \in Nat /\ MaxFsBlocks \in Nat /\ Available \in Nat /\ used + Available <= MaxFsBlocks
  BY <1>2, Room
<1>6. used' <= MaxFsBlocks BY <1>3, <1>4, <1>5
<1>7. /\ in' \in Dinodes /\ in'.i_size = in.i_size /\ in'.block_count = in.block_count + Cardinality(B)
      /\ in'.i_block_nr = n.i_block_nr /\ in'.i_indirect = n.i_indirect /\ in'.i_dindirect = n.i_dindirect
  BY <1>3, <1>4 DEF Dinodes
<1>8. \A p \in Place : Walk(disk', in', p) = Walk(disk', n, p) BY <1>7 DEF Walk, DataAt
<1>9. 0 \notin Block BY FileBlocksAssumption DEF Block
<1>10. \A x \in freemap : (\A p \in Place : At(nr, p) # x) => disk'[x] = disk[x] BY <1>1
<1>11. \A f \in F : f # nr =>
          /\ \A p \in Place : Walk(disk', dinode[f], p) = At(f, p)
          /\ \A m \in Log : At(f, DataPlace(m)) # 0 =>
                disk'[At(f, DataPlace(m))] = disk[At(f, DataPlace(m))]
  BY <1>10, OthersStay
<1>12. ASSUME NEW m \in Log, m # l, At(nr, DataPlace(m)) # 0
       PROVE  disk'[At(nr, DataPlace(m))] = disk[At(nr, DataPlace(m))]
  <2> DEFINE x == At(nr, DataPlace(m))
  <2>1. DataPlace(m) \in Place BY PlaceKinds
  <2>2. x \in freemap BY <1>1, <1>2, <1>12, <2>1 DEF RootedIn
  <2>3. \A p \in Place : At(nr, p) = x => p = DataPlace(m) BY <1>1, <1>2, <1>12, <2>1 DEF SingleIn
  <2> HIDE DEF x
  <2>4. x \in Block /\ x \notin B BY <1>1, <2>2
  <2>5. disk'[x] = disk[x] BY <2>3, <2>4
  <2> QED BY <2>5 DEF x
<1>13. \A x \in Block : x \notin freemap \cup B => disk'[x] = disk[x]
  <2> SUFFICES ASSUME NEW x \in Block, x \notin freemap, x \notin B PROVE disk'[x] = disk[x] OBVIOUS
  <2>1. \A p \in Place : At(nr, p) # x BY <1>1, <1>2, <1>9 DEF RootedIn
  <2> QED BY <2>1
<1>14. \A f \in F, m \in Log : ~(f = nr /\ m = l) /\ At(f, DataPlace(m)) # 0 =>
            disk'[At(f, DataPlace(m))] = disk[At(f, DataPlace(m))]
  BY <1>11, <1>12
<1>15. DataPlace(l) \in Place /\ At(nr, DataPlace(l)) = 0 OBVIOUS
<1>16. Walk(disk', in', DataPlace(l)) = b /\ b # 0 BY <1>8, <1>9, <1>15
<1>17. /\ \A p \in N : At(nr, p) = 0 /\ Walk(disk', in', p) \in B /\ Visited(l + 1, p)
       /\ \A x \in B : \E p \in N : Walk(disk', in', p) = x
       /\ \A p, q \in N : Walk(disk', in', p) = Walk(disk', in', q) => p = q
       /\ \A p \in Place : p \notin N => Walk(disk', in', p) = At(nr, p)
  <2>1. \A p \in N : Walk(disk', in', p) = Walk(disk', n, p) BY <1>8
  <2> QED BY <1>8, <2>1
<1> HIDE DEF l
<1>18. disk'[Walk(disk', in', DataPlace(l))]
          = NewData(IF At(nr, DataPlace(l)) = 0 THEN ZeroBlock ELSE disk[At(nr, DataPlace(l))])
  BY <1>15, <1>16
<1>19. \A f \in F : f # nr => \A p \in Place : Walk(disk', dinode[f], p) = At(f, p) BY <1>11
<1>20. Walk(disk', in', DataPlace(l)) # 0 BY <1>16
<1>21. \A m \in Log : DataPlace(m) \in N => m = l BY DEF l
<1>22. /\ N \subseteq PathPlaces(l)
       /\ \A x \in freemap : \A u \in Unit : disk[x][u] \in {0, disk'[x][u]}
  BY DEF l
<1>23. ASSUME NEW x \in Block, disk'[x] # disk[x]
       PROVE  \/ x = Walk(disk', in', DataPlace(l))
              \/ ~IsDirect(l) /\ DataPlace(l) \in N /\ x = Walk(disk', in', Middle(l))
              \/ ~IsDirect(l) /\ ~IsIndirect(l) /\ Middle(l) \in N /\ x = Walk(disk', in', DindirectPlace)
  <2>1. ~IsDirect(l) => Middle(l) \in Place
    BY <1>1, DindirectPlaces, PlaceKinds DEF Middle, l
  <2>2. DindirectPlace \in Place BY PlaceKinds
  <2>3. \/ x = Walk(disk', n, DataPlace(l))
        \/ ~IsDirect(l) /\ DataPlace(l) \in N /\ x = Walk(disk', n, Middle(l))
        \/ ~IsDirect(l) /\ ~IsIndirect(l) /\ Middle(l) \in N /\ x = Walk(disk', n, DindirectPlace)
    BY <1>23 DEF OnPath, l
  <2> QED BY <1>8, <1>15, <2>1, <2>2, <2>3
<1> QED BY <1>3, <1>6, <1>7, <1>13, <1>14, <1>17, <1>18, <1>19, <1>20, <1>21, <1>22, <1>23
        DEF WriteStep, OnPath, l

LEMMA DirectStep ==
    ASSUME NEW F, Base(F), write_direct
    PROVE  \E B, N : WriteStep(F, B, N)
<1> DEFINE l == log_block_nr
           b == bitmap_alloc(freemap)
           n == [in EXCEPT !.i_block_nr[l] = b]
           B == {b}
           N == {DataPlace(l)}
<1>1. /\ InWrite /\ Advance /\ IsDirect(l) /\ read_block(in, l) = 0 /\ Available >= 1
      /\ alloc_for_inode(B, n) /\ disk' = [disk EXCEPT ![b] = NewData(ZeroBlock)]
  BY DEF write_direct
<1>2. /\ l \in Log /\ nr \in F /\ nr \in Inode /\ in \in Dinodes
      /\ disk \in [Block -> [Unit -> Ptr \cup Inode]] /\ freemap \subseteq Block
      /\ \A p : At(nr, p) = Walk(disk, in, p)
      /\ At(nr, IndirectPlace) = in.i_indirect
      /\ At(nr, DindirectPlace) = in.i_dindirect
      /\ \A i : At(nr, InnerPlace(i)) = Ent(disk, in.i_dindirect, i)
      /\ \A m : At(nr, DataPlace(m)) = DataAt(disk, in, m)
      /\ read_block(in, l) = At(nr, DataPlace(l))
  BY <1>1, WritePointers
<1>3. RootedIn(F) /\ SingleIn(F) /\ TypeOK BY DEF Base
<1>4. b \in Block /\ b \notin freemap
  <2>1. /\ Available \in Nat /\ Cardinality(freemap) + Available <= DeviceBlocks
        /\ Cardinality(freemap) \in Nat /\ DeviceBlocks \in Nat
    BY <1>3, Room
  <2>2. Cardinality(freemap) < DeviceBlocks BY <1>1, <2>1
  <2> QED BY <1>2, <2>2, AllocFinds
<1>5. l \in Direct BY <1>1, <1>2, Sizes DEF IsDirect, Direct, Log
<1>6. /\ n \in Dinodes /\ n.i_size = in.i_size /\ n.block_count = in.block_count
      /\ n.i_indirect = in.i_indirect /\ n.i_dindirect = in.i_dindirect
      /\ n.i_block_nr[l] = b /\ \A m \in Direct : m # l => n.i_block_nr[m] = in.i_block_nr[m]
  BY <1>2, <1>4, <1>5 DEF Dinodes, Ptr
<1> HIDE DEF n, l, b
<1>7. /\ disk' \in [Block -> [Unit -> Ptr \cup Inode]] /\ disk'[b] = NewData(ZeroBlock)
      /\ \A x \in Block : x # b => disk'[x] = disk[x]
  <2>1. ZeroBlock \in [Unit -> Ptr \cup Inode] BY DEF ZeroBlock, Ptr
  <2>2. NewData(ZeroBlock) \in [Unit -> Ptr \cup Inode] BY <2>1, NewDataType
  <2> QED BY <1>1, <1>2, <1>4, <2>2
<1>8. ASSUME NEW p \in Place, At(nr, p) # 0 PROVE disk'[At(nr, p)] = disk[At(nr, p)]
  <2>1. At(nr, p) \in freemap BY <1>2, <1>3, <1>8 DEF RootedIn
  <2> QED BY <1>2, <1>4, <1>7, <2>1
<1>9. /\ in.i_indirect # 0 => disk'[in.i_indirect] = disk[in.i_indirect]
      /\ in.i_dindirect # 0 => disk'[in.i_dindirect] = disk[in.i_dindirect]
  BY <1>2, <1>8, PlaceKinds
<1>10. \A i \in Unit : LET x == Ent(disk, in.i_dindirect, i) IN x # 0 => disk'[x] = disk[x]
  BY <1>2, <1>8, PlaceKinds
<1>11. \A p \in Place : Walk(disk', in, p) = Walk(disk, in, p) BY <1>9, <1>10, WalkSame
<1>12. \A m \in Log : m # l => DataAt(disk', n, m) = DataAt(disk', in, m)
  <2> SUFFICES ASSUME NEW m \in Log, m # l PROVE DataAt(disk', n, m) = DataAt(disk', in, m) OBVIOUS
  <2>1. IsDirect(m) => m \in Direct BY Sizes DEF IsDirect, Direct, Log
  <2> QED BY <1>6, <2>1 DEF DataAt
<1>13. ASSUME NEW p \in Place, p # DataPlace(l) PROVE Walk(disk', n, p) = At(nr, p)
  <2>1. Walk(disk', in, p) = At(nr, p) BY <1>2, <1>11
  <2>2. ASSUME NEW m \in Log, p = DataPlace(m) PROVE Walk(disk', n, p) = Walk(disk', in, p)
    <3>1. m # l BY <1>13, <2>2
    <3>2. Walk(disk', n, DataPlace(m)) = DataAt(disk', n, m) BY WalkIs
    <3>3. Walk(disk', in, DataPlace(m)) = DataAt(disk', in, m) BY WalkIs
    <3> QED BY <1>12, <2>2, <3>1, <3>2, <3>3
  <2>3. ASSUME NEW i \in Unit, p = InnerPlace(i) PROVE Walk(disk', n, p) = Walk(disk', in, p)
    <3>1. Walk(disk', n, InnerPlace(i)) = Ent(disk', n.i_dindirect, i) BY WalkIs
    <3>2. Walk(disk', in, InnerPlace(i)) = Ent(disk', in.i_dindirect, i) BY WalkIs
    <3> QED BY <1>6, <2>3, <3>1, <3>2
  <2>4. CASE p = IndirectPlace
    <3>1. Walk(disk', n, IndirectPlace) = n.i_indirect BY WalkIs
    <3>2. Walk(disk', in, IndirectPlace) = in.i_indirect BY WalkIs
    <3> QED BY <1>6, <2>1, <2>4, <3>1, <3>2
  <2>5. CASE p = DindirectPlace
    <3>1. Walk(disk', n, DindirectPlace) = n.i_dindirect BY WalkIs
    <3>2. Walk(disk', in, DindirectPlace) = in.i_dindirect BY WalkIs
    <3> QED BY <1>6, <2>1, <2>5, <3>1, <3>2
  <2> QED BY <2>1, <2>2, <2>3, <2>4, <2>5, PlaceKinds
<1>14. Walk(disk', n, DataPlace(l)) = b
  <2>1. Walk(disk', n, DataPlace(l)) = DataAt(disk', n, l) BY WalkIs
  <2> QED BY <1>1, <1>6, <2>1 DEF DataAt
<1>15. DataPlace(l) \in Place /\ At(nr, DataPlace(l)) = 0 BY <1>1, <1>2, PlaceKinds
<1>16. Visited(l + 1, DataPlace(l))
  <2>1. l \in Nat BY <1>2, Sizes DEF Log
  <2>2. l < l + 1 BY <2>1
  <2> QED BY <2>2, VisitedIs
<1>17. Cardinality(B) <= Available BY <1>1, FS_Singleton
<1>18. B \subseteq Block /\ B \cap freemap = {} /\ b \in B /\ N \subseteq Place /\ DataPlace(l) \in N
  BY <1>4, <1>15
<1>19. /\ \A m \in Log : DataPlace(m) \in N => m = l
       /\ \A p \in N : At(nr, p) = 0 /\ Walk(disk', n, p) \in B /\ Visited(l + 1, p)
       /\ \A x \in B : \E p \in N : Walk(disk', n, p) = x
       /\ \A p, q \in N : Walk(disk', n, p) = Walk(disk', n, q) => p = q
       /\ \A p \in Place : p \notin N => Walk(disk', n, p) = At(nr, p)
       /\ \A x \in Block : x \notin B => disk'[x] = disk[x]
  BY <1>7, <1>13, <1>14, <1>15, <1>16, PlacesDiffer
<1>20. N \subseteq PathPlaces(l) BY DEF PathPlaces
<1>21. /\ \A x \in Block : disk'[x] # disk[x] => x = Walk(disk', n, DataPlace(l))
       /\ \A x \in freemap : disk[x] = disk'[x]
  BY <1>2, <1>4, <1>7, <1>14
<1> HIDE DEF B, N
<1>22. Allocates(b, B, N, n)
  BY <1>1, <1>6, <1>7, <1>14, <1>17, <1>18, <1>19, <1>20, <1>21 DEF l, Allocates, OnPath
<1> QED BY <1>22, AllocStep

\* The indirect block, new or not, gets the number of the new block.
LEMMA IndirectStep ==
    ASSUME NEW F, Base(F), write_indirect
    PROVE  \E B, N : WriteStep(F, B, N)
<1> DEFINE l == log_block_nr
           new == in.i_indirect = 0
           ind == IF new THEN bitmap_alloc(freemap) ELSE in.i_indirect
           b == bitmap_alloc(freemap \cup {ind})
           old == IF new THEN ZeroBlock ELSE disk[ind]
           n == [in EXCEPT !.i_indirect = ind]
           B == {b} \cup (IF new THEN {ind} ELSE {})
           N == {DataPlace(l)} \cup (IF new THEN {IndirectPlace} ELSE {})
<1>1. /\ InWrite /\ Advance /\ IsIndirect(l) /\ read_block(in, l) = 0 /\ Available > MissingPointers
      /\ alloc_for_inode(B, n)
      /\ disk' = [disk EXCEPT ![ind] = [old EXCEPT ![InIndirect(l)] = b], ![b] = NewData(ZeroBlock)]
  BY DEF write_indirect
<1>2. /\ l \in Log /\ nr \in F /\ nr \in Inode /\ in \in Dinodes
      /\ disk \in [Block -> [Unit -> Ptr \cup Inode]] /\ freemap \subseteq Block
      /\ \A p : At(nr, p) = Walk(disk, in, p)
      /\ At(nr, IndirectPlace) = in.i_indirect
      /\ At(nr, DindirectPlace) = in.i_dindirect
      /\ \A i : At(nr, InnerPlace(i)) = Ent(disk, in.i_dindirect, i)
      /\ \A m : At(nr, DataPlace(m)) = DataAt(disk, in, m)
      /\ read_block(in, l) = At(nr, DataPlace(l))
  BY <1>1, WritePointers
<1>3. RootedIn(F) /\ SingleIn(F) /\ TypeOK BY DEF Base
<1>4. ~IsDirect(l) BY <1>1 DEF IsIndirect
<1>5. /\ Available \in Nat /\ Cardinality(freemap) + Available <= DeviceBlocks
      /\ Cardinality(freemap) \in Nat /\ DeviceBlocks \in Nat
      /\ MissingPointers = IF new THEN 1 ELSE 0
  BY <1>1, <1>3, <1>4, Room DEF MissingPointers
<1>6. new => ind \in Block /\ ind \notin freemap
  <2>1. Cardinality(freemap) < DeviceBlocks BY <1>1, <1>5
  <2> QED BY <1>2, <2>1, AllocFinds
<1>7. ~new => ind = At(nr, IndirectPlace) /\ ind # 0 /\ ind \in freemap /\ ind \in Block
  BY <1>2, <1>3, PlaceKinds DEF RootedIn
<1> HIDE DEF ind
<1>8. b \in Block /\ b \notin freemap /\ b # ind
  <2>1. ind \in Block BY <1>6, <1>7
  <2>2. Cardinality(freemap \cup {ind}) < DeviceBlocks BY <1>1, <1>2, <1>5, <1>6, <1>7, AddOne
  <2>3. freemap \cup {ind} \subseteq Block BY <1>2, <2>1
  <2> QED BY <2>2, <2>3, AllocFinds
<1> HIDE DEF b
<1>9. ind \in Block /\ 0 \notin Block BY <1>6, <1>7, FileBlocksAssumption DEF Block
<1>10. /\ n \in Dinodes /\ n.i_size = in.i_size /\ n.block_count = in.block_count
       /\ n.i_block_nr = in.i_block_nr /\ n.i_indirect = ind /\ n.i_dindirect = in.i_dindirect
  BY <1>2, <1>9 DEF Dinodes, Ptr
<1>11. /\ old \in [Unit -> Ptr \cup Inode]
       /\ \A j \in Unit : old[j] = Ent(disk, in.i_indirect, j)
  <2>1. ZeroBlock \in [Unit -> Ptr \cup Inode] /\ \A j \in Unit : ZeroBlock[j] = 0 BY DEF ZeroBlock, Ptr
  <2>2. CASE new BY <2>1, <2>2 DEF Ent
  <2>3. CASE ~new BY <1>2, <1>9, <2>3 DEF Ent, ind
  <2> QED BY <2>2, <2>3
<1> HIDE DEF n, l, old, new
<1>12. InIndirect(l) \in Unit BY <1>1, <1>2, <1>4, IndirectPlaces
<1> DEFINE d == [old EXCEPT ![InIndirect(l)] = b]
<1>13. /\ d \in [Unit -> Ptr \cup Inode]
       /\ \A j \in Unit : d[j] = IF j = InIndirect(l) THEN b ELSE Ent(disk, in.i_indirect, j)
  BY <1>8, <1>11, <1>12 DEF Ptr
<1>14. disk' = [disk EXCEPT ![ind] = d, ![b] = NewData(ZeroBlock)] BY <1>1
<1> HIDE DEF d
<1>15. /\ disk' \in [Block -> [Unit -> Ptr \cup Inode]] /\ disk'[b] = NewData(ZeroBlock)
       /\ disk'[ind] = d
       /\ \A x \in Block : x # b /\ x # ind => disk'[x] = disk[x]
  <2>1. ZeroBlock \in [Unit -> Ptr \cup Inode] BY DEF ZeroBlock, Ptr
  <2>2. NewData(ZeroBlock) \in [Unit -> Ptr \cup Inode] BY <2>1, NewDataType
  <2> QED BY <1>2, <1>8, <1>9, <1>13, <1>14, <2>2
<1>16. ASSUME NEW p \in Place, p # IndirectPlace, At(nr, p) # 0
       PROVE  disk'[At(nr, p)] = disk[At(nr, p)]
  <2>1. At(nr, p) \in freemap BY <1>2, <1>3, <1>16 DEF RootedIn
  <2>2. At(nr, p) # ind
    <3>1. CASE new BY <1>6, <2>1, <3>1
    <3>2. CASE ~new BY <1>2, <1>3, <1>7, <1>16, <3>2, PlaceKinds DEF SingleIn
    <3> QED BY <3>1, <3>2
  <2> QED BY <1>2, <1>8, <1>15, <2>1, <2>2
<1>17. in.i_dindirect # 0 => disk'[in.i_dindirect] = disk[in.i_dindirect]
  BY <1>2, <1>16, PlaceKinds, PlacesDiffer
<1>18. \A i \in Unit : LET x == Ent(disk, in.i_dindirect, i) IN x # 0 => disk'[x] = disk[x]
  BY <1>2, <1>16, PlaceKinds, PlacesDiffer
<1>19. \A i : Ent(disk', in.i_dindirect, i) = Ent(disk, in.i_dindirect, i) BY <1>17 DEF Ent
<1>20. \A j \in Unit : Ent(disk', ind, j) = IF j = InIndirect(l) THEN b ELSE Ent(disk, in.i_indirect, j)
  BY <1>9, <1>13, <1>15 DEF Ent
<1>21. ASSUME NEW m \in Log PROVE DataAt(disk', n, m) = IF m = l THEN b ELSE DataAt(disk, in, m)
  <2>1. CASE IsDirect(m) BY <1>4, <1>10, <2>1 DEF DataAt
  <2>2. CASE ~IsDirect(m) /\ IsIndirect(m)
    <3>1. InIndirect(m) \in Unit /\ m = NR_DIRECT_BLOCKS + InIndirect(m) BY <2>2, IndirectPlaces
    <3>2. l = NR_DIRECT_BLOCKS + InIndirect(l) BY <1>1, <1>2, <1>4, IndirectPlaces
    <3>3. InIndirect(m) = InIndirect(l) <=> m = l BY <3>1, <3>2
    <3>4. DataAt(disk', n, m) = Ent(disk', ind, InIndirect(m)) BY <1>10, <2>2 DEF DataAt
    <3>5. DataAt(disk, in, m) = Ent(disk, in.i_indirect, InIndirect(m)) BY <2>2 DEF DataAt
    <3> QED BY <1>20, <3>1, <3>3, <3>4, <3>5
  <2>3. CASE ~IsDirect(m) /\ ~IsIndirect(m)
    <3>1. Outer(m) \in Unit /\ m # l BY <1>1, <2>3, DindirectPlaces
    <3> DEFINE x == Ent(disk, in.i_dindirect, Outer(m))
    <3>2. DataAt(disk', n, m) = Ent(disk', x, Inner(m)) BY <1>10, <1>19, <2>3 DEF DataAt
    <3>3. DataAt(disk, in, m) = Ent(disk, x, Inner(m)) BY <2>3 DEF DataAt
    <3>4. x # 0 => disk'[x] = disk[x] BY <1>18, <3>1
    <3> HIDE DEF x
    <3>5. Ent(disk', x, Inner(m)) = Ent(disk, x, Inner(m)) BY <3>4 DEF Ent
    <3> QED BY <3>1, <3>2, <3>3, <3>5
  <2> QED BY <2>1, <2>2, <2>3
<1>22. ASSUME NEW p \in Place
       PROVE  Walk(disk', n, p) = IF p = DataPlace(l) THEN b
                                  ELSE IF p = IndirectPlace THEN ind ELSE At(nr, p)
  <2>1. ASSUME NEW m \in Log, p = DataPlace(m)
        PROVE  Walk(disk', n, p) = IF p = DataPlace(l) THEN b ELSE At(nr, p)
    <3>1. Walk(disk', n, DataPlace(m)) = DataAt(disk', n, m) BY WalkIs
    <3>2. DataPlace(m) = DataPlace(l) <=> m = l BY PlacesDiffer
    <3> QED BY <1>2, <1>21, <2>1, <3>1, <3>2
  <2>2. ASSUME NEW i \in Unit, p = InnerPlace(i) PROVE Walk(disk', n, p) = At(nr, p)
    <3>1. Walk(disk', n, InnerPlace(i)) = Ent(disk', n.i_dindirect, i) BY WalkIs
    <3> QED BY <1>2, <1>10, <1>19, <2>2, <3>1
  <2>3. CASE p = IndirectPlace
    <3>1. Walk(disk', n, IndirectPlace) = n.i_indirect BY WalkIs
    <3> QED BY <1>10, <2>3, <3>1, PlacesDiffer
  <2>4. CASE p = DindirectPlace
    <3>1. Walk(disk', n, DindirectPlace) = n.i_dindirect BY WalkIs
    <3> QED BY <1>2, <1>10, <2>4, <3>1, PlacesDiffer
  <2> QED BY <2>1, <2>2, <2>3, <2>4, PlaceKinds, PlacesDiffer
<1>23. /\ DataPlace(l) \in Place /\ IndirectPlace \in Place /\ DataPlace(l) # IndirectPlace
       /\ At(nr, DataPlace(l)) = 0
  BY <1>1, <1>2, PlaceKinds, PlacesDiffer
<1>24. Visited(l + 1, DataPlace(l)) /\ Visited(l + 1, IndirectPlace)
  <2>1. l \in Nat /\ NR_DIRECT_BLOCKS <= l BY <1>2, <1>4, Sizes DEF Log, IsDirect
  <2>2. l < l + 1 /\ NR_DIRECT_BLOCKS < l + 1 BY <2>1, Sizes
  <2> QED BY <2>2, VisitedIs
<1>25. /\ Walk(disk', n, DataPlace(l)) = b /\ Walk(disk', n, IndirectPlace) = ind
       /\ new => At(nr, IndirectPlace) = 0
       /\ ~new => At(nr, IndirectPlace) = ind
  BY <1>2, <1>7, <1>22, <1>23 DEF new
<1>26. Cardinality(B) <= Available
  <2>1. Cardinality({b}) = 1 /\ {b} \subseteq Block BY <1>8, FS_Singleton
  <2>2. CASE new
    <3>1. B = {b} \cup {ind} /\ ind \notin {b} BY <1>8, <2>2
    <3>2. Cardinality({b} \cup {ind}) = 2 BY <2>1, <3>1, AddOne
    <3>3. 2 <= Available BY <1>1, <1>5, <2>2
    <3> QED BY <3>1, <3>2, <3>3
  <2>3. CASE ~new
    <3>1. B = {b} BY <2>3
    <3> QED BY <1>1, <1>5, <2>1, <2>3, <3>1
  <2> QED BY <2>2, <2>3
<1>27. B \subseteq Block /\ B \cap freemap = {} /\ b \in B /\ N \subseteq Place /\ DataPlace(l) \in N
  BY <1>6, <1>8, <1>9, <1>23
<1>28. /\ \A m \in Log : DataPlace(m) \in N => m = l
       /\ \A p \in N : At(nr, p) = 0 /\ Walk(disk', n, p) \in B /\ Visited(l + 1, p)
       /\ \A x \in B : \E p \in N : Walk(disk', n, p) = x
       /\ \A p, q \in N : Walk(disk', n, p) = Walk(disk', n, q) => p = q
  BY <1>8, <1>23, <1>24, <1>25, PlacesDiffer
<1>29. \A p \in Place : p \notin N => Walk(disk', n, p) = At(nr, p) BY <1>22, <1>25
<1>30. \A x \in Block : 
          x \notin B /\ (\A p \in Place : At(nr, p) = x => \E m \in Log : p = DataPlace(m))
            => disk'[x] = disk[x]
  <2> SUFFICES ASSUME NEW x \in Block, x \notin B,
                      \A p \in Place : At(nr, p) = x => \E m \in Log : p = DataPlace(m)
               PROVE  disk'[x] = disk[x]
    OBVIOUS
  <2>1. x # b OBVIOUS
  <2>2. x # ind BY <1>23, <1>25, PlacesDiffer
  <2> QED BY <1>15, <2>1, <2>2
<1>31. N \subseteq PathPlaces(l) /\ Middle(l) = IndirectPlace BY <1>1, <1>4 DEF PathPlaces, Middle
<1>32. \A x \in Block : disk'[x] # disk[x] =>
          \/ x = Walk(disk', n, DataPlace(l))
          \/ ~IsDirect(l) /\ DataPlace(l) \in N /\ x = Walk(disk', n, Middle(l))
  BY <1>4, <1>15, <1>25, <1>27, <1>31
<1>33. ASSUME NEW x \in freemap, NEW u \in Unit PROVE disk[x][u] \in {0, disk'[x][u]}
  <2>1. x \in Block /\ x # b BY <1>2, <1>8
  <2>2. CASE x # ind BY <1>15, <2>1, <2>2
  <2>3. CASE x = ind
    <3>1. ~new /\ ind = in.i_indirect /\ ind # 0 BY <1>2, <1>6, <1>7, <2>3
    <3>2. d[u] = IF u = InIndirect(l) THEN b ELSE disk[ind][u] BY <1>13, <3>1 DEF Ent
    <3>3. disk[ind][InIndirect(l)] = 0
      <4>1. DataAt(disk, in, l) = 0 BY <1>1, <1>2
      <4> QED BY <1>1, <1>4, <3>1, <4>1 DEF DataAt, Ent
    <3> QED BY <1>15, <2>3, <3>2, <3>3
  <2> QED BY <2>2, <2>3
<1> HIDE DEF B, N
<1>34. Allocates(b, B, N, n)
  BY <1>1, <1>10, <1>15, <1>25, <1>26, <1>27, <1>28, <1>29, <1>30, <1>31, <1>32, <1>33
     DEF l, Allocates, OnPath
<1> QED BY <1>34, AllocStep

\* The double indirect block and the indirect block below it, new or not.
LEMMA DindirectStep ==
    ASSUME NEW F, Base(F), write_dindirect
    PROVE  \E B, N : WriteStep(F, B, N)
<1> DEFINE l == log_block_nr
           o == Outer(l)
           newd == in.i_dindirect = 0
           din == IF newd THEN bitmap_alloc(freemap) ELSE in.i_dindirect
           newi == Entry(in.i_dindirect, o) = 0
           ind == IF newi THEN bitmap_alloc(freemap \cup {din}) ELSE disk[din][o]
           b == bitmap_alloc(freemap \cup {din, ind})
           oldd == IF newd THEN ZeroBlock ELSE disk[din]
           oldi == IF newi THEN ZeroBlock ELSE disk[ind]
           n == [in EXCEPT !.i_dindirect = din]
           B == {b} \cup (IF newi THEN {ind} ELSE {}) \cup (IF newd THEN {din} ELSE {})
           N == {DataPlace(l)} \cup (IF newi THEN {InnerPlace(o)} ELSE {})
                  \cup (IF newd THEN {DindirectPlace} ELSE {})
<1>1. /\ InWrite /\ Advance /\ ~IsDirect(l) /\ ~IsIndirect(l) /\ read_block(in, l) = 0
      /\ Available > MissingPointers /\ alloc_for_inode(B, n)
      /\ disk' = [disk EXCEPT ![din] = IF newi THEN [oldd EXCEPT ![o] = ind] ELSE @,
                              ![ind] = [oldi EXCEPT ![Inner(l)] = b],
                              ![b] = NewData(ZeroBlock)]
  BY DEF write_dindirect
<1>2. /\ l \in Log /\ nr \in F /\ nr \in Inode /\ in \in Dinodes
      /\ disk \in [Block -> [Unit -> Ptr \cup Inode]] /\ freemap \subseteq Block
      /\ \A p : At(nr, p) = Walk(disk, in, p)
      /\ At(nr, IndirectPlace) = in.i_indirect
      /\ At(nr, DindirectPlace) = in.i_dindirect
      /\ \A i : At(nr, InnerPlace(i)) = Ent(disk, in.i_dindirect, i)
      /\ \A m : At(nr, DataPlace(m)) = DataAt(disk, in, m)
      /\ read_block(in, l) = At(nr, DataPlace(l))
  BY <1>1, WritePointers
<1>3. RootedIn(F) /\ SingleIn(F) /\ TypeOK BY DEF Base
<1>4. o \in Unit /\ Inner(l) \in Unit /\ l = NR_DIRECT_BLOCKS + BLOCK_SIZE + BLOCK_SIZE * o + Inner(l)
  BY <1>1, <1>2, DindirectPlaces
<1>5. /\ Available \in Nat /\ Cardinality(freemap) + Available <= DeviceBlocks
      /\ Cardinality(freemap) \in Nat /\ DeviceBlocks \in Nat
      /\ MissingPointers = IF newd THEN 2 ELSE IF newi THEN 1 ELSE 0
  BY <1>1, <1>3, Room DEF MissingPointers
<1>6. newd => newi BY DEF Entry
<1>7. /\ DindirectPlace \in Place /\ InnerPlace(o) \in Place /\ DataPlace(l) \in Place
  BY <1>2, <1>4, PlaceKinds
<1>8. At(nr, InnerPlace(o)) = Entry(in.i_dindirect, o) BY <1>2 DEF Ent, Entry
<1> HIDE DEF l, o
<1>9. newd => din \in Block /\ din \notin freemap
  <2>1. newd => Cardinality(freemap) < DeviceBlocks BY <1>1, <1>5
  <2> QED BY <1>2, <2>1, AllocFinds
<1>10. ~newd => din = At(nr, DindirectPlace) /\ din = in.i_dindirect /\ din # 0 /\ din \in freemap /\ din \in Block
  BY <1>2, <1>3, <1>7 DEF RootedIn
<1> HIDE DEF din
<1>11. newi => ind \in Block /\ ind \notin freemap /\ ind # din
  <2> SUFFICES ASSUME newi PROVE ind \in Block /\ ind \notin freemap /\ ind # din OBVIOUS
  <2>1. Cardinality(freemap \cup {din}) < DeviceBlocks BY <1>1, <1>2, <1>5, <1>9, <1>10, AddOne
  <2>2. freemap \cup {din} \subseteq Block BY <1>2, <1>9, <1>10
  <2>3. ind = bitmap_alloc(freemap \cup {din}) OBVIOUS
  <2> QED BY <2>1, <2>2, <2>3, AllocFinds
<1>12. ~newi => ind = At(nr, InnerPlace(o)) /\ ind # 0 /\ ind \in freemap /\ ind \in Block /\ ind # din
  <2> SUFFICES ASSUME ~newi PROVE ind = At(nr, InnerPlace(o)) /\ ind # 0 /\ ind \in freemap
                                    /\ ind \in Block /\ ind # din
    OBVIOUS
  <2>1. ~newd BY <1>6
  <2>2. ind = At(nr, InnerPlace(o)) /\ ind # 0 BY <1>8, <1>10, <2>1 DEF Entry
  <2> HIDE DEF ind
  <2>3. ind \in freemap BY <1>2, <1>3, <1>7, <2>2 DEF RootedIn
  <2>4. ind # din BY <1>2, <1>3, <1>7, <1>10, <2>1, <2>2, PlacesDiffer DEF SingleIn
  <2> QED BY <1>2, <2>2, <2>3, <2>4
<1> HIDE DEF ind, newi, newd
<1>13. din \in Block /\ ind \in Block /\ ind # din /\ 0 \notin Block
  BY <1>9, <1>10, <1>11, <1>12, FileBlocksAssumption DEF Block
<1>14. b \in Block /\ b \notin freemap /\ b # din /\ b # ind
  <2> DEFINE m == freemap \cup {din}
  <2>1. Cardinality(m) = IF newd THEN Cardinality(freemap) + 1 ELSE Cardinality(freemap)
    BY <1>2, <1>9, <1>10, AddOne
  <2>2. m \subseteq Block BY <1>2, <1>13
  <2>3. ind \in m <=> ~newi BY <1>11, <1>12
  <2> HIDE DEF m
  <2>4. Cardinality(m \cup {ind}) = IF newi THEN Cardinality(m) + 1 ELSE Cardinality(m)
    BY <2>2, <2>3, AddOne
  <2>5. Cardinality(m \cup {ind}) < DeviceBlocks BY <1>1, <1>5, <1>6, <2>1, <2>4
  <2>6. m \cup {ind} \subseteq Block BY <1>13, <2>2
  <2>7. freemap \cup {din, ind} = m \cup {ind} BY DEF m
  <2>8. b = bitmap_alloc(m \cup {ind}) BY <2>7
  <2>9. b \in Block /\ b \notin m \cup {ind} BY <2>5, <2>6, <2>8, AllocFinds
  <2> QED BY <2>9 DEF m
<1> HIDE DEF b
<1>15. /\ n \in Dinodes /\ n.i_size = in.i_size /\ n.block_count = in.block_count
       /\ n.i_block_nr = in.i_block_nr /\ n.i_indirect = in.i_indirect /\ n.i_dindirect = din
  BY <1>2, <1>13 DEF Dinodes, Ptr
<1> HIDE DEF n
<1>16. ZeroBlock \in [Unit -> Ptr \cup Inode] /\ \A j \in Unit : ZeroBlock[j] = 0 BY DEF ZeroBlock, Ptr
<1> DEFINE dd == IF newi THEN [oldd EXCEPT ![o] = ind] ELSE disk[din]
           di == [oldi EXCEPT ![Inner(l)] = b]
           E(i) == Ent(disk, in.i_dindirect, i)
<1>17. /\ oldd \in [Unit -> Ptr \cup Inode] /\ \A j \in Unit : oldd[j] = E(j)
  <2>1. CASE newd BY <1>16, <2>1 DEF Ent, newd
  <2>2. CASE ~newd BY <1>2, <1>10, <1>13, <2>2 DEF Ent
  <2> QED BY <2>1, <2>2
<1>18. E(o) = At(nr, InnerPlace(o)) /\ (newi => E(o) = 0) /\ (~newi => E(o) = ind)
  BY <1>2, <1>8, <1>12 DEF newi
<1>19. /\ oldi \in [Unit -> Ptr \cup Inode] /\ \A j \in Unit : oldi[j] = Ent(disk, E(o), j)
  <2>1. CASE newi BY <1>16, <1>18, <2>1 DEF Ent
  <2>2. CASE ~newi BY <1>2, <1>12, <1>13, <1>18, <2>2 DEF Ent
  <2> QED BY <2>1, <2>2
<1> HIDE DEF E
<1>20. /\ dd \in [Unit -> Ptr \cup Inode] /\ \A j \in Unit : dd[j] = IF j = o THEN ind ELSE E(j)
  <2>1. CASE newi
    <3> HIDE DEF oldd
    <3> QED BY <1>4, <1>13, <1>17, <2>1 DEF Ptr
  <2>2. CASE ~newi
    <3>1. ~newd BY <1>6, <2>2
    <3>2. disk[din] = oldd BY <3>1
    <3> HIDE DEF oldd
    <3> QED BY <1>17, <1>18, <2>2, <3>2
  <2> QED BY <2>1, <2>2
<1> HIDE DEF oldd, oldi
<1>21. /\ di \in [Unit -> Ptr \cup Inode]
       /\ \A j \in Unit : di[j] = IF j = Inner(l) THEN b ELSE Ent(disk, E(o), j)
  BY <1>4, <1>14, <1>19 DEF Ptr
<1>22. disk' = [disk EXCEPT ![din] = dd, ![ind] = di, ![b] = NewData(ZeroBlock)]
  <2>1. disk' = [disk EXCEPT ![din] = IF newi THEN [oldd EXCEPT ![o] = ind] ELSE disk[din],
                             ![ind] = di, ![b] = NewData(ZeroBlock)]
    BY <1>1
  <2> QED BY <2>1
<1> HIDE DEF dd, di
<1>23. /\ disk' \in [Block -> [Unit -> Ptr \cup Inode]] /\ disk'[b] = NewData(ZeroBlock)
       /\ disk'[ind] = di /\ disk'[din] = dd
       /\ \A x \in Block : x # b /\ x # ind /\ x # din => disk'[x] = disk[x]
  <2>1. NewData(ZeroBlock) \in [Unit -> Ptr \cup Inode] BY <1>16, NewDataType
  <2> DEFINE z == NewData(ZeroBlock)
  <2> HIDE DEF z
  <2>2. z \in [Unit -> Ptr \cup Inode] /\ disk' = [disk EXCEPT ![din] = dd, ![ind] = di, ![b] = z]
    BY <1>22, <2>1 DEF z
  <2>3. /\ disk' \in [Block -> [Unit -> Ptr \cup Inode]] /\ disk'[b] = z
        /\ disk'[ind] = di /\ disk'[din] = dd
        /\ \A x \in Block : x # b /\ x # ind /\ x # din => disk'[x] = disk[x]
    BY <1>2, <1>13, <1>14, <1>20, <1>21, <2>2
  <2> QED BY <2>3 DEF z
<1>24. ASSUME NEW p \in Place, p # DindirectPlace, p # InnerPlace(o), At(nr, p) # 0
       PROVE  disk'[At(nr, p)] = disk[At(nr, p)]
  <2>1. At(nr, p) \in freemap BY <1>2, <1>3, <1>24 DEF RootedIn
  <2>2. At(nr, p) # ind
    <3>1. CASE newi BY <1>11, <2>1, <3>1
    <3>2. CASE ~newi BY <1>2, <1>3, <1>7, <1>12, <1>24, <3>2 DEF SingleIn
    <3> QED BY <3>1, <3>2
  <2>3. At(nr, p) # din
    <3>1. CASE newd BY <1>9, <2>1, <3>1
    <3>2. CASE ~newd BY <1>2, <1>3, <1>7, <1>10, <1>24, <3>2 DEF SingleIn
    <3> QED BY <3>1, <3>2
  <2> QED BY <1>2, <1>14, <1>23, <2>1, <2>2, <2>3
<1>25. in.i_indirect # 0 => disk'[in.i_indirect] = disk[in.i_indirect]
  BY <1>2, <1>24, PlaceKinds, PlacesDiffer
<1>26. \A i : Ent(disk', in.i_indirect, i) = Ent(disk, in.i_indirect, i) BY <1>25 DEF Ent
<1>27. \A i \in Unit : E(i) = At(nr, InnerPlace(i)) BY <1>2 DEF E
<1>28. ASSUME NEW i \in Unit, i # o, E(i) # 0 PROVE disk'[E(i)] = disk[E(i)]
  <2>1. InnerPlace(i) \in Place /\ InnerPlace(i) # DindirectPlace /\ InnerPlace(i) # InnerPlace(o)
    BY <1>28, PlaceKinds, PlacesDiffer
  <2>2. At(nr, InnerPlace(i)) # 0 BY <1>27, <1>28
  <2>3. disk'[At(nr, InnerPlace(i))] = disk[At(nr, InnerPlace(i))] BY <1>24, <2>1, <2>2
  <2> QED BY <1>27, <2>3
<1>29. \A i \in Unit : Ent(disk', din, i) = IF i = o THEN ind ELSE E(i) BY <1>13, <1>20, <1>23 DEF Ent
<1>30. \A j \in Unit : Ent(disk', ind, j) = IF j = Inner(l) THEN b ELSE Ent(disk, E(o), j)
  BY <1>13, <1>21, <1>23 DEF Ent
<1>31. ASSUME NEW m \in Log PROVE DataAt(disk', n, m) = IF m = l THEN b ELSE DataAt(disk, in, m)
  <2>1. CASE IsDirect(m) BY <1>1, <1>15, <2>1 DEF DataAt, l
  <2>2. CASE ~IsDirect(m) /\ IsIndirect(m)
    <3>1. m # l BY <1>1, <2>2 DEF l
    <3>2. DataAt(disk', n, m) = Ent(disk', in.i_indirect, InIndirect(m)) BY <1>15, <2>2 DEF DataAt
    <3>3. DataAt(disk, in, m) = Ent(disk, in.i_indirect, InIndirect(m)) BY <2>2 DEF DataAt
    <3> QED BY <1>26, <3>1, <3>2, <3>3
  <2>3. CASE ~IsDirect(m) /\ ~IsIndirect(m)
    <3>1. /\ Outer(m) \in Unit /\ Inner(m) \in Unit
          /\ m = NR_DIRECT_BLOCKS + BLOCK_SIZE + BLOCK_SIZE * Outer(m) + Inner(m)
      BY <2>3, DindirectPlaces
    <3>2. DataAt(disk', n, m) = Ent(disk', Ent(disk', din, Outer(m)), Inner(m))
      BY <1>15, <2>3 DEF DataAt
    <3>3. DataAt(disk, in, m) = Ent(disk, E(Outer(m)), Inner(m)) BY <2>3 DEF DataAt, E
    <3>4. CASE Outer(m) = o
      <4>1. Ent(disk', din, Outer(m)) = ind BY <1>29, <3>1, <3>4
      <4>2. DataAt(disk', n, m) = Ent(disk', ind, Inner(m)) BY <3>2, <4>1
      <4>3. DataAt(disk', n, m) = IF Inner(m) = Inner(l) THEN b ELSE Ent(disk, E(o), Inner(m))
        BY <1>30, <3>1, <4>2
      <4>4. Inner(m) = Inner(l) <=> m = l
        <5>1. m = l => Inner(m) = Inner(l) OBVIOUS
        <5>2. Inner(m) = Inner(l) => m = l BY <1>4, <3>1, <3>4
        <5> QED BY <5>1, <5>2
      <4> QED BY <3>3, <3>4, <4>3, <4>4
    <3>5. CASE Outer(m) # o
      <4>1. m # l BY <3>5 DEF o
      <4> DEFINE x == E(Outer(m))
      <4>2. DataAt(disk', n, m) = Ent(disk', x, Inner(m)) BY <1>29, <3>1, <3>2, <3>5
      <4>3. x # 0 => disk'[x] = disk[x] BY <1>28, <3>1, <3>5
      <4> HIDE DEF x
      <4>4. Ent(disk', x, Inner(m)) = Ent(disk, x, Inner(m)) BY <4>3 DEF Ent
      <4> QED BY <3>3, <4>1, <4>2, <4>4 DEF x
    <3> QED BY <3>4, <3>5
  <2> QED BY <2>1, <2>2, <2>3
<1>32. ASSUME NEW p \in Place
       PROVE  Walk(disk', n, p) = IF p = DataPlace(l) THEN b
                                  ELSE IF p = InnerPlace(o) THEN ind
                                  ELSE IF p = DindirectPlace THEN din ELSE At(nr, p)
  <2>1. ASSUME NEW m \in Log, p = DataPlace(m)
        PROVE  Walk(disk', n, p) = IF p = DataPlace(l) THEN b ELSE At(nr, p)
    <3>1. Walk(disk', n, DataPlace(m)) = DataAt(disk', n, m) BY WalkIs
    <3>2. DataPlace(m) = DataPlace(l) <=> m = l BY PlacesDiffer
    <3> QED BY <1>2, <1>31, <2>1, <3>1, <3>2
  <2>2. ASSUME NEW i \in Unit, p = InnerPlace(i)
        PROVE  Walk(disk', n, p) = IF p = InnerPlace(o) THEN ind ELSE At(nr, p)
    <3>1. Walk(disk', n, InnerPlace(i)) = Ent(disk', n.i_dindirect, i) BY WalkIs
    <3>2. InnerPlace(i) = InnerPlace(o) <=> i = o BY PlacesDiffer
    <3> QED BY <1>15, <1>27, <1>29, <2>2, <3>1, <3>2
  <2>3. CASE p = IndirectPlace
    <3>1. Walk(disk', n, IndirectPlace) = n.i_indirect BY WalkIs
    <3> QED BY <1>2, <1>15, <2>3, <3>1, PlacesDiffer
  <2>4. CASE p = DindirectPlace
    <3>1. Walk(disk', n, DindirectPlace) = n.i_dindirect BY WalkIs
    <3> QED BY <1>15, <2>4, <3>1, PlacesDiffer
  <2> QED BY <2>1, <2>2, <2>3, <2>4, PlaceKinds, PlacesDiffer
<1>33. /\ DataPlace(l) # InnerPlace(o) /\ DataPlace(l) # DindirectPlace /\ InnerPlace(o) # DindirectPlace
       /\ At(nr, DataPlace(l)) = 0
  BY <1>1, <1>2, PlacesDiffer DEF l
<1>34. Visited(l + 1, DataPlace(l)) /\ Visited(l + 1, InnerPlace(o)) /\ Visited(l + 1, DindirectPlace)
  <2>1. BLOCK_SIZE * (o + 1) = BLOCK_SIZE * o + BLOCK_SIZE /\ BLOCK_SIZE * o \in Nat BY <1>4, Sizes
  <2>2. Inner(l) \in Nat /\ l \in Nat BY <1>2, <1>4, Sizes DEF Log
  <2> DEFINE c == BLOCK_SIZE * o
  <2> HIDE DEF c
  <2>3. c \in Nat /\ l = NR_DIRECT_BLOCKS + BLOCK_SIZE + c + Inner(l) /\ BLOCK_SIZE * (o + 1) = c + BLOCK_SIZE
    BY <1>4, <2>1 DEF c
  <2>4. /\ l < l + 1 /\ NR_DIRECT_BLOCKS + (c + BLOCK_SIZE) < l + 1 /\ NR_DIRECT_BLOCKS + BLOCK_SIZE < l + 1
    BY <2>2, <2>3, Sizes
  <2>5. NR_DIRECT_BLOCKS + BLOCK_SIZE * (o + 1) < l + 1 BY <2>3, <2>4
  <2> QED BY <2>4, <2>5, VisitedIs
<1>35. /\ Walk(disk', n, DataPlace(l)) = b /\ Walk(disk', n, InnerPlace(o)) = ind
       /\ Walk(disk', n, DindirectPlace) = din
  BY <1>7, <1>32, <1>33
<1>36. /\ newi => At(nr, InnerPlace(o)) = 0
       /\ ~newi => At(nr, InnerPlace(o)) = ind
       /\ newd => At(nr, DindirectPlace) = 0
       /\ ~newd => At(nr, DindirectPlace) = din
  BY <1>2, <1>10, <1>18 DEF newd
<1>37. Cardinality(B) <= Available
  <2>1. Cardinality({b}) = 1 /\ {b} \subseteq Block BY <1>14, FS_Singleton
  <2>2. CASE newd
    <3>1. B = ({b} \cup {ind}) \cup {din} BY <1>6, <2>2
    <3>2. ind \notin {b} /\ din \notin {b} \cup {ind} /\ {b} \cup {ind} \subseteq Block BY <1>13, <1>14
    <3>3. Cardinality({b} \cup {ind}) = 2 BY <2>1, <3>2, AddOne
    <3>4. Cardinality(({b} \cup {ind}) \cup {din}) = 3 BY <3>2, <3>3, AddOne
    <3> HIDE DEF B
    <3>5. 3 <= Available BY <1>1, <1>5, <2>2
    <3> QED BY <3>1, <3>4, <3>5
  <2>3. CASE ~newd /\ newi
    <3>1. B = {b} \cup {ind} /\ ind \notin {b} BY <1>14, <2>3
    <3>2. Cardinality({b} \cup {ind}) = 2 BY <2>1, <3>1, AddOne
    <3> HIDE DEF B
    <3>3. 2 <= Available BY <1>1, <1>5, <2>3
    <3> QED BY <3>1, <3>2, <3>3
  <2>4. CASE ~newd /\ ~newi
    <3>1. B = {b} BY <2>4
    <3> QED BY <1>1, <1>5, <2>1, <2>4, <3>1
  <2> QED BY <2>2, <2>3, <2>4
<1>38. B \subseteq Block /\ B \cap freemap = {} /\ b \in B /\ N \subseteq Place /\ DataPlace(l) \in N
  BY <1>7, <1>9, <1>11, <1>13, <1>14
<1>39. \A m \in Log : DataPlace(m) \in N => m = l BY PlacesDiffer
<1>40. /\ \A p \in N : At(nr, p) = 0 /\ Walk(disk', n, p) \in B /\ Visited(l + 1, p)
       /\ \A x \in B : \E p \in N : Walk(disk', n, p) = x
       /\ \A p, q \in N : Walk(disk', n, p) = Walk(disk', n, q) => p = q
  BY <1>13, <1>14, <1>33, <1>34, <1>35, <1>36
<1>41. \A p \in Place : p \notin N => Walk(disk', n, p) = At(nr, p) BY <1>32, <1>35, <1>36
<1>42. \A x \in Block :
          x \notin B /\ (\A p \in Place : At(nr, p) = x => \E m \in Log : p = DataPlace(m))
            => disk'[x] = disk[x]
  <2> SUFFICES ASSUME NEW x \in Block, x \notin B,
                      \A p \in Place : At(nr, p) = x => \E m \in Log : p = DataPlace(m)
               PROVE  disk'[x] = disk[x]
    OBVIOUS
  <2>1. x # b OBVIOUS
  <2>2. x # ind BY <1>7, <1>36, PlacesDiffer
  <2>3. x # din BY <1>7, <1>36, PlacesDiffer
  <2> QED BY <1>23, <2>1, <2>2, <2>3
<1>43. ~IsDirect(l) /\ ~IsIndirect(l) BY <1>1 DEF l
<1>44. N \subseteq PathPlaces(l) /\ Middle(l) = InnerPlace(o) BY <1>43 DEF PathPlaces, Middle, o
<1>45. ~newi => disk'[din] = disk[din] BY <1>23 DEF dd
<1>46. \A x \in Block : disk'[x] # disk[x] =>
          \/ x = Walk(disk', n, DataPlace(l))
          \/ ~IsDirect(l) /\ DataPlace(l) \in N /\ x = Walk(disk', n, Middle(l))
          \/ ~IsDirect(l) /\ ~IsIndirect(l) /\ Middle(l) \in N /\ x = Walk(disk', n, DindirectPlace)
  BY <1>23, <1>35, <1>38, <1>43, <1>44, <1>45
<1>47. ASSUME NEW x \in freemap, NEW u \in Unit PROVE disk[x][u] \in {0, disk'[x][u]}
  <2>1. x \in Block /\ x # b BY <1>2, <1>14
  <2>2. CASE x # ind /\ x # din BY <1>23, <2>1, <2>2
  <2>3. CASE x = ind
    <3>1. ~newi /\ E(o) = ind /\ ind # 0 BY <1>11, <1>12, <1>18, <2>3
    <3>2. di[u] = IF u = Inner(l) THEN b ELSE disk[ind][u] BY <1>21, <3>1 DEF Ent
    <3>3. disk[ind][Inner(l)] = 0
      <4>1. DataAt(disk, in, l) = 0 BY <1>1, <1>2 DEF l
      <4>2. Ent(disk, E(o), Inner(l)) = 0 BY <1>43, <4>1 DEF DataAt, E, o
      <4> QED BY <3>1, <4>2 DEF Ent
    <3> QED BY <1>23, <2>3, <3>2, <3>3
  <2>4. CASE x = din
    <3>1. ~newd /\ din = in.i_dindirect /\ din # 0 BY <1>9, <1>10, <2>4
    <3>2. E(u) = disk[din][u] /\ E(o) = disk[din][o] BY <3>1 DEF E, Ent
    <3>3. dd[u] = IF u = o THEN ind ELSE disk[din][u] BY <1>20, <3>2
    <3>4. disk[din][o] \in {0, ind} BY <1>18, <3>2
    <3> QED BY <1>23, <2>4, <3>3, <3>4
  <2> QED BY <2>2, <2>3, <2>4
<1> HIDE DEF B, N
<1>48. Allocates(b, B, N, n)
  BY <1>1, <1>15, <1>23, <1>35, <1>37, <1>38, <1>39, <1>40, <1>41, <1>42, <1>44, <1>46, <1>47
     DEF l, Allocates, OnPath
<1> QED BY <1>48, AllocStep

-----------------------------------------------------------------------------
(* Steps that leave the blocks alone *)

\* Steps that change neither a block nor a pointer: creating an inode, and the
\* beginning and the end of a write.
LEMMA StillKeeps ==
    ASSUME FInv, TypeOK', Writing', pc' # "abort", disk' = disk, freemap' = freemap, used' = used,
           written' = written, inodes \subseteq inodes',
           \A f \in Inode : /\ Copy(f)'.i_block_nr = Copy(f).i_block_nr
                            /\ Copy(f)'.i_indirect = Copy(f).i_indirect
                            /\ Copy(f)'.i_dindirect = Copy(f).i_dindirect
                            /\ Copy(f)'.block_count = Copy(f).block_count,
           \A f \in Inode : Length(f)' = Length(f),
           \A f \in Inode : f \notin inodes' => dinode'[f] = Zeroed,
           \A f \in Inode : pc' = "write" /\ f = nr' /\ ~dirty' =>
                               Length(f)' = DIVROUNDUP(dinode'[f].i_size, BLOCK_SIZE)
    PROVE  FInv'
<1>1. /\ TypeOK /\ Writing /\ Rooted /\ Single /\ Covered /\ Counted /\ FreeIsZero
      /\ NotWritten /\ StoredAsWritten /\ Within
  BY DEF FInv
<1>2. inodes' \subseteq Inode
  <2>1. inodes' \in SUBSET (1 .. MaxInodes) BY DEF TypeOK, Inode
  <2> QED BY <2>1 DEF Inode
<1>3. ASSUME NEW f \in Inode, NEW p PROVE At(f, p)' = At(f, p)
  <2>1. Walk(disk', Copy(f)', p) = Walk(disk, Copy(f), p) BY DEF Walk, DataAt
  <2> QED BY <2>1 DEF At
<1>4. Rooted' BY <1>1, <1>3 DEF Rooted
<1>5. Single' BY <1>1, <1>3 DEF Single
<1>6. Covered' BY <1>1, <1>2, <1>3 DEF Covered
<1>7. ASSUME NEW f \in Inode, f \notin inodes PROVE \A p \in Place : At(f, p) = 0
  BY <1>1, <1>7 DEF Rooted
<1>8. Counted'
  <2>1. ASSUME NEW f \in inodes' PROVE Copy(f)'.block_count = Cardinality(Own(f)')
    <3>1. f \in Inode BY <1>2
    <3>2. Own(f)' = Own(f) BY <1>3, <3>1 DEF Own
    <3>3. Copy(f)'.block_count = Copy(f).block_count BY <3>1
    <3>4. CASE f \in inodes BY <1>1, <3>2, <3>3, <3>4 DEF Counted
    <3>5. CASE f \notin inodes
      <4>1. Own(f) = {} BY <1>7, <3>1, <3>5 DEF Own
      <4>2. Copy(f) = dinode[f] BY <1>1, <3>5 DEF Copy, Writing
      <4>3. dinode[f] = Zeroed BY <1>1, <3>1, <3>5 DEF FreeIsZero
      <4>4. Copy(f).block_count = 0 BY <4>2, <4>3 DEF Zeroed
      <4>5. Cardinality(Own(f)) = 0 BY <4>1, FS_EmptySet
      <4> QED BY <3>2, <3>3, <4>4, <4>5
    <3> QED BY <3>4, <3>5
  <2> QED BY <1>1, <2>1 DEF Counted
<1>9. FreeIsZero'
  <2>1. \A b \in Block \ freemap : disk[b] = ZeroBlock BY <1>1 DEF FreeIsZero
  <2> QED BY <2>1 DEF FreeIsZero, Zeroed, ZeroBlock
<1>10. NotWritten' BY <1>1, <1>2 DEF NotWritten
<1>11. StoredAsWritten'
  <2> SUFFICES ASSUME NEW f \in inodes', NEW off \in Offset
               PROVE  stored_unit(Copy(f), off)' = IF off \in written[f] THEN Data(f) ELSE 0
    BY DEF StoredAsWritten, Data
  <2>1. f \in Inode BY <1>2
  <2>2. stored_unit(Copy(f), off)' = stored_unit(Copy(f), off)
    BY <2>1 DEF stored_unit, read_block, Entry
  <2>3. CASE f \in inodes BY <1>1, <2>2, <2>3 DEF StoredAsWritten
  <2>4. CASE f \notin inodes
    <3>1. DataPlace(off \div BLOCK_SIZE) \in Place BY OffsetParts, PlaceKinds
    <3>2. At(f, DataPlace(off \div BLOCK_SIZE)) = 0 BY <1>7, <2>1, <2>4, <3>1
    <3>3. stored_unit(Copy(f), off) = 0 BY <3>2, ReadUnit DEF Ent
    <3>4. written[f] = {} BY <1>1, <2>1, <2>4 DEF NotWritten
    <3> QED BY <2>2, <3>3, <3>4
  <2> QED BY <2>3, <2>4
<1>12. Within'
  <2> SUFFICES ASSUME NEW f \in Inode
               PROVE  /\ \A p \in Place : At(f, p)' # 0 => Visited(Length(f)', p)
                      /\ Length(f)' > 0 => Walk(disk', Copy(f)', DataPlace(Length(f)' - 1)) # 0
                      /\ pc' = "write" /\ f = nr' /\ ~dirty' =>
                            Length(f)' = DIVROUNDUP(dinode'[f].i_size, BLOCK_SIZE)
    BY DEF Within, At, Visited, DIVROUNDUP, NR_INDIRECT_BLOCKS, DataPlace
  <2>1. \A p : Walk(disk', Copy(f)', p) = Walk(disk, Copy(f), p) BY DEF Walk, DataAt
  <2>2. /\ \A p \in Place : At(f, p) # 0 => Visited(Length(f), p)
        /\ Length(f) > 0 => At(f, DataPlace(Length(f) - 1)) # 0
    BY <1>1 DEF Within
  <2>3. Length(f)' = Length(f) OBVIOUS
  <2>4. \A p \in Place : At(f, p)' # 0 => Visited(Length(f)', p) BY <1>3, <2>2, <2>3
  <2>5. Length(f)' > 0 => Walk(disk', Copy(f)', DataPlace(Length(f)' - 1)) # 0
    BY <2>1, <2>2, <2>3 DEF At
  <2> QED BY <2>4, <2>5
<1> QED BY <1>4, <1>5, <1>6, <1>8, <1>9, <1>10, <1>11, <1>12 DEF FInv

LEMMA CreateInodeKeeps ==
    ASSUME FInv, NEW g \in Inode, create_inode(g)
    PROVE  FInv'
<1>1. /\ pc = "idle" /\ inodes' = inodes \cup {g} /\ pc' = pc /\ freemap' = freemap /\ used' = used
      /\ disk' = disk /\ dinode' = dinode /\ nr' = nr /\ in' = in /\ dirty' = dirty /\ start' = start
      /\ pos' = pos /\ end' = end /\ written' = written /\ kept' = kept
  BY DEF create_inode, cmdVars
<1>2. TypeOK /\ FreeIsZero BY DEF FInv
<1>3. TypeOK' BY <1>1, <1>2 DEF TypeOK
<1>4. Writing' BY <1>1 DEF Writing
<1>5. \A f \in Inode : Copy(f)' = Copy(f) /\ Length(f)' = Length(f)
  BY <1>1 DEF Copy, Length, DIVROUNDUP
<1>6. \A f \in Inode : f \notin inodes' => dinode'[f] = Zeroed BY <1>1, <1>2 DEF FreeIsZero
<1> QED BY <1>1, <1>3, <1>4, <1>5, <1>6, StillKeeps

LEMMA WriteBegins ==
    ASSUME FInv, NEW g \in Inode, NEW off \in Offset, NEW size \in 1 .. MaxWrite,
           write_data(g, off, size)
    PROVE  FInv'
<1>1. /\ pc = "idle" /\ g \in inodes /\ pc' = "write" /\ nr' = g /\ in' = dinode[g] /\ dirty' = FALSE
      /\ start' = off /\ pos' = off /\ end' = off + size /\ freemap' = freemap /\ used' = used
      /\ inodes' = inodes /\ disk' = disk /\ dinode' = dinode /\ written' = written /\ kept' = kept
  BY DEF write_data
<1>2. TypeOK /\ FreeIsZero BY DEF FInv
<1>3. off \in Nat /\ off <= MAX_FILE_SIZE /\ size \in Nat /\ MAX_FILE_SIZE \in Nat
  BY Sizes, FileBlocksAssumption DEF Offset
<1>4. TypeOK'
  <2>1. in' \in Dinodes /\ nr' \in Inode /\ start' \in Offset BY <1>1, <1>2 DEF TypeOK
  <2>2. pos' \in Nat /\ end' \in Nat BY <1>1, <1>3
  <2> QED BY <1>1, <1>2, <2>1, <2>2 DEF TypeOK
<1>5. Writing'
  <2>1. pos' <= MAX_FILE_SIZE' BY <1>1, <1>3 DEF MAX_FILE_SIZE, MAX_BLOCK_NR, NR_INDIRECT_BLOCKS
  <2> QED BY <1>1, <1>3, <2>1 DEF Writing
<1>6. \A f \in Inode : Copy(f)' = Copy(f) BY <1>1 DEF Copy
<1>7. Grown'.i_size = dinode[g].i_size
  <2>1. dinode[g] \in Dinodes BY <1>2 DEF TypeOK
  <2>2. ~(pos' > start') BY <1>1, <1>3
  <2>3. Grown' = [in' EXCEPT !.i_size = in'.i_size] BY <2>2 DEF Grown
  <2> QED BY <1>1, <2>1, <2>3 DEF Dinodes
<1>8. \A f \in Inode : Length(f)' = Length(f) /\ Length(f)' = DIVROUNDUP(dinode[f].i_size, BLOCK_SIZE)
  <2> SUFFICES ASSUME NEW f \in Inode
               PROVE  Length(f)' = Length(f) /\ Length(f)' = DIVROUNDUP(dinode[f].i_size, BLOCK_SIZE)
    OBVIOUS
  <2>1. Length(f) = DIVROUNDUP(dinode[f].i_size, BLOCK_SIZE) BY <1>1 DEF Length
  <2>2. Length(f)' = DIVROUNDUP(dinode[f].i_size, BLOCK_SIZE) BY <1>1, <1>7 DEF Length, DIVROUNDUP
  <2> QED BY <2>1, <2>2
<1>9. \A f \in Inode : f \notin inodes' => dinode'[f] = Zeroed BY <1>1, <1>2 DEF FreeIsZero
<1> QED BY <1>1, <1>4, <1>5, <1>6, <1>8, <1>9, StillKeeps

LEMMA KeepsType ==
    ASSUME TypeOK, NEW d, Keeps(d)
    PROVE  kept' \in [Inode -> SUBSET Offset]
<1> DEFINE U == {u \in Offset : start <= u /\ u < pos}
<1>1. kept' = IF d THEN [kept EXCEPT ![nr] = @ \cup U] ELSE kept BY DEF Keeps
<1>2. kept \in [Inode -> SUBSET Offset] /\ U \subseteq Offset BY DEF TypeOK
<1> HIDE DEF U
<1> QED BY <1>1, <1>2

\* testfs_sync_inode and testfs_put_inode: an inode that is not dirty is the one
\* on disk but for a size that adds no block.
LEMMA SyncKeeps ==
    ASSUME FInv, pc = "write", NEW d \in BOOLEAN, dirty => d, sync_and_put(Grown, d),
           freemap' = freemap, used' = used, inodes' = inodes, disk' = disk, written' = written,
           Keeps(d)
    PROVE  FInv'
<1>1. TypeOK /\ Writing /\ FreeIsZero /\ Within BY DEF FInv
<1>2. /\ pc' = "idle" /\ in' = Zeroed /\ dirty' = FALSE /\ nr' = 1 /\ start' = 0 /\ pos' = 0 /\ end' = 0
      /\ dinode' = IF d THEN [dinode EXCEPT ![nr] = Grown] ELSE dinode
  BY DEF sync_and_put
<1>3. /\ nr \in inodes /\ nr \in Inode /\ in \in Dinodes /\ dinode \in [Inode -> Dinodes] /\ pos \in Nat
      /\ pos <= MAX_FILE_SIZE /\ (~d => in = dinode[nr])
  BY <1>1 DEF TypeOK, Writing
<1>4. /\ Grown \in Dinodes /\ Grown.i_block_nr = in.i_block_nr /\ Grown.i_indirect = in.i_indirect
      /\ Grown.i_dindirect = in.i_dindirect /\ Grown.block_count = in.block_count
  <2> DEFINE s == IF pos > start /\ pos > in.i_size THEN pos ELSE in.i_size
  <2>1. in.i_size \in 0 .. MAX_FILE_SIZE BY <1>3 DEF Dinodes
  <2>2. s \in 0 .. MAX_FILE_SIZE BY <1>3, <2>1, Sizes
  <2>3. Grown = [in EXCEPT !.i_size = s] BY DEF Grown
  <2> HIDE DEF s
  <2> QED BY <1>3, <2>2, <2>3 DEF Dinodes
<1>5. Zeroed \in Dinodes BY Sizes DEF Zeroed, Dinodes, Ptr
<1> DEFINE G == Grown
<1> HIDE DEF G
<1>6. dinode' \in [Inode -> Dinodes] /\ (d => dinode'[nr] = G) /\ (~d => dinode' = dinode)
      /\ \A f \in Inode : f # nr => dinode'[f] = dinode[f]
  <2>1. G \in Dinodes /\ dinode' = IF d THEN [dinode EXCEPT ![nr] = G] ELSE dinode BY <1>2, <1>4 DEF G
  <2> QED BY <1>3, <2>1
<1>7. TypeOK'
  <2>1. 1 \in Inode /\ 0 \in Offset BY FileBlocksAssumption, Sizes DEF Inode, Offset
  <2>2. kept' \in [Inode -> SUBSET Offset] BY <1>1, KeepsType
  <2> QED BY <1>1, <1>2, <1>5, <1>6, <2>1, <2>2 DEF TypeOK
<1>8. Writing' BY <1>2 DEF Writing
<1>9. ASSUME NEW f \in Inode
      PROVE  /\ Copy(f)'.i_block_nr = Copy(f).i_block_nr /\ Copy(f)'.i_indirect = Copy(f).i_indirect
             /\ Copy(f)'.i_dindirect = Copy(f).i_dindirect /\ Copy(f)'.block_count = Copy(f).block_count
             /\ Length(f)' = Length(f)
  <2>1. Copy(f)' = dinode'[f] BY <1>2 DEF Copy
  <2>2. Length(f)' = DIVROUNDUP(dinode'[f].i_size, BLOCK_SIZE) BY <1>2 DEF Length, DIVROUNDUP
  <2>3. CASE f # nr
    <3>1. Copy(f) = dinode[f] /\ Length(f) = DIVROUNDUP(dinode[f].i_size, BLOCK_SIZE)
      BY <2>3 DEF Copy, Length
    <3> QED BY <1>6, <2>1, <2>2, <2>3, <3>1
  <2>4. CASE f = nr /\ d
    <3>1. Copy(f) = in /\ Length(f) = DIVROUNDUP(G.i_size, BLOCK_SIZE) BY <2>4 DEF Copy, Length, G
    <3>2. dinode'[f] = G BY <1>6, <2>4
    <3> QED BY <1>4, <2>1, <2>2, <3>1, <3>2 DEF G
  <2>5. CASE f = nr /\ ~d
    <3>1. Copy(f) = dinode[f] BY <1>3, <2>5 DEF Copy
    <3>2. Length(f) = DIVROUNDUP(dinode[f].i_size, BLOCK_SIZE) BY <1>1, <2>5 DEF Within
    <3> QED BY <1>6, <2>1, <2>2, <2>5, <3>1, <3>2
  <2> QED BY <2>3, <2>4, <2>5
<1>10. \A f \in Inode : f \notin inodes' => dinode'[f] = Zeroed BY <1>1, <1>3, <1>6 DEF FreeIsZero
<1> QED BY <1>2, <1>7, <1>8, <1>9, <1>10, StillKeeps

LEMMA WriteEnds ==
    ASSUME FInv, write_done \/ write_too_big \/ write_no_space
    PROVE  FInv'
<1>1. CASE write_done BY <1>1, SyncKeeps DEF write_done
<1>2. CASE write_too_big
  <2>1. dirty \in BOOLEAN BY DEF FInv, TypeOK
  <2> QED BY <1>2, <2>1, SyncKeeps DEF write_too_big
<1>3. CASE write_no_space
  <2> DEFINE lower(b) == {c \in Block \ freemap : c < b}
             freed == {b \in Block \ freemap : Cardinality(lower(b)) < Available}
  <2>1. /\ pc = "write" /\ disk' = [b \in Block |-> IF b \in freed THEN ZeroBlock ELSE disk[b]]
        /\ sync_and_put(Grown, dirty \/ Available > 0) /\ Keeps(dirty \/ Available > 0)
        /\ freemap' = freemap /\ used' = used /\ inodes' = inodes /\ written' = written
    BY <1>3 DEF write_no_space, InWrite
  \* What is freed again was free and zero before.
  <2>2. \A b \in freed : disk[b] = ZeroBlock BY DEF FInv, FreeIsZero
  <2> HIDE DEF freed
  <2>3. disk' = [b \in Block |-> disk[b]] BY <2>1, <2>2
  <2>4. disk = [b \in Block |-> disk[b]] BY DEF FInv, TypeOK
  <2>5. disk' = disk BY <2>3, <2>4
  <2> DEFINE d == dirty \/ Available > 0
  <2>6. d \in BOOLEAN /\ (dirty => d) OBVIOUS
  <2> HIDE DEF d
  <2>7. sync_and_put(Grown, d) /\ Keeps(d) BY <2>1 DEF d
  <2> QED BY <2>1, <2>5, <2>6, <2>7, SyncKeeps
<1> QED BY <1>1, <1>2, <1>3

-----------------------------------------------------------------------------
(* The references that testfs_free_blocks follows *)

\* Every place of a file that holds a block, with the block.
Held(f) == {<<p, At(f, p)>> : p \in {q \in Place : At(f, q) # 0}}

\* The same references, with the disk as a parameter.
DataRefsOn(dk, n, e) ==
    {<<<<"data", log>>, DataAt(dk, n, log)>> : log \in {l \in 0 .. MAX_BLOCK_NR - 1 : l < e}}

PointerRefsOn(dk, n, e) ==
    LET outer == {i \in Unit : NR_DIRECT_BLOCKS + NR_INDIRECT_BLOCKS * (i + 1) < e} IN
    {<<<<"indirect", 0>>, n.i_indirect>>}
    \cup {<<<<"inner", i>>, Ent(dk, n.i_dindirect, i)>> : i \in outer}
    \cup IF outer = {} THEN {} ELSE {<<<<"dindirect", 0>>, n.i_dindirect>>}

RefsOn(dk, n, e) == {r \in DataRefsOn(dk, n, e) \cup PointerRefsOn(dk, n, e) : r[2] # 0}

\* The references of an inode of e blocks are the visited places and their
\* blocks; the indirect block is looked at whatever e is.
LEMMA RefsOnIs ==
    ASSUME NEW dk, NEW n, NEW e \in Nat, e <= MAX_BLOCK_NR
    PROVE  RefsOn(dk, n, e) =
             {<<p, Walk(dk, n, p)>> :
                 p \in {q \in Place : Walk(dk, n, q) # 0 /\ (q = IndirectPlace \/ Visited(e, q))}}
<1> DEFINE V(p) == Walk(dk, n, p)
           S == {q \in Place : V(q) # 0 /\ (q = IndirectPlace \/ Visited(e, q))}
           outer == {i \in Unit : NR_DIRECT_BLOCKS + NR_INDIRECT_BLOCKS * (i + 1) < e}
<1>1. ASSUME NEW l \in Log PROVE DataAt(dk, n, l) = V(DataPlace(l)) BY WalkIs
<1>2. ASSUME NEW i \in Unit PROVE Ent(dk, n.i_dindirect, i) = V(InnerPlace(i)) BY WalkIs
<1>3. n.i_indirect = V(IndirectPlace) /\ n.i_dindirect = V(DindirectPlace) BY WalkIs
<1>4. /\ \A l \in Log : Visited(e, DataPlace(l)) <=> l < e
      /\ \A i \in Unit : Visited(e, InnerPlace(i)) <=> i \in outer
  <2>1. \A i : Visited(e, InnerPlace(i)) <=> NR_DIRECT_BLOCKS + BLOCK_SIZE * (i + 1) < e BY VisitedIs
  <2> QED BY <2>1, VisitedIs DEF NR_INDIRECT_BLOCKS
<1>5. Visited(e, DindirectPlace) <=> outer # {}
  <2>1. Visited(e, DindirectPlace) <=> NR_DIRECT_BLOCKS + BLOCK_SIZE < e BY VisitedIs
  <2>2. 0 \in Unit /\ BLOCK_SIZE * (0 + 1) = BLOCK_SIZE BY Sizes
  <2>3. \A i \in Unit : BLOCK_SIZE * (i + 1) >= BLOCK_SIZE /\ BLOCK_SIZE * (i + 1) \in Nat BY Sizes
  <2>4. ASSUME NEW i \in outer PROVE NR_DIRECT_BLOCKS + BLOCK_SIZE < e
    <3>1. i \in Unit /\ NR_DIRECT_BLOCKS + BLOCK_SIZE * (i + 1) < e BY DEF NR_INDIRECT_BLOCKS
    <3>2. BLOCK_SIZE * (i + 1) >= BLOCK_SIZE /\ BLOCK_SIZE * (i + 1) \in Nat BY <2>3, <3>1
    <3> HIDE DEF outer
    <3> QED BY <3>1, <3>2, Sizes
  <2>5. NR_DIRECT_BLOCKS + BLOCK_SIZE < e => 0 \in outer BY <2>2 DEF NR_INDIRECT_BLOCKS
  <2> QED BY <2>1, <2>4, <2>5
<1>6. \A r : r \in DataRefsOn(dk, n, e) <=> \E l \in Log : l < e /\ r = <<DataPlace(l), V(DataPlace(l))>>
  <2> HIDE DEF V
  <2>1. \A r : r \in DataRefsOn(dk, n, e) <=> \E l \in Log : l < e /\ r = <<DataPlace(l), DataAt(dk, n, l)>>
    BY DEF DataRefsOn, Log, DataPlace
  <2> QED BY <1>1, <2>1
<1>7. \A r : r \in PointerRefsOn(dk, n, e) <=>
               \/ r = <<IndirectPlace, V(IndirectPlace)>>
               \/ \E i \in outer : r = <<InnerPlace(i), V(InnerPlace(i))>>
               \/ (outer # {} /\ r = <<DindirectPlace, V(DindirectPlace)>>)
  <2>1. \A r : r \in PointerRefsOn(dk, n, e) <=>
               \/ r = <<IndirectPlace, n.i_indirect>>
               \/ \E i \in outer : r = <<InnerPlace(i), Ent(dk, n.i_dindirect, i)>>
               \/ (outer # {} /\ r = <<DindirectPlace, n.i_dindirect>>)
    BY DEF PointerRefsOn, IndirectPlace, InnerPlace, DindirectPlace
  <2>2. outer \subseteq Unit OBVIOUS
  <2> HIDE DEF V, outer
  <2> QED BY <1>2, <1>3, <2>1, <2>2
<1> HIDE DEF V, outer
<1>8. \A p, b : <<p, b>>[2] = b OBVIOUS
<1>9. ASSUME NEW r \in RefsOn(dk, n, e) PROVE \E p \in S : r = <<p, V(p)>>
  <2>1. r[2] # 0 /\ (r \in DataRefsOn(dk, n, e) \/ r \in PointerRefsOn(dk, n, e)) BY DEF RefsOn
  <2>2. SUFFICES \E p \in Place : r = <<p, V(p)>> /\ (p = IndirectPlace \/ Visited(e, p)) BY <2>1
  <2>3. CASE r \in DataRefsOn(dk, n, e)
    <3>1. PICK l \in Log : l < e /\ r = <<DataPlace(l), V(DataPlace(l))>> BY <1>6, <2>3
    <3> QED BY <1>4, <3>1, PlaceKinds
  <2>4. CASE r \in PointerRefsOn(dk, n, e)
    <3>1. CASE r = <<IndirectPlace, V(IndirectPlace)>> BY <3>1, PlaceKinds
    <3>2. CASE \E i \in outer : r = <<InnerPlace(i), V(InnerPlace(i))>>
      <4>1. PICK i \in outer : r = <<InnerPlace(i), V(InnerPlace(i))>> BY <3>2
      <4>2. i \in Unit BY DEF outer
      <4> QED BY <1>4, <4>1, <4>2, PlaceKinds
    <3>3. CASE outer # {} /\ r = <<DindirectPlace, V(DindirectPlace)>> BY <1>5, <3>3, PlaceKinds
    <3> QED BY <1>7, <2>4, <3>1, <3>2, <3>3
  <2> QED BY <2>1, <2>3, <2>4
<1>10. ASSUME NEW p \in S PROVE <<p, V(p)>> \in RefsOn(dk, n, e)
  <2>1. p \in Place /\ V(p) # 0 /\ (p = IndirectPlace \/ Visited(e, p)) OBVIOUS
  <2> HIDE DEF S
  <2>2. SUFFICES <<p, V(p)>> \in DataRefsOn(dk, n, e) \/ <<p, V(p)>> \in PointerRefsOn(dk, n, e)
    BY <1>8, <2>1 DEF RefsOn
  <2>3. CASE \E l \in Log : p = DataPlace(l)
    <3>1. PICK l \in Log : p = DataPlace(l) BY <2>3
    <3>2. l < e BY <1>4, <2>1, <3>1, PlacesDiffer
    <3> QED BY <1>6, <3>1, <3>2
  <2>4. CASE \E i \in Unit : p = InnerPlace(i)
    <3>1. PICK i \in Unit : p = InnerPlace(i) BY <2>4
    <3>2. i \in outer BY <1>4, <2>1, <3>1, PlacesDiffer
    <3> QED BY <1>7, <3>1, <3>2
  <2>5. CASE p = IndirectPlace BY <1>7, <2>5
  <2>6. CASE p = DindirectPlace
    <3>1. outer # {} BY <1>5, <2>1, <2>6, PlacesDiffer
    <3> QED BY <1>7, <2>6, <3>1
  <2> QED BY <2>1, <2>3, <2>4, <2>5, <2>6, PlaceKinds
<1>11. RefsOn(dk, n, e) = {<<p, V(p)>> : p \in S} BY <1>9, <1>10
<1> QED BY <1>11 DEF V

LEMMA RefsIs ==
    ASSUME NEW n, NEW e \in Nat, e <= MAX_BLOCK_NR
    PROVE  Refs(n, e) =
             {<<p, Walk(disk, n, p)>> :
                 p \in {q \in Place : Walk(disk, n, q) # 0 /\ (q = IndirectPlace \/ Visited(e, q))}}
<1>1. Refs(n, e) = RefsOn(disk, n, e)
  BY DEF Refs, DataRefs, PointerRefs, read_block, Entry, RefsOn, DataRefsOn, PointerRefsOn, DataAt, Ent
<1> QED BY <1>1, RefsOnIs

LEMMA DeviceRefsIs ==
    ASSUME NEW n, NEW e \in Nat, e <= MAX_BLOCK_NR
    PROVE  Device!Refs(n, e) =
             {<<p, Walk(dev.disk, n, p)>> :
                 p \in {q \in Place : Walk(dev.disk, n, q) # 0 /\ (q = IndirectPlace \/ Visited(e, q))}}
<1>1. Device!Refs(n, e) = RefsOn(dev.disk, n, e)
  BY DEF Device!Refs, Device!DataRefs, Device!PointerRefs, Device!read_block, Device!Entry, RefsOn, DataRefsOn,
         PointerRefsOn, DataAt, Ent, Device!MAX_BLOCK_NR, Device!NR_INDIRECT_BLOCKS, Device!Unit,
         Device!IsDirect, Device!IsIndirect, Device!InIndirect, Device!InDindirect, Device!Outer, Device!Inner,
         MAX_BLOCK_NR, NR_INDIRECT_BLOCKS, Unit, IsDirect, IsIndirect, InIndirect, InDindirect, Outer, Inner
<1> QED BY <1>1, RefsOnIs

\* They are all the blocks of a file that has none past its block e.
LEMMA RefsHeld ==
    ASSUME NEW f \in Inode, NEW e \in Nat, e <= MAX_BLOCK_NR,
           \A p \in Place : At(f, p) # 0 => Visited(e, p)
    PROVE  Refs(Copy(f), e) = Held(f)
<1> DEFINE S == {q \in Place : At(f, q) # 0 /\ (q = IndirectPlace \/ Visited(e, q))}
<1>1. Refs(Copy(f), e) = {<<p, At(f, p)>> : p \in S} BY RefsIs DEF At
<1>2. S = {q \in Place : At(f, q) # 0} OBVIOUS
<1> HIDE DEF S
<1> QED BY <1>1, <1>2 DEF Held

\* In a file of the largest size, every place is visited.
LEMMA AllVisited ==
    ASSUME NEW p \in Place
    PROVE  Visited(MAX_BLOCK_NR, p)
<1>1. ASSUME NEW l \in Log, p = DataPlace(l) PROVE Visited(MAX_BLOCK_NR, p)
  <2>1. l < MAX_BLOCK_NR BY Sizes DEF Log
  <2> QED BY <1>1, <2>1, VisitedIs
<1>2. ASSUME NEW i \in Unit, p = InnerPlace(i) PROVE Visited(MAX_BLOCK_NR, p)
  <2>1. i + 1 \in Nat /\ i + 1 <= BLOCK_SIZE BY Sizes
  <2>2. BLOCK_SIZE * (i + 1) <= BLOCK_SIZE * BLOCK_SIZE /\ BLOCK_SIZE * (i + 1) \in Nat BY <2>1, Sizes
  <2>3. NR_DIRECT_BLOCKS + BLOCK_SIZE * (i + 1) < MAX_BLOCK_NR BY <2>2, Sizes
  <2> QED BY <1>2, <2>3, VisitedIs
<1>3. CASE p = IndirectPlace
  <2>1. NR_DIRECT_BLOCKS < MAX_BLOCK_NR BY Sizes
  <2> QED BY <1>3, <2>1, VisitedIs
<1>4. CASE p = DindirectPlace
  <2>1. BLOCK_SIZE * BLOCK_SIZE > 0 BY Sizes
  <2>2. NR_DIRECT_BLOCKS + BLOCK_SIZE < MAX_BLOCK_NR BY <2>1, Sizes
  <2> QED BY <1>4, <2>2, VisitedIs
<1> QED BY <1>1, <1>2, <1>3, <1>4, PlaceKinds

LEMMA AllRefsHeld ==
    ASSUME NEW f \in Inode
    PROVE  AllRefs(f) = Held(f)
<1>1. \A p \in Place : Visited(MAX_BLOCK_NR, p) BY AllVisited
<1>2. MAX_BLOCK_NR \in Nat /\ MAX_BLOCK_NR <= MAX_BLOCK_NR BY Sizes
<1> QED BY <1>1, <1>2, RefsHeld DEF AllRefs

\* The references that lead from the inode n to its blocks, and these blocks.
HeldOn(dk, n) == {<<p, Walk(dk, n, p)>> : p \in {q \in Place : Walk(dk, n, q) # 0}}
OwnOn(dk, n) == {Walk(dk, n, p) : p \in Place} \ {0}

\* If no block is at two places, they are as many as the blocks.
LEMMA HeldOnOnce ==
    ASSUME NEW dk, NEW n, NEW fm, fm \subseteq Block,
           \A p \in Place : Walk(dk, n, p) # 0 => Walk(dk, n, p) \in fm,
           \A p, q \in Place : Walk(dk, n, p) # 0 /\ Walk(dk, n, p) = Walk(dk, n, q) => p = q
    PROVE  /\ Blocks(HeldOn(dk, n)) = OwnOn(dk, n) /\ OwnOn(dk, n) \subseteq fm
           /\ IsFiniteSet(OwnOn(dk, n)) /\ Cardinality(HeldOn(dk, n)) = Cardinality(OwnOn(dk, n))
<1> DEFINE V(p) == Walk(dk, n, p)
           H == HeldOn(dk, n)
           O == OwnOn(dk, n)
<1>1. \A r \in H : \E p \in Place : V(p) # 0 /\ r = <<p, V(p)>> BY DEF HeldOn
<1>2. \A p \in Place : V(p) # 0 => <<p, V(p)>> \in H BY DEF HeldOn
<1>3. O = {V(p) : p \in Place} \ {0} BY DEF OwnOn
<1> HIDE DEF H, O, V
<1>4. Blocks(H) = O
  <2>1. \A p, b : <<p, b>>[2] = b OBVIOUS
  <2>2. ASSUME NEW b \in Blocks(H) PROVE b \in O
    <3>1. PICK r \in H : b = r[2] BY DEF Blocks
    <3> QED BY <1>1, <1>3, <2>1, <3>1
  <2>3. ASSUME NEW b \in O PROVE b \in Blocks(H)
    <3>1. PICK p \in Place : V(p) = b /\ b # 0 BY <1>3
    <3> QED BY <1>2, <2>1, <3>1 DEF Blocks
  <2> QED BY <2>2, <2>3
<1>5. O \subseteq fm BY <1>3 DEF V
<1>6. IsFiniteSet(O) BY <1>5, BlockSets
<1> DEFINE h == [r \in H |-> r[2]]
<1>7. h \in Injection(H, O)
  <2>1. \A r \in H : r[2] \in O BY <1>1, <1>3
  <2>2. h \in [H -> O] BY <2>1
  <2>3. ASSUME NEW r \in H, NEW s \in H, r[2] = s[2] PROVE r = s
    <3>1. PICK p \in Place : V(p) # 0 /\ r = <<p, V(p)>> BY <1>1
    <3>2. PICK q \in Place : V(q) # 0 /\ s = <<q, V(q)>> BY <1>1
    <3>3. V(p) = V(q) BY <2>3, <3>1, <3>2
    <3>4. p = q BY <3>1, <3>3 DEF V
    <3> QED BY <3>1, <3>2, <3>4
  <2>4. IsInjective(h) BY <2>3 DEF IsInjective
  <2> QED BY <2>2, <2>4 DEF Injection
<1>8. h \in Surjection(H, O)
  <2>1. h \in [H -> O] BY <1>7 DEF Injection
  <2>2. \A b \in O : \E r \in H : h[r] = b BY <1>4 DEF Blocks
  <2> QED BY <2>1, <2>2 DEF Surjection
<1> HIDE DEF h
<1>9. Cardinality(H) = Cardinality(O) BY <1>6, <1>7, <1>8, FS_Injection
<1> QED BY <1>4, <1>5, <1>6, <1>9 DEF H, O

\* The references of a file are as many as its blocks, all of them in use.
LEMMA HeldOnce ==
    ASSUME TypeOK, Rooted, Single, NEW f \in Inode
    PROVE  /\ Blocks(Held(f)) = Own(f) /\ Own(f) \subseteq freemap
           /\ IsFiniteSet(Own(f)) /\ Cardinality(Held(f)) = Cardinality(Own(f))
<1> DEFINE n == Copy(f)
<1>1. Held(f) = HeldOn(disk, n) /\ Own(f) = OwnOn(disk, n) BY DEF Held, HeldOn, Own, OwnOn, At
<1>2. /\ freemap \subseteq Block
      /\ \A p \in Place : Walk(disk, n, p) # 0 => Walk(disk, n, p) \in freemap
      /\ \A p, q \in Place : Walk(disk, n, p) # 0 /\ Walk(disk, n, p) = Walk(disk, n, q) => p = q
  BY DEF TypeOK, Rooted, Single, At
<1> HIDE DEF n
<1>3. /\ Blocks(HeldOn(disk, n)) = OwnOn(disk, n) /\ OwnOn(disk, n) \subseteq freemap
      /\ IsFiniteSet(OwnOn(disk, n)) /\ Cardinality(HeldOn(disk, n)) = Cardinality(OwnOn(disk, n))
  BY ONLY <1>2, HeldOnOnce
<1> QED BY <1>1, <1>3

-----------------------------------------------------------------------------
(* Removing an inode *)

\* None of the assertions on the way fails.
LEMMA AssertsHold ==
    ASSUME FInv, pc = "idle", NEW f \in inodes
    PROVE  LET n == dinode[f]
               e == DIVROUNDUP(n.i_size, BLOCK_SIZE)
           IN  Refs(n, e) = Held(f) /\ FreeAsserts(n, e, Refs(n, e))
<1> DEFINE n == dinode[f]
           e == DIVROUNDUP(n.i_size, BLOCK_SIZE)
<1>1. TypeOK /\ Rooted /\ Single /\ Counted /\ Within BY DEF FInv
<1>2. f \in Inode /\ n \in Dinodes BY <1>1 DEF TypeOK
<1>3. Copy(f) = n /\ Length(f) = e BY DEF Copy, Length
<1>4. e \in Nat /\ e <= MAX_BLOCK_NR
  <2> HIDE DEF n
  <2>1. n.i_size \in 0 .. MAX_FILE_SIZE BY <1>2 DEF Dinodes
  <2>2. n.i_size \in Nat /\ n.i_size <= BLOCK_SIZE * MAX_BLOCK_NR BY <2>1, Sizes
  <2> QED BY <2>2, RoundUp, Sizes
<1>5. /\ \A p \in Place : At(f, p) # 0 => Visited(e, p)
      /\ e > 0 => At(f, DataPlace(e - 1)) # 0
  BY <1>1, <1>2, <1>3 DEF Within
<1>6. /\ \A p : At(f, p) = Walk(disk, n, p) BY <1>3 DEF At
<1> HIDE DEF n, e
<1>7. Refs(n, e) = Held(f) BY <1>2, <1>3, <1>4, <1>5, RefsHeld
<1>8. /\ Blocks(Held(f)) = Own(f) /\ Own(f) \subseteq freemap
      /\ IsFiniteSet(Own(f)) /\ Cardinality(Held(f)) = Cardinality(Own(f))
  BY <1>1, <1>2, HeldOnce
<1>9. n.i_indirect # 0 => e > NR_DIRECT_BLOCKS
  <2>1. At(f, IndirectPlace) = n.i_indirect BY <1>6, WalkIs
  <2>2. n.i_indirect # 0 => NR_DIRECT_BLOCKS < e BY <1>5, <2>1, VisitedIs, PlaceKinds
  <2> QED BY <1>4, <2>2, Sizes
\* A file that reaches beyond the indirect block ends in a block there.
<1>10. ASSUME e > NR_DIRECT_BLOCKS + NR_INDIRECT_BLOCKS PROVE n.i_dindirect # 0
  <2> DEFINE l == e - 1
  <2>1. l \in Log /\ ~IsDirect(l) /\ ~IsIndirect(l) /\ e > 0
    BY <1>4, <1>10, Sizes DEF Log, IsDirect, IsIndirect
  <2>2. At(f, DataPlace(l)) # 0 BY <1>5, <2>1
  <2> HIDE DEF l
  <2>3. At(f, DataPlace(l)) = DataAt(disk, n, l) BY <1>6, WalkIs
  <2>4. Ent(disk, Ent(disk, n.i_dindirect, Outer(l)), Inner(l)) # 0 BY <2>1, <2>2, <2>3 DEF DataAt
  <2> QED BY <2>4 DEF Ent
<1>11. Cardinality(Held(f)) <= used /\ Cardinality(Held(f)) = n.block_count
  <2>1. freemap \subseteq Block BY <1>1 DEF TypeOK
  <2>2. IsFiniteSet(freemap) BY <2>1, BlockSets
  <2>3. Cardinality(Own(f)) <= Cardinality(freemap) BY <1>8, <2>2, FS_Subset
  <2> QED BY <1>1, <1>3, <1>8, <2>3 DEF Counted
<1>12. FreeAsserts(n, e, Held(f)) BY <1>8, <1>9, <1>10, <1>11 DEF FreeAsserts
<1> QED BY <1>7, <1>12 DEF n, e

\* A zeroed inode has no blocks, whatever is on the disk.
LEMMA ZeroedHasNone ==
    ASSUME NEW dk
    PROVE  \A p \in Place : Walk(dk, Zeroed, p) = 0
<1>1. \A l \in Log : IsDirect(l) => l \in Direct BY Sizes DEF IsDirect, Log, Direct
<1>2. \A l \in Direct : Zeroed.i_block_nr[l] = 0 BY DEF Zeroed
<1>3. Zeroed.i_indirect = 0 /\ Zeroed.i_dindirect = 0 BY DEF Zeroed
<1>4. \A l \in Log : DataAt(dk, Zeroed, l) = 0 BY <1>1, <1>2, <1>3 DEF DataAt, Ent
<1>5. \A i : Ent(dk, Zeroed.i_dindirect, i) = 0 BY <1>3 DEF Ent
<1> SUFFICES ASSUME NEW p \in Place PROVE Walk(dk, Zeroed, p) = 0 OBVIOUS
<1>6. ASSUME NEW l \in Log, p = DataPlace(l) PROVE Walk(dk, Zeroed, p) = 0
  BY <1>4, <1>6, WalkIs
<1>7. ASSUME NEW i \in Unit, p = InnerPlace(i) PROVE Walk(dk, Zeroed, p) = 0
  <2>1. Walk(dk, Zeroed, InnerPlace(i)) = Ent(dk, Zeroed.i_dindirect, i) BY WalkIs
  <2> QED BY <1>5, <1>7, <2>1
<1>8. CASE p = IndirectPlace BY <1>3, <1>8, WalkIs
<1>9. CASE p = DindirectPlace BY <1>3, <1>9, WalkIs
<1> QED BY <1>6, <1>7, <1>8, <1>9, PlaceKinds

LEMMA EmptyFile == DIVROUNDUP(0, BLOCK_SIZE) = 0
<1>1. 0 <= BLOCK_SIZE * 0 BY Sizes
<1>2. DIVROUNDUP(0, BLOCK_SIZE) \in Nat /\ DIVROUNDUP(0, BLOCK_SIZE) <= 0 BY <1>1, RoundUp
<1> QED BY <1>2

LEMMA RemoveKeeps ==
    ASSUME FInv, NEW f \in Inode, remove_inode(f)
    PROVE  FInv'
<1>1. /\ TypeOK /\ Writing /\ Rooted /\ Single /\ Covered /\ Counted /\ FreeIsZero
      /\ NotWritten /\ StoredAsWritten /\ Within
  BY DEF FInv
<1>2. pc = "idle" /\ f \in inodes BY DEF remove_inode
<1>3. /\ Blocks(Held(f)) = Own(f) /\ Own(f) \subseteq freemap
      /\ IsFiniteSet(Own(f)) /\ Cardinality(Held(f)) = Cardinality(Own(f))
  BY <1>1, HeldOnce
<1>4. /\ freemap' = freemap \ Own(f) /\ used' = used - Cardinality(Own(f))
      /\ disk' = [b \in Block |-> IF b \in Own(f) THEN ZeroBlock ELSE disk[b]]
      /\ dinode' = [dinode EXCEPT ![f] = Zeroed] /\ inodes' = inodes \ {f}
      /\ written' = [written EXCEPT ![f] = {}] /\ kept' = [kept EXCEPT ![f] = {}] /\ pc' = "idle"
      /\ nr' = nr /\ in' = in /\ dirty' = dirty /\ start' = start /\ pos' = pos /\ end' = end
  <2> DEFINE n == dinode[f]
             e == DIVROUNDUP(n.i_size, BLOCK_SIZE)
             R == Refs(n, e)
  <2>1. R = Held(f) /\ FreeAsserts(n, e, R) BY <1>2, AssertsHold
  <2>2. /\ freemap' = freemap \ Blocks(R) /\ used' = used - Cardinality(R)
        /\ disk' = [b \in Block |-> IF b \in Blocks(R) THEN ZeroBlock ELSE disk[b]]
        /\ dinode' = [dinode EXCEPT ![f] = Zeroed] /\ inodes' = inodes \ {f}
        /\ written' = [written EXCEPT ![f] = {}] /\ kept' = [kept EXCEPT ![f] = {}] /\ pc' = pc
        /\ nr' = nr /\ in' = in /\ dirty' = dirty /\ start' = start /\ pos' = pos /\ end' = end
    BY <2>1 DEF remove_inode, cmdVars
  <2> HIDE DEF R
  <2> QED BY <1>2, <1>3, <2>1, <2>2
<1>5. /\ freemap \subseteq Block /\ inodes \subseteq Inode /\ dinode \in [Inode -> Dinodes]
      /\ disk \in [Block -> [Unit -> Ptr \cup Inode]] /\ written \in [Inode -> SUBSET Offset]
  BY <1>1 DEF TypeOK
<1>6. /\ dinode'[f] = Zeroed /\ written'[f] = {}
      /\ \A g \in Inode : g # f => dinode'[g] = dinode[g] /\ written'[g] = written[g]
      /\ \A b \in Block : b \notin Own(f) => disk'[b] = disk[b]
      /\ \A b \in Own(f) : disk'[b] = ZeroBlock
  BY <1>3, <1>4, <1>5
\* The other files keep their blocks,
<1>7. ASSUME NEW g \in Inode, g # f, NEW p \in Place
      PROVE  At(g, p) # 0 => At(g, p) \in Block /\ At(g, p) \notin Own(f)
                               /\ disk'[At(g, p)] = disk[At(g, p)]
  <2>1. At(g, p) # 0 => At(g, p) \in freemap BY <1>1 DEF Rooted
  <2>2. At(g, p) # 0 => At(g, p) \notin Own(f) BY <1>1, <1>7 DEF Single, Own
  <2> QED BY <1>5, <1>6, <2>1, <2>2
<1>8. ASSUME NEW g \in Inode, g # f
      PROVE  Copy(g)' = dinode[g] /\ Copy(g) = dinode[g]
  BY <1>2, <1>4, <1>6, <1>8 DEF Copy
<1>9. ASSUME NEW g \in Inode, g # f
      PROVE  \A p \in Place : Walk(disk', Copy(g)', p) = At(g, p)
  <2> DEFINE n == dinode[g]
  <2>1. \A p \in Place : At(g, p) = Walk(disk, n, p) BY <1>8, <1>9 DEF At
  <2> HIDE DEF n
  <2>2. n.i_indirect # 0 => disk'[n.i_indirect] = disk[n.i_indirect]
    <3>1. At(g, IndirectPlace) = n.i_indirect BY <2>1, WalkIs, PlaceKinds
    <3> QED BY <1>7, <1>9, <3>1, PlaceKinds
  <2>3. n.i_dindirect # 0 => disk'[n.i_dindirect] = disk[n.i_dindirect]
    <3>1. At(g, DindirectPlace) = n.i_dindirect BY <2>1, WalkIs, PlaceKinds
    <3> QED BY <1>7, <1>9, <3>1, PlaceKinds
  <2>4. \A i \in Unit : LET x == Ent(disk, n.i_dindirect, i) IN x # 0 => disk'[x] = disk[x]
    <3> SUFFICES ASSUME NEW i \in Unit, Ent(disk, n.i_dindirect, i) # 0
                 PROVE  disk'[Ent(disk, n.i_dindirect, i)] = disk[Ent(disk, n.i_dindirect, i)]
      OBVIOUS
    <3>1. InnerPlace(i) \in Place BY PlaceKinds
    <3>2. At(g, InnerPlace(i)) = Ent(disk, n.i_dindirect, i) BY <2>1, <3>1, WalkIs
    <3> QED BY <1>7, <1>9, <3>1, <3>2
  <2>5. \A p \in Place : Walk(disk', n, p) = Walk(disk, n, p) BY <2>2, <2>3, <2>4, WalkSame
  <2>6. Copy(g)' = n BY <1>8, <1>9 DEF n
  <2> QED BY <2>1, <2>5, <2>6
\* and f has none.
<1>10. Copy(f)' = Zeroed BY <1>2, <1>4, <1>6 DEF Copy
<1>11. \A p \in Place : Walk(disk', Copy(f)', p) = 0 BY <1>10, ZeroedHasNone
<1> DEFINE Z(g, p) == Walk(disk', Copy(g)', p)
<1>12. \A g \in Inode : \A p \in Place : Z(g, p) = IF g = f THEN 0 ELSE At(g, p) BY <1>9, <1>11
<1>13. \A g, p : At(g, p)' = Z(g, p) BY DEF At
<1> HIDE DEF Z
<1>14. Cardinality(freemap') = Cardinality(freemap) - Cardinality(Own(f)) /\ used' = Cardinality(freemap')
  <2>1. IsFiniteSet(freemap) BY <1>5, BlockSets
  <2>2. freemap \cap Own(f) = Own(f) BY <1>3
  <2>3. Cardinality(freemap \ Own(f)) = Cardinality(freemap) - Cardinality(Own(f))
    BY <2>1, <2>2, FS_Difference
  <2> QED BY <1>1, <1>4, <2>3 DEF Counted
<1>15. Zeroed \in Dinodes BY Sizes DEF Zeroed, Dinodes, Ptr
<1>16. TypeOK'
  <2>1. freemap' \subseteq Block /\ inodes' \subseteq Inode BY <1>4, <1>5
  <2>2. used' \in 0 .. MaxFsBlocks
    <3>1. used \in 0 .. MaxFsBlocks BY <1>1 DEF TypeOK
    <3>2. Cardinality(Own(f)) \in Nat BY <1>3, FS_CardinalityType
    <3>3. used' \in Nat BY <1>14, <2>1, BlockSets
    <3> QED BY <1>4, <3>1, <3>2, <3>3, FileBlocksAssumption
  <2>3. ZeroBlock \in [Unit -> Ptr \cup Inode] BY DEF ZeroBlock, Ptr
  <2>4. disk' \in [Block -> [Unit -> Ptr \cup Inode]] BY <1>4, <1>5, <2>3
  <2>5. dinode' \in [Inode -> Dinodes] BY <1>4, <1>5, <1>15
  <2>6. written' \in [Inode -> SUBSET Offset] /\ kept' \in [Inode -> SUBSET Offset]
    BY <1>1, <1>4, <1>5 DEF TypeOK
  <2> QED BY <1>1, <1>4, <2>1, <2>2, <2>4, <2>5, <2>6 DEF TypeOK
<1>17. Writing' BY <1>4 DEF Writing
<1>18. Rooted'
  <2> SUFFICES ASSUME NEW g \in Inode, NEW p \in Place
               PROVE  Z(g, p) \in Ptr /\ (Z(g, p) # 0 => Z(g, p) \in freemap' /\ g \in inodes')
    BY <1>13 DEF Rooted
  <2>1. At(g, p) \in Ptr /\ (At(g, p) # 0 => At(g, p) \in freemap /\ g \in inodes)
    BY <1>1 DEF Rooted
  <2>2. CASE g = f BY <1>12, <2>2 DEF Ptr
  <2>3. CASE g # f BY <1>4, <1>7, <1>12, <2>1, <2>3
  <2> QED BY <2>2, <2>3
<1>19. Single'
  <2> SUFFICES ASSUME NEW g \in Inode, NEW h \in Inode, NEW p \in Place, NEW q \in Place,
                      Z(g, p) # 0, Z(g, p) = Z(h, q)
               PROVE  g = h /\ p = q
    BY <1>13 DEF Single
  <2>1. At(g, p) # 0 /\ At(g, p) = At(h, q) BY <1>12
  <2> QED BY <1>1, <2>1 DEF Single
<1>20. Covered'
  <2> SUFFICES ASSUME NEW b \in freemap'
               PROVE  \E g \in inodes' : \E p \in Place : Z(g, p) = b
    BY <1>13 DEF Covered
  <2>1. b \in freemap /\ b \notin Own(f) BY <1>4
  <2>2. b # 0 BY <1>5, <2>1 DEF Block
  <2>3. PICK g \in inodes, p \in Place : At(g, p) = b BY <1>1, <2>1 DEF Covered
  <2>4. g # f BY <2>1, <2>2, <2>3 DEF Own
  <2> QED BY <1>4, <1>5, <1>12, <2>3, <2>4
<1>21. Counted'
  <2> SUFFICES ASSUME NEW g \in inodes' PROVE Copy(g)'.block_count = Cardinality(Own(g)')
    BY <1>14 DEF Counted
  <2>1. g \in inodes /\ g \in Inode /\ g # f BY <1>4, <1>5
  <2>2. Own(g)' = Own(g) BY <1>12, <1>13, <2>1 DEF Own
  <2>3. Copy(g)' = Copy(g) BY <1>8, <2>1
  <2> QED BY <1>1, <2>1, <2>2, <2>3 DEF Counted
<1>22. FreeIsZero'
  <2>1. \A g \in Inode \ inodes' : dinode'[g] = Zeroed BY <1>1, <1>4, <1>6 DEF FreeIsZero
  <2>2. \A b \in Block \ freemap' : disk'[b] = ZeroBlock BY <1>1, <1>4, <1>6 DEF FreeIsZero
  <2> QED BY <2>1, <2>2 DEF FreeIsZero, Zeroed, ZeroBlock
<1>23. NotWritten' BY <1>1, <1>4, <1>6 DEF NotWritten
<1>24. StoredAsWritten'
  <2> SUFFICES ASSUME NEW g \in inodes', NEW off \in Offset
               PROVE  stored_unit(Copy(g), off)' = IF off \in written'[g] THEN Data(g) ELSE 0
    BY DEF StoredAsWritten, Data
  <2>1. g \in inodes /\ g \in Inode /\ g # f BY <1>4, <1>5
  <2> DEFINE p == DataPlace(off \div BLOCK_SIZE)
  <2>2. p \in Place BY OffsetParts, PlaceKinds
  <2>3. DataAt(disk', Copy(g)', off \div BLOCK_SIZE) = At(g, p)
    <3>1. Walk(disk', Copy(g)', p) = DataAt(disk', Copy(g)', off \div BLOCK_SIZE) BY WalkIs
    <3> HIDE DEF p
    <3> QED BY <1>9, <2>1, <2>2, <3>1
  <2>4. stored_unit(Copy(g), off)' = Ent(disk', DataAt(disk', Copy(g)', off \div BLOCK_SIZE), off % BLOCK_SIZE)
    BY DEF stored_unit, read_block, Entry, Ent, DataAt
  <2>5. stored_unit(Copy(g), off) = Ent(disk, At(g, p), off % BLOCK_SIZE) BY ReadUnit
  <2> HIDE DEF p
  <2>6. Ent(disk', At(g, p), off % BLOCK_SIZE) = Ent(disk, At(g, p), off % BLOCK_SIZE)
    BY <1>7, <2>1, <2>2 DEF Ent
  <2>7. stored_unit(Copy(g), off) = IF off \in written[g] THEN Data(g) ELSE 0
    BY <1>1, <2>1 DEF StoredAsWritten
  <2> QED BY <1>6, <2>1, <2>3, <2>4, <2>5, <2>6, <2>7
<1>25. Within'
  <2> SUFFICES ASSUME NEW g \in Inode
               PROVE  /\ \A p \in Place : Z(g, p) # 0 => Visited(Length(g)', p)
                      /\ Length(g)' > 0 => Z(g, DataPlace(Length(g)' - 1)) # 0
    BY <1>4, <1>13 DEF Within, Visited, NR_INDIRECT_BLOCKS, DataPlace, Z, At
  <2>1. Length(g)' = DIVROUNDUP(dinode'[g].i_size, BLOCK_SIZE) BY <1>4 DEF Length, DIVROUNDUP
  <2>2. CASE g = f
    <3>1. dinode'[f].i_size = 0 BY <1>6 DEF Zeroed
    <3>2. DIVROUNDUP(0, BLOCK_SIZE) = 0 BY EmptyFile
    <3> QED BY <1>12, <2>1, <2>2, <3>1, <3>2
  <2>3. CASE g # f
    <3>1. Length(g)' = Length(g) BY <1>2, <1>6, <2>1, <2>3 DEF Length
    <3>2. /\ \A p \in Place : At(g, p) # 0 => Visited(Length(g), p)
          /\ Length(g) > 0 => At(g, DataPlace(Length(g) - 1)) # 0
      BY <1>1 DEF Within
    <3>3. Length(g) > 0 => DataPlace(Length(g) - 1) \in Place
      <4>1. dinode[g] \in Dinodes BY <1>5
      <4>2. dinode[g].i_size \in Nat /\ dinode[g].i_size <= BLOCK_SIZE * MAX_BLOCK_NR
        BY <4>1, Sizes DEF Dinodes
      <4>3. Length(g) = DIVROUNDUP(dinode[g].i_size, BLOCK_SIZE) BY <1>2 DEF Length
      <4>4. Length(g) \in Nat /\ Length(g) <= MAX_BLOCK_NR BY <4>2, <4>3, RoundUp, Sizes
      <4>5. Length(g) > 0 => Length(g) - 1 \in Log BY <4>4, Sizes DEF Log
      <4> QED BY <4>5, PlaceKinds
    <3> QED BY <1>12, <2>3, <3>1, <3>2, <3>3
  <2> QED BY <2>2, <2>3
<1> QED BY <1>4, <1>16, <1>17, <1>18, <1>19, <1>20, <1>21, <1>22, <1>23, <1>24, <1>25 DEF FInv

-----------------------------------------------------------------------------
(* The invariant *)

LEMMA FilesInit ==
    ASSUME Init
    PROVE  FInv
<1>1. /\ freemap = {} /\ used = 0 /\ inodes = {} /\ disk = [b \in Block |-> ZeroBlock]
      /\ dinode = [g \in Inode |-> Zeroed] /\ pc = "idle" /\ nr = 1 /\ in = Zeroed /\ dirty = FALSE
      /\ start = 0 /\ pos = 0 /\ end = 0 /\ written = [g \in Inode |-> {}]
      /\ kept = [g \in Inode |-> {}]
  BY DEF Init
<1>2. Zeroed \in Dinodes BY Sizes DEF Zeroed, Dinodes, Ptr
<1>3. TypeOK
  <2>1. 1 \in Inode /\ 0 \in Offset /\ 0 \in 0 .. MaxFsBlocks
    BY FileBlocksAssumption, Sizes DEF Inode, Offset
  <2>2. ZeroBlock \in [Unit -> Ptr \cup Inode] BY DEF ZeroBlock, Ptr
  <2>3. disk \in [Block -> [Unit -> Ptr \cup Inode]] BY <1>1, <2>2
  <2>4. dinode \in [Inode -> Dinodes] BY <1>1, <1>2
  <2>5. written \in [Inode -> SUBSET Offset] /\ kept \in [Inode -> SUBSET Offset] BY <1>1
  <2> QED BY <1>1, <1>2, <2>1, <2>3, <2>4, <2>5 DEF TypeOK
<1>4. ASSUME NEW f \in Inode PROVE \A p \in Place : At(f, p) = 0
  <2>1. Copy(f) = Zeroed BY <1>1 DEF Copy
  <2>2. \A p \in Place : Walk(disk, Zeroed, p) = 0 BY ZeroedHasNone
  <2> QED BY <2>1, <2>2 DEF At
<1>5. Rooted BY <1>4 DEF Rooted, Ptr
<1>6. Single BY <1>4 DEF Single
<1>7. Covered BY <1>1 DEF Covered
<1>8. Counted BY <1>1, FS_EmptySet DEF Counted
<1>9. FreeIsZero BY <1>1 DEF FreeIsZero
<1>10. NotWritten BY <1>1 DEF NotWritten
<1>11. StoredAsWritten BY <1>1 DEF StoredAsWritten
<1>12. Within
  <2> SUFFICES ASSUME NEW f \in Inode PROVE Length(f) = 0
    BY <1>1, <1>4 DEF Within
  <2>1. Length(f) = DIVROUNDUP(0, BLOCK_SIZE) BY <1>1 DEF Length, Zeroed
  <2> QED BY <2>1, EmptyFile
<1> QED BY <1>1, <1>3, <1>5, <1>6, <1>7, <1>8, <1>9, <1>10, <1>11, <1>12 DEF FInv, Writing

LEMMA BaseHolds ==
    ASSUME FInv
    PROVE  Base(Inode)
<1>1. TypeOK /\ Rooted /\ Single BY DEF FInv
<1>2. nr \in Inode BY <1>1 DEF TypeOK
<1>3. RootedIn(Inode) /\ SingleIn(Inode) BY <1>1 DEF Rooted, RootedIn, Single, SingleIn
<1> QED BY <1>1, <1>2, <1>3 DEF Base

LEMMA FilesNext ==
    ASSUME FInv, [Next]_vars
    PROVE  FInv'
<1>0. Base(Inode) BY BaseHolds
<1>1. ASSUME NEW f \in Inode, create_inode(f) PROVE FInv' BY <1>1, CreateInodeKeeps
<1>2. ASSUME NEW f \in Inode, remove_inode(f) PROVE FInv' BY <1>2, RemoveKeeps
<1>3. ASSUME NEW f \in Inode, NEW off \in Offset, NEW size \in 1 .. MaxWrite, write_data(f, off, size)
      PROVE  FInv'
  BY <1>3, WriteBegins
<1>4. CASE write_existing
  <2>1. \E B, N : WriteStep(Inode, B, N) BY <1>0, <1>4, ExistingStep
  <2> QED BY <1>0, <2>1, WriteKeeps
<1>5. CASE write_direct
  <2>1. \E B, N : WriteStep(Inode, B, N) BY <1>0, <1>5, DirectStep
  <2> QED BY <1>0, <2>1, WriteKeeps
<1>6. CASE write_indirect
  <2>1. \E B, N : WriteStep(Inode, B, N) BY <1>0, <1>6, IndirectStep
  <2> QED BY <1>0, <2>1, WriteKeeps
<1>7. CASE write_dindirect
  <2>1. \E B, N : WriteStep(Inode, B, N) BY <1>0, <1>7, DindirectStep
  <2> QED BY <1>0, <2>1, WriteKeeps
<1>8. CASE write_done \/ write_too_big \/ write_no_space BY <1>8, WriteEnds
<1>9. CASE UNCHANGED vars
  <2>1. /\ freemap' = freemap /\ used' = used /\ inodes' = inodes /\ disk' = disk /\ dinode' = dinode
        /\ pc' = pc /\ nr' = nr /\ in' = in /\ dirty' = dirty /\ start' = start /\ pos' = pos /\ end' = end
        /\ written' = written /\ kept' = kept
    BY <1>9 DEF vars
  <2>2. TypeOK /\ Writing /\ FreeIsZero /\ Within /\ pc # "abort" BY DEF FInv
  <2>3. TypeOK' BY <2>1, <2>2 DEF TypeOK
  <2>4. Writing' BY <2>1, <2>2 DEF Writing, MAX_FILE_SIZE, MAX_BLOCK_NR, NR_INDIRECT_BLOCKS
  <2>5. Grown' = Grown BY <2>1 DEF Grown
  <2>6. \A f \in Inode : Copy(f)' = Copy(f) /\ Length(f)' = Length(f)
    BY <2>1, <2>5 DEF Copy, Length, DIVROUNDUP
  <2>7. \A f \in Inode : f \notin inodes' => dinode'[f] = Zeroed BY <2>1, <2>2 DEF FreeIsZero
  <2>8. \A f \in Inode : pc' = "write" /\ f = nr' /\ ~dirty' =>
                           Length(f)' = DIVROUNDUP(dinode'[f].i_size, BLOCK_SIZE)
    BY <2>1, <2>2, <2>6 DEF Within
  <2> QED BY <2>1, <2>2, <2>3, <2>4, <2>6, <2>7, <2>8, StillKeeps
<1> QED BY <1>1, <1>2, <1>3, <1>4, <1>5, <1>6, <1>7, <1>8, <1>9 DEF Next

LEMMA KeptNext ==
    ASSUME FInv, KeptReadable, [Next]_vars
    PROVE  KeptReadable'
<1>0. TypeOK /\ Writing /\ start \in Nat BY Sizes DEF FInv, TypeOK, Offset
<1>1. ASSUME NEW f \in Inode, create_inode(f) PROVE KeptReadable'
  <2>1. /\ pc' = pc /\ pc = "idle" /\ dinode' = dinode /\ written' = written /\ kept' = kept /\ start' = start
    BY <1>1 DEF create_inode, cmdVars
  <2>2. \A g \in Inode : Copy(g)'.i_size = Copy(g).i_size BY <2>1 DEF Copy
  <2> QED BY <1>0, <2>1, <2>2, KeptStill
<1>2. ASSUME NEW f \in Inode, remove_inode(f) PROVE KeptReadable' BY <1>0, <1>2, KeptRemove
<1>3. ASSUME NEW f \in Inode, NEW off \in Offset, NEW size \in 1 .. MaxWrite, write_data(f, off, size)
      PROVE  KeptReadable'
  BY <1>3, KeptBegins
<1>4. ASSUME NEW B, NEW N, WriteStep(Inode, B, N) PROVE KeptReadable' BY <1>0, <1>4, KeptWrite
<1>5. Base(Inode) BY BaseHolds
<1>6. CASE write_existing BY <1>4, <1>5, <1>6, ExistingStep
<1>7. CASE write_direct BY <1>4, <1>5, <1>7, DirectStep
<1>8. CASE write_indirect BY <1>4, <1>5, <1>8, IndirectStep
<1>9. CASE write_dindirect BY <1>4, <1>5, <1>9, DindirectStep
<1>10. CASE write_done \/ write_too_big \/ write_no_space
  <2>1. pc = "write" BY <1>10 DEF write_done, write_too_big, write_no_space, InWrite
  <2>2. ~dirty => in = dinode[nr] BY <1>0, <2>1 DEF Writing
  <2> QED BY <1>0, <1>10, <2>2, KeptEnds
<1>11. CASE UNCHANGED vars
  <2>1. /\ pc' = pc /\ dinode' = dinode /\ written' = written /\ kept' = kept /\ start' = start
        /\ in' = in /\ nr' = nr /\ pos' = pos
    BY <1>11 DEF vars
  <2>2. \A g \in Inode : Copy(g)'.i_size = Copy(g).i_size BY <2>1 DEF Copy
  <2> QED BY <1>0, <2>1, <2>2, KeptStill
<1> QED BY <1>1, <1>2, <1>3, <1>6, <1>7, <1>8, <1>9, <1>10, <1>11 DEF Next

LEMMA FilesInvariant == Spec => [](FInv /\ KeptReadable)
<1>1. Init => FInv /\ KeptReadable
  <2>1. Init => KeptReadable BY DEF Init, KeptReadable, Kept
  <2> QED BY <2>1, FilesInit
<1>2. FInv /\ KeptReadable /\ [Next]_vars => FInv' /\ KeptReadable' BY FilesNext, KeptNext
<1> QED BY <1>1, <1>2, PTL DEF Spec

-----------------------------------------------------------------------------
(* Theorems *)

\* No block is lost and none is used twice, also between the steps of a write
\* and after one that ran out of space, and the counters of stat and fsstat are
\* right: testfs_allocate_block with its roll back, testfs_free_blocks.
THEOREM NoBlockLost == Spec => []EveryBlockOnce
<1>1. FInv => EveryBlockOnce
  <2> SUFFICES ASSUME FInv PROVE EveryBlockOnce OBVIOUS
  <2>1. TypeOK /\ Rooted /\ Single /\ Covered /\ Counted BY DEF FInv
  <2>2. inodes \subseteq Inode /\ freemap \subseteq Block BY <2>1 DEF TypeOK
  <2>3. ASSUME NEW f \in inodes
        PROVE  /\ Blocks(AllRefs(f)) = Own(f) /\ Own(f) \subseteq freemap
               /\ Cardinality(AllRefs(f)) = Cardinality(Own(f))
    <3>1. f \in Inode BY <2>2
    <3>2. AllRefs(f) = Held(f) BY <3>1, AllRefsHeld
    <3> QED BY <2>1, <3>1, <3>2, HeldOnce
  <2>4. freemap = UNION {Blocks(AllRefs(f)) : f \in inodes}
    <3>1. ASSUME NEW b \in freemap PROVE \E f \in inodes : b \in Blocks(AllRefs(f))
      <4>1. b # 0 BY <2>2 DEF Block
      <4>2. PICK f \in inodes, p \in Place : At(f, p) = b BY <2>1 DEF Covered
      <4>3. b \in Own(f) BY <4>1, <4>2 DEF Own
      <4> QED BY <2>3, <4>3
    <3>2. \A f \in inodes : Blocks(AllRefs(f)) \subseteq freemap BY <2>3
    <3> QED BY <3>1, <3>2
  <2>5. ASSUME NEW f \in inodes, NEW g \in inodes, f # g
        PROVE  Blocks(AllRefs(f)) \cap Blocks(AllRefs(g)) = {}
    <3>1. Own(f) \cap Own(g) = {} BY <2>1, <2>2, <2>5 DEF Own, Single
    <3> QED BY <2>3, <3>1
  <2>6. \A f \in inodes : Copy(f).block_count = Cardinality(AllRefs(f)) BY <2>1, <2>3 DEF Counted
  <2>7. \A f \in inodes : Cardinality(Blocks(AllRefs(f))) = Cardinality(AllRefs(f)) BY <2>3
  <2>8. used = Cardinality(freemap) BY <2>1 DEF Counted
  <2> QED BY <2>4, <2>5, <2>6, <2>7, <2>8 DEF EveryBlockOnce
<1> QED BY <1>1, FilesInvariant, PTL

\* A read returns what was written to the file and zeros elsewhere, however its
\* blocks were used before (testfs_read_block, testfs_write_data), and what a
\* successful write wrote stays before the end of the file that testfs_read_data
\* stops at.
THEOREM FilesHoldTheirData == Spec => []HoldsWhatWasWritten
<1>1. FInv /\ KeptReadable => HoldsWhatWasWritten
  <2> SUFFICES ASSUME FInv, KeptReadable, NEW f \in inodes, NEW off \in Offset
               PROVE  LET u == read_unit(Copy(f), off) IN
                      /\ u \in {NoData, IF off \in written[f] THEN Data(f) ELSE 0}
                      /\ off \in kept[f] => u = Data(f)
    BY DEF HoldsWhatWasWritten
  <2>1. stored_unit(Copy(f), off) = IF off \in written[f] THEN Data(f) ELSE 0 BY DEF FInv, StoredAsWritten
  <2>2. f \in Inode BY DEF FInv, TypeOK
  <2>3. off \in kept[f] => off \in written[f] /\ off < Copy(f).i_size BY <2>2 DEF KeptReadable, Kept
  <2> QED BY <2>1, <2>3 DEF read_unit
<1> QED BY <1>1, FilesInvariant, PTL

\* No block lies past the end of its file, and no assertion of
\* testfs_free_blocks, testfs_remove_inode, testfs_free_block or bitmap_unmark
\* ever fails.
THEOREM AssertionsNeverFail == Spec => []NothingBeyondSize
<1>1. FInv => NothingBeyondSize
  <2> SUFFICES ASSUME FInv PROVE NothingBeyondSize OBVIOUS
  <2>1. pc # "abort" /\ inodes \subseteq Inode BY DEF FInv, TypeOK
  <2>2. ASSUME pc = "idle", NEW f \in inodes
        PROVE  AllRefs(f) = Refs(dinode[f], DIVROUNDUP(dinode[f].i_size, BLOCK_SIZE))
    <3>1. f \in Inode BY <2>1
    <3>2. AllRefs(f) = Held(f) BY <3>1, AllRefsHeld
    <3>3. Refs(dinode[f], DIVROUNDUP(dinode[f].i_size, BLOCK_SIZE)) = Held(f) BY <2>2, AssertsHold
    <3> QED BY <3>2, <3>3
  <2> QED BY <2>1, <2>2 DEF NothingBeyondSize
<1> QED BY <1>1, FilesInvariant, PTL

\* What is not in use is zero, inodes and blocks: a new file starts empty and a
\* new block holds nothing of the file it belonged to (testfs_remove_inode,
\* testfs_free_blocks).
THEOREM NothingLeftBehind == Spec => []FreeIsZero
<1>1. FInv => FreeIsZero BY DEF FInv
<1> QED BY <1>1, FilesInvariant, PTL

-----------------------------------------------------------------------------
(* Block writes that reach the device one by one *)

\* The writes ws lead the device from d to e, and every device on the way, the
\* first and the last included, is in G.
Runs(d, ws, G, e) ==
    /\ \E S : ws \in Seq(S)
    /\ \E tr \in [0 .. Len(ws) -> G] :
          /\ tr[0] = d /\ tr[Len(ws)] = e
          /\ \A i \in 1 .. Len(ws) : tr[i] = write_blocks(tr[i - 1], ws[i])

LEMMA RunNone ==
    ASSUME NEW G, NEW d \in G
    PROVE  Runs(d, <<>>, G, d)
<1> DEFINE none == <<>>
           tr == [i \in 0 .. 0 |-> d]
<1>1. none \in Seq({}) /\ Len(none) = 0 /\ 1 .. 0 = {} OBVIOUS
<1>2. tr \in [0 .. 0 -> G] /\ tr[0] = d OBVIOUS
<1> HIDE DEF none, tr
<1>3. Runs(d, none, G, d) BY <1>1, <1>2 DEF Runs
<1> QED BY <1>3 DEF none

LEMMA RunOne ==
    ASSUME NEW G, NEW d \in G, NEW w, write_blocks(d, w) \in G
    PROVE  Runs(d, <<w>>, G, write_blocks(d, w))
<1> DEFINE e == write_blocks(d, w)
           s == <<w>>
           tr == [i \in 0 .. 1 |-> IF i = 0 THEN d ELSE e]
<1>1. s \in Seq({w}) /\ Len(s) = 1 /\ s[1] = w OBVIOUS
<1>2. tr[0] = d /\ tr[1] = e /\ e = write_blocks(d, w) OBVIOUS
<1>3. tr \in [0 .. 1 -> G] OBVIOUS
<1> HIDE DEF e, s, tr
<1>4. \A i \in 1 .. 1 : i = 1 /\ i - 1 = 0 OBVIOUS
<1>5. \A i \in 1 .. 1 : tr[i] = write_blocks(tr[i - 1], s[i]) BY <1>1, <1>2, <1>4
<1>6. Runs(d, s, G, e) BY <1>1, <1>2, <1>3, <1>5 DEF Runs
<1> QED BY <1>6 DEF e, s

LEMMA RunJoin ==
    ASSUME NEW G, NEW d, NEW v, NEW e, NEW w, NEW c, Runs(d, v, G, e), Runs(e, w, G, c)
    PROVE  Runs(d, v \o w, G, c)
<1>1. PICK S : v \in Seq(S) BY DEF Runs
<1>2. PICK T : w \in Seq(T) BY DEF Runs
<1>3. PICK tr \in [0 .. Len(v) -> G] :
          /\ tr[0] = d /\ tr[Len(v)] = e
          /\ \A i \in 1 .. Len(v) : tr[i] = write_blocks(tr[i - 1], v[i])
  BY DEF Runs
<1>4. PICK ts \in [0 .. Len(w) -> G] :
          /\ ts[0] = e /\ ts[Len(w)] = c
          /\ \A i \in 1 .. Len(w) : ts[i] = write_blocks(ts[i - 1], w[i])
  BY DEF Runs
<1> DEFINE U == S \cup T
           k == Len(v)
           l == Len(w)
           vw == v \o w
           tu == [i \in 0 .. k + l |-> IF i <= k THEN tr[i] ELSE ts[i - k]]
<1>5. k \in Nat /\ l \in Nat BY <1>1, <1>2
<1>6. vw \in Seq(U) /\ Len(vw) = k + l
  <2>1. v \in Seq(U) /\ w \in Seq(U) BY <1>1, <1>2
  <2> QED BY <2>1
<1>7. \A i \in 1 .. k + l : vw[i] = IF i <= k THEN v[i] ELSE w[i - k] BY <1>1, <1>2
<1> HIDE DEF vw, U
<1>8. tu \in [0 .. k + l -> G]
  <2>1. ASSUME NEW i \in 0 .. k + l PROVE (IF i <= k THEN tr[i] ELSE ts[i - k]) \in G
    <3>1. CASE i <= k BY <1>3, <1>5, <3>1
    <3>2. CASE ~(i <= k)
      <4>1. i - k \in 0 .. l BY <1>5, <3>2
      <4> QED BY <1>4, <3>2, <4>1
    <3> QED BY <3>1, <3>2
  <2> QED BY <2>1
<1>9. ASSUME NEW i \in 0 .. k PROVE tu[i] = tr[i] BY <1>5
<1>10. ASSUME NEW i \in 0 .. l PROVE tu[k + i] = ts[i]
  <2>1. CASE i = 0 BY <1>3, <1>4, <1>5, <2>1
  <2>2. CASE i # 0
    <3>1. k + i \in 0 .. k + l /\ ~(k + i <= k) /\ (k + i) - k = i BY <1>5, <2>2
    <3> QED BY <3>1
  <2> QED BY <2>1, <2>2
<1> HIDE DEF tu
<1>11. ASSUME NEW i \in 1 .. k + l PROVE tu[i] = write_blocks(tu[i - 1], vw[i])
  <2>1. CASE i <= k
    <3>1. i \in 1 .. k /\ i - 1 \in 0 .. k /\ i \in 0 .. k BY <1>5, <2>1
    <3> QED BY <1>3, <1>7, <1>9, <2>1, <3>1
  <2>2. CASE ~(i <= k)
    <3>1. i - k \in 1 .. l /\ i - k \in 0 .. l /\ (i - k) - 1 \in 0 .. l BY <1>5, <2>2
    <3>2. k + (i - k) = i /\ k + ((i - k) - 1) = i - 1 BY <1>5
    <3>3. tu[i] = ts[i - k] /\ tu[i - 1] = ts[(i - k) - 1] BY <1>10, <3>1, <3>2
    <3> QED BY <1>4, <1>7, <2>2, <3>1, <3>3
  <2> QED BY <2>1, <2>2
<1>12. tu[0] = d /\ tu[k + l] = c
  <2>1. 0 \in 0 .. k /\ l \in 0 .. l BY <1>5
  <2> QED BY <1>3, <1>4, <1>9, <1>10, <2>1
<1> HIDE DEF k, l
<1>13. Runs(d, vw, G, c) BY <1>6, <1>8, <1>11, <1>12 DEF Runs
<1> QED BY <1>13 DEF vw

\* The first write is done, the others are still to come.
LEMMA RunNext ==
    ASSUME NEW G, NEW d, NEW ws, NEW e, Runs(d, ws, G, e), ws # <<>>
    PROVE  Runs(write_blocks(d, Head(ws)), Tail(ws), G, e)
<1>1. PICK S : ws \in Seq(S) BY DEF Runs
<1>2. PICK tr \in [0 .. Len(ws) -> G] :
          /\ tr[0] = d /\ tr[Len(ws)] = e
          /\ \A i \in 1 .. Len(ws) : tr[i] = write_blocks(tr[i - 1], ws[i])
  BY DEF Runs
<1> DEFINE k == Len(ws) - 1
           t == Tail(ws)
           ts == [i \in 0 .. k |-> tr[i + 1]]
<1>3. k \in Nat /\ Len(ws) = k + 1 /\ t \in Seq(S) /\ Len(t) = k BY <1>1
<1>4. Head(ws) = ws[1] /\ \A i \in 1 .. k : t[i] = ws[i + 1] BY <1>1
<1> HIDE DEF k, t
<1>5. ts \in [0 .. k -> G] BY <1>2, <1>3
<1>6. \A i \in 0 .. k : ts[i] = tr[i + 1] OBVIOUS
<1> HIDE DEF ts
<1>7. ts[0] = write_blocks(d, Head(ws))
  <2>1. 0 \in 0 .. k /\ 1 \in 1 .. Len(ws) /\ 0 + 1 = 1 /\ 1 - 1 = 0 BY <1>3
  <2> QED BY <1>2, <1>4, <1>6, <2>1
<1>8. ts[k] = e BY <1>2, <1>3, <1>6
<1>9. ASSUME NEW i \in 1 .. k PROVE ts[i] = write_blocks(ts[i - 1], t[i])
  <2>1. i \in 0 .. k /\ i - 1 \in 0 .. k /\ i + 1 \in 1 .. Len(ws) /\ (i + 1) - 1 = i /\ (i - 1) + 1 = i
    BY <1>3
  <2> QED BY <1>2, <1>4, <1>6, <2>1
<1>10. Runs(write_blocks(d, Head(ws)), t, G, e) BY <1>3, <1>5, <1>7, <1>8, <1>9 DEF Runs
<1> QED BY <1>10 DEF t

LEMMA RunEnds ==
    ASSUME NEW G, NEW d, NEW ws, NEW e, Runs(d, ws, G, e)
    PROVE  d \in G /\ e \in G /\ (ws = <<>> => d = e)
<1>1. PICK S : ws \in Seq(S) BY DEF Runs
<1>2. PICK tr \in [0 .. Len(ws) -> G] : tr[0] = d /\ tr[Len(ws)] = e BY DEF Runs
<1>3. Len(ws) \in Nat /\ (ws = <<>> => Len(ws) = 0) BY <1>1
<1> QED BY <1>2, <1>3

LEMMA Concat ==
    ASSUME NEW S, NEW p \in Seq(S), NEW q \in Seq(S)
    PROVE  /\ p \o q \in Seq(S) /\ Len(p \o q) = Len(p) + Len(q)
           /\ \A i \in 1 .. Len(p) + Len(q) : (p \o q)[i] = IF i <= Len(p) THEN p[i] ELSE q[i - Len(p)]
  OBVIOUS

LEMMA TwoWrites ==
    ASSUME NEW a, NEW b
    PROVE  <<a>> \o <<b>> = <<a, b>>
<1> DEFINE S == {a, b}
           p == <<a>>
           q == <<b>>
           r == p \o q
<1>1. p \in Seq(S) /\ q \in Seq(S) /\ Len(p) = 1 /\ Len(q) = 1 /\ p[1] = a /\ q[1] = b OBVIOUS
<1> HIDE DEF S, p, q
<1>2. /\ r \in Seq(S) /\ Len(r) = Len(p) + Len(q)
      /\ \A i \in 1 .. Len(p) + Len(q) : r[i] = IF i <= Len(p) THEN p[i] ELSE q[i - Len(p)]
  BY <1>1, Concat
<1> HIDE DEF r
<1>4. Len(r) = 2 /\ r[1] = a /\ r[2] = b BY <1>1, <1>2
<1> DEFINE t == <<a, b>>
<1>5. t \in Seq(S) /\ Len(t) = 2 /\ t[1] = a /\ t[2] = b BY DEF S
<1> HIDE DEF t
<1>6. \A i \in 1 .. 2 : r[i] = t[i] BY <1>4, <1>5
<1>7. r = t BY <1>2, <1>4, <1>5, <1>6
<1> QED BY <1>7 DEF r, p, q, t

\* The parts of a run, one behind the other.
LEMMA ThreeWrites ==
    ASSUME NEW a, NEW b, NEW c
    PROVE  <<a, b>> \o <<c>> = <<a, b, c>> /\ (<<a>> \o <<b>>) \o <<c>> = <<a, b, c>>
<1> DEFINE S == {a, b, c}
           p == <<a, b>>
           q == <<c>>
           r == p \o q
           t == <<a, b, c>>
<1>1. p \in Seq(S) /\ q \in Seq(S) /\ Len(p) = 2 /\ Len(q) = 1 /\ p[1] = a /\ p[2] = b /\ q[1] = c OBVIOUS
<1>2. t \in Seq(S) /\ Len(t) = 3 /\ t[1] = a /\ t[2] = b /\ t[3] = c OBVIOUS
<1> HIDE DEF S, p, q, t
<1>7. /\ r \in Seq(S) /\ Len(r) = Len(p) + Len(q)
      /\ \A i \in 1 .. Len(p) + Len(q) : r[i] = IF i <= Len(p) THEN p[i] ELSE q[i - Len(p)]
  BY <1>1, Concat
<1> HIDE DEF r
<1>3. r \in Seq(S) /\ Len(r) = 3 /\ r[1] = a /\ r[2] = b /\ r[3] = c BY <1>1, <1>7
<1>4. \A i \in 1 .. 3 : r[i] = t[i] BY <1>2, <1>3
<1>5. r = t BY <1>2, <1>3, <1>4
<1>6. <<a>> \o <<b>> = p BY TwoWrites DEF p
<1> QED BY <1>5, <1>6 DEF p, q, r, t

LEMMA RunFlatten ==
    ASSUME NEW G, NEW L \in Nat, NEW S, NEW parts \in [1 .. L -> Seq(S)],
           NEW ds, ds[0] \in G,
           \A i \in 1 .. L : Runs(ds[i - 1], parts[i], G, ds[i])
    PROVE  Runs(ds[0], FlattenSeq(parts), G, ds[L])
<1>1. CASE L = 0
  <2>1. parts = <<>> BY <1>1
  <2>2. FlattenSeq(parts) = <<>>
    <3>1. Len(<<>>) = 0 OBVIOUS
    <3> QED BY <2>1, <3>1 DEF FlattenSeq
  <2> QED BY <1>1, <2>2, RunNone
<1>2. CASE L # 0
  <2>1. PICK h : /\ FlattenSeq(parts) = h[L] /\ h[1] = parts[1]
                 /\ \A i \in 2 .. L : h[i] = h[i - 1] \o parts[i]
    BY <1>2, FlattenSteps
  <2> DEFINE T == {i \in 0 .. L - 1 : Runs(ds[0], h[i + 1], G, ds[i + 1])}
  <2>2. L - 1 \in Nat /\ 1 \in 1 .. L /\ 0 \in 0 .. L - 1 /\ 0 + 1 = 1 /\ 1 - 1 = 0 BY <1>2
  <2>3. 0 \in T
    <3>1. Runs(ds[0], h[1], G, ds[1]) BY <2>1, <2>2
    <3> QED BY <2>2, <3>1
  <2>4. ASSUME NEW i \in 1 .. L - 1, i - 1 \in T PROVE i \in T
    <3>1. i + 1 \in 2 .. L /\ i + 1 \in 1 .. L /\ (i + 1) - 1 = i /\ (i - 1) + 1 = i /\ i \in 0 .. L - 1
      BY <2>2
    <3>2. Runs(ds[0], h[i], G, ds[i]) BY <2>4, <3>1
    <3>3. h[i + 1] = h[i] \o parts[i + 1] BY <2>1, <3>1
    <3>4. Runs(ds[i], parts[i + 1], G, ds[i + 1]) BY <3>1
    <3>5. Runs(ds[0], h[i] \o parts[i + 1], G, ds[i + 1]) BY ONLY <3>2, <3>4, RunJoin
    <3> QED BY <3>1, <3>3, <3>5
  <2> HIDE DEF T
  <2>5. \A i \in 0 .. L - 1 : i \in T BY <2>2, <2>3, <2>4, UpTo
  <2>6. L - 1 \in 0 .. L - 1 /\ (L - 1) + 1 = L BY <2>2
  <2>7. Runs(ds[0], h[(L - 1) + 1], G, ds[(L - 1) + 1]) BY <2>5, <2>6 DEF T
  <2> QED BY <2>1, <2>6, <2>7
<1> QED BY <1>1, <1>2

-----------------------------------------------------------------------------
(* Devices *)

Disks == [Block -> [Unit -> Ptr \cup Inode]]

Dev(fm, u, is, dk, di, nm) ==
    [freemap |-> fm, used |-> u, inodes |-> is, disk |-> dk, dinode |-> di, named |-> nm]

Devices ==
    [freemap : SUBSET Block, used : 0 .. MaxFsBlocks, inodes : SUBSET Inode, disk : Disks,
     dinode : [Inode -> Dinodes], named : SUBSET Inode]

\* A unit of the inode n.
Reads(dk, n, off) == Ent(dk, Walk(dk, n, DataPlace(off \div BLOCK_SIZE)), off % BLOCK_SIZE)

\* The blocks of the files F, with the inodes ins, are marked, and no two places
\* have the same one.
Placed(F, fm, dk, ins) ==
    /\ \A f \in F, p \in Place :
          Walk(dk, ins[f], p) \in Ptr /\ (Walk(dk, ins[f], p) # 0 => Walk(dk, ins[f], p) \in fm)
    /\ \A f, g \in F : \A p, q \in Place :
          Walk(dk, ins[f], p) # 0 /\ Walk(dk, ins[f], p) = Walk(dk, ins[g], q) => f = g /\ p = q

Owned(F, dk, ins) == {b \in Block : \E f \in F, p \in Place : Walk(dk, ins[f], p) = b}

Zeros(fm, dk) == \A b \in Block \ fm : dk[b] = ZeroBlock

Drift(fm, u, c) == u - Cardinality(fm) \in -c .. c

\* What must be true of the device if the process dies now, after c deaths, when
\* the units sy of the files have been written by commands that are over.
Safe(d, sy, c) ==
    /\ d.named \subseteq d.inodes
    /\ Placed(d.named, d.freemap, d.disk, d.dinode)
    /\ Zeros(d.freemap, d.disk)
    /\ \A f \in d.named, off \in Offset :
          /\ Reads(d.disk, d.dinode[f], off) \in {0, Data(f)}
          /\ off \in sy[f] => Reads(d.disk, d.dinode[f], off) = Data(f) /\ off < d.dinode[f].i_size
    /\ Drift(d.freemap, d.used, c + 1)
    /\ Cardinality(Owned(d.named, d.disk, d.dinode)) <= d.used

Good(sy, c) == {d \in Devices : Safe(d, sy, c)}

\* Block writes only add: where the disk a does not agree with b, and the inode n
\* with m, there are still zeros.
Grows(a, b) == \A x \in Block, u \in Unit : a[x][u] \in {0, b[x][u]}

Extends(n, m) ==
    /\ \A i \in Direct : n.i_block_nr[i] \in {0, m.i_block_nr[i]}
    /\ n.i_indirect \in {0, m.i_indirect} /\ n.i_dindirect \in {0, m.i_dindirect}

LEMMA DevParts ==
    ASSUME NEW fm, NEW u, NEW is, NEW dk, NEW di, NEW nm
    PROVE  LET d == Dev(fm, u, is, dk, di, nm) IN
           /\ d.freemap = fm /\ d.used = u /\ d.inodes = is
           /\ d.disk = dk /\ d.dinode = di /\ d.named = nm
  BY DEF Dev

LEMMA DevType ==
    ASSUME NEW fm \in SUBSET Block, NEW u \in 0 .. MaxFsBlocks, NEW is \in SUBSET Inode,
           NEW dk \in Disks, NEW di \in [Inode -> Dinodes], NEW nm \in SUBSET Inode
    PROVE  Dev(fm, u, is, dk, di, nm) \in Devices
  BY DEF Dev, Devices

\* What each block write does to the device.
LEMMA WriteParts ==
    ASSUME NEW fm, NEW u, NEW is, NEW dk, NEW di, NEW nm, NEW v
    PROVE  LET d == Dev(fm, u, is, dk, di, nm) IN
           /\ write_blocks(d, W("freemap", v)) = Dev(v, u, is, dk, di, nm)
           /\ write_blocks(d, W("used", v)) = Dev(fm, v, is, dk, di, nm)
           /\ write_blocks(d, W("inodes", v)) = Dev(fm, u, v, dk, di, nm)
           /\ write_blocks(d, W("named", v)) = Dev(fm, u, is, dk, di, v)
  BY DEF Dev, W, write_blocks

LEMMA WriteDiskBlock ==
    ASSUME NEW fm, NEW u, NEW is, NEW dk, NEW di, NEW nm, NEW b, b # 0, NEW v
    PROVE  write_blocks(Dev(fm, u, is, dk, di, nm), WAt("disk", b, v))
             = Dev(fm, u, is, [dk EXCEPT ![b] = v], di, nm)
  BY DEF Dev, WAt, write_blocks

LEMMA WriteInode ==
    ASSUME NEW fm, NEW u, NEW is, NEW dk, NEW di, NEW nm, NEW b, b # 0, NEW v
    PROVE  write_blocks(Dev(fm, u, is, dk, di, nm), WAt("dinode", b, v))
             = Dev(fm, u, is, dk, [di EXCEPT ![b] = v], nm)
  BY DEF Dev, WAt, write_blocks

\* A tree that is not yet complete leads to blocks of the complete one.
LEMMA GrowWalk ==
    ASSUME NEW a, NEW b, Grows(a, b), NEW n, NEW m, Extends(n, m),
           \A p \in Place : Walk(b, m, p) \in Ptr
    PROVE  \A p \in Place : Walk(a, n, p) \in {0, Walk(b, m, p)}
<1>0. Ptr = Block \cup {0} /\ 0 \notin Block BY FileBlocksAssumption DEF Ptr, Block
<1>1. /\ m.i_indirect \in Ptr /\ m.i_dindirect \in Ptr
      /\ \A i \in Unit : Ent(b, m.i_dindirect, i) \in Ptr
  <2>1. Walk(b, m, IndirectPlace) = m.i_indirect /\ Walk(b, m, DindirectPlace) = m.i_dindirect BY WalkIs
  <2>2. \A i \in Unit : Walk(b, m, InnerPlace(i)) = Ent(b, m.i_dindirect, i) BY WalkIs
  <2> QED BY <2>1, <2>2, PlaceKinds
<1>2. ASSUME NEW x, NEW y, x \in {0, y}, y \in Ptr, NEW u \in Unit
      PROVE  Ent(a, x, u) \in {0, Ent(b, y, u)}
  BY <1>0, <1>2 DEF Ent, Grows
<1>3. \A i \in Unit : Ent(a, n.i_dindirect, i) \in {0, Ent(b, m.i_dindirect, i)}
  BY <1>1, <1>2 DEF Extends
<1>4. ASSUME NEW l \in Log PROVE DataAt(a, n, l) \in {0, DataAt(b, m, l)}
  <2>1. CASE IsDirect(l)
    <3>1. l \in Direct BY <2>1, Sizes DEF IsDirect, Log, Direct
    <3> QED BY <2>1, <3>1 DEF DataAt, Extends
  <2>2. CASE ~IsDirect(l) /\ IsIndirect(l)
    <3>1. InIndirect(l) \in Unit BY <2>2, IndirectPlaces
    <3>2. Ent(a, n.i_indirect, InIndirect(l)) \in {0, Ent(b, m.i_indirect, InIndirect(l))}
      BY <1>1, <1>2, <3>1 DEF Extends
    <3> QED BY <2>2, <3>2 DEF DataAt
  <2>3. CASE ~IsDirect(l) /\ ~IsIndirect(l)
    <3> DEFINE x == Ent(a, n.i_dindirect, Outer(l))
               y == Ent(b, m.i_dindirect, Outer(l))
    <3>1. Outer(l) \in Unit /\ Inner(l) \in Unit BY <2>3, DindirectPlaces
    <3>2. x \in {0, y} /\ y \in Ptr BY <1>1, <1>3, <3>1
    <3>3. DataAt(a, n, l) = Ent(a, x, Inner(l)) /\ DataAt(b, m, l) = Ent(b, y, Inner(l))
      BY <2>3 DEF DataAt
    <3> HIDE DEF x, y
    <3>4. Ent(a, x, Inner(l)) \in {0, Ent(b, y, Inner(l))} BY <1>2, <3>1, <3>2
    <3> QED BY <3>3, <3>4
  <2> QED BY <2>1, <2>2, <2>3
<1> SUFFICES ASSUME NEW p \in Place PROVE Walk(a, n, p) \in {0, Walk(b, m, p)} OBVIOUS
<1>5. ASSUME NEW l \in Log, p = DataPlace(l) PROVE Walk(a, n, p) \in {0, Walk(b, m, p)}
  <2>1. Walk(a, n, p) = DataAt(a, n, l) /\ Walk(b, m, p) = DataAt(b, m, l) BY <1>5, WalkIs
  <2> QED BY <1>4, <2>1
<1>6. ASSUME NEW i \in Unit, p = InnerPlace(i) PROVE Walk(a, n, p) \in {0, Walk(b, m, p)}
  <2>1. Walk(a, n, p) = Ent(a, n.i_dindirect, i) /\ Walk(b, m, p) = Ent(b, m.i_dindirect, i)
    BY <1>6, WalkIs
  <2> QED BY <1>3, <2>1
<1>7. CASE p = IndirectPlace
  <2>1. Walk(a, n, p) = n.i_indirect /\ Walk(b, m, p) = m.i_indirect BY <1>7, WalkIs
  <2> QED BY <2>1 DEF Extends
<1>8. CASE p = DindirectPlace
  <2>1. Walk(a, n, p) = n.i_dindirect /\ Walk(b, m, p) = m.i_dindirect BY <1>8, WalkIs
  <2> QED BY <2>1 DEF Extends
<1> QED BY <1>5, <1>6, <1>7, <1>8, PlaceKinds

LEMMA GrowReads ==
    ASSUME NEW a, NEW b, Grows(a, b), NEW n, NEW m, Extends(n, m),
           \A p \in Place : Walk(b, m, p) \in Ptr, NEW off \in Offset
    PROVE  Reads(a, n, off) \in {0, Reads(b, m, off)}
<1> DEFINE p == DataPlace(off \div BLOCK_SIZE)
           u == off % BLOCK_SIZE
           x == Walk(a, n, p)
           y == Walk(b, m, p)
<1>1. off \div BLOCK_SIZE \in Log /\ u \in Unit BY OffsetParts
<1>2. p \in Place BY <1>1, PlaceKinds
<1>3. x \in {0, y} /\ y \in Ptr BY <1>2, GrowWalk
<1>4. Reads(a, n, off) = Ent(a, x, u) /\ Reads(b, m, off) = Ent(b, y, u) BY DEF Reads
<1>5. Ptr = Block \cup {0} BY DEF Ptr
<1> HIDE DEF p, u, x, y
<1>6. Ent(a, x, u) \in {0, Ent(b, y, u)} BY <1>1, <1>3, <1>5 DEF Ent, Grows
<1> QED BY <1>4, <1>6

LEMMA OwnedSubset ==
    ASSUME NEW F, NEW a, NEW ins, NEW H, NEW b, NEW jns,
           Owned(F, a, ins) \subseteq Owned(H, b, jns)
    PROVE  /\ Cardinality(Owned(F, a, ins)) \in Nat /\ Cardinality(Owned(H, b, jns)) \in Nat
           /\ Cardinality(Owned(F, a, ins)) <= Cardinality(Owned(H, b, jns))
<1> DEFINE X == Owned(F, a, ins)
           Y == Owned(H, b, jns)
<1>1. X \subseteq Block /\ Y \subseteq Block BY DEF Owned
<1>2. X \subseteq Y OBVIOUS
<1> HIDE DEF X, Y
<1>3. IsFiniteSet(Y) /\ Cardinality(X) \in Nat /\ Cardinality(Y) \in Nat BY <1>1, BlockSets
<1>4. Cardinality(X) <= Cardinality(Y) BY <1>2, <1>3, FS_Subset
<1> QED BY <1>3, <1>4 DEF X, Y

\* The device is on the way to the disk bk and the inodes ins.
Below(d, bk, ins) ==
    /\ Grows(d.disk, bk) /\ \A f \in d.named : Extends(d.dinode[f], ins[f])
    /\ Placed(d.named, d.freemap, bk, ins)
    /\ \A f \in d.named, off \in Offset : Reads(bk, ins[f], off) \in {0, Data(f)}
    /\ Cardinality(Owned(d.named, bk, ins)) <= d.used

\* The device has come from the disk lk and the inodes ins.
Above(d, lk, ins, sy) ==
    /\ Grows(lk, d.disk) /\ \A f \in d.named : Extends(ins[f], d.dinode[f])
    /\ \A f \in d.named, off \in Offset :
          off \in sy[f] => Reads(lk, ins[f], off) = Data(f) /\ off < d.dinode[f].i_size

\* Such a device is safe.
LEMMA Between ==
    ASSUME NEW d \in Devices, NEW sy, NEW c, NEW bk, NEW bi, NEW lk, NEW li,
           Below(d, bk, bi), Above(d, lk, li, sy),
           d.named \subseteq d.inodes, Zeros(d.freemap, d.disk), Drift(d.freemap, d.used, c + 1)
    PROVE  d \in Good(sy, c)
<1> DEFINE F == d.named
           dk == d.disk
           di == d.dinode
<1>0. F \subseteq Inode /\ d.used \in Nat BY FileBlocksAssumption DEF Devices
<1>1. ASSUME NEW f \in F, NEW p \in Place
      PROVE  Walk(bk, bi[f], p) \in Ptr /\ Walk(dk, di[f], p) \in {0, Walk(bk, bi[f], p)}
  <2>1. \A q \in Place : Walk(bk, bi[f], q) \in Ptr BY DEF Below, Placed
  <2>2. Grows(dk, bk) /\ Extends(di[f], bi[f]) BY DEF Below
  <2> QED BY <2>1, <2>2, GrowWalk
<1>2. ASSUME NEW f \in F, NEW p \in Place PROVE Walk(dk, di[f], p) \in Ptr
  BY <1>1 DEF Ptr
<1>3. Placed(F, d.freemap, dk, di)
  <2>1. ASSUME NEW f \in F, NEW p \in Place, Walk(dk, di[f], p) # 0
        PROVE  Walk(dk, di[f], p) = Walk(bk, bi[f], p) /\ Walk(dk, di[f], p) \in d.freemap
    BY <1>1, <2>1 DEF Below, Placed
  <2>2. ASSUME NEW f \in F, NEW g \in F, NEW p \in Place, NEW q \in Place,
               Walk(dk, di[f], p) # 0, Walk(dk, di[f], p) = Walk(dk, di[g], q)
        PROVE  f = g /\ p = q
    <3>1. Walk(bk, bi[f], p) # 0 /\ Walk(bk, bi[f], p) = Walk(bk, bi[g], q) BY <2>1, <2>2
    <3> QED BY <3>1 DEF Below, Placed
  <2> HIDE DEF F, dk, di
  <2> QED BY <1>2, <2>1, <2>2 DEF Placed
<1>4. ASSUME NEW f \in F, NEW off \in Offset
      PROVE  /\ Reads(dk, di[f], off) \in {0, Data(f)}
             /\ off \in sy[f] => Reads(dk, di[f], off) = Data(f) /\ off < di[f].i_size
  <2>1. Reads(dk, di[f], off) \in {0, Reads(bk, bi[f], off)}
    <3>1. \A p \in Place : Walk(bk, bi[f], p) \in Ptr BY <1>1
    <3>2. Grows(dk, bk) /\ Extends(di[f], bi[f]) BY DEF Below
    <3> QED BY <3>1, <3>2, GrowReads
  <2>2. Reads(lk, li[f], off) \in {0, Reads(dk, di[f], off)}
    <3>1. \A p \in Place : Walk(dk, di[f], p) \in Ptr BY <1>2
    <3>2. Grows(lk, dk) /\ Extends(li[f], di[f]) BY DEF Above
    <3> QED BY <3>1, <3>2, GrowReads
  <2>3. Data(f) # 0
    <3>1. f \in Inode BY <1>0
    <3> QED BY <3>1, FileBlocksAssumption DEF Inode, Data
  <2>4. Reads(bk, bi[f], off) \in {0, Data(f)} BY DEF Below
  <2>5. off \in sy[f] => Reads(lk, li[f], off) = Data(f) /\ off < di[f].i_size BY DEF Above
  <2> QED BY <2>1, <2>2, <2>3, <2>4, <2>5
<1>5. Cardinality(Owned(F, dk, di)) <= d.used
  <2>1. Owned(F, dk, di) \subseteq Owned(F, bk, bi)
    <3> SUFFICES ASSUME NEW b \in Owned(F, dk, di) PROVE b \in Owned(F, bk, bi) OBVIOUS
    <3>1. b \in Block /\ b # 0 BY FileBlocksAssumption DEF Owned, Block
    <3>2. PICK f \in F, p \in Place : Walk(dk, di[f], p) = b BY DEF Owned
    <3>3. Walk(bk, bi[f], p) = b BY <1>1, <3>1, <3>2
    <3> QED BY <3>1, <3>3 DEF Owned
  <2>2. /\ Cardinality(Owned(F, dk, di)) \in Nat /\ Cardinality(Owned(F, bk, bi)) \in Nat
        /\ Cardinality(Owned(F, dk, di)) <= Cardinality(Owned(F, bk, bi))
    BY <2>1, OwnedSubset
  <2>3. Cardinality(Owned(F, bk, bi)) <= d.used BY DEF Below
  <2> HIDE DEF F, dk, di
  <2> QED BY <1>0, <2>2, <2>3
<1>6. Safe(d, sy, c) BY <1>3, <1>4, <1>5 DEF Safe
<1> QED BY <1>6 DEF Good

-----------------------------------------------------------------------------
(* Devices that differ outside the trees of the files *)

SameRoots(n, m) ==
    m.i_block_nr = n.i_block_nr /\ m.i_indirect = n.i_indirect /\ m.i_dindirect = n.i_dindirect

\* Files whose blocks are the same have the same trees and data.
LEMMA SameTrees ==
    ASSUME NEW F, NEW fm, NEW dk, NEW ins, Placed(F, fm, dk, ins), NEW dk2, NEW jns,
           \A f \in F : SameRoots(ins[f], jns[f]),
           \A b \in Owned(F, dk, ins) : dk2[b] = dk[b]
    PROVE  /\ \A f \in F, p \in Place : Walk(dk2, jns[f], p) = Walk(dk, ins[f], p)
           /\ \A f \in F, off \in Offset : Reads(dk2, jns[f], off) = Reads(dk, ins[f], off)
           /\ Owned(F, dk2, jns) = Owned(F, dk, ins)
           /\ \A fm2 : Owned(F, dk, ins) \subseteq fm2 => Placed(F, fm2, dk2, jns)
<1>1. ASSUME NEW f \in F, NEW p \in Place, Walk(dk, ins[f], p) # 0
      PROVE  Walk(dk, ins[f], p) \in Owned(F, dk, ins)
  BY <1>1 DEF Placed, Owned, Ptr
<1>2. ASSUME NEW f \in F PROVE \A p \in Place : Walk(dk2, jns[f], p) = Walk(dk, ins[f], p)
  <2> DEFINE n == ins[f]
             m == jns[f]
  <2>1. m.i_block_nr = n.i_block_nr /\ m.i_indirect = n.i_indirect /\ m.i_dindirect = n.i_dindirect
    BY DEF SameRoots
  <2>2. n.i_indirect # 0 => dk2[n.i_indirect] = dk[n.i_indirect]
    <3>1. Walk(dk, n, IndirectPlace) = n.i_indirect /\ IndirectPlace \in Place BY WalkIs, PlaceKinds
    <3> QED BY <1>1, <3>1
  <2>3. n.i_dindirect # 0 => dk2[n.i_dindirect] = dk[n.i_dindirect]
    <3>1. Walk(dk, n, DindirectPlace) = n.i_dindirect /\ DindirectPlace \in Place BY WalkIs, PlaceKinds
    <3> QED BY <1>1, <3>1
  <2>4. \A i \in Unit : LET x == Ent(dk, n.i_dindirect, i) IN x # 0 => dk2[x] = dk[x]
    <3> SUFFICES ASSUME NEW i \in Unit, Ent(dk, n.i_dindirect, i) # 0
                 PROVE  dk2[Ent(dk, n.i_dindirect, i)] = dk[Ent(dk, n.i_dindirect, i)]
      OBVIOUS
    <3>1. Walk(dk, n, InnerPlace(i)) = Ent(dk, n.i_dindirect, i) /\ InnerPlace(i) \in Place
      <4>1. InnerPlace(i) \in Place BY PlaceKinds
      <4> HIDE DEF n
      <4>2. Walk(dk, n, InnerPlace(i)) = Ent(dk, n.i_dindirect, i) BY WalkIs
      <4> QED BY <4>1, <4>2
    <3> QED BY <1>1, <3>1
  <2> HIDE DEF n, m
  <2>5. \A p \in Place : Walk(dk2, m, p) = Walk(dk, n, p) BY <2>1, <2>2, <2>3, <2>4, WalkSame
  <2> QED BY <2>5 DEF n, m
<1>3. ASSUME NEW f \in F, NEW off \in Offset PROVE Reads(dk2, jns[f], off) = Reads(dk, ins[f], off)
  <2> DEFINE p == DataPlace(off \div BLOCK_SIZE)
  <2>1. p \in Place BY OffsetParts, PlaceKinds
  <2>2. Walk(dk2, jns[f], p) = Walk(dk, ins[f], p) BY <1>2, <2>1
  <2>3. Walk(dk, ins[f], p) # 0 => dk2[Walk(dk, ins[f], p)] = dk[Walk(dk, ins[f], p)] BY <1>1, <2>1
  <2> QED BY <2>2, <2>3 DEF Reads, Ent
<1>4. Owned(F, dk2, jns) = Owned(F, dk, ins) BY <1>2 DEF Owned
<1>5. ASSUME NEW fm2, Owned(F, dk, ins) \subseteq fm2 PROVE Placed(F, fm2, dk2, jns)
  <2>1. ASSUME NEW f \in F, NEW p \in Place
        PROVE  /\ Walk(dk2, jns[f], p) \in Ptr
               /\ Walk(dk2, jns[f], p) # 0 => Walk(dk2, jns[f], p) \in fm2
    <3>1. Walk(dk2, jns[f], p) = Walk(dk, ins[f], p) BY <1>2
    <3>2. Walk(dk, ins[f], p) \in Ptr BY DEF Placed
    <3> QED BY <1>1, <1>5, <3>1, <3>2
  <2>2. ASSUME NEW f \in F, NEW g \in F, NEW p \in Place, NEW q \in Place,
               Walk(dk2, jns[f], p) # 0, Walk(dk2, jns[f], p) = Walk(dk2, jns[g], q)
        PROVE  f = g /\ p = q
    <3>1. Walk(dk, ins[f], p) # 0 /\ Walk(dk, ins[f], p) = Walk(dk, ins[g], q) BY <1>2, <2>2
    <3> QED BY <3>1 DEF Placed
  <2> QED BY <2>1, <2>2 DEF Placed
<1> QED BY <1>2, <1>3, <1>4, <1>5

\* A device stays safe as long as the blocks of its files are not touched.
LEMMA Unharmed ==
    ASSUME NEW sy, NEW c, NEW d \in Good(sy, c), NEW e \in Devices,
           e.named \subseteq d.named, e.named \subseteq e.inodes,
           \A f \in e.named : e.dinode[f] = d.dinode[f],
           \A b \in Owned(e.named, d.disk, d.dinode) : e.disk[b] = d.disk[b] /\ b \in e.freemap,
           Cardinality(Owned(e.named, d.disk, d.dinode)) <= e.used,
           Zeros(e.freemap, e.disk), Drift(e.freemap, e.used, c + 1)
    PROVE  e \in Good(sy, c)
<1> DEFINE F == e.named
<1>1. Safe(d, sy, c) BY DEF Good
<1>2. Placed(F, d.freemap, d.disk, d.dinode)
  <2>1. Placed(d.named, d.freemap, d.disk, d.dinode) BY <1>1 DEF Safe
  <2> QED BY <2>1 DEF Placed
<1>3. /\ \A f \in F, off \in Offset : Reads(e.disk, e.dinode[f], off) = Reads(d.disk, d.dinode[f], off)
      /\ Owned(F, e.disk, e.dinode) = Owned(F, d.disk, d.dinode)
      /\ Owned(F, d.disk, d.dinode) \subseteq e.freemap => Placed(F, e.freemap, e.disk, e.dinode)
  <2>1. \A f \in F : SameRoots(d.dinode[f], e.dinode[f]) BY DEF SameRoots
  <2>2. \A b \in Owned(F, d.disk, d.dinode) : e.disk[b] = d.disk[b] OBVIOUS
  <2> HIDE DEF F
  <2> QED BY ONLY <1>2, <2>1, <2>2, SameTrees, SMTT(30)
<1>4. Placed(F, e.freemap, e.disk, e.dinode) BY <1>3
<1>5. \A f \in F, off \in Offset :
          /\ Reads(e.disk, e.dinode[f], off) \in {0, Data(f)}
          /\ off \in sy[f] => Reads(e.disk, e.dinode[f], off) = Data(f) /\ off < e.dinode[f].i_size
  BY <1>1, <1>3 DEF Safe
<1>6. Safe(e, sy, c) BY <1>3, <1>4, <1>5 DEF Safe
<1> QED BY <1>6 DEF Good

-----------------------------------------------------------------------------
(* Marking and freeing blocks *)

\* The first i members of s.
Take(s, i) == {s[j] : j \in 1 .. i}

LEMMA TakeIs ==
    ASSUME NEW S, NEW s \in Seq(S), NEW i \in 0 .. Len(s)
    PROVE  ToSet(SubSeq(s, 1, i)) = Take(s, i)
<1> DEFINE t == SubSeq(s, 1, i)
<1>1. Len(t) = i /\ (\A j \in 1 .. i : t[j] = s[j]) /\ DOMAIN t = 1 .. i OBVIOUS
<1> HIDE DEF t
<1>2. ToSet(t) = Take(s, i) BY <1>1 DEF ToSet, Take
<1> QED BY <1>2 DEF t

LEMMA TakeNext ==
    ASSUME NEW s, NEW i \in Nat, i # 0
    PROVE  Take(s, i) = Take(s, i - 1) \cup {s[i]}
<1>1. 1 .. i = (1 .. i - 1) \cup {i} OBVIOUS
<1> QED BY <1>1 DEF Take

LEMMA TakeNone ==
    ASSUME NEW s
    PROVE  Take(s, 0) = {}
<1>1. 1 .. 0 = {} OBVIOUS
<1> QED BY <1>1 DEF Take

\* testfs_alloc_block, block after block: the free map is one block ahead of the
\* count after every other write.
LEMMA AllocRun ==
    ASSUME NEW G, NEW m, NEW u \in Int, NEW is, NEW dk, NEW di, NEW nm, NEW S, NEW s \in Seq(S),
           \A i \in 0 .. Len(s) : Dev(m \cup Take(s, i), u + i, is, dk, di, nm) \in G,
           \A i \in 1 .. Len(s) : Dev(m \cup Take(s, i), u + (i - 1), is, dk, di, nm) \in G
    PROVE  Runs(Dev(m, u, is, dk, di, nm), alloc_writes(m, u, s), G,
                Dev(m \cup Take(s, Len(s)), u + Len(s), is, dk, di, nm))
<1> DEFINE L == Len(s)
           D(i) == Dev(m \cup Take(s, i), u + i, is, dk, di, nm)
           a(i) == W("freemap", m \cup Take(s, i))
           b(i) == W("used", u + i)
           ds == [i \in 0 .. L |-> D(i)]
           parts == [i \in 1 .. L |-> <<a(i), b(i)>>]
           T == {a(i) : i \in 1 .. L} \cup {b(i) : i \in 1 .. L}
<1>1. L \in Nat OBVIOUS
<1>2. alloc_writes(m, u, s) = FlattenSeq(parts)
  <2>1. \A i \in 1 .. L : ToSet(SubSeq(s, 1, i)) = Take(s, i) BY TakeIs
  <2> QED BY <2>1 DEF alloc_writes
<1>3. ASSUME NEW i \in 1 .. L PROVE Runs(D(i - 1), <<a(i), b(i)>>, G, D(i))
  <2> DEFINE H == Dev(m \cup Take(s, i), u + (i - 1), is, dk, di, nm)
  <2>1. D(i - 1) \in G /\ H \in G /\ D(i) \in G
    <3>1. i - 1 \in 0 .. Len(s) /\ i \in 0 .. Len(s) /\ i \in 1 .. Len(s) BY <1>1
    <3>2. D(i - 1) \in G /\ D(i) \in G BY <3>1
    <3>3. H \in G BY <3>1
    <3> QED BY <3>2, <3>3
  <2>2. write_blocks(D(i - 1), a(i)) = H BY WriteParts
  <2>3. write_blocks(H, b(i)) = D(i) BY WriteParts
  <2>4. <<a(i), b(i)>> = <<a(i)>> \o <<b(i)>> OBVIOUS
  <2> HIDE DEF D, a, b, H
  <2>5. Runs(D(i - 1), <<a(i)>>, G, H) BY <2>1, <2>2, RunOne
  <2>6. Runs(H, <<b(i)>>, G, D(i)) BY <2>1, <2>3, RunOne
  <2>7. Runs(D(i - 1), <<a(i)>> \o <<b(i)>>, G, D(i)) BY ONLY <2>5, <2>6, RunJoin
  <2> QED BY <2>4, <2>7
<1>4. parts \in [1 .. L -> Seq(T)]
  <2>1. ASSUME NEW i \in 1 .. L PROVE <<a(i), b(i)>> \in Seq(T)
    <3>1. a(i) \in T /\ b(i) \in T OBVIOUS
    <3> HIDE DEF a, b, T
    <3> QED BY <3>1
  <2> HIDE DEF a, b, T
  <2> QED BY <2>1
<1>5. /\ \A i \in 0 .. L : ds[i] = D(i)
      /\ \A i \in 1 .. L : parts[i] = <<a(i), b(i)>>
  OBVIOUS
<1>6. D(0) = Dev(m, u, is, dk, di, nm) /\ D(0) \in G
  <2>1. m \cup Take(s, 0) = m /\ u + 0 = u /\ 0 \in 0 .. Len(s) BY <1>1, TakeNone
  <2>2. D(0) \in G BY <2>1
  <2> QED BY <2>1, <2>2
<1>7. D(L) = Dev(m \cup Take(s, Len(s)), u + Len(s), is, dk, di, nm) OBVIOUS
<1> HIDE DEF L, D, a, b, ds, parts, T
<1>8. \A i \in 1 .. L : Runs(ds[i - 1], parts[i], G, ds[i])
  <2> SUFFICES ASSUME NEW i \in 1 .. L PROVE Runs(ds[i - 1], parts[i], G, ds[i]) OBVIOUS
  <2>1. i - 1 \in 0 .. L /\ i \in 0 .. L BY <1>1
  <2> QED BY <1>3, <1>5, <2>1
<1>9. ds[0] = D(0) /\ ds[L] = D(L) BY <1>1, <1>5
<1>10. Runs(ds[0], FlattenSeq(parts), G, ds[L]) BY ONLY <1>1, <1>4, <1>6, <1>8, <1>9, RunFlatten
<1> QED BY <1>2, <1>6, <1>7, <1>9, <1>10

\* The blocks that are really there among the first i.
CountTo(s, i) == Cardinality({j \in 1 .. i : s[j] # 0})

Zeroing(dk, Y) == [b \in Block |-> IF b \in Y THEN ZeroBlock ELSE dk[b]]

\* testfs_free_block, block after block: a block is zeroed, then it is free, then
\* the count follows.
LEMMA FreeRun ==
    ASSUME NEW G, NEW m, 0 \notin m, NEW u \in Int, NEW is, NEW dk \in Disks, NEW di, NEW nm,
           NEW s \in Seq(Ptr),
           \A i \in 0 .. Len(s) :
              Dev(m \ Take(s, i), u - CountTo(s, i), is, Zeroing(dk, Take(s, i)), di, nm) \in G,
           \A i \in 1 .. Len(s) : s[i] # 0 =>
              /\ Dev(m \ Take(s, i - 1), u - CountTo(s, i - 1), is, Zeroing(dk, Take(s, i)), di, nm) \in G
              /\ Dev(m \ Take(s, i), u - CountTo(s, i - 1), is, Zeroing(dk, Take(s, i)), di, nm) \in G
    PROVE  Runs(Dev(m, u, is, dk, di, nm), free_writes(m, u, s), G,
                Dev(m \ Take(s, Len(s)), u - CountTo(s, Len(s)), is,
                    Zeroing(dk, Take(s, Len(s))), di, nm))
<1> DEFINE L == Len(s)
           D(i) == Dev(m \ Take(s, i), u - CountTo(s, i), is, Zeroing(dk, Take(s, i)), di, nm)
           a(i) == WAt("disk", s[i], ZeroBlock)
           b(i) == W("freemap", m \ Take(s, i))
           e(i) == W("used", u - CountTo(s, i))
           part(i) == IF s[i] = 0 THEN <<>> ELSE <<a(i), b(i), e(i)>>
           ds == [i \in 0 .. L |-> D(i)]
           parts == [i \in 1 .. L |-> part(i)]
           T == {a(i) : i \in 1 .. L} \cup {b(i) : i \in 1 .. L} \cup {e(i) : i \in 1 .. L}
<1>1. L \in Nat /\ \A i \in 1 .. L : s[i] \in Ptr OBVIOUS
<1>2. free_writes(m, u, s) = FlattenSeq(parts)
  <2>1. \A i \in 1 .. L : ToSet(SubSeq(s, 1, i)) = Take(s, i) BY TakeIs
  <2> QED BY <2>1 DEF free_writes, CountTo
<1>3. ASSUME NEW i \in 1 .. L, s[i] # 0 PROVE Runs(D(i - 1), <<a(i), b(i), e(i)>>, G, D(i))
  <2> DEFINE H == Dev(m \ Take(s, i - 1), u - CountTo(s, i - 1), is, Zeroing(dk, Take(s, i)), di, nm)
             K == Dev(m \ Take(s, i), u - CountTo(s, i - 1), is, Zeroing(dk, Take(s, i)), di, nm)
  <2>1. D(i - 1) \in G /\ H \in G /\ K \in G /\ D(i) \in G
    <3>1. i - 1 \in 0 .. Len(s) /\ i \in 0 .. Len(s) /\ i \in 1 .. Len(s) BY <1>1
    <3>2. H \in G /\ K \in G BY <1>3, <3>1
    <3>3. D(i - 1) \in G /\ D(i) \in G BY <3>1
    <3> QED BY <3>2, <3>3
  <2>2. write_blocks(D(i - 1), a(i)) = H
    <3>1. [Zeroing(dk, Take(s, i - 1)) EXCEPT ![s[i]] = ZeroBlock] = Zeroing(dk, Take(s, i))
      <4>1. Take(s, i) = Take(s, i - 1) \cup {s[i]} BY <1>1, TakeNext
      <4> QED BY <4>1 DEF Zeroing
    <3>2. write_blocks(D(i - 1), a(i))
            = Dev(m \ Take(s, i - 1), u - CountTo(s, i - 1), is,
                  [Zeroing(dk, Take(s, i - 1)) EXCEPT ![s[i]] = ZeroBlock], di, nm)
      <4> DEFINE x == s[i]
                 fm == m \ Take(s, i - 1)
                 v == u - CountTo(s, i - 1)
                 old == Zeroing(dk, Take(s, i - 1))
      <4>1. x # 0 BY <1>3
      <4> HIDE DEF x, fm, v, old
      <4>2. write_blocks(Dev(fm, v, is, old, di, nm), WAt("disk", x, ZeroBlock))
              = Dev(fm, v, is, [old EXCEPT ![x] = ZeroBlock], di, nm)
        BY <4>1, WriteDiskBlock
      <4> QED BY <4>2 DEF x, fm, v, old
    <3> QED BY <3>1, <3>2
  <2>3. write_blocks(H, b(i)) = K BY WriteParts
  <2>4. write_blocks(K, e(i)) = D(i) BY WriteParts
  <2>5. <<a(i), b(i), e(i)>> = (<<a(i)>> \o <<b(i)>>) \o <<e(i)>> OBVIOUS
  <2> HIDE DEF D, a, b, e, H, K
  <2>6. Runs(D(i - 1), <<a(i)>>, G, H) BY <2>1, <2>2, RunOne
  <2>7. Runs(H, <<b(i)>>, G, K) BY <2>1, <2>3, RunOne
  <2>8. Runs(K, <<e(i)>>, G, D(i)) BY <2>1, <2>4, RunOne
  <2>9. Runs(D(i - 1), <<a(i)>> \o <<b(i)>>, G, K) BY ONLY <2>6, <2>7, RunJoin
  <2>10. Runs(D(i - 1), (<<a(i)>> \o <<b(i)>>) \o <<e(i)>>, G, D(i)) BY ONLY <2>8, <2>9, RunJoin
  <2> QED BY <2>5, <2>10
<1>4. ASSUME NEW i \in 1 .. L, s[i] = 0 PROVE D(i - 1) = D(i) /\ D(i) \in G
  <2>1. Take(s, i) = Take(s, i - 1) \cup {0} BY <1>1, <1>4, TakeNext
  <2>2. m \ Take(s, i) = m \ Take(s, i - 1) BY <2>1
  <2>3. Zeroing(dk, Take(s, i)) = Zeroing(dk, Take(s, i - 1))
    <3>1. 0 \notin Block BY FileBlocksAssumption DEF Block
    <3> QED BY <2>1, <3>1 DEF Zeroing
  <2>4. CountTo(s, i) = CountTo(s, i - 1)
    <3>1. {j \in 1 .. i : s[j] # 0} = {j \in 1 .. i - 1 : s[j] # 0} BY <1>4
    <3> QED BY <3>1 DEF CountTo
  <2>5. i \in 0 .. Len(s) BY <1>1
  <2> QED BY <2>2, <2>3, <2>4, <2>5
<1>5. parts \in [1 .. L -> Seq(T)]
  <2>1. ASSUME NEW i \in 1 .. L PROVE part(i) \in Seq(T)
    <3>1. a(i) \in T /\ b(i) \in T /\ e(i) \in T OBVIOUS
    <3> HIDE DEF a, b, e, T
    <3> QED BY <3>1
  <2> HIDE DEF part, T
  <2> QED BY <2>1
<1>6. /\ \A i \in 0 .. L : ds[i] = D(i)
      /\ \A i \in 1 .. L : parts[i] = part(i)
  OBVIOUS
<1>7. D(0) = Dev(m, u, is, dk, di, nm) /\ D(0) \in G
  <2>1. m \ Take(s, 0) = m BY TakeNone
  <2>2. Zeroing(dk, Take(s, 0)) = dk BY TakeNone DEF Zeroing, Disks
  <2>3. CountTo(s, 0) = 0
    <3>1. {j \in 1 .. 0 : s[j] # 0} = {} OBVIOUS
    <3> QED BY <3>1, FS_EmptySet DEF CountTo
  <2>4. u - 0 = u /\ 0 \in 0 .. Len(s) BY <1>1
  <2> QED BY <2>1, <2>2, <2>3, <2>4
<1>8. D(L) = Dev(m \ Take(s, Len(s)), u - CountTo(s, Len(s)), is, Zeroing(dk, Take(s, Len(s))), di, nm)
  OBVIOUS
<1>9. ASSUME NEW i \in 1 .. L PROVE Runs(D(i - 1), part(i), G, D(i))
  <2>1. CASE s[i] = 0
    <3>1. part(i) = <<>> BY <2>1
    <3>2. D(i - 1) = D(i) /\ D(i) \in G BY <1>4, <2>1
    <3> HIDE DEF D, part
    <3> QED BY <3>1, <3>2, RunNone
  <2>2. CASE s[i] # 0
    <3>1. part(i) = <<a(i), b(i), e(i)>> BY <2>2
    <3>2. Runs(D(i - 1), <<a(i), b(i), e(i)>>, G, D(i)) BY <1>3, <2>2
    <3> HIDE DEF D, part, a, b, e
    <3> QED BY <3>1, <3>2
  <2> QED BY <2>1, <2>2
<1> HIDE DEF L, D, a, b, e, part, ds, parts, T
<1>10. \A i \in 1 .. L : Runs(ds[i - 1], parts[i], G, ds[i])
  <2> SUFFICES ASSUME NEW i \in 1 .. L PROVE Runs(ds[i - 1], parts[i], G, ds[i]) OBVIOUS
  <2>1. i - 1 \in 0 .. L /\ i \in 0 .. L BY <1>1
  <2> QED BY <1>6, <1>9, <2>1
<1>11. ds[0] = D(0) /\ ds[L] = D(L) BY <1>1, <1>6
<1>12. Runs(ds[0], FlattenSeq(parts), G, ds[L]) BY ONLY <1>1, <1>5, <1>7, <1>10, <1>11, RunFlatten
<1> QED BY <1>2, <1>7, <1>8, <1>11, <1>12

LEMMA CountNext ==
    ASSUME NEW s, NEW i \in Nat
    PROVE  /\ CountTo(s, 0) = 0 /\ CountTo(s, i) \in Nat
           /\ CountTo(s, i + 1) = CountTo(s, i) + IF s[i + 1] = 0 THEN 0 ELSE 1
<1> DEFINE C(k) == {j \in 1 .. k : s[j] # 0}
<1>1. \A k \in Nat : IsFiniteSet(C(k))
  <2> SUFFICES ASSUME NEW k \in Nat PROVE IsFiniteSet(C(k)) OBVIOUS
  <2>1. IsFiniteSet(1 .. k) BY FS_Interval
  <2>2. C(k) \subseteq 1 .. k OBVIOUS
  <2> HIDE DEF C
  <2> QED BY <2>1, <2>2, FS_Subset
<1>2. C(0) = {} OBVIOUS
<1>3. C(i + 1) = IF s[i + 1] = 0 THEN C(i) ELSE C(i) \cup {i + 1}
  <2>1. 1 .. i + 1 = (1 .. i) \cup {i + 1} OBVIOUS
  <2> QED BY <2>1
<1>4. i + 1 \notin C(i) OBVIOUS
<1>5. \A k : CountTo(s, k) = Cardinality(C(k)) BY DEF CountTo
<1> HIDE DEF C
<1>6. Cardinality(C(i)) \in Nat BY <1>1, FS_CardinalityType
<1>7. Cardinality(C(i) \cup {i + 1}) = Cardinality(C(i)) + 1 BY <1>1, <1>4, FS_AddElement
<1>8. Cardinality(C(0)) = 0 BY <1>2, FS_EmptySet
<1> QED BY <1>3, <1>5, <1>6, <1>7, <1>8

LEMMA CountBound ==
    ASSUME NEW s, NEW k \in Nat, NEW i \in 0 .. k
    PROVE  CountTo(s, i) <= CountTo(s, k)
<1> DEFINE C(l) == {j \in 1 .. l : s[j] # 0}
<1>1. C(i) \subseteq C(k) OBVIOUS
<1>2. IsFiniteSet(C(k))
  <2>1. IsFiniteSet(1 .. k) BY FS_Interval
  <2>2. C(k) \subseteq 1 .. k OBVIOUS
  <2> HIDE DEF C
  <2> QED BY <2>1, <2>2, FS_Subset
<1>3. \A l : CountTo(s, l) = Cardinality(C(l)) BY DEF CountTo
<1> HIDE DEF C
<1>4. Cardinality(C(i)) <= Cardinality(C(k)) BY <1>1, <1>2, FS_Subset
<1> QED BY <1>3, <1>4

\* The blocks that are left when i of them have been freed.
LEMMA FreedSize ==
    ASSUME NEW m \in SUBSET Block, NEW s \in Seq(Ptr),
           \A i \in 1 .. Len(s) : s[i] # 0 => s[i] \in m,
           \A i, j \in 1 .. Len(s) : s[i] # 0 /\ s[i] = s[j] => i = j
    PROVE  \A i \in 0 .. Len(s) : Cardinality(m \ Take(s, i)) = Cardinality(m) - CountTo(s, i)
<1> DEFINE L == Len(s)
           T == {i \in 0 .. L : Cardinality(m \ Take(s, i)) = Cardinality(m) - CountTo(s, i)}
<1>0. L \in Nat /\ 0 \notin Block BY FileBlocksAssumption DEF Block
<1>1. 0 \in T
  <2>1. m \ Take(s, 0) = m /\ CountTo(s, 0) = 0 BY TakeNone, CountNext
  <2>2. Cardinality(m) \in Nat BY BlockSets
  <2>3. Cardinality(m \ Take(s, 0)) = Cardinality(m) BY <2>1
  <2>4. Cardinality(m \ Take(s, 0)) = Cardinality(m) - CountTo(s, 0) BY <2>1, <2>2, <2>3
  <2> QED BY <1>0, <2>4
<1>2. ASSUME NEW i \in 1 .. L, i - 1 \in T PROVE i \in T
  <2> DEFINE A == m \ Take(s, i - 1)
             k == i - 1
  <2>1. k \in Nat /\ k + 1 = i /\ i \in 0 .. L /\ i # 0 /\ i \in Nat OBVIOUS
  <2>2. /\ CountTo(s, i) = CountTo(s, k) + (IF s[i] = 0 THEN 0 ELSE 1) /\ CountTo(s, k) \in Nat
    <3>1. CountTo(s, k + 1) = CountTo(s, k) + IF s[k + 1] = 0 THEN 0 ELSE 1 BY <2>1, CountNext
    <3>2. CountTo(s, k) \in Nat BY <2>1, CountNext
    <3> HIDE DEF k
    <3> QED BY <2>1, <3>1, <3>2
  <2>3. m \ Take(s, i) = A \ {s[i]}
    <3>1. Take(s, i) = Take(s, i - 1) \cup {s[i]} BY <2>1, TakeNext
    <3> QED BY <3>1
  <2>4. A \subseteq Block OBVIOUS
  <2>5. Cardinality(A) = Cardinality(m) - CountTo(s, k) BY <1>2
  <2>6. Cardinality(m) \in Nat /\ Cardinality(A) \in Nat /\ IsFiniteSet(A) BY <2>4, BlockSets
  <2>7. CASE s[i] = 0
    <3>1. A \ {s[i]} = A BY <1>0, <2>4, <2>7
    <3> HIDE DEF A, k
    <3>0. Cardinality(m \ Take(s, i)) = Cardinality(A) BY <2>3, <3>1
    <3>2. Cardinality(m \ Take(s, i)) = Cardinality(m) - CountTo(s, i) BY ONLY <2>2, <2>5, <2>6, <2>7, <3>0
    <3> QED BY <2>1, <3>2
  <2>8. CASE s[i] # 0
    <3>1. s[i] \in A
      <4>1. s[i] \in m BY <2>8
      <4>2. \A j \in 1 .. i - 1 : s[j] # s[i] BY <1>0, <2>8
      <4> QED BY <4>1, <4>2 DEF Take
    <3> HIDE DEF A, k
    <3>2. Cardinality(A \ {s[i]}) = Cardinality(A) - 1 BY <2>6, <3>1, FS_RemoveElement
    <3>0. Cardinality(m \ Take(s, i)) = Cardinality(A \ {s[i]}) BY <2>3
    <3>3. Cardinality(m \ Take(s, i)) = Cardinality(m) - CountTo(s, i) BY ONLY <2>2, <2>5, <2>6, <2>8, <3>0, <3>2
    <3> QED BY <2>1, <3>3
  <2> QED BY <2>7, <2>8
<1> HIDE DEF T
<1>3. \A i \in 0 .. L : i \in T BY <1>0, <1>1, <1>2, UpTo
<1> QED BY <1>3 DEF T

\* Freeing blocks that no named file has is safe at every point.
LEMMA FreeSafe ==
    ASSUME NEW sy, NEW c \in Nat, NEW m \in SUBSET Block, NEW u \in 0 .. MaxFsBlocks,
           NEW is \in SUBSET Inode, NEW dk \in Disks, NEW di \in [Inode -> Dinodes],
           NEW nm \in SUBSET Inode, Dev(m, u, is, dk, di, nm) \in Good(sy, c), Drift(m, u, c),
           NEW s \in Seq(Ptr),
           \A i \in 1 .. Len(s) : s[i] # 0 => s[i] \in m /\ s[i] \notin Owned(nm, dk, di),
           \A i, j \in 1 .. Len(s) : s[i] # 0 /\ s[i] = s[j] => i = j,
           Cardinality(Owned(nm, dk, di)) + CountTo(s, Len(s)) <= u
    PROVE  Runs(Dev(m, u, is, dk, di, nm), free_writes(m, u, s), Good(sy, c),
                Dev(m \ Take(s, Len(s)), u - CountTo(s, Len(s)), is,
                    Zeroing(dk, Take(s, Len(s))), di, nm))
<1> DEFINE L == Len(s)
           d == Dev(m, u, is, dk, di, nm)
           O == Owned(nm, dk, di)
           G == Good(sy, c)
<1>0. L \in Nat /\ 0 \notin Block /\ 0 \notin m BY FileBlocksAssumption DEF Block
<1>1. \A i \in 0 .. L : /\ CountTo(s, i) \in Nat /\ CountTo(s, i) <= CountTo(s, L) /\ CountTo(s, L) \in Nat
                        /\ Cardinality(m \ Take(s, i)) = Cardinality(m) - CountTo(s, i)
  <2>1. \A i \in Nat : CountTo(s, i) \in Nat BY CountNext
  <2>2. \A i \in 0 .. L : CountTo(s, i) <= CountTo(s, L) BY <1>0, CountBound
  <2>3. \A i \in 0 .. L : Cardinality(m \ Take(s, i)) = Cardinality(m) - CountTo(s, i) BY FreedSize
  <2> QED BY <1>0, <2>1, <2>2, <2>3
<1>2. Cardinality(m) \in Nat /\ Cardinality(O) \in Nat
  <2>1. O \subseteq Block BY DEF Owned
  <2> QED BY <2>1, BlockSets
<1>3. /\ d.freemap = m /\ d.used = u /\ d.inodes = is /\ d.disk = dk /\ d.dinode = di /\ d.named = nm
  BY DevParts
<1>4. nm \subseteq is /\ Zeros(m, dk) /\ Placed(nm, m, dk, di) BY <1>3 DEF Good, Safe
<1>5. O \subseteq m
  <2>1. ASSUME NEW b \in O PROVE b \in m
    <3>1. b \in Block /\ b # 0 BY <1>0 DEF Owned
    <3> QED BY <1>4, <3>1 DEF Owned, Placed
  <2> QED BY <2>1
<1>6. ASSUME NEW i \in 0 .. L, NEW j \in 0 .. L, i <= j, NEW v \in Int,
             Cardinality(O) <= v, v <= u, v - (Cardinality(m) - CountTo(s, i)) \in -(c + 1) .. c + 1
      PROVE  Dev(m \ Take(s, i), v, is, Zeroing(dk, Take(s, j)), di, nm) \in G
  <2> DEFINE X == Take(s, i)
             Y == Take(s, j)
             fm == m \ X
             zk == Zeroing(dk, Y)
             e == Dev(fm, v, is, zk, di, nm)
  <2>1. X \subseteq Y BY <1>6 DEF Take
  <2>2. \A b \in Y : b # 0 => b \notin O BY <1>0 DEF Take
  <2>3. v \in 0 .. MaxFsBlocks BY <1>2, <1>6, FileBlocksAssumption
  <2>4. zk \in Disks
    <3>1. ZeroBlock \in [Unit -> Ptr \cup Inode] BY DEF ZeroBlock, Ptr
    <3> QED BY <3>1 DEF Zeroing, Disks
  <2>5. e \in Devices BY <2>3, <2>4, DevType
  <2>6. /\ e.freemap = fm /\ e.used = v /\ e.inodes = is /\ e.disk = zk /\ e.dinode = di /\ e.named = nm
    BY DevParts
  <2>7. \A b \in O : b \in Block /\ b # 0 BY <1>0 DEF Owned
  <2>8. \A b \in O : zk[b] = dk[b] /\ b \in fm
    <3> SUFFICES ASSUME NEW b \in O PROVE zk[b] = dk[b] /\ b \in fm OBVIOUS
    <3>1. b \in Block /\ b \notin Y /\ b \notin X /\ b \in m BY <1>5, <2>1, <2>2, <2>7
    <3> QED BY <3>1 DEF Zeroing
  <2>9. Zeros(fm, zk) BY <1>4, <2>1 DEF Zeros, Zeroing
  <2>10. Drift(fm, v, c + 1) BY <1>1, <1>6 DEF Drift
  <2>11. \A f \in nm : di[f] = di[f] OBVIOUS
  <2> HIDE DEF d, e, fm, zk, O
  <2>12. /\ e.named \subseteq d.named /\ e.named \subseteq e.inodes
         /\ \A f \in e.named : e.dinode[f] = d.dinode[f]
         /\ \A b \in Owned(e.named, d.disk, d.dinode) : e.disk[b] = d.disk[b] /\ b \in e.freemap
         /\ Cardinality(Owned(e.named, d.disk, d.dinode)) <= e.used
         /\ Zeros(e.freemap, e.disk) /\ Drift(e.freemap, e.used, c + 1)
    BY ONLY <1>3, <1>4, <1>6, <2>6, <2>8, <2>9, <2>10, <2>11 DEF O
  <2>13. d \in Good(sy, c) BY DEF d
  <2>14. e \in Good(sy, c) BY ONLY <2>5, <2>12, <2>13, Unharmed
  <2> QED BY <2>14 DEF e, fm, zk
<1>7. u - Cardinality(m) \in -c .. c BY DEF Drift
<1>8. Cardinality(O) + CountTo(s, L) <= u OBVIOUS
<1>9. u \in Int BY FileBlocksAssumption
<1> HIDE DEF O
<1>10. ASSUME NEW i \in 0 .. L
       PROVE  Dev(m \ Take(s, i), u - CountTo(s, i), is, Zeroing(dk, Take(s, i)), di, nm) \in G
  <2> DEFINE k == CountTo(s, i)
  <2>1. k \in Nat /\ k <= CountTo(s, L) /\ CountTo(s, L) \in Nat BY <1>1
  <2> HIDE DEF k
  <2>2. u - k \in Int /\ Cardinality(O) <= u - k /\ u - k <= u
        /\ (u - k) - (Cardinality(m) - k) \in -(c + 1) .. c + 1
    BY <1>2, <1>7, <1>8, <1>9, <2>1, SMTT(30)
  <2>3. i <= i OBVIOUS
  <2> QED BY <1>6, <2>2, <2>3 DEF k
<1>11. ASSUME NEW i \in 1 .. L, s[i] # 0
       PROVE  /\ Dev(m \ Take(s, i - 1), u - CountTo(s, i - 1), is, Zeroing(dk, Take(s, i)), di, nm) \in G
              /\ Dev(m \ Take(s, i), u - CountTo(s, i - 1), is, Zeroing(dk, Take(s, i)), di, nm) \in G
  <2> DEFINE k == CountTo(s, i - 1)
             l == CountTo(s, i)
  <2>1. i - 1 \in 0 .. L /\ i \in 0 .. L /\ i - 1 <= i /\ i <= i /\ i - 1 \in Nat /\ (i - 1) + 1 = i BY <1>0
  <2>2. k \in Nat /\ k <= CountTo(s, L) /\ CountTo(s, L) \in Nat BY <1>1, <2>1
  <2>3. l = k + 1 BY <1>11, <2>1, CountNext
  <2> HIDE DEF k, l
  <2>4. u - k \in Int /\ Cardinality(O) <= u - k /\ u - k <= u
        /\ (u - k) - (Cardinality(m) - k) \in -(c + 1) .. c + 1
        /\ (u - k) - (Cardinality(m) - l) \in -(c + 1) .. c + 1
    BY <1>2, <1>7, <1>8, <1>9, <2>2, <2>3, SMTT(30)
  <2>5. Dev(m \ Take(s, i - 1), u - k, is, Zeroing(dk, Take(s, i)), di, nm) \in G
    BY <1>6, <2>1, <2>4 DEF k
  <2>6. Dev(m \ Take(s, i), u - k, is, Zeroing(dk, Take(s, i)), di, nm) \in G
    BY <1>6, <2>1, <2>4 DEF l
  <2> QED BY <2>5, <2>6 DEF k
<1> HIDE DEF G
<1>12. Runs(Dev(m, u, is, dk, di, nm), free_writes(m, u, s), G,
            Dev(m \ Take(s, Len(s)), u - CountTo(s, Len(s)), is, Zeroing(dk, Take(s, Len(s))), di, nm))
  BY <1>0, <1>9, <1>10, <1>11, FreeRun
<1> QED BY <1>12 DEF G

\* The blocks that are marked when i more of them have been.
LEMMA MarkedSize ==
    ASSUME NEW m \in SUBSET Block, NEW s \in Seq(Block),
           \A i \in 1 .. Len(s) : s[i] \notin m,
           \A i, j \in 1 .. Len(s) : s[i] = s[j] => i = j
    PROVE  \A i \in 0 .. Len(s) : Cardinality(m \cup Take(s, i)) = Cardinality(m) + i
<1> DEFINE L == Len(s)
           T == {i \in 0 .. L : Cardinality(m \cup Take(s, i)) = Cardinality(m) + i}
<1>0. L \in Nat OBVIOUS
<1>1. \A i \in 0 .. L : m \cup Take(s, i) \subseteq Block BY DEF Take
<1>2. Cardinality(m) \in Nat BY BlockSets
<1>3. \A i \in 0 .. L : Cardinality(m \cup Take(s, i)) = Cardinality(m) + i
  <2>1. 0 \in T
    <3>1. m \cup Take(s, 0) = m BY TakeNone
    <3>2. Cardinality(m \cup Take(s, 0)) = Cardinality(m) BY <3>1
    <3>3. Cardinality(m \cup Take(s, 0)) = Cardinality(m) + 0 BY <1>2, <3>2
    <3> QED BY <1>0, <3>3
  <2>2. ASSUME NEW i \in 1 .. L, i - 1 \in T PROVE i \in T
    <3> DEFINE A == m \cup Take(s, i - 1)
    <3>1. i \in Nat /\ i # 0 /\ i \in 0 .. L /\ i - 1 \in 0 .. L OBVIOUS
    <3>2. m \cup Take(s, i) = A \cup {s[i]}
      <4>1. Take(s, i) = Take(s, i - 1) \cup {s[i]} BY <3>1, TakeNext
      <4> QED BY <4>1
    <3>3. A \subseteq Block /\ Cardinality(A) = Cardinality(m) + (i - 1) BY <1>1, <2>2, <3>1
    <3>4. s[i] \notin A
      <4>1. \A j \in 1 .. i - 1 : s[j] # s[i] BY <1>0
      <4>2. s[i] \notin m OBVIOUS
      <4> QED BY <4>1, <4>2 DEF Take
    <3> HIDE DEF A
    <3>5. Cardinality(A \cup {s[i]}) = Cardinality(A) + 1 BY <3>3, <3>4, AddOne
    <3>7. Cardinality(m \cup Take(s, i)) = Cardinality(A \cup {s[i]}) BY <3>2
    <3>6. Cardinality(m \cup Take(s, i)) = Cardinality(m) + i BY ONLY <1>2, <3>1, <3>3, <3>5, <3>7
    <3> QED BY <3>1, <3>6
  <2> HIDE DEF T
  <2>3. \A i \in 0 .. L : i \in T BY <1>0, <2>1, <2>2, UpTo
  <2> QED BY <2>3 DEF T
<1> QED BY <1>3

\* So is marking free blocks.
LEMMA AllocSafe ==
    ASSUME NEW sy, NEW c \in Nat, NEW m \in SUBSET Block, NEW u \in 0 .. MaxFsBlocks,
           NEW is \in SUBSET Inode, NEW dk \in Disks, NEW di \in [Inode -> Dinodes],
           NEW nm \in SUBSET Inode, Dev(m, u, is, dk, di, nm) \in Good(sy, c), Drift(m, u, c),
           NEW s \in Seq(Block), u + Len(s) <= MaxFsBlocks,
           \A i \in 1 .. Len(s) : s[i] \notin m,
           \A i, j \in 1 .. Len(s) : s[i] = s[j] => i = j
    PROVE  Runs(Dev(m, u, is, dk, di, nm), alloc_writes(m, u, s), Good(sy, c),
                Dev(m \cup Take(s, Len(s)), u + Len(s), is, dk, di, nm))
<1> DEFINE L == Len(s)
           d == Dev(m, u, is, dk, di, nm)
           O == Owned(nm, dk, di)
           G == Good(sy, c)
<1>0. L \in Nat /\ 0 \notin Block /\ u \in Nat BY FileBlocksAssumption DEF Block
<1>1. \A i \in 0 .. L : m \cup Take(s, i) \subseteq Block BY DEF Take
<1>2. Cardinality(m) \in Nat /\ Cardinality(O) \in Nat
  <2>1. O \subseteq Block BY DEF Owned
  <2> QED BY <2>1, BlockSets
<1>3. \A i \in 0 .. L : Cardinality(m \cup Take(s, i)) = Cardinality(m) + i BY MarkedSize
<1>4. /\ d.freemap = m /\ d.used = u /\ d.inodes = is /\ d.disk = dk /\ d.dinode = di /\ d.named = nm
  BY DevParts
<1>5. nm \subseteq is /\ Zeros(m, dk) /\ Placed(nm, m, dk, di) /\ Cardinality(O) <= u
  BY <1>4 DEF Good, Safe
<1>6. O \subseteq m
  <2>1. ASSUME NEW b \in O PROVE b \in m
    <3>1. b \in Block /\ b # 0 BY <1>0 DEF Owned
    <3> QED BY <1>5, <3>1 DEF Owned, Placed
  <2> QED BY <2>1
<1>7. ASSUME NEW i \in 0 .. L, NEW v \in Int, u <= v, v <= MaxFsBlocks,
             v - (Cardinality(m) + i) \in -(c + 1) .. c + 1
      PROVE  Dev(m \cup Take(s, i), v, is, dk, di, nm) \in G
  <2> DEFINE fm == m \cup Take(s, i)
             e == Dev(fm, v, is, dk, di, nm)
  <2>1. v \in 0 .. MaxFsBlocks BY <1>0, <1>7, FileBlocksAssumption
  <2>2. fm \in SUBSET Block BY <1>1
  <2>3. e \in Devices BY <2>1, <2>2, DevType
  <2>4. /\ e.freemap = fm /\ e.used = v /\ e.inodes = is /\ e.disk = dk /\ e.dinode = di /\ e.named = nm
    BY DevParts
  <2>5. \A b \in O : dk[b] = dk[b] /\ b \in fm BY <1>6
  <2>6. Zeros(fm, dk) BY <1>5 DEF Zeros
  <2>7. Drift(fm, v, c + 1) BY <1>3, <1>7 DEF Drift
  <2>8. \A f \in nm : di[f] = di[f] OBVIOUS
  <2>9. Cardinality(O) <= v BY <1>0, <1>2, <1>5, <1>7
  <2> HIDE DEF d, e, fm, O
  <2>12. /\ e.named \subseteq d.named /\ e.named \subseteq e.inodes
         /\ \A f \in e.named : e.dinode[f] = d.dinode[f]
         /\ \A b \in Owned(e.named, d.disk, d.dinode) : e.disk[b] = d.disk[b] /\ b \in e.freemap
         /\ Cardinality(Owned(e.named, d.disk, d.dinode)) <= e.used
         /\ Zeros(e.freemap, e.disk) /\ Drift(e.freemap, e.used, c + 1)
    BY ONLY <1>4, <1>5, <2>4, <2>5, <2>6, <2>7, <2>8, <2>9 DEF O
  <2>13. d \in Good(sy, c) BY DEF d
  <2>14. e \in Good(sy, c) BY ONLY <2>3, <2>12, <2>13, Unharmed
  <2> QED BY <2>14 DEF e, fm
<1>8. u - Cardinality(m) \in -c .. c /\ u \in Int BY <1>0 DEF Drift
<1>9. u + L <= MaxFsBlocks /\ MaxFsBlocks \in Nat BY FileBlocksAssumption
<1> HIDE DEF O
<1>10. ASSUME NEW i \in 0 .. L PROVE Dev(m \cup Take(s, i), u + i, is, dk, di, nm) \in G
  <2>1. u + i \in Int /\ u <= u + i /\ u + i <= MaxFsBlocks
        /\ (u + i) - (Cardinality(m) + i) \in -(c + 1) .. c + 1
    BY <1>0, <1>2, <1>8, <1>9
  <2> QED BY <1>7, <2>1
<1>11. ASSUME NEW i \in 1 .. L PROVE Dev(m \cup Take(s, i), u + (i - 1), is, dk, di, nm) \in G
  <2>1. u + (i - 1) \in Int /\ u <= u + (i - 1) /\ u + (i - 1) <= MaxFsBlocks
        /\ (u + (i - 1)) - (Cardinality(m) + i) \in -(c + 1) .. c + 1 /\ i \in 0 .. L
    BY <1>0, <1>2, <1>8, <1>9, SMTT(30)
  <2> QED BY <1>7, <2>1
<1> HIDE DEF G
<1>12. Runs(Dev(m, u, is, dk, di, nm), alloc_writes(m, u, s), G,
            Dev(m \cup Take(s, Len(s)), u + Len(s), is, dk, di, nm))
  BY <1>8, <1>10, <1>11, AllocRun
<1> QED BY <1>12 DEF G

-----------------------------------------------------------------------------
(* The invariant of FileCrash *)

Copies == [f \in Inode |-> Copy(f)]

\* The files with a name, with the inodes ins, are in order: what Safe says, except
\* that they hold exactly what was written to them and that the count is not
\* behind.
Sound(fm, u, is, dk, ins, nm, wr, c) ==
    /\ nm \subseteq is
    /\ Placed(nm, fm, dk, ins)
    /\ Zeros(fm, dk)
    /\ \A f \in nm, off \in Offset : Reads(dk, ins[f], off) = IF off \in wr[f] THEN Data(f) ELSE 0
    /\ Drift(fm, u, c)
    /\ Cardinality(Owned(nm, dk, ins)) <= u

CrashTypeOK ==
    /\ TypeOK
    /\ synced \in [Inode -> SUBSET Offset]
    /\ crashes \in 0 .. MaxCrashes
    /\ stale \in BOOLEAN

\* What the process sees is in order, whatever earlier deaths have left behind.
ViewOK == Sound(freemap, used, inodes, disk, Copies, named, written, crashes)

\* The write in progress: nothing is lost if the inode in memory is.
WritingNamed ==
    pc = "write" => /\ nr \in named /\ start <= pos /\ pos <= end /\ pos <= MAX_FILE_SIZE
                    /\ ~dirty => in = dinode[nr]
                    /\ Extends(dinode[nr], in) /\ in.i_size = dinode[nr].i_size

\* The units sy of the files F have been written, and are before the end.
Covers(F, wr, ins, sy) == \A f \in F : \A u \in sy[f] : u \in wr[f] /\ u < ins[f].i_size

HistoryOK ==
    /\ pc # "abort" => \A f \in Inode \ named : written[f] = {}
    /\ Covers(named, written, dinode, synced)
    /\ pc = "write" \/ (pc = "idle" /\ pending = <<>>) => \A f \in Inode \ named : synced[f] = {}

\* The process may die before and after each of the block writes that are still to
\* come, and the last of them makes the device what the process believes it to be.
DeviceOK ==
    \E d : /\ Runs(dev, pending, Good(synced, crashes), d)
           /\ pc # "abort" => d = View

CInv == CrashTypeOK /\ ViewOK /\ WritingNamed /\ HistoryOK /\ DeviceOK /\ KeptReadable

\* A device that agrees with what the process sees is safe.
LEMMA SoundGood ==
    ASSUME NEW fm \in SUBSET Block, NEW u \in 0 .. MaxFsBlocks, NEW is \in SUBSET Inode,
           NEW dk \in Disks, NEW di \in [Inode -> Dinodes], NEW nm, NEW wr, NEW c \in Nat, NEW sy,
           Sound(fm, u, is, dk, di, nm, wr, c),
           Covers(nm, wr, di, sy)
    PROVE  Dev(fm, u, is, dk, di, nm) \in Good(sy, c)
<1> DEFINE d == Dev(fm, u, is, dk, di, nm)
<1>1. nm \in SUBSET Inode BY DEF Sound
<1>2. d \in Devices BY <1>1, DevType
<1>3. /\ d.freemap = fm /\ d.used = u /\ d.inodes = is /\ d.disk = dk /\ d.dinode = di /\ d.named = nm
  BY DevParts
<1> HIDE DEF d
<1>4. Drift(fm, u, c + 1)
  <2>1. fm \subseteq Block /\ u \in Nat BY FileBlocksAssumption
  <2>2. Cardinality(fm) \in Nat BY <2>1, BlockSets
  <2> QED BY <2>1, <2>2 DEF Sound, Drift
<1>5. \A f \in nm, off \in Offset :
          /\ Reads(dk, di[f], off) \in {0, Data(f)}
          /\ off \in sy[f] => Reads(dk, di[f], off) = Data(f) /\ off < di[f].i_size
  BY DEF Sound, Covers
<1>6. Safe(d, sy, c) BY <1>3, <1>4, <1>5 DEF Safe, Sound
<1> QED BY <1>2, <1>6 DEF Good, d

LEMMA CrashTypes ==
    ASSUME CInv
    PROVE  /\ freemap \in SUBSET Block /\ used \in 0 .. MaxFsBlocks /\ used \in Nat
           /\ inodes \in SUBSET Inode /\ disk \in Disks /\ dinode \in [Inode -> Dinodes]
           /\ named \in SUBSET Inode /\ named \subseteq inodes
           /\ crashes \in Nat /\ crashes <= MaxCrashes /\ MaxCrashes \in Nat
           /\ Copies \in [Inode -> Dinodes]
           /\ \A f \in Inode : Copies[f] = Copy(f)
           /\ (pc # "write" => Copies = dinode)
           /\ View = Dev(freemap, used, inodes, disk, dinode, named)
<1>1. TypeOK /\ crashes \in 0 .. MaxCrashes /\ named \subseteq inodes BY DEF CInv, CrashTypeOK, ViewOK, Sound
<1>2. /\ freemap \in SUBSET Block /\ used \in 0 .. MaxFsBlocks
      /\ inodes \in SUBSET Inode /\ disk \in Disks /\ dinode \in [Inode -> Dinodes] /\ in \in Dinodes
  BY <1>1 DEF TypeOK, Disks
<1>3. \A f \in Inode : Copies[f] = Copy(f) BY DEF Copies
<1>4. Copies \in [Inode -> Dinodes] BY <1>2 DEF Copies, Copy
<1>5. ASSUME pc # "write" PROVE Copies = dinode BY <1>2, <1>5 DEF Copies, Copy
<1>6. View = Dev(freemap, used, inodes, disk, dinode, named) BY DEF View, Dev
<1>7. used \in Nat BY <1>2, FileBlocksAssumption
<1>8. crashes \in Nat /\ crashes <= MaxCrashes /\ MaxCrashes \in Nat BY <1>1, FileCrashAssumption
<1> QED BY <1>1, <1>2, <1>3, <1>4, <1>5, <1>6, <1>7, <1>8

\* Between two parts of a command the device is what the process sees.
LEMMA CrashReady ==
    ASSUME CInv, pending = <<>>, pc # "abort"
    PROVE  dev = View /\ View \in Good(synced, crashes)
<1>1. PICK d : Runs(dev, pending, Good(synced, crashes), d) /\ d = View BY DEF CInv, DeviceOK
<1>2. dev \in Good(synced, crashes) /\ dev = d BY <1>1, RunEnds
<1> QED BY <1>1, <1>2

\* A part of a command with a run to what the process then sees.
LEMMA CrashDoes ==
    ASSUME NEW ws, Issues(ws), dev = View, NEW e, Runs(View, ws, Good(synced, crashes), e),
           pc' # "abort" => e = View'
    PROVE  DeviceOK'
<1>1. dev' = View /\ pending' = ws /\ synced' = synced /\ crashes' = crashes BY DEF Issues
<1>2. Runs(dev', pending', Good(synced', crashes'), e) BY <1>1
<1>3. pc' # "abort" => e = View' OBVIOUS
<1> QED BY <1>2, <1>3 DEF DeviceOK

LEMMA BaseNamed ==
    ASSUME CInv
    PROVE  Base(named)
<1>1. TypeOK /\ Placed(named, freemap, disk, Copies)
  BY DEF CInv, CrashTypeOK, ViewOK, Sound
<1>2. named \subseteq Inode /\ \A f \in Inode : Copies[f] = Copy(f)
  BY CrashTypes
<1>3. \A f \in named, p \in Place : At(f, p) = Walk(disk, Copies[f], p) BY <1>2 DEF At
<1>4. RootedIn(named) BY <1>1, <1>3 DEF RootedIn, Placed
<1>5. SingleIn(named) BY <1>1, <1>3 DEF SingleIn, Placed
<1>6. pc = "write" => nr \in named BY DEF CInv, WritingNamed
<1> QED BY <1>1, <1>2, <1>4, <1>5, <1>6 DEF Base

-----------------------------------------------------------------------------
(* Creating a file, and the beginning of a write *)

LEMMA KeptCreated ==
    ASSUME KeptReadable, pc = "idle", pc' = pc, dinode' = dinode, written' = written, kept' = kept
    PROVE  KeptReadable'
<1>1. \A g : Copy(g)' = Copy(g) BY DEF Copy
<1> QED BY <1>1 DEF KeptReadable, Kept, Inode

LEMMA CrashCreate ==
    ASSUME CInv, NEW f \in Inode, create(f), ~stale'
    PROVE  CInv'
<1>1. /\ pc = "idle" /\ f \notin inodes /\ inodes' = inodes \cup {f} /\ dinode[f] = Zeroed
      /\ named' = named \cup {f} /\ pending = <<>> /\ kept' = kept
      /\ pending' = <<W("inodes", inodes \cup {f}), W("named", named \cup {f}), WAt("dinode", f, dinode[f])>>
      /\ freemap' = freemap /\ used' = used /\ disk' = disk /\ dinode' = dinode /\ pc' = pc
      /\ nr' = nr /\ in' = in /\ dirty' = dirty /\ start' = start /\ pos' = pos /\ end' = end
      /\ written' = written /\ dev' = dev /\ synced' = synced /\ crashes' = crashes /\ stale' = FALSE
  BY DEF create, create_inode, get_inode_freemap, Issues, cmdVars
<1>2. /\ freemap \in SUBSET Block /\ used \in 0 .. MaxFsBlocks
      /\ inodes \in SUBSET Inode /\ disk \in Disks /\ dinode \in [Inode -> Dinodes]
      /\ named \in SUBSET Inode /\ named \subseteq inodes /\ crashes \in Nat
      /\ Copies = dinode /\ View = Dev(freemap, used, inodes, disk, dinode, named)
  BY <1>1, CrashTypes
<1>3. dev = View /\ View \in Good(synced, crashes) BY <1>1, CrashReady
<1>4. Copies' = dinode BY <1>1, <1>2 DEF Copies, Copy
<1>5. /\ Placed(named, freemap, disk, dinode) /\ Zeros(freemap, disk) /\ Drift(freemap, used, crashes)
      /\ \A g \in named, off \in Offset : Reads(disk, dinode[g], off) = IF off \in written[g] THEN Data(g) ELSE 0
      /\ Cardinality(Owned(named, disk, dinode)) <= used
  BY <1>2 DEF CInv, ViewOK, Sound
<1>6. f \notin named /\ written[f] = {} /\ synced[f] = {} /\ Covers(named, written, dinode, synced)
  BY <1>1, <1>2 DEF CInv, HistoryOK
<1>7. \A p \in Place : Walk(disk, dinode[f], p) = 0 BY <1>1, ZeroedHasNone
<1> DEFINE F == named \cup {f}
<1>8. Placed(F, freemap, disk, dinode)
  <2>1. \A g \in F, p \in Place : Walk(disk, dinode[g], p) # 0 => g \in named BY <1>7
  <2>2. \A g \in F, p \in Place :
          /\ Walk(disk, dinode[g], p) \in Ptr
          /\ Walk(disk, dinode[g], p) # 0 => Walk(disk, dinode[g], p) \in freemap
    BY <1>5, <1>7 DEF Placed, Ptr
  <2>3. ASSUME NEW g \in F, NEW h \in F, NEW p \in Place, NEW q \in Place,
               Walk(disk, dinode[g], p) # 0, Walk(disk, dinode[g], p) = Walk(disk, dinode[h], q)
        PROVE  g = h /\ p = q
    <3>1. g \in named /\ h \in named BY <2>1, <2>3
    <3> QED BY <1>5, <2>3, <3>1 DEF Placed
  <2> HIDE DEF F
  <2> QED BY <2>2, <2>3 DEF Placed
<1>9. Owned(F, disk, dinode) = Owned(named, disk, dinode)
  <2>1. 0 \notin Block BY FileBlocksAssumption DEF Block
  <2> QED BY <1>7, <2>1 DEF Owned
<1>10. \A g \in F, off \in Offset : Reads(disk, dinode[g], off) = IF off \in written[g] THEN Data(g) ELSE 0
  <2>1. ASSUME NEW off \in Offset PROVE Reads(disk, dinode[f], off) = 0
    <3>1. DataPlace(off \div BLOCK_SIZE) \in Place BY OffsetParts, PlaceKinds
    <3>2. Walk(disk, dinode[f], DataPlace(off \div BLOCK_SIZE)) = 0 BY <1>7, <3>1
    <3> QED BY <3>2 DEF Reads, Ent
  <2> QED BY <1>5, <1>6, <2>1
<1>11. Sound(freemap, used, inodes \cup {f}, disk, dinode, F, written, crashes)
  <2>1. F \subseteq inodes \cup {f} BY <1>2
  <2> HIDE DEF F
  <2> QED BY <1>5, <1>8, <1>9, <1>10, <2>1 DEF Sound
<1>12. ViewOK' BY <1>1, <1>4, <1>11 DEF ViewOK
<1>13. Covers(F, written, dinode, synced) BY <1>6 DEF Covers
<1> DEFINE is == inodes \cup {f}
           d == Dev(freemap, used, is, disk, dinode, named)
           e == Dev(freemap, used, is, disk, dinode, F)
           G == Good(synced, crashes)
<1>14. is \in SUBSET Inode BY <1>2
<1>15. e \in G BY <1>2, <1>11, <1>13, <1>14, SoundGood
<1>16. d \in G
  <2>1. Sound(freemap, used, is, disk, dinode, named, written, crashes) BY <1>2, <1>5 DEF Sound
  <2> HIDE DEF is
  <2> QED BY <1>2, <1>6, <1>14, <2>1, SoundGood
<1>17. View' = e BY <1>1 DEF View, Dev
<1>18. write_blocks(View, W("inodes", is)) = d BY <1>2, WriteParts
<1>19. write_blocks(d, W("named", F)) = e BY WriteParts
<1>28. write_blocks(e, WAt("dinode", f, dinode[f])) = e
  <2>1. f # 0 BY FileBlocksAssumption DEF Inode
  <2>2. [dinode EXCEPT ![f] = dinode[f]] = dinode BY <1>2
  <2> QED BY <2>1, <2>2, WriteInode
<1> HIDE DEF d, e, G
<1>20. Runs(View, <<W("inodes", is)>>, G, d) BY <1>3, <1>16, <1>18, RunOne DEF G
<1>21. Runs(d, <<W("named", F)>>, G, e) BY <1>15, <1>16, <1>19, RunOne
<1>22. Runs(View, <<W("inodes", is)>> \o <<W("named", F)>>, G, e) BY ONLY <1>20, <1>21, RunJoin
<1>23. Runs(View, <<W("inodes", is), W("named", F)>>, G, e)
  <2>1. <<W("inodes", is)>> \o <<W("named", F)>> = <<W("inodes", is), W("named", F)>> BY TwoWrites
  <2> QED BY <1>22, <2>1
<1>24. DeviceOK'
  <2> DEFINE a == W("inodes", is)
             b == W("named", F)
             w == WAt("dinode", f, dinode[f])
  <2>1. Issues(<<a, b, w>>) BY DEF create
  <2>2. write_blocks(e, w) = e BY <1>28
  <2>3. Runs(View, <<a, b>>, G, e) BY <1>23
  <2> HIDE DEF is, F, a, b, w
  <2>4. Runs(e, <<w>>, G, e) BY <1>15, <2>2, RunOne
  <2>5. Runs(View, <<a, b>> \o <<w>>, G, e) BY ONLY <2>3, <2>4, RunJoin
  <2>6. <<a, b>> \o <<w>> = <<a, b, w>> BY ThreeWrites
  <2>7. Runs(View, <<a, b, w>>, G, e) BY <2>5, <2>6
  <2> QED BY <1>3, <1>17, <2>1, <2>7, CrashDoes DEF G
<1>25. CrashTypeOK' BY <1>1, <1>14 DEF CInv, CrashTypeOK, TypeOK
<1>26. WritingNamed' BY <1>1 DEF WritingNamed
<1>27. HistoryOK'
  <2>1. pending' # <<>> BY <1>1
  <2> QED BY <1>1, <1>13, <2>1 DEF CInv, HistoryOK
<1>29. KeptReadable' BY <1>1, KeptCreated DEF CInv
<1> QED BY <1>12, <1>24, <1>25, <1>26, <1>27, <1>29 DEF CInv

\* There is no room for the entry.
LEMMA CrashCreateFail ==
    ASSUME CInv, NEW f \in Inode, create_fail(f), ~stale'
    PROVE  CInv'
<1> DEFINE is == inodes \cup {f}
           d == Dev(freemap, used, is, disk, dinode, named)
           G == Good(synced, crashes)
           a == W("inodes", is)
           b == W("inodes", inodes)
           w == WAt("dinode", f, Zeroed)
<1>1. /\ pc = "idle" /\ f \notin inodes /\ dinode[f] = Zeroed /\ named' = named /\ pending = <<>>
      /\ Issues(<<a, b, w>>) /\ stale' = FALSE
      /\ freemap' = freemap /\ used' = used /\ disk' = disk /\ dinode' = dinode /\ pc' = pc /\ inodes' = inodes
      /\ nr' = nr /\ in' = in /\ dirty' = dirty /\ start' = start /\ pos' = pos /\ end' = end
      /\ written' = written /\ kept' = kept
  <2>1. dinode[f] = Zeroed BY DEF create_fail
  <2>2. /\ Does(<<a, b, w>>) /\ UNCHANGED vars /\ pc = "idle" /\ get_inode_freemap(f) /\ named' = named
    BY <2>1 DEF create_fail
  <2> HIDE DEF a, b, w
  <2> QED BY <2>1, <2>2 DEF Does, Issues, vars, get_inode_freemap
<1>2. /\ freemap \in SUBSET Block /\ used \in 0 .. MaxFsBlocks
      /\ inodes \in SUBSET Inode /\ disk \in Disks /\ dinode \in [Inode -> Dinodes]
      /\ named \in SUBSET Inode /\ named \subseteq inodes /\ crashes \in Nat
      /\ Copies = dinode /\ View = Dev(freemap, used, inodes, disk, dinode, named)
  BY <1>1, CrashTypes
<1>3. dev = View /\ View \in Good(synced, crashes) BY <1>1, CrashReady
<1>4. Copies' = Copies /\ View' = View BY <1>1 DEF Copies, Copy, View
<1>5. d \in G
  <2>1. Sound(freemap, used, inodes, disk, dinode, named, written, crashes) BY <1>2 DEF CInv, ViewOK
  <2>2. Sound(freemap, used, is, disk, dinode, named, written, crashes) BY <2>1 DEF Sound
  <2>3. Covers(named, written, dinode, synced) BY DEF CInv, HistoryOK
  <2>4. is \in SUBSET Inode BY <1>2
  <2> HIDE DEF is
  <2> QED BY <1>2, <2>2, <2>3, <2>4, SoundGood
<1>6. write_blocks(View, a) = d BY <1>2, WriteParts
<1>7. write_blocks(d, b) = View BY <1>2, WriteParts
<1>8. write_blocks(View, w) = View
  <2>1. f # 0 BY FileBlocksAssumption DEF Inode
  <2>2. [dinode EXCEPT ![f] = Zeroed] = dinode BY <1>1, <1>2
  <2> QED BY <1>2, <2>1, <2>2, WriteInode
<1> HIDE DEF d, a, b, w
<1>9. Runs(View, <<a>>, G, d) BY <1>3, <1>5, <1>6, RunOne DEF G
<1>10. Runs(d, <<b>>, G, View) BY <1>3, <1>5, <1>7, RunOne DEF G
<1>11. Runs(View, <<w>>, G, View) BY <1>3, <1>8, RunOne DEF G
<1> HIDE DEF G
<1>12. Runs(View, <<a, b, w>>, G, View)
  <2>1. Runs(View, <<a>> \o <<b>>, G, View) BY ONLY <1>9, <1>10, RunJoin
  <2>2. Runs(View, (<<a>> \o <<b>>) \o <<w>>, G, View) BY ONLY <1>11, <2>1, RunJoin
  <2>3. (<<a>> \o <<b>>) \o <<w>> = <<a, b, w>> BY ThreeWrites
  <2> QED BY <2>2, <2>3
<1>13. DeviceOK' BY <1>1, <1>3, <1>4, <1>12, CrashDoes DEF G
<1>14. pending' = <<a, b, w>> /\ synced' = synced /\ crashes' = crashes BY <1>1 DEF Issues
<1>15. CrashTypeOK' BY <1>1, <1>14 DEF CInv, CrashTypeOK, TypeOK
<1>16. ViewOK' BY <1>1, <1>4, <1>14 DEF CInv, ViewOK
<1>17. WritingNamed' BY <1>1 DEF WritingNamed
<1>18. HistoryOK'
  <2>1. pending' # <<>> BY <1>14
  <2> QED BY <1>1, <1>14, <2>1 DEF CInv, HistoryOK
<1>19. KeptReadable' BY <1>1, KeptCreated DEF CInv
<1> QED BY <1>13, <1>15, <1>16, <1>17, <1>18, <1>19 DEF CInv

LEMMA CrashWrite ==
    ASSUME CInv, NEW f \in Inode, write(f)
    PROVE  CInv'
<1>1. PICK off \in WriteAt, size \in 1 .. MaxWrite : write_data(f, off, size) BY DEF write
<1>2. /\ pc = "idle" /\ f \in named /\ pc' = "write" /\ nr' = f /\ in' = dinode[f] /\ dirty' = FALSE
      /\ start' = off /\ pos' = off /\ end' = off + size
      /\ freemap' = freemap /\ used' = used /\ inodes' = inodes /\ disk' = disk /\ dinode' = dinode
      /\ written' = written /\ kept' = kept /\ named' = named /\ pending = <<>> /\ pending' = <<>>
      /\ dev' = dev /\ synced' = synced /\ crashes' = crashes /\ stale' = stale
  BY <1>1 DEF write_data, write, Does, Issues
<1>3. Copies' = Copies BY <1>2 DEF Copies, Copy
<1>4. off \in Offset /\ off \in Nat /\ size \in Nat /\ off <= off + size /\ off + size \in Nat /\ off <= MAX_FILE_SIZE
  <2>1. off \in Offset BY FileCrashAssumption
  <2>2. MaxWrite \in Nat BY FileBlocksAssumption
  <2> QED BY <2>1, <2>2, Sizes DEF Offset
<1>5. ViewOK' BY <1>2, <1>3 DEF CInv, ViewOK
<1>6. View' = View BY <1>2 DEF View
<1>7. DeviceOK' BY <1>2, <1>6 DEF CInv, DeviceOK
<1>8. CrashTypeOK' BY <1>2, <1>4 DEF CInv, CrashTypeOK, TypeOK
<1>9. WritingNamed'
  <2>1. Extends(dinode[f], dinode[f]) BY DEF Extends
  <2>2. pos' <= MAX_FILE_SIZE /\ start' <= pos' /\ pos' <= end' BY <1>2, <1>4
  <2> QED BY <1>2, <2>1, <2>2 DEF WritingNamed, MAX_FILE_SIZE, MAX_BLOCK_NR, NR_INDIRECT_BLOCKS
<1>10. HistoryOK' BY <1>2 DEF CInv, HistoryOK
<1>11. KeptReadable' BY <1>1, <1>4, KeptBegins DEF CInv
<1> QED BY <1>5, <1>7, <1>8, <1>9, <1>10, <1>11 DEF CInv

-----------------------------------------------------------------------------
(* Block writes reach the device, and the process dies *)

LEMMA CrashDeviceWrite ==
    ASSUME CInv, device_write
    PROVE  CInv'
<1>1. /\ pending # <<>> /\ dev' = write_blocks(dev, Head(pending)) /\ pending' = Tail(pending)
      /\ synced' = (IF pc = "idle" /\ pending' = <<>> THEN kept ELSE synced) /\ kept' = kept
      /\ freemap' = freemap /\ used' = used /\ inodes' = inodes /\ disk' = disk /\ dinode' = dinode
      /\ pc' = pc /\ nr' = nr /\ in' = in /\ dirty' = dirty /\ start' = start /\ pos' = pos /\ end' = end
      /\ written' = written /\ named' = named /\ crashes' = crashes /\ stale' = stale
  BY DEF device_write, vars
<1>2. CrashTypeOK /\ ViewOK /\ WritingNamed /\ HistoryOK /\ KeptReadable BY DEF CInv
<1>3. /\ freemap \in SUBSET Block /\ used \in 0 .. MaxFsBlocks
      /\ inodes \in SUBSET Inode /\ disk \in Disks /\ dinode \in [Inode -> Dinodes]
      /\ named \in SUBSET Inode /\ crashes \in Nat
      /\ (pc # "write" => Copies = dinode) /\ View = Dev(freemap, used, inodes, disk, dinode, named)
  BY CrashTypes
<1>4. View' = View /\ Copies' = Copies BY <1>1 DEF View, Copies, Copy
<1>5. PICK d : Runs(dev, pending, Good(synced, crashes), d) /\ (pc # "abort" => d = View)
  BY <1>2 DEF CInv, DeviceOK
<1>6. Runs(dev', pending', Good(synced, crashes), d) BY <1>1, <1>5, RunNext
<1>12. pc = "idle" => Covers(named, written, dinode, kept)
  BY <1>2, <1>3 DEF Covers, KeptReadable, Kept, Copy
<1>7. DeviceOK'
  <2>1. CASE pc = "idle" /\ pending' = <<>>
    <3>1. dev' = View BY <1>5, <1>6, <2>1, RunEnds
    <3>2. Sound(freemap, used, inodes, disk, dinode, named, written, crashes) BY <1>2, <1>3, <2>1 DEF ViewOK
    <3>3. Covers(named, written, dinode, kept) BY <1>12, <2>1
    <3>4. View \in Good(kept, crashes) BY <1>3, <3>2, <3>3, SoundGood
    <3>5. Runs(View, <<>>, Good(kept, crashes), View) BY <3>4, RunNone
    <3>6. Runs(dev', pending', Good(synced', crashes'), View') BY <1>1, <1>4, <2>1, <3>1, <3>5
    <3> QED BY <3>6 DEF DeviceOK
  <2>2. CASE ~(pc = "idle" /\ pending' = <<>>)
    <3>1. synced' = synced BY <1>1, <2>2
    <3>2. Runs(dev', pending', Good(synced', crashes'), d) BY <1>1, <1>6, <3>1
    <3>3. pc' # "abort" => d = View' BY <1>1, <1>4, <1>5
    <3> QED BY <3>2, <3>3 DEF DeviceOK
  <2> QED BY <2>1, <2>2
<1>8. ViewOK' BY <1>1, <1>2, <1>4 DEF ViewOK
<1>9. CrashTypeOK'
  <2>1. TypeOK' BY <1>1, <1>2 DEF CrashTypeOK, TypeOK
  <2>2. synced' \in [Inode -> SUBSET Offset] BY <1>1, <1>2 DEF CrashTypeOK, TypeOK
  <2>3. crashes' \in 0 .. MaxCrashes /\ stale' \in BOOLEAN BY <1>1, <1>2 DEF CrashTypeOK
  <2>4. (synced \in [Inode -> SUBSET Offset])' BY <2>2 DEF Offset, Inode, MAX_FILE_SIZE, MAX_BLOCK_NR, NR_INDIRECT_BLOCKS
  <2> QED BY <2>1, <2>3, <2>4 DEF CrashTypeOK
<1>10. WritingNamed'
  BY <1>1, <1>2 DEF WritingNamed, MAX_FILE_SIZE, MAX_BLOCK_NR, NR_INDIRECT_BLOCKS
<1>11. HistoryOK'
  <2>1. pc' # "abort" => \A f \in Inode \ named' : written'[f] = {} BY <1>1, <1>2 DEF HistoryOK
  <2>2. Covers(named', written', dinode', synced') BY <1>1, <1>2, <1>12 DEF HistoryOK
  <2>3. pc' = "write" \/ (pc' = "idle" /\ pending' = <<>>) => \A f \in Inode \ named' : synced'[f] = {}
    <3>1. CASE pc = "write" BY <1>1, <1>2, <3>1 DEF HistoryOK
    <3>2. CASE pc = "idle" /\ pending' = <<>>
      <4>1. \A f \in Inode : kept[f] \subseteq written[f] BY <1>2 DEF KeptReadable, Kept
      <4> QED BY <1>1, <1>2, <3>2, <4>1 DEF HistoryOK
    <3> QED BY <1>1, <3>1, <3>2
  <2> QED BY <2>1, <2>2, <2>3 DEF HistoryOK
<1>13. KeptReadable'
  <2>1. \A f : Copy(f)' = Copy(f) BY <1>1 DEF Copy
  <2> QED BY <1>1, <1>2, <2>1 DEF KeptReadable, Kept, Inode, Offset, MAX_FILE_SIZE, MAX_BLOCK_NR, NR_INDIRECT_BLOCKS
<1> QED BY <1>7, <1>8, <1>9, <1>10, <1>11, <1>13 DEF CInv

LEMMA ZeroedType == Zeroed \in Dinodes
<1>1. [i \in Direct |-> 0] \in [Direct -> Ptr] /\ 0 \in Ptr BY DEF Ptr
<1>2. 0 \in Nat /\ 0 \in 0 .. MAX_FILE_SIZE BY Sizes
<1> QED BY <1>1, <1>2 DEF Zeroed, Dinodes

LEMMA CrashCrash ==
    ASSUME CInv, crash
    PROVE  CInv'
<1>1. dev \in Good(synced, crashes)
  <2>1. PICK d : Runs(dev, pending, Good(synced, crashes), d) BY DEF CInv, DeviceOK
  <2> QED BY <2>1, RunEnds
<1>2. /\ crashes < MaxCrashes
      /\ freemap' = dev.freemap /\ used' = dev.used /\ inodes' = dev.inodes
      /\ disk' = dev.disk /\ dinode' = dev.dinode /\ named' = dev.named
      /\ pc' = "idle" /\ nr' = 1 /\ in' = Zeroed /\ dirty' = FALSE
      /\ start' = 0 /\ pos' = 0 /\ end' = 0 /\ synced' = kept'
      /\ kept' = [f \in Inode |-> {off \in written'[f] : off < dinode'[f].i_size}]
      /\ pending' = <<>> /\ crashes' = crashes + 1 /\ dev' = dev /\ stale' = stale
  BY DEF crash
<1>4. /\ dev.freemap \in SUBSET Block /\ dev.used \in 0 .. MaxFsBlocks /\ dev.inodes \in SUBSET Inode
      /\ dev.disk \in Disks /\ dev.dinode \in [Inode -> Dinodes] /\ dev.named \in SUBSET Inode
      /\ dev = Dev(dev.freemap, dev.used, dev.inodes, dev.disk, dev.dinode, dev.named)
  BY <1>1 DEF Good, Devices, Dev
<1>5. Safe(dev, synced, crashes) BY <1>1 DEF Good
<1> DEFINE R(f, off) == Reads(dev.disk, dev.dinode[f], off)
           wr == [f \in Inode |-> {off \in Offset : f \in dev.named /\ R(f, off) = Data(f)}]
<1>6. written' = wr
  <2>1. ASSUME NEW f, NEW off PROVE stored_unit(dinode[f], off)' = R(f, off)
    <3> DEFINE n == dev.dinode[f]
               dk == dev.disk
               l == off \div BLOCK_SIZE
    <3>1. Walk(dk, n, DataPlace(l)) = DataAt(dk, n, l) BY WalkIs
    <3>2. Reads(dk, n, off) = Ent(dk, DataAt(dk, n, l), off % BLOCK_SIZE) BY <3>1 DEF Reads
    <3>3. stored_unit(dinode[f], off)' = Ent(dk, DataAt(dk, n, l), off % BLOCK_SIZE)
      BY <1>2 DEF stored_unit, read_block, Entry, Ent, DataAt, IsDirect, IsIndirect, InIndirect, Outer,
                  Inner, InDindirect, NR_INDIRECT_BLOCKS
    <3> QED BY <3>2, <3>3
  <2> HIDE DEF R
  <2> QED BY <2>1 DEF crash
<1>7. wr \in [Inode -> SUBSET Offset] OBVIOUS
<1>8. Copies' = dev.dinode BY <1>2, <1>4 DEF Copies, Copy
<1>9. crashes \in Nat /\ MaxCrashes \in Nat BY CrashTypes
<1>10. Sound(dev.freemap, dev.used, dev.inodes, dev.disk, dev.dinode, dev.named, wr, crashes + 1)
  <2>1. ASSUME NEW f \in dev.named, NEW off \in Offset
        PROVE  R(f, off) = IF off \in wr[f] THEN Data(f) ELSE 0
    <3>1. R(f, off) \in {0, Data(f)} BY <1>5 DEF Safe
    <3>2. f \in Inode BY <1>4
    <3>3. off \in wr[f] <=> R(f, off) = Data(f) BY <3>2
    <3> QED BY <3>1, <3>3
  <2> HIDE DEF wr
  <2> QED BY <1>5, <2>1 DEF Sound, Safe
<1> DEFINE kp == [f \in Inode |-> {off \in wr[f] : off < dev.dinode[f].i_size}]
<1>3. kept' = kp BY <1>2, <1>6
<1>17. /\ kp \in [Inode -> SUBSET Offset] /\ Covers(dev.named, wr, dev.dinode, kp)
       /\ \A f \in Inode : \A u \in kp[f] : u \in wr[f] /\ u < dev.dinode[f].i_size
  <2>1. \A f \in Inode : kp[f] \subseteq wr[f] /\ kp[f] \subseteq Offset OBVIOUS
  <2> HIDE DEF wr
  <2>2. kp \in [Inode -> SUBSET Offset] BY <2>1
  <2> QED BY <1>4, <2>2 DEF Covers
<1> HIDE DEF wr, kp
<1>11. ViewOK' BY <1>2, <1>6, <1>8, <1>10 DEF ViewOK
<1>12. View' = dev BY <1>2, <1>4 DEF View, Dev
<1>13. DeviceOK'
  <2>2. crashes + 1 \in Nat BY <1>9
  <2>3. dev \in Good(kp, crashes + 1) BY <1>4, <1>10, <1>17, <2>2, SoundGood
  <2>4. Runs(dev, <<>>, Good(kp, crashes + 1), dev) BY <2>3, RunNone
  <2>5. Runs(dev', pending', Good(synced', crashes'), View') BY <1>2, <1>3, <1>12, <2>4
  <2> QED BY <2>5 DEF DeviceOK
<1>14. CrashTypeOK'
  <2>1. 1 \in Inode /\ 0 \in Offset BY FileBlocksAssumption, Sizes DEF Inode, Offset
  <2>2. TypeOK' BY <1>2, <1>3, <1>4, <1>6, <1>7, <1>17, <2>1, ZeroedType DEF TypeOK, Disks
  <2>3. synced' \in [Inode -> SUBSET Offset] BY <1>2, <1>3, <1>17
  <2>4. crashes' \in 0 .. MaxCrashes BY <1>2, <1>9
  <2>5. stale' \in BOOLEAN BY <1>2 DEF CInv, CrashTypeOK
  <2> QED BY <2>2, <2>3, <2>4, <2>5 DEF CrashTypeOK
<1>15. WritingNamed' BY <1>2 DEF WritingNamed
<1>16. HistoryOK'
  <2>1. \A f \in Inode \ dev.named : wr[f] = {} BY DEF wr
  <2>2. \A f \in Inode \ dev.named : kp[f] = {} BY <1>17, <2>1
  <2> QED BY <1>2, <1>3, <1>6, <1>17, <2>1, <2>2 DEF HistoryOK
<1>18. KeptReadable'
  <2>1. \A f : Copy(f)' = dev.dinode[f] BY <1>2 DEF Copy
  <2>2. \A f \in Inode : Kept(f)' BY <1>3, <1>6, <1>17, <2>1 DEF Kept
  <2>3. pc' # "write" BY <1>2
  <2> QED BY <2>2, <2>3 DEF KeptReadable, Inode
<1> QED BY <1>11, <1>13, <1>14, <1>15, <1>16, <1>18 DEF CInv

LEMMA CrashStarts ==
    ASSUME CrashInit
    PROVE  CInv
<1>1. FInv BY FilesInit DEF CrashInit
<1>2. /\ freemap = {} /\ used = 0 /\ inodes = {} /\ pc = "idle" /\ dinode = [f \in Inode |-> Zeroed]
      /\ disk = [b \in Block |-> ZeroBlock] /\ written = [f \in Inode |-> {}]
      /\ kept = written /\ named = {} /\ pending = <<>> /\ synced = kept /\ dev = View /\ crashes = 0 /\ stale = FALSE
  BY DEF CrashInit, Init
<1>3. TypeOK BY <1>1 DEF FInv
<1>4. CrashTypeOK
  <2>1. synced \in [Inode -> SUBSET Offset] BY <1>2, <1>3 DEF TypeOK
  <2>2. crashes \in 0 .. MaxCrashes BY <1>2, FileCrashAssumption
  <2>3. stale \in BOOLEAN BY <1>2
  <2> QED BY <1>3, <2>1, <2>2, <2>3 DEF CrashTypeOK
<1>5. Copies = dinode BY <1>2 DEF Copies, Copy
<1>6. Sound(freemap, used, inodes, disk, dinode, named, written, crashes)
  <2>1. Placed(named, freemap, disk, dinode) BY <1>2 DEF Placed
  <2>2. Zeros(freemap, disk) BY <1>2 DEF Zeros
  <2>3. Cardinality(freemap) = 0 BY <1>2, FS_EmptySet
  <2>4. Owned(named, disk, dinode) = {} BY <1>2 DEF Owned
  <2>5. Cardinality(Owned(named, disk, dinode)) = 0 BY <2>4, FS_EmptySet
  <2>6. Drift(freemap, used, crashes) BY <1>2, <2>3 DEF Drift
  <2>7. Cardinality(Owned(named, disk, dinode)) <= used BY <1>2, <2>5
  <2>8. named \subseteq inodes /\ named = {} BY <1>2
  <2> QED BY <2>1, <2>2, <2>6, <2>7, <2>8 DEF Sound
<1>7. ViewOK BY <1>5, <1>6 DEF ViewOK
<1>8. View = Dev(freemap, used, inodes, disk, dinode, named) BY DEF View, Dev
<1>9. View \in Good(synced, crashes)
  <2>1. /\ freemap \in SUBSET Block /\ used \in 0 .. MaxFsBlocks /\ inodes \in SUBSET Inode
        /\ disk \in Disks /\ dinode \in [Inode -> Dinodes]
    BY <1>3 DEF TypeOK, Disks
  <2>2. crashes \in Nat /\ Covers(named, written, dinode, synced) BY <1>2 DEF Covers
  <2> QED BY <1>6, <1>8, <2>1, <2>2, SoundGood
<1>10. DeviceOK BY <1>2, <1>9, RunNone DEF DeviceOK
<1>11. WritingNamed /\ HistoryOK BY <1>2 DEF WritingNamed, HistoryOK, Covers
<1>12. KeptReadable BY <1>2 DEF KeptReadable, Kept
<1> QED BY <1>4, <1>7, <1>10, <1>11, <1>12 DEF CInv

-----------------------------------------------------------------------------
(* The end of a write *)

LEMMA GrownType ==
    ASSUME CInv, pc = "write"
    PROVE  Grown \in Dinodes /\ SameRoots(in, Grown) /\ in.i_size <= Grown.i_size
<1>1. in \in Dinodes /\ pos \in Nat /\ pos <= MAX_FILE_SIZE
  BY DEF CInv, CrashTypeOK, TypeOK, WritingNamed
<1> DEFINE z == IF pos > start /\ pos > in.i_size THEN pos ELSE in.i_size
<1>2. Grown = [in EXCEPT !.i_size = z] BY DEF Grown
<1>3. in.i_size \in 0 .. MAX_FILE_SIZE BY <1>1 DEF Dinodes
<1>4. z \in 0 .. MAX_FILE_SIZE /\ in.i_size <= z BY <1>1, <1>3, Sizes
<1> HIDE DEF z
<1>5. Grown \in Dinodes BY <1>1, <1>2, <1>4 DEF Dinodes
<1>6. SameRoots(in, Grown) /\ Grown.i_size = z BY <1>1, <1>2 DEF Dinodes, SameRoots
<1> QED BY <1>4, <1>5, <1>6

\* testfs_sync_inode makes the inode on disk the one in memory.
LEMMA SyncRun ==
    ASSUME CInv, pc = "write", NEW isd \in BOOLEAN, dirty => isd, sync_and_put(Grown, isd),
           View \in Good(synced, crashes),
           freemap' = freemap, used' = used, inodes' = inodes, disk' = disk, written' = written,
           named' = named, crashes' = crashes, Keeps(isd)
    PROVE  /\ ViewOK' /\ TypeOK' /\ pc' = "idle" /\ KeptReadable'
           /\ Covers(named, written, dinode', synced)
           /\ Runs(View, sync_writes(isd), Good(synced, crashes), View')
<1>1. /\ dinode' = (IF isd THEN [dinode EXCEPT ![nr] = Grown] ELSE dinode) /\ pc' = "idle"
      /\ in' = Zeroed /\ dirty' = FALSE /\ nr' = 1 /\ start' = 0 /\ pos' = 0 /\ end' = 0
  BY DEF sync_and_put
<1>2. /\ freemap \in SUBSET Block /\ used \in 0 .. MaxFsBlocks
      /\ inodes \in SUBSET Inode /\ disk \in Disks /\ dinode \in [Inode -> Dinodes]
      /\ named \in SUBSET Inode /\ crashes \in Nat /\ \A f \in Inode : Copies[f] = Copy(f)
      /\ View = Dev(freemap, used, inodes, disk, dinode, named)
  BY CrashTypes
<1>3. /\ nr \in Inode /\ (~dirty => in = dinode[nr]) /\ Covers(named, written, dinode, synced)
      /\ in.i_size = dinode[nr].i_size /\ TypeOK /\ synced \in [Inode -> SUBSET Offset] /\ in \in Dinodes
  BY DEF CInv, CrashTypeOK, TypeOK, WritingNamed, HistoryOK
<1>4. Grown \in Dinodes /\ SameRoots(in, Grown) /\ in.i_size <= Grown.i_size BY GrownType
<1>5. dinode' \in [Inode -> Dinodes] BY <1>1, <1>2, <1>3, <1>4
<1>6. ASSUME NEW f \in Inode PROVE SameRoots(Copies[f], dinode'[f])
  <2>1. CASE f = nr
    <3>1. Copies[f] = in BY <1>2, <2>1 DEF Copy
    <3>2. dinode'[f] = IF isd THEN Grown ELSE dinode[nr] BY <1>1, <1>2, <1>3, <2>1
    <3>3. ~isd => dinode[nr] = in BY <1>3
    <3> QED BY <1>4, <3>1, <3>2, <3>3 DEF SameRoots
  <2>2. CASE f # nr
    <3>1. Copies[f] = dinode[f] /\ dinode'[f] = dinode[f] BY <1>1, <1>2, <1>3, <2>2 DEF Copy
    <3> QED BY <3>1 DEF SameRoots
  <2> QED BY <2>1, <2>2
<1>15. Covers(named, written, dinode', synced)
  <2> SUFFICES ASSUME NEW f \in named, NEW u \in synced[f] PROVE u \in written[f] /\ u < dinode'[f].i_size
    BY DEF Covers
  <2>1. u \in written[f] /\ u < dinode[f].i_size BY <1>3 DEF Covers
  <2>2. u \in Nat /\ f \in Inode BY <1>2, <1>3, Sizes DEF Offset
  <2>3. CASE f = nr /\ isd
    <3> DEFINE G == Grown
    <3>1. dinode'[f] = G BY <1>1, <1>2, <1>3, <2>3
    <3>2. G.i_size \in Nat /\ in.i_size \in Nat BY <1>3, <1>4, Sizes DEF Dinodes
    <3> HIDE DEF G
    <3>3. u < in.i_size BY <1>3, <2>1, <2>3
    <3>4. in.i_size <= G.i_size BY <1>4 DEF G
    <3> QED BY <2>1, <2>2, <3>1, <3>2, <3>3, <3>4
  <2>4. CASE ~(f = nr /\ isd)
    <3>1. dinode'[f] = dinode[f] BY <1>1, <1>2, <2>2, <2>4
    <3> QED BY <2>1, <3>1
  <2> QED BY <2>3, <2>4
<1>7. Sound(freemap, used, inodes, disk, Copies, named, written, crashes) BY DEF CInv, ViewOK
<1>8. Sound(freemap, used, inodes, disk, dinode', named, written, crashes)
  <2>1. Placed(named, freemap, disk, Copies) BY <1>7 DEF Sound
  <2>2. \A f \in named : SameRoots(Copies[f], dinode'[f]) BY <1>2, <1>6
  <2>3. \A b \in Owned(named, disk, Copies) : disk[b] = disk[b] OBVIOUS
  <2>4. Owned(named, disk, Copies) \subseteq freemap
    <3>1. 0 \notin Block BY FileBlocksAssumption DEF Block
    <3> QED BY <2>1, <3>1 DEF Owned, Placed
  <2> DEFINE j == dinode'
  <2>5. \A f \in named : SameRoots(Copies[f], j[f]) BY <2>2
  <2> HIDE DEF j
  <2>6. /\ \A f \in named, off \in Offset : Reads(disk, j[f], off) = Reads(disk, Copies[f], off)
        /\ Owned(named, disk, j) = Owned(named, disk, Copies)
        /\ Placed(named, freemap, disk, j)
    BY ONLY <2>1, <2>3, <2>4, <2>5, SameTrees
  <2>7. Sound(freemap, used, inodes, disk, j, named, written, crashes) BY <1>7, <2>6 DEF Sound
  <2> QED BY <2>7 DEF j
<1>9. Copies' = dinode' BY <1>1, <1>5 DEF Copies, Copy
<1>10. ViewOK' BY <1>8, <1>9 DEF ViewOK
<1>11. View' = Dev(freemap, used, inodes, disk, dinode', named) BY DEF View, Dev
<1>12. View' \in Good(synced, crashes)
  <2> DEFINE j == dinode'
  <2>1. /\ j \in [Inode -> Dinodes] /\ Sound(freemap, used, inodes, disk, j, named, written, crashes)
        /\ Covers(named, written, j, synced)
    BY <1>5, <1>8, <1>15
  <2> HIDE DEF j
  <2>2. Dev(freemap, used, inodes, disk, j, named) \in Good(synced, crashes)
    BY <1>2, <2>1, SoundGood
  <2> QED BY <1>11, <2>2 DEF j
<1>13. Runs(View, sync_writes(isd), Good(synced, crashes), View')
  <2>1. CASE isd
    <3>1. nr # 0 BY <1>3, FileBlocksAssumption DEF Inode
    <3>5. write_blocks(Dev(freemap, used, inodes, disk, dinode, named), WAt("dinode", nr, Grown))
            = Dev(freemap, used, inodes, disk, [dinode EXCEPT ![nr] = Grown], named)
      BY ONLY <3>1, WriteInode
    <3>2. write_blocks(View, WAt("dinode", nr, Grown))
            = Dev(freemap, used, inodes, disk, [dinode EXCEPT ![nr] = Grown], named)
      BY <1>2, <3>5
    <3>3. write_blocks(View, WAt("dinode", nr, Grown)) = View' BY <1>1, <1>11, <2>1, <3>2
    <3>4. sync_writes(isd) = <<WAt("dinode", nr, Grown)>> BY <2>1 DEF sync_writes
    <3> QED BY <1>12, <3>3, <3>4, RunOne
  <2>2. CASE ~isd
    <3>1. View' = View BY <1>1, <1>2, <1>11, <2>2
    <3>2. sync_writes(isd) = <<>> BY <2>2 DEF sync_writes
    <3> QED BY <3>1, <3>2, RunNone
  <2> QED BY <2>1, <2>2
<1>14. TypeOK'
  <2>1. 1 \in Inode /\ 0 \in Offset BY FileBlocksAssumption, Sizes DEF Inode, Offset
  <2>2. kept' \in [Inode -> SUBSET Offset] BY <1>3, KeepsType
  <2> QED BY <1>1, <1>3, <1>5, <2>1, <2>2, ZeroedType DEF TypeOK
<1>16. KeptReadable' BY <1>3, KeptSync DEF CInv
<1> QED BY <1>1, <1>10, <1>13, <1>14, <1>15, <1>16

LEMMA CrashSync ==
    ASSUME CInv, pc = "write", NEW isd \in BOOLEAN, dirty => isd, sync_and_put(Grown, isd),
           freemap' = freemap, used' = used, inodes' = inodes, disk' = disk, written' = written,
           named' = named, dev = View, NEW ws, Runs(View, ws, Good(synced, crashes), View),
           Does(ws \o sync_writes(isd)), Keeps(isd)
    PROVE  CInv'
<1>1. /\ synced' = synced /\ crashes' = crashes /\ stale' = stale /\ Issues(ws \o sync_writes(isd))
      /\ pending' = ws \o sync_writes(isd)
  BY DEF Does, Issues
<1>2. View \in Good(synced, crashes) BY RunEnds
<1>3. /\ ViewOK' /\ TypeOK' /\ pc' = "idle" /\ KeptReadable'
      /\ Covers(named, written, dinode', synced)
      /\ Runs(View, sync_writes(isd), Good(synced, crashes), View')
  BY <1>1, <1>2, SyncRun
<1>4. Runs(View, ws \o sync_writes(isd), Good(synced, crashes), View') BY <1>3, RunJoin
<1>5. DeviceOK' BY <1>1, <1>4, CrashDoes
<1>6. CrashTypeOK' BY <1>1, <1>3 DEF CInv, CrashTypeOK
<1>7. WritingNamed' BY <1>3 DEF WritingNamed
<1>8. HistoryOK' BY <1>1, <1>3 DEF CInv, HistoryOK
<1> QED BY <1>3, <1>5, <1>6, <1>7, <1>8 DEF CInv

\* The pointer blocks that testfs_allocate_block gets before it fails.
LEMMA NextBlocksAre ==
    ASSUME TypeOK, Available \in 0 .. 2
    PROVE  LET s == NextBlocks(Available) IN
           /\ s \in Seq(Block) /\ Len(s) = Available
           /\ \A i \in 1 .. Len(s) : s[i] \notin freemap
           /\ \A i, j \in 1 .. Len(s) : s[i] = s[j] => i = j
<1> DEFINE k == Available
           b == bitmap_alloc(freemap)
           m == freemap \cup {b}
           e == bitmap_alloc(m)
<1>1. k \in 0 .. 2 /\ Cardinality(freemap) \in Nat /\ Cardinality(freemap) + k <= DeviceBlocks /\ DeviceBlocks \in Nat
  BY Room
<1>2. NextBlocks(k) = IF k = 0 THEN <<>> ELSE IF k = 1 THEN <<b>> ELSE <<b, e>> BY DEF NextBlocks
<1>3. k # 0 => b \in Block /\ b \notin freemap
  <2> freemap \subseteq Block BY DEF TypeOK
  <2>1. k # 0 => Cardinality(freemap) < DeviceBlocks
    <3> HIDE DEF k
    <3> QED BY <1>1
  <2> QED BY <2>1, AllocFinds
<1>4. k = 2 => e \in Block /\ e \notin freemap /\ e # b
  <2> HIDE DEF b, e
  <2> SUFFICES ASSUME k = 2 PROVE e \in Block /\ e \notin freemap /\ e # b OBVIOUS
  <2> freemap \subseteq Block BY DEF TypeOK
  <2>1. m \subseteq Block /\ Cardinality(m) = Cardinality(freemap) + 1 BY <1>3, AddOne
  <2>2. Cardinality(m) < DeviceBlocks
    <3> HIDE DEF k, m
    <3> QED BY <1>1, <2>1
  <2>3. e \in Block /\ e \notin m
    <3> HIDE DEF m
    <3> QED BY <2>1, <2>2, AllocFinds DEF e
  <2> QED BY <2>3
<1> HIDE DEF k, b, m, e
<1> DEFINE s == NextBlocks(k)
<1>5. CASE k = 0
  <2>1. s = <<>> BY <1>2, <1>5
  <2> HIDE DEF s
  <2>2. s \in Seq(Block) /\ Len(s) = k BY <1>5, <2>1
  <2>3. 1 .. Len(s) = {} BY <1>5, <2>2
  <2> QED BY <2>2, <2>3 DEF s, k
<1>6. CASE k = 1
  <2>1. s = <<b>> BY <1>2, <1>6
  <2> HIDE DEF s
  <2>2. s \in Seq(Block) /\ Len(s) = k /\ s[1] = b BY <1>3, <1>6, <2>1
  <2>3. \A i \in 1 .. Len(s) : i = 1 BY <1>6, <2>2
  <2> QED BY <1>3, <1>6, <2>2, <2>3 DEF s, k
<1>7. CASE k = 2
  <2>1. s = <<b, e>> BY <1>2, <1>7
  <2> HIDE DEF s
  <2>2. s \in Seq(Block) /\ Len(s) = k /\ s[1] = b /\ s[2] = e BY <1>3, <1>4, <1>7, <2>1
  <2>3. \A i \in 1 .. Len(s) : i = 1 \/ i = 2 BY <1>7, <2>2
  <2>4. \A i \in 1 .. Len(s) : s[i] \notin freemap BY <1>3, <1>4, <1>7, <2>2, <2>3
  <2>5. \A i, j \in 1 .. Len(s) : s[i] = s[j] => i = j BY <1>4, <1>7, <2>2, <2>3
  <2> QED BY <2>2, <2>4, <2>5 DEF s, k
<1> QED BY <1>1, <1>5, <1>6, <1>7

\* Marking blocks and freeing them again, in reverse, leaves the device as it was.
LEMMA RollBack ==
    ASSUME CInv, View \in Good(synced, crashes), NEW s \in Seq(Block), Len(s) <= Available,
           \A i \in 1 .. Len(s) : s[i] \notin freemap,
           \A i, j \in 1 .. Len(s) : s[i] = s[j] => i = j
    PROVE  Runs(View,
                alloc_writes(freemap, used, s)
                  \o free_writes(freemap \cup ToSet(s), used + Len(s), Reverse(s)),
                Good(synced, crashes), View)
<1> DEFINE L == Len(s)
           r == Reverse(s)
           m == freemap \cup Take(s, L)
           u == used + L
           G == Good(synced, crashes)
           d == Dev(m, u, inodes, disk, dinode, named)
<1>1. /\ freemap \in SUBSET Block /\ used \in 0 .. MaxFsBlocks /\ used \in Nat
      /\ inodes \in SUBSET Inode /\ disk \in Disks /\ dinode \in [Inode -> Dinodes]
      /\ named \in SUBSET Inode /\ crashes \in Nat
      /\ View = Dev(freemap, used, inodes, disk, dinode, named)
  BY CrashTypes
<1>2. L \in Nat /\ u \in 0 .. MaxFsBlocks /\ used + Len(s) <= MaxFsBlocks
  BY <1>1, Room DEF CInv, CrashTypeOK
<1>3. Drift(freemap, used, crashes) BY DEF CInv, ViewOK, Sound
<1>4. Runs(View, alloc_writes(freemap, used, s), G, d) /\ Cardinality(m) = Cardinality(freemap) + L
  <2>1. Dev(freemap, used, inodes, disk, dinode, named) \in Good(synced, crashes) BY <1>1
  <2>3. Cardinality(freemap \cup Take(s, Len(s))) = Cardinality(freemap) + Len(s)
    BY <1>1, <1>2, MarkedSize
  <2>2. Runs(Dev(freemap, used, inodes, disk, dinode, named), alloc_writes(freemap, used, s),
             Good(synced, crashes),
             Dev(freemap \cup Take(s, Len(s)), used + Len(s), inodes, disk, dinode, named))
    <3>1. /\ s \in Seq(Block) /\ (\A i \in 1 .. Len(s) : s[i] \notin freemap)
          /\ \A i, j \in 1 .. Len(s) : s[i] = s[j] => i = j
      OBVIOUS
    <3> QED BY ONLY <1>1, <1>2, <1>3, <2>1, <3>1, AllocSafe
  <2> QED BY <1>1, <2>2, <2>3
<1>5. d \in G BY <1>4, RunEnds
<1>6. Cardinality(freemap) \in Nat /\ 0 \notin Block
  <2>1. 0 \notin Block BY FileBlocksAssumption DEF Block
  <2> QED BY <1>1, <2>1, BlockSets
<1>7. m \in SUBSET Block BY <1>1 DEF Take
<1>8. Drift(m, u, crashes) BY <1>1, <1>2, <1>3, <1>4, <1>6 DEF Drift
<1>9. /\ r \in Seq(Block) /\ Len(r) = L /\ \A i \in 1 .. L : r[i] = s[(L - i) + 1]
  BY DEF Reverse
<1>10. ToSet(s) = Take(s, L)
  <2>1. DOMAIN s = 1 .. L OBVIOUS
  <2> QED BY <2>1 DEF ToSet, Take
<1> HIDE DEF r
<1>11. \A i \in 1 .. L : (L - i) + 1 \in 1 .. L BY <1>2
<1>12. Take(r, L) = Take(s, L)
  <2>1. \A x \in Take(r, L) : x \in Take(s, L) BY <1>9, <1>11, SMTT(30) DEF Take
  <2>2. ASSUME NEW x \in Take(s, L) PROVE x \in Take(r, L)
    <3>1. PICK j \in 1 .. L : x = s[j] BY DEF Take
    <3>2. (L - j) + 1 \in 1 .. L /\ (L - ((L - j) + 1)) + 1 = j BY <1>2
    <3>3. r[(L - j) + 1] = x BY <1>9, <3>1, <3>2
    <3> QED BY <3>2, <3>3 DEF Take
  <2> QED BY <2>1, <2>2
<1>13. Placed(named, freemap, disk, dinode) /\ Cardinality(Owned(named, disk, dinode)) <= used
       /\ Zeros(freemap, disk)
  BY <1>1, DevParts DEF Good, Safe
<1>14. Owned(named, disk, dinode) \subseteq freemap BY <1>6, <1>13 DEF Owned, Placed
<1>15. \A i \in 1 .. Len(r) : r[i] # 0 => r[i] \in m /\ r[i] \notin Owned(named, disk, dinode)
  <2> SUFFICES ASSUME NEW i \in 1 .. L PROVE r[i] \in m /\ r[i] \notin Owned(named, disk, dinode) BY <1>9
  <2>1. r[i] = s[(L - i) + 1] /\ (L - i) + 1 \in 1 .. L BY <1>9, <1>11
  <2> QED BY <1>14, <2>1 DEF Take
<1>16. \A i, j \in 1 .. Len(r) : r[i] # 0 /\ r[i] = r[j] => i = j
  <2> SUFFICES ASSUME NEW i \in 1 .. L, NEW j \in 1 .. L, r[i] = r[j] PROVE i = j BY <1>9
  <2>1. s[(L - i) + 1] = s[(L - j) + 1] BY <1>9
  <2>2. (L - i) + 1 = (L - j) + 1 BY <1>11, <2>1
  <2> QED BY <1>2, <2>2
<1>17. r \in Seq(Ptr) BY <1>9 DEF Ptr
<1>18. m \ Take(r, L) = freemap
  <2>1. \A x \in Take(s, L) : x \notin freemap BY DEF Take
  <2> QED BY <1>12, <2>1
<1>19. CountTo(r, L) = L
  <2> DEFINE A == m \ Take(r, L)
             k == CountTo(r, L)
  <2>1. L \in 0 .. Len(r) BY <1>2, <1>9
  <2>2. Cardinality(A) = Cardinality(m) - k BY <1>7, <1>15, <1>16, <1>17, <2>1, FreedSize
  <2>3. A = freemap BY <1>18
  <2>4. Cardinality(A) = Cardinality(freemap) BY <2>3
  <2>5. k \in Nat BY <1>2, CountNext
  <2> HIDE DEF A, k, m
  <2>6. k = L BY <1>2, <1>4, <1>6, <2>2, <2>4, <2>5
  <2> QED BY <2>6 DEF k
<1>20. Cardinality(Owned(named, disk, dinode)) + CountTo(r, Len(r)) <= u
  <2>1. Owned(named, disk, dinode) \subseteq Block BY DEF Owned
  <2>2. Cardinality(Owned(named, disk, dinode)) \in Nat BY <2>1, BlockSets
  <2> QED BY <1>1, <1>2, <1>9, <1>13, <1>19, <2>2
<1>21. Zeroing(disk, Take(r, L)) = disk
  <2>1. \A x \in Take(s, L) : x \in Block \ freemap
    <3>1. \A i \in 1 .. L : s[i] \in Block OBVIOUS
    <3> QED BY <3>1 DEF Take
  <2>3. \A x \in Take(r, L) : x \in Block \ freemap BY <1>12, <2>1
  <2>2. \A x \in Take(r, L) : disk[x] = ZeroBlock BY <1>13, <2>3 DEF Zeros
  <2> QED BY <1>1, <2>2 DEF Zeroing, Disks
<1> HIDE DEF m, L, u, G
<1>22. Runs(d, free_writes(m, u, r), Good(synced, crashes),
            Dev(m \ Take(r, Len(r)), u - CountTo(r, Len(r)), inodes,
                Zeroing(disk, Take(r, Len(r))), dinode, named))
  BY <1>1, <1>2, <1>5, <1>7, <1>8, <1>15, <1>16, <1>17, <1>20, FreeSafe DEF G
<1>23. u - CountTo(r, Len(r)) = used BY <1>1, <1>2, <1>9, <1>19 DEF u
<1>24. Runs(d, free_writes(m, u, r), G, View)
  BY <1>1, <1>9, <1>18, <1>21, <1>22, <1>23 DEF G
<1> HIDE DEF d
<1>25. Runs(View, alloc_writes(freemap, used, s) \o free_writes(m, u, r), G, View)
  BY ONLY <1>4, <1>24, RunJoin
<1> QED BY <1>10, <1>25 DEF m, u, r, L, G

LEMMA CrashWriteEnd ==
    ASSUME CInv, write_end
    PROVE  CInv'
<1>1. named' = named BY DEF write_end
<1>2. pending = <<>> /\ pc = "write"
  BY DEF write_end, write_done, write_too_big, write_no_space, InWrite, Does, Issues
<1>3. dev = View /\ View \in Good(synced, crashes) BY <1>2, CrashReady
<1>4. Runs(View, <<>>, Good(synced, crashes), View) BY <1>3, RunNone
<1>5. \A b : <<>> \o sync_writes(b) = sync_writes(b)
  <2> SUFFICES ASSUME NEW b PROVE <<>> \o sync_writes(b) = sync_writes(b) OBVIOUS
  <2> DEFINE w == WAt("dinode", nr, Grown)
  <2>1. <<>> \o <<w>> = <<w>> /\ <<>> \o <<>> = <<>>
    <3> HIDE DEF w
    <3> QED OBVIOUS
  <2> QED BY <2>1 DEF sync_writes
<1>6. dirty \in BOOLEAN BY DEF CInv, CrashTypeOK, TypeOK
<1>7. CASE write_done /\ Does(sync_writes(TRUE))
  <2>1. /\ sync_and_put(Grown, TRUE) /\ Keeps(TRUE)
        /\ freemap' = freemap /\ used' = used /\ inodes' = inodes /\ disk' = disk /\ written' = written
    BY <1>7 DEF write_done
  <2>2. Does(<<>> \o sync_writes(TRUE)) BY <1>5, <1>7
  <2> QED BY <1>1, <1>2, <1>3, <1>4, <2>1, <2>2, CrashSync
<1>8. CASE write_too_big /\ Does(sync_writes(dirty))
  <2>1. /\ sync_and_put(Grown, dirty) /\ Keeps(dirty)
        /\ freemap' = freemap /\ used' = used /\ inodes' = inodes /\ disk' = disk /\ written' = written
    BY <1>8 DEF write_too_big
  <2>2. Does(<<>> \o sync_writes(dirty)) BY <1>5, <1>8
  <2> QED BY <1>1, <1>2, <1>3, <1>4, <1>6, <2>1, <2>2, CrashSync
<1> DEFINE s == NextBlocks(Available)
           ws == alloc_writes(freemap, used, s)
                   \o free_writes(freemap \cup ToSet(s), used + Len(s), Reverse(s))
           isd == dirty \/ Available > 0
<1>9. CASE write_no_space /\ Does(ws \o sync_writes(isd))
  <2>1. /\ sync_and_put(Grown, isd) /\ Keeps(isd) /\ Available <= MissingPointers
        /\ freemap' = freemap /\ used' = used /\ inodes' = inodes /\ written' = written
    BY <1>9 DEF write_no_space
  <2>2. disk' = disk
    <3>1. Zeros(freemap, disk) BY DEF CInv, ViewOK, Sound
    <3>2. disk \in [Block -> [Unit -> Ptr \cup Inode]] BY DEF CInv, CrashTypeOK, TypeOK
    <3>3. PICK Y : Y \subseteq Block \ freemap /\ disk' = [b \in Block |-> IF b \in Y THEN ZeroBlock ELSE disk[b]]
      <4> DEFINE lower(b) == {c \in Block \ freemap : c < b}
                 Y == {b \in Block \ freemap : Cardinality(lower(b)) < Available}
      <4>1. disk' = [b \in Block |-> IF b \in Y THEN ZeroBlock ELSE disk[b]] BY <1>9 DEF write_no_space
      <4>2. Y \subseteq Block \ freemap OBVIOUS
      <4> HIDE DEF Y
      <4> QED BY <4>1, <4>2
    <3>4. \A b \in Y : disk[b] = ZeroBlock BY <3>1, <3>3 DEF Zeros
    <3> QED BY <3>2, <3>3, <3>4
  <2>4. TypeOK BY DEF CInv, CrashTypeOK
  <2>5. Available \in 0 .. 2
    <3>1. MissingPointers \in 0 .. 2 BY DEF MissingPointers
    <3>2. Available \in Nat BY <2>4, Room
    <3> QED BY <2>1, <3>1, <3>2
  <2>6. /\ s \in Seq(Block) /\ Len(s) = Available
        /\ \A i \in 1 .. Len(s) : s[i] \notin freemap
        /\ \A i, j \in 1 .. Len(s) : s[i] = s[j] => i = j
    BY <2>4, <2>5, NextBlocksAre
  <2>7. Len(s) <= Available BY <2>5, <2>6
  <2> HIDE DEF s
  <2>8. Runs(View, ws, Good(synced, crashes), View) BY <1>3, <2>6, <2>7, RollBack
  <2>9. isd \in BOOLEAN /\ (dirty => isd) OBVIOUS
  <2>10. Does(ws \o sync_writes(isd)) BY <1>9
  <2> HIDE DEF ws, isd
  <2> QED BY <1>1, <1>2, <1>3, <2>1, <2>2, <2>8, <2>9, <2>10, CrashSync
<1> QED BY <1>7, <1>8, <1>9 DEF write_end

-----------------------------------------------------------------------------
(* The order in which testfs_free_blocks frees *)

LEMMA DataRun ==
    ASSUME NEW a \in Nat, NEW k \in Nat, a + k <= MAX_BLOCK_NR
    PROVE  LET s == [i \in 1 .. k |-> <<"data", a + i - 1>>] IN
           /\ s \in Seq(Place) /\ IsInjective(s)
           /\ \A p : p \in Range(s) <=> \E l \in Log : a <= l /\ l < a + k /\ p = DataPlace(l)
<1> DEFINE s == [i \in 1 .. k |-> <<"data", a + i - 1>>]
<1>0. MAX_BLOCK_NR \in Nat BY Sizes
<1>1. \A i \in 1 .. k : a + i - 1 \in Log /\ a <= a + i - 1 /\ a + i - 1 < a + k BY <1>0 DEF Log
<1>2. \A i \in 1 .. k : s[i] = DataPlace(a + i - 1) BY DEF DataPlace
<1>3. \A i \in 1 .. k : s[i] \in Place BY <1>1, <1>2, PlaceKinds
<1>4. s = [i \in 1 .. k |-> s[i]] OBVIOUS
<1> HIDE DEF s
<1>5. s \in Seq(Place) /\ DOMAIN s = 1 .. k BY <1>3, <1>4
<1>6. IsInjective(s)
  <2>1. ASSUME NEW i \in 1 .. k, NEW j \in 1 .. k, s[i] = s[j] PROVE i = j
    <3>1. a + i - 1 = a + j - 1 BY <1>2, <2>1, PlacesDiffer
    <3> QED BY <3>1
  <2> QED BY <1>5, <2>1 DEF IsInjective
<1>7. ASSUME NEW p \in Range(s) PROVE \E l \in Log : a <= l /\ l < a + k /\ p = DataPlace(l)
  <2>1. PICK i \in 1 .. k : p = s[i] BY <1>5 DEF Range
  <2> QED BY <1>1, <1>2, <2>1
<1>8. ASSUME NEW l \in Log, a <= l, l < a + k PROVE DataPlace(l) \in Range(s)
  <2>1. l \in Nat BY <1>0 DEF Log
  <2>2. (l - a) + 1 \in 1 .. k /\ a + ((l - a) + 1) - 1 = l BY <1>8, <2>1
  <2>3. s[(l - a) + 1] = DataPlace(l) BY <1>2, <2>2
  <2> QED BY <1>5, <2>2, <2>3 DEF Range
<1>9. \A p : p \in Range(s) <=> \E l \in Log : a <= l /\ l < a + k /\ p = DataPlace(l) BY <1>7, <1>8
<1> QED BY <1>5, <1>6, <1>9 DEF s

\* The part of the order that goes through the i-th block of the double indirect
\* block.
LEMMA InnerRun ==
    ASSUME NEW i \in 1 .. BLOCK_SIZE
    PROVE  LET s == Append([j \in 1 .. BLOCK_SIZE |-> <<"data", NR_DIRECT_BLOCKS + BLOCK_SIZE * i + j - 1>>],
                           <<"inner", i - 1>>)
           IN  /\ s \in Seq(Place) /\ IsInjective(s)
               /\ \A p : p \in Range(s) <=>
                    \/ p = InnerPlace(i - 1)
                    \/ \E l \in Log : /\ NR_DIRECT_BLOCKS + BLOCK_SIZE * i <= l
                                      /\ l < NR_DIRECT_BLOCKS + BLOCK_SIZE * i + BLOCK_SIZE
                                      /\ p = DataPlace(l)
<1> DEFINE a == NR_DIRECT_BLOCKS + BLOCK_SIZE * i
           t == [j \in 1 .. BLOCK_SIZE |-> <<"data", a + j - 1>>]
           x == InnerPlace(i - 1)
<1>1. BLOCK_SIZE * i \in Nat /\ BLOCK_SIZE * i <= BLOCK_SIZE * BLOCK_SIZE BY Sizes
<1>2. a \in Nat /\ a + BLOCK_SIZE <= MAX_BLOCK_NR BY <1>1, Sizes
<1> HIDE DEF a
<1>3. /\ t \in Seq(Place) /\ IsInjective(t)
      /\ \A p : p \in Range(t) <=> \E l \in Log : a <= l /\ l < a + BLOCK_SIZE /\ p = DataPlace(l)
  BY <1>2, DataRun, Sizes
<1> HIDE DEF t
<1>4. i - 1 \in Unit BY Sizes
<1>5. x \in Place BY <1>4, PlaceKinds
<1>6. x \notin Range(t) BY <1>3, PlacesDiffer
<1>7. /\ Append(t, x) \in Seq(Place) /\ Range(Append(t, x)) = Range(t) \cup {x} /\ IsInjective(Append(t, x))
  <2> HIDE DEF x
  <2> QED BY <1>3, <1>5, <1>6, AppendQueue
<1>8. \A p : p \in Range(Append(t, x)) <=> \/ p = x
                                           \/ \E l \in Log : a <= l /\ l < a + BLOCK_SIZE /\ p = DataPlace(l)
  BY <1>3, <1>7
<1>9. Append(t, x) = Append([j \in 1 .. BLOCK_SIZE |-> <<"data", NR_DIRECT_BLOCKS + BLOCK_SIZE * i + j - 1>>],
                            <<"inner", i - 1>>)
  BY DEF t, a, InnerPlace
<1> QED BY <1>7, <1>8, <1>9 DEF a

\* The order comes to every place once.
LEMMA FreePlacesAre ==
    /\ FreePlaces \in Seq(Place) /\ IsInjective(FreePlaces)
    /\ \A p \in Place : p \in Range(FreePlaces)
<1> DEFINE data(a, k) == [i \in 1 .. k |-> <<"data", a + i - 1>>]
           s1 == data(0, NR_DIRECT_BLOCKS)
           s2 == data(NR_DIRECT_BLOCKS, BLOCK_SIZE)
           in2 == Append(s2, IndirectPlace)
           part(i) == Append(data(NR_DIRECT_BLOCKS + BLOCK_SIZE * i, BLOCK_SIZE), <<"inner", i - 1>>)
           parts == [i \in 1 .. BLOCK_SIZE |-> part(i)]
           flat == FlattenSeq(parts)
           in3 == Append(flat, DindirectPlace)
<1>0. FreePlaces = s1 \o in2 \o in3
  BY DEF FreePlaces, NR_INDIRECT_BLOCKS, IndirectPlace, DindirectPlace
<1>1. BLOCK_SIZE \in Nat \ {0} /\ NR_DIRECT_BLOCKS \in Nat BY Sizes
<1>2. BLOCK_SIZE * BLOCK_SIZE \in Nat /\ NR_DIRECT_BLOCKS + BLOCK_SIZE <= MAX_BLOCK_NR
      /\ 0 + NR_DIRECT_BLOCKS <= MAX_BLOCK_NR /\ 0 + NR_DIRECT_BLOCKS = NR_DIRECT_BLOCKS /\ 0 \in Nat
  BY Sizes
<1>3. /\ s1 \in Seq(Place) /\ IsInjective(s1)
      /\ \A p : p \in Range(s1) <=> \E l \in Log : 0 <= l /\ l < 0 + NR_DIRECT_BLOCKS /\ p = DataPlace(l)
  BY <1>1, <1>2, DataRun
<1>4. /\ s2 \in Seq(Place) /\ IsInjective(s2)
      /\ \A p : p \in Range(s2) <=>
           \E l \in Log : NR_DIRECT_BLOCKS <= l /\ l < NR_DIRECT_BLOCKS + BLOCK_SIZE /\ p = DataPlace(l)
  BY <1>1, <1>2, DataRun
<1> DEFINE lo(i) == NR_DIRECT_BLOCKS + BLOCK_SIZE * i
<1>5. ASSUME NEW i \in 1 .. BLOCK_SIZE
      PROVE  /\ part(i) \in Seq(Place) /\ IsInjective(part(i))
             /\ \A p : p \in Range(part(i)) <=>
                  \/ p = InnerPlace(i - 1)
                  \/ \E l \in Log : lo(i) <= l /\ l < lo(i) + BLOCK_SIZE /\ p = DataPlace(l)
  BY InnerRun
<1>6. parts \in [1 .. BLOCK_SIZE -> Seq(Place)] /\ \A i \in 1 .. BLOCK_SIZE : parts[i] = part(i)
  <2> HIDE DEF part
  <2> QED BY <1>5
<1> HIDE DEF s1, s2, part, parts
\* Two parts are about different logical blocks.
<1>7. ASSUME NEW i \in 1 .. BLOCK_SIZE, NEW j \in 1 .. BLOCK_SIZE, i < j
      PROVE  Range(part(i)) \cap Range(part(j)) = {}
  <2>1. BLOCK_SIZE * i + BLOCK_SIZE <= BLOCK_SIZE * j /\ BLOCK_SIZE * i \in Nat /\ BLOCK_SIZE * j \in Nat
    <3>1. j - i >= 1 BY <1>7
    <3>2. BLOCK_SIZE * (j - i) >= BLOCK_SIZE BY <1>1, <3>1
    <3>3. BLOCK_SIZE * j = BLOCK_SIZE * i + BLOCK_SIZE * (j - i) BY <1>1
    <3> QED BY <1>1, <3>2, <3>3
  <2>2. lo(i) + BLOCK_SIZE <= lo(j) /\ lo(i) \in Nat /\ lo(j) \in Nat BY <1>1, <2>1
  <2> HIDE DEF lo
  <2> SUFFICES ASSUME NEW p \in Range(part(i)), p \in Range(part(j)) PROVE FALSE OBVIOUS
  <2>3. CASE p = InnerPlace(i - 1)
    <3>1. p = InnerPlace(j - 1) BY <1>5, <2>3, PlacesDiffer
    <3>2. i - 1 = j - 1 BY <2>3, <3>1, PlacesDiffer
    <3> QED BY <1>7, <3>2
  <2>4. CASE p # InnerPlace(i - 1)
    <3>1. PICK l \in Log : l < lo(i) + BLOCK_SIZE /\ p = DataPlace(l) BY <1>5, <2>4
    <3>2. PICK m \in Log : lo(j) <= m /\ p = DataPlace(m) BY <1>5, <3>1, PlacesDiffer
    <3>3. l = m BY <3>1, <3>2, PlacesDiffer
    <3>4. l \in Nat BY Sizes DEF Log
    <3> QED BY <1>1, <2>2, <3>1, <3>2, <3>3, <3>4
  <2> QED BY <2>3, <2>4
<1>8. \A i, j \in 1 .. BLOCK_SIZE : i # j => Range(parts[i]) \cap Range(parts[j]) = {}
  <2> SUFFICES ASSUME NEW i \in 1 .. BLOCK_SIZE, NEW j \in 1 .. BLOCK_SIZE, i # j
               PROVE  Range(parts[i]) \cap Range(parts[j]) = {}
    OBVIOUS
  <2>1. CASE i < j BY <1>6, <1>7, <2>1
  <2>2. CASE j < i BY <1>6, <1>7, <2>2
  <2> QED BY <2>1, <2>2
<1>9. /\ flat \in Seq(Place) /\ IsInjective(flat)
      /\ \A y : y \in Range(flat) <=> \E j \in 1 .. BLOCK_SIZE : y \in Range(parts[j])
  <2>1. BLOCK_SIZE \in Nat /\ \A i \in 1 .. BLOCK_SIZE : IsInjective(parts[i]) BY <1>1, <1>5, <1>6
  <2> QED BY ONLY <1>6, <1>8, <2>1, FlattenParts DEF flat
<1> HIDE DEF flat
<1>10. \A p : p \in Range(flat) <=>
          \/ \E i \in 1 .. BLOCK_SIZE : p = InnerPlace(i - 1)
          \/ \E l \in Log, i \in 1 .. BLOCK_SIZE : lo(i) <= l /\ l < lo(i) + BLOCK_SIZE /\ p = DataPlace(l)
  <2> HIDE DEF lo
  <2> QED BY <1>5, <1>6, <1>9
<1>11. \A i \in 1 .. BLOCK_SIZE : lo(i) >= NR_DIRECT_BLOCKS + BLOCK_SIZE /\ lo(i) \in Nat
  <2>1. ASSUME NEW i \in 1 .. BLOCK_SIZE PROVE BLOCK_SIZE * i >= BLOCK_SIZE /\ BLOCK_SIZE * i \in Nat BY <1>1
  <2> QED BY <1>1, <2>1
<1>12. /\ in2 \in Seq(Place) /\ Range(in2) = Range(s2) \cup {IndirectPlace} /\ IsInjective(in2)
  <2>1. IndirectPlace \in Place /\ IndirectPlace \notin Range(s2) BY <1>4, PlaceKinds, PlacesDiffer
  <2> QED BY <1>4, <2>1, AppendQueue
<1>13. /\ in3 \in Seq(Place) /\ Range(in3) = Range(flat) \cup {DindirectPlace} /\ IsInjective(in3)
  <2>1. DindirectPlace \in Place /\ DindirectPlace \notin Range(flat) BY <1>10, PlaceKinds, PlacesDiffer
  <2> QED BY <1>9, <2>1, AppendQueue
<1>14. \A l \in Log : l \in Nat BY Sizes DEF Log
<1> HIDE DEF lo, in2, in3
<1>15. Range(s1) \cap Range(in2) = {}
  <2> SUFFICES ASSUME NEW p \in Range(s1), p \in Range(in2) PROVE FALSE OBVIOUS
  <2>1. PICK l \in Log : l < NR_DIRECT_BLOCKS /\ p = DataPlace(l) BY <1>2, <1>3
  <2>2. p \in Range(s2) BY <1>12, <2>1, PlacesDiffer
  <2>3. PICK m \in Log : NR_DIRECT_BLOCKS <= m /\ p = DataPlace(m) BY <1>4, <2>2
  <2>4. l = m BY <2>1, <2>3, PlacesDiffer
  <2> QED BY <1>1, <1>14, <2>1, <2>3, <2>4
<1>16. /\ s1 \o in2 \in Seq(Place) /\ Range(s1 \o in2) = Range(s1) \cup Range(in2) /\ IsInjective(s1 \o in2)
  BY <1>3, <1>12, <1>15, ConcatQueue
<1>17. Range(s1 \o in2) \cap Range(in3) = {}
  <2> SUFFICES ASSUME NEW p \in Range(s1 \o in2), p \in Range(in3) PROVE FALSE OBVIOUS
  <2>1. p = IndirectPlace \/ \E l \in Log : l < NR_DIRECT_BLOCKS + BLOCK_SIZE /\ p = DataPlace(l)
    <3>1. CASE p \in Range(s1)
      <4>1. PICK l \in Log : l < NR_DIRECT_BLOCKS /\ p = DataPlace(l) BY <1>2, <1>3, <3>1
      <4>2. l < NR_DIRECT_BLOCKS + BLOCK_SIZE BY <1>1, <1>14, <4>1
      <4> QED BY <4>1, <4>2
    <3>2. CASE p \in Range(in2) BY <1>4, <1>12, <3>2
    <3> QED BY <1>16, <3>1, <3>2
  <2>2. \/ p = DindirectPlace \/ \E i \in 1 .. BLOCK_SIZE : p = InnerPlace(i - 1)
        \/ \E m \in Log : NR_DIRECT_BLOCKS + BLOCK_SIZE <= m /\ p = DataPlace(m)
    <3>1. CASE p = DindirectPlace BY <3>1
    <3>2. CASE \E i \in 1 .. BLOCK_SIZE : p = InnerPlace(i - 1) BY <3>2
    <3>3. CASE \E l \in Log, i \in 1 .. BLOCK_SIZE : lo(i) <= l /\ l < lo(i) + BLOCK_SIZE /\ p = DataPlace(l)
      <4>1. PICK l \in Log, i \in 1 .. BLOCK_SIZE : lo(i) <= l /\ p = DataPlace(l) BY <3>3
      <4>2. NR_DIRECT_BLOCKS + BLOCK_SIZE <= l BY <1>1, <1>11, <1>14, <4>1
      <4> QED BY <4>1, <4>2
    <3> QED BY <1>10, <1>13, <3>1, <3>2, <3>3
  <2>3. PICK l \in Log : l < NR_DIRECT_BLOCKS + BLOCK_SIZE /\ p = DataPlace(l) BY <2>1, <2>2, PlacesDiffer
  <2>4. PICK m \in Log : NR_DIRECT_BLOCKS + BLOCK_SIZE <= m /\ p = DataPlace(m) BY <2>2, <2>3, PlacesDiffer
  <2>5. l = m BY <2>3, <2>4, PlacesDiffer
  <2> QED BY <1>1, <1>14, <2>3, <2>4, <2>5
<1> DEFINE head == s1 \o in2
<1>18. /\ head \o in3 \in Seq(Place) /\ Range(head \o in3) = Range(head) \cup Range(in3) /\ IsInjective(head \o in3)
  <2>1. head \in Seq(Place) /\ IsInjective(head) /\ Range(head) \cap Range(in3) = {} BY <1>16, <1>17
  <2> HIDE DEF head
  <2> QED BY <1>13, <2>1, ConcatQueue
<1>19. ASSUME NEW p \in Place PROVE p \in Range(s1) \/ p \in Range(in2) \/ p \in Range(in3)
  <2>1. ASSUME NEW l \in Log, p = DataPlace(l) PROVE p \in Range(s1) \/ p \in Range(in2) \/ p \in Range(in3)
    <3>1. CASE l < NR_DIRECT_BLOCKS BY <1>2, <1>3, <1>14, <2>1, <3>1
    <3>2. CASE ~(l < NR_DIRECT_BLOCKS) /\ l < NR_DIRECT_BLOCKS + BLOCK_SIZE
      <4>1. NR_DIRECT_BLOCKS <= l BY <1>1, <1>14, <3>2
      <4> QED BY <1>4, <1>12, <2>1, <3>2, <4>1
    <3>3. CASE ~(l < NR_DIRECT_BLOCKS) /\ ~(l < NR_DIRECT_BLOCKS + BLOCK_SIZE)
      <4>1. ~IsDirect(l) /\ ~IsIndirect(l) BY <3>3 DEF IsDirect, IsIndirect, NR_INDIRECT_BLOCKS
      <4>2. /\ Outer(l) \in Unit /\ Inner(l) \in Unit
            /\ l = NR_DIRECT_BLOCKS + BLOCK_SIZE + BLOCK_SIZE * Outer(l) + Inner(l)
        BY <4>1, DindirectPlaces
      <4> DEFINE o == Outer(l)
                 i == o + 1
                 r == Inner(l)
      <4>3. o \in 0 .. BLOCK_SIZE - 1 /\ r \in 0 .. BLOCK_SIZE - 1 /\ l = NR_DIRECT_BLOCKS + BLOCK_SIZE + BLOCK_SIZE * o + r
        BY <4>2, Sizes
      <4> HIDE DEF o, r
      <4>4. i \in 1 .. BLOCK_SIZE BY <1>1, <4>3
      <4>5. BLOCK_SIZE * i = BLOCK_SIZE + BLOCK_SIZE * o /\ BLOCK_SIZE * o \in Nat BY <1>1, <4>3
      <4>6. lo(i) = NR_DIRECT_BLOCKS + (BLOCK_SIZE + BLOCK_SIZE * o) BY <4>5 DEF lo
      <4> HIDE DEF i
      <4>7. lo(i) <= l /\ l < lo(i) + BLOCK_SIZE BY <1>1, <4>3, <4>5, <4>6
      <4>8. p \in Range(flat) BY <1>10, <2>1, <4>4, <4>7
      <4> QED BY <1>13, <4>8
    <3> QED BY <3>1, <3>2, <3>3
  <2>2. ASSUME NEW i \in Unit, p = InnerPlace(i) PROVE p \in Range(in3)
    <3>1. i + 1 \in 1 .. BLOCK_SIZE /\ (i + 1) - 1 = i BY Sizes
    <3>2. p \in Range(flat) BY <1>10, <2>2, <3>1
    <3> QED BY <1>13, <3>2
  <2>3. p = IndirectPlace => p \in Range(in2) BY <1>12
  <2>4. p = DindirectPlace => p \in Range(in3) BY <1>13
  <2> QED BY <2>1, <2>2, <2>3, <2>4, PlaceKinds
<1> QED BY <1>0, <1>16, <1>18, <1>19

-----------------------------------------------------------------------------
(* Removing a file *)

\* The places that testfs_free_blocks comes to and finds a block in.
Freed(n, e) == {q \in Place : Walk(disk, n, q) # 0 /\ Visited(e, q)}

\* The order in which the blocks are freed is that of their places.
LEMMA FreeOrderIs ==
    ASSUME NEW n, NEW e \in Nat, e <= MAX_BLOCK_NR
    PROVE  /\ DOMAIN FreeOrder(n, e) = 1 .. Len(FreePlaces)
           /\ \A k \in 1 .. Len(FreePlaces) :
                FreeOrder(n, e)[k] = IF FreePlaces[k] \in Freed(n, e) THEN Walk(disk, n, FreePlaces[k]) ELSE 0
<1> DEFINE V(p) == Walk(disk, n, p)
           R == {r \in Refs(n, e) : r[1] = <<"indirect", 0>> => e > NR_DIRECT_BLOCKS}
           s == [k \in 1 .. Len(FreePlaces) |->
                   IF \E r \in R : r[1] = FreePlaces[k]
                   THEN (CHOOSE r \in R : r[1] = FreePlaces[k])[2] ELSE 0]
<1>1. FreeOrder(n, e) = s BY DEF FreeOrder
<1>2. Refs(n, e) = {<<p, V(p)>> : p \in {q \in Place : V(q) # 0 /\ (q = IndirectPlace \/ Visited(e, q))}}
  BY RefsIs
<1>3. Visited(e, IndirectPlace) <=> NR_DIRECT_BLOCKS < e BY VisitedIs
<1>4. NR_DIRECT_BLOCKS < e <=> e > NR_DIRECT_BLOCKS BY Sizes
<1>5. \A p \in Freed(n, e) : <<p, V(p)>> \in R
  <2> SUFFICES ASSUME NEW p \in Freed(n, e) PROVE <<p, V(p)>> \in R OBVIOUS
  <2>1. p \in Place /\ V(p) # 0 /\ Visited(e, p) BY DEF Freed
  <2>2. <<p, V(p)>> \in Refs(n, e) BY <1>2, <2>1
  <2>3. <<p, V(p)>>[1] = p OBVIOUS
  <2>4. p = <<"indirect", 0>> => e > NR_DIRECT_BLOCKS BY <1>3, <1>4, <2>1 DEF IndirectPlace
  <2> QED BY <2>2, <2>3, <2>4
<1>6. \A r \in R : r[1] \in Freed(n, e) /\ r[2] = V(r[1])
  <2> SUFFICES ASSUME NEW r \in R PROVE r[1] \in Freed(n, e) /\ r[2] = V(r[1]) OBVIOUS
  <2>1. PICK q \in Place : V(q) # 0 /\ (q = IndirectPlace \/ Visited(e, q)) /\ r = <<q, V(q)>> BY <1>2
  <2>2. r[1] = q /\ r[2] = V(q) BY <2>1
  <2>3. q = IndirectPlace => Visited(e, q) BY <1>3, <1>4, <2>2 DEF IndirectPlace
  <2> QED BY <2>1, <2>2, <2>3 DEF Freed
<1> HIDE DEF R
<1>7. ASSUME NEW k \in 1 .. Len(FreePlaces)
      PROVE  s[k] = IF FreePlaces[k] \in Freed(n, e) THEN V(FreePlaces[k]) ELSE 0
  <2> DEFINE p == FreePlaces[k]
             c == CHOOSE r \in R : r[1] = p
  <2>1. s[k] = IF \E r \in R : r[1] = p THEN c[2] ELSE 0 OBVIOUS
  <2>2. CASE p \in Freed(n, e)
    <3>1. <<p, V(p)>> \in R /\ <<p, V(p)>>[1] = p BY <1>5, <2>2
    <3>2. \E r \in R : r[1] = p BY <3>1
    <3>3. c \in R /\ c[1] = p BY <3>2
    <3> HIDE DEF c, p
    <3>4. c[2] = V(p) BY <1>6, <3>3
    <3> QED BY <2>1, <2>2, <3>2, <3>4 DEF p
  <2>3. CASE p \notin Freed(n, e)
    <3>1. ~\E r \in R : r[1] = p BY <1>6, <2>3
    <3> QED BY <2>1, <2>3, <3>1
  <2> QED BY <2>2, <2>3
<1> HIDE DEF s
<1>8. DOMAIN s = 1 .. Len(FreePlaces) BY DEF s
<1> QED BY <1>1, <1>7, <1>8

\* Each block of the file that is at a place within e blocks comes once.
LEMMA FreedBlocks ==
    ASSUME NEW n, NEW e \in Nat, e <= MAX_BLOCK_NR,
           \A p \in Place : Walk(disk, n, p) \in Ptr,
           \A p, q \in Place : Walk(disk, n, p) # 0 /\ Walk(disk, n, p) = Walk(disk, n, q) => p = q
    PROVE  LET s == FreeOrder(n, e) IN
           /\ s \in Seq(Ptr)
           /\ \A k \in 1 .. Len(s) : s[k] # 0 => \E p \in Freed(n, e) : s[k] = Walk(disk, n, p)
           /\ \A i, j \in 1 .. Len(s) : s[i] # 0 /\ s[i] = s[j] => i = j
           /\ \A p \in Freed(n, e) : \E k \in 1 .. Len(s) : s[k] = Walk(disk, n, p)
<1> DEFINE s == FreeOrder(n, e)
           V(p) == Walk(disk, n, p)
           L == Len(FreePlaces)
           Q == Freed(n, e)
<1>1. FreePlaces \in Seq(Place) /\ IsInjective(FreePlaces) /\ \A p \in Place : p \in Range(FreePlaces)
  BY FreePlacesAre
<1>2. L \in Nat /\ DOMAIN FreePlaces = 1 .. L /\ \A k \in 1 .. L : FreePlaces[k] \in Place BY <1>1
<1>3. DOMAIN s = 1 .. L /\ \A k \in 1 .. L : s[k] = IF FreePlaces[k] \in Q THEN V(FreePlaces[k]) ELSE 0
  BY FreeOrderIs
<1>4. Q \subseteq Place BY DEF Freed
<1>5. s = [k \in 1 .. L |-> s[k]]
  BY DEF FreeOrder
<1> HIDE DEF s, L, Q
<1>6. \A k \in 1 .. L : s[k] \in Ptr BY <1>2, <1>3 DEF Ptr
<1>7. s \in Seq(Ptr) /\ Len(s) = L
  <2>1. s \in [1 .. L -> Ptr] BY <1>5, <1>6
  <2> QED BY <1>2, <2>1
<1>8. \A k \in 1 .. L : s[k] # 0 => FreePlaces[k] \in Q /\ s[k] = V(FreePlaces[k]) BY <1>3
<1>9. ASSUME NEW i \in 1 .. L, NEW j \in 1 .. L, s[i] # 0, s[i] = s[j] PROVE i = j
  <2>1. s[i] = V(FreePlaces[i]) /\ s[j] = V(FreePlaces[j]) BY <1>8, <1>9
  <2>2. FreePlaces[i] = FreePlaces[j] BY <1>2, <1>9, <2>1
  <2> QED BY <1>1, <1>2, <2>2 DEF IsInjective
<1>10. ASSUME NEW p \in Q PROVE \E k \in 1 .. L : s[k] = V(p)
  <2>1. PICK k \in 1 .. L : FreePlaces[k] = p BY <1>1, <1>2, <1>4 DEF Range
  <2> QED BY <1>3, <2>1
<1>11. \A k \in 1 .. L : s[k] # 0 => \E p \in Q : s[k] = V(p) BY <1>8
<1> QED BY <1>7, <1>9, <1>10, <1>11 DEF s, Q

LEMMA FewerNames ==
    ASSUME NEW fm, NEW u \in Nat, NEW is, NEW dk, NEW ins, NEW nm, NEW wr, NEW c,
           Sound(fm, u, is, dk, ins, nm, wr, c), NEW F, F \subseteq nm
    PROVE  Sound(fm, u, is, dk, ins, F, wr, c)
<1>1. Owned(F, dk, ins) \subseteq Owned(nm, dk, ins) BY DEF Owned
<1>2. /\ Cardinality(Owned(F, dk, ins)) \in Nat /\ Cardinality(Owned(nm, dk, ins)) \in Nat
      /\ Cardinality(Owned(F, dk, ins)) <= Cardinality(Owned(nm, dk, ins))
  BY <1>1, OwnedSubset
<1>3. Cardinality(Owned(F, dk, ins)) <= u BY <1>2 DEF Sound
<1>4. Placed(F, fm, dk, ins)
  <2>1. Placed(nm, fm, dk, ins) BY DEF Sound
  <2> QED BY <2>1 DEF Placed
<1> QED BY <1>3, <1>4 DEF Sound

\* What is freed belongs to the file alone, and the count covers it as well as the
\* blocks of the other files.
LEMMA RemoveFrees ==
    ASSUME CInv, pc = "idle", NEW f \in named, NEW e \in Nat, e <= MAX_BLOCK_NR
    PROVE  LET s == FreeOrder(dinode[f], e)
               others == Owned(named \ {f}, disk, dinode)
           IN  /\ s \in Seq(Ptr)
               /\ \A i \in 1 .. Len(s) : s[i] # 0 => s[i] \in freemap /\ s[i] \notin others
               /\ \A i, j \in 1 .. Len(s) : s[i] # 0 /\ s[i] = s[j] => i = j
               /\ CountTo(s, Len(s)) \in Nat
               /\ Cardinality(others) + CountTo(s, Len(s)) <= used
               /\ Cardinality(freemap \ Take(s, Len(s))) = Cardinality(freemap) - CountTo(s, Len(s))
<1> DEFINE n == dinode[f]
           V(p) == Walk(disk, n, p)
           s == FreeOrder(n, e)
           F == named \ {f}
           others == Owned(F, disk, dinode)
           all == Owned(named, disk, dinode)
<1>1. /\ freemap \in SUBSET Block /\ used \in Nat /\ Copies = dinode
  BY CrashTypes
<1>2. Placed(named, freemap, disk, dinode) /\ Cardinality(all) <= used BY <1>1 DEF CInv, ViewOK, Sound
<1>3. \A p \in Place : V(p) \in Ptr /\ (V(p) # 0 => V(p) \in freemap) BY <1>2 DEF Placed
<1>4. \A p, q \in Place : V(p) # 0 /\ V(p) = V(q) => p = q BY <1>2 DEF Placed
<1>5. /\ s \in Seq(Ptr)
      /\ \A k \in 1 .. Len(s) : s[k] # 0 => \E p \in Freed(n, e) : s[k] = V(p)
      /\ \A i, j \in 1 .. Len(s) : s[i] # 0 /\ s[i] = s[j] => i = j
  <2> HIDE DEF n
  <2> QED BY <1>3, <1>4, FreedBlocks
<1> HIDE DEF s
<1>6. \A k \in 1 .. Len(s) : s[k] # 0 => \E p \in Place : s[k] = V(p) BY <1>5 DEF Freed
<1>7. ASSUME NEW k \in 1 .. Len(s), s[k] # 0
      PROVE  s[k] \in freemap /\ s[k] \in all /\ s[k] \notin others
  <2>1. PICK p \in Place : s[k] = V(p) BY <1>6, <1>7
  <2>2. s[k] \in freemap /\ s[k] \in Block BY <1>1, <1>3, <1>7, <2>1
  <2>3. s[k] \in all BY <2>1, <2>2 DEF Owned
  <2>4. ASSUME s[k] \in others PROVE FALSE
    <3>1. PICK g \in F, q \in Place : Walk(disk, dinode[g], q) = s[k] BY <2>4 DEF Owned
    <3>2. g \in named /\ g # f OBVIOUS
    <3> QED BY <1>2, <1>7, <2>1, <3>1, <3>2 DEF Placed
  <2> QED BY <2>2, <2>3, <2>4
<1> DEFINE Y == Take(s, Len(s))
           k == CountTo(s, Len(s))
<1>8. Len(s) \in Nat /\ Len(s) \in 0 .. Len(s) BY <1>5
<1>9. k \in Nat BY <1>8, CountNext
<1>10. Cardinality(freemap \ Y) = Cardinality(freemap) - k
  <2>1. \A i \in 1 .. Len(s) : s[i] # 0 => s[i] \in freemap BY <1>7
  <2> QED BY <1>1, <1>5, <1>8, <2>1, FreedSize
<1>11. all \in SUBSET Block BY DEF Owned
<1>12. Cardinality(all \ Y) = Cardinality(all) - k
  <2>1. \A i \in 1 .. Len(s) : s[i] # 0 => s[i] \in all BY <1>7
  <2> HIDE DEF all
  <2> QED BY <1>5, <1>8, <1>11, <2>1, FreedSize
<1>13. others \subseteq all \ Y
  <2>1. others \subseteq all BY DEF Owned
  <2>2. ASSUME NEW b \in others, b \in Y PROVE FALSE
    <3>1. PICK j \in 1 .. Len(s) : b = s[j] BY <2>2 DEF Take
    <3>2. b \in Block BY DEF Owned
    <3>3. b # 0 BY <3>2, FileBlocksAssumption DEF Block
    <3> QED BY <1>7, <3>1, <3>3
  <2> QED BY <2>1, <2>2
<1>14. Cardinality(others) <= Cardinality(all \ Y) /\ Cardinality(others) \in Nat /\ Cardinality(all) \in Nat
  <2>1. all \ Y \subseteq Block /\ others \subseteq Block /\ all \subseteq Block BY <1>11, <1>13
  <2> HIDE DEF all, others, Y
  <2>2. IsFiniteSet(all \ Y) /\ Cardinality(others) \in Nat /\ Cardinality(all) \in Nat BY <2>1, BlockSets
  <2> QED BY <1>13, <2>2, FS_Subset
<1> HIDE DEF all, others, Y, k
<1>15. Cardinality(others) + k <= used BY <1>1, <1>2, <1>9, <1>12, <1>14
<1> QED BY <1>5, <1>7, <1>9, <1>10, <1>15 DEF s, others, Y, k

\* If no assertion fails, they are the blocks the inode refers to.
LEMMA RemoveAll ==
    ASSUME CInv, pc = "idle", NEW f \in named, NEW e \in Nat, e <= MAX_BLOCK_NR,
           FreeAsserts(dinode[f], e, Refs(dinode[f], e))
    PROVE  LET s == FreeOrder(dinode[f], e)
               R == Refs(dinode[f], e)
           IN  Take(s, Len(s)) \ {0} = Blocks(R) /\ CountTo(s, Len(s)) = Cardinality(R)
               /\ Blocks(R) \subseteq freemap
<1> DEFINE n == dinode[f]
           V(p) == Walk(disk, n, p)
           s == FreeOrder(n, e)
           R == Refs(n, e)
<1>1. /\ freemap \in SUBSET Block /\ Copies = dinode BY CrashTypes
<1>2. Placed(named, freemap, disk, dinode) BY <1>1 DEF CInv, ViewOK, Sound
<1>3. \A p \in Place : V(p) \in Ptr BY <1>2 DEF Placed
<1>4. \A p, q \in Place : V(p) # 0 /\ V(p) = V(q) => p = q BY <1>2 DEF Placed
<1>5. /\ s \in Seq(Ptr)
      /\ \A k \in 1 .. Len(s) : s[k] # 0 => \E p \in Freed(n, e) : s[k] = V(p)
      /\ \A i, j \in 1 .. Len(s) : s[i] # 0 /\ s[i] = s[j] => i = j
      /\ \A p \in Freed(n, e) : \E k \in 1 .. Len(s) : s[k] = V(p)
  <2> HIDE DEF n
  <2> QED BY <1>3, <1>4, FreedBlocks
<1>6. /\ n.i_indirect # 0 => e > NR_DIRECT_BLOCKS
      /\ Cardinality(Blocks(R)) = Cardinality(R) /\ Blocks(R) \subseteq freemap
  BY DEF FreeAsserts
<1>7. R = {<<p, V(p)>> : p \in {q \in Place : V(q) # 0 /\ (q = IndirectPlace \/ Visited(e, q))}} BY RefsIs
<1> HIDE DEF R, s
<1>8. \A p \in Place : V(p) # 0 /\ p = IndirectPlace => Visited(e, p)
  <2>1. V(IndirectPlace) = n.i_indirect BY WalkIs
  <2>2. NR_DIRECT_BLOCKS < e <=> e > NR_DIRECT_BLOCKS BY Sizes
  <2> QED BY <1>6, <2>1, <2>2, VisitedIs
<1>9. {q \in Place : V(q) # 0 /\ (q = IndirectPlace \/ Visited(e, q))} = Freed(n, e) BY <1>8 DEF Freed
<1>10. R = {<<p, V(p)>> : p \in Freed(n, e)} BY <1>7, <1>9
<1>11. Blocks(R) = {V(p) : p \in Freed(n, e)}
  <2>1. \A p, b : <<p, b>>[2] = b OBVIOUS
  <2>2. ASSUME NEW b \in Blocks(R) PROVE \E p \in Freed(n, e) : b = V(p)
    <3>1. PICK r \in R : b = r[2] BY DEF Blocks
    <3>2. PICK p \in Freed(n, e) : r = <<p, V(p)>> BY <1>10
    <3> QED BY <2>1, <3>1, <3>2
  <2>3. ASSUME NEW p \in Freed(n, e) PROVE V(p) \in Blocks(R)
    <3>1. <<p, V(p)>> \in R /\ <<p, V(p)>>[2] = V(p) BY <1>10, <2>1
    <3> QED BY <3>1 DEF Blocks
  <2> QED BY <2>2, <2>3
<1> DEFINE Y == Take(s, Len(s))
<1>12. Len(s) \in Nat /\ Len(s) \in 0 .. Len(s) BY <1>5
<1>13. Y \ {0} = Blocks(R)
  <2>1. ASSUME NEW b \in Y, b # 0 PROVE b \in Blocks(R)
    <3>1. PICK j \in 1 .. Len(s) : b = s[j] BY DEF Take
    <3> QED BY <1>5, <1>11, <2>1, <3>1
  <2>2. ASSUME NEW b \in Blocks(R) PROVE b \in Y /\ b # 0
    <3>1. PICK p \in Freed(n, e) : b = V(p) BY <1>11
    <3>2. PICK j \in 1 .. Len(s) : s[j] = V(p) BY <1>5
    <3> QED BY <3>1, <3>2 DEF Take, Freed
  <2> QED BY <2>1, <2>2
<1>14. CountTo(s, Len(s)) = Cardinality(R)
  <2>1. Blocks(R) \in SUBSET Block BY <1>1, <1>6
  <2>2. \A i \in 1 .. Len(s) : s[i] # 0 => s[i] \in Blocks(R) BY <1>5, <1>11
  <2> DEFINE m == Blocks(R)
  <2>3. m \ Y = {} BY <1>13
  <2> HIDE DEF m
  <2>4. Cardinality(m \ Y) = Cardinality(m) - CountTo(s, Len(s)) BY <1>5, <1>12, <2>1, <2>2, FreedSize DEF m
  <2>5. Cardinality(m \ Y) = 0 BY <2>3, FS_EmptySet
  <2>6. Cardinality(m) \in Nat BY <2>1, BlockSets DEF m
  <2>7. CountTo(s, Len(s)) \in Nat BY <1>12, CountNext
  <2>8. CountTo(s, Len(s)) = Cardinality(m) BY <2>4, <2>5, <2>6, <2>7
  <2> QED BY <1>6, <2>8 DEF m
<1> QED BY <1>6, <1>13, <1>14 DEF s, R, Y

\* Once the entry has gone and the blocks are free, the number is marked free and the
\* inode is zeroed: the other files are as they were.
LEMMA RemoveEnds ==
    ASSUME CInv, pc = "idle", NEW f \in named, NEW Y, NEW k \in Nat, Y \subseteq freemap,
           Y \cap Owned(named \ {f}, disk, dinode) = {},
           Cardinality(freemap \ Y) = Cardinality(freemap) - k,
           Cardinality(Owned(named \ {f}, disk, dinode)) + k <= used,
           NEW di \in [Inode -> Dinodes], \A g \in Inode \ {f} : di[g] = dinode[g],
           NEW wr, \A g \in Inode \ {f} : wr[g] = written[g]
    PROVE  Sound(freemap \ Y, used - k, inodes \ {f}, Zeroing(disk, Y), di, named \ {f}, wr, crashes)
<1> DEFINE F == named \ {f}
           fm == freemap \ Y
           dk == Zeroing(disk, Y)
<1>1. /\ freemap \in SUBSET Block /\ used \in Nat /\ Copies = dinode /\ disk \in Disks
      /\ named \in SUBSET Inode /\ named \subseteq inodes /\ crashes \in Nat
  BY CrashTypes
<1>2. Sound(freemap, used, inodes, disk, dinode, named, written, crashes) BY <1>1 DEF CInv, ViewOK
<1>3. F \subseteq named OBVIOUS
<1>4. Sound(freemap, used, inodes, disk, dinode, F, written, crashes)
  <2> HIDE DEF F
  <2> QED BY <1>1, <1>2, <1>3, FewerNames
<1>5. \A g \in F : g \in Inode /\ di[g] = dinode[g] /\ wr[g] = written[g] BY <1>1
<1> DEFINE O == Owned(F, disk, dinode)
<1>6. O \subseteq Block BY DEF Owned
<1>7. O \subseteq fm
  <2>1. ASSUME NEW b \in O PROVE b \in freemap
    <3>1. b # 0
      <4>1. b \in Block BY <1>6
      <4> QED BY <4>1, FileBlocksAssumption DEF Block
    <3>2. PICK g \in F, p \in Place : Walk(disk, dinode[g], p) = b BY DEF Owned
    <3> QED BY <1>4, <3>1, <3>2 DEF Sound, Placed
  <2> QED BY <2>1
<1>8. \A b \in O : dk[b] = disk[b] BY <1>6 DEF Zeroing
<1>9. \A g \in F : SameRoots(dinode[g], di[g]) BY <1>5 DEF SameRoots
<1>10. Placed(F, freemap, disk, dinode) BY <1>4 DEF Sound
<1>11. Zeros(fm, dk) BY <1>2 DEF Sound, Zeros, Zeroing
<1>12. Drift(fm, used - k, crashes)
  <2>1. Cardinality(freemap) \in Nat BY <1>1, BlockSets
  <2>2. Drift(freemap, used, crashes) BY <1>2 DEF Sound
  <2> QED BY <1>1, <2>1, <2>2 DEF Drift
<1>13. F \subseteq inodes \ {f} BY <1>1
<1>14. Cardinality(O) <= used - k
  <2>1. Cardinality(O) \in Nat BY <1>6, BlockSets
  <2> QED BY <1>1, <2>1
<1> HIDE DEF F, fm, dk
<1>15. /\ \A g \in F, off \in Offset : Reads(dk, di[g], off) = Reads(disk, dinode[g], off)
       /\ Owned(F, dk, di) = O
       /\ O \subseteq fm => Placed(F, fm, dk, di)
  BY ONLY <1>8, <1>9, <1>10, SameTrees
<1>16. Placed(F, fm, dk, di) BY <1>7, <1>15
<1>17. \A g \in F, off \in Offset : Reads(dk, di[g], off) = IF off \in wr[g] THEN Data(g) ELSE 0
  BY <1>4, <1>5, <1>15 DEF Sound
<1>18. Sound(fm, used - k, inodes \ {f}, dk, di, F, wr, crashes)
  BY <1>11, <1>12, <1>13, <1>14, <1>15, <1>16, <1>17 DEF Sound
<1> QED BY <1>18 DEF F, fm, dk

\* Taking the entry away leaves the files that still have one as they are, and so
\* does every block that is freed then.
LEMMA RemoveRun ==
    ASSUME CInv, pc = "idle", NEW f \in named, NEW e \in Nat, e <= MAX_BLOCK_NR,
           View \in Good(synced, crashes)
    PROVE  LET s == FreeOrder(dinode[f], e)
               k == CountTo(s, Len(s))
           IN  Runs(View, <<W("named", named \ {f})>> \o free_writes(freemap, used, s),
                    Good(synced, crashes),
                    Dev(freemap \ Take(s, Len(s)), used - k, inodes,
                        Zeroing(disk, Take(s, Len(s))), dinode, named \ {f}))
<1> DEFINE s == FreeOrder(dinode[f], e)
           k == CountTo(s, Len(s))
           F == named \ {f}
           G == Good(synced, crashes)
           d == Dev(freemap, used, inodes, disk, dinode, F)
           c == Dev(freemap \ Take(s, Len(s)), used - k, inodes,
                    Zeroing(disk, Take(s, Len(s))), dinode, F)
<1>1. /\ freemap \in SUBSET Block /\ used \in 0 .. MaxFsBlocks /\ used \in Nat /\ Copies = dinode
      /\ inodes \in SUBSET Inode /\ disk \in Disks /\ dinode \in [Inode -> Dinodes]
      /\ named \in SUBSET Inode /\ crashes \in Nat
      /\ View = Dev(freemap, used, inodes, disk, dinode, named)
  BY CrashTypes
<1>2. Sound(freemap, used, inodes, disk, dinode, named, written, crashes) BY <1>1 DEF CInv, ViewOK
<1>3. F \subseteq named /\ F \in SUBSET Inode BY <1>1
<1>4. Covers(F, written, dinode, synced) BY DEF CInv, HistoryOK, Covers
<1>5. /\ s \in Seq(Ptr)
      /\ \A i \in 1 .. Len(s) : s[i] # 0 => s[i] \in freemap /\ s[i] \notin Owned(F, disk, dinode)
      /\ \A i, j \in 1 .. Len(s) : s[i] # 0 /\ s[i] = s[j] => i = j
      /\ Cardinality(Owned(F, disk, dinode)) + k <= used
  BY RemoveFrees
<1>6. write_blocks(View, W("named", F)) = d BY <1>1, WriteParts
<1> HIDE DEF F, s, k
<1>7. Sound(freemap, used, inodes, disk, dinode, F, written, crashes) BY <1>1, <1>2, <1>3, FewerNames
<1>8. d \in G BY ONLY <1>1, <1>4, <1>7, SoundGood DEF d, G
<1>9. Drift(freemap, used, crashes) BY <1>2 DEF Sound
<1> HIDE DEF d, c, G
<1>10. Runs(View, <<W("named", F)>>, G, d) BY <1>6, <1>8, RunOne DEF G
<1>11. Runs(d, free_writes(freemap, used, s), G, c)
  <2>1. Dev(freemap, used, inodes, disk, dinode, F) \in Good(synced, crashes) BY <1>8 DEF d, G
  <2> QED BY ONLY <1>1, <1>3, <1>5, <1>9, <2>1, FreeSafe DEF d, c, G, k
<1>12. Runs(View, <<W("named", F)>> \o free_writes(freemap, used, s), G, c) BY ONLY <1>10, <1>11, RunJoin
<1> QED BY <1>12 DEF s, k, F, G, c

LEMMA CrashRemove ==
    ASSUME CInv, NEW f \in Inode, remove(f)
    PROVE  CInv'
<1> DEFINE n == dinode[f]
           e == DIVROUNDUP(n.i_size, BLOCK_SIZE)
           R == Refs(n, e)
           s == FreeOrder(n, e)
           frees == free_writes(freemap, used, s)
           ok == FreeAsserts(n, e, R)
           F == named \ {f}
           Y == Take(s, Len(s))
           k == CountTo(s, Len(s))
           G == Good(synced, crashes)
           first == <<W("named", F)>> \o frees
<1>1. /\ f \in named /\ pc = "idle" /\ f \in inodes /\ named' = F /\ pending = <<>>
      /\ IF ok THEN /\ freemap' = freemap \ Blocks(R) /\ used' = used - Cardinality(R)
                    /\ disk' = [b \in Block |-> IF b \in Blocks(R) THEN ZeroBlock ELSE disk[b]]
                    /\ dinode' = [dinode EXCEPT ![f] = Zeroed] /\ inodes' = inodes \ {f}
                    /\ written' = [written EXCEPT ![f] = {}] /\ kept' = [kept EXCEPT ![f] = {}] /\ pc' = pc
               ELSE /\ pc' = "abort" /\ freemap' = freemap /\ used' = used /\ disk' = disk
                    /\ dinode' = dinode /\ inodes' = inodes /\ written' = written /\ kept' = kept
      /\ nr' = nr /\ in' = in /\ dirty' = dirty /\ start' = start /\ pos' = pos /\ end' = end
      /\ Does(remove_writes(f, frees, pc' # "abort"))
  BY DEF remove, remove_inode, Does, Issues, cmdVars
<1>2. /\ freemap \in SUBSET Block /\ used \in 0 .. MaxFsBlocks /\ used \in Nat /\ Copies = dinode
      /\ inodes \in SUBSET Inode /\ disk \in Disks /\ dinode \in [Inode -> Dinodes]
      /\ named \in SUBSET Inode /\ named \subseteq inodes /\ crashes \in Nat
      /\ View = Dev(freemap, used, inodes, disk, dinode, named)
  BY <1>1, CrashTypes
<1>3. dev = View /\ View \in Good(synced, crashes) BY <1>1, CrashReady
<1>4. e \in Nat /\ e <= MAX_BLOCK_NR
  <2>1. n \in Dinodes BY <1>2
  <2>2. n.i_size \in Nat /\ n.i_size <= MAX_FILE_SIZE BY <2>1, Sizes DEF Dinodes
  <2>3. MAX_BLOCK_NR \in Nat /\ MAX_FILE_SIZE = BLOCK_SIZE * MAX_BLOCK_NR BY Sizes
  <2> HIDE DEF n
  <2> QED BY <2>2, <2>3, RoundUp DEF e
<1>5. /\ pending' = remove_writes(f, frees, pc' # "abort")
      /\ dev' = dev /\ synced' = synced /\ crashes' = crashes /\ stale' = stale
      /\ Issues(remove_writes(f, frees, pc' # "abort"))
  BY <1>1 DEF Does, Issues
<1> HIDE DEF e, ok
<1>6. /\ s \in Seq(Ptr)
      /\ \A i \in 1 .. Len(s) : s[i] # 0 => s[i] \in freemap /\ s[i] \notin Owned(F, disk, dinode)
      /\ k \in Nat
      /\ Cardinality(Owned(F, disk, dinode)) + k <= used
      /\ Cardinality(freemap \ Y) = Cardinality(freemap) - k
  BY <1>1, <1>4, RemoveFrees
<1>7. Runs(View, first, G, Dev(freemap \ Y, used - k, inodes, Zeroing(disk, Y), dinode, F))
  BY <1>1, <1>3, <1>4, RemoveRun
<1>8. /\ Covers(F, written, dinode, synced)
      /\ \A g \in Inode \ named : written[g] = {}
      /\ written \in [Inode -> SUBSET Offset] /\ kept \in [Inode -> SUBSET Offset] /\ TypeOK
  BY <1>1 DEF CInv, HistoryOK, Covers, CrashTypeOK, TypeOK
<1>14. KeptReadable' BY <1>8, KeptRemove DEF CInv, remove
<1>9. Sound(freemap, used, inodes, disk, dinode, named, written, crashes) BY <1>2 DEF CInv, ViewOK
<1>10. F \subseteq named /\ F \in SUBSET Inode BY <1>2
<1>11. Copies' = dinode'
  <2>1. dinode' \in [Inode -> Dinodes]
    <3>1. CASE ok BY <1>1, <1>2, <3>1, ZeroedType
    <3>2. CASE ~ok BY <1>1, <1>2, <3>2
    <3> QED BY <3>1, <3>2
  <2>2. pc' # "write" BY <1>1
  <2> QED BY <2>1, <2>2 DEF Copies, Copy
\* An assertion fails: the process is dead, and what it has freed is free.
<1>12. CASE ~ok
  <2>1. /\ pc' = "abort" /\ freemap' = freemap /\ used' = used /\ disk' = disk
        /\ dinode' = dinode /\ inodes' = inodes /\ written' = written /\ kept' = kept
    BY <1>1, <1>12
  <2>2. ViewOK'
    <3>1. Sound(freemap, used, inodes, disk, dinode, F, written, crashes)
      <4> HIDE DEF F
      <4> QED BY <1>2, <1>9, <1>10, FewerNames
    <3> QED BY <1>1, <1>5, <1>11, <2>1, <3>1 DEF ViewOK
  <2>3. remove_writes(f, frees, pc' # "abort") = first \o <<>> BY <2>1 DEF remove_writes
  <2>4. DeviceOK'
    <3> DEFINE c == Dev(freemap \ Y, used - k, inodes, Zeroing(disk, Y), dinode, F)
               ws == first \o <<>>
    <3> HIDE DEF c, first, G
    <3>1. Runs(View, first, G, c) BY <1>7 DEF c
    <3>2. c \in G BY <3>1, RunEnds
    <3>3. Runs(c, <<>>, G, c) BY <3>2, RunNone
    <3>4. Runs(View, first \o <<>>, G, c) BY ONLY <3>1, <3>3, RunJoin
    <3>5. Issues(ws) BY <1>5, <2>3
    <3> HIDE DEF ws
    <3>6. Runs(View, ws, Good(synced, crashes), c) BY <3>4 DEF ws, G
    <3> QED BY <1>3, <2>1, <3>5, <3>6, CrashDoes
  <2>5. CrashTypeOK' BY <1>1, <1>5, <2>1 DEF CInv, CrashTypeOK, TypeOK
  <2>6. WritingNamed' BY <2>1 DEF WritingNamed
  <2>7. HistoryOK' BY <1>1, <1>5, <1>8, <2>1 DEF HistoryOK
  <2> QED BY <1>14, <2>2, <2>4, <2>5, <2>6, <2>7 DEF CInv
\* The number is marked free, and then the inode is zeroed.
<1>13. CASE ok
  <2> DEFINE X == Blocks(R)
             is == inodes \ {f}
             fm == freemap \ X
             dk == Zeroing(disk, X)
             u == used - k
             j == [dinode EXCEPT ![f] = Zeroed]
             wr == [written EXCEPT ![f] = {}]
  <2>1. Y \ {0} = X /\ k = Cardinality(R) /\ X \subseteq freemap
    BY <1>1, <1>4, <1>13, RemoveAll DEF ok
  <2>2. 0 \notin freemap /\ 0 \notin Block BY <1>2, FileBlocksAssumption DEF Block
  <2>3. freemap \ Y = fm BY <2>1, <2>2
  <2>4. Zeroing(disk, Y) = dk
    <3>1. \A b \in Block : b \in Y <=> b \in X BY <2>1, <2>2
    <3> HIDE DEF X, Y
    <3> QED BY <3>1 DEF Zeroing
  <2>5. /\ freemap' = fm /\ used' = u /\ disk' = dk /\ dinode' = j /\ inodes' = is /\ written' = wr
        /\ pc' = "idle" /\ kept' = [kept EXCEPT ![f] = {}]
    BY <1>1, <1>13, <2>1 DEF Zeroing
  <2>6. X \cap Owned(F, disk, dinode) = {}
    <3>1. ASSUME NEW b \in X, b \in Owned(F, disk, dinode) PROVE FALSE
      <4>1. b \in Y /\ b # 0 BY <2>1
      <4>2. PICK i \in 1 .. Len(s) : b = s[i] BY <4>1 DEF Take
      <4> QED BY <1>6, <3>1, <4>1, <4>2
    <3> QED BY <3>1
  <2>7. Cardinality(freemap \ X) = Cardinality(freemap) - k BY <1>6, <2>3
  <2>8. j \in [Inode -> Dinodes] /\ \A g \in Inode \ {f} : j[g] = dinode[g] BY <1>2, ZeroedType
  <2>9. wr \in [Inode -> SUBSET Offset] /\ wr[f] = {} /\ \A g \in Inode \ {f} : wr[g] = written[g] BY <1>8
  <2> HIDE DEF X, Y, k, s, j, wr, dk, R, G, frees
  <2>10. Sound(freemap \ X, used - k, inodes \ {f}, Zeroing(disk, X), j, named \ {f}, wr, crashes)
    BY <1>1, <1>6, <2>1, <2>6, <2>7, <2>8, <2>9, RemoveEnds
  <2>11. Sound(freemap \ X, used - k, inodes \ {f}, Zeroing(disk, X), dinode, named \ {f}, wr, crashes)
    BY <1>1, <1>2, <1>6, <2>1, <2>6, <2>7, <2>9, RemoveEnds
  <2>12. Sound(fm, u, is, dk, j, F, wr, crashes) BY <2>10 DEF dk
  <2>13. Sound(fm, u, is, dk, dinode, F, wr, crashes) BY <2>11 DEF dk
  <2>14. fm \in SUBSET Block /\ is \in SUBSET Inode BY <1>2
  <2>15. u \in 0 .. MaxFsBlocks
    <3> DEFINE O == Owned(F, disk, dinode)
    <3>1. O \subseteq Block BY DEF Owned
    <3> HIDE DEF O
    <3>2. Cardinality(O) \in Nat BY <3>1, BlockSets
    <3>3. Cardinality(O) + k <= used BY <1>6 DEF O
    <3>4. MaxFsBlocks \in Nat BY FileBlocksAssumption
    <3> QED BY <1>2, <1>6, <3>2, <3>3, <3>4
  <2>16. dk \in Disks
    <3>1. ZeroBlock \in [Unit -> Ptr \cup Inode] BY DEF ZeroBlock, Ptr
    <3> QED BY <1>2, <3>1 DEF dk, Zeroing, Disks
  <2>17. Covers(F, wr, j, synced) /\ Covers(F, wr, dinode, synced) BY <1>2, <1>8, <2>8, <2>9 DEF Covers
  <2> HIDE DEF F, fm, is, u
  <2> DEFINE c == Dev(fm, u, inodes, dk, dinode, F)
             d == Dev(fm, u, is, dk, dinode, F)
             h == Dev(fm, u, is, dk, j, F)
             v == <<W("inodes", is)>>
             w == <<WAt("dinode", f, Zeroed)>>
  <2>18. d \in G BY ONLY <1>2, <2>13, <2>14, <2>15, <2>16, <2>17, SoundGood DEF G
  <2>19. h \in G BY ONLY <1>2, <2>8, <2>12, <2>14, <2>15, <2>16, <2>17, SoundGood DEF G
  <2>20. Runs(View, first, G, c) BY <1>7, <2>3, <2>4 DEF fm, u, dk
  <2>21. write_blocks(c, W("inodes", is)) = d BY WriteParts
  <2>22. write_blocks(d, WAt("dinode", f, Zeroed)) = h
    <3>1. f # 0 BY FileBlocksAssumption DEF Inode
    <3> QED BY <3>1, WriteInode DEF j
  <2>23. h = View' BY <1>1, <2>5 DEF View, Dev
  <2> HIDE DEF c, d, h, first
  <2>24. c \in G BY <2>20, RunEnds
  <2>25. Runs(c, v, G, d) BY <2>18, <2>21, <2>24, RunOne
  <2>26. Runs(d, w, G, h) BY <2>18, <2>19, <2>22, RunOne
  <2> HIDE DEF v, w
  <2>27. Runs(c, v \o w, G, h) BY ONLY <2>25, <2>26, RunJoin
  <2>28. Runs(View, first \o (v \o w), G, h) BY ONLY <2>20, <2>27, RunJoin
  <2>29. v \o w = <<W("inodes", is), WAt("dinode", f, Zeroed)>> BY TwoWrites DEF v, w
  <2>30. remove_writes(f, frees, pc' # "abort") = first \o (v \o w)
    BY <2>5, <2>29 DEF remove_writes, first, is, F
  <2> DEFINE ws == first \o (v \o w)
  <2>31. Issues(ws) BY <1>5, <2>30
  <2>32. pending' # <<>>
    <3>1. pending' = ws BY <2>31 DEF Issues
    <3> HIDE DEF ws
    <3>2. ws = <<>> => View = h BY <2>28, RunEnds DEF ws
    <3>3. View.named = named /\ h.named = F BY DEF View, Dev, h
    <3>4. f \notin F BY DEF F
    <3> QED BY <1>1, <3>1, <3>2, <3>3, <3>4
  <2> HIDE DEF ws
  <2>33. DeviceOK'
    <3>1. Runs(View, ws, Good(synced, crashes), h) BY <2>28 DEF ws, G
    <3> QED BY <1>3, <2>23, <2>31, <3>1, CrashDoes
  <2>34. ViewOK' BY <1>1, <1>5, <1>11, <2>5, <2>12 DEF ViewOK
  <2>35. CrashTypeOK'
    <3>2. kept' \in [Inode -> SUBSET Offset] BY <1>8, <2>5
    <3>1. TypeOK' BY <1>1, <2>5, <2>8, <2>9, <2>14, <2>15, <2>16, <3>2 DEF CInv, CrashTypeOK, TypeOK, Disks
    <3> QED BY <1>5, <3>1 DEF CInv, CrashTypeOK
  <2>36. WritingNamed' BY <2>5 DEF WritingNamed
  <2>37. HistoryOK'
    <3>1. \A g \in Inode \ F : wr[g] = {} BY <1>8, <2>9 DEF F
    <3> QED BY <1>1, <1>5, <2>5, <2>17, <2>32, <3>1 DEF HistoryOK
  <2> QED BY <1>14, <2>33, <2>34, <2>35, <2>36, <2>37 DEF CInv
<1> QED BY <1>12, <1>13

-----------------------------------------------------------------------------
(* Writing a block *)

LEMMA OnlyIs ==
    ASSUME NEW b, NEW B, B \subseteq Block
    PROVE  Only(b, B) \in Seq(Block) /\ Range(Only(b, B)) = B \cap {b} /\ IsInjective(Only(b, B))
<1>1. CASE b \in B
  <2>1. Only(b, B) = <<b>> BY <1>1 DEF Only
  <2>2. b \in Block BY <1>1
  <2>3. Range(<<b>>) = {b} /\ IsInjective(<<b>>) BY DEF Range, IsInjective
  <2>4. <<b>> \in Seq(Block) BY <2>2
  <2> QED BY <1>1, <2>1, <2>3, <2>4
<1>2. CASE b \notin B
  <2>1. Only(b, B) = <<>> BY <1>2 DEF Only
  <2>2. <<>> \in Seq(Block) OBVIOUS
  <2> QED BY <1>2, <2>1, <2>2, EmptyQueue
<1> QED BY <1>1, <1>2

\* Each new block of a path is allocated once.
LEMMA FromRootIs ==
    ASSUME NEW p, NEW B, B \subseteq Block, B \subseteq {p[1], p[2], p[3]},
           p[1] \in B => p[1] # p[2] /\ p[1] # p[3], p[2] \in B => p[2] # p[3]
    PROVE  LET s == FromRoot(p, B) IN
           /\ s \in Seq(Block) /\ Take(s, Len(s)) = B /\ Len(s) = Cardinality(B)
           /\ \A i, j \in 1 .. Len(s) : s[i] = s[j] => i = j
<1> DEFINE s1 == Only(p[1], B)
           s2 == Only(p[2], B)
           s3 == Only(p[3], B)
           t == s2 \o s1
           s == t \o s3
<1>1. FromRoot(p, B) = s BY DEF FromRoot
<1>2. /\ s1 \in Seq(Block) /\ Range(s1) = B \cap {p[1]} /\ IsInjective(s1)
      /\ s2 \in Seq(Block) /\ Range(s2) = B \cap {p[2]} /\ IsInjective(s2)
      /\ s3 \in Seq(Block) /\ Range(s3) = B \cap {p[3]} /\ IsInjective(s3)
  BY OnlyIs
<1> HIDE DEF s1, s2, s3
<1>3. t \in Seq(Block) /\ Range(t) = Range(s2) \cup Range(s1) BY <1>2, ConcatQueue
<1>4. IsInjective(t)
  <2>1. Range(s2) \cap Range(s1) = {} BY <1>2
  <2> QED BY <1>2, <2>1, ConcatQueue
<1> HIDE DEF t
<1>5. s \in Seq(Block) /\ Range(s) = Range(t) \cup Range(s3) BY <1>2, <1>3, ConcatQueue
<1>6. IsInjective(s)
  <2>1. Range(t) \cap Range(s3) = {} BY <1>2, <1>3
  <2> QED BY <1>2, <1>3, <1>4, <2>1, ConcatQueue
<1>7. Range(s) = B BY <1>2, <1>3, <1>5
<1> HIDE DEF s
<1>8. Len(s) \in Nat /\ DOMAIN s = 1 .. Len(s) BY <1>5
<1>9. Take(s, Len(s)) = B BY <1>7, <1>8 DEF Take, Range
<1>10. \A i, j \in 1 .. Len(s) : s[i] = s[j] => i = j BY <1>6, <1>8 DEF IsInjective
<1>11. Len(s) = Cardinality(B)
  <2> DEFINE m == {}
  <2>1. m \in SUBSET Block /\ \A i \in 1 .. Len(s) : s[i] \notin m OBVIOUS
  <2>2. Cardinality(m) = 0 /\ m \cup B = B BY FS_EmptySet
  <2> HIDE DEF m
  <2>3. Len(s) \in 0 .. Len(s) BY <1>8
  <2>4. Cardinality(m \cup Take(s, Len(s))) = Cardinality(m) + Len(s) BY <1>5, <1>10, <2>1, <2>3, MarkedSize
  <2>5. m \cup Take(s, Len(s)) = B BY <1>9, <2>2
  <2>6. Cardinality(B) = 0 + Len(s) BY <2>2, <2>4, <2>5
  <2> QED BY <1>8, <2>6
<1> QED BY <1>1, <1>5, <1>9, <1>10, <1>11

\* The path of a logical block, after the step.
Leads(l) == <<IF IsDirect(l) THEN 0 ELSE Walk(disk', in', Middle(l)),
              IF IsDirect(l) \/ IsIndirect(l) THEN 0 ELSE Walk(disk', in', DindirectPlace),
              Walk(disk', in', DataPlace(l))>>

LEMMA PathIs ==
    ASSUME NEW l \in Log
    PROVE  Path(in, l)' = Leads(l)
<1>1. Walk(disk', in', DataPlace(l)) = DataAt(disk', in', l) BY WalkIs
<1>2. Walk(disk', in', DindirectPlace) = in'.i_dindirect BY WalkIs
<1>3. CASE IsDirect(l)
  <2>1. Leads(l) = <<0, 0, DataAt(disk', in', l)>> BY <1>1, <1>3 DEF Leads
  <2> QED BY <1>3, <2>1 DEF Path, read_block, Entry, DataAt, Ent
<1>4. CASE ~IsDirect(l) /\ IsIndirect(l)
  <2>1. Walk(disk', in', Middle(l)) = in'.i_indirect BY <1>4, WalkIs DEF Middle
  <2>2. Leads(l) = <<in'.i_indirect, 0, DataAt(disk', in', l)>> BY <1>1, <1>4, <2>1 DEF Leads
  <2> QED BY <1>4, <2>2 DEF Path, read_block, Entry, DataAt, Ent
<1>5. CASE ~IsDirect(l) /\ ~IsIndirect(l)
  <2>1. Walk(disk', in', Middle(l)) = Ent(disk', in'.i_dindirect, Outer(l)) BY <1>5, WalkIs DEF Middle
  <2>2. Leads(l) = <<Ent(disk', in'.i_dindirect, Outer(l)), in'.i_dindirect, DataAt(disk', in', l)>>
    BY <1>1, <1>2, <1>5, <2>1 DEF Leads
  <2> QED BY <1>5, <2>2 DEF Path, read_block, Entry, DataAt, Ent
<1> QED BY <1>3, <1>4, <1>5

\* The new blocks are those of the path that have just been allocated.
LEMMA PathBlocks ==
    ASSUME NEW F, Base(F), NEW B, NEW N, WriteStep(F, B, N)
    PROVE  LET l == log_block_nr
               p == Leads(l)
           IN  /\ l \in Log /\ B \subseteq {p[1], p[2], p[3]}
               /\ p[1] \in Ptr /\ p[2] \in Ptr /\ p[3] \in Ptr
               /\ p[1] \in B => p[1] # p[2] /\ p[1] # p[3]
               /\ p[2] \in B => p[2] # p[3]
               /\ DataPlace(l) \in N => p[3] \in B
               /\ ~IsDirect(l) /\ Middle(l) \in N => p[1] \in B
<1> DEFINE l == log_block_nr
           Z(q) == Walk(disk', in', q)
           p == Leads(l)
<1>1. /\ InWrite /\ N \subseteq Place /\ B \subseteq Block
      /\ \A q \in N : Z(q) \in B
      /\ \A b \in B : \E q \in N : Z(q) = b
      /\ N \subseteq PathPlaces(l)
  BY DEF WriteStep
<1>2. TypeOK /\ nr \in F BY <1>1 DEF Base, InWrite
<1>3. l \in Log BY <1>1, <1>2, ChunkIs
<1>4. \A q \in Place : After(nr, q) = Z(q) BY DEF After
<1>5. \A q \in Place : Z(q) \in Ptr BY <1>2, <1>4, WritePlaces
<1>6. \A q, r \in Place : Z(q) # 0 /\ Z(q) = Z(r) => q = r BY <1>2, <1>4, WritePlaces
<1>7. /\ p[1] = IF IsDirect(l) THEN 0 ELSE Z(Middle(l))
      /\ p[2] = IF IsDirect(l) \/ IsIndirect(l) THEN 0 ELSE Z(DindirectPlace)
      /\ p[3] = Z(DataPlace(l))
  BY DEF Leads
<1>8. DataPlace(l) \in Place /\ DindirectPlace \in Place /\ (~IsDirect(l) => Middle(l) \in Place)
  <2>1. DataPlace(l) \in Place /\ DindirectPlace \in Place /\ IndirectPlace \in Place BY <1>3, PlaceKinds
  <2>2. ~IsDirect(l) /\ ~IsIndirect(l) => InnerPlace(Outer(l)) \in Place BY <1>3, DindirectPlaces, PlaceKinds
  <2> QED BY <2>1, <2>2 DEF Middle
<1>9. Middle(l) # DataPlace(l) /\ Middle(l) # DindirectPlace /\ DataPlace(l) # DindirectPlace
  BY PlacesDiffer DEF Middle
<1>10. 0 \in Ptr /\ 0 \notin B BY <1>1, FileBlocksAssumption DEF Ptr, Block
<1> HIDE DEF p, Z
<1>11. B \subseteq {p[1], p[2], p[3]}
  <2>1. ASSUME NEW b \in B PROVE b \in {p[1], p[2], p[3]}
    <3>1. PICK q \in N : Z(q) = b BY <1>1
    <3>2. q \in PathPlaces(l) BY <1>1
    <3>3. \/ q = DataPlace(l) \/ (~IsDirect(l) /\ q = Middle(l))
          \/ (~IsDirect(l) /\ ~IsIndirect(l) /\ q = DindirectPlace)
      BY <3>2 DEF PathPlaces
    <3> QED BY <1>7, <3>1, <3>3
  <2> QED BY <2>1
<1>12. p[1] \in Ptr /\ p[2] \in Ptr /\ p[3] \in Ptr BY <1>5, <1>7, <1>8, <1>10
<1>13. p[1] \in B => p[1] # p[2] /\ p[1] # p[3]
  <2> SUFFICES ASSUME p[1] \in B PROVE p[1] # p[2] /\ p[1] # p[3] OBVIOUS
  <2>1. p[1] # 0 BY <1>10
  <2>2. ~IsDirect(l) /\ p[1] = Z(Middle(l)) BY <1>7, <2>1
  <2>3. p[1] # Z(DindirectPlace) /\ p[1] # Z(DataPlace(l)) BY <1>6, <1>8, <1>9, <2>1, <2>2
  <2> QED BY <1>7, <2>1, <2>3
<1>14. p[2] \in B => p[2] # p[3]
  <2> SUFFICES ASSUME p[2] \in B PROVE p[2] # p[3] OBVIOUS
  <2>1. p[2] # 0 BY <1>10
  <2>2. p[2] = Z(DindirectPlace) BY <1>7, <2>1
  <2> QED BY <1>6, <1>7, <1>8, <1>9, <2>1, <2>2
<1>15. (DataPlace(l) \in N => p[3] \in B) /\ (~IsDirect(l) /\ Middle(l) \in N => p[1] \in B) BY <1>1, <1>7
<1> QED BY <1>3, <1>11, <1>12, <1>13, <1>14, <1>15 DEF p

\* The write adds to the disk: pointers where there were none, and the data of the
\* file where it had zeros or its data.
LEMMA WriteGrows ==
    ASSUME CInv, NEW B, NEW N, WriteStep(named, B, N)
    PROVE  Grows(disk, disk')
<1> DEFINE l == log_block_nr
           z == Walk(disk', in', DataPlace(l))
           old == At(nr, DataPlace(l))
           dk == disk'
<1>1. /\ InWrite /\ B \cap freemap = {} /\ N \subseteq Place
      /\ \A p \in N : Walk(dk, in', p) \in B
      /\ \A p \in Place : p \notin N => Walk(dk, in', p) = At(nr, p)
      /\ z # 0
      /\ dk[z] = NewData(IF old = 0 THEN ZeroBlock ELSE disk[old])
      /\ \A x \in freemap : x # z => \A u \in Unit : disk[x][u] \in {0, dk[x][u]}
  BY DEF WriteStep
<1>2. Base(named) BY BaseNamed
<1>3. TypeOK /\ nr \in named /\ nr \in Inode /\ freemap \subseteq Block
  BY <1>1, <1>2 DEF Base, InWrite, TypeOK
<1>4. l \in Log BY <1>1, <1>3, ChunkIs
<1>5. /\ Zeros(freemap, disk) /\ Copies[nr] = Copy(nr)
      /\ \A off \in Offset : Reads(disk, Copies[nr], off) = IF off \in written[nr] THEN Data(nr) ELSE 0
  BY <1>3, CrashTypes DEF CInv, ViewOK, Sound
<1>6. DataPlace(l) \in Place BY <1>4, PlaceKinds
<1> HIDE DEF l, z, old, dk
<1>7. ASSUME NEW x \in Block, NEW u \in Unit PROVE disk[x][u] \in {0, dk[x][u]}
  <2>1. CASE x \notin freemap
    <3>1. disk[x] = ZeroBlock BY <1>5, <2>1 DEF Zeros
    <3> QED BY <3>1 DEF ZeroBlock
  <2>2. CASE x \in freemap /\ x # z BY <1>1, <2>2
  <2>3. CASE x \in freemap /\ x = z
    <3>1. DataPlace(l) \notin N BY <1>1, <2>3 DEF z, dk
    <3>2. x = old BY <1>1, <1>6, <2>3, <3>1 DEF z, old, dk
    <3>3. x # 0 BY <1>1, <2>3
    <3>4. dk[x] = NewData(disk[x]) BY <1>1, <2>3, <3>2, <3>3
    <3>5. dk[x][u] = IF u \in Chunk THEN Data(nr) ELSE disk[x][u] BY <3>4 DEF NewData
    <3> DEFINE off == l * BLOCK_SIZE + u
    <3>6. off \in Offset /\ off \div BLOCK_SIZE = l /\ off % BLOCK_SIZE = u BY <1>4, UnitOffset
    <3>7. Reads(disk, Copies[nr], off) = Ent(disk, Walk(disk, Copies[nr], DataPlace(l)), u)
      <4> HIDE DEF off
      <4> QED BY <3>6 DEF Reads
    <3>8. Walk(disk, Copies[nr], DataPlace(l)) = x BY <1>5, <3>2 DEF old, At
    <3>9. Reads(disk, Copies[nr], off) = disk[x][u] BY <3>3, <3>7, <3>8 DEF Ent
    <3> HIDE DEF off
    <3>10. disk[x][u] \in {0, Data(nr)} BY <1>5, <3>6, <3>9
    <3> QED BY <3>5, <3>10
  <2> QED BY <2>1, <2>2, <2>3
<1> QED BY <1>7 DEF Grows, dk

\* The inode in memory still extends the one on the device.
LEMMA WriteExtends ==
    ASSUME CInv, NEW B, NEW N, WriteStep(named, B, N)
    PROVE  Extends(dinode[nr], in')
<1>1. InWrite BY DEF WriteStep
<1>2. Base(named) BY BaseNamed
<1>3. nr \in named /\ pc = "write" BY <1>1, <1>2 DEF Base, InWrite
<1>4. \A p \in Place : At(nr, p) \in {0, After(nr, p)} BY <1>2, <1>3, WritePlaces
<1>5. \A p \in Place : Walk(disk, in, p) \in {0, Walk(disk', in', p)} BY <1>3, <1>4 DEF At, After, Copy
<1>6. in.i_indirect \in {0, in'.i_indirect} /\ in.i_dindirect \in {0, in'.i_dindirect}
  BY <1>5, WalkIs, PlaceKinds
<1>7. ASSUME NEW i \in Direct PROVE in.i_block_nr[i] \in {0, in'.i_block_nr[i]}
  <2>1. i \in Log /\ IsDirect(i) BY Sizes DEF Log, Direct, IsDirect
  <2>2. DataPlace(i) \in Place BY <2>1, PlaceKinds
  <2>3. Walk(disk, in, DataPlace(i)) = in.i_block_nr[i] BY <2>1, WalkIs DEF DataAt
  <2>4. Walk(disk', in', DataPlace(i)) = in'.i_block_nr[i] BY <2>1, WalkIs DEF DataAt
  <2> QED BY <1>5, <2>2, <2>3, <2>4
<1>8. Extends(dinode[nr], in) BY <1>3 DEF CInv, WritingNamed
<1> QED BY <1>6, <1>7, <1>8 DEF Extends

\* The disk on which the blocks X have been written.
Mixed(X) == [b \in Block |-> IF b \in X THEN disk'[b] ELSE disk[b]]

LEMMA PutRun ==
    ASSUME NEW G, NEW fm, NEW u, NEW is, NEW di, NEW nm, NEW X, NEW b \in Ptr,
           Dev(fm, u, is, Mixed(X), di, nm) \in G, Dev(fm, u, is, Mixed(X \cup {b}), di, nm) \in G
    PROVE  Runs(Dev(fm, u, is, Mixed(X), di, nm), Put(b, disk'), G,
                Dev(fm, u, is, Mixed(X \cup {b}), di, nm))
<1> DEFINE d == Dev(fm, u, is, Mixed(X), di, nm)
           e == Dev(fm, u, is, Mixed(X \cup {b}), di, nm)
<1>1. CASE b = 0
  <2>1. Put(b, disk') = <<>> BY <1>1 DEF Put
  <2>2. 0 \notin Block BY FileBlocksAssumption DEF Block
  <2>3. Mixed(X \cup {b}) = Mixed(X) BY <1>1, <2>2 DEF Mixed
  <2>4. d = e BY <2>3
  <2> HIDE DEF d, e
  <2>5. Runs(d, <<>>, G, d) BY RunNone DEF d
  <2> QED BY <2>1, <2>4, <2>5 DEF d, e
<1>2. CASE b # 0
  <2>1. Put(b, disk') = <<WAt("disk", b, disk'[b])>> BY <1>2 DEF Put
  <2>2. b \in Block BY <1>2 DEF Ptr
  <2>3. [Mixed(X) EXCEPT ![b] = disk'[b]] = Mixed(X \cup {b}) BY <2>2 DEF Mixed
  <2>4. write_blocks(d, WAt("disk", b, disk'[b])) = e BY <1>2, <2>3, WriteDiskBlock
  <2> DEFINE w == WAt("disk", b, disk'[b])
  <2> HIDE DEF d, e, w
  <2>5. Runs(d, <<w>>, G, e)
    <3>1. write_blocks(d, w) = e BY <2>4 DEF w
    <3> QED BY <3>1, RunOne DEF d, e
  <2> QED BY <2>1, <2>5 DEF d, e, w
<1> QED BY <1>1, <1>2

\* What the process sees after the step is in order.
LEMMA WriteSound ==
    ASSUME CInv, NEW B, NEW N, WriteStep(named, B, N), named' = named, crashes' = crashes
    PROVE  /\ ViewOK' /\ Drift(freemap', used', crashes)
           /\ \A f \in named : Copies'[f] = IF f = nr THEN in' ELSE dinode[f]
<1>1. /\ InWrite /\ Advance /\ B \subseteq Block /\ B \cap freemap = {}
      /\ freemap' = freemap \cup B /\ used' = used + Cardinality(B)
      /\ \A x \in Block : x \notin freemap \cup B => disk'[x] = disk[x]
  BY DEF WriteStep
<1>2. Base(named) BY BaseNamed
<1>3. /\ freemap \in SUBSET Block /\ used \in Nat /\ named \subseteq inodes /\ crashes \in Nat
      /\ named \subseteq Inode /\ \A f \in Inode : Copies[f] = Copy(f)
  BY CrashTypes
<1>4. Sound(freemap, used, inodes, disk, Copies, named, written, crashes) BY DEF CInv, ViewOK
<1>5. pc' = "write" /\ nr' = nr /\ dinode' = dinode /\ inodes' = inodes BY <1>1 DEF Advance, InWrite
<1> DEFINE cp == Copies'
           dk == disk'
           fm == freemap \cup B
           wr == written'
           u == used + Cardinality(B)
<1>6. \A f \in named : cp[f] = IF f = nr THEN in' ELSE dinode[f] BY <1>3, <1>5 DEF Copies, Copy
<1>7. \A f \in named, p \in Place : After(f, p) = Walk(dk, cp[f], p) BY <1>6 DEF After
<1>8. \A f \in named, p \in Place : At(f, p) = Walk(disk, Copies[f], p) BY <1>3 DEF At
<1>9. /\ \A f \in named, p \in Place :
            /\ After(f, p) \in Ptr /\ (After(f, p) # 0 => After(f, p) \in fm)
            /\ After(f, p) = At(f, p) \/ After(f, p) \in B
      /\ \A f, g \in named : \A p, q \in Place :
            After(f, p) # 0 /\ After(f, p) = After(g, q) => f = g /\ p = q
  BY <1>2, WritePlaces
<1> HIDE DEF cp, dk, fm, wr, u
<1>10. Placed(named, fm, dk, cp) BY <1>7, <1>9 DEF Placed
<1>11. \A f \in named, off \in Offset : DataPlace(off \div BLOCK_SIZE) \in Place BY OffsetParts, PlaceKinds
<1>12. \A f \in named, off \in Offset :
          Ent(disk, At(f, DataPlace(off \div BLOCK_SIZE)), off % BLOCK_SIZE)
            = IF off \in written[f] THEN Data(f) ELSE 0
  BY <1>4, <1>8, <1>11 DEF Sound, Reads
<1>13. \A f \in named, off \in Offset :
          Ent(disk', After(f, DataPlace(off \div BLOCK_SIZE)), off % BLOCK_SIZE)
            = IF off \in written'[f] THEN Data(f) ELSE 0
  BY <1>2, <1>12, WriteUnits
<1>14. \A f \in named, off \in Offset : Reads(dk, cp[f], off) = IF off \in wr[f] THEN Data(f) ELSE 0
  BY <1>7, <1>11, <1>13 DEF Reads, dk, wr
<1>15. Zeros(fm, dk) BY <1>1, <1>4 DEF Sound, Zeros, fm, dk
<1> DEFINE O == Owned(named, disk, Copies)
           P == Owned(named, dk, cp)
<1>16. IsFiniteSet(B) /\ Cardinality(B) \in Nat /\ IsFiniteSet(freemap) /\ Cardinality(freemap) \in Nat
       /\ IsFiniteSet(O) /\ Cardinality(O) \in Nat
  <2>1. O \subseteq Block BY DEF Owned
  <2> HIDE DEF O
  <2> QED BY <1>1, <1>3, <2>1, BlockSets
<1>17. Cardinality(fm) = Cardinality(freemap) + Cardinality(B)
  <2>1. freemap \cap B = {} BY <1>1
  <2>2. Cardinality(freemap \cap B) = 0 BY <2>1, FS_EmptySet
  <2>3. Cardinality(freemap \cup B) = Cardinality(freemap) + Cardinality(B) - Cardinality(freemap \cap B)
    BY <1>16, FS_Union
  <2> QED BY <1>16, <2>2, <2>3 DEF fm
<1>18. Drift(fm, u, crashes)
  <2>1. used - Cardinality(freemap) \in -crashes .. crashes BY <1>4 DEF Sound, Drift
  <2> QED BY <1>3, <1>16, <1>17, <2>1 DEF Drift, u
<1>19. P \subseteq O \cup B
  <2>1. ASSUME NEW b \in P PROVE b \in O \cup B
    <3>1. b \in Block BY DEF Owned
    <3>2. PICK f \in named, p \in Place : Walk(dk, cp[f], p) = b BY DEF Owned
    <3>3. b = Walk(disk, Copies[f], p) \/ b \in B BY <1>7, <1>8, <1>9, <3>2
    <3> QED BY <3>1, <3>3 DEF Owned
  <2> QED BY <2>1
<1> HIDE DEF O, P
<1>20. Cardinality(P) <= u
  <2>1. IsFiniteSet(O \cup B) /\ Cardinality(O \cup B) = Cardinality(O) + Cardinality(B) - Cardinality(O \cap B)
    BY <1>16, FS_Union
  <2>2. IsFiniteSet(O \cap B) BY <1>16, FS_Intersection
  <2>3. Cardinality(O \cap B) \in Nat BY <2>2, FS_CardinalityType
  <2>4. Cardinality(P) <= Cardinality(O \cup B) /\ IsFiniteSet(P) BY <1>19, <2>1, FS_Subset
  <2>5. Cardinality(P) \in Nat BY <2>4, FS_CardinalityType
  <2>6. Cardinality(O) <= used BY <1>4 DEF Sound, O
  <2> QED BY <1>3, <1>16, <2>1, <2>3, <2>4, <2>5, <2>6 DEF u
<1>21. Sound(fm, u, inodes, dk, cp, named, wr, crashes)
  BY <1>3, <1>10, <1>14, <1>15, <1>18, <1>20 DEF Sound, P
<1>22. ViewOK' BY <1>1, <1>5, <1>21 DEF ViewOK, fm, u, dk, cp, wr
<1> QED BY <1>1, <1>6, <1>18, <1>22 DEF fm, u, cp

\* With the blocks marked, any of them may have been written.
LEMMA WriteMixed ==
    ASSUME CInv, View \in Good(synced, crashes), NEW B, NEW N, WriteStep(named, B, N),
           named' = named, crashes' = crashes, NEW X
    PROVE  Dev(freemap', used', inodes, Mixed(X), dinode, named) \in Good(synced, crashes)
<1> DEFINE fm == freemap'
           u == used'
           cp == Copies'
           dk == disk'
           mx == Mixed(X)
           d == Dev(fm, u, inodes, mx, dinode, named)
<1>1. /\ InWrite /\ B \subseteq Block /\ fm = freemap \cup B /\ u = used + Cardinality(B) /\ u <= MaxFsBlocks
      /\ dk \in Disks /\ \A x \in Block : x \notin fm => dk[x] = disk[x]
  BY DEF WriteStep, Disks
<1>2. /\ freemap \in SUBSET Block /\ used \in Nat /\ named \subseteq inodes /\ crashes \in Nat
      /\ named \in SUBSET Inode /\ inodes \in SUBSET Inode /\ disk \in Disks /\ dinode \in [Inode -> Dinodes]
      /\ View = Dev(freemap, used, inodes, disk, dinode, named)
  BY CrashTypes
<1>3. /\ ViewOK' /\ Drift(fm, u, crashes)
      /\ \A f \in named : cp[f] = IF f = nr THEN in' ELSE dinode[f]
  BY WriteSound
<1>4. Grows(disk, dk) BY WriteGrows
<1>5. Extends(dinode[nr], in') BY WriteExtends
<1>6. \A f \in named, off \in Offset :
         off \in synced[f] => Reads(disk, dinode[f], off) = Data(f) /\ off < dinode[f].i_size
  <2>1. /\ View.disk = disk /\ View.dinode = dinode /\ View.named = named BY DEF View
  <2> QED BY <2>1 DEF Good, Safe
<1>7. Cardinality(B) \in Nat /\ Cardinality(freemap) \in Nat BY <1>1, <1>2, BlockSets
<1>8. Zeros(freemap, disk) BY DEF CInv, ViewOK, Sound
<1>9. /\ Placed(named, fm, dk, cp)
      /\ \A f \in named, off \in Offset : Reads(dk, cp[f], off) \in {0, Data(f)}
      /\ Cardinality(Owned(named, dk, cp)) <= u
  BY <1>3 DEF ViewOK, Sound
<1> HIDE DEF cp, dk, u, fm
<1>10. mx \in Disks /\ \A b \in Block : mx[b] = IF b \in X THEN dk[b] ELSE disk[b]
  BY <1>1, <1>2 DEF Mixed, dk, Disks
<1> HIDE DEF mx
<1>11. Grows(mx, dk) /\ Grows(disk, mx) BY <1>4, <1>10 DEF Grows
<1>12. fm \in SUBSET Block /\ u \in 0 .. MaxFsBlocks
  <2>1. MaxFsBlocks \in Nat BY FileBlocksAssumption
  <2> QED BY <1>1, <1>2, <1>7, <2>1
<1>13. d \in Devices BY <1>2, <1>10, <1>12, DevType
<1>14. /\ d.freemap = fm /\ d.used = u /\ d.inodes = inodes /\ d.disk = mx /\ d.dinode = dinode /\ d.named = named
  BY DevParts
<1> HIDE DEF d
<1>15. \A f \in named : Extends(dinode[f], cp[f]) /\ Extends(dinode[f], dinode[f])
  BY <1>3, <1>5 DEF Extends
<1>16. Below(d, dk, cp) BY <1>9, <1>11, <1>14, <1>15 DEF Below
<1>17. Above(d, disk, dinode, synced) BY <1>6, <1>11, <1>14, <1>15 DEF Above
<1>18. Zeros(d.freemap, d.disk)
  <2>1. ASSUME NEW b \in Block, b \notin fm PROVE mx[b] = ZeroBlock
    <3>1. b \notin freemap /\ dk[b] = disk[b] BY <1>1, <2>1
    <3>2. disk[b] = ZeroBlock BY <1>8, <3>1 DEF Zeros
    <3> QED BY <1>10, <3>1, <3>2
  <2> QED BY <1>14, <2>1 DEF Zeros
<1>19. Drift(d.freemap, d.used, crashes + 1)
  <2>1. Cardinality(fm) \in Nat BY <1>12, BlockSets
  <2>2. u \in Int BY <1>12
  <2> QED BY <1>2, <1>3, <1>14, <2>1, <2>2 DEF Drift
<1>20. d.named \subseteq d.inodes BY <1>2, <1>14
<1>21. d \in Good(synced, crashes) BY ONLY <1>13, <1>16, <1>17, <1>18, <1>19, <1>20, Between
<1> QED BY <1>21 DEF d, fm, u, mx

\* The blocks are marked and then written; the last block write makes the device what
\* the process sees.
LEMMA PathRun ==
    ASSUME CInv, View \in Good(synced, crashes), NEW B, NEW N, WriteStep(named, B, N),
           named' = named, crashes' = crashes
    PROVE  Runs(View, path_writes(Leads(log_block_nr), B, disk'), Good(synced, crashes), View')
<1> DEFINE l == log_block_nr
           p == Leads(l)
           s == FromRoot(p, B)
           G == Good(synced, crashes)
           M(X) == Dev(freemap', used', inodes, Mixed(X), dinode, named)
           x1 == IF p[3] \in B THEN p[1] ELSE 0
           x2 == IF p[1] \in B THEN p[2] ELSE 0
           x3 == p[3]
<1>1. /\ InWrite /\ Advance /\ B \subseteq Block /\ B \cap freemap = {}
      /\ freemap' = freemap \cup B /\ used' = used + Cardinality(B) /\ used' <= MaxFsBlocks
      /\ disk' \in Disks
      /\ \A x \in Block : disk'[x] # disk[x] => OnPath(x, l, N, LAMBDA q : Walk(disk', in', q))
  BY DEF WriteStep, Disks
<1>2. Base(named) BY BaseNamed
<1>3. /\ l \in Log /\ B \subseteq {p[1], p[2], p[3]}
      /\ p[1] \in Ptr /\ p[2] \in Ptr /\ p[3] \in Ptr
      /\ p[1] \in B => p[1] # p[2] /\ p[1] # p[3]
      /\ p[2] \in B => p[2] # p[3]
      /\ DataPlace(l) \in N => p[3] \in B
      /\ ~IsDirect(l) /\ Middle(l) \in N => p[1] \in B
  BY <1>2, PathBlocks
<1>4. /\ p[1] = IF IsDirect(l) THEN 0 ELSE Walk(disk', in', Middle(l))
      /\ p[2] = IF IsDirect(l) \/ IsIndirect(l) THEN 0 ELSE Walk(disk', in', DindirectPlace)
      /\ p[3] = Walk(disk', in', DataPlace(l))
  BY DEF Leads
<1> HIDE DEF p
<1>5. /\ s \in Seq(Block) /\ Take(s, Len(s)) = B /\ Len(s) = Cardinality(B)
      /\ \A i, j \in 1 .. Len(s) : s[i] = s[j] => i = j
  BY <1>1, <1>3, FromRootIs
<1>6. /\ freemap \in SUBSET Block /\ used \in 0 .. MaxFsBlocks
      /\ named \in SUBSET Inode /\ inodes \in SUBSET Inode /\ disk \in Disks /\ dinode \in [Inode -> Dinodes]
      /\ crashes \in Nat /\ View = Dev(freemap, used, inodes, disk, dinode, named)
  BY CrashTypes
<1>7. Drift(freemap, used, crashes) BY DEF CInv, ViewOK, Sound
<1> HIDE DEF s
<1>8. Runs(View, alloc_writes(freemap, used, s), G, M({}))
  <2>1. \A i \in 1 .. Len(s) : s[i] \notin freemap
    <3>1. \A i \in 1 .. Len(s) : s[i] \in B BY <1>5 DEF Take
    <3> QED BY <1>1, <3>1
  <2>2. used + Len(s) <= MaxFsBlocks BY <1>1, <1>5
  <2>3. Dev(freemap, used, inodes, disk, dinode, named) \in Good(synced, crashes) BY <1>6
  <2>4. Runs(Dev(freemap, used, inodes, disk, dinode, named), alloc_writes(freemap, used, s), Good(synced, crashes),
             Dev(freemap \cup Take(s, Len(s)), used + Len(s), inodes, disk, dinode, named))
    BY ONLY <1>5, <1>6, <1>7, <2>1, <2>2, <2>3, AllocSafe
  <2>5. Mixed({}) = disk BY <1>6 DEF Mixed, Disks
  <2> QED BY <1>1, <1>5, <1>6, <2>4, <2>5
<1>9. \A X : M(X) \in G BY WriteMixed
<1>10. x1 \in Ptr /\ x2 \in Ptr /\ x3 \in Ptr BY <1>3 DEF Ptr
<1>11. tree_writes(p, B, disk') = Put(x1, disk') \o Put(x2, disk') \o Put(x3, disk') BY DEF tree_writes
<1> DEFINE X1 == {} \cup {x1}
           X2 == X1 \cup {x2}
           X3 == X2 \cup {x3}
<1>12. Mixed(X3) = disk'
  <2>1. ASSUME NEW x \in Block, x \notin X3 PROVE disk'[x] = disk[x]
    <3> SUFFICES ASSUME disk'[x] # disk[x] PROVE FALSE OBVIOUS
    <3>1. OnPath(x, l, N, LAMBDA q : Walk(disk', in', q)) BY <1>1
    <3>2. \/ x = p[3]
          \/ DataPlace(l) \in N /\ x = p[1]
          \/ ~IsDirect(l) /\ Middle(l) \in N /\ x = p[2]
      BY <1>4, <3>1 DEF OnPath
    <3>3. x \in {x1, x2, x3} BY <1>3, <3>2
    <3> QED BY <2>1, <3>3
  <2> HIDE DEF X3
  <2>2. disk' = [b \in Block |-> disk'[b]] BY <1>1 DEF Disks
  <2> QED BY <2>1, <2>2 DEF Mixed
<1>13. Runs(M({}), Put(x1, disk'), G, M(X1)) BY <1>9, <1>10, PutRun
<1> HIDE DEF x1, x2, x3, G
<1>14. Runs(M(X1), Put(x2, disk'), G, M(X2))
  <2> HIDE DEF X1
  <2> QED BY <1>9, <1>10, PutRun
<1>15. Runs(M(X2), Put(x3, disk'), G, M(X3))
  <2> HIDE DEF X2
  <2> QED BY <1>9, <1>10, PutRun
<1>16. M(X3) = View'
  <2>1. dinode' = dinode /\ inodes' = inodes BY <1>1 DEF Advance
  <2> QED BY <1>12, <2>1 DEF View, Dev
<1> DEFINE d0 == M({})
           d1 == M(X1)
           d2 == M(X2)
           d3 == M(X3)
           w0 == alloc_writes(freemap, used, s)
           w1 == Put(x1, disk')
           w2 == Put(x2, disk')
           w3 == Put(x3, disk')
<1> HIDE DEF d0, d1, d2, d3, w0, w1, w2, w3
<1>17. Runs(View, w0, G, d0) /\ Runs(d0, w1, G, d1) /\ Runs(d1, w2, G, d2) /\ Runs(d2, w3, G, d3)
  BY <1>8, <1>13, <1>14, <1>15 DEF d0, d1, d2, d3, w0, w1, w2, w3
<1>18. Runs(d0, w1 \o w2, G, d2) BY ONLY <1>17, RunJoin
<1>19. Runs(d0, (w1 \o w2) \o w3, G, d3) BY ONLY <1>17, <1>18, RunJoin
<1>20. Runs(View, w0 \o ((w1 \o w2) \o w3), G, d3) BY ONLY <1>17, <1>19, RunJoin
<1>21. path_writes(p, B, disk') = w0 \o ((w1 \o w2) \o w3)
  BY <1>11 DEF path_writes, w0, w1, w2, w3, s
<1>22. Runs(View, path_writes(p, B, disk'), G, d3) BY <1>20, <1>21
<1> QED BY <1>16, <1>22 DEF G, d3, p

LEMMA CrashWriteBlock ==
    ASSUME CInv, write_block
    PROVE  CInv'
<1>1. PICK l \in {log_block_nr} :
         /\ write_existing \/ write_direct \/ write_indirect \/ write_dindirect
         /\ Does(path_writes(Path(in, l)', freemap' \ freemap, disk'))
         /\ named' = named
  BY DEF write_block
<1>2. Base(named) BY BaseNamed
<1>3. PICK B, N : WriteStep(named, B, N)
  BY <1>1, <1>2, ExistingStep, DirectStep, IndirectStep, DindirectStep
<1>4. /\ InWrite /\ Advance /\ B \cap freemap = {} /\ freemap' = freemap \cup B
      /\ dirty' \in BOOLEAN /\ (~dirty' => ~dirty /\ in' = in)
  BY <1>3 DEF WriteStep
<1>5. /\ pc = "write" /\ pc' = "write" /\ nr' = nr /\ dinode' = dinode /\ inodes' = inodes
      /\ written' = [written EXCEPT ![nr] = @ \cup {l * BLOCK_SIZE + u : u \in Chunk}]
  BY <1>4 DEF Advance, InWrite
<1>6. /\ pending = <<>> /\ dev' = dev /\ synced' = synced /\ crashes' = crashes /\ stale' = stale
      /\ Issues(path_writes(Path(in, l)', freemap' \ freemap, disk'))
  BY <1>1 DEF Does, Issues
<1>7. dev = View /\ View \in Good(synced, crashes) BY <1>5, <1>6, CrashReady
<1>8. l \in Log
  <2>1. TypeOK BY <1>2 DEF Base
  <2> QED BY <1>4, <2>1, ChunkIs
<1>9. Path(in, l)' = Leads(l) BY <1>8, PathIs
<1>10. freemap' \ freemap = B BY <1>4
<1>11. DeviceOK'
  <2> DEFINE ws == path_writes(Leads(l), B, disk')
  <2>1. Runs(View, ws, Good(synced, crashes), View') BY <1>1, <1>3, <1>6, <1>7, PathRun
  <2>2. Issues(ws) BY <1>6, <1>9, <1>10
  <2> HIDE DEF ws
  <2> QED BY <1>7, <2>1, <2>2, CrashDoes
<1>12. ViewOK' BY <1>1, <1>3, <1>6, WriteSound
<1>13. Extends(dinode[nr], in') BY <1>3, WriteExtends
<1>14. /\ nr \in named /\ start <= pos /\ (~dirty => in = dinode[nr]) /\ in.i_size = dinode[nr].i_size
       /\ in'.i_size = in.i_size
  BY <1>3, <1>5 DEF CInv, WritingNamed, WriteStep
<1>15. TypeOK' /\ start' <= pos' /\ pos' <= end' /\ pos' <= MAX_FILE_SIZE
  BY <1>2, <1>3, <1>14, WriteGoesOn DEF Base
<1>16. CrashTypeOK' BY <1>6, <1>15 DEF CInv, CrashTypeOK
<1>17. WritingNamed'
  BY <1>1, <1>4, <1>5, <1>13, <1>14, <1>15 DEF WritingNamed, MAX_FILE_SIZE, MAX_BLOCK_NR, NR_INDIRECT_BLOCKS
<1>18. HistoryOK'
  <2>1. written \in [Inode -> SUBSET Offset] BY <1>2 DEF Base, TypeOK
  <2>2. \A f \in Inode \ named : written'[f] = written[f] BY <1>5, <1>14, <2>1
  <2>3. \A f \in named : f \in Inode /\ written[f] \subseteq written'[f]
    <3>1. named \subseteq Inode BY <1>2 DEF Base
    <3> QED BY <1>5, <2>1, <3>1
  <2>4. /\ \A f \in Inode \ named : written[f] = {} /\ synced[f] = {}
        /\ Covers(named, written, dinode, synced)
    BY <1>5 DEF CInv, HistoryOK
  <2>5. Covers(named, written', dinode, synced) BY <2>3, <2>4 DEF Covers
  <2> QED BY <1>1, <1>5, <1>6, <2>2, <2>4, <2>5 DEF HistoryOK
<1>19. KeptReadable'
  <2>1. TypeOK BY <1>2 DEF Base
  <2> QED BY <1>3, <2>1, KeptWrite DEF CInv
<1> QED BY <1>11, <1>12, <1>16, <1>17, <1>18, <1>19 DEF CInv

LEMMA CrashNextKeeps ==
    ASSUME CInv, ~stale', [CrashNext]_allVars
    PROVE  CInv'
<1>1. ASSUME NEW f \in Inode, create(f) \/ create_fail(f) \/ write(f) \/ remove(f) PROVE CInv'
  BY <1>1, CrashCreate, CrashCreateFail, CrashWrite, CrashRemove
<1>2. CASE write_block BY <1>2, CrashWriteBlock
<1>3. CASE write_end BY <1>3, CrashWriteEnd
<1>4. CASE device_write BY <1>4, CrashDeviceWrite
<1>5. CASE crash BY <1>5, CrashCrash
<1>6. CASE UNCHANGED allVars
  <2>1. /\ freemap' = freemap /\ used' = used /\ inodes' = inodes /\ disk' = disk /\ dinode' = dinode /\ pc' = pc
        /\ nr' = nr /\ in' = in /\ dirty' = dirty /\ start' = start /\ pos' = pos /\ end' = end
        /\ written' = written /\ kept' = kept
        /\ named' = named /\ dev' = dev /\ pending' = pending /\ synced' = synced /\ crashes' = crashes
        /\ stale' = stale
    BY <1>6 DEF allVars, vars, crashVars
  <2>2. Copies' = Copies /\ View' = View BY <2>1 DEF Copies, Copy, View
  <2>3. CrashTypeOK' BY <2>1 DEF CInv, CrashTypeOK, TypeOK
  <2>4. ViewOK' BY <2>1, <2>2 DEF CInv, ViewOK
  <2>5. WritingNamed' BY <2>1 DEF CInv, WritingNamed
  <2>6. HistoryOK' BY <2>1 DEF CInv, HistoryOK
  <2>7. DeviceOK' BY <2>1, <2>2 DEF CInv, DeviceOK
  <2>8. KeptReadable'
    <3>1. \A f : Copy(f)' = Copy(f) BY <2>1 DEF Copy
    <3> QED BY <2>1, <3>1 DEF CInv, KeptReadable, Kept, Inode, Offset, MAX_FILE_SIZE, MAX_BLOCK_NR, NR_INDIRECT_BLOCKS
  <2> QED BY <2>3, <2>4, <2>5, <2>6, <2>7, <2>8 DEF CInv
<1> QED BY <1>1, <1>2, <1>3, <1>4, <1>5, <1>6 DEF CrashNext

\* Once a command has taken an inode that was not zeroed, that remains so.
LEMMA StaleStays ==
    ASSUME stale, [CrashNext]_allVars
    PROVE  stale'
<1>1. \A ws : ~Issues(ws) BY DEF Issues
<1>2. \A ws : ~Does(ws) BY <1>1 DEF Does
<1>3. \A f \in Inode : ~create(f) /\ ~write(f) /\ ~remove(f) BY <1>1, <1>2 DEF create, write, remove
<1>4. \A f \in Inode : ~create_fail(f) BY <1>1, <1>2 DEF create_fail
<1>5. ~write_block /\ ~write_end BY <1>2 DEF write_block, write_end
<1>6. device_write \/ crash \/ UNCHANGED allVars BY <1>3, <1>4, <1>5 DEF CrashNext
<1> QED BY <1>6 DEF device_write, crash, allVars, crashVars

LEMMA CrashInvariant == CrashSpec => [](stale \/ CInv)
<1>1. CrashInit => stale \/ CInv BY CrashStarts
<1>2. (stale \/ CInv) /\ [CrashNext]_allVars => (stale \/ CInv)' BY CrashNextKeeps, StaleStays
<1> QED BY <1>1, <1>2, PTL DEF CrashSpec

-----------------------------------------------------------------------------
(* What is found on the device *)

\* The device is one of those from which the process can be started again.
LEMMA DeviceSafe ==
    ASSUME CInv
    PROVE  dev \in Devices /\ Safe(dev, synced, crashes)
<1>1. PICK d : Runs(dev, pending, Good(synced, crashes), d) BY DEF CInv, DeviceOK
<1>2. dev \in Good(synced, crashes) BY <1>1, RunEnds
<1> QED BY <1>2 DEF Good

LEMMA DeviceReads ==
    ASSUME NEW n, NEW off
    PROVE  Device!stored_unit(n, off) = Reads(dev.disk, n, off)
<1>1. Walk(dev.disk, n, DataPlace(off \div BLOCK_SIZE)) = DataAt(dev.disk, n, off \div BLOCK_SIZE) BY WalkIs
<1>2. Device!stored_unit(n, off) = Ent(dev.disk, DataAt(dev.disk, n, off \div BLOCK_SIZE), off % BLOCK_SIZE)
  BY DEF Device!stored_unit, Device!read_block, Device!Entry, DataAt, Ent, Device!NR_INDIRECT_BLOCKS,
         Device!IsDirect, Device!IsIndirect, Device!InIndirect, Device!InDindirect, Device!Outer, Device!Inner,
         NR_INDIRECT_BLOCKS, IsDirect, IsIndirect, InIndirect, InDindirect, Outer, Inner
<1> QED BY <1>1, <1>2 DEF Reads

LEMMA DeviceRefsAre ==
    ASSUME NEW f
    PROVE  DeviceRefs(f) = HeldOn(dev.disk, dev.dinode[f])
<1> DEFINE n == dev.dinode[f]
           e == MAX_BLOCK_NR
           dk == dev.disk
<1>1. e \in Nat /\ e <= e BY Sizes
<1>2. \A p \in Place : Visited(e, p) BY AllVisited
<1>3. DeviceRefs(f) = Device!Refs(n, e) BY DEF DeviceRefs
<1> HIDE DEF n, e
<1>4. Device!Refs(n, e) =
        {<<p, Walk(dk, n, p)>> : p \in {q \in Place : Walk(dk, n, q) # 0 /\ (q = IndirectPlace \/ Visited(e, q))}}
  BY <1>1, DeviceRefsIs DEF e
<1>5. {q \in Place : Walk(dk, n, q) # 0 /\ (q = IndirectPlace \/ Visited(e, q))}
        = {q \in Place : Walk(dk, n, q) # 0}
  BY <1>2
<1>6. Device!Refs(n, e) = HeldOn(dk, n) BY <1>4, <1>5 DEF HeldOn
<1> QED BY <1>3, <1>6 DEF n

\* The blocks of a file with a name.
LEMMA DeviceBlocksAre ==
    ASSUME CInv, NEW f \in dev.named
    PROVE  LET n == dev.dinode[f] IN
           /\ Blocks(DeviceRefs(f)) = OwnOn(dev.disk, n) /\ OwnOn(dev.disk, n) \subseteq dev.freemap
           /\ Cardinality(DeviceRefs(f)) = Cardinality(OwnOn(dev.disk, n))
<1> DEFINE n == dev.dinode[f]
           dk == dev.disk
           fm == dev.freemap
<1>1. dev \in Devices /\ Placed(dev.named, fm, dk, dev.dinode) BY DeviceSafe DEF Safe
<1>2. fm \subseteq Block BY <1>1 DEF Devices
<1>3. /\ \A p \in Place : Walk(dk, n, p) # 0 => Walk(dk, n, p) \in fm
      /\ \A p, q \in Place : Walk(dk, n, p) # 0 /\ Walk(dk, n, p) = Walk(dk, n, q) => p = q
  BY <1>1 DEF Placed
<1>4. DeviceRefs(f) = HeldOn(dk, n) BY DeviceRefsAre
<1> HIDE DEF n, dk, fm
<1>5. /\ Blocks(HeldOn(dk, n)) = OwnOn(dk, n) /\ OwnOn(dk, n) \subseteq fm
      /\ Cardinality(HeldOn(dk, n)) = Cardinality(OwnOn(dk, n))
  BY ONLY <1>2, <1>3, HeldOnOnce
<1> QED BY <1>4, <1>5 DEF n, dk, fm

\* For any block size and any device: until a command takes an inode that a death has
\* left with its blocks, whenever the process dies, and however often it has died
\* before, the files that have a name on the device refer only to blocks that are
\* marked, each to its own.
THEOREM FilesStayApart == CrashSpec => []FilesKeptApart
<1>1. stale \/ CInv => FilesKeptApart
  <2> SUFFICES ASSUME CInv PROVE FilesKeptApart BY DEF FilesKeptApart
  <2>1. dev.named \subseteq dev.inodes /\ Placed(dev.named, dev.freemap, dev.disk, dev.dinode)
    BY DeviceSafe DEF Safe
  <2>2. ASSUME NEW f \in dev.named
        PROVE  /\ Blocks(DeviceRefs(f)) \subseteq dev.freemap
               /\ Cardinality(Blocks(DeviceRefs(f))) = Cardinality(DeviceRefs(f))
    BY DeviceBlocksAre
  <2>3. ASSUME NEW f \in dev.named, NEW g \in dev.named, f # g
        PROVE  Blocks(DeviceRefs(f)) \cap Blocks(DeviceRefs(g)) = {}
    <3>1. /\ Blocks(DeviceRefs(f)) = OwnOn(dev.disk, dev.dinode[f])
          /\ Blocks(DeviceRefs(g)) = OwnOn(dev.disk, dev.dinode[g])
      BY DeviceBlocksAre
    <3>2. ASSUME NEW b \in OwnOn(dev.disk, dev.dinode[f]), b \in OwnOn(dev.disk, dev.dinode[g]) PROVE FALSE
      <4>1. b # 0 BY DEF OwnOn
      <4>2. PICK p \in Place : Walk(dev.disk, dev.dinode[f], p) = b BY DEF OwnOn
      <4>3. PICK q \in Place : Walk(dev.disk, dev.dinode[g], q) = b BY <3>2 DEF OwnOn
      <4> QED BY <2>1, <2>3, <4>1, <4>2, <4>3 DEF Placed
    <3> QED BY <3>1, <3>2
  <2> QED BY <2>1, <2>2, <2>3 DEF FilesKeptApart
<1> QED BY <1>1, CrashInvariant, PTL

\* Until then, whenever the process dies, all that the write commands that were over
\* had written to the files that still have a name can be read from the device, up to
\* the size it has for the file - all but those that failed without allocating a
\* block -, and nothing that was never written to them; and between two parts of a
\* command nothing is left to write.
THEOREM WritesSurvive == CrashSpec => []FinishedWritesSurvive
<1>1. stale \/ CInv => FinishedWritesSurvive
  <2> SUFFICES ASSUME CInv PROVE FinishedWritesSurvive BY DEF FinishedWritesSurvive
  <2>1. \A f \in dev.named, off \in Offset :
          /\ Reads(dev.disk, dev.dinode[f], off) \in {0, Data(f)}
          /\ off \in synced[f] => Reads(dev.disk, dev.dinode[f], off) = Data(f) /\ off < dev.dinode[f].i_size
    BY DeviceSafe DEF Safe
  <2>2. ASSUME NEW f \in dev.named, NEW off \in Offset
        PROVE  LET u == Device!read_unit(dev.dinode[f], off) IN
               u \in {NoData, 0, Data(f)} /\ (off \in synced[f] => u = Data(f))
    <3>1. Device!stored_unit(dev.dinode[f], off) = Reads(dev.disk, dev.dinode[f], off) BY DeviceReads
    <3>2. Device!read_unit(dev.dinode[f], off)
            = IF off < dev.dinode[f].i_size THEN Reads(dev.disk, dev.dinode[f], off) ELSE NoData
      BY <3>1 DEF Device!read_unit, Device!NoData, NoData
    <3> QED BY <2>1, <3>2
  <2>3. pending = <<>> /\ pc # "abort" => dev = View BY CrashReady
  <2> QED BY <2>2, <2>3 DEF FinishedWritesSurvive
<1> QED BY <1>1, CrashInvariant, PTL

\* Until then, however often the process dies, the count of used blocks drifts from
\* the free map by at most one block per death, and never below the blocks of the
\* files.
THEOREM DriftIsBounded == CrashSpec => []CountsDrift
<1>1. stale \/ CInv => CountsDrift
  <2> SUFFICES ASSUME CInv PROVE CountsDrift BY DEF CountsDrift
  <2>1. dev.used - Cardinality(dev.freemap) \in -(crashes + 1) .. crashes + 1 BY DeviceSafe DEF Safe, Drift
  <2>2. used - Cardinality(freemap) \in -crashes .. crashes BY DEF CInv, ViewOK, Sound, Drift
  <2>3. ASSUME pc = "idle", pending = <<>>
        PROVE  used >= Cardinality(UNION {Blocks(DeviceRefs(f)) : f \in named})
    <3>1. dev.disk = disk /\ dev.dinode = dinode
      <4>1. dev = View BY <2>3, CrashReady
      <4> QED BY <4>1 DEF View
    <3>2. Copies = dinode /\ used \in Nat BY <2>3, CrashTypes
    <3>3. /\ Placed(named, freemap, disk, dinode) /\ Cardinality(Owned(named, disk, dinode)) <= used
      BY <3>2 DEF CInv, ViewOK, Sound
    <3> DEFINE U == UNION {Blocks(DeviceRefs(f)) : f \in named}
    <3>4. \A f \in named : DeviceRefs(f) = HeldOn(disk, dinode[f]) BY <3>1, DeviceRefsAre
    <3>5. U \subseteq Owned(named, disk, dinode)
      <4>1. ASSUME NEW f \in named, NEW r \in HeldOn(disk, dinode[f]) PROVE r[2] \in Owned(named, disk, dinode)
        <5>1. PICK p \in Place : Walk(disk, dinode[f], p) # 0 /\ r = <<p, Walk(disk, dinode[f], p)>>
          BY DEF HeldOn
        <5>2. r[2] = Walk(disk, dinode[f], p) BY <5>1
        <5>3. Walk(disk, dinode[f], p) \in Block BY <3>3, <5>1 DEF Placed, Ptr
        <5> QED BY <5>2, <5>3 DEF Owned
      <4>2. ASSUME NEW f \in named, NEW b \in Blocks(DeviceRefs(f)) PROVE b \in Owned(named, disk, dinode)
        <5>1. PICK r \in HeldOn(disk, dinode[f]) : b = r[2] BY <3>4 DEF Blocks
        <5> QED BY <4>1, <5>1
      <4> QED BY <4>2
    <3> DEFINE O == Owned(named, disk, dinode)
    <3>6. O \subseteq Block BY DEF Owned
    <3> HIDE DEF U, O
    <3>7. IsFiniteSet(O) /\ Cardinality(O) \in Nat BY <3>6, BlockSets
    <3>8. Cardinality(U) <= Cardinality(O) /\ IsFiniteSet(U) BY <3>5, <3>7, FS_Subset DEF O
    <3>9. Cardinality(U) \in Nat BY <3>8, FS_CardinalityType
    <3>10. used >= Cardinality(U) BY <3>2, <3>3, <3>7, <3>8, <3>9 DEF O
    <3> QED BY <3>10 DEF U
  <2> QED BY <2>1, <2>2, <2>3 DEF CountsDrift
<1> QED BY <1>1, CrashInvariant, PTL

=============================================================================
