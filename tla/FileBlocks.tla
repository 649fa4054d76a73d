------------------------------ MODULE FileBlocks ------------------------------
(***************************************************************************)
(* The blocks of the files of testfs: the block tree of an inode           *)
(* (fs/read_write.c), the in-memory inode and its copy on disk             *)
(* (fs/inode.c) and the free maps of the super block (fs/super.c).         *)
(*                                                                         *)
(* The shell executes one command at a time.  A write is a sequence of     *)
(* steps, one per logical block, since every block can fail on its own;    *)
(* creating and removing an inode are one step each.                       *)
(*                                                                         *)
(* The unit of data is an int, so a block of BLOCK_SIZE units holds        *)
(* BLOCK_SIZE block numbers (NR_INDIRECT_BLOCKS).  Block number 0 says     *)
(* that there is no block.  Free-map indices count from 1 here, and a      *)
(* block and its index (block number - data_blocks_start) are the same.    *)
(* The inodes of directories and their blocks are left out: a directory    *)
(* that grows takes blocks like a file that grows.                         *)
(***************************************************************************)
EXTENDS Integers, FiniteSets

CONSTANTS
    NR_DIRECT_BLOCKS,   \* block numbers inside an inode
    BLOCK_SIZE,         \* units of a block
    MaxFsBlocks,        \* max_fs_blocks
    DeviceBlocks,       \* blocks the free map covers
    MaxInodes,          \* inodes that fit in the inode blocks
    MaxWrite            \* bound: units written by one command

ASSUME FileBlocksAssumption ==
    /\ NR_DIRECT_BLOCKS \in Nat \ {0} /\ BLOCK_SIZE \in Nat \ {0}
    /\ MaxFsBlocks \in Nat \ {0} /\ MaxInodes \in Nat \ {0}
    /\ DeviceBlocks \in Nat /\ DeviceBlocks >= MaxFsBlocks
    /\ MaxWrite \in Nat \ {0}

NR_INDIRECT_BLOCKS == BLOCK_SIZE
MAX_BLOCK_NR == NR_DIRECT_BLOCKS + NR_INDIRECT_BLOCKS
                    + NR_INDIRECT_BLOCKS * NR_INDIRECT_BLOCKS
MAX_FILE_SIZE == MAX_BLOCK_NR * BLOCK_SIZE

Block  == 1 .. DeviceBlocks
Ptr    == Block \cup {0}
Inode  == 1 .. MaxInodes
Unit   == 0 .. BLOCK_SIZE - 1
Offset == 0 .. MAX_FILE_SIZE - 1
Direct == 0 .. NR_DIRECT_BLOCKS - 1

VARIABLES
    freemap,     \* block_freemap: the blocks marked in use
    used,        \* used_block_count
    inodes,      \* inode_freemap: the inode numbers marked in use
    disk,        \* what the data blocks hold
    dinode,      \* the inodes on disk
    pc,          \* "idle", "write" (in the loop of testfs_write_data) or "abort"
    nr, in, dirty,          \* the inode of the write: number, memory copy, flag
    start, pos, end,        \* its first unit, the next one, the one after its last
    written,     \* history: the units of each inode written since it was created
    kept         \* history: those of the writes that succeeded or had allocated a
                 \* block before they failed

vars == <<freemap, used, inodes, disk, dinode, pc, nr, in, dirty, start, pos, end, written, kept>>
cmdVars == <<nr, in, dirty, start, pos, end>>

\* The data a file is filled with: its own number, never 0.
Data(f) == f

Dinodes == [i_block_nr : [Direct -> Ptr], i_indirect : Ptr, i_dindirect : Ptr,
            block_count : Nat, i_size : 0 .. MAX_FILE_SIZE]

Zeroed == [i_block_nr |-> [i \in Direct |-> 0], i_indirect |-> 0, i_dindirect |-> 0,
           block_count |-> 0, i_size |-> 0]

ZeroBlock == [u \in Unit |-> 0]

TypeOK ==
    /\ freemap \in SUBSET Block
    /\ used \in 0 .. MaxFsBlocks
    /\ inodes \in SUBSET Inode
    /\ disk \in [Block -> [Unit -> Ptr \cup Inode]]
    /\ dinode \in [Inode -> Dinodes]
    /\ pc \in {"idle", "write", "abort"}
    /\ nr \in Inode /\ in \in Dinodes /\ dirty \in BOOLEAN
    /\ start \in Offset /\ pos \in Nat /\ end \in Nat
    /\ written \in [Inode -> SUBSET Offset] /\ kept \in [Inode -> SUBSET Offset]

-----------------------------------------------------------------------------
(* Walking the tree of an inode *)

\* The ranges of logical block numbers: direct, indirect, double indirect.
IsDirect(log)    == log < NR_DIRECT_BLOCKS
IsIndirect(log)  == ~IsDirect(log) /\ log < NR_DIRECT_BLOCKS + NR_INDIRECT_BLOCKS
InIndirect(log)  == log - NR_DIRECT_BLOCKS
InDindirect(log) == log - NR_DIRECT_BLOCKS - NR_INDIRECT_BLOCKS
Outer(log) == InDindirect(log) \div NR_INDIRECT_BLOCKS
Inner(log) == InDindirect(log) % NR_INDIRECT_BLOCKS

\* Entry i of the pointer block b; a block that does not exist holds zeros.
Entry(b, i) == IF b = 0 THEN 0 ELSE disk[b][i]

\* testfs_read_block: the physical number of a logical block, 0 for a hole.
read_block(n, log) ==
    IF IsDirect(log) THEN n.i_block_nr[log]
    ELSE IF IsIndirect(log) THEN Entry(n.i_indirect, InIndirect(log))
    ELSE Entry(Entry(n.i_dindirect, Outer(log)), Inner(log))

\* A unit of the blocks of an inode: a hole holds zeros.
stored_unit(n, off) == Entry(read_block(n, off \div BLOCK_SIZE), off % BLOCK_SIZE)

\* There is no such unit.
NoData == -1

\* testfs_read_data for one unit.  It reads nothing from i_size on, and cmd_read
\* refuses to.
read_unit(n, off) == IF off < n.i_size THEN stored_unit(n, off) ELSE NoData

-----------------------------------------------------------------------------
(* mktestfs, without the root directory *)

Init ==
    /\ freemap = {} /\ used = 0 /\ inodes = {}
    /\ disk = [b \in Block |-> ZeroBlock]
    /\ dinode = [f \in Inode |-> Zeroed]
    /\ pc = "idle"
    /\ nr = 1 /\ in = Zeroed /\ dirty = FALSE
    /\ start = 0 /\ pos = 0 /\ end = 0
    /\ written = [f \in Inode |-> {}] /\ kept = [f \in Inode |-> {}]

-----------------------------------------------------------------------------
(* Creating an inode *)

\* testfs_get_inode_freemap: the lowest free number.
get_inode_freemap(f) == f \notin inodes /\ \A g \in Inode : g < f => g \in inodes

\* testfs_create_inode, testfs_sync_inode and testfs_put_inode: an inode with
\* whatever the disk holds for it.
create_inode(f) ==
    /\ pc = "idle"
    /\ get_inode_freemap(f)
    /\ inodes' = inodes \cup {f}
    /\ UNCHANGED <<freemap, used, disk, dinode, pc, cmdVars, written, kept>>

-----------------------------------------------------------------------------
(* Writing *)

\* testfs_write_data entered by cmd_write; past MAX_FILE_SIZE it is -EFBIG.
write_data(f, off, size) ==
    /\ pc = "idle"
    /\ f \in inodes
    /\ pc' = "write"
    /\ nr' = f /\ in' = dinode[f] /\ dirty' = FALSE
    /\ start' = off /\ pos' = off /\ end' = off + size
    /\ UNCHANGED <<freemap, used, inodes, disk, dinode, written, kept>>

log_block_nr == pos \div BLOCK_SIZE

\* The units of the current block that the write covers.
Chunk == {u \in Unit : LET p == log_block_nr * BLOCK_SIZE + u IN pos <= p /\ p < end}

\* The current block, as testfs_read_block returns it, with the new data in it.
NewData(old) == [u \in Unit |-> IF u \in Chunk THEN Data(nr) ELSE old[u]]

\* The rest of the loop body, once the block has been written.
Advance ==
    /\ pos' = pos + Cardinality(Chunk)
    /\ written' = [written EXCEPT
                     ![nr] = @ \cup {log_block_nr * BLOCK_SIZE + u : u \in Chunk}]
    /\ UNCHANGED <<inodes, dinode, pc, nr, start, end, kept>>

InWrite == pc = "write" /\ pos < end /\ log_block_nr < MAX_BLOCK_NR

\* The block exists.
write_existing ==
    LET b == read_block(in, log_block_nr) IN
    /\ InWrite
    /\ b # 0
    /\ disk' = [disk EXCEPT ![b] = NewData(@)]
    /\ Advance
    /\ UNCHANGED <<freemap, used, in, dirty>>

\* bitmap_alloc: the lowest block that is not marked in m.
bitmap_alloc(m) == CHOOSE b \in Block \ m : \A c \in Block \ m : b <= c

\* The pointer blocks that testfs_allocate_block must allocate before the block
\* itself, from the root of the tree.
MissingPointers ==
    IF IsDirect(log_block_nr) THEN 0
    ELSE IF IsIndirect(log_block_nr) THEN IF in.i_indirect = 0 THEN 1 ELSE 0
    ELSE IF in.i_dindirect = 0 THEN 2
    ELSE IF Entry(in.i_dindirect, Outer(log_block_nr)) = 0 THEN 1 ELSE 0

\* The blocks the testfs_alloc_block calls can still hand out: each asks for room
\* in used_block_count, and then for a bit in the free map.
Available ==
    LET counted == MaxFsBlocks - used
        free    == DeviceBlocks - Cardinality(freemap)
    IN  IF counted <= free THEN counted ELSE free

\* Blocks B become blocks of the inode (testfs_alloc_block_for_inode), which
\* gets the root pointers of n.
alloc_for_inode(B, n) ==
    /\ freemap' = freemap \cup B
    /\ used' = used + Cardinality(B)
    /\ in' = [n EXCEPT !.block_count = @ + Cardinality(B)]
    /\ dirty' = TRUE

\* A hole among the direct blocks.
write_direct ==
    LET b == bitmap_alloc(freemap) IN
    /\ InWrite
    /\ IsDirect(log_block_nr)
    /\ read_block(in, log_block_nr) = 0
    /\ Available >= 1
    /\ alloc_for_inode({b}, [in EXCEPT !.i_block_nr[log_block_nr] = b])
    /\ disk' = [disk EXCEPT ![b] = NewData(ZeroBlock)]
    /\ Advance

\* Mutant: the buffer is not cleared after the indirect block was read into it.
write_indirect_unclean ==
    LET new == in.i_indirect = 0
        ind == IF new THEN bitmap_alloc(freemap) ELSE in.i_indirect
        b   == bitmap_alloc(freemap \cup {ind})
        old == IF new THEN ZeroBlock ELSE disk[ind]
    IN  /\ InWrite
        /\ IsIndirect(log_block_nr)
        /\ read_block(in, log_block_nr) = 0
        /\ Available > MissingPointers
        /\ alloc_for_inode({b} \cup (IF new THEN {ind} ELSE {}), [in EXCEPT !.i_indirect = ind])
        /\ disk' = [disk EXCEPT ![ind] = [old EXCEPT ![InIndirect(log_block_nr)] = b],
                                ![b] = NewData(old)]
        /\ Advance

\* A hole under the indirect block, which is allocated first if need be.
write_indirect ==
    LET new == in.i_indirect = 0
        ind == IF new THEN bitmap_alloc(freemap) ELSE in.i_indirect
        b   == bitmap_alloc(freemap \cup {ind})
        old == IF new THEN ZeroBlock ELSE disk[ind]
    IN  /\ InWrite
        /\ IsIndirect(log_block_nr)
        /\ read_block(in, log_block_nr) = 0
        /\ Available > MissingPointers
        /\ alloc_for_inode({b} \cup (IF new THEN {ind} ELSE {}), [in EXCEPT !.i_indirect = ind])
        /\ disk' = [disk EXCEPT ![ind] = [old EXCEPT ![InIndirect(log_block_nr)] = b],
                                ![b] = NewData(ZeroBlock)]
        /\ Advance

\* A hole under the double indirect block: up to two pointer blocks are
\* allocated first, and the double indirect block is written only if its entry
\* is new.
write_dindirect ==
    LET newd == in.i_dindirect = 0
        din  == IF newd THEN bitmap_alloc(freemap) ELSE in.i_dindirect
        newi == Entry(in.i_dindirect, Outer(log_block_nr)) = 0
        ind  == IF newi THEN bitmap_alloc(freemap \cup {din}) ELSE disk[din][Outer(log_block_nr)]
        b    == bitmap_alloc(freemap \cup {din, ind})
        oldd == IF newd THEN ZeroBlock ELSE disk[din]
        oldi == IF newi THEN ZeroBlock ELSE disk[ind]
    IN  /\ InWrite
        /\ ~IsDirect(log_block_nr) /\ ~IsIndirect(log_block_nr)
        /\ read_block(in, log_block_nr) = 0
        /\ Available > MissingPointers
        /\ alloc_for_inode({b} \cup (IF newi THEN {ind} ELSE {}) \cup (IF newd THEN {din} ELSE {}),
                           [in EXCEPT !.i_dindirect = din])
        /\ disk' = [disk EXCEPT ![din] = IF newi THEN [oldd EXCEPT ![Outer(log_block_nr)] = ind] ELSE @,
                                ![ind] = [oldi EXCEPT ![Inner(log_block_nr)] = b],
                                ![b] = NewData(ZeroBlock)]
        /\ Advance

\* i_size after the units from start to pos have been written.
Grown == [in EXCEPT !.i_size = IF pos > start /\ pos > @ THEN pos ELSE @]

\* The end of the command: testfs_sync_inode, which does nothing unless the
\* inode is dirty, and testfs_put_inode, which frees the memory copy.
sync_and_put(n, isDirty) ==
    /\ dinode' = IF isDirty THEN [dinode EXCEPT ![nr] = n] ELSE dinode
    /\ pc' = "idle"
    /\ in' = Zeroed /\ dirty' = FALSE
    /\ nr' = 1 /\ start' = 0 /\ pos' = 0 /\ end' = 0

\* What has been written is kept.
Keeps(really) ==
    kept' = IF really THEN [kept EXCEPT ![nr] = @ \cup {u \in Offset : start <= u /\ u < pos}]
            ELSE kept

\* Everything has been written.
write_done ==
    /\ pc = "write"
    /\ pos = end
    /\ sync_and_put(Grown, TRUE)
    /\ Keeps(TRUE)
    /\ UNCHANGED <<freemap, used, inodes, disk, written>>

\* -EFBIG: the next block is past the largest file.  The inode is not dirty unless
\* a block was allocated: then the new size is forgotten with the memory copy.
write_too_big ==
    /\ pc = "write"
    /\ pos < end
    /\ log_block_nr >= MAX_BLOCK_NR
    /\ sync_and_put(Grown, dirty) /\ Keeps(dirty)
    /\ UNCHANGED <<freemap, used, inodes, disk, written>>

\* Mutant: the first pointer block is not freed again.
write_no_space_leak ==
    LET B == IF MissingPointers > 0 /\ Available > 0 THEN {bitmap_alloc(freemap)} ELSE {} IN
    /\ InWrite
    /\ read_block(in, log_block_nr) = 0
    /\ Available <= MissingPointers
    /\ freemap' = freemap \cup B
    /\ used' = used + Cardinality(B)
    /\ sync_and_put(Grown, dirty \/ Available > 0) /\ Keeps(dirty \/ Available > 0)
    /\ UNCHANGED <<inodes, disk, written>>

\* Mutant: the size is not updated after a partial write.
write_no_space_short ==
    /\ InWrite
    /\ read_block(in, log_block_nr) = 0
    /\ Available <= MissingPointers
    /\ sync_and_put(in, dirty \/ Available > 0) /\ Keeps(dirty \/ Available > 0)
    /\ UNCHANGED <<freemap, used, inodes, disk, written>>

\* -ENOSPC: there are not enough blocks.  The pointer blocks that were allocated
\* before the failure, all that were available, are freed again: zeroed, and the
\* inode is dirty.
write_no_space ==
    LET lower(b) == {c \in Block \ freemap : c < b}
        freed == {b \in Block \ freemap : Cardinality(lower(b)) < Available}
    IN  /\ InWrite
        /\ read_block(in, log_block_nr) = 0
        /\ Available <= MissingPointers
        /\ disk' = [b \in Block |-> IF b \in freed THEN ZeroBlock ELSE disk[b]]
        /\ sync_and_put(Grown, dirty \/ Available > 0) /\ Keeps(dirty \/ Available > 0)
        /\ UNCHANGED <<freemap, used, inodes, written>>

-----------------------------------------------------------------------------
(* Removing *)

\* The places where an inode of e logical blocks refers to a block, as
\* testfs_free_blocks visits them: <<place, block>>.
DataRefs(n, e) ==
    {<<<<"data", log>>, read_block(n, log)>> : log \in {l \in 0 .. MAX_BLOCK_NR - 1 : l < e}}

PointerRefs(n, e) ==
    LET outer == {i \in Unit : NR_DIRECT_BLOCKS + NR_INDIRECT_BLOCKS * (i + 1) < e} IN
    {<<<<"indirect", 0>>, n.i_indirect>>}
    \cup {<<<<"inner", i>>, Entry(n.i_dindirect, i)>> : i \in outer}
    \cup IF outer = {} THEN {} ELSE {<<<<"dindirect", 0>>, n.i_dindirect>>}

Refs(n, e) == {r \in DataRefs(n, e) \cup PointerRefs(n, e) : r[2] # 0}

Blocks(R) == {r[2] : r \in R}

DIVROUNDUP(a, b) == (a + b - 1) \div b

\* What testfs_free_blocks, bitmap_unmark, testfs_free_block and
\* testfs_remove_inode assert.
FreeAsserts(n, e, R) ==
    /\ n.i_indirect # 0 => e > NR_DIRECT_BLOCKS
    /\ e > NR_DIRECT_BLOCKS + NR_INDIRECT_BLOCKS => n.i_dindirect # 0
    /\ Cardinality(Blocks(R)) = Cardinality(R) /\ Blocks(R) \subseteq freemap
    /\ Cardinality(R) <= used
    /\ Cardinality(R) = n.block_count

\* Mutant: the inode is not zeroed.
remove_inode_stale(f) ==
    LET n == dinode[f]
        e == DIVROUNDUP(n.i_size, BLOCK_SIZE)
        R == Refs(n, e)
    IN  /\ pc = "idle"
        /\ f \in inodes
        /\ FreeAsserts(n, e, R)
        /\ freemap' = freemap \ Blocks(R)
        /\ used' = used - Cardinality(R)
        /\ disk' = [b \in Block |-> IF b \in Blocks(R) THEN ZeroBlock ELSE disk[b]]
        /\ inodes' = inodes \ {f}
        /\ written' = [written EXCEPT ![f] = {}] /\ kept' = [kept EXCEPT ![f] = {}]
        /\ UNCHANGED <<dinode, pc, cmdVars>>

\* testfs_remove_inode: free the blocks, zero the inode, sync and put it.
remove_inode(f) ==
    LET n == dinode[f]
        e == DIVROUNDUP(n.i_size, BLOCK_SIZE)
        R == Refs(n, e)
    IN  /\ pc = "idle"
        /\ f \in inodes
        /\ IF FreeAsserts(n, e, R)
             THEN /\ freemap' = freemap \ Blocks(R)
                  /\ used' = used - Cardinality(R)
                  /\ disk' = [b \in Block |-> IF b \in Blocks(R) THEN ZeroBlock ELSE disk[b]]
                  /\ dinode' = [dinode EXCEPT ![f] = Zeroed]
                  /\ inodes' = inodes \ {f}
                  /\ written' = [written EXCEPT ![f] = {}] /\ kept' = [kept EXCEPT ![f] = {}]
                  /\ UNCHANGED pc
             ELSE /\ pc' = "abort"
                  /\ UNCHANGED <<freemap, used, disk, dinode, inodes, written, kept>>
        /\ UNCHANGED cmdVars

-----------------------------------------------------------------------------
\* A failed assertion (pc "abort") has no next state.
Next ==
    \/ \E f \in Inode : create_inode(f) \/ remove_inode(f)
    \/ \E f \in Inode, off \in Offset, size \in 1 .. MaxWrite : write_data(f, off, size)
    \/ write_existing \/ write_direct \/ write_indirect \/ write_dindirect
    \/ write_done \/ write_too_big \/ write_no_space

Spec == Init /\ [][Next]_vars

-----------------------------------------------------------------------------
(* Properties *)

\* The current copy of an inode: the one in memory while it is being written.
Copy(f) == IF pc = "write" /\ f = nr THEN in ELSE dinode[f]

AllRefs(f) == Refs(Copy(f), MAX_BLOCK_NR)

\* No block is lost and none is used twice: in every state, also between the
\* steps of a write, the blocks marked in the free map are exactly the blocks
\* the inodes refer to, each from one place, whatever ran out of space before
\* (testfs_allocate_block and its roll back, testfs_free_blocks).  The counters
\* that stat and fsstat print agree with that: used_block_count and the
\* block_count of every inode (testfs_alloc_block_for_inode and its inverse).
EveryBlockOnce ==
    /\ freemap = UNION {Blocks(AllRefs(f)) : f \in inodes}
    /\ \A f \in inodes : Cardinality(Blocks(AllRefs(f))) = Cardinality(AllRefs(f))
    /\ \A f, g \in inodes : f # g => Blocks(AllRefs(f)) \cap Blocks(AllRefs(g)) = {}
    /\ used = Cardinality(freemap)
    /\ \A f \in inodes : Copy(f).block_count = Cardinality(AllRefs(f))

\* A file reads as what was written to it and as zeros elsewhere: never as data
\* of a removed file, of another file or a block number (sparse files, blocks
\* used again, testfs_read_block).  What a successful write wrote, or a failed one
\* that had allocated a block, can be read until the file is removed, whatever
\* write fails later (the size that testfs_write_data grows and testfs_sync_inode
\* writes); what other failed writes wrote may lie past the end of the file.
HoldsWhatWasWritten ==
    \A f \in inodes, off \in Offset :
        LET u == read_unit(Copy(f), off) IN
        /\ u \in {NoData, IF off \in written[f] THEN Data(f) ELSE 0}
        /\ off \in kept[f] => u = Data(f)

\* No block lies past the end of its file, where testfs_free_blocks would not
\* find it: none of its assertions, nor those of testfs_remove_inode and
\* bitmap_unmark, ever fails.
NothingBeyondSize ==
    /\ pc # "abort"
    /\ pc = "idle" => \A f \in inodes :
          AllRefs(f) = Refs(dinode[f], DIVROUNDUP(dinode[f].i_size, BLOCK_SIZE))

\* A number that is not in use belongs to a zeroed inode, so that a new file is
\* empty; a block that is not in use is zero (testfs_remove_inode).
FreeIsZero ==
    /\ \A f \in Inode \ inodes : dinode[f] = Zeroed
    /\ \A b \in Block \ freemap : disk[b] = ZeroBlock

-----------------------------------------------------------------------------
(* What the repository says of the file system and the code does not do *)

\* After a write that fails half way the file is as long as what was written: "the
\* file size will increase because a partial write occurs".
PartialWriteGrows ==
    [][(write_too_big \/ write_no_space) /\ pos > start => dinode'[nr].i_size >= pos]_vars
=============================================================================
