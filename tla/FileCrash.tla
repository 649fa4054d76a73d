------------------------------- MODULE FileCrash -------------------------------
(***************************************************************************)
(* What the death of the testfs process leaves on the device.              *)
(*                                                                         *)
(* FileBlocks gives the effect of each part of a command at once, as the   *)
(* process sees it: in its free maps and through the block reads that see  *)
(* its own writes.  The device gets the same effect block by block:        *)
(* write_blocks (fs/block.c) hands each block to the operating system      *)
(* before it returns (the fseek after fwrite empties the stdio buffer), in *)
(* the order in which super.c, inode.c and read_write.c call it.  The      *)
(* process can die between any two block writes - also by one of its own   *)
(* assertions - and is started again on what the device then holds.        *)
(*                                                                         *)
(* Directories are abstracted to the set of inodes that have a name; the   *)
(* block write that makes an entry valid or invalid changes it.  That an   *)
(* inode gets its type only after its name has no effect on files: only    *)
(* I_DIR is ever tested for (fs/file.c).                                   *)
(*                                                                         *)
(* A death in testfs_remove_inode can leave an inode that is free but not  *)
(* zeroed.  The model goes on to the file that is created on it, and to    *)
(* the deaths after that, but to no further command (stale): the blocks    *)
(* of that file are free, and others will get them.                        *)
(***************************************************************************)
EXTENDS FileBlocks, SequencesExt

CONSTANTS
    WriteAt,      \* bound: the first units of writes
    MaxCrashes    \* bound on the deaths of the process

ASSUME FileCrashAssumption ==
    WriteAt \subseteq Offset /\ MaxCrashes \in Nat

VARIABLES
    named,     \* the inodes with a directory entry, as the process sees it
    dev,       \* the device
    pending,   \* the block writes the current part of the command has still to do
    synced,    \* history: the units kept of each inode when the last command was over
    crashes,   \* how often the process has died
    stale      \* a command has taken an inode that was not zeroed

crashVars == <<named, dev, pending, synced, crashes, stale>>
allVars == <<vars, crashVars>>

\* What the process believes to be on the device.
View == [freemap |-> freemap, used |-> used, inodes |-> inodes, disk |-> disk,
         dinode |-> dinode, named |-> named]

-----------------------------------------------------------------------------
(* Block writes *)

\* A write of the free map, the super block, the inode free map, or the entry.
W(part, value) == [part |-> part, at |-> 0, value |-> value]
\* A write of data block or inode number i.
WAt(part, i, value) == [part |-> part, at |-> i, value |-> value]

\* write_blocks: block writes are atomic.
write_blocks(d, w) ==
    IF w.at = 0 THEN [d EXCEPT ![w.part] = w.value]
    ELSE [d EXCEPT ![w.part][w.at] = w.value]

\* testfs_alloc_block for the blocks s in turn: the free map, then the count.
alloc_writes(m, u, s) ==
    FlattenSeq([i \in 1 .. Len(s) |->
        <<W("freemap", m \cup ToSet(SubSeq(s, 1, i))), W("used", u + i)>>])

\* Mutant: the count of all blocks is reduced before the first is freed.
free_writes_count(m, u, s) ==
    FlattenSeq([i \in 1 .. Len(s) |->
        IF s[i] = 0 THEN <<>>
        ELSE <<W("used", u - Cardinality({j \in 1 .. Len(s) : s[j] # 0})),
               WAt("disk", s[i], ZeroBlock), W("freemap", m \ ToSet(SubSeq(s, 1, i)))>>])

\* testfs_free_block for the blocks s in turn, without the holes: zeros, the free
\* map, the count.
free_writes(m, u, s) ==
    FlattenSeq([i \in 1 .. Len(s) |->
        IF s[i] = 0 THEN <<>>
        ELSE <<WAt("disk", s[i], ZeroBlock), W("freemap", m \ ToSet(SubSeq(s, 1, i))),
               W("used", u - Cardinality({j \in 1 .. i : s[j] # 0}))>>])

\* The next k blocks that bitmap_alloc returns, for the pointer blocks of a path:
\* at most two.
NextBlocks(k) ==
    LET b == bitmap_alloc(freemap)
        c == bitmap_alloc(freemap \cup {b})
    IN  IF k = 0 THEN <<>> ELSE IF k = 1 THEN <<b>> ELSE <<b, c>>

-----------------------------------------------------------------------------
(* Commands *)

CrashInit ==
    /\ Init
    /\ named = {} /\ pending = <<>> /\ synced = kept
    /\ dev = View
    /\ crashes = 0 /\ stale = FALSE

\* One part of a command, with the block writes it makes.
Issues(writes) ==
    /\ pending = <<>> /\ ~stale
    /\ pending' = writes
    /\ UNCHANGED <<dev, synced, crashes>>

Does(writes) == Issues(writes) /\ UNCHANGED stale

\* testfs_create_file_or_dir: the number is marked, the entry is written, then the
\* inode, which still has whatever blocks it had on the device.
create(f) ==
    /\ create_inode(f)
    /\ named' = named \cup {f}
    /\ stale' = (dinode[f] # Zeroed)
    /\ Issues(<<W("inodes", inodes \cup {f}), W("named", named \cup {f}),
                WAt("dinode", f, dinode[f])>>)

\* There is no room for the entry: testfs_remove_inode, of an inode without blocks.
\* With blocks it would free them a second time; the model ends before that.
create_fail(f) ==
    /\ pc = "idle" /\ get_inode_freemap(f)
    /\ IF dinode[f] = Zeroed
         THEN /\ Does(<<W("inodes", inodes \cup {f}), W("inodes", inodes), WAt("dinode", f, Zeroed)>>)
              /\ UNCHANGED vars
         ELSE /\ Issues(<<W("inodes", inodes \cup {f})>>)
              /\ create_inode(f) /\ stale' = TRUE
    /\ UNCHANGED named

\* The indirect block of a logical block, the double indirect block, the block.
Path(n, log) ==
    <<IF IsDirect(log) THEN 0 ELSE IF IsIndirect(log) THEN n.i_indirect
      ELSE Entry(n.i_dindirect, Outer(log)),
      IF IsDirect(log) \/ IsIndirect(log) THEN 0 ELSE n.i_dindirect,
      read_block(n, log)>>

Only(b, B) == IF b \in B THEN <<b>> ELSE <<>>

\* Those of the blocks of the path p that are in B, from the root of the tree.
FromRoot(p, B) == Only(p[2], B) \o Only(p[1], B) \o Only(p[3], B)

Put(b, content) == IF b = 0 THEN <<>> ELSE <<WAt("disk", b, content[b])>>

\* If the block is new, write the indirect block; if that is new, write the double
\* indirect block; then the block itself.
tree_writes(p, new, content) ==
    Put(IF p[3] \in new THEN p[1] ELSE 0, content)
        \o Put(IF p[1] \in new THEN p[2] ELSE 0, content) \o Put(p[3], content)

\* Mutant: the new blocks are marked when the path has been written.
path_writes_first(p, new, content) ==
    tree_writes(p, new, content) \o alloc_writes(freemap, used, FromRoot(p, new))

\* testfs_allocate_block and the data write that follows it, along the path p
\* with the new blocks: mark them, then write the blocks.
path_writes(p, new, content) ==
    alloc_writes(freemap, used, FromRoot(p, new)) \o tree_writes(p, new, content)

write_block ==
    \E log \in {log_block_nr} :
        /\ write_existing \/ write_direct \/ write_indirect \/ write_dindirect
        /\ Does(path_writes(Path(in, log)', freemap' \ freemap, disk'))
        /\ UNCHANGED named

\* testfs_sync_inode
sync_writes(isDirty) == IF isDirty THEN <<WAt("dinode", nr, Grown)>> ELSE <<>>

write_end ==
    /\ \/ write_done /\ Does(sync_writes(TRUE))
       \/ write_too_big /\ Does(sync_writes(dirty))
       \/ LET s == NextBlocks(Available)     \* allocated, and freed in reverse
          IN  write_no_space /\ Does(alloc_writes(freemap, used, s)
                                     \o free_writes(freemap \cup ToSet(s), used + Len(s), Reverse(s))
                                     \o sync_writes(dirty \/ Available > 0))
    /\ UNCHANGED named

\* The places where an inode refers to blocks, in the order in which
\* testfs_free_blocks comes to them.
FreePlaces ==
    LET data(first, k) == [i \in 1 .. k |-> <<"data", first + i - 1>>]
        inner(i) == Append(data(NR_DIRECT_BLOCKS + NR_INDIRECT_BLOCKS * i, NR_INDIRECT_BLOCKS),
                           <<"inner", i - 1>>)
    IN  data(0, NR_DIRECT_BLOCKS)
        \o Append(data(NR_DIRECT_BLOCKS, NR_INDIRECT_BLOCKS), <<"indirect", 0>>)
        \o Append(FlattenSeq([i \in 1 .. NR_INDIRECT_BLOCKS |-> inner(i)]), <<"dindirect", 0>>)

\* The blocks of an inode of e logical blocks in this order, 0 for a hole; nothing
\* is freed after the first assertion, about the indirect block, if that fails.
FreeOrder(n, e) ==
    LET R == {r \in Refs(n, e) : r[1] = <<"indirect", 0>> => e > NR_DIRECT_BLOCKS}
    IN  [k \in 1 .. Len(FreePlaces) |->
            IF \E r \in R : r[1] = FreePlaces[k]
            THEN (CHOOSE r \in R : r[1] = FreePlaces[k])[2] ELSE 0]

\* Mutant: the entry is removed after the blocks.
remove_writes_late(f, frees, asserted) ==
    frees \o <<W("named", named \ {f})>>
        \o IF asserted THEN <<W("inodes", inodes \ {f}), WAt("dinode", f, Zeroed)>> ELSE <<>>

\* cmd_rm: the entry, the blocks, then the number and only then the inode.
remove_writes(f, frees, asserted) ==
    <<W("named", named \ {f})>> \o frees
        \o IF asserted THEN <<W("inodes", inodes \ {f}), WAt("dinode", f, Zeroed)>> ELSE <<>>

remove(f) ==
    LET n == dinode[f]
        e == DIVROUNDUP(n.i_size, BLOCK_SIZE)
    IN  /\ f \in named
        /\ remove_inode(f)
        /\ named' = named \ {f}
        /\ Does(remove_writes(f, free_writes(freemap, used, FreeOrder(n, e)), pc' # "abort"))

write(f) ==
    /\ f \in named
    /\ \E off \in WriteAt, size \in 1 .. MaxWrite : write_data(f, off, size)
    /\ UNCHANGED named
    /\ Does(<<>>)

-----------------------------------------------------------------------------
\* The next block write reaches the device.
device_write ==
    /\ pending # <<>>
    /\ dev' = write_blocks(dev, Head(pending))
    /\ pending' = Tail(pending)
    /\ synced' = IF pc = "idle" /\ pending' = <<>> THEN kept ELSE synced
    /\ UNCHANGED <<vars, named, crashes, stale>>

\* The process dies and testfs_init_super_block reads the device: the rest of
\* the command, its in-memory inode included, is lost.
crash ==
    LET onDevice(f) == {off \in Offset :
            f \in dev.named /\ stored_unit(dinode[f], off)' = Data(f)} IN
    /\ crashes < MaxCrashes
    /\ pc # "idle" \/ pending # <<>>
    /\ freemap' = dev.freemap /\ used' = dev.used /\ inodes' = dev.inodes
    /\ disk' = dev.disk /\ dinode' = dev.dinode /\ named' = dev.named
    /\ pc' = "idle" /\ nr' = 1 /\ in' = Zeroed /\ dirty' = FALSE
    /\ start' = 0 /\ pos' = 0 /\ end' = 0
    /\ written' = [f \in Inode |-> onDevice(f)]
    /\ kept' = [f \in Inode |-> {off \in written'[f] : off < dinode'[f].i_size}]
    /\ synced' = kept'
    /\ pending' = <<>>
    /\ crashes' = crashes + 1
    /\ UNCHANGED <<dev, stale>>

CrashNext ==
    \/ \E f \in Inode : create(f) \/ create_fail(f) \/ write(f) \/ remove(f)
    \/ write_block \/ write_end \/ device_write \/ crash

CrashSpec == CrashInit /\ [][CrashNext]_allVars

-----------------------------------------------------------------------------
(* Properties.  Those about dev say what would be found if the process died  *)
(* now, whatever it was doing and whatever earlier deaths have left behind.  *)

Device == INSTANCE FileBlocks
    WITH freemap <- dev.freemap, used <- dev.used, inodes <- dev.inodes,
         disk <- dev.disk, dinode <- dev.dinode

DeviceRefs(f) == Device!Refs(dev.dinode[f], MAX_BLOCK_NR)

\* A file with a name never refers to a block that is marked free - which the
\* next write would hand out again - nor twice to a block, nor to a block of
\* another file: blocks are marked before they are referred to, and freed only
\* when the entry has gone (testfs_allocate_block, cmd_rm).  That ends with the
\* first command that takes an inode which a death has left with its blocks.
FilesKeptApart ==
    ~stale =>
    /\ dev.named \subseteq dev.inodes
    /\ \A f \in dev.named :
          /\ Blocks(DeviceRefs(f)) \subseteq dev.freemap
          /\ Cardinality(Blocks(DeviceRefs(f))) = Cardinality(DeviceRefs(f))
          /\ \A g \in dev.named : f # g => Blocks(DeviceRefs(f)) \cap Blocks(DeviceRefs(g)) = {}

\* Until then, what a write command that is over has written to a file with a name
\* can be read, up to the size on the device - unless the command failed without
\* allocating a block -, and a file reads as nothing but its own data and zeros: a
\* block is zeroed before it can be allocated again (testfs_free_block,
\* testfs_write_data, testfs_sync_inode).  Between two parts of a command nothing
\* is left unwritten: the device then holds the free maps, counts, inodes and
\* blocks the process believes it to hold.
FinishedWritesSurvive ==
    ~stale =>
    /\ \A f \in dev.named, off \in Offset :
          LET u == Device!read_unit(dev.dinode[f], off) IN
          u \in {NoData, 0, Data(f)} /\ (off \in synced[f] => u = Data(f))
    /\ pending = <<>> /\ pc # "abort" => dev = View

\* Until then, used_block_count drifts from the free map by at most one block per
\* death, and never below the blocks of the files, so that the assertion of
\* testfs_free_block, used_block_count > 0, holds.
CountsDrift ==
    ~stale =>
    /\ dev.used - Cardinality(dev.freemap) \in -(crashes + 1) .. crashes + 1
    /\ pending = <<>> => used - Cardinality(freemap) \in -crashes .. crashes
    /\ pc = "idle" /\ pending = <<>> =>
          used >= Cardinality(UNION {Blocks(DeviceRefs(f)) : f \in named})

-----------------------------------------------------------------------------
(* What the repository says of the file system and the code does not do *)

\* The blocks that testfs_free_blocks frees when a file is removed are marked in use:
\* the assertion of bitmap_unmark.
FreesMarkedBlocks ==
    pc = "idle" /\ pending = <<>> =>
        \A f \in named :
            Blocks(Refs(dinode[f], DIVROUNDUP(dinode[f].i_size, BLOCK_SIZE))) \subseteq freemap
=============================================================================
