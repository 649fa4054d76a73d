--------------------------------- MODULE Dirs ---------------------------------
(***************************************************************************)
(* Directories and the shell of testfs: fs/dir.c, fs/file.c, the main loop *)
(* of fs/testfs.c, and the table of in-memory inodes of fs/inode.c with    *)
(* its reference counts.                                                   *)
(*                                                                         *)
(* The shell executes one command at a time, each one step.  Commands that *)
(* only look (stat, read, pwd, lsr, ls of a directory) and commands that   *)
(* are refused put back every inode they get: they are stuttering steps,   *)
(* unless the assertion of testfs_put_inode fails (stat_dirty).            *)
(*                                                                         *)
(* Blocks are only counted here (FileBlocks models them).  When there is   *)
(* no room to append an entry that straddles two blocks, the part in the   *)
(* first one has already been written and the directory ends in a torn     *)
(* entry: its header has the number of the inode that was to be named and  *)
(* is removed again, and the end of its name is missing.  When the failure *)
(* came after an indirect block had been allocated and freed again, the    *)
(* directory's inode is left dirty.  A header is one unit: one that is cut *)
(* in two itself is not modelled, and neither is a name of more than a     *)
(* block.                                                                  *)
(*                                                                         *)
(* testfs can be started again on the device after quit and after a failed *)
(* assertion, which leaves on the device what had been written.            *)
(***************************************************************************)
EXTENDS Integers, SequencesExt, FiniteSetsExt

CONSTANTS
    Name, NameLen,   \* names of files; the lengths of all names
    BLOCK_SIZE,      \* in the unit of NameLen
    NR_DIRECT_BLOCKS, NR_INDIRECT_BLOCKS,
    MaxFsBlocks,     \* max_fs_blocks
    MaxInodes,       \* inodes that fit in the inode blocks
    MaxRefs          \* bound on the references the shell leaks per inode

Inode == 0 .. MaxInodes - 1
Root  == 0
INVALID_INODE_NR == -1
Dots  == {".", ".."}

\* An entry is a header of one unit and the name.
EntrySize(n) == 1 + NameLen[n]

\* The entries "." and ".." fit in one block, and so does any entry.  The
\* device has no more blocks than one file can have, with its blocks of block
\* numbers (BLOCK_FREEMAP_SIZE blocks of bits mark fewer).
ASSUME DirsAssumption ==
    /\ Name \cap Dots = {}
    /\ NameLen \in [Name \cup Dots -> Nat \ {0}]
    /\ MaxInodes \in Nat \ {0} /\ MaxRefs \in Nat \ {0}
    /\ BLOCK_SIZE \in Nat /\ MaxFsBlocks \in Nat \ {0}
    /\ NR_DIRECT_BLOCKS \in Nat \ {0} /\ NR_INDIRECT_BLOCKS \in Nat \ {0}
    /\ EntrySize(".") + EntrySize("..") <= BLOCK_SIZE
    /\ \A n \in Name : EntrySize(n) <= BLOCK_SIZE
    /\ MaxFsBlocks <= NR_DIRECT_BLOCKS + NR_INDIRECT_BLOCKS + NR_INDIRECT_BLOCKS * NR_INDIRECT_BLOCKS
                         + 2 + NR_INDIRECT_BLOCKS

VARIABLES
    itype,     \* type of each inode, "none" if its number is free, "lost" if
               \* the number is marked but the inode was never written
    dents,     \* the entries of each directory, removed ones included, but
               \* not the torn one
    torn,      \* the torn entry at the end of each directory, and where it is:
               \* "mem" (only the in-memory inode's size covers it) or "disk"
    fblocks,   \* the number of blocks of each file, or lost with the number
    cur_dir,   \* c.cur_dir
    dirty,     \* I_FLAGS_DIRTY of the in-memory inode of cur_dir
    count,     \* i_count of the in-memory inodes, 0 if there is none
    mode       \* "run", "quit", "ub", or the assertion that failed

vars == <<itype, dents, torn, fblocks, cur_dir, dirty, count, mode>>

Asserts == {"hash_empty", "append_at_end", "put_clean"}
Dirents == [name : Name \cup Dots, nr : Inode \cup {INVALID_INODE_NR}]
Tears   == [at : {"no", "mem", "disk"}, nr : Inode \cup {INVALID_INODE_NR}]

TypeOK ==
    /\ itype \in [Inode -> {"none", "file", "dir", "lost"}]
    /\ dents \in [Inode -> Seq(Dirents)]
    /\ torn \in [Inode -> Tears]
    /\ fblocks \in [Inode -> 0 .. MaxFsBlocks]
    /\ cur_dir \in Inode
    /\ dirty \in BOOLEAN
    /\ count \in [Inode -> 0 .. MaxRefs + 1]
    /\ mode \in {"run", "quit", "ub"} \cup Asserts

-----------------------------------------------------------------------------
(* Directory entries *)

\* The position of the entry called n in directory d, 0 if there is none
\* (testfs_dir_name_to_inode_nr, and the loops of the functions below).
Position(d, n) ==
    SelectInSeq(dents[d], LAMBDA e : e.nr # INVALID_INODE_NR /\ e.name = n)

dir_name_to_inode_nr(d, n) == dents[d][Position(d, n)].nr

\* A removed entry that an entry called n can replace: of the same length.
Reusable(d, n) ==
    SelectInSeq(dents[d], LAMBDA e : e.nr = INVALID_INODE_NR /\ NameLen[e.name] = NameLen[n])

\* testfs_add_dirent: replace a removed entry, or append.  Its own test of the
\* name (-EEXIST) cannot succeed: testfs_create_file_or_dir has looked it up.
add_dirent(d, n, i) ==
    LET s == Reusable(d, n)
        e == [name |-> n, nr |-> i]
    IN  IF s # 0 THEN [dents[d] EXCEPT ![s] = e] ELSE Append(dents[d], e)

\* No torn entry; one with number i, covered by the size in memory.
Whole   == [at |-> "no", nr |-> INVALID_INODE_NR]
Tear(i) == [at |-> "mem", nr |-> i]
Torn(d) == torn[d].at # "no"

\* testfs_create_empty_dir
empty_dir(parent, i) == <<[name |-> ".", nr |-> i], [name |-> "..", nr |-> parent]>>

\* Mutant: a directory need not be empty.
remove_dirent_allowed_full(i) == TRUE

\* testfs_remove_dirent_allowed: a directory must be empty.
remove_dirent_allowed(i) ==
    itype[i] = "dir" =>
        /\ ~Torn(i)
        /\ \A k \in DOMAIN dents[i] : dents[i][k].nr = INVALID_INODE_NR \/ dents[i][k].name \in Dots

\* testfs_remove_dirent: the entry at position p stays where it is, without a number.
remove_dirent(d, p) == [dents[d] EXCEPT ![p].nr = INVALID_INODE_NR]

\* testfs_sync_inode for cur_dir, made dirty before: the disk has its size.
Synced(t) == IF t.at = "mem" THEN [t EXCEPT !.at = "disk"] ELSE t

\* The in-memory inode goes without having been synced.
Dropped(t) == IF t.at = "mem" THEN Whole ELSE t

-----------------------------------------------------------------------------
(* Blocks *)

DIVROUNDUP(a, b) == (a + b - 1) \div b

\* The size of directory d without a torn entry.
DirSize(d) == MapThenSumSet(LAMBDA k : EntrySize(dents[d][k].name), DOMAIN dents[d])

\* The blocks of block numbers that b blocks of data take: the indirect block,
\* the double indirect block and those that it leads to.
IndexBlocks(b) ==
    LET over == b - NR_DIRECT_BLOCKS - NR_INDIRECT_BLOCKS IN
    IF b <= NR_DIRECT_BLOCKS THEN 0
    ELSE IF over <= 0 THEN 1 ELSE 2 + DIVROUNDUP(over, NR_INDIRECT_BLOCKS)

\* The blocks of a directory of some size; an entry takes at most one more.
SizeBlocks(size) ==
    LET data == DIVROUNDUP(size, BLOCK_SIZE) IN data + IndexBlocks(data)

\* What testfs_alloc_block can still hand out.
Available == MaxFsBlocks - MapThenSumSet(LAMBDA i : SizeBlocks(DirSize(i)) + fblocks[i], Inode)

\* The blocks needed to append an entry called n to d: none, or the next data
\* block and the blocks of block numbers it is the first to need.
Needed(d, n) == SizeBlocks(DirSize(d) + EntrySize(n)) - SizeBlocks(DirSize(d))

\* The entry would begin in a block that the directory has.
Straddles(d) == DirSize(d) % BLOCK_SIZE # 0

-----------------------------------------------------------------------------
(* mktestfs with testfs_make_root_dir, and then the start of testfs *)

Init ==
    /\ itype = [i \in Inode |-> IF i = Root THEN "dir" ELSE "none"]
    /\ dents = [i \in Inode |-> IF i = Root THEN empty_dir(Root, Root) ELSE <<>>]
    /\ torn = [i \in Inode |-> Whole]
    /\ fblocks = [i \in Inode |-> 0]
    /\ cur_dir = Root
    /\ dirty = FALSE
    /\ count = [i \in Inode |-> IF i = Root THEN 1 ELSE 0]
    /\ mode = "run"

-----------------------------------------------------------------------------
(* create and mkdir: testfs_create_file_or_dir *)

\* The lowest free inode number.
FreeInode(i) == itype[i] = "none" /\ \A j \in Inode : j < i => itype[j] # "none"

\* Mutant: the name is not looked up.
Creates_again(type, n, i) ==
    /\ mode = "run"
    /\ FreeInode(i)
    /\ type = "dir" => Available >= 1

\* The name is new (else -EEXIST) and i is the number of the new inode, which
\* has the block of "." and ".." if it is a directory; if there is no number or
\* no such block, the command fails and changes nothing.
Creates(type, n, i) ==
    /\ mode = "run"
    /\ Position(cur_dir, n) = 0
    /\ FreeInode(i)
    /\ type = "dir" => Available >= 1

\* What is then left for the entry in cur_dir.
Left(type) == IF type = "dir" THEN Available - 1 ELSE Available

Appends(n) == Reusable(cur_dir, n) = 0

\* Everything succeeds; directory and inode are synced.
create_file_or_dir(type, n) ==
    \E i \in Inode :
        /\ Creates(type, n, i)
        /\ Appends(n) => ~Torn(cur_dir) /\ Needed(cur_dir, n) <= Left(type)
        /\ itype' = [itype EXCEPT ![i] = type]
        /\ dents' = [dents EXCEPT ![i] = IF type = "dir" THEN empty_dir(cur_dir, i) ELSE <<>>,
                                  ![cur_dir] = add_dirent(cur_dir, n, i)]
        /\ torn' = [torn EXCEPT ![cur_dir] = Synced(@)]
        /\ dirty' = FALSE
        /\ UNCHANGED <<fblocks, cur_dir, count, mode>>

\* The new entry cannot be appended: the inode is removed again, and cur_dir is
\* not synced, whatever the failed write has left in it.
create_no_space(type, n) ==
    \E i \in Inode :
        /\ Creates(type, n, i)
        /\ Appends(n)
        /\ ~Torn(cur_dir)
        /\ Needed(cur_dir, n) > Left(type)
        /\ torn' = [torn EXCEPT ![cur_dir] = IF Straddles(cur_dir) THEN Tear(i) ELSE @]
        /\ dirty' = (dirty \/ Left(type) > 0)
        /\ UNCHANGED <<itype, dents, fblocks, cur_dir, count, mode>>

\* Past a torn entry the offset of the next one is not the size of the
\* directory: the assertion of testfs_add_dirent fails.  The inode number has
\* been marked on the device, and so has the block of "." and ".."; the inode
\* itself has not been written.
create_asserts(type, n) ==
    \E i \in Inode :
        /\ Creates(type, n, i)
        /\ Appends(n)
        /\ Torn(cur_dir)
        /\ itype' = [itype EXCEPT ![i] = "lost"]
        /\ fblocks' = [fblocks EXCEPT ![i] = IF type = "dir" THEN 1 ELSE 0]
        /\ mode' = "append_at_end"
        /\ UNCHANGED <<dents, torn, cur_dir, dirty, count>>

\* A search that reaches a torn entry compares a name whose end is not
\* initialised.  If it differs, the search goes on as in the other actions; if
\* it happens to be equal, the command is carried out on the torn entry, and
\* nothing is said of what follows.
search_torn ==
    /\ mode = "run"
    /\ Torn(cur_dir)
    /\ mode' = "ub"
    /\ UNCHANGED <<itype, dents, torn, fblocks, cur_dir, dirty, count>>

-----------------------------------------------------------------------------
(* write, rm, cd, ls, quit *)

\* cmd_write: the file takes one more block, for data or for block numbers.
cmd_write(n) ==
    LET i == dir_name_to_inode_nr(cur_dir, n) IN
    /\ mode = "run"
    /\ Position(cur_dir, n) # 0
    /\ itype[i] = "file"
    /\ Available >= 1
    /\ fblocks' = [fblocks EXCEPT ![i] = @ + 1]
    /\ UNCHANGED <<itype, dents, torn, cur_dir, dirty, count, mode>>

\* cmd_rm: testfs_remove_dirent, testfs_remove_inode, and cur_dir is synced.
cmd_rm(n) ==
    LET p == Position(cur_dir, n)
        i == dents[cur_dir][p].nr
    IN  /\ mode = "run"
        /\ p # 0
        /\ remove_dirent_allowed(i)
        /\ dents' = [dents EXCEPT ![cur_dir] = remove_dirent(cur_dir, p), ![i] = <<>>]
        /\ itype' = [itype EXCEPT ![i] = "none"]
        /\ torn' = [torn EXCEPT ![cur_dir] = Synced(@), ![i] = Whole]
        /\ fblocks' = [fblocks EXCEPT ![i] = 0]
        /\ dirty' = FALSE
        /\ UNCHANGED <<cur_dir, count, mode>>

\* testfs_get_inode: one more reference to inode i, in memory or not.
get_inode(c, i) == [c EXCEPT ![i] = @ + 1]

\* The references after cur_dir has been put; its memory goes with the last one.
put_cur_dir(c) == [c EXCEPT ![cur_dir] = @ - 1]
Forgotten(c, t) == IF c[cur_dir] = 0 THEN Dropped(t) ELSE t

\* Mutant: the new directory is put as well as the old one.
cmd_cd_put(n) ==
    LET i == dir_name_to_inode_nr(cur_dir, n) IN
    /\ mode = "run"
    /\ Position(cur_dir, n) # 0
    /\ itype[i] = "dir"
    /\ ~dirty
    /\ cur_dir' = i
    /\ count' = put_cur_dir(count)
    /\ UNCHANGED <<itype, dents, torn, fblocks, dirty, mode>>

\* cmd_cd: get the new directory and put the old one, which asserts that it is
\* not dirty.
cmd_cd(n) ==
    LET i == dir_name_to_inode_nr(cur_dir, n)
        c == put_cur_dir(get_inode(count, i))
    IN  /\ mode = "run"
        /\ Position(cur_dir, n) # 0
        /\ itype[i] = "dir"
        /\ IF dirty
             THEN mode' = "put_clean" /\ UNCHANGED <<torn, cur_dir, count>>
             ELSE /\ cur_dir' = i
                  /\ count' = c
                  /\ torn' = [torn EXCEPT ![cur_dir] = Forgotten(c, @)]
                  /\ UNCHANGED mode
        /\ UNCHANGED <<itype, dents, fblocks, dirty>>

\* cmd_stat, or ls, of the current directory gets and puts its inode, too.
stat_dirty ==
    /\ mode = "run"
    /\ dirty
    /\ mode' = "put_clean"
    /\ UNCHANGED <<itype, dents, torn, fblocks, cur_dir, dirty, count>>

\* cmd_ls_internal on a file: -ENOTDIR is returned without testfs_put_inode.
ls_file(n) ==
    LET i == dir_name_to_inode_nr(cur_dir, n) IN
    /\ mode = "run"
    /\ Position(cur_dir, n) # 0
    /\ itype[i] # "dir"
    /\ count[i] < MaxRefs
    /\ count' = get_inode(count, i)
    /\ UNCHANGED <<itype, dents, torn, fblocks, cur_dir, dirty, mode>>

\* testfs_close_super_block: inode_hash_destroy asserts that no inode is left.
close_super_block(c) == IF \E i \in Inode : c[i] # 0 THEN "hash_empty" ELSE "quit"

\* quit or end of input: put cur_dir, and close the file system.
quit ==
    LET c == put_cur_dir(count) IN
    /\ mode = "run"
    /\ mode' = IF dirty THEN "put_clean" ELSE close_super_block(c)
    /\ count' = c
    /\ torn' = [torn EXCEPT ![cur_dir] = Forgotten(c, @)]
    /\ UNCHANGED <<itype, dents, fblocks, cur_dir, dirty>>

\* testfs is started again on the same device, and has what is on it.
main ==
    /\ mode \in Asserts \cup {"quit"}
    /\ mode' = "run"
    /\ cur_dir' = Root
    /\ count' = [i \in Inode |-> IF i = Root THEN 1 ELSE 0]
    /\ torn' = [d \in Inode |-> Dropped(torn[d])]
    /\ dirty' = FALSE
    /\ UNCHANGED <<itype, dents, fblocks>>

-----------------------------------------------------------------------------
(* pwd, lsr, and cd along a path *)

Dirs == {d \in Inode : itype[d] = "dir"}

\* testfs_find_dirent: the name of inode i in directory d; a torn entry with the
\* same number comes after it.
find_dirent(d, i) == dents[d][SelectInSeq(dents[d], LAMBDA e : e.nr = i)].name

\* Mutant: the name is printed before those of the directories above.
pwd_backward(d) ==
    LET path[k \in 0 .. MaxInodes] ==
            [x \in Dirs |->
                LET p == dir_name_to_inode_nr(x, "..") IN
                IF p = x \/ k = 0 THEN <<>> ELSE <<find_dirent(p, x)>> \o path[k - 1][p]]
    IN  path[MaxInodes][d]

\* testfs_pwd: the names from the root to d; the recursion precedes the print, and k
\* bounds the depth of the recursion.
pwd(d) ==
    LET path[k \in 0 .. MaxInodes] ==
            [x \in Dirs |->
                LET p == dir_name_to_inode_nr(x, "..") IN
                IF p = x \/ k = 0 THEN <<>> ELSE Append(path[k - 1][p], find_dirent(p, x))]
    IN  path[MaxInodes][d]

\* cd along a path, from the root; a cd that fails changes nothing.
resolve(path) ==
    LET cd(d, n) == IF Position(d, n) # 0 /\ itype[dir_name_to_inode_nr(d, n)] = "dir"
                    THEN dir_name_to_inode_nr(d, n) ELSE d
        at[i \in 0 .. Len(path)] == IF i = 0 THEN Root ELSE cd(at[i - 1], path[i])
    IN  at[Len(path)]

\* What testfs_next_dirent returns one after the other: at the end the torn
\* entry, whose name is that of no entry.
next_dirents(d) ==
    IF Torn(d) THEN Append(dents[d], [name |-> "torn", nr |-> torn[d].nr]) ELSE dents[d]

\* Mutant: the recursion also takes "..".
lsr_up(d) ==
    LET list[k \in 0 .. MaxInodes] ==
            LET line(e) == IF e.nr = INVALID_INODE_NR \/ e.name = "." THEN <<>>
                           ELSE <<e.nr>> \o IF itype[e.nr] = "dir" /\ k > 0 THEN list[k - 1][e.nr] ELSE <<>>
            IN  [x \in Inode |-> FlattenSeq([j \in DOMAIN next_dirents(x) |-> line(next_dirents(x)[j])])]
    IN  list[MaxInodes][d]

\* testfs_ls, recursive: the inodes in the order they are printed, without the
\* lines of "." and "..", and with that of a torn entry, whatever its number
\* stands for by now; k bounds the depth of the recursion, which leads to
\* directories made later than the ones they are printed in.
lsr(d) ==
    LET list[k \in 0 .. MaxInodes] ==
            LET line(e) == IF e.nr = INVALID_INODE_NR \/ e.name \in Dots THEN <<>>
                           ELSE <<e.nr>> \o IF itype[e.nr] = "dir" /\ k > 0 THEN list[k - 1][e.nr] ELSE <<>>
            IN  [x \in Inode |-> FlattenSeq([j \in DOMAIN next_dirents(x) |-> line(next_dirents(x)[j])])]
    IN  list[MaxInodes][d]

-----------------------------------------------------------------------------
\* Nothing is said of what follows.
Terminated == mode = "ub" /\ UNCHANGED vars

Next ==
    \/ \E n \in Name :
          \/ \E type \in {"file", "dir"} :
                create_file_or_dir(type, n) \/ create_no_space(type, n) \/ create_asserts(type, n)
          \/ cmd_write(n) \/ cmd_rm(n)
    \/ \E n \in Name \cup Dots : cmd_cd(n) \/ ls_file(n)
    \/ stat_dirty \/ search_torn \/ quit \/ main
    \/ Terminated

Spec == Init /\ [][Next]_vars

-----------------------------------------------------------------------------
(* Properties *)

\* The positions of the entries of d that are not removed.
LiveEntries(d) == {k \in DOMAIN dents[d] : dents[d][k].nr # INVALID_INODE_NR}
Parent(d) == dir_name_to_inode_nr(d, "..")

\* No directory has two entries of the same name, although entries are looked
\* up in one pass and placed in a second one that stops at the first removed
\* entry of the right length (testfs_create_file_or_dir, testfs_add_dirent).
NamesUnique ==
    \A d \in Dirs : \A j, k \in LiveEntries(d) :
        dents[d][j].name = dents[d][k].name => j = k

\* The files and directories of the device.
Used == {i \in Inode : itype[i] \in {"file", "dir"}}

\* The entries and the inodes agree: every file and directory but the root has
\* exactly one whole entry, no whole entry leads to an inode that is free or
\* lost, and a directory's ".." is the directory that names it
\* (testfs_add_dirent, testfs_remove_inode).  Of a torn entry, whose number may
\* be free, lost or that of a later file, only this is true: it leads neither
\* to the root nor to the directory it is in.
EntriesMatchInodes ==
    /\ \A d \in Dirs : \A k \in LiveEntries(d) : dents[d][k].nr \in Used
    /\ \A i \in Used \ {Root} :
          \E d \in Dirs : \E k \in LiveEntries(d) :
              /\ dents[d][k].nr = i /\ dents[d][k].name \notin Dots
              /\ itype[i] = "dir" => Parent(i) = d
              /\ \A e \in Dirs : \A l \in LiveEntries(e) :
                    dents[e][l].nr = i /\ dents[e][l].name \notin Dots => e = d /\ l = k
    /\ \A d \in Dirs : Torn(d) => torn[d].nr \notin {Root, d}

\* pwd leads back: from any directory testfs_pwd ends at the root, and cd along
\* the names it printed, in their order, leads to that directory again.
PwdLeadsBack == \A d \in Dirs : resolve(pwd(d)) = d

\* lsr of the root prints every file and directory, whatever was created, removed
\* and put in the place of removed entries before: exactly once and nothing else,
\* as long as no directory ends in a torn entry.  A torn entry has a line of its
\* own, for an inode that is free, or a second one for a later file.
LsrListsEverything ==
    LET printed == lsr(Root) IN
    /\ Used \ {Root} \subseteq ToSet(printed)
    /\ (\A d \in Dirs : ~Torn(d)) => IsInjective(printed) /\ ToSet(printed) = Used \ {Root}

\* The current directory exists and is in memory: no sequence of cd and rm
\* removes it or gives up its last reference (cmd_cd, cmd_rm, testfs_put_inode).
CurDirInUse ==
    mode = "run" => cur_dir \in Dirs /\ count[cur_dir] >= 1

-----------------------------------------------------------------------------
(* What the assertions of the code say, and the code does not ensure *)

\* testfs_add_dirent: assert(found || (p_offset == testfs_inode_get_size(dir))).
AppendsAtEnd == mode # "append_at_end"
=============================================================================
