----------------------------- MODULE DirsProofs -----------------------------
(***************************************************************************)
(* Theorems about the directories of testfs, for any number of inodes and  *)
(* any names.                                                              *)
(***************************************************************************)
EXTENDS Dirs, QueueLemmas, FiniteSetTheorems

Typed ==
    /\ itype \in [Inode -> {"none", "file", "dir", "lost"}]
    /\ dents \in [Inode -> Seq(Dirents)]
    /\ cur_dir \in Inode
    /\ count \in [Inode -> Nat]

\* The positions after those of "." and "..".
Entries(d) == 3 .. Len(dents[d])

Live(d, k) == dents[d][k].nr # INVALID_INODE_NR

\* The first two entries of a directory are "." and "..", and no other is.
DotsFirst ==
    \A d \in Dirs :
        /\ Len(dents[d]) >= 2
        /\ dents[d][1].name = "." /\ dents[d][1].nr = d
        /\ dents[d][2].name = ".." /\ dents[d][2].nr \in Inode
        /\ \A k \in Entries(d) : dents[d][k].name \in Name

\* No two of the other entries have the same name.
NamesDiffer ==
    \A d \in Dirs : \A j, k \in Entries(d) :
        Live(d, j) /\ Live(d, k) /\ dents[d][j].name = dents[d][k].name => j = k

\* They lead to inodes in use, but not to the root.
LeadSomewhere ==
    \A d \in Dirs : \A k \in Entries(d) :
        Live(d, k) => itype[dents[d][k].nr] \in {"file", "dir"} /\ dents[d][k].nr # Root

\* An inode in use has a name,
HasName ==
    \A i \in Inode \ {Root} : itype[i] \in {"file", "dir"} =>
        \E d \in Dirs : \E k \in Entries(d) : dents[d][k].nr = i

\* and not more than one,
OneName ==
    \A d, e \in Dirs : \A j \in Entries(d), k \in Entries(e) :
        Live(d, j) /\ dents[d][j].nr = dents[e][k].nr => d = e /\ j = k

\* in the directory that its ".." leads to.
ParentNames ==
    \A d \in Dirs : \A k \in Entries(d) :
        Live(d, k) /\ itype[dents[d][k].nr] = "dir" => dents[dents[d][k].nr][2].nr = d

\* The root, and only the root, is above itself.
RootOnTop ==
    /\ Root \in Dirs /\ dents[Root][2].nr = Root
    /\ \A d \in Dirs : dents[d][2].nr = d => d = Root

TreeInv == /\ Typed /\ DotsFirst /\ NamesDiffer /\ LeadSomewhere
           /\ HasName /\ OneName /\ ParentNames /\ RootOnTop

DInv == TreeInv /\ CurDirInUse

-----------------------------------------------------------------------------
(* Looking up an entry, and placing one *)

LEMMA MinIsMember ==
    ASSUME NEW T, T \subseteq Nat, T # {}
    PROVE  Min(T) \in T
<1>1. \E x \in T : \A y \in T : x <= y BY LeastNumber
<1> QED BY <1>1 DEF Min

\* The lookup finds an entry of that name, unless there is none.
LEMMA PositionFinds ==
    ASSUME NEW d, NEW n, dents[d] \in Seq(Dirents)
    PROVE  /\ Position(d, n) # 0 =>
                 /\ Position(d, n) \in 1 .. Len(dents[d])
                 /\ Live(d, Position(d, n))
                 /\ dents[d][Position(d, n)].name = n
           /\ Position(d, n) = 0 =>
                 \A k \in 1 .. Len(dents[d]) : Live(d, k) => dents[d][k].name # n
<1> DEFINE T == {i \in 1 .. Len(dents[d]) :
                    dents[d][i].nr # INVALID_INODE_NR /\ dents[d][i].name = n}
<1>1. Position(d, n) = IF T # {} THEN Min(T) ELSE 0 BY DEF Position, SelectInSeq
<1>2. T \subseteq Nat /\ 0 \notin T OBVIOUS
<1>3. T # {} => Min(T) \in T
  <2> HIDE DEF T
  <2> QED BY <1>2, MinIsMember
<1> QED BY <1>1, <1>2, <1>3 DEF Live

\* The place that is reused is that of a removed entry.
LEMMA ReusableFinds ==
    ASSUME NEW d, NEW n, dents[d] \in Seq(Dirents), Reusable(d, n) # 0
    PROVE  Reusable(d, n) \in 1 .. Len(dents[d]) /\ ~Live(d, Reusable(d, n))
<1> DEFINE T == {i \in 1 .. Len(dents[d]) :
                    /\ dents[d][i].nr = INVALID_INODE_NR
                    /\ NameLen[dents[d][i].name] = NameLen[n]}
<1>1. Reusable(d, n) = IF T # {} THEN Min(T) ELSE 0 BY DEF Reusable, SelectInSeq
<1>2. T \subseteq Nat /\ 0 \notin T OBVIOUS
<1>3. T # {} => Min(T) \in T
  <2> HIDE DEF T
  <2> QED BY <1>2, MinIsMember
<1> QED BY <1>1, <1>2, <1>3 DEF Live

\* Inode numbers are numbers, and none is the mark of a removed entry.
LEMMA InodeNumbers ==
    /\ Inode \subseteq Nat /\ Root \in Inode /\ INVALID_INODE_NR \notin Inode
    /\ "." \notin Name /\ ".." \notin Name
  BY DirsAssumption DEF Inode, Root, INVALID_INODE_NR, Dots

\* testfs_add_dirent puts the new entry after "." and ".." in a place that no
\* entry has, and leaves all others where they are.
LEMMA AddDirent ==
    ASSUME TreeInv, NEW d \in Dirs, NEW n \in Name, NEW i \in Inode
    PROVE  /\ add_dirent(d, n, i) \in Seq(Dirents)
           /\ \E s \in 3 .. Len(add_dirent(d, n, i)) :
                 /\ add_dirent(d, n, i)[s] = [name |-> n, nr |-> i]
                 /\ s \in Entries(d) => ~Live(d, s)
                 /\ \A k \in 1 .. Len(add_dirent(d, n, i)) : k # s =>
                        k \in 1 .. Len(dents[d]) /\ add_dirent(d, n, i)[k] = dents[d][k]
                 /\ \A k \in 1 .. Len(dents[d]) : k \in 1 .. Len(add_dirent(d, n, i))
<1> DEFINE q == dents[d]
           e == [name |-> n, nr |-> i]
           s == IF Reusable(d, n) # 0 THEN Reusable(d, n) ELSE Len(q) + 1
           r == add_dirent(d, n, i)
<1>1. d \in Inode /\ q \in Seq(Dirents) /\ e \in Dirents
  BY DEF TreeInv, Typed, Dirs, Dirents
<1>2. /\ Len(q) \in Nat /\ Len(q) >= 2 /\ q[1].nr \in Inode /\ q[2].nr \in Inode
  BY <1>1 DEF TreeInv, DotsFirst
<1>3. CASE Reusable(d, n) # 0
  <2>1. s \in 1 .. Len(q) /\ ~Live(d, s) BY <1>1, <1>3, ReusableFinds
  <2>2. s # 1 /\ s # 2 BY <1>2, <2>1, InodeNumbers DEF Live
  <2>3. r = [q EXCEPT ![s] = e] BY <1>3 DEF add_dirent
  <2> HIDE DEF s, e
  <2>4. r \in Seq(Dirents) /\ Len(r) = Len(q) BY <1>1, <2>1, <2>3
  <2>5. r[s] = e /\ \A k \in 1 .. Len(q) : k # s => r[k] = q[k] BY <1>1, <2>1, <2>3
  <2>6. s \in 3 .. Len(r) BY <1>2, <2>1, <2>2, <2>4
  <2> HIDE DEF r
  <2>7. \E t \in 3 .. Len(r) :
            /\ r[t] = e /\ (t \in Entries(d) => ~Live(d, t))
            /\ \A k \in 1 .. Len(r) : k # t => k \in 1 .. Len(q) /\ r[k] = q[k]
            /\ \A k \in 1 .. Len(q) : k \in 1 .. Len(r)
    BY <2>1, <2>4, <2>5, <2>6
  <2> QED BY <2>4, <2>7 DEF r, e
<1>4. CASE Reusable(d, n) = 0
  <2>1. s = Len(q) + 1 BY <1>4
  <2>2. r = Append(q, e) BY <1>4 DEF add_dirent
  <2> HIDE DEF s, e
  <2>3. r \in Seq(Dirents) /\ Len(r) = Len(q) + 1 BY <1>1, <2>2
  <2>4. r[Len(q) + 1] = e /\ \A k \in 1 .. Len(q) : r[k] = q[k] BY <1>1, <2>2
  <2> HIDE DEF r
  <2>5. s \in 3 .. Len(r) /\ s \notin Entries(d) BY <1>2, <2>1, <2>3 DEF Entries
  <2>6. \E t \in 3 .. Len(r) :
            /\ r[t] = e /\ (t \in Entries(d) => ~Live(d, t))
            /\ \A k \in 1 .. Len(r) : k # t => k \in 1 .. Len(q) /\ r[k] = q[k]
            /\ \A k \in 1 .. Len(q) : k \in 1 .. Len(r)
    BY <1>2, <2>1, <2>3, <2>4, <2>5
  <2> QED BY <2>3, <2>6 DEF r, e
<1> QED BY <1>3, <1>4

-----------------------------------------------------------------------------
(* The steps *)

\* testfs_create_file_or_dir adds one inode and one entry.
LEMMA CreateKeeps ==
    ASSUME DInv, NEW type \in {"file", "dir"}, NEW n \in Name, create_file_or_dir(type, n)
    PROVE  DInv'
<1>1. PICK i \in Inode :
        /\ Creates(type, n, i)
        /\ itype' = [itype EXCEPT ![i] = type]
        /\ dents' = [dents EXCEPT ![i] = IF type = "dir" THEN empty_dir(cur_dir, i) ELSE <<>>,
                                  ![cur_dir] = add_dirent(cur_dir, n, i)]
        /\ cur_dir' = cur_dir /\ count' = count /\ mode' = mode
  BY DEF create_file_or_dir
<1>2. mode = "run" /\ Position(cur_dir, n) = 0 /\ itype[i] = "none" BY <1>1 DEF Creates, FreeInode
<1>3. TreeInv /\ cur_dir \in Dirs BY <1>2 DEF DInv, CurDirInUse
<1>4. cur_dir \in Inode /\ i # cur_dir /\ i # Root /\ i \notin Dirs
  BY <1>2, <1>3 DEF TreeInv, RootOnTop, Dirs
<1>5. Typed /\ DotsFirst /\ NamesDiffer /\ LeadSomewhere /\ HasName /\ OneName /\ ParentNames /\ RootOnTop
  BY <1>3 DEF TreeInv
<1> DEFINE r == add_dirent(cur_dir, n, i)
<1>6. r \in Seq(Dirents) BY <1>3, AddDirent
<1>7. PICK s \in 3 .. Len(r) :
        /\ r[s] = [name |-> n, nr |-> i]
        /\ s \in Entries(cur_dir) => ~Live(cur_dir, s)
        /\ \A k \in 1 .. Len(r) : k # s => k \in 1 .. Len(dents[cur_dir]) /\ r[k] = dents[cur_dir][k]
        /\ \A k \in 1 .. Len(dents[cur_dir]) : k \in 1 .. Len(r)
  BY <1>3, AddDirent
<1> DEFINE e == IF type = "dir" THEN empty_dir(cur_dir, i) ELSE <<>>
<1>8. e \in Seq(Dirents)
  <2>1. [name |-> ".", nr |-> i] \in Dirents /\ [name |-> "..", nr |-> cur_dir] \in Dirents
    BY <1>4 DEF Dirents, Dots
  <2>2. empty_dir(cur_dir, i) \in Seq(Dirents) BY <2>1 DEF empty_dir
  <2> QED BY <2>2
<1>9. dents' = [dents EXCEPT ![i] = e, ![cur_dir] = r] BY <1>1
<1>10. type = "dir" => /\ Len(e) = 2 /\ e[1] = [name |-> ".", nr |-> i]
                       /\ e[2] = [name |-> "..", nr |-> cur_dir]
  BY DEF empty_dir
<1> HIDE DEF r, e
<1>11. /\ dents' \in [Inode -> Seq(Dirents)] /\ dents'[i] = e /\ dents'[cur_dir] = r
       /\ \A d \in Inode : d # i /\ d # cur_dir => dents'[d] = dents[d]
  BY <1>4, <1>5, <1>6, <1>8, <1>9 DEF Typed
<1>12. /\ itype' \in [Inode -> {"none", "file", "dir", "lost"}] /\ itype'[i] = type
       /\ \A d \in Inode : d # i => itype'[d] = itype[d]
  BY <1>1, <1>5 DEF Typed
<1>13. /\ \A d \in Dirs' : d \in Inode /\ (d # i => d \in Dirs)
       /\ \A d \in Dirs : d \in Dirs' /\ d # i /\ d \in Inode
       /\ i \in Dirs' => type = "dir"
  BY <1>4, <1>12 DEF Dirs
<1>14. \A d \in Inode : Len(dents[d]) \in Nat /\ Len(dents'[d]) \in Nat BY <1>5, <1>11 DEF Typed
<1>15. \A d \in Dirs : Len(dents[d]) >= 2 BY <1>5 DEF DotsFirst
<1>16. \A k \in 3 .. Len(r) : k # s => k \in 3 .. Len(dents[cur_dir]) /\ r[k] = dents[cur_dir][k]
  BY <1>7
<1>17. \A k \in 3 .. Len(dents[cur_dir]) : k \in 3 .. Len(r)
  BY <1>4, <1>7, <1>14
\* An entry after the step is the new one or was there before.
<1>18. ASSUME NEW d \in Dirs', NEW k \in Entries(d)'
       PROVE  \/ d = cur_dir /\ k = s /\ dents'[d][k] = [name |-> n, nr |-> i]
              \/ /\ d \in Dirs /\ k \in Entries(d) /\ dents'[d][k] = dents[d][k]
                 /\ d # i /\ ~(d = cur_dir /\ k = s)
  <2>1. CASE d = i
    <3>1. Len(dents'[d]) = 2 BY <1>10, <1>11, <1>13, <2>1
    <3>2. k \in 3 .. 2 BY <3>1 DEF Entries
    <3> QED BY <3>2
  <2>2. CASE d = cur_dir BY <1>3, <1>4, <1>7, <1>11, <1>16, <2>2 DEF Entries
  <2>3. CASE d # i /\ d # cur_dir BY <1>11, <1>13, <2>3 DEF Entries
  <2> QED BY <2>1, <2>2, <2>3
\* An entry that was there is still there.
<1>19. ASSUME NEW d \in Dirs, NEW k \in Entries(d), Live(d, k)
       PROVE  d \in Dirs' /\ k \in Entries(d)' /\ dents'[d][k] = dents[d][k] /\ ~(d = cur_dir /\ k = s)
  <2>1. CASE d = cur_dir BY <1>7, <1>11, <1>13, <1>16, <1>17, <1>19, <2>1 DEF Entries
  <2>2. CASE d # cur_dir BY <1>11, <1>13, <2>2 DEF Entries
  <2> QED BY <2>1, <2>2
<1>20. /\ cur_dir \in Dirs' /\ s \in Entries(cur_dir)'
       /\ dents'[cur_dir][s] = [name |-> n, nr |-> i] /\ Live(cur_dir, s)'
  BY <1>1, <1>3, <1>7, <1>11, <1>13, InodeNumbers DEF Entries, Live
\* "." and ".." stay.
<1>21. ASSUME NEW d \in Dirs
       PROVE  Len(dents'[d]) >= 2 /\ dents'[d][1] = dents[d][1] /\ dents'[d][2] = dents[d][2]
  <2>1. Len(dents[d]) \in Nat /\ Len(dents[d]) >= 2 /\ d \in Inode BY <1>13, <1>14, <1>15
  <2>2. CASE d = cur_dir BY <1>7, <1>11, <2>1, <2>2
  <2>3. CASE d # cur_dir BY <1>11, <1>13, <2>1, <2>3
  <2> QED BY <2>2, <2>3
<1>22. i \in Dirs' => /\ Len(dents'[i]) = 2 /\ dents'[i][1] = [name |-> ".", nr |-> i]
                      /\ dents'[i][2] = [name |-> "..", nr |-> cur_dir]
  BY <1>10, <1>11, <1>13
\* No entry led to the new inode, and none in cur_dir had the new name.
<1>23. \A d \in Dirs : \A k \in Entries(d) : Live(d, k) => dents[d][k].nr # i
  BY <1>2, <1>5 DEF LeadSomewhere
<1>24. \A k \in Entries(cur_dir) : Live(cur_dir, k) => dents[cur_dir][k].name # n
  BY <1>2, <1>4, <1>5, PositionFinds DEF Typed, Entries
<1>25. \A d \in Dirs' : \A k \in Entries(d)' : Live(d, k)' =>
          \/ d = cur_dir /\ k = s /\ dents'[d][k].name = n /\ dents'[d][k].nr = i
          \/ /\ d \in Dirs /\ k \in Entries(d) /\ dents'[d][k] = dents[d][k] /\ d # i
             /\ Live(d, k) /\ ~(d = cur_dir /\ k = s) /\ dents[d][k].nr # i
             /\ dents[d][k].nr \in Inode
  <2> SUFFICES ASSUME NEW d \in Dirs', NEW k \in Entries(d)', Live(d, k)'
               PROVE  \/ d = cur_dir /\ k = s /\ dents'[d][k].name = n /\ dents'[d][k].nr = i
                      \/ /\ d \in Dirs /\ k \in Entries(d) /\ dents'[d][k] = dents[d][k] /\ d # i
                         /\ Live(d, k) /\ ~(d = cur_dir /\ k = s) /\ dents[d][k].nr # i
                         /\ dents[d][k].nr \in Inode
    OBVIOUS
  <2>1. CASE d = cur_dir /\ k = s /\ dents'[d][k] = [name |-> n, nr |-> i] BY <2>1
  <2>2. CASE /\ d \in Dirs /\ k \in Entries(d) /\ dents'[d][k] = dents[d][k]
             /\ d # i /\ ~(d = cur_dir /\ k = s)
    <3>1. Live(d, k) BY <2>2 DEF Live
    <3>2. dents[d][k].nr # i BY <1>23, <2>2, <3>1
    <3>3. d \in Inode /\ k \in 1 .. Len(dents[d]) /\ dents[d] \in Seq(Dirents)
      BY <1>5, <1>13, <2>2 DEF Entries, Typed
    <3>4. dents[d][k] \in Dirents BY <3>3
    <3> QED BY <2>2, <3>1, <3>2, <3>4 DEF Dirents, Live
  <2> QED BY <1>18, <2>1, <2>2
<1>26. Typed' BY <1>1, <1>5, <1>11, <1>12 DEF Typed
<1>27. DotsFirst'
  <2> SUFFICES ASSUME NEW d \in Dirs'
               PROVE  /\ Len(dents'[d]) >= 2
                      /\ dents'[d][1].name = "." /\ dents'[d][1].nr = d
                      /\ dents'[d][2].name = ".." /\ dents'[d][2].nr \in Inode
                      /\ \A k \in Entries(d)' : dents'[d][k].name \in Name
    BY DEF DotsFirst
  <2>1. \A k \in Entries(d)' : dents'[d][k].name \in Name BY <1>5, <1>18 DEF DotsFirst
  <2>2. CASE d = i BY <1>4, <1>22, <2>1, <2>2
  <2>3. CASE d # i BY <1>5, <1>13, <1>21, <2>1, <2>3 DEF DotsFirst
  <2> QED BY <2>2, <2>3
<1>28. NamesDiffer'
  <2> SUFFICES ASSUME NEW d \in Dirs', NEW j \in Entries(d)', NEW k \in Entries(d)',
                      Live(d, j)', Live(d, k)', dents'[d][j].name = dents'[d][k].name
               PROVE  j = k
    BY DEF NamesDiffer
  <2>1. CASE d = cur_dir /\ j = s BY <1>24, <1>25, <2>1
  <2>2. CASE d = cur_dir /\ k = s BY <1>24, <1>25, <2>2
  <2>3. CASE ~(d = cur_dir /\ j = s) /\ ~(d = cur_dir /\ k = s) BY <1>5, <1>25, <2>3 DEF NamesDiffer
  <2> QED BY <2>1, <2>2, <2>3
<1>29. LeadSomewhere'
  <2> SUFFICES ASSUME NEW d \in Dirs', NEW k \in Entries(d)', Live(d, k)'
               PROVE  itype'[dents'[d][k].nr] \in {"file", "dir"} /\ dents'[d][k].nr # Root
    BY DEF LeadSomewhere, Root
  <2> QED BY <1>4, <1>5, <1>12, <1>25 DEF LeadSomewhere
<1>30. HasName'
  <2> SUFFICES ASSUME NEW j \in Inode, j # Root, itype'[j] \in {"file", "dir"}
               PROVE  \E d \in Dirs' : \E k \in Entries(d)' : dents'[d][k].nr = j
    BY DEF HasName, Root, Inode
  <2>1. CASE j = i
    <3>1. dents'[cur_dir][s].nr = j BY <1>20, <2>1
    <3> QED BY <1>1, <1>20, <3>1
  <2>2. CASE j # i
    <3>1. PICK d \in Dirs : \E k \in Entries(d) : dents[d][k].nr = j BY <1>5, <1>12, <2>2 DEF HasName
    <3>2. PICK k \in Entries(d) : dents[d][k].nr = j BY <3>1
    <3>3. Live(d, k) BY <3>2, InodeNumbers DEF Live
    <3>4. d \in Dirs' /\ k \in Entries(d)' /\ dents'[d][k].nr = j BY <1>19, <3>2, <3>3
    <3> QED BY <3>4
  <2> QED BY <2>1, <2>2
<1>31. OneName'
  <2> SUFFICES ASSUME NEW d \in Dirs', NEW f \in Dirs', NEW j \in Entries(d)', NEW k \in Entries(f)',
                      Live(d, j)', dents'[d][j].nr = dents'[f][k].nr
               PROVE  d = f /\ j = k
    BY DEF OneName
  <2>1. Live(f, k)' BY DEF Live
  <2>2. CASE d = cur_dir /\ j = s BY <1>20, <1>25, <2>1, <2>2
  <2>3. CASE f = cur_dir /\ k = s BY <1>20, <1>25, <2>1, <2>3
  <2>4. CASE ~(d = cur_dir /\ j = s) /\ ~(f = cur_dir /\ k = s)
    BY <1>5, <1>25, <2>1, <2>4 DEF OneName
  <2> QED BY <2>2, <2>3, <2>4
<1>32. ParentNames'
  <2> SUFFICES ASSUME NEW d \in Dirs', NEW k \in Entries(d)', Live(d, k)',
                      itype'[dents'[d][k].nr] = "dir"
               PROVE  dents'[dents'[d][k].nr][2].nr = d
    BY DEF ParentNames
  <2>1. CASE d = cur_dir /\ k = s
    <3>1. dents'[d][k].nr = i BY <1>20, <2>1
    <3>2. i \in Dirs' BY <3>1 DEF Dirs
    <3> QED BY <1>22, <2>1, <3>1, <3>2
  <2>2. CASE ~(d = cur_dir /\ k = s)
    <3>1. /\ d \in Dirs /\ k \in Entries(d) /\ dents'[d][k] = dents[d][k] /\ Live(d, k)
          /\ dents[d][k].nr # i /\ dents[d][k].nr \in Inode
      BY <1>25, <2>2
    <3>2. itype[dents[d][k].nr] = "dir" BY <1>12, <3>1
    <3>3. dents[d][k].nr \in Dirs BY <3>1, <3>2 DEF Dirs
    <3>4. dents[dents[d][k].nr][2].nr = d BY <1>5, <3>1, <3>2 DEF ParentNames
    <3> QED BY <1>21, <3>1, <3>3, <3>4
  <2> QED BY <2>1, <2>2
<1>33. RootOnTop'
  <2>1. Root \in Dirs' /\ dents'[Root][2].nr = Root BY <1>5, <1>13, <1>21 DEF RootOnTop
  <2>2. ASSUME NEW d \in Dirs', dents'[d][2].nr = d PROVE d = Root
    <3>1. d # i BY <1>4, <1>22, <2>2
    <3> QED BY <1>5, <1>13, <1>21, <2>2, <3>1 DEF RootOnTop
  <2> QED BY <2>1, <2>2 DEF RootOnTop, Root
<1>34. CurDirInUse' BY <1>1, <1>2, <1>20 DEF DInv, CurDirInUse
<1> QED BY <1>26, <1>27, <1>28, <1>29, <1>30, <1>31, <1>32, <1>33, <1>34 DEF DInv, TreeInv

\* cmd_rm takes away one entry and the inode it leads to, which is neither the
\* current directory nor a directory with entries.
LEMMA RemoveKeeps ==
    ASSUME DInv, NEW n \in Name, cmd_rm(n)
    PROVE  DInv'
<1> DEFINE c == cur_dir
           p == Position(c, n)
           i == dents[c][p].nr
           r == remove_dirent(c, p)
<1>1. /\ mode = "run" /\ p # 0 /\ remove_dirent_allowed(i)
      /\ dents' = [dents EXCEPT ![c] = r, ![i] = <<>>]
      /\ itype' = [itype EXCEPT ![i] = "none"]
      /\ cur_dir' = cur_dir /\ count' = count /\ mode' = mode
  BY DEF cmd_rm
<1>2. c \in Dirs BY <1>1 DEF DInv, CurDirInUse
<1>3. Typed /\ DotsFirst /\ NamesDiffer /\ LeadSomewhere /\ HasName /\ OneName /\ ParentNames /\ RootOnTop
  BY DEF DInv, TreeInv
<1>4. c \in Inode /\ dents[c] \in Seq(Dirents) /\ Len(dents[c]) \in Nat
  BY <1>2, <1>3 DEF Typed, Dirs
<1>5. p \in 1 .. Len(dents[c]) /\ Live(c, p) /\ dents[c][p].name = n
  BY <1>1, <1>4, PositionFinds
<1> HIDE DEF p
<1>6. p # 1 /\ p # 2 BY <1>2, <1>3, <1>5, InodeNumbers DEF DotsFirst
<1>7. p \in Entries(c) BY <1>4, <1>5, <1>6 DEF Entries
<1>8. i \in Inode
  <2>1. dents[c][p] \in Dirents BY <1>4, <1>5
  <2> QED BY <1>5, <2>1 DEF Live, Dirents
<1>9. itype[i] \in {"file", "dir"} /\ i # Root BY <1>2, <1>3, <1>5, <1>7 DEF LeadSomewhere
\* It is not the current directory, which would be above itself.
<1>10. i # c
  <2> SUFFICES ASSUME i = c PROVE FALSE OBVIOUS
  <2>1. itype[i] = "dir" BY <1>2 DEF Dirs
  <2>2. dents[i][2].nr = c BY <1>2, <1>3, <1>5, <1>7, <2>1 DEF ParentNames
  <2> QED BY <1>2, <1>3, <1>9, <2>2 DEF RootOnTop
\* If it is a directory, it is empty.
<1>11. i \in Dirs => \A k \in Entries(i) : ~Live(i, k)
  <2> SUFFICES ASSUME i \in Dirs, NEW k \in Entries(i) PROVE ~Live(i, k) OBVIOUS
  <2>1. dents[i][k].name \in Name BY <1>3 DEF DotsFirst
  <2>2. dents[i] \in Seq(Dirents) /\ k \in DOMAIN dents[i] BY <1>3, <1>8 DEF Typed, Entries
  <2>3. itype[i] = "dir" BY DEF Dirs
  <2> QED BY <1>1, <2>1, <2>2, <2>3, DirsAssumption DEF remove_dirent_allowed, Live
<1>12. /\ r \in Seq(Dirents) /\ Len(r) = Len(dents[c]) /\ r[p].nr = INVALID_INODE_NR
       /\ r[p].name = n /\ \A k \in 1 .. Len(dents[c]) : k # p => r[k] = dents[c][k]
  <2>1. dents[c][p] \in Dirents BY <1>4, <1>5
  <2>2. [dents[c][p] EXCEPT !.nr = INVALID_INODE_NR] \in Dirents BY <2>1 DEF Dirents
  <2>3. /\ [dents[c][p] EXCEPT !.nr = INVALID_INODE_NR].nr = INVALID_INODE_NR
        /\ [dents[c][p] EXCEPT !.nr = INVALID_INODE_NR].name = n
    BY <1>5, <2>1 DEF Dirents
  <2>4. r = [dents[c] EXCEPT ![p] = [dents[c][p] EXCEPT !.nr = INVALID_INODE_NR]]
    BY <1>4, <1>5 DEF remove_dirent
  <2> DEFINE x == [dents[c][p] EXCEPT !.nr = INVALID_INODE_NR]
  <2> HIDE DEF r, x
  <2>5. r = [dents[c] EXCEPT ![p] = x] /\ x \in Dirents BY <2>2, <2>4 DEF x
  <2>6. r \in Seq(Dirents) /\ Len(r) = Len(dents[c]) /\ r[p] = x
    BY <1>4, <1>5, <2>5
  <2>7. \A k \in 1 .. Len(dents[c]) : k # p => r[k] = dents[c][k] BY <1>4, <1>5, <2>5
  <2> QED BY <2>3, <2>6, <2>7 DEF x
<1> HIDE DEF r
<1>13. PICK j \in Inode : j = i BY <1>8
<1>14. PICK b \in Inode : b = cur_dir BY <1>4
<1> HIDE DEF i, c
<1>15. b = c /\ b = cur_dir /\ b = cur_dir' BY <1>1, <1>14 DEF c
<1>16. /\ b \in Dirs /\ j # b /\ j # Root /\ itype[j] \in {"file", "dir"} /\ p \in Entries(b)
       /\ Live(b, p) /\ dents[b][p].nr = j
       /\ j \in Dirs => \A k \in Entries(j) : ~Live(j, k)
  BY <1>2, <1>5, <1>7, <1>9, <1>10, <1>11, <1>13, <1>15 DEF i
<1>17. /\ dents' \in [Inode -> Seq(Dirents)] /\ dents'[b] = r
       /\ \A d \in Inode : d # j /\ d # b => dents'[d] = dents[d]
  <2>1. <<>> \in Seq(Dirents) OBVIOUS
  <2>2. dents' = [dents EXCEPT ![b] = r, ![j] = <<>>] BY <1>1, <1>13, <1>15
  <2> QED BY <1>3, <1>12, <1>16, <2>1, <2>2 DEF Typed
<1>18. /\ itype' \in [Inode -> {"none", "file", "dir", "lost"}] /\ itype'[j] = "none"
       /\ \A d \in Inode : d # j => itype'[d] = itype[d]
  BY <1>1, <1>3, <1>13 DEF Typed
<1>19. /\ \A d \in Dirs' : d \in Inode /\ d # j /\ d \in Dirs
       /\ \A d \in Dirs : d # j => d \in Dirs' /\ d \in Inode
  BY <1>18 DEF Dirs
<1>20. /\ Len(dents'[b]) = Len(dents[b]) /\ dents'[b][p].nr = INVALID_INODE_NR
       /\ dents'[b][p].name = n
       /\ \A k \in 1 .. Len(dents[b]) : k # p => dents'[b][k] = dents[b][k]
  BY <1>12, <1>15, <1>17
\* No other entry leads to the inode.
<1>21. \A d \in Dirs : \A k \in Entries(d) : dents[d][k].nr = j => d = b /\ k = p
  BY <1>3, <1>16 DEF OneName
\* The entries after the step were there before,
<1>22. ASSUME NEW d \in Dirs', NEW k \in Entries(d)'
       PROVE  /\ d \in Dirs /\ k \in Entries(d)
              /\ \/ d = b /\ k = p /\ dents'[d][k].nr = INVALID_INODE_NR /\ dents'[d][k].name = n
                 \/ dents'[d][k] = dents[d][k] /\ ~(d = b /\ k = p)
  <2>1. CASE d = b BY <1>19, <1>20, <2>1 DEF Entries
  <2>2. CASE d # b BY <1>17, <1>19, <2>2 DEF Entries
  <2> QED BY <2>1, <2>2
<1>23. \A d \in Dirs' : \A k \in Entries(d)' : Live(d, k)' =>
          /\ d \in Dirs /\ k \in Entries(d) /\ dents'[d][k] = dents[d][k] /\ Live(d, k)
          /\ dents[d][k].nr # j /\ dents[d][k].nr \in Inode
  <2> SUFFICES ASSUME NEW d \in Dirs', NEW k \in Entries(d)', Live(d, k)'
               PROVE  /\ d \in Dirs /\ k \in Entries(d) /\ dents'[d][k] = dents[d][k] /\ Live(d, k)
                      /\ dents[d][k].nr # j /\ dents[d][k].nr \in Inode
    OBVIOUS
  <2>1. d \in Dirs /\ k \in Entries(d) /\ dents'[d][k] = dents[d][k] /\ ~(d = b /\ k = p)
    BY <1>22 DEF Live
  <2>2. Live(d, k) BY <2>1 DEF Live
  <2>3. dents[d][k].nr # j BY <1>21, <2>1
  <2>4. d \in Inode /\ k \in 1 .. Len(dents[d]) /\ dents[d] \in Seq(Dirents)
    BY <1>3, <2>1 DEF Entries, Typed, Dirs
  <2>5. dents[d][k] \in Dirents BY <2>4
  <2> QED BY <2>1, <2>2, <2>3, <2>5 DEF Dirents, Live
\* and only the one that was removed is gone.
<1>24. ASSUME NEW d \in Dirs, NEW k \in Entries(d), Live(d, k), dents[d][k].nr # j
       PROVE  d \in Dirs' /\ k \in Entries(d)' /\ dents'[d][k] = dents[d][k]
  <2>1. d # j BY <1>16, <1>24
  <2>2. CASE d = b
    <3>1. k # p BY <1>16, <1>24, <2>2
    <3> QED BY <1>19, <1>20, <2>1, <2>2, <3>1 DEF Entries
  <2>3. CASE d # b BY <1>17, <1>19, <2>1, <2>3 DEF Entries
  <2> QED BY <2>2, <2>3
\* "." and ".." stay.
<1>25. ASSUME NEW d \in Dirs'
       PROVE  Len(dents'[d]) >= 2 /\ dents'[d][1] = dents[d][1] /\ dents'[d][2] = dents[d][2]
  <2>1. Len(dents[d]) \in Nat /\ Len(dents[d]) >= 2 /\ d \in Inode
    BY <1>3, <1>19 DEF Typed, DotsFirst
  <2>2. p # 1 /\ p # 2 BY <1>6
  <2>3. CASE d = b BY <1>20, <2>1, <2>2, <2>3
  <2>4. CASE d # b BY <1>17, <1>19, <2>1, <2>4
  <2> QED BY <2>3, <2>4
<1>26. Typed' BY <1>1, <1>3, <1>17, <1>18 DEF Typed
<1>27. DotsFirst'
  <2> SUFFICES ASSUME NEW d \in Dirs'
               PROVE  /\ Len(dents'[d]) >= 2
                      /\ dents'[d][1].name = "." /\ dents'[d][1].nr = d
                      /\ dents'[d][2].name = ".." /\ dents'[d][2].nr \in Inode
                      /\ \A k \in Entries(d)' : dents'[d][k].name \in Name
    BY DEF DotsFirst
  <2>1. \A k \in Entries(d)' : dents'[d][k].name \in Name BY <1>3, <1>22 DEF DotsFirst
  <2> QED BY <1>3, <1>19, <1>25, <2>1 DEF DotsFirst
<1>28. NamesDiffer'
  <2> SUFFICES ASSUME NEW d \in Dirs', NEW x \in Entries(d)', NEW y \in Entries(d)',
                      Live(d, x)', Live(d, y)', dents'[d][x].name = dents'[d][y].name
               PROVE  x = y
    BY DEF NamesDiffer
  <2> QED BY <1>3, <1>23 DEF NamesDiffer
<1>29. LeadSomewhere'
  <2> SUFFICES ASSUME NEW d \in Dirs', NEW k \in Entries(d)', Live(d, k)'
               PROVE  itype'[dents'[d][k].nr] \in {"file", "dir"} /\ dents'[d][k].nr # Root
    BY DEF LeadSomewhere, Root
  <2> QED BY <1>3, <1>18, <1>23 DEF LeadSomewhere
<1>30. HasName'
  <2> SUFFICES ASSUME NEW x \in Inode, x # Root, itype'[x] \in {"file", "dir"}
               PROVE  \E d \in Dirs' : \E k \in Entries(d)' : dents'[d][k].nr = x
    BY DEF HasName, Root, Inode
  <2>1. x # j /\ itype[x] \in {"file", "dir"} BY <1>18
  <2>2. PICK d \in Dirs : \E k \in Entries(d) : dents[d][k].nr = x BY <1>3, <2>1 DEF HasName
  <2>3. PICK k \in Entries(d) : dents[d][k].nr = x BY <2>2
  <2>4. Live(d, k) BY <2>3, InodeNumbers DEF Live
  <2>5. d \in Dirs' /\ k \in Entries(d)' /\ dents'[d][k].nr = x BY <1>24, <2>1, <2>3, <2>4
  <2> QED BY <2>5
<1>31. OneName'
  <2> SUFFICES ASSUME NEW d \in Dirs', NEW f \in Dirs', NEW x \in Entries(d)', NEW y \in Entries(f)',
                      Live(d, x)', dents'[d][x].nr = dents'[f][y].nr
               PROVE  d = f /\ x = y
    BY DEF OneName
  <2>1. Live(f, y)' BY DEF Live
  <2> QED BY <1>3, <1>23, <2>1 DEF OneName
<1>32. ParentNames'
  <2> SUFFICES ASSUME NEW d \in Dirs', NEW k \in Entries(d)', Live(d, k)',
                      itype'[dents'[d][k].nr] = "dir"
               PROVE  dents'[dents'[d][k].nr][2].nr = d
    BY DEF ParentNames
  <2>1. /\ d \in Dirs /\ k \in Entries(d) /\ dents'[d][k] = dents[d][k] /\ Live(d, k)
        /\ dents[d][k].nr # j /\ dents[d][k].nr \in Inode
    BY <1>23
  <2>2. itype[dents[d][k].nr] = "dir" BY <1>18, <2>1
  <2>3. dents[d][k].nr \in Dirs' BY <1>19, <2>1, <2>2 DEF Dirs
  <2>4. dents[dents[d][k].nr][2].nr = d BY <1>3, <2>1, <2>2 DEF ParentNames
  <2> QED BY <1>25, <2>1, <2>3, <2>4
<1>33. RootOnTop' 
  <2>1. Root \in Dirs' BY <1>3, <1>16, <1>19 DEF RootOnTop
  <2>2. dents'[Root][2].nr = Root BY <1>3, <1>25, <2>1 DEF RootOnTop
  <2>3. \A d \in Dirs' : dents'[d][2].nr = d => d = Root BY <1>3, <1>19, <1>25 DEF RootOnTop
  <2> QED BY <2>1, <2>2, <2>3 DEF RootOnTop, Root
<1>34. CurDirInUse'
  <2>1. b \in Dirs' BY <1>16, <1>19
  <2> QED BY <1>1, <1>15, <2>1 DEF DInv, CurDirInUse
<1> QED BY <1>26, <1>27, <1>28, <1>29, <1>30, <1>31, <1>32, <1>33, <1>34 DEF DInv, TreeInv

\* No file and no directory comes or goes; a number may be lost.
SameFiles ==
    /\ itype' \in [Inode -> {"none", "file", "dir", "lost"}]
    /\ \A i \in Inode : itype[i] \in {"file", "dir"} \/ itype'[i] \in {"file", "dir"} => itype'[i] = itype[i]

LEMMA SameTypes == ASSUME Typed, itype' = itype PROVE SameFiles
  BY DEF Typed, SameFiles

\* A step that leaves files and directories alone.
LEMMA TreeStays ==
    ASSUME TreeInv, SameFiles, dents' = dents, cur_dir' \in Inode, count' \in [Inode -> Nat]
    PROVE  TreeInv' /\ Dirs' = Dirs
<1>1. Dirs' = Dirs BY DEF Dirs, SameFiles
<1>2. Typed' BY DEF TreeInv, Typed, SameFiles
<1>3. DotsFirst' BY <1>1 DEF TreeInv, DotsFirst, Entries
<1>4. NamesDiffer' BY <1>1 DEF TreeInv, NamesDiffer, Entries, Live
<1> DEFINE nr(d, k) == dents[d][k].nr
<1>0. \A d \in Dirs : \A k \in Entries(d) : Live(d, k) => nr(d, k) \in Inode
  <2> SUFFICES ASSUME NEW d \in Dirs, NEW k \in Entries(d), Live(d, k) PROVE nr(d, k) \in Inode
    OBVIOUS
  <2>1. dents[d] \in Seq(Dirents) /\ k \in 1 .. Len(dents[d]) BY DEF TreeInv, Typed, Dirs, Entries
  <2>2. dents[d][k] \in Dirents BY <2>1
  <2> QED BY <2>2 DEF Dirents, Live
<1>5. LeadSomewhere'
  <2> SUFFICES ASSUME NEW d \in Dirs, NEW k \in Entries(d), Live(d, k)
               PROVE  itype'[nr(d, k)] \in {"file", "dir"} /\ nr(d, k) # Root
    BY <1>1 DEF LeadSomewhere, Entries, Live, Root
  <2>1. nr(d, k) \in Inode /\ itype[nr(d, k)] \in {"file", "dir"} /\ nr(d, k) # Root
    BY <1>0 DEF TreeInv, LeadSomewhere
  <2> QED BY <2>1 DEF SameFiles
<1>6. HasName'
  <2> SUFFICES ASSUME NEW i \in Inode, i # Root, itype'[i] \in {"file", "dir"}
               PROVE  \E d \in Dirs : \E k \in Entries(d) : dents[d][k].nr = i
    BY <1>1 DEF HasName, Entries, Root, Inode
  <2>1. itype[i] \in {"file", "dir"} BY DEF SameFiles
  <2> QED BY <2>1 DEF TreeInv, HasName
<1>7. OneName' BY <1>1 DEF TreeInv, OneName, Entries, Live
<1>8. ParentNames'
  <2> SUFFICES ASSUME NEW d \in Dirs, NEW k \in Entries(d), Live(d, k), itype'[nr(d, k)] = "dir"
               PROVE  dents[nr(d, k)][2].nr = d
    BY <1>1 DEF ParentNames, Entries, Live
  <2>1. nr(d, k) \in Inode BY <1>0
  <2>2. itype[nr(d, k)] = "dir" BY <2>1 DEF SameFiles
  <2> QED BY <2>2 DEF TreeInv, ParentNames
<1>9. RootOnTop' BY <1>1 DEF TreeInv, RootOnTop
<1> HIDE DEF nr
<1> QED BY <1>1, <1>2, <1>3, <1>4, <1>5, <1>6, <1>7, <1>8, <1>9 DEF TreeInv

\* A lookup that succeeds leads to an inode.
LEMMA FoundInode ==
    ASSUME NEW d \in Inode, NEW n, dents[d] \in Seq(Dirents), Position(d, n) # 0
    PROVE  dir_name_to_inode_nr(d, n) \in Inode
<1>1. Position(d, n) \in 1 .. Len(dents[d]) /\ Live(d, Position(d, n)) BY PositionFinds
<1>2. dents[d][Position(d, n)] \in Dirents BY <1>1
<1> QED BY <1>1, <1>2 DEF dir_name_to_inode_nr, Live, Dirents

\* cmd_cd: the directory that is entered has the reference that the other loses.
LEMMA ChangeDirKeeps ==
    ASSUME DInv, NEW n \in Name \cup Dots, cmd_cd(n)
    PROVE  DInv'
<1> DEFINE i == dir_name_to_inode_nr(cur_dir, n)
           c == put_cur_dir(get_inode(count, i))
<1>1. /\ mode = "run" /\ Position(cur_dir, n) # 0 /\ itype[i] = "dir"
      /\ itype' = itype /\ dents' = dents
      /\ \/ mode' = "put_clean" /\ cur_dir' = cur_dir /\ count' = count
         \/ mode' = mode /\ cur_dir' = i /\ count' = c
  BY DEF cmd_cd
<1>2. cur_dir \in Dirs /\ count[cur_dir] >= 1 /\ Typed BY <1>1 DEF DInv, CurDirInUse, TreeInv
<1>3. /\ cur_dir \in Inode /\ dents[cur_dir] \in Seq(Dirents) /\ count \in [Inode -> Nat]
  BY <1>2 DEF Typed, Dirs
<1>4. i \in Inode BY <1>1, <1>3, FoundInode
<1> HIDE DEF i
<1>5. i \in Dirs BY <1>1, <1>4 DEF Dirs
<1>6. c \in [Inode -> Nat] /\ c[i] >= 1
  BY <1>2, <1>3, <1>4 DEF put_cur_dir, get_inode
<1> HIDE DEF c
<1>7. CASE mode' = "put_clean" /\ cur_dir' = cur_dir /\ count' = count
  BY <1>1, <1>2, <1>3, <1>7, SameTypes, TreeStays DEF DInv, CurDirInUse
<1>8. CASE mode' = mode /\ cur_dir' = i /\ count' = c
  <2>1. TreeInv' /\ Dirs' = Dirs BY <1>1, <1>2, <1>4, <1>6, <1>8, SameTypes, TreeStays DEF DInv
  <2>2. cur_dir' \in Dirs' /\ count'[cur_dir'] >= 1 BY <1>5, <1>6, <1>8, <2>1
  <2> QED BY <2>1, <2>2 DEF DInv, CurDirInUse
<1> QED BY <1>1, <1>7, <1>8

\* Commands that leave the directories and the current one alone.
LEMMA QuietKeeps ==
    ASSUME DInv, SameFiles, dents' = dents, cur_dir' = cur_dir,
           count' = count, mode' = "run" => mode = "run"
    PROVE  DInv'
<1>1. cur_dir \in Inode /\ count \in [Inode -> Nat] BY DEF DInv, TreeInv, Typed
<1>2. TreeInv' /\ Dirs' = Dirs BY <1>1, TreeStays DEF DInv
<1> QED BY <1>2 DEF DInv, CurDirInUse

\* The assertion that fails in testfs_add_dirent loses the number of an inode.
LEMMA LosesNumber ==
    ASSUME Typed, NEW type \in {"file", "dir"}, NEW n \in Name, create_asserts(type, n)
    PROVE  SameFiles
<1>1. PICK i \in Inode : itype[i] = "none" /\ itype' = [itype EXCEPT ![i] = "lost"]
  BY DEF create_asserts, Creates, FreeInode
<1> QED BY <1>1 DEF Typed, SameFiles

\* cmd_ls_internal on a file takes a reference and keeps it.
LEMMA ListFileKeeps ==
    ASSUME DInv, NEW n \in Name \cup Dots, ls_file(n)
    PROVE  DInv'
<1> DEFINE i == dir_name_to_inode_nr(cur_dir, n)
<1>1. /\ mode = "run" /\ itype' = itype /\ dents' = dents /\ cur_dir' = cur_dir /\ mode' = mode
      /\ count' = [count EXCEPT ![i] = @ + 1] /\ Position(cur_dir, n) # 0
  BY DEF ls_file, get_inode
<1>2. cur_dir \in Inode /\ count \in [Inode -> Nat] /\ cur_dir \in Dirs /\ count[cur_dir] >= 1
  BY <1>1 DEF DInv, TreeInv, Typed, CurDirInUse
<1>3. i \in Inode
  <2>1. dents[cur_dir] \in Seq(Dirents) BY <1>2 DEF DInv, TreeInv, Typed
  <2> QED BY <1>1, <1>2, <2>1, FoundInode
<1> HIDE DEF i
<1>4. count' \in [Inode -> Nat] /\ count'[cur_dir] >= 1 BY <1>1, <1>2, <1>3
<1>5. TreeInv' /\ Dirs' = Dirs BY <1>1, <1>2, <1>4, SameTypes, TreeStays DEF DInv, TreeInv
<1> QED BY <1>1, <1>2, <1>4, <1>5 DEF DInv, CurDirInUse

\* Leaving the shell gives up the reference to the current directory, and
\* starting it again takes one to the root.
LEMMA QuitKeeps == ASSUME DInv, quit PROVE DInv'
<1>1. /\ mode = "run" /\ mode' # "run" /\ itype' = itype /\ dents' = dents /\ cur_dir' = cur_dir
      /\ count' = [count EXCEPT ![cur_dir] = @ - 1]
  BY DEF quit, put_cur_dir, close_super_block
<1>2. cur_dir \in Inode /\ count \in [Inode -> Nat] /\ count[cur_dir] >= 1
  BY <1>1 DEF DInv, TreeInv, Typed, CurDirInUse
<1>3. count' \in [Inode -> Nat] BY <1>1, <1>2
<1>4. TreeInv' BY <1>1, <1>2, <1>3, SameTypes, TreeStays DEF DInv, TreeInv
<1> QED BY <1>1, <1>4 DEF DInv, CurDirInUse

LEMMA MainKeeps == ASSUME DInv, main PROVE DInv'
<1>1. /\ itype' = itype /\ dents' = dents /\ cur_dir' = Root
      /\ count' = [i \in Inode |-> IF i = Root THEN 1 ELSE 0]
  BY DEF main
<1>2. Root \in Inode /\ count \in [Inode -> Nat] /\ Root \in Dirs
  BY InodeNumbers DEF DInv, TreeInv, Typed, RootOnTop
<1>3. count' \in [Inode -> Nat] /\ count'[Root] = 1 BY <1>1, <1>2
<1>4. TreeInv' /\ Dirs' = Dirs BY <1>1, <1>2, <1>3, SameTypes, TreeStays DEF DInv, TreeInv
<1> QED BY <1>1, <1>2, <1>3, <1>4 DEF DInv, CurDirInUse

LEMMA DirsInit == Init => DInv
<1> SUFFICES ASSUME Init PROVE DInv OBVIOUS
<1>1. Root \in Inode /\ INVALID_INODE_NR \notin Inode BY InodeNumbers
<1>2. /\ itype = [i \in Inode |-> IF i = Root THEN "dir" ELSE "none"]
      /\ dents = [i \in Inode |-> IF i = Root THEN empty_dir(Root, Root) ELSE <<>>]
      /\ cur_dir = Root /\ count = [i \in Inode |-> IF i = Root THEN 1 ELSE 0]
  BY DEF Init
<1>3. /\ empty_dir(Root, Root) \in Seq(Dirents) /\ Len(empty_dir(Root, Root)) = 2
      /\ empty_dir(Root, Root)[1] = [name |-> ".", nr |-> Root]
      /\ empty_dir(Root, Root)[2] = [name |-> "..", nr |-> Root]
  <2>1. [name |-> ".", nr |-> Root] \in Dirents /\ [name |-> "..", nr |-> Root] \in Dirents
    BY <1>1 DEF Dirents, Dots
  <2> QED BY <2>1 DEF empty_dir
<1>4. Typed BY <1>1, <1>2, <1>3 DEF Typed
<1>5. Dirs = {Root} BY <1>1, <1>2 DEF Dirs
<1>6. dents[Root] = empty_dir(Root, Root) /\ Entries(Root) = {}
  <2>1. dents[Root] = empty_dir(Root, Root) BY <1>1, <1>2
  <2>2. Entries(Root) = 3 .. 2 BY <1>3, <2>1 DEF Entries
  <2> QED BY <2>1, <2>2
<1>7. DotsFirst BY <1>1, <1>3, <1>5, <1>6 DEF DotsFirst
<1>8. NamesDiffer /\ LeadSomewhere /\ OneName /\ ParentNames
  BY <1>5, <1>6 DEF NamesDiffer, LeadSomewhere, OneName, ParentNames
<1>9. HasName BY <1>2 DEF HasName
<1>10. RootOnTop BY <1>3, <1>5, <1>6 DEF RootOnTop
<1>11. CurDirInUse BY <1>1, <1>2, <1>5 DEF CurDirInUse
<1> QED BY <1>4, <1>7, <1>8, <1>9, <1>10, <1>11 DEF DInv, TreeInv

LEMMA DirsNext == DInv /\ [Next]_vars => DInv'
<1> SUFFICES ASSUME DInv, [Next]_vars PROVE DInv' OBVIOUS
<1>0. Typed /\ (itype' = itype => SameFiles) BY SameTypes DEF DInv, TreeInv
<1>1. ASSUME NEW n \in Name, NEW type \in {"file", "dir"}, create_file_or_dir(type, n) PROVE DInv'
  BY <1>1, CreateKeeps
<1>2. ASSUME NEW n \in Name, NEW type \in {"file", "dir"},
             create_no_space(type, n) \/ create_asserts(type, n)
      PROVE  DInv'
  <2>1. CASE create_no_space(type, n) BY <1>0, <2>1, QuietKeeps DEF create_no_space
  <2>2. CASE create_asserts(type, n)
    <3>1. SameFiles BY <1>0, <2>2, LosesNumber
    <3> QED BY <2>2, <3>1, QuietKeeps DEF create_asserts
  <2> QED BY <1>2, <2>1, <2>2
<1>3. ASSUME NEW n \in Name, cmd_write(n) PROVE DInv' BY <1>0, <1>3, QuietKeeps DEF cmd_write
<1>4. ASSUME NEW n \in Name, cmd_rm(n) PROVE DInv' BY <1>4, RemoveKeeps
<1>5. ASSUME NEW n \in Name \cup Dots, cmd_cd(n) PROVE DInv' BY <1>5, ChangeDirKeeps
<1>6. ASSUME NEW n \in Name \cup Dots, ls_file(n) PROVE DInv' BY <1>6, ListFileKeeps
<1>7. CASE stat_dirty BY <1>0, <1>7, QuietKeeps DEF stat_dirty
<1>8. CASE search_torn BY <1>0, <1>8, QuietKeeps DEF search_torn
<1>9. CASE quit BY <1>9, QuitKeeps
<1>10. CASE main BY <1>10, MainKeeps
<1>11. CASE Terminated BY <1>0, <1>11, QuietKeeps DEF Terminated, vars
<1>12. CASE UNCHANGED vars BY <1>0, <1>12, QuietKeeps DEF vars
<1> QED BY <1>1, <1>2, <1>3, <1>4, <1>5, <1>6, <1>7, <1>8, <1>9, <1>10, <1>11, <1>12 DEF Next

-----------------------------------------------------------------------------
(* Theorems *)

LEMMA DirsInvariant == Spec => []DInv
  BY DirsInit, DirsNext, PTL DEF Spec

\* A torn entry has the number of an inode, but not of the root nor of the
\* directory it is in.
TornElsewhere ==
    /\ torn \in [Inode -> Tears]
    /\ \A d \in Inode : torn[d].nr \notin {Root, d} /\ (Torn(d) => torn[d].nr \in Inode)

\* To sync or to forget a torn entry leaves its number or takes it away.
LEMMA TornParts ==
    ASSUME NEW d \in Inode, NEW x \in Tears, x.nr \notin {Root, d}, x.at # "no" => x.nr \in Inode
    PROVE  /\ \A y \in {x, Synced(x), Dropped(x), Whole} :
                 y \in Tears /\ y.nr \notin {Root, d} /\ (y.at # "no" => y.nr \in Inode)
           /\ \A i \in Inode \ {Root, d} :
                 Tear(i) \in Tears /\ Tear(i).nr = i
<1>1. Whole \in Tears /\ Whole.nr \notin {Root, d} /\ Whole.at = "no"
  BY InodeNumbers DEF Whole, Tears
<1>2. Dropped(x) \in {x, Whole} BY DEF Dropped
<1>3. /\ Synced(x) \in Tears /\ Synced(x).nr = x.nr
      /\ Synced(x).at # "no" => x.at # "no"
  BY DEF Synced, Tears
<1>4. \A i \in Inode : Tear(i) \in Tears /\ Tear(i).nr = i BY DEF Tear, Tears
<1> QED BY <1>1, <1>2, <1>3, <1>4

\* A step keeps this if it tears a directory only at a number that is free.
LEMMA TornKeeps ==
    ASSUME TornElsewhere, DOMAIN torn' = Inode,
           \A d \in Inode :
              \/ torn'[d] \in {torn[d], Synced(torn[d]), Dropped(torn[d]), Whole}
              \/ \E i \in Inode \ {Root, d} : torn'[d] = Tear(i),
           torn' = [d \in DOMAIN torn' |-> torn'[d]]
    PROVE  TornElsewhere'
<1>1. ASSUME NEW d \in Inode
      PROVE  torn'[d] \in Tears /\ torn'[d].nr \notin {Root, d} /\ (torn'[d].at # "no" => torn'[d].nr \in Inode)
  <2>1. torn[d] \in Tears /\ torn[d].nr \notin {Root, d} /\ (torn[d].at # "no" => torn[d].nr \in Inode)
    BY DEF TornElsewhere, Torn
  <2> DEFINE x == torn[d]
             y == torn'[d]
  <2> HIDE DEF x, y
  <2>2. x \in Tears /\ x.nr \notin {Root, d} /\ (x.at # "no" => x.nr \in Inode) BY <2>1 DEF x
  <2>3. CASE y \in {x, Synced(x), Dropped(x), Whole} BY <2>2, <2>3, TornParts DEF y
  <2>4. CASE \E i \in Inode \ {Root, d} : y = Tear(i)
    <3>1. PICK i \in Inode \ {Root, d} : y = Tear(i) BY <2>4
    <3> QED BY <2>2, <3>1, TornParts DEF y
  <2> QED BY <2>3, <2>4 DEF x, y
<1>2. torn' \in [Inode -> Tears] BY <1>1
<1> QED BY <1>1, <1>2 DEF TornElsewhere, Torn, Root, Inode

LEMMA TornNext == DInv /\ TornElsewhere /\ [Next]_vars => TornElsewhere'
<1> SUFFICES ASSUME DInv, TornElsewhere, [Next]_vars PROVE TornElsewhere' OBVIOUS
<1>0. /\ torn \in [Inode -> Tears] /\ torn = [d \in DOMAIN torn |-> torn[d]] /\ cur_dir \in Inode
  BY DEF TornElsewhere, DInv, TreeInv, Typed
<1>1. CASE torn' = torn BY <1>0, <1>1, TornKeeps
<1>2. ASSUME NEW x, x \in {Synced(torn[cur_dir]), Dropped(torn[cur_dir]), torn[cur_dir]},
             torn' = [torn EXCEPT ![cur_dir] = x]
      PROVE  TornElsewhere'
  BY <1>0, <1>2, TornKeeps
<1>3. ASSUME NEW n \in Name, NEW type \in {"file", "dir"}, create_file_or_dir(type, n)
      PROVE  TornElsewhere'
  <2>1. torn' = [torn EXCEPT ![cur_dir] = Synced(torn[cur_dir])] BY <1>0, <1>3 DEF create_file_or_dir
  <2> QED BY <1>2, <2>1
<1>4. ASSUME NEW n \in Name, NEW type \in {"file", "dir"}, create_no_space(type, n)
      PROVE  TornElsewhere'
  <2>1. PICK i \in Inode :
          /\ mode = "run" /\ itype[i] = "none"
          /\ torn' = [torn EXCEPT ![cur_dir] = IF Straddles(cur_dir) THEN Tear(i) ELSE torn[cur_dir]]
    BY <1>0, <1>4 DEF create_no_space, Creates, FreeInode
  <2>2. cur_dir \in Dirs /\ Root \in Dirs BY <2>1 DEF DInv, TreeInv, CurDirInUse, RootOnTop
  <2>3. i # cur_dir /\ i # Root BY <2>1, <2>2 DEF Dirs
  <2>4. CASE Straddles(cur_dir)
    <3>1. torn' = [torn EXCEPT ![cur_dir] = Tear(i)] BY <2>1, <2>4
    <3> HIDE DEF Tear
    <3> QED BY <1>0, <2>3, <3>1, TornKeeps
  <2>5. CASE ~Straddles(cur_dir) BY <1>2, <2>1, <2>5
  <2> QED BY <2>4, <2>5
<1>5. ASSUME NEW n \in Name, cmd_rm(n) PROVE TornElsewhere'
  <2> DEFINE i == dents[cur_dir][Position(cur_dir, n)].nr
  <2>1. torn' = [torn EXCEPT ![cur_dir] = Synced(torn[cur_dir]), ![i] = Whole] BY <1>0, <1>5 DEF cmd_rm
  <2> HIDE DEF i
  <2>2. \A d \in Inode : torn'[d] \in {torn[d], Synced(torn[d]), Whole} BY <1>0, <2>1
  <2>3. DOMAIN torn' = Inode /\ torn' = [d \in DOMAIN torn' |-> torn'[d]] BY <1>0, <2>1
  <2> QED BY <2>2, <2>3, TornKeeps
<1>6. ASSUME NEW n \in Name \cup Dots, cmd_cd(n) PROVE TornElsewhere'
  <2>1. \/ torn' = torn
        \/ \E c : torn' = [torn EXCEPT ![cur_dir] = Forgotten(c, torn[cur_dir])]
    BY <1>0, <1>6 DEF cmd_cd
  <2>2. \A c : Forgotten(c, torn[cur_dir]) \in {Dropped(torn[cur_dir]), torn[cur_dir]} BY DEF Forgotten
  <2> QED BY <1>1, <1>2, <2>1, <2>2
<1>7. CASE quit
  <2>1. \E c : torn' = [torn EXCEPT ![cur_dir] = Forgotten(c, torn[cur_dir])] BY <1>0, <1>7 DEF quit
  <2>2. \A c : Forgotten(c, torn[cur_dir]) \in {Dropped(torn[cur_dir]), torn[cur_dir]} BY DEF Forgotten
  <2> QED BY <1>2, <2>1, <2>2
<1>8. CASE main
  <2>1. torn' = [d \in Inode |-> Dropped(torn[d])] BY <1>8 DEF main
  <2> QED BY <2>1, TornKeeps
<1>9. ASSUME NEW n \in Name, NEW type \in {"file", "dir"}, create_asserts(type, n)
      PROVE  TornElsewhere'
  BY <1>1, <1>9 DEF create_asserts
<1>10. ASSUME NEW n \in Name \cup Dots, cmd_write(n) \/ ls_file(n) PROVE TornElsewhere'
  BY <1>1, <1>10 DEF cmd_write, ls_file
<1>11. CASE stat_dirty \/ search_torn \/ Terminated \/ UNCHANGED vars
  BY <1>1, <1>11 DEF stat_dirty, search_torn, Terminated, vars
<1> QED BY <1>3, <1>4, <1>5, <1>6, <1>7, <1>8, <1>9, <1>10, <1>11 DEF Next

LEMMA TornInvariant == Spec => [](DInv /\ TornElsewhere)
<1>1. Init => TornElsewhere
  <2>1. Whole \in Tears /\ Whole.nr = INVALID_INODE_NR /\ Whole.at = "no" BY DEF Whole, Tears
  <2> QED BY <2>1, InodeNumbers DEF Init, TornElsewhere, Torn
<1> QED BY <1>1, TornNext, DirsInvariant, PTL DEF Spec

\* Entries are looked up by name, so ".." is the second one.
LEMMA ParentIsSecond ==
    ASSUME TreeInv, NEW d \in Dirs
    PROVE  Parent(d) = dents[d][2].nr
<1> DEFINE p == Position(d, "..")
<1>1. /\ Typed /\ DotsFirst /\ d \in Inode /\ dents[d] \in Seq(Dirents) /\ Len(dents[d]) \in Nat
  BY DEF TreeInv, Dirs, Typed
<1>2. 2 \in 1 .. Len(dents[d]) /\ Live(d, 2) /\ dents[d][2].name = ".."
  BY <1>1, InodeNumbers DEF DotsFirst, Live
<1>3. p # 0 BY <1>1, <1>2, PositionFinds
<1>4. p \in 1 .. Len(dents[d]) /\ dents[d][p].name = ".." BY <1>1, <1>3, PositionFinds
<1> HIDE DEF p
<1>5. p # 1 BY <1>1, <1>4 DEF DotsFirst
<1>6. p \notin Entries(d) BY <1>1, <1>4, InodeNumbers DEF DotsFirst
<1>7. p = 2 BY <1>1, <1>4, <1>5, <1>6 DEF Entries
<1> QED BY <1>7 DEF Parent, dir_name_to_inode_nr, p

\* A live entry is ".", "..", or one of the entries after them.
LEMMA LiveKinds ==
    ASSUME TreeInv, NEW d \in Dirs
    PROVE  /\ \A k \in LiveEntries(d) :
                 \/ k = 1 \/ k = 2 \/ (k \in Entries(d) /\ Live(d, k) /\ dents[d][k].name \in Name)
           /\ \A k \in Entries(d) : Live(d, k) => k \in LiveEntries(d)
<1>1. dents[d] \in Seq(Dirents) /\ Len(dents[d]) \in Nat /\ DOMAIN dents[d] = 1 .. Len(dents[d])
  BY DEF TreeInv, Dirs, Typed
<1>2. \A k \in Entries(d) : dents[d][k].name \in Name BY DEF TreeInv, DotsFirst
<1>3. ASSUME NEW k \in LiveEntries(d), k # 1, k # 2 PROVE k \in Entries(d) /\ Live(d, k)
  <2>1. k \in 1 .. Len(dents[d]) /\ Live(d, k) BY <1>1 DEF LiveEntries, Live
  <2> QED BY <1>1, <1>3, <2>1 DEF Entries
<1>4. ASSUME NEW k \in Entries(d), Live(d, k) PROVE k \in LiveEntries(d)
  <2>1. k \in 1 .. Len(dents[d]) BY <1>1 DEF Entries
  <2> QED BY <1>1, <1>4, <2>1 DEF LiveEntries, Live
<1>5. \A k \in LiveEntries(d) :
        \/ k = 1 \/ k = 2 \/ (k \in Entries(d) /\ Live(d, k) /\ dents[d][k].name \in Name)
  <2> SUFFICES ASSUME NEW k \in LiveEntries(d), k # 1, k # 2
               PROVE  k \in Entries(d) /\ Live(d, k) /\ dents[d][k].name \in Name
    OBVIOUS
  <2>1. k \in Entries(d) /\ Live(d, k) BY <1>3
  <2> QED BY <1>2, <2>1
<1>6. \A k \in Entries(d) : Live(d, k) => k \in LiveEntries(d) BY ONLY <1>4
<1> QED BY <1>5, <1>6

\* The name of a directory is in the directory that its ".." leads to.
LEMMA ParentIsDir ==
    ASSUME TreeInv, NEW d \in Dirs
    PROVE  dents[d][2].nr \in Dirs
<1>1. CASE d = Root BY <1>1 DEF TreeInv, RootOnTop
<1>2. CASE d # Root
  <2>1. d \in Inode \ {Root} /\ itype[d] = "dir" BY <1>2 DEF Dirs
  <2>2. PICK e \in Dirs : \E k \in Entries(e) : dents[e][k].nr = d BY <2>1 DEF TreeInv, HasName
  <2>3. PICK k \in Entries(e) : dents[e][k].nr = d BY <2>2
  <2>4. Live(e, k) BY <2>1, <2>3, InodeNumbers DEF Live
  <2> QED BY <2>1, <2>3, <2>4 DEF TreeInv, ParentNames
<1> QED BY <1>1, <1>2

\* No directory has two entries of the same name: what testfs_add_dirent
\* replaces is a removed entry, and testfs_create_file_or_dir has looked up the
\* name before, for any names, lengths and number of inodes.
THEOREM NamesStayUnique == Spec => []NamesUnique
<1>1. ASSUME DInv PROVE NamesUnique
  <2> SUFFICES ASSUME NEW d \in Dirs, NEW j \in LiveEntries(d), NEW k \in LiveEntries(d),
                      dents[d][j].name = dents[d][k].name
               PROVE  j = k
    BY DEF NamesUnique
  <2>1. TreeInv /\ DotsFirst /\ NamesDiffer BY <1>1 DEF DInv, TreeInv
  <2>2. dents[d][1].name = "." /\ dents[d][2].name = ".." BY <2>1 DEF DotsFirst
  <2>3. \/ j = 1 \/ j = 2 \/ (j \in Entries(d) /\ Live(d, j) /\ dents[d][j].name \in Name)
    BY <2>1, LiveKinds
  <2>4. \/ k = 1 \/ k = 2 \/ (k \in Entries(d) /\ Live(d, k) /\ dents[d][k].name \in Name)
    BY <2>1, LiveKinds
  <2> QED BY <2>1, <2>2, <2>3, <2>4, InodeNumbers DEF NamesDiffer
<1> QED BY <1>1, DirsInvariant, PTL

\* Entries and inodes agree after any sequence of commands, failed assertions
\* and restarts of testfs, until a search takes a torn entry for the one it
\* looks for: every file and directory has exactly one whole entry, no whole
\* entry leads to an inode that is free or lost, and ".." leads to the directory
\* that has the name; a torn entry leads neither to the root nor to its own
\* directory.
THEOREM TreeIsConsistent == Spec => []EntriesMatchInodes
<1>1. ASSUME DInv, TornElsewhere PROVE EntriesMatchInodes
  <2>1. /\ TreeInv /\ Typed /\ DotsFirst /\ LeadSomewhere /\ HasName /\ OneName /\ ParentNames
    BY <1>1 DEF DInv, TreeInv
  <2>2. ASSUME NEW d \in Dirs, NEW k \in LiveEntries(d) PROVE dents[d][k].nr \in Used
    <3>1. CASE k = 1 BY <2>1, <3>1 DEF DotsFirst, Dirs, Used
    <3>2. CASE k = 2
      <4>1. dents[d][2].nr \in Dirs BY <2>1, ParentIsDir
      <4> QED BY <3>2, <4>1 DEF Dirs, Used
    <3>3. CASE k \in Entries(d) /\ Live(d, k)
      <4>1. dents[d] \in Seq(Dirents) /\ k \in 1 .. Len(dents[d])
        BY <2>1, <3>3 DEF Typed, Dirs, Entries
      <4>2. dents[d][k] \in Dirents BY <4>1
      <4>3. dents[d][k].nr \in Inode BY <3>3, <4>2 DEF Dirents, Live
      <4> QED BY <2>1, <3>3, <4>3 DEF LeadSomewhere, Used
    <3> QED BY <2>1, <3>1, <3>2, <3>3, LiveKinds
  <2>3. ASSUME NEW i \in Used \ {Root}
        PROVE  \E d \in Dirs : \E k \in LiveEntries(d) :
                  /\ dents[d][k].nr = i /\ dents[d][k].name \notin Dots
                  /\ itype[i] = "dir" => Parent(i) = d
                  /\ \A e \in Dirs : \A l \in LiveEntries(e) :
                        dents[e][l].nr = i /\ dents[e][l].name \notin Dots => e = d /\ l = k
    <3>1. PICK d \in Dirs : \E k \in Entries(d) : dents[d][k].nr = i BY <2>1 DEF HasName, Used
    <3>2. PICK k \in Entries(d) : dents[d][k].nr = i BY <3>1
    <3>3. Live(d, k) BY <3>2, InodeNumbers DEF Live, Used
    <3>4. k \in LiveEntries(d) BY <2>1, <3>3, LiveKinds
    <3>5. dents[d][k].name \notin Dots BY <2>1, DirsAssumption DEF DotsFirst
    <3>6. itype[i] = "dir" => Parent(i) = d
      <4> SUFFICES ASSUME itype[i] = "dir" PROVE Parent(i) = d OBVIOUS
      <4>1. i \in Dirs BY DEF Dirs, Used
      <4>2. Parent(i) = dents[i][2].nr BY <2>1, <4>1, ParentIsSecond
      <4>3. dents[i][2].nr = d BY <2>1, <3>2, <3>3 DEF ParentNames
      <4> QED BY <4>2, <4>3
    <3>7. ASSUME NEW e \in Dirs, NEW l \in LiveEntries(e),
                 dents[e][l].nr = i, dents[e][l].name \notin Dots
          PROVE  e = d /\ l = k
      <4>1. dents[e][1].name \in Dots /\ dents[e][2].name \in Dots BY <2>1 DEF DotsFirst, Dots
      <4>2. l \in Entries(e) BY <2>1, <3>7, <4>1, LiveKinds
      <4> QED BY <2>1, <3>2, <3>3, <3>7, <4>2 DEF OneName
    <3> QED BY <3>2, <3>4, <3>5, <3>6, <3>7
  <2>4. \A d \in Dirs : Torn(d) => torn[d].nr \notin {Root, d} BY <1>1 DEF TornElsewhere, Dirs
  <2> QED BY <2>2, <2>3, <2>4 DEF EntriesMatchInodes
<1> QED BY <1>1, TornInvariant, PTL

\* As long as the shell runs, its current directory exists and is in memory:
\* cmd_rm cannot remove it, and cmd_cd takes a reference to the directory it
\* enters before it gives up the other one.
THEOREM CurDirStaysInUse == Spec => []CurDirInUse
<1>1. DInv => CurDirInUse BY DEF DInv
<1> QED BY <1>1, DirsInvariant, PTL

-----------------------------------------------------------------------------
(* Every directory is below the root.  Neither pwd, which climbs, nor lsr,    *)
(* which descends, could be shown to end from the entries alone: a cycle of   *)
(* directories that name each other has consistent entries.  The invariant is *)
(* that there is a set of directories above each one.                         *)

\* Where the ".." of each directory leads.
Up == [d \in Dirs |-> dents[d][2].nr]

\* anc[d] are the directories of D from the root to d, if up leads from each
\* one to the one above: a chain, without a repetition.
Ancestry(D, up, anc) ==
    /\ anc \in [D -> SUBSET D]
    /\ Root \in D /\ anc[Root] = {Root}
    /\ \A d \in D : d \in anc[d] /\ Root \in anc[d]
    /\ \A d \in D \ {Root} : up[d] \in D /\ d \notin anc[up[d]] /\ anc[d] = anc[up[d]] \cup {d}
    /\ \A d \in D : \A a \in anc[d] \ {d} : \E e \in anc[d] \ {Root} : up[e] = a
    /\ \A d \in D : \A a \in anc[d] \ {Root} : up[a] \in anc[d]
    /\ \A d \in D : \A a, b \in anc[d] \ {Root} : up[a] = up[b] => a = b

BelowRoot == \E anc : Ancestry(Dirs, Up, anc)

\* A new directory, empty, is below the one it was made in.
LEMMA AncestryGrows ==
    ASSUME NEW D, NEW up, NEW anc, Ancestry(D, up, anc), NEW c \in D, NEW i, i \notin D,
           NEW up2, up2[i] = c, \A d \in D : up2[d] = up[d]
    PROVE  \E anc2 : Ancestry(D \cup {i}, up2, anc2)
<1> DEFINE E == D \cup {i}
           anc2 == [d \in E |-> IF d = i THEN anc[c] \cup {i} ELSE anc[d]]
<1>1. /\ anc \in [D -> SUBSET D] /\ Root \in D /\ anc[Root] = {Root}
      /\ \A d \in D : d \in anc[d] /\ Root \in anc[d]
  BY DEF Ancestry
<1>2. \A d \in D \ {Root} : up[d] \in D /\ d \notin anc[up[d]] /\ anc[d] = anc[up[d]] \cup {d}
  BY DEF Ancestry
<1>3. \A d \in D : \A a \in anc[d] \ {d} : \E e \in anc[d] \ {Root} : up[e] = a
  BY DEF Ancestry
<1>4. \A d \in D : \A a \in anc[d] \ {Root} : up[a] \in anc[d] BY DEF Ancestry
<1>5. \A d \in D : \A a, b \in anc[d] \ {Root} : up[a] = up[b] => a = b BY DEF Ancestry
<1>6. \A d \in D : anc2[d] = anc[d] OBVIOUS
<1>7. anc2[i] = anc[c] \cup {i} OBVIOUS
<1>8. \A d \in D : anc[d] \subseteq D BY <1>1
<1>9. anc2 \in [E -> SUBSET E] BY <1>1, <1>8
<1>10. i # Root BY <1>1
<1> HIDE DEF anc2
<1>11. Root \in E /\ anc2[Root] = {Root} BY <1>1, <1>6
<1>12. \A d \in E : d \in anc2[d] /\ Root \in anc2[d] BY <1>1, <1>6, <1>7
<1>13. ASSUME NEW d \in E \ {Root}
       PROVE  up2[d] \in E /\ d \notin anc2[up2[d]] /\ anc2[d] = anc2[up2[d]] \cup {d}
  <2>1. CASE d = i
    <3>1. i \notin anc[c] BY <1>8
    <3> QED BY <1>6, <1>7, <2>1, <3>1
  <2>2. CASE d \in D \ {Root} BY <1>2, <1>6, <2>2
  <2> QED BY <2>1, <2>2
<1>14. ASSUME NEW d \in E, NEW a \in anc2[d] \ {d} PROVE \E e \in anc2[d] \ {Root} : up2[e] = a
  <2>1. CASE d = i
    <3>1. a \in anc[c] BY <1>7, <2>1
    <3>2. CASE a = c
      <4>1. i \in anc2[d] \ {Root} /\ up2[i] = a BY <1>7, <1>10, <2>1, <3>2
      <4> QED BY <4>1
    <3>3. CASE a # c
      <4>1. PICK e \in anc[c] \ {Root} : up[e] = a BY <1>3, <3>1, <3>3
      <4>2. e \in anc2[d] \ {Root} /\ up2[e] = a BY <1>7, <1>8, <2>1, <4>1
      <4> QED BY <4>2
    <3> QED BY <3>2, <3>3
  <2>2. CASE d \in D
    <3>1. PICK e \in anc[d] \ {Root} : up[e] = a BY <1>3, <1>6, <2>2
    <3>2. e \in anc2[d] \ {Root} /\ up2[e] = a BY <1>6, <1>8, <2>2, <3>1
    <3> QED BY <3>2
  <2> QED BY <2>1, <2>2
<1>15. ASSUME NEW d \in E, NEW a \in anc2[d] \ {Root} PROVE up2[a] \in anc2[d]
  <2>1. CASE d = i
    <3>1. CASE a = i BY <1>1, <1>7, <2>1, <3>1
    <3>2. CASE a # i
      <4>1. a \in anc[c] \ {Root} /\ a \in D BY <1>7, <1>8, <2>1, <3>2
      <4> QED BY <1>4, <1>7, <2>1, <4>1
    <3> QED BY <3>1, <3>2
  <2>2. CASE d \in D
    <3>1. a \in anc[d] \ {Root} /\ a \in D BY <1>6, <1>8, <2>2
    <3> QED BY <1>4, <1>6, <2>2, <3>1
  <2> QED BY <2>1, <2>2
\* The new one is the only one below c that is above anything.
<1>16. ASSUME NEW a \in anc[c] \ {Root} PROVE up[a] # c
  <2>1. CASE c = Root BY <1>1, <2>1
  <2>2. CASE c # Root
    <3> SUFFICES ASSUME up[a] = c PROVE FALSE OBVIOUS
    <3>1. a \in D BY <1>8
    <3>2. anc[c] = anc[up[c]] \cup {c} /\ c \notin anc[up[c]] /\ up[c] \in D BY <1>2, <2>2
    <3>3. CASE a = c BY <1>1, <3>2, <3>3
    <3>4. CASE a # c
      <4>1. a \in anc[up[c]] \ {Root} BY <3>2, <3>4
      <4>2. c \in anc[up[c]] BY <1>4, <3>2, <4>1
      <4> QED BY <3>2, <4>2
    <3> QED BY <3>3, <3>4
  <2> QED BY <2>1, <2>2
<1>17. ASSUME NEW d \in E, NEW a \in anc2[d] \ {Root}, NEW b \in anc2[d] \ {Root}, up2[a] = up2[b]
       PROVE  a = b
  <2>1. CASE d = i
    <3>1. \A x \in anc2[d] \ {Root} : x # i => x \in anc[c] \ {Root} /\ x \in D /\ up2[x] # c
      BY <1>7, <1>8, <1>16, <2>1
    <3>2. CASE a = i \/ b = i BY <1>17, <3>1, <3>2
    <3>3. CASE a # i /\ b # i BY <1>5, <1>17, <3>1, <3>3
    <3> QED BY <3>2, <3>3
  <2>2. CASE d \in D
    <3>1. a \in anc[d] \ {Root} /\ b \in anc[d] \ {Root} /\ a \in D /\ b \in D
      BY <1>6, <1>8, <2>2
    <3> QED BY <1>5, <1>17, <2>2, <3>1
  <2> QED BY <2>1, <2>2
<1> HIDE DEF E
<1>18. Ancestry(E, up2, anc2)
  BY <1>9, <1>11, <1>12, <1>13, <1>14, <1>15, <1>17 DEF Ancestry
<1> QED BY <1>18 DEF E

\* A directory that no other one is below can be removed.
LEMMA AncestryShrinks ==
    ASSUME NEW D, NEW up, NEW anc, Ancestry(D, up, anc), NEW i \in D, i # Root,
           \A d \in D \ {Root} : up[d] # i,
           NEW up2, \A d \in D \ {i} : up2[d] = up[d]
    PROVE  \E anc2 : Ancestry(D \ {i}, up2, anc2)
<1> DEFINE E == D \ {i}
           anc2 == [d \in E |-> anc[d]]
<1>1. /\ anc \in [D -> SUBSET D] /\ Root \in D /\ anc[Root] = {Root}
      /\ \A d \in D : d \in anc[d] /\ Root \in anc[d]
  BY DEF Ancestry
<1>2. \A d \in D \ {Root} : up[d] \in D /\ d \notin anc[up[d]] /\ anc[d] = anc[up[d]] \cup {d}
  BY DEF Ancestry
<1>3. \A d \in D : \A a \in anc[d] \ {d} : \E e \in anc[d] \ {Root} : up[e] = a
  BY DEF Ancestry
<1>4. \A d \in D : \A a \in anc[d] \ {Root} : up[a] \in anc[d] BY DEF Ancestry
<1>5. \A d \in D : \A a, b \in anc[d] \ {Root} : up[a] = up[b] => a = b BY DEF Ancestry
<1>6. ASSUME NEW d \in E PROVE anc[d] \subseteq E
  <2>1. anc[d] \subseteq D BY <1>1
  <2>2. i \notin anc[d]
    <3> SUFFICES ASSUME i \in anc[d] PROVE FALSE OBVIOUS
    <3>1. PICK e \in anc[d] \ {Root} : up[e] = i BY <1>3
    <3> QED BY <2>1, <3>1
  <2> QED BY <2>1, <2>2
<1>7. \A d \in E : anc2[d] = anc[d] OBVIOUS
<1>8. anc2 \in [E -> SUBSET E] BY <1>6
<1> HIDE DEF anc2
<1>9. Root \in E /\ anc2[Root] = {Root} BY <1>1, <1>7
<1>10. \A d \in E : d \in anc2[d] /\ Root \in anc2[d] BY <1>1, <1>7
<1>11. \A d \in E \ {Root} : up2[d] \in E /\ d \notin anc2[up2[d]] /\ anc2[d] = anc2[up2[d]] \cup {d}
  BY <1>2, <1>7
<1>12. \A d \in E : \A a \in anc2[d] : a \in E /\ a \in anc[d] BY <1>6, <1>7
<1>13. \A d \in E : \A a \in anc2[d] \ {d} : \E e \in anc2[d] \ {Root} : up2[e] = a
  BY <1>3, <1>7, <1>12
<1>14. \A d \in E : \A a \in anc2[d] \ {Root} : up2[a] \in anc2[d] BY <1>4, <1>7, <1>12
<1>15. \A d \in E : \A a, b \in anc2[d] \ {Root} : up2[a] = up2[b] => a = b
  BY <1>5, <1>7, <1>12
<1> HIDE DEF E
<1>16. Ancestry(E, up2, anc2)
  BY <1>8, <1>9, <1>10, <1>11, <1>13, <1>14, <1>15 DEF Ancestry
<1> QED BY <1>16 DEF E

\* An inode has a name in the directory that its ".." leads to, and it is
\* found there by its number, after "." and "..".
LEMMA NameAbove ==
    ASSUME TreeInv, NEW d \in Dirs, d # Root
    PROVE  \E k \in Entries(Up[d]) : dents[Up[d]][k].nr = d
<1>1. d \in Inode \ {Root} /\ itype[d] = "dir" BY DEF Dirs
<1>2. PICK e \in Dirs : \E k \in Entries(e) : dents[e][k].nr = d BY <1>1 DEF TreeInv, HasName
<1>3. PICK k \in Entries(e) : dents[e][k].nr = d BY <1>2
<1>4. Live(e, k) BY <1>1, <1>3, InodeNumbers DEF Live
<1>5. dents[d][2].nr = e BY <1>1, <1>3, <1>4 DEF TreeInv, ParentNames
<1>6. Up[d] = e BY <1>5 DEF Up
<1> QED BY <1>3, <1>6

\* mkdir adds a directory below the current one; create adds none.
LEMMA CreateBelow ==
    ASSUME DInv, BelowRoot, NEW type \in {"file", "dir"}, NEW n \in Name,
           create_file_or_dir(type, n)
    PROVE  BelowRoot'
<1>1. PICK i \in Inode :
        /\ Creates(type, n, i)
        /\ itype' = [itype EXCEPT ![i] = type]
        /\ dents' = [dents EXCEPT ![i] = IF type = "dir" THEN empty_dir(cur_dir, i) ELSE <<>>,
                                  ![cur_dir] = add_dirent(cur_dir, n, i)]
  BY DEF create_file_or_dir
<1>2. mode = "run" /\ itype[i] = "none" BY <1>1 DEF Creates, FreeInode
<1>3. TreeInv /\ cur_dir \in Dirs BY <1>2 DEF DInv, CurDirInUse
<1>4. cur_dir \in Inode /\ i # cur_dir /\ i \notin Dirs BY <1>2, <1>3 DEF Dirs
<1>5. Typed /\ DotsFirst BY <1>3 DEF TreeInv
<1> DEFINE r == add_dirent(cur_dir, n, i)
           e == IF type = "dir" THEN empty_dir(cur_dir, i) ELSE <<>>
<1>6. PICK s \in 3 .. Len(r) :
        /\ \A k \in 1 .. Len(r) : k # s => k \in 1 .. Len(dents[cur_dir]) /\ r[k] = dents[cur_dir][k]
        /\ \A k \in 1 .. Len(dents[cur_dir]) : k \in 1 .. Len(r)
  BY <1>3, AddDirent, ZenonT(30)
<1>7. type = "dir" => e[2].nr = cur_dir BY DEF empty_dir
<1>8. dents' = [dents EXCEPT ![i] = e, ![cur_dir] = r] BY <1>1
<1> HIDE DEF r, e
<1>9. /\ dents'[i] = e /\ dents'[cur_dir] = r
      /\ \A d \in Inode : d # i /\ d # cur_dir => dents'[d] = dents[d]
  BY <1>4, <1>5, <1>8 DEF Typed
<1>10. /\ itype'[i] = type /\ \A d \in Inode : d # i => itype'[d] = itype[d]
  BY <1>1, <1>5 DEF Typed
<1>11. r[2] = dents[cur_dir][2]
  <2>1. dents[cur_dir] \in Seq(Dirents) /\ Len(dents[cur_dir]) >= 2 BY <1>3, <1>4, <1>5 DEF Typed, DotsFirst
  <2>2. 2 \in 1 .. Len(dents[cur_dir]) BY <2>1
  <2> QED BY <1>6, <2>2
<1>12. ASSUME NEW d \in Dirs PROVE d \in Dirs' /\ Up'[d] = Up[d]
  <2>1. d \in Inode /\ d # i BY <1>4 DEF Dirs
  <2>2. d \in Dirs' BY <1>10, <2>1 DEF Dirs
  <2>3. dents'[d][2] = dents[d][2] BY <1>9, <1>11, <2>1
  <2> QED BY <2>2, <2>3 DEF Up
<1>13. PICK anc : Ancestry(Dirs, Up, anc) BY DEF BelowRoot
<1>14. CASE type = "file"
  <2>1. Dirs' = Dirs BY <1>4, <1>10, <1>12, <1>14 DEF Dirs
  <2>2. Up' = Up BY <1>12, <2>1 DEF Up
  <2> QED BY <1>13, <2>1, <2>2 DEF BelowRoot
<1>15. CASE type = "dir"
  <2>1. Dirs' = Dirs \cup {i} BY <1>10, <1>12, <1>15 DEF Dirs
  <2>2. Up'[i] = cur_dir BY <1>7, <1>9, <1>15, <2>1 DEF Up
  <2> DEFINE D == Dirs
             u == Up
             u2 == Up'
  <2>3. /\ Ancestry(D, u, anc) /\ cur_dir \in D /\ i \notin D /\ u2[i] = cur_dir
        /\ \A d \in D : u2[d] = u[d]
    BY <1>3, <1>4, <1>12, <1>13, <2>2
  <2> HIDE DEF D, u, u2
  <2>4. \E anc2 : Ancestry(D \cup {i}, u2, anc2) BY <2>3, AncestryGrows
  <2> QED BY <2>1, <2>4 DEF BelowRoot, D, u2
<1> QED BY <1>14, <1>15

\* rm takes away a file, or a directory with none below it.
LEMMA RemoveBelow ==
    ASSUME DInv, BelowRoot, NEW n \in Name, cmd_rm(n)
    PROVE  BelowRoot'
<1> DEFINE p == Position(cur_dir, n)
           r == remove_dirent(cur_dir, p)
<1>1. /\ mode = "run" /\ p # 0 /\ remove_dirent_allowed(dents[cur_dir][p].nr)
      /\ dents' = [dents EXCEPT ![cur_dir] = r, ![dents[cur_dir][p].nr] = <<>>]
      /\ itype' = [itype EXCEPT ![dents[cur_dir][p].nr] = "none"]
  BY DEF cmd_rm
<1>2. TreeInv /\ cur_dir \in Dirs BY <1>1 DEF DInv, CurDirInUse
<1>3. Typed /\ DotsFirst /\ LeadSomewhere BY <1>2 DEF TreeInv
<1>4. cur_dir \in Inode /\ dents[cur_dir] \in Seq(Dirents) /\ Len(dents[cur_dir]) \in Nat
  BY <1>2, <1>3 DEF Typed, Dirs
<1>5. p \in 1 .. Len(dents[cur_dir]) /\ Live(cur_dir, p) /\ dents[cur_dir][p].name = n
  BY <1>1, <1>4, PositionFinds
<1>6. r = [dents[cur_dir] EXCEPT ![p] = [dents[cur_dir][p] EXCEPT !.nr = INVALID_INODE_NR]]
  BY <1>4, <1>5 DEF remove_dirent
<1> HIDE DEF p, r
<1>7. p # 1 /\ p # 2 BY <1>2, <1>3, <1>5, InodeNumbers DEF DotsFirst
<1>8. p \in Entries(cur_dir) BY <1>4, <1>5, <1>7 DEF Entries
<1>9. PICK i \in Inode : i = dents[cur_dir][p].nr
  <2>1. dents[cur_dir][p] \in Dirents BY <1>4, <1>5
  <2> QED BY <1>5, <2>1 DEF Live, Dirents
<1>10. i # Root BY <1>2, <1>3, <1>5, <1>8, <1>9 DEF LeadSomewhere
<1>11. r[2] = dents[cur_dir][2]
  <2>1. 2 \in 1 .. Len(dents[cur_dir]) BY <1>4, <1>5, <1>7
  <2> DEFINE x == [dents[cur_dir][p] EXCEPT !.nr = INVALID_INODE_NR]
  <2>2. r = [dents[cur_dir] EXCEPT ![p] = x] BY <1>6
  <2> HIDE DEF x
  <2> QED BY <1>4, <1>5, <1>7, <2>1, <2>2
<1>12. /\ \A d \in Inode : d # i /\ d # cur_dir => dents'[d] = dents[d]
       /\ cur_dir # i => dents'[cur_dir] = r
  BY <1>1, <1>3, <1>4, <1>9 DEF Typed
<1>13. itype'[i] = "none" /\ \A d \in Inode : d # i => itype'[d] = itype[d]
  BY <1>1, <1>3, <1>9 DEF Typed
<1>14. Dirs' = Dirs \ {i} BY <1>13 DEF Dirs
<1>15. ASSUME NEW d \in Dirs \ {i} PROVE Up'[d] = Up[d]
  <2>1. d \in Inode /\ d \in Dirs' BY <1>14 DEF Dirs
  <2>2. dents'[d][2] = dents[d][2] BY <1>11, <1>12, <1>15, <2>1
  <2> QED BY <2>1, <2>2 DEF Up
<1>16. PICK anc : Ancestry(Dirs, Up, anc) BY DEF BelowRoot
<1>17. CASE i \notin Dirs
  <2>1. Dirs' = Dirs BY <1>14, <1>17
  <2>2. Up' = Up BY <1>15, <1>17, <2>1 DEF Up
  <2> QED BY <1>16, <2>1, <2>2 DEF BelowRoot
<1>18. CASE i \in Dirs
  <2>1. ASSUME NEW d \in Dirs \ {Root}, Up[d] = i PROVE FALSE
    <3>1. PICK k \in Entries(i) : dents[i][k].nr = d BY <1>2, <2>1, NameAbove
    <3>2. d \in Inode /\ dents[i][k].nr # INVALID_INODE_NR BY <3>1, InodeNumbers DEF Dirs
    <3>3. dents[i][k].name \in Name BY <1>3, <1>18 DEF DotsFirst
    <3>4. dents[i] \in Seq(Dirents) /\ k \in DOMAIN dents[i] BY <1>3 DEF Typed, Entries
    <3>5. itype[i] = "dir" /\ remove_dirent_allowed(i) BY <1>1, <1>9, <1>18 DEF Dirs
    <3> QED BY <3>2, <3>3, <3>4, <3>5, DirsAssumption DEF remove_dirent_allowed
  <2> DEFINE D == Dirs
             u == Up
             u2 == Up'
  <2>2. /\ Ancestry(D, u, anc) /\ i \in D /\ \A d \in D \ {Root} : u[d] # i
        /\ \A d \in D \ {i} : u2[d] = u[d]
    BY <1>15, <1>16, <1>18, <2>1
  <2> HIDE DEF D, u, u2
  <2>3. \E anc2 : Ancestry(D \ {i}, u2, anc2) BY <1>10, <2>2, AncestryShrinks
  <2> QED BY <1>14, <2>3 DEF BelowRoot, D, u2
<1> QED BY <1>17, <1>18

\* The other commands leave the directories alone.
LEMMA OthersBelow ==
    ASSUME BelowRoot, SameFiles, dents' = dents
    PROVE  BelowRoot'
<1>1. Dirs' = Dirs BY DEF Dirs, SameFiles
<1>2. Up' = Up BY <1>1 DEF Up
<1> QED BY <1>1, <1>2 DEF BelowRoot

LEMMA BelowInit == Init => BelowRoot
<1> SUFFICES ASSUME Init PROVE BelowRoot OBVIOUS
<1>1. Dirs = {Root} BY InodeNumbers DEF Init, Dirs
<1> DEFINE anc == [d \in {Root} |-> {Root}]
<1>2. Ancestry({Root}, Up, anc) BY DEF Ancestry
<1> HIDE DEF anc
<1> QED BY <1>1, <1>2 DEF BelowRoot

LEMMA BelowNext == DInv /\ BelowRoot /\ [Next]_vars => BelowRoot'
<1> SUFFICES ASSUME DInv, BelowRoot, [Next]_vars PROVE BelowRoot' OBVIOUS
<1>0. Typed /\ (itype' = itype => SameFiles) BY SameTypes DEF DInv, TreeInv
<1>1. ASSUME NEW n \in Name, NEW type \in {"file", "dir"}, create_file_or_dir(type, n)
      PROVE  BelowRoot'
  BY <1>1, CreateBelow
<1>2. ASSUME NEW n \in Name, NEW type \in {"file", "dir"},
             create_no_space(type, n) \/ create_asserts(type, n)
      PROVE  BelowRoot'
  <2>1. CASE create_no_space(type, n) BY <1>0, <2>1, OthersBelow DEF create_no_space
  <2>2. CASE create_asserts(type, n)
    <3>1. SameFiles BY <1>0, <2>2, LosesNumber
    <3> QED BY <2>2, <3>1, OthersBelow DEF create_asserts
  <2> QED BY <1>2, <2>1, <2>2
<1>3. ASSUME NEW n \in Name, cmd_rm(n) PROVE BelowRoot' BY <1>3, RemoveBelow
<1>4. ASSUME NEW n \in Name, cmd_write(n) PROVE BelowRoot' BY <1>0, <1>4, OthersBelow DEF cmd_write
<1>5. ASSUME NEW n \in Name \cup Dots, cmd_cd(n) \/ ls_file(n) PROVE BelowRoot'
  BY <1>0, <1>5, OthersBelow DEF cmd_cd, ls_file
<1>6. CASE stat_dirty \/ search_torn \/ quit \/ main
  BY <1>0, <1>6, OthersBelow DEF stat_dirty, search_torn, quit, main
<1>7. CASE Terminated \/ UNCHANGED vars BY <1>0, <1>7, OthersBelow DEF Terminated, vars
<1> QED BY <1>1, <1>2, <1>3, <1>4, <1>5, <1>6, <1>7 DEF Next

\* After any sequence of commands the directories are a tree with the root on top.
LEMMA DirsAreATree == Spec => [](DInv /\ BelowRoot)
  BY DirsInvariant, BelowInit, BelowNext, PTL DEF Spec

-----------------------------------------------------------------------------
(* pwd, and cd along what it prints *)

\* One step of cd along a path.
Cd(d, n) == IF Position(d, n) # 0 /\ itype[dir_name_to_inode_nr(d, n)] = "dir"
            THEN dir_name_to_inode_nr(d, n) ELSE d

\* The directories that a path leads through are those of the recursive function of resolve.
LEMMA ResolveSteps ==
    ASSUME TreeInv, NEW q \in Seq(Name \cup Dots)
    PROVE  \E f \in [0 .. Len(q) -> Inode] :
              /\ f[0] = Root /\ resolve(q) = f[Len(q)]
              /\ \A i \in 1 .. Len(q) : f[i] = Cd(f[i - 1], q[i])
<1> DEFINE L == Len(q)
           st == [i \in 1 .. L |-> [d \in Inode |-> Cd(d, q[i])]]
           val(f, i) == IF i = 0 THEN Root ELSE Cd(f[i - 1], q[i])
           body(f) == [i \in 0 .. L |-> val(f, i)]
           k == CHOOSE g : g = body(g)
<1>1. L \in Nat /\ Root \in Inode BY InodeNumbers
<1>2. resolve(q) = k[L] BY DEF resolve, Cd
<1>3. k = CHOOSE g : g = body(g) OBVIOUS
<1> HIDE DEF L, k
<1>4. \A d \in Inode, n \in Name \cup Dots : Cd(d, n) \in Inode
  <2> SUFFICES ASSUME NEW d \in Inode, NEW n \in Name \cup Dots PROVE Cd(d, n) \in Inode OBVIOUS
  <2>1. dents[d] \in Seq(Dirents) BY DEF TreeInv, Typed
  <2>2. Position(d, n) # 0 => dir_name_to_inode_nr(d, n) \in Inode BY <2>1, FoundInode
  <2> QED BY <2>2 DEF Cd
<1>5. \A i \in 1 .. L : q[i] \in Name \cup Dots BY DEF L
<1>6. st \in [1 .. L -> [Inode -> Inode]] BY <1>4, <1>5
<1>7. \A i \in 1 .. L : \A d \in Inode : st[i][d] = Cd(d, q[i]) OBVIOUS
<1> HIDE DEF st
<1>8. PICK f \in [0 .. L -> Inode] : f[0] = Root /\ \A i \in 1 .. L : f[i] = st[i][f[i - 1]]
  <2>1. HasSteps(Inode, Root, L, st) BY <1>1, <1>6, StepsExist
  <2> QED BY <2>1 DEF HasSteps
<1>9. \A i \in 1 .. L : f[i] = Cd(f[i - 1], q[i])
  <2>1. \A i \in 1 .. L : i - 1 \in 0 .. L /\ f[i - 1] \in Inode BY <1>1
  <2> QED BY <1>7, <1>8, <2>1
<1>10. f = body(f)
  <2>1. \A i \in 0 .. L : i = 0 \/ i \in 1 .. L BY <1>1
  <2>2. \A i \in 0 .. L : f[i] = val(f, i) BY <1>8, <1>9, <2>1
  <2>3. f = [i \in 0 .. L |-> f[i]] OBVIOUS
  <2> HIDE DEF val
  <2> QED BY <2>2, <2>3, Zenon
<1>11. k = body(k)
  <2> HIDE DEF body
  <2> QED BY <1>3, <1>10
\* It is the only one.
<1>12. \A i \in 0 .. L : k[i] = f[i]
  <2>1. \A i \in 0 .. L : k[i] = val(k, i)
    <3> HIDE DEF val
    <3> QED BY <1>11, Zenon
  <2> DEFINE T == {i \in 0 .. L : k[i] = f[i]}
  <2>2. 0 \in T BY <1>1, <1>8, <2>1
  <2>3. ASSUME NEW i \in 1 .. L, i - 1 \in T PROVE i \in T
    <3>1. k[i - 1] = f[i - 1] /\ i \in 0 .. L /\ i # 0 BY <1>1, <2>3
    <3>2. k[i] = Cd(k[i - 1], q[i]) BY <2>1, <3>1, Zenon
    <3> QED BY <1>9, <3>1, <3>2
  <2> HIDE DEF T
  <2>4. \A i \in 0 .. L : i \in T BY <1>1, <2>2, <2>3, UpTo
  <2> QED BY <2>4 DEF T
<1>13. resolve(q) = f[L] BY <1>1, <1>2, <1>12
<1> QED BY <1>8, <1>9, <1>13 DEF L

\* The empty path leads to the root,
LEMMA ResolveEmpty == ASSUME TreeInv PROVE resolve(<<>>) = Root
<1>1. <<>> \in Seq(Name \cup Dots) /\ Len(<<>>) = 0 OBVIOUS
<1> DEFINE q == <<>>
<1> HIDE DEF q
<1>2. q \in Seq(Name \cup Dots) /\ Len(q) = 0 BY <1>1 DEF q
<1>3. PICK f \in [0 .. Len(q) -> Inode] : f[0] = Root /\ resolve(q) = f[Len(q)]
  BY <1>2, ResolveSteps
<1> QED BY <1>2, <1>3 DEF q

\* and one more name is one more cd.
LEMMA ResolveAppend ==
    ASSUME TreeInv, NEW q \in Seq(Name \cup Dots), NEW n \in Name \cup Dots
    PROVE  resolve(Append(q, n)) = Cd(resolve(q), n)
<1> DEFINE t == Append(q, n)
           L == Len(q)
<1>1. /\ t \in Seq(Name \cup Dots) /\ Len(t) = L + 1 /\ L \in Nat /\ t[L + 1] = n
      /\ \A i \in 1 .. L : t[i] = q[i]
  OBVIOUS
<1> HIDE DEF t
<1>2. PICK f \in [0 .. L -> Inode] :
        /\ f[0] = Root /\ resolve(q) = f[L] /\ \A i \in 1 .. L : f[i] = Cd(f[i - 1], q[i])
  BY ResolveSteps
<1>3. PICK g \in [0 .. Len(t) -> Inode] :
        /\ g[0] = Root /\ resolve(t) = g[Len(t)] /\ \A i \in 1 .. Len(t) : g[i] = Cd(g[i - 1], t[i])
  BY <1>1, ResolveSteps
<1> HIDE DEF L
<1> DEFINE T == {i \in 0 .. L : g[i] = f[i]}
<1>4. 0 \in T BY <1>1, <1>2, <1>3
<1>5. ASSUME NEW i \in 1 .. L, i - 1 \in T PROVE i \in T
  <2>1. g[i - 1] = f[i - 1] /\ i \in 1 .. Len(t) /\ i \in 0 .. L BY <1>1, <1>5
  <2> QED BY <1>1, <1>2, <1>3, <2>1
<1> HIDE DEF T
<1>6. \A i \in 0 .. L : i \in T BY <1>1, <1>4, <1>5, UpTo
<1>7. g[L] = f[L] BY <1>1, <1>6 DEF T
<1>8. L + 1 \in 1 .. Len(t) /\ (L + 1) - 1 = L BY <1>1
<1>9. g[L + 1] = Cd(g[L], n) BY <1>1, <1>3, <1>8
<1> QED BY <1>1, <1>2, <1>3, <1>7, <1>9 DEF t

\* testfs_find_dirent finds the name of a directory in the one above it, not its
\* "." or "..", and that name leads back.
LEMMA FindName ==
    ASSUME TreeInv, NEW anc, Ancestry(Dirs, Up, anc), NEW d \in Dirs, d # Root
    PROVE  find_dirent(Up[d], d) \in Name /\ Cd(Up[d], find_dirent(Up[d], d)) = d
<1> DEFINE p == Up[d]
           I == {k \in 1 .. Len(dents[p]) : dents[p][k].nr = d}
           s == SelectInSeq(dents[p], LAMBDA e : e.nr = d)
           n == find_dirent(p, d)
<1>1. /\ p \in Dirs /\ d \notin anc[p] /\ p \in anc[p] /\ anc[Root] = {Root}
      /\ \A e \in Dirs \ {Root} : Up[e] \in Dirs /\ anc[e] = anc[Up[e]] \cup {e}
      /\ \A e \in Dirs : e \in anc[e]
  BY DEF Ancestry
<1>2. PICK k \in Entries(p) : dents[p][k].nr = d BY NameAbove
<1>3. s = IF I # {} THEN Min(I) ELSE 0 BY DEF SelectInSeq
<1>4. n = dents[p][s].name BY DEF find_dirent
<1> HIDE DEF p, s, n
<1>5. Typed /\ DotsFirst /\ NamesDiffer /\ RootOnTop BY DEF TreeInv
<1>6. /\ p \in Inode /\ d \in Inode /\ itype[d] = "dir" /\ dents[p] \in Seq(Dirents)
      /\ Len(dents[p]) \in Nat
  BY <1>1, <1>5 DEF Typed, Dirs
<1>7. k \in I BY <1>2, <1>6 DEF Entries
<1>8. s \in I
  <2>1. I \subseteq Nat BY <1>6
  <2> HIDE DEF I
  <2> QED BY <1>3, <1>7, <2>1, MinIsMember
<1>9. s # 1
  <2>1. dents[p][1].nr = p BY <1>1, <1>5 DEF DotsFirst
  <2> QED BY <1>1, <1>8, <2>1
<1>10. s # 2
  <2>1. dents[p][2].nr = Up[p] BY <1>1 DEF Up
  <2>2. Up[p] \in anc[p]
    <3>1. CASE p = Root
      <4>1. Up[Root] = Root BY <1>5 DEF RootOnTop, Up
      <4> QED BY <1>1, <3>1, <4>1
    <3>2. CASE p # Root BY <1>1, <3>2
    <3> QED BY <3>1, <3>2
  <2> QED BY <1>1, <1>8, <2>1, <2>2
<1>11. s \in Entries(p) /\ dents[p][s].nr = d BY <1>6, <1>8, <1>9, <1>10 DEF Entries
<1>12. n \in Name BY <1>1, <1>4, <1>5, <1>11 DEF DotsFirst
<1>13. Live(p, s) BY <1>6, <1>11, InodeNumbers DEF Live
<1> DEFINE z == Position(p, n)
<1>14. z # 0
  <2>1. s \in 1 .. Len(dents[p]) BY <1>8
  <2> QED BY <1>4, <1>6, <1>13, <2>1, PositionFinds
<1>15. z \in 1 .. Len(dents[p]) /\ Live(p, z) /\ dents[p][z].name = n BY <1>6, <1>14, PositionFinds
<1>16. dir_name_to_inode_nr(p, n) = dents[p][z].nr BY DEF dir_name_to_inode_nr
<1>17. Cd(p, n) = IF z # 0 /\ itype[dir_name_to_inode_nr(p, n)] = "dir"
                  THEN dir_name_to_inode_nr(p, n) ELSE p
  BY DEF Cd
<1> HIDE DEF z
<1>18. z # 1 /\ z # 2 BY <1>1, <1>5, <1>12, <1>15, InodeNumbers DEF DotsFirst
<1>19. z \in Entries(p) BY <1>6, <1>15, <1>18 DEF Entries
<1>20. z = s BY <1>1, <1>4, <1>5, <1>11, <1>13, <1>15, <1>19 DEF NamesDiffer
<1>21. Cd(p, n) = d BY <1>6, <1>11, <1>14, <1>16, <1>17, <1>20
<1> QED BY <1>12, <1>21 DEF n, p

\* What the recursion of testfs_pwd prints for x, if it is g for the directory above.
PathOf(g, x) == IF Up[x] = x THEN <<>> ELSE Append(g[Up[x]], find_dirent(Up[x], x))

\* The paths of the recursive function of pwd.
LEMMA PwdSteps ==
    ASSUME TreeInv, BelowRoot
    PROVE  \E f \in [0 .. MaxInodes -> [Dirs -> Seq(Name \cup Dots)]] :
              /\ \A x \in Dirs : f[0][x] = <<>>
              /\ \A i \in 1 .. MaxInodes : \A x \in Dirs : f[i][x] = PathOf(f[i - 1], x)
              /\ \A d \in Dirs : pwd(d) = f[MaxInodes][d]
<1> DEFINE L == MaxInodes
           X == [Dirs -> Seq(Name \cup Dots)]
           b == [x \in Dirs |-> <<>>]
           step(g) == [x \in Dirs |-> PathOf(g, x)]
           st == [i \in 1 .. L |-> [g \in X |-> step(g)]]
           old(f, i, x) == LET p == dir_name_to_inode_nr(x, "..") IN
                           IF p = x \/ i = 0 THEN <<>> ELSE Append(f[i - 1][p], find_dirent(p, x))
           row(f, i) == [x \in Dirs |-> old(f, i, x)]
           body(f) == [i \in 0 .. L |-> row(f, i)]
           k == CHOOSE g : g = body(g)
<1>1. L \in Nat BY DirsAssumption
<1>2. \A d \in Dirs : pwd(d) = k[L][d] BY DEF pwd
<1>3. k = CHOOSE g : g = body(g) OBVIOUS
<1> HIDE DEF L, k
<1>4. \A x \in Dirs : dir_name_to_inode_nr(x, "..") = Up[x]
  <2>1. \A x \in Dirs : Parent(x) = dents[x][2].nr BY ParentIsSecond
  <2> QED BY <2>1 DEF Parent, Up
<1>5. \A x \in Dirs : Up[x] \in Dirs
  <2>1. \A x \in Dirs : dents[x][2].nr \in Dirs BY ParentIsDir
  <2> QED BY <2>1 DEF Up
<1>6. \A x \in Dirs : Up[x] # x => find_dirent(Up[x], x) \in Name
  <2> SUFFICES ASSUME NEW x \in Dirs, Up[x] # x PROVE find_dirent(Up[x], x) \in Name OBVIOUS
  <2>1. PICK anc : Ancestry(Dirs, Up, anc) BY DEF BelowRoot
  <2>2. x # Root BY DEF TreeInv, RootOnTop, Up
  <2> QED BY <2>1, <2>2, FindName
<1>7. \A g \in X : step(g) \in X
  <2> SUFFICES ASSUME NEW g \in X, NEW x \in Dirs PROVE PathOf(g, x) \in Seq(Name \cup Dots)
    OBVIOUS
  <2>1. CASE Up[x] = x BY <2>1 DEF PathOf
  <2>2. CASE Up[x] # x
    <3>1. g[Up[x]] \in Seq(Name \cup Dots) /\ find_dirent(Up[x], x) \in Name \cup Dots
      BY <1>5, <1>6, <2>2
    <3>2. Append(g[Up[x]], find_dirent(Up[x], x)) \in Seq(Name \cup Dots) BY <3>1
    <3> QED BY <2>2, <3>2 DEF PathOf
  <2> QED BY <2>1, <2>2
<1>8. b \in X OBVIOUS
<1> HIDE DEF X
<1>9. st \in [1 .. L -> [X -> X]]
  <2> HIDE DEF step
  <2> QED BY <1>7
<1>10. \A i \in 1 .. L : \A g \in X : st[i][g] = step(g)
  <2> HIDE DEF step
  <2> QED OBVIOUS
<1> HIDE DEF st
<1>11. PICK f \in [0 .. L -> X] : f[0] = b /\ \A i \in 1 .. L : f[i] = st[i][f[i - 1]]
  <2> HIDE DEF b
  <2>1. HasSteps(X, b, L, st) BY <1>1, <1>8, <1>9, StepsExist
  <2> QED BY <2>1 DEF HasSteps
<1>12. \A i \in 1 .. L : f[i] = step(f[i - 1])
  <2>1. \A i \in 1 .. L : i - 1 \in 0 .. L /\ f[i - 1] \in X BY <1>1
  <2> HIDE DEF step
  <2> QED BY <1>10, <1>11, <2>1
<1>13. ASSUME NEW g, NEW i \in 1 .. L PROVE row(g, i) = step(g[i - 1])
  <2>1. i # 0 BY <1>1
  <2>2. \A x \in Dirs : old(g, i, x) = PathOf(g[i - 1], x) BY <1>4, <2>1 DEF PathOf
  <2> HIDE DEF old
  <2> QED BY <2>2
<1>14. ASSUME NEW g PROVE row(g, 0) = b OBVIOUS
<1>15. \A i \in 0 .. L : i = 0 \/ i \in 1 .. L BY <1>1
<1> HIDE DEF row, step, b, old
<1>16. f = body(f)
  <2>1. \A i \in 0 .. L : f[i] = row(f, i) BY <1>11, <1>12, <1>13, <1>14, <1>15
  <2>2. f = [i \in 0 .. L |-> f[i]] OBVIOUS
  <2> QED BY <2>1, <2>2, Zenon
<1>17. k = body(k)
  <2> HIDE DEF body
  <2> QED BY <1>3, <1>16
<1>18. \A i \in 0 .. L : k[i] = f[i]
  <2>1. \A i \in 0 .. L : k[i] = row(k, i) BY <1>17, Zenon
  <2> DEFINE T == {i \in 0 .. L : k[i] = f[i]}
  <2>2. 0 \in T
    <3>1. 0 \in 0 .. L BY <1>1
    <3>2. k[0] = b BY <1>14, <2>1, <3>1
    <3> QED BY <1>11, <3>1, <3>2
  <2>3. ASSUME NEW i \in 1 .. L, i - 1 \in T PROVE i \in T
    <3>1. k[i - 1] = f[i - 1] /\ i \in 0 .. L BY <1>1, <2>3
    <3>2. k[i] = step(k[i - 1]) BY <1>13, <2>1, <3>1
    <3>3. k[i] = f[i] BY <1>12, <3>1, <3>2
    <3> QED BY <3>1, <3>3
  <2> HIDE DEF T
  <2>4. \A i \in 0 .. L : i \in T BY <1>1, <2>2, <2>3, UpTo
  <2> QED BY <2>4 DEF T
<1>19. \A d \in Dirs : pwd(d) = f[L][d] BY <1>1, <1>2, <1>18
<1>20. \A x \in Dirs : f[0][x] = <<>> BY <1>11 DEF b
<1>21. \A i \in 1 .. L : \A x \in Dirs : f[i][x] = PathOf(f[i - 1], x) BY <1>12 DEF step
<1> QED BY <1>19, <1>20, <1>21 DEF L, X

\* The chain above a directory is one shorter than that of the directory, and
\* none is longer than there are inodes.
LEMMA ChainLength ==
    ASSUME TreeInv, NEW anc, Ancestry(Dirs, Up, anc)
    PROVE  /\ \A d \in Dirs : Cardinality(anc[d]) \in 1 .. MaxInodes
           /\ \A d \in Dirs \ {Root} : Cardinality(anc[d]) = Cardinality(anc[Up[d]]) + 1
<1>1. IsFiniteSet(Inode) /\ Cardinality(Inode) = MaxInodes
  <2>1. MaxInodes \in Nat /\ MaxInodes # 0 BY DirsAssumption
  <2>2. 0 \in Int /\ MaxInodes - 1 \in Int BY <2>1
  <2>3. /\ IsFiniteSet(0 .. MaxInodes - 1)
        /\ Cardinality(0 .. MaxInodes - 1)
             = IF 0 > MaxInodes - 1 THEN 0 ELSE (MaxInodes - 1) - 0 + 1
    BY <2>2, FS_Interval
  <2> QED BY <2>1, <2>3 DEF Inode
<1>2. ASSUME NEW d \in Dirs
      PROVE  IsFiniteSet(anc[d]) /\ Cardinality(anc[d]) \in 1 .. MaxInodes
  <2>1. anc[d] \subseteq Inode /\ d \in anc[d] BY DEF Ancestry, Dirs
  <2>2. IsFiniteSet(anc[d]) /\ Cardinality(anc[d]) <= MaxInodes BY <1>1, <2>1, FS_Subset
  <2>3. Cardinality(anc[d]) \in Nat BY <2>2, FS_CardinalityType
  <2>4. Cardinality(anc[d]) # 0 BY <2>1, <2>2, FS_EmptySet
  <2>5. MaxInodes \in Nat BY DirsAssumption
  <2> QED BY <2>2, <2>3, <2>4, <2>5
<1>3. ASSUME NEW d \in Dirs \ {Root} PROVE Cardinality(anc[d]) = Cardinality(anc[Up[d]]) + 1
  <2>1. Up[d] \in Dirs /\ d \notin anc[Up[d]] /\ anc[d] = anc[Up[d]] \cup {d} BY DEF Ancestry
  <2>2. IsFiniteSet(anc[Up[d]]) BY <1>2, <2>1
  <2> QED BY <2>1, <2>2, FS_AddElement
<1> QED BY <1>2, <1>3

\* From any directory, after any sequence of commands, testfs_pwd ends at the
\* root, and cd along the names it printed leads back: the chain above the
\* directory has no repetition, and each name is the only one of its directory.
THEOREM PwdStaysRight == Spec => []PwdLeadsBack
<1>1. ASSUME DInv, BelowRoot PROVE PwdLeadsBack
  <2>1. TreeInv BY <1>1 DEF DInv
  <2>2. PICK anc : Ancestry(Dirs, Up, anc) BY <1>1 DEF BelowRoot
  <2>3. PICK f \in [0 .. MaxInodes -> [Dirs -> Seq(Name \cup Dots)]] :
              /\ \A x \in Dirs : f[0][x] = <<>>
              /\ \A i \in 1 .. MaxInodes : \A x \in Dirs : f[i][x] = PathOf(f[i - 1], x)
              /\ \A d \in Dirs : pwd(d) = f[MaxInodes][d]
    BY <1>1, <2>1, PwdSteps
  <2>4. MaxInodes \in Nat BY DirsAssumption
  <2>5. /\ \A d \in Dirs : Cardinality(anc[d]) \in 1 .. MaxInodes
        /\ \A d \in Dirs \ {Root} : Cardinality(anc[d]) = Cardinality(anc[Up[d]]) + 1
    BY <2>1, <2>2, ChainLength
  <2>6. Root \in Dirs /\ Up[Root] = Root BY <2>1 DEF TreeInv, RootOnTop, Up
  <2>7. \A d \in Dirs \ {Root} : Up[d] \in Dirs /\ Up[d] # d BY <2>2 DEF Ancestry
  <2>8. resolve(<<>>) = Root BY <2>1, ResolveEmpty
  <2> DEFINE T == {i \in 0 .. MaxInodes :
                    \A d \in Dirs : Cardinality(anc[d]) <= i + 1 => resolve(f[i][d]) = d}
  <2>9. 0 \in T
    <3>1. ASSUME NEW d \in Dirs, Cardinality(anc[d]) <= 1 PROVE d = Root
      <4> SUFFICES ASSUME d # Root PROVE FALSE OBVIOUS
      <4>1. /\ Cardinality(anc[d]) = Cardinality(anc[Up[d]]) + 1
            /\ Cardinality(anc[Up[d]]) \in 1 .. MaxInodes
        BY <2>5, <2>7
      <4> QED BY <2>4, <3>1, <4>1
    <3>2. ASSUME NEW d \in Dirs, Cardinality(anc[d]) <= 0 + 1 PROVE resolve(f[0][d]) = d
      <4>1. d = Root BY <3>1, <3>2
      <4> QED BY <2>3, <2>6, <2>8, <4>1
    <3> QED BY <2>4, <3>2
  <2>10. ASSUME NEW i \in 1 .. MaxInodes, i - 1 \in T PROVE i \in T
    <3>1. ASSUME NEW d \in Dirs, Cardinality(anc[d]) <= i + 1 PROVE resolve(f[i][d]) = d
      <4>1. CASE d = Root
        <5>1. f[i][d] = <<>> BY <2>3, <2>6, <4>1 DEF PathOf
        <5> QED BY <2>8, <4>1, <5>1
      <4>2. CASE d # Root
        <5> DEFINE p == Up[d]
                   n == find_dirent(p, d)
                   g == f[i - 1]
        <5>1. p \in Dirs /\ p # d BY <2>7, <4>2
        <5>2. f[i][d] = Append(g[p], n) BY <2>3, <5>1 DEF PathOf
        <5>3. n \in Name /\ Cd(p, n) = d BY <2>1, <2>2, <4>2, FindName
        <5> HIDE DEF p, n
        <5>4. i - 1 \in 0 .. MaxInodes BY <2>4
        <5>5. g[p] \in Seq(Name \cup Dots) BY <2>3, <5>1, <5>4
        <5>6. Cardinality(anc[p]) <= (i - 1) + 1
          <6>1. Cardinality(anc[d]) = Cardinality(anc[p]) + 1 /\ Cardinality(anc[p]) \in 1 .. MaxInodes
            BY <2>5, <4>2, <5>1 DEF p
          <6> DEFINE x == Cardinality(anc[d])
                     y == Cardinality(anc[p])
          <6>2. x <= i + 1 /\ x = y + 1 /\ y \in Int /\ i \in Int BY <2>4, <3>1, <6>1
          <6> HIDE DEF x, y
          <6>3. y <= (i - 1) + 1 BY ONLY <6>2
          <6> QED BY <6>3 DEF y
        <5>7. resolve(g[p]) = p
          <6>1. \A b \in Dirs : Cardinality(anc[b]) <= (i - 1) + 1 => resolve(g[b]) = b BY <2>10
          <6> HIDE DEF g
          <6> QED BY ONLY <5>1, <5>6, <6>1
        <5> HIDE DEF g
        <5>8. resolve(Append(g[p], n)) = Cd(resolve(g[p]), n) BY <2>1, <5>3, <5>5, ResolveAppend
        <5> QED BY <5>2, <5>3, <5>7, <5>8
      <4> QED BY <4>1, <4>2
    <3> QED BY <2>4, <3>1
  <2> HIDE DEF T
  <2>11. \A i \in 0 .. MaxInodes : i \in T BY <2>4, <2>9, <2>10, UpTo
  <2>12. MaxInodes \in T BY <2>4, <2>11
  <2>13. ASSUME NEW d \in Dirs PROVE resolve(pwd(d)) = d
    <3>1. Cardinality(anc[d]) <= MaxInodes + 1 BY <2>4, <2>5
    <3> QED BY <2>3, <2>12, <3>1 DEF T
  <2> QED BY <2>13 DEF PwdLeadsBack
<1> QED BY <1>1, DirsAreATree, PTL

-----------------------------------------------------------------------------
(* lsr *)

\* The lines for an entry, and for a directory, if g are those of the directories in it.
LinesOf(g, e) == IF e.nr = INVALID_INODE_NR \/ e.name \in Dots THEN <<>>
                 ELSE <<e.nr>> \o IF itype[e.nr] = "dir" THEN g[e.nr] ELSE <<>>
Listing(g, x) == FlattenSeq([j \in DOMAIN next_dirents(x) |-> LinesOf(g, next_dirents(x)[j])])
NoLines == [x \in Inode |-> <<>>]

\* What a listing reads: the entries, and after them the torn one, if there is one.
Shown == [name : Name \cup Dots \cup {"torn"}, nr : Inode \cup {INVALID_INODE_NR}]

LEMMA NextDirents ==
    ASSUME Typed, TornElsewhere, NEW x \in Inode
    PROVE  /\ next_dirents(x) \in Seq(Shown)
           /\ Len(dents[x]) \in Nat /\ Len(next_dirents(x)) >= Len(dents[x])
           /\ \A j \in 1 .. Len(dents[x]) : next_dirents(x)[j] = dents[x][j]
           /\ ~Torn(x) => next_dirents(x) = dents[x]
<1> DEFINE e == [name |-> "torn", nr |-> torn[x].nr]
           s == dents[x]
           S == Shown
<1>1. s \in Seq(Dirents) /\ Len(s) \in Nat BY DEF Typed
<1>2. \A j \in 1 .. Len(s) : s[j] \in S
  <2>1. \A j \in 1 .. Len(s) : s[j] \in Dirents BY <1>1
  <2> QED BY <2>1 DEF Dirents, Shown
<1>3. s = [j \in 1 .. Len(s) |-> s[j]] BY <1>1
<1>4. Torn(x) => e \in S BY DEF TornElsewhere, Shown
<1>5. next_dirents(x) = IF Torn(x) THEN Append(s, e) ELSE s BY DEF next_dirents
<1> HIDE DEF s, e, S
<1>6. s \in Seq(S) BY <1>1, <1>2, <1>3
<1>7. CASE Torn(x)
  <2>1. Append(s, e) \in Seq(S) /\ Len(Append(s, e)) = Len(s) + 1 BY <1>4, <1>6, <1>7
  <2>2. \A j \in 1 .. Len(s) : Append(s, e)[j] = s[j] BY <1>6
  <2> QED BY <1>1, <1>5, <1>7, <2>1, <2>2 DEF s, S
<1>8. CASE ~Torn(x) BY <1>1, <1>5, <1>6, <1>8 DEF s, S
<1> QED BY <1>7, <1>8

\* A listing is a sequence of inodes.
LEMMA ListingType ==
    ASSUME Typed, TornElsewhere, NEW g \in [Inode -> Seq(Inode)], NEW x \in Inode
    PROVE  /\ Listing(g, x) \in Seq(Inode)
           /\ \A j \in DOMAIN next_dirents(x) : LinesOf(g, next_dirents(x)[j]) \in Seq(Inode)
<1> DEFINE s == next_dirents(x)
<1>1. s \in Seq(Shown) BY NextDirents
<1>a. Listing(g, x) = FlattenSeq([j \in DOMAIN s |-> LinesOf(g, s[j])]) BY DEF Listing
<1> HIDE DEF s
<1>2. DOMAIN s = 1 .. Len(s) /\ Len(s) \in Nat BY <1>1
<1>3. ASSUME NEW e \in Shown PROVE LinesOf(g, e) \in Seq(Inode)
  <2>1. CASE e.nr = INVALID_INODE_NR \/ e.name \in Dots BY <2>1 DEF LinesOf
  <2>2. CASE ~(e.nr = INVALID_INODE_NR \/ e.name \in Dots)
    <3>1. e.nr \in Inode BY <2>2 DEF Shown
    <3> DEFINE t == IF itype[e.nr] = "dir" THEN g[e.nr] ELSE <<>>
    <3>2. t \in Seq(Inode) BY <3>1
    <3>3. LinesOf(g, e) = <<e.nr>> \o t BY <2>2 DEF LinesOf
    <3> HIDE DEF t
    <3> QED BY <3>1, <3>2, <3>3
  <2> QED BY <2>1, <2>2
<1>4. \A j \in 1 .. Len(s) : s[j] \in Shown BY <1>1
<1>5. \A j \in DOMAIN s : LinesOf(g, s[j]) \in Seq(Inode) BY <1>2, <1>3, <1>4
<1> DEFINE parts == [j \in DOMAIN s |-> LinesOf(g, s[j])]
           L == Len(s)
<1>6. parts \in [1 .. L -> Seq(Inode)] BY <1>2, <1>5
<1>7. Listing(g, x) = FlattenSeq(parts) BY <1>a
<1> HIDE DEF parts, L
<1>8. FlattenSeq(parts) \in Seq(Inode) BY <1>2, <1>6, FlattenParts DEF L
<1> QED BY <1>5, <1>7, <1>8 DEF s

\* The listings of the recursive function of lsr.
LEMMA LsrSteps ==
    ASSUME Typed, TornElsewhere
    PROVE  \E f \in [0 .. MaxInodes -> [Inode -> Seq(Inode)]] :
              /\ \A x \in Inode : f[0][x] = Listing(NoLines, x)
              /\ \A i \in 1 .. MaxInodes : \A x \in Inode : f[i][x] = Listing(f[i - 1], x)
              /\ \A d \in Inode : lsr(d) = f[MaxInodes][d]
<1> DEFINE L == MaxInodes
           X == [Inode -> Seq(Inode)]
           step(g) == [x \in Inode |-> Listing(g, x)]
           b == step(NoLines)
           st == [i \in 1 .. L |-> [g \in X |-> step(g)]]
           old(f, i, e) == IF e.nr = INVALID_INODE_NR \/ e.name \in Dots THEN <<>>
                           ELSE <<e.nr>> \o IF itype[e.nr] = "dir" /\ i > 0 THEN f[i - 1][e.nr] ELSE <<>>
           row(f, i) == [x \in Inode |-> FlattenSeq([j \in DOMAIN next_dirents(x) |-> old(f, i, next_dirents(x)[j])])]
           body(f) == [i \in 0 .. L |-> row(f, i)]
           k == CHOOSE g : g = body(g)
<1>1. L \in Nat BY DirsAssumption
<1>2. \A d \in Inode : lsr(d) = k[L][d] BY DEF lsr
<1>3. k = CHOOSE g : g = body(g) OBVIOUS
<1> HIDE DEF L, k
<1>4. \A g \in X : step(g) \in X BY ListingType
<1>5. NoLines \in X BY DEF NoLines
<1>6. b \in X BY <1>4, <1>5
<1>7. ASSUME NEW g, NEW i \in 1 .. L PROVE row(g, i) = step(g[i - 1])
  <2>1. i > 0 BY <1>1
  <2>2. \A e : old(g, i, e) = LinesOf(g[i - 1], e) BY <2>1 DEF LinesOf
  <2> HIDE DEF old
  <2>3. \A x \in Inode : [j \in DOMAIN next_dirents(x) |-> old(g, i, next_dirents(x)[j])]
                           = [j \in DOMAIN next_dirents(x) |-> LinesOf(g[i - 1], next_dirents(x)[j])]
    BY <2>2, Zenon
  <2>4. \A x \in Inode : FlattenSeq([j \in DOMAIN next_dirents(x) |-> old(g, i, next_dirents(x)[j])])
                           = Listing(g[i - 1], x)
    BY <2>3, Zenon DEF Listing
  <2> QED BY <2>4, Zenon
<1>8. ASSUME NEW g PROVE row(g, 0) = b
  <2>1. ASSUME NEW e \in Shown PROVE old(g, 0, e) = LinesOf(NoLines, e)
    <3>1. e.nr # INVALID_INODE_NR => e.nr \in Inode BY DEF Shown
    <3>2. CASE e.nr = INVALID_INODE_NR \/ e.name \in Dots BY <3>2 DEF LinesOf
    <3>3. CASE ~(e.nr = INVALID_INODE_NR \/ e.name \in Dots)
      <4>1. ~(0 > 0) OBVIOUS
      <4>2. old(g, 0, e) = <<e.nr>> \o <<>> BY <3>3, <4>1
      <4>3. NoLines[e.nr] = <<>> BY <3>1, <3>3 DEF NoLines
      <4>4. LinesOf(NoLines, e) = <<e.nr>> \o <<>> BY <3>3, <4>3 DEF LinesOf
      <4> QED BY <4>2, <4>4
    <3> QED BY <3>2, <3>3
  <2> HIDE DEF old
  <2>2. \A x \in Inode : \A j \in DOMAIN next_dirents(x) : next_dirents(x)[j] \in Shown BY NextDirents
  <2>3. \A x \in Inode : \A j \in DOMAIN next_dirents(x) : old(g, 0, next_dirents(x)[j]) = LinesOf(NoLines, next_dirents(x)[j])
    BY <2>1, <2>2, Zenon
  <2>4. \A x \in Inode : [j \in DOMAIN next_dirents(x) |-> old(g, 0, next_dirents(x)[j])]
                           = [j \in DOMAIN next_dirents(x) |-> LinesOf(NoLines, next_dirents(x)[j])]
    BY <2>3, Zenon
  <2>5. \A x \in Inode : FlattenSeq([j \in DOMAIN next_dirents(x) |-> old(g, 0, next_dirents(x)[j])])
                           = Listing(NoLines, x)
    BY <2>4, Zenon DEF Listing
  <2> QED BY <2>5, Zenon
<1> HIDE DEF X, old, row
<1>9. st \in [1 .. L -> [X -> X]]
  <2> HIDE DEF step
  <2> QED BY <1>4
<1>10. \A i \in 1 .. L : \A g \in X : st[i][g] = step(g)
  <2> HIDE DEF step
  <2> QED OBVIOUS
<1> HIDE DEF st
<1>11. PICK f \in [0 .. L -> X] : f[0] = b /\ \A i \in 1 .. L : f[i] = st[i][f[i - 1]]
  <2> HIDE DEF b
  <2>1. HasSteps(X, b, L, st) BY <1>1, <1>6, <1>9, StepsExist
  <2> QED BY <2>1 DEF HasSteps
<1>12. \A x \in Inode : b[x] = Listing(NoLines, x) OBVIOUS
<1>13. ASSUME NEW g, NEW x \in Inode PROVE step(g)[x] = Listing(g, x) OBVIOUS
<1> HIDE DEF step, b
<1>14. \A i \in 1 .. L : f[i] = step(f[i - 1])
  <2>1. \A i \in 1 .. L : i - 1 \in 0 .. L /\ f[i - 1] \in X BY <1>1
  <2> QED BY <1>10, <1>11, <2>1
<1>15. \A i \in 0 .. L : i = 0 \/ i \in 1 .. L BY <1>1
<1>16. f = body(f)
  <2>1. \A i \in 0 .. L : f[i] = row(f, i) BY <1>7, <1>8, <1>11, <1>14, <1>15
  <2>2. f = [i \in 0 .. L |-> f[i]] OBVIOUS
  <2> QED BY <2>1, <2>2, Zenon
<1>17. k = body(k)
  <2> HIDE DEF body
  <2> QED BY <1>3, <1>16
<1>18. \A i \in 0 .. L : k[i] = f[i]
  <2>1. \A i \in 0 .. L : k[i] = row(k, i) BY <1>17, Zenon
  <2> DEFINE T == {i \in 0 .. L : k[i] = f[i]}
  <2>2. 0 \in T
    <3>1. 0 \in 0 .. L BY <1>1
    <3>2. k[0] = b BY <1>8, <2>1, <3>1
    <3> QED BY <1>11, <3>1, <3>2
  <2>3. ASSUME NEW i \in 1 .. L, i - 1 \in T PROVE i \in T
    <3>1. k[i - 1] = f[i - 1] /\ i \in 0 .. L BY <1>1, <2>3
    <3>2. k[i] = step(k[i - 1]) BY <1>7, <2>1, <3>1
    <3>3. k[i] = f[i] BY <1>14, <3>1, <3>2
    <3> QED BY <3>1, <3>3
  <2> HIDE DEF T
  <2>4. \A i \in 0 .. L : i \in T BY <1>1, <2>2, <2>3, UpTo
  <2> QED BY <2>4 DEF T
<1>19. \A d \in Inode : lsr(d) = f[L][d] BY <1>1, <1>2, <1>18
<1>20. \A x \in Inode : f[0][x] = Listing(NoLines, x) BY <1>11, <1>12
<1>21. \A i \in 1 .. L : \A x \in Inode : f[i][x] = Listing(f[i - 1], x) BY <1>13, <1>14
<1> QED BY <1>19, <1>20, <1>21 DEF L, X

\* The inodes that have a name in a directory d.
Named(d) == {i \in Inode : \E k \in Entries(d) : dents[d][k].nr = i}

\* Those with a name in x or in a directory below x.
Under(anc, x) == {i \in Inode : \E d \in Dirs : x \in anc[d] /\ i \in Named(d)}

\* A name is in one directory, the one above what it leads to.
LEMMA NamedOnce ==
    ASSUME TreeInv
    PROVE  /\ \A d, e \in Dirs : \A i \in Named(d) : i \in Named(e) => d = e
           /\ \A d \in Dirs : \A i \in Named(d) :
                 itype[i] \in {"file", "dir"} /\ i # Root /\ (i \in Dirs => Up[i] = d)
           /\ \A c \in Dirs \ {Root} : Up[c] \in Dirs /\ c \in Named(Up[c])
<1>1. OneName /\ LeadSomewhere /\ ParentNames BY DEF TreeInv
<1>2. \A d \in Dirs : \A k \in Entries(d) : dents[d][k].nr \in Inode => Live(d, k)
  BY InodeNumbers DEF Live
<1>3. ASSUME NEW d \in Dirs, NEW e \in Dirs, NEW i \in Named(d), i \in Named(e) PROVE d = e
  <2>1. PICK j \in Entries(d) : dents[d][j].nr = i BY DEF Named
  <2>2. PICK k \in Entries(e) : dents[e][k].nr = i BY <1>3 DEF Named
  <2>3. Live(d, j) BY <1>2, <2>1 DEF Named
  <2> QED BY <1>1, <2>1, <2>2, <2>3 DEF OneName
<1>4. ASSUME NEW d \in Dirs, NEW i \in Named(d)
      PROVE  itype[i] \in {"file", "dir"} /\ i # Root /\ (i \in Dirs => Up[i] = d)
  <2>1. PICK j \in Entries(d) : dents[d][j].nr = i BY DEF Named
  <2>2. Live(d, j) BY <1>2, <2>1 DEF Named
  <2>3. itype[i] \in {"file", "dir"} /\ i # Root BY <1>1, <2>1, <2>2 DEF LeadSomewhere
  <2>4. i \in Dirs => Up[i] = d BY <1>1, <2>1, <2>2 DEF ParentNames, Dirs, Up
  <2> QED BY <2>3, <2>4
<1>5. ASSUME NEW c \in Dirs \ {Root} PROVE Up[c] \in Dirs /\ c \in Named(Up[c])
  <2>1. PICK k \in Entries(Up[c]) : dents[Up[c]][k].nr = c BY NameAbove
  <2>2. c \in Inode BY DEF Dirs
  <2>3. Up[c] \in Dirs BY ParentIsDir DEF Up
  <2> QED BY <2>1, <2>2, <2>3 DEF Named
<1> QED BY <1>3, <1>4, <1>5

\* What is under two directories in x is apart, and nothing that has its name in
\* x is under one of them.
LEMMA UnderApart ==
    ASSUME TreeInv, NEW anc, Ancestry(Dirs, Up, anc), NEW x \in Dirs,
           NEW c \in Dirs \ {Root}, Up[c] = x
    PROVE  /\ \A i \in Named(x) : i \notin Under(anc, c)
           /\ \A e \in Dirs \ {Root} :
                 Up[e] = x /\ e # c => Under(anc, c) \cap Under(anc, e) = {}
<1>1. \A d, e \in Dirs : \A i \in Named(d) : i \in Named(e) => d = e BY NamedOnce
<1>2. ASSUME NEW i \in Named(x), i \in Under(anc, c) PROVE FALSE
  <2>1. PICK d \in Dirs : c \in anc[d] /\ i \in Named(d) BY <1>2 DEF Under
  <2>2. d = x BY <1>1, <2>1
  <2>3. c \notin anc[x] BY DEF Ancestry
  <2> QED BY <2>1, <2>2, <2>3
<1>3. ASSUME NEW e \in Dirs \ {Root}, Up[e] = x, e # c, NEW i \in Under(anc, c), i \in Under(anc, e)
      PROVE  FALSE
  <2>1. PICK d \in Dirs : c \in anc[d] /\ i \in Named(d) BY DEF Under
  <2>2. PICK d2 \in Dirs : e \in anc[d2] /\ i \in Named(d2) BY <1>3 DEF Under
  <2>3. d = d2 BY <1>1, <2>1, <2>2
  <2>4. \A a, b \in anc[d] \ {Root} : Up[a] = Up[b] => a = b BY DEF Ancestry
  <2> QED BY <1>3, <2>1, <2>2, <2>3, <2>4
<1> QED BY <1>2, <1>3

\* Under x is what has its name in x, and what is under a directory in x.
LEMMA UnderParts ==
    ASSUME TreeInv, NEW anc, Ancestry(Dirs, Up, anc), NEW x \in Dirs
    PROVE  /\ Named(x) \subseteq Under(anc, x)
           /\ \A c \in Dirs \ {Root} : Up[c] = x => Under(anc, c) \subseteq Under(anc, x)
           /\ \A i \in Under(anc, x) :
                 i \in Named(x) \/ \E c \in Dirs \ {Root} : Up[c] = x /\ i \in Under(anc, c)
<1>1. x \in anc[x] BY DEF Ancestry
<1>2. Named(x) \subseteq Under(anc, x) BY <1>1 DEF Under, Named
<1>3. ASSUME NEW c \in Dirs \ {Root}, Up[c] = x, NEW i \in Under(anc, c) PROVE i \in Under(anc, x)
  <2>1. PICK d \in Dirs : c \in anc[d] /\ i \in Named(d) BY DEF Under
  <2>2. \A a \in anc[d] \ {Root} : Up[a] \in anc[d] BY DEF Ancestry
  <2>3. x \in anc[d] BY <1>3, <2>1, <2>2
  <2> QED BY <2>1, <2>3 DEF Under
<1>4. ASSUME NEW i \in Under(anc, x), i \notin Named(x)
      PROVE  \E c \in Dirs \ {Root} : Up[c] = x /\ i \in Under(anc, c)
  <2>1. PICK d \in Dirs : x \in anc[d] /\ i \in Named(d) BY DEF Under
  <2>2. d # x BY <1>4, <2>1
  <2>3. \A a \in anc[d] \ {d} : \E e \in anc[d] \ {Root} : Up[e] = a BY DEF Ancestry
  <2>4. PICK e \in anc[d] \ {Root} : Up[e] = x BY <2>1, <2>2, <2>3
  <2>5. e \in Dirs BY <2>1 DEF Ancestry
  <2>6. i \in Under(anc, e) BY <2>1, <2>4 DEF Under
  <2> QED BY <2>4, <2>5, <2>6
<1> QED BY <1>2, <1>3, <1>4

NoTears == \A d \in Dirs : ~Torn(d)

\* A listing is right for x if it shows all that is under x, and if it shows it
\* once and nothing else when there is no torn entry.
Right(anc, l, x) ==
    /\ Under(anc, x) \subseteq Range(l)
    /\ NoTears => IsInjective(l) /\ Range(l) = Under(anc, x)

\* If the listings of the directories in x are right, so is that of x.
LEMMA ListingRight ==
    ASSUME TreeInv, TornElsewhere, NEW anc, Ancestry(Dirs, Up, anc), NEW x \in Dirs,
           NEW g \in [Inode -> Seq(Inode)],
           \A c \in Dirs \ {Root} : Up[c] = x => Right(anc, g[c], c)
    PROVE  Right(anc, Listing(g, x), x)
<1> DEFINE L == Len(dents[x])
           M == Len(next_dirents(x))
           parts == [j \in DOMAIN next_dirents(x) |-> LinesOf(g, next_dirents(x)[j])]
           nr(j) == dents[x][j].nr
           shown == {j \in 1 .. L : j \in Entries(x) /\ Live(x, j)}
           below(i) == IF i \in Dirs THEN Under(anc, i) ELSE {}
<1>1. Typed /\ DotsFirst /\ OneName BY DEF TreeInv
<1>2. x \in Inode /\ dents[x] \in Seq(Dirents) /\ DOMAIN dents[x] = 1 .. L /\ L \in Nat
  BY <1>1 DEF Typed, Dirs
<1>3. Listing(g, x) = FlattenSeq(parts) BY DEF Listing
<1>4. /\ M \in Nat /\ M >= L /\ (NoTears => M = L) /\ parts \in [1 .. M -> Seq(Inode)]
      /\ \A j \in 1 .. L : parts[j] = LinesOf(g, dents[x][j])
  <2>1. \A j \in DOMAIN next_dirents(x) : LinesOf(g, next_dirents(x)[j]) \in Seq(Inode)
    BY <1>1, <1>2, ListingType
  <2>2. /\ next_dirents(x) \in Seq(Shown) /\ M >= L
        /\ \A j \in 1 .. L : next_dirents(x)[j] = dents[x][j]
        /\ NoTears => next_dirents(x) = dents[x]
    BY <1>1, <1>2, NextDirents DEF NoTears
  <2>3. M \in Nat /\ DOMAIN next_dirents(x) = 1 .. M BY <2>2
  <2>4. parts \in [1 .. M -> Seq(Inode)] BY <2>1, <2>3
  <2>5. \A j \in 1 .. L : j \in 1 .. M BY <1>2, <2>2, <2>3
  <2> QED BY <2>2, <2>3, <2>4, <2>5
<1> HIDE DEF parts, M
\* A removed entry, "." and ".." have no line.
<1>5. ASSUME NEW j \in 1 .. L, j \notin shown PROVE parts[j] = <<>>
  <2>1. j \notin Entries(x) => j = 1 \/ j = 2 BY <1>2 DEF Entries
  <2>2. dents[x][1].name \in Dots /\ dents[x][2].name \in Dots BY <1>1 DEF DotsFirst, Dots
  <2>3. dents[x][j].nr = INVALID_INODE_NR \/ dents[x][j].name \in Dots
    BY <1>5, <2>1, <2>2 DEF Live
  <2> QED BY <1>4, <2>3 DEF LinesOf
<1>6. ASSUME NEW j \in shown PROVE nr(j) \in Named(x) /\ nr(j) \in Inode /\ dents[x][j].name \notin Dots
  <2>1. j \in Entries(x) /\ Live(x, j) /\ j \in 1 .. L OBVIOUS
  <2>2. dents[x][j] \in Dirents BY <1>2, <2>1
  <2>3. nr(j) \in Inode BY <2>1, <2>2 DEF Live, Dirents
  <2>4. dents[x][j].name \in Name BY <1>1, <2>1 DEF DotsFirst
  <2> QED BY <2>1, <2>3, <2>4, DirsAssumption DEF Named
<1>7. ASSUME NEW i \in Named(x) PROVE \E j \in shown : nr(j) = i
  <2>1. PICK j \in Entries(x) : dents[x][j].nr = i BY DEF Named
  <2>2. Live(x, j) BY <2>1, InodeNumbers DEF Live, Named
  <2>3. j \in 1 .. L BY <1>2 DEF Entries
  <2> QED BY <2>1, <2>2, <2>3
<1>8. ASSUME NEW j \in shown, NEW k \in shown, nr(j) = nr(k) PROVE j = k
  BY <1>1, <1>8 DEF OneName
<1>9. ASSUME NEW i \in Named(x) PROVE i # Root /\ (i \in Dirs => Up[i] = x) BY NamedOnce
\* An entry has the line of its inode and those of what is under it.
<1>10. ASSUME NEW j \in shown
       PROVE  /\ {nr(j)} \cup below(nr(j)) \subseteq Range(parts[j])
              /\ NoTears => IsInjective(parts[j]) /\ Range(parts[j]) = {nr(j)} \cup below(nr(j))
  <2> DEFINE i == nr(j)
             t == IF itype[i] = "dir" THEN g[i] ELSE <<>>
  <2>1. i \in Named(x) /\ i \in Inode /\ i # Root BY <1>6, <1>9
  <2>2. parts[j] = <<i>> \o t
    <3>1. dents[x][j].nr # INVALID_INODE_NR /\ dents[x][j].name \notin Dots BY <1>6 DEF Live
    <3> QED BY <1>4, <3>1 DEF LinesOf
  <2> HIDE DEF i
  <2>3. t \in Seq(Inode) BY <2>1
  <2>4. below(i) \subseteq Range(t) /\ (NoTears => IsInjective(t) /\ Range(t) = below(i))
    <3>1. CASE i \in Dirs
      <4>1. t = g[i] BY <3>1 DEF Dirs
      <4>2. i \in Dirs \ {Root} /\ Up[i] = x BY <1>9, <2>1, <3>1
      <4> QED BY <3>1, <4>1, <4>2 DEF Right
    <3>2. CASE i \notin Dirs
      <4>1. t = <<>> BY <2>1, <3>2 DEF Dirs
      <4> QED BY <3>2, <4>1, EmptyQueue
    <3> QED BY <3>1, <3>2
  <2>5. i \notin below(i)
    <3>1. CASE i \in Dirs
      <4>1. i \in Dirs \ {Root} /\ Up[i] = x BY <1>9, <2>1, <3>1
      <4> QED BY <2>1, <3>1, <4>1, UnderApart
    <3>2. CASE i \notin Dirs BY <3>2
    <3> QED BY <3>1, <3>2
  <2> HIDE DEF t, below
  <2>6. <<i>> \in Seq(Inode) /\ IsInjective(<<i>>) /\ Range(<<i>>) = {i}
    BY <2>1 DEF IsInjective, Range
  <2> DEFINE o == <<i>>
  <2> HIDE DEF o
  <2>7. o \in Seq(Inode) /\ IsInjective(o) /\ Range(o) = {i} /\ parts[j] = o \o t BY <2>2, <2>6 DEF o
  <2>8. NoTears => Range(o) \cap Range(t) = {} BY <2>4, <2>5, <2>7
  <2>9. Range(o \o t) = Range(o) \cup Range(t) /\ (NoTears => IsInjective(o \o t))
    BY <2>3, <2>4, <2>7, <2>8, ConcatQueue
  <2> QED BY <2>4, <2>7, <2>9 DEF i
<1>11. ASSUME NoTears, NEW j \in 1 .. L PROVE IsInjective(parts[j])
  <2>1. CASE j \in shown BY <1>10, <1>11, <2>1
  <2>2. CASE j \notin shown BY <1>5, <2>2, EmptyQueue
  <2> QED BY <2>1, <2>2
\* The lines of two entries are apart.
<1>12. ASSUME NoTears, NEW j \in shown, NEW k \in shown, j # k, NEW y \in Range(parts[j]), y \in Range(parts[k])
       PROVE  FALSE
  <2>1. PICK a \in Inode : a = nr(j) /\ a \in Named(x) BY <1>6
  <2>2. PICK b \in Inode : b = nr(k) /\ b \in Named(x) BY <1>6
  <2>3. a # b BY <1>8, <1>12, <2>1, <2>2
  <2>4. y \in {a} \cup below(a) /\ y \in {b} \cup below(b) BY <1>10, <1>12, <2>1, <2>2
  <2>5. ASSUME NEW c \in Named(x), NEW i \in Named(x) PROVE i \notin below(c)
    <3>1. CASE c \in Dirs
      <4>1. c \in Dirs \ {Root} /\ Up[c] = x BY <1>9, <3>1
      <4> QED BY <3>1, <4>1, UnderApart
    <3>2. CASE c \notin Dirs BY <3>2
    <3> QED BY <3>1, <3>2
  <2>6. y \in below(a) /\ y \in below(b) BY <2>1, <2>2, <2>3, <2>4, <2>5
  <2>7. a \in Dirs /\ b \in Dirs BY <2>6
  <2>8. a \in Dirs \ {Root} /\ Up[a] = x /\ b \in Dirs \ {Root} /\ Up[b] = x
    BY <1>9, <2>1, <2>2, <2>7
  <2>9. Under(anc, a) \cap Under(anc, b) = {} BY <2>3, <2>8, UnderApart
  <2> QED BY <2>6, <2>7, <2>9
<1>13. ASSUME NoTears, NEW j \in 1 .. L, NEW k \in 1 .. L, j # k PROVE Range(parts[j]) \cap Range(parts[k]) = {}
  <2>1. CASE j \in shown /\ k \in shown BY <1>12, <1>13, <2>1
  <2>2. CASE j \notin shown BY <1>5, <2>2, EmptyQueue
  <2>3. CASE k \notin shown BY <1>5, <2>3, EmptyQueue
  <2> QED BY <2>1, <2>2, <2>3
<1>14. /\ NoTears => \A j \in 1 .. L : \A y \in Range(parts[j]) : y \in Under(anc, x)
       /\ \A y \in Under(anc, x) : \E j \in 1 .. L : y \in Range(parts[j])
  <2>1. ASSUME NoTears, NEW j \in 1 .. L, NEW y \in Range(parts[j]) PROVE y \in Under(anc, x)
    <3>1. j \in shown BY <1>5, <2>1, EmptyQueue
    <3>2. PICK a \in Inode : a = nr(j) /\ a \in Named(x) BY <1>6, <3>1
    <3>3. y \in {a} \cup below(a) BY <1>10, <2>1, <3>1, <3>2
    <3>4. CASE y = a BY <3>2, <3>4, UnderParts
    <3>5. CASE y \in below(a)
      <4>1. a \in Dirs /\ y \in Under(anc, a) BY <3>5
      <4>2. a \in Dirs \ {Root} /\ Up[a] = x BY <1>9, <3>2, <4>1
      <4> QED BY <4>1, <4>2, UnderParts
    <3> QED BY <3>3, <3>4, <3>5
  <2>2. ASSUME NEW y \in Under(anc, x) PROVE \E j \in 1 .. L : y \in Range(parts[j])
    <3>1. PICK i \in Named(x) : y \in {i} \cup below(i)
      <4>1. CASE y \in Named(x) BY <4>1
      <4>2. CASE y \notin Named(x)
        <5>1. PICK c \in Dirs \ {Root} : Up[c] = x /\ y \in Under(anc, c) BY <4>2, UnderParts
        <5>2. c \in Named(x) BY <5>1, NamedOnce
        <5> QED BY <5>1, <5>2
      <4> QED BY <4>1, <4>2
    <3>2. PICK j \in shown : nr(j) = i BY <1>7
    <3>3. j \in 1 .. L /\ y \in Range(parts[j]) BY <1>10, <3>1, <3>2
    <3> QED BY <3>3
  <2> QED BY <2>1, <2>2
<1> HIDE DEF L, shown, below, nr
<1>15. /\ Under(anc, x) \subseteq Range(FlattenSeq(parts))
       /\ NoTears => /\ IsInjective(FlattenSeq(parts))
                     /\ Range(FlattenSeq(parts)) = Under(anc, x)
  <2>1. M \in Nat /\ parts \in [1 .. M -> Seq(Inode)] BY <1>4
  <2>2. \A y : y \in Range(FlattenSeq(parts)) <=> \E j \in 1 .. M : y \in Range(parts[j])
    BY ONLY <2>1, FlattenParts
  <2>3. \A j \in 1 .. L : j \in 1 .. M BY <1>2, <1>4
  <2>4. Under(anc, x) \subseteq Range(FlattenSeq(parts)) BY <1>14, <2>2, <2>3
  <2>5. ASSUME NoTears PROVE IsInjective(FlattenSeq(parts)) /\ Range(FlattenSeq(parts)) = Under(anc, x)
    <3>1. M = L BY <1>4, <2>5
    <3>2. \A j \in 1 .. M : IsInjective(parts[j]) BY <1>11, <2>5, <3>1
    <3>3. \A j, k \in 1 .. M : j # k => Range(parts[j]) \cap Range(parts[k]) = {} BY <1>13, <2>5, <3>1
    <3>4. IsInjective(FlattenSeq(parts)) BY ONLY <2>1, <3>2, <3>3, FlattenParts
    <3>5. Range(FlattenSeq(parts)) \subseteq Under(anc, x) BY <1>14, <2>2, <2>5, <3>1
    <3> QED BY <2>4, <3>4, <3>5
  <2> QED BY <2>4, <2>5
<1> QED BY <1>3, <1>15 DEF Right

\* testfs_ls of the root, recursive, shows every file and directory, for any
\* tree that commands, failed assertions and restarts can make, and as long as no
\* directory ends in a torn entry it ends and shows each exactly once: the depth
\* of the recursion is that of the tree, and two directories have nothing in
\* common below them.
THEOREM LsrStaysRight == Spec => []LsrListsEverything
<1>1. ASSUME DInv, TornElsewhere, BelowRoot PROVE LsrListsEverything
  <2>1. TreeInv /\ Typed BY <1>1 DEF DInv, TreeInv
  <2>2. PICK anc : Ancestry(Dirs, Up, anc) BY <1>1 DEF BelowRoot
  <2>3. PICK f \in [0 .. MaxInodes -> [Inode -> Seq(Inode)]] :
              /\ \A x \in Inode : f[0][x] = Listing(NoLines, x)
              /\ \A i \in 1 .. MaxInodes : \A x \in Inode : f[i][x] = Listing(f[i - 1], x)
              /\ \A d \in Inode : lsr(d) = f[MaxInodes][d]
    BY <1>1, <2>1, LsrSteps
  <2>4. MaxInodes \in Nat BY DirsAssumption
  <2>5. /\ \A d \in Dirs : Cardinality(anc[d]) \in 1 .. MaxInodes
        /\ \A d \in Dirs \ {Root} : Cardinality(anc[d]) = Cardinality(anc[Up[d]]) + 1
    BY <2>1, <2>2, ChainLength
  <2>6. \A x \in Dirs : x \in Inode BY DEF Dirs
  <2> DEFINE T == {i \in 0 .. MaxInodes :
                    \A x \in Dirs : MaxInodes <= i + Cardinality(anc[x]) => Right(anc, f[i][x], x)}
  <2>7. ASSUME NEW x \in Dirs, NEW g \in [Inode -> Seq(Inode)],
               \A c \in Dirs \ {Root} : Up[c] = x => Right(anc, g[c], c)
        PROVE  Right(anc, Listing(g, x), x)
    BY <1>1, <2>1, <2>2, <2>7, ListingRight
  <2>8. 0 \in T
    <3>1. ASSUME NEW x \in Dirs, MaxInodes <= 0 + Cardinality(anc[x]) PROVE Right(anc, f[0][x], x)
      <4>1. ASSUME NEW c \in Dirs \ {Root}, Up[c] = x PROVE FALSE
        <5>1. /\ Cardinality(anc[c]) = Cardinality(anc[x]) + 1
              /\ Cardinality(anc[c]) \in 1 .. MaxInodes /\ Cardinality(anc[x]) \in 1 .. MaxInodes
          BY <2>5, <4>1
        <5> QED BY <2>4, <3>1, <5>1
      <4>2. NoLines \in [Inode -> Seq(Inode)] BY DEF NoLines
      <4>3. Right(anc, Listing(NoLines, x), x) BY <2>7, <4>1, <4>2
      <4> QED BY <2>3, <2>6, <4>3
    <3> QED BY <2>4, <3>1
  <2>9. ASSUME NEW i \in 1 .. MaxInodes, i - 1 \in T PROVE i \in T
    <3>1. ASSUME NEW x \in Dirs, MaxInodes <= i + Cardinality(anc[x]) PROVE Right(anc, f[i][x], x)
      <4> DEFINE g == f[i - 1]
      <4>1. i - 1 \in 0 .. MaxInodes BY <2>4
      <4>2. g \in [Inode -> Seq(Inode)] BY <2>3, <4>1
      <4>3. ASSUME NEW c \in Dirs \ {Root}, Up[c] = x PROVE Right(anc, g[c], c)
        <5>1. Cardinality(anc[c]) = Cardinality(anc[x]) + 1 /\ Cardinality(anc[x]) \in 1 .. MaxInodes
          BY <2>5, <4>3
        <5>2. MaxInodes <= (i - 1) + Cardinality(anc[c]) BY <2>4, <3>1, <5>1
        <5> QED BY <2>9, <5>2
      <4>4. f[i][x] = Listing(g, x) BY <2>3, <2>6
      <4> HIDE DEF g
      <4> QED BY <2>7, <4>2, <4>3, <4>4
    <3> QED BY <2>4, <3>1
  <2> HIDE DEF T
  <2>10. \A i \in 0 .. MaxInodes : i \in T BY <2>4, <2>8, <2>9, UpTo
  <2>11. MaxInodes \in T BY <2>4, <2>10
  <2>12. Root \in Dirs BY <2>1 DEF TreeInv, RootOnTop
  <2>13. Right(anc, f[MaxInodes][Root], Root)
    <3>1. MaxInodes <= MaxInodes + Cardinality(anc[Root]) BY <2>4, <2>5, <2>12
    <3> QED BY <2>11, <2>12, <3>1 DEF T
  <2>14. Right(anc, lsr(Root), Root) BY <2>3, <2>6, <2>12, <2>13
  <2>15. Under(anc, Root) = Used \ {Root}
    <3>1. ASSUME NEW i \in Under(anc, Root) PROVE i \in Used /\ i # Root
      <4>1. PICK d \in Dirs : i \in Named(d) BY DEF Under
      <4> QED BY <2>1, <4>1, NamedOnce DEF Named, Used
    <3>2. ASSUME NEW i \in Used \ {Root} PROVE i \in Under(anc, Root)
      <4>1. PICK d \in Dirs : \E k \in Entries(d) : dents[d][k].nr = i
        BY <2>1, <3>2 DEF TreeInv, HasName, Used
      <4>2. i \in Named(d) BY <4>1 DEF Named, Used
      <4>3. Root \in anc[d] BY <2>2 DEF Ancestry
      <4> QED BY <4>2, <4>3 DEF Under, Used
    <3> QED BY <3>1, <3>2
  <2>16. ToSet(lsr(Root)) = Range(lsr(Root)) BY DEF ToSet, Range
  <2> QED BY <2>14, <2>15, <2>16 DEF LsrListsEverything, Right, NoTears
<1> QED BY <1>1, TornInvariant, DirsAreATree, PTL

=============================================================================
