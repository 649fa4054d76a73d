# Verification of the ECE344 operating-system labs

The repository holds three programs that keep interesting state, and a set of
warm-up exercises:

* `threads/`: a user-level thread package with preemption, locks and condition
  variables;
* `webserver/`: a multi-threaded web server with a request buffer and a file cache;
* `fs/`: testfs, a file system in a file, with a shell.

This directory models them in TLA+, checks the models with TLC on small
instances and proves the most important invariants with TLAPS for all instances.

## Inventory

### Threads (`threads/thread.c`, `threads/interrupt.c`)

*State*: the table of thread control blocks by identifier, the ready queue
(whose head is the running thread), the exit queue of threads whose memory is
still to be freed, one wait queue per thread (for `thread_wait`), wait queues of
clients, locks (`locked`, `thread`, a queue) and condition variables (a queue).

*Operations*: create, yield (to any thread, to itself, to a given one), exit,
kill, sleep, wakeup, wait, and the operations of locks and condition variables.
The timer interrupt calls `thread_yield(THREAD_ANY)`.

*Hard*: every operation masks the timer signal up to a context switch, and
continues at an unrelated time in the same function after it; a thread may be
killed in any state; identifiers and memory are reused; `thread_stub` runs with
interrupts enabled.

*Correct when*: a thread is in exactly one queue, table and memory agree, a
killed thread never runs again, no wakeup is lost, a join returns after the exit
of the thread it was for, nobody starves.

### Web server (`webserver/server.c`, `webserver/server_thread.c`, `webserver/request.c`)

*State*: a ring buffer with `in` and `out`, a lock, two condition variables,
`exiting`; the cache: a hash table of entries with use counts, an LRU list, the
size used.

*Operations*: the main thread accepts connections and adds them to the buffer,
workers take and serve them; to serve is to look the file up, read it if it is
missing, insert it, evicting others, and send it; `server_exit` stops the
workers and frees everything.

*Hard*: broadcasts only on the transitions empty/non-empty and full/non-full,
`exiting` written without the lock, workers started before the lock exists, a
request stored past the array, requests that never end, cache entries used
outside the lock.

*Correct when*: the buffer is a bounded FIFO queue that serves each connection
once, nobody waits for what is already there, the server terminates, cache list,
table, sizes and use counts agree, and nothing in use is evicted.

### Requests and clients (`webserver/request.c`, `common.c`, `client.c`, `client_simple.c`)

*State*: a connection with bytes in flight in both directions, the rio buffer of
each end, the file being sent, the length and checksum the client expects.

*Operations*: a client connects, sends a request, reads the answer line by line,
asserts length and checksum, and closes; a worker reads the request line and the
headers, stats, opens and reads the file, sends header and body, and closes.

*Hard*: reads and writes move any part of what is there; a file changes between
stat and read; an error of any system call ends the whole process; a client goes
away at any point; the header loop knows only one way to end.

*Correct when*: the bytes read are the bytes written, what a client accepts is a
whole file, GET requests that nothing disturbs succeed, workers and clients finish.

### testfs (`fs/`)

*State*: on disk a super block with counters, free maps of inodes and blocks,
inodes with direct, indirect and double indirect block numbers, data blocks; in
memory inodes with a reference count and a dirty flag; the current directory.

*Operations*: the commands create, mkdir, write, rm, cd, ls, lsr, pwd, stat, read, quit.

*Hard*: sequential, but every block allocation can fail in the middle of an
operation that has already changed blocks, inode and free map; the process can
die between two of the block writes of a command; a removed
directory entry is reused; asserts guard reference counts and dirty flags.

*Correct when*: every block in use belongs to exactly one place, a failed
operation loses no block, a file reads as what was written, directories form a
tree whose entries and inodes agree, and no assertion fails.

## Modules

| Module | Models | State |
| --- | --- | --- |
| `Threads` | thread package and timer | `rq`, `eq`, `waitq`, `wq` are the queues; `status`, `tid`, `pc`, `want` the fields and the saved position of each TCB; `threads`, `locked`, `owner` as in the code |
| `RequestQueue` | abstract: what the server promises about connections | a bounded queue, what each server has in hand, how often a connection was served |
| `WebServer` | main thread, workers, buffer, start and exit; implements `RequestQueue` | `in`, `out`, `requests`, `lock`, `emptyW` (waiting on `cv_empty`), `exiting`, a position per thread; `slack`, `early`, `overrun` for undefined behaviour |
| `FileCache` | the cache under `do_server_request` | `table`, `lru`, `csize`, the fields of entries, a position per worker |
| `Http` | `request.c`, the rio functions of `common.c`, `client.c` and `client_simple.c` over connections | `sock` (units in flight, the two ends), `cl`, `sv` (position, rio buffer and fields of each client and worker), `disk` |
| `Queues` | abstract: the queues of threads and the LRU list as sequences | `q`: the contents of every list |
| `LinkedQueues` | the linked lists of `thread.c` and of the cache in `server_thread.c`; implements `Queues` | `mem`: `next` of each node, `head`, `tail` and `size` of each list |
| `FileBlocks` | `read_write.c` with inodes, super block and bitmaps | `freemap`, `used`, `inodes`, `disk`, `dinode`, the write in progress |
| `FileCrash` | `FileBlocks` with the order of block writes and deaths of the process | the variables of `FileBlocks` as the process sees them, `dev` (the device), `pending` (the block writes still to be done), `named` |
| `Dirs` | `dir.c`, `file.c`, the shell, reference counts | `itype` (also of inode numbers that are lost), `dents`, `torn` (the entry at the end of a directory that was half written), `fblocks`, `cur_dir`, `dirty`, `count` |
| `MC*` | instances for TLC | symmetry sets, names |
| `QueueLemmas` | lemmas about sequences as queues and their concatenation, the least-number principle, functions defined by recursion on a number | |
| `ThreadsProofs`, `LinkedQueuesProofs`, `WebServerProofs`, `FileCacheProofs`, `HttpProofs`, `FileBlocksProofs`, `DirsProofs` | theorems about the module they are named after; `FileBlocksProofs` also those about `FileCrash` | |

Definitions keep the names of the functions they stand for (without the prefix
`testfs_`); one that is a part of a function (`resume`, `take_empty`,
`write_indirect`) says so in its comment. Operators whose comment begins with
`Mutant:` are deliberately wrong versions of the definition that follows; they
are used by no specification. Replacing the definition by the mutant makes TLC
report the property that `PROJECT.json` names, which shows that the property
depends on that code.

### How atomicity was chosen

* `Threads`: a call is one step up to its context switch (`mode = "switch"`), and
  what happens after `setcontext` is another (`resume`, `resume_killed`,
  `resume_new`). The loop of `lock_acquire` is a step per turn. Only client code
  and `thread_stub` can be interrupted, so `thread_stub` is split into its
  statements, down to the two halves of the loop of `clear_queue`.
* `WebServer`: a critical section is one step, except around reads of `exiting`,
  which is written without the lock. POSIX allows spurious wakeups; they are
  actions (marked external in the map).
* `FileCache`: the three critical sections of `cache->lock` are one step each;
  reading and sending the file are steps of their own.
* `Http`: a read, a write, a line taken from the rio buffer, and each of stat and
  open with read, is a step; every connection has a worker of its own.
* `LinkedQueues`: an operation of the package (with interrupts off) or of the
  cache (under its lock) is one step, made of the pointer assignments of the
  functions it calls, in their order.
* `FileBlocks`: one command at a time; a write is a step per logical block.
* `FileCrash`: the steps of `FileBlocks`, each followed by a step per block write
  (`device_write`), with `crash` possible in between. `write_blocks` calls fseek
  after fwrite, which hands the block to the operating system, so a death of the
  process loses no block that was written and keeps their order. (A failure of the
  machine would be another model.) A failed assertion is a death as well.
  After a death in `testfs_remove_inode` has left an inode that is free but not
  zeroed, the model goes on to the file that is created on it, its name, and the
  deaths from there (`stale`), but to no further command.
* `Dirs`: one step per command. Blocks are counted, not placed. testfs can be started
  again after quit and after a failed assertion, on what had been written by then.

`Threads` has two parameters for the environment: `Preemptive` (the client
registered the interrupt handler) and `DestroyBusy` (the client destroys a wait
queue in use). The runs set `DestroyBusy` to FALSE; the section on
other disagreements says what happens otherwise. A call
that fails an assertion of `thread.c` aborts the program and is not made;
failures that change nothing are stuttering steps.

Undefined behaviour is modelled by what it can lead to:
* `WebServer`: the workers run from `pthread_create` on. One that takes the lock
  before `server_init` has initialised it (`early_lock`) may pass although it is not
  the only one, may be kept for ever, or may end the process; initialising forgets who
  waits and who holds the lock. `server_init` allocates `max_requests` elements for
  the indices `0 .. max_requests`: a store to the last index (`Store`) is harmless if
  malloc has rounded the size up (`slack`), else it hits memory of others, what is
  read there later may be anything, and the process may crash (`overrun`).
* `Dirs`: a search that meets a torn entry compares a name whose end is not
  initialised. If it differs the search goes on; if not, the model ends (`"ub"`).
* `Threads`: a node freed twice ends the model.

History variables (`holder`, `served`, `accepted`, `written`, `kept`, `synced`, `recv`,
`disturbed`, `early`) are read only by properties and by the bounds; `overrun` also
says that the process may crash.

## Runs

Passing runs:

| Run | Instance | Shows |
| --- | --- | --- |
| `Threads_sched` | 3 TCBs, 3 identifiers, a client queue, preemption | `TableExact`, `OneQueueEach`, `StatusMatchesQueue`, `WaitersHaveTarget`, `KilledNeverRuns`, `SleptJoinMeansExited` for every sequence of calls and interrupts; `NoStarvation` under fairness (until the program ends, or meets the double free of `Threads_stub`) |
| `Threads_locks` | 3 TCBs, a lock, a condition variable, preemption | `FreeLockNoSleepers`, `CvSleepersHoldNoLock`, `OnlyHolderReleases` |
| `Server` | 2 workers, capacity 2, 4 connections | `WorkersWaitOnlyWhenEmpty` and `MainWaitsOnlyWhenFull` unless a worker used the lock before it was initialised; the refinement `ImplementsQueue` until that happens or a request is stored past the array; `EventuallyServed` under fairness, as long as a worker is left that no endless request holds |
| `FileCache` | 3 workers, 3 files, sizes 0 to 4, cache of 3 | `ListMatchesTable`, `SizeExact`, `UseCountExact`, `EvictsOldestFirst` |
| `Http` | a thread of client.c, another client, a file of two bytes that may shrink or vanish, an empty file, buffers of two units | `StreamExact`, `UndisturbedSucceeds`, `AcceptedIsWhole`; `WorkersReturn` and `ClientEnds` under fairness |
| `Lists` | 4 thread nodes, 2 wait queues, 3 cache entries | `ListsWellFormed`, the refinement `ImplementsSequences` |
| `Files` | 2 files, 4 blocks of 2 numbers, 1 direct block | `NothingBeyondSize`, `EveryBlockOnce`, `HoldsWhatWasWritten` (up to `i_size`, as testfs_read_data reads), `FreeIsZero` |
| `Files_crash` | 2 files, 3 blocks, 2 deaths | `FilesKeptApart`, `FinishedWritesSurvive`, `CountsDrift`, until a file is created on an inode that a death has left with its blocks (`stale`) |
| `Dirs_tree` | 4 inodes, 3 names of 2 lengths, 6 blocks, 1 direct and 1 indirect entry | `NamesUnique`, `EntriesMatchInodes`, `PwdLeadsBack`, `LsrListsEverything`, `CurDirInUse` |

`TypeOK` is an invariant of the runs of `Threads` and `WebServer`. In `FileCache` and
`FileBlocks` it is a part of the invariant that is proved; in the other modules it
documents the types of the variables.

Runs that end in a violation; each states what a comment, document or assertion
of the repository says, and shows that the code does not keep to it. `findings`
in `PROJECT.json` quotes both.

| Run | The code does |
| --- | --- |
| `Threads_stub` | `thread_stub` clears the exit queue with interrupts enabled: a node is freed twice |
| `Server_exit` | `server_exit` may hang: the wakeup of a worker about to wait is lost |
| `Dirs_torn` | a failed create leaves a torn entry; the next one fails an assertion |

### Other disagreements the models show

These have no run of their own; the models contain the steps that lead there. The
first three are stated at the end of the modules: added to the configuration that is
named, the property makes TLC report a behaviour that violates it.

* `server_init` (server_thread.c:596) creates the workers before it initialises the
  mutex, so that two of them can be in the critical section that take_request claims
  (server_thread.c:542) (`MutualExclusion`, `Server.cfg`).
* A write that fails when it has only written blocks that existed before
  (read_write.c:222) enlarges `i_size` in memory without `I_FLAGS_DIRTY`, and the growth
  is lost; fs/tests/README:23 says that the file size increases
  (`PartialWriteGrows`, `Files.cfg`).
* A process that dies in `testfs_remove_inode` between inode.c:228 and 229 leaves a
  free inode number with its old block numbers. The next create with this number names
  a file that refers to free blocks; its removal would fail the assertion of
  bitmap.c:123 (`FreesMarkedBlocks`, `Files_crash.cfg`). This is the one place where the
  order of block writes damages files.
* `thread_wait` (thread.c:545) ignores the result of `thread_sleep`. When every
  other thread is blocked, it returns at once (`wait_alone`) although the thread
  lives; thread.h:115 says that it suspends the caller until the thread exits.
* `request_read_headers` (request.c:64) never ends when the client closes the
  connection before the empty line. `WorkersReturn` excludes those connections
  (`Cut`), and `EventuallyServed` the servers of which they hold every worker
  (`Endless`).
* A method other than GET is answered before the headers are read
  (request.c:122-127). Closing a connection with unread data resets it, so that the
  client's read may fail and end it, although nothing was disturbed;
  `UndisturbedSucceeds` speaks of the server, of `client.c`, which only sends GET,
  and of the GETs of other clients.
* A line of exactly `maxlen` bytes (common.c:163) has its terminator written one
  past the buffer. The model cuts the line there and has no terminators, so no
  property says that this buffer is not overrun.
* After a death between the write of an indirect block and that of the inode
  (read_write.c:161), `block_count` is too small, and rm of the file fails the
  assertion at inode.c:224; blocks and the inode number are lost, but no other file
  is harmed.
* `wait_queue_destroy` (thread.c:455) frees the threads that sleep in the queue,
  where thread.h:92 asks for a check that it is empty. With `DestroyBusy = TRUE`
  `Threads_sched` reports `TableExact`.
* `lock_release` (thread.c:608) compares identifiers. When the holder of a lock has
  exited, the next thread with its identifier can release the lock
  (`holder[l] = Gone`), which is why `OnlyHolderReleases` speaks of live holders.
* `server_init` (server_thread.c:587) allocates `max_requests` elements for indices
  `0 .. max_requests`; see `overrun` above.
* After a create has left a torn entry on the device, a number that it names can be
  used again: `lsr` then prints a line too many, and a directory perhaps twice. A create
  that fails the assertion of `Dirs_torn` leaves an inode number that is marked and
  has no name, and for mkdir a block (`"lost"`).
* `server_exit` (server_thread.c:674) frees pointers that were never set when the
  server runs without workers or buffer: `free_server` may then end in `"crash"`.
* `ls` of a file (dir.c:311) keeps a reference (`ls_file`), and quit ends in the
  failed assertion of inode.c:43 (`"hash_empty"`).
* A create that fails after a pointer block was allocated (dir.c:228) leaves
  `cur_dir` dirty, and the next cd, stat of `.` or quit ends in the failed assertion
  of inode.c:166 (`"put_clean"`).

### Bounds

* Three threads suffice for a runner, a sleeper or waiter, and a third one that
  kills, wakes, takes the identifier or the lock in between; with as many
  identifiers as TCBs the table can be full, and memory can be reused before and
  after the identifier is.
* Four connections on two slots (three indices) wrap the ring buffer, pass the last
  index and fill it while the main thread waits; two workers make one that takes and
  one that waits, serves, is stuck, or was in the critical section first.
* The cache of three units with files of up to four has files that do not fit at
  all, fit only after eviction, and fit only if nothing is in use; size 0 is the
  empty file. Sizes may change between two reads of a file.
* A block of two numbers and one direct block give a file one direct, two
  indirect and four double indirect blocks, so four device blocks run out
  at every depth, with zero, one or two pointer blocks missing. Two units per block
  make partial blocks.
* `Files_crash`: three blocks hold one double indirect path, or an indirect block
  with both its entries, so an existing pointer block can grow; two deaths let a
  command work on, and die on, what an earlier death has left. The writes begin at
  units 1, 3 and 13: from the direct into the indirect range, inside it, and past
  the largest file. The free map covers four blocks: the count may lag it by
  one block per death, so that with one death a fourth block is used, and with two the
  map is full before the count reaches its limit.
* `Http`: lines and bodies of one and two units with buffers of two make every cut:
  a line that ends with the buffer, one that crosses it, a body that begins in the
  buffer of the header, a full socket. One change of a file is enough to fall
  between stat and read.
* `Lists`: four nodes and two wait queues make lists of length zero, one, two and
  more, where the pointer code has its cases; three cache entries make head,
  middle and tail.
* A block of seven units holds the entries `.` and `..`, of two and three units, and
  one of two units, so that a directory in a directory takes no further block; an entry
  of seven units straddles the boundary after `..`, and does not after the short one.
  With one direct and one indirect entry six blocks lead a directory to its double
  indirect block, and make a full device at every depth. `MaxRefs` bounds the
  references that `ls` leaks.

### Symmetry and deadlock

TCB addresses, workers, file names, cache entries and names of equal length are
only compared, so permuting them is sound; the runs with liveness properties
(`Threads_sched`, `Server`, `Server_exit`, `Http`) use no symmetry. Programs that have
ended, or can go no further, stutter explicitly (`Terminated`), and a failed assertion of `FileBlocks` has
no next state, so it would be reported. Deadlock is not checked where the system
may stop: `Http` (all requests are done), `Lists` (all threads have exited) and
`Files_crash` (a failed assertion when no death is left, or `stale`).

### Fairness

* `Threads!FairSpec`: weak fairness of kernel code, which nothing else can
  interrupt, and strong fairness of the timer: every interrupt re-arms it, so
  code that can be interrupted again and again is interrupted eventually. The
  client's own calls are not fair.
* `WebServer!FairSpec`: every thread that can run does (the operating system's
  scheduler); strong fairness for the main thread's critical sections, since a
  mutex that is released again and again is eventually obtained. The arrival of
  connections, the exit event and spurious wakeups are not fair. Requests need not
  end: a thread that serves one goes on in the end, or is stuck in it for ever.

* `Http!Spec`: every client thread and every worker that can take a step does;
  read and write return when there is data, room or an end. Files need not change
  and clients need not be killed.

## Proofs

All constants are arbitrary up to the named assumptions (`ConstantsAssumption`,
`LinkedQueuesAssumption`, `WebServerAssumption`, `FileCacheAssumption`,
`HttpAssumption`, `FileBlocksAssumption`, `FileCrashAssumption`, `DirsAssumption`),
which TLC also evaluates on every run. The theorems are about `Spec`, those about `FileCrash` about `CrashSpec`; the fairness in
`Http!Spec` is not used.

`QueueLemmas` has what the proofs about lists have in common: what `Append`,
`Tail`, `\o`, `RemoveAt` and moving an element do to the range and to the
injectivity of a sequence, and that a nonempty set of numbers has a least
one. The provers cannot instantiate an induction theorem with a formula, but
they can take the least position at which something would fail; all arguments
about positions (how far a list has been searched, the sum of its sizes, the
order of evictions) are made in this way. From it follow the two lemmas for
loops, which the models write as recursive functions: a function that gives
the value after every turn exists (`StepsExist`), so the `CHOOSE` behind the
definition is that function and its equation can be used, and what one turn
preserves holds after every turn (`UpTo`). With them the walks of pwd and lsr
and the loops over linked lists, whose lengths are not bounded, are within
reach. So is `FlattenSeq`, with which the models write nested loops: `FlattenParts`
says which elements the concatenation has, and how often.

### Threads

`ThreadsProofs`
* `TypeCorrect`: `TypeOK` is inductive. Beyond the types it says that the ready
  queue is not empty while the program runs, which is what makes `Cur` the running
  thread.
* `NoLockWakeupLost`: `FreeLockNoSleepers` is inductive relative to `TypeOK`. A
  thread joins the queue of a lock only in `acquire_sleep`, which requires the
  lock to be locked; the lock is freed only in `lock_release` and `cv_wait`, which
  empty its queue; `cv_wait` appends to a queue of the condition variable, which
  is a different one by `ConstantsAssumption`.

Its second part proves `QueuesPartitionThreads`, `IdentifiersExact`,
`StatusTellsQueue`, `KilledIsStopped`, `JoinersHaveTarget`, `CvWaitReleases` and the
action properties `JoinMeansExited` and `HolderReleases`, for any number of
threads, identifiers, locks and condition variables, with preemption or without.
The hypothesis `~DestroyBusy` is what thread.h:92 asks of the client; without it
the first two are false (see above). The properties need each other, so `IInv` is
one invariant of all of them, with
* `RunningStatus` (a thread that is past the first line of `thread_stub` is
  `RUNNING`, so that a switch finds the status it expects),
* `FreedOnce` (a node of the exit queue is freed and still queued only between the
  two halves of the loop that `thread_stub` runs with interrupts enabled, and only one
  thread is there; otherwise the memory in the exit queue is not freed),
* `JoinDone` (a thread that was woken in `thread_wait` waited for one that is no
  longer alive; `SleptJoinMeansExited` is about steps and follows from it),
* `HolderLives` (a lock with a known holder is locked, the holder is alive, and
  `owner` is its identifier) and `QueuesMade` (nobody sleeps in a queue that does not
  exist, or acquires a lock that does not).

### Linked lists

`LinkedQueuesProofs`: `WellFormed` and `Implements`, for any number of nodes and
wait queues. `Holds(m, q, loose)` says that in the memory `m` every list runs
through the nodes of the sequence `q` has for it, that its size and tail agree,
and that a node is in one list, or is *loose*, or is free. A loose node is
allocated and in no list, as between `pop_queue` and `append_node_to_queue`; with it each
function of the code has a lemma of its own about `m` and `q`, and the operations
of the package and the cache are put together from these. `tail` counts only in
a list that is not empty, because `pop_queue` leaves it behind. The invariant is `Holds`
with no loose nodes and the contents that `Walk` finds, so one has to show as well that
`Walk` ends and gives exactly the `q` of `Holds`. The two loops are followed turn by
turn: `WakeAll` has moved the first `k` nodes, in order, and `cache_evict` stands
between the entries in use it has kept (`prev` is the last of them) and those it has
not seen. Since the contents after a call are a function of those before it, the
refinement of `Queues` is then read off.

### Web server

`WebServerProofs`
* `TypeCorrect`: the indices stay in `0 .. MaxRequests`, whatever undefined behaviour
  has done before. (The last of them is past the array.)
* `NoWorkerWakeupLost`, `NoMainWakeupLost`: no wakeup is lost unless a worker has
  used the lock before it was initialised (`early`). Neither is inductive alone.
  `IInv`, which holds until `early`, adds `StartInv` (before `server_init` is done no
  worker has come past the lock, so that initialising it is harmless), `Exclusion` (who is
  in the critical section of `take_request` holds the lock) and `AboutToWait` (a worker
  that has decided to wait has seen an empty buffer, and since it holds the lock the
  buffer is still empty).
* `RingBufferIsQueue`: every step of `WebServer` is a step of `RequestQueue` or
  changes nothing in it, until `early` or `overrun`, so connections leave in order,
  none is lost or served twice, and no more than `max_requests` wait. The mapping
  reads the queue off the ring from `out` to `in`; `RInv` adds that until the exit
  every slot in between holds a connection (`RingFilled`), that the main thread
  and the workers have one when they add or serve it (`Accepted`, `Holding`), and
  where threads are when they wait and when the server exits (`Asleep`, `ExitPc`).
  A store past the array is a step of the queue as well when malloc has left room
  there.

`FileCacheProofs`: `CacheConsistent`, `CacheSizeKept`, `UsedEntriesStay` and the
action property `EvictionOrder`, for any number of workers and
any files and sizes. `CInv` is the three invariants with the types and `Sending` (only a
worker that sends has an entry). `cache_evict` removes the idle entries at
the first positions up to the least one at which enough is free, and the sum of
the sizes is followed from position to position.

`HttpProofs`: `Exact`, `Succeeds` and `Whole`, for any number of clients and
connections, any files and sizes of the buffers, and however reads and writes cut
the streams. `HInv` is stated for the values of one connection, so a step of another
one needs no argument. Its core is `StreamAt`: the line, the rio buffer, the
socket and what is still to be written are segments of one message, one after the
other, from the unit the reader has come to; a read, a write or a line taken only
moves a boundary. `AnswerAt` adds what the client has parsed by then
(length, checksum, bytes counted), `RequestAt` that a request is read to its
end before it is answered, and `EarlyEnd` the connection of a server that died
before it wrote anything. `Quiet` is what holds in addition while
nothing was disturbed: the sizes that stat found are those of the files, and no end
of a connection whose request is a GET is closed too early, which is why no system
call on it fails.

### testfs

`FileBlocksProofs`: `NoBlockLost`, `FilesHoldTheirData`, `AssertionsNeverFail`,
`NothingLeftBehind`, for any block size, any number of direct
blocks, any device and any number of inodes. A *place* is where a block
number is stored (a direct entry, the two pointers of the inode, an entry of a pointer
block), and `At(f, p)` is what file `f` has there. `FInv` says that
* a block number in a place is that of a block in use (`Rooted`), no two places of
  any files have the same one (`Single`), and every block in use is at one (`Covered`);
  `EveryBlockOnce` follows, but only these can be carried through a step: since
  blocks are not shared, writing one changes what is reached through that one only;
* no place past the end of the file is used, and the last block is not a hole
  (`Within`), which is what the assertions of `testfs_free_blocks` need, also with
  the size that a write in progress has not stored yet;
* what a write that succeeded, or failed after it had allocated a block, has put in the
  file is below `i_size` (`KeptReadable`), so that it can be read; of other failed writes
  only what is below the old size can;
* the inode in memory is the one on disk unless it is dirty (`Writing`), the
  counters are the numbers of blocks (`Counted`), and what is free is zero.

Every way to write a block (existing, direct, indirect with or without its
pointer block, double indirect with none, one or both) is shown to be a `WriteStep`:
new blocks at new places, one changed data block. Only `WriteStep` is shown to keep
the invariant. It is stated for a set of files (`Base(F)`), of which no more
is asked than that their own places are in order: all inodes for `FInv`, the files with
a name for the invariant below. The roll back of a write without space changes
nothing because what it frees was free and zero.

#### After a death of the process

The second part of `FileBlocksProofs`: `FilesStayApart`, `WritesSurvive`,
`DriftIsBounded` (that `FilesKeptApart`, `FinishedWritesSurvive` and `CountsDrift` hold),
for any number of deaths, at any block write of any command, on any device, until a file
is created on an inode that a death has left free but not zeroed (`stale`); they
do not hold from there (`FreesMarkedBlocks`).

`FInv` cannot hold here. A device on which a process died has blocks in use at no
place, inodes without a name that keep block numbers of others, and counts that
lag; the next process starts from it. `CInv` keeps what is left:
* of what the process sees (`ViewOK`): the blocks of the files *with a name* are marked,
  each is at one place, they hold exactly what was written, free blocks are
  zero, and the count of used blocks differs from the number of the marked ones by at
  most the number of deaths, and is never below what the named files have;
* of the write in progress (`WritingNamed`): the inode in memory only adds to
  the one on the device, so that losing it loses no earlier write;
* of the device (`DeviceOK`): *every* device from the present one to the last of the
  pending block writes is `Good`, that is, one on which the process may die, and
  the last is what the process sees. `Runs` names this chain; `device_write` takes its
  first link away, `crash` stops at it, and every command has to show a new one.

The chains are built from a few steps, one for each order of block writes in the
code: `AllocRun` (mark a block, then count it), `PutRun` and `PathRun` (the pointer blocks
from the bottom up, then the data), `SyncRun` (the inode), `FreeRun` (zero a block, mark it
free, then count it), from which `RollBack` and `RemoveRun` (the name first) are made.
Two lemmas say why the devices on the way are good. `Between`: while a
write adds blocks, the device agrees with the old or the new disk at every number, and
has zeros where it does not agree with the new one, so no file reads anything
it did not write. `Unharmed`: to zero and free blocks that no named file has changes
no tree of a named file.

#### Directories

`DirsProofs`: `NamesStayUnique`, `TreeIsConsistent`, `CurDirStaysInUse`, `PwdStaysRight`
and `LsrStaysRight`, for any number of blocks, entries and inodes, and any names whose
entry is not longer than a block (nothing in the code checks that). The bound on
`MaxFsBlocks` in `DirsAssumption`, the blocks that one file can have, holds of every
device that mktestfs makes: at most 2^20 blocks (mktestfs.c:30), where a file can have
over four million. `TreeInv` splits
`EntriesMatchInodes` into what create, mkdir and rm change separately: `.` and
`..` are the first two entries (`DotsFirst`), names differ, entries lead to
inodes in use (`LeadSomewhere`), every inode that is not lost has a name (`HasName`), only one
(`OneName`), and `..` leads to where the name is (`ParentNames`, `RootOnTop`).

All of this also holds of a ring of directories beside the root, where pwd would not
end and which lsr would not reach. That there is none is `BelowRoot`: every directory
has a set of ancestors, itself and those of its parent, to which it does not belong
itself (`Ancestry`). It is inductive because mkdir
adds a leaf and rm removes an empty directory. pwd is then right by the
number of ancestors: the path it finds for a directory is that of the parent with one
more name, and `resolve` follows it down again. For lsr the measure is the
depth that is left below the directory; that nothing is printed twice
rests on `UnderApart`: what lies under two entries of a directory is disjoint. That nothing is
printed twice is said of trees without a torn entry, which prints a line more; that
everything is printed, of all.

### Only model-checked

* The liveness properties (`NoStarvation`, `EventuallyServed`, `WorkersReturn`,
  `ClientEnds`): they need fairness, which is out of this prover's reach.
* The properties that fail, which only have a counterexample.

Every invariant, action property and refinement of a passing run is stated by a
theorem.

## Limits

* `Dirs` and `FileBlocks` are separate: `Dirs` counts blocks, and takes from
  `FileBlocks` that a block is lost in no failure. The header of an entry is one unit:
  one that is cut in two itself, by a block boundary, is not modelled.
* After undefined behaviour in `Dirs` (`"ub"`) nothing is modelled, and in `FileCrash` no
  command after one that took a stale inode.
* Freed file data and stacks are not modelled; messages are units with a tag.

### Not modelled

* `webserver/fileset.c`, the random choice of files and the argument parsing of the
  programs: generators of test data and their options. Opening sockets is taken
  from the operating system.
* `fs/list.h` (the kernel's list macros), the number parsers of `fs/common.c`, and
  the memory that common.c:163 would overwrite.
* `cmd_read` with numbers near the width of `off_t` (file.c:66): offsets are far
  below it here.
* The test programs of the thread package: the model lets the client make any call
  instead.
* The warm-up programs: independent exercises without shared or lasting state.
* A failure of the machine under testfs, with block writes lost or reordered by the
  operating system, which the code does nothing about.

## Plan

Done: the modules above, in the order threads, server, cache, blocks,
directories, requests, lists, crashes; the theorems about all of them.

Next, extending the model:
1. `Threads`: kill of a thread in `cv_wait` with a predicate (a signal consumed by
   a killed thread).
2. A composition of `WebServer` and `FileCache`: the exit of the server with
   requests in the cache, and connections dropped without being closed.
3. An abstract file (a function from offsets to data, with holes) that
   `FileBlocks` implements, and an abstract tree that `Dirs` implements.
