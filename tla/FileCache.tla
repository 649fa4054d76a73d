----------------------------- MODULE FileCache -----------------------------
(***************************************************************************)
(* The file cache of the web server (webserver/server_thread.c), as the    *)
(* workers use it in do_server_request.                                    *)
(*                                                                         *)
(* cache_lookup, cache_insert and the decrement of in_use run under        *)
(* cache->lock and are one step each; reading and sending the file happen  *)
(* between them, without the lock.  The hash table is the set of entries   *)
(* it holds: which chain an entry is in makes no difference to what is     *)
(* found.  A member of Entry is the address of a CacheEntry.               *)
(***************************************************************************)
EXTENDS Integers, SequencesExt

CONSTANTS
    Worker,     \* the threads that serve requests
    File,       \* file names
    Sizes,      \* sizes a file may have when it is read
    Entry,      \* addresses malloc can return for a CacheEntry
    MaxCache,   \* max_cache_size
    NULL

ASSUME FileCacheAssumption ==
    /\ IsFiniteSet(Worker)
    /\ Sizes \subseteq Nat
    /\ MaxCache \in Nat \ {0}
    /\ NULL \notin Entry /\ NULL \notin File

VARIABLES
    table,      \* the entries in the hash table
    lru,        \* cache->LRU, least recently used first
    csize,      \* cache->size
    file, size, \* of an entry: data->file_name and data->file_size
    in_use,     \* of an entry
    pc,         \* of a worker: where it is in do_server_request
    name,       \* of a worker: the file asked for
    bytes,      \* of a worker: data->file_size, once the file is read
    value       \* of a worker: cache_value

entryVars == <<file, size, in_use>>
cacheVars == <<table, lru, csize, entryVars>>
workerVars == <<pc, name, bytes, value>>
vars == <<cacheVars, workerVars>>

TypeOK ==
    /\ table \in SUBSET Entry
    /\ lru \in Seq(Entry)
    /\ csize \in 0 .. MaxCache
    /\ file \in [Entry -> File \cup {NULL}]
    /\ size \in [Entry -> Sizes \cup {0}]
    /\ in_use \in [Entry -> Int]
    /\ pc \in [Worker -> {"idle", "read", "insert", "send"}]
    /\ name \in [Worker -> File \cup {NULL}]
    /\ bytes \in [Worker -> Sizes \cup {0}]
    /\ value \in [Worker -> Entry \cup {NULL}]

\* server_init: an empty cache.
Init ==
    /\ table = {} /\ lru = <<>> /\ csize = 0
    /\ file = [e \in Entry |-> NULL]
    /\ size = [e \in Entry |-> 0]
    /\ in_use = [e \in Entry |-> 0]
    /\ pc = [w \in Worker |-> "idle"]
    /\ name = [w \in Worker |-> NULL]
    /\ bytes = [w \in Worker |-> 0]
    /\ value = [w \in Worker |-> NULL]

\* The list without the entries of S, in the same order: what stays of its
\* first i nodes, and of all of them.
Kept(q, S) ==
    LET kept[i \in 0 .. Len(q)] ==
          IF i = 0 THEN <<>>
          ELSE IF q[i] \in S THEN kept[i - 1] ELSE Append(kept[i - 1], q[i])
    IN  kept

Without(q, S) == Kept(q, S)[Len(q)]

\* move_node_to_end
move_node_to_end(q, e) == Append(Without(q, {e}), e)

\* What the first i entries of a list take together, by their sizes sz, and all.
SizeUpTo(sz, q) ==
    LET sum[i \in 0 .. Len(q)] == IF i = 0 THEN 0 ELSE sum[i - 1] + sz[q[i]]
    IN  sum

TotalSize(q) == SizeUpTo(size, q)[Len(q)]

-----------------------------------------------------------------------------
(* do_server_request *)

\* cache_lookup, a hit: count the user, make the entry the most recent.
lookup_hit(w, f) ==
    /\ pc[w] = "idle"
    /\ \E e \in table :
        /\ file[e] = f
        /\ in_use' = [in_use EXCEPT ![e] = @ + 1]
        /\ lru' = move_node_to_end(lru, e)
        /\ value' = [value EXCEPT ![w] = e]
    /\ pc' = [pc EXCEPT ![w] = "send"]
    /\ name' = [name EXCEPT ![w] = f]
    /\ UNCHANGED <<table, csize, file, size, bytes>>

\* cache_lookup, a miss: the file has to be read.
lookup_miss(w, f) ==
    /\ pc[w] = "idle"
    /\ \A e \in table : file[e] # f
    /\ pc' = [pc EXCEPT ![w] = "read"]
    /\ name' = [name EXCEPT ![w] = f]
    /\ UNCHANGED <<cacheVars, bytes, value>>

Forget(w) ==
    /\ pc' = [pc EXCEPT ![w] = "idle"]
    /\ name' = [name EXCEPT ![w] = NULL]
    /\ bytes' = [bytes EXCEPT ![w] = 0]
    /\ value' = [value EXCEPT ![w] = NULL]

\* request_readfile: the size is the one the file has now; it may have changed
\* since another worker read it.
request_readfile(w, n) ==
    /\ pc[w] = "read"
    /\ bytes' = [bytes EXCEPT ![w] = n]
    /\ pc' = [pc EXCEPT ![w] = "insert"]
    /\ UNCHANGED <<cacheVars, name, value>>

\* request_readfile fails: goto out.
readfile_fails(w) ==
    /\ pc[w] = "read"
    /\ Forget(w)
    /\ UNCHANGED cacheVars

\* Mutant: entries in use are evicted, too.
cache_evict_used(amount) ==
    LET Enough(k) == TotalSize(SubSeq(lru, 1, k)) >= amount
    IN  {lru[i] : i \in {j \in 1 .. Len(lru) : \A k \in 1 .. j - 1 : ~Enough(k)}}

\* Mutant: the list is walked from its most recent end.
cache_evict_recent(amount) ==
    LET idle == Reverse(Without(lru, {e \in Entry : in_use[e] > 0}))
        Enough(k) == TotalSize(SubSeq(idle, 1, k)) >= amount
    IN  {idle[i] : i \in {j \in 1 .. Len(idle) : \A k \in 1 .. j - 1 : ~Enough(k)}}

\* cache_evict: walk the list from its least recent end, pass over the entries
\* in use, evict the others until amount is reached.
cache_evict(amount) ==
    LET idle == Without(lru, {e \in Entry : in_use[e] > 0})
        Enough(k) == TotalSize(SubSeq(idle, 1, k)) >= amount
    IN  {idle[i] : i \in {j \in 1 .. Len(idle) : \A k \in 1 .. j - 1 : ~Enough(k)}}

\* add_to_LRU and the new entry of the table, once the entries of S are gone.
insert_entry(w, S, left) ==
    \E e \in Entry \ (table \ S) :
        /\ table' = (table \ S) \cup {e}
        /\ lru' = Append(Without(lru, S), e)
        /\ csize' = left + bytes[w]
        /\ file' = [f \in Entry |-> IF f = e THEN name[w] ELSE IF f \in S THEN NULL ELSE file[f]]
        /\ size' = [f \in Entry |-> IF f = e THEN bytes[w] ELSE IF f \in S THEN 0 ELSE size[f]]
        /\ in_use' = [in_use EXCEPT ![e] = 0]

\* Mutant: the size of the evicted files is not subtracted.
drop_entries_unsized(S, left) ==
    /\ table' = table \ S
    /\ lru' = Without(lru, S)
    /\ file' = [f \in Entry |-> IF f \in S THEN NULL ELSE file[f]]
    /\ size' = [f \in Entry |-> IF f \in S THEN 0 ELSE size[f]]
    /\ UNCHANGED <<csize, in_use>>

\* Evictions stay done when they did not make enough room.
drop_entries(S, left) ==
    /\ table' = table \ S
    /\ lru' = Without(lru, S)
    /\ csize' = left
    /\ file' = [f \in Entry |-> IF f \in S THEN NULL ELSE file[f]]
    /\ size' = [f \in Entry |-> IF f \in S THEN 0 ELSE size[f]]
    /\ UNCHANGED in_use

\* Mutant: the cache is not searched again after the file has been read.
cache_insert_twice(w) ==
    LET S    == IF csize + bytes[w] > MaxCache
                  THEN cache_evict(bytes[w] - (MaxCache - csize)) ELSE {}
        left == csize - TotalSize(Without(lru, Entry \ S))
    IN  /\ pc[w] = "insert"
        /\ pc' = [pc EXCEPT ![w] = "send"]
        /\ IF bytes[w] > MaxCache THEN UNCHANGED cacheVars
           ELSE IF left + bytes[w] > MaxCache THEN drop_entries(S, left)
                                              ELSE insert_entry(w, S, left)
        /\ UNCHANGED <<name, bytes, value>>

\* cache_insert: not if the file is there already, nor if it is too large; evict
\* what is missing; insert if there is room then.
cache_insert(w) ==
    LET S    == IF csize + bytes[w] > MaxCache
                  THEN cache_evict(bytes[w] - (MaxCache - csize)) ELSE {}
        left == csize - TotalSize(Without(lru, Entry \ S))
    IN  /\ pc[w] = "insert"
        /\ pc' = [pc EXCEPT ![w] = "send"]
        /\ IF (\E e \in table : file[e] = name[w]) \/ bytes[w] > MaxCache
             THEN UNCHANGED cacheVars
             ELSE IF left + bytes[w] > MaxCache THEN drop_entries(S, left)
                                                ELSE insert_entry(w, S, left)
        /\ UNCHANGED <<name, bytes, value>>

\* request_sendfile, and then the entry is no longer used.
finish_request(w) ==
    /\ pc[w] = "send"
    /\ in_use' = IF value[w] = NULL THEN in_use ELSE [in_use EXCEPT ![value[w]] = @ - 1]
    /\ Forget(w)
    /\ UNCHANGED <<table, lru, csize, file, size>>

Next ==
    \E w \in Worker :
        \/ \E f \in File : lookup_hit(w, f) \/ lookup_miss(w, f)
        \/ \E n \in Sizes : request_readfile(w, n)
        \/ readfile_fails(w) \/ cache_insert(w) \/ finish_request(w)

Spec == Init /\ [][Next]_vars

-----------------------------------------------------------------------------
(* Properties *)

\* The list and the table hold the same entries, each once, and no file is
\* cached twice although two workers may read it at the same time.
ListMatchesTable ==
    /\ Range(lru) = table /\ IsInjective(lru)
    /\ \A d, e \in table : file[d] = file[e] => d = e

\* cache->size is what the cached files take, and never more than
\* max_cache_size, whatever was evicted or could not be.
SizeExact == csize = TotalSize(lru) /\ csize <= MaxCache

\* in_use counts the workers that send from an entry, and such an entry is
\* still in the cache: cache_evict never frees what a worker will decrement.
UseCountExact ==
    /\ \A w \in Worker : value[w] # NULL => value[w] \in table
    /\ \A e \in table : in_use[e] = Cardinality({w \in Worker : value[w] = e})

\* The positions in lru of the entries a step evicts.  Their addresses may be in
\* use again after the step, but not for the same files.
Evicted == {i \in DOMAIN lru : \A e \in table' : file'[e] # file[lru[i]]}

EvictsInOrder ==
    Evicted # {} =>
        /\ \A i \in Evicted, j \in DOMAIN lru \ Evicted : in_use[lru[j]] = 0 => i < j
        /\ LET spared == {lru[i] : i \in Evicted \ {Max(Evicted)}} IN
           \E w \in Worker : /\ pc[w] = "insert" /\ pc'[w] = "send"
                             /\ TotalSize(Without(lru, spared)) + bytes[w] > MaxCache

\* Evictions take the least recently used of the entries not in use, and no
\* more of them than needed: without the last one, the file would not fit.
EvictsOldestFirst == [][EvictsInOrder]_vars
=============================================================================
