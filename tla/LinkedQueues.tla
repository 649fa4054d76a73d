----------------------------- MODULE LinkedQueues -----------------------------
(***************************************************************************)
(* The singly linked lists of the thread package (ready, exit and wait     *)
(* queues of threads/thread.c) and of the file cache (the LRU list of      *)
(* webserver/server_thread.c), pointer by pointer: head, tail, size and    *)
(* the next pointers of the nodes.  Both files have the same list.         *)
(***************************************************************************)
EXTENDS Integers, Sequences, FiniteSets

CONSTANTS
    ThreadNodes, LruNodes, WaitQueues,
    NULL,
    Freed          \* the next pointer of a node that is not allocated

Node == ThreadNodes \cup LruNodes
Lists == {"rq", "eq", "lru"} \cup WaitQueues

ASSUME LinkedQueuesAssumption ==
    /\ IsFiniteSet(Node) /\ ThreadNodes \cap LruNodes = {}
    /\ WaitQueues \cap {"rq", "eq", "lru"} = {}
    /\ NULL # Freed /\ {NULL, Freed} \cap Node = {}

VARIABLES
    mem,     \* the memory: next of each node; head, tail and size of each list
    ended    \* the last thread has exited

vars == <<mem, ended>>

\* wait_queue_create, thread_init and cache_init: lists without nodes.
Init ==
    /\ mem = [next |-> [n \in Node |-> Freed], head |-> [l \in Lists |-> NULL],
              tail |-> [l \in Lists |-> NULL], size |-> [l \in Lists |-> 0]]
    /\ ended = FALSE

-----------------------------------------------------------------------------
(* The operations: each takes a memory and gives the next one. *)

\* append_node_to_queue
append_node_to_queue(m, l, n) ==
    IF m.head[l] = NULL
    THEN [m EXCEPT !.head[l] = n, !.tail[l] = n, !.size[l] = @ + 1]
    ELSE [m EXCEPT !.next[m.tail[l]] = n, !.tail[l] = n, !.size[l] = @ + 1]

\* append_to_queue and add_to_LRU: a new node.
append_to_queue(m, l, n) == append_node_to_queue([m EXCEPT !.next[n] = NULL], l, n)

\* pop_queue: tail is not touched, even if it was the popped node.
pop_queue(m, l) ==
    [m EXCEPT !.head[l] = m.next[m.head[l]], !.next[m.head[l]] = NULL, !.size[l] = @ - 1]

\* move_head_to_end
move_head_to_end(m, l) ==
    LET old_head == m.head[l]
    IN  IF m.size[l] <= 1 THEN m
        ELSE [m EXCEPT !.head[l] = m.next[old_head],
                       !.next = [@ EXCEPT ![m.tail[l]] = old_head, ![old_head] = NULL],
                       !.tail[l] = old_head]

\* move_to_head: prev is the node before target.
move_to_head(m, l, target, prev) ==
    IF m.size[l] <= 1 \/ target = m.head[l] THEN m
    ELSE [m EXCEPT !.head[l] = target,
                   !.next = [@ EXCEPT ![prev] = m.next[target], ![target] = m.head[l]],
                   !.tail[l] = IF m.tail[l] = target THEN prev ELSE @]

\* The node i steps behind the head of list l, and NULL behind its end.
NodeAt(m, l) ==
    LET at[i \in 0 .. Cardinality(Node)] ==
            IF i = 0 THEN m.head[l]
            ELSE IF at[i - 1] \in Node THEN m.next[at[i - 1]] ELSE NULL
    IN  at

\* The nodes of list l from its head on, at most one more than there are.
Walk(m, l) ==
    LET at == NodeAt(m, l)
    IN  [i \in 1 .. Cardinality({j \in DOMAIN at : at[j] # NULL}) |-> at[i - 1]]

\* find_in_queue_with_prev and find_in_LRU_with_prev: the node before target.
find_prev(m, l, target) ==
    LET s == Walk(m, l)
    IN  IF target = m.head[l] THEN NULL
        ELSE s[CHOOSE i \in DOMAIN s : m.next[s[i]] = target]

\* clear_queue and free_node for the lists of ls: every node from the head on
\* is freed.
clear_queues(m, ls) ==
    LET cleared(n) == \E l \in ls : \E i \in DOMAIN Walk(m, l) : Walk(m, l)[i] = n
    IN  [next |-> [n \in Node |-> IF cleared(n) THEN Freed ELSE m.next[n]],
         head |-> [l \in Lists |-> IF l \in ls THEN NULL ELSE m.head[l]],
         tail |-> [l \in Lists |-> IF l \in ls THEN NULL ELSE m.tail[l]],
         size |-> [l \in Lists |-> IF l \in ls THEN 0 ELSE m.size[l]]]

\* Mutant: tail is not moved.
move_node_to_end_tail(m, l, node) ==
    LET prev == find_prev(m, l, node)
    IN  IF m.size[l] <= 1 THEN m
        ELSE IF node = m.head[l] THEN move_head_to_end(m, l)
        ELSE IF node = m.tail[l] THEN m
        ELSE [m EXCEPT !.next = [@ EXCEPT ![prev] = m.next[node], ![node] = NULL,
                                          ![m.tail[l]] = node]]

\* move_node_to_end
move_node_to_end(m, l, node) ==
    LET prev == find_prev(m, l, node)
    IN  IF m.size[l] <= 1 THEN m
        ELSE IF node = m.head[l] THEN move_head_to_end(m, l)
        ELSE IF node = m.tail[l] THEN m
        ELSE [m EXCEPT !.next = [@ EXCEPT ![prev] = m.next[node], ![node] = NULL,
                                          ![m.tail[l]] = node],
                       !.tail[l] = node]

\* remove_node_from_LRU, which also frees the node.
remove_node_from_LRU(m, l, target, prev) ==
    LET cut == IF m.size[l] = 1 THEN [m EXCEPT !.head[l] = NULL, !.tail[l] = NULL]
               ELSE IF prev = NULL THEN [m EXCEPT !.head[l] = m.next[target]]
               ELSE [m EXCEPT !.next[prev] = m.next[target],
                              !.tail[l] = IF target = @ THEN prev ELSE @]
    IN  [cut EXCEPT !.next[target] = Freed, !.size[l] = @ - 1]

-----------------------------------------------------------------------------
(* The callers. *)

\* thread_create (and thread_init).
create ==
    /\ ~ended
    /\ \E n \in ThreadNodes : mem.next[n] = Freed /\ mem' = append_to_queue(mem, "rq", n)
    /\ UNCHANGED ended

yield_any ==
    /\ mem.size["rq"] > 1
    /\ mem' = move_head_to_end(mem, "rq")
    /\ UNCHANGED ended

\* Mutant: the caller is moved only after the wanted thread.
yield_to_moves_late(m, target, prev) == move_head_to_end(move_to_head(m, "rq", target, prev), "rq")

\* thread_yield(tid): prev is found before move_head_to_end changes the list.
yield_to_moves(m, target, prev) == move_to_head(move_head_to_end(m, "rq"), "rq", target, prev)

thread_yield(target) ==
    /\ \E i \in DOMAIN Walk(mem, "rq") : i > 1 /\ Walk(mem, "rq")[i] = target
    /\ mem' = yield_to_moves(mem, target, find_prev(mem, "rq", target))
    /\ UNCHANGED ended

\* The head of list from goes to the end of list to.
Transfer(m, from, to) == append_node_to_queue(pop_queue(m, from), to, m.head[from])

thread_sleep(w) ==
    /\ mem.size["rq"] > 1
    /\ mem' = Transfer(mem, "rq", w)
    /\ UNCHANGED ended

\* The loop of thread_wakeup with all = 1, after k turns.
WakeTurns(m, w) ==
    LET after[k \in 0 .. Cardinality(Node)] ==
            IF k = 0 THEN m
            ELSE IF after[k - 1].head[w] = NULL THEN after[k - 1]
            ELSE Transfer(after[k - 1], w, "rq")
    IN  after

WakeAll(m, w) == IF m.size[w] = 0 THEN m ELSE WakeTurns(m, w)[Cardinality(Node)]

thread_wakeup(w) ==
    /\ mem.size[w] # 0
    /\ mem' \in {Transfer(mem, w, "rq"), WakeAll(mem, w)}
    /\ UNCHANGED ended

\* thread_exit of a thread with the join queue w.  The last thread clears the
\* exit queue and the wait queues and frees itself.
thread_exit(w) ==
    LET awake == WakeAll(mem, w)
        left  == pop_queue(awake, "rq")
        bare  == clear_queues(left, {"eq"} \cup WaitQueues)
    IN  /\ mem.head["rq"] # NULL
        /\ \/ /\ left.head["rq"] = NULL
              /\ mem' = [bare EXCEPT !.next[awake.head["rq"]] = Freed]
              /\ ended' = TRUE
           \/ /\ left.head["rq"] # NULL
              /\ mem' = append_node_to_queue(left, "eq", awake.head["rq"])
              /\ UNCHANGED ended

\* clear_queue(&eq) on the way back from a switch, with interrupts off.  The
\* call in thread_stub, with interrupts on, is Threads' stub_free_node and
\* stub_next_node.
clear_exited ==
    /\ mem.head["eq"] # NULL
    /\ mem' = clear_queues(mem, {"eq"})
    /\ UNCHANGED ended

\* add_to_LRU, called by cache_insert.
add_to_LRU ==
    /\ \E n \in LruNodes : mem.next[n] = Freed /\ mem' = append_to_queue(mem, "lru", n)
    /\ UNCHANGED ended

\* A hit of cache_lookup.
touch ==
    /\ \E i \in DOMAIN Walk(mem, "lru") : mem' = move_node_to_end(mem, "lru", Walk(mem, "lru")[i])
    /\ UNCHANGED ended

\* One turn of the loop of cache_evict: an entry in use (busy) is passed, and
\* the loop stops after amount removals.
evict_turn(t, busy, amount) ==
    LET c  == t.current
        m2 == remove_node_from_LRU(t.m, "lru", c, t.prev)
    IN  IF c = NULL \/ t.out = amount THEN t
        ELSE IF c \in busy THEN [t EXCEPT !.prev = c, !.current = t.m.next[c]]
        ELSE [m |-> m2, prev |-> t.prev, out |-> t.out + 1,
              current |-> IF t.m.size["lru"] = 1 THEN NULL
                          ELSE IF t.prev = NULL THEN m2.head["lru"]
                          ELSE m2.next[t.prev]]

\* cache_evict: current, prev and the number of removals after k turns.
EvictTurns(m, busy, amount) ==
    LET turn[k \in 0 .. Cardinality(Node)] ==
            IF k = 0 THEN [m |-> m, current |-> m.head["lru"], prev |-> NULL, out |-> 0]
            ELSE evict_turn(turn[k - 1], busy, amount)
    IN  turn

cache_evict(m, busy, amount) == EvictTurns(m, busy, amount)[Cardinality(Node)].m

evict ==
    /\ \E busy \in SUBSET LruNodes, amount \in 1 .. Cardinality(LruNodes) :
          mem' = cache_evict(mem, busy, amount)
    /\ UNCHANGED ended

Next ==
    \/ create \/ yield_any \/ clear_exited
    \/ \E n \in ThreadNodes : thread_yield(n)
    \/ \E w \in WaitQueues : thread_sleep(w) \/ thread_wakeup(w) \/ thread_exit(w)
    \/ add_to_LRU \/ touch \/ evict

Spec == Init /\ [][Next]_vars

-----------------------------------------------------------------------------
(* Properties. *)

\* Pointers lead to nodes, and sizes are numbers.
TypeOK ==
    /\ mem.next \in [Node -> Node \cup {NULL, Freed}]
    /\ mem.head \in [Lists -> Node \cup {NULL}]
    /\ mem.tail \in [Lists -> Node \cup {NULL}]
    /\ mem.size \in [Lists -> 0 .. Cardinality(Node)]

\* The size that thread_yield, thread_sleep and move_node_to_end decide by is the
\* length of the list, and tail is its last node whenever a node is appended
\* behind it (thread.c:87, server_thread.c:120); pop_queue leaves tail behind.
\* No node is in two lists, or twice in one, or still linked after free; and an
\* allocated node is in a list, so none is lost (thread.c:140, server_thread.c:225).
ListsWellFormed ==
    LET list   == [l \in Lists |-> Walk(mem, l)]
        places == UNION {{l} \X DOMAIN list[l] : l \in Lists}
    IN  /\ \A l \in Lists :
              /\ mem.size[l] = Len(list[l])
              /\ mem.head[l] # NULL => mem.tail[l] = list[l][Len(list[l])]
        /\ \A n \in Node :
              Cardinality({p \in places : list[p[1]][p[2]] = n})
                  = IF mem.next[n] = Freed THEN 0 ELSE 1

Seqs == INSTANCE Queues WITH q <- [l \in Lists |-> Walk(mem, l)]

\* Every call does to the list what the sequence operators of Threads and
\* FileCache say: the pointer code implements Queues.
ImplementsSequences == Seqs!Spec

=============================================================================
