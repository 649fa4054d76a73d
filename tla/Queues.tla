-------------------------------- MODULE Queues --------------------------------
(***************************************************************************)
(* What the linked lists of the thread package and of the file cache stand *)
(* for: sequences of nodes.  This is how Threads and FileCache see them.   *)
(* A call is one step, as the lists are touched with interrupts off, or    *)
(* with the lock of the cache held; the one exception, clear_queue in      *)
(* thread_stub, is not here: Threads takes it apart (stub_free_node).      *)
(***************************************************************************)
EXTENDS Integers, Sequences, SequencesExt

CONSTANTS
    ThreadNodes,   \* nodes (struct thread_list), one for each thread
    LruNodes,      \* nodes (LRUEntry), one for each cached file
    WaitQueues     \* wait queues

Lists == {"rq", "eq", "lru"} \cup WaitQueues

VARIABLE q    \* the contents of every list

Free(nodes) == nodes \ UNION {ToSet(q[l]) : l \in Lists}

Init == q = [l \in Lists |-> <<>>]

\* thread_init, thread_create: a new node at the end of the ready queue.
Create == \E n \in Free(ThreadNodes) : q' = [q EXCEPT !["rq"] = Append(@, n)]

Rotate(s) == Append(Tail(s), Head(s))

\* thread_yield(THREAD_ANY)
YieldAny == Len(q["rq"]) > 1 /\ q' = [q EXCEPT !["rq"] = Rotate(@)]

\* thread_yield(tid): the caller goes to the end, the wanted thread to the
\* front, and the order of all others stays.
YieldTo ==
    \E i \in 2 .. Len(q["rq"]) :
        q' = [q EXCEPT !["rq"] = <<@[i]>> \o RemoveAt(Rotate(@), i - 1)]

\* thread_sleep
Sleep ==
    /\ Len(q["rq"]) > 1
    /\ \E w \in WaitQueues : q' = [q EXCEPT !["rq"] = Tail(@), ![w] = Append(@, Head(q["rq"]))]

\* thread_wakeup of one thread or of all.
Wakeup ==
    \E w \in WaitQueues :
        /\ q[w] # <<>>
        /\ \E k \in {1, Len(q[w])} :
              q' = [q EXCEPT !["rq"] = @ \o SubSeq(q[w], 1, k), ![w] = SubSeq(@, k + 1, Len(@))]

\* thread_exit: the waiters follow the ready threads, the caller leaves to the
\* exit queue; the last thread takes everything with it.
Exit ==
    /\ q["rq"] # <<>>
    /\ \E w \in WaitQueues :
        LET ready == q["rq"] \o q[w]
        IN  q' = IF Len(ready) > 1
                 THEN [q EXCEPT !["rq"] = Tail(ready), ![w] = <<>>,
                                !["eq"] = Append(@, Head(ready))]
                 ELSE [l \in Lists |-> IF l = "lru" THEN q[l] ELSE <<>>]

\* clear_queue(&eq) after a switch.
ClearExited == q["eq"] # <<>> /\ q' = [q EXCEPT !["eq"] = <<>>]

\* cache_insert
AddEntry == \E n \in Free(LruNodes) : q' = [q EXCEPT !["lru"] = Append(@, n)]

\* A hit of cache_lookup.
TouchEntry ==
    \E i \in DOMAIN q["lru"] : q' = [q EXCEPT !["lru"] = Append(RemoveAt(@, i), @[i])]

\* What is left of s, in its order, after each position when the positions
\* of out leave.
Kept(s, out) ==
    LET kept[i \in 0 .. Len(s)] ==
            IF i = 0 THEN <<>>
            ELSE IF i \in out THEN kept[i - 1] ELSE Append(kept[i - 1], s[i])
    IN  kept

Without(s, out) == Kept(s, out)[Len(s)]

\* cache_evict: of the oldest entries, as many as it looks at, those that
\* nobody uses leave.
EvictEntries ==
    \E seen \in DOMAIN q["lru"] : \E busy \in SUBSET (1 .. seen) :
        q' = [q EXCEPT !["lru"] = Without(@, (1 .. seen) \ busy)]

Next ==
    \/ Create \/ YieldAny \/ YieldTo \/ Sleep \/ Wakeup \/ Exit \/ ClearExited
    \/ AddEntry \/ TouchEntry \/ EvictEntries

Spec == Init /\ [][Next]_q
=============================================================================
