------------------------------- MODULE Threads -------------------------------
(***************************************************************************)
(* The user-level thread package of threads/thread.c, with the timer       *)
(* interrupts of threads/interrupt.c.                                      *)
(*                                                                         *)
(* Every function of the package runs with the timer signal masked, so it  *)
(* is one atomic step up to the point where it switches to another context *)
(* (setcontext).  What happens at the other end of the switch is the step  *)
(* `resume' (or `resume_killed', or the first entry into thread_stub).     *)
(* Between two calls a thread executes its own code; the client may call   *)
(* any function with any argument at any time.                             *)
(*                                                                         *)
(* A member of TCB is the address of a `struct thread'.  Its memory is     *)
(* allocated by thread_create and given back by free_node; status "FREE"   *)
(* says it is not allocated.  Calls that fail without changing anything    *)
(* (THREAD_INVALID, THREAD_NONE, THREAD_NOMORE, THREAD_NOMEMORY) are       *)
(* stuttering steps; a call whose assertion fails aborts the program and   *)
(* is not made.                                                            *)
(***************************************************************************)
EXTENDS Naturals, SequencesExt

CONSTANTS
    TCB,          \* addresses malloc can return for a struct thread
    MaxThreads,   \* THREAD_MAX_THREADS
    Lock, CV, WQ, \* locks, condition variables and queues made by the client
    NULL, Gone,   \* the null pointer; "the holder has exited" (history only)
    Preemptive,   \* register_interrupt_handler has been called
    DestroyBusy   \* the client destroys wait queues that are not empty

Tid == 0 .. MaxThreads - 1
Obj == Lock \cup CV \cup WQ     \* what owns a wait queue, beside the threads

ASSUME ConstantsAssumption ==
    /\ MaxThreads \in Nat \ {0}
    /\ TCB # {}
    /\ Lock \cap CV = {} /\ Lock \cap WQ = {} /\ CV \cap WQ = {}
    /\ TCB \cap Lock = {}
    /\ NULL \notin TCB \cup Lock /\ Gone \notin TCB /\ Gone # NULL
    /\ Preemptive \in BOOLEAN /\ DestroyBusy \in BOOLEAN

VARIABLES
    status,       \* status[t]: the status field of the TCB, "FREE" if not allocated
    tid,          \* tid[t]: its id field
    pc,           \* pc[t]: where the saved context of t continues
    want,         \* want[t]: the lock it is acquiring, or the thread it waits for
    rq, eq,       \* ready queue (its head is the running thread), exit queue
    threads,      \* the table from thread identifiers to TCBs
    waitq,        \* thread_wait_queues (no queue and an empty one are alike)
    wq,           \* the wait queues of locks, condition variables and clients
    made,         \* the members of Obj that exist
    locked, owner,\* the locked and thread fields of the locks
    mode,         \* "run", "switch" (inside setcontext), "exit" or "ub"
    holder        \* history: the thread that acquired the lock

tcbVars  == <<status, tid, pc, want>>
lockVars == <<made, locked, owner, holder>>
vars == <<status, tid, pc, want, rq, eq, threads, waitq, wq, made, locked,
          owner, mode, holder>>

Statuses == {"FREE", "RUNNING", "READY", "BLOCKED", "EXITED"}
PCs   == {"new", "stub", "clear", "freed", "user", "join", "alone", "acquire"}
Modes == {"run", "switch", "exit", "ub"}

Active == mode \in {"run", "switch"}     \* the program is running
Cur == Head(rq)

TypeOK ==
    /\ status \in [TCB -> Statuses]
    /\ tid \in [TCB -> Tid]
    /\ pc \in [TCB -> PCs]
    /\ want \in [TCB -> Lock \cup TCB \cup {NULL}]
    /\ rq \in Seq(TCB) /\ (Active => rq # <<>>)
    /\ eq \in Seq(TCB)
    /\ threads \in [Tid -> TCB \cup {NULL}]
    /\ waitq \in [Tid -> Seq(TCB)]
    /\ wq \in [Obj -> Seq(TCB)]
    /\ made \in SUBSET Obj
    /\ locked \in [Lock -> BOOLEAN]
    /\ owner \in [Lock -> Tid]
    /\ mode \in Modes
    /\ holder \in [Lock -> TCB \cup {NULL, Gone}]

-----------------------------------------------------------------------------
(* Helpers of thread.c *)

\* move_head_to_end: the running thread goes to the back.
move_head_to_end(q) == Tail(q) \o <<Head(q)>>

\* move_to_head: the i-th thread goes to the front.
move_to_head(q, i) == <<q[i]>> \o RemoveAt(q, i)

\* set_thread_status for the threads in S: a killed thread stays EXITED.
set_thread_status(st, S, s) ==
    [t \in TCB |-> IF t \in S /\ st[t] # "EXITED" THEN s ELSE st[t]]

\* clear_queue(&eq) as one step, and then the switch-in with status st;
\* freeing a node twice is undefined behaviour.
clear_eq(st, m) ==
    LET dead == Range(eq) IN
    /\ eq' = <<>>
    /\ status' = [t \in TCB |-> IF t \in dead THEN "FREE" ELSE st[t]]
    /\ mode' = IF \E t \in dead : status[t] = "FREE" THEN "ub" ELSE m

-----------------------------------------------------------------------------
(* thread_init: the main thread is thread 0. *)

Init ==
    \E main \in TCB :
        /\ status = [t \in TCB |-> IF t = main THEN "RUNNING" ELSE "FREE"]
        /\ tid = [t \in TCB |-> 0]
        /\ pc = [t \in TCB |-> "user"]
        /\ want = [t \in TCB |-> NULL]
        /\ rq = <<main>> /\ eq = <<>>
        /\ threads = [i \in Tid |-> IF i = 0 THEN main ELSE NULL]
        /\ waitq = [i \in Tid |-> <<>>]
        /\ wq = [o \in Obj |-> <<>>]
        /\ made = {}
        /\ locked = [l \in Lock |-> FALSE]
        /\ owner = [l \in Lock |-> 0]
        /\ mode = "run"
        /\ holder = [l \in Lock |-> NULL]

\* The running thread executes client code and may call the package.
InUserCode == mode = "run" /\ pc[Cur] = "user"

-----------------------------------------------------------------------------
(* Creating, yielding, killing *)

\* thread_create: the lowest free identifier, the new thread at the back.  What
\* the history says of an earlier thread at the same address is forgotten.
thread_create(t) ==
    /\ InUserCode
    /\ status[t] = "FREE"
    /\ \E id \in Tid :
        /\ threads[id] = NULL
        /\ \A j \in Tid : j < id => threads[j] # NULL
        /\ tid' = [tid EXCEPT ![t] = id]
        /\ threads' = [threads EXCEPT ![id] = t]
    /\ status' = [status EXCEPT ![t] = "READY"]
    /\ pc' = [pc EXCEPT ![t] = "new"]
    /\ want' = [u \in TCB |-> IF u = t \/ want[u] = t THEN NULL ELSE want[u]]
    /\ rq' = Append(rq, t)
    /\ UNCHANGED <<eq, waitq, wq, lockVars, mode>>

\* Lines 336-352 of thread_yield: the caller becomes READY, the context switches.
switch_to(newrq) ==
    /\ rq' = newrq
    /\ status' = set_thread_status(status, {Cur}, "READY")
    /\ mode' = "switch"
    /\ UNCHANGED <<tid, pc, want, eq, threads, waitq, wq, lockVars>>

\* thread_yield(THREAD_ANY); alone, it returns THREAD_NONE.
thread_yield_any ==
    /\ InUserCode
    /\ Len(rq) > 1
    /\ switch_to(move_head_to_end(rq))

\* thread_yield(THREAD_SELF), or with the caller's own identifier.
thread_yield_self ==
    /\ InUserCode
    /\ switch_to(rq)

\* Mutant: the caller stays right behind the thread it yields to.
thread_yield_tid_ahead(want_tid) ==
    /\ InUserCode
    /\ \E i \in 2 .. Len(rq) : tid[rq[i]] = want_tid /\ switch_to(move_to_head(rq, i))

\* thread_yield(want_tid) for another thread of the ready queue.
thread_yield_tid(want_tid) ==
    /\ InUserCode
    /\ \E i \in 2 .. Len(rq) :
        /\ tid[rq[i]] = want_tid
        /\ switch_to(move_to_head(move_head_to_end(rq), i - 1))

\* interrupt_handler: the timer makes whatever runs with interrupts enabled
\* yield, the code of thread_stub included.
interrupt_handler ==
    /\ Preemptive
    /\ mode = "run"
    /\ pc[Cur] \in {"user", "stub", "clear", "freed"}
    /\ Len(rq) > 1
    /\ switch_to(move_head_to_end(rq))

\* Mutant: the identifier is given up when the thread is killed.
thread_kill_frees(i) ==
    /\ InUserCode
    /\ i # tid[Cur]
    /\ threads[i] # NULL
    /\ status' = [status EXCEPT ![threads[i]] = "EXITED"]
    /\ threads' = [threads EXCEPT ![i] = NULL]
    /\ UNCHANGED <<tid, pc, want, rq, eq, waitq, wq, lockVars, mode>>

\* Mutant: the threads waiting for the victim are woken when it is killed.
thread_kill_wakes(i) ==
    /\ InUserCode
    /\ i # tid[Cur]
    /\ threads[i] # NULL
    /\ rq' = rq \o waitq[i]
    /\ waitq' = [waitq EXCEPT ![i] = <<>>]
    /\ status' = [set_thread_status(status, Range(waitq[i]), "READY")
                    EXCEPT ![threads[i]] = "EXITED"]
    /\ UNCHANGED <<tid, pc, want, eq, threads, wq, lockVars, mode>>

\* thread_kill: the victim is only marked, and exits when it is next switched to.
thread_kill(i) ==
    /\ InUserCode
    /\ i # tid[Cur]
    /\ threads[i] # NULL
    /\ status' = [status EXCEPT ![threads[i]] = "EXITED"]
    /\ UNCHANGED <<tid, pc, want, rq, eq, threads, waitq, wq, lockVars, mode>>

-----------------------------------------------------------------------------
(* Exiting *)

\* The rest of thread_exit once no thread is ready: free the exit queue, the
\* queues of thread_wait and the thread itself, and exit(0).
exit_program(newrq) ==
    LET dead == Range(eq) \cup {Cur}
                \cup UNION {Range(waitq[i]) : i \in Tid \ {tid[Cur]}}
    IN  /\ newrq = <<>>
        /\ rq' = <<>> /\ eq' = <<>>
        /\ waitq' = [i \in Tid |-> <<>>]
        /\ status' = [t \in TCB |-> IF t \in dead THEN "FREE" ELSE status[t]]
        /\ mode' = IF \E t \in Range(eq) : status[t] = "FREE" THEN "ub" ELSE "exit"

\* The rest of thread_exit otherwise: park the thread in eq, switch to the next.
exit_switch(newrq) ==
    /\ newrq # <<>>
    /\ rq' = newrq
    /\ eq' = Append(eq, Cur)
    /\ waitq' = [waitq EXCEPT ![tid[Cur]] = <<>>]
    /\ status' = set_thread_status(status, Range(waitq[tid[Cur]]), "READY")
    /\ mode' = "switch"

\* Mutant: the threads waiting for this one are not woken.
exit_thread_silent ==
    /\ threads' = [threads EXCEPT ![tid[Cur]] = NULL]
    /\ IF Len(rq) = 1
         THEN exit_program(<<>>)
         ELSE /\ rq' = Tail(rq)
              /\ eq' = Append(eq, Cur)
              /\ mode' = "switch"
              /\ UNCHANGED <<waitq, status>>
    /\ holder' = [l \in Lock |-> IF holder[l] = Cur THEN Gone ELSE holder[l]]
    /\ pc' = [pc EXCEPT ![Cur] = "user"]
    /\ want' = [want EXCEPT ![Cur] = NULL]
    /\ UNCHANGED <<tid, wq, made, locked, owner>>

\* thread_exit: give the identifier up, wake all who wait for it, leave rq.
exit_thread ==
    LET newrq == Tail(rq \o waitq[tid[Cur]]) IN
    /\ threads' = [threads EXCEPT ![tid[Cur]] = NULL]
    /\ exit_program(newrq) \/ exit_switch(newrq)
    /\ holder' = [l \in Lock |-> IF holder[l] = Cur THEN Gone ELSE holder[l]]
    /\ pc' = [pc EXCEPT ![Cur] = "user"]       \* never used again
    /\ want' = [want EXCEPT ![Cur] = NULL]
    /\ UNCHANGED <<tid, wq, made, locked, owner>>

\* Called by the thread, or at the end of its main function.
thread_exit == InUserCode /\ exit_thread

-----------------------------------------------------------------------------
(* The other end of a context switch *)

\* A thread that has never run enters thread_stub, which enables interrupts.
resume_new ==
    /\ mode = "switch"
    /\ pc[Cur] = "new"
    /\ pc' = [pc EXCEPT ![Cur] = "stub"]
    /\ mode' = "run"
    /\ UNCHANGED <<status, tid, want, rq, eq, threads, waitq, wq, lockVars>>

\* setcontext returned in thread_yield or thread_sleep, the thread was killed.
resume_killed ==
    /\ mode = "switch"
    /\ pc[Cur] # "new"
    /\ status[Cur] = "EXITED"
    /\ exit_thread

\* Mutant: the thread is not checked for having been killed.
resume_unchecked ==
    /\ mode = "switch"
    /\ pc[Cur] # "new"
    /\ clear_eq(set_thread_status(status, {Cur}, "RUNNING"), "run")
    /\ pc' = [pc EXCEPT ![Cur] = IF @ = "join" THEN "user" ELSE @]
    /\ UNCHANGED <<tid, want, rq, threads, waitq, wq, lockVars>>

\* setcontext returned: RUNNING again, free the exited threads, and return to
\* the caller; a thread_wait returns to the client.
resume ==
    /\ mode = "switch"
    /\ pc[Cur] # "new"
    /\ status[Cur] # "EXITED"
    /\ clear_eq(set_thread_status(status, {Cur}, "RUNNING"), "run")
    /\ IF pc[Cur] = "join"
         THEN /\ pc' = [pc EXCEPT ![Cur] = "user"]
              /\ want' = [want EXCEPT ![Cur] = NULL]
         ELSE UNCHANGED <<pc, want>>
    /\ UNCHANGED <<tid, rq, threads, waitq, wq, lockVars>>

\* thread_stub, a thread killed before it ran.
stub_killed ==
    /\ mode = "run"
    /\ pc[Cur] = "stub"
    /\ status[Cur] = "EXITED"
    /\ exit_thread

\* thread_stub: RUNNING, and into clear_queue(&eq) with interrupts enabled.
stub_run ==
    /\ mode = "run"
    /\ pc[Cur] = "stub"
    /\ status[Cur] # "EXITED"
    /\ status' = set_thread_status(status, {Cur}, "RUNNING")
    /\ pc' = [pc EXCEPT ![Cur] = "clear"]
    /\ UNCHANGED <<tid, want, rq, eq, threads, waitq, wq, lockVars, mode>>

\* The loop of clear_queue: free_node(q->head) ...
stub_free_node ==
    /\ mode = "run"
    /\ pc[Cur] = "clear"
    /\ eq # <<>>
    /\ status' = [status EXCEPT ![Head(eq)] = "FREE"]
    /\ pc' = [pc EXCEPT ![Cur] = "freed"]
    /\ mode' = IF status[Head(eq)] = "FREE" THEN "ub" ELSE "run"
    /\ UNCHANGED <<tid, want, rq, eq, threads, waitq, wq, lockVars>>

\* ... and then q->head = next.
stub_next_node ==
    /\ mode = "run"
    /\ pc[Cur] = "freed"
    /\ eq # <<>>
    /\ eq' = Tail(eq)
    /\ pc' = [pc EXCEPT ![Cur] = "clear"]
    /\ UNCHANGED <<status, tid, want, rq, threads, waitq, wq, lockVars, mode>>

\* The exit queue is clear: call thread_main.
stub_main ==
    /\ mode = "run"
    /\ pc[Cur] = "clear"
    /\ eq = <<>>
    /\ pc' = [pc EXCEPT ![Cur] = "user"]
    /\ UNCHANGED <<status, tid, want, rq, eq, threads, waitq, wq, lockVars, mode>>

-----------------------------------------------------------------------------
(* Sleeping and waking *)

\* thread_sleep, past its early returns, with q the ready queue at the call:
\* the caller leaves q, is BLOCKED, and will continue at pc p with want w.
block(q, st, p, w) ==
    /\ rq' = Tail(q)
    /\ status' = set_thread_status(st, {Cur}, "BLOCKED")
    /\ pc' = [pc EXCEPT ![Cur] = p]
    /\ want' = [want EXCEPT ![Cur] = w]
    /\ mode' = "switch"

wait_queue_create(q) ==
    /\ InUserCode
    /\ q \notin made
    /\ made' = made \cup {q}
    /\ wq' = [wq EXCEPT ![q] = <<>>]
    /\ UNCHANGED <<tcbVars, rq, eq, threads, waitq, locked, owner, mode, holder>>

\* wait_queue_destroy: frees whoever is still in the queue.
wait_queue_destroy(q) ==
    /\ InUserCode
    /\ q \in made
    /\ DestroyBusy \/ wq[q] = <<>>
    /\ made' = made \ {q}
    /\ wq' = [wq EXCEPT ![q] = <<>>]
    /\ status' = [t \in TCB |-> IF t \in Range(wq[q]) THEN "FREE" ELSE status[t]]
    /\ UNCHANGED <<tid, pc, want, rq, eq, threads, waitq, locked, owner, mode, holder>>

\* Mutant: the last ready thread may sleep.
thread_sleep_last(q) ==
    /\ InUserCode
    /\ q \in made
    /\ wq' = [wq EXCEPT ![q] = Append(@, Cur)]
    /\ block(rq, status, "user", NULL)
    /\ UNCHANGED <<tid, eq, threads, waitq, lockVars>>

\* thread_sleep on a queue of the client; alone, it returns THREAD_NONE.
thread_sleep(q) ==
    /\ InUserCode
    /\ q \in made
    /\ Len(rq) > 1
    /\ wq' = [wq EXCEPT ![q] = Append(@, Cur)]
    /\ block(rq, status, "user", NULL)
    /\ UNCHANGED <<tid, eq, threads, waitq, lockVars>>

\* Mutant: the thread is not taken out of the wait queue.
wakeup_one_kept(o) ==
    /\ wq[o] # <<>>
    /\ rq' = Append(rq, Head(wq[o]))
    /\ status' = set_thread_status(status, {Head(wq[o])}, "READY")
    /\ UNCHANGED wq

\* Mutant: the status of the thread is not changed.
wakeup_one_blocked(o) ==
    /\ wq[o] # <<>>
    /\ rq' = Append(rq, Head(wq[o]))
    /\ wq' = [wq EXCEPT ![o] = Tail(@)]
    /\ UNCHANGED status

\* thread_wakeup(queue, 0): the first thread of the queue of o.
wakeup_one(o) ==
    /\ wq[o] # <<>>
    /\ rq' = Append(rq, Head(wq[o]))
    /\ wq' = [wq EXCEPT ![o] = Tail(@)]
    /\ status' = set_thread_status(status, {Head(wq[o])}, "READY")

\* thread_wakeup(queue, 1): all threads of the queue of o, in order.
wakeup_all(o) ==
    /\ rq' = rq \o wq[o]
    /\ wq' = [wq EXCEPT ![o] = <<>>]
    /\ status' = set_thread_status(status, Range(wq[o]), "READY")

thread_wakeup(q, all) ==
    /\ InUserCode
    /\ q \in made
    /\ IF all THEN wakeup_all(q) ELSE wakeup_one(q)
    /\ UNCHANGED <<tid, pc, want, eq, threads, waitq, lockVars, mode>>

\* thread_wait: sleep in the queue of thread i (and return from `resume').
\* thread_sleep's result is not looked at: when no other thread is ready, it
\* does not sleep, and thread_wait goes on to return i.
thread_wait(i) ==
    /\ InUserCode
    /\ i # tid[Cur]
    /\ threads[i] # NULL
    /\ IF Len(rq) > 1
         THEN /\ waitq' = [waitq EXCEPT ![i] = Append(@, Cur)]
              /\ block(rq, status, "join", threads[i])
         ELSE /\ pc' = [pc EXCEPT ![Cur] = "alone"]
              /\ want' = [want EXCEPT ![Cur] = threads[i]]
              /\ UNCHANGED <<rq, status, mode, waitq>>
    /\ UNCHANGED <<tid, eq, threads, wq, lockVars>>

\* The return of a thread_wait that has not slept.
wait_alone ==
    /\ mode = "run"
    /\ pc[Cur] = "alone"
    /\ pc' = [pc EXCEPT ![Cur] = "user"]
    /\ want' = [want EXCEPT ![Cur] = NULL]
    /\ UNCHANGED <<status, tid, rq, eq, threads, waitq, wq, lockVars, mode>>

-----------------------------------------------------------------------------
(* Locks *)

lock_create(l) ==
    /\ InUserCode
    /\ l \notin made
    /\ made' = made \cup {l}
    /\ locked' = [locked EXCEPT ![l] = FALSE]
    /\ wq' = [wq EXCEPT ![l] = <<>>]
    /\ UNCHANGED <<tcbVars, rq, eq, threads, waitq, owner, mode, holder>>

\* lock_destroy: asserts that the lock is free, and frees its wait queue.  The
\* client destroys a lock only when no thread outside that queue is still
\* inside lock_acquire or cv_wait for it.
lock_destroy(l) ==
    /\ InUserCode
    /\ l \in made
    /\ ~locked[l]
    /\ \A t \in TCB : status[t] # "FREE" /\ pc[t] = "acquire" /\ want[t] = l
                          => t \in Range(wq[l])
    /\ made' = made \ {l}
    /\ wq' = [wq EXCEPT ![l] = <<>>]
    /\ status' = [t \in TCB |-> IF t \in Range(wq[l]) THEN "FREE" ELSE status[t]]
    /\ UNCHANGED <<tid, pc, want, rq, eq, threads, waitq, locked, owner, mode, holder>>

\* lock_acquire: interrupts go off, and the loop below is entered.
lock_acquire(l) ==
    /\ InUserCode
    /\ l \in made
    /\ pc' = [pc EXCEPT ![Cur] = "acquire"]
    /\ want' = [want EXCEPT ![Cur] = l]
    /\ UNCHANGED <<status, tid, rq, eq, threads, waitq, wq, lockVars, mode>>

InLoop == mode = "run" /\ pc[Cur] = "acquire"

\* The lock is locked: sleep, and test it again when woken.
acquire_sleep(l) ==
    /\ InLoop
    /\ l = want[Cur]
    /\ locked[l]
    /\ Len(rq) > 1
    /\ wq' = [wq EXCEPT ![l] = Append(@, Cur)]
    /\ block(rq, status, "acquire", l)
    /\ UNCHANGED <<tid, eq, threads, waitq, lockVars>>

\* The lock is locked and no other thread is ready: thread_sleep returns
\* THREAD_NONE and the loop spins, with interrupts off.
acquire_spin(l) ==
    /\ InLoop
    /\ l = want[Cur]
    /\ locked[l]
    /\ Len(rq) = 1
    /\ UNCHANGED vars

\* The lock is free: take it.
acquire_take(l) ==
    /\ InLoop
    /\ l = want[Cur]
    /\ ~locked[l]
    /\ locked' = [locked EXCEPT ![l] = TRUE]
    /\ owner' = [owner EXCEPT ![l] = tid[Cur]]
    /\ holder' = [holder EXCEPT ![l] = Cur]
    /\ pc' = [pc EXCEPT ![Cur] = "user"]
    /\ want' = [want EXCEPT ![Cur] = NULL]
    /\ UNCHANGED <<status, tid, rq, eq, threads, waitq, wq, made, mode>>

\* Mutant: the owner is not compared.
OwnsLock_any(l) == l \in made /\ locked[l]

\* The assertion of lock_release, cv_wait, cv_signal and cv_broadcast.
OwnsLock(l) == l \in made /\ locked[l] /\ owner[l] = tid[Cur]

\* Mutant: only one of the sleeping threads is woken.
lock_release_one(l) ==
    /\ InUserCode
    /\ OwnsLock(l)
    /\ locked' = [locked EXCEPT ![l] = FALSE]
    /\ holder' = [holder EXCEPT ![l] = NULL]
    /\ IF wq[l] = <<>> THEN UNCHANGED <<rq, wq, status>> ELSE wakeup_one(l)
    /\ UNCHANGED <<tid, pc, want, eq, threads, waitq, made, owner, mode>>

lock_release(l) ==
    /\ InUserCode
    /\ OwnsLock(l)
    /\ locked' = [locked EXCEPT ![l] = FALSE]
    /\ holder' = [holder EXCEPT ![l] = NULL]
    /\ wakeup_all(l)
    /\ UNCHANGED <<tid, pc, want, eq, threads, waitq, made, owner, mode>>

-----------------------------------------------------------------------------
(* Condition variables *)

cv_create(c) ==
    /\ InUserCode
    /\ c \notin made
    /\ made' = made \cup {c}
    /\ wq' = [wq EXCEPT ![c] = <<>>]
    /\ UNCHANGED <<tcbVars, rq, eq, threads, waitq, locked, owner, mode, holder>>

cv_destroy(c) ==
    /\ InUserCode
    /\ c \in made
    /\ wq[c] = <<>>
    /\ made' = made \ {c}
    /\ UNCHANGED <<tcbVars, rq, eq, threads, waitq, wq, locked, owner, mode, holder>>

\* Mutant: the lock is not released before the caller sleeps.
cv_wait_holding(c, l) ==
    /\ InUserCode
    /\ c \in made
    /\ OwnsLock(l)
    /\ Len(rq) > 1
    /\ wq' = [wq EXCEPT ![c] = Append(@, Cur)]
    /\ block(rq, status, "acquire", l)
    /\ UNCHANGED <<tid, eq, threads, waitq, lockVars>>

\* cv_wait: release the lock, sleep (unless no other thread is ready), and then
\* go through the loop of lock_acquire.
cv_wait(c, l) ==
    LET q  == rq \o wq[l]
        st == set_thread_status(status, Range(wq[l]), "READY")
    IN  /\ InUserCode
        /\ c \in made
        /\ OwnsLock(l)
        /\ locked' = [locked EXCEPT ![l] = FALSE]
        /\ holder' = [holder EXCEPT ![l] = NULL]
        /\ IF Len(q) > 1
             THEN /\ wq' = [wq EXCEPT ![l] = <<>>, ![c] = Append(@, Cur)]
                  /\ block(q, st, "acquire", l)
             ELSE /\ pc' = [pc EXCEPT ![Cur] = "acquire"]
                  /\ want' = [want EXCEPT ![Cur] = l]
                  /\ UNCHANGED <<rq, status, wq, mode>>
        /\ UNCHANGED <<tid, eq, threads, waitq, made, owner>>

cv_signal(c, l) ==
    /\ InUserCode
    /\ c \in made
    /\ OwnsLock(l)
    /\ wakeup_one(c)
    /\ UNCHANGED <<tid, pc, want, eq, threads, waitq, lockVars, mode>>

cv_broadcast(c, l) ==
    /\ InUserCode
    /\ c \in made
    /\ OwnsLock(l)
    /\ wakeup_all(c)
    /\ UNCHANGED <<tid, pc, want, eq, threads, waitq, lockVars, mode>>

-----------------------------------------------------------------------------
\* After exit(0) nothing runs; after undefined behaviour nothing is modelled.
Terminated == mode \in {"exit", "ub"} /\ UNCHANGED vars

\* What runs with interrupts off, or inside thread_stub.
Kernel ==
    \/ resume_new \/ resume_killed \/ resume
    \/ stub_killed \/ stub_run \/ stub_free_node \/ stub_next_node \/ stub_main
    \/ wait_alone
    \/ \E l \in Lock : acquire_sleep(l) \/ acquire_spin(l) \/ acquire_take(l)

Scheduling ==
    \/ \E t \in TCB : thread_create(t)
    \/ thread_yield_any \/ thread_yield_self
    \/ \E i \in Tid : thread_yield_tid(i) \/ thread_kill(i) \/ thread_wait(i)
    \/ thread_exit

Queueing ==
    \E q \in WQ :
        \/ wait_queue_create(q) \/ wait_queue_destroy(q)
        \/ thread_sleep(q)
        \/ \E all \in BOOLEAN : thread_wakeup(q, all)

Locking ==
    \/ \E l \in Lock : lock_create(l) \/ lock_destroy(l) \/ lock_acquire(l) \/ lock_release(l)
    \/ \E c \in CV : cv_create(c) \/ cv_destroy(c)
    \/ \E c \in CV, l \in Lock : cv_wait(c, l) \/ cv_signal(c, l) \/ cv_broadcast(c, l)

Next == Kernel \/ Scheduling \/ Queueing \/ Locking \/ interrupt_handler \/ Terminated

Spec == Init /\ [][Next]_vars

\* The kernel code and thread_stub never stop on their own, and the timer is
\* re-armed by every interrupt: a thread that can be interrupted again and
\* again is eventually interrupted.
FairSpec == Spec /\ WF_vars(Kernel) /\ SF_vars(interrupt_handler)

-----------------------------------------------------------------------------
(* Properties *)

\* The threads that have an identifier: created and not yet exited, whether
\* they have been killed or not.
Live == Range(threads) \ {NULL}

\* The threads suspended in some wait queue.
Sleepers == (UNION {Range(waitq[i]) : i \in Tid}) \cup (UNION {Range(wq[o]) : o \in Obj})

\* Every live thread is in the ready queue or in exactly one wait queue, and
\* there once; an exited one is only in the exit queue; nothing else is queued.
\* (The nodes are moved between the queues by pop_queue, append_node_to_queue,
\* move_head_to_end and move_to_head, and freed by clear_queue.)
OneQueueEach ==
    Active =>
      /\ IsInjective(rq) /\ IsInjective(eq)
      /\ \A i \in Tid : IsInjective(waitq[i])
      /\ \A o \in Obj : IsInjective(wq[o])
      /\ \A i, j \in Tid : i # j => Range(waitq[i]) \cap Range(waitq[j]) = {}
      /\ \A o, p \in Obj : o # p => Range(wq[o]) \cap Range(wq[p]) = {}
      /\ \A i \in Tid, o \in Obj : Range(waitq[i]) \cap Range(wq[o]) = {}
      /\ Live = Range(rq) \cup Sleepers
      /\ Range(rq) \cap Sleepers = {}
      /\ Live \cap Range(eq) = {}

\* The identifier table and the TCBs agree: no identifier is shared by two
\* threads, or reused before its thread has exited, and no entry of the table
\* points to freed memory (thread_create, thread_kill, thread_exit).
TableExact ==
    Active => \A t \in TCB :
        /\ t \in Live => status[t] # "FREE" /\ threads[tid[t]] = t
        /\ status[t] # "FREE" => t \in Live \cup Range(eq)
        /\ \A i \in Tid : threads[i] = t => tid[t] = i

\* A killed thread never gets back to its own code, nor can it take a lock: the
\* check at the end of every switch (thread_yield, thread_sleep, thread_stub)
\* catches it, whatever it was doing when it was killed.
KilledNeverRuns ==
    mode = "run" /\ pc[Cur] \in {"user", "acquire", "join", "alone"} => status[Cur] = "RUNNING"

\* The status field agrees with the queue a thread is in: only the running
\* thread is RUNNING, a thread of the ready queue is never BLOCKED, and one in
\* a wait queue is BLOCKED or killed.
StatusMatchesQueue ==
    Active =>
      /\ \A t \in Range(rq) : status[t] \in {"RUNNING", "READY", "EXITED"}
      /\ \A t \in Sleepers : status[t] \in {"BLOCKED", "EXITED"}
      /\ \A t \in Range(rq) : status[t] = "RUNNING" => t = Cur /\ mode = "run"

\* No wakeup of a lock is lost: while a lock is free nobody sleeps in its queue
\* (lock_acquire tests and sleeps, lock_release frees and wakes, both with
\* interrupts off), so lock_destroy never frees a sleeping thread either.
FreeLockNoSleepers ==
    \A l \in Lock : ~locked[l] => wq[l] = <<>>

\* A thread suspended in thread_wait is in the queue of the very thread it
\* asked for, and that thread has not exited: an identifier cannot pass to a
\* new thread while somebody waits for the old one.
WaitersHaveTarget ==
    Active => \A i \in Tid : \A t \in Range(waitq[i]) :
        pc[t] = "join" /\ want[t] # NULL /\ want[t] = threads[i]

\* A thread_wait that did suspend its caller returns only once the thread it
\* waited for has exited, also when its identifier has been given to a new one.
SleptJoinMeansExited ==
    [][\A t \in TCB : pc[t] = "join" /\ pc'[t] = "user" /\ mode' = "run"
                          => want[t] \notin Live]_vars

\* While the thread that acquired a lock is alive, nobody else releases the
\* lock or takes it, although the owner is recorded by its identifier only and
\* identifiers are reused (lock_acquire, lock_release, cv_wait).
OnlyHolderReleases ==
    [][\A l \in Lock : holder[l] \in TCB /\ holder'[l] # holder[l] => holder[l] = Cur]_vars

\* Nobody sleeps in a condition variable while holding the lock it will acquire
\* again: with everybody else in that lock's queue, the last thread would spin
\* in lock_acquire for ever (cv_wait, lock_release, lock_acquire).
CvSleepersHoldNoLock ==
    Active => \A c \in CV : \A t \in Range(wq[c]) :
        want[t] \in Lock /\ holder[want[t]] # t

\* No thread of the ready queue starves under the timer, whatever the other
\* threads yield to: thread_yield(tid) never moves a third thread backwards.
NoStarvation ==
    \A t \in TCB : t \in Range(rq) ~> (~Active \/ t = Cur)

-----------------------------------------------------------------------------
(* What the comments of the code say, and the code does not do *)

\* thread.c, clear_queue: "Frees all nodes in the given queue" (each node that
\* is in it, once).
NoDoubleFree == mode # "ub"
=============================================================================
