----------------------------- MODULE WebServer -----------------------------
(***************************************************************************)
(* The threads of the web server: the main thread of webserver/server.c,   *)
(* the worker threads, the ring buffer of requests between them, and the   *)
(* start and exit of the server (webserver/server_thread.c).               *)
(*                                                                         *)
(* A critical section of sv->lock is one step, except where the code reads *)
(* sv->exiting, which the main thread writes without the lock: a worker    *)
(* tests its waiting condition in one step (pc "check") and calls          *)
(* pthread_cond_wait in another (pc "wait").  What do_server_request does  *)
(* with the connection is the subject of modules FileCache and Http.       *)
(*                                                                         *)
(* Two things the code does are undefined behaviour, and the model goes on *)
(* with the outcomes they can have: a worker uses sv->lock before          *)
(* server_init has initialised it (early), and a request is stored past    *)
(* the end of the array that server_init allocates (overrun).  Properties  *)
(* that hold only without them say so.                                     *)
(***************************************************************************)
EXTENDS Integers, Sequences, FiniteSets

CONSTANTS
    Worker,       \* the worker threads
    MaxRequests,  \* max_requests, the capacity asked for
    MaxConn,      \* bound: connections accepted in a behaviour
    NULL,         \* nobody holds the lock
    Main          \* the main thread

ASSUME WebServerAssumption ==
    /\ Worker # {} /\ IsFiniteSet(Worker)
    /\ MaxRequests \in Nat \ {0}
    /\ MaxConn \in Nat
    /\ NULL \notin Worker
    /\ Main \notin Worker

VARIABLES
    buffered,   \* nr_threads > 0 and max_requests > 0
    mpc,        \* where the main thread is
    accepted,   \* history: connections accepted so far, numbered from 1
    in, out,    \* indices of the ring buffer
    requests,   \* its slots; 0 in a slot that was never written
    lock,       \* the worker that holds sv->lock; the main thread holds it within a step
    emptyW,     \* the workers waiting on cv_empty
    exiting,    \* sv->exiting
    wpc,        \* wpc[w]: where worker w is
    connfd,     \* connfd[w]: the local variable of take_request
    served,     \* history: how often each connection was served
    slack,      \* malloc has rounded the array up by an element or more
    early,      \* history: a worker has used sv->lock before it was initialised
    overrun     \* history: a request was stored in memory that is not the array's

vars == <<buffered, mpc, accepted, in, out, requests, lock, emptyW, exiting, wpc,
          connfd, served, slack, early, overrun>>
bufVars == <<in, out, requests>>
undefVars == <<slack, early, overrun>>

max_size == MaxRequests + 1
Past == MaxRequests       \* server_init allocates max_requests elements: this is one too far
Slot == 0 .. MaxRequests  \* the indices that add_request and take_request use
Conn == 0 .. MaxConn

\* The indices stay below max_size, whoever advances them, although not all of
\* them are inside the array; the other variables have their types.
TypeOK ==
    /\ buffered \in BOOLEAN
    /\ mpc \in {"init_cond", "init_mutex", "poll", "add", "full", "serve", "broadcast",
                "join", "free", "end", "crash", "stuck"}
    /\ accepted \in Conn
    /\ in \in Slot /\ out \in Slot
    /\ requests \in [Slot -> Conn]
    /\ lock \in Worker \cup {NULL}
    /\ emptyW \in SUBSET Worker
    /\ exiting \in BOOLEAN
    /\ wpc \in [Worker -> {"loop", "lock", "check", "wait", "asleep", "test", "serve", "stuck", "done"}]
    /\ connfd \in [Worker -> Conn]
    /\ served \in [1 .. MaxConn -> Nat]
    /\ slack \in BOOLEAN /\ early \in BOOLEAN /\ overrun \in BOOLEAN

\* server_init, after the workers were created: the arguments decide whether there
\* are a buffer and workers at all, and malloc how much room the array has.
Init ==
    /\ buffered \in BOOLEAN
    /\ mpc = IF buffered THEN "init_cond" ELSE "poll"
    /\ accepted = 0
    /\ in = 0 /\ out = 0
    /\ requests = [i \in Slot |-> 0]
    /\ lock = NULL
    /\ emptyW = {}
    /\ exiting = FALSE
    /\ wpc = [w \in Worker |-> IF buffered THEN "loop" ELSE "done"]
    /\ connfd = [w \in Worker |-> 0]
    /\ served = [c \in 1 .. MaxConn |-> 0]
    /\ slack \in BOOLEAN
    /\ early = FALSE /\ overrun = FALSE

\* Mutant: the test forgets that the indices wrap around.
Full_flat == in - out = max_size - 1

\* The test for a full buffer, in add_request and take_request.
Full == (in - out + max_size) % max_size = max_size - 1

-----------------------------------------------------------------------------
(* The main thread *)

\* server_init, after pthread_create: pthread_cond_init forgets who waits ...
init_cond ==
    /\ mpc = "init_cond"
    /\ mpc' = "init_mutex"
    /\ emptyW' = {}
    /\ UNCHANGED <<buffered, undefVars, accepted, bufVars, lock, exiting, wpc, connfd, served>>

\* ... and pthread_mutex_init who holds the lock.
init_mutex ==
    /\ mpc = "init_mutex"
    /\ mpc' = "poll"
    /\ lock' = NULL
    /\ UNCHANGED <<buffered, undefVars, accepted, bufVars, emptyW, exiting, wpc, connfd, served>>

\* main: a client connects.  server_request serves it, or goes to add_request.
accept ==
    /\ mpc = "poll"
    /\ accepted < MaxConn
    /\ accepted' = accepted + 1
    /\ mpc' = IF buffered THEN "add" ELSE "serve"
    /\ UNCHANGED <<buffered, undefVars, bufVars, lock, emptyW, exiting, wpc, connfd, served>>

\* server_request without workers: do_server_request in the main thread.
serve_inline ==
    /\ mpc = "serve"
    /\ served' = [served EXCEPT ![accepted] = @ + 1]
    /\ mpc' = "poll"
    /\ UNCHANGED <<buffered, undefVars, accepted, bufVars, lock, emptyW, exiting, wpc, connfd>>

\* ... unless there is no end to it: request_read_headers loops for ever when the
\* client closes before the empty line.
serve_endless ==
    /\ mpc = "serve"
    /\ mpc' = "stuck"
    /\ UNCHANGED <<buffered, undefVars, accepted, bufVars, lock, emptyW, exiting, wpc, connfd, served>>

\* add_request, the buffer is full: wait on cv_full.
add_wait ==
    /\ mpc = "add"
    /\ lock = NULL
    /\ Full
    /\ mpc' = "full"
    /\ UNCHANGED <<buffered, undefVars, accepted, bufVars, lock, emptyW, exiting, wpc, connfd, served>>

\* The assignment to requests[in].  Past the array it may hit memory of others:
\* what is read there later may be anything.
Store ==
    /\ overrun' = (overrun \/ (in = Past /\ ~slack))
    /\ \E c \in Conn :
         /\ c = accepted \/ (in = Past /\ ~slack)
         /\ requests' = [requests EXCEPT ![in] = c]
    /\ UNCHANGED <<slack, early>>

\* Mutant: the index does not wrap around.
add_request_flat ==
    /\ mpc = "add"
    /\ lock = NULL
    /\ ~Full
    /\ Store
    /\ wpc' = [w \in Worker |-> IF w \in emptyW THEN "lock" ELSE wpc[w]]
    /\ emptyW' = {}
    /\ in' = in + 1
    /\ mpc' = "poll"
    /\ UNCHANGED <<buffered, accepted, out, lock, exiting, connfd, served>>

\* Mutant: pthread_cond_signal instead of pthread_cond_broadcast.
add_request_signal ==
    /\ mpc = "add"
    /\ lock = NULL
    /\ ~Full
    /\ Store
    /\ IF in = out /\ emptyW # {}
         THEN \E w \in emptyW : /\ wpc' = [wpc EXCEPT ![w] = "lock"]
                                /\ emptyW' = emptyW \ {w}
         ELSE UNCHANGED <<wpc, emptyW>>
    /\ in' = (in + 1) % max_size
    /\ mpc' = "poll"
    /\ UNCHANGED <<buffered, accepted, out, lock, exiting, connfd, served>>

\* add_request: fill the slot, wake the waiting workers if the buffer was empty.
add_request ==
    /\ mpc = "add"
    /\ lock = NULL
    /\ ~Full
    /\ Store
    /\ IF in = out
         THEN /\ wpc' = [w \in Worker |-> IF w \in emptyW THEN "lock" ELSE wpc[w]]
              /\ emptyW' = {}
         ELSE UNCHANGED <<wpc, emptyW>>
    /\ in' = (in + 1) % max_size
    /\ mpc' = "poll"
    /\ UNCHANGED <<buffered, accepted, out, lock, exiting, connfd, served>>

\* POSIX lets pthread_cond_wait return without a wakeup.
spurious_main ==
    /\ mpc = "full"
    /\ mpc' = "add"
    /\ UNCHANGED <<buffered, undefVars, accepted, bufVars, lock, emptyW, exiting, wpc, connfd, served>>

\* main: the exit event; server_exit sets exiting, without the lock ...
set_exiting ==
    /\ mpc = "poll"
    /\ exiting' = TRUE
    /\ mpc' = IF buffered THEN "broadcast" ELSE "free"
    /\ UNCHANGED <<buffered, undefVars, accepted, bufVars, lock, emptyW, wpc, connfd, served>>

\* ... and wakes the workers, without the lock.
broadcast_exit ==
    /\ mpc = "broadcast"
    /\ wpc' = [w \in Worker |-> IF w \in emptyW THEN "lock" ELSE wpc[w]]
    /\ emptyW' = {}
    /\ mpc' = "join"
    /\ UNCHANGED <<buffered, undefVars, accepted, bufVars, lock, exiting, connfd, served>>

\* pthread_join of all workers.
join_workers ==
    /\ mpc = "join"
    /\ \A w \in Worker : wpc[w] = "done"
    /\ mpc' = "free"
    /\ UNCHANGED <<buffered, undefVars, accepted, bufVars, lock, emptyW, exiting, wpc, connfd, served>>

\* server_exit frees buffer.requests and threads, which hold whatever malloc
\* left there when no buffer was made, or that an overrun has damaged: freeing
\* them may crash.
free_server ==
    /\ mpc = "free"
    /\ mpc' \in IF buffered /\ ~overrun THEN {"end"} ELSE {"end", "crash"}
    /\ UNCHANGED <<buffered, undefVars, accepted, bufVars, lock, emptyW, exiting, wpc, connfd, served>>

-----------------------------------------------------------------------------
(* Undefined behaviour *)

\* The process ends, with all its threads.
Abort ==
    /\ mpc' = "crash"
    /\ wpc' = [w \in Worker |-> "done"]
    /\ emptyW' = {}
    /\ lock' = NULL
    /\ UNCHANGED <<buffered, accepted, bufVars, exiting, connfd, served>>

\* After a request was stored in memory that is not the array's, the next use of
\* that memory, or of a descriptor that is none, may end the process.
overrun_crash ==
    /\ overrun
    /\ mpc \notin {"end", "crash"}
    /\ Abort
    /\ UNCHANGED undefVars

-----------------------------------------------------------------------------
(* The workers *)

Goto(w, p) == wpc' = [wpc EXCEPT ![w] = p]

\* worker_thread: while (!sv->exiting), else pthread_exit.
worker_loop(w) ==
    /\ wpc[w] = "loop"
    /\ Goto(w, IF exiting THEN "done" ELSE "lock")
    /\ UNCHANGED <<buffered, undefVars, mpc, accepted, bufVars, lock, emptyW, exiting, connfd, served>>

\* take_request: pthread_mutex_lock, or the return of pthread_cond_wait.
take_lock(w) ==
    /\ wpc[w] = "lock"
    /\ mpc \notin {"init_cond", "init_mutex"}
    /\ lock = NULL
    /\ lock' = w
    /\ Goto(w, "check")
    /\ UNCHANGED <<buffered, undefVars, mpc, accepted, bufVars, emptyW, exiting, connfd, served>>

\* take_request before server_init has come to pthread_mutex_init: the mutex holds
\* whatever malloc left there.  It may let the worker pass, even if it is not the
\* only one, keep it for ever, or end the process.
early_lock(w) ==
    /\ wpc[w] = "lock"
    /\ mpc \in {"init_cond", "init_mutex"}
    /\ early' = TRUE
    /\ \/ /\ lock' = w
          /\ Goto(w, "check")
          /\ UNCHANGED <<buffered, mpc, accepted, bufVars, emptyW, exiting, connfd, served>>
       \/ /\ Goto(w, "stuck")
          /\ UNCHANGED <<buffered, mpc, accepted, bufVars, lock, emptyW, exiting, connfd, served>>
       \/ Abort
    /\ UNCHANGED <<slack, overrun>>

\* take_request: the condition of the loop holds.
take_empty(w) ==
    /\ wpc[w] = "check"
    /\ ~exiting /\ in = out
    /\ Goto(w, "wait")
    /\ UNCHANGED <<buffered, undefVars, mpc, accepted, bufVars, lock, emptyW, exiting, connfd, served>>

\* pthread_cond_wait(&sv->cv_empty): release the lock and wait.
take_wait(w) ==
    /\ wpc[w] = "wait"
    /\ emptyW' = emptyW \cup {w}
    /\ lock' = NULL
    /\ Goto(w, "asleep")
    /\ UNCHANGED <<buffered, undefVars, mpc, accepted, bufVars, exiting, connfd, served>>

\* A worker may wake up without a wakeup, too.
spurious_wakeup(w) ==
    /\ wpc[w] = "asleep"
    /\ emptyW' = emptyW \ {w}
    /\ Goto(w, "lock")
    /\ UNCHANGED <<buffered, undefVars, mpc, accepted, bufVars, lock, exiting, connfd, served>>

\* Mutant: the test for a full buffer comes after the increment of out, and the
\* main thread is never woken.
take_request_late(w) ==
    /\ wpc[w] = "check"
    /\ exiting \/ in # out
    /\ connfd' = [connfd EXCEPT ![w] = requests[out]]
    /\ out' = (out + 1) % max_size
    /\ lock' = NULL
    /\ Goto(w, "test")
    /\ UNCHANGED <<buffered, undefVars, mpc, accepted, in, requests, emptyW, exiting, served>>

\* take_request: read the slot, wake the main thread if the buffer was full,
\* advance, unlock.  When exiting, this happens with an empty buffer too.
take_request(w) ==
    /\ wpc[w] = "check"
    /\ exiting \/ in # out
    /\ connfd' = [connfd EXCEPT ![w] = requests[out]]
    /\ mpc' = IF Full /\ mpc = "full" THEN "add" ELSE mpc
    /\ out' = (out + 1) % max_size
    /\ lock' = NULL
    /\ Goto(w, "test")
    /\ UNCHANGED <<buffered, undefVars, accepted, in, requests, emptyW, exiting, served>>

\* take_request: if (!sv->exiting) do_server_request; otherwise drop the request.
test_exiting(w) ==
    /\ wpc[w] = "test"
    /\ Goto(w, IF exiting THEN "loop" ELSE "serve")
    /\ UNCHANGED <<buffered, undefVars, mpc, accepted, bufVars, lock, emptyW, exiting, connfd, served>>

\* Mutant: the worker ends after its first request.
do_server_request_once(w) ==
    /\ wpc[w] = "serve"
    /\ served' = [served EXCEPT ![connfd[w]] = @ + 1]
    /\ Goto(w, "done")
    /\ UNCHANGED <<buffered, undefVars, mpc, accepted, bufVars, lock, emptyW, exiting, connfd>>

\* The request is served ...
do_server_request(w) ==
    /\ wpc[w] = "serve"
    /\ connfd[w] # 0
    /\ served' = [served EXCEPT ![connfd[w]] = @ + 1]
    /\ Goto(w, "loop")
    /\ UNCHANGED <<buffered, undefVars, mpc, accepted, bufVars, lock, emptyW, exiting, connfd>>

\* ... unless there is no end to it.
request_endless(w) ==
    /\ wpc[w] = "serve"
    /\ connfd[w] # 0
    /\ Goto(w, "stuck")
    /\ UNCHANGED <<buffered, undefVars, mpc, accepted, bufVars, lock, emptyW, exiting, connfd, served>>

-----------------------------------------------------------------------------
\* Nothing happens any more: sv has been freed (or freeing it has crashed), the
\* main thread is stuck in a request, or server_exit joins a worker that is stuck.
Terminated ==
    /\ \/ mpc \in {"end", "crash", "stuck"}
       \/ mpc = "join" /\ \A w \in Worker : wpc[w] \in {"stuck", "done"}
    /\ UNCHANGED vars

MainServes == serve_inline \/ serve_endless
MainAdds == add_wait \/ add_request
MainExits == broadcast_exit \/ join_workers \/ free_server
MainStep == init_cond \/ init_mutex \/ accept \/ set_exiting \/ MainServes \/ MainAdds \/ MainExits

WorkerStep(w) ==
    \/ worker_loop(w) \/ take_lock(w) \/ early_lock(w) \/ take_empty(w) \/ take_wait(w)
    \/ take_request(w) \/ test_exiting(w) \/ do_server_request(w) \/ request_endless(w)

Next ==
    \/ MainStep \/ spurious_main \/ overrun_crash \/ Terminated
    \/ \E w \in Worker : WorkerStep(w) \/ spurious_wakeup(w)

Spec == Init /\ [][Next]_vars

\* The operating system runs every thread that can run, and a mutex that is
\* free again and again is eventually obtained by the main thread; connections
\* and the exit event need not come, and spurious wakeups need not happen.
\* A request that never ends is not excluded: its thread gets stuck.
FairSpec ==
    /\ Spec
    /\ WF_vars(init_cond \/ init_mutex \/ MainServes \/ MainExits)
    /\ SF_vars(MainAdds)
    /\ \A w \in Worker : WF_vars(WorkerStep(w))

-----------------------------------------------------------------------------
(* Properties *)

\* No wakeup of a worker is lost while the server runs: a worker waits on
\* cv_empty only while the buffer is empty, although add_request broadcasts
\* only when it finds the buffer empty.  A worker that used the lock or waited
\* before server_init had initialised them is the exception.
WorkersWaitOnlyWhenEmpty == ~early /\ ~exiting /\ emptyW # {} => in = out

\* No wakeup of the main thread is lost: it waits on cv_full only while the
\* buffer is full, although take_request broadcasts only when it was full;
\* with the same exception.
MainWaitsOnlyWhenFull == ~early /\ mpc = "full" => Full

\* What the ring buffer holds, oldest first, as long as the server runs.
Content ==
    [i \in 1 .. (in - out + max_size) % max_size |-> requests[(out + i - 1) % max_size]]

\* What each thread is serving, or is going to serve; a request taken when the
\* server exits is dropped.
InHand ==
    [s \in Worker \cup {Main} |->
        IF s = Main THEN IF mpc \in {"serve", "stuck"} THEN accepted ELSE 0
        ELSE IF wpc[s] \in {"serve", "stuck"} \/ (wpc[s] = "test" /\ ~exiting)
             THEN connfd[s] ELSE 0]

\* The state of a bounded FIFO queue that the server implements.
Queue == INSTANCE RequestQueue WITH
    Server <- Worker \cup {Main},
    Capacity <- MaxRequests,
    NoConn <- 0,
    accepted <- IF mpc \in {"add", "full"} THEN accepted - 1 ELSE accepted,
    queue <- IF exiting THEN <<>> ELSE Content,
    inHand <- InHand,
    closed <- exiting

\* The ring buffer, the workers and the exit of the server implement a bounded
\* FIFO queue, each connection of which is served at most once: every step is one
\* of the queue, until a worker has used the uninitialised lock or a request was
\* stored past the array in memory of others.  From then on nothing is promised.
ImplementsQueue ==
    Queue!QInit /\ [][early' \/ overrun' \/ Queue!QNext]_(Queue!qvars)

\* The request of connection c never ends, or every worker has such a request.
Endless(c) ==
    \/ mpc = "stuck"
    \/ \E w \in Worker : wpc[w] = "stuck" /\ connfd[w] = c
    \/ \A w \in Worker : wpc[w] = "stuck"

\* Every accepted connection is served, as long as a worker is left that is not
\* kept for ever by a request of others, unless the server exits first or has done
\* one of the two undefined things.
EventuallyServed ==
    \A c \in 1 .. MaxConn :
        accepted >= c ~> (served[c] = 1 \/ Endless(c) \/ exiting \/ early \/ overrun)

-----------------------------------------------------------------------------
(* What the comments of the code say, and the code does not do *)

\* server_exit: "so that the main server thread waits for all the worker
\* threads to exit before exiting": it exits, once they have, also if no worker
\* was early and none is kept for ever by a request.
ExitTerminates ==
    exiting ~> (mpc \in {"end", "crash"} \/ early \/ \E w \in Worker : wpc[w] = "stuck")

\* add_request, take_request: "Acquire lock for mutual exclusion": no two workers
\* are between the lock and the unlock of take_request.
MutualExclusion ==
    \A v, w \in Worker :
        wpc[v] \in {"check", "wait"} /\ wpc[w] \in {"check", "wait"} => v = w
=============================================================================
