-------------------------- MODULE WebServerProofs --------------------------
(***************************************************************************)
(* Theorems about the threads of the web server, for any number of workers *)
(* and any size of the buffer.                                             *)
(***************************************************************************)
EXTENDS WebServer, SequenceTheorems, TLAPS

\* The remainder of the index arithmetic (in + 1) % max_size is a slot.
LEMMA NextSlot == \A i \in Slot : (i + 1) % max_size \in Slot
  BY WebServerAssumption DEF Slot, max_size

\* The initial state, with and without workers.
LEMMA InitTypes == Init => TypeOK
<1> SUFFICES ASSUME Init PROVE TypeOK
  OBVIOUS
<1> USE WebServerAssumption DEF Init, TypeOK
<1>1. 0 \in Conn /\ 0 \in Slot BY DEF Conn, Slot
<1>2. CASE buffered BY <1>1, <1>2
<1>3. CASE ~buffered BY <1>1, <1>3
<1> QED BY <1>2, <1>3

\* Counting a connection as served keeps the type of the history.
LEMMA CountType ==
    ASSUME NEW f \in [1 .. MaxConn -> Nat], NEW c \in Conn
    PROVE  [f EXCEPT ![c] = @ + 1] \in [1 .. MaxConn -> Nat]
<1>1. \A x \in 1 .. MaxConn : [f EXCEPT ![c] = @ + 1][x] \in Nat
  OBVIOUS
<1>2. DOMAIN [f EXCEPT ![c] = @ + 1] = 1 .. MaxConn
  OBVIOUS
<1>3. [f EXCEPT ![c] = @ + 1] = [x \in 1 .. MaxConn |-> [f EXCEPT ![c] = @ + 1][x]]
  BY Zenon, <1>2
<1> QED BY <1>1, <1>3

\* The assignment to a slot keeps the type of the array, wherever the slot is.
LEMMA StoreType ==
    ASSUME TypeOK, Store
    PROVE  /\ requests' \in [Slot -> Conn]
           /\ slack' = slack /\ early' = early /\ overrun' \in BOOLEAN
<1>1. PICK c \in Conn : requests' = [requests EXCEPT ![in] = c] BY DEF Store
<1> QED BY <1>1 DEF Store, TypeOK

\* The state of the threads has its type, in server_init, add_request,
\* take_request and server_exit, undefined behaviour included.  The indices of the
\* ring buffer stay within 0 .. max_requests, whoever advances them: at most one
\* past the array of max_requests elements.
THEOREM TypeCorrect == Spec => []TypeOK
<1>1. Init => TypeOK
  BY InitTypes
<1>2. TypeOK /\ [Next]_vars => TypeOK'
  <2> SUFFICES ASSUME TypeOK, [Next]_vars PROVE TypeOK'
    OBVIOUS
  <2> USE DEF TypeOK
  <2>1. CASE MainStep
    <3>1. CASE init_cond BY <3>1 DEF init_cond, bufVars, undefVars
    <3>2. CASE init_mutex BY <3>2 DEF init_mutex, bufVars, undefVars
    <3>3. CASE accept BY <3>3, WebServerAssumption DEF accept, bufVars, undefVars, Conn
    <3>4. CASE set_exiting BY <3>4 DEF set_exiting, bufVars, undefVars
    <3>5. CASE serve_inline BY <3>5, CountType DEF serve_inline, bufVars, undefVars
    <3>6. CASE add_wait BY <3>6 DEF add_wait, bufVars, undefVars
    <3>7. CASE add_request BY <3>7, NextSlot, StoreType DEF add_request
    <3>8. CASE broadcast_exit BY <3>8 DEF broadcast_exit, bufVars, undefVars
    <3>9. CASE join_workers BY <3>9 DEF join_workers, bufVars, undefVars
    <3>10. CASE free_server BY <3>10 DEF free_server, bufVars, undefVars
    <3>11. CASE serve_endless BY <3>11 DEF serve_endless, bufVars, undefVars
    <3> QED BY <2>1, <3>1, <3>2, <3>3, <3>4, <3>5, <3>6, <3>7, <3>8, <3>9, <3>10, <3>11
            DEF MainAdds, MainStep, MainServes, MainExits
  <2>2. CASE spurious_main BY <2>2 DEF spurious_main, bufVars, undefVars
  <2>3. ASSUME NEW w \in Worker, WorkerStep(w) \/ spurious_wakeup(w) PROVE TypeOK'
    <3>1. CASE worker_loop(w) BY <3>1 DEF worker_loop, Goto, bufVars, undefVars
    <3>2. CASE take_lock(w) BY <3>2 DEF take_lock, Goto, bufVars, undefVars
    <3>3. CASE take_empty(w) BY <3>3 DEF take_empty, Goto, bufVars, undefVars
    <3>4. CASE take_wait(w) BY <3>4 DEF take_wait, Goto, bufVars, undefVars
    <3>5. CASE spurious_wakeup(w) BY <3>5 DEF spurious_wakeup, Goto, bufVars, undefVars
    <3>6. CASE take_request(w) BY <3>6, NextSlot DEF take_request, Goto, undefVars
    <3>7. CASE test_exiting(w) BY <3>7 DEF test_exiting, Goto, bufVars, undefVars
    <3>8. CASE do_server_request(w) BY <3>8, CountType DEF do_server_request, Goto, bufVars, undefVars
    <3>9. CASE request_endless(w) BY <3>9 DEF request_endless, Goto, bufVars, undefVars
    <3>10. CASE early_lock(w) BY <3>10 DEF early_lock, Abort, Goto, bufVars, undefVars
    <3> QED BY <2>3, <3>1, <3>2, <3>3, <3>4, <3>5, <3>6, <3>7, <3>8, <3>9, <3>10 DEF WorkerStep
  <2>4. CASE Terminated \/ UNCHANGED vars BY <2>4 DEF Terminated, vars
  <2>5. CASE overrun_crash BY <2>5 DEF overrun_crash, Abort, bufVars, undefVars
  <2> QED BY <2>1, <2>2, <2>3, <2>4, <2>5 DEF Next
<1> QED BY <1>1, <1>2, PTL DEF Spec

-----------------------------------------------------------------------------
(* The invariant below holds as long as no worker was early, before and      *)
(* after server_init has set up the lock.                                    *)

\* Before server_init is done no worker has come past the lock.
StartInv ==
    mpc \in {"init_cond", "init_mutex"} =>
        /\ ~exiting /\ lock = NULL /\ emptyW = {}
        /\ \A w \in Worker : wpc[w] \in {"loop", "lock"}

\* Whoever is between the lock and the unlock of take_request holds the lock.
Exclusion == \A w \in Worker : wpc[w] \in {"check", "wait"} => lock = w

\* A worker about to call pthread_cond_wait has seen an empty buffer, and it
\* still is: whoever changes the buffer needs the lock.
AboutToWait == \A w \in Worker : wpc[w] = "wait" /\ ~exiting => in = out

IInv == /\ StartInv /\ AboutToWait /\ Exclusion
        /\ ~exiting /\ emptyW # {} => in = out
        /\ mpc = "full" => Full

\* server_init establishes the inductive invariant.
LEMMA IInvInit == Init => IInv
<1> SUFFICES ASSUME Init PROVE IInv
  OBVIOUS
<1> USE WebServerAssumption DEF Init, IInv, StartInv, AboutToWait, Exclusion
<1>1. CASE buffered BY <1>1
<1>2. CASE ~buffered BY <1>2
<1> QED BY <1>1, <1>2

\* Undefined behaviour is not taken back.
LEMMA UndefStays == ASSUME [Next]_vars, TypeOK PROVE (early => early') /\ (overrun => overrun')
<1> USE DEF TypeOK
<1>1. CASE MainStep
  <2>1. CASE add_request BY <2>1 DEF add_request, Store
  <2>2. CASE ~add_request
    BY <1>1, <2>2 DEF MainStep, MainServes, MainAdds, MainExits, init_cond, init_mutex, accept,
       set_exiting, serve_inline, serve_endless, add_wait, broadcast_exit, join_workers,
       free_server, undefVars
  <2> QED BY <2>1, <2>2
<1>2. CASE spurious_main \/ overrun_crash
  BY <1>2 DEF spurious_main, overrun_crash, undefVars
<1>3. ASSUME NEW w \in Worker, WorkerStep(w) \/ spurious_wakeup(w)
      PROVE (early => early') /\ (overrun => overrun')
  BY <1>3 DEF WorkerStep, worker_loop, take_lock, early_lock, take_empty, take_wait,
     spurious_wakeup, take_request, test_exiting, do_server_request, request_endless, undefVars
<1>4. CASE Terminated \/ UNCHANGED vars BY <1>4 DEF Terminated, vars
<1> QED BY <1>1, <1>2, <1>3, <1>4 DEF Next

\* Every step of the main thread and of the workers preserves it, except that of a
\* worker that is early.
LEMMA IInvStep == ASSUME TypeOK, IInv, TypeOK', ~early', [Next]_vars PROVE IInv'
<1> USE WebServerAssumption
    DEF IInv, TypeOK, StartInv, AboutToWait, Exclusion, Full
<1>1. CASE MainStep
  <2>1. CASE init_cond BY <2>1 DEF init_cond, bufVars
  <2>2. CASE init_mutex BY <2>2 DEF init_mutex, bufVars
  <2>3. CASE accept BY <2>3 DEF accept, bufVars
  <2>4. CASE set_exiting BY <2>4 DEF set_exiting, bufVars
  <2>5. CASE serve_inline BY <2>5 DEF serve_inline, bufVars
  <2>6. CASE add_wait BY <2>6 DEF add_wait, bufVars
  <2>7. CASE add_request
    <3>1. \A w \in Worker : wpc[w] \notin {"check", "wait"} /\ wpc'[w] \notin {"check", "wait"}
      BY <2>7 DEF add_request
    <3> QED BY <2>7, <3>1 DEF add_request
  <2>8. CASE broadcast_exit BY <2>8 DEF broadcast_exit, bufVars
  <2>9. CASE join_workers BY <2>9 DEF join_workers, bufVars
  <2>10. CASE free_server BY <2>10 DEF free_server, bufVars
  <2>11. CASE serve_endless BY <2>11 DEF serve_endless, bufVars
  <2> QED BY <1>1, <2>1, <2>2, <2>3, <2>4, <2>5, <2>6, <2>7, <2>8, <2>9, <2>10, <2>11
          DEF MainStep, MainServes, MainAdds, MainExits
<1>2. CASE spurious_main BY <1>2 DEF spurious_main, bufVars
<1>3. ASSUME NEW w \in Worker, WorkerStep(w) \/ spurious_wakeup(w) PROVE IInv'
  <2>1. CASE worker_loop(w) BY <2>1 DEF worker_loop, Goto, bufVars
  <2>2. CASE take_lock(w) BY <2>2 DEF take_lock, Goto, bufVars
  <2>3. CASE take_empty(w) BY <2>3 DEF take_empty, Goto, bufVars
  <2>4. CASE take_wait(w) BY <2>4 DEF take_wait, Goto, bufVars
  <2>5. CASE spurious_wakeup(w) BY <2>5 DEF spurious_wakeup, Goto, bufVars
  <2>6. CASE take_request(w) BY <2>6 DEF take_request, Goto
  <2>7. CASE test_exiting(w) BY <2>7 DEF test_exiting, Goto, bufVars
  <2>8. CASE do_server_request(w) BY <2>8 DEF do_server_request, Goto, bufVars
  <2>9. CASE request_endless(w) BY <2>9 DEF request_endless, Goto, bufVars
  <2>10. ~early_lock(w) BY DEF early_lock
  <2> QED BY <1>3, <2>1, <2>2, <2>3, <2>4, <2>5, <2>6, <2>7, <2>8, <2>9, <2>10 DEF WorkerStep
<1>4. CASE Terminated \/ UNCHANGED vars BY <1>4 DEF Terminated, vars
<1>5. CASE overrun_crash BY <1>5 DEF overrun_crash, Abort, bufVars
<1> QED BY <1>1, <1>2, <1>3, <1>4, <1>5 DEF Next

\* The inductive invariant holds as long as no worker is early.
LEMMA IInvHolds == Spec => [](early \/ IInv)
<1>1. Init => (early \/ IInv) BY IInvInit
<1>2. TypeOK /\ TypeOK' /\ (early \/ IInv) /\ [Next]_vars => (early \/ IInv)'
  <2> SUFFICES ASSUME TypeOK, TypeOK', early \/ IInv, [Next]_vars PROVE early' \/ IInv'
    OBVIOUS
  <2>1. CASE early BY <2>1, UndefStays
  <2>2. CASE ~early BY <2>2, IInvStep
  <2> QED BY <2>1, <2>2
<1> QED BY <1>1, <1>2, TypeCorrect, PTL DEF Spec

\* add_request loses no wakeup of a worker, unless one was early.
THEOREM NoWorkerWakeupLost == Spec => []WorkersWaitOnlyWhenEmpty
<1>1. (early \/ IInv) => WorkersWaitOnlyWhenEmpty BY DEF IInv, WorkersWaitOnlyWhenEmpty
<1> QED BY IInvHolds, <1>1, PTL

\* And take_request loses no wakeup of the main thread.
THEOREM NoMainWakeupLost == Spec => []MainWaitsOnlyWhenFull
<1>1. (early \/ IInv) => MainWaitsOnlyWhenFull BY DEF IInv, MainWaitsOnlyWhenFull
<1> QED BY IInvHolds, <1>1, PTL
-----------------------------------------------------------------------------
(* The ring buffer as a sequence. *)

\* How many slots are filled, for indices i (in) and o (out).
Filled(i, o) == (i - o + max_size) % max_size

\* The slot of the k-th oldest connection.
At(o, k) == (o + k - 1) % max_size

\* The remainders of the index arithmetic, without the operator %.
LEMMA FilledValue ==
    ASSUME NEW i \in Slot, NEW o \in Slot
    PROVE  /\ Filled(i, o) = IF i < o THEN i - o + max_size ELSE i - o
           /\ Filled(i, o) \in 0 .. MaxRequests
<1>1. MaxRequests \in Nat /\ max_size \in Nat /\ max_size = MaxRequests + 1
  BY WebServerAssumption DEF max_size
<1>2. CASE i < o
  <2>1. i - o + max_size \in 0 .. max_size - 1 BY <1>1, <1>2 DEF Slot
  <2> QED BY <1>1, <1>2, <2>1 DEF Filled
<1>3. CASE ~(i < o)
  <2>1. i - o + max_size \in max_size .. 2 * max_size - 1 BY <1>1, <1>3 DEF Slot
  <2>2. (i - o + max_size) % max_size = i - o BY <1>1, <2>1 DEF Slot
  <2> QED BY <1>1, <1>3, <2>2 DEF Filled, Slot
<1> QED BY <1>2, <1>3

LEMMA AtValue ==
    ASSUME NEW o \in Slot, NEW k \in 1 .. max_size
    PROVE  /\ At(o, k) = IF o + k - 1 < max_size THEN o + k - 1 ELSE o + k - 1 - max_size
           /\ At(o, k) \in Slot
<1>1. MaxRequests \in Nat /\ max_size \in Nat /\ max_size = MaxRequests + 1
  BY WebServerAssumption DEF max_size
<1>2. o + k - 1 \in 0 .. 2 * max_size - 1 BY <1>1 DEF Slot
<1> QED BY <1>1, <1>2 DEF At, Slot

LEMMA NextValue ==
    ASSUME NEW i \in Slot
    PROVE  (i + 1) % max_size = IF i = MaxRequests THEN 0 ELSE i + 1
<1>1. MaxRequests \in Nat /\ max_size \in Nat /\ max_size = MaxRequests + 1
  BY WebServerAssumption DEF max_size
<1> QED BY <1>1 DEF Slot

\* add_request fills the slot after the youngest one.
LEMMA AddFills ==
    ASSUME NEW i \in Slot, NEW o \in Slot, Filled(i, o) # MaxRequests,
           NEW i2, i2 = (i + 1) % max_size
    PROVE  /\ Filled(i2, o) = Filled(i, o) + 1
           /\ At(o, Filled(i, o) + 1) = i
           /\ \A k \in 1 .. Filled(i, o) : At(o, k) # i
<1>1. MaxRequests \in Nat /\ max_size \in Nat /\ max_size = MaxRequests + 1
  BY WebServerAssumption DEF max_size
<1>2. i2 \in Slot /\ i2 = IF i = MaxRequests THEN 0 ELSE i + 1 BY NextValue, NextSlot
<1>3. Filled(i, o) \in 0 .. MaxRequests - 1 BY <1>1, FilledValue
<1>4. Filled(i2, o) = Filled(i, o) + 1
  <2>1. /\ Filled(i, o) = IF i < o THEN i - o + max_size ELSE i - o
        /\ Filled(i2, o) = IF i2 < o THEN i2 - o + max_size ELSE i2 - o
    BY <1>2, FilledValue
  <2> QED BY <1>1, <1>2, <1>3, <2>1 DEF Slot
<1>5. \A k \in 1 .. Filled(i, o) + 1 :
        At(o, k) = IF o + k - 1 < max_size THEN o + k - 1 ELSE o + k - 1 - max_size
  BY <1>1, <1>3, AtValue
<1>6. Filled(i, o) = IF i < o THEN i - o + max_size ELSE i - o BY FilledValue
<1>7. At(o, Filled(i, o) + 1) = i BY <1>1, <1>3, <1>5, <1>6 DEF Slot
<1>8. \A k \in 1 .. Filled(i, o) : At(o, k) # i BY <1>1, <1>3, <1>5, <1>6 DEF Slot
<1> QED BY <1>4, <1>7, <1>8

\* take_request empties the oldest slot.
LEMMA TakeEmpties ==
    ASSUME NEW i \in Slot, NEW o \in Slot, i # o, NEW o2, o2 = (o + 1) % max_size
    PROVE  /\ Filled(i, o2) = Filled(i, o) - 1
           /\ Filled(i, o) \in 1 .. MaxRequests
           /\ At(o, 1) = o
           /\ \A k \in 1 .. Filled(i, o2) : At(o2, k) = At(o, k + 1)
<1>1. MaxRequests \in Nat /\ max_size \in Nat /\ max_size = MaxRequests + 1
  BY WebServerAssumption DEF max_size
<1>2. o2 \in Slot /\ o2 = IF o = MaxRequests THEN 0 ELSE o + 1 BY NextValue, NextSlot
<1>3. /\ Filled(i, o) = IF i < o THEN i - o + max_size ELSE i - o
      /\ Filled(i, o) \in 0 .. MaxRequests
      /\ Filled(i, o2) = IF i < o2 THEN i - o2 + max_size ELSE i - o2
      /\ Filled(i, o2) \in 0 .. MaxRequests
  BY <1>2, FilledValue
<1>4. Filled(i, o2) = Filled(i, o) - 1 /\ Filled(i, o) \in 1 .. MaxRequests
  BY <1>1, <1>2, <1>3 DEF Slot
<1>5. At(o, 1) = o
  <2>1. 1 \in 1 .. max_size BY <1>1
  <2> QED BY <1>1, <2>1, AtValue DEF Slot
<1>6. ASSUME NEW k \in 1 .. Filled(i, o2) PROVE At(o2, k) = At(o, k + 1)
  <2>1. k \in 1 .. max_size /\ k + 1 \in 1 .. max_size BY <1>1, <1>3, <1>4
  <2>2. /\ At(o2, k) = IF o2 + k - 1 < max_size THEN o2 + k - 1 ELSE o2 + k - 1 - max_size
        /\ At(o, k + 1) = IF o + (k + 1) - 1 < max_size THEN o + (k + 1) - 1
                          ELSE o + (k + 1) - 1 - max_size
    BY <1>2, <2>1, AtValue
  <2> QED BY <1>1, <1>2, <2>1, <2>2 DEF Slot
<1> QED BY <1>4, <1>5, <1>6

\* The contents of the buffer r between the indices o and i.
Ring(i, o, r) == [k \in 1 .. Filled(i, o) |-> r[At(o, k)]]

LEMMA RingType ==
    ASSUME NEW i \in Slot, NEW o \in Slot, NEW r \in [Slot -> Conn]
    PROVE  /\ Ring(i, o, r) \in Seq(Conn) /\ Len(Ring(i, o, r)) = Filled(i, o)
           /\ \A k \in 1 .. Filled(i, o) : Ring(i, o, r)[k] = r[At(o, k)]
<1>1. Filled(i, o) \in 0 .. MaxRequests /\ MaxRequests \in Nat /\ max_size = MaxRequests + 1
  BY FilledValue, WebServerAssumption DEF max_size
<1>2. \A k \in 1 .. Filled(i, o) : At(o, k) \in Slot
  BY <1>1, AtValue
<1>3. \A k \in 1 .. Filled(i, o) : r[At(o, k)] \in Conn BY <1>2
<1>4. Filled(i, o) \in Nat BY <1>1
<1> QED BY <1>3, <1>4 DEF Ring

\* add_request appends the connection c.
LEMMA RingAdd ==
    ASSUME NEW i \in Slot, NEW o \in Slot, NEW r \in [Slot -> Conn], NEW c \in Conn,
           Filled(i, o) # MaxRequests, NEW i2, i2 = (i + 1) % max_size,
           NEW r2 \in [Slot -> Conn], r2[i] = c, \A j \in Slot \ {i} : r2[j] = r[j]
    PROVE  Ring(i2, o, r2) = Append(Ring(i, o, r), c)
<1> DEFINE n == Filled(i, o)
           s == Ring(i, o, r)
           t == Ring(i2, o, r2)
<1>1. n \in 0 .. MaxRequests /\ MaxRequests \in Nat /\ max_size = MaxRequests + 1
  BY FilledValue, WebServerAssumption DEF max_size
<1>2. Filled(i2, o) = n + 1 /\ At(o, n + 1) = i /\ \A k \in 1 .. n : At(o, k) # i BY AddFills
<1>3. i2 \in Slot /\ r2 \in [Slot -> Conn] BY NextSlot
<1>4. s \in Seq(Conn) /\ Len(s) = n /\ \A k \in 1 .. n : s[k] = r[At(o, k)] BY RingType
<1>5. t \in Seq(Conn) /\ Len(t) = n + 1 /\ \A k \in 1 .. n + 1 : t[k] = r2[At(o, k)]
  <2>1. /\ t \in Seq(Conn) /\ Len(t) = Filled(i2, o)
        /\ \A k \in 1 .. Filled(i2, o) : t[k] = r2[At(o, k)]
    BY ONLY <1>3, RingType, o \in Slot
  <2> HIDE DEF n, t
  <2> QED BY <1>2, <2>1
<1>6. \A k \in 1 .. n : At(o, k) \in Slot BY <1>1, AtValue
<1> HIDE DEF n, s, t
<1>7. /\ Append(s, c) \in Seq(Conn) /\ Len(Append(s, c)) = n + 1
      /\ \A k \in 1 .. n + 1 : Append(s, c)[k] = IF k = n + 1 THEN c ELSE s[k]
  BY <1>1, <1>4
<1>8. \A k \in 1 .. n + 1 : t[k] = Append(s, c)[k]
  <2>1. ASSUME NEW k \in 1 .. n PROVE r2[At(o, k)] = r[At(o, k)] BY <1>2, <1>6
  <2>2. r2[At(o, n + 1)] = c BY <1>2
  <2> QED BY <1>1, <1>4, <1>5, <1>7, <2>1, <2>2
<1>9. t = Append(s, c) BY <1>5, <1>7, <1>8, SeqEqual
<1> QED BY <1>9 DEF s, t

\* take_request takes the oldest connection.
LEMMA RingTake ==
    ASSUME NEW i \in Slot, NEW o \in Slot, NEW r \in [Slot -> Conn], i # o,
           NEW o2, o2 = (o + 1) % max_size
    PROVE  /\ Ring(i, o, r) # <<>> /\ Head(Ring(i, o, r)) = r[o]
           /\ Ring(i, o2, r) = Tail(Ring(i, o, r))
<1> DEFINE n == Filled(i, o)
           s == Ring(i, o, r)
           t == Ring(i, o2, r)
<1>1. /\ n \in 1 .. MaxRequests /\ MaxRequests \in Nat /\ Filled(i, o2) = n - 1
      /\ At(o, 1) = o /\ \A k \in 1 .. n - 1 : At(o2, k) = At(o, k + 1)
  BY TakeEmpties, WebServerAssumption
<1>2. o2 \in Slot BY NextSlot
<1>3. s \in Seq(Conn) /\ Len(s) = n /\ \A k \in 1 .. n : s[k] = r[At(o, k)] BY RingType
<1>4. t \in Seq(Conn) /\ Len(t) = n - 1 /\ \A k \in 1 .. n - 1 : t[k] = r[At(o2, k)]
  <2>1. /\ t \in Seq(Conn) /\ Len(t) = Filled(i, o2)
        /\ \A k \in 1 .. Filled(i, o2) : t[k] = r[At(o2, k)]
    BY <1>2, RingType
  <2> HIDE DEF n, t
  <2> QED BY <1>1, <2>1
<1> HIDE DEF n, s, t
<1>5. s # <<>> BY <1>1, <1>3
<1>6. Head(s) = r[o] BY <1>1, <1>3, <1>5
<1>7. /\ Tail(s) \in Seq(Conn) /\ Len(Tail(s)) = n - 1
      /\ \A k \in 1 .. n - 1 : Tail(s)[k] = s[k + 1]
  BY <1>1, <1>3, <1>5
<1>8. ASSUME NEW k \in 1 .. n - 1 PROVE t[k] = Tail(s)[k]
  <2>1. k + 1 \in 1 .. n BY <1>1
  <2>2. s[k + 1] = r[At(o, k + 1)] BY <1>3, <2>1
  <2>3. t[k] = r[At(o2, k)] /\ At(o2, k) = At(o, k + 1) BY <1>1, <1>4
  <2>4. Tail(s)[k] = s[k + 1] BY <1>7
  <2> QED BY <2>2, <2>3, <2>4
<1>9. t = Tail(s) BY <1>4, <1>7, <1>8, SeqEqual
<1> QED BY <1>5, <1>6, <1>9 DEF s, t

-----------------------------------------------------------------------------
(* The refinement of RequestQueue. *)

\* server_exit is what sets exiting.
ExitPc == exiting <=> mpc \in {"broadcast", "join", "free", "end", "crash"}

\* There is a connection to add or to serve.
Accepted == mpc \in {"add", "full", "serve", "stuck"} => accepted >= 1

\* Only a worker in pthread_cond_wait is woken.
Asleep == \A w \in emptyW : wpc[w] = "asleep"

\* A worker never goes on to serve with a connfd from a slot that was never written.
Holding ==
    \A w \in Worker :
        wpc[w] \in {"serve", "stuck"} \/ (wpc[w] = "test" /\ ~exiting) => connfd[w] # 0

\* The filled slots of the buffer hold connections.
RingFilled == ~exiting => \A k \in 1 .. Len(Content) : Content[k] # 0

RInv == TypeOK /\ IInv /\ ExitPc /\ Accepted /\ Asleep /\ Holding /\ RingFilled

\* What Content says of the variables, now and after a step.
LEMMA ContentIsRing ==
    /\ Content = Ring(in, out, requests)
    /\ Content' = Ring(in', out', requests')
    /\ Full <=> Filled(in, out) = MaxRequests
<1>1. max_size = MaxRequests + 1 /\ MaxRequests \in Nat
  BY WebServerAssumption DEF max_size
<1>2. Content = Ring(in, out, requests) /\ Content' = Ring(in', out', requests')
  BY Zenon DEF Content, Ring, Filled, At
<1>3. Full <=> Filled(in, out) = MaxRequests
  BY <1>1 DEF Full, Filled
<1> QED BY <1>2, <1>3

\* add_request appends the connection to what the buffer holds.
LEMMA AddContent ==
    ASSUME TypeOK, add_request, ~overrun'
    PROVE  /\ Content \in Seq(Conn) /\ Len(Content) < MaxRequests
           /\ Content' = Append(Content, accepted)
<1>1. in \in Slot /\ out \in Slot /\ requests \in [Slot -> Conn] /\ accepted \in Conn
  BY DEF TypeOK
<1>2. /\ in' = (in + 1) % max_size /\ out' = out
      /\ requests' = [requests EXCEPT ![in] = accepted]
      /\ Filled(in, out) # MaxRequests
  BY ContentIsRing DEF add_request, Store
<1>3. Ring(in', out', requests') = Append(Ring(in, out, requests), accepted)
  <2>1. /\ requests' \in [Slot -> Conn] /\ requests'[in] = accepted
        /\ \A j \in Slot \ {in} : requests'[j] = requests[j]
    BY <1>1, <1>2
  <2>2. /\ in' = (in + 1) % max_size /\ out' = out /\ Filled(in, out) # MaxRequests
    BY <1>2
  <2> QED BY ONLY <1>1, <2>1, <2>2, RingAdd
<1>4. /\ Ring(in, out, requests) \in Seq(Conn)
      /\ Len(Ring(in, out, requests)) = Filled(in, out)
  BY <1>1, RingType
<1>5. Filled(in, out) \in 0 .. MaxRequests /\ MaxRequests \in Nat
  BY <1>1, FilledValue, WebServerAssumption
<1> QED BY <1>2, <1>3, <1>4, <1>5, ContentIsRing

\* take_request takes the oldest connection, if the buffer is not empty.
LEMMA TakeContent ==
    ASSUME TypeOK, NEW w \in Worker, take_request(w), in # out
    PROVE  /\ Content \in Seq(Conn) /\ Content # <<>>
           /\ Head(Content) = requests[out]
           /\ Content' = Tail(Content)
<1>1. in \in Slot /\ out \in Slot /\ requests \in [Slot -> Conn]
  BY DEF TypeOK
<1>2. out' = (out + 1) % max_size /\ in' = in /\ requests' = requests
  BY DEF take_request
<1>3. /\ Ring(in, out, requests) # <<>> /\ Head(Ring(in, out, requests)) = requests[out]
      /\ Ring(in', out', requests') = Tail(Ring(in, out, requests))
  BY <1>1, <1>2, RingTake
<1>4. Ring(in, out, requests) \in Seq(Conn)
  BY <1>1, RingType
<1> QED BY <1>3, <1>4, ContentIsRing

\* Who does not touch the buffer leaves its contents alone.
LEMMA SameContent == UNCHANGED bufVars => Content' = Content
  BY Zenon DEF bufVars, Content

\* server_init: the buffer is empty.
LEMMA EmptyContent == ASSUME Init PROVE Content = <<>>
<1>1. in = 0 /\ out = 0 /\ 0 \in Slot
  BY WebServerAssumption DEF Init, Slot
<1>2. MaxRequests \in Nat /\ max_size = MaxRequests + 1
  BY WebServerAssumption DEF max_size
<1>3. Filled(0, 0) = 0
  BY <1>1, <1>2, FilledValue
<1>4. requests \in [Slot -> Conn] BY InitTypes DEF TypeOK
<1>5. Content \in Seq(Conn) /\ Len(Content) = 0
  BY <1>1, <1>3, <1>4, RingType, ContentIsRing
<1> QED BY <1>5

\* The invariant of the refinement holds at first.
LEMMA RInvInit == Init => RInv
<1> SUFFICES ASSUME Init PROVE RInv
  OBVIOUS
<1>1. IInv /\ TypeOK BY IInvInit, InitTypes
<1>2. \A k \in 1 .. Len(Content) : Content[k] # 0 BY EmptyContent
<1>3. CASE buffered
  BY <1>1, <1>2, <1>3 DEF RInv, ExitPc, Accepted, Asleep, Holding, RingFilled, Init
<1>4. CASE ~buffered
  BY <1>1, <1>2, <1>4 DEF RInv, ExitPc, Accepted, Asleep, Holding, RingFilled, Init
<1> QED BY <1>3, <1>4

\* Every step without undefined behaviour preserves it.
LEMMA RInvStep ==
    ASSUME RInv, ~early, ~overrun, ~early', ~overrun', TypeOK', IInv', [Next]_vars PROVE RInv'
<1> USE WebServerAssumption
    DEF RInv, IInv, TypeOK, ExitPc, Accepted, Asleep, Holding, RingFilled
<1>1. CASE MainStep
  <2>1. CASE init_cond BY <2>1, SameContent DEF init_cond
  <2>2. CASE init_mutex BY <2>2, SameContent DEF init_mutex
  <2>3. CASE accept BY <2>3, SameContent, SMTT(30) DEF accept, Conn
  <2>4. CASE set_exiting BY <2>4 DEF set_exiting
  <2>5. CASE serve_inline BY <2>5, SameContent DEF serve_inline
  <2>6. CASE add_wait BY <2>6, SameContent DEF add_wait
  <2>7. CASE add_request
    <3>1. /\ ExitPc' /\ Accepted' /\ Asleep' /\ Holding'
      BY <2>7 DEF add_request
    <3>2. accepted # 0 /\ ~exiting BY <2>7 DEF add_request, Conn
    <3>3. Content \in Seq(Conn) /\ Content' = Append(Content, accepted) BY <2>7, AddContent
    <3>4. \A k \in 1 .. Len(Content) : Content[k] # 0 BY <3>2
    <3>5. \A k \in 1 .. Len(Content') : Content'[k] # 0
      BY ONLY <3>2, <3>3, <3>4, accepted \in Conn
    <3> QED BY <3>1, <3>5
  <2>8. CASE broadcast_exit BY <2>8 DEF broadcast_exit
  <2>9. CASE join_workers BY <2>9 DEF join_workers
  <2>10. CASE free_server BY <2>10 DEF free_server
  <2>11. CASE serve_endless BY <2>11, SameContent DEF serve_endless
  <2> QED BY <1>1, <2>1, <2>2, <2>3, <2>4, <2>5, <2>6, <2>7, <2>8, <2>9, <2>10, <2>11
          DEF MainStep, MainServes, MainAdds, MainExits
<1>2. CASE spurious_main BY <1>2, SameContent DEF spurious_main
<1>3. ASSUME NEW w \in Worker, WorkerStep(w) \/ spurious_wakeup(w) PROVE RInv'
  <2>1. CASE worker_loop(w) BY <2>1, SameContent DEF worker_loop, Goto
  <2>2. CASE take_lock(w) BY <2>2, SameContent DEF take_lock, Goto
  <2>3. CASE take_empty(w) BY <2>3, SameContent DEF take_empty, Goto
  <2>4. CASE take_wait(w) BY <2>4, SameContent DEF take_wait, Goto
  <2>5. CASE spurious_wakeup(w) BY <2>5, SameContent DEF spurious_wakeup, Goto
  <2>6. CASE take_request(w)
    <3>1. ExitPc' /\ Accepted' /\ Asleep' BY <2>6 DEF take_request, Goto
    <3>2. CASE exiting BY <2>6, <3>1, <3>2 DEF take_request, Goto
    <3>3. CASE ~exiting
      <4>1. /\ Content \in Seq(Conn) /\ Content # <<>>
            /\ Head(Content) = requests[out] /\ Content' = Tail(Content)
        BY <2>6, <3>3, TakeContent DEF take_request
      <4>2. \A k \in 1 .. Len(Content) : Content[k] # 0 BY <3>3
      <4>3. \A k \in 1 .. Len(Content') : Content'[k] # 0 BY ONLY <4>1, <4>2
      <4>4. requests[out] # 0 BY ONLY <4>1, <4>2
      <4>5. Holding' BY <2>6, <3>3, <4>4 DEF take_request, Goto
      <4> QED BY <3>1, <4>3, <4>5
    <3> QED BY <3>2, <3>3
  <2>7. CASE test_exiting(w) BY <2>7, SameContent DEF test_exiting, Goto
  <2>8. CASE do_server_request(w) BY <2>8, SameContent DEF do_server_request, Goto
  <2>9. CASE request_endless(w) BY <2>9, SameContent DEF request_endless, Goto
  <2>10. ~early_lock(w) BY DEF early_lock
  <2> QED BY <1>3, <2>1, <2>2, <2>3, <2>4, <2>5, <2>6, <2>7, <2>8, <2>9, <2>10 DEF WorkerStep
<1>4. CASE Terminated \/ UNCHANGED vars
  <2>1. UNCHANGED vars BY <1>4 DEF Terminated
  <2> QED BY <2>1, SameContent DEF vars, bufVars
<1>5. ~overrun_crash BY DEF overrun_crash
<1> QED BY <1>1, <1>2, <1>3, <1>4, <1>5 DEF Next

\* It holds as long as nothing undefined has been done.
LEMMA RInvHolds == Spec => [](early \/ overrun \/ RInv)
<1>1. Init => (early \/ overrun \/ RInv) BY RInvInit
<1>2. /\ TypeOK /\ TypeOK' /\ (early \/ IInv)' /\ (early \/ overrun \/ RInv) /\ [Next]_vars
      => (early \/ overrun \/ RInv)'
  <2> SUFFICES ASSUME TypeOK, TypeOK', early' \/ IInv', early \/ overrun \/ RInv, [Next]_vars,
                      ~early', ~overrun'
               PROVE RInv'
    OBVIOUS
  <2>1. ~early /\ ~overrun BY UndefStays
  <2> QED BY <2>1, RInvStep
<1> QED BY <1>1, <1>2, IInvHolds, TypeCorrect, PTL DEF Spec

\* The state of the abstract queue.
QAccepted == IF mpc \in {"add", "full"} THEN accepted - 1 ELSE accepted
QQueue == IF exiting THEN <<>> ELSE Content

\* The initial states map to initial states.
LEMMA InitQueue == Init => Queue!QInit
<1> SUFFICES ASSUME Init PROVE Queue!QInit
  OBVIOUS
<1>1. Content = <<>> BY EmptyContent
<1>2. /\ mpc \notin {"add", "full", "serve", "stuck"} /\ accepted = 0 /\ ~exiting
      /\ served = [c \in 1 .. MaxConn |-> 0] /\ exiting = FALSE
      /\ \A w \in Worker : wpc[w] \notin {"serve", "stuck", "test"}
  BY DEF Init
<1>3. InHand = [s \in Worker \cup {Main} |-> 0]
  BY <1>2 DEF InHand
<1> QED BY <1>1, <1>2, <1>3 DEF Queue!QInit

\* A step that changes nothing the abstract queue shows.
LEMMA QueueStutters ==
    ASSUME QAccepted' = QAccepted, QQueue' = QQueue, InHand' = InHand,
           served' = served, exiting' = exiting
    PROVE  UNCHANGED Queue!qvars
  BY DEF Queue!qvars, QAccepted, QQueue

\* Only what the server s has in hand changes.
LEMMA HandOf ==
    ASSUME NEW s \in Worker \cup {Main}, NEW c, InHand'[s] = c,
           \A u \in (Worker \cup {Main}) \ {s} : InHand'[u] = InHand[u]
    PROVE  InHand' = [InHand EXCEPT ![s] = c]
<1>1. /\ InHand = [u \in Worker \cup {Main} |-> InHand[u]]
      /\ InHand' = [u \in Worker \cup {Main} |-> InHand'[u]]
  BY DEF InHand
<1> QED BY <1>1

\* accept, without a buffer, puts the connection into the hands of the main thread.
LEMMA AcceptRefines ==
    ASSUME RInv, accept
    PROVE  Queue!PutInHand \/ UNCHANGED Queue!qvars
<1> USE DEF RInv, IInv, TypeOK, ExitPc
<1>1. Content' = Content /\ mpc = "poll" /\ exiting' = exiting /\ ~exiting /\ served' = served
  BY SameContent DEF accept
<1>2. CASE buffered
  <2>1. mpc' = "add" /\ accepted' = accepted + 1 /\ accepted \in Nat
    BY <1>2 DEF accept, Conn
  <2>2. QAccepted' = QAccepted /\ QQueue' = QQueue
    BY <1>1, <2>1 DEF QAccepted, QQueue
  <2>3. InHand' = InHand BY <1>1, <2>1 DEF InHand, accept
  <2> QED BY <1>1, <2>2, <2>3, QueueStutters
<1>3. CASE ~buffered
  <2>1. mpc' = "serve" /\ accepted' = accepted + 1 /\ accepted < MaxConn
    BY <1>3 DEF accept
  <2>2. InHand[Main] = 0 BY <1>1 DEF InHand
  <2>3. InHand' = [InHand EXCEPT ![Main] = accepted']
    <3>1. InHand'[Main] = accepted' BY <1>1, <2>1 DEF InHand
    <3>2. \A u \in (Worker \cup {Main}) \ {Main} : InHand'[u] = InHand[u]
      BY <1>1, <2>1 DEF InHand, accept
    <3> QED BY <3>1, <3>2, HandOf
  <2> QED BY <1>1, <2>1, <2>2, <2>3 DEF Queue!PutInHand
<1> QED BY <1>2, <1>3

\* serve_inline serves it.
LEMMA InlineRefines ==
    ASSUME RInv, serve_inline
    PROVE  Queue!Serve(Main)
<1> USE DEF RInv, IInv, TypeOK, ExitPc
<1>1. /\ Content' = Content /\ mpc = "serve" /\ mpc' = "poll" /\ accepted' = accepted
      /\ exiting' = exiting /\ ~exiting
      /\ served' = [served EXCEPT ![accepted] = @ + 1]
  BY SameContent DEF serve_inline
<1>2. InHand[Main] = accepted /\ accepted # 0
  BY <1>1 DEF InHand, Accepted, Conn
<1>3. InHand' = [InHand EXCEPT ![Main] = 0]
  <2>1. InHand'[Main] = 0 BY <1>1 DEF InHand
  <2>2. \A u \in (Worker \cup {Main}) \ {Main} : InHand'[u] = InHand[u]
    BY <1>1 DEF InHand, serve_inline
  <2> QED BY <2>1, <2>2, HandOf
<1> QED BY <1>1, <1>2, <1>3 DEF Queue!Serve

\* add_request puts the connection into the queue.
LEMMA AddRefines ==
    ASSUME RInv, add_request, ~overrun'
    PROVE  Queue!Put
<1> USE DEF RInv, IInv, TypeOK, ExitPc
<1>1. /\ mpc = "add" /\ mpc' = "poll" /\ accepted' = accepted
      /\ exiting' = exiting /\ ~exiting /\ served' = served
  BY DEF add_request
<1>2. /\ Content \in Seq(Conn) /\ Len(Content) < MaxRequests
      /\ Content' = Append(Content, accepted)
  BY AddContent
<1>3. accepted \in Nat /\ accepted - 1 < MaxConn /\ accepted = (accepted - 1) + 1
  BY WebServerAssumption DEF Conn
<1>4. \A w \in Worker : \/ wpc'[w] = wpc[w]
                        \/ wpc[w] = "asleep" /\ wpc'[w] = "lock"
  <2>1. CASE in = out BY <2>1 DEF add_request, Asleep
  <2>2. CASE in # out BY <2>2 DEF add_request
  <2> QED BY <2>1, <2>2
<1>5. InHand' = InHand
  BY <1>1, <1>4 DEF InHand, add_request
<1> QED BY <1>1, <1>2, <1>3, <1>5 DEF Queue!Put

\* set_exiting closes the queue; who had taken a request and not yet tested
\* exiting drops it.
LEMMA ExitRefines ==
    ASSUME RInv, set_exiting
    PROVE  Queue!Close
<1> USE DEF RInv, IInv, TypeOK, ExitPc
<1> DEFINE D == {w \in Worker : wpc[w] = "test"}
<1>1. /\ mpc = "poll" /\ mpc' \in {"broadcast", "free"} /\ accepted' = accepted
      /\ ~exiting /\ exiting' = TRUE /\ served' = served
  BY DEF set_exiting
<1>2. D \in SUBSET (Worker \cup {Main}) OBVIOUS
<1>3. InHand' = [s \in Worker \cup {Main} |-> IF s \in D THEN 0 ELSE InHand[s]]
  BY <1>1, WebServerAssumption DEF InHand, set_exiting
<1> QED BY <1>1, <1>2, <1>3 DEF Queue!Close

\* broadcast_exit moves only sleepers.
LEMMA BroadcastRefines ==
    ASSUME RInv, broadcast_exit
    PROVE  UNCHANGED Queue!qvars
<1> USE DEF RInv, IInv, TypeOK, ExitPc
<1>1. /\ mpc = "broadcast" /\ mpc' = "join" /\ accepted' = accepted
      /\ exiting' = exiting /\ exiting /\ served' = served
  BY DEF broadcast_exit
<1>2. \A w \in Worker : wpc'[w] \in {"serve", "stuck"} <=> wpc[w] \in {"serve", "stuck"}
  BY DEF broadcast_exit, Asleep
<1>3. InHand' = InHand
  BY <1>1, <1>2 DEF InHand, broadcast_exit
<1>4. QAccepted' = QAccepted /\ QQueue' = QQueue
  BY <1>1 DEF QAccepted, QQueue
<1> QED BY <1>1, <1>3, <1>4, QueueStutters

\* take_request takes from the queue, unless the server exits.
LEMMA TakeRefines ==
    ASSUME RInv, NEW w \in Worker, take_request(w)
    PROVE  Queue!Take(w) \/ UNCHANGED Queue!qvars
<1> USE DEF RInv, IInv, TypeOK, ExitPc
<1>1. /\ mpc' \in {"add", "full"} <=> mpc \in {"add", "full"}
      /\ mpc' \in {"serve", "stuck"} <=> mpc \in {"serve", "stuck"}
      /\ accepted' = accepted /\ exiting' = exiting /\ served' = served
      /\ w # Main
  BY WebServerAssumption DEF take_request
<1>2. QAccepted' = QAccepted BY <1>1 DEF QAccepted
<1>3. /\ wpc[w] = "check" /\ wpc' = [wpc EXCEPT ![w] = "test"]
      /\ connfd' = [connfd EXCEPT ![w] = requests[out]]
  BY DEF take_request, Goto
<1>4. CASE exiting
  <2>1. InHand' = InHand BY <1>1, <1>3, <1>4 DEF InHand
  <2>2. QQueue' = QQueue BY <1>1, <1>4 DEF QQueue
  <2> QED BY <1>1, <1>2, <2>1, <2>2, QueueStutters
<1>5. CASE ~exiting
  <2>1. /\ Content \in Seq(Conn) /\ Content # <<>>
        /\ Head(Content) = requests[out] /\ Content' = Tail(Content)
    BY <1>5, TakeContent DEF take_request
  <2>2. InHand[w] = 0 BY <1>1, <1>3 DEF InHand
  <2>3. InHand' = [InHand EXCEPT ![w] = requests[out]]
    BY <1>1, <1>3, <1>5 DEF InHand
  <2> QED BY <1>1, <1>2, <1>5, <2>1, <2>2, <2>3 DEF Queue!Take, QAccepted
<1> QED BY <1>4, <1>5

\* do_server_request serves what the worker has in hand.
LEMMA ServeRefines ==
    ASSUME RInv, NEW w \in Worker, do_server_request(w)
    PROVE  Queue!Serve(w)
<1> USE DEF RInv, IInv, TypeOK, ExitPc
<1>1. /\ Content' = Content /\ mpc' = mpc /\ accepted' = accepted /\ exiting' = exiting
      /\ served' = [served EXCEPT ![connfd[w]] = @ + 1]
      /\ wpc[w] = "serve" /\ wpc' = [wpc EXCEPT ![w] = "loop"] /\ connfd' = connfd
      /\ w # Main
  BY SameContent, WebServerAssumption DEF do_server_request, Goto
<1>2. InHand[w] = connfd[w] /\ connfd[w] # 0
  BY <1>1 DEF InHand, Holding
<1>3. InHand' = [InHand EXCEPT ![w] = 0]
  <2>1. InHand'[w] = 0 BY <1>1 DEF InHand
  <2>2. \A u \in (Worker \cup {Main}) \ {w} : InHand'[u] = InHand[u] BY <1>1 DEF InHand
  <2> QED BY <2>1, <2>2, HandOf
<1> QED BY <1>1, <1>2, <1>3 DEF Queue!Serve

\* Every other step leaves the queue and what is in hand alone.
LEMMA OtherStutters ==
    ASSUME RInv,
           \/ init_cond \/ init_mutex \/ serve_endless \/ add_wait \/ join_workers \/ free_server
           \/ spurious_main \/ UNCHANGED vars
           \/ \E w \in Worker : \/ worker_loop(w) \/ take_lock(w) \/ take_empty(w)
                                \/ take_wait(w) \/ spurious_wakeup(w) \/ test_exiting(w)
                                \/ request_endless(w)
    PROVE  UNCHANGED Queue!qvars
<1> USE DEF RInv, IInv, TypeOK
<1>1. Content' = Content /\ accepted' = accepted /\ exiting' = exiting /\ served' = served
  <2>1. UNCHANGED bufVars
    BY DEF init_cond, init_mutex, serve_endless, add_wait, join_workers, free_server, spurious_main, vars,
           worker_loop, take_lock, take_empty, take_wait, spurious_wakeup, test_exiting,
           request_endless, bufVars
  <2>2. accepted' = accepted /\ exiting' = exiting /\ served' = served
    BY DEF init_cond, init_mutex, serve_endless, add_wait, join_workers, free_server, spurious_main, vars,
           worker_loop, take_lock, take_empty, take_wait, spurious_wakeup, test_exiting,
           request_endless
  <2> QED BY <2>1, <2>2, SameContent
<1>2. /\ mpc' \in {"add", "full"} <=> mpc \in {"add", "full"}
      /\ mpc' \in {"serve", "stuck"} <=> mpc \in {"serve", "stuck"}
  BY DEF init_cond, init_mutex, serve_endless, add_wait, join_workers, free_server, spurious_main, vars,
         worker_loop, take_lock, take_empty, take_wait, spurious_wakeup, test_exiting,
           request_endless
<1>3. QAccepted' = QAccepted /\ QQueue' = QQueue
  BY <1>1, <1>2 DEF QAccepted, QQueue
<1>4. connfd' = connfd
  BY DEF init_cond, init_mutex, serve_endless, add_wait, join_workers, free_server, spurious_main, vars,
         worker_loop, take_lock, take_empty, take_wait, spurious_wakeup, test_exiting,
           request_endless
<1>5. ASSUME NEW u \in Worker
      PROVE  (wpc'[u] \in {"serve", "stuck"} \/ (wpc'[u] = "test" /\ ~exiting)) <=>
             (wpc[u] \in {"serve", "stuck"} \/ (wpc[u] = "test" /\ ~exiting))
  <2>1. CASE \/ init_cond \/ init_mutex \/ serve_endless \/ add_wait \/ join_workers \/ free_server
             \/ spurious_main \/ UNCHANGED vars
    BY <2>1 DEF init_cond, init_mutex, serve_endless, add_wait, join_workers, free_server, spurious_main, vars
  <2>2. ASSUME NEW w \in Worker,
               \/ worker_loop(w) \/ take_lock(w) \/ take_empty(w)
               \/ take_wait(w) \/ spurious_wakeup(w) \/ test_exiting(w)
                                \/ request_endless(w)
        PROVE  (wpc'[u] \in {"serve", "stuck"} \/ (wpc'[u] = "test" /\ ~exiting)) <=>
               (wpc[u] \in {"serve", "stuck"} \/ (wpc[u] = "test" /\ ~exiting))
    BY <2>2 DEF worker_loop, take_lock, take_empty, take_wait, spurious_wakeup,
                test_exiting, request_endless, Goto
  <2> QED BY <2>1, <2>2
<1>6. InHand' = InHand
  BY <1>1, <1>2, <1>4, <1>5 DEF InHand
<1> QED BY <1>1, <1>3, <1>6, QueueStutters

\* Every step is a step of the queue, or a stutter.
LEMMA StepRefines ==
    ASSUME RInv, ~early', ~overrun, ~overrun', [Next]_vars
    PROVE  [Queue!QNext]_(Queue!qvars)
<1>1. CASE accept BY <1>1, AcceptRefines DEF Queue!QNext
<1>2. CASE serve_inline BY <1>2, InlineRefines DEF Queue!QNext
<1>3. CASE add_request BY <1>3, AddRefines DEF Queue!QNext
<1>4. CASE set_exiting BY <1>4, ExitRefines DEF Queue!QNext
<1>5. CASE broadcast_exit BY <1>5, BroadcastRefines
<1>6. ASSUME NEW w \in Worker, take_request(w) PROVE [Queue!QNext]_(Queue!qvars)
  BY <1>6, TakeRefines DEF Queue!QNext
<1>7. ASSUME NEW w \in Worker, do_server_request(w) PROVE [Queue!QNext]_(Queue!qvars)
  BY <1>7, ServeRefines DEF Queue!QNext
<1>8. CASE \/ init_cond \/ init_mutex \/ serve_endless \/ add_wait \/ join_workers \/ free_server
           \/ spurious_main \/ UNCHANGED vars
           \/ \E w \in Worker : \/ worker_loop(w) \/ take_lock(w) \/ take_empty(w)
                                \/ take_wait(w) \/ spurious_wakeup(w) \/ test_exiting(w)
                                \/ request_endless(w)
  BY <1>8, OtherStutters
<1>9. ~overrun_crash /\ \A w \in Worker : ~early_lock(w) BY DEF overrun_crash, early_lock
<1> QED BY <1>1, <1>2, <1>3, <1>4, <1>5, <1>6, <1>7, <1>8, <1>9
        DEF Next, MainStep, MainServes, MainAdds, MainExits, WorkerStep, Terminated

\* The ring buffer with its workers and its exit implements the bounded queue
\* of RequestQueue, until a worker has used the uninitialised lock or a request
\* was stored past the array: connections leave in the order they came, none is
\* lost or served twice before the server exits, and at most max_requests wait.
THEOREM RingBufferIsQueue == Spec => ImplementsQueue
<1>1. Init => Queue!QInit BY InitQueue
<1>2. TypeOK /\ (early \/ overrun \/ RInv) /\ [Next]_vars
      => [early' \/ overrun' \/ Queue!QNext]_(Queue!qvars)
  <2> SUFFICES ASSUME TypeOK, early \/ overrun \/ RInv, [Next]_vars, ~early', ~overrun'
               PROVE  [Queue!QNext]_(Queue!qvars)
    OBVIOUS
  <2>1. ~early /\ ~overrun BY UndefStays
  <2> QED BY <2>1, StepRefines
<1> QED BY <1>1, <1>2, RInvHolds, TypeCorrect, PTL DEF Spec, ImplementsQueue

=============================================================================
